------------------------------ MODULE MCMembers -------------------------------
(* Small instances of Members. *)
EXTENDS Members, TLC

CONSTANTS ann, bob, eve, k1

\* Nobody but the administrator is told apart.
Alike == Permutations(Users \ {Admin})

\* `last` says what a step did and decides nothing.
Tables == <<account, portfolios, role, active, invite, issued, key, pending, edits, joins>>

=============================================================================
