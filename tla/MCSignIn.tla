------------------------------- MODULE MCSignIn -------------------------------
(* Small instances of SignIn. *)
EXTENDS SignIn, TLC

CONSTANTS ann, bob, s1, s2

\* The provider gives for one of its accounts the email of a resident.
MCEmailOf == (s1 :> ann) @@ (s2 :> bob)

=============================================================================
