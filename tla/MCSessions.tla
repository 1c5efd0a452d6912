------------------------------ MODULE MCSessions ------------------------------
(* Small instances of Sessions. *)
EXTENDS Sessions, TLC

CONSTANTS u1, b1, b2

An(mustChange, secret, enabled) ==
    [active |-> TRUE, password |-> "mine", mustChange |-> mustChange, secret |-> secret,
     enabled |-> enabled, lastStep |-> None, outdated |-> mustChange]

\* An account that never had a list, one whose secret waits for its first code, one
\* whose authenticator is on, and one handed over with a password to change and an
\* old hash.
MCAccounts ==
    {An(FALSE, None, FALSE), An(FALSE, 1, FALSE), An(FALSE, 1, TRUE), An(TRUE, 1, TRUE)}

Alike == Permutations(Browsers)

=============================================================================
