------------------------------- MODULE MCSetup -------------------------------
(* One page on the wizard at a time, over two databases and two timezones:   *)
(* every order of its forms, with restarts and sign-ins anywhere in between. *)
EXTENDS Setup

=============================================================================
