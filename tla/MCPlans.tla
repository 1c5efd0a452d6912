------------------------------- MODULE MCPlans --------------------------------
(* Interchangeable instruments.  Their tickers are one ticker, listed on as   *)
(* many exchanges, so that a form's ticker is of no help.                     *)
EXTENDS Plans, TLC

Listed == [i \in Instruments |-> "BHP"]

Symmetry == Permutations(Instruments)
=============================================================================
