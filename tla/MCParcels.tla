------------------------------ MODULE MCParcels ------------------------------
(* Values for TLC of the constants of Parcels that a cfg cannot write. *)
EXTENDS Parcels

Halving == {<<1, 2>>}
Uneven == {<<3, 2>>, <<1, 3>>}
Reductions == {-12, 5}
=============================================================================
