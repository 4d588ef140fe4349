----------------------------- MODULE MCVehicles -----------------------------
(* Vehicles for TLC: the clients are interchangeable model values.         *)
EXTENDS Vehicles, TLC

Symmetry == Permutations(Clients)

=============================================================================
