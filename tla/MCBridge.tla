------------------------------ MODULE MCBridge ------------------------------
(***************************************************************************)
(* Instances of Bridge for TLC: the connections are interchangeable model  *)
(* values, and the symmetry of their names is used where no liveness is    *)
(* checked.                                                                *)
(***************************************************************************)
EXTENDS Bridge, TLC

Symmetry == Permutations(Clients)
=============================================================================
