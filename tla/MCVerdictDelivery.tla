------------------------- MODULE MCVerdictDelivery -------------------------
(***************************************************************************)
(* Instances of VerdictDelivery for TLC.                                   *)
(***************************************************************************)
EXTENDS VerdictDelivery, TLC

Symmetry == Permutations(Deliveries) \cup Permutations(Entities) \cup Permutations(Clients)
=============================================================================
