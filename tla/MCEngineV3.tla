----------------------------- MODULE MCEngineV3 -----------------------------
(***************************************************************************)
(* Instances of EngineV3 for TLC.                                          *)
(***************************************************************************)
EXTENDS EngineV3, TLC

Symmetry == Permutations(Requests \ Simulated) \cup Permutations(Clients)
=============================================================================
