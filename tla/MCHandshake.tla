---------------------------- MODULE MCHandshake ----------------------------
(***************************************************************************)
(* Instances of Handshake for TLC.                                         *)
(***************************************************************************)
EXTENDS Handshake, TLC

Symmetry == Permutations(Sids) \cup Permutations(Handlers)
=============================================================================
