---------------------------- MODULE MCSdkSession ----------------------------
(***************************************************************************)
(* Instances of SdkSession for TLC.                                        *)
(***************************************************************************)
EXTENDS SdkSession, TLC

Symmetry == Permutations(Sessions)
=============================================================================
