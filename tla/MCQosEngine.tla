---------------------------- MODULE MCQosEngine ----------------------------
(***************************************************************************)
(* Instances of QosEngine for TLC.  With four ticks to a second and a depth *)
(* of twelve, a rate of 8 has a bucket of 3 bytes that a tick fills with 2, *)
(* and a rate of 3 a bucket of 1 byte that a single tick does not fill.     *)
(***************************************************************************)
EXTENDS QosEngine, TLC

FlowSymmetry == Permutations(Rntis) \cup Permutations(Qfis)
=============================================================================
