-------------------------- MODULE MCOutputConsensus --------------------------
(* Instances of OutputConsensus for TLC. *)
EXTENDS OutputConsensus, TLC

CONSTANTS b1, b2, b3, p1, v1, v2

(* A build has one output under a hash. *)
OneOutput == {{v1}, {v2}}

Symmetry == Permutations(Builders) \cup Permutations(Variants)
=============================================================================
