------------------------------ MODULE MCGateway ------------------------------
(* An instance of Gateway for TLC. *)
EXTENDS Gateway, TLC

CONSTANTS b1, b2, b3, p1, v1, v2

(* A build has one output under a hash. *)
OneOutput == {{v1}, {v2}}

AlwaysV1(b) == v1

Symmetry == Permutations(Builders \ Reliable)
=============================================================================
