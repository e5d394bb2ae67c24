--------------------------- MODULE MCRoundManager ---------------------------
(* Instances of RoundManager for TLC. *)
EXTENDS RoundManager, TLC

CONSTANTS c1, c2, c3, n1, n2

Symmetry == Permutations({c1, c2}) \cup Permutations({n1, n2})
=============================================================================
