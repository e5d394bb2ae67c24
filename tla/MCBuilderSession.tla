--------------------------- MODULE MCBuilderSession ---------------------------
(* Instances of BuilderSession for TLC. *)
EXTENDS BuilderSession, TLC

CONSTANTS h1, h2, b1, b2, p1

SessionDigests == {Opening(b, n) : b \in Builders, n \in 1 .. MaxNonces}
SessionCommits == {[op |-> "commit", builder_id |-> d.evidence.builder_id,
                    derivation_path |-> Derivation, digest |-> d] : d \in SessionDigests}
SessionReveals == {[op |-> "reveal", round_id |-> r, opening |-> d] :
                     r \in 1 .. MaxRounds, d \in SessionDigests}
SessionPolls == {[op |-> "status", round_id |-> r] : r \in 1 .. MaxRounds}

=============================================================================
