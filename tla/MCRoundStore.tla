---------------------------- MODULE MCRoundStore ----------------------------
(* Instances of RoundStore for TLC. *)
EXTENDS RoundStore, TLC

CONSTANTS h1, h2, b1, b2, b3, p1, p2

(* A digest of a builder's evidence for a path; the nonce tells apart two  *)
(* commitments to one evidence.                                            *)
Digest(b, p, n) == [evidence |-> [builder_id |-> b, derivation_path |-> p], nonce |-> n]

CommitRequest(b, p, d) == [op |-> "commit", builder_id |-> b, derivation_path |-> p,
                           digest |-> d]
RevealRequest(r, d) == [op |-> "reveal", round_id |-> r, opening |-> d]
StatusRequest(r) == [op |-> "status", round_id |-> r]
NoRequests == {}

(* Two builders commit and reveal for one path.  Any request may arrive    *)
(* any number of times, which covers the retries of the builders' client.  *)
HonestDigests == {Digest(b1, p1, 1), Digest(b2, p1, 1)}
HonestCommits == {CommitRequest(d.evidence.builder_id, p1, d) : d \in HonestDigests}
HonestReveals == {RevealRequest(1, d) : d \in HonestDigests}

(* One builder reveals, the other forgets to. *)
LazyReveals == {RevealRequest(1, Digest(b1, p1, 1))}

(* A third builder may come after the first of two has revealed. *)
CrowdDigests == {Digest(b, p1, 1) : b \in {b1, b2, b3}}
CrowdCommits == {CommitRequest(d.evidence.builder_id, p1, d) : d \in CrowdDigests}

(* A builder commits under two nonces, then for the wrong path; it reveals *)
(* with the wrong nonce and for a round that it did not commit in, or that *)
(* does not exist, and it polls.                                           *)
MixedDigests == {Digest(b1, p1, 1), Digest(b1, p1, 2)}
MixedCommits == {CommitRequest(b1, p1, Digest(b1, p1, 1)),
                 CommitRequest(b1, p1, Digest(b1, p1, 2)),
                 CommitRequest(b1, p2, Digest(b1, p1, 1))}
MixedReveals == {RevealRequest(1, Digest(b1, p1, 1)), RevealRequest(1, Digest(b1, p1, 2)),
                 RevealRequest(2, Digest(b1, p1, 1))}
MixedStatuses == {StatusRequest(1)}

Symmetry == Permutations({h1, h2})

(* Of the crowd, only the first builder reveals. *)
CrowdSymmetry == Permutations({h1, h2}) \cup Permutations({b2, b3})
=============================================================================
