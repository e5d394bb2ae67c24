--------------------------------- MODULE Trust ---------------------------------
(***************************************************************************)
(* The trust score that the command line client computes from the facts of *)
(* its round: calculate_trust of crates/cli/src/trust.rs.                  *)
(***************************************************************************)
EXTENDS EvidenceFormat

(* The outputs of a build claim, sorted by name: names come once. *)
OutputSet(e) == LET outputs == BuildClaim(e).outputs IN
                {[output_name |-> outputs[i].output_name, nar_hash |-> outputs[i].nar_hash] :
                   i \in DOMAIN outputs}

(* The variants with their builders; what has no build claim is skipped.   *)
Votes(facts) == {[outputs |-> OutputSet(facts[i]), builder |-> facts[i].builder_id] :
                   i \in {j \in DOMAIN facts : BuildClaims(facts[j]) # {}}}

OutputSets(votes) == {vote.outputs : vote \in votes}
BuildersOf(votes, v) == {vote.builder : vote \in {w \in votes : w.outputs = v}}
Count(votes, v) == Cardinality(BuildersOf(votes, v))

LeadingSets(votes) ==
    {v \in OutputSets(votes) : \A w \in OutputSets(votes) : Count(votes, w) <= Count(votes, v)}

(* Rounded to the nearest, the integer division being done last.           *)
RoundedScore(matching, total) ==
    LET numerator == 100 * matching * (IF matching < 3 THEN matching ELSE 3)
        denominator == 3 * total
    IN  (numerator + denominator \div 2) \div denominator

NoConsensus(status, total) ==
    [status |-> status, score |-> 0, consensus |-> None, matching |-> 0, total |-> total]

Consensus(v, matching, total) ==
    [status |-> "consensus", score |-> RoundedScore(matching, total), consensus |-> v,
     matching |-> matching, total |-> total]

(* Variant: the first of several leading output sets is taken. *)
ScoreWithFirst(votes, total) ==
    IF votes = {} THEN NoConsensus("no_evidence", 0)
    ELSE LET v == CHOOSE w \in LeadingSets(votes) : TRUE IN Consensus(v, Count(votes, v), total)

Score(votes, total) ==
    LET leaders == LeadingSets(votes) IN
    IF votes = {} THEN NoConsensus("no_evidence", 0)
    ELSE IF Cardinality(leaders) # 1 THEN NoConsensus("no_unique_consensus", total)
    ELSE LET v == CHOOSE w \in leaders : TRUE IN Consensus(v, Count(votes, v), total)

CalculateTrust(facts) ==
    LET votes == Votes(facts) IN Score(votes, Cardinality({vote.builder : vote \in votes}))

=============================================================================
