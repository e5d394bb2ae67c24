--------------------------- MODULE OutputConsensus ---------------------------
(***************************************************************************)
(* Which variant of an output the registry approves: approved_output,      *)
(* approved_output_in_round and select_output_consensus of EvidenceStore   *)
(* (crates/server/src/store.rs), for the outputs of one store hash.        *)
(*                                                                         *)
(* A lookup reads in several statements, in this order: the outputs that   *)
(* builders claim under the hash and the rounds they were revealed in;     *)
(* then, round by round, the row, which it advances, and the number of     *)
(* reveals.  The rounds go on meanwhile, as RoundLedger lets them: that    *)
(* the statements of the server do no more is RoundStore's property        *)
(* ImplementsLedger.                                                       *)
(*                                                                         *)
(* A definition marked "Variant" is a plausible mistake in the code and    *)
(* not part of the specification (see RoundStore).                         *)
(***************************************************************************)
EXTENDS Naturals, Sequences, FiniteSets

CONSTANTS
    Builders,         \* builder identifiers
    Paths,            \* derivation paths with an output of this store hash
    Variants,         \* OutputVariant: a store path and its fingerprint
    Claims,           \* evidences: the variants a build claim has for the hash
    Times,            \* values of closed_at
    MinimumBuilders,  \* BinaryCache.minimum_builders
    None,             \* NULL, Option::None
    MaxRounds,        \* bound: rounds that are opened
    MaxCommitments,   \* bound: commitments over all rounds
    MaxMoves          \* bound: steps of other requests during one lookup

ASSUME ConsensusAssumption ==
    /\ Claims \subseteq SUBSET Variants
    /\ Times \subseteq Nat
    /\ MinimumBuilders \in Nat \ {0}
    /\ MaxRounds \in Nat /\ MaxCommitments \in Nat /\ MaxMoves \in Nat
    /\ None \notin Nat /\ None \notin Variants

VARIABLES
    ledger,     \* the rounds with their commitments and evidences
    closed_at,  \* the column closed_at, by round
    lookup,     \* the local state of the lookup
    before,     \* history: ledger and closed_at when the lookup began
    rewritten,  \* history: rounds whose closed_at was written since then
    agreed,     \* history: what closed rounds had agreed on at a time since then
    moves       \* steps of other requests since then (see MaxMoves)

registry == <<ledger, closed_at>>
history == <<before, rewritten, agreed, moves>>
consensusVars == <<registry, lookup, history>>

(* A commitment stands for the evidence it opens to. *)
Evidence(claim) == claim
Rounds == INSTANCE RoundLedger WITH Digests <- Claims

-----------------------------------------------------------------------------
(* The choice of a variant. *)

Fact == [round : Nat, builder : Builders, variant : Variants]

FactsOf(rounds) ==
    {f \in [round : DOMAIN rounds, builder : Builders, variant : Variants] :
       /\ f.builder \in DOMAIN rounds[f.round].published
       /\ f.variant \in rounds[f.round].published[f.builder]}

(* The builders a variant has in a round. *)
VotersFor(facts, r, v) == {f.builder : f \in {g \in facts : g.round = r /\ g.variant = v}}
VariantsIn(facts, r) == {f.variant : f \in {g \in facts : g.round = r}}

Leaders(facts, r) ==
    {v \in VariantsIn(facts, r) :
       \A w \in VariantsIn(facts, r) :
         Cardinality(VotersFor(facts, r, w)) <= Cardinality(VotersFor(facts, r, v))}

(* Variant: the votes of all rounds are counted together. *)
ApprovedOverAllRounds(facts, r) ==
    {v \in Leaders(facts, r) :
       /\ Leaders(facts, r) = {v}
       /\ Cardinality({f.builder : f \in {g \in facts : g.variant = v}}) >= MinimumBuilders}

(* Variant: the first of several leading variants is taken. *)
ApprovedAlsoTied(facts, r) ==
    {v \in Leaders(facts, r) :
       /\ v = CHOOSE w \in Leaders(facts, r) : TRUE
       /\ Cardinality(VotersFor(facts, r, v)) >= MinimumBuilders}

(* The variant that leads alone and has enough builders, if there is one. *)
ApprovedVariants(facts, r) ==
    {v \in Leaders(facts, r) :
       /\ Leaders(facts, r) = {v}
       /\ Cardinality(VotersFor(facts, r, v)) >= MinimumBuilders}

(* (closed_at, id) of two candidates, compared as tuples. *)
Later(x, y) == x.at > y.at \/ (x.at = y.at /\ x.round > y.round)

(* Variant: the first candidate is kept. *)
FirstCandidate(latest, candidate) == IF latest = None THEN candidate ELSE latest

LatestCandidate(latest, candidate) ==
    IF latest = None THEN candidate
    ELSE IF Later(candidate, latest) THEN candidate ELSE latest

-----------------------------------------------------------------------------
(* The lookup. *)

Candidate == [at : Times, round : Nat]
Output == [round : Nat, variant : Variants, sources : SUBSET Builders]

ASSUME NoneAssumption == None \notin Candidate /\ None \notin Output

LookupPC == {"idle", "facts", "find", "advance", "reload", "count", "select", "answered"}

Lookup == [pc : LookupPC, requested : Nat \cup {None}, facts : SUBSET Fact,
           todo : SUBSET Nat, round : Nat \cup {None}, at : Times \cup {None},
           latest : Candidate \cup {None}, approved : Output \cup {None}]

NoLookup == [pc |-> "idle", requested |-> None, facts |-> {}, todo |-> {}, round |-> None,
             at |-> None, latest |-> None, approved |-> None]

LookingAt(pc) == lookup.pc = pc

(* What has been revealed in a closed round by now gives one variant the   *)
(* lead (history: only properties look at it).                             *)
AgreedNow == {x \in [round : DOMAIN ledger, variant : Variants] :
                /\ ledger[x.round].phase = "closed"
                /\ x.variant \in ApprovedVariants(FactsOf(ledger), x.round)}

Remember == /\ before' = [ledger |-> ledger, closed_at |-> closed_at]
            /\ rewritten' = {}
            /\ agreed' = AgreedNow
            /\ moves' = 0
StillAgreed == agreed' = IF LookingAt("idle") THEN {} ELSE agreed \cup AgreedNow'

NoHistory == [ledger |-> <<>>, closed_at |-> <<>>]

Begin(requested) ==
    /\ LookingAt("idle")
    /\ lookup' = [NoLookup EXCEPT !.pc = "facts", !.requested = requested]
    /\ Remember
    /\ UNCHANGED registry

Moves(l) == /\ lookup' = l
            /\ UNCHANGED <<registry, history>>

(* Variant: the requested round is ignored. *)
AllRounds(facts, requested) == {f.round : f \in facts}

RelevantRounds(facts, requested) ==
    {f.round : f \in {g \in facts : requested = None \/ g.round = requested}}

(* One SELECT reads the outputs.  The rows of their claims, evidences and  *)
(* commitments, which it reads next, never change once they are there.     *)
ReadFacts ==
    LET facts == FactsOf(ledger) IN
    /\ LookingAt("facts")
    /\ Moves([lookup EXCEPT !.pc = "find", !.facts = facts,
                            !.todo = RelevantRounds(facts, lookup.requested)])

NextRound(l) == [l EXCEPT !.pc = "find", !.round = None, !.at = None]

(* Round ids are taken in ascending order.  A row that is closed already   *)
(* is read again; advance_round is called on one that is open.             *)
FindRound ==
    /\ LookingAt("find")
    /\ \/ lookup.todo = {} /\ Moves([lookup EXCEPT !.pc = "select"])
       \/ \E r \in lookup.todo :
            /\ \A q \in lookup.todo : r <= q
            /\ Moves([lookup EXCEPT !.todo = @ \ {r}, !.round = r,
                        !.pc = IF ledger[r].phase = "closed" THEN "reload" ELSE "advance"])

(* closed_at is written by whoever decides to close, also a second time. *)
WriteClosedAt(r) ==
    /\ \E t \in Times : closed_at' = [closed_at EXCEPT ![r] = t]
    /\ rewritten' = IF LookingAt("idle") THEN {} ELSE rewritten \cup {r}
    /\ UNCHANGED before
    /\ StillAgreed

Close(r) == Rounds!Close(r) /\ WriteClosedAt(r)
CloseAgain(r) == ledger[r].phase = "closed" /\ UNCHANGED ledger /\ WriteClosedAt(r)

(* Variant: a round that is left open is not skipped. *)
AdvanceRoundAndGoOn ==
    /\ LookingAt("advance")
    /\ Moves([lookup EXCEPT !.pc = "reload"])

(* advance_round leaves an open round open, whoever closes it meanwhile,   *)
(* and it is skipped; or closes it.  (That it may start the reveal phase   *)
(* is one of the steps of Others.)                                         *)
AdvanceRound ==
    /\ LookingAt("advance")
    /\ \/ Moves(NextRound(lookup))
       \/ /\ Close(lookup.round) \/ CloseAgain(lookup.round)
          /\ lookup' = [lookup EXCEPT !.pc = "reload"]
          /\ UNCHANGED moves

ReloadRound ==
    /\ LookingAt("reload")
    /\ Moves([lookup EXCEPT !.pc = "count", !.at = closed_at[lookup.round]])

(* Variant: the commitments of the round are counted. *)
CountRoundCommitments ==
    LET r == lookup.round
        candidate == [at |-> lookup.at, round |-> r]
    IN  /\ LookingAt("count")
        /\ Moves(IF Cardinality(DOMAIN ledger[r].committed) < MinimumBuilders
                 THEN NextRound(lookup)
                 ELSE [NextRound(lookup) EXCEPT
                         !.latest = LatestCandidate(lookup.latest, candidate)])

(* A round with too few reveals is not a candidate. *)
CountRoundReveals ==
    LET r == lookup.round
        candidate == [at |-> lookup.at, round |-> r]
    IN  /\ LookingAt("count")
        /\ Moves(IF Cardinality(DOMAIN ledger[r].published) < MinimumBuilders
                 THEN NextRound(lookup)
                 ELSE [NextRound(lookup) EXCEPT
                         !.latest = LatestCandidate(lookup.latest, candidate)])

(* The answer, with the locations of the evidences that voted for it. *)
Answer(l) == IF l.latest = None THEN {}
             ELSE {[round |-> l.latest.round, variant |-> v,
                    sources |-> VotersFor(l.facts, l.latest.round, v)] :
                     v \in ApprovedVariants(l.facts, l.latest.round)}

Select ==
    /\ LookingAt("select")
    /\ \/ /\ Answer(lookup) = {}
          /\ Moves([lookup EXCEPT !.pc = "answered"])
       \/ \E output \in Answer(lookup) :
            Moves([lookup EXCEPT !.pc = "answered", !.approved = output])

LookupStep == \/ ReadFacts \/ FindRound \/ AdvanceRound \/ ReloadRound
              \/ CountRoundReveals \/ Select

-----------------------------------------------------------------------------
(* What other requests do to the rounds meanwhile. *)

Committed == {x \in (DOMAIN ledger) \X Builders : x[2] \in DOMAIN ledger[x[1]].committed}

OthersMove ==
    \/ /\ Len(ledger) < MaxRounds
       /\ \E path \in Paths : Rounds!Open(path)
       /\ closed_at' = Append(closed_at, None)
       /\ UNCHANGED <<before, rewritten>>
       /\ StillAgreed
    \/ \E r \in DOMAIN ledger :
         /\ \/ Cardinality(Committed) < MaxCommitments /\ Rounds!Join(r)
            \/ Rounds!Begin(r)
            \/ Rounds!Publish(r)
         /\ UNCHANGED <<closed_at, before, rewritten>>
         /\ StillAgreed
    \/ \E r \in DOMAIN ledger : Close(r) \/ CloseAgain(r)

Others == /\ moves < MaxMoves
          /\ moves' = IF LookingAt("idle") THEN 0 ELSE moves + 1
          /\ OthersMove
          /\ UNCHANGED lookup

ConsensusInit ==
    /\ Rounds!Init
    /\ closed_at = <<>>
    /\ lookup = NoLookup
    /\ before = NoHistory
    /\ rewritten = {}
    /\ agreed = {}
    /\ moves = 0

(* The client has its answer. *)
Forget == /\ LookingAt("answered")
          /\ lookup' = NoLookup
          /\ before' = NoHistory /\ rewritten' = {} /\ agreed' = {} /\ moves' = 0
          /\ UNCHANGED registry

ConsensusNext ==
    \/ Others \/ LookupStep \/ Forget
    \/ \E requested \in DOMAIN ledger \cup {None} : Begin(requested)

ConsensusSpec == ConsensusInit /\ [][ConsensusNext]_consensusVars

-----------------------------------------------------------------------------
(* Properties. *)

ConsensusTypeOK ==
    /\ ledger \in Seq(Rounds!Round)
    /\ closed_at \in Seq(Times \cup {None}) /\ Len(closed_at) = Len(ledger)
    /\ \A r \in DOMAIN ledger : ledger[r].phase = "closed" <=> closed_at[r] # None
    /\ lookup \in Lookup
    /\ moves \in 0 .. MaxMoves
    /\ lookup.todo \subseteq DOMAIN ledger /\ lookup.round \in DOMAIN ledger \cup {None}

(* What is approved is backed: "Distinct builders that must agree before a *)
(* narinfo is published" (cli.rs) have revealed this variant in one round, *)
(* which has closed and is the round that was asked for, and the locations *)
(* offered are those of builders that revealed it.                         *)
Backs(r, b, v) == b \in DOMAIN ledger[r].published /\ v \in ledger[r].published[b]

ApprovedIsBacked ==
    LET a == lookup.approved IN
    a # None =>
      /\ a.round \in DOMAIN ledger /\ ledger[a.round].phase = "closed"
      /\ lookup.requested \in {None, a.round}
      /\ \A b \in a.sources : Backs(a.round, b, a.variant)
      /\ Cardinality(a.sources) >= MinimumBuilders

(* A round that had closed with enough reveals, one of them of this        *)
(* output, before the lookup began is not passed over for an earlier one.  *)
Eligible(rounds, r) ==
    /\ rounds[r].phase = "closed"
    /\ Cardinality(DOMAIN rounds[r].published) >= MinimumBuilders
    /\ \E b \in DOMAIN rounds[r].published : rounds[r].published[b] # {}

LatestWins ==
    lookup.approved # None /\ lookup.requested = None =>
      \A r \in DOMAIN before.ledger \ rewritten :
        Eligible(before.ledger, r) =>
          ~ Later([at |-> before.closed_at[r], round |-> r], lookup.latest)

(* When nothing moves during a lookup its answer is the one the tables     *)
(* call for: of the eligible rounds (or the one requested) the last that   *)
(* closed decides, and there more builders than for any other variant, and *)
(* enough of them, must have revealed it.                                  *)
ShouldApprove(r, v) ==
    LET count(w) == Cardinality({b \in Builders : Backs(r, b, w)}) IN
    /\ lookup.requested \in {None, r}
    /\ Eligible(ledger, r)
    /\ lookup.requested = None =>
         \A q \in DOMAIN ledger : Eligible(ledger, q) =>
           ~ Later([at |-> closed_at[q], round |-> q], [at |-> closed_at[r], round |-> r])
    /\ count(v) >= MinimumBuilders
    /\ \A w \in Variants \ {v} : count(w) < count(v)

QuietAnswerIsRight ==
    LookingAt("answered") /\ moves = 0 /\ before = [ledger |-> ledger, closed_at |-> closed_at] =>
      \A r \in DOMAIN ledger, v \in Variants :
        ShouldApprove(r, v) <=> /\ lookup.approved # None
                                /\ lookup.approved.round = r
                                /\ lookup.approved.variant = v

(* "cache_hides_tied_variants_..." (test in api.rs): a variant is approved *)
(* only if its round, closed, had given it the lead over all others at     *)
(* some time during the lookup.                                            *)
ApprovedHadTheLead ==
    lookup.approved # None =>
      [round |-> lookup.approved.round, variant |-> lookup.approved.variant] \in agreed

=============================================================================
