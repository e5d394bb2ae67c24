----------------------------- MODULE GatewayProofs -----------------------------
(***************************************************************************)
(* Proofs about Gateway, for whatever the caches answer and whatever the   *)
(* rounds do meanwhile.  The gateway leaves the tables to the lookup, so   *)
(* that the invariant of OutputConsensusProofs holds of it, too.  What is  *)
(* added is how a request relates to the answer of its lookup, which it    *)
(* works with over several steps, and that an issued URL stays true.       *)
(***************************************************************************)
EXTENDS Gateway, OutputConsensusProofs

Good(b, a) == b \in Reliable /\ HeldBy(b) = a.variant

(* A request q and its lookup l.                                           *)
RequestOK(q, l) ==
    /\ q.pc # "idle" => q.kind \in {"narinfo", "nar"} /\ l.requested = q.round
    /\ q.pc \in {"sources", "nar", "replied"} => l.pc = "answered"
    /\ q.pc \in {"sources", "nar"} => l.approved # None
    /\ q.pc = "sources" => q.untried \subseteq l.approved.sources
    /\ q.pc = "sources" /\ q.kind = "narinfo" =>
         \A b \in l.approved.sources : Good(b, l.approved) => b \in q.untried
    /\ q.pc = "sources" /\ q.kind = "nar" => q.untried = {q.location}
    /\ q.pc = "nar" => q.kind = "nar" /\ q.location \in l.approved.sources
    /\ q.pc = "replied" /\ q.kind = "nar" /\ q.reply = "ok" =>
         l.approved # None /\ q.location \in l.approved.sources
    /\ q.pc = "nar" \/ (q.pc = "replied" /\ q.kind = "nar" /\ q.reply = "ok") =>
         q.checked = l.approved.variant
    /\ q.pc = "replied" /\ q.kind = "narinfo" /\ l.approved # None =>
         \A b \in l.approved.sources : Good(b, l.approved) => q.reply = "ok"

(* The URL u has been revealed, in rounds L. *)
UrlOK(u, L) == FactOK([round |-> u.round, builder |-> u.location, variant |-> u.variant], L)

RequestInv(q, l) == q \in Request /\ RequestOK(q, l)
UrlInv(u, L) == u \in Url \cup {None} /\ (u # None => UrlOK(u, L))

GInv == IInv /\ RequestInv(request, lookup) /\ UrlInv(issued, ledger)

-----------------------------------------------------------------------------
(* What an answer of a cache comes to. *)

LEMMA GoodAnswer ==
    ASSUME NEW a, NEW b, Good(b, a), NEW answer \in NarInfoAnswers(b)
    PROVE  FromSource(a, answer) = "ok"
BY DEF Good, NarInfoAnswers, NarInfo, FromSource

LEMMA OkAnswer ==
    ASSUME NEW a, NEW answer, FromSource(a, answer) = "ok"
    PROVE  answer.variant = a.variant
BY DEF FromSource

LEMMA SourceReplies ==
    ASSUME NEW a, NEW answer
    PROVE  FromSource(a, answer) \in {"ok", "not_found", "bad_gateway"}
BY DEF FromSource

LEMMA RepliedOK ==
    ASSUME RequestInv(request, lookup), NEW status \in Replies,
           request.pc # "idle", lookup.pc = "answered",
           request.kind = "nar" /\ status = "ok" =>
             /\ lookup.approved # None /\ request.location \in lookup.approved.sources
             /\ request.checked = lookup.approved.variant,
           request.kind = "narinfo" /\ lookup.approved # None =>
             \A b \in lookup.approved.sources : Good(b, lookup.approved) => status = "ok"
    PROVE  RequestInv(Replied(status), lookup)
<1> DEFINE q == Replied(status)
<1>1. "replied" \in RequestPC
  BY DEF RequestPC
<1>2. q \in Request
  BY <1>1 DEF RequestInv, Request, Replied
<1>3. /\ q.pc = "replied" /\ q.reply = status /\ q.kind = request.kind
      /\ q.round = request.round /\ q.location = request.location
      /\ q.checked = request.checked
  BY DEF RequestInv, Request, Replied
<1> HIDE DEF q
<1>4. RequestOK(q, lookup)
  BY <1>3 DEF RequestInv, RequestOK
<1> QED
  BY <1>2, <1>4 DEF RequestInv, q

-----------------------------------------------------------------------------
(* The steps of a request. *)

LEMMA ApprovedParts ==
    ASSUME IInv, lookup.approved # None
    PROVE  LET a == lookup.approved IN
           /\ a \in Output
           /\ Asked(lookup, a.round)
           /\ \A b \in a.sources :
                FactOK([round |-> a.round, builder |-> b, variant |-> a.variant], ledger)
BY DEF IInv, ConsensusTypeOK, Lookup, LookupOK, OutputOK

LEMMA ApproveOK ==
    ASSUME IInv, RequestInv(request, lookup), Approve
    PROVE  RequestInv(request', lookup)
<1> DEFINE a == lookup.approved
           locations == IF a = None THEN {} ELSE LocationsToTry(request, a.sources)
<1>1. request.pc = "lookup" /\ lookup.pc = "answered"
  BY DEF Approve, RequestAt, LookingAt
<1>2. CASE locations = {} /\ request' = Replied("not_found")
  <2>1. request.kind = "narinfo" /\ a # None => \A b \in a.sources : FALSE
    BY <1>2 DEF LocationsToTry
  <2>2. "not_found" \in Replies
    BY DEF Replies
  <2> QED
    BY <1>1, <1>2, <2>1, <2>2, RepliedOK
<1>3. CASE /\ locations # {}
           /\ request' = [request EXCEPT !.pc = "sources", !.untried = locations]
  <2>1. a # None /\ locations \subseteq a.sources /\ locations \subseteq Builders
    BY <1>3, ApprovedParts DEF LocationsToTry, Output
  <2>2. "sources" \in RequestPC
    BY DEF RequestPC
  <2>3. request' \in Request
    BY <1>3, <2>1, <2>2 DEF RequestInv, Request
  <2>4. /\ request'.pc = "sources" /\ request'.untried = locations
        /\ request'.kind = request.kind /\ request'.round = request.round
        /\ request'.location = request.location
    BY <1>3 DEF RequestInv, Request
  <2>5. request.kind = "narinfo" => locations = a.sources
    BY <2>1 DEF LocationsToTry
  <2>6. request.kind = "nar" => locations = {request.location}
    BY <1>3, <2>1 DEF LocationsToTry
  <2> HIDE DEF locations
  <2>7. RequestOK(request', lookup)
    BY <1>1, <2>1, <2>4, <2>5, <2>6 DEF RequestInv, RequestOK
  <2> QED
    BY <2>3, <2>7 DEF RequestInv
<1> QED
  BY <1>2, <1>3 DEF Approve, RequestBecomes

LEMMA TryNarInfoOK ==
    ASSUME GInv, TryNarInfo
    PROVE  RequestInv(request', lookup) /\ UrlInv(issued', ledger)
<1> DEFINE a == lookup.approved
<1>0. PICK b \in request.untried : \E answer \in NarInfoAnswers(b) :
        /\ request' = IF FromSource(a, answer) = "ok" THEN Replied("ok")
                      ELSE [request EXCEPT !.untried = @ \ {b},
                              !.failed = @ \/ FromSource(a, answer) = "bad_gateway"]
        /\ issued' = IF FromSource(a, answer) # "ok" THEN issued
                     ELSE [round |-> a.round, location |-> b, variant |-> answer.variant,
                           votes |-> VotesIn(lookup.facts, a.round)]
  BY DEF TryNarInfo
<1>1. PICK answer \in NarInfoAnswers(b) :
        /\ request' = IF FromSource(a, answer) = "ok" THEN Replied("ok")
                      ELSE [request EXCEPT !.untried = @ \ {b},
                              !.failed = @ \/ FromSource(a, answer) = "bad_gateway"]
        /\ issued' = IF FromSource(a, answer) # "ok" THEN issued
                     ELSE [round |-> a.round, location |-> b, variant |-> answer.variant,
                           votes |-> VotesIn(lookup.facts, a.round)]
  BY <1>0
<1>2. /\ request.pc = "sources" /\ request.kind = "narinfo" /\ lookup.pc = "answered"
      /\ a # None /\ b \in a.sources /\ b \in Builders
  BY DEF GInv, RequestInv, Request, RequestOK, TryNarInfo, RequestAt
<1>3. CASE FromSource(a, answer) = "ok"
  <2>1. RequestInv(request', lookup)
    <3>1. "ok" \in Replies
      BY DEF Replies
    <3> QED
      BY <1>1, <1>2, <1>3, <3>1, RepliedOK DEF GInv
  <2>2. /\ issued' = [round |-> a.round, location |-> b, variant |-> a.variant,
                      votes |-> VotesIn(lookup.facts, a.round)]
    BY <1>1, <1>3, OkAnswer
  <2>3. VotesIn(lookup.facts, a.round) \subseteq Fact
    BY DEF VotesIn, GInv, IInv, ConsensusTypeOK, Lookup
  <2>4. issued' \in Url
    BY <1>2, <2>2, <2>3, ApprovedParts DEF GInv, Url, Output
  <2>5. UrlOK(issued', ledger)
    BY <1>2, <2>2, ApprovedParts DEF GInv, UrlOK
  <2> QED
    BY <2>1, <2>4, <2>5 DEF UrlInv
<1>4. CASE FromSource(a, answer) # "ok"
  <2>1. ~ Good(b, a)
    BY <1>1, <1>4, GoodAnswer
  <2> DEFINE failed == request.failed \/ FromSource(a, answer) = "bad_gateway"
  <2>2. failed \in BOOLEAN
    OBVIOUS
  <2>3. request' = [request EXCEPT !.untried = @ \ {b}, !.failed = failed]
    BY <1>1, <1>4
  <2> HIDE DEF failed
  <2>4. request' \in Request
    BY <2>2, <2>3 DEF GInv, RequestInv, Request
  <2>5. /\ request'.pc = "sources" /\ request'.untried = request.untried \ {b}
        /\ request'.kind = "narinfo" /\ request'.round = request.round
    BY <1>2, <2>3 DEF GInv, RequestInv, Request
  <2>6. RequestOK(request', lookup)
    BY <1>2, <2>1, <2>5 DEF GInv, RequestInv, RequestOK
  <2> QED
    BY <1>1, <1>4, <2>4, <2>6 DEF GInv, RequestInv
<1> QED
  BY <1>3, <1>4

LEMMA NoneServesOK ==
    ASSUME RequestInv(request, lookup), NoneServes
    PROVE  RequestInv(request', lookup)
<1>1. request.pc = "sources" /\ request.untried = {}
  BY DEF NoneServes, RequestAt
<1>2. PICK status \in {"bad_gateway", "not_found"} : request' = Replied(status)
  BY DEF NoneServes, RequestBecomes
<1>3. status \in Replies /\ status # "ok"
  BY <1>2 DEF Replies
<1>4. /\ lookup.pc = "answered"
      /\ request.kind = "narinfo" => \A b \in lookup.approved.sources : ~Good(b, lookup.approved)
  BY <1>1 DEF RequestInv, RequestOK
<1> QED
  BY <1>1, <1>2, <1>3, <1>4, RepliedOK

LEMMA NarStepsOK ==
    ASSUME IInv, RequestInv(request, lookup), CheckNarInfo \/ FetchNar
    PROVE  RequestInv(request', lookup)
<1> DEFINE a == lookup.approved
<1>1. /\ request.pc \in {"sources", "nar"} /\ request.kind = "nar" /\ lookup.pc = "answered"
      /\ a # None /\ request.location \in a.sources
  BY DEF CheckNarInfo, FetchNar, RequestAt, RequestInv, RequestOK
<1>2. ASSUME NEW status \in {"ok", "not_found", "bad_gateway"}, request' = Replied(status),
             status = "ok" => request.checked = a.variant
      PROVE  RequestInv(request', lookup)
  <2>1. status \in Replies
    BY <1>2 DEF Replies
  <2> QED
    BY <1>1, <1>2, <2>1, RepliedOK
<1>3. CASE FetchNar
  <2>1. request.checked = a.variant
    BY <1>3 DEF FetchNar, RequestAt, RequestInv, RequestOK
  <2> QED
    BY <1>2, <1>3, <2>1 DEF FetchNar, RequestBecomes, NarAnswers
<1>4. CASE request' = [request EXCEPT !.pc = "nar", !.checked = a.variant]
  <2>1. "nar" \in RequestPC /\ a.variant \in Variants
    BY <1>1, ApprovedParts DEF RequestPC, Output
  <2>2. request' \in Request
    BY <1>4, <2>1 DEF RequestInv, Request
  <2>3. /\ request'.pc = "nar" /\ request'.kind = "nar" /\ request'.round = request.round
        /\ request'.location = request.location /\ request'.checked = a.variant
    BY <1>1, <1>4 DEF RequestInv, Request
  <2>4. RequestOK(request', lookup)
    BY <1>1, <2>3 DEF RequestInv, RequestOK
  <2> QED
    BY <2>2, <2>4 DEF RequestInv
<1>5. CASE CheckNarInfo
  <2>1. PICK answer :
          request' = IF FromSource(a, answer) = "ok"
                     THEN [request EXCEPT !.pc = "nar", !.checked = answer.variant]
                     ELSE Replied(FromSource(a, answer))
    BY <1>5 DEF CheckNarInfo, RequestBecomes
  <2>2. CASE FromSource(a, answer) = "ok"
    BY <1>4, <2>1, <2>2, OkAnswer
  <2>3. CASE FromSource(a, answer) # "ok"
    BY <1>2, <2>1, <2>3, SourceReplies
  <2> QED
    BY <2>2, <2>3
<1> QED
  BY <1>3, <1>5

LEMMA AskOK ==
    ASSUME NEW kind \in {"narinfo", "nar"}, NEW round \in Nat \cup {None},
           NEW location \in Builders \cup {None}, Ask(kind, round, location)
    PROVE  RequestInv(request', lookup')
<1>1. "lookup" \in RequestPC /\ "none" \in Replies
  BY DEF RequestPC, Replies
<1>2. request' = [NoRequest EXCEPT !.pc = "lookup", !.kind = kind, !.round = round,
                                   !.location = location]
  BY DEF Ask
<1>3. lookup'.requested = round
  BY DEF Ask, Begin, NoLookup
<1> QED
  BY <1>1, <1>2, <1>3 DEF RequestInv, Request, RequestOK, NoRequest

(* A lookup under way belongs to a request that waits for it. *)
LEMMA WaitsForLookup ==
    ASSUME IInv, RequestInv(request, lookup), LookupStep
    PROVE  RequestInv(request, lookup')
<1>1. lookup.pc # "answered"
  BY DEF LookupStep, ReadFacts, FindRound, AdvanceRound, ReloadRound, CountRoundReveals, Select,
         LookingAt
<1>2. lookup'.requested = lookup.requested
  BY DEF LookupStep, ReadFacts, FindRound, AdvanceRound, ReloadRound, CountRoundReveals, Select,
         Moves, NextRound, IInv, ConsensusTypeOK, Lookup
<1> QED
  BY <1>1, <1>2 DEF RequestInv, RequestOK

-----------------------------------------------------------------------------
LEMMA UrlKept ==
    ASSUME NEW u, UrlInv(u, ledger), Grown(ledger, ledger')
    PROVE  UrlInv(u, ledger')
BY FactKept DEF UrlInv, UrlOK

LEMMA GInitOK ==
    ASSUME Init
    PROVE  GInv
<1>1. IInv
  BY InitOK DEF Init
<1>2. RequestInv(request, lookup)
  <2>1. "idle" \in RequestPC /\ "none" \in Replies
    BY DEF RequestPC, Replies
  <2> QED
    BY <2>1 DEF Init, NoRequest, RequestInv, Request, RequestOK
<1>3. UrlInv(issued, ledger)
  BY DEF Init, UrlInv
<1> QED
  BY <1>1, <1>2, <1>3 DEF GInv

(* A gateway step is a step of the lookup, or none. *)
LEMMA GNextOK ==
    ASSUME GInv, [Next]_gatewayVars
    PROVE  GInv' /\ [ConsensusNext]_consensusVars
<1> DEFINE LookupMoves == [ConsensusNext]_consensusVars
           Goal == LookupMoves /\ RequestInv(request', lookup') /\ UrlInv(issued', ledger')
<1>1. LookupMoves => IInv' /\ Grown(ledger, ledger')
  BY StepOK, NextOK DEF GInv, TablesStep
<1>2. ASSUME Others \/ LookupStep, UNCHANGED <<request, issued>> PROVE Goal
  <2>1. LookupMoves
    BY <1>2 DEF ConsensusNext
  <2>2. RequestInv(request', lookup')
    BY <1>2, WaitsForLookup DEF GInv, Others
  <2>3. UrlInv(issued', ledger')
    BY <1>1, <1>2, <2>1, UrlKept DEF GInv
  <2> QED
    BY <2>1, <2>2, <2>3
<1>3. ASSUME NEW kind \in {"narinfo", "nar"}, NEW round \in DOMAIN ledger \cup {None},
             NEW location \in Builders \cup {None}, Ask(kind, round, location)
      PROVE  Goal
  <2>1. round \in Nat \cup {None}
    BY DEF GInv, IInv, ConsensusTypeOK
  <2>2. LookupMoves
    BY <1>3 DEF Ask, ConsensusNext
  <2>3. UrlInv(issued', ledger')
    BY <1>1, <1>3, <2>2, UrlKept DEF GInv, Ask
  <2> QED
    BY <1>3, <2>1, <2>2, <2>3, AskOK
<1>4. ASSUME AskNarInfo \/ AskNar PROVE Goal
  <2>1. CASE AskNarInfo
    BY <1>3, <2>1 DEF AskNarInfo
  <2>2. CASE AskNar
    <3>1. issued.round \in DOMAIN ledger /\ issued.location \in Builders
      BY <2>2 DEF AskNar, GInv, UrlInv, Url, UrlOK, FactOK
    <3> QED
      BY <1>3, <2>2, <3>1 DEF AskNar
  <2> QED
    BY <1>4, <2>1, <2>2
<1>5. ASSUME Approve \/ TryNarInfo \/ NoneServes \/ CheckNarInfo \/ FetchNar PROVE Goal
  <2>1. UNCHANGED consensusVars
    BY <1>5 DEF Approve, TryNarInfo, NoneServes, CheckNarInfo, FetchNar, RequestBecomes
  <2>2. ledger' = ledger /\ lookup' = lookup
    BY <2>1 DEF consensusVars, registry
  <2>3. RequestInv(request', lookup)
    BY <1>5, ApproveOK, TryNarInfoOK, NoneServesOK, NarStepsOK DEF GInv
  <2>4. UrlInv(issued', ledger)
    <3>1. CASE TryNarInfo
      BY <3>1, TryNarInfoOK
    <3>2. CASE Approve \/ NoneServes \/ CheckNarInfo \/ FetchNar
      BY <3>2 DEF Approve, NoneServes, CheckNarInfo, FetchNar, RequestBecomes, GInv
    <3> QED
      BY <1>5, <3>1, <3>2
  <2> QED
    BY <2>1, <2>2, <2>3, <2>4
<1>6. ASSUME Answered PROVE Goal
  <2>1. LookupMoves
    BY <1>6 DEF Answered, ConsensusNext
  <2>2. RequestInv(request', lookup')
    <3>1. "idle" \in RequestPC /\ "none" \in Replies
      BY DEF RequestPC, Replies
    <3> QED
      BY <1>6, <3>1 DEF Answered, NoRequest, RequestInv, Request, RequestOK
  <2>3. UrlInv(issued', ledger')
    BY <1>1, <1>6, <2>1, UrlKept DEF GInv, Answered
  <2> QED
    BY <2>1, <2>2, <2>3
<1>7. ASSUME UNCHANGED gatewayVars PROVE Goal
  <2>1. UNCHANGED <<consensusVars, request, issued>>
    BY <1>7 DEF gatewayVars
  <2> QED
    BY <2>1 DEF consensusVars, registry, GInv
<1>8. Goal
  BY <1>2, <1>4, <1>5, <1>6, <1>7 DEF Next, GatewayStep
<1> QED
  BY <1>1, <1>8 DEF GInv

LEMMA GInvImplies ==
    ASSUME GInv
    PROVE  TypeOK /\ GoodLocationServes
<1>1. TypeOK
  BY DEF GInv, IInv, RequestInv, UrlInv, TypeOK
<1>2. GoodLocationServes
  BY DEF GInv, RequestInv, RequestOK, Good, GoodLocationServes, RequestAt
<1> QED
  BY <1>1, <1>2

LEMMA KeepsVariant ==
    ASSUME GInv, \A c \in Claims : \A v, w \in c : v = w
    PROVE  IssuedUrlKeepsVariant
<1> DEFINE a == lookup.approved
<1> SUFFICES ASSUME RequestAt("replied"), request.kind = "nar", request.reply = "ok",
                    issued # None, issued.round = request.round,
                    issued.location = request.location
             PROVE  /\ request.checked = issued.variant
                    /\ Backs(issued.round, issued.location, issued.variant)
  BY DEF IssuedUrlKeepsVariant
<1>1. /\ a # None /\ request.location \in a.sources /\ lookup.requested = request.round
      /\ request.checked = a.variant
  BY DEF GInv, RequestInv, RequestOK, RequestAt
<1>2. issued \in Url /\ UrlOK(issued, ledger)
  BY DEF GInv, UrlInv
<1>3. /\ a.round = issued.round
      /\ FactOK([round |-> a.round, builder |-> issued.location, variant |-> a.variant], ledger)
  BY <1>1, <1>2, ApprovedParts, ConsensusAssumption DEF GInv, Asked, Url
<1> DEFINE published == ledger[issued.round].published
<1>4. /\ issued.round \in DOMAIN ledger /\ issued.location \in DOMAIN published
      /\ a.variant \in published[issued.location]
      /\ issued.variant \in published[issued.location]
  BY <1>2, <1>3 DEF UrlOK, FactOK
<1>5. published \in UNION {[B -> {Evidence(d) : d \in Claims}] : B \in SUBSET Builders}
  <2>1. ledger[issued.round] \in Rounds!Round
    BY <1>4 DEF GInv, IInv, ConsensusTypeOK
  <2> QED
    BY <2>1 DEF Rounds!Round
<1>6. published[issued.location] \in Claims
  <2>1. PICK B \in SUBSET Builders : published \in [B -> {Evidence(d) : d \in Claims}]
    BY <1>5
  <2>2. B = DOMAIN published /\ issued.location \in B
    BY <1>4, <2>1
  <2>3. published[issued.location] \in {Evidence(d) : d \in Claims}
    BY <2>1, <2>2
  <2> QED
    BY <2>3 DEF Evidence
<1> QED
  BY <1>1, <1>4, <1>6 DEF Backs

-----------------------------------------------------------------------------
(* An issued URL stays valid.  Its votes made one variant the approved one *)
(* and are still there; so a later lookup of its round, which it cannot    *)
(* overlook, finds these votes and those that have come in since.          *)

(* The URL u stands in rounds L. *)
UrlStands(u, L) ==
    /\ u.round \in DOMAIN L /\ Eligible(L, u.round)
    /\ \A f \in u.votes : f.round = u.round /\ FactOK(f, L)
    /\ u.variant \in ApprovedVariants(u.votes, u.round)
    /\ u.location \in VotersFor(u.votes, u.round, u.variant)
    /\ u.location \in Reliable => HeldBy(u.location) = u.variant

(* Nothing more has been revealed in its round. *)
Undisturbed(u, L) == VotesIn(FactsOf(L), u.round) = u.votes

(* A request q with a lookup l that follows u; B as in OutputConsensusProofs. *)
Follows(q, u) == q.kind = "nar" /\ u.round = q.round /\ u.location = q.location

FollowsOK(q, u, l, B, L) ==
    /\ l.pc \notin {"idle", "facts"} => u.votes \subseteq l.facts
    /\ Follows(q, u) /\ l.pc # "idle" => u.round \in Known(B, {})
    /\ Follows(q, u) /\ u.location \in Reliable /\ Undisturbed(u, L) /\ q.pc = "replied" =>
         q.reply = "ok"

UrlHistoryOK == issued # None =>
    UrlStands(issued, ledger) /\ FollowsOK(request, issued, lookup, before, ledger)

UInv == GInv /\ HistoryInv /\ UrlHistoryOK

LEMMA VotesDecide ==
    ASSUME NEW F, NEW G, NEW r, VotesIn(F, r) = VotesIn(G, r)
    PROVE  /\ \A v : VotersFor(F, r, v) = VotersFor(G, r, v)
           /\ ApprovedVariants(F, r) = ApprovedVariants(G, r)
<1>1. \A f : f \in F /\ f.round = r <=> f \in G /\ f.round = r
  BY DEF VotesIn
<1>2. \A v : VotersFor(F, r, v) = VotersFor(G, r, v)
  BY <1>1 DEF VotersFor
<1>3. VariantsIn(F, r) = VariantsIn(G, r)
  BY <1>1 DEF VariantsIn
<1>4. Leaders(F, r) = Leaders(G, r)
  BY <1>2, <1>3 DEF Leaders
<1> QED
  BY <1>2, <1>4 DEF ApprovedVariants

LEMMA FactsAre ==
    ASSUME NEW L, NEW f \in Fact, FactOK(f, L)
    PROVE  f \in FactsOf(L)
<1>1. f \in [round : DOMAIN L, builder : Builders, variant : Variants]
  BY DEF Fact, FactOK
<1> QED
  BY <1>1 DEF FactsOf, FactOK

LEMMA UndisturbedBefore ==
    ASSUME NEW L, NEW M, Grown(L, M), NEW u \in Url, UrlStands(u, L), Undisturbed(u, M)
    PROVE  Undisturbed(u, L)
<1>1. FactsOf(L) \subseteq FactsOf(M)
  BY DEF FactsOf, Grown
<1>2. u.votes \subseteq FactsOf(L)
  BY FactsAre DEF UrlStands, Url
<1>3. \A f \in u.votes : f.round = u.round
  BY DEF UrlStands
<1>4. VotesIn(FactsOf(L), u.round) \subseteq VotesIn(FactsOf(M), u.round)
  BY <1>1 DEF VotesIn
<1>5. u.votes \subseteq VotesIn(FactsOf(L), u.round)
  BY <1>2, <1>3 DEF VotesIn
<1> QED
  BY <1>4, <1>5 DEF Undisturbed

LEMMA UrlStandsKept ==
    ASSUME IsFiniteSet(Builders), NEW L, NEW M \in Seq(Rounds!Round), Grown(L, M),
           NEW u, UrlStands(u, L)
    PROVE  UrlStands(u, M)
<1>1. u.round \in DOMAIN M /\ Eligible(M, u.round)
  BY EligibleKept DEF UrlStands
<1>2. \A f \in u.votes : FactOK(f, M)
  BY FactKept DEF UrlStands
<1> QED
  BY <1>1, <1>2 DEF UrlStands

(* The lookup that follows a URL approves its variant, with its location.  *)
LEMMA FollowedIsApproved ==
    ASSUME UInv, issued # None, Follows(request, issued), request.pc # "idle",
           lookup.pc = "answered", Undisturbed(issued, ledger)
    PROVE  /\ lookup.approved # None
           /\ lookup.approved.variant = issued.variant
           /\ issued.location \in lookup.approved.sources
<1> DEFINE u == issued
           l == lookup
           r == u.round
<1>1. /\ u \in Url /\ r \in Nat /\ l \in Lookup /\ l.requested = r
      /\ UrlStands(u, ledger) /\ FollowsOK(request, u, l, before, ledger)
  BY DEF UInv, UrlHistoryOK, GInv, UrlInv, RequestInv, RequestOK, IInv, ConsensusTypeOK, Follows,
         Url
<1>2. VotesIn(l.facts, r) = u.votes
  <2>1. \A f \in l.facts : f \in FactsOf(ledger)
    BY <1>1, FactsAre DEF UInv, GInv, IInv, LookupOK, Lookup
  <2>2. VotesIn(l.facts, r) \subseteq VotesIn(FactsOf(ledger), r)
    BY <2>1 DEF VotesIn
  <2>3. u.votes \subseteq l.facts /\ \A f \in u.votes : f.round = r
    BY <1>1 DEF FollowsOK, UrlStands
  <2>4. u.votes \subseteq VotesIn(l.facts, r)
    BY <2>3 DEF VotesIn
  <2> QED
    BY <2>2, <2>4 DEF Undisturbed
<1>3. VotesIn(u.votes, r) = VotesIn(l.facts, r)
  <2>1. \A f \in u.votes : f.round = r
    BY <1>1 DEF UrlStands
  <2> QED
    BY <1>2, <2>1 DEF VotesIn
<1>4. /\ u.variant \in ApprovedVariants(l.facts, r)
      /\ u.location \in VotersFor(l.facts, r, u.variant)
  BY <1>1, <1>3, VotesDecide DEF UrlStands
<1>5. l.latest # None
  <2>1. r \in Known(before, {}) /\ Asked(l, r)
    BY <1>1 DEF FollowsOK, Asked
  <2>2. l.todo = {}
    BY DEF UInv, HistoryInv, AnswerOK
  <2> QED
    BY <2>1, <2>2 DEF UInv, HistoryInv, FoundOK
<1>6. l.latest.round = r
  <2>1. Asked(l, l.latest.round)
    BY <1>5 DEF UInv, GInv, IInv, LookupOK
  <2> QED
    BY <1>1, <2>1, ConsensusAssumption DEF Asked
<1>7. Answer(l) = {[round |-> r, variant |-> v, sources |-> VotersFor(l.facts, r, v)] :
                     v \in ApprovedVariants(l.facts, r)}
  BY <1>5, <1>6 DEF Answer
<1>8. l.approved \in Answer(l)
  <2>1. Answer(l) # {}
    BY <1>4, <1>7
  <2> QED
    BY <2>1 DEF UInv, HistoryInv, AnswerOK
<1>9. PICK v \in ApprovedVariants(l.facts, r) :
        l.approved = [round |-> r, variant |-> v, sources |-> VotersFor(l.facts, r, v)]
  BY <1>7, <1>8
<1>10. v = u.variant
  BY <1>4, <1>9, OneApproved
<1> QED
  BY <1>1, <1>4, <1>8, <1>9, <1>10, AnswersAreOutputs

(* How the steps of a request treat the URL that it follows. *)
LEMMA AnsweringFollows ==
    ASSUME UInv, issued # None, Approve \/ NoneServes \/ CheckNarInfo \/ FetchNar
    PROVE  FollowsOK(request', issued, lookup, before, ledger)
<1> DEFINE u == issued
           a == lookup.approved
<1>1. FollowsOK(request, u, lookup, before, ledger) /\ UrlStands(u, ledger) /\ request \in Request
  BY DEF UInv, UrlHistoryOK, GInv, RequestInv
<1>2. /\ request'.kind = request.kind /\ request'.round = request.round
      /\ request'.location = request.location
  <2>1. \/ \E status : request' = Replied(status)
        \/ \E pc, untried : request' = [request EXCEPT !.pc = pc, !.untried = untried]
        \/ \E v : request' = [request EXCEPT !.pc = "nar", !.checked = v]
    BY DEF Approve, NoneServes, CheckNarInfo, FetchNar, RequestBecomes
  <2> QED
    BY <1>1, <2>1 DEF Request, Replied
<1>3. /\ request.pc # "idle" /\ lookup.pc = "answered"
  BY DEF Approve, NoneServes, CheckNarInfo, FetchNar, RequestAt, LookingAt, UInv, GInv, RequestInv,
         RequestOK
<1>4. ASSUME Follows(request', u), u.location \in Reliable, Undisturbed(u, ledger),
             request'.pc = "replied"
      PROVE  request'.reply = "ok"
  <2>1. Follows(request, u)
    BY <1>2, <1>4 DEF Follows
  <2>2. a # None /\ a.variant = u.variant /\ u.location \in a.sources
    BY <1>3, <1>4, <2>1, FollowedIsApproved
  <2>3. Good(u.location, a)
    BY <1>1, <1>4, <2>2 DEF Good, UrlStands
  <2>4. CASE Approve
    <3>1. LocationsToTry(request, a.sources) # {}
      BY <2>1, <2>2 DEF LocationsToTry, Follows
    <3>2. request'.pc = "sources"
      BY <1>1, <2>2, <2>4, <3>1 DEF Approve, RequestBecomes, Request
    <3> QED
      BY <1>4, <3>2
  <2>5. request.pc = "sources" => request.untried = {u.location}
    BY <2>1 DEF UInv, GInv, RequestInv, RequestOK, Follows
  <2>6. CASE NoneServes
    BY <2>5, <2>6 DEF NoneServes, RequestAt
  <2>7. CASE CheckNarInfo
    <3>1. \E answer \in NarInfoAnswers(u.location) :
            request' = IF FromSource(a, answer) = "ok"
                       THEN [request EXCEPT !.pc = "nar", !.checked = answer.variant]
                       ELSE Replied(FromSource(a, answer))
      BY <2>5, <2>7 DEF CheckNarInfo, RequestBecomes, RequestAt
    <3>2. \E v : request' = [request EXCEPT !.pc = "nar", !.checked = v]
      BY <2>3, <3>1, GoodAnswer
    <3> QED
      BY <1>1, <1>4, <3>2 DEF Request
  <2>8. CASE FetchNar
    <3>1. request' = Replied("ok")
      BY <1>4, <2>1, <2>8 DEF FetchNar, RequestBecomes, NarAnswers, Follows
    <3> QED
      BY <1>1, <3>1 DEF Replied, Request
  <2> QED
    BY <2>4, <2>6, <2>7, <2>8
<1> QED
  BY <1>1, <1>2, <1>4 DEF FollowsOK, Follows

(* A URL that is issued stands, and its request follows none. *)
LEMMA IssuedStands ==
    ASSUME IsFiniteSet(Builders), UInv, TryNarInfo, issued' # None
    PROVE  UrlStands(issued', ledger) /\ FollowsOK(request', issued', lookup, before, ledger)
<1> DEFINE a == lookup.approved
           r == a.round
           votes == VotesIn(lookup.facts, r)
<1>0. PICK b \in request.untried : \E answer \in NarInfoAnswers(b) :
        /\ request' = IF FromSource(a, answer) = "ok" THEN Replied("ok")
                      ELSE [request EXCEPT !.untried = @ \ {b},
                              !.failed = @ \/ FromSource(a, answer) = "bad_gateway"]
        /\ issued' = IF FromSource(a, answer) # "ok" THEN issued
                     ELSE [round |-> r, location |-> b, variant |-> answer.variant,
                           votes |-> votes]
  BY DEF TryNarInfo
<1>1. PICK answer \in NarInfoAnswers(b) :
        /\ request' = IF FromSource(a, answer) = "ok" THEN Replied("ok")
                      ELSE [request EXCEPT !.untried = @ \ {b},
                              !.failed = @ \/ FromSource(a, answer) = "bad_gateway"]
        /\ issued' = IF FromSource(a, answer) # "ok" THEN issued
                     ELSE [round |-> r, location |-> b, variant |-> answer.variant,
                           votes |-> votes]
  BY <1>0
<1>2. /\ request \in Request /\ request.pc = "sources" /\ request.kind = "narinfo"
      /\ lookup.pc = "answered" /\ a # None /\ b \in a.sources
  BY DEF UInv, GInv, RequestInv, RequestOK, TryNarInfo, RequestAt
<1>3. ~Follows(request', issued')
  <2>1. request'.kind = request.kind
    BY <1>1, <1>2 DEF Request, Replied
  <2> QED
    BY <1>2, <2>1 DEF Follows
<1>4. CASE FromSource(a, answer) # "ok"
  BY <1>1, <1>3, <1>4 DEF UInv, UrlHistoryOK, FollowsOK
<1>5. CASE FromSource(a, answer) = "ok"
  <2>1. issued' = [round |-> r, location |-> b, variant |-> a.variant, votes |-> votes]
    BY <1>1, <1>5, OkAnswer
  <2>2. b \in Reliable => HeldBy(b) = a.variant
    BY <1>5, OkAnswer DEF NarInfoAnswers, NarInfo
  <2>3. /\ a \in Output /\ r \in DOMAIN ledger /\ ledger[r].phase = "closed"
        /\ \A c \in a.sources :
             FactOK([round |-> r, builder |-> c, variant |-> a.variant], ledger)
        /\ Cardinality(a.sources) >= MinimumBuilders
    BY <1>2 DEF UInv, GInv, IInv, ConsensusTypeOK, Lookup, LookupOK, OutputOK, ClosedIn
  <2>4. Eligible(ledger, r)
    <3> DEFINE S == DOMAIN ledger[r].published
    <3>1. a.sources \subseteq S
      BY <2>3 DEF FactOK
    <3>2. IsFiniteSet(S)
      BY <2>3, PublishedType, FS_Subset DEF UInv, GInv, IInv, ConsensusTypeOK
    <3>3. /\ Cardinality(a.sources) <= Cardinality(S)
          /\ Cardinality(a.sources) \in Nat /\ Cardinality(S) \in Nat
      BY <3>1, <3>2, FS_Subset, FS_CardinalityType
    <3>4. Cardinality(S) >= MinimumBuilders
      BY <2>3, <3>3, ConsensusAssumption
    <3>5. b \in S /\ ledger[r].published[b] # {}
      BY <1>2, <2>3 DEF FactOK
    <3> QED
      BY <2>3, <3>4, <3>5 DEF Eligible
  <2>5. /\ a.variant \in ApprovedVariants(lookup.facts, r)
        /\ a.sources = VotersFor(lookup.facts, r, a.variant)
    <3>1. a \in Answer(lookup)
      BY <1>2 DEF UInv, HistoryInv, AnswerOK
    <3>2. PICK v \in ApprovedVariants(lookup.facts, lookup.latest.round) :
            a = [round |-> lookup.latest.round, variant |-> v,
                 sources |-> VotersFor(lookup.facts, lookup.latest.round, v)]
      BY <3>1 DEF Answer
    <3> QED
      BY <3>2
  <2>6. VotesIn(votes, r) = VotesIn(lookup.facts, r)
    BY DEF VotesIn
  <2>7. /\ a.variant \in ApprovedVariants(votes, r)
        /\ b \in VotersFor(votes, r, a.variant)
    BY <1>2, <2>5, <2>6, VotesDecide
  <2>8. \A f \in votes : f.round = r /\ f \in lookup.facts /\ FactOK(f, ledger)
    BY DEF VotesIn, UInv, GInv, IInv, LookupOK
  <2> HIDE DEF votes, r
  <2>9. UrlStands(issued', ledger)
    BY <2>1, <2>2, <2>3, <2>4, <2>7, <2>8 DEF UrlStands, r
  <2> QED
    BY <1>3, <2>1, <2>8, <2>9 DEF FollowsOK
<1> QED
  BY <1>4, <1>5

LEMMA LookupFollows ==
    ASSUME UInv, issued # None, LookupStep
    PROVE  lookup'.pc \notin {"idle", "facts"} => issued.votes \subseteq lookup'.facts
<1>1. /\ lookup \in Lookup /\ UrlStands(issued, ledger) /\ issued \in Url
      /\ lookup.pc \notin {"idle", "facts"} => issued.votes \subseteq lookup.facts
  BY DEF UInv, UrlHistoryOK, FollowsOK, GInv, UrlInv, IInv, ConsensusTypeOK
<1>2. CASE ReadFacts
  <2>1. issued.votes \subseteq FactsOf(ledger)
    BY <1>1, FactsAre DEF UrlStands, Url
  <2>2. lookup'.facts = FactsOf(ledger)
    BY <1>1, <1>2 DEF ReadFacts, Moves, Lookup
  <2> QED
    BY <2>1, <2>2
<1>3. CASE FindRound \/ AdvanceRound \/ ReloadRound \/ CountRoundReveals \/ Select
  <2>1. lookup'.facts = lookup.facts
    BY <1>1, <1>3 DEF FindRound, AdvanceRound, ReloadRound, CountRoundReveals, Select, Moves,
                      NextRound, Lookup
  <2>2. lookup.pc \notin {"idle", "facts"}
    BY <1>3 DEF FindRound, AdvanceRound, ReloadRound, CountRoundReveals, Select, LookingAt
  <2> QED
    BY <1>1, <2>1, <2>2
<1> QED
  BY <1>2, <1>3 DEF LookupStep

LEMMA UNextOK ==
    ASSUME IsFiniteSet(Builders), UInv, [Next]_gatewayVars
    PROVE  UInv'
<1>1. GInv' /\ [ConsensusNext]_consensusVars
  BY GNextOK DEF UInv
<1>2. HistoryInv' /\ Grown(ledger, ledger') /\ ledger' \in Seq(Rounds!Round)
  BY <1>1, HistoryNextOK, StepOK DEF UInv, GInv, HInv, TablesStep, TablesOK
<1> DEFINE Goal == issued' # None =>
              UrlStands(issued', ledger') /\ FollowsOK(request', issued', lookup', before', ledger')
<1>3. ASSUME issued' = issued, issued # None
      PROVE  /\ issued \in Url /\ UrlStands(issued, ledger) /\ UrlStands(issued', ledger')
             /\ FollowsOK(request, issued, lookup, before, ledger)
  BY <1>2, <1>3, UrlStandsKept DEF UInv, UrlHistoryOK, GInv, UrlInv
<1>4. ASSUME Others \/ LookupStep, UNCHANGED <<request, issued>> PROVE Goal
  <2> SUFFICES ASSUME issued # None
               PROVE  FollowsOK(request, issued, lookup', before', ledger')
    BY <1>3, <1>4
  <2>1. lookup'.pc \notin {"idle", "facts"} => issued.votes \subseteq lookup'.facts
    BY <1>3, <1>4, LookupFollows DEF Others, FollowsOK
  <2>2. before' = before /\ (lookup'.pc # "idle" => lookup.pc # "idle")
    <3>1. CASE Others
      BY <3>1 DEF Others, OthersMove, Close, CloseAgain, WriteClosedAt
    <3>2. CASE LookupStep
      BY <3>2 DEF LookupStep, ReadFacts, FindRound, AdvanceRound, ReloadRound, CountRoundReveals,
                  Select, LookingAt, Moves, history, Close, CloseAgain, WriteClosedAt
    <3> QED
      BY <1>4, <3>1, <3>2
  <2>3. Undisturbed(issued, ledger') => Undisturbed(issued, ledger)
    BY <1>2, <1>3, <1>4, UndisturbedBefore
  <2> QED
    BY <1>3, <1>4, <2>1, <2>2, <2>3 DEF FollowsOK
<1>5. ASSUME NEW kind, NEW round, NEW location, Ask(kind, round, location) PROVE Goal
  <2>1. /\ lookup'.pc = "facts" /\ request'.pc = "lookup" /\ issued' = issued
        /\ ledger' = ledger /\ before' = [ledger |-> ledger, closed_at |-> closed_at]
    BY <1>5 DEF Ask, Begin, NoLookup, NoRequest, Remember, registry
  <2>2. ASSUME issued # None PROVE issued.round \in Known(before', {})
    BY <1>3, <2>1, <2>2 DEF UrlStands, Known
  <2> QED
    BY <1>3, <2>1, <2>2 DEF FollowsOK
<1>6. ASSUME Approve \/ NoneServes \/ CheckNarInfo \/ FetchNar PROVE Goal
  <2>1. UNCHANGED consensusVars /\ issued' = issued
    BY <1>6 DEF Approve, NoneServes, CheckNarInfo, FetchNar, RequestBecomes
  <2>2. ledger' = ledger /\ lookup' = lookup /\ before' = before
    BY <2>1 DEF consensusVars, registry, history
  <2> QED
    BY <1>3, <1>6, <2>1, <2>2, AnsweringFollows
<1>7. ASSUME TryNarInfo PROVE Goal
  <2>1. ledger' = ledger /\ lookup' = lookup /\ before' = before
    BY <1>7 DEF TryNarInfo, consensusVars, registry, history
  <2> QED
    BY <1>7, <2>1, IssuedStands
<1>8. ASSUME Answered PROVE Goal
  <2>1. lookup'.pc = "idle" /\ request'.kind = "none" /\ issued' = issued
    BY <1>8 DEF Answered, Forget, NoLookup, NoRequest
  <2> QED
    BY <1>3, <2>1 DEF FollowsOK, Follows
<1>9. ASSUME UNCHANGED gatewayVars PROVE Goal
  <2>1. /\ ledger' = ledger /\ lookup' = lookup /\ before' = before
        /\ request' = request /\ issued' = issued
    BY <1>9 DEF gatewayVars, consensusVars, registry, history
  <2> QED
    BY <1>3, <2>1
<1>10. Goal
  BY <1>4, <1>5, <1>6, <1>7, <1>8, <1>9 DEF Next, GatewayStep, AskNarInfo, AskNar
<1> QED
  BY <1>1, <1>2, <1>10 DEF UInv, UrlHistoryOK

LEMMA StaysValid ==
    ASSUME UInv
    PROVE  IssuedUrlStaysValid
BY DEF UInv, UrlHistoryOK, FollowsOK, Follows, Undisturbed, IssuedUrlStaysValid, RequestAt

-----------------------------------------------------------------------------
(* A request of the gateway agrees with the answer of its lookup, and the  *)
(* URL it has issued was revealed by its location.                         *)
THEOREM GatewayInvariance == Spec => []GInv
<1>1. Init => GInv
  BY GInitOK
<1>2. GInv /\ [Next]_gatewayVars => GInv'
  BY GNextOK
<1> QED
  BY <1>1, <1>2, PTL DEF Spec

(* Every variable of the lookup, the request and the issued URL has its    *)
(* type (binary_cache.rs, store.rs).                                       *)
THEOREM TypeCorrect == Spec => []TypeOK
<1>1. GInv => TypeOK
  BY GInvImplies
<1> QED
  BY <1>1, GatewayInvariance, PTL

(* The gateway asks the tables for nothing but what a lookup does: all     *)
(* that is shown of lookups alone holds behind the gateway.                *)
THEOREM GatewayLooksUp == Spec => ConsensusSpec
<1>1. Init => ConsensusInit
  BY DEF Init
<1>2. GInv /\ [Next]_gatewayVars => [ConsensusNext]_consensusVars
  BY GNextOK
<1> QED
  BY <1>1, <1>2, GatewayInvariance, PTL DEF Spec, ConsensusSpec

(* A good location serves an approved narinfo, whatever the others answer  *)
(* and in whatever order they are tried (binary_cache.rs).                 *)
THEOREM GoodServes == Spec => []GoodLocationServes
<1>1. GInv => GoodLocationServes
  BY GInvImplies
<1> QED
  BY <1>1, GatewayInvariance, PTL

(* The NAR behind an issued URL is the one that a narinfo of the same      *)
(* variant names, if no build has two outputs under one store hash         *)
(* (binary_cache.rs).                                                      *)
THEOREM UrlKeepsVariant ==
    ASSUME \A c \in Claims : \A v, w \in c : v = w
    PROVE  Spec => []IssuedUrlKeepsVariant
<1>1. GInv => IssuedUrlKeepsVariant
  BY KeepsVariant
<1> QED
  BY <1>1, GatewayInvariance, PTL

(* An issued URL works as long as its location keeps the output and        *)
(* nothing more is revealed in its round, whatever other rounds close and  *)
(* how often its own is closed anew ("issued_nar_url_remains_valid_after_a_*)
(* later_round_closes", test in api.rs).                                   *)
THEOREM UrlStaysValid ==
    ASSUME IsFiniteSet(Builders)
    PROVE  Spec => []IssuedUrlStaysValid
<1>1. Init => UInv
  BY GInitOK, HistoryInitOK DEF Init, UInv, UrlHistoryOK
<1>2. UInv /\ [Next]_gatewayVars => UInv'
  BY UNextOK
<1>3. UInv => IssuedUrlStaysValid
  BY StaysValid
<1> QED
  BY <1>1, <1>2, <1>3, PTL DEF Spec

=============================================================================
