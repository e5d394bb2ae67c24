------------------------------- MODULE Gateway -------------------------------
(***************************************************************************)
(* The binary cache gateway (crates/server/src/binary_cache.rs and the     *)
(* handlers of crates/server/src/api.rs in front of it): a client asks for *)
(* the narinfo of a store hash, and later for the NAR at the URL that the  *)
(* narinfo names.  Each of the two requests looks up what is approved (see *)
(* OutputConsensus) and then asks the caches of the builders that approved *)
(* it, whose answers nobody vouches for.                                   *)
(***************************************************************************)
EXTENDS OutputConsensus

CONSTANTS Reliable,   \* builders whose cache keeps what it has, and is reachable
          HeldBy(_)   \* the variant it has

ASSUME GatewayAssumption ==
    /\ Reliable \subseteq Builders
    /\ \A b \in Reliable : HeldBy(b) \in Variants

VARIABLES
    request,  \* the request that is served
    issued    \* the URL in the last narinfo the client got, or None

gatewayVars == <<consensusVars, request, issued>>

(* A URL nar/{store_hash}/{round_id}/{location_id}; a builder has one      *)
(* location.  The variant and the votes it was issued for are history.     *)
Url == [round : Nat, location : Builders, variant : Variants, votes : SUBSET Fact]

RequestPC == {"idle", "lookup", "sources", "nar", "replied"}
Replies == {"none", "ok", "not_found", "bad_gateway"}

Request == [pc : RequestPC, kind : {"none", "narinfo", "nar"},
            round : Nat \cup {None}, location : Builders \cup {None},
            untried : SUBSET Builders, failed : BOOLEAN, checked : Variants \cup {None},
            reply : Replies]

NoRequest == [pc |-> "idle", kind |-> "none", round |-> None, location |-> None,
              untried |-> {}, failed |-> FALSE, checked |-> None, reply |-> "none"]

VotesIn(facts, r) == {f \in facts : f.round = r}

RequestAt(pc) == request.pc = pc
RequestBecomes(q) == /\ request' = q
                     /\ UNCHANGED <<consensusVars, issued>>

-----------------------------------------------------------------------------
(* What a cache answers: 404; nothing usable (unreachable, another status, *)
(* too large, not a narinfo); or a narinfo, of some variant, whose URL may *)
(* lead to another origin.                                                 *)
Missing == [kind |-> "missing"]
Unusable == [kind |-> "unusable"]
NarInfo(v, same_origin) == [kind |-> "narinfo", variant |-> v, same_origin |-> same_origin]

NarInfoAnswers(b) ==
    IF b \in Reliable THEN {NarInfo(HeldBy(b), TRUE)}
    ELSE {Missing, Unusable} \cup {NarInfo(v, o) : v \in Variants, o \in BOOLEAN}

NarAnswers(b) == IF b \in Reliable THEN {"ok"} ELSE {"ok", "not_found", "bad_gateway"}

(* Variant: the fingerprint is not compared. *)
FromSourceUnchecked(approved, answer) ==
    IF answer.kind = "missing" THEN "not_found"
    ELSE IF answer.kind = "unusable" THEN "bad_gateway"
    ELSE IF answer.same_origin THEN "ok" ELSE "bad_gateway"

(* approved_from_source: None, an error, or a narinfo of what is approved. *)
FromSource(approved, answer) ==
    IF answer.kind = "missing" THEN "not_found"
    ELSE IF answer.kind = "unusable" THEN "bad_gateway"
    ELSE IF answer.variant # approved.variant THEN "not_found"
    ELSE IF answer.same_origin THEN "ok" ELSE "bad_gateway"

-----------------------------------------------------------------------------
(* Variant: the round in the URL is not handed to the lookup. *)
AskInNoRound(kind, round, location) ==
    /\ RequestAt("idle")
    /\ Begin(None)
    /\ request' = [NoRequest EXCEPT !.pc = "lookup", !.kind = kind, !.round = round,
                                    !.location = location]
    /\ UNCHANGED issued

Ask(kind, round, location) ==
    /\ RequestAt("idle")
    /\ Begin(round)
    /\ request' = [NoRequest EXCEPT !.pc = "lookup", !.kind = kind, !.round = round,
                                    !.location = location]
    /\ UNCHANGED issued

AskNarInfo == Ask("narinfo", None, None)

(* The client follows the URL it got, some time.  (Who makes one up starts *)
(* a lookup whose answer concerns nobody else.)                            *)
AskNar == issued # None /\ Ask("nar", issued.round, issued.location)

Replied(status) == [request EXCEPT !.pc = "replied", !.reply = status]

(* Variant: a NAR is fetched from any location, not only an approving one. *)
AnyLocation(q, sources) == IF q.kind = "narinfo" THEN sources ELSE {q.location}

LocationsToTry(q, sources) ==
    IF q.kind = "narinfo" THEN sources ELSE {q.location} \cap sources

(* Nothing is approved, or not from the location of the URL: 404. *)
Approve ==
    /\ RequestAt("lookup") /\ LookingAt("answered")
    /\ LET a == lookup.approved
           locations == IF a = None THEN {} ELSE LocationsToTry(request, a.sources)
       IN  RequestBecomes(IF locations = {} THEN Replied("not_found")
                          ELSE [request EXCEPT !.pc = "sources", !.untried = locations])

(* Variant: the first location that fails ends the request. *)
TryNarInfoUntilError ==
    /\ RequestAt("sources") /\ request.kind = "narinfo"
    /\ \E b \in request.untried : \E answer \in NarInfoAnswers(b) :
         LET result == FromSource(lookup.approved, answer) IN
         /\ request' = IF result # "not_found" THEN Replied(result)
                       ELSE [request EXCEPT !.untried = @ \ {b}]
         /\ issued' = IF result # "ok" THEN issued
                      ELSE [round |-> lookup.approved.round, location |-> b,
                            variant |-> answer.variant,
                            votes |-> VotesIn(lookup.facts, lookup.approved.round)]
    /\ UNCHANGED consensusVars

(* One location after the other, in any order (the code's is by evidence   *)
(* and position), until one has the approved narinfo.                      *)
TryNarInfo ==
    /\ RequestAt("sources") /\ request.kind = "narinfo"
    /\ \E b \in request.untried : \E answer \in NarInfoAnswers(b) :
         LET result == FromSource(lookup.approved, answer) IN
         /\ request' = IF result = "ok" THEN Replied("ok")
                       ELSE [request EXCEPT !.untried = @ \ {b},
                                            !.failed = @ \/ result = "bad_gateway"]
         /\ issued' = IF result # "ok" THEN issued
                      ELSE [round |-> lookup.approved.round, location |-> b,
                            variant |-> answer.variant,
                            votes |-> VotesIn(lookup.facts, lookup.approved.round)]
    /\ UNCHANGED consensusVars

NoneServes ==
    /\ RequestAt("sources") /\ request.untried = {}
    /\ RequestBecomes(Replied(IF request.failed THEN "bad_gateway" ELSE "not_found"))

(* The narinfo is fetched and compared again before the NAR is.  What it   *)
(* was, checked, is upstream_nar_url's: it names the NAR that is sent.     *)
CheckNarInfo ==
    /\ RequestAt("sources") /\ request.kind = "nar"
    /\ \E b \in request.untried : \E answer \in NarInfoAnswers(b) :
         LET result == FromSource(lookup.approved, answer) IN
         RequestBecomes(IF result = "ok"
                        THEN [request EXCEPT !.pc = "nar", !.checked = answer.variant]
                        ELSE Replied(result))

FetchNar ==
    /\ RequestAt("nar")
    /\ \E status \in NarAnswers(request.location) : RequestBecomes(Replied(status))

Answered ==
    /\ RequestAt("replied")
    /\ Forget
    /\ request' = NoRequest
    /\ UNCHANGED issued

GatewayStep == Approve \/ TryNarInfo \/ NoneServes \/ CheckNarInfo \/ FetchNar \/ Answered

Init == ConsensusInit /\ request = NoRequest /\ issued = None

Next ==
    \/ (Others \/ LookupStep) /\ UNCHANGED <<request, issued>>
    \/ AskNarInfo \/ AskNar \/ GatewayStep

Spec == Init /\ [][Next]_gatewayVars

-----------------------------------------------------------------------------
(* Properties. *)

TypeOK ==
    /\ ConsensusTypeOK
    /\ request \in Request
    /\ issued \in Url \cup {None}

(* A bad location does not hide a good one: when a variant is approved and *)
(* one of its locations has it, its narinfo is served, whatever the other  *)
(* locations answer.                                                       *)
GoodLocationServes ==
    /\ RequestAt("replied") /\ request.kind = "narinfo" /\ lookup.approved # None
    /\ \E b \in lookup.approved.sources : b \in Reliable /\ HeldBy(b) = lookup.approved.variant
    => request.reply = "ok"

(* The client of a narinfo gets the NAR of that narinfo or none: when the  *)
(* NAR request for an issued URL succeeds, the NAR is the one that a       *)
(* narinfo of the same variant names, which the location served just       *)
(* before, whatever it serves by now; and that variant is what the         *)
(* location revealed, also when the round has since changed its mind.      *)
IssuedUrlKeepsVariant ==
    /\ RequestAt("replied") /\ request.kind = "nar" /\ request.reply = "ok"
    /\ issued # None
    /\ issued.round = request.round /\ issued.location = request.location
    => /\ request.checked = issued.variant
       /\ Backs(issued.round, issued.location, issued.variant)

(* "issued_nar_url_remains_valid_after_a_later_round_closes" (test in      *)
(* api.rs): as long as nothing more is revealed in its own round and the   *)
(* location keeps the output, an issued URL works.                         *)
IssuedUrlStaysValid ==
    /\ RequestAt("replied") /\ request.kind = "nar"
    /\ issued # None
    /\ issued.round = request.round /\ issued.location = request.location
    /\ issued.location \in Reliable
    /\ VotesIn(FactsOf(ledger), issued.round) = issued.votes
    => request.reply = "ok"

=============================================================================
