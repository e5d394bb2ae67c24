------------------------ MODULE OutputConsensusProofs ------------------------
(***************************************************************************)
(* Proofs about OutputConsensus, for every set of builders, variants,      *)
(* claims and times, every threshold and without regard to the bounds.     *)
(*                                                                         *)
(* The argument: what a lookup has read only becomes more true.  A round   *)
(* that has closed stays closed, and what a builder has published in a     *)
(* round it never takes back (Grown).  So facts, rounds and the answer,    *)
(* each true when it was read, are true together when the lookup answers,  *)
(* however long ago they were read.                                        *)
(*                                                                         *)
(* What a lookup must not miss needs the converse: HistoryInv compares it  *)
(* with the tables as they were when it began, by the history variables.   *)
(* There the builders have to be finitely many, so that more builders make *)
(* a larger number.                                                        *)
(***************************************************************************)
EXTENDS OutputConsensus, TLAPS, FiniteSetTheorems

(* What the rounds L may have become in any number of steps, M.            *)
Grown(L, M) ==
    \A r \in DOMAIN L :
        /\ r \in DOMAIN M
        /\ L[r].phase = "closed" => M[r].phase = "closed"
        /\ \A b \in DOMAIN L[r].published :
             b \in DOMAIN M[r].published /\ M[r].published[b] = L[r].published[b]

(* What a lookup l in rounds L has found out, and where it looks next.     *)
FactOK(f, L) == /\ f.round \in DOMAIN L
                /\ f.builder \in DOMAIN L[f.round].published
                /\ f.variant \in L[f.round].published[f.builder]

Asked(l, r) == l.requested \in {None, r}
ClosedIn(L, r) == r \in DOMAIN L /\ L[r].phase = "closed"

OutputOK(l, L) ==
    LET a == l.approved IN
    /\ ClosedIn(L, a.round)
    /\ Asked(l, a.round)
    /\ \A b \in a.sources : FactOK([round |-> a.round, builder |-> b, variant |-> a.variant], L)
    /\ Cardinality(a.sources) >= MinimumBuilders

RoundPCs == {"advance", "reload", "count"}

LookupOK(l, L) ==
    /\ \A f \in l.facts : FactOK(f, L)
    /\ \A r \in l.todo : r \in DOMAIN L /\ Asked(l, r)
    /\ l.pc \in RoundPCs => l.round \in DOMAIN L /\ Asked(l, l.round)
    /\ l.pc \in {"reload", "count"} => ClosedIn(L, l.round)
    /\ l.pc = "count" => l.at # None
    /\ l.latest # None => ClosedIn(L, l.latest.round) /\ Asked(l, l.latest.round)
    /\ l.approved # None => OutputOK(l, L)

IInv == ConsensusTypeOK /\ LookupOK(lookup, ledger)

-----------------------------------------------------------------------------
(* Functions that grow. *)

LEMMA ExtendedType ==
    ASSUME NEW S, NEW T, NEW f \in UNION {[B -> T] : B \in SUBSET S}, NEW x \in S, NEW v \in T
    PROVE  Rounds!Extended(f, x, v) \in UNION {[B -> T] : B \in SUBSET S}
<1>1. PICK B \in SUBSET S : f \in [B -> T]
  OBVIOUS
<1>2. Rounds!Extended(f, x, v) \in [B \cup {x} -> T]
  BY <1>1 DEF Rounds!Extended
<1>3. B \cup {x} \in SUBSET S
  OBVIOUS
<1> QED
  BY <1>2, <1>3

LEMMA EmptyType ==
    ASSUME NEW S, NEW T
    PROVE  Rounds!Empty \in UNION {[B -> T] : B \in SUBSET S}
<1>1. Rounds!Empty \in [{} -> T]
  BY DEF Rounds!Empty
<1> QED
  BY <1>1

-----------------------------------------------------------------------------
(* What any step makes of the tables. *)

TablesOK == /\ ledger \in Seq(Rounds!Round)
            /\ closed_at \in Seq(Times \cup {None}) /\ Len(closed_at) = Len(ledger)
            /\ \A r \in DOMAIN ledger : ledger[r].phase = "closed" <=> closed_at[r] # None

TablesStep == TablesOK' /\ Grown(ledger, ledger')

LEMMA IdleStep ==
    ASSUME TablesOK, UNCHANGED registry
    PROVE  TablesStep
BY DEF registry, TablesOK, TablesStep, Grown

LEMMA OpenStep ==
    ASSUME TablesOK, NEW path \in Paths, Rounds!Open(path), closed_at' = Append(closed_at, None)
    PROVE  TablesStep
<1> DEFINE new == [path |-> path, phase |-> "committing",
                   committed |-> Rounds!Empty, published |-> Rounds!Empty]
<1>1. new \in Rounds!Round /\ new.phase # "closed"
  BY EmptyType DEF Rounds!Round, Rounds!Phases
<1>2. ledger' = Append(ledger, new)
  BY DEF Rounds!Open
<1> HIDE DEF new
<1>3. /\ ledger' \in Seq(Rounds!Round) /\ Len(ledger') = Len(ledger) + 1
      /\ closed_at' \in Seq(Times \cup {None}) /\ Len(closed_at') = Len(closed_at) + 1
  BY <1>1, <1>2 DEF TablesOK
<1>4. \A r \in DOMAIN ledger : /\ r \in DOMAIN ledger' /\ ledger'[r] = ledger[r]
                              /\ closed_at'[r] = closed_at[r]
  BY <1>1, <1>2 DEF TablesOK
<1>5. \A r \in DOMAIN ledger' \ DOMAIN ledger : ledger'[r] = new /\ closed_at'[r] = None
  BY <1>1, <1>2 DEF TablesOK
<1>6. \A r \in DOMAIN ledger' : ledger'[r].phase = "closed" <=> closed_at'[r] # None
  BY <1>1, <1>4, <1>5 DEF TablesOK
<1>7. Grown(ledger, ledger')
  BY <1>4 DEF Grown
<1> QED
  BY <1>3, <1>6, <1>7 DEF TablesStep, TablesOK

(* One round is replaced by another that has grown from it. *)
GrownRound(old, new) ==
    /\ new \in Rounds!Round
    /\ old.phase = "closed" => new.phase = "closed"
    /\ \A b \in DOMAIN old.published :
         b \in DOMAIN new.published /\ new.published[b] = old.published[b]

LEMMA ReplaceStep ==
    ASSUME TablesOK, NEW r \in DOMAIN ledger, NEW new, GrownRound(ledger[r], new),
           ledger' = [ledger EXCEPT ![r] = new],
           \/ closed_at' = closed_at /\ (new.phase = "closed" <=> ledger[r].phase = "closed")
           \/ \E t \in Times : closed_at' = [closed_at EXCEPT ![r] = t] /\ new.phase = "closed"
    PROVE  TablesStep
<1>1. ledger' \in Seq(Rounds!Round) /\ DOMAIN ledger' = DOMAIN ledger /\ Len(ledger') = Len(ledger)
  BY DEF TablesOK, GrownRound
<1>2. \A q \in DOMAIN ledger : ledger'[q] = IF q = r THEN new ELSE ledger[q]
  BY DEF TablesOK
<1>3. Grown(ledger, ledger')
  BY <1>1, <1>2 DEF Grown, GrownRound
<1>4. CASE closed_at' = closed_at /\ (new.phase = "closed" <=> ledger[r].phase = "closed")
  BY <1>1, <1>2, <1>3, <1>4 DEF TablesOK, TablesStep
<1>5. CASE \E t \in Times : closed_at' = [closed_at EXCEPT ![r] = t] /\ new.phase = "closed"
  <2>1. PICK t \in Times : closed_at' = [closed_at EXCEPT ![r] = t] /\ new.phase = "closed"
    BY <1>5
  <2>2. r \in DOMAIN closed_at /\ t # None
    BY ConsensusAssumption DEF TablesOK
  <2>3. /\ closed_at' \in Seq(Times \cup {None}) /\ Len(closed_at') = Len(closed_at)
        /\ \A q \in DOMAIN ledger : closed_at'[q] = IF q = r THEN t ELSE closed_at[q]
    BY <2>1, <2>2 DEF TablesOK
  <2>4. \A q \in DOMAIN ledger' : ledger'[q].phase = "closed" <=> closed_at'[q] # None
    BY <1>1, <1>2, <2>1, <2>2, <2>3 DEF TablesOK
  <2> QED
    BY <1>1, <1>3, <2>3, <2>4 DEF TablesOK, TablesStep
<1> QED
  BY <1>4, <1>5

LEMMA RoundStep ==
    ASSUME TablesOK, NEW r \in DOMAIN ledger, closed_at' = closed_at,
           Rounds!Join(r) \/ Rounds!Begin(r) \/ Rounds!Publish(r)
    PROVE  TablesStep
<1> DEFINE old == ledger[r]
<1>1. old \in Rounds!Round
  BY DEF TablesOK
<1>2. CASE Rounds!Join(r)
  <2>1. PICK b \in Builders, d \in Claims :
          ledger' = [ledger EXCEPT ![r].committed = Rounds!Extended(@, b, d)]
    BY <1>2 DEF Rounds!Join
  <2> DEFINE new == [old EXCEPT !.committed = Rounds!Extended(@, b, d)]
  <2>2. Rounds!Extended(old.committed, b, d) \in UNION {[B -> Claims] : B \in SUBSET Builders}
    BY <1>1, ExtendedType DEF Rounds!Round
  <2>3. new \in Rounds!Round /\ new.phase = old.phase /\ new.published = old.published
    BY <1>1, <2>2 DEF Rounds!Round
  <2>4. ledger' = [ledger EXCEPT ![r] = new]
    BY <2>1
  <2> HIDE DEF new
  <2>5. GrownRound(old, new)
    BY <2>3 DEF GrownRound
  <2> QED
    BY <2>3, <2>4, <2>5, ReplaceStep
<1>3. CASE Rounds!Begin(r)
  <2> DEFINE new == [old EXCEPT !.phase = "revealing"]
  <2>1. ledger' = [ledger EXCEPT ![r] = new] /\ old.phase = "committing"
    BY <1>3 DEF Rounds!Begin
  <2>2. new \in Rounds!Round /\ new.phase = "revealing" /\ new.published = old.published
    BY <1>1 DEF Rounds!Round, Rounds!Phases
  <2> HIDE DEF new
  <2>3. GrownRound(old, new)
    BY <2>1, <2>2 DEF GrownRound
  <2> QED
    BY <2>1, <2>2, <2>3, ReplaceStep
<1>4. CASE Rounds!Publish(r)
  <2>1. PICK b \in DOMAIN old.committed \ DOMAIN old.published :
          ledger' = [ledger EXCEPT ![r].published =
                       Rounds!Extended(@, b, Evidence(old.committed[b]))]
    BY <1>4 DEF Rounds!Publish
  <2> DEFINE v == Evidence(old.committed[b])
             new == [old EXCEPT !.published = Rounds!Extended(@, b, v)]
             Published == UNION {[B -> {Evidence(d) : d \in Claims}] : B \in SUBSET Builders}
  <2>2. b \in Builders /\ v \in {Evidence(d) : d \in Claims} /\ old.published \in Published
    BY <1>1 DEF Rounds!Round
  <2>3. Rounds!Extended(old.published, b, v) \in Published
    BY <2>2, ExtendedType
  <2>4. new \in Rounds!Round /\ new.phase = old.phase
        /\ new.published = Rounds!Extended(old.published, b, v)
    BY <1>1, <2>3 DEF Rounds!Round
  <2>5. ledger' = [ledger EXCEPT ![r] = new]
    BY <2>1
  <2>6. \A c \in DOMAIN old.published :
          c \in DOMAIN new.published /\ new.published[c] = old.published[c]
    BY <2>4 DEF Rounds!Extended
  <2> HIDE DEF new
  <2>7. GrownRound(old, new)
    BY <2>4, <2>6 DEF GrownRound
  <2> QED
    BY <2>4, <2>5, <2>7, ReplaceStep
<1> QED
  BY <1>2, <1>3, <1>4

LEMMA CloseStep ==
    ASSUME TablesOK, NEW r \in DOMAIN ledger, Close(r)
    PROVE  TablesStep
<1> DEFINE new == [ledger[r] EXCEPT !.phase = "closed"]
<1>1. ledger[r] \in Rounds!Round
  BY DEF TablesOK
<1>2. /\ ledger' = [ledger EXCEPT ![r] = new]
      /\ \E t \in Times : closed_at' = [closed_at EXCEPT ![r] = t]
  BY DEF Close, Rounds!Close, WriteClosedAt
<1>3. new \in Rounds!Round /\ new.phase = "closed" /\ new.published = ledger[r].published
  BY <1>1 DEF Rounds!Round, Rounds!Phases
<1> HIDE DEF new
<1>4. GrownRound(ledger[r], new)
  BY <1>3 DEF GrownRound
<1> QED
  BY <1>2, <1>3, <1>4, ReplaceStep

LEMMA CloseAgainStep ==
    ASSUME TablesOK, NEW r \in DOMAIN ledger, CloseAgain(r)
    PROVE  TablesStep
<1> DEFINE old == ledger[r]
<1>1. old \in Rounds!Round /\ old.phase = "closed"
  BY DEF TablesOK, CloseAgain
<1>2. \E t \in Times : closed_at' = [closed_at EXCEPT ![r] = t]
  BY DEF CloseAgain, WriteClosedAt
<1>4. [ledger EXCEPT ![r] = ledger[r]] = ledger
  BY DEF TablesOK
<1>5. ledger' = [ledger EXCEPT ![r] = old]
  BY <1>4 DEF CloseAgain
<1>3. GrownRound(old, old)
  BY <1>1 DEF GrownRound
<1> QED
  BY <1>1, <1>2, <1>3, <1>5, ReplaceStep

-----------------------------------------------------------------------------
(* What a lookup has found out stays true. *)

LEMMA FactKept ==
    ASSUME NEW L, NEW M, Grown(L, M), NEW f, FactOK(f, L)
    PROVE  FactOK(f, M)
BY DEF Grown, FactOK

LEMMA ClosedKept ==
    ASSUME NEW L, NEW M, Grown(L, M), NEW r, ClosedIn(L, r)
    PROVE  ClosedIn(M, r)
BY DEF Grown, ClosedIn

LEMMA LookupKept ==
    ASSUME NEW l, NEW L, NEW M, Grown(L, M), LookupOK(l, L)
    PROVE  LookupOK(l, M)
<1>1. \A f \in l.facts : FactOK(f, M)
  BY FactKept DEF LookupOK
<1>2. \A r \in DOMAIN L : r \in DOMAIN M
  BY DEF Grown
<1>3. l.pc \in {"reload", "count"} => ClosedIn(M, l.round)
  BY ClosedKept DEF LookupOK
<1>4. l.latest # None => ClosedIn(M, l.latest.round)
  BY ClosedKept DEF LookupOK
<1>5. ASSUME l.approved # None PROVE OutputOK(l, M)
  <2>1. OutputOK(l, L)
    BY <1>5 DEF LookupOK
  <2>2. ClosedIn(M, l.approved.round)
    BY <2>1, ClosedKept DEF OutputOK
  <2>3. \A b \in l.approved.sources :
          FactOK([round |-> l.approved.round, builder |-> b, variant |-> l.approved.variant], M)
    BY <2>1, FactKept DEF OutputOK
  <2> QED
    BY <2>1, <2>2, <2>3 DEF OutputOK
<1> QED
  BY <1>1, <1>2, <1>3, <1>4, <1>5 DEF LookupOK

-----------------------------------------------------------------------------
(* The steps of a lookup. *)

Typed(l, L) == /\ l \in Lookup
               /\ l.todo \subseteq DOMAIN L /\ l.round \in DOMAIN L \cup {None}

LookupInv(l, L) == Typed(l, L) /\ LookupOK(l, L)

LEMMA IInvParts ==
    /\ IInv <=> TablesOK /\ LookupInv(lookup, ledger) /\ moves \in 0 .. MaxMoves
    /\ IInv' <=> TablesOK' /\ LookupInv(lookup', ledger') /\ (moves \in 0 .. MaxMoves)'
<1>1. IInv <=> TablesOK /\ LookupInv(lookup, ledger) /\ moves \in 0 .. MaxMoves
  BY DEF IInv, ConsensusTypeOK, TablesOK, LookupInv, Typed
<1>2. IInv' <=> TablesOK' /\ LookupInv(lookup', ledger') /\ (moves \in 0 .. MaxMoves)'
  BY DEF IInv, ConsensusTypeOK, TablesOK, LookupInv, Typed
<1> QED
  BY <1>1, <1>2

LEMMA LookupInvKept ==
    ASSUME NEW l, NEW L, NEW M, Grown(L, M), LookupInv(l, L)
    PROVE  LookupInv(l, M)
<1>1. LookupOK(l, M)
  BY LookupKept DEF LookupInv
<1>2. \A r \in DOMAIN L : r \in DOMAIN M
  BY DEF Grown
<1> QED
  BY <1>1, <1>2 DEF LookupInv, Typed

LEMMA BeginOK ==
    ASSUME NEW requested \in Nat \cup {None}
    PROVE  /\ LookupInv(NoLookup, ledger)
           /\ LookupInv([NoLookup EXCEPT !.pc = "facts", !.requested = requested], ledger)
<1>1. "idle" \in LookupPC /\ "facts" \in LookupPC
  BY DEF LookupPC
<1> QED
  BY <1>1 DEF LookupInv, Typed, LookupOK, NoLookup, Lookup, RoundPCs

LEMMA ReadFactsOK ==
    ASSUME TablesOK, LookupInv(lookup, ledger), ReadFacts
    PROVE  LookupInv(lookup', ledger)
<1> DEFINE facts == FactsOf(ledger)
           todo == RelevantRounds(facts, lookup.requested)
<1>1. facts \subseteq Fact /\ \A f \in facts : FactOK(f, ledger)
  BY DEF TablesOK, FactsOf, Fact, FactOK
<1>2. \A r \in todo : r \in DOMAIN ledger /\ Asked(lookup, r)
  BY <1>1 DEF RelevantRounds, Asked, FactOK
<1>3. todo \in SUBSET Nat /\ todo \subseteq DOMAIN ledger
  BY <1>2 DEF TablesOK
<1>4. "find" \in LookupPC /\ "find" \notin RoundPCs /\ "find" \notin {"reload", "count"}
  BY DEF LookupPC, RoundPCs
<1>5. lookup' = [lookup EXCEPT !.pc = "find", !.facts = facts, !.todo = todo]
  BY DEF ReadFacts, Moves
<1> HIDE DEF facts, todo
<1>6. Typed(lookup', ledger)
  BY <1>1, <1>3, <1>4, <1>5 DEF LookupInv, Typed, Lookup
<1>7. LookupOK(lookup', ledger)
  BY <1>1, <1>2, <1>4, <1>5 DEF LookupInv, Typed, Lookup, LookupOK, OutputOK, Asked
<1> QED
  BY <1>6, <1>7 DEF LookupInv

LEMMA NextRoundOK ==
    ASSUME LookupInv(lookup, ledger)
    PROVE  LookupInv(NextRound(lookup), ledger)
<1>1. "find" \in LookupPC /\ "find" \notin RoundPCs /\ "find" \notin {"reload", "count"}
  BY DEF LookupPC, RoundPCs
<1> DEFINE l == NextRound(lookup)
<1>2. Typed(l, ledger)
  BY <1>1 DEF LookupInv, Typed, Lookup, NextRound
<1>3. /\ l.pc = "find" /\ l.facts = lookup.facts /\ l.todo = lookup.todo
      /\ l.requested = lookup.requested
      /\ l.latest = lookup.latest /\ l.approved = lookup.approved
  BY DEF LookupInv, Typed, Lookup, NextRound
<1> HIDE DEF l
<1>4. LookupOK(l, ledger)
  BY <1>1, <1>3 DEF LookupInv, LookupOK, OutputOK, Asked
<1> QED
  BY <1>2, <1>4 DEF LookupInv, l

LEMMA FindRoundOK ==
    ASSUME TablesOK, LookupInv(lookup, ledger), FindRound
    PROVE  LookupInv(lookup', ledger)
<1>1. CASE lookup' = [lookup EXCEPT !.pc = "select"]
  <2>1. "select" \in LookupPC /\ "select" \notin RoundPCs /\ "select" \notin {"reload", "count"}
    BY DEF LookupPC, RoundPCs
  <2>2. Typed(lookup', ledger)
    BY <1>1, <2>1 DEF LookupInv, Typed, Lookup
  <2>3. LookupOK(lookup', ledger)
    BY <1>1, <2>1 DEF LookupInv, Typed, Lookup, LookupOK, OutputOK, Asked
  <2> QED
    BY <2>2, <2>3 DEF LookupInv
<1>2. ASSUME NEW r \in lookup.todo,
             lookup' = [lookup EXCEPT !.todo = @ \ {r}, !.round = r,
                          !.pc = IF ledger[r].phase = "closed" THEN "reload" ELSE "advance"]
      PROVE  LookupInv(lookup', ledger)
  <2> DEFINE pc == IF ledger[r].phase = "closed" THEN "reload" ELSE "advance"
  <2>1. r \in DOMAIN ledger /\ r \in Nat /\ Asked(lookup, r)
    BY DEF LookupInv, Typed, LookupOK, TablesOK
  <2>2. pc \in LookupPC /\ (pc \in {"reload", "count"} => ClosedIn(ledger, r))
    BY <1>2, <2>1 DEF LookupPC, ClosedIn
  <2>3. Typed(lookup', ledger)
    BY <1>2, <2>1, <2>2 DEF LookupInv, Typed, Lookup
  <2>4. /\ lookup'.pc = pc /\ lookup'.round = r /\ lookup'.todo = lookup.todo \ {r}
        /\ lookup'.facts = lookup.facts /\ lookup'.requested = lookup.requested
        /\ lookup'.latest = lookup.latest /\ lookup'.approved = lookup.approved
    BY <1>2 DEF LookupInv, Typed, Lookup
  <2>5. LookupOK(lookup', ledger)
    BY <2>1, <2>2, <2>4 DEF LookupInv, LookupOK, OutputOK, Asked
  <2> QED
    BY <2>3, <2>5 DEF LookupInv
<1> QED
  BY <1>1, <1>2 DEF FindRound, Moves

LEMMA AdvanceRoundOK ==
    ASSUME TablesOK, LookupInv(lookup, ledger), AdvanceRound
    PROVE  TablesStep /\ LookupInv(lookup', ledger')
<1>1. CASE Moves(NextRound(lookup))
  <2>1. UNCHANGED registry /\ lookup' = NextRound(lookup)
    BY <1>1 DEF Moves
  <2>2. LookupInv(lookup', ledger')
    BY <2>1, NextRoundOK DEF registry
  <2> QED
    BY <2>1, <2>2, IdleStep
<1>2. CASE /\ Close(lookup.round) \/ CloseAgain(lookup.round)
           /\ lookup' = [lookup EXCEPT !.pc = "reload"]
  <2>1. lookup.round \in DOMAIN ledger /\ Asked(lookup, lookup.round)
    BY DEF LookupInv, LookupOK, AdvanceRound, LookingAt, RoundPCs
  <2>2. TablesStep
    BY <1>2, <2>1, CloseStep, CloseAgainStep
  <2>3. ClosedIn(ledger', lookup.round)
    <3>1. ledger[lookup.round] \in Rounds!Round /\ lookup.round \in DOMAIN ledger'
      BY <2>1, <2>2 DEF TablesOK, TablesStep, Grown
    <3>2. CASE Close(lookup.round)
      BY <2>1, <3>1, <3>2 DEF TablesOK, ClosedIn, Close, Rounds!Close, Rounds!Round
    <3>3. CASE CloseAgain(lookup.round)
      BY <3>1, <3>3 DEF ClosedIn, CloseAgain
    <3> QED
      BY <1>2, <3>2, <3>3
  <2>4. LookupInv(lookup, ledger')
    BY <2>2, LookupInvKept DEF TablesStep
  <2>5. "reload" \in LookupPC
    BY DEF LookupPC
  <2>6. Typed(lookup', ledger')
    BY <1>2, <2>4, <2>5 DEF LookupInv, Typed, Lookup
  <2>7. /\ lookup'.pc = "reload" /\ lookup'.round = lookup.round /\ lookup'.todo = lookup.todo
        /\ lookup'.facts = lookup.facts /\ lookup'.requested = lookup.requested
        /\ lookup'.latest = lookup.latest /\ lookup'.approved = lookup.approved
    BY <1>2 DEF LookupInv, Typed, Lookup
  <2>8. LookupOK(lookup', ledger')
    BY <2>1, <2>3, <2>4, <2>7 DEF LookupInv, LookupOK, OutputOK, Asked, ClosedIn
  <2> QED
    BY <2>2, <2>6, <2>8 DEF LookupInv
<1> QED
  BY <1>1, <1>2 DEF AdvanceRound

LEMMA ReloadRoundOK ==
    ASSUME TablesOK, LookupInv(lookup, ledger), ReloadRound
    PROVE  LookupInv(lookup', ledger)
<1> DEFINE r == lookup.round
<1>1. lookup.pc = "reload" /\ lookup' = [lookup EXCEPT !.pc = "count", !.at = closed_at[r]]
  BY DEF ReloadRound, LookingAt, Moves
<1>2. r \in DOMAIN ledger /\ Asked(lookup, r) /\ ClosedIn(ledger, r)
  BY <1>1 DEF LookupInv, LookupOK, RoundPCs
<1>3. closed_at[r] \in Times /\ closed_at[r] # None /\ "count" \in LookupPC
  BY <1>2 DEF TablesOK, ClosedIn, LookupPC
<1>4. Typed(lookup', ledger)
  BY <1>1, <1>3 DEF LookupInv, Typed, Lookup
<1>5. /\ lookup'.round = r /\ lookup'.at = closed_at[r] /\ lookup'.todo = lookup.todo
      /\ lookup'.facts = lookup.facts /\ lookup'.requested = lookup.requested
      /\ lookup'.latest = lookup.latest /\ lookup'.approved = lookup.approved
  BY <1>1 DEF LookupInv, Typed, Lookup
<1>6. LookupOK(lookup', ledger)
  BY <1>2, <1>3, <1>5 DEF LookupInv, LookupOK, OutputOK, Asked
<1> QED
  BY <1>4, <1>6 DEF LookupInv

LEMMA CountRoundRevealsOK ==
    ASSUME TablesOK, LookupInv(lookup, ledger), CountRoundReveals
    PROVE  LookupInv(lookup', ledger)
<1> DEFINE r == lookup.round
           candidate == [at |-> lookup.at, round |-> r]
           latest == LatestCandidate(lookup.latest, candidate)
           l == NextRound(lookup)
<1>1. CASE lookup' = l
  BY <1>1, NextRoundOK
<1>2. CASE lookup' = [l EXCEPT !.latest = latest]
  <2>1. lookup.pc = "count" /\ r \in Nat
    BY DEF CountRoundReveals, LookingAt, LookupInv, LookupOK, RoundPCs, TablesOK
  <2>2. ClosedIn(ledger, r) /\ Asked(lookup, r)
    BY <2>1 DEF LookupInv, LookupOK, RoundPCs
  <2>3. latest \in {lookup.latest, candidate}
    BY DEF LatestCandidate
  <2>4. /\ LookupInv(l, ledger) /\ l.pc = "find" /\ l.latest = lookup.latest
        /\ l.requested = lookup.requested
    BY NextRoundOK DEF NextRound, LookupInv, Typed, Lookup
  <2> HIDE DEF latest, l
  <2>5. candidate \in Candidate
    BY <2>1 DEF LookupInv, LookupOK, Typed, Lookup, Candidate
  <2>6. Typed(lookup', ledger)
    BY <1>2, <2>3, <2>4, <2>5 DEF LookupInv, Typed, Lookup
  <2>7. /\ lookup'.pc = "find" /\ lookup'.todo = l.todo /\ lookup'.facts = l.facts
        /\ lookup'.requested = lookup.requested /\ lookup'.latest = latest
        /\ lookup'.approved = l.approved
    BY <1>2, <2>4 DEF LookupInv, Typed, Lookup
  <2>8. "find" \notin RoundPCs
    BY DEF RoundPCs
  <2>9. LookupOK(lookup', ledger)
    BY <2>2, <2>3, <2>4, <2>7, <2>8 DEF LookupInv, LookupOK, OutputOK, Asked
  <2> QED
    BY <2>6, <2>9 DEF LookupInv
<1> QED
  BY <1>1, <1>2 DEF CountRoundReveals, Moves

LEMMA SelectOK ==
    ASSUME TablesOK, LookupInv(lookup, ledger), Select
    PROVE  LookupInv(lookup', ledger)
<1>1. /\ "answered" \in LookupPC /\ "answered" \notin RoundPCs
      /\ "answered" \notin {"reload", "count"}
  BY DEF LookupPC, RoundPCs
<1>2. CASE lookup' = [lookup EXCEPT !.pc = "answered"]
  <2>1. Typed(lookup', ledger)
    BY <1>1, <1>2 DEF LookupInv, Typed, Lookup
  <2>2. LookupOK(lookup', ledger)
    BY <1>1, <1>2 DEF LookupInv, Typed, Lookup, LookupOK, OutputOK, Asked
  <2> QED
    BY <2>1, <2>2 DEF LookupInv
<1>3. ASSUME NEW output \in Answer(lookup),
             lookup' = [lookup EXCEPT !.pc = "answered", !.approved = output]
      PROVE  LookupInv(lookup', ledger)
  <2> DEFINE q == lookup.latest.round
  <2>1. /\ q \in Nat /\ ClosedIn(ledger, q) /\ Asked(lookup, q)
        /\ lookup.facts \in SUBSET Fact /\ \A f \in lookup.facts : FactOK(f, ledger)
    BY <1>3 DEF Answer, LookupInv, Typed, Lookup, Candidate, LookupOK
  <2>2. PICK v \in ApprovedVariants(lookup.facts, q) :
          output = [round |-> q, variant |-> v, sources |-> VotersFor(lookup.facts, q, v)]
    BY <1>3 DEF Answer
  <2> DEFINE voters == VotersFor(lookup.facts, q, v)
  <2>3. v \in Variants /\ voters \subseteq Builders
    BY <2>1, <2>2 DEF ApprovedVariants, Leaders, VariantsIn, VotersFor, Fact
  <2>4. Cardinality(voters) >= MinimumBuilders
    BY <2>2 DEF ApprovedVariants
  <2>5. ASSUME NEW b \in voters
        PROVE  FactOK([round |-> q, builder |-> b, variant |-> v], ledger)
    <3>1. PICK f \in lookup.facts : f.round = q /\ f.variant = v /\ f.builder = b
      BY <2>5 DEF VotersFor
    <3> QED
      BY <2>1, <3>1 DEF FactOK
  <2>6. output \in Output /\ output.round = q /\ output.variant = v /\ output.sources = voters
    BY <2>1, <2>2, <2>3 DEF Output
  <2>7. Typed(lookup', ledger)
    BY <1>1, <1>3, <2>6 DEF LookupInv, Typed, Lookup
  <2>8. /\ lookup'.pc = "answered" /\ lookup'.todo = lookup.todo /\ lookup'.facts = lookup.facts
        /\ lookup'.requested = lookup.requested /\ lookup'.latest = lookup.latest
        /\ lookup'.approved = output
    BY <1>3 DEF LookupInv, Typed, Lookup
  <2> HIDE DEF voters
  <2>9. OutputOK(lookup', ledger)
    BY <2>1, <2>4, <2>5, <2>6, <2>8 DEF OutputOK, Asked
  <2>10. LookupOK(lookup', ledger)
    BY <1>1, <2>8, <2>9 DEF LookupInv, LookupOK, Asked
  <2> QED
    BY <2>7, <2>10 DEF LookupInv
<1> QED
  BY <1>2, <1>3 DEF Select, Moves

-----------------------------------------------------------------------------
(* The theorem. *)

LEMMA OthersStep ==
    ASSUME TablesOK, OthersMove
    PROVE  TablesStep
<1>1. ASSUME NEW path \in Paths, Rounds!Open(path), closed_at' = Append(closed_at, None)
      PROVE  TablesStep
  BY <1>1, OpenStep
<1>2. ASSUME NEW r \in DOMAIN ledger, closed_at' = closed_at,
             Rounds!Join(r) \/ Rounds!Begin(r) \/ Rounds!Publish(r)
      PROVE  TablesStep
  BY <1>2, RoundStep
<1>3. ASSUME NEW r \in DOMAIN ledger, Close(r) \/ CloseAgain(r)
      PROVE  TablesStep
  BY <1>3, CloseStep, CloseAgainStep
<1> QED
  BY <1>1, <1>2, <1>3 DEF OthersMove

LEMMA InitOK ==
    ASSUME ConsensusInit
    PROVE  IInv
<1>1. ledger = <<>> /\ closed_at = <<>> /\ lookup = NoLookup /\ moves = 0
  BY DEF ConsensusInit, Rounds!Init
<1>2. TablesOK
  BY <1>1 DEF TablesOK
<1>3. LookupInv(lookup, ledger)
  BY <1>1, BeginOK
<1>4. moves \in 0 .. MaxMoves
  BY <1>1, ConsensusAssumption
<1> QED
  BY <1>2, <1>3, <1>4, IInvParts

LEMMA StepOK ==
    ASSUME IInv, [ConsensusNext]_consensusVars
    PROVE  TablesStep /\ LookupInv(lookup', ledger') /\ moves' \in 0 .. MaxMoves
<1>1. TablesOK /\ LookupInv(lookup, ledger) /\ moves \in 0 .. MaxMoves
  BY IInvParts
<1> DEFINE Goal == TablesStep /\ LookupInv(lookup', ledger') /\ moves' \in 0 .. MaxMoves
<1>2. ASSUME Others PROVE Goal
  <2>1. TablesStep /\ lookup' = lookup
    BY <1>1, <1>2, OthersStep DEF Others
  <2>2. LookupInv(lookup', ledger')
    BY <1>1, <2>1, LookupInvKept DEF TablesStep
  <2>3. moves' \in 0 .. MaxMoves
    BY <1>1, <1>2, ConsensusAssumption DEF Others
  <2> QED
    BY <2>1, <2>2, <2>3
<1>3. ASSUME AdvanceRound PROVE Goal
  <2>1. TablesStep /\ LookupInv(lookup', ledger')
    BY <1>1, <1>3, AdvanceRoundOK
  <2>2. moves' = moves
    BY <1>3 DEF AdvanceRound, Moves, history
  <2> QED
    BY <1>1, <2>1, <2>2
<1>4. ASSUME ReadFacts \/ FindRound \/ ReloadRound \/ CountRoundReveals \/ Select PROVE Goal
  <2>1. UNCHANGED registry /\ moves' = moves
    BY <1>4 DEF ReadFacts, FindRound, ReloadRound, CountRoundReveals, Select, Moves, history
  <2>2. LookupInv(lookup', ledger)
    BY <1>1, <1>4, ReadFactsOK, FindRoundOK, ReloadRoundOK, CountRoundRevealsOK, SelectOK
  <2>3. TablesStep /\ ledger' = ledger
    BY <1>1, <2>1, IdleStep DEF registry
  <2> QED
    BY <1>1, <2>1, <2>2, <2>3
<1>5. ASSUME Forget \/ \E requested \in DOMAIN ledger \cup {None} : Begin(requested) PROVE Goal
  <2>1. UNCHANGED registry /\ moves' = 0
    BY <1>5 DEF Forget, Begin, Remember
  <2>2. LookupInv(lookup', ledger)
    <3>1. CASE Forget
      BY <3>1, BeginOK DEF Forget
    <3>2. ASSUME NEW requested \in DOMAIN ledger \cup {None}, Begin(requested)
          PROVE  LookupInv(lookup', ledger)
      <4>1. requested \in Nat \cup {None}
        BY <1>1 DEF TablesOK
      <4> QED
        BY <3>2, <4>1, BeginOK DEF Begin
    <3> QED
      BY <1>5, <3>1, <3>2
  <2>3. TablesStep /\ ledger' = ledger
    BY <1>1, <2>1, IdleStep DEF registry
  <2> QED
    BY <2>1, <2>2, <2>3, ConsensusAssumption
<1>6. ASSUME UNCHANGED consensusVars PROVE Goal
  <2>1. UNCHANGED registry /\ lookup' = lookup /\ moves' = moves
    BY <1>6 DEF consensusVars, history
  <2>2. TablesStep /\ ledger' = ledger
    BY <1>1, <2>1, IdleStep DEF registry
  <2> QED
    BY <1>1, <2>1, <2>2
<1> QED
  BY <1>2, <1>3, <1>4, <1>5, <1>6 DEF ConsensusNext, LookupStep

LEMMA NextOK ==
    ASSUME IInv, [ConsensusNext]_consensusVars
    PROVE  IInv'
BY StepOK, IInvParts DEF TablesStep

(* The invariant contains what is to be shown. *)
LEMMA IInvImplies ==
    ASSUME IInv
    PROVE  ConsensusTypeOK /\ ApprovedIsBacked
BY DEF IInv, LookupOK, OutputOK, FactOK, Asked, ClosedIn, ApprovedIsBacked, Backs

(* Types, and that whatever the lookup has read is still there: the        *)
(* inductive invariant of a lookup among other requests.                   *)
THEOREM Invariance == ConsensusSpec => []IInv
<1>1. ConsensusInit => IInv
  BY InitOK
<1>2. IInv /\ [ConsensusNext]_consensusVars => IInv'
  BY NextOK
<1> QED
  BY <1>1, <1>2, PTL DEF ConsensusSpec

(* Whatever reveals, closings and other requests come between the          *)
(* statements of a lookup, what it approves (store.rs, approved_output and *)
(* approved_output_in_round) has been revealed by enough builders in one   *)
(* round that has closed and was asked for.                                *)
THEOREM Backed == ConsensusSpec => []ApprovedIsBacked
<1>1. IInv => ApprovedIsBacked
  BY IInvImplies
<1> QED
  BY <1>1, Invariance, PTL

-----------------------------------------------------------------------------
(* What a lookup and the requests it meets do to the rounds is what        *)
(* RoundLedger allows: that a round is closed anew, it does not see.       *)

LEMMA ConsensusStep ==
    ASSUME IInv, [ConsensusNext]_consensusVars
    PROVE  [Rounds!Next]_ledger
<1>1. ASSUME NEW r \in DOMAIN ledger, Close(r) \/ CloseAgain(r)
      PROVE  [Rounds!Next]_ledger
  BY <1>1 DEF Close, CloseAgain, Rounds!Next
<1>2. ASSUME OthersMove PROVE [Rounds!Next]_ledger
  BY <1>1, <1>2 DEF OthersMove, Rounds!Next
<1>3. CASE AdvanceRound
  <2>1. lookup.round \in DOMAIN ledger
    BY <1>3 DEF AdvanceRound, LookingAt, IInv, LookupOK, RoundPCs
  <2> QED
    BY <1>1, <1>3, <2>1 DEF AdvanceRound, Moves, registry
<1>4. CASE ReadFacts \/ FindRound \/ ReloadRound \/ CountRoundReveals \/ Select
  BY <1>4 DEF ReadFacts, FindRound, ReloadRound, CountRoundReveals, Select, Moves, registry
<1>5. CASE Forget \/ \E requested \in DOMAIN ledger \cup {None} : Begin(requested)
  BY <1>5 DEF Forget, Begin, registry
<1>6. CASE UNCHANGED consensusVars
  BY <1>6 DEF consensusVars, registry
<1> QED
  BY <1>2, <1>3, <1>4, <1>5, <1>6 DEF ConsensusNext, LookupStep, Others

(* select_output_consensus calls advance_round for the rounds it meets, so *)
(* a lookup writes, too: with these writes the rounds are still those of   *)
(* RoundLedger, which the statements of the store implement.               *)
THEOREM LookupsKeepLedger == ConsensusSpec => Rounds!Spec
<1>1. ConsensusInit => Rounds!Init
  BY DEF ConsensusInit
<1>2. IInv /\ [ConsensusNext]_consensusVars => [Rounds!Next]_ledger
  BY ConsensusStep
<1> QED
  BY <1>1, <1>2, Invariance, PTL DEF ConsensusSpec, Rounds!Spec

-----------------------------------------------------------------------------
(* LatestWins and QuietAnswerIsRight.  They speak of the tables as they    *)
(* were when the lookup began, B, of the rounds that have been closed anew *)
(* since then, W, and of the lookup l in rounds L, closed at C.            *)

(* The rounds that the lookup must take into account; with W empty, those  *)
(* that must not be overlooked altogether.                                 *)
Known(B, W) == {r \in DOMAIN B.ledger \ W : Eligible(B.ledger, r)}
Dated(C, r) == [at |-> C[r], round |-> r]
Beaten(l, x) == l.latest # None /\ ~Later(x, l.latest)

RememberedOK(l, L, C, B, W) ==
    /\ l.pc = "idle" => B = NoHistory
    /\ Grown(B.ledger, L)
    /\ \A r \in DOMAIN B.ledger \ W : B.ledger[r].phase = "closed" => C[r] = B.closed_at[r]

(* A known round is still to be looked at, is looked at, or was surpassed. *)
FoundOK(l, B, W) ==
    /\ l.pc \in {"idle", "facts"} => l.latest = None
    /\ \A r \in Known(B, W) : Asked(l, r) /\ l.pc \notin {"idle", "facts"} =>
         \/ r \in l.todo
         \/ l.pc \in {"reload", "count"} /\ l.round = r
         \/ Beaten(l, Dated(B.closed_at, r))
    /\ \A r \in Known(B, {}) : Asked(l, r) /\ l.pc \notin {"idle", "facts"} =>
         \/ r \in l.todo
         \/ l.pc \in {"reload", "count"} /\ l.round = r
         \/ l.latest # None
    /\ l.pc = "count" /\ l.round \in Known(B, W) => l.at = B.closed_at[l.round]

AnswerOK(l) ==
    /\ l.pc \in {"select", "answered"} => l.todo = {}
    /\ l.pc # "answered" => l.approved = None
    /\ l.pc = "answered" => \/ Answer(l) = {} /\ l.approved = None
                            \/ l.approved \in Answer(l)

(* What l has found out is all there is in rounds L, closed at C. *)
HasFact(l, r) == \E f \in l.facts : f.round = r
Exact(l, L, C) ==
    l.pc \notin {"idle", "facts"} =>
      /\ l.facts = FactsOf(L)
      /\ \A r \in l.todo : HasFact(l, r)
      /\ l.pc \in RoundPCs => HasFact(l, l.round)
      /\ l.pc = "advance" => L[l.round].phase # "closed"
      /\ l.pc = "count" => l.at = C[l.round]
      /\ l.latest # None => /\ Eligible(L, l.latest.round)
                            /\ l.latest = Dated(C, l.latest.round)

(* As long as nobody else has moved, either nothing has changed or the     *)
(* lookup has closed a round.                                              *)
Still(l, L, C, B, W) == B = [ledger |-> L, closed_at |-> C] /\ W = {} /\ Exact(l, L, C)
ClosedSince(L, B) == \E r \in DOMAIN B.ledger : /\ B.ledger[r].phase # "closed"
                                                /\ ClosedIn(L, r)
QuietOK(l, L, C, B, W, n) ==
    n = 0 /\ l.pc # "idle" => Still(l, L, C, B, W) \/ ClosedSince(L, B)

HistoryInv ==
    /\ RememberedOK(lookup, ledger, closed_at, before, rewritten)
    /\ FoundOK(lookup, before, rewritten)
    /\ AnswerOK(lookup)
    /\ QuietOK(lookup, ledger, closed_at, before, rewritten, moves)

HInv == IInv /\ HistoryInv

LEMMA GrownFurther ==
    ASSUME NEW L, NEW M, NEW N, Grown(L, M), Grown(M, N)
    PROVE  Grown(L, N)
BY DEF Grown

LEMMA PublishedType ==
    ASSUME NEW L \in Seq(Rounds!Round), NEW r \in DOMAIN L
    PROVE  /\ DOMAIN L[r].published \subseteq Builders
           /\ \A b \in DOMAIN L[r].published : L[r].published[b] \subseteq Variants
<1> DEFINE published == L[r].published
<1>1. published \in UNION {[B -> {Evidence(d) : d \in Claims}] : B \in SUBSET Builders}
  <2>1. L[r] \in Rounds!Round
    OBVIOUS
  <2> QED
    BY <2>1 DEF Rounds!Round
<1>2. PICK B \in SUBSET Builders : published \in [B -> {Evidence(d) : d \in Claims}]
  BY <1>1
<1> HIDE DEF published
<1>3. DOMAIN published = B
  BY <1>2
<1>4. \A b \in B : published[b] \in Claims
  BY <1>2 DEF Evidence
<1>5. \A b \in B : published[b] \subseteq Variants
  BY <1>4, ConsensusAssumption
<1> QED
  BY <1>3, <1>5 DEF published

(* A round in which builders have revealed enough keeps to it. *)
LEMMA EligibleKept ==
    ASSUME IsFiniteSet(Builders), NEW L, NEW M \in Seq(Rounds!Round), Grown(L, M), NEW r \in DOMAIN L,
           Eligible(L, r)
    PROVE  r \in DOMAIN M /\ Eligible(M, r)
<1> DEFINE S == DOMAIN M[r].published
           T == DOMAIN L[r].published
<1>1. r \in DOMAIN M /\ M[r].phase = "closed" /\ T \subseteq S
  BY DEF Grown, Eligible
<1>2. \A b \in T : M[r].published[b] = L[r].published[b]
  BY DEF Grown
<1>3. IsFiniteSet(S)
  BY <1>1, PublishedType, FS_Subset
<1>4. IsFiniteSet(T) /\ Cardinality(T) <= Cardinality(S)
  BY <1>1, <1>3, FS_Subset
<1>5. Cardinality(T) \in Nat /\ Cardinality(S) \in Nat /\ Cardinality(T) >= MinimumBuilders
  BY <1>3, <1>4, FS_CardinalityType DEF Eligible
<1>6. Cardinality(S) >= MinimumBuilders
  BY <1>4, <1>5, ConsensusAssumption
<1>7. \E b \in S : M[r].published[b] # {}
  BY <1>1, <1>2 DEF Eligible
<1> QED
  BY <1>1, <1>6, <1>7 DEF Eligible

(* Later is a strict order, total on rounds. *)
LEMMA LaterOrder ==
    ASSUME NEW x \in Candidate, NEW y \in Candidate, NEW z \in Candidate
    PROVE  /\ ~Later(x, x)
           /\ ~Later(x, y) /\ Later(z, y) => ~Later(x, z)
           /\ ~Later(x, y) /\ ~Later(y, x) => x.round = y.round
<1>1. /\ x.at \in Nat /\ y.at \in Nat /\ z.at \in Nat
      /\ x.round \in Nat /\ y.round \in Nat /\ z.round \in Nat
  BY ConsensusAssumption DEF Candidate
<1> QED
  BY <1>1 DEF Later

LEMMA ClosedDated ==
    ASSUME TablesOK, NEW r, ClosedIn(ledger, r)
    PROVE  Dated(closed_at, r) \in Candidate
<1>1. closed_at[r] \in Times \cup {None} /\ closed_at[r] # None /\ r \in Nat
  BY DEF TablesOK, ClosedIn
<1> QED
  BY <1>1 DEF Dated, Candidate

LEMMA KnownDated ==
    ASSUME TablesOK, NEW l, NEW B, NEW W, RememberedOK(l, ledger, closed_at, B, W),
           NEW r \in Known(B, W)
    PROVE  /\ ClosedIn(ledger, r) /\ B.closed_at[r] = closed_at[r]
           /\ Dated(B.closed_at, r) \in Candidate
<1>1. r \in DOMAIN B.ledger \ W /\ B.ledger[r].phase = "closed"
  BY DEF Known, Eligible
<1>2. ClosedIn(ledger, r) /\ B.closed_at[r] = closed_at[r]
  BY <1>1 DEF RememberedOK, Grown, ClosedIn
<1> QED
  BY <1>2, ClosedDated DEF Dated

-----------------------------------------------------------------------------
(* The steps of the lookup that leave the tables alone. *)

Reading == /\ TablesOK /\ LookupInv(lookup, ledger)
           /\ RememberedOK(lookup, ledger, closed_at, before, rewritten)
           /\ FoundOK(lookup, before, rewritten)
           /\ AnswerOK(lookup)

Finds(l) == /\ l.pc # "idle"
            /\ FoundOK(l, before, rewritten)
            /\ AnswerOK(l)
            /\ Exact(lookup, ledger, closed_at) => Exact(l, ledger, closed_at)

LEMMA ReadFactsFinds ==
    ASSUME Reading, ReadFacts
    PROVE  Finds(lookup')
<1> DEFINE facts == FactsOf(ledger)
           todo == RelevantRounds(facts, lookup.requested)
<1>1. lookup.pc = "facts" /\ lookup \in Lookup
  BY DEF ReadFacts, LookingAt, Reading, LookupInv, Typed
<1>2. lookup' = [lookup EXCEPT !.pc = "find", !.facts = facts, !.todo = todo]
  BY DEF ReadFacts, Moves
<1>3. \A r \in Known(before, {}) : Asked(lookup, r) => r \in todo
  <2> SUFFICES ASSUME NEW r \in Known(before, {}), Asked(lookup, r) PROVE r \in todo
    OBVIOUS
  <2>1. PICK b \in DOMAIN before.ledger[r].published : before.ledger[r].published[b] # {}
    BY DEF Known, Eligible
  <2>2. r \in DOMAIN ledger /\ b \in DOMAIN ledger[r].published /\ ledger[r].published[b] # {}
    BY <2>1 DEF Known, Reading, RememberedOK, Grown
  <2>3. PICK v : v \in ledger[r].published[b]
    BY <2>2
  <2>4. b \in Builders /\ v \in Variants
    BY <2>2, <2>3, PublishedType DEF Reading, TablesOK
  <2>5. [round |-> r, builder |-> b, variant |-> v] \in facts
    BY <2>2, <2>3, <2>4 DEF FactsOf
  <2> QED
    BY <2>5 DEF RelevantRounds, Asked
<1>4. \A r \in todo : \E f \in facts : f.round = r
  BY DEF RelevantRounds
<1> HIDE DEF facts, todo
<1>5. /\ lookup'.pc = "find" /\ lookup'.facts = facts /\ lookup'.todo = todo
      /\ lookup'.requested = lookup.requested /\ lookup'.approved = lookup.approved
      /\ lookup'.latest = lookup.latest
  BY <1>1, <1>2 DEF Lookup

<1>6. FoundOK(lookup', before, rewritten)
  <2>1. Known(before, rewritten) \subseteq Known(before, {})
    BY DEF Known
  <2> QED
    BY <1>3, <1>5, <2>1 DEF FoundOK, Asked
<1>7. AnswerOK(lookup')
  BY <1>1, <1>5 DEF AnswerOK, Reading
<1>8. Exact(lookup', ledger, closed_at)
  <2>1. lookup.latest = None /\ "find" \notin RoundPCs
    BY <1>1 DEF Reading, FoundOK, RoundPCs
  <2> QED
    BY <1>4, <1>5, <2>1 DEF Exact, HasFact, facts
<1> QED
  BY <1>5, <1>6, <1>7, <1>8 DEF Finds

LEMMA NextRoundFinds ==
    ASSUME Reading, lookup.pc \in RoundPCs,
           lookup.pc \in {"reload", "count"} =>
             \A r \in Known(before, rewritten) : r = lookup.round =>
               Beaten(lookup, Dated(before.closed_at, r)),
           lookup.pc \in {"reload", "count"} =>
             \A r \in Known(before, {}) : r = lookup.round => lookup.latest # None
    PROVE  Finds(NextRound(lookup))
<1> DEFINE l == NextRound(lookup)
<1>1. lookup \in Lookup /\ lookup.pc \in {"advance", "reload", "count"}
  BY DEF Reading, LookupInv, Typed, RoundPCs
<1>2. /\ l.pc = "find" /\ l.facts = lookup.facts /\ l.todo = lookup.todo
      /\ l.requested = lookup.requested
      /\ l.latest = lookup.latest /\ l.approved = lookup.approved
  BY <1>1 DEF Lookup, NextRound
<1>3. "find" \notin RoundPCs
  BY DEF RoundPCs
<1> HIDE DEF l
<1>4. FoundOK(l, before, rewritten)
  BY <1>1, <1>2 DEF Reading, FoundOK, Asked, Beaten
<1>5. AnswerOK(l)
  BY <1>1, <1>2 DEF Reading, AnswerOK
<1>6. Exact(lookup, ledger, closed_at) => Exact(l, ledger, closed_at)
  BY <1>1, <1>2, <1>3 DEF Exact, HasFact
<1> QED
  BY <1>2, <1>4, <1>5, <1>6 DEF Finds, l

LEMMA FindRoundFinds ==
    ASSUME Reading, FindRound
    PROVE  Finds(lookup')
<1>1. lookup.pc = "find" /\ lookup \in Lookup
  BY DEF FindRound, LookingAt, Reading, LookupInv, Typed
<1>2. CASE lookup.todo = {} /\ lookup' = [lookup EXCEPT !.pc = "select"]
  <2>1. /\ lookup'.pc = "select" /\ lookup'.facts = lookup.facts /\ lookup'.todo = lookup.todo
        /\ lookup'.requested = lookup.requested
        /\ lookup'.latest = lookup.latest /\ lookup'.approved = lookup.approved
    BY <1>1, <1>2 DEF Lookup
  <2>2. "select" \notin RoundPCs
    BY DEF RoundPCs
  <2>3. FoundOK(lookup', before, rewritten)
    BY <1>1, <2>1 DEF Reading, FoundOK, Asked, Beaten
  <2>4. AnswerOK(lookup')
    BY <1>1, <1>2, <2>1 DEF Reading, AnswerOK
  <2>5. Exact(lookup, ledger, closed_at) => Exact(lookup', ledger, closed_at)
    BY <1>1, <2>1, <2>2 DEF Exact, HasFact
  <2> QED
    BY <2>1, <2>3, <2>4, <2>5 DEF Finds
<1>3. ASSUME NEW r \in lookup.todo,
             lookup' = [lookup EXCEPT !.todo = @ \ {r}, !.round = r,
                          !.pc = IF ledger[r].phase = "closed" THEN "reload" ELSE "advance"]
      PROVE  Finds(lookup')
  <2> DEFINE pc == IF ledger[r].phase = "closed" THEN "reload" ELSE "advance"
  <2>1. /\ lookup'.pc = pc /\ lookup'.round = r /\ lookup'.todo = lookup.todo \ {r}
        /\ lookup'.facts = lookup.facts /\ lookup'.requested = lookup.requested
        /\ lookup'.latest = lookup.latest /\ lookup'.approved = lookup.approved
    BY <1>1, <1>3 DEF Lookup
  <2>2. r \in Known(before, {}) \cup Known(before, rewritten) => pc = "reload"
    BY DEF Known, Eligible, Reading, RememberedOK, Grown
  <2>3. /\ pc \in {"reload", "advance"} /\ pc \in RoundPCs
        /\ pc = "advance" => ledger[r].phase # "closed"
    BY DEF RoundPCs
  <2> HIDE DEF pc
  <2>4. FoundOK(lookup', before, rewritten)
    BY <1>1, <2>1, <2>2, <2>3 DEF Reading, FoundOK, Asked, Beaten
  <2>5. AnswerOK(lookup')
    BY <1>1, <2>1, <2>3 DEF Reading, AnswerOK
  <2>6. Exact(lookup, ledger, closed_at) => Exact(lookup', ledger, closed_at)
    BY <1>1, <2>1, <2>3 DEF Exact, HasFact
  <2> QED
    BY <2>1, <2>3, <2>4, <2>5, <2>6 DEF Finds
<1> QED
  BY <1>2, <1>3 DEF FindRound, Moves

LEMMA ReloadRoundFinds ==
    ASSUME Reading, ReloadRound
    PROVE  Finds(lookup')
<1>1. lookup.pc = "reload" /\ lookup \in Lookup
  BY DEF ReloadRound, LookingAt, Reading, LookupInv, Typed
<1>2. /\ lookup'.pc = "count" /\ lookup'.at = closed_at[lookup.round]
      /\ lookup'.round = lookup.round /\ lookup'.todo = lookup.todo
      /\ lookup'.facts = lookup.facts /\ lookup'.requested = lookup.requested
      /\ lookup'.latest = lookup.latest /\ lookup'.approved = lookup.approved
  BY <1>1 DEF ReloadRound, Moves, Lookup
<1>3. lookup.round \in Known(before, rewritten) =>
        closed_at[lookup.round] = before.closed_at[lookup.round]
  BY KnownDated DEF Reading
<1>4. FoundOK(lookup', before, rewritten)
  BY <1>1, <1>2, <1>3 DEF Reading, FoundOK, Asked, Beaten
<1>5. AnswerOK(lookup')
  BY <1>1, <1>2 DEF Reading, AnswerOK
<1>6. Exact(lookup, ledger, closed_at) => Exact(lookup', ledger, closed_at)
  BY <1>1, <1>2 DEF Exact, HasFact, RoundPCs
<1> QED
  BY <1>2, <1>4, <1>5, <1>6 DEF Finds

LEMMA CountRoundRevealsFinds ==
    ASSUME IsFiniteSet(Builders), Reading, CountRoundReveals
    PROVE  Finds(lookup')
<1> DEFINE r == lookup.round
           candidate == [at |-> lookup.at, round |-> r]
           latest == LatestCandidate(lookup.latest, candidate)
           l == NextRound(lookup)
           few == Cardinality(DOMAIN ledger[r].published) < MinimumBuilders
<1>1. lookup.pc = "count" /\ lookup \in Lookup /\ lookup.pc \in RoundPCs
  BY DEF CountRoundReveals, LookingAt, Reading, LookupInv, Typed, RoundPCs
<1>2. /\ ClosedIn(ledger, r) /\ candidate \in Candidate
      /\ lookup.latest \in Candidate \cup {None}
  <2>1. ClosedIn(ledger, r) /\ r \in Nat
    BY <1>1 DEF Reading, LookupInv, LookupOK, ClosedIn, TablesOK
  <2>2. lookup.at \in Times
    BY <1>1 DEF Reading, LookupInv, LookupOK, Lookup
  <2> QED
    BY <1>1, <2>1, <2>2 DEF Candidate, Lookup
<1>3. ASSUME NEW q \in Known(before, {}), q = r
      PROVE  ~few
  <2>1. Eligible(ledger, r)
    BY <1>3, EligibleKept DEF Known, Reading, TablesOK, RememberedOK
  <2>2. IsFiniteSet(DOMAIN ledger[r].published)
    BY <1>2, PublishedType, FS_Subset DEF Reading, TablesOK, ClosedIn
  <2>3. Cardinality(DOMAIN ledger[r].published) \in Nat
    BY <2>2, FS_CardinalityType
  <2> QED
    BY <2>1, <2>3, ConsensusAssumption DEF Eligible
<1>4. ASSUME NEW q \in Known(before, rewritten), q = r
      PROVE  ~few /\ Dated(before.closed_at, q) = candidate
  <2>2. ~few
    BY <1>4, <1>3 DEF Known
  <2>3. lookup.at = before.closed_at[r]
    BY <1>1, <1>4 DEF Reading, FoundOK
  <2> QED
    BY <1>4, <2>2, <2>3 DEF Dated
<1>5. CASE few
  <2>1. lookup' = l
    BY <1>5 DEF CountRoundReveals, Moves
  <2> QED
    BY <1>1, <1>4, <1>5, <1>3, <2>1, NextRoundFinds
<1>6. CASE ~few
  <2>1. lookup' = [l EXCEPT !.latest = latest]
    BY <1>6 DEF CountRoundReveals, Moves
  <2>2. /\ lookup'.pc = "find" /\ lookup'.facts = lookup.facts /\ lookup'.todo = lookup.todo
        /\ lookup'.requested = lookup.requested
        /\ lookup'.latest = latest /\ lookup'.approved = lookup.approved
    BY <1>1, <2>1 DEF Lookup, NextRound
  <2>3. "find" \notin RoundPCs /\ candidate # None /\ None \notin Candidate
    BY <1>2, NoneAssumption DEF RoundPCs
  <2>4. ASSUME NEW x \in Candidate, Beaten(lookup, x) \/ x = candidate
        PROVE  Beaten(lookup', x)
    <3>1. CASE lookup.latest = None
      <4>1. x = candidate /\ latest = candidate
        BY <2>4, <3>1 DEF Beaten, LatestCandidate
      <4> QED
        BY <1>2, <2>2, <2>3, <4>1, LaterOrder DEF Beaten
    <3>2. CASE lookup.latest # None
      <4>1. lookup.latest \in Candidate
        BY <1>2, <3>2
      <4>2. CASE Later(candidate, lookup.latest)
        <5>1. latest = candidate
          BY <3>2, <4>2 DEF LatestCandidate
        <5>2. ~Later(x, candidate)
          BY <1>2, <2>4, <4>1, <4>2, LaterOrder DEF Beaten
        <5> QED
          BY <2>2, <2>3, <5>1, <5>2 DEF Beaten
      <4>3. CASE ~Later(candidate, lookup.latest)
        <5>1. latest = lookup.latest
          BY <3>2, <4>3 DEF LatestCandidate
        <5> QED
          BY <2>2, <2>4, <3>2, <4>3, <5>1 DEF Beaten
      <4> QED
        BY <4>2, <4>3
    <3> QED
      BY <3>1, <3>2
  <2>5. \A q \in Known(before, rewritten) : Dated(before.closed_at, q) \in Candidate
    BY KnownDated DEF Reading
  <2>6. \A q \in Known(before, rewritten) : Asked(lookup, q) =>
          q \in lookup.todo \/ q = r \/ Beaten(lookup, Dated(before.closed_at, q))
    BY <1>1 DEF Reading, FoundOK
  <2>7. \A q \in Known(before, rewritten) : Asked(lookup, q) =>
          q \in lookup.todo \/ Beaten(lookup', Dated(before.closed_at, q))
    BY <1>4, <2>4, <2>5, <2>6
  <2>8. lookup'.latest # None
    BY <1>2, <2>2, <2>3 DEF LatestCandidate
  <2>9. FoundOK(lookup', before, rewritten)
    BY <2>2, <2>7, <2>8 DEF FoundOK, Asked
  <2>10. AnswerOK(lookup')
    BY <1>1, <2>2 DEF Reading, AnswerOK
  <2>11. ASSUME Exact(lookup, ledger, closed_at)
         PROVE  Exact(lookup', ledger, closed_at)
    <3>1. /\ HasFact(lookup, r) /\ lookup.at = closed_at[r] /\ lookup.facts = FactsOf(ledger)
          /\ lookup.latest # None => /\ Eligible(ledger, lookup.latest.round)
                                     /\ lookup.latest = Dated(closed_at, lookup.latest.round)
          /\ \A q \in lookup.todo : HasFact(lookup, q)
      BY <1>1, <2>11 DEF Exact
    <3>2. candidate = Dated(closed_at, candidate.round) /\ candidate.round = r
      BY <3>1 DEF Dated
    <3>3. Eligible(ledger, r)
      <4>1. PICK f \in FactsOf(ledger) : f.round = r
        BY <3>1 DEF HasFact
      <4>2. \E b \in DOMAIN ledger[r].published : ledger[r].published[b] # {}
        BY <4>1 DEF FactsOf
      <4>3. Cardinality(DOMAIN ledger[r].published) \in Nat
        BY <1>2, PublishedType, FS_Subset, FS_CardinalityType DEF Reading, TablesOK, ClosedIn
      <4> QED
        BY <1>2, <1>6, <4>2, <4>3, ConsensusAssumption DEF Eligible, ClosedIn
    <3>4. latest \in {candidate, lookup.latest} /\ (lookup.latest = None => latest = candidate)
      BY DEF LatestCandidate
    <3>5. Eligible(ledger, latest.round) /\ latest = Dated(closed_at, latest.round)
      BY <3>1, <3>2, <3>3, <3>4
    <3> HIDE DEF latest
    <3> QED
      BY <2>2, <2>3, <3>1, <3>5 DEF Exact, HasFact
  <2> QED
    BY <2>2, <2>9, <2>10, <2>11 DEF Finds
<1> QED
  BY <1>5, <1>6

LEMMA SelectFinds ==
    ASSUME Reading, Select
    PROVE  Finds(lookup')
<1>1. lookup.pc = "select" /\ lookup \in Lookup
  BY DEF Select, LookingAt, Reading, LookupInv, Typed
<1>2. /\ lookup'.pc = "answered" /\ lookup'.facts = lookup.facts /\ lookup'.todo = lookup.todo
      /\ lookup'.requested = lookup.requested /\ lookup'.latest = lookup.latest
      /\ \/ Answer(lookup) = {} /\ lookup'.approved = lookup.approved
         \/ lookup'.approved \in Answer(lookup)
  BY <1>1 DEF Select, Moves, Lookup
<1>3. Answer(lookup') = Answer(lookup)
  BY <1>2 DEF Answer
<1>4. FoundOK(lookup', before, rewritten)
  BY <1>1, <1>2 DEF Reading, FoundOK, Asked, Beaten
<1>5. AnswerOK(lookup')
  BY <1>1, <1>2, <1>3 DEF Reading, AnswerOK
<1>6. Exact(lookup, ledger, closed_at) => Exact(lookup', ledger, closed_at)
  BY <1>1, <1>2 DEF Exact, HasFact, RoundPCs
<1> QED
  BY <1>2, <1>4, <1>5, <1>6 DEF Finds

LEMMA LookupFinds ==
    ASSUME HInv, ~LookingAt("idle"), UNCHANGED <<registry, history>>, Finds(lookup')
    PROVE  HistoryInv'
<1>1. /\ ledger' = ledger /\ closed_at' = closed_at /\ before' = before
      /\ rewritten' = rewritten /\ moves' = moves
  BY DEF registry, history
<1>2. RememberedOK(lookup', ledger, closed_at, before, rewritten)
  BY DEF HInv, HistoryInv, RememberedOK, Finds
<1>3. QuietOK(lookup', ledger, closed_at, before, rewritten, moves)
  BY DEF HInv, HistoryInv, QuietOK, Still, Finds, LookingAt
<1> QED
  BY <1>1, <1>2, <1>3 DEF HistoryInv, Finds

-----------------------------------------------------------------------------
(* The steps that change the tables. *)

(* Rounds that have not been closed anew keep their closed_at. *)
Redated == /\ before' = before /\ rewritten \subseteq rewritten'
           /\ \A q \in DOMAIN ledger \ rewritten' : closed_at'[q] = closed_at[q]

LEMMA WriteClosedAtRedates ==
    ASSUME TablesOK, NEW r \in DOMAIN ledger, WriteClosedAt(r), ~LookingAt("idle")
    PROVE  Redated
<1>1. PICK t \in Times : closed_at' = [closed_at EXCEPT ![r] = t]
  BY DEF WriteClosedAt
<1>2. rewritten' = rewritten \cup {r} /\ before' = before
  BY DEF WriteClosedAt
<1>3. \A q \in DOMAIN ledger \ {r} : closed_at'[q] = closed_at[q]
  BY <1>1 DEF TablesOK
<1> QED
  BY <1>2, <1>3 DEF Redated

LEMMA OthersRedate ==
    ASSUME TablesOK, OthersMove, ~LookingAt("idle")
    PROVE  Redated
<1>1. CASE closed_at' = closed_at /\ UNCHANGED <<before, rewritten>>
  BY <1>1 DEF Redated
<1>2. CASE closed_at' = Append(closed_at, None) /\ UNCHANGED <<before, rewritten>>
  BY <1>2 DEF Redated, TablesOK
<1>3. ASSUME NEW r \in DOMAIN ledger, Close(r) \/ CloseAgain(r)
      PROVE  Redated
  BY <1>3, WriteClosedAtRedates DEF Close, CloseAgain
<1> QED
  BY <1>1, <1>2, <1>3 DEF OthersMove

(* What was remembered stays true, and no round becomes known. *)
LEMMA RedatedKeeps ==
    ASSUME TablesStep, NEW l, RememberedOK(l, ledger, closed_at, before, rewritten), Redated
    PROVE  /\ RememberedOK(l, ledger', closed_at', before', rewritten')
           /\ Known(before', rewritten') \subseteq Known(before, rewritten)
           /\ Known(before', {}) = Known(before, {})
<1>1. Grown(before.ledger, ledger')
  BY GrownFurther DEF TablesStep, RememberedOK
<1>2. \A r \in DOMAIN before.ledger : r \in DOMAIN ledger
  BY DEF RememberedOK, Grown
<1>3. \A r \in DOMAIN before.ledger \ rewritten' : before.ledger[r].phase = "closed" =>
        closed_at'[r] = before.closed_at[r]
  BY <1>2 DEF RememberedOK, Redated
<1> QED
  BY <1>1, <1>3 DEF RememberedOK, Redated, Known

(* Before a lookup there is nothing to remember. *)
LEMMA IdleHistory ==
    ASSUME NEW l, l.pc = "idle", l.approved = None, l.latest = None,
           NEW L, NEW C, NEW W, NEW n
    PROVE  /\ RememberedOK(l, L, C, NoHistory, W) /\ FoundOK(l, NoHistory, W) /\ AnswerOK(l)
           /\ QuietOK(l, L, C, NoHistory, W, n)
<1>1. DOMAIN NoHistory.ledger = {}
  BY DEF NoHistory
<1> QED
  BY <1>1 DEF RememberedOK, Grown, FoundOK, AnswerOK, QuietOK

LEMMA BeginHistory ==
    ASSUME NEW requested,
           Begin(requested)
    PROVE  HistoryInv'
<1>1. /\ lookup'.pc = "facts" /\ lookup'.approved = None /\ lookup'.latest = None
      /\ ledger' = ledger /\ closed_at' = closed_at
      /\ before' = [ledger |-> ledger, closed_at |-> closed_at] /\ rewritten' = {}
  BY DEF Begin, NoLookup, Remember, registry
<1>2. RememberedOK(lookup', ledger, closed_at, before', {})
  BY <1>1 DEF RememberedOK, Grown
<1>3. FoundOK(lookup', before', {}) /\ AnswerOK(lookup')
  BY <1>1 DEF FoundOK, AnswerOK
<1>4. Still(lookup', ledger, closed_at, before', {})
  BY <1>1 DEF Still, Exact
<1> QED
  BY <1>1, <1>2, <1>3, <1>4 DEF HistoryInv, QuietOK

LEMMA ForgetHistory ==
    ASSUME Forget
    PROVE  HistoryInv'
<1>1. lookup' = NoLookup /\ before' = NoHistory
  BY DEF Forget
<1>2. NoLookup.pc = "idle" /\ NoLookup.approved = None /\ NoLookup.latest = None
  BY DEF NoLookup
<1> QED
  BY <1>1, <1>2, IdleHistory DEF HistoryInv

LEMMA OthersHistory ==
    ASSUME HInv, Others, TablesStep
    PROVE  HistoryInv'
<1>1. lookup' = lookup
  BY DEF Others
<1>2. CASE LookingAt("idle")
  <2>1. before = NoHistory /\ before' = before
    BY <1>2 DEF HInv, HistoryInv, RememberedOK, LookingAt, Others, OthersMove, Close, CloseAgain,
                WriteClosedAt
  <2>2. lookup.approved = None /\ lookup.latest = None
    BY <1>2 DEF LookingAt, HInv, HistoryInv, FoundOK, AnswerOK
  <2> QED
    BY <1>1, <1>2, <2>1, <2>2, IdleHistory DEF HistoryInv, LookingAt
<1>3. CASE ~LookingAt("idle")
  <2>1. TablesOK
    BY IInvParts DEF HInv
  <2>2. Redated
    BY <1>3, <2>1, OthersRedate DEF Others
  <2>3. /\ RememberedOK(lookup, ledger', closed_at', before', rewritten')
        /\ Known(before', rewritten') \subseteq Known(before, rewritten) /\ before' = before
    BY <2>2, RedatedKeeps DEF HInv, HistoryInv, Redated
  <2>4. FoundOK(lookup, before', rewritten') /\ AnswerOK(lookup)
    BY <2>3 DEF HInv, HistoryInv, FoundOK
  <2>5. moves \in Nat /\ moves' = moves + 1
    BY <1>3, IInvParts DEF HInv, Others
  <2>6. QuietOK(lookup, ledger', closed_at', before', rewritten', moves')
    BY <2>5 DEF QuietOK
  <2> QED
    BY <1>1, <2>3, <2>4, <2>6 DEF HistoryInv
<1> QED
  BY <1>2, <1>3

LEMMA ClosingHistory ==
    ASSUME HInv, LookingAt("advance"), Close(lookup.round) \/ CloseAgain(lookup.round),
           lookup' = [lookup EXCEPT !.pc = "reload"], UNCHANGED moves,
           TablesStep, LookupInv(lookup', ledger')
    PROVE  HistoryInv'
<1> DEFINE r == lookup.round
<1>1. lookup \in Lookup /\ lookup.pc = "advance" /\ r \in DOMAIN ledger /\ TablesOK
  BY IInvParts DEF HInv, LookupInv, LookupOK, Typed, LookingAt, RoundPCs
<1>2. /\ lookup'.pc = "reload" /\ lookup'.round = r /\ lookup'.todo = lookup.todo
      /\ lookup'.requested = lookup.requested
      /\ lookup'.latest = lookup.latest /\ lookup'.approved = lookup.approved
  BY <1>1 DEF Lookup
<1>3. Redated
  BY <1>1, WriteClosedAtRedates DEF Close, CloseAgain, LookingAt
<1>4. /\ RememberedOK(lookup, ledger', closed_at', before', rewritten')
      /\ Known(before', rewritten') \subseteq Known(before, rewritten) /\ before' = before
  BY <1>3, RedatedKeeps DEF HInv, HistoryInv, Redated
<1>5. RememberedOK(lookup', ledger', closed_at', before', rewritten')
  BY <1>2, <1>4 DEF RememberedOK
<1>6. FoundOK(lookup', before', rewritten') /\ AnswerOK(lookup')
  BY <1>1, <1>2, <1>4 DEF HInv, HistoryInv, FoundOK, AnswerOK, Asked, Beaten
<1>7. ClosedIn(ledger', r)
  BY <1>2 DEF LookupInv, LookupOK
<1>8. ASSUME moves = 0 PROVE ClosedSince(ledger', before)
  <2>1. CASE Still(lookup, ledger, closed_at, before, rewritten)
    <3>1. before.ledger = ledger /\ ledger[r].phase # "closed"
      BY <1>1, <2>1 DEF Still, Exact
    <3> QED
      BY <1>1, <1>7, <3>1 DEF ClosedSince
  <2>2. CASE ClosedSince(ledger, before)
    BY <2>2, ClosedKept DEF ClosedSince, TablesStep
  <2> QED
    BY <1>1, <1>8, <2>1, <2>2 DEF HInv, HistoryInv, QuietOK
<1>9. QuietOK(lookup', ledger', closed_at', before', rewritten', moves')
  BY <1>4, <1>8 DEF QuietOK
<1> QED
  BY <1>5, <1>6, <1>9 DEF HistoryInv

-----------------------------------------------------------------------------
LEMMA HistoryInitOK ==
    ASSUME ConsensusInit
    PROVE  HistoryInv
<1>1. lookup = NoLookup /\ before = NoHistory
  BY DEF ConsensusInit
<1>2. NoLookup.pc = "idle" /\ NoLookup.approved = None /\ NoLookup.latest = None
  BY DEF NoLookup
<1> QED
  BY <1>1, <1>2, IdleHistory DEF HistoryInv

LEMMA HistoryNextOK ==
    ASSUME IsFiniteSet(Builders), HInv, [ConsensusNext]_consensusVars
    PROVE  HInv'
<1>1. IInv' /\ TablesStep /\ LookupInv(lookup', ledger')
  BY StepOK, NextOK DEF HInv
<1>2. Reading
  BY IInvParts DEF HInv, HistoryInv, Reading
<1>3. CASE Others
  BY <1>1, <1>3, OthersHistory DEF HInv
<1>4. CASE Forget \/ \E requested \in DOMAIN ledger \cup {None} : Begin(requested)
  BY <1>1, <1>4, ForgetHistory, BeginHistory DEF HInv
<1>5. CASE LookupStep
  <2>1. ~LookingAt("idle")
    BY <1>5 DEF LookupStep, ReadFacts, FindRound, AdvanceRound, ReloadRound, CountRoundReveals,
                Select, LookingAt
  <2>2. CASE ReadFacts \/ FindRound \/ ReloadRound \/ CountRoundReveals \/ Select
    <3>1. Finds(lookup')
      BY <1>2, <2>2, ReadFactsFinds, FindRoundFinds, ReloadRoundFinds, CountRoundRevealsFinds,
         SelectFinds
    <3>2. UNCHANGED <<registry, history>>
      BY <2>2 DEF ReadFacts, FindRound, ReloadRound, CountRoundReveals, Select, Moves
    <3> QED
      BY <1>1, <2>1, <3>1, <3>2, LookupFinds DEF HInv
  <2>3. CASE LookingAt("advance") /\ Moves(NextRound(lookup))
    <3>1. lookup.pc \in RoundPCs /\ lookup.pc \notin {"reload", "count"}
      BY <2>3 DEF LookingAt, RoundPCs
    <3>2. Finds(lookup')
      BY <1>2, <2>3, <3>1, NextRoundFinds DEF Moves
    <3> QED
      BY <1>1, <2>1, <2>3, <3>2, LookupFinds DEF HInv, Moves
  <2>4. CASE /\ LookingAt("advance") /\ (Close(lookup.round) \/ CloseAgain(lookup.round))
             /\ lookup' = [lookup EXCEPT !.pc = "reload"] /\ UNCHANGED moves
    BY <1>1, <2>4, ClosingHistory DEF HInv
  <2> QED
    BY <1>5, <2>2, <2>3, <2>4 DEF LookupStep, AdvanceRound
<1>6. CASE UNCHANGED consensusVars
  <2>1. /\ ledger' = ledger /\ closed_at' = closed_at /\ lookup' = lookup /\ before' = before
        /\ rewritten' = rewritten /\ moves' = moves
    BY <1>6 DEF consensusVars, registry, history
  <2> QED
    BY <1>1, <2>1 DEF HInv, HistoryInv
<1> QED
  BY <1>3, <1>4, <1>5, <1>6 DEF ConsensusNext

LEMMA LatestWinsThen ==
    ASSUME HInv
    PROVE  LatestWins
<1> SUFFICES ASSUME lookup.approved # None, lookup.requested = None,
                    NEW r \in DOMAIN before.ledger \ rewritten, Eligible(before.ledger, r)
             PROVE  ~Later([at |-> before.closed_at[r], round |-> r], lookup.latest)
  BY DEF LatestWins
<1>1. lookup.pc = "answered" /\ lookup.todo = {}
  BY DEF HInv, HistoryInv, AnswerOK
<1>2. r \in Known(before, rewritten) /\ Asked(lookup, r)
  BY DEF Known, Asked
<1>3. Beaten(lookup, Dated(before.closed_at, r))
  BY <1>1, <1>2 DEF HInv, HistoryInv, FoundOK
<1> QED
  BY <1>3 DEF Beaten, Dated

-----------------------------------------------------------------------------
(* The votes that a lookup counts are the builders that back a variant.    *)

Backers(r, v) == {b \in Builders : Backs(r, b, v)}

LEMMA VotersAreBackers ==
    ASSUME TablesOK, NEW r \in DOMAIN ledger, NEW v
    PROVE  VotersFor(FactsOf(ledger), r, v) = Backers(r, v)
<1>1. ASSUME NEW b \in VotersFor(FactsOf(ledger), r, v) PROVE b \in Backers(r, v)
  <2>1. PICK f \in FactsOf(ledger) : f.round = r /\ f.variant = v /\ f.builder = b
    BY <1>1 DEF VotersFor
  <2> QED
    BY <2>1 DEF FactsOf, Backers, Backs
<1>2. ASSUME NEW b \in Backers(r, v) PROVE b \in VotersFor(FactsOf(ledger), r, v)
  <2>1. b \in Builders /\ b \in DOMAIN ledger[r].published /\ v \in ledger[r].published[b]
    BY <1>2 DEF Backers, Backs
  <2>2. v \in Variants
    BY <2>1, PublishedType DEF TablesOK
  <2> DEFINE f == [round |-> r, builder |-> b, variant |-> v]
  <2>3. f \in FactsOf(ledger) /\ f.round = r /\ f.variant = v /\ f.builder = b
    BY <2>1, <2>2 DEF FactsOf
  <2> HIDE DEF f
  <2> QED
    BY <2>3 DEF VotersFor
<1> QED
  BY <1>1, <1>2

LEMMA VariantsAreBacked ==
    ASSUME TablesOK, NEW r \in DOMAIN ledger, NEW v
    PROVE  v \in VariantsIn(FactsOf(ledger), r) <=> Backers(r, v) # {}
<1>1. v \in VariantsIn(FactsOf(ledger), r) <=> \E f \in FactsOf(ledger) : f.round = r /\ f.variant = v
  BY DEF VariantsIn
<1>2. VotersFor(FactsOf(ledger), r, v) # {} <=>
        \E f \in FactsOf(ledger) : f.round = r /\ f.variant = v
  BY DEF VotersFor
<1> QED
  BY <1>1, <1>2, VotersAreBackers

(* To be approved is to have enough builders, and more than any other.     *)
LEMMA ApprovedMeansMost ==
    ASSUME IsFiniteSet(Builders), TablesOK, NEW r \in DOMAIN ledger, NEW v \in Variants
    PROVE  v \in ApprovedVariants(FactsOf(ledger), r) <=>
             /\ Cardinality(Backers(r, v)) >= MinimumBuilders
             /\ \A w \in Variants \ {v} :
                  Cardinality(Backers(r, w)) < Cardinality(Backers(r, v))
<1> DEFINE facts == FactsOf(ledger)
           In == VariantsIn(facts, r)
           n(w) == Cardinality(Backers(r, w))
<1>1. \A w : n(w) \in Nat /\ (n(w) = 0 <=> Backers(r, w) = {})
  <2> TAKE w
  <2>1. IsFiniteSet(Backers(r, w))
    BY FS_Subset DEF Backers
  <2> QED
    BY <2>1, FS_CardinalityType, FS_EmptySet
<1>2. \A w : (w \in In <=> n(w) # 0) /\ VotersFor(facts, r, w) = Backers(r, w)
  BY <1>1, VotersAreBackers, VariantsAreBacked
<1>3. In \subseteq Variants
  BY DEF VariantsIn, FactsOf
<1> HIDE DEF n, In
<1>4. \A w : w \in Leaders(facts, r) <=> w \in In /\ \A x \in In : n(x) <= n(w)
  BY <1>2 DEF Leaders, n, In
<1>5. v \in ApprovedVariants(facts, r) <=>
        v \in Leaders(facts, r) /\ Leaders(facts, r) = {v} /\ n(v) >= MinimumBuilders
  BY <1>2 DEF ApprovedVariants, n
<1>6. ASSUME v \in ApprovedVariants(facts, r), NEW w \in Variants \ {v}
      PROVE  n(w) < n(v)
  <2>1. v \in In /\ (\A x \in In : n(x) <= n(v)) /\ w \notin Leaders(facts, r)
    BY <1>4, <1>5, <1>6
  <2>2. CASE w \in In
    <3>1. PICK x \in In : ~(n(x) <= n(w))
      BY <1>4, <2>1, <2>2
    <3> QED
      BY <1>1, <2>1, <3>1
  <2>3. CASE w \notin In
    BY <1>1, <1>2, <2>1, <2>3
  <2> QED
    BY <2>2, <2>3
<1>7. ASSUME n(v) >= MinimumBuilders, \A w \in Variants \ {v} : n(w) < n(v)
      PROVE  v \in ApprovedVariants(facts, r)
  <2>1. v \in In
    BY <1>1, <1>2, <1>7, ConsensusAssumption
  <2>2. \A x \in In : n(x) <= n(v)
    BY <1>1, <1>3, <1>7
  <2>3. \A w \in In \ {v} : w \notin Leaders(facts, r)
    BY <1>1, <1>3, <1>4, <1>7, <2>1
  <2>4. v \in Leaders(facts, r) /\ Leaders(facts, r) = {v}
    BY <1>4, <2>1, <2>2, <2>3
  <2> QED
    BY <1>5, <1>7, <2>4
<1> QED
  BY <1>5, <1>6, <1>7 DEF n

(* At most one variant is approved. *)
LEMMA OneApproved ==
    ASSUME NEW facts, NEW r, NEW v \in ApprovedVariants(facts, r),
           NEW w \in ApprovedVariants(facts, r)
    PROVE  v = w
<1>1. Leaders(facts, r) = {v} /\ Leaders(facts, r) = {w}
  BY DEF ApprovedVariants
<1> QED
  BY <1>1

LEMMA AnswersAreOutputs ==
    ASSUME lookup \in Lookup
    PROVE  Answer(lookup) \subseteq Output /\ None \notin Answer(lookup)
<1> DEFINE q == lookup.latest.round
<1>1. ASSUME NEW a \in Answer(lookup) PROVE a \in Output
  <2>1. lookup.facts \in SUBSET Fact /\ q \in Nat
    BY <1>1 DEF Answer, Lookup, Candidate
  <2>2. PICK v \in ApprovedVariants(lookup.facts, q) :
          a = [round |-> q, variant |-> v, sources |-> VotersFor(lookup.facts, q, v)]
    BY <1>1 DEF Answer
  <2>3. v \in Variants /\ VotersFor(lookup.facts, q, v) \subseteq Builders
    BY <2>1, <2>2 DEF ApprovedVariants, Leaders, VariantsIn, VotersFor, Fact
  <2> QED
    BY <2>1, <2>2, <2>3 DEF Output
<1> QED
  BY <1>1, NoneAssumption

LEMMA QuietAnswer ==
    ASSUME IsFiniteSet(Builders), HInv
    PROVE  QuietAnswerIsRight
<1> DEFINE l == lookup
           a == lookup.approved
           R == lookup.latest.round
<1> SUFFICES ASSUME l.pc = "answered", moves = 0,
                    before = [ledger |-> ledger, closed_at |-> closed_at],
                    NEW r \in DOMAIN ledger, NEW v \in Variants
             PROVE  ShouldApprove(r, v) <=> a # None /\ a.round = r /\ a.variant = v
  BY DEF QuietAnswerIsRight, LookingAt
<1>1. TablesOK /\ l \in Lookup
  BY IInvParts DEF HInv, LookupInv, Typed
<1>2. ~ClosedSince(ledger, before)
  BY DEF ClosedSince, ClosedIn
<1>3. rewritten = {} /\ Exact(l, ledger, closed_at)
  BY <1>2 DEF HInv, HistoryInv, QuietOK, Still
<1>4. l.facts = FactsOf(ledger)
  BY <1>3 DEF Exact
<1>5. l.latest # None => /\ Eligible(ledger, R) /\ l.latest = Dated(closed_at, R)
                         /\ R \in DOMAIN ledger /\ Asked(l, R)
  BY <1>3 DEF Exact, HInv, IInv, LookupOK, ClosedIn
<1>6. \A q \in DOMAIN ledger : Eligible(ledger, q) /\ Asked(l, q) =>
        Beaten(l, Dated(closed_at, q))
  <2>1. Known(before, rewritten) = {q \in DOMAIN ledger : Eligible(ledger, q)}
    BY <1>3 DEF Known
  <2>2. l.todo = {} /\ before.closed_at = closed_at
    BY DEF HInv, HistoryInv, AnswerOK
  <2> QED
    BY <2>1, <2>2 DEF HInv, HistoryInv, FoundOK
<1>7. \A q \in DOMAIN ledger : Eligible(ledger, q) => Dated(closed_at, q) \in Candidate
  BY <1>1, ClosedDated DEF Eligible, ClosedIn
(* The round that decides is the latest candidate. *)
<1>8. ShouldApprove(r, v) <=>
        l.latest # None /\ r = R /\ v \in ApprovedVariants(l.facts, R)
  <2>1. ASSUME ShouldApprove(r, v)
        PROVE  l.latest # None /\ r = R
    <3>1. Eligible(ledger, r) /\ Asked(l, r)
      BY <2>1 DEF ShouldApprove, Asked
    <3>2. l.latest # None /\ ~Later(Dated(closed_at, r), l.latest)
      BY <1>6, <3>1 DEF Beaten
    <3>3. CASE l.requested = None
      <4>1. ~Later(Dated(closed_at, R), Dated(closed_at, r))
        BY <1>5, <2>1, <3>2, <3>3 DEF ShouldApprove, Dated
      <4>2. Dated(closed_at, r).round = Dated(closed_at, R).round
        BY <1>5, <1>7, <3>1, <3>2, <4>1, LaterOrder
      <4> QED
        BY <3>2, <4>2 DEF Dated
    <3>4. CASE l.requested # None
      BY <1>5, <3>1, <3>2, <3>4 DEF Asked
    <3> QED
      BY <3>3, <3>4
  <2>2. ASSUME l.latest # None, r = R
        PROVE  /\ l.requested \in {None, r} /\ Eligible(ledger, r)
               /\ l.requested = None =>
                    \A q \in DOMAIN ledger : Eligible(ledger, q) =>
                      ~Later([at |-> closed_at[q], round |-> q],
                             [at |-> closed_at[r], round |-> r])
    <3>1. \A q \in DOMAIN ledger : Eligible(ledger, q) /\ Asked(l, q) =>
            ~Later(Dated(closed_at, q), Dated(closed_at, r))
      BY <1>5, <1>6, <2>2 DEF Beaten
    <3> QED
      BY <1>5, <2>2, <3>1 DEF Asked, Dated
  <2>3. v \in ApprovedVariants(l.facts, r) <=>
          /\ Cardinality(Backers(r, v)) >= MinimumBuilders
          /\ \A w \in Variants \ {v} : Cardinality(Backers(r, w)) < Cardinality(Backers(r, v))
    BY <1>1, <1>4, ApprovedMeansMost
  <2> QED
    BY <2>1, <2>2, <2>3 DEF ShouldApprove, Backers
<1>9. (a # None /\ a.round = r /\ a.variant = v) <=>
        l.latest # None /\ r = R /\ v \in ApprovedVariants(l.facts, R)
  <2>1. (Answer(l) = {} /\ a = None) \/ a \in Answer(l)
    BY DEF HInv, HistoryInv, AnswerOK
  <2>2. a \in Output \cup {None}
    BY <1>1 DEF Lookup
  <2>3. CASE l.latest = None
    BY <2>1, <2>3 DEF Answer
  <2>4. CASE l.latest # None
    <3> DEFINE S == ApprovedVariants(l.facts, R)
    <3>1. Answer(l) = {[round |-> R, variant |-> w, sources |-> VotersFor(l.facts, R, w)] :
                         w \in S}
      BY <2>4 DEF Answer
    <3> HIDE DEF S
    <3>2. CASE a = None /\ S = {}
      BY <3>2 DEF S
    <3>3. ASSUME NEW w \in S,
                 a = [round |-> R, variant |-> w, sources |-> VotersFor(l.facts, R, w)]
          PROVE  (a # None /\ a.round = r /\ a.variant = v) <=> (r = R /\ v \in S)
      <4>1. a # None
        BY <1>1, <3>1, <3>3, AnswersAreOutputs
      <4>2. a.round = R /\ a.variant = w
        BY <3>3
      <4>3. v \in S => v = w
        BY <3>3, OneApproved DEF S
      <4> QED
        BY <3>3, <4>1, <4>2, <4>3
    <3> QED
      BY <2>1, <2>4, <3>1, <3>2, <3>3 DEF S
  <2> QED
    BY <2>3, <2>4
<1> QED
  BY <1>8, <1>9

(* A lookup compared with the tables as they were when it began: it has    *)
(* not lost a round, and has all there is if nothing moved.                *)
THEOREM HistoryInvariance ==
    ASSUME IsFiniteSet(Builders)
    PROVE  ConsensusSpec => []HInv
<1>1. ConsensusInit => HInv
  BY InitOK, HistoryInitOK DEF HInv
<1>2. HInv /\ [ConsensusNext]_consensusVars => HInv'
  BY HistoryNextOK
<1> QED
  BY <1>1, <1>2, PTL DEF ConsensusSpec

(* A round that had closed before the lookup began is not passed over for  *)
(* an earlier one (approved_output of store.rs), whatever is closed anew   *)
(* or revealed between the statements of the lookup.                       *)
THEOREM LatestRoundWins ==
    ASSUME IsFiniteSet(Builders)
    PROVE  ConsensusSpec => []LatestWins
<1>1. HInv => LatestWins
  BY LatestWinsThen
<1> QED
  BY <1>1, HistoryInvariance, PTL

(* If nothing moves meanwhile, the several statements of a lookup give the *)
(* answer that the tables call for: neither more nor less is approved.     *)
THEOREM QuietLookups ==
    ASSUME IsFiniteSet(Builders)
    PROVE  ConsensusSpec => []QuietAnswerIsRight
<1>1. HInv => QuietAnswerIsRight
  BY QuietAnswer
<1> QED
  BY <1>1, HistoryInvariance, PTL

=============================================================================
