------------------------- MODULE RoundLedgerProofs -------------------------
(***************************************************************************)
(* RoundStore implements RoundLedger, for every value of its constants.    *)
(*                                                                         *)
(* The argument: RoundTablesProofs shows that a statement changes the      *)
(* tables in one of five ways, or not at all; each of them is a step of    *)
(* the ledger, or leaves it as it is (a round that begins or closes for    *)
(* the second time).  The ledger's functions from builders are determined  *)
(* by the rows because a builder commits at most once in a round.          *)
(***************************************************************************)
EXTENDS RoundTablesProofs

(* The refinement mapping as a function of the three tables. *)
Phase(row) == IF row.closed_at # None THEN "closed"
              ELSE IF row.reveal_started_at # None THEN "revealing" ELSE "committing"

RowsOf(C, r) == {i \in DOMAIN C : C[i].round_id = r}
RevealedRows(C, r) == {i \in RowsOf(C, r) : C[i].evidence_id # None}
RowOf(C, r, b) == CHOOSE i \in {j \in RowsOf(C, r) : C[j].builder_id = b} : TRUE

CommittedMap(C, r) ==
    [b \in {C[i].builder_id : i \in RowsOf(C, r)} |-> C[RowOf(C, r, b)].digest]
PublishedMap(C, E, r) ==
    [b \in {C[i].builder_id : i \in RevealedRows(C, r)} |-> E[C[RowOf(C, r, b)].evidence_id]]

RoundOf(R, C, E, r) ==
    [path |-> R[r].derivation_path, phase |-> Phase(R[r]),
     committed |-> CommittedMap(C, r), published |-> PublishedMap(C, E, r)]

LedgerOf(R, C, E) == [r \in DOMAIN R |-> RoundOf(R, C, E, r)]

(* The mapping that ImplementsLedger names, before and after a step. *)
Bar == [r \in DOMAIN rounds |-> LedgerRound(r)]

(* In terms of the tables as they are. *)
LEMMA BarIs ==
    Bar = LedgerOf(rounds, commitments, evidences)
<1>1. \A r : LedgerRound(r) = RoundOf(rounds, commitments, evidences, r)
  BY DEF LedgerRound, RoundOf, Phase, CommittedMap, PublishedMap, RowOf, RowsOf, RevealedRows,
         CommitmentsOf, RevealedOf, ByBuilder
<1>2. QED
  BY <1>1 DEF Bar, LedgerOf

(* In terms of the tables as they become. *)
LEMMA BarWillBe ==
    Bar' = LedgerOf(rounds', commitments', evidences')
<1>1. \A r : LedgerRound(r)' = RoundOf(rounds', commitments', evidences', r)
  BY DEF LedgerRound, RoundOf, Phase, CommittedMap, PublishedMap, RowOf, RowsOf, RevealedRows,
         CommitmentsOf, RevealedOf, ByBuilder
<1>2. QED
  BY <1>1 DEF Bar, LedgerOf

-----------------------------------------------------------------------------
(* The functions from builders. *)

(* Two functions are equal when they have the same graph. *)
LEMMA SameFunction ==
    ASSUME NEW f, NEW g, f = [x \in DOMAIN f |-> f[x]], g = [x \in DOMAIN g |-> g[x]],
           DOMAIN f = DOMAIN g, \A x \in DOMAIN f : f[x] = g[x]
    PROVE  f = g
  OBVIOUS

(* Row i is the only one of its builder in its round. *)
LEMMA RowIs ==
    ASSUME NEW C, CommittedOnce(C), NEW i \in DOMAIN C
    PROVE  RowOf(C, C[i].round_id, C[i].builder_id) = i
<1> DEFINE S == {j \in RowsOf(C, C[i].round_id) : C[j].builder_id = C[i].builder_id}
<1>1. i \in S
  BY DEF RowsOf
<1>2. \A j \in S : j = i
  BY DEF RowsOf, CommittedOnce
<1>3. QED
  BY <1>1, <1>2 DEF RowOf

(* The digests of a round, by builder. *)
LEMMA CommittedMapIs ==
    ASSUME NEW C, CommittedOnce(C), NEW r
    PROVE  /\ CommittedMap(C, r) =
                [b \in DOMAIN CommittedMap(C, r) |-> CommittedMap(C, r)[b]]
           /\ \A b : b \in DOMAIN CommittedMap(C, r) <=> \E d : Committed(C, r, b, d)
           /\ \A b, d : Committed(C, r, b, d) => CommittedMap(C, r)[b] = d
<1>1. CommittedMap(C, r) = [b \in DOMAIN CommittedMap(C, r) |-> CommittedMap(C, r)[b]]
  BY DEF CommittedMap
<1>2. DOMAIN CommittedMap(C, r) = {C[i].builder_id : i \in RowsOf(C, r)}
  BY DEF CommittedMap
<1>3. \A b : b \in DOMAIN CommittedMap(C, r) <=> \E d : Committed(C, r, b, d)
  BY <1>2 DEF Committed, RowsOf
<1>4. ASSUME NEW b, NEW d, Committed(C, r, b, d)
      PROVE  CommittedMap(C, r)[b] = d
  <2>1. PICK i \in DOMAIN C : C[i].round_id = r /\ C[i].builder_id = b /\ C[i].digest = d
    BY <1>4 DEF Committed
  <2>2. RowOf(C, r, b) = i
    BY <2>1, RowIs
  <2>3. b \in {C[k].builder_id : k \in RowsOf(C, r)}
    BY <2>1 DEF RowsOf
  <2>4. QED
    BY <2>1, <2>2, <2>3 DEF CommittedMap
<1>5. QED
  BY <1>1, <1>3, <1>4

(* The evidence v of builder b is stored for round r. *)
Stored(C, E, r, b, v) ==
    \E i \in DOMAIN C : /\ C[i].round_id = r /\ C[i].builder_id = b
                        /\ C[i].evidence_id # None /\ E[C[i].evidence_id] = v

(* The evidence of a round, by builder. *)
LEMMA PublishedMapIs ==
    ASSUME NEW C, CommittedOnce(C), NEW E, NEW r
    PROVE  /\ PublishedMap(C, E, r) =
                [b \in DOMAIN PublishedMap(C, E, r) |-> PublishedMap(C, E, r)[b]]
           /\ \A b : b \in DOMAIN PublishedMap(C, E, r) <=> \E v : Stored(C, E, r, b, v)
           /\ \A b, v : Stored(C, E, r, b, v) => PublishedMap(C, E, r)[b] = v
<1>1. PublishedMap(C, E, r) = [b \in DOMAIN PublishedMap(C, E, r) |-> PublishedMap(C, E, r)[b]]
  BY DEF PublishedMap
<1>2. DOMAIN PublishedMap(C, E, r) = {C[i].builder_id : i \in RevealedRows(C, r)}
  BY DEF PublishedMap
<1>3. \A b : b \in DOMAIN PublishedMap(C, E, r) <=> \E v : Stored(C, E, r, b, v)
  BY <1>2 DEF Stored, RowsOf, RevealedRows
<1>4. ASSUME NEW b, NEW v, Stored(C, E, r, b, v)
      PROVE  PublishedMap(C, E, r)[b] = v
  <2>1. PICK i \in DOMAIN C : /\ C[i].round_id = r /\ C[i].builder_id = b
                              /\ C[i].evidence_id # None /\ E[C[i].evidence_id] = v
    BY <1>4 DEF Stored
  <2>2. RowOf(C, r, b) = i
    BY <2>1, RowIs
  <2>3. b \in {C[k].builder_id : k \in RevealedRows(C, r)}
    BY <2>1 DEF RowsOf, RevealedRows
  <2>4. QED
    BY <2>1, <2>2, <2>3 DEF PublishedMap
<1>5. QED
  BY <1>1, <1>3, <1>4

(* Equal relations give equal functions. *)
LEMMA SameCommitted ==
    ASSUME NEW C, CommittedOnce(C), NEW D, CommittedOnce(D), NEW r,
           \A b, d : Committed(C, r, b, d) <=> Committed(D, r, b, d)
    PROVE  CommittedMap(C, r) = CommittedMap(D, r)
<1>1. DOMAIN CommittedMap(C, r) = DOMAIN CommittedMap(D, r)
  BY CommittedMapIs
<1>2. \A b \in DOMAIN CommittedMap(C, r) : CommittedMap(C, r)[b] = CommittedMap(D, r)[b]
  BY CommittedMapIs
<1>3. QED
  BY <1>1, <1>2, CommittedMapIs, SameFunction

(* The same for what is published. *)
LEMMA SamePublished ==
    ASSUME NEW C, CommittedOnce(C), NEW D, CommittedOnce(D), NEW E, NEW F, NEW r,
           \A b, v : Stored(C, E, r, b, v) <=> Stored(D, F, r, b, v)
    PROVE  PublishedMap(C, E, r) = PublishedMap(D, F, r)
<1>1. DOMAIN PublishedMap(C, E, r) = DOMAIN PublishedMap(D, F, r)
  BY PublishedMapIs
<1>2. \A b \in DOMAIN PublishedMap(C, E, r) :
         PublishedMap(C, E, r)[b] = PublishedMap(D, F, r)[b]
  BY PublishedMapIs
<1>3. QED
  BY <1>1, <1>2, PublishedMapIs, SameFunction

(* One pair more gives the extended function. *)
LEMMA CommittedExtended ==
    ASSUME NEW C, CommittedOnce(C), NEW D, CommittedOnce(D), NEW r, NEW x, NEW v,
           \A d : ~Committed(C, r, x, d),
           \A b, d : Committed(D, r, b, d) <=> Committed(C, r, b, d) \/ (b = x /\ d = v)
    PROVE  CommittedMap(D, r) = Ledger!Extended(CommittedMap(C, r), x, v)
<1> DEFINE f == CommittedMap(C, r)
           g == CommittedMap(D, r)
           h == Ledger!Extended(f, x, v)
<1>1. /\ h = [y \in DOMAIN h |-> h[y]]
      /\ DOMAIN h = DOMAIN f \cup {x}
      /\ \A y \in DOMAIN h : h[y] = IF y = x THEN v ELSE f[y]
  BY DEF Ledger!Extended
<1>2. DOMAIN g = DOMAIN h
  BY <1>1, CommittedMapIs
<1>3. \A b \in DOMAIN g : g[b] = h[b]
  BY <1>1, <1>2, CommittedMapIs
<1>4. g = [y \in DOMAIN g |-> g[y]]
  BY CommittedMapIs
<1> HIDE DEF f, g, h
<1>5. g = h
  BY <1>1, <1>2, <1>3, <1>4, SameFunction
<1>6. QED
  BY <1>5 DEF f, g, h

(* The same for what is published. *)
LEMMA PublishedExtended ==
    ASSUME NEW C, CommittedOnce(C), NEW D, CommittedOnce(D), NEW E, NEW F, NEW r, NEW x, NEW v,
           \A w : ~Stored(C, E, r, x, w),
           \A b, w : Stored(D, F, r, b, w) <=> Stored(C, E, r, b, w) \/ (b = x /\ w = v)
    PROVE  PublishedMap(D, F, r) = Ledger!Extended(PublishedMap(C, E, r), x, v)
<1> DEFINE f == PublishedMap(C, E, r)
           g == PublishedMap(D, F, r)
           h == Ledger!Extended(f, x, v)
<1>1. /\ h = [y \in DOMAIN h |-> h[y]]
      /\ DOMAIN h = DOMAIN f \cup {x}
      /\ \A y \in DOMAIN h : h[y] = IF y = x THEN v ELSE f[y]
  BY DEF Ledger!Extended
<1>2. DOMAIN g = DOMAIN h
  BY <1>1, PublishedMapIs
<1>3. \A b \in DOMAIN g : g[b] = h[b]
  BY <1>1, <1>2, PublishedMapIs
<1>4. g = [y \in DOMAIN g |-> g[y]]
  BY PublishedMapIs
<1> HIDE DEF f, g, h
<1>5. g = h
  BY <1>1, <1>2, <1>3, <1>4, SameFunction
<1>6. QED
  BY <1>5 DEF f, g, h

-----------------------------------------------------------------------------
(* The steps. *)

(* A function on 1 .. n is a sequence, to which Append adds an entry. *)
LEMMA AppendMap ==
    ASSUME NEW n \in Nat, NEW f, f = [i \in 1 .. n |-> f[i]], NEW x
    PROVE  Append(f, x) = [i \in 1 .. n + 1 |-> IF i = n + 1 THEN x ELSE f[i]]
<1> DEFINE S == {f[i] : i \in 1 .. n}
<1>1. f \in [1 .. n -> S]
  OBVIOUS
<1> HIDE DEF S
<1>2. f \in Seq(S) /\ Len(f) = n
  BY <1>1
<1>3. QED
  BY <1>2

(* What LInv and IInv say that the steps need. *)
LEMMA LedgerFacts ==
    ASSUME IInv, LInv
    PROVE  /\ rounds \in Seq(Row) /\ commitments \in Seq(Commitment)
           /\ evidences \in Seq({Evidence(d) : d \in Digests})
           /\ CommittedOnce(commitments) /\ Linked(commitments, evidences)
           /\ \A i \in DOMAIN commitments :
                commitments[i].round_id \in DOMAIN rounds /\ commitments[i] \in Commitment
           /\ \A r \in DOMAIN rounds : rounds[r] \in Row /\ RowShape(rounds[r])
  BY DEF IInv, RowsOK, CommitmentsOK, LInv, TablesOK

(* The tables become S, D and F, and only round r of the ledger changes. *)
OnlyRound(R, C, E, S, D, F, r) ==
    /\ r \in DOMAIN R /\ DOMAIN S = DOMAIN R
    /\ \A q \in DOMAIN R : q # r => RoundOf(S, D, F, q) = RoundOf(R, C, E, q)

(* A change of one round. *)
LEMMA OneRound ==
    ASSUME NEW R, NEW C, NEW E, NEW S, NEW D, NEW F, NEW r,
           OnlyRound(R, C, E, S, D, F, r)
    PROVE  LedgerOf(S, D, F) = [LedgerOf(R, C, E) EXCEPT ![r] = RoundOf(S, D, F, r)]
  BY DEF LedgerOf, OnlyRound

(* Another row for round r, which differs in its phase. *)
LEMMA OtherPhase ==
    ASSUME NEW R, NEW C, NEW E, NEW r \in DOMAIN R, NEW x, NEW S,
           x.derivation_path = R[r].derivation_path,
           DOMAIN S = DOMAIN R, S[r] = x, \A q \in DOMAIN R : q # r => S[q] = R[q]
    PROVE  /\ LedgerOf(R, C, E)[r].phase = Phase(R[r])
           /\ LedgerOf(S, C, E) = [LedgerOf(R, C, E) EXCEPT ![r].phase = Phase(x)]
           /\ Phase(x) = Phase(R[r]) => LedgerOf(S, C, E) = LedgerOf(R, C, E)
<1> DEFINE old == RoundOf(R, C, E, r)
           new == RoundOf(S, C, E, r)
           L == LedgerOf(R, C, E)
<1>1. OnlyRound(R, C, E, S, C, E, r)
  BY DEF RoundOf, OnlyRound
<1>2. LedgerOf(S, C, E) = [L EXCEPT ![r] = new]
  BY <1>1, OneRound
<1>3. new = [old EXCEPT !.phase = Phase(x)]
  BY DEF RoundOf
<1>4. old.phase = Phase(R[r]) /\ [old EXCEPT !.phase = old.phase] = old
  BY DEF RoundOf
<1>5. L[r] = old /\ L = [L EXCEPT ![r] = old] /\ r \in DOMAIN L
  BY DEF LedgerOf
<1> HIDE DEF old, new, L
<1>6. [L EXCEPT ![r].phase = Phase(x)] = [L EXCEPT ![r] = [old EXCEPT !.phase = Phase(x)]]
  BY <1>5
<1>7. Phase(x) = Phase(R[r]) => [L EXCEPT ![r] = new] = L
  BY <1>3, <1>4, <1>5
<1>8. L[r].phase = Phase(R[r])
  BY <1>4, <1>5
<1>9. [L EXCEPT ![r] = new] = [L EXCEPT ![r].phase = Phase(x)]
  BY <1>3, <1>6
<1>10. QED
  BY <1>2, <1>7, <1>8, <1>9 DEF L

(* Begin and Close: an UPDATE of round r. *)
LEMMA PhaseStep ==
    ASSUME IInv, NEW r \in DOMAIN rounds, NEW x \in Row,
           x.derivation_path = rounds[r].derivation_path,
           rounds' = [rounds EXCEPT ![r] = x],
           UNCHANGED <<commitments, evidences>>
    PROVE  /\ Bar[r].phase = Phase(rounds[r])
           /\ Bar' = [Bar EXCEPT ![r].phase = Phase(x)]
           /\ Phase(x) = Phase(rounds[r]) => Bar' = Bar
<1> DEFINE S == [rounds EXCEPT ![r] = x]
           L == LedgerOf(rounds, commitments, evidences)
           LL == LedgerOf(S, commitments, evidences)
<1>1. DOMAIN S = DOMAIN rounds /\ S[r] = x /\ \A q \in DOMAIN rounds : q # r => S[q] = rounds[q]
  BY DEF IInv, RowsOK
<1> HIDE DEF S
<1>2. /\ L[r].phase = Phase(rounds[r])
      /\ LL = [L EXCEPT ![r].phase = Phase(x)]
      /\ Phase(x) = Phase(rounds[r]) => LL = L
  BY <1>1, OtherPhase
<1>3. LedgerOf(rounds', commitments', evidences') = LL
  BY DEF S
<1> HIDE DEF L, LL
<1>4. Bar = L /\ Bar' = LL
  BY <1>3, BarIs, BarWillBe DEF L
<1>5. QED
  BY <1>2, <1>4

(* UPDATE that begins the reveal phase: Begin, or nothing when it has      *)
(* begun.                                                                  *)
LEMMA BeginsImplements ==
    ASSUME IInv, Begins
    PROVE  Ledger!Next \/ Bar' = Bar
<1>1. PICK r \in DOMAIN rounds : \E x \in Row :
        /\ x.derivation_path = rounds[r].derivation_path
        /\ x.reveal_started_at # None /\ x.closed_at = rounds[r].closed_at
        /\ rounds' = [rounds EXCEPT ![r] = x]
        /\ UNCHANGED <<commitments, evidences>>
  BY DEF Begins
<1>2. PICK x \in Row :
        /\ x.derivation_path = rounds[r].derivation_path
        /\ x.reveal_started_at # None /\ x.closed_at = rounds[r].closed_at
        /\ rounds' = [rounds EXCEPT ![r] = x]
        /\ UNCHANGED <<commitments, evidences>>
  BY <1>1
<1>3. /\ Bar[r].phase = Phase(rounds[r])
      /\ Bar' = [Bar EXCEPT ![r].phase = Phase(x)]
      /\ Phase(x) = Phase(rounds[r]) => Bar' = Bar
  BY <1>2, PhaseStep
<1>4. CASE Phase(rounds[r]) = "committing"
  <2>1. Phase(x) = "revealing"
    BY <1>2, <1>4 DEF Phase
  <2>2. Ledger!Begin(r)
    BY <1>3, <1>4, <2>1 DEF Ledger!Begin, Bar
  <2>3. r \in DOMAIN Bar
    BY DEF Bar
  <2>4. QED
    BY <2>2, <2>3 DEF Ledger!Next, Bar
<1>5. CASE Phase(rounds[r]) # "committing"
  BY <1>2, <1>3, <1>5 DEF Phase
<1>6. QED
  BY <1>4, <1>5

(* UPDATE that closes: Close, or nothing when the round has closed. *)
LEMMA ClosesImplements ==
    ASSUME IInv, Closes
    PROVE  Ledger!Next \/ Bar' = Bar
<1>1. PICK r \in DOMAIN rounds : \E x \in Row :
        /\ x.derivation_path = rounds[r].derivation_path
        /\ rounds[r].reveal_started_at # None /\ x.closed_at # None
        /\ rounds' = [rounds EXCEPT ![r] = x]
        /\ UNCHANGED <<commitments, evidences>>
  BY DEF Closes
<1>2. PICK x \in Row :
        /\ x.derivation_path = rounds[r].derivation_path
        /\ rounds[r].reveal_started_at # None /\ x.closed_at # None
        /\ rounds' = [rounds EXCEPT ![r] = x]
        /\ UNCHANGED <<commitments, evidences>>
  BY <1>1
<1>3. /\ Bar[r].phase = Phase(rounds[r])
      /\ Bar' = [Bar EXCEPT ![r].phase = Phase(x)]
      /\ Phase(x) = Phase(rounds[r]) => Bar' = Bar
  BY <1>2, PhaseStep
<1>4. Phase(x) = "closed"
  BY <1>2 DEF Phase
<1>5. CASE Phase(rounds[r]) = "revealing"
  <2>1. Ledger!Close(r)
    BY <1>3, <1>4, <1>5 DEF Ledger!Close, Bar
  <2>2. r \in DOMAIN Bar
    BY DEF Bar
  <2>3. QED
    BY <2>1, <2>2 DEF Ledger!Next, Bar
<1>6. CASE Phase(rounds[r]) # "revealing"
  BY <1>2, <1>3, <1>4, <1>6 DEF Phase
<1>7. QED
  BY <1>5, <1>6

(* INSERT of a round: Open. *)
LEMMA OpensImplements ==
    ASSUME IInv, LInv, Opens
    PROVE  Ledger!Next
<1> DEFINE n == Len(rounds) + 1
           L == LedgerOf(rounds, commitments, evidences)
           LL == LedgerOf(rounds', commitments', evidences')
<1>1. PICK x \in Row :
        /\ x.closed_at = None /\ x.reveal_started_at = None
        /\ \A r \in DOMAIN rounds :
             rounds[r].derivation_path = x.derivation_path => rounds[r].closed_at # None
        /\ rounds' = Append(rounds, x)
        /\ UNCHANGED <<commitments, evidences>>
  BY DEF Opens
<1>2. /\ DOMAIN rounds' = DOMAIN rounds \cup {n} /\ rounds'[n] = x
      /\ \A r \in DOMAIN rounds : rounds'[r] = rounds[r]
  BY <1>1, AppendSeq DEF IInv, RowsOK
<1>3. Len(rounds) \in Nat /\ DOMAIN rounds = 1 .. Len(rounds) /\ n \notin DOMAIN rounds
  BY DEF IInv, RowsOK
<1>4. \A r \in DOMAIN rounds :
         RoundOf(rounds', commitments', evidences', r) = RoundOf(rounds, commitments, evidences, r)
  BY <1>1, <1>2 DEF RoundOf
<1> DEFINE fresh == [path |-> x.derivation_path, phase |-> "committing",
                     committed |-> Ledger!Empty, published |-> Ledger!Empty]
<1>5. RoundOf(rounds', commitments', evidences', n) = fresh
  <2>1. RowsOf(commitments, n) = {} /\ RevealedRows(commitments, n) = {}
    BY <1>3, LedgerFacts DEF RowsOf, RevealedRows
  <2>2. CommittedMap(commitments, n) = Ledger!Empty
    BY <2>1 DEF CommittedMap, Ledger!Empty
  <2>3. PublishedMap(commitments, evidences, n) = Ledger!Empty
    BY <2>1 DEF PublishedMap, Ledger!Empty
  <2>4. Phase(x) = "committing"
    BY <1>1 DEF Phase
  <2>5. QED
    BY <1>1, <1>2, <2>2, <2>3, <2>4 DEF RoundOf
<1>6. LL = Append(L, fresh)
  <2>1. L = [r \in 1 .. Len(rounds) |-> L[r]]
    BY <1>3 DEF LedgerOf
  <2>2. \A r \in DOMAIN rounds : L[r] = RoundOf(rounds, commitments, evidences, r)
    BY DEF LedgerOf
  <2>3. /\ LL = [r \in DOMAIN LL |-> LL[r]]
        /\ DOMAIN LL = 1 .. n
        /\ \A r \in DOMAIN LL : LL[r] = RoundOf(rounds', commitments', evidences', r)
    BY <1>2, <1>3 DEF LedgerOf
  <2> HIDE DEF L, LL, fresh
  <2>4. \A r \in 1 .. n : LL[r] = IF r = n THEN fresh ELSE L[r]
    BY <1>2, <1>3, <1>4, <1>5, <2>2, <2>3
  <2>5. Append(L, fresh) = [r \in 1 .. n |-> IF r = n THEN fresh ELSE L[r]]
    BY <1>3, <2>1, AppendMap
  <2>6. QED
    BY <2>3, <2>4, <2>5
<1>7. \A r \in DOMAIN L : L[r].path = x.derivation_path => L[r].phase = "closed"
  BY <1>1 DEF LedgerOf, RoundOf, Phase
<1>8. x.derivation_path \in Paths
  BY DEF Row
<1>9. Bar = L /\ Bar' = LL
  BY BarIs, BarWillBe
<1> HIDE DEF L, LL
<1>10. Ledger!Open(x.derivation_path)
  BY <1>6, <1>7, <1>9 DEF Ledger!Open, Bar
<1>11. QED
  BY <1>8, <1>10 DEF Ledger!Next

-----------------------------------------------------------------------------
(* Rows that say more of one builder. *)

(* The ledger M becomes N: builder b commits d, or publishes v, in round r. *)
Joined(M, N, r, b, d) ==
    /\ b \notin DOMAIN M[r].committed
    /\ N = [M EXCEPT ![r].committed = Ledger!Extended(@, b, d)]

Shown(M, N, r, b, v) ==
    /\ b \notin DOMAIN M[r].published
    /\ N = [M EXCEPT ![r].published = Ledger!Extended(@, b, v)]

(* The pair (b, d) is added to what is committed in round r. *)
LEMMA OtherCommitted ==
    ASSUME NEW R, NEW C, NEW E, NEW D, NEW r \in DOMAIN R, NEW b, NEW d,
           CommittedOnce(C), CommittedOnce(D), \A x : ~Committed(C, r, b, x),
           \A q, y, x : Committed(D, q, y, x) <=>
                          Committed(C, q, y, x) \/ (q = r /\ y = b /\ x = d),
           \A q, y, v : Stored(D, E, q, y, v) <=> Stored(C, E, q, y, v)
    PROVE  Joined(LedgerOf(R, C, E), LedgerOf(R, D, E), r, b, d)
<1> DEFINE old == RoundOf(R, C, E, r)
           new == RoundOf(R, D, E, r)
           L == LedgerOf(R, C, E)
           f == Ledger!Extended(CommittedMap(C, r), b, d)
<1>1. \A q : PublishedMap(D, E, q) = PublishedMap(C, E, q)
  BY SamePublished
<1>2. \A q : q # r => CommittedMap(D, q) = CommittedMap(C, q)
  BY SameCommitted
<1>3. OnlyRound(R, C, E, R, D, E, r)
  BY <1>1, <1>2 DEF RoundOf, OnlyRound
<1>4. LedgerOf(R, D, E) = [L EXCEPT ![r] = new]
  BY <1>3, OneRound
<1>5. CommittedMap(D, r) = f
  BY CommittedExtended
<1>6. b \notin DOMAIN CommittedMap(C, r)
  BY CommittedMapIs
<1> HIDE DEF f
<1>7. new = [old EXCEPT !.committed = f]
  BY <1>1, <1>5 DEF RoundOf
<1>8. old.committed = CommittedMap(C, r)
  BY DEF RoundOf
<1>9. L[r] = old /\ r \in DOMAIN L
  BY DEF LedgerOf
<1> HIDE DEF old, new, L
<1>10. [L EXCEPT ![r].committed = Ledger!Extended(@, b, d)] = [L EXCEPT ![r] = new]
  <2>1. Ledger!Extended(L[r].committed, b, d) = f
    BY <1>8, <1>9 DEF f
  <2>2. [L EXCEPT ![r].committed = f] = [L EXCEPT ![r] = new]
    BY <1>7, <1>9
  <2>3. QED
    BY <2>1, <2>2
<1>11. QED
  BY <1>4, <1>6, <1>8, <1>9, <1>10 DEF L, Joined

(* The pair (b, v) is added to what is published in round r. *)
LEMMA OtherPublished ==
    ASSUME NEW R, NEW C, NEW E, NEW D, NEW F, NEW r \in DOMAIN R, NEW b, NEW v,
           CommittedOnce(C), CommittedOnce(D), \A x : ~Stored(C, E, r, b, x),
           \A q, y, x : Stored(D, F, q, y, x) <=>
                          Stored(C, E, q, y, x) \/ (q = r /\ y = b /\ x = v),
           \A q, y, x : Committed(D, q, y, x) <=> Committed(C, q, y, x)
    PROVE  Shown(LedgerOf(R, C, E), LedgerOf(R, D, F), r, b, v)
<1> DEFINE old == RoundOf(R, C, E, r)
           new == RoundOf(R, D, F, r)
           L == LedgerOf(R, C, E)
           f == Ledger!Extended(PublishedMap(C, E, r), b, v)
<1>1. \A q : CommittedMap(D, q) = CommittedMap(C, q)
  BY SameCommitted
<1>2. \A q : q # r => PublishedMap(D, F, q) = PublishedMap(C, E, q)
  BY SamePublished
<1>3. OnlyRound(R, C, E, R, D, F, r)
  BY <1>1, <1>2 DEF RoundOf, OnlyRound
<1>4. LedgerOf(R, D, F) = [L EXCEPT ![r] = new]
  BY <1>3, OneRound
<1>5. PublishedMap(D, F, r) = f
  BY PublishedExtended
<1>6. b \notin DOMAIN PublishedMap(C, E, r)
  BY PublishedMapIs
<1> HIDE DEF f
<1>7. new = [old EXCEPT !.published = f]
  BY <1>1, <1>5 DEF RoundOf
<1>8. old.published = PublishedMap(C, E, r)
  BY DEF RoundOf
<1>9. L[r] = old /\ r \in DOMAIN L
  BY DEF LedgerOf
<1> HIDE DEF old, new, L
<1>10. [L EXCEPT ![r].published = Ledger!Extended(@, b, v)] = [L EXCEPT ![r] = new]
  <2>1. Ledger!Extended(L[r].published, b, v) = f
    BY <1>8, <1>9 DEF f
  <2>2. [L EXCEPT ![r].published = f] = [L EXCEPT ![r] = new]
    BY <1>7, <1>9
  <2>3. QED
    BY <2>1, <2>2
<1>11. QED
  BY <1>4, <1>6, <1>8, <1>9, <1>10 DEF L, Shown

(* Joined is what Join asks of the ledger before and after. *)
LEMMA JoinedIsJoin ==
    ASSUME NEW r, NEW b \in Builders, NEW d \in Digests, Joined(Bar, Bar', r, b, d)
    PROVE  Ledger!Join(r)
<1>1. /\ b \in Builders \ DOMAIN Bar[r].committed
      /\ Bar' = [Bar EXCEPT ![r].committed = Ledger!Extended(@, b, d)]
  BY DEF Joined
<1>2. QED
  BY <1>1, Zenon DEF Ledger!Join, Bar

(* INSERT of a commitment: Join. *)
LEMMA JoinsImplements ==
    ASSUME IInv, LInv, CommittedOnce(commitments'), Joins
    PROVE  Ledger!Next
<1>1. PICK c \in Commitment :
        /\ c.round_id \in DOMAIN rounds /\ c.evidence_id = None
        /\ \A i \in DOMAIN commitments :
             ~(commitments[i].round_id = c.round_id /\ commitments[i].builder_id = c.builder_id)
        /\ commitments' = Append(commitments, c)
        /\ UNCHANGED <<rounds, evidences>>
  BY DEF Joins
<1> DEFINE D == commitments'
           r == c.round_id
           b == c.builder_id
           d == c.digest
           L == LedgerOf(rounds, commitments, evidences)
           LL == LedgerOf(rounds, D, evidences)
<1>2. /\ DOMAIN D = DOMAIN commitments \cup {Len(commitments) + 1}
      /\ D[Len(commitments) + 1] = c
      /\ \A i \in DOMAIN commitments : D[i] = commitments[i]
  BY <1>1, LedgerFacts, AppendSeq
<1> HIDE DEF D
<1>3. \A q, y, x : Committed(D, q, y, x) <=>
                     Committed(commitments, q, y, x) \/ (q = r /\ y = b /\ x = d)
  BY <1>2 DEF Committed
<1>4. \A q, y, v : Stored(D, evidences, q, y, v) <=> Stored(commitments, evidences, q, y, v)
  BY <1>1, <1>2 DEF Stored
<1>5. CommittedOnce(commitments) /\ CommittedOnce(D) /\ \A x : ~Committed(commitments, r, b, x)
  BY <1>1, LedgerFacts DEF Committed, D
<1>6. r \in DOMAIN rounds
  BY <1>1
<1> HIDE DEF r, b, d
<1>7. Joined(L, LL, r, b, d)
  BY <1>3, <1>4, <1>5, <1>6, OtherCommitted
<1>8. LedgerOf(rounds', commitments', evidences') = LL
  BY <1>1 DEF D
<1>9. b \in Builders /\ d \in Digests
  BY DEF Commitment, b, d
<1>10. r \in DOMAIN L
  BY <1>6 DEF LedgerOf
<1> HIDE DEF L, LL
<1>11. Bar = L /\ Bar' = LL
  BY <1>8, BarIs, BarWillBe DEF L
<1>12. Ledger!Join(r)
  <2>1. Joined(Bar, Bar', r, b, d)
    BY <1>7, <1>11
  <2>2. QED
    BY <1>9, <2>1, JoinedIsJoin
<1>13. QED
  BY <1>10, <1>11, <1>12 DEF Ledger!Next, Bar

(* The transaction of reveal: Publish. *)
LEMMA PublishesImplements ==
    ASSUME IInv, LInv, CommittedOnce(commitments'), Publishes
    PROVE  Ledger!Next
<1>1. PICK i \in DOMAIN commitments :
        /\ commitments[i].evidence_id = None
        /\ rounds[commitments[i].round_id].reveal_started_at # None
        /\ evidences' = Append(evidences, Evidence(commitments[i].digest))
        /\ commitments' = [commitments EXCEPT
                             ![i] = WithEvidence(commitments[i], Len(evidences) + 1)]
        /\ UNCHANGED rounds
  BY DEF Publishes
<1> DEFINE C == commitments
           D == commitments'
           E == evidences
           F == evidences'
           r == commitments[i].round_id
           b == commitments[i].builder_id
           d == commitments[i].digest
           L == LedgerOf(rounds, C, E)
           LL == LedgerOf(rounds, D, F)
<1>2. Linking(C, E, i, D, F)
  BY <1>1, LinkedRows, LedgerFacts
<1>3. /\ CommittedOnce(C) /\ CommittedOnce(D) /\ Linked(C, E)
      /\ r \in DOMAIN rounds /\ C[i] \in Commitment
  BY LedgerFacts
<1>4. i \in DOMAIN C /\ C[i].evidence_id = None
  BY <1>1
<1>5. C[i].round_id = r /\ C[i].builder_id = b /\ C[i].digest = d
  OBVIOUS
<1> HIDE DEF C, D, E, F, r, b, d
<1>6. \A q, y, x : Committed(D, q, y, x) <=> Committed(C, q, y, x)
  <2>1. /\ DOMAIN D = DOMAIN C
        /\ \A j \in DOMAIN C : /\ D[j].round_id = C[j].round_id /\ D[j].digest = C[j].digest
                               /\ D[j].builder_id = C[j].builder_id
    BY <1>2 DEF Linking
  <2>2. QED
    BY <2>1 DEF Committed
<1>7. \A x : ~Stored(C, E, r, b, x)
  BY <1>3, <1>4, <1>5 DEF Stored, CommittedOnce
<1>8. ASSUME NEW q, NEW y, NEW x
      PROVE  Stored(D, F, q, y, x) <=>
               Stored(C, E, q, y, x) \/ (q = r /\ y = b /\ x = Evidence(d))
  <2>1. \A j \in DOMAIN C : j # i /\ C[j].evidence_id # None =>
           D[j] = C[j] /\ F[C[j].evidence_id] = E[C[j].evidence_id]
    BY <1>2, <1>3 DEF Linking, Linked
  <2>2. /\ D[i].evidence_id # None /\ F[D[i].evidence_id] = Evidence(d)
        /\ D[i].round_id = r /\ D[i].builder_id = b
    BY <1>2, <1>5 DEF Linking
  <2>3. DOMAIN D = DOMAIN C /\ \A j \in DOMAIN C : j # i => D[j] = C[j]
    BY <1>2 DEF Linking
  <2>4. QED
    BY <1>4, <2>1, <2>2, <2>3 DEF Stored
<1>9. Shown(L, LL, r, b, Evidence(d))
  BY <1>3, <1>6, <1>7, <1>8, OtherPublished
<1>10. r \in DOMAIN L /\ L[r].phase # "committing"
  <2>1. Phase(rounds[r]) # "committing"
    BY <1>1 DEF Phase, r
  <2>2. QED
    BY <1>3, <2>1 DEF LedgerOf, RoundOf
<1>11. b \in DOMAIN L[r].committed /\ L[r].committed[b] = d
  <2>1. L[r].committed = CommittedMap(C, r)
    BY <1>3 DEF LedgerOf, RoundOf
  <2>2. Committed(C, r, b, d)
    BY <1>4, <1>5 DEF Committed
  <2>3. QED
    BY <1>3, <2>1, <2>2, CommittedMapIs
<1>12. LedgerOf(rounds', commitments', evidences') = LL
  BY <1>1 DEF D, F
<1> HIDE DEF L, LL
<1>13. Bar = L /\ Bar' = LL
  BY <1>12, BarIs, BarWillBe DEF L, C, E
<1>14. Shown(L, LL, r, b, Evidence(L[r].committed[b]))
  BY <1>9, <1>11
<1>15. Ledger!Publish(r)
  <2>1. Shown(Bar, Bar', r, b, Evidence(Bar[r].committed[b]))
    BY <1>13, <1>14
  <2>2. Bar[r].phase # "committing" /\ b \in DOMAIN Bar[r].committed
    BY <1>10, <1>11, <1>13
  <2>3. QED
    BY <2>1, <2>2 DEF Ledger!Publish, Bar, Shown
<1>16. QED
  BY <1>10, <1>13, <1>15 DEF Ledger!Next, Bar

-----------------------------------------------------------------------------
(* Every step of a handler is a step of the ledger, or none. *)
LEMMA LedgerStep ==
    ASSUME IInv, LInv, [Next]_vars
    PROVE  Ledger!Next \/ Bar' = Bar
<1>1. Writes /\ CommittedOnce(commitments')
  BY NextWrites DEF LInv, TablesOK
<1>2. CASE UNCHANGED tables
  <2>1. LedgerOf(rounds', commitments', evidences') = LedgerOf(rounds, commitments, evidences)
    BY <1>2 DEF tables
  <2>2. QED
    BY <2>1, BarIs, BarWillBe
<1>3. QED
  BY <1>1, <1>2, OpensImplements, JoinsImplements, BeginsImplements, ClosesImplements,
     PublishesImplements
  DEF Writes

(* The tables, read as a ledger of rounds, only ever change the way        *)
(* RoundLedger says: a round begins and closes once, in this order, a path *)
(* has one open round, a builder commits once in a round and publishes     *)
(* there once, after the commit phase, what it committed to.               *)
THEOREM ImplementsRoundLedger == Spec => ImplementsLedger
<1>1. Init => Ledger!Init
  BY DEF Init, Ledger!Init, Bar
<1>2. IInv /\ LInv /\ [Next]_vars => [Ledger!Next]_Bar
  BY LedgerStep
<1>3. QED
  BY <1>1, <1>2, Invariance, LedgerInvariance, PTL DEF Spec, ImplementsLedger, Ledger!Spec, Bar

=============================================================================
