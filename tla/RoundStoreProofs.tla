-------------------------- MODULE RoundStoreProofs --------------------------
(***************************************************************************)
(* Proofs about RoundStore, for every set of handlers, builders, requests, *)
(* windows and bounds.                                                     *)
(*                                                                         *)
(* The argument: a round never goes back to committing, and every copy of  *)
(* a row that a handler holds was read after its request arrived.  So a    *)
(* copy that says "committing" is of a round that was committing then:     *)
(* nothing of it was visible to the sender.  And a copy that says          *)
(* "revealing" is of a round that is not committing now.                   *)
(***************************************************************************)
EXTENDS RoundStore, FiniteSetTheorems, TLAPS

(* The tables rounds' = S may have become from rounds = R in any step.     *)
Grown(R, S) ==
    \A r \in DOMAIN R :
        /\ r \in DOMAIN S
        /\ R[r].reveal_started_at # None => S[r].reveal_started_at # None

(* A copy of a row of R, held by a handler whose client has seen evidence  *)
(* of the rounds in seen when it sent the request.                         *)
Copy(row, R, seen) ==
    /\ row \in Row
    /\ RowShape(row)
    /\ row.id \in DOMAIN R
    /\ row.reveal_started_at # None => R[row.id].reveal_started_at # None
    /\ row.reveal_started_at = None => row.id \notin seen

(* What holds of a handler's local state wherever it is. *)
BaseOK(s, R) ==
    /\ s \in LocalState
    /\ s.row # None => Copy(s.row, R, s.seen)
    /\ \A row \in s.todo : Copy(row, R, s.seen)
    /\ \A r \in s.seen : r \in DOMAIN R /\ R[r].reveal_started_at # None

(* What advance_round needs to return to its caller. *)
CallerOK(s) ==
    /\ s.row # None
    /\ s.caller \in {"existing", "active"} => s.req \in CommitRequests
    /\ s.caller \in {"reveal", "after"} => s.req \in RevealRequests

CommitPCs == {"lookup", "active", "insert_round", "fetch_open"}
CommitRowPCs == {"related_round", "my_commitment", "fetch_created", "insert_commitment",
                 "threshold", "start_reveal", "reread_joined"}
RevealRowPCs == {"find_commitment", "store", "after_store"}
AdvancePCs == {"count_commits", "count_reveals", "open_reveal", "reread", "close"}

(* What holds of it at its next statement. *)
PcOK(s) ==
    /\ s.pc \in CommitPCs \cup CommitRowPCs => s.req \in CommitRequests
    /\ s.pc \in RevealRowPCs \cup {"find_round"} => s.req \in RevealRequests
    /\ s.pc = "find_status" => s.req \in StatusRequests
    /\ s.pc \in CommitRowPCs \cup RevealRowPCs \cup {"status_at", "reload_status"} =>
         s.row # None
    /\ s.pc \in AdvancePCs => CallerOK(s)
    /\ s.pc \in {"my_commitment", "insert_commitment"} => s.row.reveal_started_at = None
    /\ s.pc \in {"store", "close"} => s.row.reveal_started_at # None

LocalOK(s, R) == BaseOK(s, R) /\ PcOK(s)

RowsOK(R) ==
    /\ R \in Seq(Row)
    /\ \A r \in DOMAIN R : R[r].id = r /\ RowShape(R[r])

(* Commitments are of rounds that exist, and of rounds that have revealed  *)
(* when their evidence is stored.                                          *)
CommitmentsOK(C, R) ==
    /\ C \in Seq(Commitment)
    /\ \A i \in DOMAIN C :
         /\ C[i].round_id \in DOMAIN R
         /\ C[i].evidence_id # None => R[C[i].round_id].reveal_started_at # None

IInv ==
    /\ clock \in Time
    /\ RowsOK(rounds)
    /\ CommitmentsOK(commitments, rounds)
    /\ evidences \in Seq({Evidence(d) : d \in Digests})
    /\ handler \in [Handlers -> LocalState]
    /\ \A p \in Handlers : LocalOK(handler[p], rounds)
    /\ failures \in 0 .. MaxFailures

-----------------------------------------------------------------------------
(* Local states. *)

(* An idle slot holds nothing that could be wrong. *)
LEMMA IdleOK ==
    ASSUME NEW R
    PROVE  LocalOK(Idle, R)
<1>1. Idle \in LocalState
  BY DEF Idle, LocalState, PC, Callers, Replies, Time, Requests
<1>2. QED
  BY <1>1 DEF Idle, LocalOK, BaseOK, PcOK, CommitPCs, CommitRowPCs, RevealRowPCs, AdvancePCs

(* An answer carries a copy of a row and forgets what the client had seen. *)
LEMMA ReplyOK ==
    ASSUME NEW R, NEW s, BaseOK(s, R), NEW status \in Replies
    PROVE  LocalOK(Reply(s, status), R)
<1> DEFINE t == Reply(s, status)
<1>1. t \in LocalState
  BY DEF BaseOK, Reply, Idle, LocalState, PC, Callers, Time
<1>2. /\ t.pc = "reply" /\ t.row = s.row /\ t.todo = {} /\ t.seen = {}
  BY DEF Reply, Idle
<1>3. t.row # None => Copy(t.row, R, t.seen)
  BY <1>2 DEF BaseOK, Copy
<1>4. PcOK(t)
  BY <1>2 DEF PcOK, CommitPCs, CommitRowPCs, RevealRowPCs, AdvancePCs
<1>5. QED
  BY <1>1, <1>2, <1>3, <1>4 DEF LocalOK, BaseOK

(* A handler moves on with the same local variables, the row included. *)
LEMMA MoveOK ==
    ASSUME NEW R, NEW s, BaseOK(s, R), NEW pc \in PC
    PROVE  /\ BaseOK([s EXCEPT !.pc = pc], R)
           /\ [s EXCEPT !.pc = pc].pc = pc
           /\ [s EXCEPT !.pc = pc].row = s.row
           /\ [s EXCEPT !.pc = pc].req = s.req
           /\ [s EXCEPT !.pc = pc].caller = s.caller
  BY DEF BaseOK, LocalState

MovedWith(s, pc, row) == [s EXCEPT !.pc = pc, !.row = row]

(* The same, with another copy of a row in hand, or with none. *)
LEMMA MoveWithOK ==
    ASSUME NEW R, NEW s, BaseOK(s, R), NEW pc \in PC,
           NEW row, row = None \/ Copy(row, R, s.seen)
    PROVE  /\ BaseOK(MovedWith(s, pc, row), R)
           /\ MovedWith(s, pc, row).pc = pc
           /\ MovedWith(s, pc, row).row = row
           /\ MovedWith(s, pc, row).req = s.req
           /\ MovedWith(s, pc, row).caller = s.caller
<1> DEFINE u == MovedWith(s, pc, row)
<1>1. row \in Row \cup {None}
  BY DEF Copy
<1>2. /\ u \in LocalState
      /\ u.pc = pc /\ u.row = row /\ u.req = s.req /\ u.caller = s.caller
      /\ u.todo = s.todo /\ u.seen = s.seen
  BY <1>1 DEF BaseOK, LocalState, MovedWith
<1> HIDE DEF u
<1>3. BaseOK(u, R)
  BY <1>2 DEF BaseOK
<1>4. QED
  BY <1>2, <1>3 DEF u

(* advance_round returns a copy to its caller. *)
LEMMA ResumeOpenOK ==
    ASSUME NEW R, NEW s, BaseOK(s, R), CallerOK(s), NEW row, Copy(row, R, s.seen)
    PROVE  LocalOK(ResumeOpen(s, row), R)
<1> DEFINE t == [Returned(s) EXCEPT !.row = row]
<1>1. s \in LocalState /\ row \in Row
  BY DEF BaseOK, Copy
<1>2. /\ t \in LocalState
      /\ t.row = row /\ t.todo = s.todo /\ t.seen = s.seen /\ t.req = s.req
      /\ row # None
  BY <1>1, NoneAssumption DEF Returned, LocalState, Callers
<1>3. BaseOK(t, R)
  BY <1>2 DEF BaseOK
<1>4. \A status \in Replies : LocalOK(Reply(t, status), R)
  BY <1>3, ReplyOK
<1>6. CASE s.caller \in {"existing", "status"}
  BY <1>4, <1>6 DEF ResumeOpen, Replies
<1>7. CASE s.caller = "active"
  <2> DEFINE u == [t EXCEPT !.pc = "my_commitment"]
  <2>1. "my_commitment" \in PC
    BY DEF PC
  <2>2. BaseOK(u, R) /\ u.pc = "my_commitment" /\ u.row = row /\ u.req = s.req
    <3> HIDE DEF t
    <3>1. QED
      BY <1>2, <1>3, <2>1, MoveOK
  <2>3. s.req \in CommitRequests
    BY <1>7 DEF CallerOK
  <2> HIDE DEF u
  <2>4. TakesCommitments(row) => LocalOK(u, R)
    BY <1>2, <2>2, <2>3
    DEF TakesCommitments, LocalOK, PcOK, CommitPCs, CommitRowPCs, RevealRowPCs, AdvancePCs
  <2>5. LocalOK(Reply(t, "conflict"), R)
    BY <1>4 DEF Replies
  <2>6. ResumeOpen(s, row) = IF TakesCommitments(row) THEN u ELSE Reply(t, "conflict")
    BY <1>7 DEF ResumeOpen, u
  <2>7. QED
    BY <2>4, <2>5, <2>6
<1>8. CASE s.caller = "reveal"
  <2> DEFINE u == [t EXCEPT !.pc = "store"]
  <2>1. "store" \in PC
    BY DEF PC
  <2>2. BaseOK(u, R) /\ u.pc = "store" /\ u.row = row /\ u.req = s.req
    <3> HIDE DEF t
    <3>1. QED
      BY <1>2, <1>3, <2>1, MoveOK
  <2>3. s.req \in RevealRequests
    BY <1>8 DEF CallerOK
  <2> HIDE DEF u
  <2>4. TakesReveals(row) => LocalOK(u, R)
    BY <1>2, <2>2, <2>3
    DEF TakesReveals, LocalOK, PcOK, CommitPCs, CommitRowPCs, RevealRowPCs, AdvancePCs
  <2>5. LocalOK(Reply(t, "conflict"), R)
    BY <1>4 DEF Replies
  <2>6. ResumeOpen(s, row) = IF TakesReveals(row) THEN u ELSE Reply(t, "conflict")
    BY <1>8 DEF ResumeOpen, u
  <2>7. QED
    BY <2>4, <2>5, <2>6
<1>9. CASE s.caller = "scrape"
  <2> DEFINE u == MovedWith(t, "next_open", None)
  <2>1. "next_open" \in PC
    BY DEF PC
  <2>2. BaseOK(u, R) /\ u.pc = "next_open" /\ u.row = None
    <3> HIDE DEF t
    <3>1. QED
      BY <1>3, <2>1, MoveWithOK
  <2> HIDE DEF u
  <2>3. LocalOK(u, R)
    BY <2>2 DEF LocalOK, PcOK, CommitPCs, CommitRowPCs, RevealRowPCs, AdvancePCs
  <2>4. ResumeOpen(s, row) = u
    BY <1>9 DEF ResumeOpen, MovedWith, u
  <2>5. QED
    BY <2>3, <2>4
<1>10. CASE s.caller \in {"none", "after"}
  BY <1>4, <1>10 DEF ResumeOpen, Replies
<1>11. QED
  BY <1>1, <1>6, <1>7, <1>8, <1>9, <1>10 DEF LocalState, Callers

(* advance_round returns None to its caller, which goes on with what it has. *)
LEMMA ResumeClosedOK ==
    ASSUME NEW R, NEW s, BaseOK(s, R), CallerOK(s)
    PROVE  LocalOK(ResumeClosed(s), R)
<1> DEFINE t == Returned(s)
<1>1. /\ t \in LocalState
      /\ t.row = s.row /\ t.todo = s.todo /\ t.seen = s.seen /\ t.req = s.req
  BY DEF Returned, BaseOK, LocalState, Callers
<1>2. BaseOK(t, R)
  BY <1>1 DEF BaseOK
<1>3. \A status \in Replies : LocalOK(Reply(t, status), R)
  BY <1>2, ReplyOK
<1>4. CASE s.caller \in {"existing", "status"}
  <2> DEFINE u == [t EXCEPT !.pc = "reload_status"]
  <2>1. "reload_status" \in PC
    BY DEF PC
  <2>2. BaseOK(u, R) /\ u.pc = "reload_status" /\ u.row = s.row /\ u.req = s.req
    <3> HIDE DEF t
    <3>1. QED
      BY <1>1, <1>2, <2>1, MoveOK
  <2>3. s.row # None
    BY <1>4 DEF CallerOK
  <2> HIDE DEF u
  <2>4. LocalOK(u, R)
    BY <2>2, <2>3 DEF LocalOK, PcOK, CommitPCs, CommitRowPCs, RevealRowPCs, AdvancePCs
  <2>5. ResumeClosed(s) = u
    BY <1>4 DEF ResumeClosed, u
  <2>6. QED
    BY <2>4, <2>5
<1>5. CASE s.caller = "active"
  <2> DEFINE u == MovedWith(t, "insert_round", None)
  <2>1. "insert_round" \in PC
    BY DEF PC
  <2>2. BaseOK(u, R) /\ u.pc = "insert_round" /\ u.row = None /\ u.req = s.req
    <3> HIDE DEF t
    <3>1. QED
      BY <1>1, <1>2, <2>1, MoveWithOK
  <2>3. s.req \in CommitRequests
    BY <1>5 DEF CallerOK
  <2> HIDE DEF u
  <2>4. LocalOK(u, R)
    BY <2>2, <2>3 DEF LocalOK, PcOK, CommitPCs, CommitRowPCs, RevealRowPCs, AdvancePCs
  <2>5. ResumeClosed(s) = u
    BY <1>5 DEF ResumeClosed, MovedWith, u
  <2>6. QED
    BY <2>4, <2>5
<1>6. CASE s.caller = "reveal"
  BY <1>3, <1>6 DEF ResumeClosed, Replies
<1>7. CASE s.caller = "scrape"
  <2> DEFINE u == MovedWith(t, "next_open", None)
  <2>1. "next_open" \in PC
    BY DEF PC
  <2>2. BaseOK(u, R) /\ u.pc = "next_open" /\ u.row = None /\ u.req = s.req
    <3> HIDE DEF t
    <3>1. QED
      BY <1>1, <1>2, <2>1, MoveWithOK
  <2> HIDE DEF u
  <2>3. LocalOK(u, R)
    BY <2>2 DEF LocalOK, PcOK, CommitPCs, CommitRowPCs, RevealRowPCs, AdvancePCs
  <2>4. ResumeClosed(s) = u
    BY <1>7 DEF ResumeClosed, MovedWith, u
  <2>5. QED
    BY <2>3, <2>4
<1>8. CASE s.caller \in {"none", "after"}
  BY <1>3, <1>8 DEF ResumeClosed, Replies
<1>9. s.caller \in Callers
  BY DEF BaseOK, LocalState
<1>10. QED
  BY <1>4, <1>5, <1>6, <1>7, <1>8, <1>9 DEF Callers

(* advance_round is called with a copy of a row. *)
LEMMA CallAdvanceOK ==
    ASSUME NEW R, NEW s, BaseOK(s, R), NEW row, Copy(row, R, s.seen),
           NEW caller \in Callers,
           caller \in {"existing", "active"} => s.req \in CommitRequests,
           caller \in {"reveal", "after"} => s.req \in RevealRequests
    PROVE  LocalOK(CallAdvance(s, row, caller), R)
<1> DEFINE t == [s EXCEPT !.row = row, !.caller = caller]
<1>1. /\ t \in LocalState
      /\ t.row = row /\ t.todo = s.todo /\ t.seen = s.seen /\ t.req = s.req
      /\ t.caller = caller
      /\ row # None
  BY NoneAssumption DEF BaseOK, Copy, LocalState
<1>2. BaseOK(t, R) /\ CallerOK(t)
  BY <1>1 DEF BaseOK, CallerOK
<1>3. LocalOK(ResumeClosed(t), R)
  BY <1>2, ResumeClosedOK
<1> HIDE DEF t
<1> DEFINE u == [t EXCEPT !.pc = "count_commits"]
<1>4. LocalOK(u, R)
  <2>1. /\ BaseOK(u, R)
        /\ u.pc = "count_commits" /\ u.row = row /\ u.req = s.req /\ u.caller = caller
    <3>1. "count_commits" \in PC
      BY DEF PC
    <3>2. QED
      BY <1>1, <1>2, <3>1, MoveOK
  <2>2. CallerOK(u)
    BY <1>1, <2>1 DEF CallerOK
  <2>3. QED
    BY <2>1, <2>2
    DEF LocalOK, PcOK, CommitPCs, CommitRowPCs, RevealRowPCs, AdvancePCs
<1>5. QED
  BY <1>3, <1>4 DEF CallAdvance, t

(* Only a row that reveals is closed. *)
LEMMA CloseOrResumeOK ==
    ASSUME NEW R, NEW s, BaseOK(s, R), CallerOK(s), NEW row, Copy(row, R, s.seen)
    PROVE  LocalOK(CloseOrResume(s, row), R)
<1>1. LocalOK(ResumeOpen(s, row), R)
  BY ResumeOpenOK
<1>2. ASSUME row.reveal_started_at # None
      PROVE  LocalOK([s EXCEPT !.pc = "close", !.row = row], R)
  <2> DEFINE u == MovedWith(s, "close", row)
  <2>1. "close" \in PC /\ row # None
    BY NoneAssumption DEF PC, Copy
  <2>2. BaseOK(u, R) /\ u.pc = "close" /\ u.row = row /\ u.req = s.req /\ u.caller = s.caller
    BY <2>1, MoveWithOK
  <2> HIDE DEF u
  <2>3. LocalOK(u, R)
    BY <1>2, <2>1, <2>2
    DEF LocalOK, PcOK, CallerOK, CommitPCs, CommitRowPCs, RevealRowPCs, AdvancePCs
  <2>4. QED
    BY <2>3 DEF MovedWith, u
<1>3. QED
  BY <1>1, <1>2 DEF CloseOrResume

(* commit decides whether it may join a round. *)
LEMMA JoinOrConflictOK ==
    ASSUME NEW R, NEW s, BaseOK(s, R), s.req \in CommitRequests,
           NEW row, Copy(row, R, s.seen)
    PROVE  LocalOK(JoinOrConflict(s, row), R)
<1> DEFINE t == [s EXCEPT !.row = row]
<1>1. /\ t \in LocalState
      /\ t.row = row /\ t.todo = s.todo /\ t.seen = s.seen /\ t.req = s.req
      /\ row # None
  BY NoneAssumption DEF BaseOK, Copy, LocalState
<1>2. BaseOK(t, R)
  BY <1>1 DEF BaseOK
<1>3. LocalOK(Reply(t, "conflict"), R)
  BY <1>2, ReplyOK DEF Replies
<1> HIDE DEF t
<1> DEFINE u == [t EXCEPT !.pc = "insert_commitment"]
<1>4. ASSUME row.reveal_started_at = None
      PROVE  LocalOK(u, R)
  <2>1. BaseOK(u, R) /\ u.pc = "insert_commitment" /\ u.row = row /\ u.req = s.req
    <3>1. "insert_commitment" \in PC
      BY DEF PC
    <3>2. QED
      BY <1>1, <1>2, <3>1, MoveOK
  <2>2. QED
    BY <1>1, <1>4, <2>1
    DEF LocalOK, PcOK, CommitPCs, CommitRowPCs, RevealRowPCs, AdvancePCs
<1>5. QED
  BY <1>3, <1>4 DEF JoinOrConflict, TakesCommitments, t

-----------------------------------------------------------------------------
(* Tables. *)

(* What a SELECT reads now is a copy. *)
LEMMA FreshCopy ==
    ASSUME NEW R, RowsOK(R), NEW s, BaseOK(s, R), NEW r \in DOMAIN R
    PROVE  Copy(R[r], R, s.seen)
<1>1. R[r] \in Row
  BY DEF RowsOK
<1>2. QED
  BY <1>1 DEF RowsOK, BaseOK, Copy

(* A step of one handler leaves the others all right. *)
LEMMA LocalGrows ==
    ASSUME NEW R, NEW S, Grown(R, S), NEW s, LocalOK(s, R)
    PROVE  LocalOK(s, S)
<1>1. ASSUME NEW row, Copy(row, R, s.seen)
      PROVE  Copy(row, S, s.seen)
  BY <1>1 DEF Copy, Grown
<1>2. BaseOK(s, S)
  BY <1>1 DEF LocalOK, BaseOK, Grown
<1>3. QED
  BY <1>2 DEF LocalOK

(* Growing rounds leave the commitments consistent. *)
LEMMA CommitmentsGrow ==
    ASSUME NEW R, NEW S, Grown(R, S), NEW C, CommitmentsOK(C, R)
    PROVE  CommitmentsOK(C, S)
  BY DEF Grown, CommitmentsOK, Commitment

(* An UPDATE of columns of one row. *)
LEMMA ExceptSeq ==
    ASSUME NEW S, NEW q \in Seq(S), NEW i \in DOMAIN q, NEW x \in S
    PROVE  /\ [q EXCEPT ![i] = x] \in Seq(S)
           /\ DOMAIN [q EXCEPT ![i] = x] = DOMAIN q
           /\ Len([q EXCEPT ![i] = x]) = Len(q)
  OBVIOUS

(* Appending stays within a set of sequences. *)
LEMMA AppendSeq ==
    ASSUME NEW S, NEW q \in Seq(S), NEW x \in S
    PROVE  /\ Append(q, x) \in Seq(S)
           /\ DOMAIN Append(q, x) = DOMAIN q \cup {Len(q) + 1}
           /\ Append(q, x)[Len(q) + 1] = x
           /\ \A i \in DOMAIN q : Append(q, x)[i] = q[i]
  OBVIOUS

(* An UPDATE that leaves a row revealing makes the table grow. *)
LEMMA UpdateRow ==
    ASSUME NEW R, RowsOK(R), NEW r \in DOMAIN R, NEW x \in Row,
           x.id = r, RowShape(x),
           R[r].reveal_started_at # None => x.reveal_started_at # None
    PROVE  RowsOK([R EXCEPT ![r] = x]) /\ Grown(R, [R EXCEPT ![r] = x])
<1>1. R \in Seq(Row)
  BY DEF RowsOK
<1>2. [R EXCEPT ![r] = x] \in Seq(Row) /\ DOMAIN [R EXCEPT ![r] = x] = DOMAIN R
  BY <1>1, ExceptSeq
<1>3. \A i \in DOMAIN R : [R EXCEPT ![r] = x][i] = IF i = r THEN x ELSE R[i]
  BY <1>1
<1>4. QED
  BY <1>2, <1>3 DEF RowsOK, Grown

Revealing(row, start, deadline) ==
    [row EXCEPT !.reveal_started_at = start, !.reveal_deadline = deadline]

(* Starting the reveal phase in a row. *)
LEMMA RevealingRow ==
    ASSUME NEW row \in Row, RowShape(row), NEW start \in Nat, NEW deadline \in Nat
    PROVE  /\ Revealing(row, start, deadline) \in Row
           /\ Revealing(row, start, deadline).id = row.id
           /\ Revealing(row, start, deadline).reveal_started_at # None
           /\ RowShape(Revealing(row, start, deadline))
<1> DEFINE x == Revealing(row, start, deadline)
<1>1. /\ x.id = row.id /\ x.reveal_started_at = start /\ x.reveal_deadline = deadline
      /\ x.closed_at = row.closed_at
  BY DEF Row, Revealing
<1>2. x \in Row
  BY DEF Row, OptTime, Time, Revealing
<1>3. start # None /\ deadline # None
  BY NoneAssumption
<1> HIDE DEF x
<1>4. RowShape(x)
  BY <1>1, <1>3 DEF RowShape
<1>5. QED
  BY <1>1, <1>2, <1>3, <1>4 DEF x

(* The row of a new round is well-formed and commits. *)
LEMMA NewRow ==
    ASSUME NEW R, RowsOK(R), NEW x \in Row, x.id = Len(R) + 1, RowShape(x)
    PROVE  RowsOK(Append(R, x)) /\ Grown(R, Append(R, x))
<1>1. R \in Seq(Row)
  BY DEF RowsOK
<1>2. /\ Append(R, x) \in Seq(Row)
      /\ DOMAIN Append(R, x) = DOMAIN R \cup {Len(R) + 1}
      /\ Append(R, x)[Len(R) + 1] = x
      /\ \A i \in DOMAIN R : Append(R, x)[i] = R[i]
  BY <1>1, AppendSeq
<1>3. QED
  BY <1>2 DEF RowsOK, Grown

(* COUNT returns a number. *)
LEMMA CountType ==
    ASSUME CommitmentsOK(commitments, rounds), NEW r
    PROVE  Cardinality(CommitmentsOf(r)) \in Nat /\ Cardinality(RevealedOf(r)) \in Nat
<1>1. IsFiniteSet(DOMAIN commitments)
  BY FS_Interval DEF CommitmentsOK
<1>2. CommitmentsOf(r) \subseteq DOMAIN commitments /\ RevealedOf(r) \subseteq DOMAIN commitments
  BY DEF CommitmentsOf, RevealedOf
<1>3. QED
  BY <1>1, <1>2, FS_Subset, FS_CardinalityType

-----------------------------------------------------------------------------
(* Steps. *)

(* A step of one handler preserves IInv when its new local state is correct. *)
LEMMA StepOK ==
    ASSUME IInv, NEW p \in Handlers, NEW t, Becomes(p, t),
           LocalOK(t, rounds'), RowsOK(rounds'), Grown(rounds, rounds'),
           CommitmentsOK(commitments', rounds'),
           evidences' \in Seq({Evidence(d) : d \in Digests}),
           clock' \in Time, failures' \in 0 .. MaxFailures
    PROVE  IInv'
<1>1. t \in LocalState
  BY DEF LocalOK, BaseOK
<1>2. handler' \in [Handlers -> LocalState]
  BY <1>1 DEF IInv, Becomes
<1>3. ASSUME NEW q \in Handlers
      PROVE  LocalOK(handler'[q], rounds')
  <2>1. CASE q = p
    BY <2>1 DEF IInv, Becomes
  <2>2. CASE q # p
    <3>1. LocalOK(handler[q], rounds) /\ handler'[q] = handler[q]
      BY <2>2 DEF IInv, Becomes
    <3>2. QED
      BY <3>1, LocalGrows
  <2>3. QED
    BY <2>1, <2>2
<1>4. QED
  BY <1>2, <1>3 DEF IInv

(* The same for a step that writes no table. *)
LEMMA ReadStepOK ==
    ASSUME IInv, NEW p \in Handlers, NEW t, Becomes(p, t), OnlyReads, LocalOK(t, rounds)
    PROVE  IInv'
<1>1. Grown(rounds, rounds)
  BY DEF Grown
<1>2. /\ rounds' = rounds /\ commitments' = commitments /\ evidences' = evidences
      /\ clock' = clock /\ failures' = failures
  BY DEF OnlyReads, tables
<1>3. QED
  BY <1>1, <1>2, StepOK DEF IInv

(* What IInv says of one handler, and of the current row of its round. *)
LEMMA HandlerOK ==
    ASSUME IInv, NEW p \in Handlers
    PROVE  /\ LocalOK(handler[p], rounds)
           /\ BaseOK(handler[p], rounds)
           /\ handler[p] \in LocalState
           /\ handler[p].row # None =>
                /\ Copy(handler[p].row, rounds, handler[p].seen)
                /\ handler[p].row.id \in DOMAIN rounds
                /\ Copy(rounds[handler[p].row.id], rounds, handler[p].seen)
  BY FreshCopy DEF IInv, LocalOK, BaseOK, Copy

(* What the client has seen so far is of rounds that reveal. *)
LEMMA ArriveOK ==
    ASSUME IInv, NEW p \in Handlers, NEW req \in Requests, Arrive(p, req)
    PROVE  IInv'
<1> DEFINE t == [Idle EXCEPT !.pc = FirstStep(req), !.req = req, !.now = clock,
                             !.seen = VisibleRounds]
<1>1. \A r \in VisibleRounds : r \in DOMAIN rounds /\ rounds[r].reveal_started_at # None
  BY DEF IInv, CommitmentsOK, VisibleRounds, RevealedOf, CommitmentsOf
<1>2. VisibleRounds \subseteq Nat
  BY <1>1 DEF IInv, RowsOK
<1>3. FirstStep(req) \in {"lookup", "find_round", "find_status", "scan"}
  BY DEF FirstStep
<1>4. t \in LocalState
  BY <1>2, <1>3 DEF IInv, Idle, LocalState, PC, Callers, Replies
<1>5. /\ t.pc = FirstStep(req) /\ t.req = req /\ t.row = None /\ t.todo = {}
      /\ t.seen = VisibleRounds
  BY DEF Idle
<1>6. BaseOK(t, rounds)
  BY <1>1, <1>4, <1>5 DEF BaseOK
<1>7. /\ FirstStep(req) = "lookup" => req \in CommitRequests
      /\ FirstStep(req) = "find_round" => req \in RevealRequests
      /\ FirstStep(req) = "find_status" => req \in StatusRequests
  BY RequestsAssumption DEF FirstStep, Requests, ScrapeRequest
<1>8. LocalOK(t, rounds)
  BY <1>3, <1>5, <1>6, <1>7
  DEF LocalOK, PcOK, CommitPCs, CommitRowPCs, RevealRowPCs, AdvancePCs
<1>9. QED
  BY <1>8, ReadStepOK DEF Arrive

(* Answering frees the slot. *)
LEMMA RespondOK ==
    ASSUME IInv, NEW p \in Handlers, Respond(p)
    PROVE  IInv'
  BY IdleOK, ReadStepOK DEF Respond

(* A request may fail at any statement. *)
LEMMA FailOK ==
    ASSUME IInv, NEW p \in Handlers, Fail(p)
    PROVE  IInv'
<1>1. LocalOK(Reply(handler[p], "internal"), rounds)
  BY HandlerOK, ReplyOK DEF Replies
<1>2. Grown(rounds, rounds)
  BY DEF Grown
<1>3. failures' \in 0 .. MaxFailures
  BY ConstantsAssumption DEF IInv, Fail
<1>4. QED
  BY <1>1, <1>2, <1>3, StepOK DEF IInv, Fail, tables

(* No invariant compares a time with the clock. *)
LEMMA TickOK ==
    ASSUME IInv, Tick
    PROVE  IInv'
  BY DEF IInv, Tick, tables, Time

(* advance_round *)

(* The number of commitments is a number. *)
LEMMA CountCommitsOK ==
    ASSUME IInv, NEW p \in Handlers, CountCommits(p)
    PROVE  IInv'
<1> DEFINE s == handler[p]
           n == Cardinality(CommitmentsOf(s.row.id))
           t == [s EXCEPT !.pc = "count_reveals", !.commits = n]
<1>1. n \in Nat
  BY CountType DEF IInv
<1>2. /\ t \in LocalState /\ t.pc = "count_reveals"
      /\ t.row = s.row /\ t.todo = s.todo /\ t.seen = s.seen /\ t.req = s.req
      /\ t.caller = s.caller
  <2>1. "count_reveals" \in PC
    BY DEF PC
  <2>2. s \in LocalState
    BY HandlerOK
  <2> HIDE DEF n, s
  <2>3. QED
    BY <1>1, <2>1, <2>2 DEF LocalState
<1>3. BaseOK(t, rounds) /\ CallerOK(s)
  BY <1>2, HandlerOK DEF CountCommits, At, BaseOK, LocalOK, PcOK, AdvancePCs
<1>4. LocalOK(t, rounds)
  BY <1>2, <1>3
  DEF LocalOK, PcOK, CallerOK, CommitPCs, CommitRowPCs, RevealRowPCs, AdvancePCs
<1>5. QED
  BY <1>4, ReadStepOK DEF CountCommits

(* A row is only closed when it reveals. *)
LEMMA CountRevealsOK ==
    ASSUME IInv, NEW p \in Handlers, CountReveals(p)
    PROVE  IInv'
<1> DEFINE s == handler[p]
           t == [s EXCEPT !.all_revealed =
                   (s.commits # 0 /\ s.commits = Cardinality(RevealedOf(s.row.id)))]
           u == [t EXCEPT !.pc = "open_reveal"]
<1>1. /\ t \in LocalState
      /\ t.row = s.row /\ t.todo = s.todo /\ t.seen = s.seen /\ t.req = s.req
      /\ t.caller = s.caller
  BY HandlerOK DEF LocalState
<1>2. CallerOK(s)
  BY HandlerOK DEF CountReveals, At, LocalOK, PcOK, AdvancePCs
<1>3. BaseOK(t, rounds) /\ CallerOK(t) /\ Copy(s.row, rounds, t.seen)
  BY <1>1, <1>2, HandlerOK DEF BaseOK, CallerOK
<1>4. LocalOK(CloseOrResume(t, s.row), rounds)
  BY <1>3, CloseOrResumeOK
<1> HIDE DEF t
<1>5. LocalOK(u, rounds)
  <2>1. "open_reveal" \in PC
    BY DEF PC
  <2>2. /\ BaseOK(u, rounds) /\ u.pc = "open_reveal"
        /\ u.row = t.row /\ u.req = t.req /\ u.caller = t.caller
    BY <1>3, <2>1, MoveOK
  <2>3. QED
    BY <1>3, <2>2
    DEF LocalOK, PcOK, CallerOK, CommitPCs, CommitRowPCs, RevealRowPCs, AdvancePCs
<1>6. \E v : Becomes(p, v) /\ LocalOK(v, rounds)
  BY <1>4, <1>5 DEF CountReveals, t
<1>7. QED
  BY <1>6, ReadStepOK DEF CountReveals

(* The deadline starts the reveal phase and writes its end. *)
LEMMA OpenRevealOK ==
    ASSUME IInv, NEW p \in Handlers, OpenReveal(p)
    PROVE  IInv'
<1> DEFINE s == handler[p]
           r == s.row.id
           start == s.row.commit_deadline
           deadline == s.row.commit_deadline + RevealWindow
           old == rounds[r]
           x == Revealing(old, start, deadline)
           t == [s EXCEPT !.pc = "reread"]
<1>1. /\ LocalOK(s, rounds) /\ BaseOK(s, rounds) /\ CallerOK(s)
      /\ r \in DOMAIN rounds /\ s.row \in Row /\ rounds[r] \in Row
      /\ rounds[r].id = r /\ RowShape(rounds[r])
  BY HandlerOK DEF OpenReveal, At, LocalOK, PcOK, AdvancePCs, CallerOK, Copy, IInv, RowsOK
<1>2. x \in Row /\ x.id = r /\ x.reveal_started_at # None /\ RowShape(x)
  <2>1. start \in Nat /\ deadline \in Nat
    BY <1>1, ConstantsAssumption DEF Row, Time
  <2>2. old \in Row /\ old.id = r /\ RowShape(old)
    BY <1>1
  <2> HIDE DEF start, deadline, old
  <2>3. QED
    BY <2>1, <2>2, RevealingRow
<1>3. rounds' = [rounds EXCEPT ![r] = x]
  BY <1>1 DEF OpenReveal, IInv, RowsOK, Revealing
<1>4. RowsOK(rounds') /\ Grown(rounds, rounds')
  BY <1>1, <1>2, <1>3, UpdateRow DEF IInv
<1>5. LocalOK(t, rounds)
  <2>1. "reread" \in PC
    BY DEF PC
  <2>2. /\ BaseOK(t, rounds) /\ t.pc = "reread"
        /\ t.row = s.row /\ t.req = s.req /\ t.caller = s.caller
    BY <1>1, <2>1, MoveOK
  <2>3. QED
    BY <1>1, <2>2
    DEF LocalOK, PcOK, CallerOK, CommitPCs, CommitRowPCs, RevealRowPCs, AdvancePCs
<1>6. LocalOK(t, rounds')
  BY <1>4, <1>5, LocalGrows
<1>7. CommitmentsOK(commitments, rounds')
  BY <1>4, CommitmentsGrow DEF IInv
<1>8. QED
  BY <1>4, <1>6, <1>7, StepOK DEF OpenReveal, IInv

(* The row that was read again is fresh. *)
LEMMA RereadOK ==
    ASSUME IInv, NEW p \in Handlers, Reread(p)
    PROVE  IInv'
<1> DEFINE s == handler[p]
<1>1. BaseOK(s, rounds) /\ CallerOK(s) /\ Copy(rounds[s.row.id], rounds, s.seen)
  BY HandlerOK DEF Reread, At, LocalOK, PcOK, AdvancePCs, CallerOK
<1>2. LocalOK(CloseOrResume(s, rounds[s.row.id]), rounds)
  BY <1>1, CloseOrResumeOK
<1>3. QED
  BY <1>2, ReadStepOK DEF Reread

(* A round that is closed has revealed, also in the table. *)
LEMMA CloseRoundOK ==
    ASSUME IInv, NEW p \in Handlers, CloseRound(p)
    PROVE  IInv'
<1> DEFINE s == handler[p]
           r == s.row.id
           closed_at == IF s.all_revealed THEN s.now ELSE s.row.reveal_deadline
           expired == ~s.all_revealed
           x == [rounds[r] EXCEPT !.closed_at = closed_at, !.expired = expired]
<1>1. /\ LocalOK(s, rounds) /\ BaseOK(s, rounds) /\ CallerOK(s) /\ s \in LocalState
      /\ s.row.reveal_started_at # None /\ Copy(s.row, rounds, s.seen)
  BY HandlerOK DEF CloseRound, At, LocalOK, PcOK, AdvancePCs, CallerOK
<1>2. /\ r \in DOMAIN rounds /\ s.row \in Row /\ rounds[r] \in Row
      /\ rounds[r].id = r /\ RowShape(rounds[r]) /\ rounds[r].reveal_started_at # None
  BY <1>1 DEF Copy, IInv, RowsOK
<1>3. closed_at \in OptTime
  BY <1>1, <1>2 DEF LocalState, Row, OptTime, Time
<1>4. expired \in BOOLEAN
  OBVIOUS
<1> HIDE DEF closed_at, expired
<1>5. x \in Row /\ x.id = r /\ x.reveal_started_at # None /\ RowShape(x)
  <2>1. x \in Row
    BY <1>2, <1>3, <1>4 DEF Row
  <2>2. /\ x.id = rounds[r].id
        /\ x.reveal_started_at = rounds[r].reveal_started_at
        /\ x.reveal_deadline = rounds[r].reveal_deadline
    BY <1>2 DEF Row
  <2>3. QED
    BY <1>2, <2>1, <2>2 DEF RowShape
<1>6. rounds' = [rounds EXCEPT ![r] = x]
  BY <1>2 DEF CloseRound, IInv, RowsOK, closed_at, expired
<1>7. RowsOK(rounds') /\ Grown(rounds, rounds')
  BY <1>2, <1>5, <1>6, UpdateRow DEF IInv
<1>8. LocalOK(ResumeClosed(s), rounds)
  BY <1>1, ResumeClosedOK
<1>9. LocalOK(ResumeClosed(s), rounds')
  BY <1>7, <1>8, LocalGrows
<1>10. CommitmentsOK(commitments, rounds')
  BY <1>7, CommitmentsGrow DEF IInv
<1>11. QED
  BY <1>7, <1>9, <1>10, StepOK DEF CloseRound, IInv

(* commit *)

(* A known digest is of a round that exists. *)
LEMMA LookupDigestOK ==
    ASSUME IInv, NEW p \in Handlers, LookupDigest(p)
    PROVE  IInv'
<1> DEFINE s == handler[p]
<1>1. BaseOK(s, rounds) /\ s.req \in CommitRequests
  BY HandlerOK DEF LookupDigest, At, LocalOK, PcOK, CommitPCs
<1>2. LocalOK([s EXCEPT !.pc = "active"], rounds)
  <2>1. "active" \in PC
    BY DEF PC
  <2>2. QED
    BY <1>1, <2>1, MoveOK
    DEF LocalOK, PcOK, CommitPCs, CommitRowPCs, RevealRowPCs, AdvancePCs
<1>3. ASSUME NEW i \in DOMAIN commitments
      PROVE  LocalOK([s EXCEPT !.pc = "related_round",
                               !.row = rounds[commitments[i].round_id]], rounds)
  <2> DEFINE row == rounds[commitments[i].round_id]
  <2>1. Copy(row, rounds, s.seen) /\ row # None /\ row \in Row
    BY <1>1, FreshCopy, NoneAssumption DEF IInv, CommitmentsOK, Copy
  <2>2. "related_round" \in PC
    BY DEF PC
  <2> HIDE DEF row
  <2> DEFINE u == [s EXCEPT !.pc = "related_round", !.row = row]
  <2>3. /\ u \in LocalState /\ u.pc = "related_round" /\ u.row = row /\ u.req = s.req
        /\ u.todo = s.todo /\ u.seen = s.seen
    BY <1>1, <2>1, <2>2 DEF BaseOK, LocalState
  <2> HIDE DEF u
  <2>4. LocalOK(u, rounds)
    BY <1>1, <2>1, <2>3
    DEF LocalOK, BaseOK, PcOK, CommitPCs, CommitRowPCs, RevealRowPCs, AdvancePCs
  <2>5. QED
    BY <2>4 DEF row, u
<1>4. \E t : Becomes(p, t) /\ LocalOK(t, rounds)
  BY <1>2, <1>3 DEF LookupDigest
<1>5. QED
  BY <1>4, ReadStepOK DEF LookupDigest

(* The round of a known digest is read afresh. *)
LEMMA RelatedRoundOK ==
    ASSUME IInv, NEW p \in Handlers, RelatedRound(p)
    PROVE  IInv'
<1> DEFINE s == handler[p]
           row == rounds[s.row.id]
<1>1. BaseOK(s, rounds) /\ s.req \in CommitRequests /\ Copy(row, rounds, s.seen)
  BY HandlerOK DEF RelatedRound, At, LocalOK, PcOK, CommitRowPCs
<1>2. LocalOK(CallAdvance(s, row, "existing"), rounds)
  BY <1>1, CallAdvanceOK DEF Callers
<1>3. LocalOK([s EXCEPT !.pc = "active", !.row = None], rounds)
  <2> DEFINE u == [s EXCEPT !.pc = "active", !.row = None]
  <2>1. "active" \in PC
    BY DEF PC
  <2>2. /\ u \in LocalState /\ u.pc = "active" /\ u.row = None /\ u.req = s.req
        /\ u.todo = s.todo /\ u.seen = s.seen
    BY <1>1, <2>1 DEF BaseOK, LocalState
  <2> HIDE DEF u
  <2>3. LocalOK(u, rounds)
    BY <1>1, <2>2
    DEF LocalOK, BaseOK, PcOK, CommitPCs, CommitRowPCs, RevealRowPCs, AdvancePCs
  <2>4. QED
    BY <2>3 DEF MovedWith, u
<1>4. \E t : Becomes(p, t) /\ LocalOK(t, rounds)
  BY <1>2, <1>3 DEF RelatedRound
<1>5. QED
  BY <1>4, ReadStepOK DEF RelatedRound

(* The open round of the path is read afresh. *)
LEMMA SelectActiveOK ==
    ASSUME IInv, NEW p \in Handlers, SelectActive(p)
    PROVE  IInv'
<1> DEFINE s == handler[p]
<1>1. BaseOK(s, rounds) /\ s.req \in CommitRequests
  BY HandlerOK DEF SelectActive, At, LocalOK, PcOK, CommitPCs
<1>2. LocalOK([s EXCEPT !.pc = "insert_round"], rounds)
  <2>1. "insert_round" \in PC
    BY DEF PC
  <2>2. QED
    BY <1>1, <2>1, MoveOK
    DEF LocalOK, PcOK, CommitPCs, CommitRowPCs, RevealRowPCs, AdvancePCs
<1>3. ASSUME NEW r \in DOMAIN rounds
      PROVE  LocalOK(CallAdvance(s, rounds[r], "active"), rounds)
  <2>1. Copy(rounds[r], rounds, s.seen)
    BY <1>1, FreshCopy DEF IInv
  <2>2. QED
    BY <1>1, <2>1, CallAdvanceOK DEF Callers
<1>4. \E t : Becomes(p, t) /\ LocalOK(t, rounds)
  BY <1>2, <1>3 DEF SelectActive, OpenRounds
<1>5. QED
  BY <1>4, ReadStepOK DEF SelectActive

(* commit still holds a row that takes commitments. *)
LEMMA SelectMyCommitmentOK ==
    ASSUME IInv, NEW p \in Handlers, SelectMyCommitment(p)
    PROVE  IInv'
<1> DEFINE s == handler[p]
<1>1. BaseOK(s, rounds) /\ s.req \in CommitRequests /\ Copy(s.row, rounds, s.seen)
  BY HandlerOK DEF SelectMyCommitment, At, LocalOK, PcOK, CommitRowPCs
<1>2. LocalOK(JoinOrConflict(s, s.row), rounds)
  BY <1>1, JoinOrConflictOK
<1>3. \A i : LocalOK(RepeatedCommit(s, i), rounds)
  BY <1>1, ReplyOK DEF RepeatedCommit, Replies
<1>4. \E t : Becomes(p, t) /\ LocalOK(t, rounds)
  BY <1>2, <1>3 DEF SelectMyCommitment
<1>5. QED
  BY <1>4, ReadStepOK DEF SelectMyCommitment

(* A new round commits, and nobody has seen anything of it. *)
LEMMA InsertRoundOK ==
    ASSUME IInv, NEW p \in Handlers, InsertRound(p)
    PROVE  IInv'
<1> DEFINE s == handler[p]
           x == NewRound(s)
<1>1. LocalOK(s, rounds) /\ BaseOK(s, rounds) /\ s \in LocalState /\ s.req \in CommitRequests
  BY HandlerOK DEF InsertRound, At, LocalOK, PcOK, CommitPCs
<1>2. CASE rounds' = rounds /\ Becomes(p, [s EXCEPT !.pc = "fetch_open"])
  <2>1. "fetch_open" \in PC
    BY DEF PC
  <2>2. LocalOK([s EXCEPT !.pc = "fetch_open"], rounds)
    BY <1>1, <2>1, MoveOK
    DEF LocalOK, PcOK, CommitPCs, CommitRowPCs, RevealRowPCs, AdvancePCs
  <2>3. OnlyReads
    BY <1>2 DEF InsertRound, OnlyReads, tables
  <2>4. QED
    BY <1>2, <2>2, <2>3, ReadStepOK
<1>3. CASE /\ rounds' = Append(rounds, x)
           /\ Becomes(p, [s EXCEPT !.pc = "fetch_created", !.row = x])
  <2>1. Len(rounds) \in Nat /\ DOMAIN rounds = 1 .. Len(rounds)
    BY DEF IInv, RowsOK
  <2>2. s.now + CommitWindow \in Nat /\ s.req.derivation_path \in Paths
    BY <1>1, ConstantsAssumption, RequestsAssumption DEF LocalState, Time
  <2>3. /\ x \in Row /\ x.id = Len(rounds) + 1 /\ RowShape(x)
        /\ x.reveal_started_at = None
    BY <2>1, <2>2 DEF NewRound, Row, RowShape, Time, OptTime
  <2>4. RowsOK(rounds') /\ Grown(rounds, rounds')
    BY <1>3, <2>3, NewRow DEF IInv
  <2>5. x.id \in DOMAIN rounds' /\ x.id \notin DOMAIN rounds
    BY <1>3, <2>1, <2>3, AppendSeq DEF IInv, RowsOK
  <2>6. BaseOK(s, rounds')
    BY <1>1, <2>4, LocalGrows DEF LocalOK
  <2>7. Copy(x, rounds', s.seen) /\ x # None /\ x \in Row
    BY <1>1, <2>3, <2>5, NoneAssumption DEF Copy, BaseOK
  <2>8. LocalOK([s EXCEPT !.pc = "fetch_created", !.row = x], rounds')
    <3>1. "fetch_created" \in PC
      BY DEF PC
    <3> HIDE DEF x
    <3> DEFINE u == [s EXCEPT !.pc = "fetch_created", !.row = x]
    <3>2. /\ u \in LocalState /\ u.pc = "fetch_created" /\ u.row = x /\ u.req = s.req
          /\ u.todo = s.todo /\ u.seen = s.seen
      BY <2>6, <2>7, <3>1 DEF BaseOK, LocalState
    <3> HIDE DEF u
    <3>3. LocalOK(u, rounds')
      BY <1>1, <2>6, <2>7, <3>2
      DEF LocalOK, BaseOK, PcOK, CommitPCs, CommitRowPCs, RevealRowPCs, AdvancePCs
    <3>4. QED
      BY <3>3 DEF u
  <2>9. CommitmentsOK(commitments, rounds')
    BY <2>4, CommitmentsGrow DEF IInv
  <2>10. QED
    BY <1>3, <2>4, <2>8, <2>9, StepOK DEF InsertRound, IInv
<1>4. QED
  BY <1>2, <1>3 DEF InsertRound

(* The created round is read afresh before it is joined. *)
LEMMA FetchCreatedOK ==
    ASSUME IInv, NEW p \in Handlers, FetchCreated(p)
    PROVE  IInv'
<1> DEFINE s == handler[p]
           row == rounds[s.row.id]
<1>1. BaseOK(s, rounds) /\ s.req \in CommitRequests /\ Copy(row, rounds, s.seen)
  BY HandlerOK DEF FetchCreated, At, LocalOK, PcOK, CommitRowPCs
<1>2. LocalOK(JoinOrConflict(s, row), rounds)
  BY <1>1, JoinOrConflictOK
<1>3. QED
  BY <1>2, ReadStepOK DEF FetchCreated

(* The winner's round is read afresh before it is joined. *)
LEMMA FetchOpenOK ==
    ASSUME IInv, NEW p \in Handlers, FetchOpen(p)
    PROVE  IInv'
<1> DEFINE s == handler[p]
<1>1. BaseOK(s, rounds) /\ s.req \in CommitRequests
  BY HandlerOK DEF FetchOpen, At, LocalOK, PcOK, CommitPCs
<1>2. LocalOK(Reply(s, "internal"), rounds)
  BY <1>1, ReplyOK DEF Replies
<1>3. \A r \in DOMAIN rounds : LocalOK(JoinOrConflict(s, rounds[r]), rounds)
  BY <1>1, FreshCopy, JoinOrConflictOK DEF IInv
<1>4. \E t : Becomes(p, t) /\ LocalOK(t, rounds)
  BY <1>2, <1>3 DEF FetchOpen, OpenRounds
<1>5. QED
  BY <1>4, ReadStepOK DEF FetchOpen

(* A new commitment has no evidence. *)
LEMMA InsertCommitmentOK ==
    ASSUME IInv, NEW p \in Handlers, InsertCommitment(p)
    PROVE  IInv'
<1> DEFINE s == handler[p]
           c == [round_id |-> s.row.id, builder_id |-> s.req.builder_id,
                 digest |-> s.req.digest, evidence_id |-> None]
           t == [s EXCEPT !.pc = "threshold"]
<1>1. /\ BaseOK(s, rounds) /\ s.req \in CommitRequests /\ s.row # None
      /\ Copy(s.row, rounds, s.seen)
  BY HandlerOK DEF InsertCommitment, At, LocalOK, PcOK, CommitRowPCs
<1>2. CASE UNCHANGED commitments /\ \E i : Becomes(p, RepeatedCommit(s, i))
  <2>1. \A i : LocalOK(RepeatedCommit(s, i), rounds)
    BY <1>1, ReplyOK DEF RepeatedCommit, Replies
  <2>2. OnlyReads
    BY <1>2 DEF InsertCommitment, OnlyReads, tables
  <2>3. QED
    BY <1>2, <2>1, <2>2, ReadStepOK
<1>3. CASE commitments' = Append(commitments, c) /\ Becomes(p, t)
  <2>1. s.row.id \in DOMAIN rounds /\ s.row.id \in Nat
    BY <1>1 DEF Copy, Row
  <2>2. c \in Commitment
    BY <1>1, <2>1, RequestsAssumption DEF Commitment
  <2>3. CommitmentsOK(commitments', rounds)
    <3>1. commitments \in Seq(Commitment)
      BY DEF IInv, CommitmentsOK
    <3>2. /\ Append(commitments, c) \in Seq(Commitment)
          /\ DOMAIN Append(commitments, c) = DOMAIN commitments \cup {Len(commitments) + 1}
          /\ Append(commitments, c)[Len(commitments) + 1] = c
          /\ \A i \in DOMAIN commitments : Append(commitments, c)[i] = commitments[i]
      BY <2>2, <3>1, AppendSeq
    <3>3. c.round_id \in DOMAIN rounds /\ c.evidence_id = None
      BY <2>1
    <3> HIDE DEF c
    <3>4. QED
      BY <1>3, <3>2, <3>3 DEF IInv, CommitmentsOK
  <2>4. LocalOK(t, rounds)
    <3>1. "threshold" \in PC
      BY DEF PC
    <3>2. BaseOK(t, rounds) /\ t.pc = "threshold" /\ t.row = s.row /\ t.req = s.req
      BY <1>1, <3>1, MoveOK
    <3>3. QED
      BY <1>1, <3>2
      DEF LocalOK, PcOK, CommitPCs, CommitRowPCs, RevealRowPCs, AdvancePCs
  <2>5. rounds' = rounds /\ Grown(rounds, rounds)
    BY DEF InsertCommitment, Grown
  <2>6. QED
    BY <1>3, <2>3, <2>4, <2>5, StepOK DEF InsertCommitment, IInv
<1>4. QED
  BY <1>2, <1>3 DEF InsertCommitment

(* Counting for the threshold. *)
LEMMA CountThresholdOK ==
    ASSUME IInv, NEW p \in Handlers, CountThreshold(p)
    PROVE  IInv'
<1> DEFINE s == handler[p]
           t == [s EXCEPT !.pc = "start_reveal"]
<1>1. BaseOK(s, rounds) /\ s.req \in CommitRequests /\ s.row # None
  BY HandlerOK DEF CountThreshold, At, LocalOK, PcOK, CommitRowPCs
<1>2. LocalOK(t, rounds)
  <2>1. "start_reveal" \in PC
    BY DEF PC
  <2>2. BaseOK(t, rounds) /\ t.pc = "start_reveal" /\ t.row = s.row /\ t.req = s.req
    BY <1>1, <2>1, MoveOK
  <2>3. QED
    BY <1>1, <2>2
    DEF LocalOK, PcOK, CommitPCs, CommitRowPCs, RevealRowPCs, AdvancePCs
<1>3. LocalOK(Reply(s, "created"), rounds)
  BY <1>1, ReplyOK DEF Replies
<1>4. \E u : Becomes(p, u) /\ LocalOK(u, rounds)
  BY <1>2, <1>3 DEF CountThreshold
<1>5. QED
  BY <1>4, ReadStepOK DEF CountThreshold

(* The threshold starts the reveal phase and writes its end. *)
LEMMA StartRevealOK ==
    ASSUME IInv, NEW p \in Handlers, StartReveal(p)
    PROVE  IInv'
<1> DEFINE s == handler[p]
           r == s.row.id
           start == s.now
           deadline == s.now + RevealWindow
           old == rounds[r]
           x == Revealing(old, start, deadline)
           t == [s EXCEPT !.pc = "reread_joined"]
<1>1. /\ BaseOK(s, rounds) /\ s \in LocalState /\ s.req \in CommitRequests /\ s.row # None
      /\ r \in DOMAIN rounds /\ rounds[r] \in Row
      /\ rounds[r].id = r /\ RowShape(rounds[r])
  BY HandlerOK DEF StartReveal, At, LocalOK, PcOK, CommitRowPCs, Copy, IInv, RowsOK
<1>2. x \in Row /\ x.id = r /\ x.reveal_started_at # None /\ RowShape(x)
  <2>1. start \in Nat /\ deadline \in Nat
    BY <1>1, ConstantsAssumption DEF LocalState, Time
  <2>2. old \in Row /\ old.id = r /\ RowShape(old)
    BY <1>1
  <2> HIDE DEF start, deadline, old
  <2>3. QED
    BY <2>1, <2>2, RevealingRow
<1>3. rounds' = [rounds EXCEPT ![r] = x]
  BY <1>1 DEF StartReveal, IInv, RowsOK, Revealing
<1>4. RowsOK(rounds') /\ Grown(rounds, rounds')
  BY <1>1, <1>2, <1>3, UpdateRow DEF IInv
<1>5. LocalOK(t, rounds)
  <2>1. "reread_joined" \in PC
    BY DEF PC
  <2>2. BaseOK(t, rounds) /\ t.pc = "reread_joined" /\ t.row = s.row /\ t.req = s.req
    BY <1>1, <2>1, MoveOK
  <2>3. QED
    BY <1>1, <2>2
    DEF LocalOK, PcOK, CommitPCs, CommitRowPCs, RevealRowPCs, AdvancePCs
<1>6. LocalOK(t, rounds')
  BY <1>4, <1>5, LocalGrows
<1>7. CommitmentsOK(commitments, rounds')
  BY <1>4, CommitmentsGrow DEF IInv
<1>8. QED
  BY <1>4, <1>6, <1>7, StepOK DEF StartReveal, IInv

(* The receipt carries a fresh row. *)
LEMMA RereadJoinedOK ==
    ASSUME IInv, NEW p \in Handlers, RereadJoined(p)
    PROVE  IInv'
<1> DEFINE s == handler[p]
           row == rounds[s.row.id]
           t == [s EXCEPT !.row = row]
<1>1. BaseOK(s, rounds) /\ Copy(row, rounds, s.seen) /\ row \in Row
  BY HandlerOK DEF RereadJoined, At, LocalOK, PcOK, CommitRowPCs, Copy
<1> HIDE DEF row
<1>2. /\ t \in LocalState /\ t.row = row /\ t.todo = s.todo /\ t.seen = s.seen
  BY <1>1 DEF BaseOK, LocalState
<1>3. BaseOK(t, rounds)
  BY <1>1, <1>2 DEF BaseOK
<1>4. LocalOK(Reply(t, "created"), rounds)
  BY <1>3, ReplyOK DEF Replies
<1>5. QED
  BY <1>4, ReadStepOK DEF RereadJoined, row

(* reveal *)

(* reveal reads the round afresh. *)
LEMMA FindRoundOK ==
    ASSUME IInv, NEW p \in Handlers, FindRound(p)
    PROVE  IInv'
<1> DEFINE s == handler[p]
           r == s.req.round_id
<1>1. BaseOK(s, rounds) /\ s.req \in RevealRequests
  BY HandlerOK DEF FindRound, At, LocalOK, PcOK
<1>2. LocalOK(Reply(s, "not_found"), rounds) /\ LocalOK(Reply(s, "conflict"), rounds)
  BY <1>1, ReplyOK DEF Replies
<1>3. ASSUME r \in DOMAIN rounds
      PROVE  LocalOK([s EXCEPT !.pc = "find_commitment", !.row = rounds[r]], rounds)
  <2> DEFINE row == rounds[r]
  <2>1. Copy(row, rounds, s.seen) /\ row # None /\ row \in Row
    BY <1>1, <1>3, FreshCopy, NoneAssumption DEF IInv, Copy
  <2>2. "find_commitment" \in PC
    BY DEF PC
  <2> HIDE DEF row
  <2> DEFINE u == [s EXCEPT !.pc = "find_commitment", !.row = row]
  <2>3. /\ u \in LocalState /\ u.pc = "find_commitment" /\ u.row = row /\ u.req = s.req
        /\ u.todo = s.todo /\ u.seen = s.seen
    BY <1>1, <2>1, <2>2 DEF BaseOK, LocalState
  <2> HIDE DEF u
  <2>4. LocalOK(u, rounds)
    BY <1>1, <2>1, <2>3
    DEF LocalOK, BaseOK, PcOK, CommitPCs, CommitRowPCs, RevealRowPCs, AdvancePCs
  <2>5. QED
    BY <2>4 DEF row, u
<1>4. \E t : Becomes(p, t) /\ LocalOK(t, rounds)
  BY <1>2, <1>3 DEF FindRound
<1>5. QED
  BY <1>4, ReadStepOK DEF FindRound

(* reveal calls advance_round with the row it read. *)
LEMMA FindCommitmentOK ==
    ASSUME IInv, NEW p \in Handlers, FindCommitment(p)
    PROVE  IInv'
<1> DEFINE s == handler[p]
<1>1. BaseOK(s, rounds) /\ s.req \in RevealRequests /\ Copy(s.row, rounds, s.seen)
  BY HandlerOK DEF FindCommitment, At, LocalOK, PcOK, RevealRowPCs
<1>2. \A status \in Replies : LocalOK(Reply(s, status), rounds)
  BY <1>1, ReplyOK
<1>3. LocalOK(CallAdvance(s, s.row, "reveal"), rounds)
  BY <1>1, CallAdvanceOK DEF Callers
<1>4. \E t : Becomes(p, t) /\ LocalOK(t, rounds)
  BY <1>2, <1>3 DEF FindCommitment, Replies
<1>5. QED
  BY <1>4, ReadStepOK DEF FindCommitment

(* Evidence is only stored for a round that reveals, however stale the copy is. *)
LEMMA StoreEvidenceOK ==
    ASSUME IInv, NEW p \in Handlers, StoreEvidence(p)
    PROVE  IInv'
<1> DEFINE s == handler[p]
           t == [s EXCEPT !.pc = "after_store"]
<1>1. /\ BaseOK(s, rounds) /\ s.req \in RevealRequests /\ s.row # None
      /\ Copy(s.row, rounds, s.seen) /\ s.row.reveal_started_at # None
  BY HandlerOK DEF StoreEvidence, At, LocalOK, PcOK, RevealRowPCs
<1>2. PICK i \in ByBuilder(s.row.id, Evidence(s.req.opening).builder_id) :
         \/ Becomes(p, Reply(s, "ok")) /\ UNCHANGED <<commitments, evidences>>
         \/ /\ evidences' = Append(evidences, Evidence(s.req.opening))
            /\ commitments' = [commitments EXCEPT ![i].evidence_id = Len(evidences) + 1]
            /\ Becomes(p, t)
  BY DEF StoreEvidence
<1>3. rounds' = rounds /\ clock' = clock /\ failures' = failures
  BY DEF StoreEvidence
<1>4. CASE Becomes(p, Reply(s, "ok")) /\ UNCHANGED <<commitments, evidences>>
  <2>1. LocalOK(Reply(s, "ok"), rounds)
    BY <1>1, ReplyOK DEF Replies
  <2>2. QED
    BY <1>3, <1>4, <2>1, ReadStepOK DEF OnlyReads, tables
<1>5. CASE /\ evidences' = Append(evidences, Evidence(s.req.opening))
           /\ commitments' = [commitments EXCEPT ![i].evidence_id = Len(evidences) + 1]
           /\ Becomes(p, t)
  <2>1. /\ i \in DOMAIN commitments /\ commitments[i].round_id = s.row.id
        /\ commitments \in Seq(Commitment)
    BY DEF ByBuilder, CommitmentsOf, IInv, CommitmentsOK
  <2> DEFINE e == Len(evidences) + 1
             c == [commitments[i] EXCEPT !.evidence_id = e]
  <2>2. e \in Nat /\ commitments[i] \in Commitment
    BY <2>1 DEF IInv
  <2> HIDE DEF e
  <2>3. c \in Commitment /\ c.round_id = s.row.id
    BY <2>1, <2>2 DEF Commitment
  <2> HIDE DEF c
  <2>4. commitments' = [commitments EXCEPT ![i] = c]
    BY <1>5, <2>1 DEF c, e
  <2>5. CommitmentsOK(commitments', rounds)
    <3>1. rounds[s.row.id].reveal_started_at # None /\ s.row.id \in DOMAIN rounds
      BY <1>1 DEF Copy
    <3>2. commitments' \in Seq(Commitment) /\ DOMAIN commitments' = DOMAIN commitments
      BY <2>1, <2>3, <2>4, ExceptSeq
    <3>3. \A j \in DOMAIN commitments : commitments'[j] = IF j = i THEN c ELSE commitments[j]
      BY <2>1, <2>4
    <3>4. QED
      BY <2>3, <3>1, <3>2, <3>3 DEF CommitmentsOK, IInv
  <2>6. evidences' \in Seq({Evidence(d) : d \in Digests})
    <3> DEFINE S == {Evidence(d) : d \in Digests}
               v == Evidence(s.req.opening)
    <3>1. v \in S /\ evidences \in Seq(S)
      BY <1>1, RequestsAssumption DEF IInv
    <3> HIDE DEF S, v
    <3>2. Append(evidences, v) \in Seq(S)
      BY <3>1, AppendSeq
    <3>3. QED
      BY <1>5, <3>2 DEF S, v
  <2>7. LocalOK(t, rounds)
    <3>1. "after_store" \in PC
      BY DEF PC
    <3>2. BaseOK(t, rounds) /\ t.pc = "after_store" /\ t.row = s.row /\ t.req = s.req
      BY <1>1, <3>1, MoveOK
    <3>3. QED
      BY <1>1, <3>2
      DEF LocalOK, PcOK, CommitPCs, CommitRowPCs, RevealRowPCs, AdvancePCs
  <2>8. Grown(rounds, rounds)
    BY DEF Grown
  <2>9. QED
    BY <1>3, <1>5, <2>5, <2>6, <2>7, <2>8, StepOK DEF IInv
<1>6. QED
  BY <1>2, <1>4, <1>5

(* reveal reads the round afresh and calls advance_round. *)
LEMMA AfterStoreOK ==
    ASSUME IInv, NEW p \in Handlers, AfterStore(p)
    PROVE  IInv'
<1> DEFINE s == handler[p]
<1>1. /\ BaseOK(s, rounds) /\ s.req \in RevealRequests
      /\ Copy(rounds[s.row.id], rounds, s.seen)
  BY HandlerOK DEF AfterStore, At, LocalOK, PcOK, RevealRowPCs
<1>2. LocalOK(CallAdvance(s, rounds[s.row.id], "after"), rounds)
  BY <1>1, CallAdvanceOK DEF Callers
<1>3. QED
  BY <1>2, ReadStepOK DEF AfterStore

(* round_status and metrics_snapshot *)

(* round_status reads the round afresh. *)
LEMMA FindStatusOK ==
    ASSUME IInv, NEW p \in Handlers, FindStatus(p)
    PROVE  IInv'
<1> DEFINE s == handler[p]
           r == s.req.round_id
<1>1. BaseOK(s, rounds)
  BY HandlerOK
<1>2. LocalOK(Reply(s, "not_found"), rounds)
  BY <1>1, ReplyOK DEF Replies
<1>3. ASSUME r \in DOMAIN rounds
      PROVE  LocalOK([s EXCEPT !.pc = "status_at", !.row = rounds[r]], rounds)
  <2> DEFINE row == rounds[r]
  <2>1. Copy(row, rounds, s.seen) /\ row # None /\ row \in Row
    BY <1>1, <1>3, FreshCopy, NoneAssumption DEF IInv, Copy
  <2>2. "status_at" \in PC
    BY DEF PC
  <2> HIDE DEF row
  <2> DEFINE u == [s EXCEPT !.pc = "status_at", !.row = row]
  <2>3. /\ u \in LocalState /\ u.pc = "status_at" /\ u.row = row /\ u.req = s.req
        /\ u.todo = s.todo /\ u.seen = s.seen
    BY <1>1, <2>1, <2>2 DEF BaseOK, LocalState
  <2> HIDE DEF u
  <2>4. LocalOK(u, rounds)
    BY <1>1, <2>1, <2>3
    DEF LocalOK, BaseOK, PcOK, CommitPCs, CommitRowPCs, RevealRowPCs, AdvancePCs
  <2>5. QED
    BY <2>4 DEF row, u
<1>4. \E t : Becomes(p, t) /\ LocalOK(t, rounds)
  BY <1>2, <1>3 DEF FindStatus
<1>5. QED
  BY <1>4, ReadStepOK DEF FindStatus

(* Taking the time changes no copy of a row. *)
LEMMA StatusAtOK ==
    ASSUME IInv, NEW p \in Handlers, StatusAt(p)
    PROVE  IInv'
<1> DEFINE s == handler[p]
           t == [s EXCEPT !.now = clock]
<1>1. BaseOK(s, rounds) /\ Copy(s.row, rounds, s.seen)
  BY HandlerOK DEF StatusAt, At, LocalOK, PcOK
<1>2. /\ t \in LocalState /\ t.row = s.row /\ t.todo = s.todo /\ t.seen = s.seen
      /\ t.req = s.req
  BY <1>1 DEF IInv, BaseOK, LocalState
<1>3. BaseOK(t, rounds) /\ Copy(s.row, rounds, t.seen)
  BY <1>1, <1>2 DEF BaseOK
<1> HIDE DEF t
<1>4. LocalOK(CallAdvance(t, s.row, "status"), rounds)
  BY <1>3, CallAdvanceOK DEF Callers
<1>5. LocalOK(CallAdvance(t, t.row, "status"), rounds)
  BY <1>2, <1>4
<1>6. QED
  BY <1>5, ReadStepOK DEF StatusAt, t

(* The status of a closed round is read afresh. *)
LEMMA ReloadStatusOK ==
    ASSUME IInv, NEW p \in Handlers, ReloadStatus(p)
    PROVE  IInv'
<1> DEFINE s == handler[p]
           row == rounds[s.row.id]
           t == [s EXCEPT !.row = row]
<1>1. BaseOK(s, rounds) /\ Copy(row, rounds, s.seen) /\ row \in Row
  BY HandlerOK DEF ReloadStatus, At, LocalOK, PcOK, Copy
<1> HIDE DEF row
<1>2. /\ t \in LocalState /\ t.row = row /\ t.todo = s.todo /\ t.seen = s.seen
  BY <1>1 DEF BaseOK, LocalState
<1>3. BaseOK(t, rounds)
  BY <1>1, <1>2 DEF BaseOK
<1>4. LocalOK(Reply(t, "ok"), rounds)
  BY <1>3, ReplyOK DEF Replies
<1>5. QED
  BY <1>4, ReadStepOK DEF ReloadStatus, row

(* All copies a scrape takes are fresh. *)
LEMMA ScanOpenOK ==
    ASSUME IInv, NEW p \in Handlers, ScanOpen(p)
    PROVE  IInv'
<1> DEFINE s == handler[p]
           todo == {rounds[r] : r \in {q \in DOMAIN rounds : rounds[q].closed_at = None}}
           t == [s EXCEPT !.pc = "next_open", !.todo = todo]
<1>1. BaseOK(s, rounds)
  BY HandlerOK
<1>2. \A row \in todo : Copy(row, rounds, s.seen)
  BY <1>1, FreshCopy DEF IInv
<1>3. todo \subseteq Row
  BY <1>2 DEF Copy
<1> HIDE DEF todo
<1>4. /\ t \in LocalState /\ t.pc = "next_open" /\ t.row = s.row /\ t.todo = todo
      /\ t.seen = s.seen
  BY <1>1, <1>3 DEF BaseOK, LocalState, PC
<1> HIDE DEF t
<1>5. LocalOK(t, rounds)
  BY <1>1, <1>2, <1>4
  DEF LocalOK, BaseOK, PcOK, CommitPCs, CommitRowPCs, RevealRowPCs, AdvancePCs
<1>6. QED
  BY <1>5, ReadStepOK DEF ScanOpen, todo, t

(* A scrape advances one of its copies. *)
LEMMA NextOpenOK ==
    ASSUME IInv, NEW p \in Handlers, NextOpen(p)
    PROVE  IInv'
<1> DEFINE s == handler[p]
<1>1. BaseOK(s, rounds)
  BY HandlerOK
<1>2. LocalOK(Reply(s, "ok"), rounds)
  BY <1>1, ReplyOK DEF Replies
<1>3. ASSUME NEW row \in s.todo
      PROVE  LocalOK(CallAdvance([s EXCEPT !.todo = @ \ {row}], row, "scrape"), rounds)
  <2> DEFINE t == [s EXCEPT !.todo = @ \ {row}]
  <2>1. /\ t \in LocalState /\ t.row = s.row /\ t.todo = s.todo \ {row}
        /\ t.seen = s.seen
    BY <1>1 DEF BaseOK, LocalState
  <2> HIDE DEF t
  <2>2. BaseOK(t, rounds) /\ Copy(row, rounds, t.seen)
    BY <1>1, <1>3, <2>1 DEF BaseOK
  <2>3. LocalOK(CallAdvance(t, row, "scrape"), rounds)
    BY <2>2, CallAdvanceOK DEF Callers
  <2>4. QED
    BY <2>3 DEF t
<1>4. \E t : Becomes(p, t) /\ LocalOK(t, rounds)
  BY <1>2, <1>3 DEF NextOpen
<1>5. QED
  BY <1>4, ReadStepOK DEF NextOpen

-----------------------------------------------------------------------------
(* The theorems. *)

(* Empty tables and idle slots. *)
LEMMA InitOK ==
    Init => IInv
<1> SUFFICES ASSUME Init PROVE IInv
  OBVIOUS
<1>1. \A p \in Handlers : LocalOK(handler[p], rounds) /\ handler[p] = Idle
  BY IdleOK DEF Init
<1>2. handler \in [Handlers -> LocalState]
  BY <1>1 DEF Init, LocalOK, BaseOK
<1>3. QED
  BY <1>1, <1>2, ConstantsAssumption DEF Init, IInv, RowsOK, CommitmentsOK, Time

(* Every disjunct of Next has its lemma above. *)
LEMMA NextOK ==
    IInv /\ [Next]_vars => IInv'
<1> SUFFICES ASSUME IInv, [Next]_vars PROVE IInv'
  OBVIOUS
<1>1. CASE UNCHANGED vars
  BY <1>1 DEF vars, IInv
<1>2. CASE Tick
  BY <1>2, TickOK
<1>3. ASSUME NEW p \in Handlers, NEW req \in Requests, Arrive(p, req)
      PROVE  IInv'
  BY <1>3, ArriveOK
<1>4. ASSUME NEW p \in Handlers, Fail(p)
      PROVE  IInv'
  BY <1>4, FailOK
<1>5. ASSUME NEW p \in Handlers, Step(p)
      PROVE  IInv'
  <2>1. CASE Commit(p)
    BY <2>1, LookupDigestOK, RelatedRoundOK, SelectActiveOK, SelectMyCommitmentOK,
       InsertRoundOK, FetchCreatedOK, FetchOpenOK, InsertCommitmentOK, CountThresholdOK,
       StartRevealOK, RereadJoinedOK
    DEF Commit
  <2>2. CASE Reveal(p)
    BY <2>2, FindRoundOK, FindCommitmentOK, StoreEvidenceOK, AfterStoreOK DEF Reveal
  <2>3. CASE Poll(p)
    BY <2>3, FindStatusOK, StatusAtOK, ReloadStatusOK, ScanOpenOK, NextOpenOK DEF Poll
  <2>4. CASE Advance(p)
    BY <2>4, CountCommitsOK, CountRevealsOK, OpenRevealOK, RereadOK, CloseRoundOK
    DEF Advance
  <2>5. CASE Respond(p)
    BY <2>5, RespondOK
  <2>6. QED
    BY <1>5, <2>1, <2>2, <2>3, <2>4, <2>5 DEF Step
<1>6. QED
  BY <1>1, <1>2, <1>3, <1>4, <1>5 DEF Next

(* IInv is inductive: it holds initially and every statement of every      *)
(* handler preserves it.                                                   *)
THEOREM Invariance == Spec => []IInv
  BY InitOK, NextOK, PTL DEF Spec

(* Type correctness of the tables and of every handler; a round that       *)
(* reveals always has the deadline that advance_round will ask for.        *)
THEOREM TypeCorrect == Spec => []TypeOK
<1>1. IInv => TypeOK
  BY DEF IInv, RowsOK, CommitmentsOK, TypeOK
<1>2. QED
  BY <1>1, Invariance, PTL

(* No evidence of a round is readable while the round takes commitments    *)
(* (GET /v1/evidence), whatever reveal had read when it stored it.         *)
THEOREM Sealed == Spec => []SealedUntilReveal
<1>1. IInv => SealedUntilReveal
  BY DEF IInv, CommitmentsOK, SealedUntilReveal, VisibleRounds, RevealedOf, CommitmentsOf
<1>2. QED
  BY <1>1, Invariance, PTL

(* commit-reveal itself: whoever gets a digest into a round sent it before *)
(* any evidence of that round could be read.                               *)
THEOREM Blind == Spec => []NoPeeking
<1>1. IInv => NoPeeking
  <2> SUFFICES ASSUME IInv, NEW p \in Handlers, At(p, "insert_commitment")
               PROVE  handler[p].row.id \notin handler[p].seen
    BY DEF NoPeeking
  <2>1. handler[p].row # None /\ handler[p].row.reveal_started_at = None
    BY HandlerOK DEF At, LocalOK, PcOK, CommitRowPCs
  <2>2. QED
    BY <2>1, HandlerOK DEF Copy
<1>2. QED
  BY <1>1, Invariance, PTL

=============================================================================
