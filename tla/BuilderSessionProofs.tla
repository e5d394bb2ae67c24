------------------------ MODULE BuilderSessionProofs ------------------------
(***************************************************************************)
(* Proofs about BuilderSession, for every set of builders and slots, every *)
(* window and bound.                                                       *)
(*                                                                         *)
(* The argument: the registry that the sessions call is that of RoundStore *)
(* (SessionsUseStore), so its invariants hold, and what it answers is      *)
(* true.  A session reads answers to its own calls only, since no two      *)
(* sessions wait for one slot; and what an answer says of a round, that it *)
(* exists, that the evidence is stored in it or that it has closed, stays  *)
(* true.  As long as nothing fails, every request in the server is one     *)
(* that a session waits for: so evidence is stored only while its builder  *)
(* waits for the reveal, which then answers 201, and the session never     *)
(* leaves that round.                                                      *)
(***************************************************************************)
EXTENDS BuilderSession, RoundTablesProofs

(* The requests that RoundStore is given include all that sessions make.   *)
SessionsMayCall ==
    /\ \A b \in Builders : \A n \in 1 .. MaxNonces :
         /\ Opening(b, n) \in Digests
         /\ [op |-> "commit", builder_id |-> b, derivation_path |-> Derivation,
             digest |-> Opening(b, n)] \in CommitRequests
         /\ \A r \in Nat : [op |-> "reveal", round_id |-> r,
                            opening |-> Opening(b, n)] \in RevealRequests
    /\ \A r \in Nat : [op |-> "status", round_id |-> r] \in StatusRequests

(* Evidence e is stored for round r. *)
Stored(C, r, e) ==
    \E i \in DOMAIN C : /\ C[i].round_id = r /\ Evidence(C[i].digest) = e
                        /\ C[i].evidence_id # None

(* What a handler that serves a poll knows of the round. *)
PollPCs == {"find_status", "status_at", "reload_status", "reply"}

Polled(s, R) ==
    s.req \in StatusRequests =>
      /\ s.pc \in PollPCs \cup AdvancePCs
      /\ s.pc \in AdvancePCs => s.caller = "status"
      /\ s.pc \notin {"find_status", "reply"} \/ s.reply = "ok" =>
           /\ s.row # None /\ s.row.id = s.req.round_id
           /\ s.row.closed_at # None => R[s.row.id].closed_at # None

(* The handler has stored the evidence of its reveal and will say so. *)
Past(s) ==
    \/ s.pc = "after_store"
    \/ s.pc \in AdvancePCs /\ s.caller = "after"
    \/ s.pc = "reply" /\ s.reply = "created"

Joined == {"poll", "reveal", "close", "facts", "done"}

(* A session, in rounds R with commitments C. *)
SessionOK(b, s, R, C) ==
    /\ s \in Session /\ s.nonce \in 0 .. MaxNonces
    /\ s.pc \notin {"draw", "failed"} => s.nonce \in 1 .. MaxNonces
    /\ s.pc \in Joined => s.round \in DOMAIN R
    /\ s.pc \in {"close", "facts", "done"} => Published(C, s.round, b, Opening(b, s.nonce))
    /\ s.pc \in {"facts", "done"} => R[s.round].closed_at # None
    /\ s.pc = "done" => /\ EvidenceOf(b) \in s.facts
                        /\ \A e \in s.facts : Stored(C, s.round, e)

(* A session that waits for a slot has its call there, and alone waits.    *)
WaitingOK ==
    /\ waiting \in [Builders -> Handlers \cup {None}]
    /\ \A b \in Builders : waiting[b] # None =>
         /\ Calls(b)
         /\ handler[waiting[b]].req = CallOf(b)
         /\ handler[waiting[b]].pc # "idle"
    /\ \A b, c \in Builders : waiting[b] # None /\ waiting[b] = waiting[c] => b = c

(* Nothing has failed: every request is waited for, and evidence is stored *)
(* in the one round that its session is in.                                *)
Settles(b, r) ==
    /\ session[b].round = r
    /\ \/ session[b].pc \in {"close", "facts", "done", "failed"}
       \/ session[b].pc = "reveal" /\ waiting[b] # None /\ Past(handler[waiting[b]])

Unfailing ==
    /\ late = {}
    /\ \A p \in Handlers : handler[p].pc # "idle" => \E b \in Builders : waiting[b] = p
    /\ \A b \in Builders : \A r \in Nat :
         Stored(commitments, r, EvidenceOf(b)) => Settles(b, r)

SInv ==
    /\ session \in [Builders -> Session]
    /\ \A b \in Builders : SessionOK(b, session[b], rounds, commitments)
    /\ \A p \in Handlers : Polled(handler[p], rounds)
    /\ WaitingOK
    /\ late \subseteq Requests
    /\ losses \in 0 .. MaxLosses
    /\ losses = 0 /\ failures = 0 => Unfailing

-----------------------------------------------------------------------------
(* Where a handler goes. *)

(* It goes on with its request. *)
Goes(s, t) == t.req = s.req /\ t.pc # "idle"

(* What advance_round knows of the row that it is to return to a poll. *)
PolledRow(req, caller, row, R) ==
    req \in StatusRequests =>
      /\ caller = "status" /\ row # None /\ row.id = req.round_id
      /\ row.closed_at # None => R[row.id].closed_at # None

(* The fields of an answer. *)
LEMMA ReplyFields ==
    ASSUME NEW s, NEW status
    PROVE  /\ Reply(s, status).pc = "reply" /\ Reply(s, status).req = s.req
           /\ Reply(s, status).row = s.row /\ Reply(s, status).reply = status
  BY DEF Reply, Idle

(* advance_round returns the row of an open round. *)
LEMMA ResumeOpenGoes ==
    ASSUME NEW R, NEW s \in LocalState, NEW row, PolledRow(s.req, s.caller, row, R)
    PROVE  LET t == ResumeOpen(s, row) IN
           Goes(s, t) /\ (s.caller = "after" => Past(t)) /\ Polled(t, R)
<1> DEFINE u == [Returned(s) EXCEPT !.row = row]
           t == ResumeOpen(s, row)
<1>1. u.row = row /\ u.req = s.req
  BY DEF Returned, LocalState
<1>2. \A pc : /\ [u EXCEPT !.pc = pc].pc = pc /\ [u EXCEPT !.pc = pc].req = s.req
              /\ [u EXCEPT !.pc = pc, !.row = None].pc = pc
              /\ [u EXCEPT !.pc = pc, !.row = None].req = s.req
  BY DEF Returned, LocalState
<1> HIDE DEF u
<1>3. \A status : /\ Reply(u, status).pc = "reply" /\ Reply(u, status).req = s.req
                  /\ Reply(u, status).row = row /\ Reply(u, status).reply = status
  BY <1>1, ReplyFields
<1>4. CASE s.caller = "after"
  <2>1. t = Reply(u, "created")
    BY <1>4 DEF ResumeOpen, u
  <2>2. s.req \notin StatusRequests
    BY <1>4 DEF PolledRow
  <2>3. QED
    BY <1>3, <2>1, <2>2 DEF Goes, Past, Polled
<1>5. CASE s.caller = "status"
  <2>1. t = Reply(u, "ok")
    BY <1>5 DEF ResumeOpen, u
  <2> HIDE DEF t
  <2>2. Goes(s, t) /\ Polled(t, R)
    BY <1>3, <2>1 DEF Goes, Polled, PollPCs, PolledRow, AdvancePCs
  <2>3. QED
    BY <1>5, <2>2 DEF t
<1>6. CASE s.caller \notin {"after", "status"}
  <2>1. s.req \notin StatusRequests
    BY <1>6 DEF PolledRow
  <2>2. \/ \E status : t = Reply(u, status)
        \/ \E pc \in {"my_commitment", "store"} : t = [u EXCEPT !.pc = pc]
        \/ t = [u EXCEPT !.pc = "next_open", !.row = None]
    BY <1>6 DEF ResumeOpen, u
  <2>3. Goes(s, t)
    BY <1>2, <1>3, <2>2 DEF Goes
  <2>4. QED
    BY <1>6, <2>1, <2>3 DEF Goes, Polled
<1>7. QED
  BY <1>4, <1>5, <1>6

(* advance_round returns without a row. *)
LEMMA ResumeClosedGoes ==
    ASSUME NEW R, NEW s \in LocalState, PolledRow(s.req, s.caller, s.row, R)
    PROVE  LET t == ResumeClosed(s) IN
           Goes(s, t) /\ (s.caller = "after" => Past(t)) /\ Polled(t, R)
<1> DEFINE u == Returned(s)
           t == ResumeClosed(s)
<1>1. u.row = s.row /\ u.req = s.req
  BY DEF Returned, LocalState
<1>2. \A pc : /\ [u EXCEPT !.pc = pc].pc = pc /\ [u EXCEPT !.pc = pc].req = s.req
              /\ [u EXCEPT !.pc = pc].row = s.row
              /\ [u EXCEPT !.pc = pc, !.row = None].pc = pc
              /\ [u EXCEPT !.pc = pc, !.row = None].req = s.req
  BY DEF Returned, LocalState
<1> HIDE DEF u
<1>3. \A status : /\ Reply(u, status).pc = "reply" /\ Reply(u, status).req = s.req
                  /\ Reply(u, status).row = s.row /\ Reply(u, status).reply = status
  BY <1>1, ReplyFields
<1>4. CASE s.caller = "after"
  <2>1. t = Reply(u, "created")
    BY <1>4 DEF ResumeClosed, u
  <2>2. s.req \notin StatusRequests
    BY <1>4 DEF PolledRow
  <2>3. QED
    BY <1>3, <2>1, <2>2 DEF Goes, Past, Polled
<1>5. CASE s.caller = "status"
  <2>1. t = [u EXCEPT !.pc = "reload_status"]
    BY <1>5 DEF ResumeClosed, u
  <2>2. t.pc = "reload_status" /\ t.req = s.req /\ t.row = s.row
    BY <1>2, <2>1
  <2> HIDE DEF t
  <2>3. Goes(s, t) /\ Polled(t, R)
    BY <2>2 DEF Goes, Polled, PollPCs, PolledRow, AdvancePCs
  <2>4. QED
    BY <1>5, <2>3 DEF t
<1>6. CASE s.caller \notin {"after", "status"}
  <2>1. s.req \notin StatusRequests
    BY <1>6 DEF PolledRow
  <2>2. \/ t = Reply(u, "gone") \/ t = Reply(u, "created")
        \/ t = [u EXCEPT !.pc = "reload_status"]
        \/ t = [u EXCEPT !.pc = "insert_round", !.row = None]
        \/ t = [u EXCEPT !.pc = "next_open", !.row = None]
    BY <1>6 DEF ResumeClosed, u
  <2> HIDE DEF t
  <2>3. t.req = s.req /\ t.pc # "idle"
    <3>1. CASE t = Reply(u, "gone") \/ t = Reply(u, "created")
      BY <1>3, <3>1
    <3>2. CASE t = [u EXCEPT !.pc = "reload_status"]
      BY <1>2, <3>2
    <3>3. CASE t = [u EXCEPT !.pc = "insert_round", !.row = None]
      BY <1>2, <3>3
    <3>4. CASE t = [u EXCEPT !.pc = "next_open", !.row = None]
      BY <1>2, <3>4
    <3>5. QED
      BY <2>2, <3>1, <3>2, <3>3, <3>4
  <2>4. QED
    BY <1>6, <2>1, <2>3 DEF Goes, Polled, t
<1>7. QED
  BY <1>4, <1>5, <1>6

(* advance_round is called. *)
LEMMA CallAdvanceGoes ==
    ASSUME NEW R, NEW s \in LocalState, NEW row \in Row, NEW caller \in Callers,
           PolledRow(s.req, caller, row, R)
    PROVE  LET t == CallAdvance(s, row, caller) IN
           Goes(s, t) /\ (caller = "after" => Past(t)) /\ Polled(t, R)
<1> DEFINE u == [s EXCEPT !.row = row, !.caller = caller]
           v == [u EXCEPT !.pc = "count_commits"]
<1>1. u \in LocalState /\ u.row = row /\ u.req = s.req /\ u.caller = caller
  BY DEF LocalState
<1>2. v.pc = "count_commits" /\ v.row = row /\ v.req = s.req /\ v.caller = caller
  BY DEF LocalState
<1> HIDE DEF u, v
<1>3. /\ Goes(s, ResumeClosed(u)) /\ Polled(ResumeClosed(u), R)
      /\ caller = "after" => Past(ResumeClosed(u))
  BY <1>1, ResumeClosedGoes DEF Goes
<1>4. Goes(s, v) /\ Polled(v, R) /\ (caller = "after" => Past(v))
  BY <1>2 DEF Goes, Polled, Past, PolledRow, AdvancePCs, PollPCs
<1>5. QED
  BY <1>3, <1>4 DEF CallAdvance, u, v

(* The second half of advance_round. *)
LEMMA CloseOrResumeGoes ==
    ASSUME NEW R, NEW s \in LocalState, NEW row, PolledRow(s.req, s.caller, row, R)
    PROVE  LET t == CloseOrResume(s, row) IN
           Goes(s, t) /\ (s.caller = "after" => Past(t)) /\ Polled(t, R)
<1> DEFINE u == [s EXCEPT !.pc = "close", !.row = row]
<1>1. u.pc = "close" /\ u.row = row /\ u.req = s.req /\ u.caller = s.caller
  BY DEF LocalState
<1> HIDE DEF u
<1>2. Goes(s, u) /\ Polled(u, R) /\ (s.caller = "after" => Past(u))
  BY <1>1 DEF Goes, Polled, Past, PolledRow, AdvancePCs, PollPCs
<1>3. QED
  BY <1>2, ResumeOpenGoes DEF CloseOrResume, u

(* commit goes on with a round of its path. *)
LEMMA JoinOrConflictGoes ==
    ASSUME NEW s \in LocalState, NEW row
    PROVE  Goes(s, JoinOrConflict(s, row))
<1> DEFINE u == [s EXCEPT !.row = row]
<1>1. u.req = s.req
  BY DEF LocalState
<1>2. [u EXCEPT !.pc = "insert_commitment"].req = s.req
      /\ [u EXCEPT !.pc = "insert_commitment"].pc = "insert_commitment"
  BY DEF LocalState
<1>3. Goes(s, Reply(u, "conflict"))
  BY <1>1, ReplyFields DEF Goes
<1>4. QED
  BY <1>2, <1>3 DEF JoinOrConflict, Goes

(* A move within the handler. *)
LEMMA MoveGoes ==
    ASSUME NEW s \in LocalState, NEW pc, pc # "idle"
    PROVE  /\ Goes(s, [s EXCEPT !.pc = pc])
           /\ \A row : Goes(s, [s EXCEPT !.pc = pc, !.row = row])
  BY DEF Goes, LocalState

(* An answer, whatever row was set before. *)
LEMMA AnswerGoes ==
    ASSUME NEW s \in LocalState, NEW status
    PROVE  /\ Goes(s, Reply(s, status))
           /\ \A row : Goes(s, Reply([s EXCEPT !.row = row], status))
<1>1. Goes(s, Reply(s, status))
  BY ReplyFields DEF Goes
<1>2. ASSUME NEW row
      PROVE  Goes(s, Reply([s EXCEPT !.row = row], status))
  <2> DEFINE u == [s EXCEPT !.row = row]
  <2>1. u.req = s.req
    BY DEF LocalState
  <2> HIDE DEF u
  <2>2. Goes(s, Reply(u, status))
    BY <2>1, ReplyFields DEF Goes
  <2>3. QED
    BY <2>2 DEF u
<1>3. QED
  BY <1>1, <1>2

-----------------------------------------------------------------------------
(* What the statements do for the sessions. *)

(* s goes to t, commitments C become D and rounds become S: only the       *)
(* transaction of a reveal stores evidence, the one it was asked to store, *)
(* and once.                                                               *)
Serving(s, t, C, D, S) ==
    /\ Goes(s, t)
    /\ Past(s) => Past(t)
    /\ Polled(t, S)
    /\ \A r, e : Stored(D, r, e) =>
         \/ Stored(C, r, e)
         \/ /\ s.req \in RevealRequests
            /\ r = s.req.round_id /\ e = Evidence(s.req.opening)
            /\ ~Past(s) /\ Past(t)

StepServes(p) ==
    \E t : Becomes(p, t) /\ Serving(handler[p], t, commitments, commitments', rounds')

(* A handler that serves commit. *)
LEMMA CommitServing ==
    ASSUME IInv, LInv, NEW p \in Handlers, handler[p].pc \in CommitPCs \cup CommitRowPCs,
           commitments' = commitments, \E t : Becomes(p, t) /\ Goes(handler[p], t)
    PROVE  StepServes(p)
<1>1. handler[p].req \in CommitRequests
  BY KnownCommit
<1>2. handler[p].req \notin StatusRequests
  BY <1>1, RequestsAssumption
<1>3. ~Past(handler[p])
  BY DEF Past, CommitPCs, CommitRowPCs, AdvancePCs
<1>4. QED
  BY <1>2, <1>3 DEF StepServes, Serving, Goes, Polled

(* One that serves reveal and stores nothing. *)
LEMMA RevealServing ==
    ASSUME IInv, LInv, NEW p \in Handlers, handler[p].pc \in RevealRowPCs \cup {"find_round"},
           commitments' = commitments,
           \E t : Becomes(p, t) /\ Goes(handler[p], t) /\ (Past(handler[p]) => Past(t))
    PROVE  StepServes(p)
<1>1. handler[p].req \in RevealRequests
  BY HandlerOK DEF LocalOK, PcOK
<1>2. handler[p].req \notin StatusRequests
  BY <1>1, RequestsAssumption
<1>3. QED
  BY <1>2 DEF StepServes, Serving, Goes, Polled

(* Any other one that changes no commitment. *)
LEMMA OtherServing ==
    ASSUME NEW p \in Handlers, commitments' = commitments,
           \E t : /\ Becomes(p, t) /\ Goes(handler[p], t) /\ Polled(t, rounds')
                  /\ Past(handler[p]) => Past(t)
    PROVE  StepServes(p)
<1>1. PICK t : /\ Becomes(p, t) /\ Goes(handler[p], t) /\ Polled(t, rounds')
               /\ Past(handler[p]) => Past(t)
  OBVIOUS
<1>2. Serving(handler[p], t, commitments, commitments', rounds')
  BY <1>1 DEF Serving
<1>3. QED
  BY <1>1, <1>2 DEF StepServes

(* The statements of commit that read. *)
LEMMA CommitReadsServe ==
    ASSUME IInv, LInv, NEW p \in Handlers,
           \/ LookupDigest(p) \/ RelatedRound(p) \/ SelectActive(p) \/ SelectMyCommitment(p)
           \/ FetchCreated(p) \/ FetchOpen(p) \/ CountThreshold(p) \/ RereadJoined(p)
    PROVE  StepServes(p)
<1> DEFINE s == handler[p]
<1>1. s \in LocalState
  BY HandlerOK
<1>2. ASSUME NEW r \in DOMAIN rounds, NEW caller \in {"existing", "active"},
             s.req \in CommitRequests
      PROVE  Goes(s, CallAdvance(s, rounds[r], caller))
  <2>1. s.req \notin StatusRequests
    BY <1>2, RequestsAssumption
  <2>2. PolledRow(s.req, caller, rounds[r], rounds)
    BY <2>1 DEF PolledRow
  <2>3. QED
    BY <1>1, <2>2, KnownRow, CallAdvanceGoes DEF Callers
<1>3. CASE LookupDigest(p)
  <2>1. \E t : Becomes(p, t) /\ Goes(s, t)
    BY <1>1, <1>3, MoveGoes DEF LookupDigest
  <2>2. QED
    BY <1>3, <2>1, CommitServing DEF LookupDigest, At, CommitPCs, OnlyReads, tables
<1>4. CASE RelatedRound(p)
  <2>1. s.pc = "related_round" /\ s.req \in CommitRequests /\ s.row.id \in DOMAIN rounds
    BY <1>4, KnownCommit DEF RelatedRound, At, CommitRowPCs
  <2>2. \E t : Becomes(p, t) /\ Goes(s, t)
    BY <1>1, <1>2, <1>4, <2>1, MoveGoes DEF RelatedRound
  <2>3. QED
    BY <1>4, <2>1, <2>2, CommitServing DEF RelatedRound, CommitRowPCs, OnlyReads, tables
<1>5. CASE SelectActive(p)
  <2>1. s.pc = "active" /\ s.req \in CommitRequests
    BY <1>5, KnownCommit DEF SelectActive, At, CommitPCs
  <2>2. \E t : Becomes(p, t) /\ Goes(s, t)
    BY <1>1, <1>2, <1>5, <2>1, MoveGoes DEF SelectActive, OpenRounds
  <2>3. QED
    BY <1>5, <2>1, <2>2, CommitServing DEF SelectActive, CommitPCs, OnlyReads, tables
<1>6. CASE SelectMyCommitment(p)
  <2>1. \E t : Becomes(p, t) /\ Goes(s, t)
    BY <1>1, <1>6, JoinOrConflictGoes, AnswerGoes DEF SelectMyCommitment, RepeatedCommit
  <2>2. QED
    BY <1>6, <2>1, CommitServing DEF SelectMyCommitment, At, CommitRowPCs, OnlyReads, tables
<1>7. CASE FetchCreated(p)
  <2>1. \E t : Becomes(p, t) /\ Goes(s, t)
    BY <1>1, <1>7, JoinOrConflictGoes DEF FetchCreated
  <2>2. QED
    BY <1>7, <2>1, CommitServing DEF FetchCreated, At, CommitRowPCs, OnlyReads, tables
<1>8. CASE FetchOpen(p)
  <2>1. \E t : Becomes(p, t) /\ Goes(s, t)
    BY <1>1, <1>8, JoinOrConflictGoes, AnswerGoes DEF FetchOpen
  <2>2. QED
    BY <1>8, <2>1, CommitServing DEF FetchOpen, At, CommitPCs, OnlyReads, tables
<1>9. CASE CountThreshold(p)
  <2>1. \E t : Becomes(p, t) /\ Goes(s, t)
    BY <1>1, <1>9, MoveGoes, AnswerGoes DEF CountThreshold
  <2>2. QED
    BY <1>9, <2>1, CommitServing DEF CountThreshold, At, CommitRowPCs, OnlyReads, tables
<1>10. CASE RereadJoined(p)
  <2>1. \E t : Becomes(p, t) /\ Goes(s, t)
    BY <1>1, <1>10, AnswerGoes DEF RereadJoined
  <2>2. QED
    BY <1>10, <2>1, CommitServing DEF RereadJoined, At, CommitRowPCs, OnlyReads, tables
<1>11. QED
  BY <1>3, <1>4, <1>5, <1>6, <1>7, <1>8, <1>9, <1>10

(* Its statements that write: a new commitment has no evidence. *)
LEMMA CommitWritesServe ==
    ASSUME IInv, LInv, NEW p \in Handlers,
           InsertRound(p) \/ InsertCommitment(p) \/ StartReveal(p)
    PROVE  StepServes(p)
<1> DEFINE s == handler[p]
<1>1. s \in LocalState
  BY HandlerOK
<1>2. CASE InsertRound(p)
  <2>1. \E t : Becomes(p, t) /\ Goes(s, t)
    BY <1>1, <1>2, MoveGoes DEF InsertRound
  <2>2. QED
    BY <1>2, <2>1, CommitServing DEF InsertRound, At, CommitPCs
<1>3. CASE StartReveal(p)
  <2>1. \E t : Becomes(p, t) /\ Goes(s, t)
    BY <1>1, <1>3, MoveGoes DEF StartReveal
  <2>2. QED
    BY <1>3, <2>1, CommitServing DEF StartReveal, At, CommitRowPCs
<1>4. CASE InsertCommitment(p)
  <2>1. \E t : Becomes(p, t) /\ Goes(s, t)
    BY <1>1, <1>4, MoveGoes, AnswerGoes DEF InsertCommitment, RepeatedCommit
  <2>2. s.pc = "insert_commitment" /\ s.req \in CommitRequests
    BY <1>4, KnownCommit DEF InsertCommitment, At, CommitRowPCs
  <2>3. s.req \notin StatusRequests /\ ~Past(s)
    BY <2>2, RequestsAssumption DEF Past, AdvancePCs
  <2>4. CASE commitments' = commitments
    BY <2>1, <2>2, <2>4, CommitServing DEF CommitRowPCs
  <2>5. ASSUME NEW c, c.evidence_id = None, commitments' = Append(commitments, c)
        PROVE  StepServes(p)
    <3>1. commitments \in Seq(Commitment)
      BY DEF IInv, CommitmentsOK
    <3>2. \A i \in DOMAIN commitments' :
            \/ i \in DOMAIN commitments /\ commitments'[i] = commitments[i]
            \/ commitments'[i] = c
      BY <2>5, <3>1
    <3>3. \A r, e : Stored(commitments', r, e) => Stored(commitments, r, e)
      BY <2>5, <3>2 DEF Stored
    <3>4. QED
      BY <2>1, <2>3, <3>3 DEF StepServes, Serving, Goes, Polled
  <2>6. QED
    BY <1>4, <2>4, <2>5 DEF InsertCommitment
<1>5. QED
  BY <1>2, <1>3, <1>4

(* The statements of reveal: the transaction stores what it was asked to. *)
LEMMA RevealServes ==
    ASSUME IInv, LInv, NEW p \in Handlers, Reveal(p)
    PROVE  StepServes(p)
<1> DEFINE s == handler[p]
<1>1. s \in LocalState
  BY HandlerOK
<1>2. ASSUME NEW row \in Row, NEW caller \in {"reveal", "after"}, s.req \in RevealRequests
      PROVE  /\ Goes(s, CallAdvance(s, row, caller))
             /\ caller = "after" => Past(CallAdvance(s, row, caller))
  <2>1. PolledRow(s.req, caller, row, rounds)
    BY <1>2, RequestsAssumption DEF PolledRow
  <2>2. QED
    BY <1>1, <2>1, CallAdvanceGoes DEF Callers
<1>3. CASE FindRound(p)
  <2>1. \E t : Becomes(p, t) /\ Goes(s, t)
    BY <1>1, <1>3, MoveGoes, AnswerGoes DEF FindRound
  <2>2. s.pc = "find_round" /\ ~Past(s)
    BY <1>3 DEF FindRound, At, Past, AdvancePCs
  <2>3. QED
    BY <1>3, <2>1, <2>2, RevealServing DEF FindRound, OnlyReads, tables
<1>4. CASE FindCommitment(p)
  <2>1. s.pc = "find_commitment" /\ s.req \in RevealRequests /\ s.row \in Row /\ ~Past(s)
    BY <1>4, KnownReveal DEF FindCommitment, At, RevealRowPCs, Past, AdvancePCs
  <2>2. \E t : Becomes(p, t) /\ Goes(s, t)
    BY <1>1, <1>2, <1>4, <2>1, AnswerGoes DEF FindCommitment
  <2>3. QED
    BY <1>4, <2>1, <2>2, RevealServing DEF FindCommitment, RevealRowPCs, OnlyReads, tables
<1>5. CASE AfterStore(p)
  <2>1. s.pc = "after_store" /\ s.req \in RevealRequests /\ s.row.id \in DOMAIN rounds
    BY <1>5, KnownReveal DEF AfterStore, At, RevealRowPCs
  <2>2. \E t : Becomes(p, t) /\ Goes(s, t) /\ Past(t)
    BY <1>2, <1>5, <2>1, KnownRow DEF AfterStore
  <2>3. QED
    BY <1>5, <2>1, <2>2, RevealServing DEF AfterStore, RevealRowPCs, OnlyReads, tables
<1>6. CASE StoreEvidence(p)
  <2> DEFINE t == [s EXCEPT !.pc = "after_store"]
             b == Evidence(s.req.opening).builder_id
  <2>1. /\ s.pc = "store" /\ s.req \in RevealRequests /\ s.row.id = s.req.round_id
        /\ OpensCommitment(s.req, commitments) /\ ~Past(s)
    BY <1>6, KnownReveal
    DEF StoreEvidence, At, RevealRowPCs, RevealHolds, Past, AdvancePCs
  <2>2. t.pc = "after_store" /\ Goes(s, t)
    BY <1>1, MoveGoes DEF LocalState
  <2> HIDE DEF t
  <2>3. PICK i \in ByBuilder(s.row.id, b) :
          \/ Becomes(p, Reply(s, "ok")) /\ commitments' = commitments
          \/ /\ commitments' = [commitments EXCEPT ![i].evidence_id = Len(evidences) + 1]
             /\ Becomes(p, t)
    BY <1>6 DEF StoreEvidence, t
  <2>4. CASE Becomes(p, Reply(s, "ok")) /\ commitments' = commitments
    BY <1>1, <2>1, <2>4, AnswerGoes, RevealServing DEF RevealRowPCs
  <2>5. CASE /\ commitments' = [commitments EXCEPT ![i].evidence_id = Len(evidences) + 1]
             /\ Becomes(p, t)
    <3>1. /\ i \in DOMAIN commitments /\ commitments[i].round_id = s.req.round_id
          /\ commitments[i].digest = s.req.opening
      BY <2>1 DEF LInv, TablesOK, CommittedOnce, OpensCommitment, Committed, ByBuilder,
                  CommitmentsOf
    <3>2. commitments \in Seq(Commitment)
      BY DEF IInv, CommitmentsOK
    <3>3. /\ DOMAIN commitments' = DOMAIN commitments
          /\ \A j \in DOMAIN commitments : j # i => commitments'[j] = commitments[j]
          /\ commitments'[i] = WithEvidence(commitments[i], Len(evidences) + 1)
      BY <2>5, <3>1, <3>2 DEF WithEvidence
    <3>4. /\ commitments'[i].round_id = s.req.round_id
          /\ commitments'[i].digest = s.req.opening
      BY <3>1, <3>2, <3>3 DEF WithEvidence, Commitment
    <3>5. \A r, e : Stored(commitments', r, e) =>
            \/ Stored(commitments, r, e)
            \/ r = s.req.round_id /\ e = Evidence(s.req.opening)
      BY <3>3, <3>4 DEF Stored
    <3>6. Polled(t, rounds')
      BY <2>1, <2>2, RequestsAssumption DEF Goes, Polled
    <3>7. Serving(s, t, commitments, commitments', rounds')
      BY <2>1, <2>2, <3>5, <3>6 DEF Serving, Past
    <3>8. QED
      BY <2>5, <3>7 DEF StepServes
  <2>6. QED
    BY <2>3, <2>4, <2>5
<1>7. QED
  BY <1>3, <1>4, <1>5, <1>6 DEF Reveal

(* The statements of round_status and of a scrape. *)
LEMMA PollServes ==
    ASSUME IInv, LInv, NEW p \in Handlers, Poll(p), Polled(handler[p], rounds)
    PROVE  StepServes(p)
<1> DEFINE s == handler[p]
<1>1. s \in LocalState
  BY HandlerOK
<1>2. CASE FindStatus(p)
  <2> DEFINE r == s.req.round_id
             u == [s EXCEPT !.pc = "status_at", !.row = rounds[r]]
  <2>1. ~Past(s)
    BY <1>2 DEF FindStatus, At, Past, AdvancePCs
  <2>2. u.pc = "status_at" /\ u.row = rounds[r] /\ u.req = s.req
    BY <1>1 DEF LocalState
  <2> HIDE DEF u
  <2>3. r \in DOMAIN rounds => Goes(s, u) /\ Polled(u, rounds)
    BY <2>2, KnownRow DEF Goes, Polled, AdvancePCs, PollPCs
  <2>4. Goes(s, Reply(s, "not_found")) /\ Polled(Reply(s, "not_found"), rounds)
    BY ReplyFields DEF Goes, Polled, AdvancePCs, PollPCs
  <2>5. \E t : Becomes(p, t) /\ Goes(s, t) /\ Polled(t, rounds)
    BY <1>2, <2>3, <2>4 DEF FindStatus, u
  <2>6. rounds' = rounds /\ commitments' = commitments
    BY <1>2 DEF FindStatus, OnlyReads, tables
  <2>7. QED
    BY <2>1, <2>5, <2>6, OtherServing
<1>3. CASE StatusAt(p)
  <2> DEFINE u == [s EXCEPT !.now = clock]
  <2>1. ~Past(s) /\ s.pc = "status_at" /\ s.row \in Row
    BY <1>3, HandlerOK DEF StatusAt, At, Past, AdvancePCs, LocalOK, PcOK, Copy
  <2>2. u \in LocalState /\ u.req = s.req /\ u.row = s.row
    BY <1>1 DEF LocalState, IInv
  <2> HIDE DEF u
  <2>3. PolledRow(u.req, "status", s.row, rounds)
    BY <2>1, <2>2 DEF PolledRow, Polled
  <2>4. Goes(s, CallAdvance(u, s.row, "status")) /\ Polled(CallAdvance(u, s.row, "status"), rounds)
    BY <2>1, <2>2, <2>3, CallAdvanceGoes DEF Goes, Callers
  <2>5. \E t : Becomes(p, t) /\ Goes(s, t) /\ Polled(t, rounds)
    BY <1>3, <2>2, <2>4 DEF StatusAt, u
  <2>6. rounds' = rounds /\ commitments' = commitments
    BY <1>3 DEF StatusAt, OnlyReads, tables
  <2>7. QED
    BY <2>1, <2>5, <2>6, OtherServing
<1>4. CASE ReloadStatus(p)
  <2> DEFINE row == rounds[s.row.id]
             u == [s EXCEPT !.row = row]
  <2>1. ~Past(s) /\ s.pc = "reload_status" /\ s.row.id \in DOMAIN rounds
    BY <1>4, HandlerOK DEF ReloadStatus, At, Past, AdvancePCs, LocalOK, PcOK
  <2>2. u.row = row /\ u.req = s.req
    BY <1>1 DEF LocalState
  <2>3. row # None /\ row.id = s.row.id
    BY <2>1, KnownRow
  <2>4. s.req \in StatusRequests => row.id = s.req.round_id
    BY <2>1, <2>3 DEF Polled
  <2> HIDE DEF u, row
  <2>5. rounds[row.id].closed_at = row.closed_at
    BY <2>1, <2>3 DEF row
  <2>6. Goes(s, Reply(u, "ok")) /\ Polled(Reply(u, "ok"), rounds)
    BY <2>2, <2>3, <2>4, <2>5, ReplyFields DEF Goes, Polled, AdvancePCs, PollPCs
  <2>7. \E t : Becomes(p, t) /\ Goes(s, t) /\ Polled(t, rounds)
    BY <1>4, <2>6 DEF ReloadStatus, u, row
  <2>8. rounds' = rounds /\ commitments' = commitments
    BY <1>4 DEF ReloadStatus, OnlyReads, tables
  <2>9. QED
    BY <2>1, <2>7, <2>8, OtherServing
<1>5. CASE ScanOpen(p) \/ NextOpen(p)
  <2>1. ~Past(s) /\ s.req \notin StatusRequests
    BY <1>5 DEF ScanOpen, NextOpen, At, Past, AdvancePCs, Polled, PollPCs
  <2>2. CASE ScanOpen(p)
    <3> DEFINE todo == {rounds[r] : r \in {q \in DOMAIN rounds : rounds[q].closed_at = None}}
               u == [s EXCEPT !.pc = "next_open", !.todo = todo]
    <3> HIDE DEF todo
    <3>1. Goes(s, u)
      BY <1>1 DEF Goes, LocalState
    <3>2. QED
      BY <2>1, <2>2, <3>1, OtherServing DEF ScanOpen, OnlyReads, tables, Polled, Goes, todo
  <2>3. CASE NextOpen(p)
    <3>1. ASSUME NEW row \in s.todo
          PROVE  Goes(s, CallAdvance([s EXCEPT !.todo = @ \ {row}], row, "scrape"))
      <4> DEFINE u == [s EXCEPT !.todo = @ \ {row}]
      <4>1. row \in Row
        BY HandlerOK DEF BaseOK, Copy
      <4>2. u \in LocalState /\ u.req = s.req
        BY <1>1 DEF LocalState
      <4> HIDE DEF u
      <4>3. PolledRow(u.req, "scrape", row, rounds)
        BY <2>1, <4>2 DEF PolledRow
      <4>4. Goes(s, CallAdvance(u, row, "scrape"))
        BY <4>1, <4>2, <4>3, CallAdvanceGoes DEF Goes, Callers
      <4>5. QED
        BY <4>4 DEF u
    <3>2. \E t : Becomes(p, t) /\ Goes(s, t)
      BY <1>1, <2>3, <3>1, AnswerGoes DEF NextOpen
    <3>3. QED
      BY <2>1, <2>3, <3>2, OtherServing DEF NextOpen, OnlyReads, tables, Polled, Goes
  <2>4. QED
    BY <1>5, <2>2, <2>3
<1>6. QED
  BY <1>2, <1>3, <1>4, <1>5 DEF Poll

(* A round that has closed never opens again. *)
LEMMA ClosedStays ==
    ASSUME IInv, Writes
    PROVE  \A r \in DOMAIN rounds : rounds[r].closed_at # None => rounds'[r].closed_at # None
<1>1. rounds \in Seq(Row)
  BY DEF IInv, RowsOK
<1>2. CASE Opens
  BY <1>1, <1>2 DEF Opens
<1>3. CASE Begins
  BY <1>1, <1>3 DEF Begins
<1>4. CASE Closes
  BY <1>1, <1>4 DEF Closes
<1>5. CASE UNCHANGED tables \/ Joins \/ Publishes
  <2>1. rounds' = rounds
    BY <1>5 DEF tables, Joins, Publishes
  <2>2. QED
    BY <2>1
<1>6. QED
  BY <1>2, <1>3, <1>4, <1>5 DEF Writes

(* What a poll knows stays true. *)
LEMMA PolledLater ==
    ASSUME IInv, LInv, Writes, NEW p \in Handlers, Polled(handler[p], rounds)
    PROVE  Polled(handler[p], rounds')
<1>1. handler[p].row # None => handler[p].row.id \in DOMAIN rounds
  BY HandlerOK
<1>2. QED
  BY <1>1, ClosedStays DEF Polled

(* The statements of advance_round, whomever it serves. *)
LEMMA AdvanceServes ==
    ASSUME IInv, LInv, Writes, NEW p \in Handlers, Advance(p), Polled(handler[p], rounds)
    PROVE  StepServes(p)
<1> DEFINE s == handler[p]
<1>1. s \in LocalState
  BY HandlerOK
<1>2. s.pc \in AdvancePCs
  BY DEF Advance, CountCommits, CountReveals, OpenReveal, Reread, CloseRound, At, AdvancePCs
<1>3. s.row \in Row /\ s.row.id \in DOMAIN rounds
  BY <1>2, HandlerOK DEF LocalOK, PcOK, CallerOK, Copy
<1>4. PolledRow(s.req, s.caller, s.row, rounds)
  BY <1>2 DEF Polled, PolledRow, AdvancePCs
<1>5. PolledRow(s.req, s.caller, s.row, rounds')
  BY <1>3, <1>4, ClosedStays DEF PolledRow
<1>6. Past(s) <=> s.caller = "after"
  BY <1>2 DEF Past, AdvancePCs
<1>7. ASSUME NEW t, t.pc \in AdvancePCs, t.row = s.row, t.req = s.req, t.caller = s.caller
      PROVE  Goes(s, t) /\ Polled(t, rounds') /\ (Past(s) => Past(t))
  <2>1. t.pc # "idle"
    BY <1>7 DEF AdvancePCs
  <2>2. Polled(t, rounds')
    BY <1>5, <1>7 DEF Polled, PolledRow, AdvancePCs
  <2>3. QED
    BY <1>6, <1>7, <2>1, <2>2 DEF Goes, Past
<1>8. CASE CountCommits(p)
  <2> DEFINE n == Cardinality(CommitmentsOf(s.row.id))
             t == [s EXCEPT !.pc = "count_reveals", !.commits = n]
  <2> HIDE DEF n
  <2>1. t.pc \in AdvancePCs /\ t.row = s.row /\ t.req = s.req /\ t.caller = s.caller
    BY <1>1 DEF LocalState, AdvancePCs
  <2> HIDE DEF t
  <2>2. Goes(s, t) /\ Polled(t, rounds') /\ (Past(s) => Past(t))
    BY <1>7, <2>1
  <2>3. QED
    BY <1>8, <2>2, OtherServing DEF CountCommits, OnlyReads, tables, n, t
<1>9. CASE CountReveals(p)
  <2> DEFINE all == (s.commits # 0 /\ s.commits = Cardinality(RevealedOf(s.row.id)))
             t == [s EXCEPT !.all_revealed = all]
             u == [t EXCEPT !.pc = "open_reveal"]
  <2>1. all \in BOOLEAN
    OBVIOUS
  <2> HIDE DEF all
  <2>2. t \in LocalState /\ t.req = s.req /\ t.caller = s.caller /\ t.row = s.row
    BY <1>1, <2>1 DEF LocalState
  <2> HIDE DEF t
  <2>3. u.pc \in AdvancePCs /\ u.row = s.row /\ u.req = s.req /\ u.caller = s.caller
    BY <2>2 DEF LocalState, AdvancePCs
  <2> HIDE DEF u
  <2>4. Goes(s, u) /\ Polled(u, rounds') /\ (Past(s) => Past(u))
    BY <1>7, <2>3
  <2> DEFINE v == CloseOrResume(t, s.row)
  <2>5. Goes(s, v) /\ Polled(v, rounds') /\ (Past(s) => Past(v))
    BY <1>5, <1>6, <2>2, CloseOrResumeGoes DEF Goes
  <2>6. \E w : Becomes(p, w) /\ Goes(s, w) /\ Polled(w, rounds') /\ (Past(s) => Past(w))
    BY <1>9, <2>4, <2>5 DEF CountReveals, all, t, u
  <2>7. QED
    BY <1>9, <2>6, OtherServing DEF CountReveals, OnlyReads, tables
<1>10. CASE OpenReveal(p)
  <2> DEFINE t == [s EXCEPT !.pc = "reread"]
  <2>1. t.pc \in AdvancePCs /\ t.row = s.row /\ t.req = s.req /\ t.caller = s.caller
    BY <1>1 DEF LocalState, AdvancePCs
  <2> HIDE DEF t
  <2>2. Goes(s, t) /\ Polled(t, rounds') /\ (Past(s) => Past(t))
    BY <1>7, <2>1
  <2>3. QED
    BY <1>10, <2>2, OtherServing DEF OpenReveal, t
<1>11. CASE Reread(p)
  <2> DEFINE row == rounds[s.row.id]
             t == CloseOrResume(s, row)
  <2>1. row.id = s.row.id /\ row # None
    BY <1>3, KnownRow
  <2>2. rounds' = rounds /\ commitments' = commitments
    BY <1>11 DEF Reread, OnlyReads, tables
  <2>3. PolledRow(s.req, s.caller, row, rounds')
    BY <1>4, <2>1, <2>2 DEF PolledRow
  <2>4. Goes(s, t) /\ Polled(t, rounds') /\ (Past(s) => Past(t))
    BY <1>1, <1>6, <2>3, CloseOrResumeGoes
  <2>5. QED
    BY <1>11, <2>2, <2>4, OtherServing DEF Reread
<1>12. CASE CloseRound(p)
  <2> DEFINE t == ResumeClosed(s)
  <2>1. Goes(s, t) /\ Polled(t, rounds') /\ (Past(s) => Past(t))
    BY <1>1, <1>5, <1>6, ResumeClosedGoes
  <2>2. QED
    BY <1>12, <2>1, OtherServing DEF CloseRound
<1>13. QED
  BY <1>8, <1>9, <1>10, <1>11, <1>12 DEF Advance

(* Any statement that the server executes. *)
LEMMA ServerServes ==
    ASSUME IInv, LInv, Writes, NEW p \in Handlers, ServerStep(p), Polled(handler[p], rounds)
    PROVE  StepServes(p)
<1>1. CASE Commit(p)
  BY <1>1, CommitReadsServe, CommitWritesServe DEF Commit
<1>2. CASE Reveal(p)
  BY <1>2, RevealServes
<1>3. CASE Poll(p)
  BY <1>3, PollServes
<1>4. CASE Advance(p)
  BY <1>4, AdvanceServes
<1>5. QED
  BY <1>1, <1>2, <1>3, <1>4 DEF ServerStep

(* A failure stores nothing, and the time is not a matter of sessions. *)
LEMMA FailServes ==
    ASSUME IInv, LInv, NEW p \in Handlers, Fail(p)
    PROVE  /\ commitments' = commitments /\ rounds' = rounds
           /\ \E t : Becomes(p, t) /\ Goes(handler[p], t) /\ Polled(t, rounds)
<1>1. Goes(handler[p], Reply(handler[p], "internal"))
      /\ Polled(Reply(handler[p], "internal"), rounds)
  BY ReplyFields DEF Goes, Polled, PollPCs, AdvancePCs
<1>2. QED
  BY <1>1 DEF Fail, tables

-----------------------------------------------------------------------------
(* The sessions' calls and answers. *)

(* The body of a call, by where the session is. *)
LEMMA CallBody ==
    ASSUME NEW b \in Builders
    PROVE  /\ Is(b, "commit") =>
                CallOf(b) = [op |-> "commit", builder_id |-> b, derivation_path |-> Derivation,
                             digest |-> Opening(b, session[b].nonce)]
           /\ Is(b, "reveal") =>
                CallOf(b) = [op |-> "reveal", round_id |-> session[b].round,
                             opening |-> Opening(b, session[b].nonce)]
           /\ Is(b, "poll") \/ Is(b, "close") =>
                CallOf(b) = [op |-> "status", round_id |-> session[b].round]
  BY DEF CallOf, Is

(* Every call is one of the requests, and of the kind that it looks.       *)
LEMMA CallAllowed ==
    ASSUME SessionsMayCall, IInv, NEW b \in Builders, Calls(b),
           SessionOK(b, session[b], rounds, commitments)
    PROVE  /\ CallOf(b) \in Requests
           /\ Is(b, "commit") <=> CallOf(b) \in CommitRequests
           /\ Is(b, "reveal") <=> CallOf(b) \in RevealRequests
           /\ Is(b, "poll") \/ Is(b, "close") <=> CallOf(b) \in StatusRequests
<1> DEFINE s == session[b]
<1>1. /\ s.pc \in {"commit", "poll", "reveal", "close"}
      /\ s.nonce \in 1 .. MaxNonces
      /\ s.pc # "commit" => s.round \in Nat
  BY DEF Calls, SessionOK, Joined, IInv, RowsOK
<1>2. CASE s.pc = "commit"
  <2>1. CallOf(b) \in CommitRequests /\ CallOf(b).op = "commit"
    BY <1>1, <1>2, CallBody DEF Is, SessionsMayCall
  <2>2. QED
    BY <1>2, <2>1, RequestsAssumption DEF Is, Requests
<1>3. CASE s.pc = "reveal"
  <2> DEFINE q == [op |-> "reveal", round_id |-> s.round, opening |-> Opening(b, s.nonce)]
  <2>1. q \in RevealRequests
    BY <1>1, <1>3 DEF SessionsMayCall
  <2>2. CallOf(b) = q /\ q.op = "reveal"
    BY <1>3, CallBody DEF Is
  <2> HIDE DEF q
  <2>3. QED
    BY <1>3, <2>1, <2>2, RequestsAssumption DEF Is, Requests
<1>4. CASE s.pc \in {"poll", "close"}
  <2>1. CallOf(b) \in StatusRequests /\ CallOf(b).op = "status"
    BY <1>1, <1>4, CallBody DEF Is, SessionsMayCall
  <2>2. QED
    BY <1>4, <2>1, RequestsAssumption DEF Is, Requests
<1>5. QED
  BY <1>1, <1>2, <1>3, <1>4

(* It gives up, or starts over. *)
LEMMA SessionLeaves ==
    ASSUME NEW b, NEW R, NEW C, NEW s, SessionOK(b, s, R, C)
    PROVE  /\ SessionOK(b, GivesUp(s), R, C) /\ GivesUp(s).pc = "failed"
           /\ GivesUp(s).round = s.round
           /\ SessionOK(b, NextAttempt(s), R, C)
<1>1. s \in Session
  BY DEF SessionOK
<1>2. GivesUp(s) \in Session /\ GivesUp(s).pc = "failed" /\ GivesUp(s).nonce = s.nonce
      /\ GivesUp(s).round = s.round
  BY <1>1 DEF GivesUp, Session, SessionPC
<1>3. NextAttempt(s) \in Session /\ NextAttempt(s).pc = "draw" /\ NextAttempt(s).nonce = s.nonce
  BY <1>1 DEF NextAttempt, Session, SessionPC
<1>4. QED
  BY <1>2, <1>3 DEF SessionOK, Joined

(* It is in a round whose phase it has been told. *)
LEMMA InPhaseOK ==
    ASSUME NEW b, NEW R, NEW C, NEW s, SessionOK(b, s, R, C), s.nonce \in 1 .. MaxNonces,
           NEW r \in Nat, r \in DOMAIN R, NEW phase
    PROVE  /\ SessionOK(b, InPhase([s EXCEPT !.round = r], phase), R, C)
           /\ s.round = r => SessionOK(b, InPhase(s, phase), R, C)
<1> DEFINE t == [s EXCEPT !.round = r]
<1>1. s \in Session /\ t \in Session /\ t.nonce = s.nonce /\ t.round = r
  BY DEF SessionOK, Session
<1>2. s.round = r => t = s
  BY <1>1 DEF Session
<1> HIDE DEF t
<1>3. SessionOK(b, NextAttempt(t), R, C)
  <2>1. NextAttempt(t) \in Session /\ NextAttempt(t).pc = "draw"
        /\ NextAttempt(t).nonce = s.nonce
    BY <1>1 DEF NextAttempt, Session, SessionPC
  <2>2. QED
    BY <2>1 DEF SessionOK, Joined
<1>4. ASSUME NEW pc \in {"poll", "reveal"}
      PROVE  SessionOK(b, [t EXCEPT !.pc = pc], R, C)
  <2> DEFINE u == [t EXCEPT !.pc = pc]
  <2>1. u \in Session /\ u.pc = pc /\ u.nonce = s.nonce /\ u.round = r
    BY <1>1 DEF Session, SessionPC
  <2> HIDE DEF u
  <2>2. SessionOK(b, u, R, C)
    BY <2>1 DEF SessionOK, Joined
  <2>3. QED
    BY <2>2 DEF u
<1>5. SessionOK(b, InPhase(t, phase), R, C)
  BY <1>3, <1>4 DEF InPhase
<1>6. QED
  BY <1>2, <1>5 DEF t

(* What the answer to a commit says is true: the round is there. *)
LEMMA AfterCommitOK ==
    ASSUME SessionsMayCall, IInv, LInv, NEW b \in Builders, Is(b, "commit"),
           SessionOK(b, session[b], rounds, commitments),
           NEW p \in Handlers, At(p, "reply"), handler[p].req = CallOf(b)
    PROVE  SessionOK(b, After(session[b], handler[p]), rounds, commitments)
<1> DEFINE s == session[b]
           a == handler[p]
<1>1. s \in Session /\ s.pc = "commit" /\ s.nonce \in 1 .. MaxNonces
  BY DEF Is, SessionOK
<1>2. After(s, a) = AfterCommit(s, a.reply, a.row)
  BY <1>1 DEF After
<1>3. ASSUME a.reply \in {"created", "ok"}
      PROVE  a.row.id \in DOMAIN rounds /\ a.row.id \in Nat
  <2>1. a.req \in CommitRequests
    BY CallAllowed DEF Calls, Is
  <2>2. CommittedFor(a.req, a.row.id, commitments)
    BY <1>3, <2>1, Known DEF Holding, CommitHolds, Success
  <2>3. QED
    BY <2>2 DEF CommittedFor, Committed, IInv, CommitmentsOK, RowsOK
<1>4. CASE a.reply \in {"created", "ok"}
  BY <1>1, <1>2, <1>3, <1>4, InPhaseOK DEF AfterCommit
<1>5. CASE a.reply \notin {"created", "ok"}
  <2>1. After(s, a) \in {NextAttempt(s), GivesUp(s)}
    BY <1>2, <1>5 DEF AfterCommit
  <2>2. QED
    BY <2>1, SessionLeaves
<1>6. QED
  BY <1>4, <1>5

(* Polling leaves the session in its round. *)
LEMMA AfterPollOK ==
    ASSUME IInv, NEW b \in Builders, Is(b, "poll"),
           SessionOK(b, session[b], rounds, commitments), NEW a
    PROVE  SessionOK(b, After(session[b], a), rounds, commitments)
<1> DEFINE s == session[b]
<1>1. /\ s.pc = "poll" /\ s.nonce \in 1 .. MaxNonces
      /\ s.round \in DOMAIN rounds /\ s.round \in Nat
  BY DEF Is, SessionOK, Joined, IInv, RowsOK
<1>2. After(s, a) = AfterPoll(s, a.reply, a.row)
  BY <1>1 DEF After
<1>3. SessionOK(b, InPhase(s, PhaseOf(a.row)), rounds, commitments)
  BY <1>1, InPhaseOK
<1>4. QED
  BY <1>2, <1>3, SessionLeaves DEF AfterPoll

(* A reveal that succeeds has stored the evidence, under this nonce. *)
LEMMA AfterRevealOK ==
    ASSUME SessionsMayCall, IInv, LInv, NEW b \in Builders, Is(b, "reveal"),
           SessionOK(b, session[b], rounds, commitments),
           NEW p \in Handlers, At(p, "reply"), handler[p].req = CallOf(b)
    PROVE  SessionOK(b, After(session[b], handler[p]), rounds, commitments)
<1> DEFINE s == session[b]
           a == handler[p]
<1>1. /\ s \in Session /\ s.pc = "reveal" /\ s.nonce \in 1 .. MaxNonces
      /\ s.nonce \in 0 .. MaxNonces /\ s.round \in DOMAIN rounds
  BY DEF Is, SessionOK, Joined
<1>2. After(s, a) = AfterReveal(s, a.reply)
  BY <1>1 DEF After
<1>3. ASSUME NEW pc \in {"close", "poll"},
             pc = "close" => Published(commitments, s.round, b, Opening(b, s.nonce))
      PROVE  SessionOK(b, [s EXCEPT !.pc = pc], rounds, commitments)
  <2> DEFINE u == [s EXCEPT !.pc = pc]
  <2>1. u \in Session /\ u.pc = pc /\ u.nonce = s.nonce /\ u.round = s.round
    BY <1>1 DEF Session, SessionPC
  <2> HIDE DEF u
  <2>2. SessionOK(b, u, rounds, commitments)
    BY <1>1, <1>3, <2>1 DEF SessionOK, Joined
  <2>3. QED
    BY <2>2 DEF u
<1>4. ASSUME a.reply \in {"created", "ok"}
      PROVE  Published(commitments, s.round, b, Opening(b, s.nonce))
  <2>1. /\ a.req \in RevealRequests
        /\ a.req = [op |-> "reveal", round_id |-> s.round, opening |-> Opening(b, s.nonce)]
    BY CallAllowed, CallBody DEF Calls, Is
  <2>2. PublishedFor(a.req, commitments)
    BY <1>4, <2>1, Known DEF Holding, RevealHolds, Success
  <2>3. /\ a.req.round_id = s.round /\ a.req.opening = Opening(b, s.nonce)
        /\ Evidence(a.req.opening).builder_id = b
    BY <2>1 DEF Opening, Evidence, EvidenceOf
  <2>4. QED
    BY <2>2, <2>3 DEF PublishedFor
<1>5. QED
  BY <1>2, <1>3, <1>4, SessionLeaves DEF AfterReveal

(* A round that is reported closed is closed. *)
LEMMA AfterCloseOK ==
    ASSUME SessionsMayCall, IInv, NEW b \in Builders, Is(b, "close"),
           SessionOK(b, session[b], rounds, commitments),
           NEW p \in Handlers, At(p, "reply"), handler[p].req = CallOf(b),
           Polled(handler[p], rounds)
    PROVE  SessionOK(b, After(session[b], handler[p]), rounds, commitments)
<1> DEFINE s == session[b]
           a == handler[p]
           t == [s EXCEPT !.pc = "facts"]
<1>1. s \in Session /\ s.pc = "close"
  BY DEF Is, SessionOK
<1>2. After(s, a) = AfterClosePoll(s, a.reply, a.row)
  BY <1>1 DEF After
<1>3. ASSUME a.reply = "ok", PhaseOf(a.row) = "closed"
      PROVE  SessionOK(b, t, rounds, commitments)
  <2>1. /\ a.req \in StatusRequests
        /\ a.req = [op |-> "status", round_id |-> s.round]
    BY CallAllowed, CallBody DEF Calls, Is
  <2>2. a.row.closed_at # None
    BY <1>3 DEF PhaseOf
  <2>3. rounds[s.round].closed_at # None
    BY <1>3, <2>1, <2>2 DEF Polled
  <2>4. t \in Session /\ t.pc = "facts" /\ t.nonce = s.nonce /\ t.round = s.round
    BY <1>1 DEF Session, SessionPC
  <2> HIDE DEF t
  <2>5. QED
    BY <1>1, <2>3, <2>4 DEF SessionOK, Joined
<1>4. QED
  BY <1>2, <1>3, SessionLeaves DEF AfterClosePoll

(* Whatever a session is answered, it goes on with what is true. *)
LEMMA AfterOK ==
    ASSUME SessionsMayCall, IInv, LInv, NEW b \in Builders, Calls(b),
           SessionOK(b, session[b], rounds, commitments),
           NEW p \in Handlers, At(p, "reply"), handler[p].req = CallOf(b),
           Polled(handler[p], rounds)
    PROVE  SessionOK(b, After(session[b], handler[p]), rounds, commitments)
  BY AfterCommitOK, AfterPollOK, AfterRevealOK, AfterCloseOK DEF Calls, Is

(* Where evidence has been stored, the session stays. *)
LEMMA AfterStays ==
    ASSUME NEW s \in Session, NEW a
    PROVE  /\ s.pc = "close" => /\ After(s, a).round = s.round
                                /\ After(s, a).pc \in {"close", "facts", "failed"}
           /\ s.pc = "reveal" /\ a.reply = "created" =>
                After(s, a).round = s.round /\ After(s, a).pc = "close"
<1>1. CASE s.pc = "close"
  <2>1. After(s, a) = AfterClosePoll(s, a.reply, a.row)
    BY <1>1 DEF After
  <2>2. \A pc : [s EXCEPT !.pc = pc].pc = pc /\ [s EXCEPT !.pc = pc].round = s.round
    BY DEF Session
  <2>3. QED
    BY <1>1, <2>1, <2>2 DEF AfterClosePoll, GivesUp
<1>2. CASE s.pc = "reveal" /\ a.reply = "created"
  <2>1. After(s, a) = [s EXCEPT !.pc = "close"]
    BY <1>2 DEF After, AfterReveal
  <2>2. QED
    BY <1>2, <2>1 DEF Session
<1>3. QED
  BY <1>1, <1>2

-----------------------------------------------------------------------------
(* The steps. *)

(* What a session knows stays true, whatever the server does. *)
LEMMA SessionsLater ==
    ASSUME IInv, LInv, Writes, NEW b, NEW s, SessionOK(b, s, rounds, commitments)
    PROVE  SessionOK(b, s, rounds', commitments')
<1>1. Later(rounds, commitments, rounds', commitments')
  BY WritesKeep DEF LInv
<1>2. s.pc \in Joined => s.round \in DOMAIN rounds /\ s.round \in DOMAIN rounds'
  BY <1>1 DEF SessionOK, Later
<1>3. \A r, c, d : Published(commitments, r, c, d) => Published(commitments', r, c, d)
  BY <1>1 DEF Later, Published
<1>4. \A r, e : Stored(commitments, r, e) => Stored(commitments', r, e)
  BY <1>1, NoneAssumption DEF Later, Stored
<1>5. s.pc \in {"facts", "done"} => rounds'[s.round].closed_at # None
  BY <1>2, ClosedStays DEF SessionOK, Joined
<1>6. QED
  BY <1>2, <1>3, <1>4, <1>5 DEF SessionOK

(* One handler moves, the others know what they knew. *)
LEMMA PolledKept ==
    ASSUME IInv, LInv, SInv, Writes, NEW p \in Handlers, NEW t, Becomes(p, t),
           Polled(t, rounds')
    PROVE  \A q \in Handlers : Polled(handler'[q], rounds')
<1> SUFFICES ASSUME NEW q \in Handlers PROVE Polled(handler'[q], rounds')
  OBVIOUS
<1>1. DOMAIN handler = Handlers
  BY DEF IInv
<1>2. CASE q = p
  BY <1>1, <1>2 DEF Becomes
<1>3. CASE q # p
  <2>1. handler'[q] = handler[q]
    BY <1>1, <1>3 DEF Becomes
  <2>2. QED
    BY <2>1, PolledLater DEF SInv
<1>4. QED
  BY <1>2, <1>3

(* The next local states of the handlers. *)
LEMMA HandlersAfter ==
    ASSUME IInv, NEW p \in Handlers, NEW t, Becomes(p, t)
    PROVE  handler'[p] = t /\ \A q \in Handlers : q # p => handler'[q] = handler[q]
  BY DEF IInv, Becomes

(* A call is what its session makes it. *)
LEMMA CallKept ==
    ASSUME NEW b \in Builders, session'[b] = session[b]
    PROVE  CallOf(b)' = CallOf(b) /\ Calls(b)' = Calls(b)
  BY DEF CallOf, Calls

(* A statement executes in a slot that is busy, and is not a failure. *)
LEMMA ServerIsBusy ==
    ASSUME NEW p \in Handlers, ServerStep(p)
    PROVE  handler[p].pc # "idle" /\ failures' = failures
<1>1. CASE Commit(p)
  BY <1>1 DEF Commit, At, OnlyReads, LookupDigest, RelatedRound, SelectActive,
              SelectMyCommitment, InsertRound, FetchCreated, FetchOpen, InsertCommitment,
              CountThreshold, StartReveal, RereadJoined
<1>2. CASE Reveal(p)
  BY <1>2 DEF Reveal, At, OnlyReads, FindRound, FindCommitment, StoreEvidence, AfterStore
<1>3. CASE Poll(p)
  BY <1>3 DEF Poll, At, OnlyReads, FindStatus, StatusAt, ReloadStatus, ScanOpen, NextOpen
<1>4. CASE Advance(p)
  BY <1>4 DEF Advance, At, OnlyReads, CountCommits, CountReveals, OpenReveal, Reread,
              CloseRound
<1>5. QED
  BY <1>1, <1>2, <1>3, <1>4 DEF ServerStep

(* A session waits for its slot through every statement of the server. *)
LEMMA WaitingKept ==
    ASSUME IInv, SInv, UNCHANGED client, NEW p \in Handlers, NEW t, Becomes(p, t),
           Goes(handler[p], t)
    PROVE  WaitingOK'
<1>1. session' = session /\ waiting' = waiting
  BY DEF client
<1>2. ASSUME NEW b \in Builders, waiting'[b] # None
      PROVE  /\ Calls(b)' /\ handler'[waiting'[b]].req = CallOf(b)'
             /\ handler'[waiting'[b]].pc # "idle"
  <2>1. /\ waiting[b] \in Handlers /\ Calls(b)
        /\ handler[waiting[b]].req = CallOf(b) /\ handler[waiting[b]].pc # "idle"
    BY <1>1, <1>2 DEF SInv, WaitingOK
  <2>2. handler'[waiting[b]].req = CallOf(b) /\ handler'[waiting[b]].pc # "idle"
    BY <2>1, HandlersAfter DEF Goes
  <2>3. QED
    BY <1>1, <2>1, <2>2, CallKept
<1>3. QED
  BY <1>1, <1>2 DEF SInv, WaitingOK

(* Who stores evidence without a failure is waited for by its builder. *)
LEMMA ServerSettles ==
    ASSUME SessionsMayCall, IInv, LInv, SInv, Unfailing, UNCHANGED client,
           NEW p \in Handlers, handler[p].pc # "idle", StepServes(p)
    PROVE  Unfailing'
<1>1. PICK t : Becomes(p, t) /\ Serving(handler[p], t, commitments, commitments', rounds')
  BY DEF StepServes
<1>2. session' = session /\ waiting' = waiting /\ late' = late
  BY DEF client
<1>3. handler'[p] = t /\ \A q \in Handlers : q # p => handler'[q] = handler[q]
  BY <1>1, HandlersAfter
<1>4. ASSUME NEW q \in Handlers, handler'[q].pc # "idle"
      PROVE  \E b \in Builders : waiting'[b] = q
  BY <1>2, <1>3, <1>4 DEF Unfailing
<1>5. ASSUME NEW b \in Builders, NEW r \in Nat, Stored(commitments', r, EvidenceOf(b))
      PROVE  Settles(b, r)'
  <2>1. CASE Stored(commitments, r, EvidenceOf(b))
    <3>1. Settles(b, r)
      BY <2>1 DEF Unfailing
    <3>2. waiting[b] # None /\ Past(handler[waiting[b]]) => Past(handler'[waiting[b]])
      BY <1>1, <1>3 DEF Serving, SInv, WaitingOK
    <3>3. QED
      BY <1>2, <3>1, <3>2 DEF Settles
  <2>2. CASE /\ handler[p].req \in RevealRequests
             /\ r = handler[p].req.round_id /\ EvidenceOf(b) = Evidence(handler[p].req.opening)
             /\ Past(t)
    <3>1. PICK c \in Builders : waiting[c] = p
      BY DEF Unfailing
    <3>2. p # None
      BY SessionAssumption
    <3>3. Calls(c) /\ handler[p].req = CallOf(c) /\ SessionOK(c, session[c], rounds, commitments)
      BY <3>1, <3>2 DEF SInv, WaitingOK
    <3>4. Is(c, "reveal")
      BY <2>2, <3>3, CallAllowed
    <3>5. handler[p].req.round_id = session[c].round
          /\ handler[p].req.opening = Opening(c, session[c].nonce)
      BY <3>3, <3>4, CallBody
    <3>6. b = c
      BY <2>2, <3>5 DEF Opening, Evidence, EvidenceOf
    <3>7. QED
      BY <1>2, <1>3, <2>2, <3>1, <3>2, <3>4, <3>5, <3>6 DEF Settles, Is
  <2>3. QED
    BY <1>1, <1>5, <2>1, <2>2 DEF Serving
<1>6. QED
  BY <1>2, <1>4, <1>5 DEF Unfailing

(* A statement of the server. *)
LEMMA ServerSInv ==
    ASSUME SessionsMayCall, IInv, LInv, SInv, Writes, UNCHANGED client,
           NEW p \in Handlers, ServerStep(p)
    PROVE  SInv'
<1>1. StepServes(p) /\ handler[p].pc # "idle" /\ failures' = failures
  BY ServerServes, ServerIsBusy DEF SInv
<1>2. PICK t : Becomes(p, t) /\ Serving(handler[p], t, commitments, commitments', rounds')
  BY <1>1 DEF StepServes
<1>3. session' = session /\ late' = late /\ losses' = losses
  BY DEF client
<1>4. \A b \in Builders : SessionOK(b, session'[b], rounds', commitments')
  BY <1>3, SessionsLater DEF SInv
<1>5. \A q \in Handlers : Polled(handler'[q], rounds')
  BY <1>2, PolledKept DEF Serving
<1>6. WaitingOK'
  BY <1>2, WaitingKept DEF Serving
<1>7. losses' = 0 /\ failures' = 0 => Unfailing'
  BY <1>1, <1>3, ServerSettles DEF SInv
<1>8. QED
  BY <1>3, <1>4, <1>5, <1>6, <1>7 DEF SInv

(* A request fails in the server: from then on builds may count twice. *)
LEMMA FailSInv ==
    ASSUME IInv, LInv, SInv, Writes, UNCHANGED client, NEW p \in Handlers, Fail(p)
    PROVE  SInv'
<1>1. commitments' = commitments /\ rounds' = rounds
  BY FailServes
<1>2. PICK t : Becomes(p, t) /\ Goes(handler[p], t) /\ Polled(t, rounds)
  BY FailServes
<1>3. session' = session /\ late' = late /\ losses' = losses
  BY DEF client
<1>4. \A q \in Handlers : Polled(handler'[q], rounds')
  BY <1>1, <1>2, PolledKept
<1>5. WaitingOK'
  BY <1>2, WaitingKept
<1>6. failures' # 0
  BY DEF Fail, IInv
<1>7. QED
  BY <1>1, <1>3, <1>4, <1>5, <1>6 DEF SInv

(* Time passes. *)
LEMMA TickSInv ==
    ASSUME SInv, UNCHANGED client, Tick
    PROVE  SInv'
<1>1. /\ handler' = handler /\ rounds' = rounds /\ commitments' = commitments
      /\ failures' = failures
      /\ session' = session /\ waiting' = waiting /\ late' = late /\ losses' = losses
  BY DEF client, Tick, tables
<1>2. WaitingOK' /\ (Unfailing => Unfailing')
  BY <1>1 DEF SInv, WaitingOK, Unfailing, Settles, CallOf, Calls
<1>3. QED
  BY <1>1, <1>2 DEF SInv

(* A request arrives in a free slot. *)
LEMMA ArrivalIs ==
    ASSUME IInv, LInv, SInv, FreeSlots # {}, NEW q \in Requests, Arrive(Slot, q)
    PROVE  /\ Slot \in Handlers /\ Slot # None /\ handler[Slot].pc = "idle"
           /\ handler'[Slot].req = q /\ handler'[Slot].pc # "idle"
           /\ \A p \in Handlers : p # Slot => handler'[p] = handler[p]
           /\ \A p \in Handlers : Polled(handler'[p], rounds')
           /\ rounds' = rounds /\ commitments' = commitments /\ failures' = failures
<1> DEFINE t == [Idle EXCEPT !.pc = FirstStep(q), !.req = q, !.now = clock,
                             !.seen = VisibleRounds]
<1>1. Slot \in FreeSlots
  BY DEF Slot
<1>2. Slot \in Handlers /\ Slot # None /\ handler[Slot].pc = "idle"
  BY <1>1, SessionAssumption DEF FreeSlots, At
<1>3. t.pc = FirstStep(q) /\ t.req = q /\ t.reply = "none"
  BY DEF Idle
<1>4. /\ t.pc \in {"lookup", "find_round", "find_status", "scan"}
      /\ q \in StatusRequests => t.pc = "find_status"
  BY <1>3, RequestsAssumption DEF FirstStep
<1> HIDE DEF t
<1>5. t.pc # "idle" /\ Polled(t, rounds)
  BY <1>3, <1>4 DEF Polled, PollPCs, AdvancePCs
<1>6. Becomes(Slot, t) /\ OnlyReads
  BY DEF Arrive, t
<1>7. /\ rounds' = rounds /\ commitments' = commitments /\ failures' = failures
      /\ UNCHANGED tables
  BY <1>6 DEF OnlyReads, tables
<1>8. /\ handler'[Slot] = t
      /\ \A p \in Handlers : p # Slot => handler'[p] = handler[p]
  BY <1>2, <1>6, HandlersAfter
<1>9. \A p \in Handlers : Polled(handler'[p], rounds')
  BY <1>2, <1>5, <1>6, <1>7, PolledKept DEF Writes
<1>10. QED
  BY <1>2, <1>3, <1>5, <1>7, <1>8, <1>9

(* An answer frees its slot. *)
LEMMA ResponseIs ==
    ASSUME IInv, LInv, SInv, NEW p \in Handlers, Respond(p)
    PROVE  /\ handler[p].pc = "reply"
           /\ handler'[p].pc = "idle"
           /\ \A q \in Handlers : q # p => handler'[q] = handler[q]
           /\ \A q \in Handlers : Polled(handler'[q], rounds')
           /\ rounds' = rounds /\ commitments' = commitments /\ failures' = failures
<1>1. Becomes(p, Idle) /\ OnlyReads /\ handler[p].pc = "reply"
  BY DEF Respond, At
<1>2. /\ rounds' = rounds /\ commitments' = commitments /\ failures' = failures
      /\ UNCHANGED tables
  BY <1>1 DEF OnlyReads, tables
<1>3. Idle.pc = "idle" /\ Polled(Idle, rounds)
  BY NoneAssumption DEF Idle, Polled, Requests
<1>4. handler'[p] = Idle /\ \A q \in Handlers : q # p => handler'[q] = handler[q]
  BY <1>1, HandlersAfter
<1>5. \A q \in Handlers : Polled(handler'[q], rounds')
  BY <1>1, <1>2, <1>3, PolledKept DEF Writes
<1>6. QED
  BY <1>1, <1>2, <1>3, <1>4, <1>5

(* What becomes of the session and of the others. *)
LEMMA BecomesIs ==
    ASSUME SInv, NEW b \in Builders, NEW s \in Session, SessionBecomes(b, s)
    PROVE  /\ session'[b] = s /\ session' \in [Builders -> Session]
           /\ \A c \in Builders : c # b => session'[c] = session[c]
  BY DEF SInv, SessionBecomes

LEMMA WaitsIs ==
    ASSUME SInv, NEW b \in Builders, NEW p \in Handlers \cup {None}, WaitsFor(b, p)
    PROVE  /\ waiting'[b] = p /\ waiting' \in [Builders -> Handlers \cup {None}]
           /\ \A c \in Builders : c # b => waiting'[c] = waiting[c]
  BY DEF SInv, WaitingOK, WaitsFor

(* A call is sent to a free slot, where nobody else waits. *)
LEMMA SendSInv ==
    ASSUME SessionsMayCall, IInv, LInv, SInv, NEW b \in Builders, Send(b)
    PROVE  SInv'
<1>1. /\ Calls(b) /\ waiting[b] = None /\ FreeSlots # {}
      /\ Arrive(Slot, CallOf(b)) /\ WaitsFor(b, Slot)
      /\ session' = session /\ late' = late /\ losses' = losses
  BY DEF Send
<1>2. CallOf(b) \in Requests
  BY <1>1, CallAllowed DEF SInv
<1>3. /\ Slot \in Handlers /\ Slot # None /\ handler[Slot].pc = "idle"
      /\ handler'[Slot].req = CallOf(b) /\ handler'[Slot].pc # "idle"
      /\ \A p \in Handlers : p # Slot => handler'[p] = handler[p]
      /\ \A p \in Handlers : Polled(handler'[p], rounds')
      /\ rounds' = rounds /\ commitments' = commitments /\ failures' = failures
  BY <1>1, <1>2, ArrivalIs
<1>4. /\ waiting'[b] = Slot /\ waiting' \in [Builders -> Handlers \cup {None}]
      /\ \A c \in Builders : c # b => waiting'[c] = waiting[c]
  BY <1>1, <1>3, WaitsIs
<1>5. \A c \in Builders : waiting[c] # None => waiting[c] \in Handlers /\ waiting[c] # Slot
  BY <1>3 DEF SInv, WaitingOK
<1>6. WaitingOK'
  <2>1. ASSUME NEW c \in Builders, waiting'[c] # None
        PROVE  /\ Calls(c)' /\ handler'[waiting'[c]].req = CallOf(c)'
               /\ handler'[waiting'[c]].pc # "idle"
    <3>1. CallOf(c)' = CallOf(c) /\ Calls(c)' = Calls(c)
      BY <1>1, CallKept
    <3>2. CASE c = b
      BY <1>1, <1>3, <1>4, <3>1, <3>2
    <3>3. CASE c # b
      <4>1. waiting'[c] = waiting[c] /\ handler'[waiting[c]] = handler[waiting[c]]
        BY <1>3, <1>4, <1>5, <2>1, <3>3
      <4>2. QED
        BY <2>1, <3>1, <4>1 DEF SInv, WaitingOK
    <3>4. QED
      BY <3>2, <3>3
  <2>2. ASSUME NEW c \in Builders, NEW d \in Builders, waiting'[c] # None,
               waiting'[c] = waiting'[d]
        PROVE  c = d
    BY <1>4, <1>5, <2>2 DEF SInv, WaitingOK
  <2>3. QED
    BY <1>4, <2>1, <2>2 DEF WaitingOK
<1>7. losses' = 0 /\ failures' = 0 => Unfailing'
  <2> SUFFICES ASSUME Unfailing PROVE Unfailing'
    BY <1>1, <1>3 DEF SInv
  <2>1. ASSUME NEW p \in Handlers, handler'[p].pc # "idle"
        PROVE  \E c \in Builders : waiting'[c] = p
    <3>1. CASE p = Slot
      BY <1>4, <3>1
    <3>2. CASE p # Slot
      <4>1. PICK c \in Builders : waiting[c] = p
        BY <1>3, <2>1, <3>2 DEF Unfailing
      <4>2. c # b
        BY <1>1, <4>1, SessionAssumption
      <4>3. QED
        BY <1>4, <4>1, <4>2
    <3>3. QED
      BY <3>1, <3>2
  <2>2. ASSUME NEW c \in Builders, NEW r \in Nat, Stored(commitments', r, EvidenceOf(c))
        PROVE  Settles(c, r)'
    <3>1. Settles(c, r)
      BY <1>3, <2>2 DEF Unfailing
    <3>2. ASSUME waiting[c] # None
          PROVE  waiting'[c] = waiting[c] /\ handler'[waiting[c]] = handler[waiting[c]]
      BY <1>1, <1>3, <1>4, <1>5, <3>2
    <3>3. QED
      BY <1>1, <3>1, <3>2 DEF Settles
  <2>3. QED
    BY <1>1, <2>1, <2>2 DEF Unfailing
<1>8. QED
  BY <1>1, <1>3, <1>6, <1>7 DEF SInv

(* A session reads the answer to its call, and leaves the slot. *)
LEMMA ReceiveSInv ==
    ASSUME SessionsMayCall, IInv, LInv, SInv, NEW b \in Builders, Receive(b)
    PROVE  SInv'
<1> DEFINE p == waiting[b]
           s == session[b]
<1>1. /\ p # None /\ Respond(p) /\ WaitsFor(b, None)
      /\ late' = late /\ losses' = losses
      /\ \/ SessionBecomes(b, After(s, handler[p]))
         \/ handler[p].reply = "internal" /\ session' = session
  BY DEF Receive
<1>2. /\ p \in Handlers /\ Calls(b) /\ handler[p].req = CallOf(b)
      /\ SessionOK(b, s, rounds, commitments) /\ s \in Session
      /\ Polled(handler[p], rounds)
  BY <1>1 DEF SInv, WaitingOK, SessionOK
<1>3. /\ handler[p].pc = "reply" /\ handler'[p].pc = "idle"
      /\ \A q \in Handlers : q # p => handler'[q] = handler[q]
      /\ \A q \in Handlers : Polled(handler'[q], rounds')
      /\ rounds' = rounds /\ commitments' = commitments /\ failures' = failures
  BY <1>1, <1>2, ResponseIs
<1>4. /\ waiting'[b] = None /\ waiting' \in [Builders -> Handlers \cup {None}]
      /\ \A c \in Builders : c # b => waiting'[c] = waiting[c]
  BY <1>1, WaitsIs
<1>5. SessionOK(b, After(s, handler[p]), rounds, commitments)
  BY <1>2, <1>3, AfterOK DEF At
<1>6. /\ session' \in [Builders -> Session]
      /\ \A c \in Builders : c # b => session'[c] = session[c]
      /\ \/ session'[b] = After(s, handler[p])
         \/ handler[p].reply = "internal" /\ session'[b] = s
  <2>1. After(s, handler[p]) \in Session
    BY <1>5 DEF SessionOK
  <2>2. QED
    BY <1>1, <2>1, BecomesIs DEF SInv
<1>7. \A c \in Builders : SessionOK(c, session'[c], rounds', commitments')
  BY <1>2, <1>3, <1>5, <1>6 DEF SInv
<1>8. \A c \in Builders : c # b /\ waiting[c] # None => waiting[c] \in Handlers /\ waiting[c] # p
  BY <1>1 DEF SInv, WaitingOK
<1>9. WaitingOK'
  <2>1. ASSUME NEW c \in Builders, waiting'[c] # None
        PROVE  /\ Calls(c)' /\ handler'[waiting'[c]].req = CallOf(c)'
               /\ handler'[waiting'[c]].pc # "idle"
    <3>1. c # b /\ waiting'[c] = waiting[c]
      BY <1>4, <2>1
    <3>2. CallOf(c)' = CallOf(c) /\ Calls(c)' = Calls(c)
      BY <1>6, <3>1, CallKept
    <3>3. handler'[waiting[c]] = handler[waiting[c]]
      BY <1>3, <1>8, <2>1, <3>1
    <3>4. QED
      BY <2>1, <3>1, <3>2, <3>3 DEF SInv, WaitingOK
  <2>2. ASSUME NEW c \in Builders, NEW d \in Builders, waiting'[c] # None,
               waiting'[c] = waiting'[d]
        PROVE  c = d
    BY <1>4, <2>2 DEF SInv, WaitingOK
  <2>3. QED
    BY <1>4, <2>1, <2>2 DEF WaitingOK
<1>10. losses' = 0 /\ failures' = 0 => Unfailing'
  <2> SUFFICES ASSUME Unfailing PROVE Unfailing'
    BY <1>1, <1>3 DEF SInv
  <2>1. ASSUME NEW q \in Handlers, handler'[q].pc # "idle"
        PROVE  \E c \in Builders : waiting'[c] = q
    <3>1. q # p
      BY <1>3, <2>1
    <3>2. PICK c \in Builders : waiting[c] = q
      BY <1>3, <2>1, <3>1 DEF Unfailing
    <3>3. QED
      BY <1>4, <3>1, <3>2
  <2>2. ASSUME NEW c \in Builders, NEW r \in Nat, Stored(commitments', r, EvidenceOf(c))
        PROVE  Settles(c, r)'
    <3>1. Settles(c, r)
      BY <1>3, <2>2 DEF Unfailing
    <3>2. CASE c # b
      <4>1. session'[c] = session[c] /\ waiting'[c] = waiting[c]
            /\ (waiting[c] # None => handler'[waiting[c]] = handler[waiting[c]])
        BY <1>3, <1>4, <1>6, <1>8, <3>2
      <4>2. QED
        BY <3>1, <4>1 DEF Settles
    <3>3. CASE c = b
      <4>1. s.round = r /\ (s.pc = "close" \/ (s.pc = "reveal" /\ handler[p].reply = "created"))
        <5>1. s.pc \in {"commit", "poll", "reveal", "close"}
          BY <1>2 DEF Calls
        <5>2. s.round = r /\ (s.pc = "close" \/ (s.pc = "reveal" /\ Past(handler[p])))
          BY <3>1, <3>3, <5>1 DEF Settles
        <5>3. Past(handler[p]) => handler[p].reply = "created"
          BY <1>3 DEF Past, AdvancePCs
        <5>4. QED
          BY <5>2, <5>3
      <4>2. session'[b].round = r /\ session'[b].pc \in {"close", "facts", "failed"}
        BY <1>2, <1>6, <4>1, AfterStays
      <4>3. QED
        BY <3>3, <4>2 DEF Settles
    <3>4. QED
      BY <3>2, <3>3
  <2>3. QED
    BY <1>1, <2>1, <2>2 DEF Unfailing
<1>11. QED
  BY <1>1, <1>3, <1>6, <1>7, <1>9, <1>10 DEF SInv

(* A step of a session that waits for nothing and calls nothing. *)
LEMMA AloneSInv ==
    ASSUME SInv, NEW b \in Builders, waiting[b] = None, NEW s, SessionBecomes(b, s),
           SessionOK(b, s, rounds, commitments), UNCHANGED <<vars, waiting, late, losses>>,
           s.round = session[b].round \/ session[b].pc = "draw",
           session[b].pc = "facts" => s.pc = "done",
           session[b].pc \in {"draw", "facts"}
    PROVE  SInv'
<1>1. /\ handler' = handler /\ rounds' = rounds /\ commitments' = commitments
      /\ failures' = failures /\ waiting' = waiting /\ late' = late /\ losses' = losses
  BY DEF vars
<1>2. /\ session'[b] = s /\ session' \in [Builders -> Session]
      /\ \A c \in Builders : c # b => session'[c] = session[c]
  BY BecomesIs DEF SessionOK
<1>3. \A c \in Builders : SessionOK(c, session'[c], rounds', commitments')
  BY <1>1, <1>2 DEF SInv
<1>4. WaitingOK'
  <2>1. ASSUME NEW c \in Builders, waiting[c] # None
        PROVE  CallOf(c)' = CallOf(c) /\ Calls(c)' = Calls(c)
    BY <1>2, <2>1, CallKept
  <2>2. QED
    BY <1>1, <2>1 DEF SInv, WaitingOK
<1>5. ASSUME Unfailing
      PROVE  Unfailing'
  <2>1. ASSUME NEW c \in Builders, NEW r \in Nat, Stored(commitments', r, EvidenceOf(c))
        PROVE  Settles(c, r)'
    <3>1. Settles(c, r)
      BY <1>1, <1>5, <2>1 DEF Unfailing
    <3>2. CASE c = b
      <4>1. session[b].round = r /\ session[b].pc = "facts"
        BY <3>1, <3>2 DEF Settles
      <4>2. s.round = r /\ s.pc = "done"
        BY <4>1
      <4>3. QED
        BY <1>2, <3>2, <4>2 DEF Settles
    <3>3. CASE c # b
      BY <1>1, <1>2, <3>1, <3>3 DEF Settles
    <3>4. QED
      BY <3>2, <3>3
  <2>2. QED
    BY <1>1, <1>5, <2>1 DEF Unfailing
<1>6. QED
  BY <1>1, <1>2, <1>3, <1>4, <1>5 DEF SInv

(* A new nonce. *)
LEMMA DrawSInv ==
    ASSUME SInv, NEW b \in Builders, Draw(b)
    PROVE  SInv'
<1> DEFINE s == session[b]
           t == [s EXCEPT !.pc = "commit", !.nonce = @ + 1]
<1>1. /\ s.pc = "draw" /\ s.nonce < MaxNonces /\ SessionBecomes(b, t)
      /\ UNCHANGED <<vars, waiting, late, losses>>
  BY DEF Draw, Is
<1>2. SessionOK(b, s, rounds, commitments) /\ s \in Session /\ s.nonce \in Nat
  BY DEF SInv, SessionOK, Session
<1>3. s.nonce + 1 \in Nat /\ s.nonce + 1 \in 1 .. MaxNonces /\ s.nonce + 1 \in 0 .. MaxNonces
  BY <1>1, <1>2, SessionAssumption
<1>4. t \in Session /\ t.pc = "commit" /\ t.nonce = s.nonce + 1
  BY <1>2, <1>3 DEF Session, SessionPC
<1>5. waiting[b] = None
  BY <1>1 DEF SInv, WaitingOK, Calls
<1> HIDE DEF t
<1>6. SessionOK(b, t, rounds, commitments)
  BY <1>3, <1>4 DEF SessionOK, Joined
<1>7. QED
  BY <1>1, <1>5, <1>6, AloneSInv

(* The facts of the round, which has closed. *)
LEMMA FetchFactsSInv ==
    ASSUME IInv, LInv, SInv, NEW b \in Builders, FetchFacts(b)
    PROVE  SInv'
<1> DEFINE s == session[b]
           facts == ListRound(s.round)
           t == [s EXCEPT !.pc = "done", !.facts = facts]
<1>1. /\ s.pc = "facts" /\ SessionBecomes(b, t)
      /\ UNCHANGED <<vars, waiting, late, losses>>
  BY DEF FetchFacts, Is
<1>2. /\ SessionOK(b, s, rounds, commitments) /\ s \in Session
      /\ Published(commitments, s.round, b, Opening(b, s.nonce))
  BY <1>1 DEF SInv, SessionOK
<1>3. \A i \in RevealedOf(s.round) :
        /\ i \in DOMAIN commitments /\ commitments[i].round_id = s.round
        /\ commitments[i].evidence_id # None
        /\ evidences[commitments[i].evidence_id] = Evidence(commitments[i].digest)
        /\ commitments[i].digest \in Digests
  <2>1. \A i \in DOMAIN commitments : commitments[i] \in Commitment
    BY DEF IInv, CommitmentsOK
  <2>2. \A i \in DOMAIN commitments : commitments[i].digest \in Digests
    BY <2>1 DEF Commitment
  <2>3. Linked(commitments, evidences)
    BY DEF LInv, TablesOK
  <2>4. QED
    BY <2>2, <2>3 DEF Linked, RevealedOf, CommitmentsOf
<1>4. /\ facts \subseteq {Evidence(d) : d \in Digests}
      /\ \A e \in facts : Stored(commitments, s.round, e)
  BY <1>3 DEF ListRound, Stored
<1>5. EvidenceOf(b) \in facts
  <2>1. PICK i \in RevealedOf(s.round) : commitments[i].digest = Opening(b, s.nonce)
    BY <1>2 DEF Published, RevealedOf, CommitmentsOf
  <2>2. evidences[commitments[i].evidence_id] = EvidenceOf(b)
    BY <1>3, <2>1 DEF Evidence, Opening
  <2>3. QED
    BY <2>2 DEF ListRound
<1> HIDE DEF facts
<1>6. t \in Session /\ t.pc = "done" /\ t.nonce = s.nonce /\ t.round = s.round /\ t.facts = facts
  BY <1>2, <1>4 DEF Session, SessionPC
<1>7. waiting[b] = None
  BY <1>1 DEF SInv, WaitingOK, Calls
<1> HIDE DEF t
<1>8. SessionOK(b, t, rounds, commitments)
  BY <1>1, <1>2, <1>4, <1>5, <1>6 DEF SessionOK, Joined
<1>9. QED
  BY <1>1, <1>6, <1>7, <1>8, AloneSInv

(* A connection fails. *)
LEMMA LoseSInv ==
    ASSUME SessionsMayCall, IInv, SInv, NEW b \in Builders, LoseRequest(b) \/ LoseAnswer(b)
    PROVE  SInv'
<1>1. /\ losses < MaxLosses /\ losses' = losses + 1
      /\ SessionBecomes(b, GivesUp(session[b])) \/ session' = session
      /\ handler' = handler /\ rounds' = rounds /\ commitments' = commitments
  BY DEF LoseRequest, LoseAnswer, MayLose, RetriesOrGivesUp, vars
<1>2. losses' \in 0 .. MaxLosses /\ losses' # 0
  BY <1>1, SessionAssumption DEF SInv
<1>3. /\ SessionOK(b, session[b], rounds, commitments)
      /\ SessionOK(b, GivesUp(session[b]), rounds, commitments)
  BY SessionLeaves DEF SInv
<1>4. /\ session' \in [Builders -> Session]
      /\ \A c \in Builders : c # b => session'[c] = session[c]
      /\ session'[b] \in {GivesUp(session[b]), session[b]}
  <2>1. GivesUp(session[b]) \in Session
    BY <1>3 DEF SessionOK
  <2>2. QED
    BY <1>1, <2>1, BecomesIs DEF SInv
<1>5. \A c \in Builders : SessionOK(c, session'[c], rounds', commitments')
  BY <1>1, <1>3, <1>4 DEF SInv
<1>6. /\ waiting' \in [Builders -> Handlers \cup {None}] /\ waiting'[b] = None
      /\ \A c \in Builders : c # b => waiting'[c] = waiting[c]
  <2>1. CASE LoseRequest(b)
    BY <2>1 DEF LoseRequest, SInv, WaitingOK
  <2>2. CASE LoseAnswer(b)
    BY <2>2, WaitsIs DEF LoseAnswer
  <2>3. QED
    BY <2>1, <2>2
<1>7. WaitingOK'
  <2>1. ASSUME NEW c \in Builders, waiting'[c] # None
        PROVE  /\ c # b /\ waiting'[c] = waiting[c]
               /\ CallOf(c)' = CallOf(c) /\ Calls(c)' = Calls(c)
    BY <1>4, <1>6, <2>1, CallKept
  <2>2. QED
    BY <1>1, <1>6, <2>1 DEF SInv, WaitingOK
<1>8. late' \subseteq Requests
  <2>1. CASE LoseRequest(b)
    <3>1. Calls(b)
      BY <2>1 DEF LoseRequest, MayLose, Calls
    <3>2. CallOf(b) \in Requests
      BY <1>3, <3>1, CallAllowed
    <3>3. QED
      BY <2>1, <3>2 DEF LoseRequest, SInv
  <2>2. CASE LoseAnswer(b)
    BY <2>2 DEF LoseAnswer, SInv
  <2>3. QED
    BY <2>1, <2>2
<1>9. QED
  BY <1>1, <1>2, <1>4, <1>5, <1>7, <1>8 DEF SInv

(* A request arrives that nobody waits for any more. *)
LEMMA ArriveLateSInv ==
    ASSUME IInv, LInv, SInv, ArriveLate
    PROVE  SInv'
<1>1. PICK call \in late :
        /\ FreeSlots # {} /\ Arrive(Slot, call) /\ late' = late \ {call}
        /\ session' = session /\ waiting' = waiting /\ losses' = losses
  BY DEF ArriveLate
<1>2. call \in Requests
  BY DEF SInv
<1>3. /\ Slot \in Handlers /\ Slot # None /\ handler[Slot].pc = "idle"
      /\ \A p \in Handlers : p # Slot => handler'[p] = handler[p]
      /\ \A p \in Handlers : Polled(handler'[p], rounds')
      /\ rounds' = rounds /\ commitments' = commitments /\ failures' = failures
  BY <1>1, <1>2, ArrivalIs
<1>4. WaitingOK'
  <2>1. ASSUME NEW c \in Builders, waiting[c] # None
        PROVE  /\ handler'[waiting[c]] = handler[waiting[c]]
               /\ CallOf(c)' = CallOf(c) /\ Calls(c)' = Calls(c)
    BY <1>1, <1>3, <2>1, CallKept DEF SInv, WaitingOK
  <2>2. QED
    BY <1>1, <2>1 DEF SInv, WaitingOK
<1>5. ~Unfailing
  BY DEF Unfailing
<1>6. QED
  BY <1>1, <1>3, <1>4, <1>5 DEF SInv

(* An answer that nobody waits for. *)
LEMMA DropSInv ==
    ASSUME IInv, LInv, SInv, NEW p \in Handlers, Drop(p)
    PROVE  SInv'
<1>1. /\ Respond(p) /\ \A b \in Builders : waiting[b] # p
      /\ session' = session /\ waiting' = waiting /\ late' = late /\ losses' = losses
  BY DEF Drop, client
<1>2. /\ handler[p].pc = "reply"
      /\ \A q \in Handlers : q # p => handler'[q] = handler[q]
      /\ \A q \in Handlers : Polled(handler'[q], rounds')
      /\ rounds' = rounds /\ commitments' = commitments /\ failures' = failures
  BY <1>1, ResponseIs
<1>3. WaitingOK'
  <2>1. ASSUME NEW c \in Builders, waiting[c] # None
        PROVE  /\ handler'[waiting[c]] = handler[waiting[c]]
               /\ CallOf(c)' = CallOf(c) /\ Calls(c)' = Calls(c)
    BY <1>1, <1>2, <2>1, CallKept DEF SInv, WaitingOK
  <2>2. QED
    BY <1>1, <2>1 DEF SInv, WaitingOK
<1>4. ~Unfailing
  BY <1>1, <1>2 DEF Unfailing
<1>5. QED
  BY <1>1, <1>2, <1>3, <1>4 DEF SInv

-----------------------------------------------------------------------------
(* The theorems. *)

(* No tables, no session and nothing under way. *)
LEMMA SessionInitOK ==
    SessionInit => SInv
<1> SUFFICES ASSUME SessionInit PROVE SInv
  OBVIOUS
<1>1. /\ NewSession \in Session /\ NewSession.pc = "draw" /\ NewSession.nonce = 0
      /\ GivesUp(NewSession) \in Session /\ GivesUp(NewSession).pc = "failed"
      /\ GivesUp(NewSession).nonce = 0
  BY DEF NewSession, GivesUp, Session, SessionPC
<1>2. /\ session \in [Builders -> {NewSession, GivesUp(NewSession)}]
      /\ waiting = [b \in Builders |-> None] /\ late = {} /\ losses = 0
      /\ rounds = <<>> /\ commitments = <<>> /\ handler = [p \in Handlers |-> Idle]
  BY DEF SessionInit, Init
<1>3. session \in [Builders -> Session]
  BY <1>1, <1>2
<1>4. ASSUME NEW b \in Builders
      PROVE  SessionOK(b, session[b], rounds, commitments)
  <2>1. session[b] \in Session /\ session[b].pc \in {"draw", "failed"} /\ session[b].nonce = 0
    BY <1>1, <1>2
  <2>2. 0 \in 0 .. MaxNonces
    BY SessionAssumption
  <2>3. QED
    BY <2>1, <2>2 DEF SessionOK, Joined
<1>5. Idle.pc = "idle" /\ Polled(Idle, rounds)
  BY NoneAssumption DEF Idle, Polled, Requests
<1>6. \A p \in Handlers : handler[p].pc = "idle" /\ Polled(handler[p], rounds)
  BY <1>2, <1>5
<1>7. WaitingOK
  BY <1>2 DEF WaitingOK
<1>8. Unfailing
  BY <1>2, <1>6 DEF Unfailing, Stored
<1>9. QED
  BY <1>2, <1>3, <1>4, <1>6, <1>7, <1>8, SessionAssumption DEF SInv

(* For the registry a session is a client like any other. *)
LEMMA StoreStep ==
    ASSUME SessionsMayCall, IInv, LInv, SInv, [SessionNext]_sessionVars
    PROVE  [Next]_vars
<1>1. CASE UNCHANGED sessionVars
  BY <1>1 DEF sessionVars
<1>2. CASE Tick
  BY <1>2 DEF Next
<1>3. ASSUME NEW p \in Handlers, ServerStep(p) \/ Fail(p) \/ Respond(p)
      PROVE  [Next]_vars
  BY <1>3 DEF Next, Step, ServerStep
<1>4. ASSUME FreeSlots # {}, NEW q \in Requests, Arrive(Slot, q)
      PROVE  [Next]_vars
  <2>1. Slot \in Handlers
    BY <1>4 DEF Slot, FreeSlots
  <2>2. QED
    BY <1>4, <2>1 DEF Next
<1>5. CASE ArriveLate
  <2>1. late \subseteq Requests
    BY DEF SInv
  <2>2. QED
    BY <1>4, <1>5, <2>1 DEF ArriveLate
<1>6. ASSUME NEW p \in Handlers, Drop(p)
      PROVE  [Next]_vars
  BY <1>3, <1>6 DEF Drop
<1>7. ASSUME NEW b \in Builders, SessionStep(b) \/ LoseRequest(b) \/ LoseAnswer(b)
      PROVE  [Next]_vars
  <2>1. CASE Send(b)
    <3>1. Calls(b) /\ SessionOK(b, session[b], rounds, commitments)
      BY <2>1 DEF Send, SInv
    <3>2. CallOf(b) \in Requests
      BY <3>1, CallAllowed
    <3>3. QED
      BY <1>4, <2>1, <3>2 DEF Send
  <2>2. CASE Receive(b)
    <3>1. waiting[b] \in Handlers /\ Respond(waiting[b])
      BY <2>2 DEF Receive, SInv, WaitingOK
    <3>2. QED
      BY <1>3, <3>1
  <2>3. CASE Draw(b) \/ FetchFacts(b) \/ LoseRequest(b) \/ LoseAnswer(b)
    <3>1. UNCHANGED vars
      BY <2>3 DEF Draw, FetchFacts, LoseRequest, LoseAnswer
    <3>2. QED
      BY <3>1
  <2>4. QED
    BY <1>7, <2>1, <2>2, <2>3 DEF SessionStep
<1>8. QED
  BY <1>1, <1>2, <1>3, <1>5, <1>6, <1>7 DEF SessionNext

(* Every step of the composition. *)
LEMMA SessionNextOK ==
    ASSUME SessionsMayCall, IInv, LInv, SInv, [SessionNext]_sessionVars
    PROVE  SInv'
<1>1. Writes
  BY StoreStep, NextWrites
<1>2. CASE UNCHANGED sessionVars
  <2>1. /\ handler' = handler /\ rounds' = rounds /\ commitments' = commitments
        /\ failures' = failures
        /\ session' = session /\ waiting' = waiting /\ late' = late /\ losses' = losses
    BY <1>2 DEF sessionVars, vars, client
  <2>2. WaitingOK' /\ (Unfailing => Unfailing')
    BY <2>1 DEF SInv, WaitingOK, Unfailing, Settles, CallOf, Calls
  <2>3. QED
    BY <2>1, <2>2 DEF SInv
<1>3. CASE /\ Tick \/ \E p \in Handlers : ServerStep(p) \/ Fail(p)
           /\ UNCHANGED client
  BY <1>1, <1>3, TickSInv, ServerSInv, FailSInv
<1>4. CASE ArriveLate \/ \E p \in Handlers : Drop(p)
  BY <1>4, ArriveLateSInv, DropSInv
<1>5. ASSUME NEW b \in Builders, SessionStep(b) \/ LoseRequest(b) \/ LoseAnswer(b)
      PROVE  SInv'
  BY <1>5, DrawSInv, SendSInv, ReceiveSInv, FetchFactsSInv, LoseSInv DEF SessionStep
<1>6. QED
  BY <1>2, <1>3, <1>4, <1>5 DEF SessionNext

(* The invariants of the registry, which its clients cannot break, and     *)
(* what they rely on: SInv is inductive together with those of RoundStore. *)
THEOREM SessionInvariance ==
    ASSUME SessionsMayCall
    PROVE  SessionSpec => [](IInv /\ LInv /\ SInv)
<1>1. SessionInit => IInv /\ LInv /\ SInv
  BY SessionInitOK, InitOK, LInitOK DEF SessionInit
<1>2. IInv /\ LInv /\ SInv /\ [SessionNext]_sessionVars => IInv' /\ LInv' /\ SInv'
  BY StoreStep, NextOK, NextWrites, SessionNextOK
<1>3. QED
  BY <1>1, <1>2, PTL DEF SessionSpec

(* Sessions use the registry as RoundStore has it: whatever is proved      *)
(* there holds with these clients, late deliveries included.               *)
THEOREM SessionsUseStore ==
    ASSUME SessionsMayCall
    PROVE  SessionSpec => Spec
<1>1. SessionInit => Init
  BY DEF SessionInit
<1>2. IInv /\ LInv /\ SInv /\ [SessionNext]_sessionVars => [Next]_vars
  BY StoreStep
<1>3. QED
  BY <1>1, <1>2, SessionInvariance, PTL DEF SessionSpec, Spec

(* A session that is in a round knows which, and reads in its slot the     *)
(* answer to the call that it made (submit_evidence, send_with_retry).     *)
THEOREM SessionTypes ==
    ASSUME SessionsMayCall
    PROVE  SessionSpec => []SessionTypeOK
<1>1. SInv => SessionTypeOK
  BY DEF SInv, WaitingOK, SessionOK, Joined, SessionTypeOK
<1>2. QED
  BY <1>1, SessionInvariance, PTL

(* A session that ends well has its evidence among the facts of its round, *)
(* which has closed, and it is there under the nonce that it drew last.    *)
THEOREM DoneSessionsBacked ==
    ASSUME SessionsMayCall
    PROVE  SessionSpec => []DoneIsBacked
<1>1. LInv /\ SInv => DoneIsBacked
  <2> SUFFICES ASSUME LInv, SInv, NEW b \in Builders, Is(b, "done")
               PROVE  LET s == session[b] IN
                      /\ rounds[s.round].closed_at # None
                      /\ EvidenceOf(b) \in s.facts
                      /\ RevealBacked([round_id |-> s.round, opening |-> Opening(b, s.nonce)])
                      /\ s.facts \subseteq ListRound(s.round)
    BY DEF DoneIsBacked
  <2> DEFINE s == session[b]
  <2>1. s.pc = "done" /\ SessionOK(b, s, rounds, commitments)
    BY DEF SInv, Is
  <2>2. rounds[s.round].closed_at # None /\ EvidenceOf(b) \in s.facts
    BY <2>1 DEF SessionOK
  <2>3. RevealBacked([round_id |-> s.round, opening |-> Opening(b, s.nonce)])
    <3> DEFINE q == [round_id |-> s.round, opening |-> Opening(b, s.nonce)]
    <3>1. /\ q.round_id = s.round /\ q.opening = Opening(b, s.nonce)
          /\ Evidence(q.opening).builder_id = b
      BY DEF Opening, Evidence, EvidenceOf
    <3> HIDE DEF q
    <3>2. Published(commitments, q.round_id, Evidence(q.opening).builder_id, q.opening)
      BY <2>1, <3>1 DEF SessionOK
    <3>3. RevealBacked(q)
      BY <3>2 DEF Published, RevealBacked, ByBuilder, CommitmentsOf
    <3>4. QED
      BY <3>3 DEF q
  <2>4. ASSUME NEW e \in s.facts
        PROVE  e \in ListRound(s.round)
    <3>1. Stored(commitments, s.round, e)
      BY <2>1 DEF SessionOK
    <3>2. PICK i \in RevealedOf(s.round) : Evidence(commitments[i].digest) = e
      BY <3>1 DEF Stored, RevealedOf, CommitmentsOf
    <3>3. evidences[commitments[i].evidence_id] = e
      BY <3>2 DEF LInv, TablesOK, Linked, RevealedOf, CommitmentsOf
    <3>4. QED
      BY <3>3 DEF ListRound
  <2>5. QED
    BY <2>2, <2>3, <2>4
<1>2. QED
  BY <1>1, SessionInvariance, PTL

(* As long as no connection and no handler fails, a builder's evidence is  *)
(* stored in one round only, however many rounds its session goes through. *)
THEOREM OneRoundCounts ==
    ASSUME SessionsMayCall
    PROVE  SessionSpec => []OneRoundPerBuild
<1>1. IInv /\ LInv /\ SInv => OneRoundPerBuild
  <2> SUFFICES ASSUME IInv, LInv, SInv, losses = 0, failures = 0, NEW b \in Builders
               PROVE  Cardinality({r \in DOMAIN rounds : EvidenceOf(b) \in ListRound(r)}) <= 1
    BY DEF OneRoundPerBuild
  <2> DEFINE counted == {r \in DOMAIN rounds : EvidenceOf(b) \in ListRound(r)}
  <2>1. ASSUME NEW r \in counted
        PROVE  r = session[b].round
    <3>1. PICK i \in RevealedOf(r) : evidences[commitments[i].evidence_id] = EvidenceOf(b)
      BY DEF ListRound
    <3>2. Evidence(commitments[i].digest) = EvidenceOf(b)
      BY <3>1 DEF LInv, TablesOK, Linked, RevealedOf, CommitmentsOf
    <3>3. Stored(commitments, r, EvidenceOf(b))
      BY <3>2 DEF Stored, RevealedOf, CommitmentsOf
    <3>4. r \in Nat
      BY DEF IInv, RowsOK
    <3>5. QED
      BY <3>3, <3>4 DEF SInv, Unfailing, Settles
  <2> HIDE DEF counted
  <2>2. CASE counted = {}
    BY <2>2, FS_EmptySet DEF counted
  <2>3. CASE counted # {}
    <3>1. counted = {session[b].round}
      BY <2>1, <2>3
    <3>2. Cardinality(counted) = 1
      BY <3>1, FS_Singleton
    <3>3. QED
      BY <3>2 DEF counted
  <2>4. QED
    BY <2>2, <2>3
<1>2. QED
  BY <1>1, SessionInvariance, PTL

=============================================================================
