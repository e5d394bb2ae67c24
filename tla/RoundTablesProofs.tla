------------------------- MODULE RoundTablesProofs -------------------------
(***************************************************************************)
(* More about RoundStore, for every value of its constants: what the       *)
(* tables keep, and that the receipts of commit and reveal are backed by   *)
(* them.                                                                   *)
(*                                                                         *)
(* The argument: whatever the interleaving, a statement changes the tables *)
(* in one of five ways (Opens, Joins, Begins, Closes, Publishes), none of  *)
(* which takes back what a handler has read: the path of a round, who      *)
(* committed which digest in it, and which evidence is stored for it.  So  *)
(* what a handler knew of its request when it read still holds when it     *)
(* writes or answers (Holding), although the phase it read may not.        *)
(***************************************************************************)
EXTENDS RoundStoreProofs

(* Builder b has committed digest d in round r; its evidence is stored.    *)
Committed(C, r, b, d) ==
    \E i \in DOMAIN C : C[i].round_id = r /\ C[i].builder_id = b /\ C[i].digest = d

Published(C, r, b, d) ==
    \E i \in DOMAIN C : /\ C[i].round_id = r /\ C[i].builder_id = b /\ C[i].digest = d
                        /\ C[i].evidence_id # None

(* What the unique indexes and the transaction of reveal keep.             *)
OneOpen(R) ==
    \A q, r \in DOMAIN R :
        /\ R[q].derivation_path = R[r].derivation_path
        /\ R[q].closed_at = None /\ R[r].closed_at = None
        => q = r

CommittedOnce(C) ==
    \A i, j \in DOMAIN C :
        C[i].round_id = C[j].round_id /\ C[i].builder_id = C[j].builder_id => i = j

Linked(C, E) ==
    /\ \A i \in DOMAIN C :
         C[i].evidence_id # None =>
           C[i].evidence_id \in DOMAIN E /\ E[C[i].evidence_id] = Evidence(C[i].digest)
    /\ \A i, j \in DOMAIN C :
         C[i].evidence_id # None /\ C[i].evidence_id = C[j].evidence_id => i = j
    /\ \A e \in DOMAIN E : \E i \in DOMAIN C : C[i].evidence_id = e

TablesOK == OneOpen(rounds) /\ CommittedOnce(commitments) /\ Linked(commitments, evidences)

(* What no step takes back of rounds R and commitments C. *)
Later(R, C, S, D) ==
    /\ \A r \in DOMAIN R : r \in DOMAIN S /\ S[r].derivation_path = R[r].derivation_path
    /\ \A i \in DOMAIN C :
         /\ i \in DOMAIN D
         /\ D[i].round_id = C[i].round_id /\ D[i].builder_id = C[i].builder_id
         /\ D[i].digest = C[i].digest
         /\ C[i].evidence_id # None => D[i].evidence_id = C[i].evidence_id

-----------------------------------------------------------------------------
(* What a handler knows of its request. *)

CommittedFor(q, r, C) == Committed(C, r, q.builder_id, q.digest)
OpensCommitment(q, C) ==
    Committed(C, q.round_id, Evidence(q.opening).builder_id, q.opening)
PublishedFor(q, C) ==
    Published(C, q.round_id, Evidence(q.opening).builder_id, q.opening)

(* The copy is of a round of the path that the commit asks for. *)
OfPath(q, row, R) ==
    /\ row.derivation_path = q.derivation_path
    /\ R[row.id].derivation_path = q.derivation_path

(* What advance_round brings back to the caller it serves. *)
Serves(q, caller, row, R, C) ==
    /\ q \in Requests
    /\ q \in CommitRequests =>
         /\ caller \in {"existing", "active"} /\ OfPath(q, row, R)
         /\ caller = "existing" => CommittedFor(q, row.id, C)
    /\ q \in RevealRequests =>
         /\ caller \in {"reveal", "after"} /\ row.id = q.round_id
         /\ caller = "reveal" => OpensCommitment(q, C)
         /\ caller = "after" => PublishedFor(q, C)

Success == {"created", "ok"}

CommitHolds(s, R, C) ==
    /\ s.pc \in CommitPCs \cup CommitRowPCs \cup AdvancePCs \cup {"reload_status", "reply"}
    /\ s.pc \in (CommitRowPCs \ {"related_round"}) \cup {"reload_status"} =>
         OfPath(s.req, s.row, R)
    /\ s.pc \in {"related_round", "threshold", "start_reveal", "reread_joined",
                 "reload_status"} => CommittedFor(s.req, s.row.id, C)
    /\ s.reply \in Success =>
         /\ s.row.derivation_path = s.req.derivation_path
         /\ CommittedFor(s.req, s.row.id, C)

RevealHolds(s, C) ==
    /\ s.pc \in RevealRowPCs \cup AdvancePCs \cup {"find_round", "reply"}
    /\ s.pc \in RevealRowPCs => s.row.id = s.req.round_id
    /\ s.pc = "store" => OpensCommitment(s.req, C)
    /\ s.pc = "after_store" \/ s.reply \in Success => PublishedFor(s.req, C)

Holding(s, R, C) ==
    /\ s.pc # "idle" => s.req \in Requests
    /\ s.pc # "reply" => s.reply = "none"
    /\ s.pc \in AdvancePCs => Serves(s.req, s.caller, s.row, R, C)
    /\ s.req \in CommitRequests => CommitHolds(s, R, C)
    /\ s.req \in RevealRequests => RevealHolds(s, C)

LInv == TablesOK /\ \A p \in Handlers : Holding(handler[p], rounds, commitments)

-----------------------------------------------------------------------------
(* Local states. *)

(* A request is of one kind. *)
LEMMA OneKind ==
    ASSUME NEW q \in Requests
    PROVE  /\ q \in CommitRequests <=> q.op = "commit"
           /\ q \in RevealRequests <=> q.op = "reveal"
           /\ q # None
  BY RequestsAssumption, NoneAssumption DEF Requests, ScrapeRequest

(* An idle slot knows nothing. *)
LEMMA IdleHolds ==
    ASSUME NEW R, NEW C
    PROVE  Holding(Idle, R, C)
<1>1. None \notin CommitRequests /\ None \notin RevealRequests
  BY NoneAssumption DEF Requests
<1>2. QED
  BY <1>1 DEF Idle, Holding, AdvancePCs

(* An answer that reports no success promises nothing. *)
LEMMA RefusalHolds ==
    ASSUME NEW R, NEW C, NEW s, s.req \in Requests, NEW status \in Replies \ Success
    PROVE  Holding(Reply(s, status), R, C)
<1> DEFINE t == Reply(s, status)
<1>1. t.pc = "reply" /\ t.req = s.req /\ t.reply = status
  BY DEF Reply, Idle
<1> HIDE DEF t
<1>2. Holding(t, R, C)
  BY <1>1
  DEF Holding, CommitHolds, RevealHolds, CommitPCs, CommitRowPCs, RevealRowPCs, AdvancePCs
<1>3. QED
  BY <1>2 DEF t

(* A successful commit promises that the digest is in the round it returns. *)
LEMMA ReceiptHolds ==
    ASSUME NEW R, NEW C, NEW s, s.req \in CommitRequests, NEW status \in Replies,
           s.row.derivation_path = s.req.derivation_path, CommittedFor(s.req, s.row.id, C)
    PROVE  Holding(Reply(s, status), R, C)
<1> DEFINE t == Reply(s, status)
<1>1. t.pc = "reply" /\ t.req = s.req /\ t.row = s.row
  BY DEF Reply, Idle
<1>2. s.req \in Requests /\ s.req \notin RevealRequests
  BY OneKind DEF Requests
<1> HIDE DEF t
<1>3. Holding(t, R, C)
  BY <1>1, <1>2 DEF Holding, CommitHolds, CommitPCs, CommitRowPCs, AdvancePCs
<1>4. QED
  BY <1>3 DEF t

(* A successful reveal promises that the evidence is stored. *)
LEMMA RevealedHolds ==
    ASSUME NEW R, NEW C, NEW s, s.req \in RevealRequests, NEW status \in Replies,
           PublishedFor(s.req, C)
    PROVE  Holding(Reply(s, status), R, C)
<1> DEFINE t == Reply(s, status)
<1>1. t.pc = "reply" /\ t.req = s.req /\ t.row = s.row
  BY DEF Reply, Idle
<1>2. s.req \in Requests /\ s.req \notin CommitRequests
  BY OneKind DEF Requests
<1> HIDE DEF t
<1>3. Holding(t, R, C)
  BY <1>1, <1>2 DEF Holding, RevealHolds, RevealRowPCs, AdvancePCs
<1>4. QED
  BY <1>3 DEF t

(* Polls and scrapes promise nothing either. *)
LEMMA PollHolds ==
    ASSUME NEW R, NEW C, NEW s, s.req \in Requests,
           s.req \notin CommitRequests, s.req \notin RevealRequests,
           s.pc # "reply" => s.reply = "none"
    PROVE  Holding(s, R, C)
  BY DEF Holding, Serves

(* advance_round returns the row of an open round. *)
LEMMA ResumeOpenHolds ==
    ASSUME NEW R, NEW C, NEW s \in LocalState, NEW row \in Row, s.reply = "none",
           Serves(s.req, s.caller, row, R, C)
    PROVE  Holding(ResumeOpen(s, row), R, C)
<1> DEFINE t == [Returned(s) EXCEPT !.row = row]
<1>1. t \in LocalState /\ t.row = row /\ t.req = s.req /\ t.reply = "none"
  BY DEF Returned, LocalState, Callers
<1>2. s.req \in Requests
  BY DEF Serves
<1> HIDE DEF t
<1>3. Holding(Reply(t, "conflict"), R, C)
  BY <1>1, <1>2, RefusalHolds DEF Success, Replies
<1>4. CASE s.caller = "existing"
  <2>1. Holding(Reply(t, "ok"), R, C)
    <3>1. CASE s.req \in CommitRequests
      BY <1>1, <1>4, <3>1, ReceiptHolds DEF Serves, OfPath, Replies
    <3>2. CASE s.req \notin CommitRequests
      BY <1>1, <1>2, <1>4, <3>2, PollHolds DEF Serves, Reply, Idle
    <3>3. QED
      BY <3>1, <3>2
  <2>2. QED
    BY <1>4, <2>1 DEF ResumeOpen, t
<1>5. CASE s.caller = "status"
  <2>1. Holding(Reply(t, "ok"), R, C)
    BY <1>1, <1>2, <1>5, PollHolds DEF Serves, Reply, Idle
  <2>2. QED
    BY <1>5, <2>1 DEF ResumeOpen, t
<1>6. CASE s.caller = "active"
  <2> DEFINE u == [t EXCEPT !.pc = "my_commitment"]
  <2>1. u.pc = "my_commitment" /\ u.req = s.req /\ u.row = row /\ u.reply = "none"
    BY <1>1 DEF LocalState
  <2> HIDE DEF u
  <2>2. Holding(u, R, C)
    BY <1>2, <1>6, <2>1 DEF Holding, CommitHolds, Serves, CommitRowPCs, AdvancePCs, Success
  <2>3. QED
    BY <1>3, <1>6, <2>2 DEF ResumeOpen, t, u
<1>7. CASE s.caller = "reveal"
  <2> DEFINE u == [t EXCEPT !.pc = "store"]
  <2>1. u.pc = "store" /\ u.req = s.req /\ u.row = row /\ u.reply = "none"
    BY <1>1 DEF LocalState
  <2> HIDE DEF u
  <2>2. Holding(u, R, C)
    BY <1>2, <1>7, <2>1 DEF Holding, RevealHolds, Serves, RevealRowPCs, AdvancePCs, Success
  <2>3. QED
    BY <1>3, <1>7, <2>2 DEF ResumeOpen, t, u
<1>8. CASE s.caller = "scrape"
  <2> DEFINE u == [t EXCEPT !.pc = "next_open", !.row = None]
  <2>1. u.pc = "next_open" /\ u.req = s.req /\ u.reply = "none"
    BY <1>1 DEF LocalState
  <2> HIDE DEF u
  <2>2. Holding(u, R, C)
    BY <1>2, <1>8, <2>1, PollHolds DEF Serves
  <2>3. QED
    BY <1>8, <2>2 DEF ResumeOpen, t, u
<1>9. CASE s.caller \in {"none", "after"}
  <2>1. Holding(Reply(t, "created"), R, C)
    <3>1. CASE s.req \in RevealRequests
      BY <1>1, <1>9, <3>1, RevealedHolds DEF Serves, Replies
    <3>2. CASE s.req \notin RevealRequests
      BY <1>1, <1>2, <1>9, <3>2, PollHolds DEF Serves, Reply, Idle
    <3>3. QED
      BY <3>1, <3>2
  <2>2. QED
    BY <1>9, <2>1 DEF ResumeOpen, t
<1>10. s.caller \in Callers
  BY DEF LocalState
<1>11. QED
  BY <1>4, <1>5, <1>6, <1>7, <1>8, <1>9, <1>10 DEF Callers

(* advance_round returns without a row. *)
LEMMA ResumeClosedHolds ==
    ASSUME NEW R, NEW C, NEW s \in LocalState, s.reply = "none",
           Serves(s.req, s.caller, s.row, R, C)
    PROVE  Holding(ResumeClosed(s), R, C)
<1> DEFINE t == Returned(s)
<1>1. t \in LocalState /\ t.row = s.row /\ t.req = s.req /\ t.reply = "none"
  BY DEF Returned, LocalState, Callers
<1>2. s.req \in Requests
  BY DEF Serves
<1> HIDE DEF t
<1>3. CASE s.caller \in {"existing", "status"}
  <2> DEFINE u == [t EXCEPT !.pc = "reload_status"]
  <2>1. u.pc = "reload_status" /\ u.req = s.req /\ u.row = s.row /\ u.reply = "none"
    BY <1>1 DEF LocalState
  <2> HIDE DEF u
  <2>2. Holding(u, R, C)
    BY <1>2, <1>3, <2>1 DEF Holding, CommitHolds, Serves, CommitRowPCs, AdvancePCs, Success
  <2>3. QED
    BY <1>3, <2>2 DEF ResumeClosed, t, u
<1>4. CASE s.caller = "active"
  <2> DEFINE u == [t EXCEPT !.pc = "insert_round", !.row = None]
  <2>1. u.pc = "insert_round" /\ u.req = s.req /\ u.reply = "none"
    BY <1>1 DEF LocalState
  <2> HIDE DEF u
  <2>2. Holding(u, R, C)
    BY <1>2, <1>4, <2>1
    DEF Holding, CommitHolds, Serves, CommitPCs, CommitRowPCs, AdvancePCs, Success
  <2>3. QED
    BY <1>4, <2>2 DEF ResumeClosed, t, u
<1>5. CASE s.caller = "reveal"
  <2>1. Holding(Reply(t, "gone"), R, C)
    BY <1>1, <1>2, RefusalHolds DEF Success, Replies
  <2>2. QED
    BY <1>5, <2>1 DEF ResumeClosed, t
<1>6. CASE s.caller = "scrape"
  <2> DEFINE u == [t EXCEPT !.pc = "next_open", !.row = None]
  <2>1. u.pc = "next_open" /\ u.req = s.req /\ u.reply = "none"
    BY <1>1 DEF LocalState
  <2> HIDE DEF u
  <2>2. Holding(u, R, C)
    BY <1>2, <1>6, <2>1, PollHolds DEF Serves
  <2>3. QED
    BY <1>6, <2>2 DEF ResumeClosed, t, u
<1>7. CASE s.caller \in {"none", "after"}
  <2>1. Holding(Reply(t, "created"), R, C)
    <3>1. CASE s.req \in RevealRequests
      BY <1>1, <1>7, <3>1, RevealedHolds DEF Serves, Replies
    <3>2. CASE s.req \notin RevealRequests
      BY <1>1, <1>2, <1>7, <3>2, PollHolds DEF Serves, Reply, Idle
    <3>3. QED
      BY <3>1, <3>2
  <2>2. QED
    BY <1>7, <2>1 DEF ResumeClosed, t
<1>8. s.caller \in Callers
  BY DEF LocalState
<1>9. QED
  BY <1>3, <1>4, <1>5, <1>6, <1>7, <1>8 DEF Callers

(* advance_round is called. *)
LEMMA CallAdvanceHolds ==
    ASSUME NEW R, NEW C, NEW s \in LocalState, NEW row \in Row, NEW caller \in Callers,
           s.reply = "none", Serves(s.req, caller, row, R, C)
    PROVE  Holding(CallAdvance(s, row, caller), R, C)
<1> DEFINE t == [s EXCEPT !.row = row, !.caller = caller]
<1>1. /\ t \in LocalState
      /\ t.row = row /\ t.caller = caller /\ t.req = s.req /\ t.reply = "none"
  BY DEF LocalState
<1> HIDE DEF t
<1>2. Holding(ResumeClosed(t), R, C)
  BY <1>1, ResumeClosedHolds
<1> DEFINE u == [t EXCEPT !.pc = "count_commits"]
<1>3. /\ u.pc = "count_commits" /\ u.row = row /\ u.caller = caller /\ u.req = s.req
      /\ u.reply = "none"
  BY <1>1 DEF LocalState
<1> HIDE DEF u
<1>4. Holding(u, R, C)
  BY <1>3 DEF Holding, CommitHolds, RevealHolds, Serves, CommitRowPCs, RevealRowPCs,
              AdvancePCs, Success
<1>5. QED
  BY <1>2, <1>4 DEF CallAdvance, t, u

(* The second half of advance_round. *)
LEMMA CloseOrResumeHolds ==
    ASSUME NEW R, NEW C, NEW s \in LocalState, NEW row \in Row, s.reply = "none",
           Serves(s.req, s.caller, row, R, C)
    PROVE  Holding(CloseOrResume(s, row), R, C)
<1>1. Holding(ResumeOpen(s, row), R, C)
  BY ResumeOpenHolds
<1> DEFINE u == [s EXCEPT !.pc = "close", !.row = row]
<1>2. /\ u.pc = "close" /\ u.row = row /\ u.caller = s.caller /\ u.req = s.req
      /\ u.reply = "none"
  BY DEF LocalState
<1> HIDE DEF u
<1>3. Holding(u, R, C)
  BY <1>2 DEF Holding, CommitHolds, RevealHolds, Serves, CommitRowPCs, RevealRowPCs,
              AdvancePCs, Success
<1>4. QED
  BY <1>1, <1>3 DEF CloseOrResume, u

(* commit goes on with a round of its path. *)
LEMMA JoinOrConflictHolds ==
    ASSUME NEW R, NEW C, NEW s \in LocalState, NEW row \in Row, s.reply = "none",
           s.req \in CommitRequests, OfPath(s.req, row, R)
    PROVE  Holding(JoinOrConflict(s, row), R, C)
<1> DEFINE t == [s EXCEPT !.row = row]
<1>1. t \in LocalState /\ t.row = row /\ t.req = s.req /\ t.reply = "none"
  BY DEF LocalState
<1>2. s.req \in Requests /\ s.req \notin RevealRequests
  BY OneKind DEF Requests
<1> HIDE DEF t
<1>3. Holding(Reply(t, "conflict"), R, C)
  BY <1>1, <1>2, RefusalHolds DEF Success, Replies
<1> DEFINE u == [t EXCEPT !.pc = "insert_commitment"]
<1>4. u.pc = "insert_commitment" /\ u.row = row /\ u.req = s.req /\ u.reply = "none"
  BY <1>1 DEF LocalState
<1> HIDE DEF u
<1>5. Holding(u, R, C)
  BY <1>2, <1>4 DEF Holding, CommitHolds, CommitRowPCs, AdvancePCs, Success
<1>6. QED
  BY <1>3, <1>5 DEF JoinOrConflict, t, u

(* What a handler knows stays true. *)
LEMMA HoldingLater ==
    ASSUME NEW R, NEW C, NEW S, NEW D, Later(R, C, S, D),
           NEW s, LocalOK(s, R), Holding(s, R, C)
    PROVE  Holding(s, S, D)
<1>1. \A r, b, d : /\ Committed(C, r, b, d) => Committed(D, r, b, d)
                   /\ Published(C, r, b, d) => Published(D, r, b, d)
  BY DEF Later, Committed, Published
<1>2. ASSUME s.row # None, NEW q, OfPath(q, s.row, R)
      PROVE  OfPath(q, s.row, S)
  BY <1>2 DEF Later, OfPath, LocalOK, BaseOK, Copy
<1>3. s.pc \in AdvancePCs \cup CommitRowPCs \cup {"reload_status"} => s.row # None
  BY DEF LocalOK, PcOK, CallerOK
<1>4. ASSUME s.pc \in AdvancePCs, Serves(s.req, s.caller, s.row, R, C)
      PROVE  Serves(s.req, s.caller, s.row, S, D)
  BY <1>1, <1>2, <1>3, <1>4 DEF Serves, CommittedFor, OpensCommitment, PublishedFor
<1>5. CommitHolds(s, R, C) => CommitHolds(s, S, D)
  BY <1>1, <1>2, <1>3 DEF CommitHolds, CommittedFor
<1>6. RevealHolds(s, C) => RevealHolds(s, D)
  BY <1>1 DEF RevealHolds, OpensCommitment, PublishedFor
<1>7. QED
  BY <1>4, <1>5, <1>6 DEF Holding

-----------------------------------------------------------------------------
(* The five ways in which a statement changes the tables. *)

(* INSERT of a round: its path has no open one. *)
Opens ==
    \E x \in Row :
        /\ x.closed_at = None /\ x.reveal_started_at = None
        /\ \A r \in DOMAIN rounds :
             rounds[r].derivation_path = x.derivation_path => rounds[r].closed_at # None
        /\ rounds' = Append(rounds, x)
        /\ UNCHANGED <<commitments, evidences>>

(* INSERT of a commitment: its builder has none in the round. *)
Joins ==
    \E c \in Commitment :
        /\ c.round_id \in DOMAIN rounds /\ c.evidence_id = None
        /\ \A i \in DOMAIN commitments :
             ~(commitments[i].round_id = c.round_id /\ commitments[i].builder_id = c.builder_id)
        /\ commitments' = Append(commitments, c)
        /\ UNCHANGED <<rounds, evidences>>

(* UPDATE of a round that leaves it revealing, or closed when it was. *)
Begins ==
    \E r \in DOMAIN rounds : \E x \in Row :
        /\ x.derivation_path = rounds[r].derivation_path
        /\ x.reveal_started_at # None /\ x.closed_at = rounds[r].closed_at
        /\ rounds' = [rounds EXCEPT ![r] = x]
        /\ UNCHANGED <<commitments, evidences>>

(* UPDATE of a round that has revealed, which leaves it closed. *)
Closes ==
    \E r \in DOMAIN rounds : \E x \in Row :
        /\ x.derivation_path = rounds[r].derivation_path
        /\ rounds[r].reveal_started_at # None /\ x.closed_at # None
        /\ rounds' = [rounds EXCEPT ![r] = x]
        /\ UNCHANGED <<commitments, evidences>>

WithEvidence(c, e) == [c EXCEPT !.evidence_id = e]

(* The transaction of reveal, in a round that is not committing. *)
Publishes ==
    \E i \in DOMAIN commitments :
        /\ commitments[i].evidence_id = None
        /\ rounds[commitments[i].round_id].reveal_started_at # None
        /\ evidences' = Append(evidences, Evidence(commitments[i].digest))
        /\ commitments' = [commitments EXCEPT
                             ![i] = WithEvidence(commitments[i], Len(evidences) + 1)]
        /\ UNCHANGED rounds

Writes == UNCHANGED tables \/ Opens \/ Joins \/ Begins \/ Closes \/ Publishes

(* Tables that stay the same keep what they keep. *)
LEMMA QuietKeeps ==
    ASSUME TablesOK, UNCHANGED tables
    PROVE  TablesOK' /\ Later(rounds, commitments, rounds', commitments')
<1>1. rounds' = rounds /\ commitments' = commitments /\ evidences' = evidences
  BY DEF tables
<1>2. QED
  BY <1>1 DEF TablesOK, Later, OneOpen, CommittedOnce, Linked

(* The new round is the only open one of its path. *)
LEMMA OpensKeeps ==
    ASSUME IInv, TablesOK, Opens
    PROVE  TablesOK' /\ Later(rounds, commitments, rounds', commitments')
<1>1. PICK x \in Row :
        /\ x.closed_at = None
        /\ \A r \in DOMAIN rounds :
             rounds[r].derivation_path = x.derivation_path => rounds[r].closed_at # None
        /\ rounds' = Append(rounds, x)
        /\ UNCHANGED <<commitments, evidences>>
  BY DEF Opens
<1>2. /\ DOMAIN rounds' = DOMAIN rounds \cup {Len(rounds) + 1}
      /\ rounds'[Len(rounds) + 1] = x
      /\ \A r \in DOMAIN rounds : rounds'[r] = rounds[r]
  BY <1>1, AppendSeq DEF IInv, RowsOK
<1>3. OneOpen(rounds')
  BY <1>1, <1>2 DEF TablesOK, OneOpen
<1>4. Later(rounds, commitments, rounds', commitments')
  BY <1>1, <1>2 DEF Later
<1>5. CommittedOnce(commitments') /\ Linked(commitments', evidences')
  BY <1>1 DEF TablesOK
<1>6. QED
  BY <1>3, <1>4, <1>5 DEF TablesOK

(* The new commitment is the only one of its builder in its round. *)
LEMMA JoinsKeeps ==
    ASSUME IInv, TablesOK, Joins
    PROVE  TablesOK' /\ Later(rounds, commitments, rounds', commitments')
<1>1. PICK c \in Commitment :
        /\ c.evidence_id = None
        /\ \A i \in DOMAIN commitments :
             ~(commitments[i].round_id = c.round_id /\ commitments[i].builder_id = c.builder_id)
        /\ commitments' = Append(commitments, c)
        /\ UNCHANGED <<rounds, evidences>>
  BY DEF Joins
<1>2. /\ DOMAIN commitments' = DOMAIN commitments \cup {Len(commitments) + 1}
      /\ commitments'[Len(commitments) + 1] = c
      /\ \A i \in DOMAIN commitments : commitments'[i] = commitments[i]
  BY <1>1, AppendSeq DEF IInv, CommitmentsOK
<1>3. CommittedOnce(commitments')
  BY <1>1, <1>2 DEF TablesOK, CommittedOnce
<1>4. Linked(commitments', evidences')
  BY <1>1, <1>2 DEF TablesOK, Linked
<1>5. Later(rounds, commitments, rounds', commitments')
  BY <1>1, <1>2 DEF Later
<1>6. OneOpen(rounds')
  BY <1>1 DEF TablesOK
<1>7. QED
  BY <1>3, <1>4, <1>5, <1>6 DEF TablesOK

(* A round that is updated is not opened again. *)
LEMMA UpdatesKeep ==
    ASSUME IInv, TablesOK, Begins \/ Closes
    PROVE  TablesOK' /\ Later(rounds, commitments, rounds', commitments')
<1>1. PICK r \in DOMAIN rounds : \E x \in Row :
        /\ x.derivation_path = rounds[r].derivation_path
        /\ x.closed_at = None => rounds[r].closed_at = None
        /\ rounds' = [rounds EXCEPT ![r] = x]
        /\ UNCHANGED <<commitments, evidences>>
  BY DEF Begins, Closes
<1>2. PICK x \in Row :
        /\ x.derivation_path = rounds[r].derivation_path
        /\ x.closed_at = None => rounds[r].closed_at = None
        /\ rounds' = [rounds EXCEPT ![r] = x]
        /\ UNCHANGED <<commitments, evidences>>
  BY <1>1
<1>3. /\ DOMAIN rounds' = DOMAIN rounds
      /\ \A q \in DOMAIN rounds : rounds'[q] = IF q = r THEN x ELSE rounds[q]
  BY <1>2 DEF IInv, RowsOK
<1>4. OneOpen(rounds')
  BY <1>2, <1>3 DEF TablesOK, OneOpen
<1>5. Later(rounds, commitments, rounds', commitments')
  BY <1>2, <1>3 DEF Later
<1>6. CommittedOnce(commitments') /\ Linked(commitments', evidences')
  BY <1>2 DEF TablesOK
<1>7. QED
  BY <1>4, <1>5, <1>6 DEF TablesOK

(* A published commitment keeps its other columns. *)
LEMMA EvidenceWritten ==
    ASSUME NEW c \in Commitment, NEW e \in Nat
    PROVE  /\ WithEvidence(c, e) \in Commitment
           /\ WithEvidence(c, e).round_id = c.round_id
           /\ WithEvidence(c, e).builder_id = c.builder_id
           /\ WithEvidence(c, e).digest = c.digest
           /\ WithEvidence(c, e).evidence_id = e
           /\ e # None
  BY NoneAssumption DEF WithEvidence, Commitment

(* Row i of commitments C gets an evidence: D and F are the tables after. *)
Linking(C, E, i, D, F) ==
    /\ DOMAIN D = DOMAIN C
    /\ \A j \in DOMAIN C : j # i => D[j] = C[j]
    /\ D[i].round_id = C[i].round_id /\ D[i].builder_id = C[i].builder_id
    /\ D[i].digest = C[i].digest /\ D[i].evidence_id = Len(E) + 1
    /\ DOMAIN F = DOMAIN E \cup {Len(E) + 1} /\ Len(E) + 1 \notin DOMAIN E
    /\ F[Len(E) + 1] = Evidence(C[i].digest)
    /\ \A e \in DOMAIN E : F[e] = E[e]
    /\ Len(E) + 1 # None

(* What the transaction of reveal does, row by row. *)
LEMMA LinkedRows ==
    ASSUME NEW C \in Seq(Commitment),
           NEW E \in Seq({Evidence(d) : d \in Digests}), NEW i \in DOMAIN C
    PROVE  Linking(C, E, i, [C EXCEPT ![i] = WithEvidence(C[i], Len(E) + 1)],
                            Append(E, Evidence(C[i].digest)))
<1> DEFINE D == [C EXCEPT ![i] = WithEvidence(C[i], Len(E) + 1)]
           F == Append(E, Evidence(C[i].digest))
<1>1. C[i] \in Commitment /\ Len(E) + 1 \in Nat /\ DOMAIN E = 1 .. Len(E) /\ Len(E) \in Nat
  OBVIOUS
<1>2. Evidence(C[i].digest) \in {Evidence(d) : d \in Digests}
  BY <1>1 DEF Commitment
<1>3. DOMAIN D = DOMAIN C /\ \A j \in DOMAIN C : j # i => D[j] = C[j]
  OBVIOUS
<1>4. D[i] = WithEvidence(C[i], Len(E) + 1)
  OBVIOUS
<1>5. /\ D[i].round_id = C[i].round_id /\ D[i].builder_id = C[i].builder_id
      /\ D[i].digest = C[i].digest /\ D[i].evidence_id = Len(E) + 1 /\ Len(E) + 1 # None
  BY <1>1, <1>4, EvidenceWritten
<1>6. /\ DOMAIN F = DOMAIN E \cup {Len(E) + 1} /\ F[Len(E) + 1] = Evidence(C[i].digest)
      /\ \A e \in DOMAIN E : F[e] = E[e]
  BY <1>2, AppendSeq
<1>7. Len(E) + 1 \notin DOMAIN E
  BY <1>1
<1> HIDE DEF D, F
<1>8. Linking(C, E, i, D, F)
  BY <1>3, <1>5, <1>6, <1>7 DEF Linking
<1>9. QED
  BY <1>8 DEF D, F

(* The new evidence has one commitment, which had none. *)
LEMMA PublishesKeeps ==
    ASSUME IInv, TablesOK, Publishes
    PROVE  TablesOK' /\ Later(rounds, commitments, rounds', commitments')
<1> DEFINE e == Len(evidences) + 1
<1>1. PICK i \in DOMAIN commitments :
        /\ commitments[i].evidence_id = None
        /\ evidences' = Append(evidences, Evidence(commitments[i].digest))
        /\ commitments' = [commitments EXCEPT ![i] = WithEvidence(commitments[i], e)]
        /\ UNCHANGED rounds
  BY DEF Publishes
<1>2. Linking(commitments, evidences, i, commitments', evidences')
  BY <1>1, LinkedRows DEF IInv, CommitmentsOK
<1> HIDE DEF e
<1>3. CommittedOnce(commitments')
  BY <1>2 DEF TablesOK, CommittedOnce, Linking
<1>4. Linked(commitments', evidences')
  <2>1. \A j \in DOMAIN commitments : commitments[j].evidence_id # e
    BY <1>2 DEF TablesOK, Linked, Linking, e
  <2>2. ASSUME NEW j \in DOMAIN commitments', commitments'[j].evidence_id # None
        PROVE  /\ commitments'[j].evidence_id \in DOMAIN evidences'
               /\ evidences'[commitments'[j].evidence_id] = Evidence(commitments'[j].digest)
    BY <1>2, <2>2 DEF TablesOK, Linked, Linking
  <2>3. ASSUME NEW j \in DOMAIN commitments', NEW k \in DOMAIN commitments',
               commitments'[j].evidence_id # None,
               commitments'[j].evidence_id = commitments'[k].evidence_id
        PROVE  j = k
    BY <1>2, <2>1, <2>3 DEF TablesOK, Linked, Linking, e
  <2>4. ASSUME NEW f \in DOMAIN evidences'
        PROVE  \E j \in DOMAIN commitments' : commitments'[j].evidence_id = f
    <3>1. CASE f = e
      BY <1>2, <3>1 DEF Linking, e
    <3>2. CASE f \in DOMAIN evidences
      <4>1. PICK j \in DOMAIN commitments : commitments[j].evidence_id = f
        BY <3>2 DEF TablesOK, Linked
      <4>2. f # None
        BY <3>2, NoneAssumption DEF IInv
      <4>3. QED
        BY <1>1, <1>2, <4>1, <4>2 DEF Linking
    <3>3. QED
      BY <1>2, <3>1, <3>2 DEF Linking, e
  <2>5. QED
    BY <2>2, <2>3, <2>4 DEF Linked
<1>5. Later(rounds, commitments, rounds', commitments')
  BY <1>1, <1>2 DEF Later, Linking
<1>6. OneOpen(rounds')
  BY <1>1 DEF TablesOK
<1>7. QED
  BY <1>3, <1>4, <1>5, <1>6 DEF TablesOK

(* No statement takes back what the tables say. *)
LEMMA WritesKeep ==
    ASSUME IInv, TablesOK, Writes
    PROVE  TablesOK' /\ Later(rounds, commitments, rounds', commitments')
  BY QuietKeeps, OpensKeeps, JoinsKeeps, UpdatesKeep, PublishesKeeps DEF Writes

-----------------------------------------------------------------------------
(* Steps. *)

(* One of the five changes, or none, after which the handler of p holds    *)
(* what it must hold where it is.                                          *)
StepHolds(p) ==
    Writes /\ \E t : Becomes(p, t) /\ Holding(t, rounds', commitments')

(* It is enough to look at the handler that made the step. *)
LEMMA OthersHold ==
    ASSUME IInv, LInv, NEW p \in Handlers, StepHolds(p)
    PROVE  LInv'
<1>1. TablesOK' /\ Later(rounds, commitments, rounds', commitments')
  BY WritesKeep DEF LInv, StepHolds
<1>2. PICK t : Becomes(p, t) /\ Holding(t, rounds', commitments')
  BY DEF StepHolds
<1>3. handler' = [handler EXCEPT ![p] = t] /\ DOMAIN handler = Handlers
  BY <1>2 DEF Becomes, IInv
<1>4. ASSUME NEW q \in Handlers
      PROVE  Holding(handler'[q], rounds', commitments')
  <2>1. CASE q = p
    BY <1>2, <1>3, <2>1
  <2>2. CASE q # p
    <3>1. handler'[q] = handler[q] /\ LocalOK(handler[q], rounds)
          /\ Holding(handler[q], rounds, commitments)
      BY <1>3, <2>2 DEF IInv, LInv
    <3>2. QED
      BY <1>1, <3>1, HoldingLater
  <2>3. QED
    BY <2>1, <2>2
<1>5. QED
  BY <1>1, <1>4 DEF LInv

(* The same for a statement that writes no table. *)
LEMMA ReadHolds ==
    ASSUME NEW p \in Handlers, NEW t, Becomes(p, t), OnlyReads,
           Holding(t, rounds, commitments)
    PROVE  StepHolds(p)
<1>1. UNCHANGED tables /\ rounds' = rounds /\ commitments' = commitments
  BY DEF OnlyReads, tables
<1>2. QED
  BY <1>1 DEF StepHolds, Writes

(* What the two invariants say of a handler at a statement. *)
LEMMA Known ==
    ASSUME IInv, LInv, NEW p \in Handlers
    PROVE  /\ handler[p] \in LocalState
           /\ LocalOK(handler[p], rounds)
           /\ Holding(handler[p], rounds, commitments)
           /\ handler[p].pc \notin {"idle", "reply"} =>
                handler[p].req \in Requests /\ handler[p].reply = "none"
           /\ handler[p].row # None =>
                /\ handler[p].row \in Row /\ RowShape(handler[p].row)
                /\ handler[p].row.id \in DOMAIN rounds
  BY HandlerOK DEF LInv, Holding, Copy

(* What they say of a row. *)
LEMMA KnownRow ==
    ASSUME IInv, NEW r \in DOMAIN rounds
    PROVE  rounds[r] \in Row /\ rounds[r].id = r /\ RowShape(rounds[r]) /\ rounds[r] # None
  BY NoneAssumption DEF IInv, RowsOK

(* What its handler knows after it has written. *)
LEMMA KnownAfter ==
    ASSUME IInv, LInv, NEW p \in Handlers, Writes
    PROVE  Holding(handler[p], rounds', commitments')
  BY Known, WritesKeep, HoldingLater DEF LInv

(* A request arrives and knows nothing yet. *)
LEMMA ArriveHolds ==
    ASSUME IInv, LInv, NEW p \in Handlers, NEW req \in Requests, Arrive(p, req)
    PROVE  StepHolds(p)
<1> DEFINE t == [Idle EXCEPT !.pc = FirstStep(req), !.req = req, !.now = clock,
                             !.seen = VisibleRounds]
<1>1. t.pc = FirstStep(req) /\ t.req = req /\ t.reply = "none"
  BY DEF Idle
<1>2. /\ FirstStep(req) \in {"lookup", "find_round", "find_status", "scan"}
      /\ req \in CommitRequests => FirstStep(req) = "lookup" /\ req \notin RevealRequests
      /\ req \in RevealRequests => FirstStep(req) = "find_round" /\ req \notin CommitRequests
  BY OneKind DEF FirstStep
<1> HIDE DEF t
<1>3. Holding(t, rounds, commitments)
  BY <1>1, <1>2
  DEF Holding, CommitHolds, RevealHolds, CommitPCs, CommitRowPCs, RevealRowPCs, AdvancePCs,
      Success
<1>4. QED
  BY <1>3, ReadHolds DEF Arrive, t

(* The slot is free again. *)
LEMMA RespondHolds ==
    ASSUME IInv, LInv, NEW p \in Handlers, Respond(p)
    PROVE  StepHolds(p)
  BY IdleHolds, ReadHolds DEF Respond

(* A failure is never reported as a success. *)
LEMMA FailHolds ==
    ASSUME IInv, LInv, NEW p \in Handlers, Fail(p)
    PROVE  StepHolds(p)
<1>1. Holding(Reply(handler[p], "internal"), rounds, commitments)
  BY Known, RefusalHolds DEF Fail, Replies, Success
<1>2. UNCHANGED tables /\ rounds' = rounds /\ commitments' = commitments
  BY DEF Fail, tables
<1>3. QED
  BY <1>1, <1>2 DEF Fail, StepHolds, Writes

(* advance_round *)

(* Counting changes nothing that advance_round is to bring back. *)
LEMMA CountCommitsHolds ==
    ASSUME IInv, LInv, NEW p \in Handlers, CountCommits(p)
    PROVE  StepHolds(p)
<1> DEFINE s == handler[p]
           n == Cardinality(CommitmentsOf(s.row.id))
           t == [s EXCEPT !.pc = "count_reveals", !.commits = n]
<1>1. s \in LocalState /\ s.pc = "count_commits" /\ Holding(s, rounds, commitments)
  BY Known DEF CountCommits, At
<1> HIDE DEF n
<1>2. /\ t.pc = "count_reveals" /\ t.row = s.row /\ t.req = s.req /\ t.caller = s.caller
      /\ t.reply = s.reply
  BY <1>1 DEF LocalState
<1> HIDE DEF t
<1>3. Holding(t, rounds, commitments)
  BY <1>1, <1>2
  DEF Holding, CommitHolds, RevealHolds, CommitPCs, CommitRowPCs, RevealRowPCs, AdvancePCs
<1>4. QED
  BY <1>3, ReadHolds DEF CountCommits, n, t

(* The same for the second count, whatever comes next. *)
LEMMA CountRevealsHolds ==
    ASSUME IInv, LInv, NEW p \in Handlers, CountReveals(p)
    PROVE  StepHolds(p)
<1> DEFINE s == handler[p]
           all == (s.commits # 0 /\ s.commits = Cardinality(RevealedOf(s.row.id)))
           t == [s EXCEPT !.all_revealed = all]
           u == [t EXCEPT !.pc = "open_reveal"]
<1>1. /\ s \in LocalState /\ s.pc = "count_reveals" /\ Holding(s, rounds, commitments)
      /\ s.row \in Row /\ s.reply = "none"
  BY Known DEF CountReveals, At, LocalOK, PcOK, AdvancePCs, CallerOK
<1>2. all \in BOOLEAN
  OBVIOUS
<1> HIDE DEF all
<1>3. /\ t \in LocalState /\ t.row = s.row /\ t.req = s.req /\ t.caller = s.caller
      /\ t.reply = "none"
  BY <1>1, <1>2 DEF LocalState
<1>4. Serves(s.req, s.caller, s.row, rounds, commitments)
  BY <1>1 DEF Holding, AdvancePCs
<1> HIDE DEF t
<1>5. Holding(CloseOrResume(t, s.row), rounds, commitments)
  BY <1>1, <1>3, <1>4, CloseOrResumeHolds
<1>6. /\ u.pc = "open_reveal" /\ u.row = s.row /\ u.req = s.req /\ u.caller = s.caller
      /\ u.reply = "none"
  BY <1>3 DEF LocalState
<1> HIDE DEF u
<1>7. Holding(u, rounds, commitments)
  BY <1>4, <1>6
  DEF Holding, Serves, CommitHolds, RevealHolds, CommitPCs, CommitRowPCs, RevealRowPCs,
      AdvancePCs, Success
<1>8. \E v : Becomes(p, v) /\ Holding(v, rounds, commitments)
  BY <1>5, <1>7 DEF CountReveals, all, t, u
<1>9. QED
  BY <1>8, ReadHolds DEF CountReveals

(* The two columns of the deadline. *)
LEMMA RevealingBegins ==
    ASSUME IInv, NEW r \in DOMAIN rounds, NEW start \in Nat, NEW deadline \in Nat,
           rounds' = [rounds EXCEPT ![r].reveal_started_at = start,
                                    ![r].reveal_deadline = deadline],
           UNCHANGED <<commitments, evidences>>
    PROVE  Begins
<1> DEFINE x == Revealing(rounds[r], start, deadline)
<1>1. rounds[r] \in Row /\ RowShape(rounds[r])
  BY KnownRow
<1>2. /\ x \in Row /\ x.reveal_started_at # None
      /\ x.derivation_path = rounds[r].derivation_path /\ x.closed_at = rounds[r].closed_at
  BY <1>1, RevealingRow DEF Revealing, Row
<1>3. rounds' = [rounds EXCEPT ![r] = x]
  BY DEF IInv, RowsOK, Revealing
<1> HIDE DEF x
<1>4. QED
  BY <1>2, <1>3 DEF Begins

(* The deadline begins the reveal phase. *)
LEMMA OpenRevealHolds ==
    ASSUME IInv, LInv, NEW p \in Handlers, OpenReveal(p)
    PROVE  StepHolds(p)
<1> DEFINE s == handler[p]
           t == [s EXCEPT !.pc = "reread"]
<1>1. /\ s \in LocalState /\ s.pc = "open_reveal"
      /\ s.row \in Row /\ s.row.id \in DOMAIN rounds
  BY Known DEF OpenReveal, At, LocalOK, PcOK, AdvancePCs, CallerOK
<1>2. s.row.commit_deadline \in Nat /\ s.row.commit_deadline + RevealWindow \in Nat
  BY <1>1, ConstantsAssumption DEF Row, Time
<1>3. Begins
  BY <1>1, <1>2, RevealingBegins DEF OpenReveal
<1>4. Holding(s, rounds', commitments')
  BY <1>3, KnownAfter DEF Writes
<1>5. /\ t.pc = "reread" /\ t.row = s.row /\ t.req = s.req /\ t.caller = s.caller
      /\ t.reply = s.reply
  BY <1>1 DEF LocalState
<1> HIDE DEF t
<1>6. Holding(t, rounds', commitments')
  BY <1>1, <1>4, <1>5
  DEF Holding, CommitHolds, RevealHolds, CommitPCs, CommitRowPCs, RevealRowPCs, AdvancePCs
<1>7. QED
  BY <1>3, <1>6 DEF OpenReveal, StepHolds, Writes, t

(* The row that is read again is of the same round, thus of its path. *)
LEMMA RereadHolds ==
    ASSUME IInv, LInv, NEW p \in Handlers, Reread(p)
    PROVE  StepHolds(p)
<1> DEFINE s == handler[p]
           row == rounds[s.row.id]
<1>1. /\ s \in LocalState /\ s.pc = "reread" /\ Holding(s, rounds, commitments)
      /\ s.row.id \in DOMAIN rounds /\ s.reply = "none"
  BY Known DEF Reread, At, LocalOK, PcOK, AdvancePCs, CallerOK
<1>2. row \in Row /\ row.id = s.row.id
  BY <1>1, KnownRow
<1>3. Serves(s.req, s.caller, row, rounds, commitments)
  BY <1>1, <1>2 DEF Holding, AdvancePCs, Serves, OfPath
<1>4. Holding(CloseOrResume(s, row), rounds, commitments)
  BY <1>1, <1>2, <1>3, CloseOrResumeHolds
<1>5. QED
  BY <1>4, ReadHolds DEF Reread

(* Only a round that has revealed is closed. *)
LEMMA CloseRoundHolds ==
    ASSUME IInv, LInv, NEW p \in Handlers, CloseRound(p)
    PROVE  StepHolds(p)
<1> DEFINE s == handler[p]
           r == s.row.id
           closed_at == IF s.all_revealed THEN s.now ELSE s.row.reveal_deadline
           expired == ~s.all_revealed
           x == [rounds[r] EXCEPT !.closed_at = closed_at, !.expired = expired]
<1>1. /\ s \in LocalState /\ s.pc = "close" /\ s.reply = "none"
      /\ s.row \in Row /\ RowShape(s.row) /\ s.row.reveal_started_at # None
      /\ r \in DOMAIN rounds /\ rounds[r].reveal_started_at # None
  BY Known DEF CloseRound, At, LocalOK, BaseOK, Copy, PcOK, AdvancePCs, CallerOK
<1>2. rounds[r] \in Row
  BY <1>1, KnownRow
<1>3. closed_at \in OptTime /\ closed_at # None /\ expired \in BOOLEAN
  BY <1>1, NoneAssumption DEF LocalState, Row, RowShape, OptTime, Time
<1>4. rounds' = [rounds EXCEPT ![r] = x]
  BY <1>1 DEF CloseRound, IInv, RowsOK
<1> HIDE DEF closed_at, expired
<1>5. x \in Row /\ x.derivation_path = rounds[r].derivation_path /\ x.closed_at # None
  BY <1>2, <1>3 DEF Row
<1> HIDE DEF x
<1>6. Closes
  BY <1>1, <1>4, <1>5 DEF CloseRound, Closes
<1>7. Holding(s, rounds', commitments')
  BY <1>6, KnownAfter DEF Writes
<1>8. Serves(s.req, s.caller, s.row, rounds', commitments')
  BY <1>1, <1>7 DEF Holding, AdvancePCs
<1>9. Holding(ResumeClosed(s), rounds', commitments')
  BY <1>1, <1>8, ResumeClosedHolds
<1>10. QED
  BY <1>6, <1>9 DEF CloseRound, StepHolds, Writes

(* commit *)

(* What a handler of a commit knows. *)
LEMMA KnownCommit ==
    ASSUME IInv, LInv, NEW p \in Handlers, handler[p].pc \in CommitPCs \cup CommitRowPCs
    PROVE  /\ handler[p].req \in CommitRequests /\ handler[p].req \in Requests
           /\ handler[p].req \notin RevealRequests
           /\ handler[p].reply = "none"
           /\ CommitHolds(handler[p], rounds, commitments)
           /\ handler[p].pc \in CommitRowPCs =>
                /\ handler[p].row \in Row /\ handler[p].row.id \in DOMAIN rounds
<1>1. /\ handler[p].req \in CommitRequests
      /\ handler[p].pc \in CommitRowPCs => handler[p].row # None
  BY Known DEF LocalOK, PcOK
<1>2. handler[p].pc \notin {"idle", "reply"}
  BY DEF CommitPCs, CommitRowPCs
<1>3. QED
  BY <1>1, <1>2, Known, OneKind DEF Holding

(* The digest that was found is in the round that is read next. *)
LEMMA LookupDigestHolds ==
    ASSUME IInv, LInv, NEW p \in Handlers, LookupDigest(p)
    PROVE  StepHolds(p)
<1> DEFINE s == handler[p]
           u == [s EXCEPT !.pc = "active"]
<1>1. /\ s \in LocalState /\ s.req \in CommitRequests /\ s.req \in Requests
      /\ s.req \notin RevealRequests /\ s.reply = "none"
  BY Known, KnownCommit DEF LookupDigest, At, CommitPCs
<1>2. u.pc = "active" /\ u.req = s.req /\ u.reply = "none"
  BY <1>1 DEF LocalState
<1> HIDE DEF u
<1>3. Holding(u, rounds, commitments)
  BY <1>1, <1>2
  DEF Holding, CommitHolds, CommitPCs, CommitRowPCs, AdvancePCs, Success
<1>4. ASSUME NEW i \in DOMAIN commitments, commitments[i].builder_id = s.req.builder_id,
             commitments[i].digest = s.req.digest
      PROVE  Holding([s EXCEPT !.pc = "related_round",
                               !.row = rounds[commitments[i].round_id]], rounds, commitments)
  <2> DEFINE row == rounds[commitments[i].round_id]
             t == [s EXCEPT !.pc = "related_round", !.row = row]
  <2>1. row.id = commitments[i].round_id
    BY KnownRow DEF IInv, CommitmentsOK
  <2>2. CommittedFor(s.req, row.id, commitments)
    BY <1>4, <2>1 DEF CommittedFor, Committed
  <2> HIDE DEF row
  <2>3. t.pc = "related_round" /\ t.row = row /\ t.req = s.req /\ t.reply = "none"
    BY <1>1 DEF LocalState
  <2> HIDE DEF t
  <2>4. Holding(t, rounds, commitments)
    BY <1>1, <2>2, <2>3
    DEF Holding, CommitHolds, CommitPCs, CommitRowPCs, AdvancePCs, Success
  <2>5. QED
    BY <2>4 DEF t, row
<1>5. \E t : Becomes(p, t) /\ Holding(t, rounds, commitments)
  BY <1>3, <1>4 DEF LookupDigest, u
<1>6. QED
  BY <1>5, ReadHolds DEF LookupDigest

(* Only a round of the requested path counts as a retry. *)
LEMMA RelatedRoundHolds ==
    ASSUME IInv, LInv, NEW p \in Handlers, RelatedRound(p)
    PROVE  StepHolds(p)
<1> DEFINE s == handler[p]
           row == rounds[s.row.id]
           u == [s EXCEPT !.pc = "active", !.row = None]
<1>1. /\ s \in LocalState /\ s.req \in CommitRequests /\ s.req \in Requests
      /\ s.req \notin RevealRequests /\ s.reply = "none"
      /\ s.row.id \in DOMAIN rounds /\ CommittedFor(s.req, s.row.id, commitments)
  BY Known, KnownCommit DEF RelatedRound, At, CommitRowPCs, CommitHolds
<1>2. row \in Row /\ row.id = s.row.id
  BY <1>1, KnownRow
<1>3. ASSUME row.derivation_path = s.req.derivation_path
      PROVE  Holding(CallAdvance(s, row, "existing"), rounds, commitments)
  <2>1. Serves(s.req, "existing", row, rounds, commitments)
    BY <1>1, <1>2, <1>3 DEF Serves, OfPath
  <2>2. QED
    BY <1>1, <1>2, <2>1, CallAdvanceHolds DEF Callers
<1>4. u.pc = "active" /\ u.req = s.req /\ u.reply = "none"
  BY <1>1 DEF LocalState
<1> HIDE DEF u
<1>5. Holding(u, rounds, commitments)
  BY <1>1, <1>4
  DEF Holding, CommitHolds, CommitPCs, CommitRowPCs, AdvancePCs, Success
<1>6. \E t : Becomes(p, t) /\ Holding(t, rounds, commitments)
  BY <1>3, <1>5 DEF RelatedRound, u
<1>7. QED
  BY <1>6, ReadHolds DEF RelatedRound

(* The open round is of the requested path. *)
LEMMA SelectActiveHolds ==
    ASSUME IInv, LInv, NEW p \in Handlers, SelectActive(p)
    PROVE  StepHolds(p)
<1> DEFINE s == handler[p]
           u == [s EXCEPT !.pc = "insert_round"]
<1>1. /\ s \in LocalState /\ s.req \in CommitRequests /\ s.req \in Requests
      /\ s.req \notin RevealRequests /\ s.reply = "none"
  BY Known, KnownCommit DEF SelectActive, At, CommitPCs
<1>2. u.pc = "insert_round" /\ u.req = s.req /\ u.reply = "none"
  BY <1>1 DEF LocalState
<1> HIDE DEF u
<1>3. Holding(u, rounds, commitments)
  BY <1>1, <1>2
  DEF Holding, CommitHolds, CommitPCs, CommitRowPCs, AdvancePCs, Success
<1>4. ASSUME NEW r \in OpenRounds(s.req.derivation_path)
      PROVE  Holding(CallAdvance(s, rounds[r], "active"), rounds, commitments)
  <2>1. rounds[r] \in Row /\ rounds[r].id = r
    BY KnownRow DEF OpenRounds
  <2>2. Serves(s.req, "active", rounds[r], rounds, commitments)
    BY <1>1, <2>1 DEF Serves, OfPath, OpenRounds
  <2>3. QED
    BY <1>1, <2>1, <2>2, CallAdvanceHolds DEF Callers
<1>5. \E t : Becomes(p, t) /\ Holding(t, rounds, commitments)
  BY <1>3, <1>4 DEF SelectActive, u
<1>6. QED
  BY <1>5, ReadHolds DEF SelectActive

(* A builder that has committed the digest in the round may be told so. *)
LEMMA RepeatedCommitHolds ==
    ASSUME NEW s, s.req \in CommitRequests, s.req \in Requests,
           OfPath(s.req, s.row, rounds), NEW i \in ByBuilder(s.row.id, s.req.builder_id)
    PROVE  Holding(RepeatedCommit(s, i), rounds, commitments)
<1>1. CASE commitments[i].digest = s.req.digest
  <2>1. CommittedFor(s.req, s.row.id, commitments)
    BY <1>1 DEF CommittedFor, Committed, ByBuilder, CommitmentsOf
  <2>2. Holding(Reply(s, "ok"), rounds, commitments)
    BY <2>1, ReceiptHolds DEF OfPath, Replies
  <2>3. QED
    BY <1>1, <2>2 DEF RepeatedCommit
<1>2. CASE commitments[i].digest # s.req.digest
  BY <1>2, RefusalHolds DEF RepeatedCommit, Replies, Success
<1>3. QED
  BY <1>1, <1>2

(* The builder's own commitment in the round. *)
LEMMA SelectMyCommitmentHolds ==
    ASSUME IInv, LInv, NEW p \in Handlers, SelectMyCommitment(p)
    PROVE  StepHolds(p)
<1> DEFINE s == handler[p]
<1>1. /\ s \in LocalState /\ s.req \in CommitRequests /\ s.req \in Requests
      /\ s.reply = "none" /\ s.row \in Row /\ OfPath(s.req, s.row, rounds)
  BY Known, KnownCommit DEF SelectMyCommitment, At, CommitRowPCs, CommitHolds
<1>2. Holding(JoinOrConflict(s, s.row), rounds, commitments)
  BY <1>1, JoinOrConflictHolds
<1>3. \A i \in ByBuilder(s.row.id, s.req.builder_id) :
         Holding(RepeatedCommit(s, i), rounds, commitments)
  BY <1>1, RepeatedCommitHolds
<1>4. \E t : Becomes(p, t) /\ Holding(t, rounds, commitments)
  BY <1>2, <1>3 DEF SelectMyCommitment
<1>5. QED
  BY <1>4, ReadHolds DEF SelectMyCommitment

(* A round is inserted only when its path has no open one. *)
LEMMA InsertRoundHolds ==
    ASSUME IInv, LInv, NEW p \in Handlers, InsertRound(p)
    PROVE  StepHolds(p)
<1> DEFINE s == handler[p]
           x == NewRound(s)
           u == [s EXCEPT !.pc = "fetch_open"]
           t == [s EXCEPT !.pc = "fetch_created", !.row = x]
<1>1. /\ s \in LocalState /\ s.req \in CommitRequests /\ s.req \in Requests
      /\ s.req \notin RevealRequests /\ s.reply = "none"
  BY Known, KnownCommit DEF InsertRound, At, CommitPCs
<1>2. CASE UNCHANGED rounds /\ Becomes(p, u)
  <2>1. u.pc = "fetch_open" /\ u.req = s.req /\ u.reply = "none"
    BY <1>1 DEF LocalState
  <2> HIDE DEF u
  <2>2. Holding(u, rounds, commitments)
    BY <1>1, <2>1
    DEF Holding, CommitHolds, CommitPCs, CommitRowPCs, AdvancePCs, Success
  <2>3. OnlyReads
    BY <1>2 DEF InsertRound, OnlyReads, tables
  <2>4. QED
    BY <1>2, <2>2, <2>3, ReadHolds
<1>3. CASE /\ OpenRounds(s.req.derivation_path) = {}
           /\ rounds' = Append(rounds, x) /\ Becomes(p, t)
  <2>1. Len(rounds) \in Nat /\ DOMAIN rounds = 1 .. Len(rounds)
    BY DEF IInv, RowsOK
  <2>2. s.now + CommitWindow \in Nat /\ s.req.derivation_path \in Paths
    BY <1>1, ConstantsAssumption, RequestsAssumption DEF LocalState, Time
  <2>3. /\ x \in Row /\ x.id = Len(rounds) + 1
        /\ x.reveal_started_at = None /\ x.closed_at = None
        /\ x.derivation_path = s.req.derivation_path
    BY <2>1, <2>2 DEF NewRound, Row, Time, OptTime
  <2> HIDE DEF x
  <2>4. Opens
    BY <1>3, <2>3 DEF InsertRound, Opens, OpenRounds
  <2>5. rounds'[x.id] = x
    BY <1>3, <2>3, AppendSeq DEF IInv, RowsOK
  <2>6. t.pc = "fetch_created" /\ t.row = x /\ t.req = s.req /\ t.reply = "none"
    BY <1>1 DEF LocalState
  <2> HIDE DEF t
  <2>7. Holding(t, rounds', commitments')
    BY <1>1, <2>3, <2>5, <2>6
    DEF Holding, CommitHolds, OfPath, CommitPCs, CommitRowPCs, AdvancePCs, Success
  <2>8. QED
    BY <1>3, <2>4, <2>7 DEF StepHolds, Writes
<1>4. QED
  BY <1>2, <1>3 DEF InsertRound

(* The row that was created keeps its path. *)
LEMMA FetchCreatedHolds ==
    ASSUME IInv, LInv, NEW p \in Handlers, FetchCreated(p)
    PROVE  StepHolds(p)
<1> DEFINE s == handler[p]
           row == rounds[s.row.id]
<1>1. /\ s \in LocalState /\ s.req \in CommitRequests /\ s.reply = "none"
      /\ s.row.id \in DOMAIN rounds /\ OfPath(s.req, s.row, rounds)
  BY Known, KnownCommit DEF FetchCreated, At, CommitRowPCs, CommitHolds
<1>2. row \in Row /\ OfPath(s.req, row, rounds)
  BY <1>1, KnownRow DEF OfPath
<1>3. Holding(JoinOrConflict(s, row), rounds, commitments)
  BY <1>1, <1>2, JoinOrConflictHolds
<1>4. QED
  BY <1>3, ReadHolds DEF FetchCreated

(* The winner's round is of the same path. *)
LEMMA FetchOpenHolds ==
    ASSUME IInv, LInv, NEW p \in Handlers, FetchOpen(p)
    PROVE  StepHolds(p)
<1> DEFINE s == handler[p]
<1>1. /\ s \in LocalState /\ s.req \in CommitRequests /\ s.req \in Requests
      /\ s.reply = "none"
  BY Known, KnownCommit DEF FetchOpen, At, CommitPCs
<1>2. Holding(Reply(s, "internal"), rounds, commitments)
  BY <1>1, RefusalHolds DEF Replies, Success
<1>3. ASSUME NEW r \in OpenRounds(s.req.derivation_path)
      PROVE  Holding(JoinOrConflict(s, rounds[r]), rounds, commitments)
  <2>1. rounds[r] \in Row /\ OfPath(s.req, rounds[r], rounds)
    BY KnownRow DEF OpenRounds, OfPath
  <2>2. QED
    BY <1>1, <2>1, JoinOrConflictHolds
<1>4. \E t : Becomes(p, t) /\ Holding(t, rounds, commitments)
  BY <1>2, <1>3 DEF FetchOpen
<1>5. QED
  BY <1>4, ReadHolds DEF FetchOpen

(* The digest is committed from here on. *)
LEMMA InsertCommitmentHolds ==
    ASSUME IInv, LInv, NEW p \in Handlers, InsertCommitment(p)
    PROVE  StepHolds(p)
<1> DEFINE s == handler[p]
           c == [round_id |-> s.row.id, builder_id |-> s.req.builder_id,
                 digest |-> s.req.digest, evidence_id |-> None]
           t == [s EXCEPT !.pc = "threshold"]
<1>1. /\ s \in LocalState /\ s.req \in CommitRequests /\ s.req \in Requests
      /\ s.req \notin RevealRequests /\ s.reply = "none"
      /\ s.row \in Row /\ s.row.id \in DOMAIN rounds /\ OfPath(s.req, s.row, rounds)
      /\ s.pc = "insert_commitment"
  BY Known, KnownCommit DEF InsertCommitment, At, CommitRowPCs, CommitHolds
<1>2. CASE /\ UNCHANGED commitments
           /\ \E i \in ByBuilder(s.row.id, s.req.builder_id) : Becomes(p, RepeatedCommit(s, i))
  <2>1. \A i \in ByBuilder(s.row.id, s.req.builder_id) :
           Holding(RepeatedCommit(s, i), rounds, commitments)
    BY <1>1, RepeatedCommitHolds
  <2>2. OnlyReads
    BY <1>2 DEF InsertCommitment, OnlyReads, tables
  <2>3. QED
    BY <1>2, <2>1, <2>2, ReadHolds
<1>3. CASE /\ ByBuilder(s.row.id, s.req.builder_id) = {}
           /\ commitments' = Append(commitments, c) /\ Becomes(p, t)
  <2>1. c \in Commitment
    BY <1>1, RequestsAssumption DEF Commitment, Row
  <2>2. /\ c.round_id = s.row.id /\ c.builder_id = s.req.builder_id
        /\ c.digest = s.req.digest /\ c.evidence_id = None
    OBVIOUS
  <2> HIDE DEF c
  <2>3. Joins
    BY <1>1, <1>3, <2>1, <2>2 DEF InsertCommitment, Joins, ByBuilder, CommitmentsOf
  <2>4. /\ Len(commitments) + 1 \in DOMAIN commitments'
        /\ commitments'[Len(commitments) + 1] = c
    BY <1>3, <2>1, AppendSeq DEF IInv, CommitmentsOK
  <2>5. CommittedFor(s.req, s.row.id, commitments')
    BY <2>2, <2>4 DEF CommittedFor, Committed
  <2>6. t.pc = "threshold" /\ t.row = s.row /\ t.req = s.req /\ t.reply = "none"
    BY <1>1 DEF LocalState
  <2> HIDE DEF t
  <2>7. rounds' = rounds
    BY DEF InsertCommitment
  <2>8. Holding(t, rounds', commitments')
    BY <1>1, <2>5, <2>6, <2>7
    DEF Holding, CommitHolds, CommitPCs, CommitRowPCs, AdvancePCs, Success
  <2>9. QED
    BY <1>3, <2>3, <2>8 DEF StepHolds, Writes
<1>4. QED
  BY <1>2, <1>3 DEF InsertCommitment

(* The receipt is due, now or after the reveal phase has been started. *)
LEMMA CountThresholdHolds ==
    ASSUME IInv, LInv, NEW p \in Handlers, CountThreshold(p)
    PROVE  StepHolds(p)
<1> DEFINE s == handler[p]
           t == [s EXCEPT !.pc = "start_reveal"]
<1>1. /\ s \in LocalState /\ s.req \in CommitRequests /\ s.req \in Requests
      /\ s.req \notin RevealRequests /\ s.reply = "none"
      /\ OfPath(s.req, s.row, rounds) /\ CommittedFor(s.req, s.row.id, commitments)
  BY Known, KnownCommit DEF CountThreshold, At, CommitRowPCs, CommitHolds
<1>2. Holding(Reply(s, "created"), rounds, commitments)
  BY <1>1, ReceiptHolds DEF Replies, OfPath
<1>3. t.pc = "start_reveal" /\ t.row = s.row /\ t.req = s.req /\ t.reply = "none"
  BY <1>1 DEF LocalState
<1> HIDE DEF t
<1>4. Holding(t, rounds, commitments)
  BY <1>1, <1>3
  DEF Holding, CommitHolds, CommitPCs, CommitRowPCs, AdvancePCs, Success
<1>5. \E u : Becomes(p, u) /\ Holding(u, rounds, commitments)
  BY <1>2, <1>4 DEF CountThreshold, t
<1>6. QED
  BY <1>5, ReadHolds DEF CountThreshold

(* The threshold begins the reveal phase. *)
LEMMA StartRevealHolds ==
    ASSUME IInv, LInv, NEW p \in Handlers, StartReveal(p)
    PROVE  StepHolds(p)
<1> DEFINE s == handler[p]
           t == [s EXCEPT !.pc = "reread_joined"]
<1>1. /\ s \in LocalState /\ s.req \in CommitRequests /\ s.req \in Requests
      /\ s.req \notin RevealRequests /\ s.reply = "none" /\ s.pc = "start_reveal"
      /\ s.row.id \in DOMAIN rounds
  BY Known, KnownCommit DEF StartReveal, At, CommitRowPCs
<1>2. s.now \in Nat /\ s.now + RevealWindow \in Nat
  BY <1>1, ConstantsAssumption DEF LocalState, Time
<1>3. Begins
  BY <1>1, <1>2, RevealingBegins DEF StartReveal
<1>4. Holding(s, rounds', commitments')
  BY <1>3, KnownAfter DEF Writes
<1>5. t.pc = "reread_joined" /\ t.row = s.row /\ t.req = s.req /\ t.reply = "none"
  BY <1>1 DEF LocalState
<1> HIDE DEF t
<1>6. Holding(t, rounds', commitments')
  BY <1>1, <1>4, <1>5
  DEF Holding, CommitHolds, CommitPCs, CommitRowPCs, AdvancePCs, Success
<1>7. QED
  BY <1>3, <1>6 DEF StartReveal, StepHolds, Writes, t

(* The receipt shows the round as it is now: the same round. *)
LEMMA RereadJoinedHolds ==
    ASSUME IInv, LInv, NEW p \in Handlers, RereadJoined(p)
    PROVE  StepHolds(p)
<1> DEFINE s == handler[p]
           row == rounds[s.row.id]
           t == [s EXCEPT !.row = row]
<1>1. /\ s \in LocalState /\ s.req \in CommitRequests
      /\ s.row.id \in DOMAIN rounds /\ OfPath(s.req, s.row, rounds)
      /\ CommittedFor(s.req, s.row.id, commitments)
  BY Known, KnownCommit DEF RereadJoined, At, CommitRowPCs, CommitHolds
<1>2. row.id = s.row.id /\ row.derivation_path = s.req.derivation_path
  BY <1>1, KnownRow DEF OfPath
<1> HIDE DEF row
<1>3. t.row = row /\ t.req = s.req
  BY <1>1 DEF LocalState
<1> HIDE DEF t
<1>4. Holding(Reply(t, "created"), rounds, commitments)
  BY <1>1, <1>2, <1>3, ReceiptHolds DEF Replies
<1>5. QED
  BY <1>4, ReadHolds DEF RereadJoined, t, row

(* reveal *)

(* What a handler of a reveal knows. *)
LEMMA KnownReveal ==
    ASSUME IInv, LInv, NEW p \in Handlers,
           handler[p].pc \in RevealRowPCs \cup {"find_round"}
    PROVE  /\ handler[p].req \in RevealRequests /\ handler[p].req \in Requests
           /\ handler[p].req \notin CommitRequests
           /\ handler[p].reply = "none"
           /\ RevealHolds(handler[p], commitments)
           /\ handler[p].pc \in RevealRowPCs =>
                /\ handler[p].row \in Row /\ handler[p].row.id \in DOMAIN rounds
<1>1. /\ handler[p].req \in RevealRequests
      /\ handler[p].pc \in RevealRowPCs => handler[p].row # None
  BY Known DEF LocalOK, PcOK
<1>2. handler[p].pc \notin {"idle", "reply"}
  BY DEF RevealRowPCs
<1>3. QED
  BY <1>1, <1>2, Known, OneKind DEF Holding

(* The round that was asked for. *)
LEMMA FindRoundHolds ==
    ASSUME IInv, LInv, NEW p \in Handlers, FindRound(p)
    PROVE  StepHolds(p)
<1> DEFINE s == handler[p]
           r == s.req.round_id
<1>1. /\ s \in LocalState /\ s.req \in RevealRequests /\ s.req \in Requests
      /\ s.req \notin CommitRequests /\ s.reply = "none"
  BY Known, KnownReveal DEF FindRound, At
<1>2. /\ Holding(Reply(s, "not_found"), rounds, commitments)
      /\ Holding(Reply(s, "conflict"), rounds, commitments)
  BY <1>1, RefusalHolds DEF Replies, Success
<1>3. ASSUME r \in DOMAIN rounds
      PROVE  Holding([s EXCEPT !.pc = "find_commitment", !.row = rounds[r]], rounds, commitments)
  <2> DEFINE row == rounds[r]
             t == [s EXCEPT !.pc = "find_commitment", !.row = row]
  <2>1. row.id = s.req.round_id
    BY <1>3, KnownRow
  <2> HIDE DEF row
  <2>2. t.pc = "find_commitment" /\ t.row = row /\ t.req = s.req /\ t.reply = "none"
    BY <1>1 DEF LocalState
  <2> HIDE DEF t
  <2>3. Holding(t, rounds, commitments)
    BY <1>1, <2>1, <2>2
    DEF Holding, RevealHolds, RevealRowPCs, AdvancePCs, Success
  <2>4. QED
    BY <2>3 DEF t, row
<1>4. \E t : Becomes(p, t) /\ Holding(t, rounds, commitments)
  BY <1>2, <1>3 DEF FindRound
<1>5. QED
  BY <1>4, ReadHolds DEF FindRound

(* The evidence opens what its builder has committed in the round. *)
LEMMA FindCommitmentHolds ==
    ASSUME IInv, LInv, NEW p \in Handlers, FindCommitment(p)
    PROVE  StepHolds(p)
<1> DEFINE s == handler[p]
           b == Evidence(s.req.opening).builder_id
<1>1. /\ s \in LocalState /\ s.req \in RevealRequests /\ s.req \in Requests
      /\ s.req \notin CommitRequests /\ s.reply = "none"
      /\ s.row \in Row /\ s.row.id = s.req.round_id
  BY Known, KnownReveal DEF FindCommitment, At, RevealRowPCs, RevealHolds
<1>2. /\ Holding(Reply(s, "conflict"), rounds, commitments)
      /\ Holding(Reply(s, "bad_request"), rounds, commitments)
  BY <1>1, RefusalHolds DEF Replies, Success
<1>3. ASSUME NEW i \in ByBuilder(s.row.id, b), commitments[i].digest = s.req.opening,
             commitments[i].evidence_id # None
      PROVE  Holding(Reply(s, "ok"), rounds, commitments)
  <2>1. PublishedFor(s.req, commitments)
    BY <1>1, <1>3 DEF PublishedFor, Published, ByBuilder, CommitmentsOf
  <2>2. QED
    BY <1>1, <2>1, RevealedHolds DEF Replies
<1>4. ASSUME NEW i \in ByBuilder(s.row.id, b), commitments[i].digest = s.req.opening
      PROVE  Holding(CallAdvance(s, s.row, "reveal"), rounds, commitments)
  <2>1. OpensCommitment(s.req, commitments)
    BY <1>1, <1>4 DEF OpensCommitment, Committed, ByBuilder, CommitmentsOf
  <2>2. Serves(s.req, "reveal", s.row, rounds, commitments)
    BY <1>1, <2>1 DEF Serves
  <2>3. QED
    BY <1>1, <2>2, CallAdvanceHolds DEF Callers
<1>5. \E t : Becomes(p, t) /\ Holding(t, rounds, commitments)
  BY <1>2, <1>3, <1>4 DEF FindCommitment
<1>6. QED
  BY <1>5, ReadHolds DEF FindCommitment

(* The commitment that the transaction finds is the one that was opened.   *)
LEMMA StoreEvidenceHolds ==
    ASSUME IInv, LInv, NEW p \in Handlers, StoreEvidence(p)
    PROVE  StepHolds(p)
<1> DEFINE s == handler[p]
           t == [s EXCEPT !.pc = "after_store"]
<1>1. /\ s \in LocalState /\ s.req \in RevealRequests /\ s.req \in Requests
      /\ s.req \notin CommitRequests /\ s.reply = "none" /\ s.pc = "store"
      /\ s.row.id = s.req.round_id
      /\ OpensCommitment(s.req, commitments)
      /\ rounds[s.row.id].reveal_started_at # None
  BY Known, KnownReveal
  DEF StoreEvidence, At, RevealRowPCs, RevealHolds, LocalOK, BaseOK, PcOK, Copy
<1>2. PICK i \in ByBuilder(s.row.id, Evidence(s.req.opening).builder_id) :
        \/ /\ commitments[i].evidence_id # None
           /\ Becomes(p, Reply(s, "ok"))
           /\ UNCHANGED <<commitments, evidences>>
        \/ /\ commitments[i].evidence_id = None
           /\ evidences' = Append(evidences, Evidence(s.req.opening))
           /\ commitments' = [commitments EXCEPT ![i].evidence_id = Len(evidences) + 1]
           /\ Becomes(p, t)
  BY DEF StoreEvidence
<1>3. /\ i \in DOMAIN commitments /\ commitments[i].round_id = s.req.round_id
      /\ commitments[i].builder_id = Evidence(s.req.opening).builder_id
      /\ commitments[i].digest = s.req.opening
  BY <1>1 DEF LInv, TablesOK, CommittedOnce, OpensCommitment, Committed, ByBuilder,
             CommitmentsOf
<1>4. CASE /\ commitments[i].evidence_id # None
           /\ Becomes(p, Reply(s, "ok")) /\ UNCHANGED <<commitments, evidences>>
  <2>1. PublishedFor(s.req, commitments)
    BY <1>3, <1>4 DEF PublishedFor, Published
  <2>2. Holding(Reply(s, "ok"), rounds, commitments)
    BY <1>1, <2>1, RevealedHolds DEF Replies
  <2>3. OnlyReads
    BY <1>4 DEF StoreEvidence, OnlyReads, tables
  <2>4. QED
    BY <1>4, <2>2, <2>3, ReadHolds
<1>5. CASE /\ commitments[i].evidence_id = None
           /\ evidences' = Append(evidences, Evidence(s.req.opening))
           /\ commitments' = [commitments EXCEPT ![i].evidence_id = Len(evidences) + 1]
           /\ Becomes(p, t)
  <2>1. commitments' = [commitments EXCEPT
                          ![i] = WithEvidence(commitments[i], Len(evidences) + 1)]
    BY <1>3, <1>5 DEF WithEvidence, IInv, CommitmentsOK
  <2>2. evidences' = Append(evidences, Evidence(commitments[i].digest))
    BY <1>3, <1>5
  <2>3. Linking(commitments, evidences, i, commitments', evidences')
    BY <1>3, <2>1, <2>2, LinkedRows DEF IInv, CommitmentsOK
  <2>4. PublishedFor(s.req, commitments')
    BY <1>3, <2>3 DEF Linking, PublishedFor, Published
  <2>5. t.pc = "after_store" /\ t.row = s.row /\ t.req = s.req /\ t.reply = "none"
    BY <1>1 DEF LocalState
  <2> HIDE DEF t
  <2>6. Holding(t, rounds', commitments')
    BY <1>1, <2>4, <2>5
    DEF Holding, RevealHolds, RevealRowPCs, AdvancePCs, Success
  <2>7. Publishes
    <3>1. rounds[commitments[i].round_id].reveal_started_at # None
      BY <1>1, <1>3
    <3>2. UNCHANGED rounds
      BY DEF StoreEvidence
    <3>3. QED
      BY <1>3, <1>5, <2>1, <2>2, <3>1, <3>2, Zenon DEF Publishes
  <2>8. QED
    BY <1>5, <2>6, <2>7 DEF StepHolds, Writes
<1>6. QED
  BY <1>2, <1>4, <1>5

(* The evidence is stored, whatever becomes of the round. *)
LEMMA AfterStoreHolds ==
    ASSUME IInv, LInv, NEW p \in Handlers, AfterStore(p)
    PROVE  StepHolds(p)
<1> DEFINE s == handler[p]
           row == rounds[s.row.id]
<1>1. /\ s \in LocalState /\ s.req \in Requests
      /\ s.req \notin CommitRequests /\ s.reply = "none"
      /\ s.row.id \in DOMAIN rounds /\ s.row.id = s.req.round_id
      /\ PublishedFor(s.req, commitments)
  BY Known, KnownReveal DEF AfterStore, At, RevealRowPCs, RevealHolds
<1>2. row \in Row /\ row.id = s.row.id
  BY <1>1, KnownRow
<1>3. Serves(s.req, "after", row, rounds, commitments)
  BY <1>1, <1>2 DEF Serves
<1>4. Holding(CallAdvance(s, row, "after"), rounds, commitments)
  BY <1>1, <1>2, <1>3, CallAdvanceHolds DEF Callers
<1>5. QED
  BY <1>4, ReadHolds DEF AfterStore

(* round_status and metrics_snapshot *)

(* A poll or a scrape is neither a commit nor a reveal. *)
LEMMA KnownPoll ==
    ASSUME IInv, LInv, NEW p \in Handlers,
           handler[p].pc \in {"find_status", "status_at", "scan", "next_open"}
    PROVE  /\ handler[p] \in LocalState /\ handler[p].req \in Requests
           /\ handler[p].req \notin CommitRequests /\ handler[p].req \notin RevealRequests
           /\ handler[p].reply = "none"
  BY Known
  DEF Holding, CommitHolds, RevealHolds, CommitPCs, CommitRowPCs, RevealRowPCs, AdvancePCs

(* Polling promises nothing. *)
LEMMA FindStatusHolds ==
    ASSUME IInv, LInv, NEW p \in Handlers, FindStatus(p)
    PROVE  StepHolds(p)
<1> DEFINE s == handler[p]
           t(row) == [s EXCEPT !.pc = "status_at", !.row = row]
<1>1. /\ s \in LocalState /\ s.req \in Requests /\ s.req \notin CommitRequests
      /\ s.req \notin RevealRequests /\ s.reply = "none"
  BY KnownPoll DEF FindStatus, At
<1>2. Holding(Reply(s, "not_found"), rounds, commitments)
  BY <1>1, RefusalHolds DEF Replies, Success
<1>3. ASSUME NEW row
      PROVE  Holding(t(row), rounds, commitments)
  <2>1. t(row).pc = "status_at" /\ t(row).req = s.req /\ t(row).reply = "none"
    BY <1>1 DEF LocalState
  <2> HIDE DEF t
  <2>2. QED
    BY <1>1, <2>1, PollHolds
<1>4. \E u : Becomes(p, u) /\ Holding(u, rounds, commitments)
  BY <1>2, <1>3 DEF FindStatus
<1>5. QED
  BY <1>4, ReadHolds DEF FindStatus

(* advance_round promises a poll nothing. *)
LEMMA StatusAtHolds ==
    ASSUME IInv, LInv, NEW p \in Handlers, StatusAt(p)
    PROVE  StepHolds(p)
<1> DEFINE s == [handler[p] EXCEPT !.now = clock]
<1>1. handler[p].row \in Row
  BY Known DEF StatusAt, At, LocalOK, PcOK
<1>2. clock \in Time
  BY DEF IInv
<1>3. /\ s \in LocalState /\ s.req \in Requests /\ s.req \notin CommitRequests
      /\ s.req \notin RevealRequests /\ s.reply = "none" /\ s.row \in Row
  BY <1>1, <1>2, KnownPoll DEF StatusAt, At, LocalState
<1> HIDE DEF s
<1>4. Holding(CallAdvance(s, s.row, "status"), rounds, commitments)
  BY <1>3, CallAdvanceHolds DEF Callers, Serves
<1>5. QED
  BY <1>4, ReadHolds DEF StatusAt, s

(* A commit that was found in a closed round is answered with that round.  *)
LEMMA ReloadStatusHolds ==
    ASSUME IInv, LInv, NEW p \in Handlers, ReloadStatus(p)
    PROVE  StepHolds(p)
<1> DEFINE s == handler[p]
           row == rounds[s.row.id]
           t == [s EXCEPT !.row = row]
<1>1. /\ s \in LocalState /\ s.pc = "reload_status" /\ s.req \in Requests
      /\ s.row.id \in DOMAIN rounds /\ Holding(s, rounds, commitments)
  BY Known DEF ReloadStatus, At, LocalOK, PcOK
<1>2. row.id = s.row.id
  BY <1>1, KnownRow
<1>3. t.row = row /\ t.req = s.req
  BY <1>1 DEF LocalState
<1> HIDE DEF t
<1>4. Holding(Reply(t, "ok"), rounds, commitments)
  <2>1. CASE s.req \in CommitRequests
    <3>1. OfPath(s.req, s.row, rounds) /\ CommittedFor(s.req, s.row.id, commitments)
      BY <1>1, <2>1 DEF Holding, CommitHolds
    <3>2. t.row.derivation_path = t.req.derivation_path
          /\ CommittedFor(t.req, t.row.id, commitments)
      BY <1>2, <1>3, <3>1 DEF OfPath
    <3>3. QED
      BY <1>3, <2>1, <3>2, ReceiptHolds DEF Replies
  <2>2. CASE s.req \notin CommitRequests
    <3>1. s.req \notin RevealRequests
      BY <1>1 DEF Holding, RevealHolds, RevealRowPCs, AdvancePCs
    <3>2. QED
      BY <1>1, <1>3, <2>2, <3>1, PollHolds DEF Reply, Idle
  <2>3. QED
    BY <2>1, <2>2
<1>5. QED
  BY <1>4, ReadHolds DEF ReloadStatus, t

(* A scrape promises nothing. *)
LEMMA ScanOpenHolds ==
    ASSUME IInv, LInv, NEW p \in Handlers, ScanOpen(p)
    PROVE  StepHolds(p)
<1> DEFINE s == handler[p]
           todo == {rounds[r] : r \in {q \in DOMAIN rounds : rounds[q].closed_at = None}}
           t == [s EXCEPT !.pc = "next_open", !.todo = todo]
<1>1. /\ s \in LocalState /\ s.req \in Requests /\ s.req \notin CommitRequests
      /\ s.req \notin RevealRequests /\ s.reply = "none"
  BY KnownPoll DEF ScanOpen, At
<1> HIDE DEF todo
<1>2. t.pc = "next_open" /\ t.req = s.req /\ t.reply = "none"
  BY <1>1 DEF LocalState
<1> HIDE DEF t
<1>3. Holding(t, rounds, commitments)
  BY <1>1, <1>2, PollHolds
<1>4. QED
  BY <1>3, ReadHolds DEF ScanOpen, todo, t

(* Nor does advance_round promise a scrape anything. *)
LEMMA NextOpenHolds ==
    ASSUME IInv, LInv, NEW p \in Handlers, NextOpen(p)
    PROVE  StepHolds(p)
<1> DEFINE s == handler[p]
<1>1. /\ s \in LocalState /\ s.req \in Requests /\ s.req \notin CommitRequests
      /\ s.req \notin RevealRequests /\ s.reply = "none"
  BY KnownPoll DEF NextOpen, At
<1>2. Holding(Reply(s, "ok"), rounds, commitments)
  BY <1>1, PollHolds DEF Reply, Idle
<1>3. ASSUME NEW row \in s.todo
      PROVE  Holding(CallAdvance([s EXCEPT !.todo = @ \ {row}], row, "scrape"),
                     rounds, commitments)
  <2> DEFINE t == [s EXCEPT !.todo = @ \ {row}]
  <2>1. t \in LocalState /\ t.req = s.req /\ t.reply = "none" /\ row \in Row
    BY <1>1 DEF LocalState
  <2> HIDE DEF t
  <2>2. Holding(CallAdvance(t, row, "scrape"), rounds, commitments)
    BY <1>1, <2>1, CallAdvanceHolds DEF Callers, Serves
  <2>3. QED
    BY <2>2 DEF t
<1>4. \E t : Becomes(p, t) /\ Holding(t, rounds, commitments)
  BY <1>2, <1>3 DEF NextOpen
<1>5. QED
  BY <1>4, ReadHolds DEF NextOpen

-----------------------------------------------------------------------------
(* The invariant. *)

(* Empty tables and idle slots. *)
LEMMA LInitOK ==
    Init => LInv
<1> SUFFICES ASSUME Init PROVE LInv
  OBVIOUS
<1>1. TablesOK
  BY DEF Init, TablesOK, OneOpen, CommittedOnce, Linked
<1>2. QED
  BY <1>1, IdleHolds DEF Init, LInv

(* Every step changes the tables in one of the five ways, and leaves its   *)
(* handler with what it must know.                                         *)
LEMMA NextWrites ==
    ASSUME IInv, LInv, [Next]_vars
    PROVE  Writes /\ LInv'
<1>1. CASE UNCHANGED vars
  <2>1. UNCHANGED tables
    BY <1>1 DEF vars, tables
  <2>2. QED
    BY <1>1, <2>1 DEF vars, Writes, LInv, TablesOK
<1>2. CASE Tick
  <2>1. UNCHANGED tables /\ UNCHANGED <<rounds, commitments, evidences, handler>>
    BY <1>2 DEF Tick, tables
  <2>2. QED
    BY <2>1 DEF Writes, LInv, TablesOK
<1>3. ASSUME NEW p \in Handlers, Step(p) \/ Fail(p) \/ \E q \in Requests : Arrive(p, q)
      PROVE  Writes /\ LInv'
  <2>1. CASE Commit(p)
    BY <2>1, LookupDigestHolds, RelatedRoundHolds, SelectActiveHolds,
       SelectMyCommitmentHolds, InsertRoundHolds, FetchCreatedHolds, FetchOpenHolds,
       InsertCommitmentHolds, CountThresholdHolds, StartRevealHolds, RereadJoinedHolds,
       OthersHold
    DEF Commit, StepHolds
  <2>2. CASE Reveal(p)
    BY <2>2, FindRoundHolds, FindCommitmentHolds, StoreEvidenceHolds, AfterStoreHolds,
       OthersHold
    DEF Reveal, StepHolds
  <2>3. CASE Poll(p)
    BY <2>3, FindStatusHolds, StatusAtHolds, ReloadStatusHolds, ScanOpenHolds, NextOpenHolds,
       OthersHold
    DEF Poll, StepHolds
  <2>4. CASE Advance(p)
    BY <2>4, CountCommitsHolds, CountRevealsHolds, OpenRevealHolds, RereadHolds,
       CloseRoundHolds, OthersHold
    DEF Advance, StepHolds
  <2>5. CASE Respond(p) \/ Fail(p) \/ \E q \in Requests : Arrive(p, q)
    BY <2>5, RespondHolds, FailHolds, ArriveHolds, OthersHold DEF StepHolds
  <2>6. QED
    BY <1>3, <2>1, <2>2, <2>3, <2>4, <2>5 DEF Step
<1>4. QED
  BY <1>1, <1>2, <1>3 DEF Next

(* LInv is an invariant: what the unique indexes and the transaction of    *)
(* reveal are there for, and what a handler may rely on though the tables  *)
(* have changed since it read them.                                        *)
THEOREM LedgerInvariance == Spec => []LInv
<1>1. IInv /\ LInv /\ [Next]_vars => LInv'
  BY NextWrites
<1>2. QED
  BY <1>1, LInitOK, Invariance, PTL DEF Spec

(* A path has at most one open round, although the handler that finds none *)
(* and the one that inserts it are separated by other handlers' steps, and *)
(* nobody who saves a row opens a closed round again.                      *)
THEOREM OneOpenPerPath == Spec => []OneOpenRound
<1>1. IInv /\ LInv => OneOpenRound
  <2> SUFFICES ASSUME IInv, LInv, NEW path \in Paths
               PROVE  Cardinality(OpenRounds(path)) <= 1
    BY DEF OneOpenRound
  <2>1. \A q, r \in OpenRounds(path) : q = r
    BY DEF LInv, TablesOK, OneOpen, OpenRounds
  <2>2. CASE OpenRounds(path) = {}
    BY <2>2, FS_EmptySet
  <2>3. CASE OpenRounds(path) # {}
    <3>1. PICK r : OpenRounds(path) = {r}
      BY <2>1, <2>3
    <3>2. QED
      BY <3>1, FS_Singleton
  <2>4. QED
    BY <2>2, <2>3
<1>2. QED
  BY <1>1, Invariance, LedgerInvariance, PTL

(* Evidence and commitments correspond: no delivery of a reveal stores the *)
(* evidence twice, and none is stored under a digest it does not open.     *)
THEOREM EvidenceMatches == Spec => []EvidenceMatchesCommitment
<1>1. IInv /\ LInv => EvidenceMatchesCommitment
  <2> SUFFICES ASSUME IInv, LInv
               PROVE  EvidenceMatchesCommitment
    OBVIOUS
  <2>1. Linked(commitments, evidences)
    BY DEF LInv, TablesOK
  <2>2. None \notin DOMAIN evidences
    BY NoneAssumption DEF IInv
  <2>3. QED
    BY <2>1, <2>2 DEF Linked, EvidenceMatchesCommitment
<1>2. QED
  BY <1>1, Invariance, LedgerInvariance, PTL

(* Whatever other requests do meanwhile, and in whichever of its branches  *)
(* the handler ends, a success that is reported to a builder is true.      *)
THEOREM ReceiptsAreBacked == Spec => []ReceiptBacked
<1>1. LInv => ReceiptBacked
  <2> SUFFICES ASSUME LInv, NEW p \in Handlers, handler[p].reply \in {"created", "ok"}
               PROVE  /\ handler[p].req.op = "commit" =>
                           CommitBacked(handler[p].req, handler[p].row)
                      /\ handler[p].req.op = "reveal" => RevealBacked(handler[p].req)
    BY DEF ReceiptBacked
  <2> DEFINE s == handler[p]
  <2>1. Holding(s, rounds, commitments)
    BY DEF LInv
  <2>2. s.req \in Requests
    BY <2>1 DEF Holding
  <2>3. ASSUME s.req.op = "commit"
        PROVE  CommitBacked(s.req, s.row)
    BY <2>1, <2>2, <2>3, OneKind
    DEF Holding, CommitHolds, Success, CommittedFor, Committed, CommitBacked, ByBuilder,
        CommitmentsOf
  <2>4. ASSUME s.req.op = "reveal"
        PROVE  RevealBacked(s.req)
    BY <2>1, <2>2, <2>4, OneKind
    DEF Holding, RevealHolds, Success, PublishedFor, Published, RevealBacked, ByBuilder,
        CommitmentsOf
  <2>5. QED
    BY <2>3, <2>4
<1>2. QED
  BY <1>1, LedgerInvariance, PTL

=============================================================================
