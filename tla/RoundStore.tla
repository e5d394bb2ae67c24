----------------------------- MODULE RoundStore -----------------------------
(***************************************************************************)
(* The commit-reveal rounds of the evidence registry: the operations       *)
(* commit, reveal, round_status and metrics_snapshot of EvidenceStore      *)
(* (crates/server/src/store.rs) over the SQLite tables commit_reveal_      *)
(* rounds, evidence_commitments and evidences.                             *)
(*                                                                         *)
(* Every HTTP request runs in a task of its own, and the store takes no    *)
(* lock: each SQL statement commits by itself, except for the one          *)
(* transaction of reveal.  A handler here therefore is a process that      *)
(* executes one statement per step, keeps what it read in local variables  *)
(* and decides on these copies, however stale they are by then.            *)
(*                                                                         *)
(* A definition marked "Variant" is a plausible mistake in the code.  It   *)
(* is not part of the specification: put in the place of the definition    *)
(* below it, it breaks a property, which shows that the property can fail. *)
(***************************************************************************)
EXTENDS Naturals, Sequences, FiniteSets

CONSTANTS
    Handlers,         \* request slots of the server: requests served at a time
    Builders,         \* builder identifiers
    Paths,            \* derivation paths
    Digests,          \* commitment digests, each with the evidence it opens to
    CommitRequests,   \* the bodies of POST /v1/evidence/commitments
    RevealRequests,   \* the bodies of POST /v1/evidence/reveals
    StatusRequests,   \* the calls of GET /v1/evidence/rounds/{round_id}
    MinimumBuilders,  \* RoundConfig.minimum_builders
    CommitWindow,     \* RoundConfig.commit_window
    RevealWindow,     \* RoundConfig.reveal_window
    None,             \* NULL in a column, Option::None in a variable
    MaxRounds,        \* bound: no commit request arrives when so many rounds exist
    LastCommit,       \* bound: no commit request arrives later than this
    MaxClock,         \* bound: the clock stops here
    MaxFailures       \* bound: requests that fail or are dropped half-way

(***************************************************************************)
(* SHA-256 is taken to be collision-free and hiding, so a digest is the    *)
(* evidence and the nonce it was computed from: two openings have the same *)
(* digest only when they are equal.  The server sees nothing of the        *)
(* opening before it is revealed.                                          *)
(***************************************************************************)
Evidence(d) == d.evidence

ASSUME ConstantsAssumption ==
    /\ MinimumBuilders \in Nat \ {0}
    /\ CommitWindow \in Nat \ {0}
    /\ RevealWindow \in Nat \ {0}
    /\ MaxRounds \in Nat /\ LastCommit \in Nat /\ MaxClock \in Nat
    /\ MaxFailures \in Nat

ASSUME RequestsAssumption ==
    /\ \A d \in Digests : /\ d.evidence.builder_id \in Builders
                          /\ d.evidence.derivation_path \in Paths
    /\ \A q \in CommitRequests :
         /\ q.op = "commit" /\ q.builder_id \in Builders
         /\ q.derivation_path \in Paths /\ q.digest \in Digests
    /\ \A q \in RevealRequests :
         /\ q.op = "reveal" /\ q.round_id \in Nat /\ q.opening \in Digests
    /\ \A q \in StatusRequests : q.op = "status" /\ q.round_id \in Nat

VARIABLES
    clock,        \* Utc::now()
    rounds,       \* table commit_reveal_rounds: a row's id is its index
    commitments,  \* table evidence_commitments: a row's id is its index
    evidences,    \* table evidences: a row's id is its index
    handler,      \* the local state of the request in each slot
    failures      \* requests that failed so far (see MaxFailures)

tables == <<rounds, commitments, evidences>>
vars == <<clock, rounds, commitments, evidences, handler, failures>>

-----------------------------------------------------------------------------
(* Rows and local states. *)

Time == Nat
OptTime == Time \cup {None}

Row == [id : Nat, derivation_path : Paths, commit_deadline : Time,
        reveal_started_at : OptTime, reveal_deadline : OptTime,
        closed_at : OptTime, expired : BOOLEAN]

Commitment == [round_id : Nat, builder_id : Builders, digest : Digests,
               evidence_id : Nat \cup {None}]

ScrapeRequest == [op |-> "scrape"]
Requests == CommitRequests \cup RevealRequests \cup StatusRequests \cup {ScrapeRequest}

ASSUME NoneAssumption ==
    None \notin Nat /\ None \notin Row /\ None \notin Requests

PC == {"idle", "lookup", "related_round", "active", "my_commitment", "insert_round", "fetch_created",
       "fetch_open", "insert_commitment", "threshold", "start_reveal", "reread_joined",
       "find_round", "find_commitment", "store", "after_store",
       "find_status", "status_at", "reload_status", "scan", "next_open",
       "count_commits", "count_reveals", "open_reveal", "reread", "close", "reply"}

Callers == {"none", "existing", "active", "reveal", "after", "status", "scrape"}

Replies == {"none", "created", "ok", "bad_request", "not_found", "conflict", "gone",
            "internal"}

LocalState == [pc : PC, req : Requests \cup {None}, now : Time,
               row : Row \cup {None}, commits : Nat, all_revealed : BOOLEAN,
               caller : Callers, todo : SUBSET Row, seen : SUBSET Nat,
               reply : Replies]

Idle == [pc |-> "idle", req |-> None, now |-> 0, row |-> None, commits |-> 0,
         all_revealed |-> FALSE, caller |-> "none", todo |-> {}, seen |-> {},
         reply |-> "none"]

(* What the SELECT and COUNT statements return. *)
OpenRounds(path) == {r \in DOMAIN rounds : /\ rounds[r].derivation_path = path
                                           /\ rounds[r].closed_at = None}
CommitmentsOf(r) == {i \in DOMAIN commitments : commitments[i].round_id = r}
RevealedOf(r) == {i \in CommitmentsOf(r) : commitments[i].evidence_id # None}
ByBuilder(r, b) == {i \in CommitmentsOf(r) : commitments[i].builder_id = b}

(* The rounds some of whose evidence anybody can read (GET /v1/evidence). *)
VisibleRounds == {r \in DOMAIN rounds : RevealedOf(r) # {}}

-----------------------------------------------------------------------------
(* Steps of local states: where a handler goes from s. *)

Reply(s, status) ==
    [Idle EXCEPT !.pc = "reply", !.req = s.req, !.row = s.row, !.reply = status]

(* The local variables of advance_round are gone when it returns. *)
Returned(s) == [s EXCEPT !.caller = "none", !.commits = 0, !.all_revealed = FALSE]

(* What commit and reveal ask of the row they have in hand. *)

(* Variant: commitments are taken until the round closes. *)
TakesCommitmentsUntilClosed(row) == row.closed_at = None
TakesCommitments(row) == row.reveal_started_at = None

(* Variant: reveals are taken as soon as the round is open. *)
TakesRevealsUntilClosed(row) == row.closed_at = None
TakesReveals(row) == row.reveal_started_at # None

(* advance_round returned Some(row) to its caller. *)
ResumeOpen(s, row) ==
    LET t == [Returned(s) EXCEPT !.row = row] IN
    CASE s.caller \in {"existing", "status"} -> Reply(t, "ok")
      [] s.caller = "active" -> IF TakesCommitments(row)
                                THEN [t EXCEPT !.pc = "my_commitment"]
                                ELSE Reply(t, "conflict")
      [] s.caller = "reveal" -> IF TakesReveals(row)
                                THEN [t EXCEPT !.pc = "store"]
                                ELSE Reply(t, "conflict")
      [] s.caller = "scrape" -> [t EXCEPT !.pc = "next_open", !.row = None]
      [] OTHER -> Reply(t, "created")

(* Variant: reveal finds its round closed by the call that follows it. *)
ResumeClosedAfterReveal(s) ==
    LET t == Returned(s) IN
    CASE s.caller \in {"existing", "status"} -> [t EXCEPT !.pc = "reload_status"]
      [] s.caller = "active" -> [t EXCEPT !.pc = "insert_round", !.row = None]
      [] s.caller \in {"reveal", "after"} -> Reply(t, "gone")
      [] OTHER -> [t EXCEPT !.pc = "next_open", !.row = None]

(* advance_round returned None to its caller. *)
ResumeClosed(s) ==
    LET t == Returned(s) IN
    CASE s.caller \in {"existing", "status"} -> [t EXCEPT !.pc = "reload_status"]
      [] s.caller = "active" -> [t EXCEPT !.pc = "insert_round", !.row = None]
      [] s.caller = "reveal" -> Reply(t, "gone")
      [] s.caller = "scrape" -> [t EXCEPT !.pc = "next_open", !.row = None]
      [] OTHER -> Reply(t, "created")

(* advance_round called on a row its caller has read. *)
CallAdvance(s, row, caller) ==
    LET t == [s EXCEPT !.row = row, !.caller = caller] IN
    IF row.closed_at # None THEN ResumeClosed(t) ELSE [t EXCEPT !.pc = "count_commits"]

(* Variant: the reveal deadline is forgotten. *)
CloseOnlyWhenRevealed(s, row) ==
    IF row.reveal_started_at # None /\ s.all_revealed
    THEN [s EXCEPT !.pc = "close", !.row = row]
    ELSE ResumeOpen(s, row)

(* The second half of advance_round: close the round or leave it open. *)
CloseOrResume(s, row) ==
    IF row.reveal_started_at # None /\ (s.all_revealed \/ s.now >= row.reveal_deadline)
    THEN [s EXCEPT !.pc = "close", !.row = row]
    ELSE ResumeOpen(s, row)

(* commit holds a row it may join. *)
JoinOrConflict(s, row) ==
    LET t == [s EXCEPT !.row = row] IN
    IF TakesCommitments(row) THEN [t EXCEPT !.pc = "insert_commitment"]
                             ELSE Reply(t, "conflict")

-----------------------------------------------------------------------------
(* A handler is at a statement, moves to a local state, changes no table. *)

At(p, pc) == handler[p].pc = pc
Becomes(p, s) == handler' = [handler EXCEPT ![p] = s]
OnlyReads == UNCHANGED <<clock, tables, failures>>

(* A request reaches a free slot; commit and reveal take the time first.   *)
(* seen is a history variable: what the sender may have read by then.      *)
FirstStep(req) == CASE req.op = "commit" -> "lookup"
                    [] req.op = "reveal" -> "find_round"
                    [] req.op = "status" -> "find_status"
                    [] OTHER -> "scan"

Arrive(p, req) ==
    /\ At(p, "idle")
    /\ req.op = "commit" => clock <= LastCommit /\ Len(rounds) < MaxRounds
    /\ Becomes(p, [Idle EXCEPT !.pc = FirstStep(req), !.req = req, !.now = clock,
                               !.seen = VisibleRounds])
    /\ OnlyReads

(* The answer is on its way to the client and the slot is free again. *)
Respond(p) ==
    /\ At(p, "reply")
    /\ Becomes(p, Idle)
    /\ OnlyReads

(* A statement fails, the client disconnects or the server stops: what the *)
(* handler has not executed by then, it never does.                        *)
Fail(p) ==
    /\ handler[p].pc \notin {"idle", "reply"}
    /\ failures < MaxFailures
    /\ failures' = failures + 1
    /\ Becomes(p, Reply(handler[p], "internal"))
    /\ UNCHANGED <<clock, tables>>

-----------------------------------------------------------------------------
(* advance_round *)

CountCommits(p) ==
    /\ At(p, "count_commits")
    /\ Becomes(p, [handler[p] EXCEPT
                      !.pc = "count_reveals",
                      !.commits = Cardinality(CommitmentsOf(handler[p].row.id))])
    /\ OnlyReads

CountReveals(p) ==
    LET s == handler[p]
        reveals == Cardinality(RevealedOf(s.row.id))
        t == [s EXCEPT !.all_revealed = (s.commits # 0 /\ s.commits = reveals)]
    IN  /\ At(p, "count_reveals")
        /\ Becomes(p, IF s.row.reveal_started_at = None /\ s.now >= s.row.commit_deadline
                      THEN [t EXCEPT !.pc = "open_reveal"]
                      ELSE CloseOrResume(t, s.row))
        /\ OnlyReads

(* Variant: the reveal deadline is not written. *)
OpenRevealWithoutDeadline(p) ==
    LET row == handler[p].row IN
    /\ At(p, "open_reveal")
    /\ rounds' = [rounds EXCEPT ![row.id].reveal_started_at = row.commit_deadline]
    /\ Becomes(p, [handler[p] EXCEPT !.pc = "reread"])
    /\ UNCHANGED <<clock, commitments, evidences, failures>>

(* UPDATE writes the two columns that were set, and no other. *)
OpenReveal(p) ==
    LET row == handler[p].row IN
    /\ At(p, "open_reveal")
    /\ rounds' = [rounds EXCEPT ![row.id].reveal_started_at = row.commit_deadline,
                                ![row.id].reveal_deadline = row.commit_deadline + RevealWindow]
    /\ Becomes(p, [handler[p] EXCEPT !.pc = "reread"])
    /\ UNCHANGED <<clock, commitments, evidences, failures>>

Reread(p) ==
    /\ At(p, "reread")
    /\ Becomes(p, CloseOrResume(handler[p], rounds[handler[p].row.id]))
    /\ OnlyReads

CloseRound(p) ==
    LET s == handler[p] IN
    /\ At(p, "close")
    /\ rounds' = [rounds EXCEPT
                    ![s.row.id].closed_at = IF s.all_revealed THEN s.now
                                                              ELSE s.row.reveal_deadline,
                    ![s.row.id].expired = ~s.all_revealed]
    /\ Becomes(p, ResumeClosed(s))
    /\ UNCHANGED <<clock, commitments, evidences, failures>>

-----------------------------------------------------------------------------
(* commit *)

(* A retry finds its digest, in this or in an earlier round.  (row holds   *)
(* the id to SELECT until RelatedRound reads the row.)                     *)
LookupDigest(p) ==
    LET s == handler[p]
        known == {i \in DOMAIN commitments : /\ commitments[i].builder_id = s.req.builder_id
                                             /\ commitments[i].digest = s.req.digest}
    IN  /\ At(p, "lookup")
        /\ \/ /\ known = {}
              /\ Becomes(p, [s EXCEPT !.pc = "active"])
           \/ \E i \in known :
                /\ \A j \in known : j <= i
                /\ Becomes(p, [s EXCEPT !.pc = "related_round",
                                       !.row = rounds[commitments[i].round_id]])
        /\ OnlyReads

(* Variant: a digest known from another path counts as a retry. *)
RelatedRoundOfAnyPath(p) ==
    LET s == handler[p] IN
    /\ At(p, "related_round")
    /\ Becomes(p, CallAdvance(s, rounds[s.row.id], "existing"))
    /\ OnlyReads

RelatedRound(p) ==
    LET s == handler[p]
        row == rounds[s.row.id]
    IN  /\ At(p, "related_round")
        /\ Becomes(p, IF row.derivation_path = s.req.derivation_path
                      THEN CallAdvance(s, row, "existing")
                      ELSE [s EXCEPT !.pc = "active", !.row = None])
        /\ OnlyReads

SelectActive(p) ==
    LET s == handler[p]
        open == OpenRounds(s.req.derivation_path)
    IN  /\ At(p, "active")
        /\ \/ /\ open = {}
              /\ Becomes(p, [s EXCEPT !.pc = "insert_round"])
           \/ \E r \in open : Becomes(p, CallAdvance(s, rounds[r], "active"))
        /\ OnlyReads

(* The builder has committed in this round already. *)
RepeatedCommit(s, i) ==
    Reply(s, IF commitments[i].digest = s.req.digest THEN "ok" ELSE "conflict")

SelectMyCommitment(p) ==
    LET s == handler[p]
        mine == ByBuilder(s.row.id, s.req.builder_id)
    IN  /\ At(p, "my_commitment")
        /\ \/ /\ mine = {}
              /\ Becomes(p, JoinOrConflict(s, s.row))
           \/ \E i \in mine : Becomes(p, RepeatedCommit(s, i))
        /\ OnlyReads

NewRound(s) ==
    [id |-> Len(rounds) + 1, derivation_path |-> s.req.derivation_path,
     commit_deadline |-> s.now + CommitWindow, reveal_started_at |-> None,
     reveal_deadline |-> None, closed_at |-> None, expired |-> FALSE]

(* Variant: no unique index on open rounds. *)
InsertRoundWithoutIndex(p) ==
    LET s == handler[p] IN
    /\ At(p, "insert_round")
    /\ rounds' = Append(rounds, NewRound(s))
    /\ Becomes(p, [s EXCEPT !.pc = "fetch_created", !.row = NewRound(s)])
    /\ UNCHANGED <<clock, commitments, evidences, failures>>

(* The partial unique index rounds_open_derivation_uidx admits one open    *)
(* round of a path; the loser of a race fetches the winner's round.        *)
InsertRound(p) ==
    LET s == handler[p] IN
    /\ At(p, "insert_round")
    /\ \/ /\ OpenRounds(s.req.derivation_path) = {}
          /\ rounds' = Append(rounds, NewRound(s))
          /\ Becomes(p, [s EXCEPT !.pc = "fetch_created", !.row = NewRound(s)])
       \/ /\ OpenRounds(s.req.derivation_path) # {}
          /\ Becomes(p, [s EXCEPT !.pc = "fetch_open"])
          /\ UNCHANGED rounds
    /\ UNCHANGED <<clock, commitments, evidences, failures>>

FetchCreated(p) ==
    /\ At(p, "fetch_created")
    /\ Becomes(p, JoinOrConflict(handler[p], rounds[handler[p].row.id]))
    /\ OnlyReads

FetchOpen(p) ==
    LET s == handler[p]
        open == OpenRounds(s.req.derivation_path)
    IN  /\ At(p, "fetch_open")
        /\ \/ open = {} /\ Becomes(p, Reply(s, "internal"))
           \/ \E r \in open : Becomes(p, JoinOrConflict(s, rounds[r]))
        /\ OnlyReads

(* The unique index commitments_round_builder_uidx admits one commitment   *)
(* of a builder in a round.  Nothing here looks at the round's row again.  *)
InsertCommitment(p) ==
    LET s == handler[p]
        mine == ByBuilder(s.row.id, s.req.builder_id)
    IN  /\ At(p, "insert_commitment")
        /\ \/ /\ mine = {}
              /\ commitments' = Append(commitments,
                   [round_id |-> s.row.id, builder_id |-> s.req.builder_id,
                    digest |-> s.req.digest, evidence_id |-> None])
              /\ Becomes(p, [s EXCEPT !.pc = "threshold"])
           \/ /\ \E i \in mine : Becomes(p, RepeatedCommit(s, i))
              /\ UNCHANGED commitments
        /\ UNCHANGED <<clock, rounds, evidences, failures>>

CountThreshold(p) ==
    LET s == handler[p] IN
    /\ At(p, "threshold")
    /\ Becomes(p, IF Cardinality(CommitmentsOf(s.row.id)) >= MinimumBuilders
                  THEN [s EXCEPT !.pc = "start_reveal"]
                  ELSE Reply(s, "created"))
    /\ OnlyReads

(* Variant: the whole row is written, as it was read. *)
StartRevealSavesRow(p) ==
    LET s == handler[p] IN
    /\ At(p, "start_reveal")
    /\ rounds' = [rounds EXCEPT ![s.row.id] = [s.row EXCEPT
                    !.reveal_started_at = s.now, !.reveal_deadline = s.now + RevealWindow]]
    /\ Becomes(p, [s EXCEPT !.pc = "reread_joined"])
    /\ UNCHANGED <<clock, commitments, evidences, failures>>

StartReveal(p) ==
    LET s == handler[p] IN
    /\ At(p, "start_reveal")
    /\ rounds' = [rounds EXCEPT ![s.row.id].reveal_started_at = s.now,
                                ![s.row.id].reveal_deadline = s.now + RevealWindow]
    /\ Becomes(p, [s EXCEPT !.pc = "reread_joined"])
    /\ UNCHANGED <<clock, commitments, evidences, failures>>

RereadJoined(p) ==
    /\ At(p, "reread_joined")
    /\ Becomes(p, Reply([handler[p] EXCEPT !.row = rounds[handler[p].row.id]], "created"))
    /\ OnlyReads

-----------------------------------------------------------------------------
(* reveal *)

FindRound(p) ==
    LET s == handler[p]
        r == s.req.round_id
    IN  /\ At(p, "find_round")
        /\ Becomes(p, IF r \notin DOMAIN rounds
                      THEN Reply(s, "not_found")
                      ELSE IF rounds[r].derivation_path
                                # Evidence(s.req.opening).derivation_path
                           THEN Reply(s, "conflict")
                           ELSE [s EXCEPT !.pc = "find_commitment", !.row = rounds[r]])
        /\ OnlyReads

(* The digest of the revealed evidence and nonce must be the committed one. *)
FindCommitment(p) ==
    LET s == handler[p]
        mine == ByBuilder(s.row.id, Evidence(s.req.opening).builder_id)
    IN  /\ At(p, "find_commitment")
        /\ \/ mine = {} /\ Becomes(p, Reply(s, "conflict"))
           \/ \E i \in mine :
                Becomes(p, IF commitments[i].digest # s.req.opening
                           THEN Reply(s, "bad_request")
                           ELSE IF commitments[i].evidence_id # None THEN Reply(s, "ok")
                           ELSE CallAdvance(s, s.row, "reveal"))
        /\ OnlyReads

(* Variant: the transaction does not read the commitment again. *)
StoreEvidenceUnchecked(p) ==
    LET s == handler[p] IN
    /\ At(p, "store")
    /\ \E i \in ByBuilder(s.row.id, Evidence(s.req.opening).builder_id) :
         /\ evidences' = Append(evidences, Evidence(s.req.opening))
         /\ commitments' = [commitments EXCEPT ![i].evidence_id = Len(evidences) + 1]
         /\ Becomes(p, [s EXCEPT !.pc = "after_store"])
    /\ UNCHANGED <<clock, rounds, failures>>

(* The transaction of reveal: it re-reads the commitment, stores the       *)
(* evidence and links the two, or does none of this (see Fail).            *)
StoreEvidence(p) ==
    LET s == handler[p] IN
    /\ At(p, "store")
    /\ \E i \in ByBuilder(s.row.id, Evidence(s.req.opening).builder_id) :
         \/ /\ commitments[i].evidence_id # None
            /\ Becomes(p, Reply(s, "ok"))
            /\ UNCHANGED <<commitments, evidences>>
         \/ /\ commitments[i].evidence_id = None
            /\ evidences' = Append(evidences, Evidence(s.req.opening))
            /\ commitments' = [commitments EXCEPT ![i].evidence_id = Len(evidences) + 1]
            /\ Becomes(p, [s EXCEPT !.pc = "after_store"])
    /\ UNCHANGED <<clock, rounds, failures>>

AfterStore(p) ==
    LET s == handler[p] IN
    /\ At(p, "after_store")
    /\ Becomes(p, CallAdvance(s, rounds[s.row.id], "after"))
    /\ OnlyReads

-----------------------------------------------------------------------------
(* round_status and metrics_snapshot *)

FindStatus(p) ==
    LET s == handler[p]
        r == s.req.round_id
    IN  /\ At(p, "find_status")
        /\ Becomes(p, IF r \in DOMAIN rounds
                      THEN [s EXCEPT !.pc = "status_at", !.row = rounds[r]]
                      ELSE Reply(s, "not_found"))
        /\ OnlyReads

(* Only now round_status takes the time. *)
StatusAt(p) ==
    LET s == [handler[p] EXCEPT !.now = clock] IN
    /\ At(p, "status_at")
    /\ Becomes(p, CallAdvance(s, s.row, "status"))
    /\ OnlyReads

ReloadStatus(p) ==
    LET s == handler[p] IN
    /\ At(p, "reload_status")
    /\ Becomes(p, Reply([s EXCEPT !.row = rounds[s.row.id]], "ok"))
    /\ OnlyReads

ScanOpen(p) ==
    /\ At(p, "scan")
    /\ Becomes(p, [handler[p] EXCEPT
                      !.pc = "next_open",
                      !.todo = {rounds[r] : r \in {q \in DOMAIN rounds :
                                                     rounds[q].closed_at = None}}])
    /\ OnlyReads

NextOpen(p) ==
    LET s == handler[p] IN
    /\ At(p, "next_open")
    /\ \/ s.todo = {} /\ Becomes(p, Reply(s, "ok"))
       \/ \E row \in s.todo :
            Becomes(p, CallAdvance([s EXCEPT !.todo = @ \ {row}], row, "scrape"))
    /\ OnlyReads

-----------------------------------------------------------------------------
Tick ==
    /\ clock < MaxClock
    /\ clock' = clock + 1
    /\ UNCHANGED <<tables, handler, failures>>

Init ==
    /\ clock = 0
    /\ rounds = <<>>
    /\ commitments = <<>>
    /\ evidences = <<>>
    /\ handler = [p \in Handlers |-> Idle]
    /\ failures = 0

Advance(p) == CountCommits(p) \/ CountReveals(p) \/ OpenReveal(p) \/ Reread(p) \/ CloseRound(p)

Commit(p) == \/ LookupDigest(p) \/ RelatedRound(p) \/ SelectActive(p) \/ SelectMyCommitment(p)
             \/ InsertRound(p) \/ FetchCreated(p) \/ FetchOpen(p)
             \/ InsertCommitment(p) \/ CountThreshold(p) \/ StartReveal(p) \/ RereadJoined(p)

Reveal(p) == FindRound(p) \/ FindCommitment(p) \/ StoreEvidence(p) \/ AfterStore(p)

Poll(p) == FindStatus(p) \/ StatusAt(p) \/ ReloadStatus(p) \/ ScanOpen(p) \/ NextOpen(p)

Step(p) == Commit(p) \/ Reveal(p) \/ Poll(p) \/ Advance(p) \/ Respond(p)

Next ==
    \/ Tick
    \/ \E p \in Handlers : Step(p) \/ Fail(p) \/ \E q \in Requests : Arrive(p, q)

Spec == Init /\ [][Next]_vars

-----------------------------------------------------------------------------
(* Properties. *)

(* Every variable has its type.  A round that reveals has a deadline to    *)
(* reveal by (advance_round would fail on it otherwise, for ever), and a   *)
(* closed round has revealed.                                              *)
RowShape(row) ==
    /\ row.reveal_started_at # None <=> row.reveal_deadline # None
    /\ row.closed_at # None => row.reveal_started_at # None

TypeOK ==
    /\ clock \in Time
    /\ rounds \in Seq(Row)
    /\ \A r \in DOMAIN rounds : rounds[r].id = r /\ RowShape(rounds[r])
    /\ commitments \in Seq(Commitment)
    /\ evidences \in Seq({Evidence(d) : d \in Digests})
    /\ handler \in [Handlers -> LocalState]
    /\ failures \in 0 .. MaxFailures

(* A path has at most one round that is not closed: commit looks for it    *)
(* with .one() and takes what it gets.  A handler that saves a row it read *)
(* earlier must not open a closed round again.                             *)
OneOpenRound ==
    \A path \in Paths : Cardinality(OpenRounds(path)) <= 1

(* Nobody can read any evidence of a round that is still committing, also  *)
(* when the row that reveal decided on is stale.                           *)
SealedUntilReveal ==
    \A r \in VisibleRounds : rounds[r].reveal_started_at # None

(* The point of commit-reveal: a digest that is about to be committed was  *)
(* sent before anybody could read any evidence of that round, whatever     *)
(* happened to the round while the request was being served.               *)
NoPeeking ==
    \A p \in Handlers :
        At(p, "insert_commitment") => handler[p].row.id \notin handler[p].seen

(* Every stored evidence belongs to one commitment, whose digest it opens, *)
(* and no commitment points to an evidence that was never stored: two      *)
(* deliveries of one reveal do not store it twice, and one that fails      *)
(* half-way stores nothing.                                                *)
EvidenceMatchesCommitment ==
    /\ \A e \in DOMAIN evidences :
         \E i \in DOMAIN commitments :
           /\ commitments[i].evidence_id = e
           /\ \A j \in DOMAIN commitments : commitments[j].evidence_id = e => j = i
    /\ \A i \in DOMAIN commitments :
         LET c == commitments[i] IN
         c.evidence_id # None =>
           c.evidence_id \in DOMAIN evidences /\ evidences[c.evidence_id] = Evidence(c.digest)

(* A success reported to a builder is backed by the tables: its digest is  *)
(* committed in the round of the receipt, a round of the path it asked     *)
(* for; the evidence it revealed is the one stored for that round.         *)
CommitBacked(q, row) ==
    /\ row.derivation_path = q.derivation_path
    /\ \E i \in ByBuilder(row.id, q.builder_id) : commitments[i].digest = q.digest

RevealBacked(q) ==
    \E i \in ByBuilder(q.round_id, Evidence(q.opening).builder_id) :
        commitments[i].digest = q.opening /\ commitments[i].evidence_id # None

ReceiptBacked ==
    \A p \in Handlers :
        LET s == handler[p] IN
        s.reply \in {"created", "ok"} =>
          /\ s.req.op = "commit" => CommitBacked(s.req, s.row)
          /\ s.req.op = "reveal" => RevealBacked(s.req)

(* The tables, read as a ledger of rounds, only ever change the way        *)
(* RoundLedger says, however the statements of handlers interleave.        *)
LedgerRound(r) ==
    [path |-> rounds[r].derivation_path,
     phase |-> IF rounds[r].closed_at # None THEN "closed"
               ELSE IF rounds[r].reveal_started_at # None THEN "revealing" ELSE "committing",
     committed |-> [b \in {commitments[i].builder_id : i \in CommitmentsOf(r)} |->
                      commitments[CHOOSE i \in ByBuilder(r, b) : TRUE].digest],
     published |-> [b \in {commitments[i].builder_id : i \in RevealedOf(r)} |->
                      evidences[commitments[CHOOSE i \in ByBuilder(r, b) : TRUE].evidence_id]]]

Ledger == INSTANCE RoundLedger WITH ledger <- [r \in DOMAIN rounds |-> LedgerRound(r)]

ImplementsLedger == Ledger!Spec

(* A round that was opened closes, whoever forgets to reveal, as long as   *)
(* the server steps and Prometheus keeps scraping it.                      *)
FairSpec ==
    /\ Spec
    /\ WF_vars(Tick)
    /\ \A p \in Handlers : WF_vars(Step(p))
    /\ SF_vars(\E p \in Handlers : Arrive(p, ScrapeRequest))

OpenRoundCloses ==
    \A r \in 1 .. MaxRounds :
        r \in DOMAIN rounds ~> (r \in DOMAIN rounds /\ rounds[r].closed_at # None)

(* "Distinct commitments that close the commit phase" (cli.rs): nothing is *)
(* committed in a round that reveals and has that many commitments.        *)
CommitPhaseCloses ==
    [][\A r \in DOMAIN rounds :
         /\ rounds[r].reveal_started_at # None
         /\ Cardinality(CommitmentsOf(r)) >= MinimumBuilders
         => CommitmentsOf(r)' = CommitmentsOf(r)]_vars

(* "Maximum seconds to accept reveals in a round" (cli.rs): nothing is     *)
(* revealed in a round that has closed because these seconds had passed.   *)
RevealPhaseCloses ==
    [][\A r \in DOMAIN rounds : rounds[r].expired => RevealedOf(r)' = RevealedOf(r)]_vars

(* "A new nonce is required for every round" (builder-core): no digest is  *)
(* committed whose nonce has been revealed in another round.               *)
RevealedNonceNotReused ==
    [][\A j \in DOMAIN commitments' \ DOMAIN commitments : \A i \in DOMAIN commitments :
         commitments'[j].digest = commitments[i].digest => commitments[i].evidence_id = None]_vars

=============================================================================
