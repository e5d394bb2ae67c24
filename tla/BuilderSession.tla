---------------------------- MODULE BuilderSession ----------------------------
(***************************************************************************)
(* The builders' side of the commit-reveal rounds: submit_evidence of      *)
(* crates/builder-core/src/lib.rs with the calls of client.rs, composed    *)
(* with the registry of RoundStore.  Every builder has built the same      *)
(* derivation and runs one session: commit under a new nonce, poll until   *)
(* the round reveals, reveal, poll until it has closed, fetch its facts;   *)
(* and again from the start, in another round, when this one is lost.      *)
(*                                                                         *)
(* send_with_retry sends a request again when the connection fails or the  *)
(* server answers 5xx, until a minute is over.  The registry may have      *)
(* served the lost one, may be serving it still, or may get it later: the  *)
(* names of registries are reached by https (Host::Domain), which the      *)
(* server leaves to a proxy that forwards what its client gave up.         *)
(***************************************************************************)
EXTENDS RoundStore

CONSTANTS
    Derivation,   \* the derivation path that is built
    Unlucky,      \* the builders whose connections may fail
    MaxNonces,    \* bound: nonces that a session draws
    MaxLosses,    \* bound: connections that fail
    MaxBusy       \* bound: they fail while at most so many sessions are under way

EvidenceOf(b) == [builder_id |-> b, derivation_path |-> Derivation]
Opening(b, n) == [evidence |-> EvidenceOf(b), nonce |-> n]

ASSUME SessionAssumption ==
    /\ Derivation \in Paths
    /\ Unlucky \subseteq Builders
    /\ None \notin Handlers
    /\ MaxNonces \in Nat /\ MaxLosses \in Nat /\ MaxBusy \in Nat

VARIABLES
    session,   \* the local state of submit_evidence, by builder
    waiting,   \* the slot that serves the session's call, or None
    late,      \* requests on their way whose sender has given them up
    losses     \* connections that failed so far (see MaxLosses)

client == <<session, waiting, late, losses>>
sessionVars == <<vars, client>>

(* "poll" is wait_while_phase(Committing), "close" is wait_until_closed. *)
SessionPC == {"draw", "commit", "poll", "reveal", "close", "facts", "done", "failed"}

Session == [pc : SessionPC, nonce : Nat, round : Nat \cup {None},
            facts : SUBSET {Evidence(d) : d \in Digests}]

NewSession == [pc |-> "draw", nonce |-> 0, round |-> None, facts |-> {}]

Is(b, pc) == session[b].pc = pc
Ended(b) == session[b].pc \in {"done", "failed"}

(* RoundPhase, as the registry reports it of a row. *)
PhaseOf(row) == IF row.closed_at # None THEN "closed"
                ELSE IF row.reveal_started_at # None THEN "revealing" ELSE "committing"

(* list_round: the evidence that has been revealed in a round. *)
ListRound(r) == {evidences[commitments[i].evidence_id] : i \in RevealedOf(r)}

(* The body of the call that the session has to make. *)
CallOf(b) ==
    LET s == session[b] IN
    CASE s.pc = "commit" -> [op |-> "commit", builder_id |-> b, derivation_path |-> Derivation,
                             digest |-> Opening(b, s.nonce)]
      [] s.pc = "reveal" -> [op |-> "reveal", round_id |-> s.round,
                             opening |-> Opening(b, s.nonce)]
      [] OTHER -> [op |-> "status", round_id |-> s.round]

Calls(b) == session[b].pc \in {"commit", "poll", "reveal", "close"}

-----------------------------------------------------------------------------
(* Where a session goes from s. *)

(* 'round: the loop starts over, with the evidence it has. *)
NextAttempt(s) == [s EXCEPT !.pc = "draw", !.round = None]
GivesUp(s) == [s EXCEPT !.pc = "failed"]

(* The round is known to be in this phase, and nothing is revealed yet. *)
InPhase(s, phase) == CASE phase = "committing" -> [s EXCEPT !.pc = "poll"]
                       [] phase = "revealing" -> [s EXCEPT !.pc = "reveal"]
                       [] OTHER -> NextAttempt(s)

(* Variant: the session does not wait for the round to close. *)
AfterRevealAtOnce(s, status) ==
    CASE status \in {"created", "ok"} -> [s EXCEPT !.pc = "facts"]
      [] status = "gone" -> NextAttempt(s)
      [] status = "conflict" -> [s EXCEPT !.pc = "poll"]
      [] OTHER -> GivesUp(s)

(* A conflict is looked into with round_status, as a poll is. *)
AfterReveal(s, status) ==
    CASE status \in {"created", "ok"} -> [s EXCEPT !.pc = "close"]
      [] status = "gone" -> NextAttempt(s)
      [] status = "conflict" -> [s EXCEPT !.pc = "poll"]
      [] OTHER -> GivesUp(s)

(* Variant: a conflict is waited out, as that of a reveal is. *)
AfterCommitWaits(s, status, row) ==
    CASE status \in {"created", "ok"} -> InPhase([s EXCEPT !.round = row.id], PhaseOf(row))
      [] status = "conflict" -> [s EXCEPT !.pc = "poll"]
      [] OTHER -> GivesUp(s)

AfterCommit(s, status, row) ==
    CASE status \in {"created", "ok"} -> InPhase([s EXCEPT !.round = row.id], PhaseOf(row))
      [] status = "conflict" -> NextAttempt(s)
      [] OTHER -> GivesUp(s)

AfterPoll(s, status, row) ==
    IF status = "ok" THEN InPhase(s, PhaseOf(row)) ELSE GivesUp(s)

(* Variant: only a round that has completed has closed. *)
AfterClosePollCompleted(s, status, row) ==
    IF status # "ok" THEN GivesUp(s)
    ELSE IF PhaseOf(row) = "closed" /\ ~row.expired THEN [s EXCEPT !.pc = "facts"] ELSE s

(* Completed or expired. *)
AfterClosePoll(s, status, row) ==
    IF status # "ok" THEN GivesUp(s)
    ELSE IF PhaseOf(row) = "closed" THEN [s EXCEPT !.pc = "facts"] ELSE s

(* The session reads the answer that a handler has ready. *)
After(s, answer) ==
    CASE s.pc = "commit" -> AfterCommit(s, answer.reply, answer.row)
      [] s.pc = "poll" -> AfterPoll(s, answer.reply, answer.row)
      [] s.pc = "reveal" -> AfterReveal(s, answer.reply)
      [] s.pc = "close" -> AfterClosePoll(s, answer.reply, answer.row)

-----------------------------------------------------------------------------
SessionBecomes(b, s) == session' = [session EXCEPT ![b] = s]

(* 32 random bytes are taken never to come twice. *)
Draw(b) ==
    /\ Is(b, "draw") /\ session[b].nonce < MaxNonces
    /\ SessionBecomes(b, [session[b] EXCEPT !.pc = "commit", !.nonce = @ + 1])
    /\ UNCHANGED <<vars, waiting, late, losses>>

(* Which of the free slots serves a call makes no difference. *)
FreeSlots == {p \in Handlers : At(p, "idle")}
Slot == CHOOSE p \in FreeSlots : TRUE
WaitsFor(b, p) == waiting' = [waiting EXCEPT ![b] = p]

Send(b) ==
    /\ Calls(b) /\ waiting[b] = None
    /\ FreeSlots # {} /\ Arrive(Slot, CallOf(b))
    /\ WaitsFor(b, Slot)
    /\ UNCHANGED <<session, late, losses>>

(* After a 5xx the session sends again, or gives up when its minute is     *)
(* over.                                                                   *)
Receive(b) ==
    LET p == waiting[b] IN
    /\ p # None /\ Respond(p)
    /\ WaitsFor(b, None)
    /\ \/ SessionBecomes(b, After(session[b], handler[p]))
       \/ handler[p].reply = "internal" /\ UNCHANGED session
    /\ UNCHANGED <<late, losses>>

(* The connection fails before the call is with the registry, or while it  *)
(* is served.  The session sends again, or gives up when its minute is     *)
(* over.  (A poll that is lost is as good as one more poll.)               *)
MayLose(b) == /\ b \in Unlucky /\ session[b].pc \in {"commit", "reveal"}
              /\ losses < MaxLosses
              /\ Cardinality({c \in Builders : ~Ended(c)}) <= MaxBusy
RetriesOrGivesUp(b) == /\ SessionBecomes(b, GivesUp(session[b])) \/ UNCHANGED session
                       /\ losses' = losses + 1

LoseRequest(b) ==
    /\ MayLose(b) /\ waiting[b] = None
    /\ late' = late \cup {CallOf(b)}
    /\ RetriesOrGivesUp(b)
    /\ UNCHANGED <<vars, waiting>>

LoseAnswer(b) ==
    /\ MayLose(b) /\ waiting[b] # None
    /\ WaitsFor(b, None)
    /\ RetriesOrGivesUp(b)
    /\ UNCHANGED <<vars, late>>

ArriveLate ==
    \E call \in late :
        /\ FreeSlots # {} /\ Arrive(Slot, call)
        /\ late' = late \ {call}
        /\ UNCHANGED <<session, waiting, losses>>

(* Nobody reads the answer any more. *)
Drop(p) ==
    /\ \A b \in Builders : waiting[b] # p
    /\ Respond(p)
    /\ UNCHANGED client

FetchFacts(b) ==
    /\ Is(b, "facts")
    /\ SessionBecomes(b, [session[b] EXCEPT !.pc = "done", !.facts = ListRound(session[b].round)])
    /\ UNCHANGED <<vars, waiting, late, losses>>

SessionStep(b) == Draw(b) \/ Send(b) \/ Receive(b) \/ FetchFacts(b)

ServerStep(p) == Commit(p) \/ Reveal(p) \/ Poll(p) \/ Advance(p)

(* A builder whose build failed has no session. *)
SessionInit ==
    /\ Init
    /\ session \in [Builders -> {NewSession, GivesUp(NewSession)}]
    /\ waiting = [b \in Builders |-> None]
    /\ late = {}
    /\ losses = 0

SessionNext ==
    \/ (Tick \/ \E p \in Handlers : ServerStep(p) \/ Fail(p)) /\ UNCHANGED client
    \/ ArriveLate \/ \E p \in Handlers : Drop(p)
    \/ \E b \in Builders : SessionStep(b) \/ LoseRequest(b) \/ LoseAnswer(b)

SessionSpec == SessionInit /\ [][SessionNext]_sessionVars

(* Time passes, tasks are polled and the builders go on.  Slots stand for  *)
(* tasks, of which the server has as many as there are calls, so that a    *)
(* call that waits for a free slot gets one: hence SF.                     *)
FairSession ==
    /\ SessionSpec
    /\ WF_sessionVars(Tick /\ UNCHANGED client)
    /\ \A p \in Handlers : WF_sessionVars(ServerStep(p) /\ UNCHANGED client)
    /\ \A p \in Handlers : WF_sessionVars(Drop(p))
    /\ \A b \in Builders : SF_sessionVars(SessionStep(b))

-----------------------------------------------------------------------------
(* Properties. *)

(* Types; a session that is in a round knows which, and never takes the    *)
(* answer to one of its calls for the answer to another.                   *)
SessionTypeOK ==
    /\ session \in [Builders -> Session]
    /\ waiting \in [Builders -> Handlers \cup {None}]
    /\ losses \in 0 .. MaxLosses
    /\ \A b \in Builders :
         /\ waiting[b] # None => handler[waiting[b]].req = CallOf(b)
         /\ session[b].pc \in {"poll", "reveal", "close", "facts", "done"} =>
              session[b].round \in DOMAIN rounds

(* A session that ends well has done what it is for: its round has closed, *)
(* its evidence is among the facts it returns, revealed under the nonce it *)
(* drew last, and all facts are of that one round.                         *)
DoneIsBacked ==
    \A b \in Builders : Is(b, "done") =>
        LET s == session[b] IN
        /\ rounds[s.round].closed_at # None
        /\ EvidenceOf(b) \in s.facts
        /\ RevealBacked([round_id |-> s.round, opening |-> Opening(b, s.nonce)])
        /\ s.facts \subseteq ListRound(s.round)

(* One build counts in one round.  A session reveals in a second round     *)
(* only after a connection or a handler has failed: then the 410 to a      *)
(* retry cannot tell it that its first delivery was stored.                *)
OneRoundPerBuild ==
    losses = 0 /\ failures = 0 =>
      \A b \in Builders :
        Cardinality({r \in DOMAIN rounds : EvidenceOf(b) \in ListRound(r)}) <= 1

(* Nobody waits for ever, whatever becomes of the other builders: a        *)
(* session that has joined a round ends or leaves it for another.          *)
LeavesRound ==
    \A b \in Builders : \A r \in 1 .. MaxRounds :
        session[b].round = r ~> (Ended(b) \/ session[b].round # r)

=============================================================================
