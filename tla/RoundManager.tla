---------------------------- MODULE RoundManager ----------------------------
(***************************************************************************)
(* The build queue of the server (crates/server/src/round_manager.rs) and  *)
(* the builder nodes it dispatches to (crates/builder-node/src/main.rs).   *)
(*                                                                         *)
(* POST /v1/builds draws a job id, takes the mutex of the runtime metrics, *)
(* and offers the job to a bounded channel while holding it.  One worker   *)
(* receives the jobs without the mutex and takes it to note the start and  *)
(* the end of each; in between it sends the job to all nodes and waits for *)
(* all of them.  A node runs one build at a time and refuses others.       *)
(*                                                                         *)
(* Definitions marked "Variant" are plausible mistakes in the code, not    *)
(* part of the specification.                                              *)
(***************************************************************************)
EXTENDS Naturals, Sequences, FiniteSets

CONSTANTS
    Clients,        \* requests of POST /v1/builds served at a time
    Nodes,          \* the configured builder nodes
    Internal,       \* "<internal>", the name of no node
    None,           \* Option::None
    QueueCapacity,  \* --build-queue-capacity
    MaxJobs,        \* bound: job ids drawn
    MaxPanics       \* bound: dispatch tasks that panic

ASSUME ConstantsAssumption ==
    /\ Nodes # {} /\ IsFiniteSet(Nodes)
    /\ Internal \notin Nodes
    /\ QueueCapacity \in Nat \ {0}
    /\ MaxJobs \in Nat /\ MaxPanics \in Nat
    /\ None \notin Nat /\ None \notin Clients

VARIABLES
    next_job_id,  \* the atomic counter
    client,       \* the local state of each request
    lock,         \* the request that holds the mutex of the metrics, or None
    queue,        \* the channel
    metrics,      \* RuntimeMetrics, guarded by the mutex
    worker,       \* the local state of run_worker
    calls,        \* the dispatch task of each node for the worker's job
    permit,       \* the job whose build holds the permit of each node
    abandoned,    \* nodes that build a job whose call the server gave up
    panics        \* dispatch tasks that panicked so far (see MaxPanics)

vars == <<next_job_id, client, lock, queue, metrics, worker, calls, permit, abandoned, panics>>

-----------------------------------------------------------------------------
Names == Nodes \cup {Internal}

ClientState == [pc : {"idle", "lock", "send", "accepted", "full"}, job : Nat]
WorkerState == [pc : {"recv", "start", "dispatch"}, job : Nat]

NodeMetrics == [active : Nat, dispatched : Nat, succeeded : Nat, failed : Nat]
RuntimeMetrics == [queued : SUBSET Nat, active : Nat \cup {None},
                   jobs_accepted : Nat, jobs_rejected_full : Nat,
                   jobs_started : Nat, jobs_completed : Nat,
                   nodes : [Names -> NodeMetrics]]

Pending == {"sent", "served"}
Ended == {"success", "failure", "panicked"}

NoMetrics == [active |-> 0, dispatched |-> 0, succeeded |-> 0, failed |-> 0]

InChannel(job) == \E i \in DOMAIN queue : queue[i] = job

ClientGoes(c, pc) == client' = [client EXCEPT ![c].pc = pc]
LeavesWorker == UNCHANGED <<worker, calls, permit, abandoned, panics>>
LeavesClients == UNCHANGED <<next_job_id, client, lock>>

-----------------------------------------------------------------------------
(* RoundManager::enqueue *)

(* The id is drawn before the mutex is taken. *)
Draw(c) ==
    /\ client[c].pc = "idle"
    /\ next_job_id <= MaxJobs
    /\ client' = [client EXCEPT ![c] = [pc |-> "lock", job |-> next_job_id]]
    /\ next_job_id' = next_job_id + 1
    /\ UNCHANGED <<lock, queue, metrics>>
    /\ LeavesWorker

(* Variant: the job is noted as queued before the mutex is taken for good. *)
EnterUnlocked(c) ==
    /\ client[c].pc = "lock"
    /\ ClientGoes(c, "send")
    /\ metrics' = [metrics EXCEPT !.queued = @ \cup {client[c].job}]
    /\ UNCHANGED <<next_job_id, lock, queue>>
    /\ LeavesWorker

Enter(c) ==
    /\ client[c].pc = "lock"
    /\ lock = None
    /\ lock' = c
    /\ ClientGoes(c, "send")
    /\ metrics' = [metrics EXCEPT !.queued = @ \cup {client[c].job}]
    /\ UNCHANGED <<next_job_id, queue>>
    /\ LeavesWorker

(* Variant: the channel is unbounded. *)
SendUnbounded(c) ==
    /\ client[c].pc = "send"
    /\ ClientGoes(c, "accepted")
    /\ queue' = Append(queue, client[c].job)
    /\ UNCHANGED <<next_job_id, lock, metrics>>
    /\ LeavesWorker

(* try_send: it fails when the channel is full.  (The other error, a closed *)
(* channel, does not occur: the worker lives as long as the process.)       *)
Send(c) ==
    /\ client[c].pc = "send"
    /\ \/ /\ Len(queue) < QueueCapacity
          /\ queue' = Append(queue, client[c].job)
          /\ ClientGoes(c, "accepted")
       \/ /\ Len(queue) >= QueueCapacity
          /\ ClientGoes(c, "full")
          /\ UNCHANGED queue
    /\ UNCHANGED <<next_job_id, lock, metrics>>
    /\ LeavesWorker

Accept(c) ==
    /\ client[c].pc = "accepted"
    /\ metrics' = [metrics EXCEPT !.jobs_accepted = @ + 1]
    /\ lock' = None
    /\ ClientGoes(c, "idle")
    /\ UNCHANGED <<next_job_id, queue>>
    /\ LeavesWorker

RejectFull(c) ==
    /\ client[c].pc = "full"
    /\ metrics' = [metrics EXCEPT !.queued = @ \ {client[c].job},
                                  !.jobs_rejected_full = @ + 1]
    /\ lock' = None
    /\ ClientGoes(c, "idle")
    /\ UNCHANGED <<next_job_id, queue>>
    /\ LeavesWorker

-----------------------------------------------------------------------------
(* run_worker; its two critical sections are one step each. *)

Recv ==
    /\ worker.pc = "recv"
    /\ queue # <<>>
    /\ queue' = Tail(queue)
    /\ worker' = [pc |-> "start", job |-> Head(queue)]
    /\ UNCHANGED <<metrics, calls, permit, abandoned, panics>>
    /\ LeavesClients

Dispatched(m) == [m EXCEPT !.active = @ + 1, !.dispatched = @ + 1]

Start ==
    /\ worker.pc = "start"
    /\ lock = None
    /\ metrics' = [metrics EXCEPT
          !.queued = @ \ {worker.job},
          !.active = worker.job,
          !.jobs_started = @ + 1,
          !.nodes = [n \in Names |-> IF n = Internal THEN metrics.nodes[n]
                                     ELSE Dispatched(metrics.nodes[n])]]
    /\ worker' = [worker EXCEPT !.pc = "dispatch"]
    /\ calls' = [n \in Nodes |-> "sent"]
    /\ UNCHANGED <<queue, permit, abandoned, panics>>
    /\ LeavesClients

(* A panicked task is reported under the name of no node. *)
OutcomesOf(name) == {n \in Nodes : name = IF calls[n] = "panicked" THEN Internal ELSE n}
Successes(name) == {n \in OutcomesOf(name) : calls[n] = "success"}

(* Variant: only a success takes the node's active count down. *)
SettledOnSuccess(name, m) ==
    [m EXCEPT !.active = IF Successes(name) = {} THEN @ ELSE @ - 1,
              !.succeeded = @ + Cardinality(Successes(name)),
              !.failed = @ + Cardinality(OutcomesOf(name) \ Successes(name))]

(* saturating_sub: the active count of a name that was not dispatched to   *)
(* stays 0.                                                                *)
Settled(name, m) ==
    LET ended == Cardinality(OutcomesOf(name)) IN
    [m EXCEPT !.active = IF @ >= ended THEN @ - ended ELSE 0,
              !.succeeded = @ + Cardinality(Successes(name)),
              !.failed = @ + Cardinality(OutcomesOf(name) \ Successes(name))]

Finish ==
    /\ worker.pc = "dispatch"
    /\ \A n \in Nodes : calls[n] \in Ended
    /\ lock = None
    /\ metrics' = [metrics EXCEPT
          !.nodes = [name \in Names |-> Settled(name, metrics.nodes[name])],
          !.active = None,
          !.jobs_completed = @ + 1]
    /\ worker' = [worker EXCEPT !.pc = "recv"]
    /\ UNCHANGED <<queue, calls, permit, abandoned, panics>>
    /\ LeavesClients

-----------------------------------------------------------------------------
(* dispatch_one and, at its other end, run_build of the builder node. *)

CallEnds(n, outcome) == calls' = [calls EXCEPT ![n] = outcome]
LeavesQueue == LeavesClients /\ UNCHANGED <<queue, metrics, worker>>

(* The node gives the permit to the build, or answers 409 without one. *)
Deliver(n) ==
    /\ calls[n] = "sent"
    /\ \/ /\ permit[n] = None
          /\ permit' = [permit EXCEPT ![n] = worker.job]
          /\ CallEnds(n, "served")
       \/ /\ permit[n] # None
          /\ CallEnds(n, "failure")
          /\ UNCHANGED permit
    /\ UNCHANGED <<abandoned, panics>>
    /\ LeavesQueue

(* Variant: the permit is released when the answer has been sent. *)
BuildEndsLater(n) ==
    /\ permit[n] # None
    /\ \/ /\ calls[n] = "served" /\ n \notin abandoned
          /\ \E outcome \in {"success", "failure"} : CallEnds(n, outcome)
          /\ UNCHANGED <<permit, abandoned>>
       \/ /\ calls[n] # "served" \/ n \in abandoned
          /\ permit' = [permit EXCEPT ![n] = None]
          /\ abandoned' = abandoned \ {n}
          /\ UNCHANGED calls
    /\ UNCHANGED panics
    /\ LeavesQueue

(* The build ends, well or not, or its handler is dropped because the      *)
(* server is gone: the permit is free before the answer is sent, and the   *)
(* answer may get lost.                                                    *)
BuildEnds(n) ==
    /\ permit[n] # None
    /\ permit' = [permit EXCEPT ![n] = None]
    /\ abandoned' = abandoned \ {n}
    /\ \/ /\ n \notin abandoned
          /\ \E outcome \in {"success", "failure"} : CallEnds(n, outcome)
       \/ UNCHANGED calls
    /\ UNCHANGED panics
    /\ LeavesQueue

(* Variant: the client has a connect timeout only. *)
CallFailsConnecting(n) ==
    /\ calls[n] = "sent"
    /\ CallEnds(n, "failure")
    /\ UNCHANGED <<permit, abandoned, panics>>
    /\ LeavesQueue

(* The node cannot be reached, or the request times out after an hour; in  *)
(* the latter case the node may well go on building.  (A request that      *)
(* reaches the node after the server gave up is as one delivered just      *)
(* before: if a later one has come first, it is refused and nobody knows.) *)
CallFails(n) ==
    /\ calls[n] \in Pending
    /\ CallEnds(n, "failure")
    /\ abandoned' = IF permit[n] = None THEN abandoned ELSE abandoned \cup {n}
    /\ UNCHANGED <<permit, panics>>
    /\ LeavesQueue

Panic(n) ==
    /\ calls[n] \in Pending
    /\ panics < MaxPanics
    /\ panics' = panics + 1
    /\ CallEnds(n, "panicked")
    /\ abandoned' = IF permit[n] = None THEN abandoned ELSE abandoned \cup {n}
    /\ UNCHANGED permit
    /\ LeavesQueue

-----------------------------------------------------------------------------
Init ==
    /\ next_job_id = 1
    /\ client = [c \in Clients |-> [pc |-> "idle", job |-> 0]]
    /\ lock = None
    /\ queue = <<>>
    /\ metrics = [queued |-> {}, active |-> None, jobs_accepted |-> 0,
                  jobs_rejected_full |-> 0, jobs_started |-> 0, jobs_completed |-> 0,
                  nodes |-> [n \in Names |-> NoMetrics]]
    /\ worker = [pc |-> "recv", job |-> 0]
    /\ calls = [n \in Nodes |-> "failure"]
    /\ permit = [n \in Nodes |-> None]
    /\ abandoned = {}
    /\ panics = 0

Enqueue(c) == Enter(c) \/ Send(c) \/ Accept(c) \/ RejectFull(c)
Work == Recv \/ Start \/ Finish
Node(n) == Deliver(n) \/ BuildEnds(n) \/ CallFails(n) \/ Panic(n)

Next ==
    \/ \E c \in Clients : Draw(c) \/ Enqueue(c)
    \/ Work
    \/ \E n \in Nodes : Node(n)

Spec == Init /\ [][Next]_vars

-----------------------------------------------------------------------------
(* Properties. *)

(* Every variable has its type; the channel never holds more than its      *)
(* capacity.                                                               *)
TypeOK ==
    /\ next_job_id \in Nat
    /\ client \in [Clients -> ClientState]
    /\ lock \in Clients \cup {None}
    /\ queue \in Seq(Nat) /\ Len(queue) <= QueueCapacity
    /\ metrics \in RuntimeMetrics
    /\ worker \in WorkerState
    /\ calls \in [Nodes -> Pending \cup Ended]
    /\ permit \in [Nodes -> Nat \cup {None}]
    /\ abandoned \subseteq Nodes
    /\ panics \in Nat

(* What metrics_snapshot shows, whenever it gets the mutex: a job that was *)
(* accepted is queued until it is started and active until it completes,   *)
(* never both nor neither, although the worker takes jobs from the channel *)
(* without the mutex; and a rejected job leaves no trace.                  *)
SnapshotAgrees ==
    lock = None =>
      /\ metrics.queued = {queue[i] : i \in DOMAIN queue}
                            \cup (IF worker.pc = "start" THEN {worker.job} ELSE {})
      /\ metrics.active = IF worker.pc = "dispatch" THEN worker.job ELSE None
      /\ metrics.jobs_accepted = metrics.jobs_started + Cardinality(metrics.queued)
      /\ metrics.jobs_started =
           metrics.jobs_completed + (IF metrics.active = None THEN 0 ELSE 1)

(* The counters of a node account for every dispatch to it, also when its  *)
(* task panicked (the dispatch then stays active for ever), and the        *)
(* saturating subtraction never hides one.                                 *)
NodeCountsAddUp ==
    /\ \A n \in Nodes : LET m == metrics.nodes[n] IN
         /\ m.dispatched = metrics.jobs_started
         /\ m.dispatched = m.succeeded + m.failed + m.active
    /\ metrics.nodes[Internal].failed + (IF worker.pc = "dispatch"
                                         THEN Cardinality(OutcomesOf(Internal)) ELSE 0) = panics

(* A node refuses a job of the queue only while it builds an earlier one   *)
(* that the server gave up, since a node is free before its answer is      *)
(* sent: jobs of the queue do not get in each other's way.                 *)
FreeUnlessAbandoned ==
    \A n \in Nodes : calls[n] = "sent" /\ permit[n] # None => n \in abandoned

(* A job in the channel is dispatched and completes, whatever the nodes do *)
(* or do not: every call ends, an hour later at most, and whoever waits    *)
(* for the mutex gets it.                                                  *)
FairSpec ==
    /\ Spec
    /\ \A c \in Clients : WF_vars(Enqueue(c))
    /\ WF_vars(Recv) /\ SF_vars(Start) /\ SF_vars(Finish)
    /\ \A n \in Nodes : WF_vars(CallFails(n))

Over(job) == ~InChannel(job) /\ (worker.job = job => worker.pc = "recv")

QueuedJobsComplete ==
    \A job \in 1 .. MaxJobs : InChannel(job) ~> Over(job)

=============================================================================
