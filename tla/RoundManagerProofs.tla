------------------------- MODULE RoundManagerProofs -------------------------
(***************************************************************************)
(* Proofs about RoundManager, for any number of clients and nodes, any     *)
(* capacity of the queue and any number of jobs and panics.                *)
(*                                                                         *)
(* The argument: whoever holds the mutex of the metrics is the only one    *)
(* between two of its steps that touch them, so that what they show may be *)
(* stated for the holder's progress as well (CountsOK), and holds as       *)
(* SnapshotAgrees when nobody holds it.  A job is in one place at a time:  *)
(* with its client, in the channel, or with the worker (JobsOK); this is   *)
(* what makes the set of queued jobs and the counters agree.  On the other *)
(* side, calls are open only while the worker dispatches, and a node that  *)
(* holds a permit serves the call or has been given up (CallsOK).          *)
(***************************************************************************)
EXTENDS RoundManager, FiniteSetTheorems, TLAPS

(* The jobs that are accepted and not started. *)
Waiting(q, w) == {q[i] : i \in DOMAIN q} \cup (IF w.pc = "start" THEN {w.job} ELSE {})

(* A client whose job is not in the channel: before try_send, or after it  *)
(* failed.                                                                 *)
Unsent == {"lock", "send", "full"}

(* A client between the lock and the unlock of enqueue. *)
Inside == {"send", "accepted", "full"}

Mutex == \A c \in Clients : client[c].pc \in Inside <=> lock = c

JobsOK ==
    /\ \A c \in Clients : client[c].pc \in Unsent =>
         client[c].job < next_job_id /\ client[c].job \notin Waiting(queue, worker)
    /\ \A c, d \in Clients :
         client[c].pc \in Unsent /\ client[d].pc \in Unsent /\ client[c].job = client[d].job => c = d
    /\ \A job \in Waiting(queue, worker) : job < next_job_id
    /\ \A i, j \in DOMAIN queue : queue[i] = queue[j] => i = j
    /\ worker.pc = "start" => \A i \in DOMAIN queue : queue[i] # worker.job

(* What the holder of the mutex has noted too early, or not yet. *)
NotedEarly(l, s) == IF l # None /\ s[l].pc \in {"send", "full"} THEN {s[l].job} ELSE {}
NotCounted(l, s) == IF l # None /\ s[l].pc = "accepted" THEN 1 ELSE 0

CountsOK ==
    /\ IsFiniteSet(Waiting(queue, worker))
    /\ metrics.queued = Waiting(queue, worker) \cup NotedEarly(lock, client)
    /\ metrics.jobs_accepted + NotCounted(lock, client) =
         metrics.jobs_started + Cardinality(Waiting(queue, worker))
    /\ metrics.active = IF worker.pc = "dispatch" THEN worker.job ELSE None
    /\ metrics.jobs_started =
         metrics.jobs_completed + (IF worker.pc = "dispatch" THEN 1 ELSE 0)

CallsOK ==
    /\ worker.pc # "dispatch" => \A n \in Nodes : calls[n] \in Ended
    /\ \A n \in Nodes : n \in abandoned => permit[n] # None
    /\ \A n \in Nodes : permit[n] # None /\ n \notin abandoned => calls[n] = "served"

(* While the worker dispatches, every node has an active dispatch. *)
NodesOK ==
    /\ NodeCountsAddUp
    /\ worker.pc = "dispatch" => \A n \in Nodes : metrics.nodes[n].active >= 1

MInv == TypeOK /\ Mutex /\ JobsOK /\ CountsOK /\ CallsOK /\ NodesOK

-----------------------------------------------------------------------------
(* What the actions do to a variable, field by field. *)

(* A client goes on with the same job. *)
LEMMA ClientMoved ==
    ASSUME TypeOK, NEW c \in Clients, NEW pc \in {"idle", "lock", "send", "accepted", "full"},
           ClientGoes(c, pc)
    PROVE  /\ client' \in [Clients -> ClientState]
           /\ client'[c].pc = pc /\ client'[c].job = client[c].job
           /\ \A d \in Clients : d # c => client'[d] = client[d]
  BY DEF TypeOK, ClientGoes, ClientState

(* A call ends. *)
LEMMA CallEnded ==
    ASSUME TypeOK, NEW n \in Nodes, NEW outcome \in Pending \cup Ended, CallEnds(n, outcome)
    PROVE  /\ calls' \in [Nodes -> Pending \cup Ended]
           /\ calls'[n] = outcome
           /\ \A m \in Nodes : m # n => calls'[m] = calls[m]
  BY DEF TypeOK, CallEnds

(* The mutex and who is inside follow each other. *)
LEMMA MutexKept ==
    ASSUME TypeOK, Mutex, NEW c \in Clients,
           \A d \in Clients : d # c => client'[d] = client[d],
           lock \in {c, None},
           lock' = IF client'[c].pc \in Inside THEN c ELSE None
    PROVE  Mutex'
  BY ConstantsAssumption DEF Mutex, TypeOK

-----------------------------------------------------------------------------
(* enqueue *)

(* No field that NodesOK and CallsOK look at changes. *)
LeavesNodes ==
    /\ metrics'.nodes = metrics.nodes /\ metrics'.jobs_started = metrics.jobs_started
    /\ UNCHANGED <<worker, calls, permit, abandoned, panics>>

LEMMA NodesLeft ==
    ASSUME CallsOK, NodesOK, LeavesNodes
    PROVE  CallsOK' /\ NodesOK'
  BY DEF CallsOK, NodesOK, LeavesNodes, NodeCountsAddUp, OutcomesOf

(* The id that is drawn is new. *)
LEMMA DrawKeeps ==
    ASSUME MInv, NEW c \in Clients, Draw(c)
    PROVE  MInv'
<1>1. /\ client[c].pc = "idle" /\ next_job_id \in Nat
      /\ client' = [client EXCEPT ![c] = [pc |-> "lock", job |-> next_job_id]]
      /\ next_job_id' = next_job_id + 1
      /\ UNCHANGED <<lock, queue, metrics, worker, calls, permit, abandoned, panics>>
  BY DEF MInv, TypeOK, Draw, LeavesWorker
<1>2. /\ client' \in [Clients -> ClientState]
      /\ client'[c].pc = "lock" /\ client'[c].job = next_job_id
      /\ \A d \in Clients : d # c => client'[d] = client[d]
  BY <1>1 DEF MInv, TypeOK, ClientState
<1>3. lock # c
  BY <1>1 DEF MInv, Mutex, Inside
<1>4. TypeOK'
  BY <1>1, <1>2 DEF MInv, TypeOK
<1>5. Mutex'
  BY <1>1, <1>2 DEF MInv, Mutex, Inside
<1>6. JobsOK'
  <2>1. Waiting(queue, worker)' = Waiting(queue, worker)
    BY <1>1
  <2>2. \A job \in Waiting(queue, worker) : job \in Nat
    BY DEF MInv, TypeOK, Waiting, WorkerState
  <2>3. \A d \in Clients : client[d].job \in Nat
    BY DEF MInv, TypeOK, ClientState
  <2>4. QED
    BY <1>1, <1>2, <2>1, <2>2, <2>3 DEF MInv, JobsOK
<1>7. CountsOK'
  <2>1. /\ NotedEarly(lock', client') = NotedEarly(lock, client)
        /\ NotCounted(lock', client') = NotCounted(lock, client)
    BY <1>1, <1>2, <1>3 DEF MInv, TypeOK, NotedEarly, NotCounted
  <2>2. QED
    BY <1>1, <2>1 DEF MInv, CountsOK
<1>8. CallsOK' /\ NodesOK'
  BY <1>1, NodesLeft DEF MInv, LeavesNodes
<1>9. QED
  BY <1>4, <1>5, <1>6, <1>7, <1>8 DEF MInv

(* The job is noted as queued when the mutex is taken. *)
LEMMA EnterKeeps ==
    ASSUME MInv, NEW c \in Clients, Enter(c)
    PROVE  MInv'
<1>1. /\ client[c].pc = "lock" /\ lock = None /\ lock' = c /\ ClientGoes(c, "send")
      /\ metrics' = [metrics EXCEPT !.queued = @ \cup {client[c].job}]
      /\ UNCHANGED <<next_job_id, queue, worker, calls, permit, abandoned, panics>>
  BY DEF Enter, LeavesWorker
<1>2. /\ client' \in [Clients -> ClientState]
      /\ client'[c].pc = "send" /\ client'[c].job = client[c].job
      /\ \A d \in Clients : d # c => client'[d] = client[d]
  BY <1>1, ClientMoved DEF MInv
<1>3. /\ metrics' \in RuntimeMetrics
      /\ metrics'.queued = metrics.queued \cup {client[c].job}
      /\ metrics'.active = metrics.active /\ metrics'.nodes = metrics.nodes
      /\ metrics'.jobs_accepted = metrics.jobs_accepted
      /\ metrics'.jobs_started = metrics.jobs_started
      /\ metrics'.jobs_completed = metrics.jobs_completed
  BY <1>1 DEF MInv, TypeOK, RuntimeMetrics, ClientState
<1>4. TypeOK'
  BY <1>1, <1>2, <1>3 DEF MInv, TypeOK
<1>5. Mutex'
  BY <1>1, <1>2, MutexKept DEF MInv, Inside
<1>6. JobsOK'
  BY <1>1, <1>2 DEF MInv, JobsOK, Unsent
<1>7. CountsOK'
  <2>1. /\ NotedEarly(lock', client') = {client[c].job} /\ NotedEarly(lock, client) = {}
        /\ NotCounted(lock', client') = 0 /\ NotCounted(lock, client) = 0
    BY <1>1, <1>2, ConstantsAssumption DEF NotedEarly, NotCounted
  <2>2. QED
    BY <1>1, <1>3, <2>1 DEF MInv, CountsOK
<1>8. CallsOK' /\ NodesOK'
  BY <1>1, <1>3, NodesLeft DEF MInv, LeavesNodes
<1>9. QED
  BY <1>4, <1>5, <1>6, <1>7, <1>8 DEF MInv

(* Append adds one entry. *)
LEMMA AppendIs ==
    ASSUME NEW q \in Seq(Nat), NEW x \in Nat
    PROVE  /\ Append(q, x) \in Seq(Nat) /\ Len(Append(q, x)) = Len(q) + 1
           /\ DOMAIN Append(q, x) = DOMAIN q \cup {Len(q) + 1}
           /\ Len(q) + 1 \notin DOMAIN q
           /\ Append(q, x)[Len(q) + 1] = x
           /\ \A i \in DOMAIN q : Append(q, x)[i] = q[i]
  OBVIOUS

(* The channel takes the job, or does not. *)
LEMMA SendKeeps ==
    ASSUME MInv, NEW c \in Clients, Send(c)
    PROVE  MInv'
<1> DEFINE job == client[c].job
<1>1. /\ client[c].pc = "send" /\ lock = c /\ lock' = c /\ lock # None
      /\ UNCHANGED <<next_job_id, metrics, worker, calls, permit, abandoned, panics>>
  BY ConstantsAssumption DEF Send, LeavesWorker, MInv, Mutex, Inside
<1>2. job \in Nat /\ job \notin Waiting(queue, worker) /\ job < next_job_id
  BY <1>1 DEF MInv, TypeOK, ClientState, JobsOK, Unsent
<1>3. CASE /\ Len(queue) < QueueCapacity
           /\ queue' = Append(queue, job) /\ ClientGoes(c, "accepted")
  <2>1. /\ client' \in [Clients -> ClientState]
        /\ client'[c].pc = "accepted" /\ client'[c].job = client[c].job
        /\ \A d \in Clients : d # c => client'[d] = client[d]
    BY <1>3, ClientMoved DEF MInv
  <2>2. /\ queue' \in Seq(Nat) /\ Len(queue') = Len(queue) + 1
        /\ DOMAIN queue' = DOMAIN queue \cup {Len(queue) + 1}
        /\ Len(queue) + 1 \notin DOMAIN queue
        /\ queue'[Len(queue) + 1] = job
        /\ \A i \in DOMAIN queue : queue'[i] = queue[i]
    BY <1>2, <1>3, AppendIs DEF MInv, TypeOK
  <2>3. Len(queue') <= QueueCapacity
    BY <1>3, <2>2, ConstantsAssumption DEF MInv, TypeOK
  <2>4. TypeOK'
    BY <1>1, <2>1, <2>2, <2>3 DEF MInv, TypeOK
  <2>5. Mutex'
    BY <1>1, <2>1, MutexKept DEF MInv, Inside
  <2> HIDE DEF job
  <2>6. Waiting(queue', worker') = Waiting(queue, worker) \cup {job}
    BY <1>1, <2>2 DEF Waiting
  <2>7. JobsOK'
    <3>1. ASSUME NEW d \in Clients, client'[d].pc \in Unsent
          PROVE  /\ client'[d].job < next_job_id'
                 /\ client'[d].job \notin Waiting(queue', worker')
                 /\ client'[d] = client[d]
      BY <1>1, <2>1, <2>6, <3>1 DEF MInv, JobsOK, Unsent, job
    <3>2. \A j \in DOMAIN queue : queue[j] # job
      BY <1>2 DEF Waiting
    <3>3. worker.pc = "start" => worker.job # job
      BY <1>2 DEF Waiting
    <3>4. \A i, j \in DOMAIN queue' : queue'[i] = queue'[j] => i = j
      BY <2>2, <3>2 DEF MInv, JobsOK
    <3>5. worker'.pc = "start" => \A j \in DOMAIN queue' : queue'[j] # worker'.job
      BY <1>1, <2>2, <3>3 DEF MInv, JobsOK
    <3>6. \A x \in Waiting(queue', worker') : x < next_job_id'
      BY <1>1, <1>2, <2>6 DEF MInv, JobsOK
    <3>7. QED
      BY <3>1, <3>4, <3>5, <3>6 DEF MInv, JobsOK
  <2>8. CountsOK'
    <3>1. /\ NotedEarly(lock', client') = {} /\ NotedEarly(lock, client) = {job}
          /\ NotCounted(lock', client') = 1 /\ NotCounted(lock, client) = 0
      BY <1>1, <2>1 DEF NotedEarly, NotCounted, job
    <3>2. /\ IsFiniteSet(Waiting(queue', worker'))
          /\ Cardinality(Waiting(queue', worker')) = Cardinality(Waiting(queue, worker)) + 1
      <4> DEFINE W == Waiting(queue, worker)
      <4>1. IsFiniteSet(W) /\ job \notin W
        BY <1>2 DEF MInv, CountsOK, job
      <4> HIDE DEF W
      <4>2. IsFiniteSet(W \cup {job}) /\ Cardinality(W \cup {job}) = Cardinality(W) + 1
        BY <4>1, FS_AddElement
      <4>3. QED
        BY <2>6, <4>2 DEF W
    <3>3. Cardinality(Waiting(queue, worker)) \in Nat
      BY FS_CardinalityType DEF MInv, CountsOK
    <3>4. metrics.jobs_accepted \in Nat /\ metrics.jobs_started \in Nat
      BY DEF MInv, TypeOK, RuntimeMetrics
    <3>5. metrics.jobs_accepted + 1 = metrics.jobs_started + Cardinality(Waiting(queue', worker'))
      BY <3>1, <3>2, <3>3, <3>4 DEF MInv, CountsOK
    <3>6. metrics.queued = Waiting(queue', worker')
      BY <2>6, <3>1 DEF MInv, CountsOK
    <3>7. QED
      BY <1>1, <3>1, <3>2, <3>5, <3>6 DEF MInv, CountsOK
  <2>9. CallsOK' /\ NodesOK'
    BY <1>1, NodesLeft DEF MInv, LeavesNodes
  <2>10. QED
    BY <2>4, <2>5, <2>7, <2>8, <2>9 DEF MInv
<1>4. CASE ClientGoes(c, "full") /\ UNCHANGED queue
  <2>1. /\ client' \in [Clients -> ClientState]
        /\ client'[c].pc = "full" /\ client'[c].job = client[c].job
        /\ \A d \in Clients : d # c => client'[d] = client[d]
    BY <1>4, ClientMoved DEF MInv
  <2>2. TypeOK'
    BY <1>1, <1>4, <2>1 DEF MInv, TypeOK
  <2>3. Mutex'
    BY <1>1, <2>1, MutexKept DEF MInv, Inside
  <2>4. JobsOK'
    BY <1>1, <1>4, <2>1 DEF MInv, JobsOK, Unsent
  <2>5. CountsOK'
    <3>1. /\ NotedEarly(lock', client') = NotedEarly(lock, client)
          /\ NotCounted(lock', client') = NotCounted(lock, client)
      BY <1>1, <2>1 DEF NotedEarly, NotCounted
    <3>2. QED
      BY <1>1, <1>4, <3>1 DEF MInv, CountsOK
  <2>6. CallsOK' /\ NodesOK'
    BY <1>1, NodesLeft DEF MInv, LeavesNodes
  <2>7. QED
    BY <2>2, <2>3, <2>4, <2>5, <2>6 DEF MInv
<1>5. QED
  BY <1>3, <1>4 DEF Send

(* What Accept and RejectFull have in common: the mutex is released. *)
LEMMA ReleaseKeeps ==
    ASSUME MInv, NEW c \in Clients, client[c].pc \in Inside, lock' = None,
           ClientGoes(c, "idle"), metrics' \in RuntimeMetrics,
           UNCHANGED <<next_job_id, queue>>, LeavesNodes
    PROVE  /\ lock = c /\ c # None
           /\ TypeOK' /\ Mutex' /\ JobsOK' /\ CallsOK' /\ NodesOK'
           /\ NotedEarly(lock', client') = {} /\ NotCounted(lock', client') = 0
<1>1. lock = c /\ c # None
  BY ConstantsAssumption DEF MInv, Mutex
<1>2. /\ client' \in [Clients -> ClientState]
      /\ client'[c].pc = "idle" /\ client'[c].job = client[c].job
      /\ \A d \in Clients : d # c => client'[d] = client[d]
  BY ClientMoved DEF MInv
<1>3. TypeOK'
  BY <1>2 DEF MInv, TypeOK, LeavesNodes
<1>4. Mutex'
  BY <1>1, <1>2, MutexKept DEF MInv, Inside
<1>5. JobsOK'
  BY <1>2 DEF MInv, JobsOK, Unsent, LeavesNodes
<1>6. CallsOK' /\ NodesOK'
  BY NodesLeft DEF MInv
<1>7. QED
  BY <1>1, <1>3, <1>4, <1>5, <1>6 DEF NotedEarly, NotCounted

(* A job that the channel took is counted as accepted. *)
LEMMA AcceptKeeps ==
    ASSUME MInv, NEW c \in Clients, Accept(c)
    PROVE  MInv'
<1>1. /\ client[c].pc = "accepted" /\ lock' = None /\ ClientGoes(c, "idle")
      /\ metrics' = [metrics EXCEPT !.jobs_accepted = @ + 1]
      /\ UNCHANGED <<next_job_id, queue, worker, calls, permit, abandoned, panics>>
  BY DEF Accept, LeavesWorker
<1>2. /\ metrics' \in RuntimeMetrics
      /\ metrics'.jobs_accepted = metrics.jobs_accepted + 1
      /\ metrics'.queued = metrics.queued
      /\ metrics'.active = metrics.active /\ metrics'.nodes = metrics.nodes
      /\ metrics'.jobs_started = metrics.jobs_started
      /\ metrics'.jobs_completed = metrics.jobs_completed
      /\ metrics.jobs_accepted \in Nat
  <2>1. metrics \in RuntimeMetrics /\ metrics.jobs_accepted + 1 \in Nat
    BY DEF MInv, TypeOK, RuntimeMetrics
  <2>2. QED
    BY <1>1, <2>1 DEF RuntimeMetrics
<1>3. /\ lock = c /\ c # None
      /\ TypeOK' /\ Mutex' /\ JobsOK' /\ CallsOK' /\ NodesOK'
      /\ NotedEarly(lock', client') = {} /\ NotCounted(lock', client') = 0
  BY <1>1, <1>2, ReleaseKeeps DEF Inside, LeavesNodes
<1>4. NotedEarly(lock, client) = {} /\ NotCounted(lock, client) = 1
  BY <1>1, <1>3 DEF NotedEarly, NotCounted
<1>5. CountsOK'
  BY <1>1, <1>2, <1>3, <1>4 DEF MInv, CountsOK
<1>6. QED
  BY <1>3, <1>5 DEF MInv

(* A job that the channel refused leaves the set of queued jobs. *)
LEMMA RejectFullKeeps ==
    ASSUME MInv, NEW c \in Clients, RejectFull(c)
    PROVE  MInv'
<1> DEFINE job == client[c].job
<1>1. /\ client[c].pc = "full" /\ lock' = None /\ ClientGoes(c, "idle")
      /\ metrics' = [metrics EXCEPT !.queued = @ \ {job}, !.jobs_rejected_full = @ + 1]
      /\ UNCHANGED <<next_job_id, queue, worker, calls, permit, abandoned, panics>>
  BY DEF RejectFull, LeavesWorker
<1>2. /\ metrics' \in RuntimeMetrics
      /\ metrics'.jobs_accepted = metrics.jobs_accepted
      /\ metrics'.queued = metrics.queued \ {job}
      /\ metrics'.active = metrics.active /\ metrics'.nodes = metrics.nodes
      /\ metrics'.jobs_started = metrics.jobs_started
      /\ metrics'.jobs_completed = metrics.jobs_completed
      /\ metrics.jobs_accepted \in Nat
  <2>1. metrics.queued \ {job} \in SUBSET Nat /\ metrics.jobs_rejected_full + 1 \in Nat
    BY DEF MInv, TypeOK, RuntimeMetrics
  <2>2. QED
    BY <1>1, <2>1 DEF MInv, TypeOK, RuntimeMetrics
<1>3. /\ lock = c /\ c # None
      /\ TypeOK' /\ Mutex' /\ JobsOK' /\ CallsOK' /\ NodesOK'
      /\ NotedEarly(lock', client') = {} /\ NotCounted(lock', client') = 0
  BY <1>1, <1>2, ReleaseKeeps DEF Inside, LeavesNodes
<1>4. NotedEarly(lock, client) = {job} /\ NotCounted(lock, client) = 0
  BY <1>1, <1>3 DEF NotedEarly, NotCounted
<1>5. job \notin Waiting(queue, worker)
  BY <1>1 DEF MInv, JobsOK, Unsent
<1>6. CountsOK'
  BY <1>1, <1>2, <1>3, <1>4, <1>5 DEF MInv, CountsOK
<1>7. QED
  BY <1>3, <1>6 DEF MInv

-----------------------------------------------------------------------------
(* run_worker *)

(* Clients stay as they are, and so does the mutex. *)
LEMMA MutexLeft ==
    ASSUME Mutex, LeavesClients
    PROVE  Mutex'
  BY DEF Mutex, LeavesClients

(* Tail removes the head. *)
LEMMA TailIs ==
    ASSUME NEW q \in Seq(Nat), q # <<>>
    PROVE  /\ Head(q) \in Nat /\ 1 \in DOMAIN q /\ Head(q) = q[1]
           /\ Tail(q) \in Seq(Nat) /\ Len(Tail(q)) <= Len(q)
           /\ \A i \in DOMAIN Tail(q) : i + 1 \in DOMAIN q /\ i # 0 /\ Tail(q)[i] = q[i + 1]
           /\ \A i \in DOMAIN q : i = 1 \/ (i - 1 \in DOMAIN Tail(q) /\ Tail(q)[i - 1] = q[i])
           /\ DOMAIN q \subseteq Nat /\ DOMAIN Tail(q) \subseteq Nat
<1>1. Len(q) \in Nat /\ Len(q) # 0 /\ DOMAIN q = 1 .. Len(q)
  OBVIOUS
<1>2. Tail(q) \in Seq(Nat) /\ Len(Tail(q)) = Len(q) - 1 /\ DOMAIN Tail(q) = 1 .. Len(q) - 1
  BY <1>1
<1>3. \A i \in 1 .. Len(q) - 1 : Tail(q)[i] = q[i + 1]
  BY <1>1
<1>4. Head(q) = q[1] /\ q[1] \in Nat
  BY <1>1
<1>5. \A i \in DOMAIN q : i = 1 \/ (i - 1 \in DOMAIN Tail(q) /\ Tail(q)[i - 1] = q[i])
  BY <1>1, <1>2, <1>3
<1>6. QED
  BY <1>1, <1>2, <1>3, <1>4, <1>5

(* The job leaves the channel and waits with the worker. *)
LEMMA RecvKeeps ==
    ASSUME MInv, Recv
    PROVE  MInv'
<1> DEFINE h == Head(queue)
           t == Tail(queue)
<1>1. /\ worker.pc = "recv" /\ queue # <<>> /\ queue \in Seq(Nat)
      /\ queue' = t /\ worker' = [pc |-> "start", job |-> h]
      /\ UNCHANGED <<metrics, calls, permit, abandoned, panics>>
      /\ LeavesClients
  BY DEF Recv, MInv, TypeOK
<1>2. /\ h \in Nat /\ 1 \in DOMAIN queue /\ h = queue[1]
      /\ t \in Seq(Nat) /\ Len(t) <= Len(queue)
      /\ \A i \in DOMAIN t : i + 1 \in DOMAIN queue /\ i # 0 /\ t[i] = queue[i + 1]
      /\ \A i \in DOMAIN queue : i = 1 \/ (i - 1 \in DOMAIN t /\ t[i - 1] = queue[i])
      /\ DOMAIN queue \subseteq Nat /\ DOMAIN t \subseteq Nat
  BY <1>1, TailIs
<1> HIDE DEF h, t
<1>3. TypeOK'
  <2>1. Len(t) <= QueueCapacity
    BY <1>2, ConstantsAssumption DEF MInv, TypeOK
  <2>2. worker' \in WorkerState
    BY <1>1, <1>2 DEF WorkerState
  <2>3. QED
    BY <1>1, <1>2, <2>1, <2>2 DEF MInv, TypeOK, LeavesClients
<1>4. Waiting(queue', worker') = Waiting(queue, worker)
  <2>1. {queue[i] : i \in DOMAIN queue} = {t[i] : i \in DOMAIN t} \cup {h}
    BY <1>2
  <2>2. QED
    BY <1>1, <2>1 DEF Waiting
<1>5. JobsOK'
  <2>1. \A i, j \in DOMAIN t : t[i] = t[j] => i = j
    <3>1. SUFFICES ASSUME NEW i \in DOMAIN t, NEW j \in DOMAIN t, t[i] = t[j]
                   PROVE  i = j
      OBVIOUS
    <3>2. i + 1 = j + 1
      BY <1>2, <3>1 DEF MInv, JobsOK
    <3>3. i \in Nat /\ j \in Nat
      BY <1>2
    <3>4. QED
      BY <3>2, <3>3
  <2>2. \A i \in DOMAIN t : t[i] # h
    <3>1. SUFFICES ASSUME NEW i \in DOMAIN t, t[i] = h
                   PROVE  FALSE
      OBVIOUS
    <3>2. i + 1 = 1
      BY <1>2, <3>1 DEF MInv, JobsOK
    <3>3. i \in Nat /\ i # 0
      BY <1>2
    <3>4. QED
      BY <3>2, <3>3
  <2>3. QED
    BY <1>1, <1>4, <2>1, <2>2 DEF MInv, JobsOK, LeavesClients
<1>6. CountsOK'
  BY <1>1, <1>4 DEF MInv, CountsOK, LeavesClients
<1>7. CallsOK'
  BY <1>1 DEF MInv, CallsOK
<1>8. NodesOK'
  BY <1>1 DEF MInv, NodesOK, NodeCountsAddUp, OutcomesOf
<1>9. QED
  BY <1>1, <1>3, <1>5, <1>6, <1>7, <1>8, MutexLeft DEF MInv

(* Nobody holds the mutex: nothing is noted too early. *)
LEMMA Unlocked ==
    ASSUME lock = None, LeavesClients
    PROVE  /\ NotedEarly(lock, client) = {} /\ NotCounted(lock, client) = 0
           /\ NotedEarly(lock', client') = {} /\ NotCounted(lock', client') = 0
  BY DEF NotedEarly, NotCounted, LeavesClients

(* A dispatch more is active at a node. *)
LEMMA DispatchedIs ==
    ASSUME NEW m \in NodeMetrics
    PROVE  /\ Dispatched(m) \in NodeMetrics
           /\ Dispatched(m).active = m.active + 1
           /\ Dispatched(m).dispatched = m.dispatched + 1
           /\ Dispatched(m).succeeded = m.succeeded /\ Dispatched(m).failed = m.failed
           /\ m.active \in Nat /\ m.dispatched \in Nat
           /\ m.succeeded \in Nat /\ m.failed \in Nat
<1> DEFINE x == m.active + 1
           y == m.dispatched + 1
           e == [m EXCEPT !.active = x, !.dispatched = y]
<1>1. /\ m.active \in Nat /\ m.dispatched \in Nat
      /\ m.succeeded \in Nat /\ m.failed \in Nat /\ x \in Nat /\ y \in Nat
  BY DEF NodeMetrics
<1> HIDE DEF x, y
<1>2. /\ e \in NodeMetrics /\ e.active = x /\ e.dispatched = y
      /\ e.succeeded = m.succeeded /\ e.failed = m.failed
  BY <1>1 DEF NodeMetrics
<1>3. Dispatched(m) = e
  BY DEF Dispatched, x, y
<1>4. QED
  BY <1>1, <1>2, <1>3 DEF x, y

(* The job is not queued any more, and active at every node. *)
LEMMA StartKeeps ==
    ASSUME MInv, Start
    PROVE  MInv'
<1> DEFINE nodes == [n \in Names |->
                       IF n = Internal THEN metrics.nodes[n] ELSE Dispatched(metrics.nodes[n])]
           job == worker.job
<1>1. /\ worker.pc = "start" /\ lock = None /\ LeavesClients
      /\ metrics' = [metrics EXCEPT !.queued = @ \ {job}, !.active = job,
                                    !.jobs_started = @ + 1, !.nodes = nodes]
      /\ worker' = [worker EXCEPT !.pc = "dispatch"]
      /\ calls' = [n \in Nodes |-> "sent"]
      /\ UNCHANGED <<queue, permit, abandoned, panics>>
  <2>1. metrics' = [metrics EXCEPT !.queued = @ \ {job}, !.active = job,
                                   !.jobs_started = @ + 1, !.nodes = nodes]
    BY DEF Start
  <2>2. QED
    BY <2>1 DEF Start
<1>2. job \in Nat /\ worker'.pc = "dispatch" /\ worker'.job = job /\ worker' \in WorkerState
  BY <1>1 DEF MInv, TypeOK, WorkerState
<1>3. /\ nodes \in [Names -> NodeMetrics]
      /\ nodes[Internal] = metrics.nodes[Internal]
      /\ \A n \in Nodes :
           /\ nodes[n].active = metrics.nodes[n].active + 1
           /\ nodes[n].dispatched = metrics.nodes[n].dispatched + 1
           /\ nodes[n].succeeded = metrics.nodes[n].succeeded
           /\ nodes[n].failed = metrics.nodes[n].failed
  <2>1. \A n \in Names : metrics.nodes[n] \in NodeMetrics
    BY DEF MInv, TypeOK, RuntimeMetrics
  <2>2. /\ nodes[Internal] = metrics.nodes[Internal]
        /\ \A n \in Nodes : nodes[n] = Dispatched(metrics.nodes[n])
    BY ConstantsAssumption DEF Names
  <2>3. nodes = [n \in Names |-> nodes[n]]
    OBVIOUS
  <2> HIDE DEF nodes
  <2>4. \A n \in Nodes : n \in Names
    BY DEF Names
  <2>5. \A n \in Names : nodes[n] \in NodeMetrics
    BY <2>1, <2>2, DispatchedIs DEF Names
  <2>6. QED
    BY <2>1, <2>2, <2>3, <2>4, <2>5, DispatchedIs
<1> HIDE DEF nodes
<1>4. /\ metrics' \in RuntimeMetrics
      /\ metrics'.queued = metrics.queued \ {job}
      /\ metrics'.active = job /\ metrics'.nodes = nodes
      /\ metrics'.jobs_accepted = metrics.jobs_accepted
      /\ metrics'.jobs_started = metrics.jobs_started + 1
      /\ metrics'.jobs_completed = metrics.jobs_completed
  <2>1. metrics.queued \ {job} \in SUBSET Nat /\ metrics.jobs_started + 1 \in Nat
    BY DEF MInv, TypeOK, RuntimeMetrics
  <2>2. QED
    BY <1>1, <1>2, <1>3, <2>1 DEF MInv, TypeOK, RuntimeMetrics
<1>5. TypeOK'
  BY <1>1, <1>2, <1>4 DEF MInv, TypeOK, LeavesClients, Pending
<1>6. /\ Waiting(queue', worker') = Waiting(queue, worker) \ {job}
      /\ job \in Waiting(queue, worker)
  <2>1. \A i \in DOMAIN queue : queue[i] # job
    BY <1>1 DEF MInv, JobsOK
  <2>2. QED
    BY <1>1, <1>2, <2>1 DEF Waiting
<1>7. JobsOK'
  BY <1>1, <1>2, <1>6 DEF MInv, JobsOK, LeavesClients
<1>8. CountsOK'
  <2> DEFINE W == Waiting(queue, worker)
  <2>1. IsFiniteSet(W) /\ job \in W
    BY <1>6 DEF MInv, CountsOK
  <2> HIDE DEF W
  <2>2. /\ IsFiniteSet(W \ {job}) /\ Cardinality(W \ {job}) = Cardinality(W) - 1
        /\ Cardinality(W) \in Nat
    BY <2>1, FS_RemoveElement, FS_CardinalityType
  <2>3. /\ NotedEarly(lock, client) = {} /\ NotCounted(lock, client) = 0
        /\ NotedEarly(lock', client') = {} /\ NotCounted(lock', client') = 0
    BY <1>1, Unlocked
  <2>4. /\ metrics.jobs_accepted \in Nat /\ metrics.jobs_started \in Nat
        /\ metrics.jobs_completed \in Nat
    BY DEF MInv, TypeOK, RuntimeMetrics
  <2>5. metrics.queued = W /\ metrics.jobs_accepted = metrics.jobs_started + Cardinality(W)
    BY <2>2, <2>3, <2>4 DEF MInv, CountsOK, W
  <2>6. metrics.jobs_started = metrics.jobs_completed
    BY <1>1, <2>4 DEF MInv, CountsOK
  <2>7. Waiting(queue', worker') = W \ {job}
    BY <1>6 DEF W
  <2>8. metrics'.queued = W \ {job}
    BY <1>4, <2>5
  <2>9. metrics'.jobs_accepted = metrics'.jobs_started + Cardinality(W \ {job})
    BY <1>4, <2>2, <2>4, <2>5
  <2>10. QED
    BY <1>2, <1>4, <2>2, <2>3, <2>4, <2>6, <2>7, <2>8, <2>9 DEF CountsOK
<1>9. CallsOK'
  BY <1>1, <1>2 DEF MInv, CallsOK, Ended
<1>10. NodesOK'
  <2>1. \A n \in Nodes :
          /\ metrics.nodes[n].active \in Nat /\ metrics.nodes[n].dispatched \in Nat
          /\ metrics.nodes[n].succeeded \in Nat /\ metrics.nodes[n].failed \in Nat
    BY DEF MInv, TypeOK, RuntimeMetrics, NodeMetrics, Names
  <2>2. ASSUME NEW n \in Nodes
        PROVE  LET m == metrics'.nodes[n] IN
               /\ m.dispatched = metrics'.jobs_started
               /\ m.dispatched = m.succeeded + m.failed + m.active
               /\ m.active >= 1
    <3>1. /\ metrics.nodes[n].dispatched = metrics.jobs_started
          /\ metrics.nodes[n].dispatched =
               metrics.nodes[n].succeeded + metrics.nodes[n].failed + metrics.nodes[n].active
      BY DEF MInv, NodesOK, NodeCountsAddUp
    <3>2. QED
      BY <1>3, <1>4, <2>1, <3>1
  <2>3. OutcomesOf(Internal)' = {}
    BY <1>1, ConstantsAssumption DEF OutcomesOf
  <2>4. metrics.nodes[Internal].failed = panics
    <3>1. metrics.nodes[Internal].failed \in Nat
      BY DEF MInv, TypeOK, RuntimeMetrics, NodeMetrics, Names
    <3>2. QED
      BY <1>1, <3>1 DEF MInv, NodesOK, NodeCountsAddUp
  <2>5. metrics'.nodes[Internal].failed + Cardinality(OutcomesOf(Internal)') = panics'
    <3>1. panics \in Nat
      BY DEF MInv, TypeOK
    <3>2. QED
      BY <1>1, <1>3, <1>4, <2>3, <2>4, <3>1, FS_EmptySet
  <2>6. QED
    BY <1>2, <2>2, <2>5 DEF NodesOK, NodeCountsAddUp
<1>11. QED
  BY <1>1, <1>5, <1>7, <1>8, <1>9, <1>10, MutexLeft DEF MInv

-----------------------------------------------------------------------------
(* The outcomes of a job. *)

(* A node is answered for under its own name, unless its task panicked. *)
LEMMA NodeOutcome ==
    ASSUME NEW n \in Nodes
    PROVE  /\ calls[n] = "panicked" =>
                Cardinality(OutcomesOf(n)) = 0 /\ Cardinality(Successes(n)) = 0
                /\ Cardinality(OutcomesOf(n) \ Successes(n)) = 0
           /\ calls[n] = "success" =>
                Cardinality(OutcomesOf(n)) = 1 /\ Cardinality(Successes(n)) = 1
                /\ Cardinality(OutcomesOf(n) \ Successes(n)) = 0
           /\ calls[n] \notin {"panicked", "success"} =>
                Cardinality(OutcomesOf(n)) = 1 /\ Cardinality(Successes(n)) = 0
                /\ Cardinality(OutcomesOf(n) \ Successes(n)) = 1
<1>1. calls[n] = "panicked" => OutcomesOf(n) = {} /\ Successes(n) = {}
  BY ConstantsAssumption DEF OutcomesOf, Successes
<1>2. calls[n] # "panicked" => OutcomesOf(n) = {n}
  BY ConstantsAssumption DEF OutcomesOf
<1>3. /\ calls[n] = "success" => Successes(n) = OutcomesOf(n)
      /\ calls[n] # "success" /\ calls[n] # "panicked" => Successes(n) = {}
  BY <1>2 DEF Successes
<1>4. \A S : S \ S = {} /\ S \ {} = S
  OBVIOUS
<1>5. QED
  BY <1>1, <1>2, <1>3, <1>4, FS_EmptySet, FS_Singleton

(* Panicked tasks are answered for under the internal name, as failures. *)
LEMMA InternalOutcome ==
    /\ OutcomesOf(Internal) = {n \in Nodes : calls[n] = "panicked"}
    /\ Successes(Internal) = {} /\ Cardinality(Successes(Internal)) = 0
    /\ OutcomesOf(Internal) \ Successes(Internal) = OutcomesOf(Internal)
    /\ IsFiniteSet(OutcomesOf(Internal)) /\ Cardinality(OutcomesOf(Internal)) \in Nat
<1>1. OutcomesOf(Internal) = {n \in Nodes : calls[n] = "panicked"}
  BY ConstantsAssumption DEF OutcomesOf
<1>2. Successes(Internal) = {}
  BY <1>1 DEF Successes
<1>3. IsFiniteSet(OutcomesOf(Internal))
  BY <1>1, FS_Subset, ConstantsAssumption
<1>4. QED
  BY <1>1, <1>2, <1>3, FS_EmptySet, FS_CardinalityType

(* The counters of a name after its outcomes have been added. *)
LEMMA SettledIs ==
    ASSUME NEW m \in NodeMetrics, NEW name,
           Cardinality(OutcomesOf(name)) \in Nat, Cardinality(Successes(name)) \in Nat,
           Cardinality(OutcomesOf(name) \ Successes(name)) \in Nat
    PROVE  LET t == Settled(name, m)
               ended == Cardinality(OutcomesOf(name))
           IN  /\ t \in NodeMetrics /\ t.dispatched = m.dispatched
               /\ t.active = IF m.active >= ended THEN m.active - ended ELSE 0
               /\ t.succeeded = m.succeeded + Cardinality(Successes(name))
               /\ t.failed = m.failed + Cardinality(OutcomesOf(name) \ Successes(name))
<1> DEFINE ended == Cardinality(OutcomesOf(name))
           x == IF m.active >= ended THEN m.active - ended ELSE 0
           y == m.succeeded + Cardinality(Successes(name))
           z == m.failed + Cardinality(OutcomesOf(name) \ Successes(name))
           e == [m EXCEPT !.active = x, !.succeeded = y, !.failed = z]
<1>1. m.active \in Nat /\ m.succeeded \in Nat /\ m.failed \in Nat
  BY DEF NodeMetrics
<1>2. x \in Nat /\ y \in Nat /\ z \in Nat
  BY <1>1
<1>3. Settled(name, m) = e
  BY DEF Settled
<1> HIDE DEF x, y, z
<1>4. /\ e \in NodeMetrics /\ e.dispatched = m.dispatched
      /\ e.active = x /\ e.succeeded = y /\ e.failed = z
  BY <1>2 DEF NodeMetrics
<1>5. QED
  BY <1>3, <1>4 DEF x, y, z

(* The outcomes of the job are added to the counters of its nodes. *)
LEMMA FinishKeeps ==
    ASSUME MInv, Finish
    PROVE  MInv'
<1> DEFINE nodes == [name \in Names |-> Settled(name, metrics.nodes[name])]
<1>1. /\ worker.pc = "dispatch" /\ lock = None /\ LeavesClients
      /\ \A n \in Nodes : calls[n] \in Ended
      /\ metrics' = [metrics EXCEPT !.nodes = nodes, !.active = None, !.jobs_completed = @ + 1]
      /\ worker' = [worker EXCEPT !.pc = "recv"]
      /\ UNCHANGED <<queue, calls, permit, abandoned, panics>>
  BY DEF Finish
<1>2. \A name \in Names : metrics.nodes[name] \in NodeMetrics
  BY DEF MInv, TypeOK, RuntimeMetrics
<1>3. ASSUME NEW n \in Nodes
      PROVE  LET t == Settled(n, metrics.nodes[n]) IN
             /\ t \in NodeMetrics
             /\ t.dispatched = metrics.jobs_started
             /\ t.dispatched = t.succeeded + t.failed + t.active
  <2> DEFINE m == metrics.nodes[n]
             t == Settled(n, m)
             u == Cardinality(OutcomesOf(n))
             v == Cardinality(Successes(n))
             w == Cardinality(OutcomesOf(n) \ Successes(n))
  <2>1. u \in {0, 1} /\ v \in Nat /\ w \in Nat /\ u = v + w
    <3>1. CASE calls[n] = "panicked"
      <4>1. u = 0 /\ v = 0 /\ w = 0
        BY <3>1, NodeOutcome
      <4> HIDE DEF u, v, w
      <4>2. QED
        BY <4>1
    <3>2. CASE calls[n] = "success"
      <4>1. u = 1 /\ v = 1 /\ w = 0
        BY <3>2, NodeOutcome
      <4> HIDE DEF u, v, w
      <4>2. QED
        BY <4>1
    <3>3. CASE calls[n] \notin {"panicked", "success"}
      <4>1. u = 1 /\ v = 0 /\ w = 1
        BY <3>3, NodeOutcome
      <4> HIDE DEF u, v, w
      <4>2. QED
        BY <4>1
    <3>4. QED
      BY <3>1, <3>2, <3>3
  <2>2. m \in NodeMetrics
    BY <1>2 DEF Names
  <2>3. /\ m.active \in Nat /\ m.succeeded \in Nat /\ m.failed \in Nat
        /\ m.dispatched \in Nat
    BY <2>2 DEF NodeMetrics
  <2>4. /\ m.dispatched = metrics.jobs_started /\ m.active >= 1
        /\ m.dispatched = m.succeeded + m.failed + m.active
    BY <1>1 DEF MInv, NodesOK, NodeCountsAddUp
  <2>5. /\ t \in NodeMetrics /\ t.dispatched = m.dispatched
        /\ t.active = IF m.active >= u THEN m.active - u ELSE 0
        /\ t.succeeded = m.succeeded + v /\ t.failed = m.failed + w
    BY <2>1, <2>2, SettledIs
  <2> HIDE DEF m, t, u, v, w
  <2>6. m.active >= u
    BY <2>1, <2>3, <2>4
  <2>7. t.dispatched = t.succeeded + t.failed + t.active
    BY <2>1, <2>3, <2>4, <2>5, <2>6
  <2>8. QED
    BY <2>4, <2>5, <2>7 DEF t, m
<1>4. LET t == Settled(Internal, metrics.nodes[Internal]) IN
      /\ t \in NodeMetrics
      /\ t.failed = metrics.nodes[Internal].failed + Cardinality(OutcomesOf(Internal))
  BY <1>2, InternalOutcome, SettledIs DEF Names
<1>5. nodes \in [Names -> NodeMetrics]
  BY <1>3, <1>4 DEF Names
<1>6. \A name \in Names : nodes[name] = Settled(name, metrics.nodes[name])
  OBVIOUS
<1> HIDE DEF nodes
<1>7. /\ metrics' \in RuntimeMetrics
      /\ metrics'.queued = metrics.queued
      /\ metrics'.active = None /\ metrics'.nodes = nodes
      /\ metrics'.jobs_accepted = metrics.jobs_accepted
      /\ metrics'.jobs_started = metrics.jobs_started
      /\ metrics'.jobs_completed = metrics.jobs_completed + 1
      /\ metrics.jobs_completed \in Nat
  <2>1. metrics \in RuntimeMetrics /\ metrics.jobs_completed + 1 \in Nat
    BY DEF MInv, TypeOK, RuntimeMetrics
  <2>2. QED
    BY <1>1, <1>5, <2>1 DEF RuntimeMetrics
<1>8. worker' \in WorkerState /\ worker'.pc = "recv" /\ worker'.job = worker.job
  BY <1>1 DEF MInv, TypeOK, WorkerState
<1>9. TypeOK'
  BY <1>1, <1>7, <1>8 DEF MInv, TypeOK, LeavesClients
<1>10. Waiting(queue', worker') = Waiting(queue, worker)
  BY <1>1, <1>8 DEF Waiting
<1>11. JobsOK'
  BY <1>1, <1>8, <1>10 DEF MInv, JobsOK, LeavesClients
<1>12. CountsOK'
  <2>1. /\ NotedEarly(lock', client') = NotedEarly(lock, client)
        /\ NotCounted(lock', client') = NotCounted(lock, client)
    BY <1>1, Unlocked
  <2>2. QED
    BY <1>1, <1>7, <1>8, <1>10, <2>1 DEF MInv, CountsOK
<1>13. CallsOK'
  BY <1>1, <1>8 DEF MInv, CallsOK
<1>14. NodesOK'
  <2>1. metrics.nodes[Internal].failed + Cardinality(OutcomesOf(Internal)) = panics
    BY <1>1 DEF MInv, NodesOK, NodeCountsAddUp
  <2>2. metrics'.nodes[Internal].failed = panics'
    BY <1>1, <1>4, <1>6, <1>7, <2>1 DEF Names
  <2>3. panics' \in Nat
    BY <1>9 DEF TypeOK
  <2>4. \A n \in Nodes : LET m == metrics'.nodes[n] IN
           /\ m.dispatched = metrics'.jobs_started
           /\ m.dispatched = m.succeeded + m.failed + m.active
    BY <1>3, <1>6, <1>7 DEF Names
  <2>5. \A x \in Nat : x + 0 = x
    OBVIOUS
  <2>6. NodeCountsAddUp'
    BY <1>8, <2>2, <2>3, <2>4, <2>5 DEF NodeCountsAddUp
  <2>7. QED
    BY <1>8, <2>6 DEF NodesOK
<1>15. QED
  BY <1>1, <1>9, <1>11, <1>12, <1>13, <1>14, MutexLeft DEF MInv

-----------------------------------------------------------------------------
(* The nodes. *)

(* A call that is open shows that the worker dispatches, so that the       *)
(* clients, the channel and the metrics have no part in what a node does.  *)
QueueUntouched ==
    UNCHANGED <<next_job_id, client, lock, queue, metrics, worker>>

LEMMA QueueLeft ==
    ASSUME MInv, QueueUntouched, calls' \in [Nodes -> Pending \cup Ended],
           permit' \in [Nodes -> Nat \cup {None}], abandoned' \subseteq Nodes, panics' \in Nat
    PROVE  TypeOK' /\ Mutex' /\ JobsOK' /\ CountsOK'
<1>1. TypeOK'
  BY DEF MInv, TypeOK, QueueUntouched
<1>2. Mutex' /\ JobsOK' /\ CountsOK'
  BY DEF MInv, Mutex, JobsOK, CountsOK, QueueUntouched
<1>3. QED
  BY <1>1, <1>2

(* A call that does not panic leaves the count of panics as it is. *)
LEMMA OutcomeKeepsNodes ==
    ASSUME MInv, QueueUntouched, UNCHANGED panics,
           \A n \in Nodes : calls'[n] = "panicked" <=> calls[n] = "panicked"
    PROVE  NodesOK'
<1>1. OutcomesOf(Internal)' = OutcomesOf(Internal)
  BY ConstantsAssumption DEF OutcomesOf
<1>2. QED
  BY <1>1 DEF MInv, NodesOK, NodeCountsAddUp, QueueUntouched

(* An open call shows that the worker dispatches. *)
LEMMA OpenCall ==
    ASSUME MInv, NEW n \in Nodes, calls[n] \in Pending
    PROVE  worker.pc = "dispatch" /\ calls[n] # "panicked"
  BY DEF MInv, CallsOK, Pending, Ended

(* The node takes the build or refuses it. *)
LEMMA DeliverKeeps ==
    ASSUME MInv, NEW n \in Nodes, Deliver(n)
    PROVE  MInv'
<1>1. /\ calls[n] = "sent" /\ QueueUntouched /\ UNCHANGED <<abandoned, panics>>
      /\ \/ permit[n] = None /\ CallEnds(n, "served")
            /\ permit' = [permit EXCEPT ![n] = worker.job]
         \/ permit[n] # None /\ CallEnds(n, "failure") /\ UNCHANGED permit
  BY DEF Deliver, LeavesQueue, LeavesClients, QueueUntouched
<1>2. worker.pc = "dispatch" /\ worker.job \in Nat /\ worker' = worker
  BY <1>1, OpenCall DEF Pending, MInv, TypeOK, WorkerState, QueueUntouched
<1>3. /\ calls' \in [Nodes -> Pending \cup Ended]
      /\ calls'[n] \in {"served", "failure"}
      /\ permit[n] = None => calls'[n] = "served"
      /\ \A m \in Nodes : m # n => calls'[m] = calls[m]
  BY <1>1, CallEnded DEF MInv, Pending, Ended
<1>4. /\ permit' \in [Nodes -> Nat \cup {None}]
      /\ permit'[n] # None
      /\ \A m \in Nodes : m # n => permit'[m] = permit[m]
      /\ permit[n] # None => permit'[n] = permit[n]
  BY <1>1, <1>2, ConstantsAssumption DEF MInv, TypeOK
<1>5. TypeOK' /\ Mutex' /\ JobsOK' /\ CountsOK'
  BY <1>1, <1>3, <1>4, QueueLeft DEF MInv, TypeOK
<1>6. CallsOK'
  BY <1>1, <1>2, <1>3, <1>4 DEF MInv, CallsOK
<1>7. NodesOK'
  BY <1>1, <1>3, OutcomeKeepsNodes
<1>8. QED
  BY <1>5, <1>6, <1>7 DEF MInv

(* The build ends and its call, if the server still waits for it, with it. *)
LEMMA BuildEndsKeeps ==
    ASSUME MInv, NEW n \in Nodes, BuildEnds(n)
    PROVE  MInv'
<1>1. /\ permit[n] # None /\ QueueUntouched /\ UNCHANGED panics
      /\ permit' = [permit EXCEPT ![n] = None] /\ abandoned' = abandoned \ {n}
      /\ \/ n \notin abandoned /\ \E outcome \in {"success", "failure"} : CallEnds(n, outcome)
         \/ UNCHANGED calls
  BY DEF BuildEnds, LeavesQueue, LeavesClients, QueueUntouched
<1>2. /\ calls' \in [Nodes -> Pending \cup Ended]
      /\ calls'[n] = calls[n] \/ (calls[n] = "served" /\ calls'[n] \in {"success", "failure"})
      /\ \A m \in Nodes : m # n => calls'[m] = calls[m]
  <2>1. CASE n \notin abandoned /\ \E outcome \in {"success", "failure"} : CallEnds(n, outcome)
    <3>1. calls[n] = "served"
      BY <1>1, <2>1 DEF MInv, CallsOK
    <3>2. QED
      BY <2>1, <3>1, CallEnded DEF MInv, Ended
  <2>2. CASE UNCHANGED calls
    BY <2>2 DEF MInv, TypeOK
  <2>3. QED
    BY <1>1, <2>1, <2>2
<1>3. /\ permit' \in [Nodes -> Nat \cup {None}]
      /\ permit'[n] = None /\ \A m \in Nodes : m # n => permit'[m] = permit[m]
  BY <1>1 DEF MInv, TypeOK
<1>4. TypeOK' /\ Mutex' /\ JobsOK' /\ CountsOK'
  BY <1>1, <1>2, <1>3, QueueLeft DEF MInv, TypeOK
<1>5. CallsOK'
  <2>1. worker' = worker
    BY <1>1 DEF QueueUntouched
  <2>2. worker'.pc # "dispatch" => \A m \in Nodes : calls'[m] \in Ended
    BY <1>2, <2>1 DEF MInv, CallsOK, Ended
  <2>3. QED
    BY <1>1, <1>2, <1>3, <2>2 DEF MInv, CallsOK
<1>6. NodesOK'
  BY <1>1, <1>2, OutcomeKeepsNodes
<1>7. QED
  BY <1>4, <1>5, <1>6 DEF MInv

(* The call fails or its task panics: a node that builds is given up. *)
LEMMA GivenUp ==
    ASSUME MInv, NEW n \in Nodes, NEW outcome \in Ended, calls[n] \in Pending,
           QueueUntouched, CallEnds(n, outcome), UNCHANGED permit,
           abandoned' = IF permit[n] = None THEN abandoned ELSE abandoned \cup {n},
           panics' \in Nat
    PROVE  /\ TypeOK' /\ Mutex' /\ JobsOK' /\ CountsOK' /\ CallsOK'
           /\ calls'[n] = outcome
           /\ \A m \in Nodes : m # n => calls'[m] = calls[m]
<1>1. /\ calls' \in [Nodes -> Pending \cup Ended] /\ calls'[n] = outcome
      /\ \A m \in Nodes : m # n => calls'[m] = calls[m]
  BY CallEnded DEF MInv
<1>2. abandoned' \subseteq Nodes
  BY DEF MInv, TypeOK
<1>3. TypeOK' /\ Mutex' /\ JobsOK' /\ CountsOK'
  BY <1>1, <1>2, QueueLeft DEF MInv, TypeOK
<1>4. worker.pc = "dispatch" /\ worker' = worker
  BY OpenCall DEF QueueUntouched
<1>5. CallsOK'
  BY <1>1, <1>4 DEF MInv, CallsOK
<1>6. QED
  BY <1>1, <1>3, <1>5

LEMMA CallFailsKeeps ==
    ASSUME MInv, NEW n \in Nodes, CallFails(n)
    PROVE  MInv'
<1>1. /\ calls[n] \in Pending /\ QueueUntouched /\ CallEnds(n, "failure")
      /\ UNCHANGED <<permit, panics>> /\ "failure" \in Ended
      /\ abandoned' = IF permit[n] = None THEN abandoned ELSE abandoned \cup {n}
  BY DEF CallFails, LeavesQueue, LeavesClients, QueueUntouched, Ended
<1>2. panics' \in Nat
  BY <1>1 DEF MInv, TypeOK
<1>3. /\ TypeOK' /\ Mutex' /\ JobsOK' /\ CountsOK' /\ CallsOK'
      /\ calls'[n] = "failure"
      /\ \A m \in Nodes : m # n => calls'[m] = calls[m]
  BY <1>1, <1>2, GivenUp
<1>4. NodesOK'
  BY <1>1, <1>3, OpenCall, OutcomeKeepsNodes
<1>5. QED
  BY <1>3, <1>4 DEF MInv

(* One task more is answered for under the internal name. *)
LEMMA PanicKeeps ==
    ASSUME MInv, NEW n \in Nodes, Panic(n)
    PROVE  MInv'
<1>1. /\ calls[n] \in Pending /\ QueueUntouched /\ CallEnds(n, "panicked")
      /\ UNCHANGED permit /\ "panicked" \in Ended /\ panics' = panics + 1
      /\ abandoned' = IF permit[n] = None THEN abandoned ELSE abandoned \cup {n}
  BY DEF Panic, LeavesQueue, LeavesClients, QueueUntouched, Ended
<1>2. panics \in Nat /\ panics' \in Nat
  BY <1>1 DEF MInv, TypeOK
<1>3. /\ TypeOK' /\ Mutex' /\ JobsOK' /\ CountsOK' /\ CallsOK'
      /\ calls'[n] = "panicked"
      /\ \A m \in Nodes : m # n => calls'[m] = calls[m]
  BY <1>1, <1>2, GivenUp
<1>4. worker.pc = "dispatch" /\ calls[n] # "panicked" /\ worker' = worker
      /\ metrics' = metrics
  BY <1>1, OpenCall DEF QueueUntouched
<1> DEFINE S == OutcomesOf(Internal)
<1>5. S = {m \in Nodes : calls[m] = "panicked"} /\ IsFiniteSet(S) /\ Cardinality(S) \in Nat
  BY InternalOutcome
<1>6. S' = S \cup {n} /\ n \notin S
  <2>1. S' = {m \in Nodes : calls'[m] = "panicked"}
    BY ConstantsAssumption DEF OutcomesOf
  <2>2. QED
    BY <1>3, <1>4, <1>5, <2>1
<1> HIDE DEF S
<1>7. Cardinality(S \cup {n}) = Cardinality(S) + 1
  BY <1>5, <1>6, FS_AddElement
<1>8. NodesOK'
  <2>1. metrics.nodes[Internal].failed + Cardinality(S) = panics
    BY <1>4 DEF MInv, NodesOK, NodeCountsAddUp, S
  <2>2. metrics.nodes[Internal].failed \in Nat
    BY DEF MInv, TypeOK, RuntimeMetrics, NodeMetrics, Names
  <2>3. metrics.nodes[Internal].failed + Cardinality(S') = panics'
    BY <1>1, <1>2, <1>5, <1>6, <1>7, <2>1, <2>2
  <2>4. QED
    BY <1>4, <2>3 DEF MInv, NodesOK, NodeCountsAddUp, S
<1>9. QED
  BY <1>3, <1>8 DEF MInv

-----------------------------------------------------------------------------
(* The system. *)

LEMMA MInvInit == Init => MInv
<1> SUFFICES ASSUME Init
             PROVE  MInv
  OBVIOUS
<1>1. TypeOK
  BY ConstantsAssumption
  DEF Init, TypeOK, ClientState, WorkerState, RuntimeMetrics, NodeMetrics, NoMetrics, Names,
      Pending, Ended
<1>2. Waiting(queue, worker) = {}
  BY DEF Init, Waiting
<1>3. Mutex /\ JobsOK
  BY <1>2, ConstantsAssumption DEF Init, Mutex, JobsOK, Inside, Unsent
<1>4. CountsOK
  <2>1. NotedEarly(lock, client) = {} /\ NotCounted(lock, client) = 0
    BY DEF Init, NotedEarly, NotCounted
  <2>2. /\ metrics.queued = {} /\ metrics.active = None /\ metrics.jobs_accepted = 0
        /\ metrics.jobs_started = 0 /\ metrics.jobs_completed = 0 /\ worker.pc = "recv"
    BY DEF Init
  <2>3. QED
    BY <1>2, <2>1, <2>2, FS_EmptySet DEF CountsOK
<1>5. CallsOK
  BY DEF Init, CallsOK, Ended
<1>6. NodesOK
  BY DEF Init, NodesOK, NodeCountsAddUp, Names, NoMetrics
<1>7. QED
  BY <1>1, <1>3, <1>4, <1>5, <1>6 DEF MInv

LEMMA MInvNext == MInv /\ [Next]_vars => MInv'
<1> SUFFICES ASSUME MInv, [Next]_vars
             PROVE  MInv'
  OBVIOUS
<1>1. CASE UNCHANGED vars
  BY <1>1
  DEF vars, MInv, TypeOK, Mutex, JobsOK, CountsOK, CallsOK, NodesOK, NodeCountsAddUp, OutcomesOf
<1>2. ASSUME NEW c \in Clients, Draw(c) \/ Enqueue(c)
      PROVE  MInv'
  BY <1>2, DrawKeeps, EnterKeeps, SendKeeps, AcceptKeeps, RejectFullKeeps DEF Enqueue
<1>3. CASE Work
  BY <1>3, RecvKeeps, StartKeeps, FinishKeeps DEF Work
<1>4. ASSUME NEW n \in Nodes, Node(n)
      PROVE  MInv'
  BY <1>4, DeliverKeeps, BuildEndsKeeps, CallFailsKeeps, PanicKeeps DEF Node
<1>5. QED
  BY <1>1, <1>2, <1>3, <1>4 DEF Next

(* The invariant from which the properties below follow: who holds the     *)
(* mutex, where each job is, what the metrics show of it, and which calls  *)
(* and permits go together.                                                *)
THEOREM ManagerInvariance == Spec => []MInv
  BY MInvInit, MInvNext, PTL DEF Spec

(* Every variable has its type, and the channel holds no more than its     *)
(* capacity.                                                               *)
THEOREM ManagerTypes == Spec => []TypeOK
<1>1. MInv => TypeOK
  BY DEF MInv
<1>2. QED
  BY <1>1, ManagerInvariance, PTL

(* A snapshot of the metrics shows every accepted job once, as queued or   *)
(* as active, until it completes, and no job that was rejected.            *)
THEOREM SnapshotsAgree == Spec => []SnapshotAgrees
<1>1. MInv => SnapshotAgrees
  <2> SUFFICES ASSUME MInv, lock = None
               PROVE  SnapshotAgrees
    BY DEF SnapshotAgrees
  <2>1. NotedEarly(lock, client) = {} /\ NotCounted(lock, client) = 0
    BY DEF NotedEarly, NotCounted
  <2>2. metrics.jobs_accepted \in Nat /\ metrics.queued = Waiting(queue, worker)
    BY <2>1 DEF MInv, CountsOK, TypeOK, RuntimeMetrics
  <2>3. metrics.jobs_accepted = metrics.jobs_started + Cardinality(metrics.queued)
    BY <2>1, <2>2 DEF MInv, CountsOK
  <2>4. metrics.active = None <=> worker.pc # "dispatch"
    BY ConstantsAssumption DEF MInv, CountsOK, TypeOK, WorkerState
  <2>5. metrics.jobs_started =
          metrics.jobs_completed + (IF metrics.active = None THEN 0 ELSE 1)
    BY <2>4 DEF MInv, CountsOK
  <2>6. metrics.active = IF worker.pc = "dispatch" THEN worker.job ELSE None
    BY DEF MInv, CountsOK
  <2>7. QED
    BY <2>2, <2>3, <2>5, <2>6 DEF SnapshotAgrees, Waiting
<1>2. QED
  BY <1>1, ManagerInvariance, PTL

(* The counters of a node account for every dispatch to it, also when its  *)
(* task panicked, and the subtraction that saturates never has to.         *)
THEOREM NodeCountsHold == Spec => []NodeCountsAddUp
<1>1. MInv => NodeCountsAddUp
  BY DEF MInv, NodesOK
<1>2. QED
  BY <1>1, ManagerInvariance, PTL

(* A node that is asked to build and is not free builds for a call that    *)
(* the server gave up.                                                     *)
THEOREM NodesAreFree == Spec => []FreeUnlessAbandoned
<1>1. MInv => FreeUnlessAbandoned
  BY DEF MInv, CallsOK, FreeUnlessAbandoned
<1>2. QED
  BY <1>1, ManagerInvariance, PTL

=============================================================================
