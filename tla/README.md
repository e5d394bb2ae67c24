# Verification of reproductive-nix-cache

Specifications, model-checking instances and proofs for the evidence registry
of reproductive-nix-cache.  Several builders build one Nix derivation, commit to
the hash of their evidence, reveal it, and a gateway serves an output once enough
of them agree.  The value of the whole rests on one protocol, the commit-reveal
rounds of the server's `EvidenceStore`, on what its lookups make of the rounds,
and on builders that get through it whatever becomes of the others.

## Inventory

| Part | Source | State | Operations | What is hard |
|---|---|---|---|---|
| Commit-reveal rounds | `server/src/store.rs` | SQLite tables `commit_reveal_rounds`, `evidence_commitments`, `evidences` | `commit`, `reveal`, `round_status`, `advance_round`, the advancing half of `metrics_snapshot` | no lock: every statement commits by itself and handlers decide on copies of rows; deadlines are only noticed by requests; the client retries |
| Schema and start-up | `store.rs` (`initialise`) | the tables and their unique indexes | create, reject legacy schemas | the indexes carry part of the protocol |
| Output consensus and listings | `store.rs` (`select_output_consensus`, `approved_output*`, `list*`, `hydrate`) | none of its own | selection of the output variant with a strict plurality of enough builders | several statements over tables that change meanwhile; ties |
| Binary cache gateway | `server/src/binary_cache.rs`, `cache_location.rs` | none | `approved_narinfo`, `get_nar`, `head_nar` | falls back from one location to the next; checks what the upstream serves |
| Round manager | `server/src/round_manager.rs` | bounded queue, job counter, runtime metrics under a mutex | `enqueue`, `run_worker`, `dispatch`, `metrics_snapshot` | queue full or closed, order of ids and queue, nodes that time out, tasks that panic |
| Builder node | `builder-node/src/main.rs` | a semaphore of one permit | `run_build` | 409 while building; builds that outlive the call |
| Evidence submission | `builder-core/src/lib.rs`, `client.rs` | a session per build | commit, poll, reveal, poll, facts | retries of requests that were served, new rounds after 409 and 410, termination |
| Nix builds | `builder-core/src/build/` | none | build and rebuild, compose evidence | external processes |
| Command line and trust | `cli/src/` | none | `calculate_trust`, `rounded_score` | rounding, rejected evidence |
| Formats | `shared/src/` | none | commitments, evidence and build command validation | canonical form |
| Metrics | `server/src/metrics.rs` | HTTP counters, active requests | export, guards | a request dropped half-way |
| Monitoring | `monitoring/` | - | Prometheus scrapes `/metrics` every 15 s | the scrape is what advances rounds nobody polls |

How they interact: the CLI posts a build command to the server (`POST
/v1/builds`), the round manager queues it and sends it to every builder node; a
builder node runs the build and submits evidence to the store by HTTP (commit,
poll, reveal, poll, list); the gateway asks the store which variant of an output
is approved and fetches it from the locations its builders named; `/metrics`
advances all open rounds as a side effect.

What makes each part correct:

- *rounds*: one open round of a path; nothing of a round is readable while it
  takes commitments, so that a commitment is made blind; evidence opens its
  builder's commitment and is stored once; phases only go forward; a round
  closes; a receipt is backed by the tables;
- *consensus*: an approved variant has enough distinct builders and is not tied,
  and stays approved until a later round of its path says otherwise;
- *gateway*: whatever it serves matches the approved fingerprint; a bad location
  does not hide a good one;
- *round manager*: an accepted job is run once, in the order of the queue; what
  the metrics say agrees with the queue (accepted = queued + started);
- *submission*: a session that succeeds has stored its evidence in the round of
  its receipt, counts once, and does not stay in a round for ever;
- *nix builds*, *formats*: what a builder commits to is accepted when it is
  revealed; it is stored whole and read back as it was;
- *trust*: the score follows the evidence, in whatever order it came.

`PROJECT.json` lists the hazards of the code at their lines, with the
properties that cover them.

## Modules

| Module | What it is |
|---|---|
| `RoundStore` | the commit-reveal rounds, statement by statement |
| `RoundLedger` | what these rounds promise, without handlers, statements and clocks |
| `BuilderSession` | the builders' sessions, composed with `RoundStore` |
| `OutputConsensus` | the lookup of the approved variant of an output, over the rounds of `RoundLedger` |
| `Gateway` | the binary cache gateway, composed with `OutputConsensus` |
| `EvidenceFormat` | evidence, what is asked of it, and how it is composed from the answers of nix: functions on records |
| `EvidenceTables` | an evidence as rows of tables, and back |
| `Trust` | the trust score of the command line client |
| `BuildPipeline` | a build from the command to the score, over these three |
| `RoundManager` | the build queue of the server and the builder nodes it dispatches to |
| `MCRoundStore`, `MCBuilderSession`, `MCOutputConsensus`, `MCGateway`, `MCBuildPipeline`, `MCRoundManager` | instances for TLC |
| `RoundStoreProofs`, `RoundTablesProofs`, `RoundLedgerProofs` | theorems about `RoundStore`: what is sealed and blind; what the tables keep; that it implements `RoundLedger` |
| `BuilderSessionProofs`, `OutputConsensusProofs`, `GatewayProofs`, `BuildPipelineProofs`, `RoundManagerProofs` | theorems about the module of that name |

The composition goes through `RoundLedger`: `RoundStore` implements it (run
`ledger`, theorem `ImplementsRoundLedger`), and the lookup reads rounds that move as `RoundLedger` lets them.  So
what is shown of lookups and of the gateway does not depend on the statements of
the handlers that fill the rounds.

### RoundStore and the code

A handler is a process.  `handler[p]` holds the request, the time it took
(`now`), the copy of the row it works on (`row`), the local variables of
`advance_round`, the rows a scrape still has to advance (`todo`), and `pc`, the
SQL statement it executes next.  One step executes one statement, or what
follows it up to the next one.  `Arrive` starts any request in a free slot and
`Respond` frees the slot when the answer is on its way.

| Code | Actions, in the order of the statements |
|---|---|
| `commit` (store.rs:300) | `LookupDigest`, `RelatedRound`, `SelectActive`, `SelectMyCommitment`, `InsertRound`, `FetchCreated` or `FetchOpen`, `InsertCommitment`, `CountThreshold`, `StartReveal`, `RereadJoined` |
| `reveal` (503) | `FindRound`, `FindCommitment`, `StoreEvidence` (its transaction), `AfterStore` |
| `round_status` (490), `round_status_at` (685) | `FindStatus`, `StatusAt`, `ReloadStatus` |
| `metrics_snapshot` (898) | `ScanOpen`, `NextOpen` |
| `advance_round` (703), called by all of them | `CountCommits`, `CountReveals`, `OpenReveal`, `Reread`, `CloseRound`; `CallAdvance`, `ResumeOpen` and `ResumeClosed` are its call and its two returns, by caller |

- *Atomicity.*  Outside of `reveal`'s transaction each statement is a
  transaction of its own.  sea-orm's `ActiveModel::update` is an UPDATE of the
  columns that were set, and a SELECT of the row after it: two steps
  (`OpenReveal`, then `Reread`).  A transaction of `reveal` that loses against a
  concurrent writer ends with an error and a rollback: that is `Fail`.
- *Failures.*  `Fail` ends a handler between two statements: a statement that
  returns an error, a client that disconnects (the future is dropped), or a
  server that stops, in which case all handlers fail one after the other.  The
  tables stay as they are.
- *Delivery.*  Any request of the instance may arrive at any time and any number
  of times, which covers the client's retries (`client.rs`), duplicated and late
  deliveries, and builders that never come back.
- *Data.*  SHA-256 is taken to be collision-free and hiding, so a digest is the
  record of the evidence and the nonce it is the digest of.  The evidence is
  its builder and its derivation path: the rest of its claims takes no part in
  the protocol.  Answers carry their HTTP status (`created`, `ok`, `conflict`,
  ...) and the row.  The counts in an answer are left out.
- *History.*  `handler[p].seen` is the set of rounds some of whose evidence could
  be read (`GET /v1/evidence`) when the request arrived.  Only properties and
  proofs look at it.
- *Left out.*  Validation of a request body (400 before any statement, no state
  changed); the limit of five pooled connections, which delays statements but
  changes none; logging; the rows of evidence claims and cache locations (`EvidenceTables`,
  `BuildPipeline`).
- A definition marked *Variant* is a plausible mistake in the code, used to see
  that a property can fail; it is not part of the specification.  Two
  properties have a second one: with `AnyLocation` for `LocationsToTry`, `IssuedUrlKeepsVariant`
  is violated too, and with `StoresLocationsFirst` for `Stores`, `StoredWhole`.

### RoundManager and the code

Requests of `POST /v1/builds`, the worker, the dispatch task of each node and the
node's handler are the processes.

| Code | Actions |
|---|---|
| `enqueue` (round_manager.rs:124) | `Draw` (the id, without the mutex), `Enter` (takes it and notes the job), `Send` (`try_send`), then `Accept` or `RejectFull` (count, undo, release) |
| `run_worker` (254) | `Recv` (without the mutex), `Start` and `Finish` (its two critical sections) |
| `dispatch` (230), `dispatch_one` (322) | `CallFails` (unreachable, or after an hour), `Panic` (of the task) |
| `run_build` of the node (builder-node/main.rs:63) | `Deliver` (takes the permit, or 409), `BuildEnds` (releases it, then answers) |

`lock` is the mutex.  The worker's critical sections touch nothing but what the
mutex guards and are one step each; those of `enqueue` are split at the channel,
which the worker reads without the mutex.  `abandoned` are the nodes that build a
job whose call the server gave up: it is the nodes' own state, seen from outside.
*Left out*: the channel closed (the worker ends with the process only:
`axum::serve` has no graceful shutdown), validation of the command (400, no state
changed), and what an answer says beyond success.  Job ids are natural numbers,
not u64.

### BuilderSession and the code

A session is a builder with one evidence.  `session[b].pc` is the call it makes
next: `draw` (a nonce), `commit`, `poll` (`wait_while_phase`), `reveal`, `close`
(`wait_until_closed`), `facts` (`list_round`).

| Code | Actions and operators |
|---|---|
| `submit_evidence` (builder-core/lib.rs:57) | `Draw`, `AfterCommit`, `AfterPoll`, `AfterReveal`, `AfterClosePoll`, `FetchFacts`; `NextAttempt` is `continue 'round` |
| the calls of `client.rs`, `send_with_retry` (181) | `Send`, `Receive`, `LoseRequest`, `LoseAnswer` |
| the handlers | those of `RoundStore`, each in a slot |
| a proxy in front of the server | `ArriveLate`: a request its sender has given up reaches the server |

A lost request may have been served, may be served still, or come later; the session sends again or, its
minute over, gives up.  `waiting[b]` ties a session to the handler that serves it,
so that an answer is read by who asked.  *Left out*: the pause
of 250 ms between polls (the interleaving is more general), and bodies that cannot be decoded (they end a session
as a lost connection does).

### OutputConsensus, Gateway and the code

| Code | Actions and operators |
|---|---|
| `select_output_consensus` (store.rs:1010) | `ReadFacts`; per round `FindRound`, `AdvanceRound`, `ReloadRound`, `CountRoundReveals`; then `Select`, with `ApprovedVariants` and `LatestCandidate` |
| other requests meanwhile | `Others`: a step of `RoundLedger`, or a second write of `closed_at` (`CloseAgain`) |
| `approved_narinfo`, narinfo handlers | `AskNarInfo`, `Approve`, `TryNarInfo` per location, `NoneServes` |
| `get_nar`, `head_nar` | `AskNar`, `Approve`, `CheckNarInfo`, `FetchNar` |
| `approved_from_source` (binary_cache.rs:158) | `FromSource` |

The caches of builders are external: one in `Reliable` keeps the variant `HeldBy(b)`;
any other answers each request as it likes, also with a narinfo of the right
variant whose URL leads to another origin.  A builder has one cache location
here (in `BuildPipeline` a list of them), and a commitment stands for the evidence it opens to.  `before`,
`rewritten`, `agreed` and `request.checked` (the variant of the narinfo that was compared just before
the NAR is fetched) are history and read by properties only.  A URL that a client made
up is not followed: it starts a lookup like any other.

### BuildPipeline and the code

| Code | Actions and operators |
|---|---|
| `BuildCommand::validate` (shared/build.rs), `generate_evidence` (builder-core/build.rs) | `AcceptCommand`, `ResolveTheSource`, `FindDerivation`, `InitialBuild`, `Rebuild`, `QueryOutputs`, `NixFails`, `Compose` |
| `build/nix.rs` | `ResolveSource`, `TakeOnlyEntry`, `ParseBuildOutputs`, `CollectOutputInfo` |
| `build/evidence.rs` | `ComposeEvidence` and below |
| `Evidence::validate` (shared/evidence.rs) | `Valid` and below |
| `insert_evidence`, `hydrate`, `list`, `list_round` (store.rs) | `InsertEvidence`, `Hydrate`, `ListOf`, `RoundFacts` |
| the cache locations that `reveal` inserts after the evidence (store.rs:603) | `Stores`, `CacheLocationRows`, `AllNormalize`, `Normalized` |
| what `commit` and `reveal` ask of an evidence | `CommitEvidence`, `RevealEvidence`, `Verdict`, `Normalizes` (cache_location.rs) |
| `calculate_trust` (cli/trust.rs) | `CalculateTrust`, `ScoreFacts` |

nix is external: each call may fail or give any of a set of answers, well-formed or
not.  A text is one of a few values: blank, too long, with white space in it, or an
ordinary one.  The tables are sets of rows; a row that the code reads by
position is sorted here, too.  Who may commit and reveal *when* is left to
`RoundStore`: here a round is one whose reveal phase lasts.

### Properties

Of the rounds:

| Property | What it says |
|---|---|
| `TypeOK` | types; a round that reveals has the deadline that `advance_round` would otherwise fail on for ever |
| `OneOpenRound` | a path has at most one round that is not closed |
| `SealedUntilReveal` | nothing of a round can be read while it is committing |
| `NoPeeking` | a digest about to be committed was sent before anything of its round could be read, even when the round has gone on since the handler looked |
| `EvidenceMatchesCommitment` | stored evidence and revealed commitments are in bijection, and the evidence opens the digest |
| `ReceiptBacked` | when a builder is told of success, its digest is in the round of the receipt, its evidence stored |
| `ImplementsLedger` | `RoundStore` implements `RoundLedger` under the mapping `LedgerRound` |
| `OpenRoundCloses` | a round that exists closes |
| `CommitPhaseCloses`, `RevealPhaseCloses` | what help texts of the server say and the code does not do: see *Findings* |

Of the builders' sessions:

| Property | What it says |
|---|---|
| `SessionTypeOK` | types; a session that is in a round knows which; the answer it reads is to the call it made |
| `DoneIsBacked` | a session that ends well: its round has closed, its evidence is stored there under the nonce it drew last and is among the facts it returns, all of that round |
| `OneRoundPerBuild` | a build counts in one round, unless a connection or a handler failed |
| `LeavesRound` | a session that has joined a round ends, or leaves it for another |
| `RevealedNonceNotReused` | what a comment says and the code does not do: see *Findings* |

Of lookups and the gateway:

| Property | What it says |
|---|---|
| `TypeOK` | types; a round has a `closed_at` exactly when it has closed; the lookup reads rows that exist |
| `ApprovedIsBacked` | what is approved was revealed by enough distinct builders in one closed round, the one asked for, and its locations are theirs |
| `LatestWins` | a round that had closed with enough reveals before the lookup began is not passed over for an earlier one |
| `QuietAnswerIsRight` | when nothing moves during a lookup, its answer is the one a declarative definition (`ShouldApprove`) gives |
| `ApprovedHadTheLead` | what a test expects and the code does not do under a race: see *Findings* |
| `GoodLocationServes` | a location that has what is approved is not hidden by others that fail |
| `IssuedUrlKeepsVariant` | an issued URL is followed only if the narinfo that the location serves just before is of the variant the URL was issued for, and is refused otherwise; the bytes of the NAR are streamed unread, so nothing is said of them |
| `IssuedUrlStaysValid` | an issued URL works as long as nothing more is revealed in its own round, whatever closes later |

Of a build:

| Property | What it says |
|---|---|
| `StoredWhole` | an evidence has all of its rows or none, those of its cache locations included, also after a reveal that failed half-way; an accepted one has all the locations that were sent, in order |
| `ReadBackOpensDigest` | what is read back is what was committed to, in order, and both lists agree |
| `CommittedIsAccepted` | whatever nix answered in texts that fit the fields of an evidence (`AnswersFit`), what a builder commits to is accepted at its reveal; the three exceptions are named: a clock set back, a size beyond 63 bits, a bad `--cache-location` |
| `TrustFollowsEvidence` | a builder that agrees never lowers the score, one that disagrees never raises it nor makes another output set the consensus |

Of the build queue:

| Property | What it says |
|---|---|
| `TypeOK` | types, and the channel within its capacity |
| `SnapshotAgrees` | whenever somebody gets the mutex, the metrics show each accepted job as queued, then active, then completed, and none that was refused |
| `NodeCountsAddUp` | dispatches of a node = succeeded + failed + active, also with panics, which are all counted under `<internal>` |
| `FreeUnlessAbandoned` | a job finds the node free unless the node builds one that the server gave up |
| `QueuedJobsComplete` | a job in the channel completes |

`RoundLedger` has one variable, a sequence of rounds with a phase, the digest
and the evidence of each builder, and five actions: `Open` a round of a path that has
no open one, `Join` once per builder, `Begin` to reveal, `Publish` once what
the digest opens to, `Close`.  It deliberately allows `Join` after `Begin` and
`Publish` after `Close`, which the code does.

## Runs

The cfg of a run *x* of module `MC`*M* is *M*`_`*x*`.cfg`.  Deadlock is checked in the runs of
rounds, lookups and the gateway.  It is not in `queue`, `session`, `nonce_reuse` and
`build`, where the system rests when all jobs, sessions or
builds are done.

| Run | Instance | Shows |
|---|---|---|
| `ledger` | `MCRoundStore`: 3 builders of which one never reveals, threshold 2, 1 failure (670 000 states) | `SealedUntilReveal`, `NoPeeking`, `EvidenceMatchesCommitment`, `ImplementsLedger` |
| `mixed` | 1 builder with 2 nonces and 2 paths, wrong reveals, polls, threshold 1 (1.1 million) | `TypeOK`, `OneOpenRound`, `ReceiptBacked` |
| `closing` | 2 builders of which one never reveals, threshold 2, 1 failure, `FairSpec` (355 000) | `OpenRoundCloses` |
| `late_commit`, `late_reveal` | 2 builders, threshold 1, 2 rounds | two findings |
| `session` | `MCBuilderSession`: 2 sessions over 2 slots, 2 nonces each, 2 rounds, 1 lost connection, `FairSession` (194 000) | `SessionTypeOK`, `DoneIsBacked`, `OneRoundPerBuild`, `LeavesRound` |
| `nonce_reuse` | the same instance, `SessionSpec` | a finding |
| `lookup` | `MCOutputConsensus`: 3 builders, 2 variants, threshold 2, 2 rounds, 4 commitments, 1 step of others during a lookup (798 000) | `ApprovedIsBacked`, `LatestWins`, `QuietAnswerIsRight` |
| `tie` | 2 builders, threshold 1, 2 steps of others | a finding |
| `serve` | `MCGateway`: 3 builders of which one is reliable, 2 variants, threshold 1, 2 rounds, 3 commitments, one value of `closed_at` (478 000) | `TypeOK`, `QuietAnswerIsRight`, `GoodLocationServes`, `IssuedUrlKeepsVariant`, `IssuedUrlStaysValid` |
| `build` | `MCBuildPipeline`: 3 other builders, the answers of nix in `MCBuildPipeline` (169 000) | `StoredWhole`, `ReadBackOpensDigest`, `CommittedIsAccepted`, `TrustFollowsEvidence` |
| `queue` | `MCRoundManager`: 2 requests at a time, 2 nodes, capacity 1, 3 jobs, 1 panic, `FairSpec` (105 000) | all properties of the queue |

*Bounds of the rounds and why they are enough.*  Two handlers: every race of the store is
between the stale copy of one handler and the writes of others, which a second
handler can do one request after the other.  Thresholds 1 and
2: a round that one commitment fills and one that needs two.  The third builder
of `ledger` is needed: only in a full round in which some, but not all, have
revealed is there something to peek at for a builder who has not committed.
Two rounds: a digest, a copy and a reveal of an earlier round meet a later one.
Windows of one tick and a clock up to 2: both deadlines of a
round pass, and a handler may be older than them (in `mixed`, whose properties are not
about expiry, the clock goes to 1).  `LastCommit = 0` keeps
commitments from arriving after the clock has moved; a handler may be served
later.  With `MaxRounds = 1` (`closing`) commitments arrive only while there is no
round, one per slot and more after a failure.  `MaxRounds`, `LastCommit`, `MaxClock` and `MaxFailures` occur in the
guards of `Arrive`, `Tick` and `Fail` only.  Where the
requests of an instance do not tell the handlers apart, handlers are symmetric;
the liveness runs use no symmetry.

*Bounds of the sessions.*  Two builders: one waits for, loses to or is joined by the other; a
builder may also have no session at all (its build failed), so that rounds expire.
With `MaxNonces = 2` and two rounds a session loses a round
and takes part in the next.  One connection fails (`MaxLosses`), only of
builder `b1` (`Unlucky`; the two are alike) and only while one session is under way
(`MaxBusy = 1`): the lost delivery then races with its own retry, in a slot each, which is all that
two slots can hold.  No handler fails in these runs (`MaxFailures = 0`): `LoseAnswer` is what a
session sees of that.

*Bounds of lookups and the gateway.*  Two variants and three builders: a lead, a
tie, and a lead that changes hands.  Two rounds: the last decides, or the one
asked for.  In `lookup` and `tie` there are two values of `closed_at`: rounds that
close in either order, at once, or again.  `serve` has one, and threshold 1: its
two rounds close at once and the key decides, and what depends on the order of
closing and on a threshold is left to `lookup`.  `QuietAnswerIsRight` is checked in both:
three builders and threshold 2 have no tie that is large enough, threshold 1 has.
`MaxMoves` is the number of steps of others during one
lookup: one is enough for a statement to read what the one before did not (two
for `tie`: the vote that ties, and the closing); between lookups others move
freely.  `Claims` has evidences of one output under the hash: `HeldBy` and
`IssuedUrlKeepsVariant` make no sense otherwise, and a build whose two outputs share a
store hash is not one that nix makes.

*Bounds of the build.*  The answers of nix are chosen so that each check of the code is met and
missed: no, one and two derivations or results; one output, two, two of one
path, none; infos that fit, are missing or too many; sizes on both sides of
`MaxInteger`, which stands for 2^63 - 1; two lists of two cache locations, with
and without the slash at the end, one with a location that a reveal may not have behind a good one.  Three other builders agree, differ or
tie.

*Bounds of the queue.*  Of three jobs the worker holds one, the channel another, and
the third is refused; two requests contend for the mutex and
may send in the other order than they drew their ids; two nodes end in either
order; one panic leaves its mark on later dispatches.  `MaxJobs` and `MaxPanics`
occur in the guards of `Draw` and `Panic` only.

*Fairness of the rounds* (`FairSpec`).  Time passes (`WF` of `Tick`); the runtime polls every
task, so a handler at a statement executes it (`WF` of `Step(p)`, per handler;
it may also fail, at most `MaxFailures` times); and a scrape keeps arriving (`SF` of its arrival):
Prometheus scrapes every 15 s (`monitoring/prometheus.yaml`) and the server bounds
neither its connections nor its tasks, so that other requests cannot keep the
scrape out; slots are an artefact of the model, hence `SF`.  No fairness is
assumed of builders.  Without the scrape (or a poll) the property is false, as
the code has no timer: a deployment without monitoring leaves rounds open until
somebody polls.

*Fairness of the queue* (`FairSpec`).  A request that holds the mutex goes on
(`WF` of `Enqueue(c)`: there is no await in `enqueue`); the worker receives (`WF`) and
gets the mutex if it is free again and again (`SF` of `Start` and `Finish`: a held mutex is
released within a few instructions); and every call ends, at the latest after the
hour of `BUILDER_REQUEST_TIMEOUT` (`WF` of `CallFails`).  No fairness is assumed of
nodes, nor of new requests.

*Fairness of the sessions* (`FairSession`).  Time passes; a handler at a statement
executes it, and its slot is freed when nobody waits for it; and a session goes on (`SF` of `SessionStep(b)`).  It is
strong fairness because a call needs a free slot: slots stand for tasks, of
which the server has as many as there are calls.  No scrape is assumed:
the session's own polls advance its round.  `LeavesRound` holds per round; nothing bounds the
rounds a session takes, and `MaxNonces` makes it stop drawing, which is
why it is stated as leaving a round and not as ending.

## Findings

Each is a run that ends with a counterexample to what the repository says.

- `late_commit`: `commit` inserts on a copy of the row read earlier, so a
  commitment can enter a round that another one has just filled
  (store.rs:411-427; `cli.rs:21` "Distinct commitments that close the commit phase").
  `NoPeeking` still holds: the latecomer has seen nothing.
- `late_reveal`: `reveal` does not look at the round inside its transaction, so
  evidence is stored in a round that has expired meanwhile (store.rs:565-628; `cli.rs:29`
  "Maximum seconds to accept reveals in a round").
- `nonce_reuse`: a session whose connection fails commits again; the first delivery, served late
  next to the second, misses its row in the look-up of the digest and then commits the digest, whose nonce is
  revealed by then, in the next round (store.rs:308-427, client.rs:181; `builder-core/src/lib.rs:65` "A new
  nonce is required for every round").
- `tie`: a lookup reads the outputs first and the rounds afterwards.  Of a round that was revealing at the first
  statement and closed at the next it approves the variant that led at first, although the round, when it
  closed, had tied it (store.rs:1015; the test at `api.rs:1221`,
  `cache_hides_tied_variants_and_missing_upstream_entries`, and the log at store.rs:1136).
  `ApprovedIsBacked` still holds, and the next lookup answers 404.

## Proofs

Every safety property that a run checks is a theorem for all values of the
constants: any number of builders, handlers, rounds, jobs, nodes and answers,
whatever the windows and thresholds, and without regard to the bounds that TLC
needs.  They rest on the named assumptions of the modules, which TLC evaluates in
the runs, and on the hypotheses stated with the theorem:

| Assumption | Why the code justifies it |
|---|---|
| `ConstantsAssumption` (of the rounds, of the queue), `ConsensusAssumption`, `GatewayAssumption`, `SessionAssumption` | thresholds, windows and capacities are checked at start-up (`server/src/main.rs:32-45`) or are unsigned; `Reliable` and `Unlucky` pick some builders, and the bounds are numbers |
| `RequestsAssumption` | the shape of decoded requests |
| `NoneAssumption` | `None` is no row, builder, handler or job: it stands for SQL's `NULL` and Rust's `None` |
| `AnswersAssumption` | what deserialisation ensures of the answers of nix and of the evidences of others: finite maps, times, digests of 64 digits |
| `SessionsMayCall` (hypothesis) | the server decodes every request that a session can make; the sets of requests of `RoundStore` are parameters, and those of the TLC instance stop at `MaxRounds` |
| `IsFiniteSet(Builders)` (hypothesis) | a builder id is a text of at most 128 bytes (`shared/src/evidence.rs:67`) |
| `AnswersFit` (hypothesis of `CommittedAccepted`) | see *Builds* |
| one variant per hash (hypothesis of `UrlKeepsVariant`) | a store hash is of one output of one build |

| Theorem | Property | Module |
|---|---|---|
| `TypeCorrect`, `Sealed`, `Blind` | `TypeOK`, `SealedUntilReveal`, `NoPeeking` | `RoundStoreProofs` |
| `OneOpenPerPath`, `EvidenceMatches`, `ReceiptsAreBacked` | `OneOpenRound`, `EvidenceMatchesCommitment`, `ReceiptBacked` | `RoundTablesProofs` |
| `ImplementsRoundLedger` | `ImplementsLedger` | `RoundLedgerProofs` |
| `SessionTypes`, `DoneSessionsBacked`, `OneRoundCounts`; `SessionsUseStore` | `SessionTypeOK`, `DoneIsBacked`, `OneRoundPerBuild`; `SessionSpec => Spec` | `BuilderSessionProofs` |
| `Backed`, `LatestRoundWins`, `QuietLookups`; `LookupsKeepLedger` | `ApprovedIsBacked`, `LatestWins`, `QuietAnswerIsRight`; `ConsensusSpec => Rounds!Spec` | `OutputConsensusProofs` |
| `TypeCorrect`, `GoodServes`, `UrlKeepsVariant`, `UrlStaysValid`; `GatewayLooksUp` | `TypeOK`, `GoodLocationServes`, `IssuedUrlKeepsVariant`, `IssuedUrlStaysValid`; `Spec => ConsensusSpec` | `GatewayProofs` |
| `WholeEvidences`, `ReadBackIsDigest`, `CommittedAccepted`, `TrustFollowsFacts` | `StoredWhole`, `ReadBackOpensDigest`, `CommittedIsAccepted`, `TrustFollowsEvidence` | `BuildPipelineProofs` |
| `ManagerTypes`, `SnapshotsAgree`, `NodeCountsHold`, `NodesAreFree` | `TypeOK`, `SnapshotAgrees`, `NodeCountsAddUp`, `FreeUnlessAbandoned` | `RoundManagerProofs` |

None of these properties but the types is inductive; each module has an inductive
invariant, with a lemma per action.

### Rounds

`RoundStoreProofs`: what a handler writes depends on a copy that it read any
number of steps ago.  `IInv` says for each handler how its copies relate to the
tables.  The argument has two halves:

1. *A copy is never ahead of the table* (`Copy`): if a copy says that the round
   reveals, so does the table, since `reveal_started_at` is never unset
   (`Grown`).  So evidence stored on a copy that reveals is of a round that reveals:
   `Sealed`.
2. *A copy is younger than the request.*  A round in `seen` was revealing when the
   request arrived, so a copy read later says so.  A copy that says
   "committing" is therefore of a round that is not in `seen`: `Blind`.

`PcOK` adds what each statement relies on (the request is a commit request, the
row is there, the row reveals).  There is a lemma per action, over
lemmas on local states (`ReplyOK`, `ResumeOpenOK`, `CallAdvanceOK`, ...), on the
growing table (`UpdateRow`, `NewRow`) and on steps that only read (`ReadStepOK`).

`RoundTablesProofs`: a statement changes the tables in one of five ways (`Opens`,
`Joins`, `Begins`, `Closes`, `Publishes`; `Writes`).  `LInv` is what the
unique indexes and the transaction of `reveal` keep of the tables (`TablesOK`), and
what a handler on the way to a success holds of its own request (`Holding`): the
round it decided on is of its path, its digest is committed there, the evidence is
stored.  None of the five changes takes any of that back, so it holds when the answer is
sent, although the phase that the handler read may have gone by: that is `ReceiptBacked`.

`RoundLedgerProofs`: under the mapping `LedgerRound` each of the five changes is a step of
`RoundLedger`, or a stutter where a round begins or closes for the second time.
The functions from builders that the ledger has are determined by the rows because a
builder commits once in a round.

### Sessions

`BuilderSessionProofs` first shows that a step of the composition is a step of
`RoundStore` (`StoreStep`), so that `IInv` and `LInv` hold with these clients,
late deliveries included, and what a handler answers is true.  `SInv` is what a session
knows: no two sessions wait for one slot (`WaitingOK`); the handler it waits
for serves its own call; and of its round, that it exists, that
the evidence is stored, that it has closed, as far as it has got (`SessionOK`).  These only become more true:
`DoneIsBacked`.  For `OneRoundPerBuild`: as long as nothing has failed, each
request in the server is one that a session waits for (`Unfailing`), so
evidence is stored only while its builder waits for the reveal, which then answers 201,
and the session stays in that round (`Settles`).

### Lookups

The properties are about five reads of different moments.  For `ApprovedIsBacked`: what
a lookup has read only becomes more true.  A round that has closed
stays closed and what was published in it is never taken back (`Grown`, shown once
for every step of the tables: `OpenStep`, `RoundStep`, `CloseStep`, `CloseAgainStep`), so
each part of `LookupOK`, true when it was read, is still true when the lookup
answers (`LookupInvKept`).  `IInv` adds to the types what each `pc` relies on: the round it is at was
asked for, has closed since `reload`, and has a `closed_at` when it is counted.

What a lookup must not *miss* needs the converse, and `HInv` has it through the
history variables.  A round that was eligible when the lookup began and
has not been closed anew (`Known`) is still to be looked at, is being looked at, or is beaten by
the latest candidate (`RememberedOK`, `FoundOK`): `LatestWins`.  And as long as nobody else moves, what it
has found is all there is (`Exact`), or it has closed a round itself
(`ClosedSince`): `QuietAnswerIsRight`.  The number of builders of a round grows with the set only
if it is finite, hence the hypothesis.  `ApprovedHadTheLead` is false.

`LookupsKeepLedger`: a lookup calls `advance_round` and so closes rounds itself.  With these writes the rounds are still
those of `RoundLedger`, which `RoundStore` implements: this is what joins the two halves of the
composition.  A second write of `closed_at` is a stutter of the ledger.

### Gateway

`GatewayLooksUp`: `Spec` implements `ConsensusSpec`, so the lookups behind the gateway are those of
`OutputConsensus`.  The theorems follow from `GInv`: `RequestOK` says how a
request relates to the answer of its lookup (every good location is still to be tried; the location
of a NAR request has voted for what is approved, and what it served just before was of that variant), `UrlOK` that an issued URL is of a variant that its
location has published in its round, which no later step undoes.  `UrlKeepsVariant` assumes that
no claim has two variants under one hash.  `UrlStaysValid` needs more, `UInv`: an issued URL was once
approved from the votes of its round (`UrlStands`), and while those are what they were, a lookup that is asked for that
round, and nothing else, finds it eligible and answers with that variant (`UrlHistoryOK`, over `HistoryInv`).

### Builds

`PInv` has three parts.  *Tables* (`TablesOK`, `Stored`): keys are given out in order, so an
insertion adds rows that no earlier evidence has, and the rows under a key are the
ones it was inserted with.  A list that is read by position is sorted: that sorting the rows of a list gives
the list is shown of `SortedBy` by counting the elements below one (`Below`), not by induction.
*Commitments*: a builder commits to one evidence, and one that is revealed is valid
and stored.  *Work* (`WorkOK`): what a build has got at each stage has the shape that the next
stage takes apart.  `WholeEvidences` adds `LocInv` for the rows of cache locations: a reveal gives them a
key that no evidence has yet (`LocationsAdded`), so those of earlier ones stay as they were.

`CommittedAccepted` adds `FitInv`: each conjunct of `Evidence::validate` was ensured by a
check at some stage (`WorkFits`).  It is proved where `AnswersFit`: `execute_build` never asks how
long the texts of nix are, which `validate` does at the reveal.  Without the hypothesis the property
is false, and with a `TooLong` URL among the answers TLC finds the counterexample: a source whose
resolved URL has more than 4096 bytes is committed to and then refused.  Store paths, names of outputs and
digests are far shorter than that.

`TrustFollowsFacts`: an evidence is a vote of a builder, and a builder votes once
(`BuildersDiffer`).  What one more vote does to the leaders and to the score is
arithmetic with division: `ScoreRises` and `ScoreFalls` show it for all numbers of votes.

`WithRequiredBuild` is written without a fold over the requested kinds, of which there
are two: what a fold computes cannot be proved here.

### Build queue

Between two steps of whoever holds the mutex, nobody else touches the metrics.  So `MInv` states what
they show relative to the holder's progress (`CountsOK`: what it has noted too
early or not counted yet), and `SnapshotAgrees` is what remains when nobody holds
it.  A job is in one place (`JobsOK`): with its client, in the channel, or with the worker.
Calls are open only while the worker dispatches, and a node that holds its
permit serves the call or was given up (`CallsOK`, `NodesOK`): `FreeUnlessAbandoned`.

### Model-checked only

`OpenRoundCloses`, `LeavesRound` and `QueuedJobsComplete` are liveness properties under fairness: TLAPS
has no `ENABLED`, and so no fairness.  The four findings are counterexamples, which only a run can give.

## Not modelled

- *Metrics*: the export of counters and tables in Prometheus' format, and the HTTP
  counters, which nothing reads back.  That a scrape advances the rounds is in
  `RoundStore`; the queue's metrics are in `RoundManager`.
- *Schema and start-up*: the unique indexes are in `RoundStore`; the rejection of
  legacy schemas, pragmas, parsing of arguments and binding of sockets are left
  out.  The checks on thresholds and windows are `ConstantsAssumption`.
- *Command line*: parsing, sending the build command, and the layout of the summary.
- *Builder node*: the mapping of build errors to statuses.
- *Nix builds*: the argument lists of nix and the capture of its output streams, and the
  digests of SBOMs and test results, which no builder sets.
- *Encodings*: JSON, hex, base64 and the text of a narinfo; SHA-256 is taken to be
  free of collisions.
- Several cache locations of one builder in the gateway (their rows are in
  `BuildPipeline`), and the limit of five pooled database connections.

## Plan

All safety properties of the runs are proved.  What is left:

1. action properties: which step may change what (a row that has closed, a digest
   that was committed), from the five changes of `RoundTablesProofs`;
2. the hazards of `PROJECT.json` that no property covers: the two
   counts of `advance_round`, the order of ids and queue, the number of rounds a
   build takes, and texts of nix that do not fit.
