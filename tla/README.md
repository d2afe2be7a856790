# TLA+ models of the Verifiable Reality Layer

The repository computes import landed costs, proves each calculation, stores the
evidence in PostgreSQL next to a hash-chained audit log, and serves all of it
over HTTP. These modules model the parts in which concurrency, failure or
ordering decide whether the result is right, check them with TLC on small
instances, and prove their safety properties with TLAPS for every instance.

## Inventory

| Component | State | Operations | What makes it correct |
|---|---|---|---|
| Evidence service `app/services/evidence_service.py` | none of its own; locals of each call across awaits | `calculate_and_persist`, `verify_persisted`, `_log_failure_event` | one evidence record and one persisted event per input, honest answers, no stuck call |
| Repository and pool `app/db` | tables, advisory locks, pooled connections | transaction enter/exit, lock, four statements, two reads | locks and connections returned on every path |
| Audit chain `core/audit_chain.py` | rows of `audit_log` | build, verify | every chain links from the zero hash in id order |
| Chain checkpoints `core/chain_checkpoint.py` | stored checkpoints | build, verify with checkpoints | agrees with the full verification where it should |
| Chain metrics `core/chain_metrics.py` | counters per chain | record, snapshot | outcomes add up to requests |
| Proof queue `backend/proof_queue.py` | event list, JSONL file, executor queue | `submit`, `_run_task` | replays deduplicated, jobs settle, file mirrors list |
| Key lifecycle `zk/keys/lifecycle.py` | `_prev_hash`, JSONL file | generation, rotation | the file is one hash chain |
| HTTP API `api`, `app/main.py` | rate limiter, queue guard, API keys, runtime thread | routes, start, stop | bounded load, counters returned, status codes that match outcomes |
| Coordinator `coordinator`, `agents`, `memory` | DAG of tasks, artifact graph, shared memory files | `run_cycle`, `_execute_dag`, `flush` | every task runs, fails or is reported blocked; the memory files keep their history |
| Engine, offline verifier `core/engine.py`, `core/verifier.py` | none | pure functions | determinism, verifier agrees with engine |
| ZK pipeline `zk`, `backend/zk_pipeline.py`, Rust backend, TEE | key files | compile, prove, verify | cryptography |
| Bundle builders and verifiers `verifier`, `sdk` | fields of the fluent builders, published documents | setters, `build`, ten-step verification | what is built verifies, damage is found, implementations agree |
| Dataset export, registry look-up, scripts, UI | none | reads | - |

How they interact: `/calculate` passes admission (key, rate limit, queue guard)
and awaits `calculate_and_persist`; `/prove` builds a witness and submits it to
the proof queue, whose worker thread calls the prover, which compiles keys and
appends to the key log; `/verify` and the dashboard read the tables the service
writes. A bundle is built with an SDK in one place and verified in another, by
any of the verifiers, after an unknown journey. The event loop interleaves calls at every await, several server
processes share the database, and the queue's worker is a thread.

What is hard: calls that race on one chain or one input; a commit whose
acknowledgement is lost; a process that dies between two statements; timeouts
and retries around a transaction; a pool that runs empty; files written outside
the lock that protects the list they mirror; a chain whose last hash lives in
memory while the chain lives on disk. `PROJECT.json` lists these hazards line by
line.

## Modules

**AuditChain** has `core/audit_chain.py` as operators on a set of rows. A hash
is a free constructor: the hash of a row is the sequence of payloads up to it,
so hashes are equal exactly when the hashed histories are. That is collision
freedom and no more. As in the code `chain_id` is not hashed. The walk of
`_verify_single_chain` becomes the set `Broken` of rows on which one of its two
comparisons fails, and `FirstBroken` is the row the walk stops at.

**EvidenceLedger** is the promise: per chain one append-only history, per input
at most one evidence record, written in one step with its event.

**EvidenceService** is the code. `pc` names the await a call is at; `job` says
whether the call persists or is inside `_log_failure_event`, which runs the same
statements on a transaction of its own.

| State | Code |
|---|---|
| `requests`, `audit_log`, `audit_seq` | committed rows of requests/results/proofs (written by one CTE, hence one set), of `audit_log`, and its id sequence, which a rollback does not take back |
| `chain_lock` | `pg_advisory_xact_lock` per chain, released at the end of the transaction |
| `batch`, `row` | the transaction's uncommitted rows |
| `attempt`, `created_at`, `prev_hash`, `event_type`, `exc` | locals of `calculate_and_persist` |
| `outcome`, `verdict`, `stored`, `chain_read` | what the callers were told and what a reader's two reads returned |
| `pool_free`, `leaked`, `metrics` | the pool and `chain_metrics` |

Phase 1 is one step, since it has no await; it returns or raises. Each statement
is a step, and so are BEGIN, ROLLBACK and the two halves of COMMIT (durable at
the server, known at the client), because either half can fail alone. A fault is
a retryable or other exception at a statement, at COMMIT, at ROLLBACK (replacing
the exception in flight), at BEGIN, a lost acknowledgement, or the death of the
process, which ends its transactions and empties pool and metrics. `utc_now`
cuts to whole seconds, so readings may repeat.
A read takes and returns its connection within one step.

`verify_persisted` makes one answer of two reads, `fetch_by_input_hash` and
`fetch_audit_chain`, with any number of commits between them. Evidence that was
not there at the first read is answered INVALID with `evidence=None`, as in the
code, also when the chain returned beside it already holds its event.
`VerdictCoversEvidence` says what may be relied on: evidence that is found is
never answered INVALID, and a VALID answer rests on rows that include the
bundle's event, any damage to which would have turned the answer. That depends
on the order of the reads; with the chain read first it fails.

**ProofQueue** is `backend/proof_queue.py`: the event loop inside `submit`, the
worker inside `_run_task`, and `_append_event` as two steps, the list under the
lock and the file after it, which may raise. Where the exception goes depends on
the caller, and that is the point of the model. One line is written in one step:
a line torn by a partial write or mixed with another thread's cannot show, and
`MirrorComplete` covers loss, repetition and order only.

**KeyLifecycle** is `zk/keys/lifecycle.py`: the lock makes an append atomic;
`_prev_hash` moves before the write; a restart resets it and keeps the file.

**SharedMemory** has `memory/shared_memory.py` as operators on a memory value
with one field per file: loading, recording, the ranking of entries by cycle and
then time, the decision whether a strategy is blocked.

**Coordinator** is `coordinator/system.py` with the agents, the artifact graph,
the performance scores and the loop of `orchestrator.py`, on the very graph of
`build_initial_tasks`. A cycle is a sequence of rounds; a round is the loop over
the pending tasks in the order of their ids (one step per task it decides on),
the dispatch to the thread pool, one step per agent that returns, in any order,
and the collection of the results. Recording, one step per saved file,
replacement and report follow. Processes crash at any point, also between two
files, and start again at cycle 1 from what is on disk; a file that cannot be
read loads as empty and is overwritten by the next flush, so `HistoryKept` speaks
of readable files only. There is one task, agent and strategy per domain, so the
task's name stands for all three. Of an agent's run the model keeps what the
coordinator reacts to: exception, verdict, duration, violated limit; scores are
integers in units of 0.0001, rounded as the code rounds.

**ChainCheckpoint** extends `EvidenceService` with `core/chain_checkpoint.py` as
operators on the rows it commits. A checkpoint is taken of the segments complete
at some moment and used on the chain of a later one. Nothing calls these
functions yet, so there is no state to keep; the property compares their verdict
with `verify_audit_chain`'s after every commit, for every moment the checkpoints
may have been taken, with one row or one checkpoint damaged. A checkpoint is
damaged in a field under its old hash, in its `checkpoint_hash`, or in a field
with a new hash that agrees with it.

**Admission** is the HTTP layer: `security/rate_limit.py`, `backpressure.py`,
`api_keys.py`, the handlers of `api/routes.py` and `api/runtime.py`. A handler is
cut at its awaits: arrival (key, then limiter), the body (size, syntax, payload
guards, then the guard up to the call of the service), and the service's result
with the `except` clauses. Of the four POST handlers `/prove` has no await inside
the guard and `/verify` takes no guard; the GET handlers behind a key only count.
The evidence service, modelled in its own module, is here a commit that may
happen while the handler waits, and later a return, one of the mapped exceptions
or a cancellation. `RepositoryUnavailableError` (503), a refused payload (400)
and a duplicate (409) come from calls that commit nothing; an error of the
database or a timeout (500) may come before, during or after the commit, since a
lost acknowledgement is no retryable error.

| State | Code |
|---|---|
| `hits`, `guard`, `key` | `RateLimiter._hits`, the counters of `QueueDepthGuard`, an `ApiKeyRecord` |
| `req` | per request: await it is at, endpoint, time of arrival, answer |
| `service`, `keysEnabled` | `app.state.evidence_service`, whether `VRL_API_KEYS` registered a key |
| `snapshot`, `stop_event`, `threads` | `RuntimeController`'s snapshot, event and the threads it created, the last being `_thread` |
| `persisted` | requests whose evidence is committed |

**BundleVerifier** has the ten steps of `verifier/vrl_verify.py`, of
`sdk/python/vrl/verifier.py` with its loaders, and of
`sdk/typescript/src/verifier.ts` with its parser, as operators on a document.
A digest is a tuple tagged with the function that made it. What tells the
implementations apart is kept: Python's `int(value, 16)` accepts a `0x` prefix
and TypeScript's `parseInt` never throws; the canonical JSON of the two
languages differs outside ASCII; `uuid.UUID` raises different exceptions for a
text, a number and null, and the two Python verifiers catch different ones; the
SDK's loaders raise on absent keys (`proof_bytes`, `public_inputs`, a key of a
commitment, the circuit's) that the standalone verifier gives defaults and
TypeScript cannot serialise, and on a missing or unexpected key of the timestamp
block, which the standalone verifier ignores; the
Python verifiers stop at the first failing step, TypeScript goes on after
step 2.

**BundleBuilder** drives it: a caller uses the fluent builders of one SDK in any
order, may build several times, and publishes; the published document is then
damaged field by field. The builders' memory is the point: `build()` keeps the
identifier it computed and hands out its own list of commitments.

`MC*` modules only declare model values and small functions for the constants.

## Runs

| Run | Instance | Shows |
|---|---|---|
| `evidence_contention` | 3 calls on 2 chains, two with one input, 2 attempts, pool of 2, 2 faults; 438157 states | the chains verify at every moment, evidence and event are atomic, rejections follow a persist, snapshots under the lock do not go stale, the unique index is never reached, answers are honest, tables are append-only, the ledger is implemented, how verification with checkpoints of 2 rows compares with the full one |
| `evidence_faults` | 2 calls on one chain, 1 reader, 2 attempts, pool of 2, 3 faults, fairness; 520945 states | connections and locks are accounted for, no call is counted twice, a reader's answer covers its evidence and finds what was acknowledged, every call is answered |
| `proof_queue` | 2 tasks, 1 worker, 3 submissions, 1 failed write, fairness | one job per task, legal histories, only a failed write abandons a job, the file has every line once, jobs settle |
| `coordinator` | the ten tasks in four scenarios: a whole round may fail (2 cycles); one agent misses its limit for 4 cycles; failures on the spine and in the last branch with 2 processes of 2 cycles, crashes and an unreadable file; fairness | inputs of a task always resolve, a failure stops exactly the tasks behind it, a report accounts for every task and follows a complete flush, saved history survives, a blocked strategy stays blocked, every cycle ends |
| `bundles` | 2 SDKs, 5 kinds of caller, 2 traces, 2 datasets, 2 commitments, 2 damages | the Python verifiers give one status wherever the SDK's loader accepts the document, and it refuses a valid one only for named reasons; damage to identifier, circuit or hashes is found, what an acceptance by the TypeScript verifier implies, fields set once give a bundle that verifies and keeps verifying |
| `admission` | 3 requests of one client, limit 2 in a window of 2, 1 place in the guard; servers without a database, with keys, with 2 calls of `/start`; fairness | guard and key counters balance on every path, every window holds at most the limit and no request is refused early, at most one loop thread, only 500 and a lost connection leave open whether evidence was committed, handlers and stopped loops end |
| `chronological` | 2 calls, no fault | violated: chain order is not time order |
| `ts_checks` | 1 TypeScript caller, 2 damages | violated: the TypeScript verifier accepts a bundle that fails the three checks its comments name; the identifier its own builder makes is not the specified UUIDv5 |
| `exit_code` | 1 Python caller with a timestamp block | violated: VALID_PARTIAL exits with 1 |
| `key_log_restart` | 3 events, 1 restart | violated: an untampered key log does not verify after a restart |
| `results_remembered` | failures on the spine | violated: when the graph stalls, no result of the cycle reaches the memory |
| `restart_order` | failures in the last branch, 2 processes | violated: a failure after a restart is outranked by an older success and does not block |

Why the bounds are enough to be interesting. Two calls race on a lock and on an
input; the third works on another chain and draws ids from the same sequence.
Two attempts reach both the retry and the exhausted retry. A pool of two lets
leaks empty it within the three faults. Three faults combine a failure with a
failure of its logging and a crash. Two instants in
`chronological` are enough for timestamps that go back; the other runs of the
service have one, since nothing else they check looks at the time. Three submissions reach a replay, a
resubmission of a failed task and a second task waiting behind the first.
Two cycles let a failure be recorded and then block; two processes let the
second one read what the first left; three misses bring a score under 0.45, and
the fourth cycle shows the replacement at work. The agents outside a scenario's
flaky set succeed, which keeps the scenarios small without changing the graph.
Two faults and the events they leave make a chain of four rows, so that segments
of two rows give two complete segments, a segment and a tail, and checkpoints
older than the chain. In `evidence_faults` the reader and one call share an
input, and three faults may hit calls and reader alike. Three requests with a limit of two reach a
refusal and, at the window's edge, a request admitted again; one place in the
guard makes two handlers compete for it; two starts reach a `/start` that finds
the old thread alive and one that does not. Two damages could
cancel each other (a value and its hash); to change a circuit consistently takes
three fields and a trace four, so with two nothing may pass unseen. A document
without its circuit keys whose circuit hash, integrity and proof hashes agree
again takes more damages than the run allows; the theorem covers it.

The six violated runs state what the documentation says (quoted in
`PROJECT.json`); they describe what the code does and are not repaired in the
models. Smaller disagreements met while modelling, which have no run of their
own:

- `docs/postgresql-forensics-report.md:64-66` says that a failing step is logged
  in a separate audit transaction. An exception in phase 1
  (`evidence_service.py:73-84`), an exception inside `_log_failure_event`, or a
  pool without connections leaves no failure event. `CountedOnce` and
  `AnswersHonest` say what does hold on those paths.
- `api/routes.py:258` calls a pending task "job in flight". After a failed write
  of the event file it may have no job; `AbandonedOnlyUnlogged` says that
  nothing else leads there.
- `/run` has no clause for `HTTPException`, so a server without a database
  answers 500 where `/calculate` and `/prove` answer 503.
- `/start` while the old loop thread has not ended reports started and keeps the
  stop event set, so no loop runs. `RuntimeConsistent` says that this is the only
  way to be started without a loop.
- A row changed under a stored checkpoint that agrees with itself is not looked
  at by `verify_chain_with_checkpoints`; a damaged `checkpoint_hash` makes it
  report an intact chain as INVALID at the end of that segment, where the full
  verification reports VALID; a checkpoint whose `last_current_hash` was changed
  and hashed again is noticed at the next row, or not at all if no row follows
  or the next segment is skipped too. `CheckpointsAgree` says that these are the
  only differences.
- The loaders of the Python SDK refuse documents that the standalone verifier
  reports as VALID or VALID_PARTIAL: a lacking key that no
  step reads, an unknown execution environment, absent circuit keys, absent
  `proof_bytes` or `public_inputs`, an absent key of a commitment, a missing or
  an additional key of the timestamp block. An entry of
  `depends_on` that is a number raises in the SDK's step 10 and not in the
  other's. A null identifier or date fails the SDK's schema step only.
  `PythonVerdictsAgree` says that there is nothing else.
- Beyond what `ts_checks` shows, the TypeScript verifier reports VALID_PARTIAL
  for identifiers without hyphens in `depends_on`, hashes text outside ASCII
  otherwise than Python, and throws where Python hashes a default
  (`TypeScriptGapKnown`).

Mutations: next to the definition they alter, the modules define forms a
plausible mistake would give it (a lock that does not exclude, a latest hash
read over the whole table, a connection not returned). No specification uses
them; replacing a definition by its mutation makes the named property fail.

### Fairness

`EvidenceService!FairSpec` has weak fairness of each call's own steps. The event
loop runs ready coroutines, `statement_timeout` and `command_timeout` end
statements, `lock_timeout` ends the wait for the lock (`LockTimeout`) and the
pool's acquire timeout the wait for a connection (`PoolTimeout`). Faults and the
arrival of calls are not fair. `ProofQueue!FairSpec` has weak fairness of the
submit that runs and of the worker: the prover is a subprocess with a timeout.
`Coordinator!Spec` has weak fairness of the steps inside a cycle: one thread
runs them, and an agent's run is a finite computation without I/O to wait for.
Starting a process or a cycle is not fair.
`Admission!AdmissionSpec` has weak fairness of the end of each call of the
service, which `EventuallyAnswered` justifies, and of the loop's thread. Nothing
is assumed of a client: its body may never come. The clock is monotone; the code
reads wall-clock time, and a clock set back is not modelled.

## Proofs

Every invariant and every action property of a passing run is a theorem, except
`DamageDetected` (proved for two damages, see below) and `CheckpointsAgree`.

### EvidenceService

`AuditChainProofs` proves facts about the operators, among them `AppendRow`: a
row built on the end of its chain with a larger id keeps a log well formed,
extends that chain's hash by one event and touches no other chain.

`EvidenceServiceProofs` proves, for every set of calls, readers and inputs,
every partitioning, pool size, retry limit and number of faults: `TypeOK`,
`LocksScoped`, `ChainsVerify`, `PrevHashCurrent`, `NoUniqueViolation`,
`EvidenceAudited`, the action property `AppendOnly`, and the refinement of
`EvidenceLedger`.

`ChainsVerify` is not inductive. That a commit extends the end of its chain
depends on a hash read several awaits before; that the hash is still the end
depends on the lock; that the lock is still held depends on every error path.
`IInv` adds what is missing: lock ownership (`LocksScoped`), the snapshot still
being the end (`SnapshotCurrent`), one pending row built on it with an id above
the chain's (`PendingRow`), ids in the table below the sequence (`IdsDrawn`), an
event chosen (`EventChosen`), batches that agree with the tables (`BatchAgrees`)
and a well-formed log. Even typing needs it: the hash a call reads is a hash
only if a chain with rows has a last one. `Caught` collects what every path
through the except clauses leaves, `QuietStep` disposes of the steps that touch
neither table nor chain. `CommitFacts` says what one commit does to tables and
chains, and `TableStep` that no other step changes them, from which
append-only, refinement and the audited evidence follow.

`EvidenceAnswersProofs` adds, on top of that invariant, `AnswersHonest`,
`ReadYourWrites`, `RejectionsFollowPersist`, `VerdictCoversEvidence`,
`ConnectionsAccounted` and `CountedOnce`. What a caller will be told is decided
before the acknowledgement reaches it, so `AnswersKnown` speaks of a call whose
commit is done as if it had been answered. `VerdictCoversEvidence` needs that
what a reader keeps from its first read is still in the log at its second, that
the rows read form a well-formed log, and that damage to a row of such a log
breaks it. `ConnectionsAccounted` and
`CountedOnce` count calls; the set of calls need not be finite, but only
finitely many have begun at any moment, which is part of the invariants
(`ConnectionsKnown`, `CountsKnown`).

### ProofQueue

`ProofQueueProofs` proves `TypeOK`, `SingleFlight`, `LegalHistory`,
`AbandonedOnlyUnlogged` and `MirrorComplete` for every set of tasks, every
finite set of workers and any number of submissions and failed writes.
`SingleFlight` is not inductive: a submission is admitted on the strength of the
newest event of its task, so `IInv` says for every step of `submit` and
`_run_task` what the newest event tells of where the job is (`SubmitterKnown`,
`BacklogKnown`, `WorkersKnown`), that there is one job (`OneJob`), that a job
shown as open is held by someone or had its line lost (`HeldOrLost`), and how
often each event is in the list, in the file, lost, or about to be written
(`Mirrored`).

### Coordinator

`CoordinatorProofs` proves `TypeOK`, `ArtifactsTraceable`, `FailuresContained`
and the action properties `ReportsComplete`, `HistoryKept` and `BlockSticks`,
for any number of cycles, processes and unreadable files and any misbehaving
tasks, on the graph of `build_initial_tasks`. `IInv` has six parts:

| Part | What it says | Needed for |
|---|---|---|
| `Control` | ranges of the control state | all |
| `Placed` | each task of a cycle is in exactly one place | the report, the counts |
| `Scanned` | started tasks have completed dependencies and unblocked strategies; the terminal failures are the failed and the blocked tasks; what was passed over waits for something | containment of failures, blocks |
| `Graphed` | the graph is that of the completed tasks | traceability |
| `Counted` | counts and scores are bounded by the cycles recorded | types |
| `Saved` | the memory extends the readable files, keeps their keys and their blocks; what a flush has saved agrees | history, blocks, reports |

No single part is inductive. `_prepare_task` finds its inputs only because the
completed tasks are closed under `depends_on` and the graph is theirs; a block
on disk survives only because the memory blocks it too, so that the task is not
in the results and gets no newer entry, and that depends on the memory being
the one the loop consulted. `FailuresContained` follows along the order of the
graph: at the end of the loop each task has completed, has failed, or stands
behind a failure if that holds of what it waits for (`SettledStep`).
`Ancestors` is a recursive function; `AncestorsUnfold` gives the solution of
its equation explicitly and so justifies unfolding it.

### Admission

`AdmissionProofs` proves `AdmissionTypeOK`, `CountersBalanced`,
`RuntimeConsistent`, `AnswersTellCommit` and `RateWindowExact` for every finite
set of requests and every limit, window and bound. The limiter's list forgets
lazily what left the window, so the list is not the set of admitted requests;
`WindowKnown` says that from every instant inside the current window on it
counts exactly the admitted ones. `Balanced` ties guard and key to the
handlers' positions, `LoopsKnown` the threads to the stop event, and
`AnswersKnown` answers, commits and snapshot to one another at every point
between the call of the service and the answer.

### Bundles

`BundleProofs` proves `PythonVerdictsAgree` and `TypeScriptGapKnown` from facts
about documents: the verdicts of two verifiers are compared step by step for
every document of the shapes that builders and damage can give it (`Shaped`,
which is also `BundleTypeOK`), for any number of damages. A step of one verifier
passes exactly when the other's does once the loader has accepted the document
and nothing is null, so the statuses are equal; a raising SDK whose standalone
counterpart passes all hard steps leaves one of the loader's own conditions.
`WriteOnceVerifies` needs `Once`, which relates
the computation builder, the bundle builder, the bundle and the values each
derived field was computed from, for callers that set no field twice.
`DamageDetected` is proved for up to two damages: `FewChanged` bounds the
changed fields by the damages, and two valid documents that differ in
computation or identifier differ in at least three of the fields that digests
bind together. Three damages that agree with each other are another bundle, so
two is the most that can be claimed.

### Assumptions and limits

The assumptions are those of the constants: chains are `0 .. n-1` with `n > 0`,
inputs map to chains, at least one attempt, at least one connection, natural
bounds, `NoOne` is not a call; the queue's workers are finite and `None` is no
task; the requests of `Admission` are finite, none is the `None` of the
dashboard, and a workload is a set of them with its settings; the scenarios of `Coordinator` name tasks and known faults and have at least one
cycle and one process; the list of commitments may hold at least one, and the
`depends_on` lists of `BundleBuilder` are lists of the five kinds of entries.

`SetFacts` holds what several proofs share about finite sets. Where an argument
is by induction over numbers, the least element of a set of naturals takes its
place, obtained from the well-founded strict inclusion of finite sets.

Only model-checked: liveness (`EventuallyAnswered`, `EventuallySettled`,
`CycleEnds`, `AdmissionProgress`), which is outside the prover's reach, and
`CheckpointsAgree`, whose records are a sorted sequence chosen from a set of
rows, an object defined by recursion over the data.

## Not modelled

Landed-cost arithmetic, canonical JSON and hashing beyond what tells the SDKs
apart (pure conversions); circuits, witnesses, Halo2 and attestation
(cryptography); payload guards (patterns on strings, seen by `Admission` as a
malformed body); scripts, UI and registry look-up (front ends over files). The
Go SDK repeats the verification once more but does not compile as it stands
(imports it does not use), so it has no behaviour; the `.js` files beside
the TypeScript sources are built from them. In the modelled files: the pool's start-up retries,
lock wait measurements, hotspots, row conversion, the queue's snapshot and
shutdown, the memory's preferred patterns, the contents of the coordinator's
report, `issued_at` and `trust_context` of a bundle (no step looks at their
values), the `*_from_dict` variants of the builder's setters, and the read-only
GET handlers.

## Plan

1. Proofs: `CheckpointsAgree` for chains of at most a given length, or for
   records given as a sequence; the exact limit of the key log (it verifies as
   long as no process restarts and no write fails).
2. `ProofQueue`: restarts of the process, and the prover's key log behind it.
3. The dataset export's filter over stored bundles as an operator.
