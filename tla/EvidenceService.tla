-------------------------- MODULE EvidenceService --------------------------
(***************************************************************************)
(* EvidenceService.calculate_and_persist and verify_persisted              *)
(* (app/services/evidence_service.py) over the PostgreSQL repository       *)
(* (app/db/repository.py): concurrent calls, each a sequence of awaits on  *)
(* a pooled connection, that advance the partitioned audit chain under a   *)
(* transaction-scoped advisory lock per chain.                             *)
(*                                                                         *)
(* Every await is a step of its own, so the calls interleave at exactly    *)
(* the points where the event loop (or another server process) may switch. *)
(* The database is read committed: a statement sees the committed rows.    *)
(* COMMIT is two steps, the server making the transaction durable and the  *)
(* client learning of it, because either may fail without the other.       *)
(***************************************************************************)
EXTENDS AuditChain

CONSTANTS
    Requests,                 \* calls of calculate_and_persist
    Readers,                  \* calls of verify_persisted
    InputOf,                  \* the input each call carries
    MAX_TRANSACTION_RETRIES,  \* 5 in the code
    PoolSize,                 \* max_size of the connection pool
    MaxFaults,                \* bound: database and process faults per behaviour
    NoOne                     \* an advisory lock that is free

ASSUME InputOfAssumption == InputOf \in [Requests \cup Readers -> Inputs]
ASSUME RetryAssumption == MAX_TRANSACTION_RETRIES \in Nat \ {0}
ASSUME PoolAssumption == PoolSize \in Nat \ {0}
ASSUME FaultAssumption == MaxFaults \in Nat
ASSUME NoOneAssumption == NoOne \notin Requests

VARIABLES
    \* the database
    requests,     \* inputs with committed requests, results and proofs rows
    audit_log,    \* committed rows of audit_log
    audit_seq,    \* next value of audit_log's id sequence, never rolled back
    chain_lock,   \* chain -> the call whose transaction holds its lock
    \* each call of calculate_and_persist
    pc,           \* the await the call is at
    job,          \* "persist", or "log" inside _log_failure_event
    attempt,      \* attempt of the retry loop
    created_at,   \* the instant taken by utc_now()
    prev_hash,    \* hash fetched under the lock
    event_type,   \* the audit event this transaction writes
    batch,        \* uncommitted requests, results and proofs rows
    row,          \* uncommitted audit_log rows
    exc,          \* the exception the transaction block is left with
    outcome,      \* what the caller was told
    \* each call of verify_persisted
    verdict,      \* its progress and its answer
    stored,       \* audit event of the bundle fetch_by_input_hash returned
    chain_read,   \* rows fetch_audit_chain returned
    \* the server process
    pool_free,    \* idle connections
    leaked,       \* connections acquired and never released
    metrics,      \* chain_metrics: chain -> counters
    \* the environment
    clock,        \* the wall clock
    faults        \* faults so far

db      == <<requests, audit_log, audit_seq>>
local   == <<created_at, prev_hash, event_type, batch, row, exc>>
reading == <<verdict, stored, chain_read>>
process == <<pool_free, leaked, metrics>>
vars == <<db, chain_lock, pc, job, attempt, local, outcome, reading, process,
          clock, faults>>

Critical  == {"fetch", "check", "batch", "audit", "commit"} \* lock held
InTxn     == {"lock"} \cup Critical                \* a statement may fail
Connected == {"begin", "ack", "rollback"} \cup InTxn
Active    == {"pool"} \cup Connected
Final     == {"done", "crashed"}

ChainId(p) == chain_id_for_input(InputOf[p])

Counters == {"requests", "successes", "duplicates", "errors"}

EventOf(p) == [event_type |-> event_type[p], reference_id |-> InputOf[p],
               created_at |-> created_at[p]]

-----------------------------------------------------------------------------
Init ==
    /\ requests = {}
    /\ audit_log = {}
    /\ audit_seq = 1
    /\ chain_lock = [c \in Chains |-> NoOne]
    /\ pc = [p \in Requests |-> "idle"]
    /\ job = [p \in Requests |-> "persist"]
    /\ attempt = [p \in Requests |-> 1]
    /\ created_at = [p \in Requests |-> 0]
    /\ prev_hash = [p \in Requests |-> ZERO_HASH]
    /\ event_type = [p \in Requests |-> "none"]
    /\ batch = [p \in Requests |-> {}]
    /\ row = [p \in Requests |-> {}]
    /\ exc = [p \in Requests |-> "none"]
    /\ outcome = [p \in Requests |-> "none"]
    /\ verdict = [v \in Readers |-> "idle"]
    /\ stored = [v \in Readers |-> {}]
    /\ chain_read = [v \in Readers |-> {}]
    /\ pool_free = PoolSize
    /\ leaked = 0
    /\ metrics = [c \in Chains |-> [k \in Counters |-> 0]]
    /\ clock = 0
    /\ faults = 0

-----------------------------------------------------------------------------
(***************************************************************************)
(* Pieces shared by the actions.                                           *)
(***************************************************************************)
Goto(p, label) == pc' = [pc EXCEPT ![p] = label]

Fault == faults < MaxFaults /\ faults' = faults + 1

Count(p, counter) == metrics' = [metrics EXCEPT ![ChainId(p)][counter] = @ + 1]

\* utc_now() cuts the time to whole seconds: the next reading may show the
\* same instant or a later one.
utc_now(p) ==
    /\ created_at' = [created_at EXCEPT ![p] = clock]
    /\ clock' \in {clock, clock + 1} \cap Times

\* The locks left when the transactions of the calls in P have ended.
Unlocked(P) == [c \in Chains |-> IF chain_lock[c] \in P THEN NoOne ELSE chain_lock[c]]

\* Mutation: a session-level lock, which outlives the transaction.
DropTransactionKeepsLock(p) ==
    /\ batch' = [batch EXCEPT ![p] = {}]
    /\ row' = [row EXCEPT ![p] = {}]
    /\ exc' = [exc EXCEPT ![p] = "none"]
    /\ UNCHANGED chain_lock

\* The transaction ended: its uncommitted rows are gone, its lock is free.
DropTransaction(p) ==
    /\ chain_lock' = Unlocked({p})
    /\ batch' = [batch EXCEPT ![p] = {}]
    /\ row' = [row EXCEPT ![p] = {}]
    /\ exc' = [exc EXCEPT ![p] = "none"]

Answer(p, result) ==
    /\ Goto(p, "done")
    /\ outcome' = [outcome EXCEPT ![p] = result]
    /\ UNCHANGED <<job, attempt>>

\* _log_failure_event opens a transaction of its own, with its own timestamp.
StartFailureLog(p) ==
    /\ Goto(p, "pool")
    /\ job' = [job EXCEPT ![p] = "log"]
    /\ utc_now(p)
    /\ UNCHANGED <<attempt, outcome>>

\* Mutation: the last attempt is tested with > instead of =.
ExceptClausesOffByOne(p, kind) ==
    /\ UNCHANGED <<metrics, created_at, clock, job, outcome>>
    /\ attempt' = [attempt EXCEPT ![p] = @ + 1]
    /\ Goto(p, IF attempt[p] > MAX_TRANSACTION_RETRIES THEN "done" ELSE "pool")

\* Mutation: every exception is counted, also one from _log_failure_event.
ExceptClausesCountAll(p, kind) ==
    /\ Count(p, "errors")
    /\ IF job[p] = "log"
       THEN Answer(p, "error") /\ UNCHANGED <<created_at, clock>>
       ELSE StartFailureLog(p)

(***************************************************************************)
(* The except clauses around the transaction block.  An exception inside   *)
(* _log_failure_event leaves calculate_and_persist; a duplicate is         *)
(* re-raised; a retryable one starts the next attempt, or, on the last,    *)
(* logs the failure; any other is counted and logged.                      *)
(***************************************************************************)
ExceptClauses(p, kind) ==
    IF job[p] = "log" \/ kind = "duplicate"
    THEN /\ Answer(p, IF job[p] = "log" THEN "error" ELSE "duplicate")
         /\ UNCHANGED <<metrics, created_at, clock>>
    ELSE IF kind = "retryable"
    THEN /\ UNCHANGED metrics
         /\ IF attempt[p] = MAX_TRANSACTION_RETRIES
            THEN StartFailureLog(p)
            ELSE /\ attempt' = [attempt EXCEPT ![p] = @ + 1]
                 /\ Goto(p, "pool")
                 /\ UNCHANGED <<job, outcome, created_at, clock>>
    ELSE /\ Count(p, "errors")
         /\ StartFailureLog(p)

-----------------------------------------------------------------------------
(***************************************************************************)
(* Mutations: plausible mistakes in the steps below.  No specification     *)
(* uses them; each shows which property the step it replaces upholds.      *)
(***************************************************************************)
\* pool.acquire() without a timeout.
PoolWaitsForever(p) ==
    /\ pc[p] = "pool"
    /\ pool_free = 0
    /\ UNCHANGED vars

\* A lock that does not exclude (a shared or a wrong key).
LockWithoutWaiting(p) ==
    /\ pc[p] = "lock"
    /\ chain_lock' = [chain_lock EXCEPT ![ChainId(p)] = p]
    /\ Goto(p, "fetch")
    /\ UNCHANGED <<db, job, attempt, local, outcome, reading, process, clock,
                   faults>>

\* lock_timeout handled by carrying on without the lock.
LockTimeoutIgnored(p) ==
    /\ pc[p] = "lock"
    /\ chain_lock[ChainId(p)] # NoOne
    /\ Goto(p, "fetch")
    /\ UNCHANGED <<db, chain_lock, job, attempt, local, outcome, reading,
                   process, clock, faults>>

\* ORDER BY id without DESC.
FetchFirstHash(p) ==
    /\ pc[p] = "fetch"
    /\ LET rows  == ChainRows(audit_log, ChainId(p))
           first == {r \in rows : \A q \in rows : r.id <= q.id}
       IN  prev_hash' = [prev_hash EXCEPT ![p] = LastHash(first)]
    /\ IF job[p] = "log"
       THEN /\ event_type' = [event_type EXCEPT ![p] = "calculation_persist_failed"]
            /\ Goto(p, "audit")
       ELSE /\ Goto(p, "check")
            /\ UNCHANGED event_type
    /\ UNCHANGED <<db, chain_lock, job, attempt, created_at, batch, row, exc,
                   outcome, reading, process, clock, faults>>

\* Duplicates looked up in the audit log instead of the requests table.
CheckDuplicateInAuditLog(p) ==
    /\ pc[p] = "check"
    /\ IF \E r \in audit_log : r.payload.reference_id = InputOf[p]
       THEN /\ event_type' = [event_type EXCEPT ![p] = "calculation_rejected_duplicate"]
            /\ Goto(p, "audit")
       ELSE /\ event_type' = [event_type EXCEPT ![p] = "calculation_persisted"]
            /\ Goto(p, "batch")
    /\ UNCHANGED <<db, chain_lock, job, attempt, created_at, prev_hash, batch,
                   row, exc, outcome, reading, process, clock, faults>>

\* The audit event written on a connection of its own, in autocommit.
InsertAuditAutocommit(p) ==
    /\ pc[p] = "audit"
    /\ audit_log' = audit_log \cup
          {build_audit_event(audit_seq, EventOf(p), prev_hash[p], ChainId(p))}
    /\ audit_seq' = audit_seq + 1
    /\ Goto(p, "commit")
    /\ UNCHANGED <<requests, chain_lock, job, attempt, local, outcome, reading,
                   process, clock, faults>>

\* The chain lock released after the insert instead of at the end.
InsertAuditUnlocksEarly(p) ==
    /\ pc[p] = "audit"
    /\ row' = [row EXCEPT ![p] =
                 {build_audit_event(audit_seq, EventOf(p), prev_hash[p], ChainId(p))}]
    /\ audit_seq' = audit_seq + 1
    /\ chain_lock' = Unlocked({p})
    /\ Goto(p, "commit")
    /\ UNCHANGED <<requests, audit_log, job, attempt, created_at, prev_hash,
                   event_type, batch, exc, outcome, reading, process, clock,
                   faults>>

\* An exception of COMMIT swallowed.
CommitFailsSwallowed(p, kind) ==
    /\ pc[p] = "commit"
    /\ Fault
    /\ DropTransaction(p)
    /\ pool_free' = pool_free + 1
    /\ Answer(p, "success")
    /\ UNCHANGED <<db, created_at, prev_hash, event_type, reading, leaked,
                   metrics, clock>>

\* pool.release() not in a finally clause.
CommitFailsKeepsConnection(p, kind) ==
    /\ pc[p] = "commit"
    /\ Fault
    /\ DropTransaction(p)
    /\ ExceptClauses(p, kind)
    /\ UNCHANGED <<db, prev_hash, event_type, reading, pool_free, leaked>>

-----------------------------------------------------------------------------
(***************************************************************************)
(* calculate_and_persist, phase 1: no await, no lock, no transaction.  An  *)
(* invalid or unverifiable proof raises before the retry loop.             *)
(***************************************************************************)
Compute(p) ==
    /\ pc[p] = "idle"
    /\ utc_now(p)
    /\ Count(p, "requests")
    /\ Goto(p, "pool")
    /\ UNCHANGED <<db, chain_lock, job, attempt, prev_hash, event_type, batch,
                   row, exc, outcome, reading, pool_free, leaked, faults>>

ComputeFails(p) ==
    /\ pc[p] = "idle"
    /\ Fault
    /\ Answer(p, "error")
    /\ UNCHANGED <<db, chain_lock, local, reading, process, clock>>

(***************************************************************************)
(* PostgresRepositoryTransaction.__aenter__: take a connection, then BEGIN.*)
(* __aexit__ does not run when __aenter__ raises, so a connection whose    *)
(* BEGIN fails is never released.                                          *)
(***************************************************************************)
AcquireConnection(p) ==
    /\ pc[p] = "pool"
    /\ pool_free > 0
    /\ pool_free' = pool_free - 1
    /\ Goto(p, "begin")
    /\ UNCHANGED <<db, chain_lock, job, attempt, local, outcome, reading,
                   leaked, metrics, clock, faults>>

PoolTimeout(p) ==
    /\ pc[p] = "pool"
    /\ pool_free = 0
    /\ ExceptClauses(p, "other")
    /\ UNCHANGED <<db, chain_lock, prev_hash, event_type, batch, row, exc,
                   reading, pool_free, leaked, faults>>

BeginTransaction(p) ==
    /\ pc[p] = "begin"
    /\ Goto(p, "lock")
    /\ UNCHANGED <<db, chain_lock, job, attempt, local, outcome, reading,
                   process, clock, faults>>

BeginFails(p) ==
    /\ pc[p] = "begin"
    /\ Fault
    /\ leaked' = leaked + 1
    /\ ExceptClauses(p, "other")
    /\ UNCHANGED <<db, chain_lock, prev_hash, event_type, batch, row, exc,
                   reading, pool_free>>

(***************************************************************************)
(* The statements of the transaction block, one await each.                *)
(***************************************************************************)
acquire_audit_chain_lock(p) ==
    /\ pc[p] = "lock"
    /\ chain_lock[ChainId(p)] = NoOne
    /\ chain_lock' = [chain_lock EXCEPT ![ChainId(p)] = p]
    /\ Goto(p, "fetch")
    /\ UNCHANGED <<db, job, attempt, local, outcome, reading, process, clock,
                   faults>>

fetch_latest_audit_hash_for_chain(p) ==
    /\ pc[p] = "fetch"
    /\ prev_hash' = [prev_hash EXCEPT ![p] = LatestHash(audit_log, ChainId(p))]
    /\ IF job[p] = "log"
       THEN /\ event_type' = [event_type EXCEPT ![p] = "calculation_persist_failed"]
            /\ Goto(p, "audit")
       ELSE /\ Goto(p, "check")
            /\ UNCHANGED event_type
    /\ UNCHANGED <<db, chain_lock, job, attempt, created_at, batch, row, exc,
                   outcome, reading, process, clock, faults>>

check_duplicate(p) ==
    /\ pc[p] = "check"
    /\ IF InputOf[p] \in requests
       THEN /\ event_type' = [event_type EXCEPT ![p] = "calculation_rejected_duplicate"]
            /\ Goto(p, "audit")
       ELSE /\ event_type' = [event_type EXCEPT ![p] = "calculation_persisted"]
            /\ Goto(p, "batch")
    /\ UNCHANGED <<db, chain_lock, job, attempt, created_at, prev_hash, batch,
                   row, exc, outcome, reading, process, clock, faults>>

\* The unique index on input_hash makes the insert wait for an uncommitted
\* row with the same key and fail on a committed one.
insert_records_batch(p) ==
    /\ pc[p] = "batch"
    /\ \A q \in Requests \ {p} : InputOf[p] \notin batch[q]
    /\ IF InputOf[p] \in requests
       THEN /\ exc' = [exc EXCEPT ![p] = "duplicate"]
            /\ Goto(p, "rollback")
            /\ UNCHANGED batch
       ELSE /\ batch' = [batch EXCEPT ![p] = {InputOf[p]}]
            /\ Goto(p, "audit")
            /\ UNCHANGED exc
    /\ UNCHANGED <<db, chain_lock, job, attempt, created_at, prev_hash,
                   event_type, row, outcome, reading, process, clock, faults>>

insert_audit_event(p) ==
    /\ pc[p] = "audit"
    /\ row' = [row EXCEPT ![p] =
                 {build_audit_event(audit_seq, EventOf(p), prev_hash[p], ChainId(p))}]
    /\ audit_seq' = audit_seq + 1
    /\ Goto(p, "commit")
    /\ UNCHANGED <<requests, audit_log, chain_lock, job, attempt, created_at,
                   prev_hash, event_type, batch, exc, outcome, reading,
                   process, clock, faults>>

(***************************************************************************)
(* An exception inside the block.  Between the last statement and COMMIT   *)
(* only the persisting branch runs code that can raise (the audit hash     *)
(* check and build_verified_training_record).                              *)
(***************************************************************************)
LockTimeout(p) ==
    /\ pc[p] = "lock"
    /\ chain_lock[ChainId(p)] # NoOne
    /\ exc' = [exc EXCEPT ![p] = "other"]
    /\ Goto(p, "rollback")
    /\ UNCHANGED <<db, chain_lock, job, attempt, created_at, prev_hash,
                   event_type, batch, row, outcome, reading, process, clock,
                   faults>>

BlockFails(p, kind) ==
    /\ pc[p] \in InTxn
    /\ pc[p] = "commit" =>
          kind = "other" /\ event_type[p] = "calculation_persisted"
    /\ Fault
    /\ exc' = [exc EXCEPT ![p] = kind]
    /\ Goto(p, "rollback")
    /\ UNCHANGED <<db, chain_lock, job, attempt, created_at, prev_hash,
                   event_type, batch, row, outcome, reading, process, clock>>

(***************************************************************************)
(* PostgresRepositoryTransaction.__aexit__: COMMIT or ROLLBACK, then the   *)
(* connection goes back to the pool whatever happened, then the code after *)
(* the block or the except clauses.  An exception raised by ROLLBACK       *)
(* replaces the one that was being handled.                                *)
(***************************************************************************)
Rollback(p, kind) ==
    /\ pc[p] = "rollback"
    /\ IF kind = exc[p] THEN UNCHANGED faults ELSE kind = "other" /\ Fault
    /\ DropTransaction(p)
    /\ pool_free' = pool_free + 1
    /\ ExceptClauses(p, kind)
    /\ UNCHANGED <<db, prev_hash, event_type, reading, leaked>>

Commit(p) ==
    /\ pc[p] = "commit"
    /\ requests' = requests \cup batch[p]
    /\ audit_log' = audit_log \cup row[p]
    /\ DropTransaction(p)
    /\ Goto(p, "ack")
    /\ UNCHANGED <<audit_seq, job, attempt, created_at, prev_hash, event_type,
                   outcome, reading, process, clock, faults>>

CommitFails(p, kind) ==
    /\ pc[p] = "commit"
    /\ Fault
    /\ DropTransaction(p)
    /\ pool_free' = pool_free + 1
    /\ ExceptClauses(p, kind)
    /\ UNCHANGED <<db, prev_hash, event_type, reading, leaked>>

Acknowledge(p) ==
    /\ pc[p] = "ack"
    /\ pool_free' = pool_free + 1
    /\ IF job[p] = "log"
       THEN Answer(p, "error") /\ UNCHANGED metrics
       ELSE IF event_type[p] = "calculation_rejected_duplicate"
       THEN Answer(p, "duplicate") /\ Count(p, "duplicates")
       ELSE Answer(p, "success") /\ Count(p, "successes")
    /\ UNCHANGED <<db, chain_lock, local, reading, leaked, clock, faults>>

\* The server committed; the client sees a lost connection or a timeout.
AcknowledgeLost(p) ==
    /\ pc[p] = "ack"
    /\ Fault
    /\ pool_free' = pool_free + 1
    /\ ExceptClauses(p, "other")
    /\ UNCHANGED <<db, chain_lock, prev_hash, event_type, batch, row, exc,
                   reading, leaked>>

-----------------------------------------------------------------------------
(***************************************************************************)
(* verify_persisted: the bundle and the chain are read in two transactions *)
(* of their own, each taking and returning a connection, and the answer is *)
(* made of what the two returned.  Of _verify_bundle the comparison of the *)
(* audit event is modelled: the others compare stored rows that one        *)
(* transaction of calculate_and_persist wrote with values recomputed from  *)
(* the request.                                                            *)
(***************************************************************************)
AboutInput(log, i) == {r \in log : r.payload.reference_id = i}

\* FETCH_BUNDLE_SQL joins the latest audit event about the input.
LatestAbout(log, i) == {r \in AboutInput(log, i) : IsLast(AboutInput(log, i), r)}

\* _verify_bundle: the bundle's audit event hashes to what it says.
verify_bundle(audit) == \A r \in audit : ~CurrentHashMismatch(r)

\* The status answered, from whether a bundle was found, its audit event and
\* the rows of the chain.  No bundle is INVALID too, with evidence None.
VerificationStatus(found, audit, chain) ==
    IF found /\ verify_bundle(audit) /\ verify_audit_chain(chain).status = "VALID"
    THEN "VALID" ELSE "INVALID"

fetch_by_input_hash(v) ==
    /\ verdict[v] = "idle"
    /\ pool_free > 0
    /\ IF InputOf[v] \in requests
       THEN /\ verdict' = [verdict EXCEPT ![v] = "found"]
            /\ stored' = [stored EXCEPT ![v] = LatestAbout(audit_log, InputOf[v])]
       ELSE /\ verdict' = [verdict EXCEPT ![v] = "missing"]
            /\ UNCHANGED stored
    /\ UNCHANGED <<db, chain_lock, pc, job, attempt, local, outcome, chain_read,
                   process, clock, faults>>

verify_persisted(v) ==
    /\ verdict[v] \in {"found", "missing"}
    /\ pool_free > 0
    /\ chain_read' = [chain_read EXCEPT ![v] = audit_log]
    /\ verdict' = [verdict EXCEPT ![v] =
            VerificationStatus(verdict[v] = "found", stored[v], audit_log)]
    /\ UNCHANGED <<db, chain_lock, pc, job, attempt, local, outcome, stored,
                   process, clock, faults>>

ReadUnavailable(v) ==
    /\ verdict[v] \in {"idle", "found", "missing"}
    /\ pool_free = 0
    /\ verdict' = [verdict EXCEPT ![v] = "error"]
    /\ UNCHANGED <<db, chain_lock, pc, job, attempt, local, outcome, stored,
                   chain_read, process, clock, faults>>

\* Mutation: the two awaits swapped, the chain read before the bundle.
ReadingChainFirst(v) ==
    /\ pool_free > 0
    /\ \/ /\ verdict[v] = "idle"
          /\ verdict' = [verdict EXCEPT ![v] = "missing"]
          /\ chain_read' = [chain_read EXCEPT ![v] = audit_log]
          /\ UNCHANGED stored
       \/ /\ verdict[v] = "missing"
          /\ LET found == InputOf[v] \in requests
                 audit == IF found THEN LatestAbout(audit_log, InputOf[v]) ELSE {}
             IN  /\ stored' = [stored EXCEPT ![v] = audit]
                 /\ verdict' = [verdict EXCEPT ![v] =
                        VerificationStatus(found, audit, chain_read[v])]
          /\ UNCHANGED chain_read
    /\ UNCHANGED <<db, chain_lock, pc, job, attempt, local, outcome, process,
                   clock, faults>>

\* The awaits of verify_persisted, in their order.
Reading(v) == fetch_by_input_hash(v) \/ verify_persisted(v) \/ ReadUnavailable(v)

(***************************************************************************)
(* The server process dies and is restarted.  The database ends the        *)
(* transactions it had open; the pool and the metrics start afresh.        *)
(***************************************************************************)
InFlight == {p \in Requests : pc[p] \in Active}

Crash ==
    /\ Fault
    /\ pc' = [p \in Requests |-> IF p \in InFlight THEN "crashed" ELSE pc[p]]
    /\ chain_lock' = Unlocked(InFlight)
    /\ batch' = [p \in Requests |-> {}]
    /\ row' = [p \in Requests |-> {}]
    /\ exc' = [p \in Requests |-> "none"]
    /\ verdict' = [v \in Readers |-> IF verdict[v] \in {"found", "missing"}
                                     THEN "crashed" ELSE verdict[v]]
    /\ pool_free' = PoolSize
    /\ leaked' = 0
    /\ metrics' = [c \in Chains |-> [k \in Counters |-> 0]]
    /\ UNCHANGED <<db, job, attempt, created_at, prev_hash, event_type,
                   outcome, stored, chain_read, clock>>

-----------------------------------------------------------------------------
Answered == \A p \in Requests : pc[p] \in Final

\* Nothing is left to do: the server waits for calls that do not come.
Rest ==
    /\ Answered
    /\ UNCHANGED vars

\* What a call does by itself; the timeouts are the code's own.
Progress(p) ==
    \/ AcquireConnection(p)
    \/ PoolTimeout(p)
    \/ BeginTransaction(p)
    \/ acquire_audit_chain_lock(p)
    \/ LockTimeout(p)
    \/ fetch_latest_audit_hash_for_chain(p)
    \/ check_duplicate(p)
    \/ insert_records_batch(p)
    \/ insert_audit_event(p)
    \/ Commit(p)
    \/ Acknowledge(p)
    \/ \E kind \in {"retryable", "other", "duplicate"} :
          kind = exc[p] /\ Rollback(p, kind)

Trouble(p) ==
    \/ ComputeFails(p)
    \/ BeginFails(p)
    \/ AcknowledgeLost(p)
    \/ Rollback(p, "other")
    \/ \E kind \in {"retryable", "other"} :
          BlockFails(p, kind) \/ CommitFails(p, kind)

Next ==
    \/ \E p \in Requests : Compute(p) \/ Progress(p) \/ Trouble(p)
    \/ \E v \in Readers : Reading(v)
    \/ Crash
    \/ Rest

Spec == Init /\ [][Next]_vars

(***************************************************************************)
(* A call that has begun keeps running: the event loop schedules it, every *)
(* statement returns or hits statement_timeout, a wait for the lock ends   *)
(* in lock_timeout and a wait for a connection in connect_timeout.         *)
(***************************************************************************)
FairSpec == Spec /\ \A p \in Requests : WF_vars(Progress(p))

-----------------------------------------------------------------------------
(***************************************************************************)
(* Types.                                                                  *)
(***************************************************************************)
Labels == {"idle", "pool", "begin", "lock", "fetch", "check", "batch", "audit",
           "commit", "ack", "rollback", "done", "crashed"}

\* Every variable of the service and of the database stays in its type; ids
\* handed out by the sequence are above those in the table.
TypeOK ==
    /\ requests \in SUBSET Inputs
    /\ audit_log \in SUBSET AuditRow
    /\ audit_seq \in Nat
    /\ chain_lock \in [Chains -> Requests \cup {NoOne}]
    /\ pc \in [Requests -> Labels]
    /\ job \in [Requests -> {"persist", "log"}]
    /\ attempt \in [Requests -> 1 .. MAX_TRANSACTION_RETRIES]
    /\ created_at \in [Requests -> Times]
    /\ prev_hash \in [Requests -> Hash]
    /\ event_type \in [Requests -> EventTypes \cup {"none"}]
    /\ batch \in [Requests -> SUBSET Inputs]
    /\ row \in [Requests -> SUBSET AuditRow]
    /\ exc \in [Requests -> {"none", "retryable", "other", "duplicate"}]
    /\ outcome \in [Requests -> {"none", "success", "duplicate", "error"}]
    /\ verdict \in [Readers -> {"idle", "found", "missing", "VALID",
                                "INVALID", "error", "crashed"}]
    /\ stored \in [Readers -> SUBSET AuditRow]
    /\ chain_read \in [Readers -> SUBSET AuditRow]
    /\ pool_free \in Nat
    /\ leaked \in Nat
    /\ metrics \in [Chains -> [Counters -> Nat]]
    /\ clock \in 0 .. MaxClock
    /\ faults \in 0 .. MaxFaults

(***************************************************************************)
(* Safety.                                                                 *)
(***************************************************************************)
\* The audit chain a verifier reads at any moment is VALID, whatever calls,
\* rollbacks, lost acknowledgements and restarts came before: no two
\* transactions ever extend the same hash, and id order is chain order.
ChainsVerify == verify_audit_chain(audit_log).status = "VALID"

PersistedRows(i) ==
    {r \in audit_log : r.payload.event_type = "calculation_persisted"
                       /\ r.payload.reference_id = i}

\* Evidence rows and their calculation_persisted event exist together, the
\* event exactly once and on the chain chain_id_for_input assigns.
EvidenceAudited ==
    \A i \in Inputs :
        IF i \in requests
        THEN \E r \in audit_log : /\ PersistedRows(i) = {r}
                                  /\ r.chain_id = chain_id_for_input(i)
        ELSE PersistedRows(i) = {}

\* A caller told "success" has durable evidence and is the only caller told
\* so for that input; a caller told "duplicate" was right to be refused.
AnswersHonest ==
    /\ \A p \in Requests :
          outcome[p] \in {"success", "duplicate"} => InputOf[p] \in requests
    /\ \A p, q \in Requests :
          (outcome[p] = "success" /\ outcome[q] = "success"
           /\ InputOf[p] = InputOf[q]) => p = q

\* A calculation_rejected_duplicate event comes after the event that
\* persisted the input, on the same chain.
RejectionsFollowPersist ==
    \A r \in audit_log :
        r.payload.event_type = "calculation_rejected_duplicate" =>
            \E q \in Earlier(audit_log, r) :
                /\ q.payload.event_type = "calculation_persisted"
                /\ q.payload.reference_id = r.payload.reference_id

\* While a transaction that has read the end of its chain is open, that end
\* does not move, and an id it drew is above every id of the chain.
PrevHashCurrent ==
    \A p \in Requests :
        /\ pc[p] \in {"check", "batch", "audit", "commit"} =>
              prev_hash[p] = LatestHash(audit_log, ChainId(p))
        /\ pc[p] = "commit" =>
              \A r \in row[p] : \A q \in ChainRows(audit_log, ChainId(p)) : q.id < r.id

\* The unique index on input_hash is a second line of defence the chain lock
\* never lets a call reach: no insert fails with a unique violation.
NoUniqueViolation == \A p \in Requests : exc[p] # "duplicate"

\* Every connection is idle, used by one call, or lost to a failed BEGIN; no
\* error path returns one twice or keeps one.
ConnectionsAccounted ==
    pool_free + leaked + Cardinality({p \in Requests : pc[p] \in Connected}) = PoolSize

\* A chain lock is held exactly by a call whose transaction took it and has
\* not ended; no error path, timeout or restart leaves a lock behind.
LocksScoped ==
    /\ \A p \in Requests : pc[p] \in Critical => chain_lock[ChainId(p)] = p
    /\ \A c \in Chains : chain_lock[c] # NoOne =>
          /\ ChainId(chain_lock[c]) = c
          /\ pc[chain_lock[c]] \in Critical \cup {"rollback"}

\* No call is counted under two outcomes, or under one it never had: what
\* chain_metrics reports for a chain adds up to at most its requests.
CountedOnce ==
    \A c \in Chains :
        metrics[c]["successes"] + metrics[c]["duplicates"] + metrics[c]["errors"]
            <= metrics[c]["requests"]

\* A row of the chain read, or the audit event of the bundle, read back damaged
\* would have turned the answer of reader v to INVALID.
DamageShows(v) ==
    /\ \A r \in chain_read[v] : \A d \in DamagedRows(r) :
          VerificationStatus(TRUE, stored[v], (chain_read[v] \ {r}) \cup {d}) = "INVALID"
    /\ \A r \in stored[v] : \A d \in DamagedRows(r) :
          VerificationStatus(TRUE, {d}, chain_read[v]) = "INVALID"

\* verify_persisted makes one answer of two reads with commits between them.
\* Evidence is never found without its audit event; evidence found is never
\* answered INVALID; and a VALID answer covers what it returns: the bundle's
\* audit event is among the rows verified, after the event that persisted the
\* input on the same chain, and damage to any of the rows read would have
\* shown.  INVALID is left for evidence that was not there at the first read,
\* although the chain returned beside that answer may already hold its event.
VerdictCoversEvidence ==
    \A v \in Readers :
        /\ verdict[v] = "found" => stored[v] # {}
        /\ verdict[v] = "INVALID" => stored[v] = {}
        /\ verdict[v] = "VALID" =>
              /\ \E q, r \in chain_read[v] :
                    /\ stored[v] = {r}
                    /\ q.payload.event_type = "calculation_persisted"
                    /\ q.payload.reference_id = InputOf[v]
                    /\ r.payload.reference_id = InputOf[v]
                    /\ q.chain_id = r.chain_id /\ q.id <= r.id
              /\ DamageShows(v)

(***************************************************************************)
(* Action properties.                                                      *)
(***************************************************************************)
\* Committed rows never change or go, and every row that appears has a larger
\* id than the rows already in its chain, although ids are drawn before commit.
AppendOnly ==
    [][/\ requests \subseteq requests'
       /\ audit_log \subseteq audit_log'
       /\ \A r \in audit_log' \ audit_log :
             \A q \in ChainRows(audit_log, r.chain_id) : q.id < r.id]_vars

\* Once some caller has been told "success" for an input, a verification that
\* starts later finds its evidence, restarts included.
ReadYourWrites ==
    [][\A v \in Readers :
          (verdict[v] = "idle" /\ verdict'[v] = "missing") =>
              \A p \in Requests : outcome[p] = "success" => InputOf[p] # InputOf[v]]_vars

(***************************************************************************)
(* Refinement and liveness.                                                *)
(***************************************************************************)
Ledger == INSTANCE EvidenceLedger
              WITH evidence <- requests,
                   history <- [c \in Chains |-> LatestHash(audit_log, c)]

\* The service implements the ledger: the latest hash of a chain is, under
\* the free hash, its whole history, and it only grows by one event of the
\* ledger's three operations at a time.
ImplementsLedger == Ledger!Spec

\* A call that entered the retry loop is answered, unless its process dies:
\* no combination of held locks, an empty pool, leaked connections, retries
\* and failure logging leaves it waiting for ever.
EventuallyAnswered ==
    \A p \in Requests : pc[p] = "pool" ~> pc[p] \in Final

(***************************************************************************)
(* A claim of the documentation that the code does not meet.               *)
(***************************************************************************)
\* docs/postgresql-forensics-report.md: the hash chain allows chronological
\* replay, that is, chain order is the order of created_at.
Chronological ==
    \A q, r \in audit_log :
        (q.chain_id = r.chain_id /\ q.id < r.id) =>
            q.payload.created_at <= r.payload.created_at
=============================================================================
