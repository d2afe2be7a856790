----------------------------- MODULE ProofQueue -----------------------------
(***************************************************************************)
(* backend/proof_queue.py: a queue of proof jobs that records every status *)
(* change of a job as a new event, in a list in memory and in a JSONL      *)
(* file, and decides from the list whether a submission is a replay.       *)
(*                                                                         *)
(* Two kinds of threads run it.  Submissions come from the /prove route,   *)
(* an async handler with no await inside submit, so one runs at a time on  *)
(* the event loop; the executor's worker threads run _run_task.  The lock  *)
(* protects the list only: the file is written after it is released, and   *)
(* the write may raise (a full disk, a permission).                        *)
(***************************************************************************)
EXTENDS Integers, Sequences, FiniteSets

CONSTANTS
    Tasks,             \* task ids
    Workers,           \* threads of the executor (one in the code)
    None,              \* no task
    MaxSubmits,        \* bound: submissions
    MaxWriteFailures   \* bound: failed writes of the JSONL file

ASSUME NoneAssumption == None \notin Tasks
ASSUME WorkersAssumption == IsFiniteSet(Workers)
ASSUME BoundAssumption == MaxSubmits \in Nat /\ MaxWriteFailures \in Nat

VARIABLES
    events,        \* self._events
    jsonl,         \* lines of logs/proof_queue.jsonl
    backlog,       \* the executor's queue
    submitter,     \* the event loop: step of submit, task
    worker,        \* worker -> step of _run_task, task
    submits,       \* submissions so far
    unlogged       \* events whose line could not be written

vars == <<events, jsonl, backlog, submitter, worker, submits, unlogged>>

Statuses == {"pending", "processing", "completed", "failed"}
Event == [task : Tasks, status : Statuses]

At(step, t) == [at |-> step, task |-> t]
Idle == At("idle", None)

\* Newest event of t in a list, as reversed() finds it.
IsNewest(s, t, i) ==
    /\ i \in DOMAIN s
    /\ s[i].task = t
    /\ \A j \in DOMAIN s : s[j].task = t => j <= i

latest_for(t) ==
    IF \E i \in DOMAIN events : events[i].task = t
    THEN events[CHOOSE i \in DOMAIN events : IsNewest(events, t, i)].status
    ELSE "none"

Init ==
    /\ events = << >>
    /\ jsonl = << >>
    /\ backlog = << >>
    /\ submitter = Idle
    /\ worker = [w \in Workers |-> Idle]
    /\ submits = 0
    /\ unlogged = << >>

-----------------------------------------------------------------------------
(***************************************************************************)
(* _append_event: the list under the lock, then the file without it.       *)
(***************************************************************************)
AppendEvent(t, status) ==
    events' = Append(events, [task |-> t, status |-> status])

\* One line through a handle opened for appending and closed again.  That the
\* operating system writes it in pieces, so that the lines of two threads mix or
\* a line is cut by the end of the process, is not modelled.
WriteLine(t, status) ==
    /\ jsonl' = Append(jsonl, [task |-> t, status |-> status])
    /\ UNCHANGED unlogged

WriteRaises(t, status) ==
    /\ Len(unlogged) < MaxWriteFailures
    /\ unlogged' = Append(unlogged, [task |-> t, status |-> status])
    /\ UNCHANGED jsonl

Step(w, step) == worker' = [worker EXCEPT ![w].at = step]

Free(w) == worker' = [worker EXCEPT ![w] = Idle]

\* Mutation: a task being processed is not recognised as a replay.
SubmitForgetsProcessing(t) ==
    /\ submitter = Idle
    /\ submits < MaxSubmits
    /\ submits' = submits + 1
    /\ submitter' = IF latest_for(t) \in {"pending", "completed"}
                    THEN Idle ELSE At("append", t)
    /\ UNCHANGED <<events, jsonl, backlog, worker, unlogged>>

\* Mutation: a completed task is not recognised as a replay.
SubmitRepeatsCompleted(t) ==
    /\ submitter = Idle
    /\ submits < MaxSubmits
    /\ submits' = submits + 1
    /\ submitter' = IF latest_for(t) \in {"pending", "processing"}
                    THEN Idle ELSE At("append", t)
    /\ UNCHANGED <<events, jsonl, backlog, worker, unlogged>>

(***************************************************************************)
(* submit: a task whose newest event is pending, processing or completed   *)
(* is a replay; otherwise record it as pending, then enqueue it.           *)
(***************************************************************************)
Submit(t) ==
    /\ submitter = Idle
    /\ submits < MaxSubmits
    /\ submits' = submits + 1
    /\ submitter' = IF latest_for(t) \in {"pending", "processing", "completed"}
                    THEN Idle ELSE At("append", t)
    /\ UNCHANGED <<events, jsonl, backlog, worker, unlogged>>

SubmitAppends ==
    /\ submitter.at = "append"
    /\ AppendEvent(submitter.task, "pending")
    /\ submitter' = At("write", submitter.task)
    /\ UNCHANGED <<jsonl, backlog, worker, submits, unlogged>>

SubmitWrites ==
    /\ submitter.at = "write"
    /\ WriteLine(submitter.task, "pending")
    /\ submitter' = At("enqueue", submitter.task)
    /\ UNCHANGED <<events, backlog, worker, submits>>

\* The exception leaves submit before the task reaches the executor.
SubmitWriteRaises ==
    /\ submitter.at = "write"
    /\ WriteRaises(submitter.task, "pending")
    /\ submitter' = Idle
    /\ UNCHANGED <<events, backlog, worker, submits>>

\* Mutation: the job is lost on the way to the executor.
SubmitForgetsExecutor ==
    /\ submitter.at = "enqueue"
    /\ submitter' = Idle
    /\ UNCHANGED <<events, jsonl, backlog, worker, submits, unlogged>>

SubmitEnqueues ==
    /\ submitter.at = "enqueue"
    /\ backlog' = Append(backlog, submitter.task)
    /\ submitter' = Idle
    /\ UNCHANGED <<events, jsonl, worker, submits, unlogged>>

(***************************************************************************)
(* _run_task.  The processing event is recorded outside the try block, the *)
(* completed event inside it, the failed event in the except clause.       *)
(***************************************************************************)
Take(w) ==
    /\ worker[w] = Idle
    /\ backlog # << >>
    /\ worker' = [worker EXCEPT ![w] = At("begin", Head(backlog))]
    /\ backlog' = Tail(backlog)
    /\ UNCHANGED <<events, jsonl, submitter, submits, unlogged>>

\* Mutation: the status recorded is one that no reader knows.
BeginTaskRunning(w) ==
    /\ worker[w].at = "begin"
    /\ AppendEvent(worker[w].task, "running")
    /\ Step(w, "begin_write")
    /\ UNCHANGED <<jsonl, backlog, submitter, submits, unlogged>>

BeginTask(w) ==
    /\ worker[w].at = "begin"
    /\ AppendEvent(worker[w].task, "processing")
    /\ Step(w, "begin_write")
    /\ UNCHANGED <<jsonl, backlog, submitter, submits, unlogged>>

BeginWrites(w) ==
    /\ worker[w].at = "begin_write"
    /\ WriteLine(worker[w].task, "processing")
    /\ Step(w, "prove")
    /\ UNCHANGED <<events, backlog, submitter, submits>>

\* The exception leaves _run_task and ends in a future nobody reads.
BeginWriteRaises(w) ==
    /\ worker[w].at = "begin_write"
    /\ WriteRaises(worker[w].task, "processing")
    /\ Free(w)
    /\ UNCHANGED <<events, backlog, submitter, submits>>

\* build_plonk_proof and verify_plonk_proof: return or raise.
Prove(w) ==
    /\ worker[w].at = "prove"
    /\ \E next \in {"complete", "fail"} : Step(w, next)
    /\ UNCHANGED <<events, jsonl, backlog, submitter, submits, unlogged>>

CompleteTask(w) ==
    /\ worker[w].at = "complete"
    /\ AppendEvent(worker[w].task, "completed")
    /\ Step(w, "complete_write")
    /\ UNCHANGED <<jsonl, backlog, submitter, submits, unlogged>>

CompleteWrites(w) ==
    /\ worker[w].at = "complete_write"
    /\ WriteLine(worker[w].task, "completed")
    /\ Free(w)
    /\ UNCHANGED <<events, backlog, submitter, submits>>

CompleteWriteRaises(w) ==
    /\ worker[w].at = "complete_write"
    /\ WriteRaises(worker[w].task, "completed")
    /\ Step(w, "fail")
    /\ UNCHANGED <<events, backlog, submitter, submits>>

\* Mutation: the except clause records nothing.
FailTaskSilently(w) ==
    /\ worker[w].at = "fail"
    /\ Free(w)
    /\ UNCHANGED <<events, jsonl, backlog, submitter, submits, unlogged>>

FailTask(w) ==
    /\ worker[w].at = "fail"
    /\ AppendEvent(worker[w].task, "failed")
    /\ Step(w, "fail_write")
    /\ UNCHANGED <<jsonl, backlog, submitter, submits, unlogged>>

\* Mutation: the line of a failure is never written.
FailWritesNothing(w) ==
    /\ worker[w].at = "fail_write"
    /\ Free(w)
    /\ UNCHANGED <<events, jsonl, unlogged, backlog, submitter, submits>>

FailWrites(w) ==
    /\ worker[w].at = "fail_write"
    /\ WriteLine(worker[w].task, "failed")
    /\ Free(w)
    /\ UNCHANGED <<events, backlog, submitter, submits>>

FailWriteRaises(w) ==
    /\ worker[w].at = "fail_write"
    /\ WriteRaises(worker[w].task, "failed")
    /\ Free(w)
    /\ UNCHANGED <<events, backlog, submitter, submits>>

-----------------------------------------------------------------------------
Resting ==
    /\ submitter = Idle
    /\ backlog = << >>
    /\ \A w \in Workers : worker[w] = Idle

Rest ==
    /\ Resting
    /\ submits = MaxSubmits
    /\ UNCHANGED vars

SubmitStep == SubmitAppends \/ SubmitWrites \/ SubmitWriteRaises \/ SubmitEnqueues

WorkerStep(w) ==
    \/ Take(w) \/ BeginTask(w) \/ BeginWrites(w) \/ BeginWriteRaises(w)
    \/ Prove(w)
    \/ CompleteTask(w) \/ CompleteWrites(w) \/ CompleteWriteRaises(w)
    \/ FailTask(w) \/ FailWrites(w) \/ FailWriteRaises(w)

Next ==
    \/ \E t \in Tasks : Submit(t)
    \/ SubmitStep
    \/ \E w \in Workers : WorkerStep(w)
    \/ Rest

Spec == Init /\ [][Next]_vars

(***************************************************************************)
(* Threads run: the event loop finishes a submit it began, and a worker    *)
(* takes queued jobs and returns from the prover, whose subprocess has a   *)
(* timeout.                                                                *)
(***************************************************************************)
FairSpec == Spec /\ WF_vars(SubmitStep) /\ \A w \in Workers : WF_vars(WorkerStep(w))

-----------------------------------------------------------------------------
SubmitSteps == {"idle", "append", "write", "enqueue"}
WorkerSteps == {"idle", "begin", "begin_write", "prove", "complete",
                "complete_write", "fail", "fail_write"}

\* Every variable of the queue stays in its type, within the bounds.
TypeOK ==
    /\ events \in Seq(Event)
    /\ jsonl \in Seq(Event)
    /\ unlogged \in Seq(Event)
    /\ backlog \in Seq(Tasks)
    /\ submitter \in [at : SubmitSteps, task : Tasks \cup {None}]
    /\ worker \in [Workers -> [at : WorkerSteps, task : Tasks \cup {None}]]
    /\ submits \in 0 .. MaxSubmits

(***************************************************************************)
(* Where a job for t is: with the event loop, in the executor's queue, or  *)
(* with a worker that has not yet recorded a failure as its last event.    *)
(***************************************************************************)
Submitting(t) == submitter.task = t
Queued(t) == {i \in DOMAIN backlog : backlog[i] = t}
Running(t) == {w \in Workers : worker[w].task = t /\ worker[w].at # "fail_write"}

InFlight(t) == Submitting(t) \/ Queued(t) # {} \/ Running(t) # {}

\* Replays are deduplicated: at no moment is there more than one job for a
\* task, although the check reads the list without the lock and resubmission
\* of a failed task races the worker that is still writing its last line.
SingleFlight ==
    \A t \in Tasks :
        (IF Submitting(t) THEN 1 ELSE 0) + Cardinality(Queued(t))
            + Cardinality(Running(t)) <= 1

Lost(t, status) ==
    \E i \in DOMAIN unlogged : unlogged[i] = [task |-> t, status |-> status]

\* A status may follow another only along the queue's state machine; completed
\* gives way to failed only when writing the completed line raised.
LegalHistory ==
    \A i, j \in DOMAIN events :
        (/\ i < j
         /\ events[i].task = events[j].task
         /\ \A k \in (i + 1) .. (j - 1) : events[k].task # events[i].task) =>
            \/ <<events[i].status, events[j].status>> \in
                  {<<"pending", "processing">>, <<"processing", "completed">>,
                   <<"processing", "failed">>, <<"failed", "pending">>}
            \/ /\ <<events[i].status, events[j].status>> = <<"completed", "failed">>
               /\ Lost(events[i].task, "completed")

\* A job nobody holds although its task still shows pending or processing is
\* one whose line for that status could not be written.
AbandonedOnlyUnlogged ==
    \A t \in Tasks :
        (latest_for(t) \in {"pending", "processing"} /\ ~InFlight(t)) =>
            Lost(t, latest_for(t))

Occurrences(s, e) == Cardinality({i \in DOMAIN s : s[i] = e})

\* When the threads rest, each event of the list is in the file exactly once,
\* or its write raised: concurrent writers lose and repeat no line.
MirrorComplete ==
    Resting => \A e \in Event :
        Occurrences(events, e) = Occurrences(jsonl, e) + Occurrences(unlogged, e)

\* A task that was accepted is completed or failed in the end, unless one of
\* its lines could not be written.
EventuallySettled ==
    \A t \in Tasks :
        latest_for(t) = "pending" ~>
            \/ latest_for(t) \in {"completed", "failed"}
            \/ \E status \in Statuses : Lost(t, status)
=============================================================================
