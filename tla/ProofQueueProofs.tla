-------------------------- MODULE ProofQueueProofs --------------------------
(***************************************************************************)
(* Theorems about ProofQueue for every set of tasks, every finite set of   *)
(* worker threads and any number of submissions and failed writes.         *)
(*                                                                         *)
(* SingleFlight is not inductive: that a submission admitted because the   *)
(* newest event is a failure finds no other job depends on what the newest *)
(* event of a task says about where its job is.  IInv states that for      *)
(* every step of submit and _run_task.                                     *)
(***************************************************************************)
EXTENDS ProofQueue, SetFacts

\* latest_for as a function of the list.
LatestIn(s, t) ==
    IF \E i \in DOMAIN s : s[i].task = t
    THEN s[CHOOSE i \in DOMAIN s : IsNewest(s, t, i)].status
    ELSE "none"

\* Lost as a function of the list of failed writes.
LostIn(s, t, status) == \E i \in DOMAIN s : s[i] = [task |-> t, status |-> status]

\* The event loop and a worker have a task exactly while they are busy.
ShapeOK ==
    /\ submitter.at = "idle" <=> submitter.task = None
    /\ \A w \in Workers : worker[w].at = "idle" <=> worker[w].task = None

\* The worker has a job that has not yet recorded a failure.
Active(w) == worker[w].at \notin {"idle", "fail_write"}

\* At most one job per task, wherever it is.
OneJob ==
    /\ \A i, j \in DOMAIN backlog : backlog[i] = backlog[j] => i = j
    /\ \A i \in DOMAIN backlog : backlog[i] # submitter.task
    /\ \A i \in DOMAIN backlog, w \in Workers : Active(w) => worker[w].task # backlog[i]
    /\ \A w \in Workers : Active(w) => worker[w].task # submitter.task
    /\ \A v, w \in Workers :
          (Active(v) /\ Active(w) /\ worker[v].task = worker[w].task) => v = w

\* What the newest event of a task says, given where its job is.
SubmitterKnown ==
    /\ submitter.at = "append" => LatestIn(events, submitter.task) \in {"none", "failed"}
    /\ submitter.at \in {"write", "enqueue"} => LatestIn(events, submitter.task) = "pending"

BacklogKnown == \A i \in DOMAIN backlog : LatestIn(events, backlog[i]) = "pending"

WorkerKnown(w) ==
    /\ worker[w].at = "begin" => LatestIn(events, worker[w].task) = "pending"
    /\ worker[w].at \in {"begin_write", "prove", "complete"} =>
          LatestIn(events, worker[w].task) = "processing"
    /\ worker[w].at = "complete_write" => LatestIn(events, worker[w].task) = "completed"
    /\ worker[w].at = "fail" =>
          \/ LatestIn(events, worker[w].task) = "processing"
          \/ /\ LatestIn(events, worker[w].task) = "completed"
             /\ LostIn(unlogged, worker[w].task, "completed")

WorkersKnown == \A w \in Workers : WorkerKnown(w)

\* Somebody has a job for t.
Held(t) ==
    \/ submitter.task = t
    \/ \E i \in DOMAIN backlog : backlog[i] = t
    \/ \E w \in Workers : Active(w) /\ worker[w].task = t

\* A task that shows pending or processing has a job, or its line was lost.
HeldOrLost ==
    \A t \in Tasks : LatestIn(events, t) \in {"pending", "processing"} =>
        Held(t) \/ LostIn(unlogged, t, LatestIn(events, t))

\* The workers whose next step writes the line of e.
Writers(e) ==
    {w \in Workers :
        /\ worker[w].task = e.task
        /\ \/ worker[w].at = "begin_write" /\ e.status = "processing"
           \/ worker[w].at = "complete_write" /\ e.status = "completed"
           \/ worker[w].at = "fail_write" /\ e.status = "failed"}

SubmitterWrites(e) ==
    IF submitter.at = "write" /\ submitter.task = e.task /\ e.status = "pending" THEN 1 ELSE 0

\* Each event of the list is in the file, was lost, or is about to be written.
Mirrored ==
    \A e \in Event :
        Occurrences(events, e) = Occurrences(jsonl, e) + Occurrences(unlogged, e)
                                   + Cardinality(Writers(e)) + SubmitterWrites(e)

IInv ==
    /\ TypeOK
    /\ ShapeOK
    /\ OneJob
    /\ SubmitterKnown /\ BacklogKnown /\ WorkersKnown
    /\ HeldOrLost
    /\ LegalHistory
    /\ Mirrored

-----------------------------------------------------------------------------
(***************************************************************************)
(* The newest event of a task, and counting the occurrences of an event.   *)
(***************************************************************************)

\* A list has at most one newest event of a task, and latest_for reads it.
LEMMA NewestIsLatest ==
    ASSUME NEW s \in Seq(Event), NEW t, NEW i, IsNewest(s, t, i)
    PROVE  LatestIn(s, t) = s[i].status
<1>1. \A j : IsNewest(s, t, j) => j = i
  BY DEF IsNewest
<1>2. (CHOOSE j \in DOMAIN s : IsNewest(s, t, j)) = i
  BY <1>1 DEF IsNewest
<1> QED
  BY <1>2 DEF LatestIn, IsNewest

\* A list with an event of a task has a newest one.
LEMMA NewestExists ==
    ASSUME NEW s \in Seq(Event), NEW t, \E i \in DOMAIN s : s[i].task = t
    PROVE  \E i : IsNewest(s, t, i)
<1> DEFINE I == {i \in DOMAIN s : s[i].task = t}
<1>1. I \in SUBSET (0 .. Len(s)) /\ I # {} /\ Len(s) \in Nat
  OBVIOUS
<1> HIDE DEF I
<1>2. PICK m \in I : \A k \in I : k <= m
  BY <1>1, GreatestElement
<1> QED
  BY <1>2 DEF I, IsNewest

\* _append_event decides what latest_for returns for its task, and nothing for
\* any other task.
LEMMA LatestAppend ==
    ASSUME NEW s \in Seq(Event), NEW e \in Event, NEW t
    PROVE  LatestIn(Append(s, e), t) = IF e.task = t THEN e.status ELSE LatestIn(s, t)
<1> DEFINE a == Append(s, e)
<1>1. /\ a \in Seq(Event) /\ Len(s) \in Nat
      /\ DOMAIN s = 1 .. Len(s) /\ DOMAIN a = 1 .. (Len(s) + 1)
      /\ \A i \in 1 .. Len(s) : a[i] = s[i]
      /\ a[Len(s) + 1] = e
  OBVIOUS
<1> HIDE DEF a
<1>2. CASE e.task = t
  <2>1. IsNewest(a, t, Len(s) + 1)
    BY <1>1, <1>2 DEF IsNewest
  <2>2. LatestIn(a, t) = a[Len(s) + 1].status
    BY <1>1, <2>1, NewestIsLatest
  <2> QED
    BY <1>1, <1>2, <2>2 DEF a
<1>3. CASE e.task # t /\ \E i \in DOMAIN s : s[i].task = t
  <2>1. PICK m : IsNewest(s, t, m)
    BY <1>3, NewestExists
  <2>2. IsNewest(a, t, m) /\ m \in 1 .. Len(s)
    BY <1>1, <1>3, <2>1 DEF IsNewest
  <2>3. LatestIn(a, t) = a[m].status /\ LatestIn(s, t) = s[m].status
    BY <1>1, <2>1, <2>2, NewestIsLatest
  <2> QED
    BY <1>1, <1>3, <2>2, <2>3 DEF a
<1>4. CASE e.task # t /\ ~ \E i \in DOMAIN s : s[i].task = t
  <2>1. ~ \E i \in DOMAIN a : a[i].task = t
    BY <1>1, <1>4
  <2> QED
    BY <1>4, <2>1 DEF LatestIn, a
<1> QED
  BY <1>2, <1>3, <1>4

\* latest_for returns a status, or says that there is none.
LEMMA LatestType ==
    ASSUME NEW s \in Seq(Event), NEW t
    PROVE  LatestIn(s, t) \in Statuses \cup {"none"}
<1>1. CASE \E i \in DOMAIN s : s[i].task = t
  <2>1. PICK m : IsNewest(s, t, m)
    BY <1>1, NewestExists
  <2>2. s[m] \in Event
    BY <2>1 DEF IsNewest
  <2> QED
    BY <2>1, <2>2, NewestIsLatest DEF Event
<1>2. CASE ~ \E i \in DOMAIN s : s[i].task = t
  BY <1>2 DEF LatestIn
<1> QED
  BY <1>1, <1>2

\* An appended event is counted once.
LEMMA OccurrencesAppend ==
    ASSUME NEW s \in Seq(Event), NEW x \in Event, NEW e
    PROVE  /\ Occurrences(s, e) \in Nat
           /\ Occurrences(Append(s, x), e) =
                 Occurrences(s, e) + IF x = e THEN 1 ELSE 0
<1> DEFINE a == Append(s, x)
           S == {i \in DOMAIN s : s[i] = e}
           A == {i \in DOMAIN a : a[i] = e}
<1>1. /\ Len(s) \in Nat
      /\ DOMAIN s = 1 .. Len(s) /\ DOMAIN a = 1 .. (Len(s) + 1)
      /\ \A i \in 1 .. Len(s) : a[i] = s[i]
      /\ a[Len(s) + 1] = x
  OBVIOUS
<1>2. S \subseteq 1 .. Len(s) /\ IsFiniteSet(1 .. Len(s))
  BY <1>1, FS_Interval
<1>3. IsFiniteSet(S) /\ Cardinality(S) \in Nat
  BY <1>2, FS_Subset, FS_CardinalityType
<1>4. A = IF x = e THEN S \cup {Len(s) + 1} ELSE S
  BY <1>1
<1>5. Len(s) + 1 \notin S
  BY <1>1
<1> HIDE DEF S, A
<1>6. Cardinality(S \cup {Len(s) + 1}) = Cardinality(S) + 1
  BY <1>3, <1>5, FS_AddElement
<1>7. Occurrences(s, e) = Cardinality(S) /\ Occurrences(a, e) = Cardinality(A)
  BY DEF Occurrences, S, A
<1> QED
  BY <1>3, <1>4, <1>6, <1>7

-----------------------------------------------------------------------------
(***************************************************************************)
(* Steps of submit and of _run_task.                                       *)
(***************************************************************************)

\* Each step keeps the types, and a thread busy exactly while it has a task.
LEMMA ShapeStep ==
    ASSUME TypeOK, ShapeOK, [Next]_vars
    PROVE  TypeOK' /\ ShapeOK'
<1> USE NoneAssumption, BoundAssumption DEF TypeOK, ShapeOK, Event, Statuses, SubmitSteps, WorkerSteps
<1>1. ASSUME NEW t \in Tasks, Submit(t) PROVE TypeOK' /\ ShapeOK'
  BY <1>1 DEF Submit, At, Idle
<1>2. CASE SubmitAppends
  BY <1>2 DEF SubmitAppends, AppendEvent, At
<1>3. CASE SubmitWrites
  BY <1>3 DEF SubmitWrites, WriteLine, At
<1>4. CASE SubmitWriteRaises
  BY <1>4 DEF SubmitWriteRaises, WriteRaises, Idle, At
<1>5. CASE SubmitEnqueues
  BY <1>5 DEF SubmitEnqueues, Idle, At
<1>6. ASSUME NEW w \in Workers, Take(w) PROVE TypeOK' /\ ShapeOK'
  BY <1>6 DEF Take, At, Idle
<1>7. ASSUME NEW w \in Workers, BeginTask(w) PROVE TypeOK' /\ ShapeOK'
  BY <1>7 DEF BeginTask, AppendEvent, Step
<1>8. ASSUME NEW w \in Workers, BeginWrites(w) PROVE TypeOK' /\ ShapeOK'
  BY <1>8 DEF BeginWrites, WriteLine, Step
<1>9. ASSUME NEW w \in Workers, BeginWriteRaises(w) PROVE TypeOK' /\ ShapeOK'
  BY <1>9 DEF BeginWriteRaises, WriteRaises, Free, Idle, At
<1>10. ASSUME NEW w \in Workers, Prove(w) PROVE TypeOK' /\ ShapeOK'
  BY <1>10 DEF Prove, Step
<1>11. ASSUME NEW w \in Workers, CompleteTask(w) PROVE TypeOK' /\ ShapeOK'
  BY <1>11 DEF CompleteTask, AppendEvent, Step
<1>12. ASSUME NEW w \in Workers, CompleteWrites(w) PROVE TypeOK' /\ ShapeOK'
  BY <1>12 DEF CompleteWrites, WriteLine, Free, Idle, At
<1>13. ASSUME NEW w \in Workers, CompleteWriteRaises(w) PROVE TypeOK' /\ ShapeOK'
  BY <1>13 DEF CompleteWriteRaises, WriteRaises, Step
<1>14. ASSUME NEW w \in Workers, FailTask(w) PROVE TypeOK' /\ ShapeOK'
  BY <1>14 DEF FailTask, AppendEvent, Step
<1>15. ASSUME NEW w \in Workers, FailWrites(w) PROVE TypeOK' /\ ShapeOK'
  BY <1>15 DEF FailWrites, WriteLine, Free, Idle, At
<1>16. ASSUME NEW w \in Workers, FailWriteRaises(w) PROVE TypeOK' /\ ShapeOK'
  BY <1>16 DEF FailWriteRaises, WriteRaises, Free, Idle, At
<1>17. CASE UNCHANGED vars
  BY <1>17 DEF vars
<1> QED
  BY <1>1, <1>2, <1>3, <1>4, <1>5, <1>6, <1>7, <1>8, <1>9,
     <1>10, <1>11, <1>12, <1>13, <1>14, <1>15, <1>16, <1>17
     DEF Next, SubmitStep, WorkerStep, Rest

\* A line that was lost stays lost.
LEMMA LostStays ==
    ASSUME TypeOK, [Next]_vars, NEW t, NEW status, LostIn(unlogged, t, status)
    PROVE  LostIn(unlogged', t, status)
<1>1. UNCHANGED unlogged \/ \E e : unlogged' = Append(unlogged, e)
  BY DEF Next, SubmitStep, WorkerStep, Rest, vars,
         Submit, SubmitAppends, SubmitWrites, SubmitWriteRaises, SubmitEnqueues,
         Take, BeginTask, BeginWrites, BeginWriteRaises, Prove, CompleteTask, CompleteWrites,
         CompleteWriteRaises, FailTask, FailWrites, FailWriteRaises, WriteLine, WriteRaises
<1>2. ASSUME NEW e, unlogged' = Append(unlogged, e) PROVE LostIn(unlogged', t, status)
  <2>1. PICK i \in DOMAIN unlogged : unlogged[i] = [task |-> t, status |-> status]
    BY DEF LostIn
  <2>2. i \in DOMAIN unlogged' /\ unlogged'[i] = unlogged[i]
    BY <1>2 DEF TypeOK
  <2> QED
    BY <2>1, <2>2 DEF LostIn
<1>3. CASE UNCHANGED unlogged
  BY <1>3 DEF LostIn
<1> QED
  BY <1>1, <1>2, <1>3

\* A write that raises loses its line.
LEMMA WriteRaisesLoses ==
    ASSUME TypeOK, NEW t, NEW status, WriteRaises(t, status)
    PROVE  LostIn(unlogged', t, status)
<1>1. /\ Len(unlogged) + 1 \in DOMAIN unlogged'
      /\ unlogged'[Len(unlogged) + 1] = [task |-> t, status |-> status]
  BY DEF WriteRaises, TypeOK
<1> QED
  BY <1>1 DEF LostIn

\* What each task shows after an event is recorded.
LEMMA LatestStep ==
    ASSUME TypeOK, NEW t \in Tasks, NEW status \in Statuses, AppendEvent(t, status)
    PROVE  \A u : LatestIn(events', u) = IF t = u THEN status ELSE LatestIn(events, u)
<1>1. events \in Seq(Event) /\ [task |-> t, status |-> status] \in Event
  BY DEF TypeOK, Event
<1>2. \A u : LatestIn(Append(events, [task |-> t, status |-> status]), u) =
                 IF [task |-> t, status |-> status].task = u
                 THEN [task |-> t, status |-> status].status ELSE LatestIn(events, u)
  BY <1>1, LatestAppend
<1> QED
  BY <1>2 DEF AppendEvent

\* What each thread does is related to the newest event of its task.
Jobs == OneJob /\ SubmitterKnown /\ BacklogKnown /\ WorkersKnown /\ HeldOrLost

\* A step of a worker on its own job, which may record an event of the task or
\* end the job, disturbs nobody else.
LEMMA OwnerStep ==
    ASSUME Jobs, NEW w \in Workers, worker[w].task \in Tasks,
           UNCHANGED <<submitter, backlog>>,
           \A v \in Workers : v # w => worker'[v] = worker[v],
           Active(w)' => Active(w) /\ worker'[w].task = worker[w].task,
           \A t, status : LostIn(unlogged, t, status) => LostIn(unlogged', t, status),
           \A u : LatestIn(events', u) = LatestIn(events, u) \/ (Active(w) /\ u = worker[w].task),
           WorkerKnown(w)',
           Active(w) => \/ Active(w)'
                        \/ LatestIn(events', worker[w].task) \notin {"pending", "processing"}
                        \/ LostIn(unlogged', worker[w].task, LatestIn(events', worker[w].task))
    PROVE  Jobs'
<1> DEFINE t == worker[w].task
<1>1. OneJob'
  BY DEF Jobs, OneJob, Active
<1>2. Active(w) => submitter.task # t /\ \A i \in DOMAIN backlog : backlog[i] # t
  BY DEF Jobs, OneJob
<1>3. SubmitterKnown'
  BY <1>2 DEF Jobs, SubmitterKnown
<1>4. BacklogKnown'
  BY <1>2 DEF Jobs, BacklogKnown
<1>5. WorkersKnown'
  <2>1. ASSUME NEW v \in Workers, v # w PROVE WorkerKnown(v)'
    <3>1. Active(v) => LatestIn(events', worker[v].task) = LatestIn(events, worker[v].task)
      BY <2>1 DEF Jobs, OneJob
    <3>2. worker'[v] = worker[v] /\ WorkerKnown(v)
      BY <2>1 DEF Jobs, WorkersKnown
    <3> QED
      BY <3>1, <3>2 DEF WorkerKnown, Active
  <2> QED
    BY <2>1 DEF WorkersKnown
<1>6. HeldOrLost'
  <2> SUFFICES ASSUME NEW u \in Tasks, LatestIn(events', u) \in {"pending", "processing"}
               PROVE  Held(u)' \/ LostIn(unlogged', u, LatestIn(events', u))
    BY DEF HeldOrLost
  <2>1. CASE Active(w) /\ u = t
    <3>1. Active(w)' => Held(u)'
      BY <2>1 DEF Held
    <3> QED
      BY <2>1, <3>1
  <2>2. CASE ~(Active(w) /\ u = t)
    <3>1. LatestIn(events', u) = LatestIn(events, u)
      BY <2>2
    <3>2. Held(u) \/ LostIn(unlogged, u, LatestIn(events, u))
      BY <3>1 DEF Jobs, HeldOrLost
    <3>3. Held(u) => Held(u)'
      BY <2>2 DEF Held, Active
    <3> QED
      BY <3>1, <3>2, <3>3
  <2> QED
    BY <2>1, <2>2
<1> QED
  BY <1>1, <1>3, <1>4, <1>5, <1>6 DEF Jobs

\* Each step of _run_task after Take keeps Jobs.
LEMMA RunTaskJobs ==
    ASSUME TypeOK, ShapeOK, Jobs, [Next]_vars, NEW w \in Workers, WorkerStep(w)
    PROVE  Take(w) \/ Jobs'
<1> DEFINE t == worker[w].task
<1>a. \A u, status : LostIn(unlogged, u, status) => LostIn(unlogged', u, status)
  BY LostStays
<1>b. worker[w].at # "idle" => t \in Tasks
  BY DEF TypeOK, ShapeOK
<1>c. WorkerKnown(w)
  BY DEF Jobs, WorkersKnown
<1>1. CASE BeginTask(w)
  <2>1. /\ \A v \in Workers : v # w => worker'[v] = worker[v]
        /\ worker[w].at = "begin" /\ worker'[w].at = "begin_write" /\ worker'[w].task = t
        /\ UNCHANGED <<submitter, backlog>>
    BY <1>1 DEF BeginTask, Step, TypeOK
  <2>2. t \in Tasks
    BY <1>b, <2>1
  <2>3. \A u : LatestIn(events', u) = IF t = u THEN "processing" ELSE LatestIn(events, u)
    BY <1>1, <2>2, LatestStep DEF BeginTask, Statuses
  <2>5. WorkerKnown(w)'
    BY <1>a, <1>c, <2>1, <2>2, <2>3 DEF WorkerKnown
  <2> QED
    BY <1>a, <1>c, <2>1, <2>2, <2>3, <2>5, OwnerStep DEF Active, WorkerKnown
<1>2. CASE BeginWrites(w)
  <2>1. /\ \A v \in Workers : v # w => worker'[v] = worker[v]
        /\ worker[w].at = "begin_write" /\ worker'[w].at = "prove" /\ worker'[w].task = t
        /\ UNCHANGED <<submitter, backlog>>
    BY <1>2 DEF BeginWrites, Step, TypeOK
  <2>2. t \in Tasks
    BY <1>b, <2>1
  <2>3. UNCHANGED events
    BY <1>2 DEF BeginWrites
  <2>5. WorkerKnown(w)'
    BY <1>a, <1>c, <2>1, <2>2, <2>3 DEF WorkerKnown
  <2> QED
    BY <1>a, <1>c, <2>1, <2>2, <2>3, <2>5, OwnerStep DEF Active, WorkerKnown
<1>3. CASE BeginWriteRaises(w)
  <2>1. /\ \A v \in Workers : v # w => worker'[v] = worker[v]
        /\ worker[w].at = "begin_write" /\ worker'[w].at = "idle" /\ worker'[w].task = None
        /\ UNCHANGED <<submitter, backlog>>
    BY <1>3 DEF BeginWriteRaises, Free, Idle, At, TypeOK
  <2>2. t \in Tasks
    BY <1>b, <2>1
  <2>3. UNCHANGED events
    BY <1>3 DEF BeginWriteRaises
  <2>4. LostIn(unlogged', t, "processing")
    BY <1>3, WriteRaisesLoses DEF BeginWriteRaises
  <2>5. WorkerKnown(w)'
    BY <1>a, <1>c, <2>1, <2>2, <2>3, <2>4 DEF WorkerKnown
  <2> QED
    BY <1>a, <1>c, <2>1, <2>2, <2>3, <2>4, <2>5, OwnerStep DEF Active, WorkerKnown
<1>4. CASE Prove(w)
  <2>1. /\ \A v \in Workers : v # w => worker'[v] = worker[v]
        /\ worker[w].at = "prove" /\ worker'[w].at \in {"complete", "fail"} /\ worker'[w].task = t
        /\ UNCHANGED <<submitter, backlog>>
    BY <1>4 DEF Prove, Step, TypeOK
  <2>2. t \in Tasks
    BY <1>b, <2>1
  <2>3. UNCHANGED events
    BY <1>4 DEF Prove
  <2>5. WorkerKnown(w)'
    BY <1>a, <1>c, <2>1, <2>2, <2>3 DEF WorkerKnown
  <2> QED
    BY <1>a, <1>c, <2>1, <2>2, <2>3, <2>5, OwnerStep DEF Active, WorkerKnown
<1>5. CASE CompleteTask(w)
  <2>1. /\ \A v \in Workers : v # w => worker'[v] = worker[v]
        /\ worker[w].at = "complete" /\ worker'[w].at = "complete_write" /\ worker'[w].task = t
        /\ UNCHANGED <<submitter, backlog>>
    BY <1>5 DEF CompleteTask, Step, TypeOK
  <2>2. t \in Tasks
    BY <1>b, <2>1
  <2>3. \A u : LatestIn(events', u) = IF t = u THEN "completed" ELSE LatestIn(events, u)
    BY <1>5, <2>2, LatestStep DEF CompleteTask, Statuses
  <2>5. WorkerKnown(w)'
    BY <1>a, <1>c, <2>1, <2>2, <2>3 DEF WorkerKnown
  <2> QED
    BY <1>a, <1>c, <2>1, <2>2, <2>3, <2>5, OwnerStep DEF Active, WorkerKnown
<1>6. CASE CompleteWrites(w)
  <2>1. /\ \A v \in Workers : v # w => worker'[v] = worker[v]
        /\ worker[w].at = "complete_write" /\ worker'[w].at = "idle" /\ worker'[w].task = None
        /\ UNCHANGED <<submitter, backlog>>
    BY <1>6 DEF CompleteWrites, Free, Idle, At, TypeOK
  <2>2. t \in Tasks
    BY <1>b, <2>1
  <2>3. UNCHANGED events
    BY <1>6 DEF CompleteWrites
  <2>5. WorkerKnown(w)'
    BY <1>a, <1>c, <2>1, <2>2, <2>3 DEF WorkerKnown
  <2> QED
    BY <1>a, <1>c, <2>1, <2>2, <2>3, <2>5, OwnerStep DEF Active, WorkerKnown
<1>7. CASE CompleteWriteRaises(w)
  <2>1. /\ \A v \in Workers : v # w => worker'[v] = worker[v]
        /\ worker[w].at = "complete_write" /\ worker'[w].at = "fail" /\ worker'[w].task = t
        /\ UNCHANGED <<submitter, backlog>>
    BY <1>7 DEF CompleteWriteRaises, Step, TypeOK
  <2>2. t \in Tasks
    BY <1>b, <2>1
  <2>3. UNCHANGED events
    BY <1>7 DEF CompleteWriteRaises
  <2>4. LostIn(unlogged', t, "completed")
    BY <1>7, WriteRaisesLoses DEF CompleteWriteRaises
  <2>5. WorkerKnown(w)'
    BY <1>a, <1>c, <2>1, <2>2, <2>3, <2>4 DEF WorkerKnown
  <2> QED
    BY <1>a, <1>c, <2>1, <2>2, <2>3, <2>4, <2>5, OwnerStep DEF Active, WorkerKnown
<1>8. CASE FailTask(w)
  <2>1. /\ \A v \in Workers : v # w => worker'[v] = worker[v]
        /\ worker[w].at = "fail" /\ worker'[w].at = "fail_write" /\ worker'[w].task = t
        /\ UNCHANGED <<submitter, backlog>>
    BY <1>8 DEF FailTask, Step, TypeOK
  <2>2. t \in Tasks
    BY <1>b, <2>1
  <2>3. \A u : LatestIn(events', u) = IF t = u THEN "failed" ELSE LatestIn(events, u)
    BY <1>8, <2>2, LatestStep DEF FailTask, Statuses
  <2>5. WorkerKnown(w)'
    BY <1>a, <1>c, <2>1, <2>2, <2>3 DEF WorkerKnown
  <2> QED
    BY <1>a, <1>c, <2>1, <2>2, <2>3, <2>5, OwnerStep DEF Active, WorkerKnown
<1>9. CASE FailWrites(w)
  <2>1. /\ \A v \in Workers : v # w => worker'[v] = worker[v]
        /\ worker[w].at = "fail_write" /\ worker'[w].at = "idle" /\ worker'[w].task = None
        /\ UNCHANGED <<submitter, backlog>>
    BY <1>9 DEF FailWrites, Free, Idle, At, TypeOK
  <2>2. t \in Tasks
    BY <1>b, <2>1
  <2>3. UNCHANGED events
    BY <1>9 DEF FailWrites
  <2>5. WorkerKnown(w)'
    BY <1>a, <1>c, <2>1, <2>2, <2>3 DEF WorkerKnown
  <2> QED
    BY <1>a, <1>c, <2>1, <2>2, <2>3, <2>5, OwnerStep DEF Active, WorkerKnown
<1>10. CASE FailWriteRaises(w)
  <2>1. /\ \A v \in Workers : v # w => worker'[v] = worker[v]
        /\ worker[w].at = "fail_write" /\ worker'[w].at = "idle" /\ worker'[w].task = None
        /\ UNCHANGED <<submitter, backlog>>
    BY <1>10 DEF FailWriteRaises, Free, Idle, At, TypeOK
  <2>2. t \in Tasks
    BY <1>b, <2>1
  <2>3. UNCHANGED events
    BY <1>10 DEF FailWriteRaises
  <2>4. LostIn(unlogged', t, "failed")
    BY <1>10, WriteRaisesLoses DEF FailWriteRaises
  <2>5. WorkerKnown(w)'
    BY <1>a, <1>c, <2>1, <2>2, <2>3, <2>4 DEF WorkerKnown
  <2> QED
    BY <1>a, <1>c, <2>1, <2>2, <2>3, <2>4, <2>5, OwnerStep DEF Active, WorkerKnown
<1> QED
  BY <1>1, <1>2, <1>3, <1>4, <1>5, <1>6, <1>7, <1>8, <1>9, <1>10 DEF WorkerStep

\* Taking a job from the executor's queue keeps Jobs.
LEMMA TakeJobs ==
    ASSUME TypeOK, ShapeOK, Jobs, NEW w \in Workers, Take(w)
    PROVE  Jobs'
<1> DEFINE t == Head(backlog)
<1>1. /\ \A v \in Workers : v # w => worker'[v] = worker[v]
      /\ worker[w].at = "idle" /\ worker'[w].at = "begin" /\ worker'[w].task = t
      /\ UNCHANGED <<submitter, events, unlogged>>
  BY DEF Take, TypeOK, At, Idle
<1>2. /\ Len(backlog) \in Nat /\ Len(backlog) >= 1 /\ t = backlog[1]
      /\ DOMAIN backlog = 1 .. Len(backlog) /\ DOMAIN backlog' = 1 .. (Len(backlog) - 1)
      /\ \A i \in DOMAIN backlog' : i + 1 \in DOMAIN backlog /\ backlog'[i] = backlog[i + 1]
  BY DEF Take, TypeOK
<1> HIDE DEF t
<1>3. 1 \in DOMAIN backlog /\ \A i \in DOMAIN backlog' : backlog'[i] # t
  BY <1>2 DEF Jobs, OneJob
<1>4. ~Active(w) /\ Active(w)' /\ \A v \in Workers : v # w => Active(v)' = Active(v)
  BY <1>1 DEF Active
<1>5. OneJob'
  <2>1. \A i, j \in DOMAIN backlog' : backlog'[i] = backlog'[j] => i = j
    BY <1>2 DEF Jobs, OneJob
  <2>2. \A i \in DOMAIN backlog' : backlog'[i] # submitter'.task
    BY <1>1, <1>2 DEF Jobs, OneJob
  <2>3. \A i \in DOMAIN backlog', v \in Workers : Active(v)' => worker'[v].task # backlog'[i]
    BY <1>1, <1>2, <1>3, <1>4 DEF Jobs, OneJob
  <2>4. \A v \in Workers : Active(v)' => worker'[v].task # submitter'.task
    BY <1>1, <1>2, <1>3, <1>4 DEF Jobs, OneJob
  <2>5. \A v \in Workers : v # w /\ Active(v)' => worker'[v].task # t
    BY <1>1, <1>2, <1>3, <1>4 DEF Jobs, OneJob
  <2>6. \A u, v \in Workers :
           (Active(u)' /\ Active(v)' /\ worker'[u].task = worker'[v].task) => u = v
    BY <1>1, <1>4, <2>5 DEF Jobs, OneJob
  <2> QED
    BY <2>1, <2>2, <2>3, <2>4, <2>6 DEF OneJob
<1>6. SubmitterKnown' /\ BacklogKnown'
  BY <1>1, <1>2 DEF Jobs, SubmitterKnown, BacklogKnown
<1>7. WorkersKnown'
  <2>1. LatestIn(events', t) = "pending"
    BY <1>1, <1>2, <1>3 DEF Jobs, BacklogKnown
  <2>2. WorkerKnown(w)'
    BY <1>1, <2>1 DEF WorkerKnown
  <2>3. ASSUME NEW v \in Workers, v # w PROVE WorkerKnown(v)'
    BY <1>1, <2>3 DEF Jobs, WorkersKnown, WorkerKnown
  <2> QED
    BY <2>2, <2>3 DEF WorkersKnown
<1>8. HeldOrLost'
  <2>1. ASSUME NEW u \in Tasks, Held(u) PROVE Held(u)'
    <3>1. ASSUME NEW i \in DOMAIN backlog, backlog[i] = u PROVE Held(u)'
      <4>1. CASE i = 1
        BY <1>1, <1>2, <1>4, <3>1, <4>1 DEF Held
      <4>2. CASE i # 1
        <5>1. i - 1 \in DOMAIN backlog' /\ backlog'[i - 1] = backlog[i]
          BY <1>2, <4>2
        <5> QED
          BY <3>1, <5>1 DEF Held
      <4> QED
        BY <4>1, <4>2
    <3>2. (submitter.task = u \/ \E v \in Workers : Active(v) /\ worker[v].task = u) => Held(u)'
      BY <1>1, <1>4 DEF Held
    <3> QED
      BY <2>1, <3>1, <3>2 DEF Held
  <2> QED
    BY <1>1, <2>1 DEF Jobs, HeldOrLost
<1> QED
  BY <1>5, <1>6, <1>7, <1>8 DEF Jobs

\* A step of the event loop in submit keeps Jobs: the check of latest_for admits
\* a task only when nobody has a job for it.
LEMMA SubmitJobs ==
    ASSUME TypeOK, ShapeOK, Jobs, [Next]_vars,
           SubmitStep \/ \E t \in Tasks : Submit(t)
    PROVE  Jobs'
<1>a. \A t, status : LostIn(unlogged, t, status) => LostIn(unlogged', t, status)
  BY LostStays
<1>b. UNCHANGED worker
  BY DEF SubmitStep, Submit, SubmitAppends, SubmitWrites, SubmitWriteRaises, SubmitEnqueues
<1>c. \A w \in Workers : Active(w)' = Active(w)
  BY <1>b DEF Active
<1>1. ASSUME NEW t \in Tasks, Submit(t) PROVE Jobs'
  <2>0. /\ UNCHANGED <<events, backlog>>
        /\ submitter.at = "idle" /\ submitter.task = None
        /\ \/ submitter'.at = "idle" /\ submitter'.task = None
           \/ /\ submitter'.at = "append" /\ submitter'.task = t
              /\ LatestIn(events, t) \in {"none", "failed"}
    <3>1. LatestIn(events, t) = latest_for(t) /\ LatestIn(events, t) \in Statuses \cup {"none"}
      BY LatestType DEF TypeOK, LatestIn, latest_for
    <3> QED
      BY <1>1, <3>1 DEF Submit, Statuses, At, Idle
  <2>1. OneJob'
    <3>1. /\ \A i \in DOMAIN backlog : backlog[i] # submitter'.task
          /\ \A w \in Workers : Active(w) => worker[w].task # submitter'.task
      <4>1. ASSUME NEW i \in DOMAIN backlog PROVE backlog[i] # submitter'.task
        BY <2>0 DEF Jobs, BacklogKnown, OneJob
      <4>2. ASSUME NEW w \in Workers, Active(w) PROVE worker[w].task # submitter'.task
        <5>1. WorkerKnown(w) /\ worker[w].task # None /\ worker[w].at \in WorkerSteps
          BY <2>0, <4>2 DEF Jobs, WorkersKnown, OneJob, TypeOK
        <5> QED
          BY <2>0, <4>2, <5>1 DEF WorkerKnown, Active, WorkerSteps
      <4> QED
        BY <4>1, <4>2
    <3> QED
      BY <1>b, <1>c, <2>0, <3>1 DEF Jobs, OneJob
  <2>2. SubmitterKnown'
    BY <2>0 DEF SubmitterKnown
  <2>3. BacklogKnown'
    BY <2>0 DEF Jobs, BacklogKnown
  <2>4. WorkersKnown'
    BY <1>a, <1>b, <2>0 DEF Jobs, WorkersKnown, WorkerKnown
  <2>5. ASSUME NEW u \in Tasks, Held(u) PROVE Held(u)'
    BY <1>b, <1>c, <2>0, <2>5, NoneAssumption DEF Held
  <2>6. HeldOrLost'
    BY <1>a, <2>0, <2>5 DEF Jobs, HeldOrLost
  <2> QED
    BY <2>1, <2>2, <2>3, <2>4, <2>6 DEF Jobs
<1>2. ASSUME submitter.task \in Tasks, UNCHANGED backlog,
             submitter'.at # "append",
             submitter'.task \in {submitter.task, None},
             submitter'.task = None => submitter'.at = "idle",
             \A u : u # submitter.task => LatestIn(events', u) = LatestIn(events, u),
             LatestIn(events', submitter.task) = "pending",
             submitter'.task = None => LostIn(unlogged', submitter.task, "pending")
      PROVE  Jobs'
  <2>1. OneJob'
    <3>1. /\ \A i \in DOMAIN backlog : backlog[i] # submitter'.task
          /\ \A w \in Workers : Active(w) => worker[w].task # submitter'.task
      BY <1>2, NoneAssumption DEF Jobs, OneJob, TypeOK, ShapeOK, Active
    <3> QED
      BY <1>b, <1>c, <1>2, <3>1 DEF Jobs, OneJob
  <2>2. SubmitterKnown'
    BY <1>2 DEF SubmitterKnown
  <2>3. BacklogKnown'
    BY <1>2 DEF Jobs, BacklogKnown, OneJob
  <2>4. ASSUME NEW w \in Workers PROVE WorkerKnown(w)'
    <3>1. Active(w) => LatestIn(events', worker[w].task) = LatestIn(events, worker[w].task)
      BY <1>2 DEF Jobs, OneJob
    <3> QED
      BY <1>a, <1>b, <3>1 DEF Jobs, WorkersKnown, WorkerKnown, Active
  <2>5. ASSUME NEW u \in Tasks, Held(u), u # submitter.task PROVE Held(u)'
    BY <1>b, <1>c, <1>2, <2>5 DEF Held
  <2>6. HeldOrLost'
    <3> SUFFICES ASSUME NEW u \in Tasks, LatestIn(events', u) \in {"pending", "processing"}
                 PROVE  Held(u)' \/ LostIn(unlogged', u, LatestIn(events', u))
      BY DEF HeldOrLost
    <3>1. CASE u = submitter.task
      BY <1>2, <3>1 DEF Held
    <3>2. CASE u # submitter.task
      BY <1>a, <1>2, <2>5, <3>2 DEF Jobs, HeldOrLost
    <3> QED
      BY <3>1, <3>2
  <2> QED
    BY <2>1, <2>2, <2>3, <2>4, <2>6 DEF Jobs, WorkersKnown
<1>3. CASE SubmitAppends
  <2>1. submitter.task \in Tasks
    BY <1>3 DEF SubmitAppends, TypeOK, ShapeOK
  <2>2. \A u : LatestIn(events', u) = IF submitter.task = u THEN "pending" ELSE LatestIn(events, u)
    BY <1>3, <2>1, LatestStep DEF SubmitAppends, Statuses
  <2> QED
    BY <1>2, <1>3, <2>1, <2>2, NoneAssumption DEF SubmitAppends, At
<1>4. CASE SubmitWrites
  <2>1. submitter.task \in Tasks
    BY <1>4 DEF SubmitWrites, TypeOK, ShapeOK
  <2> QED
    BY <1>2, <1>4, <2>1, NoneAssumption DEF SubmitWrites, At, Jobs, SubmitterKnown
<1>5. CASE SubmitWriteRaises
  <2>1. submitter.task \in Tasks
    BY <1>5 DEF SubmitWriteRaises, TypeOK, ShapeOK
  <2>2. LostIn(unlogged', submitter.task, "pending")
    BY <1>5, WriteRaisesLoses DEF SubmitWriteRaises
  <2> QED
    BY <1>2, <1>5, <2>1, <2>2 DEF SubmitWriteRaises, At, Idle, Jobs, SubmitterKnown
<1>6. CASE SubmitEnqueues
  <2> DEFINE t == submitter.task
  <2>1. /\ t \in Tasks /\ submitter'.at = "idle" /\ submitter'.task = None
        /\ UNCHANGED <<events, unlogged>> /\ LatestIn(events, t) = "pending"
    BY <1>6 DEF SubmitEnqueues, At, Idle, TypeOK, ShapeOK, Jobs, SubmitterKnown
  <2>2. /\ Len(backlog) \in Nat /\ DOMAIN backlog = 1 .. Len(backlog)
        /\ DOMAIN backlog' = 1 .. (Len(backlog) + 1) /\ backlog'[Len(backlog) + 1] = t
        /\ \A i \in DOMAIN backlog : backlog'[i] = backlog[i] /\ backlog[i] \in Tasks
    BY <1>6 DEF SubmitEnqueues, TypeOK
  <2>3. /\ \A i \in DOMAIN backlog : backlog[i] # t
        /\ \A w \in Workers : Active(w) => worker[w].task # t /\ worker[w].task # None
    BY DEF Jobs, OneJob, TypeOK, ShapeOK, Active
  <2> HIDE DEF t
  <2>4. OneJob'
    <3>1. \A i, j \in DOMAIN backlog' : backlog'[i] = backlog'[j] => i = j
      BY <2>2, <2>3 DEF Jobs, OneJob
    <3>2. \A i \in DOMAIN backlog' : backlog'[i] # submitter'.task
      BY <2>1, <2>2, NoneAssumption
    <3>3. \A i \in DOMAIN backlog', w \in Workers : Active(w) => worker[w].task # backlog'[i]
      BY <2>2, <2>3 DEF Jobs, OneJob
    <3> QED
      BY <1>b, <1>c, <2>1, <2>3, <3>1, <3>2, <3>3 DEF Jobs, OneJob
  <2>5. SubmitterKnown'
    BY <2>1 DEF SubmitterKnown
  <2>6. BacklogKnown'
    BY <2>1, <2>2 DEF Jobs, BacklogKnown
  <2>7. WorkersKnown'
    BY <1>b, <2>1 DEF Jobs, WorkersKnown, WorkerKnown
  <2>8. ASSUME NEW u \in Tasks, Held(u) PROVE Held(u)'
    <3>1. t \in Tasks /\ Len(backlog) + 1 \in DOMAIN backlog' /\ DOMAIN backlog \subseteq DOMAIN backlog'
      BY <2>1, <2>2
    <3>2. CASE u = t
      BY <2>2, <3>1, <3>2 DEF Held
    <3>3. CASE u # t
      BY <1>b, <1>c, <2>2, <2>8, <3>1, <3>3 DEF Held, t
    <3> QED
      BY <3>2, <3>3
  <2>9. HeldOrLost'
    BY <2>1, <2>8 DEF Jobs, HeldOrLost
  <2> QED
    BY <2>4, <2>5, <2>6, <2>7, <2>9 DEF Jobs
<1> QED
  BY <1>1, <1>3, <1>4, <1>5, <1>6 DEF SubmitStep

\* Every step of the queue keeps Jobs.
LEMMA JobsStep ==
    ASSUME TypeOK, ShapeOK, Jobs, [Next]_vars
    PROVE  Jobs'
<1>1. CASE UNCHANGED vars
  BY <1>1 DEF vars, Jobs, OneJob, SubmitterKnown, BacklogKnown, WorkersKnown, WorkerKnown,
              HeldOrLost, Held, Active
<1> QED
  BY <1>1, SubmitJobs, TakeJobs, RunTaskJobs DEF Next, Rest

\* The status machine of one task: what may follow what.
MayFollow(t, old, new, lost) ==
    \/ <<old, new>> \in {<<"pending", "processing">>, <<"processing", "completed">>,
                         <<"processing", "failed">>, <<"failed", "pending">>}
    \/ /\ <<old, new>> = <<"completed", "failed">>
       /\ LostIn(lost, t, "completed")

\* Recording an event that may follow the newest one of its task keeps every
\* history legal.
LEMMA LegalAppend ==
    ASSUME TypeOK, LegalHistory, NEW t \in Tasks, NEW status \in Statuses,
           AppendEvent(t, status), UNCHANGED unlogged,
           \/ LatestIn(events, t) = "none"
           \/ MayFollow(t, LatestIn(events, t), status, unlogged)
    PROVE  LegalHistory'
<1>1. /\ Len(events) \in Nat /\ DOMAIN events = 1 .. Len(events)
      /\ DOMAIN events' = 1 .. (Len(events) + 1)
      /\ \A i \in DOMAIN events : events'[i] = events[i] /\ events[i] \in Event
      /\ events'[Len(events) + 1] = [task |-> t, status |-> status]
  BY DEF TypeOK, AppendEvent
<1> SUFFICES ASSUME NEW i \in DOMAIN events', NEW j \in DOMAIN events',
                    i < j, events'[i].task = events'[j].task,
                    \A k \in (i + 1) .. (j - 1) : events'[k].task # events'[i].task
             PROVE  MayFollow(events'[i].task, events'[i].status, events'[j].status, unlogged')
  BY DEF LegalHistory, MayFollow, Lost, LostIn
<1>2. i \in DOMAIN events
  BY <1>1
<1>3. CASE j \in DOMAIN events
  <2>1. \A k \in (i + 1) .. (j - 1) : events[k].task # events[i].task
    BY <1>1, <1>2, <1>3
  <2> QED
    BY <1>1, <1>2, <1>3, <2>1 DEF LegalHistory, MayFollow, Lost, LostIn
<1>4. CASE j \notin DOMAIN events
  <2>1. j = Len(events) + 1 /\ events[i].task = t
    BY <1>1, <1>2, <1>4
  <2>2. IsNewest(events, t, i)
    <3>1. ASSUME NEW k \in DOMAIN events, events[k].task = t PROVE k <= i
      BY <1>1, <1>2, <2>1, <3>1
    <3> QED
      BY <1>2, <2>1, <3>1 DEF IsNewest
  <2>3. LatestIn(events, t) = events[i].status
    BY <2>2, NewestIsLatest DEF TypeOK
  <2>4. events[i].status # "none"
    BY <1>1, <1>2 DEF Event, Statuses
  <2> QED
    BY <1>1, <1>2, <2>1, <2>3, <2>4
<1> QED
  BY <1>3, <1>4

\* Every step of the queue keeps the histories legal.
LEMMA LegalStep ==
    ASSUME TypeOK, ShapeOK, Jobs, LegalHistory, [Next]_vars
    PROVE  LegalHistory'
<1>1. CASE UNCHANGED events
  <2>1. \A t, status : LostIn(unlogged, t, status) => LostIn(unlogged', t, status)
    BY LostStays
  <2>2. \A t, status : Lost(t, status) => Lost(t, status)'
    BY <2>1 DEF Lost, LostIn
  <2> QED
    BY <1>1, <2>2 DEF LegalHistory
<1>2. CASE SubmitAppends
  <2>1. /\ submitter.task \in Tasks /\ "pending" \in Statuses
        /\ AppendEvent(submitter.task, "pending") /\ UNCHANGED unlogged
    BY <1>2 DEF SubmitAppends, TypeOK, ShapeOK, Statuses
  <2>2. LatestIn(events, submitter.task) \in {"none", "failed"}
    BY <1>2 DEF SubmitAppends, Jobs, SubmitterKnown
  <2> QED
    BY <2>1, <2>2, LegalAppend DEF MayFollow
<1>3. ASSUME NEW w \in Workers, BeginTask(w) \/ CompleteTask(w) \/ FailTask(w) PROVE LegalHistory'
  <2> DEFINE t == worker[w].task
  <2>1. t \in Tasks /\ UNCHANGED unlogged /\ WorkerKnown(w)
    BY <1>3 DEF BeginTask, CompleteTask, FailTask, TypeOK, ShapeOK, Jobs, WorkersKnown
  <2>2. CASE BeginTask(w)
    <3>1. LatestIn(events, t) = "pending" /\ AppendEvent(t, "processing") /\ "processing" \in Statuses
      BY <2>1, <2>2 DEF BeginTask, WorkerKnown, Statuses
    <3> QED
      BY <2>1, <3>1, LegalAppend DEF MayFollow
  <2>3. CASE CompleteTask(w)
    <3>1. LatestIn(events, t) = "processing" /\ AppendEvent(t, "completed") /\ "completed" \in Statuses
      BY <2>1, <2>3 DEF CompleteTask, WorkerKnown, Statuses
    <3> QED
      BY <2>1, <3>1, LegalAppend DEF MayFollow
  <2>4. CASE FailTask(w)
    <3>1. /\ \/ LatestIn(events, t) = "processing"
             \/ LatestIn(events, t) = "completed" /\ LostIn(unlogged, t, "completed")
          /\ AppendEvent(t, "failed") /\ "failed" \in Statuses
      BY <2>1, <2>4 DEF FailTask, WorkerKnown, Statuses
    <3>2. MayFollow(t, LatestIn(events, t), "failed", unlogged)
      BY <3>1 DEF MayFollow
    <3> QED
      BY <2>1, <3>1, <3>2, LegalAppend
  <2> QED
    BY <1>3, <2>2, <2>3, <2>4
<1> QED
  BY <1>1, <1>2, <1>3 DEF Next, SubmitStep, WorkerStep, Rest, vars, Submit, SubmitWrites,
     SubmitWriteRaises, SubmitEnqueues, Take, BeginWrites, BeginWriteRaises, Prove,
     CompleteWrites, CompleteWriteRaises, FailWrites, FailWriteRaises

-----------------------------------------------------------------------------
(***************************************************************************)
(* The file mirrors the list.                                              *)
(***************************************************************************)

\* When one worker moves, the workers about to write a line change by it alone.
LEMMA WritersStep ==
    ASSUME NEW e, NEW w \in Workers, \A v \in Workers : v # w => worker'[v] = worker[v]
    PROVE  /\ Cardinality(Writers(e)) \in Nat
           /\ Cardinality(Writers(e)') =
                 Cardinality(Writers(e)) - (IF w \in Writers(e) THEN 1 ELSE 0)
                                         + (IF w \in Writers(e)' THEN 1 ELSE 0)
<1>1. IsFiniteSet(Writers(e))
  BY WorkersAssumption, FS_Subset DEF Writers
<1>2. \A v : v # w => (v \in Writers(e) <=> v \in Writers(e)')
  BY DEF Writers
<1> QED
  BY <1>1, <1>2, OneMemberChanges

\* An event occurs so many times more than before.
Grows(old, new, e, by) == Occurrences(new, e) = Occurrences(old, e) + by

\* A list is unchanged, or one event was appended to it.
LEMMA GrowsFacts ==
    ASSUME NEW s \in Seq(Event), NEW x \in Event, NEW e
    PROVE  Grows(s, s, e, 0) /\ Grows(s, Append(s, x), e, IF x = e THEN 1 ELSE 0)
BY OccurrencesAppend DEF Grows

\* Every step of the queue keeps the file and the list in step.
LEMMA MirrorStep ==
    ASSUME TypeOK, ShapeOK, Mirrored, [Next]_vars
    PROVE  Mirrored'
<1> SUFFICES ASSUME NEW e \in Event
             PROVE  Occurrences(events', e) =
                       Occurrences(jsonl', e) + Occurrences(unlogged', e)
                         + Cardinality(Writers(e)') + SubmitterWrites(e)'
  BY DEF Mirrored
<1>0. /\ Occurrences(events, e) = Occurrences(jsonl, e) + Occurrences(unlogged, e)
                                     + Cardinality(Writers(e)) + SubmitterWrites(e)
      /\ Occurrences(events, e) \in Nat /\ Occurrences(jsonl, e) \in Nat
      /\ Occurrences(unlogged, e) \in Nat
      /\ SubmitterWrites(e) \in {0, 1}
  BY OccurrencesAppend DEF Mirrored, TypeOK, SubmitterWrites
<1>a. Cardinality(Writers(e)) \in Nat
  <2>1. IsFiniteSet(Writers(e))
    BY WorkersAssumption, FS_Subset DEF Writers
  <2> QED
    BY <2>1, FS_CardinalityType
<1>b. /\ Grows(events, events, e, 0) /\ Grows(jsonl, jsonl, e, 0) /\ Grows(unlogged, unlogged, e, 0)
  BY <1>0 DEF Grows
<1>c. ASSUME NEW t \in Tasks, NEW status \in Statuses
      PROVE  /\ AppendEvent(t, status) =>
                   Grows(events, events', e, IF t = e.task /\ status = e.status THEN 1 ELSE 0)
             /\ WriteLine(t, status) =>
                   /\ Grows(jsonl, jsonl', e, IF t = e.task /\ status = e.status THEN 1 ELSE 0)
                   /\ UNCHANGED unlogged
             /\ WriteRaises(t, status) =>
                   /\ Grows(unlogged, unlogged', e, IF t = e.task /\ status = e.status THEN 1 ELSE 0)
                   /\ UNCHANGED jsonl
  <2> DEFINE x == [task |-> t, status |-> status]
  <2>1. x \in Event /\ (x = e <=> t = e.task /\ status = e.status)
    BY DEF Event
  <2> HIDE DEF x
  <2>2. /\ Grows(events, Append(events, x), e, IF x = e THEN 1 ELSE 0)
        /\ Grows(jsonl, Append(jsonl, x), e, IF x = e THEN 1 ELSE 0)
        /\ Grows(unlogged, Append(unlogged, x), e, IF x = e THEN 1 ELSE 0)
    BY <2>1, GrowsFacts DEF TypeOK
  <2> QED
    BY <2>1, <2>2 DEF AppendEvent, WriteLine, WriteRaises, x
<1>d. "pending" \in Statuses /\ "processing" \in Statuses /\ "completed" \in Statuses /\ "failed" \in Statuses
  BY DEF Statuses
<1>1. CASE UNCHANGED worker
  <2>0. UNCHANGED Cardinality(Writers(e))
    BY <1>1 DEF Writers
  <2>1. CASE UNCHANGED <<events, jsonl, unlogged>> /\ submitter.at # "write" /\ submitter'.at # "write"
    BY <1>0, <2>0, <2>1 DEF SubmitterWrites
  <2>2. CASE SubmitAppends
    <3>1. submitter.task \in Tasks
      BY <2>2 DEF SubmitAppends, TypeOK, ShapeOK
    <3>2. Grows(events, events', e, IF submitter.task = e.task /\ "pending" = e.status THEN 1 ELSE 0)
      BY <1>c, <1>d, <2>2, <3>1 DEF SubmitAppends
    <3>3. /\ SubmitterWrites(e) = 0
          /\ SubmitterWrites(e)' = IF submitter.task = e.task /\ "pending" = e.status THEN 1 ELSE 0
          /\ UNCHANGED <<jsonl, unlogged>>
      BY <2>2 DEF SubmitAppends, SubmitterWrites, At
    <3> QED
      BY <1>0, <1>a, <2>0, <3>2, <3>3 DEF Grows
  <2>3. CASE SubmitWrites \/ SubmitWriteRaises
    <3>1. submitter.task \in Tasks /\ UNCHANGED events
      BY <2>3 DEF SubmitWrites, SubmitWriteRaises, TypeOK, ShapeOK
    <3>2. \/ /\ Grows(jsonl, jsonl', e, IF submitter.task = e.task /\ "pending" = e.status THEN 1 ELSE 0)
             /\ UNCHANGED unlogged
          \/ /\ Grows(unlogged, unlogged', e, IF submitter.task = e.task /\ "pending" = e.status THEN 1 ELSE 0)
             /\ UNCHANGED jsonl
      BY <1>c, <1>d, <2>3, <3>1 DEF SubmitWrites, SubmitWriteRaises
    <3>3. /\ SubmitterWrites(e)' = 0
          /\ SubmitterWrites(e) = IF submitter.task = e.task /\ "pending" = e.status THEN 1 ELSE 0
      BY <2>3 DEF SubmitWrites, SubmitWriteRaises, SubmitterWrites, At, Idle
    <3> QED
      BY <1>0, <1>a, <2>0, <3>1, <3>2, <3>3 DEF Grows
  <2>4. CASE UNCHANGED vars
    BY <1>0, <2>4 DEF vars, Writers, SubmitterWrites
  <2>5. CASE SubmitEnqueues \/ \E t \in Tasks : Submit(t)
    BY <2>1, <2>5 DEF SubmitEnqueues, Submit, At, Idle
  <2>6. ASSUME NEW w \in Workers, WorkerStep(w) PROVE FALSE
    BY <1>1, <2>6 DEF WorkerStep, Take, BeginTask, BeginWrites, BeginWriteRaises, Prove,
       CompleteTask, CompleteWrites, CompleteWriteRaises, FailTask, FailWrites, FailWriteRaises,
       Step, Free, At, Idle, TypeOK
  <2> QED
    BY <2>2, <2>3, <2>4, <2>5, <2>6 DEF Next, SubmitStep, Rest
<1>2. ASSUME NEW w \in Workers, WorkerStep(w)
      PROVE  Occurrences(events', e) = Occurrences(jsonl', e) + Occurrences(unlogged', e)
                                         + Cardinality(Writers(e)') + SubmitterWrites(e)'
  <2> DEFINE t == worker[w].task
             before == IF w \in Writers(e) THEN 1 ELSE 0
             after == IF w \in Writers(e)' THEN 1 ELSE 0
             by(status) == IF t = e.task /\ status = e.status THEN 1 ELSE 0
  <2>0. /\ UNCHANGED SubmitterWrites(e)
        /\ \A v \in Workers : v # w => worker'[v] = worker[v]
        /\ worker[w].at # "idle" => t \in Tasks
    BY <1>2 DEF WorkerStep, Take, BeginTask, BeginWrites, BeginWriteRaises, Prove,
       CompleteTask, CompleteWrites, CompleteWriteRaises, FailTask, FailWrites, FailWriteRaises,
       Step, Free, TypeOK, ShapeOK, SubmitterWrites
  <2>a. Cardinality(Writers(e)') = Cardinality(Writers(e)) - before + after
    BY <2>0, WritersStep
  <2>b. /\ w \in Writers(e) <=>
              /\ t = e.task
              /\ \/ worker[w].at = "begin_write" /\ e.status = "processing"
                 \/ worker[w].at = "complete_write" /\ e.status = "completed"
                 \/ worker[w].at = "fail_write" /\ e.status = "failed"
        /\ w \in Writers(e)' <=>
              /\ worker'[w].task = e.task
              /\ \/ worker'[w].at = "begin_write" /\ e.status = "processing"
                 \/ worker'[w].at = "complete_write" /\ e.status = "completed"
                 \/ worker'[w].at = "fail_write" /\ e.status = "failed"
    BY DEF Writers
  <2>c. before \in {0, 1} /\ after \in {0, 1} /\ \A status : by(status) \in {0, 1}
    OBVIOUS
  <2>1. CASE Take(w)
    <3>1. before = 0 /\ after = 0 /\ UNCHANGED <<events, jsonl, unlogged>>
      BY <2>1, <2>b DEF Take, At, Idle, TypeOK
    <3> HIDE DEF before, after
    <3> QED
      BY <1>0, <1>a, <2>0, <2>a, <3>1
  <2>2. CASE Prove(w)
    <3>1. before = 0 /\ after = 0 /\ UNCHANGED <<events, jsonl, unlogged>>
      BY <2>2, <2>b DEF Prove, Step, TypeOK
    <3> HIDE DEF before, after
    <3> QED
      BY <1>0, <1>a, <2>0, <2>a, <3>1
  <2>3. CASE BeginTask(w)
    <3>1. t \in Tasks /\ UNCHANGED <<jsonl, unlogged>>
      BY <2>0, <2>3 DEF BeginTask
    <3>2. before = 0 /\ after = by("processing")
      BY <2>3, <2>b DEF BeginTask, Step, TypeOK
    <3>3. Grows(events, events', e, by("processing"))
      BY <1>c, <1>d, <2>3, <3>1 DEF BeginTask
    <3> HIDE DEF before, after, by
    <3> QED
      BY <1>0, <1>a, <2>0, <2>a, <2>c, <3>1, <3>2, <3>3 DEF Grows
  <2>4. CASE CompleteTask(w)
    <3>1. t \in Tasks /\ UNCHANGED <<jsonl, unlogged>>
      BY <2>0, <2>4 DEF CompleteTask
    <3>2. before = 0 /\ after = by("completed")
      BY <2>4, <2>b DEF CompleteTask, Step, TypeOK
    <3>3. Grows(events, events', e, by("completed"))
      BY <1>c, <1>d, <2>4, <3>1 DEF CompleteTask
    <3> HIDE DEF before, after, by
    <3> QED
      BY <1>0, <1>a, <2>0, <2>a, <2>c, <3>1, <3>2, <3>3 DEF Grows
  <2>5. CASE FailTask(w)
    <3>1. t \in Tasks /\ UNCHANGED <<jsonl, unlogged>>
      BY <2>0, <2>5 DEF FailTask
    <3>2. before = 0 /\ after = by("failed")
      BY <2>5, <2>b DEF FailTask, Step, TypeOK
    <3>3. Grows(events, events', e, by("failed"))
      BY <1>c, <1>d, <2>5, <3>1 DEF FailTask
    <3> HIDE DEF before, after, by
    <3> QED
      BY <1>0, <1>a, <2>0, <2>a, <2>c, <3>1, <3>2, <3>3 DEF Grows
  <2>6. CASE BeginWrites(w)
    <3>1. t \in Tasks /\ UNCHANGED events
      BY <2>0, <2>6 DEF BeginWrites
    <3>2. before = by("processing") /\ after = 0
      BY <2>6, <2>b DEF BeginWrites, Step, TypeOK
    <3>3. Grows(jsonl, jsonl', e, by("processing")) /\ UNCHANGED unlogged
      BY <1>c, <1>d, <2>6, <3>1 DEF BeginWrites
    <3> HIDE DEF before, after, by
    <3> QED
      BY <1>0, <1>a, <2>0, <2>a, <2>c, <3>1, <3>2, <3>3 DEF Grows
  <2>7. CASE BeginWriteRaises(w)
    <3>1. t \in Tasks /\ UNCHANGED events
      BY <2>0, <2>7 DEF BeginWriteRaises
    <3>2. before = by("processing") /\ after = 0
      BY <2>7, <2>b DEF BeginWriteRaises, Free, At, Idle, TypeOK
    <3>3. Grows(unlogged, unlogged', e, by("processing")) /\ UNCHANGED jsonl
      BY <1>c, <1>d, <2>7, <3>1 DEF BeginWriteRaises
    <3> HIDE DEF before, after, by
    <3> QED
      BY <1>0, <1>a, <2>0, <2>a, <2>c, <3>1, <3>2, <3>3 DEF Grows
  <2>8. CASE CompleteWrites(w)
    <3>1. t \in Tasks /\ UNCHANGED events
      BY <2>0, <2>8 DEF CompleteWrites
    <3>2. before = by("completed") /\ after = 0
      BY <2>8, <2>b DEF CompleteWrites, Free, At, Idle, TypeOK
    <3>3. Grows(jsonl, jsonl', e, by("completed")) /\ UNCHANGED unlogged
      BY <1>c, <1>d, <2>8, <3>1 DEF CompleteWrites
    <3> HIDE DEF before, after, by
    <3> QED
      BY <1>0, <1>a, <2>0, <2>a, <2>c, <3>1, <3>2, <3>3 DEF Grows
  <2>9. CASE CompleteWriteRaises(w)
    <3>1. t \in Tasks /\ UNCHANGED events
      BY <2>0, <2>9 DEF CompleteWriteRaises
    <3>2. before = by("completed") /\ after = 0
      BY <2>9, <2>b DEF CompleteWriteRaises, Step, TypeOK
    <3>3. Grows(unlogged, unlogged', e, by("completed")) /\ UNCHANGED jsonl
      BY <1>c, <1>d, <2>9, <3>1 DEF CompleteWriteRaises
    <3> HIDE DEF before, after, by
    <3> QED
      BY <1>0, <1>a, <2>0, <2>a, <2>c, <3>1, <3>2, <3>3 DEF Grows
  <2>10. CASE FailWrites(w)
    <3>1. t \in Tasks /\ UNCHANGED events
      BY <2>0, <2>10 DEF FailWrites
    <3>2. before = by("failed") /\ after = 0
      BY <2>10, <2>b DEF FailWrites, Free, At, Idle, TypeOK
    <3>3. Grows(jsonl, jsonl', e, by("failed")) /\ UNCHANGED unlogged
      BY <1>c, <1>d, <2>10, <3>1 DEF FailWrites
    <3> HIDE DEF before, after, by
    <3> QED
      BY <1>0, <1>a, <2>0, <2>a, <2>c, <3>1, <3>2, <3>3 DEF Grows
  <2>11. CASE FailWriteRaises(w)
    <3>1. t \in Tasks /\ UNCHANGED events
      BY <2>0, <2>11 DEF FailWriteRaises
    <3>2. before = by("failed") /\ after = 0
      BY <2>11, <2>b DEF FailWriteRaises, Free, At, Idle, TypeOK
    <3>3. Grows(unlogged, unlogged', e, by("failed")) /\ UNCHANGED jsonl
      BY <1>c, <1>d, <2>11, <3>1 DEF FailWriteRaises
    <3> HIDE DEF before, after, by
    <3> QED
      BY <1>0, <1>a, <2>0, <2>a, <2>c, <3>1, <3>2, <3>3 DEF Grows
  <2> QED
    BY <1>2, <2>1, <2>2, <2>3, <2>4, <2>5, <2>6, <2>7, <2>8, <2>9, <2>10, <2>11 DEF WorkerStep
<1> QED
  BY <1>1, <1>2 DEF Next, SubmitStep, Submit, SubmitAppends, SubmitWrites, SubmitWriteRaises,
     SubmitEnqueues, Rest, vars

-----------------------------------------------------------------------------
(***************************************************************************)
(* The theorems.                                                           *)
(***************************************************************************)

\* The inductive invariant: what the newest event of each task says about where
\* its job is, and what is still to be written to the file.
THEOREM Invariance == Spec => []IInv
<1>1. Init => IInv
  <2> SUFFICES ASSUME Init PROVE IInv
    OBVIOUS
  <2>1. TypeOK /\ ShapeOK
    BY BoundAssumption DEF Init, TypeOK, ShapeOK, At, Idle, SubmitSteps, WorkerSteps
  <2>2. /\ DOMAIN events = {} /\ DOMAIN jsonl = {} /\ DOMAIN unlogged = {} /\ DOMAIN backlog = {}
        /\ submitter.at = "idle" /\ \A w \in Workers : worker[w].at = "idle"
    BY DEF Init, At, Idle
  <2>3. OneJob /\ SubmitterKnown /\ BacklogKnown /\ WorkersKnown
    BY <2>2 DEF OneJob, SubmitterKnown, BacklogKnown, WorkersKnown, WorkerKnown, Active
  <2>4. HeldOrLost /\ LegalHistory
    BY <2>2 DEF HeldOrLost, LatestIn, LegalHistory
  <2>5. ASSUME NEW e \in Event
        PROVE  /\ Occurrences(events, e) = 0 /\ Occurrences(jsonl, e) = 0
               /\ Occurrences(unlogged, e) = 0
               /\ Cardinality(Writers(e)) = 0 /\ SubmitterWrites(e) = 0
    <3>1. /\ {i \in DOMAIN events : events[i] = e} = {}
          /\ {i \in DOMAIN jsonl : jsonl[i] = e} = {}
          /\ {i \in DOMAIN unlogged : unlogged[i] = e} = {}
          /\ Writers(e) = {}
      BY <2>2 DEF Writers
    <3> QED
      BY <2>2, <3>1, FS_EmptySet DEF Occurrences, SubmitterWrites
  <2>6. Mirrored
    BY <2>5 DEF Mirrored
  <2> QED
    BY <2>1, <2>3, <2>4, <2>6 DEF IInv
<1>2. IInv /\ [Next]_vars => IInv'
  BY ShapeStep, JobsStep, LegalStep, MirrorStep DEF IInv, Jobs
<1> QED
  BY <1>1, <1>2, PTL DEF Spec

\* The queue's variables keep their types.
THEOREM TypeCorrect == Spec => []TypeOK
<1>1. IInv => TypeOK
  BY DEF IInv
<1> QED
  BY <1>1, Invariance, PTL

\* No schedule of submit, the executor's threads and failing writes makes two
\* jobs for one task.
THEOREM NoDuplicateJob == Spec => []SingleFlight
<1>1. IInv => SingleFlight
  <2> SUFFICES ASSUME IInv, NEW t \in Tasks
               PROVE  (IF Submitting(t) THEN 1 ELSE 0) + Cardinality(Queued(t))
                         + Cardinality(Running(t)) <= 1
    BY DEF SingleFlight
  <2>1. Running(t) = {w \in Workers : Active(w) /\ worker[w].task = t}
    BY NoneAssumption DEF Running, Active, IInv, ShapeOK
  <2>2. /\ Queued(t) = {} \/ \E i : Queued(t) = {i}
        /\ Running(t) = {} \/ \E w : Running(t) = {w}
    <3>1. \A i, j \in Queued(t) : i = j
      BY DEF Queued, IInv, OneJob
    <3>2. \A v, w \in Running(t) : v = w
      BY <2>1 DEF IInv, OneJob
    <3> QED
      BY <3>1, <3>2
  <2>3. /\ Submitting(t) => Queued(t) = {} /\ Running(t) = {}
        /\ Queued(t) = {} \/ Running(t) = {}
    BY <2>1 DEF Submitting, Queued, IInv, OneJob
  <2>4. Cardinality({}) = 0 /\ \A x : Cardinality({x}) = 1
    BY FS_EmptySet, FS_Singleton
  <2>5. /\ Queued(t) = {} => Cardinality(Queued(t)) = 0
        /\ Running(t) = {} => Cardinality(Running(t)) = 0
        /\ Cardinality(Queued(t)) \in {0, 1} /\ Cardinality(Running(t)) \in {0, 1}
    BY <2>2, <2>4
  <2> QED
    BY <2>3, <2>5
<1> QED
  BY <1>1, Invariance, PTL

\* The recorded history of every task follows the queue's status machine.
THEOREM HistoriesLegal == Spec => []LegalHistory
<1>1. IInv => LegalHistory
  BY DEF IInv
<1> QED
  BY <1>1, Invariance, PTL

\* A task shown pending or processing that nobody works on had its line lost:
\* the only way the queue abandons a job is a failed write.
THEOREM NoSilentAbandon == Spec => []AbandonedOnlyUnlogged
<1>1. IInv => AbandonedOnlyUnlogged
  <2> SUFFICES ASSUME IInv, NEW t \in Tasks, latest_for(t) \in {"pending", "processing"},
                      ~InFlight(t)
               PROVE  Lost(t, latest_for(t))
    BY DEF AbandonedOnlyUnlogged
  <2>1. latest_for(t) = LatestIn(events, t)
    BY DEF latest_for, LatestIn
  <2>2. ~Held(t)
    BY DEF InFlight, Submitting, Queued, Running, Held, Active
  <2> QED
    BY <2>1, <2>2 DEF IInv, HeldOrLost, Lost, LostIn
<1> QED
  BY <1>1, Invariance, PTL

\* When every thread rests, each event is in the file exactly once or its write
\* raised.
THEOREM FileMirrorsList == Spec => []MirrorComplete
<1>1. IInv => MirrorComplete
  <2> SUFFICES ASSUME IInv, Resting, NEW e \in Event
               PROVE  Occurrences(events, e) = Occurrences(jsonl, e) + Occurrences(unlogged, e)
    BY DEF MirrorComplete
  <2>1. Writers(e) = {} /\ SubmitterWrites(e) = 0
    BY DEF Resting, Writers, SubmitterWrites, Idle, At
  <2>2. Cardinality(Writers(e)) = 0
    BY <2>1, FS_EmptySet
  <2>3. Occurrences(jsonl, e) \in Nat /\ Occurrences(unlogged, e) \in Nat
    BY OccurrencesAppend DEF IInv, TypeOK
  <2> QED
    BY <2>1, <2>2, <2>3 DEF IInv, Mirrored
<1> QED
  BY <1>1, Invariance, PTL
=============================================================================
