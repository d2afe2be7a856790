-------------------------- MODULE CoordinatorProofs --------------------------
(***************************************************************************)
(* Theorems about the agents' coordinator, for every set of scenarios: any *)
(* tasks may misbehave, for any number of cycles and processes, and any    *)
(* file may be unreadable.                                                 *)
(*                                                                         *)
(* The inductive invariant has six parts.  Control bounds the control      *)
(* state, Placed says where each task of a cycle is, Scanned what the loop *)
(* of _execute_dag knows of the tasks it has placed, Graphed what is in    *)
(* the artifact graph, Counted bounds what is counted per agent by the     *)
(* cycle, and Saved relates the memory of the process to its four files.   *)
(***************************************************************************)
EXTENDS Coordinator, SetFacts

-----------------------------------------------------------------------------
(* The inductive invariant.                                                *)

MemoryFields == {"strategy", "circuits", "vulns", "performance"}
InCycle == {"scan", "run", "record", "flush", "report", "stalled", "raised"}

Control ==
    /\ plan \in Plans /\ starts \in 0 .. plan.starts
    /\ lost \subseteq MemoryFields
    /\ pc \in InCycle \cup {"down", "idle"}
    /\ cycle \in 0 .. plan.cycles /\ (pc \in InCycle => cycle # 0)
    /\ cursor \in 1 .. 11 /\ (pc = "flush" => cursor \in 1 .. 4)

\* A function from some of the tasks.
OfTasks(f, S) == f \in [DOMAIN f -> S] /\ DOMAIN f \subseteq Tasks

\* Every task of a cycle is in exactly one place.
Placed ==
    /\ pending \subseteq Tasks /\ ready_assignments \subseteq Tasks
    /\ OfTasks(blocked_tasks, Reasons) /\ OfTasks(ready_results, Result)
    /\ OfTasks(results, Result)
    /\ pending \cap ready_assignments = {}
    /\ DOMAIN results \cap DOMAIN ready_results = {}
    /\ (pending \cup ready_assignments) \cap (DOMAIN results \cup DOMAIN ready_results) = {}
    /\ DOMAIN blocked_tasks \cap (pending \cup ready_assignments) = {}
    /\ DOMAIN blocked_tasks \cap (DOMAIN results \cup DOMAIN ready_results) = {}
    /\ LET all == pending \cup ready_assignments \cup DOMAIN blocked_tasks
                    \cup DOMAIN ready_results \cup DOMAIN results
       IN  all = Tasks \/ (all = {} /\ pc \in {"down", "idle"})
    /\ pc # "run" => DOMAIN ready_results = {}
    /\ pc \in {"record", "flush", "report", "stalled"} => ready_assignments = {}
    /\ pc \in {"record", "flush", "report"} => pending = {}

\* The memory is the one the loop consults.
Consulted == pc \in {"scan", "run", "record", "stalled"}
Started == ready_assignments \cup DOMAIN ready_results \cup DOMAIN results

\* What the loop knows of the tasks it has placed.
Scanned ==
    /\ pc # "raised"
    /\ \A t \in Started : depends_on[t] \subseteq completed
    /\ Consulted => \A t \in Started : ~is_strategy_blocked(memory.strategy, t)
    /\ terminal_failures = (DOMAIN results \ completed) \cup
          {t \in DOMAIN blocked_tasks : blocked_tasks[t] = "memory_blocked"}
    /\ \A t \in DOMAIN blocked_tasks :
          IF blocked_tasks[t] = "memory_blocked"
          THEN Consulted => is_strategy_blocked(memory.strategy, t)
          ELSE FailedDependencies(t) # {}
    /\ pc = "scan" => \A i \in 1 .. cursor - 1 :
          SortedTasks[i] \in pending => ~ depends_on[SortedTasks[i]] \subseteq completed
    /\ pc = "stalled" => \A t \in pending : ~ depends_on[t] \subseteq completed

Graphed ==
    /\ graph.artifacts = UNION {Artifacts(t) : t \in completed}
    /\ graph.edges = UNION {artifact_requirements[t] \X Artifacts(t) : t \in completed}

\* How many cycles have been recorded.
Recorded == IF pc \in {"scan", "run", "record", "stalled", "raised"} THEN cycle - 1 ELSE cycle

\* Scores, and the weighted mean that moves them.
Scores == 0 .. 10000
Mean(s, c) == Round(6 * s + 4 * c, 10)

RecordUpTo(n) == [score : Scores, consecutive_failures : 0 .. n,
                  tasks_completed : 0 .. n, tasks_failed : 0 .. n]
Agent == [status : {"idle", "running", "done", "failed"}, version : Seq(1 .. plan.cycles)]

Counted ==
    /\ records \in [Tasks -> RecordUpTo(Recorded)]
    /\ agents \in [Tasks -> Agent]
    /\ DOMAIN log \subseteq 1 .. plan.cycles

\* A memory with its four lists, of entries of the first n cycles.
EntryUpTo(n) == [task : Tasks, outcome : Outcome, cycle : 1 .. n]
PerformanceUpTo(n) == [agent_id : Tasks, cycle : 1 .. n,
                       tasks_completed : 0 .. n, tasks_failed : 0 .. n]
MemoryOK(m, n) ==
    /\ m = [f \in MemoryFields |-> m[f]]
    /\ m.strategy \in Seq(EntryUpTo(n))
    /\ m.circuits \in Seq(1 .. n) /\ m.vulns \in Seq(1 .. n)
    /\ m.performance \subseteq PerformanceUpTo(n)

\* A list extends another.
Extends(s, r) == Len(r) <= Len(s) /\ \A i \in 1 .. Len(r) : s[i] = r[i]

SameKeys(p, q) ==
    \A e \in p : \E n \in q : n.agent_id = e.agent_id /\ n.cycle = e.cycle

\* A memory has everything that the files of d outside l have, and unblocks
\* nothing that they block.
Keeps(m, d, l) ==
    /\ \A f \in {"strategy", "circuits", "vulns"} \ l : Extends(m[f], d[f])
    /\ "performance" \notin l => SameKeys(d.performance, m.performance)
    /\ "strategy" \notin l =>
          \A t \in Tasks : is_strategy_blocked(d.strategy, t) => is_strategy_blocked(m.strategy, t)

Saved ==
    /\ MemoryOK(memory, plan.cycles) /\ MemoryOK(disk, plan.cycles)
    /\ pc # "down" => Keeps(memory, disk, lost)
    /\ pc = "flush" => \A i \in 1 .. cursor - 1 : disk[Files[i]] = memory[Files[i]]
    /\ pc = "report" => disk = memory

IInv == Control /\ Placed /\ Scanned /\ Graphed /\ Counted /\ Saved

-----------------------------------------------------------------------------
(* The fixed graph of tasks, and the four files.                           *)

\* The ten tasks, and their order.
LEMMA TaskFacts ==
    /\ Tasks = {"backend_integration", "circuit_design", "data_integrity", "devops",
                "prove_bundle", "research", "security", "testing", "verifier",
                "zk_architecture"}
    /\ Len(SortedTasks) = 10 /\ DOMAIN SortedTasks = 1 .. 10
    /\ \A i \in 1 .. 10 : SortedTasks[i] \in Tasks
    /\ \A t \in Tasks : \E i \in 1 .. 10 : t = SortedTasks[i]
<1>1. Tasks = {"backend_integration", "circuit_design", "data_integrity", "devops",
               "prove_bundle", "research", "security", "testing", "verifier",
               "zk_architecture"}
  BY DEF Tasks, depends_on
<1>2. Len(SortedTasks) = 10 /\ DOMAIN SortedTasks = 1 .. 10
  BY DEF SortedTasks
<1>3. /\ SortedTasks[1] = "backend_integration" /\ SortedTasks[2] = "circuit_design"
      /\ SortedTasks[3] = "data_integrity" /\ SortedTasks[4] = "devops"
      /\ SortedTasks[5] = "prove_bundle" /\ SortedTasks[6] = "research"
      /\ SortedTasks[7] = "security" /\ SortedTasks[8] = "testing"
      /\ SortedTasks[9] = "verifier" /\ SortedTasks[10] = "zk_architecture"
  BY DEF SortedTasks
<1>4. 1 .. 10 = {1, 2, 3, 4, 5, 6, 7, 8, 9, 10}
  OBVIOUS
<1>5. \A i \in 1 .. 10 : SortedTasks[i] \in Tasks
  BY <1>1, <1>3, <1>4, Zenon
<1>6. \A t \in Tasks : \E i \in 1 .. 10 : t = SortedTasks[i]
  BY <1>1, <1>3, <1>4, Zenon
<1> QED
  BY <1>1, <1>2, <1>5, <1>6

\* What each task waits for is a task.
LEMMA DependenciesAreTasks == \A t \in Tasks : depends_on[t] \subseteq Tasks
BY DEF Tasks, depends_on

\* The four files.
LEMMA FileFacts ==
    /\ DOMAIN empty_memory = MemoryFields
    /\ Len(Files) = 4
    /\ Files[1] = "strategy" /\ Files[2] = "circuits" /\ Files[3] = "vulns"
    /\ Files[4] = "performance"
    /\ empty_memory.strategy = << >> /\ empty_memory.circuits = << >>
    /\ empty_memory.vulns = << >> /\ empty_memory.performance = {}
BY DEF empty_memory, MemoryFields, Files

\* A step that considers a task moves the cursor past it.
LEMMA ConsideredTask ==
    ASSUME NEW t, Considering(t)
    PROVE  /\ pc = "scan" /\ t \in pending /\ t \in Tasks /\ cursor' \in 2 .. 11
           /\ FailedDependencies(t) # {} \/ depends_on[t] \subseteq completed
           /\ SortedTasks[cursor' - 1] = t
           /\ \A j \in cursor .. cursor' - 2 : PassedOver(SortedTasks[j])
<1>1. PICK i \in DOMAIN SortedTasks : /\ t = SortedTasks[i] /\ NextToConsider(i)
                                      /\ cursor' = i + 1
  BY DEF Considering
<1>2. i \in 1 .. 10 /\ t \in Tasks /\ cursor' - 1 = i /\ cursor' - 2 = i - 1
  BY <1>1, TaskFacts
<1>3. ~PassedOver(t) /\ \A j \in cursor .. i - 1 : PassedOver(SortedTasks[j])
  BY <1>1 DEF NextToConsider
<1> QED
  BY <1>1, <1>2, <1>3 DEF Considering, PassedOver

-----------------------------------------------------------------------------
(* Control.                                                                *)

\* Every step keeps the control state in its range.
LEMMA ControlInductive ==
    ASSUME Control, [Next]_vars
    PROVE  Control'
<1>p. /\ plan \in Plans => plan.cycles \in Nat \ {0} /\ plan.starts \in Nat \ {0}
  BY PlansAssumption
<1>1. ASSUME NEW unreadable \in SUBSET DOMAIN empty_memory, StartProcess(unreadable)
      PROVE  Control'
  BY <1>p, <1>1, FileFacts DEF StartProcess, Control, InCycle
<1>2. CASE EndProcess \/ Crash
  BY <1>p, <1>2 DEF EndProcess, Crash, ForgetProcess, runVars, Control, InCycle
<1>3. CASE BeginCycle
  BY <1>p, <1>3 DEF BeginCycle, runVars, Control, InCycle
<1>4. ASSUME NEW t \in Tasks, DependencyFailed(t) \/ MemoryBlocked(t) \/ AssignTask(t)
      PROVE  Control'
  <2>1. Considering(t) /\ pc' \in {pc, "raised"}
    BY <1>4 DEF DependencyFailed, MemoryBlocked, AssignTask, Unobstructed, DropTask
  <2>2. pc = "scan" /\ cursor' \in 2 .. 11
    BY <2>1, ConsideredTask
  <2>3. UNCHANGED << plan, starts, lost, cycle >>
    BY <2>1 DEF Considering, runVars
  <2> QED
    BY <2>1, <2>2, <2>3 DEF Control, InCycle
<1>5. CASE Dispatch \/ Stall \/ DagDone
  BY <1>5 DEF Dispatch, Stall, DagDone, EndOfScan, runVars, Control, InCycle
<1>6. ASSUME NEW t \in Tasks, AgentReturns(t)
      PROVE  Control'
  BY <1>6 DEF AgentReturns, runVars, Control, InCycle
<1>7. CASE CollectRound \/ RecordResults
  BY <1>7 DEF CollectRound, RecordResults, runVars, Control, InCycle
<1>8. CASE SaveFile
  BY <1>8, FileFacts DEF SaveFile, runVars, Control, InCycle
<1>9. CASE FinishCycle
  BY <1>9 DEF FinishCycle, runVars, Control, InCycle
<1>10. CASE UNCHANGED vars
  BY <1>10 DEF vars, runVars, Control
<1> QED
  BY <1>1, <1>2, <1>3, <1>4, <1>5, <1>6, <1>7, <1>8, <1>9, <1>10 DEF Next, CycleStep, Scan

-----------------------------------------------------------------------------
(* The places of the tasks.                                                *)

\* A task is added to a table.
LEMMA AddFacts ==
    ASSUME NEW f, NEW S, OfTasks(f, S), NEW t \in Tasks, NEW v \in S, t \notin DOMAIN f
    PROVE  /\ OfTasks(Add(f, t, v), S) /\ DOMAIN Add(f, t, v) = DOMAIN f \cup {t}
           /\ Add(f, t, v)[t] = v /\ \A x \in DOMAIN f : Add(f, t, v)[x] = f[x]
BY DEF Add, OfTasks

\* The empty table.
LEMMA EmptyFacts == DOMAIN Empty = {} /\ \A S : OfTasks(Empty, S)
BY DEF Empty, OfTasks

\* What an agent hands back.
LEMMA ResultFacts ==
    ASSUME plan \in Plans, NEW t, NEW r \in AgentResults(t)
    PROVE  r \in Result
<1>0. /\ Duration["none"] = 100 /\ Duration["artifact"] = 100 /\ Duration["time"] = 2000
      /\ DOMAIN Duration = {"none", "artifact", "time"}
  BY DEF Duration
<1>1. ASSUME NEW v, NEW w \in {"none", "artifact", "time"}
      PROVE  Returned(t, v, w) \in Result
  BY <1>0 DEF Returned, Result, Outcome
<1>2. Raised \in Result
  BY DEF Raised, Result, Outcome
<1>3. {"none"} \cup (plan.faults \ {"exception"}) \subseteq {"none", "artifact", "time"}
  BY PlansAssumption
<1>4. \/ \E v \in Verdicts(t), w \in {"none"} \cup (plan.faults \ {"exception"}) :
             r = Returned(t, v, w)
      \/ r = Raised
      \/ \E v \in SoundVerdicts(t) : r = Returned(t, v, "none")
  BY DEF AgentResults
<1> QED
  BY <1>1, <1>2, <1>3, <1>4

\* Every step keeps each task of the cycle in one place.
LEMMA PlacedInductive ==
    ASSUME Control, Placed, [Next]_vars
    PROVE  Placed'
<1> DEFINE B == DOMAIN blocked_tasks
           Q == DOMAIN ready_results
           R == DOMAIN results
<1>0. /\ OfTasks(blocked_tasks, Reasons) /\ OfTasks(ready_results, Result)
      /\ OfTasks(results, Result)
  BY DEF Placed
<1>1. ASSUME ForgetCycle, pc' \in {"down", "idle"}
      PROVE  Placed'
  BY <1>1, EmptyFacts DEF ForgetCycle, Placed
<1>2. CASE BeginCycle
  BY <1>2, EmptyFacts DEF BeginCycle, Placed
<1>3. ASSUME NEW t \in Tasks, DependencyFailed(t) \/ MemoryBlocked(t)
      PROVE  Placed'
  <2>1. Considering(t)
    BY <1>3 DEF DependencyFailed, MemoryBlocked, Unobstructed
  <2>2. PICK reason \in Reasons : DropTask(t, reason)
    BY <1>3 DEF DependencyFailed, MemoryBlocked, Reasons
  <2>3. pc = "scan" /\ t \in pending /\ t \notin B
    BY <2>1, ConsideredTask DEF Placed
  <2>4. /\ OfTasks(blocked_tasks', Reasons) /\ DOMAIN blocked_tasks' = B \cup {t}
    BY <1>0, <2>2, <2>3, AddFacts DEF DropTask
  <2>5. UNCHANGED << ready_results, results, ready_assignments, pc >> /\ pending' = pending \ {t}
    BY <2>1, <2>2 DEF Considering, DropTask
  <2> QED
    BY <2>3, <2>4, <2>5 DEF Placed
<1>4. ASSUME NEW t \in Tasks, AssignTask(t)
      PROVE  Placed'
  <2>1. Considering(t)
    BY <1>4 DEF AssignTask, Unobstructed
  <2>2. pc = "scan" /\ t \in pending
    BY <2>1, ConsideredTask
  <2>3. /\ UNCHANGED << ready_results, results, blocked_tasks >> /\ pending' = pending \ {t}
        /\ ready_assignments' = ready_assignments \cup {t} /\ pc' \in {"scan", "raised"}
    BY <1>4, <2>1, <2>2 DEF Considering, AssignTask
  <2> QED
    BY <2>2, <2>3 DEF Placed
<1>5. ASSUME UNCHANGED dagVars, pc # "run",
             \/ /\ pc' \in {"record", "stalled"} /\ ready_assignments = {}
                /\ pc' = "record" => pending = {}
                /\ pc = "scan"
             \/ pc' = "run" /\ pc = "scan"
             \/ pc \in {"record", "flush", "report"} /\ pc' \in {"flush", "report", "idle"}
      PROVE  Placed'
  BY <1>5 DEF dagVars, Placed
<1>6. CASE Dispatch \/ Stall \/ DagDone
  <2>1. UNCHANGED dagVars /\ pc = "scan" /\ pc' \in {"run", "stalled", "record"}
    BY <1>6 DEF Dispatch, Stall, DagDone, EndOfScan
  <2>2. /\ pc' \in {"record", "stalled"} => ready_assignments = {}
        /\ pc' = "record" => pending = {}
    BY <1>6 DEF Dispatch, Stall, DagDone
  <2> QED
    BY <1>5, <2>1, <2>2
<1>7. CASE RecordResults \/ SaveFile \/ FinishCycle
  <2>1. /\ UNCHANGED dagVars /\ pc \in {"record", "flush", "report"}
        /\ pc' \in {"flush", "report", "idle"}
    BY <1>7 DEF RecordResults, SaveFile, FinishCycle
  <2> QED
    BY <1>5, <2>1
<1>8. ASSUME NEW t \in Tasks, AgentReturns(t)
      PROVE  Placed'
  <2>1. PICK r \in AgentResults(t) : ready_results' = Add(ready_results, t, r)
    BY <1>8 DEF AgentReturns
  <2>2. r \in Result
    BY <2>1, ResultFacts DEF Control
  <2>3. /\ pc = "run" /\ pc' = pc /\ t \in ready_assignments
        /\ ready_assignments' = ready_assignments \ {t}
        /\ UNCHANGED << pending, blocked_tasks, results >>
    BY <1>8 DEF AgentReturns
  <2>4. t \notin Q
    BY <2>3 DEF Placed
  <2>5. OfTasks(ready_results', Result) /\ DOMAIN ready_results' = Q \cup {t}
    BY <1>0, <2>1, <2>2, <2>4, AddFacts
  <2> QED
    BY <2>3, <2>5 DEF Placed
<1>9. CASE CollectRound
  <2>1. /\ pc = "run" /\ ready_assignments = {} /\ pc' = "scan" /\ ready_results' = Empty
        /\ UNCHANGED << pending, blocked_tasks, ready_assignments >>
        /\ results' = [t \in R \cup Q |-> IF t \in R THEN results[t] ELSE ready_results[t]]
    BY <1>9 DEF CollectRound
  <2>2. OfTasks(results', Result) /\ DOMAIN results' = R \cup Q
    BY <1>0, <2>1 DEF OfTasks
  <2>3. OfTasks(ready_results', Result) /\ DOMAIN ready_results' = {}
    BY <2>1, EmptyFacts
  <2> QED
    BY <2>1, <2>2, <2>3 DEF Placed
<1>10. CASE UNCHANGED vars
  BY <1>10 DEF vars, dagVars, Placed
<1>11. ASSUME NEW unreadable, StartProcess(unreadable) PROVE Placed'
  BY <1>1, <1>11 DEF StartProcess
<1>12. CASE EndProcess \/ Crash
  BY <1>1, <1>12 DEF EndProcess, Crash, ForgetProcess
<1> QED
  BY <1>2, <1>3, <1>4, <1>6, <1>7, <1>8, <1>9, <1>10, <1>11, <1>12 DEF Next, CycleStep, Scan

-----------------------------------------------------------------------------
(* The loop of _execute_dag.                                               *)

\* Whom each task waits for.
LEMMA Waits ==
    /\ depends_on["zk_architecture"] = {}
    /\ depends_on["circuit_design"] = {"zk_architecture"}
    /\ depends_on["backend_integration"] = {"circuit_design"}
    /\ depends_on["prove_bundle"] = {"backend_integration"}
    /\ depends_on["verifier"] = {"prove_bundle"}
    /\ depends_on["testing"] = {"verifier"} /\ depends_on["data_integrity"] = {"verifier"}
    /\ depends_on["devops"] = {"verifier"} /\ depends_on["research"] = {"verifier"}
    /\ depends_on["security"] = {"testing"}
BY DEF depends_on

\* The artifacts a task consumes are produced by tasks it waits for, directly or
\* through others, although depends_on names direct predecessors only.
LEMMA RequirementsProduced ==
    ASSUME NEW C, \A c \in C : depends_on[c] \subseteq C, NEW t \in Tasks,
           depends_on[t] \subseteq C
    PROVE  artifact_requirements[t] \subseteq UNION {Artifacts(c) : c \in C}
<1> DEFINE U == UNION {Artifacts(c) : c \in C}
<1>1. /\ "zk_architecture" \in C => << "circuit", "zk_architecture" >> \in U
      /\ "circuit_design" \in C => CircuitA \in U
      /\ "backend_integration" \in C => TraceA \in U /\ WitnessA \in U
      /\ "prove_bundle" \in C => ProofA \in U
      /\ "verifier" \in C => VerificationA \in U
  <2>1. /\ << "circuit", "zk_architecture" >> \in Artifacts("zk_architecture")
        /\ CircuitA \in Artifacts("circuit_design")
        /\ TraceA \in Artifacts("backend_integration")
        /\ WitnessA \in Artifacts("backend_integration")
        /\ ProofA \in Artifacts("prove_bundle")
        /\ VerificationA \in Artifacts("verifier")
    BY TaskFacts DEF Artifacts, produces, CircuitA, TraceA, WitnessA, ProofA, VerificationA
  <2> QED
    BY <2>1
<1>2. /\ "circuit_design" \in C => "zk_architecture" \in C
      /\ "backend_integration" \in C => "circuit_design" \in C
      /\ "prove_bundle" \in C => "backend_integration" \in C
      /\ "verifier" \in C => "prove_bundle" \in C
      /\ "testing" \in C => "verifier" \in C
  BY Waits
<1>3. /\ artifact_requirements["zk_architecture"] = {}
      /\ artifact_requirements["circuit_design"] = {<< "circuit", "zk_architecture" >>}
      /\ artifact_requirements["backend_integration"] = {CircuitA}
      /\ artifact_requirements["prove_bundle"] = {CircuitA, TraceA, WitnessA}
      /\ artifact_requirements["verifier"] = {CircuitA, TraceA, WitnessA, ProofA}
      /\ artifact_requirements["testing"] = {ProofA, VerificationA}
      /\ artifact_requirements["data_integrity"] = {TraceA, WitnessA, ProofA}
      /\ artifact_requirements["devops"] = {VerificationA}
      /\ artifact_requirements["research"] = {CircuitA, ProofA, VerificationA}
      /\ artifact_requirements["security"] = {CircuitA, TraceA, WitnessA, ProofA}
  BY DEF artifact_requirements
<1> HIDE DEF U
<1>4. artifact_requirements[t] \subseteq U
  <2>1. CASE t \in {"zk_architecture", "circuit_design", "backend_integration"}
    BY <1>1, <1>2, <1>3, <2>1, Waits
  <2>2. CASE t \in {"prove_bundle", "verifier"}
    BY <1>1, <1>2, <1>3, <2>2, Waits
  <2>3. CASE t \in {"testing", "data_integrity", "devops", "research"}
    BY <1>1, <1>2, <1>3, <2>3, Waits
  <2>4. CASE t = "security"
    BY <1>1, <1>2, <1>3, <2>4, Waits
  <2> QED
    BY <2>1, <2>2, <2>3, <2>4, TaskFacts
<1> QED
  BY <1>4 DEF U

\* The tasks that completed, and what they waited for.
LEMMA CompletedFacts ==
    ASSUME Placed, Scanned
    PROVE  /\ completed \subseteq DOMAIN results /\ completed \subseteq Tasks
           /\ \A c \in completed : depends_on[c] \subseteq completed
BY DEF completed, Placed, OfTasks, Scanned, Started

\* The tasks of a round that succeeded complete when it is collected.
LEMMA CollectCompletes ==
    ASSUME Placed, CollectRound
    PROVE  completed' = completed \cup Succeeded
<1>1. results' = [t \in DOMAIN results \cup DOMAIN ready_results |->
                    IF t \in DOMAIN results THEN results[t] ELSE ready_results[t]]
  BY DEF CollectRound
<1>2. /\ DOMAIN results' = DOMAIN results \cup DOMAIN ready_results
      /\ \A t \in DOMAIN results : results'[t] = results[t]
  BY <1>1
<1>3. \A t \in DOMAIN ready_results : results'[t] = ready_results[t]
  BY <1>1 DEF Placed
<1> QED
  BY <1>2, <1>3 DEF completed, Succeeded

\* A position the cursor has passed was passed before or in this step.
LEMMA BeforeOrSince ==
    ASSUME NEW c \in 1 .. 11, NEW d \in 2 .. 11, NEW i \in 1 .. d - 1, i # d - 1
    PROVE  i \in 1 .. c - 1 \/ i \in c .. d - 2
OBVIOUS

\* Every step keeps what the loop knows of the tasks.
LEMMA ScannedInductive ==
    ASSUME Control, Placed, Scanned, Graphed, [Next]_vars
    PROVE  Scanned'
<1> DEFINE MB(f) == {x \in DOMAIN f : f[x] = "memory_blocked"}
<1>c. UNCHANGED results => completed' = completed
  BY DEF completed
<1>1. ASSUME ForgetCycle \/ BeginCycle, pc' \in {"down", "idle", "scan"},
             pc' = "scan" => cursor' = 1
      PROVE  Scanned'
  <2>1. /\ ready_assignments' = {} /\ blocked_tasks' = Empty /\ ready_results' = Empty
        /\ results' = Empty /\ terminal_failures' = {}
    BY <1>1 DEF ForgetCycle, BeginCycle
  <2>2. Started' = {} /\ completed' = {} /\ DOMAIN results' = {} /\ DOMAIN blocked_tasks' = {}
    BY <2>1, EmptyFacts DEF Started, completed
  <2> QED
    BY <1>1, <2>1, <2>2 DEF Scanned
<1>2. ASSUME NEW t \in Tasks, DependencyFailed(t) \/ MemoryBlocked(t)
      PROVE  Scanned'
  <2>1. Considering(t)
    BY <1>2 DEF DependencyFailed, MemoryBlocked, Unobstructed
  <2>2. /\ pc = "scan" /\ t \in pending /\ t \notin DOMAIN blocked_tasks
        /\ SortedTasks[cursor' - 1] = t /\ cursor' \in 2 .. 11
        /\ \A j \in cursor .. cursor' - 2 : PassedOver(SortedTasks[j])
    BY <2>1, ConsideredTask DEF Placed
  <2>3. PICK reason \in Reasons : /\ DropTask(t, reason)
                                  /\ reason = "dependency_failed" =>
                                        FailedDependencies(t) # {} /\ UNCHANGED terminal_failures
                                  /\ reason = "memory_blocked" =>
                                        /\ is_strategy_blocked(memory.strategy, t)
                                        /\ terminal_failures' = terminal_failures \cup {t}
    BY <1>2 DEF DependencyFailed, MemoryBlocked, Reasons
  <2>4. /\ DOMAIN blocked_tasks' = DOMAIN blocked_tasks \cup {t} /\ blocked_tasks'[t] = reason
        /\ \A x \in DOMAIN blocked_tasks : blocked_tasks'[x] = blocked_tasks[x]
    <3>1. blocked_tasks' = Add(blocked_tasks, t, reason)
      BY <2>3 DEF DropTask
    <3> QED
      BY <2>2, <3>1 DEF Add
  <2>5. /\ UNCHANGED << ready_results, results, ready_assignments, pc, memory >>
        /\ pending' = pending \ {t}
    BY <2>1, <2>3 DEF Considering, DropTask, processVars
  <2>6. completed' = completed /\ Started' = Started /\ Consulted' = Consulted
    BY <1>c, <2>5 DEF Started, Consulted
  <2>7. /\ terminal_failures \subseteq terminal_failures'
        /\ \A x : FailedDependencies(x) \subseteq FailedDependencies(x)'
    BY <2>3 DEF Reasons, FailedDependencies
  <2>8. terminal_failures' = (DOMAIN results' \ completed') \cup MB(blocked_tasks')
    <3>1. terminal_failures = (DOMAIN results \ completed) \cup MB(blocked_tasks)
      BY DEF Scanned
    <3>2. MB(blocked_tasks') = MB(blocked_tasks) \cup (IF reason = "memory_blocked" THEN {t} ELSE {})
      BY <2>4
    <3>3. terminal_failures' = terminal_failures \cup (IF reason = "memory_blocked" THEN {t} ELSE {})
      BY <2>3 DEF Reasons
    <3> HIDE DEF MB
    <3> QED
      BY <2>5, <2>6, <3>1, <3>2, <3>3
  <2>9. ASSUME NEW x \in DOMAIN blocked_tasks'
        PROVE  IF blocked_tasks'[x] = "memory_blocked"
               THEN Consulted' => is_strategy_blocked(memory.strategy, x)'
               ELSE FailedDependencies(x)' # {}
    <3>1. CASE x = t
      BY <2>3, <2>4, <2>5, <2>7, <3>1 DEF Reasons
    <3>2. CASE x # t
      <4>1. x \in DOMAIN blocked_tasks /\ blocked_tasks'[x] = blocked_tasks[x]
        BY <2>4, <3>2
      <4>2. IF blocked_tasks[x] = "memory_blocked"
            THEN Consulted => is_strategy_blocked(memory.strategy, x)
            ELSE FailedDependencies(x) # {}
        BY <4>1 DEF Scanned
      <4> QED
        BY <2>5, <2>6, <2>7, <4>1, <4>2
    <3> QED
      BY <3>1, <3>2
  <2>10. ASSUME NEW i \in 1 .. cursor' - 1, SortedTasks[i] \in pending'
         PROVE  ~ depends_on[SortedTasks[i]] \subseteq completed
    <3>1. i # cursor' - 1
      BY <2>2, <2>5, <2>10
    <3>2. CASE i \in 1 .. cursor - 1
      BY <2>2, <2>5, <2>10, <3>2 DEF Scanned
    <3>3. CASE i \in cursor .. cursor' - 2
      BY <2>2, <2>5, <2>10, <3>3 DEF PassedOver
    <3>4. cursor \in 1 .. 11 /\ cursor' \in 2 .. 11
      BY <2>2 DEF Control
    <3>5. i \in 1 .. cursor - 1 \/ i \in cursor .. cursor' - 2
      BY <3>1, <3>4, BeforeOrSince
    <3> QED
      BY <3>2, <3>3, <3>5
  <2> QED
    BY <2>2, <2>5, <2>6, <2>8, <2>9, <2>10 DEF Scanned
<1>3. ASSUME NEW t \in Tasks, AssignTask(t)
      PROVE  Scanned'
  <2>1. Considering(t) /\ FailedDependencies(t) = {}
    BY <1>3 DEF AssignTask, Unobstructed
  <2>2. /\ pc = "scan" /\ t \in pending /\ depends_on[t] \subseteq completed
        /\ SortedTasks[cursor' - 1] = t /\ cursor' \in 2 .. 11
        /\ \A j \in cursor .. cursor' - 2 : PassedOver(SortedTasks[j])
    BY <2>1, ConsideredTask
  <2>3. Resolvable(t)
    BY <2>2, CompletedFacts, RequirementsProduced DEF Resolvable, Graphed
  <2>4. /\ UNCHANGED << ready_results, results, blocked_tasks, terminal_failures, pc, memory >>
        /\ pending' = pending \ {t} /\ ready_assignments' = ready_assignments \cup {t}
        /\ ~is_strategy_blocked(memory.strategy, t)
    BY <1>3, <2>1, <2>3 DEF Considering, AssignTask, processVars
  <2>5. completed' = completed /\ Started' = Started \cup {t} /\ Consulted' = Consulted
    BY <1>c, <2>4 DEF Started, Consulted
  <2>6. ASSUME NEW i \in 1 .. cursor' - 1, SortedTasks[i] \in pending'
        PROVE  ~ depends_on[SortedTasks[i]] \subseteq completed
    <3>1. i # cursor' - 1
      BY <2>2, <2>4, <2>6
    <3>2. CASE i \in 1 .. cursor - 1
      BY <2>2, <2>4, <2>6, <3>2 DEF Scanned
    <3>3. CASE i \in cursor .. cursor' - 2
      BY <2>2, <2>4, <2>6, <3>3 DEF PassedOver
    <3>4. cursor \in 1 .. 11 /\ cursor' \in 2 .. 11
      BY <2>2 DEF Control
    <3>5. i \in 1 .. cursor - 1 \/ i \in cursor .. cursor' - 2
      BY <3>1, <3>4, BeforeOrSince
    <3> QED
      BY <3>2, <3>3, <3>5
  <2> QED
    BY <2>2, <2>4, <2>5, <2>6 DEF Scanned, FailedDependencies
<1>4. ASSUME UNCHANGED << dagVars, memory >>, pc' \notin {"scan", "raised"},
             Consulted' => Consulted,
             pc' = "stalled" => \A t \in pending : ~ depends_on[t] \subseteq completed
      PROVE  Scanned'
  <2>1. completed' = completed /\ Started' = Started
    BY <1>c, <1>4 DEF Started, dagVars
  <2> QED
    BY <1>4, <2>1 DEF Scanned, dagVars, FailedDependencies
<1>5. CASE Dispatch \/ DagDone
  <2>1. UNCHANGED << dagVars, memory >> /\ pc' \in {"run", "record"} /\ Consulted
    BY <1>5 DEF Dispatch, DagDone, EndOfScan, processVars, Consulted
  <2> QED
    BY <1>4, <2>1
<1>6. CASE Stall
  <2>1. /\ UNCHANGED << dagVars, memory >> /\ pc' = "stalled" /\ Consulted /\ pc = "scan"
        /\ \A i \in cursor .. 10 : PassedOver(SortedTasks[i])
    BY <1>6, TaskFacts DEF Stall, EndOfScan, processVars, Consulted
  <2>2. ASSUME NEW t \in pending
        PROVE  ~ depends_on[t] \subseteq completed
    <3>1. PICK i \in 1 .. 10 : t = SortedTasks[i]
      BY TaskFacts DEF Placed
    <3>2. CASE i \in 1 .. cursor - 1
      BY <2>1, <3>1, <3>2 DEF Scanned
    <3>3. CASE i \in cursor .. 10
      BY <2>1, <3>1, <3>3 DEF PassedOver
    <3> QED
      BY <3>2, <3>3 DEF Control
  <2> QED
    BY <1>4, <2>1, <2>2
<1>7. ASSUME NEW t \in Tasks, AgentReturns(t)
      PROVE  Scanned'
  <2>1. PICK r \in AgentResults(t) : ready_results' = Add(ready_results, t, r)
    BY <1>7 DEF AgentReturns
  <2>2. /\ pc = "run" /\ t \in ready_assignments /\ ready_assignments' = ready_assignments \ {t}
        /\ UNCHANGED << pc, pending, terminal_failures, blocked_tasks, results, memory >>
    BY <1>7 DEF AgentReturns
  <2>3. DOMAIN ready_results' = DOMAIN ready_results \cup {t}
    BY <2>1 DEF Add
  <2>4. completed' = completed /\ Started' = Started /\ Consulted' = Consulted
    BY <1>c, <2>2, <2>3 DEF Started, Consulted
  <2> QED
    BY <2>2, <2>4 DEF Scanned, FailedDependencies
<1>8. CASE CollectRound
  <2>1. /\ pc = "run" /\ pc' = "scan" /\ cursor' = 1 /\ ready_results' = Empty
        /\ UNCHANGED << pending, blocked_tasks, ready_assignments, memory >>
        /\ terminal_failures' = terminal_failures \cup (DOMAIN ready_results \ Succeeded)
        /\ results' = [t \in DOMAIN results \cup DOMAIN ready_results |->
                         IF t \in DOMAIN results THEN results[t] ELSE ready_results[t]]
    BY <1>8 DEF CollectRound, processVars
  <2>2. DOMAIN results' = DOMAIN results \cup DOMAIN ready_results
    BY <2>1
  <2>3. completed' = completed \cup Succeeded
    BY <1>8, CollectCompletes
  <2>4. Started' = Started /\ Consulted' /\ Consulted
    BY <2>1, <2>2, EmptyFacts DEF Started, Consulted
  <2>5. DOMAIN results' \ completed' = (DOMAIN results \ completed) \cup
                                          (DOMAIN ready_results \ Succeeded)
    BY <2>2, <2>3 DEF Placed, completed, Succeeded
  <2>6. \A x : FailedDependencies(x) \subseteq FailedDependencies(x)'
    BY <2>1 DEF FailedDependencies
  <2>7. terminal_failures' = (DOMAIN results' \ completed') \cup MB(blocked_tasks')
    <3>1. terminal_failures = (DOMAIN results \ completed) \cup MB(blocked_tasks)
      BY DEF Scanned
    <3> HIDE DEF MB
    <3> QED
      BY <2>1, <2>5, <3>1
  <2>8. \A t \in Started' : /\ depends_on[t] \subseteq completed'
                            /\ ~is_strategy_blocked(memory.strategy, t)
    BY <2>3, <2>4 DEF Scanned
  <2>9. ASSUME NEW x \in DOMAIN blocked_tasks'
        PROVE  IF blocked_tasks'[x] = "memory_blocked"
               THEN Consulted' => is_strategy_blocked(memory.strategy, x)'
               ELSE FailedDependencies(x)' # {}
    <3>1. IF blocked_tasks[x] = "memory_blocked"
          THEN Consulted => is_strategy_blocked(memory.strategy, x)
          ELSE FailedDependencies(x) # {}
      BY <2>1 DEF Scanned
    <3> QED
      BY <2>1, <2>4, <2>6, <3>1
  <2> QED
    BY <2>1, <2>7, <2>8, <2>9 DEF Scanned
<1>9. CASE RecordResults
  <2>1. UNCHANGED dagVars /\ pc' = "flush"
    BY <1>9 DEF RecordResults
  <2>2. completed' = completed /\ Started' = Started /\ ~Consulted'
    BY <1>c, <2>1 DEF Started, dagVars, Consulted
  <2> QED
    BY <2>1, <2>2 DEF Scanned, dagVars, FailedDependencies
<1>10. CASE SaveFile \/ FinishCycle
  <2>1. UNCHANGED << dagVars, memory >> /\ pc' \in {"flush", "report", "idle"} /\ ~Consulted'
    BY <1>10 DEF SaveFile, FinishCycle, processVars, Consulted
  <2> QED
    BY <1>4, <2>1
<1>11. CASE UNCHANGED vars
  <2>1. completed' = completed /\ Started' = Started /\ Consulted' = Consulted
    BY <1>c, <1>11 DEF vars, dagVars, processVars, Started, Consulted
  <2> QED
    BY <1>11, <2>1 DEF vars, dagVars, processVars, Scanned, FailedDependencies
<1>12. ASSUME NEW unreadable, StartProcess(unreadable) PROVE Scanned'
  BY <1>1, <1>12 DEF StartProcess
<1>13. CASE EndProcess \/ Crash
  BY <1>1, <1>13 DEF EndProcess, Crash, ForgetProcess
<1>14. CASE BeginCycle
  <2>1. pc' = "scan" /\ cursor' = 1
    BY <1>14 DEF BeginCycle
  <2> QED
    BY <1>1, <1>14, <2>1
<1> QED
  BY <1>2, <1>3, <1>5, <1>6, <1>7, <1>8, <1>9, <1>10, <1>11, <1>12, <1>13, <1>14
     DEF Next, CycleStep, Scan

-----------------------------------------------------------------------------
(* The artifact graph.                                                     *)

\* Every step keeps the graph that of the completed tasks.
LEMMA GraphedInductive ==
    ASSUME Placed, Graphed, [Next]_vars
    PROVE  Graphed'
<1>1. ASSUME results' = Empty, graph' = empty_graph
      PROVE  Graphed'
  <2>1. completed' = {}
    BY <1>1, EmptyFacts DEF completed
  <2> QED
    BY <1>1, <2>1 DEF Graphed, empty_graph
<1>2. ASSUME UNCHANGED << results, graph >>
      PROVE  Graphed'
  BY <1>2 DEF Graphed, completed
<1>3. CASE CollectRound
  <2>1. completed' = completed \cup Succeeded
    BY <1>3, CollectCompletes
  <2>2. /\ graph'.artifacts = graph.artifacts \cup UNION {Artifacts(t) : t \in Succeeded}
        /\ graph'.edges = graph.edges
              \cup UNION {artifact_requirements[t] \X Artifacts(t) : t \in Succeeded}
    BY <1>3 DEF CollectRound, add_artifacts
  <2> DEFINE A(S) == UNION {Artifacts(t) : t \in S}
             E(S) == UNION {artifact_requirements[t] \X Artifacts(t) : t \in S}
  <2>3. /\ A(completed \cup Succeeded) = A(completed) \cup A(Succeeded)
        /\ E(completed \cup Succeeded) = E(completed) \cup E(Succeeded)
    OBVIOUS
  <2>4. graph.artifacts = A(completed) /\ graph.edges = E(completed)
    BY DEF Graphed
  <2>5. graph'.artifacts = A(completed') /\ graph'.edges = E(completed')
    <3> HIDE DEF A, E
    <3> QED
      BY <2>1, <2>2, <2>3, <2>4 DEF A, E
  <2> QED
    BY <2>5 DEF Graphed
<1>4. ASSUME NEW unreadable, StartProcess(unreadable) PROVE Graphed'
  BY <1>1, <1>4 DEF StartProcess, ForgetCycle
<1>5. CASE EndProcess \/ Crash \/ BeginCycle
  BY <1>1, <1>5 DEF EndProcess, Crash, BeginCycle, ForgetProcess, ForgetCycle
<1>6. ASSUME NEW t \in Tasks, DependencyFailed(t) \/ MemoryBlocked(t) \/ AssignTask(t)
      PROVE  Graphed'
  BY <1>2, <1>6 DEF DependencyFailed, MemoryBlocked, AssignTask, Unobstructed, Considering
<1>7. CASE Dispatch \/ Stall \/ DagDone \/ RecordResults \/ SaveFile \/ FinishCycle
  BY <1>2, <1>7 DEF Dispatch, Stall, DagDone, RecordResults, SaveFile, FinishCycle, dagVars
<1>8. ASSUME NEW t \in Tasks, AgentReturns(t) PROVE Graphed'
  BY <1>2, <1>8 DEF AgentReturns
<1>9. CASE UNCHANGED vars
  BY <1>2, <1>9 DEF vars, dagVars
<1> QED
  BY <1>3, <1>4, <1>5, <1>6, <1>7, <1>8, <1>9 DEF Next, CycleStep, Scan

-----------------------------------------------------------------------------
(* The performance tracker and the agents.                                 *)

\* What one result is worth.
LEMMA CandidateBounds ==
    ASSUME NEW r \in Result
    PROVE  CandidateScore(r) \in Scores
<1>1. r.duration \in {0, 100, 2000}
  <2>1. {Duration[v] : v \in DOMAIN Duration} \subseteq {100, 2000}
    BY DEF Duration
  <2> QED
    BY <2>1 DEF Result
<1> DEFINE base == IF r.status = "success" THEN 7000 ELSE 1750
           speed == Round(3000 * 500, 500 + r.duration)
<1>2. speed \in 0 .. 3000
  <2>1. CASE r.duration = 0
    BY <2>1 DEF Round
  <2>2. CASE r.duration = 100
    BY <2>2 DEF Round
  <2>3. CASE r.duration = 2000
    BY <2>3 DEF Round
  <2> QED
    BY <1>1, <2>1, <2>2, <2>3
<1>3. base \in {1750, 7000} /\ CandidateScore(r) = base + speed
  BY DEF CandidateScore
<1> HIDE DEF base, speed
<1> QED
  BY <1>2, <1>3 DEF Scores

\* The weighted mean of two scores is a score.
LEMMA MeanBounds ==
    ASSUME NEW s \in Scores, NEW c \in Scores
    PROVE  Mean(s, c) \in Scores
BY DEF Mean, Round, Scores

\* A score stays between 0 and 1, and a result counts once.
LEMMA RecordBounds ==
    ASSUME NEW n \in Nat, NEW p \in RecordUpTo(n), NEW r \in Result
    PROVE  record(p, r) \in RecordUpTo(n + 1)
<1>1. Mean(p.score, CandidateScore(r)) \in Scores
  BY CandidateBounds, MeanBounds DEF RecordUpTo
<1>2. /\ p.consecutive_failures \in 0 .. n /\ p.tasks_completed \in 0 .. n
      /\ p.tasks_failed \in 0 .. n
  BY DEF RecordUpTo
<1>3. /\ (IF r.status = "success" THEN 0 ELSE p.consecutive_failures + 1) \in 0 .. n + 1
      /\ p.tasks_completed + (IF r.status = "success" THEN 1 ELSE 0) \in 0 .. n + 1
      /\ p.tasks_failed + (IF r.status = "success" THEN 0 ELSE 1) \in 0 .. n + 1
  BY <1>2
<1>4. record(p, r) =
        [score |-> Mean(p.score, CandidateScore(r)),
         consecutive_failures |-> IF r.status = "success" THEN 0 ELSE p.consecutive_failures + 1,
         tasks_completed |-> p.tasks_completed + (IF r.status = "success" THEN 1 ELSE 0),
         tasks_failed |-> p.tasks_failed + (IF r.status = "success" THEN 0 ELSE 1)]
  BY DEF record, Mean
<1> DEFINE upTo == 0 .. n + 1
<1>5. RecordUpTo(n + 1) = [score : Scores, consecutive_failures : upTo,
                           tasks_completed : upTo, tasks_failed : upTo]
  BY DEF RecordUpTo
<1>6. /\ (IF r.status = "success" THEN 0 ELSE p.consecutive_failures + 1) \in upTo
      /\ p.tasks_completed + (IF r.status = "success" THEN 1 ELSE 0) \in upTo
      /\ p.tasks_failed + (IF r.status = "success" THEN 0 ELSE 1) \in upTo
  BY <1>3
<1> HIDE DEF upTo
<1> QED
  BY <1>1, <1>4, <1>5, <1>6

\* A bound on the counts may be raised.
LEMMA RecordGrows ==
    ASSUME NEW n \in Nat, NEW p \in RecordUpTo(n)
    PROVE  p \in RecordUpTo(n + 1)
<1> DEFINE low == 0 .. n
           high == 0 .. n + 1
<1>1. low \subseteq high
  OBVIOUS
<1>2. /\ RecordUpTo(n) = [score : Scores, consecutive_failures : low,
                          tasks_completed : low, tasks_failed : low]
      /\ RecordUpTo(n + 1) = [score : Scores, consecutive_failures : high,
                              tasks_completed : high, tasks_failed : high]
  BY DEF RecordUpTo
<1> HIDE DEF low, high
<1>3. /\ p = [score |-> p.score, consecutive_failures |-> p.consecutive_failures,
              tasks_completed |-> p.tasks_completed, tasks_failed |-> p.tasks_failed]
      /\ p.score \in Scores /\ p.consecutive_failures \in low
      /\ p.tasks_completed \in low /\ p.tasks_failed \in low
  BY <1>2
<1> QED
  BY <1>1, <1>2, <1>3

\* Every step keeps the counts of the agents below the cycles recorded.
LEMMA CountedInductive ==
    ASSUME Control, Placed, Counted, [Next]_vars
    PROVE  Counted'
<1>p. plan.cycles \in Nat \ {0} /\ cycle \in 0 .. plan.cycles
  BY PlansAssumption DEF Control
<1>r. Recorded \in Nat /\ records \in [Tasks -> RecordUpTo(Recorded)] /\ agents \in [Tasks -> Agent]
      /\ DOMAIN log \subseteq 1 .. plan.cycles
  BY <1>p DEF Recorded, Counted, Control, InCycle
<1>a. plan' = plan => Agent' = Agent
  BY DEF Agent
<1>1. ASSUME UNCHANGED << plan, records, agents, log >>, Recorded' = Recorded
      PROVE  Counted'
  BY <1>1, <1>a, <1>r DEF Counted
<1>2. ASSUME UNCHANGED << plan, log >>, cycle' = 0, pc' \in {"down", "idle"},
             records' = [t \in Tasks |-> new_record], agents' = [t \in Tasks |-> fresh_agent]
      PROVE  Counted'
  <2>1. Recorded' = 0 /\ new_record \in RecordUpTo(0)
    BY <1>2 DEF Recorded, RecordUpTo, new_record, Scores
  <2>2. fresh_agent \in Agent
    BY DEF fresh_agent, Agent
  <2> QED
    BY <1>2, <1>a, <1>r, <2>1, <2>2 DEF Counted
<1>3. ASSUME NEW unreadable, StartProcess(unreadable) PROVE Counted'
  BY <1>2, <1>3 DEF StartProcess
<1>4. CASE EndProcess \/ Crash
  BY <1>2, <1>4 DEF EndProcess, Crash, ForgetProcess, runVars
<1>5. CASE BeginCycle
  <2>1. UNCHANGED << plan, records, agents, log >> /\ pc = "idle" /\ pc' = "scan"
        /\ cycle' = cycle + 1
    BY <1>5 DEF BeginCycle, runVars, processVars
  <2>2. Recorded' = Recorded
    BY <1>p, <2>1 DEF Recorded
  <2> QED
    BY <1>1, <2>1, <2>2
<1>6. ASSUME NEW t \in Tasks, DependencyFailed(t) \/ MemoryBlocked(t) \/ AssignTask(t)
      PROVE  Counted'
  <2>1. Considering(t) /\ pc' \in {pc, "raised"}
    BY <1>6 DEF DependencyFailed, MemoryBlocked, AssignTask, Unobstructed, DropTask
  <2>2. UNCHANGED << plan, records, agents, log, cycle >> /\ pc = "scan"
    BY <2>1 DEF Considering, runVars, processVars
  <2> QED
    BY <1>1, <2>1, <2>2 DEF Recorded
<1>7. CASE Stall \/ DagDone \/ CollectRound \/ SaveFile
  <2>1. UNCHANGED << plan, records, agents, log, cycle >>
    BY <1>7 DEF Stall, DagDone, CollectRound, SaveFile, runVars, processVars
  <2>2. Recorded' = Recorded
    BY <1>7, <2>1 DEF Stall, DagDone, CollectRound, SaveFile, EndOfScan, Recorded
  <2> QED
    BY <1>1, <2>1, <2>2
<1>8. ASSUME UNCHANGED << plan, records, log >>, Recorded' = Recorded, agents' \in [Tasks -> Agent]
      PROVE  Counted'
  BY <1>8, <1>a, <1>r DEF Counted
<1>9. CASE Dispatch
  <2>1. UNCHANGED << plan, records, log, cycle >> /\ pc = "scan" /\ pc' = "run"
    BY <1>9 DEF Dispatch, EndOfScan, runVars
  <2>2. agents' \in [Tasks -> Agent]
    BY <1>9, <1>r DEF Dispatch, Agent
  <2> QED
    BY <1>8, <2>1, <2>2 DEF Recorded
<1>10. ASSUME NEW t \in Tasks, AgentReturns(t) PROVE Counted'
  <2>1. UNCHANGED << plan, records, log, cycle, pc >>
    BY <1>10 DEF AgentReturns, runVars
  <2>2. agents' \in [Tasks -> Agent]
    BY <1>10, <1>r DEF AgentReturns, Agent
  <2> QED
    BY <1>8, <2>1, <2>2 DEF Recorded
<1>11. CASE RecordResults
  <2>1. /\ UNCHANGED << plan, agents, log, cycle >> /\ pc = "record" /\ pc' = "flush"
        /\ records' = [t \in Tasks |->
                         IF t \in DOMAIN results THEN record(records[t], results[t])
                         ELSE records[t]]
    BY <1>11 DEF RecordResults, runVars
  <2>2. Recorded' = Recorded + 1
    BY <1>p, <2>1 DEF Recorded
  <2>3. ASSUME NEW t \in Tasks PROVE records'[t] \in RecordUpTo(Recorded + 1)
    <3>1. CASE t \in DOMAIN results
      <4>1. results[t] \in Result /\ records[t] \in RecordUpTo(Recorded)
        BY <1>r, <3>1 DEF Placed, OfTasks
      <4>2. record(records[t], results[t]) \in RecordUpTo(Recorded + 1)
        BY <1>r, <4>1, RecordBounds
      <4> QED
        BY <2>1, <3>1, <4>2
    <3>2. CASE t \notin DOMAIN results
      <4>1. records'[t] = records[t] /\ records[t] \in RecordUpTo(Recorded)
        BY <1>r, <2>1, <3>2
      <4> QED
        BY <1>r, <4>1, RecordGrows
    <3> QED
      BY <3>1, <3>2
  <2>4. records' \in [Tasks -> RecordUpTo(Recorded + 1)]
    BY <2>1, <2>3
  <2> QED
    BY <1>a, <1>r, <2>1, <2>2, <2>4 DEF Counted
<1>12. CASE FinishCycle
  <2>1. /\ UNCHANGED << plan, records, cycle >> /\ pc = "report" /\ pc' = "idle"
        /\ agents' = replace_underperformers /\ cycle \in 1 .. plan.cycles
        /\ DOMAIN log' = DOMAIN log \cup {cycle}
    BY <1>12, <1>p DEF FinishCycle, runVars, Add, Control, InCycle
  <2>2. agents' \in [Tasks -> Agent]
    <3>1. ASSUME NEW t \in Tasks
          PROVE  [fresh_agent EXCEPT !.version = Append(agents[t].version, cycle)] \in Agent
      <4>1. agents[t].version \in Seq(1 .. plan.cycles)
        BY <1>r DEF Agent
      <4>2. Append(agents[t].version, cycle) \in Seq(1 .. plan.cycles)
        BY <2>1, <4>1
      <4> QED
        BY <4>2 DEF fresh_agent, Agent
    <3> QED
      BY <1>r, <2>1, <3>1 DEF replace_underperformers
  <2>3. Recorded' = Recorded
    BY <2>1 DEF Recorded
  <2> QED
    BY <1>a, <1>r, <2>1, <2>2, <2>3 DEF Counted
<1>13. CASE UNCHANGED vars
  <2>1. UNCHANGED << plan, records, agents, log, cycle, pc >>
    BY <1>13 DEF vars, runVars, processVars
  <2> QED
    BY <1>1, <2>1 DEF Recorded
<1> QED
  BY <1>3, <1>4, <1>5, <1>6, <1>7, <1>9, <1>10, <1>11, <1>12, <1>13 DEF Next, CycleStep, Scan

-----------------------------------------------------------------------------
(* The memory and its files.                                               *)

\* A list that extends another still does when it grows.
LEMMA ExtendsMore ==
    ASSUME NEW S, NEW s \in Seq(S), NEW e \in Seq(S), NEW r \in Seq(S), Extends(s, r)
    PROVE  Extends(s \o e, r) /\ Extends(r, r)
BY DEF Extends

\* A list that extends another has it as a prefix.
LEMMA ExtensionHasPrefix ==
    ASSUME NEW S, NEW r \in Seq(S), NEW T, NEW s \in Seq(T), Extends(s, r)
    PROVE  IsPrefix(r, s)
<1>1. /\ Len(r) \in Nat /\ Len(s) \in Nat /\ Len(r) <= Len(s)
      /\ \A i \in 1 .. Len(r) : s[i] = r[i]
  BY DEF Extends
<1>2. /\ SubSeq(r, 1, Len(r)) = [i \in 1 .. Len(r) |-> r[i]]
      /\ SubSeq(s, 1, Len(r)) = [i \in 1 .. Len(r) |-> s[i]]
  BY <1>1
<1> QED
  BY <1>1, <1>2 DEF IsPrefix

\* New entries of other tasks leave a blocked task blocked.
LEMMA BlockKept ==
    ASSUME NEW S, NEW s \in Seq(S), NEW e \in Seq(S), NEW t,
           \A i \in 1 .. Len(e) : e[i].task # t, is_strategy_blocked(s, t)
    PROVE  is_strategy_blocked(s \o e, t)
<1>1. PICK i \in DOMAIN s : IsLatest(s, t, i) /\ s[i].outcome = "failure"
  BY DEF is_strategy_blocked
<1>2. /\ DOMAIN s = 1 .. Len(s) /\ DOMAIN (s \o e) = 1 .. Len(s) + Len(e)
      /\ Len(s) \in Nat /\ Len(e) \in Nat
      /\ \A j \in 1 .. Len(s) : (s \o e)[j] = s[j]
      /\ \A j \in Len(s) + 1 .. Len(s) + Len(e) :
            j - Len(s) \in 1 .. Len(e) /\ (s \o e)[j] = e[j - Len(s)]
  OBVIOUS
<1>3. ASSUME NEW j \in DOMAIN (s \o e), (s \o e)[j].task = t, j # i
      PROVE  Newer(s \o e, i, j)
  <2>1. j \in 1 .. Len(s)
    BY <1>2, <1>3
  <2>2. Newer(s, i, j)
    BY <1>1, <1>2, <1>3, <2>1 DEF IsLatest
  <2> QED
    BY <1>1, <1>2, <2>1, <2>2 DEF Newer
<1>4. i \in DOMAIN (s \o e) /\ (s \o e)[i] = s[i]
  BY <1>1, <1>2
<1> QED
  BY <1>1, <1>3, <1>4 DEF is_strategy_blocked, IsLatest

\* The performance entries of a cycle keep a key for every agent and cycle.
LEMMA KeysKept ==
    ASSUME NEW p, NEW q, NEW new, SameKeys(p, q)
    PROVE  SameKeys(p, record_performance(q, new))
BY DEF SameKeys, record_performance

\* Lists of at most one member.
LEMMA OneOrNone ==
    ASSUME NEW S
    PROVE  << >> \in Seq(S) /\ \A x \in S : << x >> \in Seq(S)
OBVIOUS

\* The tasks with a result, as a list.
LEMMA RanFacts == Ran \in Seq(DOMAIN results)
<1> DEFINE at(i) == IF SortedTasks[i] \in DOMAIN results THEN << SortedTasks[i] >> ELSE << >>
<1>1. ASSUME NEW i
      PROVE  at(i) \in Seq(DOMAIN results)
  <2>1. CASE SortedTasks[i] \in DOMAIN results
    BY <2>1, OneOrNone
  <2>2. CASE SortedTasks[i] \notin DOMAIN results
    BY <2>2, OneOrNone
  <2> QED
    BY <2>1, <2>2
<1> HIDE DEF at
<1>2. at(1) \o at(2) \o at(3) \o at(4) \o at(5) \in Seq(DOMAIN results)
  BY <1>1
<1>3. at(1) \o at(2) \o at(3) \o at(4) \o at(5) \o at(6) \o at(7) \o at(8) \o at(9) \o at(10)
        \in Seq(DOMAIN results)
  BY <1>1, <1>2
<1> QED
  BY <1>3 DEF Ran, at

\* What a cycle adds to the lists of the memory.
LEMMA NewEntries ==
    ASSUME Placed, NEW n, cycle \in 1 .. n
    PROVE  /\ StrategyEntries \in Seq(EntryUpTo(n))
           /\ \A i \in 1 .. Len(StrategyEntries) : StrategyEntries[i].task \in DOMAIN results
           /\ CircuitEntries \in Seq(1 .. n) /\ VulnerabilityEntries \in Seq(1 .. n)
<1>1. Ran \in Seq(DOMAIN results)
  BY RanFacts
<1>2. ASSUME NEW i \in 1 .. Len(Ran)
      PROVE  /\ Ran[i] \in DOMAIN results
             /\ [task |-> Ran[i], outcome |-> results[Ran[i]].outcome, cycle |-> cycle]
                  \in EntryUpTo(n)
  <2>1. Ran[i] \in DOMAIN results /\ Ran[i] \in Tasks
    BY <1>1 DEF Placed, OfTasks
  <2>2. results[Ran[i]] \in Result
    BY <2>1 DEF Placed, OfTasks
  <2>3. results[Ran[i]].outcome \in Outcome
    BY <2>2 DEF Result
  <2> QED
    BY <2>1, <2>3 DEF EntryUpTo
<1>3. /\ Len(Ran) \in Nat /\ DOMAIN Ran = 1 .. Len(Ran)
  BY <1>1
<1>4. StrategyEntries \in [1 .. Len(Ran) -> EntryUpTo(n)]
  BY <1>2, <1>3 DEF StrategyEntries
<1>5. StrategyEntries \in Seq(EntryUpTo(n)) /\ Len(StrategyEntries) = Len(Ran)
  BY <1>3, <1>4
<1>6. \A i \in 1 .. Len(Ran) : StrategyEntries[i].task = Ran[i]
  BY <1>3 DEF StrategyEntries
<1>7. CircuitEntries \in Seq(1 .. n) /\ VulnerabilityEntries \in Seq(1 .. n)
  <2>1. CircuitEntries \in {<< >>, << cycle >>} /\ VulnerabilityEntries \in {<< >>, << cycle >>}
    BY DEF CircuitEntries, VulnerabilityEntries
  <2> QED
    BY <2>1, OneOrNone
<1> QED
  BY <1>2, <1>5, <1>6, <1>7

\* The empty memory.
LEMMA EmptyMemory == \A n : MemoryOK(empty_memory, n)
BY DEF MemoryOK, empty_memory, MemoryFields

\* A process starts with what it can read.
LEMMA LoadKeeps ==
    ASSUME NEW d, NEW n, MemoryOK(d, n), NEW u, NEW l
    PROVE  MemoryOK(load_all(d, u), n) /\ Keeps(load_all(d, u), d, l \cup u)
<1> DEFINE m == load_all(d, u)
<1>1. /\ m = [f \in MemoryFields |-> m[f]]
      /\ \A f \in MemoryFields : m[f] = IF f \in u THEN empty_memory[f] ELSE d[f]
  BY FileFacts DEF load_all
<1>2. MemoryOK(empty_memory, n)
  BY EmptyMemory
<1>3. MemoryOK(m, n)
  <2> HIDE DEF m
  <2>1. /\ m.strategy \in {empty_memory.strategy, d.strategy}
        /\ m.circuits \in {empty_memory.circuits, d.circuits}
        /\ m.vulns \in {empty_memory.vulns, d.vulns}
        /\ m.performance \in {empty_memory.performance, d.performance}
    BY <1>1 DEF MemoryFields
  <2> QED
    BY <1>1, <1>2, <2>1 DEF MemoryOK
<1>4. \A f \in MemoryFields \ u : m[f] = d[f]
  BY <1>1
<1>5. Keeps(m, d, l \cup u)
  <2> HIDE DEF m
  <2>1. \A f \in {"strategy", "circuits", "vulns"} : Extends(d[f], d[f])
    BY DEF MemoryOK, Extends
  <2>2. SameKeys(d.performance, d.performance)
    BY DEF SameKeys
  <2> QED
    BY <1>4, <2>1, <2>2 DEF Keeps, MemoryFields
<1> QED
  BY <1>3, <1>5

\* Saving one file keeps what the files hold.
LEMMA SaveKeeps ==
    ASSUME NEW m, NEW d, NEW n, MemoryOK(m, n), MemoryOK(d, n), NEW l, Keeps(m, d, l),
           NEW e, e = [f \in MemoryFields |-> e[f]],
           \A f \in MemoryFields : e[f] = m[f] \/ e[f] = d[f]
    PROVE  MemoryOK(e, n) /\ Keeps(m, e, l)
<1>1. MemoryOK(e, n)
  BY DEF MemoryOK, MemoryFields
<1>2. \A f \in {"strategy", "circuits", "vulns"} : Extends(m[f], m[f])
  BY DEF MemoryOK, Extends
<1>3. SameKeys(m.performance, m.performance)
  BY DEF SameKeys
<1>4. Keeps(m, e, l)
  BY <1>2, <1>3 DEF Keeps, MemoryFields
<1> QED
  BY <1>1, <1>4

\* Every step keeps the memory ahead of its files.
LEMMA SavedInductive ==
    ASSUME Control, Placed, Scanned, Counted, Counted', Saved, [Next]_vars
    PROVE  Saved'
<1> DEFINE N == plan.cycles
<1>p. N \in Nat \ {0} /\ cycle \in 0 .. N
  BY PlansAssumption DEF Control
<1>1. ASSUME UNCHANGED << plan, lost, memory, disk >>, pc # "down", pc' \notin {"flush", "report"}
      PROVE  Saved'
  BY <1>1 DEF Saved
<1>2. ASSUME NEW unreadable, StartProcess(unreadable)
      PROVE  Saved'
  <2>1. /\ UNCHANGED << plan, disk >> /\ memory' = load_all(disk, unreadable)
        /\ lost' = lost \cup unreadable /\ pc' = "idle"
    BY <1>2 DEF StartProcess
  <2>2. /\ MemoryOK(load_all(disk, unreadable), N)
        /\ Keeps(load_all(disk, unreadable), disk, lost \cup unreadable)
    BY LoadKeeps DEF Saved
  <2> QED
    BY <2>1, <2>2 DEF Saved
<1>3. CASE EndProcess \/ Crash
  <2>1. UNCHANGED << plan, disk >> /\ memory' = empty_memory /\ pc' = "down"
    BY <1>3 DEF EndProcess, Crash, ForgetProcess, runVars
  <2> QED
    BY <2>1, EmptyMemory DEF Saved
<1>4. CASE BeginCycle
  BY <1>1, <1>4 DEF BeginCycle, runVars, processVars
<1>5. ASSUME NEW t \in Tasks, DependencyFailed(t) \/ MemoryBlocked(t) \/ AssignTask(t)
      PROVE  Saved'
  <2>1. Considering(t) /\ pc' \in {pc, "raised"}
    BY <1>5 DEF DependencyFailed, MemoryBlocked, AssignTask, Unobstructed, DropTask
  <2>2. UNCHANGED << plan, lost, memory, disk >> /\ pc = "scan"
    BY <2>1 DEF Considering, runVars, processVars
  <2> QED
    BY <1>1, <2>1, <2>2
<1>6. CASE Dispatch \/ Stall \/ DagDone \/ CollectRound
  <2>1. /\ UNCHANGED << plan, lost, memory, disk >> /\ pc \in {"scan", "run"}
        /\ pc' \in {"scan", "run", "stalled", "record"}
    BY <1>6 DEF Dispatch, Stall, DagDone, CollectRound, EndOfScan, runVars, processVars
  <2> QED
    BY <1>1, <2>1
<1>7. ASSUME NEW t \in Tasks, AgentReturns(t) PROVE Saved'
  <2>1. UNCHANGED << plan, lost, memory, disk, pc >> /\ pc = "run"
    BY <1>7 DEF AgentReturns, runVars
  <2> QED
    BY <1>1, <2>1
<1>8. CASE RecordResults
  <2> DEFINE new == {[agent_id |-> t, cycle |-> cycle,
                      tasks_completed |-> records'[t].tasks_completed,
                      tasks_failed |-> records'[t].tasks_failed] : t \in DOMAIN results}
  <2>1. /\ UNCHANGED << plan, lost, disk, cycle >> /\ pc = "record" /\ pc' = "flush" /\ cursor' = 1
        /\ memory' = apply_entries(memory, StrategyEntries, CircuitEntries,
                                   VulnerabilityEntries, new)
    BY <1>8 DEF RecordResults, runVars
  <2>2. cycle \in 1 .. N
    BY <1>p, <2>1 DEF Control, InCycle
  <2>3. new \subseteq PerformanceUpTo(N)
    <3>1. ASSUME NEW t \in DOMAIN results
          PROVE  /\ t \in Tasks /\ records'[t].tasks_completed \in 0 .. N
                 /\ records'[t].tasks_failed \in 0 .. N
      <4>1. t \in Tasks
        BY DEF Placed, OfTasks
      <4>2. Recorded' = cycle
        BY <2>1 DEF Recorded
      <4>3. records'[t] \in RecordUpTo(cycle)
        BY <4>1, <4>2 DEF Counted
      <4>4. records'[t].tasks_completed \in 0 .. cycle /\ records'[t].tasks_failed \in 0 .. cycle
        BY <4>3 DEF RecordUpTo
      <4> QED
        BY <1>p, <2>2, <4>1, <4>4
    <3> QED
      BY <2>2, <3>1 DEF PerformanceUpTo
  <2> HIDE DEF new
  <2>4. /\ memory'.strategy = memory.strategy \o StrategyEntries
        /\ memory'.circuits = memory.circuits \o CircuitEntries
        /\ memory'.vulns = memory.vulns \o VulnerabilityEntries
        /\ memory'.performance = record_performance(memory.performance, new)
        /\ memory' = [f \in MemoryFields |-> memory'[f]]
    BY <2>1 DEF apply_entries, MemoryFields
  <2>5. /\ StrategyEntries \in Seq(EntryUpTo(N))
        /\ \A i \in 1 .. Len(StrategyEntries) : StrategyEntries[i].task \in DOMAIN results
        /\ CircuitEntries \in Seq(1 .. N) /\ VulnerabilityEntries \in Seq(1 .. N)
    BY <2>2, NewEntries
  <2>6. MemoryOK(memory, N) /\ MemoryOK(disk, N) /\ Keeps(memory, disk, lost)
    BY <2>1 DEF Saved
  <2>7. MemoryOK(memory', N)
    <3>1. /\ memory'.strategy \in Seq(EntryUpTo(N)) /\ memory'.circuits \in Seq(1 .. N)
          /\ memory'.vulns \in Seq(1 .. N)
      BY <2>4, <2>5, <2>6 DEF MemoryOK
    <3>2. memory'.performance \subseteq PerformanceUpTo(N)
      BY <2>3, <2>4, <2>6 DEF MemoryOK, record_performance
    <3> QED
      BY <2>4, <3>1, <3>2 DEF MemoryOK
  <2>8. ASSUME NEW f \in {"strategy", "circuits", "vulns"} \ lost
        PROVE  Extends(memory'[f], disk[f])
    <3>1. Extends(memory[f], disk[f])
      BY <2>6 DEF Keeps
    <3>2. /\ memory.strategy \in Seq(EntryUpTo(N)) /\ disk.strategy \in Seq(EntryUpTo(N))
          /\ memory.circuits \in Seq(1 .. N) /\ disk.circuits \in Seq(1 .. N)
          /\ memory.vulns \in Seq(1 .. N) /\ disk.vulns \in Seq(1 .. N)
      BY <2>6 DEF MemoryOK
    <3>3. CASE f = "strategy"
      <4>1. Extends(memory.strategy \o StrategyEntries, disk.strategy)
        BY <2>5, <3>1, <3>2, <3>3, ExtendsMore, Zenon
      <4> QED
        BY <2>4, <3>3, <4>1
    <3>4. CASE f = "circuits"
      <4>1. Extends(memory.circuits \o CircuitEntries, disk.circuits)
        BY <2>5, <3>1, <3>2, <3>4, ExtendsMore, Zenon
      <4> QED
        BY <2>4, <3>4, <4>1
    <3>5. CASE f = "vulns"
      <4>1. Extends(memory.vulns \o VulnerabilityEntries, disk.vulns)
        BY <2>5, <3>1, <3>2, <3>5, ExtendsMore, Zenon
      <4> QED
        BY <2>4, <3>5, <4>1
    <3> QED
      BY <3>3, <3>4, <3>5
  <2>9. "performance" \notin lost => SameKeys(disk.performance, memory'.performance)
    BY <2>4, <2>6, KeysKept DEF Keeps
  <2>10. ASSUME "strategy" \notin lost, NEW t \in Tasks, is_strategy_blocked(disk.strategy, t)
         PROVE  is_strategy_blocked(memory'.strategy, t)
    <3>1. is_strategy_blocked(memory.strategy, t)
      BY <2>6, <2>10 DEF Keeps
    <3>2. t \notin DOMAIN results
      BY <2>1, <3>1 DEF Scanned, Consulted, Started
    <3>3. \A i \in 1 .. Len(StrategyEntries) : StrategyEntries[i].task # t
      BY <2>5, <3>2
    <3>4. memory.strategy \in Seq(EntryUpTo(N))
      BY <2>6 DEF MemoryOK
    <3> QED
      BY <2>4, <2>5, <3>1, <3>3, <3>4, BlockKept
  <2>11. Keeps(memory', disk, lost)
    BY <2>8, <2>9, <2>10 DEF Keeps
  <2> QED
    BY <2>1, <2>6, <2>7, <2>11 DEF Saved
<1>9. CASE SaveFile
  <2>1. /\ UNCHANGED << plan, lost, memory >> /\ pc = "flush" /\ cursor \in 1 .. 4
        /\ disk' = [disk EXCEPT ![Files[cursor]] = memory[Files[cursor]]]
        /\ cursor' = cursor + 1 /\ pc' = IF cursor = 4 THEN "report" ELSE "flush"
    BY <1>9, FileFacts DEF SaveFile, runVars, processVars, Control
  <2>2. Files[cursor] \in MemoryFields
    BY <2>1, FileFacts DEF MemoryFields
  <2>3. MemoryOK(memory, N) /\ MemoryOK(disk, N) /\ Keeps(memory, disk, lost)
    BY <2>1 DEF Saved
  <2>4. /\ MemoryOK(disk', N) /\ Keeps(memory, disk', lost)
        /\ disk'[Files[cursor]] = memory[Files[cursor]]
        /\ \A f \in MemoryFields \ {Files[cursor]} : disk'[f] = disk[f]
    <3>1. /\ disk' = [f \in MemoryFields |-> disk'[f]]
          /\ disk'[Files[cursor]] = memory[Files[cursor]]
          /\ \A f \in MemoryFields \ {Files[cursor]} : disk'[f] = disk[f]
      BY <2>1, <2>2, <2>3 DEF MemoryOK
    <3>2. \A f \in MemoryFields : disk'[f] = memory[f] \/ disk'[f] = disk[f]
      BY <3>1
    <3>3. MemoryOK(disk', N) /\ Keeps(memory, disk', lost)
      BY <2>3, <3>1, <3>2, SaveKeeps
    <3> QED
      BY <3>1, <3>3
  <2>5. ASSUME NEW i \in 1 .. cursor
        PROVE  disk'[Files[i]] = memory[Files[i]]
    <3>1. CASE i = cursor
      BY <2>4, <3>1
    <3>2. CASE i # cursor
      <4>1. i \in 1 .. cursor - 1 /\ i \in 1 .. 4
        BY <2>1, <3>2
      <4>2. disk[Files[i]] = memory[Files[i]] /\ Files[i] \in MemoryFields
        BY <2>1, <4>1, FileFacts DEF Saved, MemoryFields
      <4> QED
        BY <2>4, <4>2
    <3> QED
      BY <3>1, <3>2
  <2>6. cursor = 4 => disk' = memory
    <3>1. ASSUME cursor = 4
          PROVE  \A f \in MemoryFields : disk'[f] = memory[f]
      <4>1. /\ disk'[Files[1]] = memory[Files[1]] /\ disk'[Files[2]] = memory[Files[2]]
            /\ disk'[Files[3]] = memory[Files[3]] /\ disk'[Files[4]] = memory[Files[4]]
        BY <2>5, <3>1
      <4> QED
        BY <4>1, FileFacts DEF MemoryFields
    <3>2. /\ memory = [f \in MemoryFields |-> memory[f]]
          /\ disk' = [f \in MemoryFields |-> disk'[f]]
      BY <2>3, <2>4 DEF MemoryOK
    <3> QED
      BY <3>1, <3>2
  <2>7. cursor' - 1 = cursor
    BY <2>1
  <2> QED
    BY <2>1, <2>3, <2>4, <2>5, <2>6, <2>7 DEF Saved
<1>10. CASE FinishCycle
  <2>1. UNCHANGED << plan, lost, memory, disk >> /\ pc = "report" /\ pc' = "idle"
    BY <1>10 DEF FinishCycle, runVars
  <2> QED
    BY <1>1, <2>1
<1>11. CASE UNCHANGED vars
  BY <1>11 DEF vars, runVars, processVars, Saved
<1> QED
  BY <1>2, <1>3, <1>4, <1>5, <1>6, <1>7, <1>8, <1>9, <1>10, <1>11 DEF Next, CycleStep, Scan

-----------------------------------------------------------------------------
(* The invariant and what follows from it.                                 *)

\* Before anything has started.
LEMMA InitInvariant ==
    ASSUME Init
    PROVE  IInv
<1>p. plan.cycles \in Nat \ {0} /\ plan.starts \in Nat \ {0}
  BY PlansAssumption DEF Init
<1>0. completed = {}
  BY EmptyFacts DEF Init, completed
<1>1. Control
  BY <1>p DEF Init, Control, InCycle
<1>2. Placed
  BY EmptyFacts DEF Init, Placed
<1>3. Scanned
  BY <1>0, EmptyFacts DEF Init, Scanned, Started
<1>4. Graphed
  BY <1>0 DEF Init, Graphed, empty_graph
<1>5. Counted
  <2>1. Recorded = 0 /\ new_record \in RecordUpTo(0)
    BY DEF Init, Recorded, RecordUpTo, new_record, Scores
  <2>2. fresh_agent \in Agent
    BY DEF fresh_agent, Agent
  <2> QED
    BY <2>1, <2>2, EmptyFacts DEF Init, Counted
<1>6. Saved
  BY EmptyMemory DEF Init, Saved
<1> QED
  BY <1>1, <1>2, <1>3, <1>4, <1>5, <1>6 DEF IInv

\* The inductive invariant holds in every state of every scenario: across
\* cycles, failing agents, crashes, restarts and unreadable files.
THEOREM CoordinatorInvariance == Spec => []IInv
<1>1. ASSUME IInv, [Next]_vars
      PROVE  IInv'
  <2>1. Control /\ Placed /\ Scanned /\ Graphed /\ Counted /\ Saved
    BY <1>1 DEF IInv
  <2>2. Counted'
    BY <1>1, <2>1, CountedInductive
  <2> QED
    BY <1>1, <2>1, <2>2, ControlInductive, PlacedInductive, ScannedInductive,
       GraphedInductive, SavedInductive DEF IInv
<1> QED
  BY <1>1, InitInvariant, PTL DEF Spec

\* The five places share the ten tasks out between them.
LEMMA PlacesCount ==
    ASSUME Placed
    PROVE  Cardinality(pending) + Cardinality(ready_assignments)
             + Cardinality(DOMAIN blocked_tasks) + Cardinality(DOMAIN ready_results)
             + Cardinality(DOMAIN results) \in {0, Cardinality(Tasks)}
<1> DEFINE A == pending
           B == ready_assignments
           C == DOMAIN blocked_tasks
           D == DOMAIN ready_results
           E == DOMAIN results
<1>1. /\ A \subseteq Tasks /\ B \subseteq Tasks /\ C \subseteq Tasks /\ D \subseteq Tasks
      /\ E \subseteq Tasks
  BY DEF Placed, OfTasks
<1>2. /\ A \cap B = {} /\ (A \cup B) \cap C = {} /\ (A \cup B \cup C) \cap D = {}
      /\ (A \cup B \cup C \cup D) \cap E = {}
  BY DEF Placed
<1>3. A \cup B \cup C \cup D \cup E \in {{}, Tasks}
  BY DEF Placed
<1> HIDE DEF A, B, C, D, E
<1>4. IsFiniteSet(Tasks)
  <2>1. /\ IsFiniteSet({"backend_integration", "circuit_design", "data_integrity", "devops",
                        "prove_bundle"})
        /\ IsFiniteSet({"research", "security", "testing", "verifier", "zk_architecture"})
    BY SmallSetFinite
  <2>2. Tasks = {"backend_integration", "circuit_design", "data_integrity", "devops",
                 "prove_bundle"} \cup
                {"research", "security", "testing", "verifier", "zk_architecture"}
    BY TaskFacts
  <2> QED
    BY <2>1, <2>2, FS_Union
<1>5. /\ IsFiniteSet(A) /\ IsFiniteSet(B) /\ IsFiniteSet(C) /\ IsFiniteSet(D) /\ IsFiniteSet(E)
  BY <1>1, <1>4, FS_Subset
<1>6. /\ IsFiniteSet(A \cup B) /\ Cardinality(A \cup B) = Cardinality(A) + Cardinality(B)
  BY <1>2, <1>5, DisjointSizes
<1>7. /\ IsFiniteSet(A \cup B \cup C)
      /\ Cardinality(A \cup B \cup C) = Cardinality(A \cup B) + Cardinality(C)
  BY <1>2, <1>5, <1>6, DisjointSizes
<1>8. /\ IsFiniteSet(A \cup B \cup C \cup D)
      /\ Cardinality(A \cup B \cup C \cup D) = Cardinality(A \cup B \cup C) + Cardinality(D)
  BY <1>2, <1>5, <1>7, DisjointSizes
<1>9. Cardinality(A \cup B \cup C \cup D \cup E) = Cardinality(A \cup B \cup C \cup D) + Cardinality(E)
  BY <1>2, <1>5, <1>8, DisjointSizes
<1>10. Cardinality(A \cup B \cup C \cup D \cup E) \in {0, Cardinality(Tasks)}
  BY <1>3, FS_EmptySet
<1>11. Cardinality(A) + Cardinality(B) + Cardinality(C) + Cardinality(D) + Cardinality(E)
         \in {0, Cardinality(Tasks)}
  BY <1>6, <1>7, <1>8, <1>9, <1>10
<1> QED
  BY <1>11 DEF A, B, C, D, E

\* A sequence as a function.
LEMMA SequenceIsOver ==
    ASSUME NEW S, NEW s \in Seq(S)
    PROVE  SeqOver(S, s)
BY DEF SeqOver

\* Types of the coordinator's variables: every task of a cycle is in exactly one
\* of the places where _execute_dag keeps it, a score stays between 0 and 1, and
\* the memory and its files hold well-formed entries.
THEOREM CoordinatorTypes == Spec => []TypeOK
<1>1. ASSUME IInv
      PROVE  TypeOK
  <2> DEFINE N == plan.cycles
  <2>p. N \in Nat \ {0}
    BY <1>1, PlansAssumption DEF IInv, Control
  <2>1. /\ plan \in Plans /\ starts \in 0 .. plan.starts /\ lost \subseteq DOMAIN empty_memory
        /\ pc \in Ended \cup {"idle", "scan", "run", "record", "flush", "report"}
        /\ cycle \in 0 .. plan.cycles /\ cursor \in 1 .. Len(SortedTasks) + 1
    BY <1>1, TaskFacts, FileFacts DEF IInv, Control, InCycle, Ended
  <2>2. /\ pending \subseteq Tasks /\ ready_assignments \subseteq Tasks
        /\ blocked_tasks \in [DOMAIN blocked_tasks -> Reasons]
        /\ ready_results \in [DOMAIN ready_results -> Result]
        /\ results \in [DOMAIN results -> Result]
        /\ DOMAIN blocked_tasks \subseteq Tasks /\ DOMAIN ready_results \subseteq Tasks
        /\ DOMAIN results \subseteq Tasks
    BY <1>1 DEF IInv, Placed, OfTasks
  <2>3. << pending, ready_assignments, DOMAIN blocked_tasks,
           DOMAIN ready_results, DOMAIN results >> \in [1 .. 5 -> SUBSET Tasks]
    BY <2>2
  <2>4. terminal_failures \subseteq DOMAIN results \cup DOMAIN blocked_tasks
    BY <1>1 DEF IInv, Scanned
  <2>5. graph.artifacts \subseteq UNION {Artifacts(t) : t \in Tasks}
    BY <1>1, CompletedFacts DEF IInv, Graphed
  <2>6. ASSUME NEW m, MemoryOK(m, N)
        PROVE  IsMemory(m)
    <3>1. Entry = EntryUpTo(N) /\ PerformanceEntry = PerformanceUpTo(N)
      BY DEF Entry, EntryUpTo, PerformanceEntry, PerformanceUpTo
    <3>2. DOMAIN m = DOMAIN empty_memory
      BY <2>6, FileFacts DEF MemoryOK
    <3> QED
      BY <2>6, <3>1, <3>2, SequenceIsOver DEF MemoryOK, IsMemory
  <2>7. IsMemory(memory) /\ IsMemory(disk)
    BY <1>1, <2>6 DEF IInv, Saved
  <2>8. records \in [Tasks -> Record]
    <3> DEFINE low == 0 .. Recorded
               high == 0 .. N
    <3>1. low \subseteq high
      BY <1>1, <2>p DEF IInv, Control, InCycle, Recorded
    <3>2. RecordUpTo(Recorded) = [score : Scores, consecutive_failures : low,
                                  tasks_completed : low, tasks_failed : low]
      BY DEF RecordUpTo
    <3>3. Record = [score : Scores, consecutive_failures : high,
                    tasks_completed : high, tasks_failed : high]
      BY DEF Record, Scores
    <3> HIDE DEF low, high
    <3>4. ASSUME NEW t \in Tasks
          PROVE  records[t] \in Record
      <4> DEFINE r == records[t]
      <4>1. r \in RecordUpTo(Recorded)
        BY <1>1 DEF IInv, Counted
      <4> HIDE DEF r
      <4>2. /\ r = [score |-> r.score, consecutive_failures |-> r.consecutive_failures,
                    tasks_completed |-> r.tasks_completed, tasks_failed |-> r.tasks_failed]
            /\ r.score \in Scores /\ r.consecutive_failures \in low
            /\ r.tasks_completed \in low /\ r.tasks_failed \in low
        BY <3>2, <4>1
      <4>3. r \in Record
        BY <3>1, <3>3, <4>2
      <4> QED
        BY <4>3 DEF r
    <3> QED
      BY <1>1, <3>4 DEF IInv, Counted
  <2>9. ASSUME NEW t \in Tasks
        PROVE  /\ agents[t].status \in {"idle", "running", "done", "failed"}
               /\ SeqOver(1 .. plan.cycles, agents[t].version)
    <3>1. agents[t] \in Agent
      BY <1>1 DEF IInv, Counted
    <3>2. /\ agents[t].status \in {"idle", "running", "done", "failed"}
          /\ agents[t].version \in Seq(1 .. plan.cycles)
      BY <3>1 DEF Agent
    <3> QED
      BY <3>2, SequenceIsOver
  <2>10. DOMAIN log \subseteq 1 .. plan.cycles
    BY <1>1 DEF IInv, Counted
  <2>11. Cardinality(pending) + Cardinality(ready_assignments)
           + Cardinality(DOMAIN blocked_tasks) + Cardinality(DOMAIN ready_results)
           + Cardinality(DOMAIN results) \in {0, Cardinality(Tasks)}
    BY <1>1, PlacesCount DEF IInv
  <2> QED
    BY <2>1, <2>2, <2>3, <2>4, <2>5, <2>7, <2>8, <2>9, <2>10, <2>11 DEF TypeOK
<1> QED
  BY <1>1, CoordinatorInvariance, PTL

\* _prepare_task never fails to resolve an input, and every artifact of a cycle
\* comes from a task that succeeded and is linked to the artifacts it consumed.
THEOREM GraphIsTraceable == Spec => []ArtifactsTraceable
<1>1. ASSUME IInv
      PROVE  ArtifactsTraceable
  <2>1. /\ pc # "raised" /\ graph.artifacts = UNION {Artifacts(t) : t \in completed}
        /\ graph.edges = UNION {artifact_requirements[t] \X Artifacts(t) : t \in completed}
    BY <1>1 DEF IInv, Scanned, Graphed
  <2>2. ASSUME NEW e \in graph.edges
        PROVE  e[1] \in graph.artifacts
    <3>1. PICK t \in completed : e \in artifact_requirements[t] \X Artifacts(t)
      BY <2>1, <2>2
    <3>2. t \in Tasks /\ depends_on[t] \subseteq completed
      BY <1>1, <3>1, CompletedFacts DEF IInv
    <3>3. \A c \in completed : depends_on[c] \subseteq completed
      BY <1>1, CompletedFacts DEF IInv
    <3>4. artifact_requirements[t] \subseteq UNION {Artifacts(c) : c \in completed}
      BY <3>2, <3>3, RequirementsProduced
    <3>5. e[1] \in artifact_requirements[t]
      BY <3>1
    <3> QED
      BY <2>1, <3>4, <3>5
  <2> QED
    BY <2>1, <2>2 DEF ArtifactsTraceable
<1> QED
  BY <1>1, CoordinatorInvariance, PTL

\* A report is written only for a cycle in which each of the ten tasks has a
\* result or a reason why it did not run, never both, and only once the four
\* files hold everything the cycle recorded (run_cycle).
THEOREM ReportsAreComplete == Spec => ReportsComplete
<1>1. ASSUME IInv, Next, pc = "report", pc' = "idle"
      PROVE  /\ log'[cycle].results \cup log'[cycle].blocked = Tasks
             /\ log'[cycle].results \cap log'[cycle].blocked = {}
             /\ disk = memory
  <2>1. FinishCycle
    <3>1. ~ \E unreadable \in SUBSET DOMAIN empty_memory : StartProcess(unreadable)
      BY <1>1 DEF StartProcess, Ended
    <3>2. ~(EndProcess \/ Crash \/ BeginCycle)
      BY <1>1 DEF EndProcess, Crash, BeginCycle, ForgetProcess
    <3>3. ~Scan
      BY <1>1 DEF Scan, DependencyFailed, MemoryBlocked, AssignTask, Unobstructed, Considering,
                  Dispatch, Stall, DagDone, EndOfScan
    <3>4. ~(\E t \in Tasks : AgentReturns(t)) /\ ~(CollectRound \/ RecordResults \/ SaveFile)
      BY <1>1 DEF AgentReturns, CollectRound, RecordResults, SaveFile
    <3> QED
      BY <1>1, <3>1, <3>2, <3>3, <3>4 DEF Next, CycleStep
  <2>2. log'[cycle].results = DOMAIN results /\ log'[cycle].blocked = DOMAIN blocked_tasks
    BY <2>1 DEF FinishCycle, Add
  <2>3. /\ DOMAIN results \cup DOMAIN blocked_tasks = Tasks
        /\ DOMAIN results \cap DOMAIN blocked_tasks = {}
    BY <1>1 DEF IInv, Placed
  <2> QED
    BY <1>1, <2>2, <2>3 DEF IInv, Saved
<1>2. IInv /\ [Next]_vars =>
        [pc = "report" /\ pc' = "idle" =>
           /\ log'[cycle].results \cup log'[cycle].blocked = Tasks
           /\ log'[cycle].results \cap log'[cycle].blocked = {}
           /\ disk = memory]_vars
  BY <1>1
<1> QED
  BY <1>2, CoordinatorInvariance, PTL DEF Spec, ReportsComplete

\* What a step does to the files: nothing, or it saves a file of the memory,
\* which has everything the file has unless it could not be read.
LEMMA FilesKept ==
    ASSUME IInv, [Next]_vars
    PROVE  /\ \A f \in {"strategy", "circuits", "vulns"} \ lost' : Extends(disk'[f], disk[f])
           /\ "performance" \notin lost' => SameKeys(disk.performance, disk'.performance)
           /\ "strategy" \notin lost' =>
                 \A t \in Tasks : is_strategy_blocked(disk.strategy, t) =>
                                     is_strategy_blocked(disk'.strategy, t)
<1>0. MemoryOK(memory, plan.cycles) /\ MemoryOK(disk, plan.cycles)
  BY DEF IInv, Saved
<1>1. /\ \A f \in {"strategy", "circuits", "vulns"} : Extends(disk[f], disk[f])
      /\ SameKeys(disk.performance, disk.performance)
  <2>1. \A f \in {"strategy", "circuits", "vulns"} : Extends(disk[f], disk[f])
    BY <1>0 DEF MemoryOK, Extends
  <2> QED
    BY <2>1 DEF SameKeys
<1>2. CASE disk' = disk
  BY <1>1, <1>2
<1>3. CASE SaveFile
  <2>1. /\ lost' = lost /\ pc = "flush" /\ cursor \in 1 .. 4
        /\ disk' = [disk EXCEPT ![Files[cursor]] = memory[Files[cursor]]]
    BY <1>3 DEF SaveFile, runVars, IInv, Control
  <2>2. Files[cursor] \in MemoryFields
    BY <2>1, FileFacts DEF MemoryFields
  <2>3. \A f \in MemoryFields : disk'[f] = memory[f] \/ disk'[f] = disk[f]
    BY <1>0, <2>1, <2>2 DEF MemoryOK
  <2>4. Keeps(memory, disk, lost)
    BY <2>1 DEF IInv, Saved
  <2> QED
    BY <1>1, <2>1, <2>3, <2>4 DEF Keeps, MemoryFields
<1>4. ASSUME NEW t \in Tasks, DependencyFailed(t) \/ MemoryBlocked(t) \/ AssignTask(t)
      PROVE  disk' = disk
  BY <1>4 DEF DependencyFailed, MemoryBlocked, AssignTask, Unobstructed, Considering
<1>5. \A t \in Tasks : AgentReturns(t) => disk' = disk
  BY DEF AgentReturns
<1>6. \A unreadable : StartProcess(unreadable) => disk' = disk
  BY DEF StartProcess
<1>7. EndProcess \/ Crash \/ BeginCycle => disk' = disk
  BY DEF EndProcess, Crash, BeginCycle
<1>8. Dispatch \/ Stall \/ DagDone \/ CollectRound \/ RecordResults \/ FinishCycle => disk' = disk
  BY DEF Dispatch, Stall, DagDone, CollectRound, RecordResults, FinishCycle
<1>9. UNCHANGED vars => disk' = disk
  BY DEF vars
<1> QED
  BY <1>2, <1>3, <1>4, <1>5, <1>6, <1>7, <1>8, <1>9 DEF Next, CycleStep, Scan

\* Across crashes, restarts and half-finished flushes, no memory file loses what
\* it held, unless some process could not read it.
THEOREM HistoryIsKept == Spec => HistoryKept
<1>1. ASSUME IInv, IInv', [Next]_vars
      PROVE  /\ \A f \in {"strategy", "circuits", "vulns"} \ lost' : IsPrefix(disk[f], disk'[f])
             /\ "performance" \notin lost' =>
                   \A e \in disk.performance :
                      \E n \in disk'.performance :
                          n.agent_id = e.agent_id /\ n.cycle = e.cycle
  <2>1. ASSUME NEW f \in {"strategy", "circuits", "vulns"} \ lost'
        PROVE  IsPrefix(disk[f], disk'[f])
    <3>1. PICK S : disk[f] \in Seq(S)
      BY <1>1 DEF IInv, Saved, MemoryOK
    <3>2. PICK T : disk'[f] \in Seq(T)
      BY <1>1 DEF IInv, Saved, MemoryOK
    <3>3. Extends(disk'[f], disk[f])
      BY <1>1, FilesKept
    <3> QED
      BY <3>1, <3>2, <3>3, ExtensionHasPrefix
  <2> QED
    BY <1>1, <2>1, FilesKept DEF SameKeys
<1>2. IInv /\ IInv' /\ [Next]_vars =>
        [/\ \A f \in {"strategy", "circuits", "vulns"} \ lost' : IsPrefix(disk[f], disk'[f])
         /\ "performance" \notin lost' =>
               \A e \in disk.performance :
                  \E n \in disk'.performance :
                      n.agent_id = e.agent_id /\ n.cycle = e.cycle]_vars
  BY <1>1
<1> QED
  BY <1>2, CoordinatorInvariance, PTL DEF Spec, HistoryKept

\* A strategy the saved memory blocks stays blocked: its task is never run again,
\* so that no success can supersede the failure.
THEOREM BlocksStick == Spec => BlockSticks
<1>1. IInv /\ [Next]_vars =>
        [\A t \in Tasks :
            "strategy" \notin lost' /\ is_strategy_blocked(disk.strategy, t)
               => is_strategy_blocked(disk'.strategy, t)]_vars
  BY FilesKept
<1> QED
  BY <1>1, CoordinatorInvariance, PTL DEF Spec, BlockSticks

-----------------------------------------------------------------------------
(* Failures.                                                               *)

\* Ancestors is defined: the equation of the recursive definition has a solution,
\* because no task waits for itself.
LEMMA AncestorsUnfold ==
    /\ Ancestors = [t \in Tasks |-> depends_on[t] \cup UNION {Ancestors[d] : d \in depends_on[t]}]
<1> DEFINE A1 == {"zk_architecture"}
           A2 == A1 \cup {"circuit_design"}
           A3 == A2 \cup {"backend_integration"}
           A4 == A3 \cup {"prove_bundle"}
           A5 == A4 \cup {"verifier"}
           A6 == A5 \cup {"testing"}
           above == [zk_architecture     |-> {},
                     circuit_design      |-> A1,
                     backend_integration |-> A2,
                     prove_bundle        |-> A3,
                     verifier            |-> A4,
                     testing             |-> A5,
                     data_integrity      |-> A5,
                     devops              |-> A5,
                     research            |-> A5,
                     security            |-> A6]
           fixed(f) == f = [t \in Tasks |-> depends_on[t] \cup UNION {f[d] : d \in depends_on[t]}]
<1>1. /\ above["zk_architecture"] = {} /\ above["circuit_design"] = A1
      /\ above["backend_integration"] = A2 /\ above["prove_bundle"] = A3
      /\ above["verifier"] = A4 /\ above["testing"] = A5 /\ above["data_integrity"] = A5
      /\ above["devops"] = A5 /\ above["research"] = A5 /\ above["security"] = A6
      /\ above = [t \in Tasks |-> above[t]]
  BY TaskFacts
<1> HIDE DEF above
<1>2. ASSUME NEW t \in Tasks
      PROVE  above[t] = depends_on[t] \cup UNION {above[d] : d \in depends_on[t]}
  <2>1. ASSUME NEW s, depends_on[t] = {s}, above[t] = above[s] \cup {s}
        PROVE  above[t] = depends_on[t] \cup UNION {above[d] : d \in depends_on[t]}
    BY <2>1
  <2>2. CASE t = "zk_architecture"
    BY <1>1, <2>2, Waits
  <2>3. CASE t = "circuit_design"
    BY <1>1, <2>1, <2>3, Waits
  <2>4. CASE t = "backend_integration"
    BY <1>1, <2>1, <2>4, Waits
  <2>5. CASE t = "prove_bundle"
    BY <1>1, <2>1, <2>5, Waits
  <2>6. CASE t = "verifier"
    BY <1>1, <2>1, <2>6, Waits
  <2>7. CASE t \in {"testing", "data_integrity", "devops", "research"}
    <3>1. depends_on[t] = {"verifier"} /\ above[t] = above["verifier"] \cup {"verifier"}
      BY <1>1, <2>7, Waits
    <3> QED
      BY <2>1, <3>1
  <2>8. CASE t = "security"
    BY <1>1, <2>1, <2>8, Waits
  <2> QED
    BY <2>2, <2>3, <2>4, <2>5, <2>6, <2>7, <2>8, TaskFacts
<1>3. fixed(above)
  BY <1>1, <1>2
<1>4. \E f : fixed(f)
  BY <1>3
<1>5. Ancestors = CHOOSE f : fixed(f)
  BY DEF Ancestors
<1> HIDE DEF fixed
<1>6. fixed(Ancestors)
  BY <1>4, <1>5
<1> QED
  BY <1>6 DEF fixed

\* What a task waits for, and what that waits for, are among its ancestors.
LEMMA AncestorsClosed ==
    ASSUME NEW t \in Tasks
    PROVE  /\ depends_on[t] \subseteq Ancestors[t]
           /\ \A d \in depends_on[t] : Ancestors[d] \subseteq Ancestors[t]
           /\ \A C : /\ depends_on[t] \subseteq C
                     /\ \A d \in depends_on[t] : Ancestors[d] \subseteq C
                     => Ancestors[t] \subseteq C
<1>1. Ancestors[t] = depends_on[t] \cup UNION {Ancestors[d] : d \in depends_on[t]}
  BY AncestorsUnfold
<1> QED
  BY <1>1

\* A task that has completed, has failed or stands behind a failure.
Settled(t) == \/ t \in completed \/ t \in terminal_failures
              \/ Ancestors[t] \cap terminal_failures # {}

\* When no task is left running, a task whose dependencies are settled is settled.
LEMMA SettledStep ==
    ASSUME Placed, Scanned, pc \in {"record", "stalled"}, NEW t \in Tasks,
           \A d \in depends_on[t] : Settled(d)
    PROVE  Settled(t)
<1>1. /\ depends_on[t] \subseteq Ancestors[t]
      /\ \A d \in depends_on[t] : Ancestors[d] \subseteq Ancestors[t]
  BY AncestorsClosed
<1>2. t \in pending \/ t \in DOMAIN blocked_tasks \/ t \in DOMAIN results
  BY DEF Placed
<1>3. CASE t \in DOMAIN results
  BY <1>3 DEF Scanned, Settled
<1>4. CASE t \in DOMAIN blocked_tasks
  <2>1. CASE blocked_tasks[t] = "memory_blocked"
    BY <1>4, <2>1 DEF Scanned, Settled
  <2>2. CASE blocked_tasks[t] # "memory_blocked"
    <3>1. depends_on[t] \cap terminal_failures # {}
      BY <1>4, <2>2 DEF Scanned, FailedDependencies
    <3> QED
      BY <1>1, <3>1 DEF Settled
  <2> QED
    BY <2>1, <2>2
<1>5. CASE t \in pending
  <2>1. PICK d \in depends_on[t] : d \notin completed
    BY <1>5 DEF Scanned, Placed
  <2>2. d \in terminal_failures \/ Ancestors[d] \cap terminal_failures # {}
    BY <2>1 DEF Settled
  <2> QED
    BY <1>1, <2>1, <2>2 DEF Settled
<1> QED
  BY <1>2, <1>3, <1>4, <1>5

\* At the end of _execute_dag every task is settled, along the order of the graph.
LEMMA AllSettled ==
    ASSUME Placed, Scanned, pc \in {"record", "stalled"}
    PROVE  \A t \in Tasks : Settled(t)
<1>t. /\ "zk_architecture" \in Tasks /\ "circuit_design" \in Tasks
      /\ "backend_integration" \in Tasks /\ "prove_bundle" \in Tasks /\ "verifier" \in Tasks
      /\ "testing" \in Tasks /\ "data_integrity" \in Tasks /\ "devops" \in Tasks
      /\ "research" \in Tasks /\ "security" \in Tasks
  BY TaskFacts
<1>1. Settled("zk_architecture")
  BY <1>t, SettledStep, Waits
<1>2. Settled("circuit_design")
  BY <1>t, <1>1, SettledStep, Waits
<1>3. Settled("backend_integration")
  BY <1>t, <1>2, SettledStep, Waits
<1>4. Settled("prove_bundle")
  BY <1>t, <1>3, SettledStep, Waits
<1>5. Settled("verifier")
  BY <1>t, <1>4, SettledStep, Waits
<1>6. Settled("testing") /\ Settled("data_integrity") /\ Settled("devops") /\ Settled("research")
  BY <1>t, <1>5, SettledStep, Waits
<1>7. Settled("security")
  BY <1>t, <1>6, SettledStep, Waits
<1> QED
  BY <1>1, <1>2, <1>3, <1>4, <1>5, <1>6, <1>7, TaskFacts

\* The tasks a completed task waited for, directly or not, completed.
LEMMA AncestorsCompleted ==
    ASSUME NEW C, C \subseteq Tasks, \A c \in C : depends_on[c] \subseteq C
    PROVE  \A t \in Tasks : depends_on[t] \subseteq C => Ancestors[t] \subseteq C
<1> DEFINE Good(t) == depends_on[t] \subseteq C => Ancestors[t] \subseteq C
<1>1. ASSUME NEW t \in Tasks, \A d \in depends_on[t] : Good(d)
      PROVE  Good(t)
  <2>1. ASSUME depends_on[t] \subseteq C
        PROVE  Ancestors[t] \subseteq C
    <3>1. \A d \in depends_on[t] : Ancestors[d] \subseteq C
      BY <1>1, <2>1
    <3> QED
      BY <2>1, <3>1, AncestorsClosed
  <2> QED
    BY <2>1
<1>t. /\ "zk_architecture" \in Tasks /\ "circuit_design" \in Tasks
      /\ "backend_integration" \in Tasks /\ "prove_bundle" \in Tasks /\ "verifier" \in Tasks
      /\ "testing" \in Tasks /\ "data_integrity" \in Tasks /\ "devops" \in Tasks
      /\ "research" \in Tasks /\ "security" \in Tasks
  BY TaskFacts
<1> HIDE DEF Good
<1>2. Good("zk_architecture")
  BY <1>t, <1>1, Waits
<1>3. Good("circuit_design")
  BY <1>t, <1>1, <1>2, Waits
<1>4. Good("backend_integration")
  BY <1>t, <1>1, <1>3, Waits
<1>5. Good("prove_bundle")
  BY <1>t, <1>1, <1>4, Waits
<1>6. Good("verifier")
  BY <1>t, <1>1, <1>5, Waits
<1>7. Good("testing") /\ Good("data_integrity") /\ Good("devops") /\ Good("research")
  BY <1>t, <1>1, <1>6, Waits
<1>8. Good("security")
  BY <1>t, <1>1, <1>7, Waits
<1>9. \A t \in Tasks : Good(t)
  BY <1>2, <1>3, <1>4, <1>5, <1>6, <1>7, <1>8, TaskFacts
<1> QED
  BY <1>9 DEF Good

\* When _execute_dag returns or raises, exactly the tasks downstream of a failed
\* or memory-blocked task, and the memory-blocked ones, have not run.
THEOREM FailuresAreContained == Spec => []FailuresContained
<1>1. ASSUME IInv, pc \in {"record", "stalled"}, NEW t \in Tasks
      PROVE  t \in DOMAIN results <=> /\ Ancestors[t] \cap terminal_failures = {}
                                      /\ ~is_strategy_blocked(memory.strategy, t)
  <2>1. Placed /\ Scanned /\ Consulted
    BY <1>1 DEF IInv, Consulted
  <2>2. ASSUME t \in DOMAIN results
        PROVE  /\ Ancestors[t] \cap terminal_failures = {}
               /\ ~is_strategy_blocked(memory.strategy, t)
    <3>1. depends_on[t] \subseteq completed /\ ~is_strategy_blocked(memory.strategy, t)
      BY <2>1, <2>2 DEF Scanned, Started
    <3>2. /\ completed \subseteq Tasks /\ \A c \in completed : depends_on[c] \subseteq completed
      BY <2>1, CompletedFacts
    <3>3. Ancestors[t] \subseteq completed
      BY <3>1, <3>2, AncestorsCompleted
    <3>4. completed \cap terminal_failures = {}
      BY <2>1, CompletedFacts DEF Scanned, Placed
    <3> QED
      BY <3>1, <3>3, <3>4
  <2>3. ASSUME t \notin DOMAIN results, Ancestors[t] \cap terminal_failures = {}
        PROVE  is_strategy_blocked(memory.strategy, t)
    <3>1. Settled(t)
      BY <1>1, <2>1, AllSettled
    <3>2. t \in terminal_failures
      BY <2>1, <2>3, <3>1, CompletedFacts DEF Settled
    <3> QED
      BY <2>1, <2>3, <3>2 DEF Scanned
  <2> QED
    BY <2>2, <2>3
<1>2. IInv => FailuresContained
  BY <1>1 DEF FailuresContained
<1> QED
  BY <1>2, CoordinatorInvariance, PTL
=============================================================================
