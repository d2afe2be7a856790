---------------------------- MODULE Coordinator -----------------------------
(***************************************************************************)
(* coordinator/system.py with the artifact graph, the performance tracker, *)
(* the ten agents and the shared memory it drives, run the way             *)
(* orchestrator.py runs it: one process executes cycles 1, 2, ..., each a  *)
(* run_cycle, and a later process starts again at cycle 1 with the memory  *)
(* files the earlier one left.                                             *)
(*                                                                         *)
(* A cycle executes a fixed graph of ten tasks in rounds.  A round scans   *)
(* the pending tasks in the order of their ids, drops those whose          *)
(* dependency failed or whose strategy the memory blocks, and hands the    *)
(* ready ones to agents on a thread pool; the results are collected when   *)
(* all agents of the round have returned.  After the last round the        *)
(* results are recorded, the memory is flushed file by file,               *)
(* underperforming agents are replaced and a report is written.            *)
(*                                                                         *)
(* There is one agent and one task per domain, so an agent is named by its *)
(* task and _assign always finds it.  An agent's computation is reduced to *)
(* what the coordinator sees of it: an exception, a verdict, a duration    *)
(* and a violated limit.                                                   *)
(***************************************************************************)
EXTENDS Naturals, FiniteSets, SequencesExt, SharedMemory

CONSTANTS
    Plans    \* bound: scenarios, each a set of tasks whose agents may
             \* misbehave and in which ways, the cycles of a process, the
             \* number of processes and of unreadable files

-----------------------------------------------------------------------------
(***************************************************************************)
(* build_initial_tasks.  Ids share the prefix of the cycle, so they sort   *)
(* by the rest of the name.                                                *)
(***************************************************************************)
SortedTasks ==
    << "backend_integration", "circuit_design", "data_integrity", "devops",
       "prove_bundle", "research", "security", "testing", "verifier",
       "zk_architecture" >>

depends_on ==
    [zk_architecture     |-> {},
     circuit_design      |-> {"zk_architecture"},
     backend_integration |-> {"circuit_design"},
     prove_bundle        |-> {"backend_integration"},
     verifier            |-> {"prove_bundle"},
     testing             |-> {"verifier"},
     data_integrity      |-> {"verifier"},
     devops              |-> {"verifier"},
     research            |-> {"verifier"},
     security            |-> {"testing"}]

Tasks == DOMAIN depends_on

produces ==
    [t \in Tasks |->
        CASE t \in {"zk_architecture", "circuit_design"} -> {"circuit"}
          [] t = "backend_integration" -> {"trace", "witness"}
          [] t = "prove_bundle" -> {"proof"}
          [] OTHER -> {"verification_result"}]

\* An artifact is named by its type and by the task whose agent produced it.
CircuitA == << "circuit", "circuit_design" >>
TraceA == << "trace", "backend_integration" >>
WitnessA == << "witness", "backend_integration" >>
ProofA == << "proof", "prove_bundle" >>
VerificationA == << "verification_result", "verifier" >>

artifact_requirements ==
    [zk_architecture     |-> {},
     circuit_design      |-> {<< "circuit", "zk_architecture" >>},
     backend_integration |-> {CircuitA},
     prove_bundle        |-> {CircuitA, TraceA, WitnessA},
     verifier            |-> {CircuitA, TraceA, WitnessA, ProofA},
     testing             |-> {ProofA, VerificationA},
     data_integrity      |-> {TraceA, WitnessA, ProofA},
     devops              |-> {VerificationA},
     research            |-> {CircuitA, ProofA, VerificationA},
     security            |-> {CircuitA, TraceA, WitnessA, ProofA}]

Artifacts(t) == produces[t] \X {t}

ASSUME PlansAssumption ==
    \A p \in Plans : /\ p.flaky \subseteq Tasks
                     /\ p.faults \subseteq {"exception", "time", "artifact"}
                     /\ p.cycles \in Nat \ {0}
                     /\ p.starts \in Nat \ {0}
                     /\ p.unreadable \in Nat

-----------------------------------------------------------------------------
VARIABLES
    plan,               \* the scenario, chosen once
    starts,             \* processes started
    lost,               \* files some process could not read
    pc,                 \* where run_cycle is
    cycle,              \* its cycle
    cursor,             \* next task of the scan, next file of the flush
    pending,            \* tasks not yet dispatched or dropped
    terminal_failures,  \* tasks that failed or that the memory blocked
    blocked_tasks,      \* dropped task -> reason
    ready_assignments,  \* tasks of this round, from their scan to their return
    ready_results,      \* task -> result of this round
    results,            \* task -> result of this cycle
    graph,              \* the cycle's artifacts and the edges between them
    memory,             \* SharedMemory of the process
    disk,               \* its four files
    records,            \* PerformanceTracker: task -> record
    agents,             \* task -> status and version of its agent
    log                 \* cycle -> report

dagVars == << pending, terminal_failures, blocked_tasks, ready_assignments,
              ready_results, results, graph >>
processVars == << memory, records, agents >>
runVars == << plan, starts, lost >>
vars == << runVars, pc, cycle, cursor, dagVars, processVars, disk, log >>

Empty == [t \in {} |-> {}]
Add(f, t, v) == [x \in DOMAIN f \cup {t} |-> IF x = t THEN v ELSE f[x]]

new_record == [score |-> 10000, consecutive_failures |-> 0,
               tasks_completed |-> 0, tasks_failed |-> 0]
fresh_agent == [status |-> "idle", version |-> << >>]
empty_graph == [artifacts |-> {}, edges |-> {}]

\* Nothing is running: not started, finished, or ended by an exception.
Ended == {"down", "stalled", "raised"}

\* completed: the tasks with a successful result.
completed == {t \in DOMAIN results : results[t].status = "success"}

Init ==
    /\ plan \in Plans
    /\ starts = 0
    /\ lost = {}
    /\ pc = "down"
    /\ cycle = 0
    /\ cursor = 1
    /\ pending = {} /\ terminal_failures = {} /\ ready_assignments = {}
    /\ blocked_tasks = Empty /\ ready_results = Empty /\ results = Empty
    /\ graph = empty_graph
    /\ memory = empty_memory
    /\ disk = empty_memory
    /\ records = [t \in Tasks |-> new_record]
    /\ agents = [t \in Tasks |-> fresh_agent]
    /\ log = Empty

-----------------------------------------------------------------------------
(***************************************************************************)
(* The process.                                                            *)
(***************************************************************************)
ForgetCycle ==
    /\ pending' = {} /\ terminal_failures' = {} /\ ready_assignments' = {}
    /\ blocked_tasks' = Empty /\ ready_results' = Empty /\ results' = Empty
    /\ graph' = empty_graph

ForgetProcess ==
    /\ ForgetCycle
    /\ pc' = "down"
    /\ cycle' = 0
    /\ cursor' = 1
    /\ memory' = empty_memory
    /\ records' = [t \in Tasks |-> new_record]
    /\ agents' = [t \in Tasks |-> fresh_agent]

\* run_system builds a coordinator; its SharedMemory loads the four files.
StartProcess(unreadable) ==
    /\ pc \in Ended
    /\ starts < plan.starts
    /\ Cardinality(unreadable) <= plan.unreadable
    /\ ForgetCycle
    /\ pc' = "idle"
    /\ cycle' = 0
    /\ cursor' = 1
    /\ memory' = load_all(disk, unreadable)
    /\ records' = [t \in Tasks |-> new_record]
    /\ agents' = [t \in Tasks |-> fresh_agent]
    /\ starts' = starts + 1
    /\ lost' = lost \cup unreadable
    /\ UNCHANGED << plan, disk, log >>

\* run_system returns after its last cycle.
EndProcess ==
    /\ pc = "idle"
    /\ cycle = plan.cycles
    /\ ForgetProcess
    /\ UNCHANGED << runVars, disk, log >>

\* The process dies.  A save or the report raising an OSError ends it too:
\* nothing between _save and run_system catches the exception.  Bound: the
\* last process does not die.
Crash ==
    /\ pc \notin Ended
    /\ starts < plan.starts
    /\ ForgetProcess
    /\ UNCHANGED << runVars, disk, log >>

\* run_cycle: a new graph, _execute_dag with every task pending.
BeginCycle ==
    /\ pc = "idle"
    /\ cycle < plan.cycles
    /\ cycle' = cycle + 1
    /\ pc' = "scan"
    /\ cursor' = 1
    /\ pending' = Tasks
    /\ terminal_failures' = {} /\ ready_assignments' = {}
    /\ blocked_tasks' = Empty /\ ready_results' = Empty /\ results' = Empty
    /\ graph' = empty_graph
    /\ UNCHANGED << runVars, processVars, disk, log >>

-----------------------------------------------------------------------------
(***************************************************************************)
(* _execute_dag: the loop over the pending tasks of one round.             *)
(***************************************************************************)
FailedDependencies(t) == depends_on[t] \cap terminal_failures

\* The loop passes over a task that is not pending any more, or one of whose
\* dependencies has neither completed nor failed.
PassedOver(t) ==
    \/ t \notin pending
    \/ FailedDependencies(t) = {} /\ ~ depends_on[t] \subseteq completed

NextToConsider(i) ==
    /\ i \in cursor .. Len(SortedTasks)
    /\ ~ PassedOver(SortedTasks[i])
    /\ \A j \in cursor .. i - 1 : PassedOver(SortedTasks[j])

Considering(t) ==
    /\ pc = "scan"
    /\ \E i \in DOMAIN SortedTasks :
          /\ t = SortedTasks[i]
          /\ NextToConsider(i)
          /\ cursor' = i + 1
    /\ UNCHANGED << runVars, cycle, ready_results, results, graph,
                    processVars, disk, log >>

DropTask(t, reason) ==
    /\ blocked_tasks' = Add(blocked_tasks, t, reason)
    /\ pending' = pending \ {t}
    /\ UNCHANGED << pc, ready_assignments >>

\* The dropped task does not become a terminal failure itself.
DependencyFailed(t) ==
    /\ Considering(t)
    /\ FailedDependencies(t) # {}
    /\ DropTask(t, "dependency_failed")
    /\ UNCHANGED terminal_failures

Unobstructed(t) == Considering(t) /\ FailedDependencies(t) = {}

\* Mutation: a task the memory blocks is dropped like any other.
MemoryBlockedForgotten(t) ==
    /\ Unobstructed(t)
    /\ is_strategy_blocked(memory.strategy, t)
    /\ DropTask(t, "memory_blocked")
    /\ UNCHANGED terminal_failures

MemoryBlocked(t) ==
    /\ Unobstructed(t)
    /\ is_strategy_blocked(memory.strategy, t)
    /\ DropTask(t, "memory_blocked")
    /\ terminal_failures' = terminal_failures \cup {t}

\* require finds every artifact the task needs.
Resolvable(t) == artifact_requirements[t] \subseteq graph.artifacts

\* Mutation: the memory is not asked.
AssignTaskAnyway(t) ==
    /\ Unobstructed(t)
    /\ ready_assignments' = ready_assignments \cup {t}
    /\ pending' = pending \ {t}
    /\ pc' = IF Resolvable(t) THEN pc ELSE "raised"
    /\ UNCHANGED << terminal_failures, blocked_tasks >>

\* _prepare_task resolves the inputs in the graph and raises a KeyError if
\* one is missing.
AssignTask(t) ==
    /\ Unobstructed(t)
    /\ ~ is_strategy_blocked(memory.strategy, t)
    /\ ready_assignments' = ready_assignments \cup {t}
    /\ pending' = pending \ {t}
    /\ pc' = IF Resolvable(t) THEN pc ELSE "raised"
    /\ UNCHANGED << terminal_failures, blocked_tasks >>

EndOfScan ==
    /\ pc = "scan"
    /\ \A i \in cursor .. Len(SortedTasks) : PassedOver(SortedTasks[i])

\* _execute_ready_set starts the agents on the thread pool.
Dispatch ==
    /\ EndOfScan
    /\ ready_assignments # {}
    /\ pc' = "run"
    /\ agents' = [t \in Tasks |->
                    IF t \in ready_assignments
                    THEN [agents[t] EXCEPT !.status = "running"]
                    ELSE agents[t]]
    /\ UNCHANGED << runVars, cycle, cursor, dagVars, memory, records, disk, log >>

\* Mutation: the loop goes on as long as something is pending.
StallSpins ==
    /\ EndOfScan
    /\ ready_assignments = {}
    /\ pending # {}
    /\ cursor' = 1
    /\ UNCHANGED << runVars, pc, cycle, dagVars, processVars, disk, log >>

\* RuntimeError: nothing is ready, something is pending.
Stall ==
    /\ EndOfScan
    /\ ready_assignments = {}
    /\ pending # {}
    /\ pc' = "stalled"
    /\ UNCHANGED << runVars, cycle, cursor, dagVars, processVars, disk, log >>

DagDone ==
    /\ EndOfScan
    /\ ready_assignments = {}
    /\ pending = {}
    /\ pc' = "record"
    /\ UNCHANGED << runVars, cycle, cursor, dagVars, processVars, disk, log >>

-----------------------------------------------------------------------------
(***************************************************************************)
(* The agents.  The first four always report success; the others judge the *)
(* artifacts, and three of them repeat an INVALID of the verifier.  Only   *)
(* the verifier returns status "success" with an INVALID verdict.          *)
(***************************************************************************)
Builders == {"zk_architecture", "circuit_design", "backend_integration",
             "prove_bundle"}
Gated == {"testing", "devops", "research"}

Verdicts(t) ==
    CASE t \in Builders -> {"VALID"}
      [] t \in Gated /\ results["verifier"].outcome = "failure" -> {"INVALID"}
      [] t = "devops" -> {"VALID"}
      [] OTHER -> {"VALID", "INVALID"}

\* Milliseconds: an exception leaves duration_ms at 0.0, a run within its
\* limit is short, a run over its limit exceeds the largest of the limits.
Duration == [none |-> 100, artifact |-> 100, time |-> 2000]

\* The exception handler of _execute_ready_set.
Raised ==
    [status |-> "failure", outcome |-> "failure", raised |-> TRUE, duration |-> 0]

\* What run returned, after _enforce_task_constraints: a violated limit
\* turns the result into a failure and leaves its memory entries as they are.
Returned(t, verdict, violation) ==
    [status   |-> IF violation = "none" /\ (verdict = "VALID" \/ t = "verifier")
                  THEN "success" ELSE "failure",
     outcome  |-> IF verdict = "VALID" THEN "success" ELSE "failure",
     raised   |-> FALSE,
     duration |-> Duration[violation]]

SoundVerdicts(t) ==
    IF "VALID" \in Verdicts(t) THEN {"VALID"} ELSE Verdicts(t)

AgentResults(t) ==
    IF t \in plan.flaky
    THEN {Returned(t, v, w) : v \in Verdicts(t),
                              w \in {"none"} \cup (plan.faults \ {"exception"})}
         \cup (IF "exception" \in plan.faults THEN {Raised} ELSE {})
    ELSE {Returned(t, v, "none") : v \in SoundVerdicts(t)}

AgentReturns(t) ==
    /\ pc = "run"
    /\ t \in ready_assignments
    /\ ready_assignments' = ready_assignments \ {t}
    /\ \E r \in AgentResults(t) :
          /\ ready_results' = Add(ready_results, t, r)
          /\ agents' = [agents EXCEPT ![t].status =
                            IF r.status = "success" THEN "done" ELSE "failed"]
    /\ UNCHANGED << runVars, pc, cycle, cursor, pending, terminal_failures,
                    blocked_tasks, results, graph, memory, records, disk, log >>

\* Mutation: the status of a result is not looked at.
EveryoneSucceeded == DOMAIN ready_results

Succeeded == {t \in DOMAIN ready_results : ready_results[t].status = "success"}

\* add_artifact links a new artifact to the artifacts its task consumed.
add_artifacts(tasks) ==
    [artifacts |-> graph.artifacts \cup UNION {Artifacts(t) : t \in tasks},
     edges     |-> graph.edges
                   \cup UNION {artifact_requirements[t] \X Artifacts(t) : t \in tasks}]

\* The loop over ready_results.
CollectRound ==
    /\ pc = "run"
    /\ ready_assignments = {}
    /\ terminal_failures' = terminal_failures \cup (DOMAIN ready_results \ Succeeded)
    /\ graph' = add_artifacts(Succeeded)
    /\ results' = [t \in DOMAIN results \cup DOMAIN ready_results |->
                      IF t \in DOMAIN results THEN results[t] ELSE ready_results[t]]
    /\ ready_results' = Empty
    /\ pc' = "scan"
    /\ cursor' = 1
    /\ UNCHANGED << runVars, cycle, pending, blocked_tasks, ready_assignments,
                    processVars, disk, log >>

-----------------------------------------------------------------------------
(***************************************************************************)
(* PerformanceTracker, in units of 0.0001.                                 *)
(***************************************************************************)
Round(n, d) == (2 * n + d) \div (2 * d)

\* Mutation: the success component is not weighted.
CandidateScoreUnweighted(r) ==
    (IF r.status = "success" THEN 10000 ELSE 2500)
        + Round(3000 * 500, 500 + r.duration)

CandidateScore(r) ==
    (IF r.status = "success" THEN 7000 ELSE 1750)
        + Round(3000 * 500, 500 + r.duration)

record(p, r) ==
    LET success == r.status = "success"
    IN  [score |-> Round(6 * p.score + 4 * CandidateScore(r), 10),
         consecutive_failures |-> IF success THEN 0 ELSE p.consecutive_failures + 1,
         tasks_completed |-> p.tasks_completed + (IF success THEN 1 ELSE 0),
         tasks_failed |-> p.tasks_failed + (IF success THEN 0 ELSE 1)]

underperformers ==
    {t \in Tasks : records[t].score < 4500 /\ records[t].consecutive_failures >= 2}

-----------------------------------------------------------------------------
(***************************************************************************)
(* The rest of run_cycle.                                                  *)
(***************************************************************************)
\* The tasks with a result, in the order of their ids.
Ran ==
    LET at(i) == IF SortedTasks[i] \in DOMAIN results THEN << SortedTasks[i] >> ELSE << >>
    IN  at(1) \o at(2) \o at(3) \o at(4) \o at(5)
            \o at(6) \o at(7) \o at(8) \o at(9) \o at(10)

StrategyEntries ==
    [i \in DOMAIN Ran |->
        [task |-> Ran[i], outcome |-> results[Ran[i]].outcome, cycle |-> cycle]]

\* The circuit engineer adds a circuit, the security audit a vulnerability.
CircuitEntries ==
    IF "circuit_design" \in DOMAIN results /\ ~ results["circuit_design"].raised
    THEN << cycle >> ELSE << >>

VulnerabilityEntries ==
    IF /\ "security" \in DOMAIN results
       /\ ~ results["security"].raised
       /\ results["security"].outcome = "failure"
    THEN << cycle >> ELSE << >>

RecordResults ==
    /\ pc = "record"
    /\ pc' = "flush"
    /\ cursor' = 1
    /\ records' = [t \in Tasks |->
                     IF t \in DOMAIN results THEN record(records[t], results[t])
                     ELSE records[t]]
    /\ memory' = apply_entries(memory, StrategyEntries, CircuitEntries,
                    VulnerabilityEntries,
                    {[agent_id |-> t, cycle |-> cycle,
                      tasks_completed |-> records'[t].tasks_completed,
                      tasks_failed |-> records'[t].tasks_failed] :
                        t \in DOMAIN results})
    /\ UNCHANGED << runVars, cycle, dagVars, agents, disk, log >>

\* flush: os.replace makes the save of one file atomic.
SaveFile ==
    /\ pc = "flush"
    /\ disk' = [disk EXCEPT ![Files[cursor]] = memory[Files[cursor]]]
    /\ cursor' = cursor + 1
    /\ pc' = IF cursor = Len(Files) THEN "report" ELSE pc
    /\ UNCHANGED << runVars, cycle, dagVars, processVars, log >>

replace_underperformers ==
    [t \in Tasks |->
        IF t \in underperformers
        THEN [fresh_agent EXCEPT !.version = Append(agents[t].version, cycle)]
        ELSE agents[t]]

\* What follows the flush: replacements, then the report.
FinishCycle ==
    /\ pc = "report"
    /\ agents' = replace_underperformers
    /\ log' = Add(log, cycle, [results |-> DOMAIN results,
                               blocked |-> DOMAIN blocked_tasks,
                               replacements |-> underperformers])
    /\ pc' = "idle"
    /\ UNCHANGED << runVars, cycle, cursor, dagVars, memory, records, disk >>

-----------------------------------------------------------------------------
Scan ==
    \/ \E t \in Tasks : DependencyFailed(t) \/ MemoryBlocked(t) \/ AssignTask(t)
    \/ Dispatch \/ Stall \/ DagDone

CycleStep ==
    \/ Scan
    \/ \E t \in Tasks : AgentReturns(t)
    \/ CollectRound \/ RecordResults \/ SaveFile \/ FinishCycle

Next ==
    \/ \E unreadable \in SUBSET DOMAIN empty_memory : StartProcess(unreadable)
    \/ EndProcess \/ Crash \/ BeginCycle
    \/ CycleStep

\* The coordinator's thread keeps running, and every agent's run is a finite
\* computation: a cycle's next step is taken unless the process dies.
Fairness == WF_vars(CycleStep)

Spec == Init /\ [][Next]_vars /\ Fairness

-----------------------------------------------------------------------------
(***************************************************************************)
(* Properties.                                                             *)
(***************************************************************************)
Reasons == {"dependency_failed", "memory_blocked"}
Outcome == {"success", "failure"}
Result == [status : Outcome, outcome : Outcome, raised : BOOLEAN,
           duration : {0} \cup {Duration[v] : v \in DOMAIN Duration}]
Entry == [task : Tasks, outcome : Outcome, cycle : 1 .. plan.cycles]
Record == [score : 0 .. 10000, consecutive_failures : 0 .. plan.cycles,
           tasks_completed : 0 .. plan.cycles, tasks_failed : 0 .. plan.cycles]
PerformanceEntry ==
    [agent_id : Tasks, cycle : 1 .. plan.cycles,
     tasks_completed : 0 .. plan.cycles, tasks_failed : 0 .. plan.cycles]

SeqOver(S, s) == s \in [1 .. Len(s) -> S]

IsMemory(m) ==
    /\ DOMAIN m = DOMAIN empty_memory
    /\ SeqOver(Entry, m.strategy)
    /\ SeqOver(1 .. plan.cycles, m.circuits)
    /\ SeqOver(1 .. plan.cycles, m.vulns)
    /\ m.performance \subseteq PerformanceEntry

\* Types of the variables; scores stay between 0 and 1 and a task is in at
\* most one of the places where _execute_dag keeps it.
TypeOK ==
    /\ plan \in Plans
    /\ starts \in 0 .. plan.starts
    /\ lost \subseteq DOMAIN empty_memory
    /\ pc \in Ended \cup {"idle", "scan", "run", "record", "flush", "report"}
    /\ cycle \in 0 .. plan.cycles
    /\ cursor \in 1 .. Len(SortedTasks) + 1
    /\ pending \subseteq Tasks
    /\ terminal_failures \subseteq DOMAIN results \cup DOMAIN blocked_tasks
    /\ ready_assignments \subseteq Tasks
    /\ blocked_tasks \in [DOMAIN blocked_tasks -> Reasons]
    /\ ready_results \in [DOMAIN ready_results -> Result]
    /\ results \in [DOMAIN results -> Result]
    /\ << pending, ready_assignments, DOMAIN blocked_tasks,
          DOMAIN ready_results, DOMAIN results >> \in [1 .. 5 -> SUBSET Tasks]
    /\ Cardinality(pending) + Cardinality(ready_assignments)
          + Cardinality(DOMAIN blocked_tasks) + Cardinality(DOMAIN ready_results)
          + Cardinality(DOMAIN results) \in {0, Cardinality(Tasks)}
    /\ graph.artifacts \subseteq UNION {Artifacts(t) : t \in Tasks}
    /\ IsMemory(memory) /\ IsMemory(disk)
    /\ records \in [Tasks -> Record]
    /\ \A t \in Tasks :
          /\ agents[t].status \in {"idle", "running", "done", "failed"}
          /\ SeqOver(1 .. plan.cycles, agents[t].version)
    /\ DOMAIN log \subseteq 1 .. plan.cycles

\* Every artifact of the cycle comes from a task that succeeded within its
\* limits and is linked to all the artifacts that task was required to
\* consume, which are themselves in the graph; so _prepare_task never fails
\* to resolve an input, although depends_on names direct predecessors only.
ArtifactsTraceable ==
    /\ pc # "raised"
    /\ graph.artifacts = UNION {Artifacts(t) : t \in completed}
    /\ graph.edges = UNION {artifact_requirements[t] \X Artifacts(t) : t \in completed}
    /\ \A e \in graph.edges : e[1] \in graph.artifacts

\* The tasks on which t depends, directly or not.
Ancestors[t \in Tasks] ==
    depends_on[t] \cup UNION {Ancestors[d] : d \in depends_on[t]}

\* When _execute_dag returns or raises, exactly the tasks downstream of a
\* failed or memory-blocked task, and the memory-blocked ones, have not run:
\* a failure never takes an unrelated branch with it, and no task runs
\* behind a failure.
FailuresContained ==
    pc \in {"record", "stalled"} =>
        \A t \in Tasks :
            t \in DOMAIN results <=>
                /\ Ancestors[t] \cap terminal_failures = {}
                /\ ~ is_strategy_blocked(memory.strategy, t)

\* A report is written only for a cycle in which every one of the ten tasks
\* has a result or a reason why it did not run, never both, and only once
\* the four files hold everything the cycle recorded.
ReportsComplete ==
    [][pc = "report" /\ pc' = "idle" =>
          /\ log'[cycle].results \cup log'[cycle].blocked = Tasks
          /\ log'[cycle].results \cap log'[cycle].blocked = {}
          /\ disk = memory]_vars

\* Across crashes, restarts and half-finished flushes, a memory file never
\* loses what it held, unless some process could not read it when it started
\* (_load then returns an empty list, and the next flush overwrites the file).
HistoryKept ==
    [][/\ \A f \in {"strategy", "circuits", "vulns"} \ lost' :
             IsPrefix(disk[f], disk'[f])
       /\ "performance" \notin lost' =>
             \A e \in disk.performance :
                \E n \in disk'.performance :
                    n.agent_id = e.agent_id /\ n.cycle = e.cycle]_vars

\* A strategy that the saved memory blocks stays blocked, whatever happens
\* later: its task is never run again, so no success can supersede the
\* failure (is_strategy_blocked, and the memory check of _execute_dag).
BlockSticks ==
    [][\A t \in Tasks :
          "strategy" \notin lost' /\ is_strategy_blocked(disk.strategy, t)
             => is_strategy_blocked(disk'.strategy, t)]_vars

\* A cycle that has begun is finished, stalls with the RuntimeError, or dies
\* with its process: the loop of _execute_dag cannot go round for ever.
CycleEnds == pc = "scan" ~> pc \in Ended \cup {"idle"}

\* "Results update SharedMemory": when run_cycle returns or raises, each
\* result of the cycle has its entry in the memory.
ResultsUpdateMemory ==
    pc \in {"idle", "stalled"} =>
        \A t \in DOMAIN results :
            \E i \in DOMAIN memory.strategy :
                memory.strategy[i] = [task |-> t, outcome |-> results[t].outcome,
                                      cycle |-> cycle]

\* "Memory blocks latest failed strategy": between cycles, a strategy whose
\* most recently recorded entry is a failure is blocked.
LatestFailureBlocks ==
    pc = "idle" =>
        \A t \in Tasks : \A i \in DOMAIN memory.strategy :
            /\ memory.strategy[i].task = t
            /\ memory.strategy[i].outcome = "failure"
            /\ \A j \in DOMAIN memory.strategy : memory.strategy[j].task = t => j <= i
            => is_strategy_blocked(memory.strategy, t)

=============================================================================
