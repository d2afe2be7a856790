---------------------------- MODULE SharedMemory ----------------------------
(***************************************************************************)
(* memory/shared_memory.py: what the agents' coordinator remembers, as     *)
(* four lists that are kept in memory, changed under a lock, and saved to  *)
(* four files one after the other.  The class is modelled by operators on  *)
(* a memory value, a record with one field per list; Coordinator holds one *)
(* such value in the process and one on disk.                              *)
(*                                                                         *)
(* A strategy entry is remembered under its domain and pattern.  Each      *)
(* domain has one task and its agent reports under the strategy_key of     *)
(* that task, so an entry names the task.  The position in the list stands *)
(* for the timestamp.                                                      *)
(***************************************************************************)
EXTENDS Naturals, Sequences

\* Mutation: flush saves three of the four files.
FilesWithoutPerformance == << "strategy", "circuits", "vulns" >>

\* The files in the order in which flush saves them.
Files == << "strategy", "circuits", "vulns", "performance" >>

empty_memory ==
    [strategy |-> << >>, circuits |-> << >>, vulns |-> << >>, performance |-> {}]

\* Mutation: a new process starts with nothing.
load_nothing(disk, unreadable) == empty_memory

\* _load: a file that cannot be read or parsed yields an empty list.
load_all(disk, unreadable) ==
    [f \in DOMAIN empty_memory |->
        IF f \in unreadable THEN empty_memory[f] ELSE disk[f]]

\* query_domain sorts by cycle first and by time second.
Newer(strategy, i, j) ==
    \/ strategy[i].cycle > strategy[j].cycle
    \/ strategy[i].cycle = strategy[j].cycle /\ i > j

IsLatest(strategy, t, i) ==
    /\ strategy[i].task = t
    /\ \A j \in DOMAIN strategy :
          strategy[j].task = t /\ j # i => Newer(strategy, i, j)

\* latest_strategy, is_strategy_blocked and the "blocked" of control_decision.
is_strategy_blocked(strategy, t) ==
    \E i \in DOMAIN strategy :
        IsLatest(strategy, t, i) /\ strategy[i].outcome = "failure"

\* record_performance: one entry per agent and cycle, the new one replaces.
record_performance(performance, new) ==
    {e \in performance :
        \A n \in new : ~(n.agent_id = e.agent_id /\ n.cycle = e.cycle)} \cup new

\* apply_entries and record_performance for the results of one cycle.
apply_entries(memory, strategies, circuits, vulns, new) ==
    [strategy    |-> memory.strategy \o strategies,
     circuits    |-> memory.circuits \o circuits,
     vulns       |-> memory.vulns \o vulns,
     performance |-> record_performance(memory.performance, new)]

=============================================================================
