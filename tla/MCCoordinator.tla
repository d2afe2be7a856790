--------------------------- MODULE MCCoordinator ----------------------------
(***************************************************************************)
(* Instances of Coordinator for TLC.  Each scenario lets another part of   *)
(* the graph misbehave.                                                    *)
(***************************************************************************)
EXTENDS Coordinator

AllFaults == {"exception", "time", "artifact"}

\* All tasks of one round may fail and then be blocked together.
FanOut ==
    [flaky |-> {"data_integrity", "devops", "research", "testing"},
     faults |-> {"exception"}, cycles |-> 2, starts |-> 1, unreadable |-> 0]

\* One agent misses its limit cycle after cycle, until it is replaced.
Underperforming ==
    [flaky |-> {"devops"}, faults |-> AllFaults,
     cycles |-> 4, starts |-> 1, unreadable |-> 0]

\* Failures on the spine of the graph, with restarts.
Spine ==
    [flaky |-> {"circuit_design", "verifier"}, faults |-> AllFaults,
     cycles |-> 2, starts |-> 2, unreadable |-> 0]

\* Failures in the last branch, with restarts and an unreadable file.
Branch ==
    [flaky |-> {"testing", "security"}, faults |-> {},
     cycles |-> 2, starts |-> 2, unreadable |-> 1]

AllPlans == {FanOut, Underperforming, Spine, Branch}
SpinePlans == {Spine}
BranchPlans == {[Branch EXCEPT !.unreadable = 0]}

=============================================================================
