---------------------------- MODULE MCProofQueue ----------------------------
(***************************************************************************)
(* Small instances of ProofQueue: two tasks, so that jobs wait for one     *)
(* another, and as many submissions as replays and resubmissions need.     *)
(***************************************************************************)
EXTENDS ProofQueue

CONSTANTS t1, t2
=============================================================================
