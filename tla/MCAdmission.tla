---------------------------- MODULE MCAdmission ----------------------------
(* Small instances of the HTTP layer.                                       *)
EXTENDS Admission

MCRequests == {"r1", "r2", "r3"}
MCClientOf == [r \in MCRequests |-> "c1"]
MCWorkloads ==
    {[requests |-> MCRequests, starts |-> 0, service |-> TRUE, keysEnabled |-> FALSE],
     [requests |-> {"r1", "r2"}, starts |-> 0, service |-> TRUE, keysEnabled |-> TRUE],
     [requests |-> {"r1", "r2"}, starts |-> 0, service |-> FALSE, keysEnabled |-> FALSE],
     [requests |-> {"r1"}, starts |-> 2, service |-> TRUE, keysEnabled |-> FALSE]}
============================================================================
