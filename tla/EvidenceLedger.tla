--------------------------- MODULE EvidenceLedger ---------------------------
(***************************************************************************)
(* What the evidence service promises: for every chain one append-only     *)
(* history of events, and for every input at most one evidence record,     *)
(* written together with its calculation_persisted event in one step.      *)
(***************************************************************************)
EXTENDS AuditChain

VARIABLES
    evidence,   \* inputs whose request, result and proof rows exist
    history     \* chain -> sequence of audit payloads

vars == <<evidence, history>>

TypeOK ==
    /\ evidence \in SUBSET Inputs
    /\ history \in [Chains -> Seq(AuditPayload)]

Init ==
    /\ evidence = {}
    /\ history = [c \in Chains |-> << >>]

Record(event_type, i) ==
    \E t \in Times :
        history' = [history EXCEPT ![chain_id_for_input(i)] =
                       Append(@, [event_type |-> event_type,
                                  reference_id |-> i, created_at |-> t])]

Persist(i) ==
    /\ i \notin evidence
    /\ evidence' = evidence \cup {i}
    /\ Record("calculation_persisted", i)

RejectDuplicate(i) ==
    /\ i \in evidence
    /\ Record("calculation_rejected_duplicate", i)
    /\ UNCHANGED evidence

LogFailure(i) ==
    /\ Record("calculation_persist_failed", i)
    /\ UNCHANGED evidence

Next == \E i \in Inputs : Persist(i) \/ RejectDuplicate(i) \/ LogFailure(i)

Spec == Init /\ [][Next]_vars
=============================================================================
