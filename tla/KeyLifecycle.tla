---------------------------- MODULE KeyLifecycle ----------------------------
(***************************************************************************)
(* zk/keys/lifecycle.py: the log of key events.  Every record of           *)
(* logs/key_lifecycle.jsonl carries the hash of the record before it,      *)
(* which the process keeps in a global; a lock makes an append atomic for  *)
(* the threads of the process.  The file outlives the process, the global  *)
(* does not.                                                               *)
(*                                                                         *)
(* Hashes are free constructors: equal only for equal arguments.           *)
(***************************************************************************)
EXTENDS Integers, Sequences

CONSTANTS
    Payloads,          \* payloads of key events
    MaxRecords,        \* bound: events recorded
    MaxRestarts,       \* bound: restarts of the process
    MaxWriteFailures   \* bound: failed writes of the file

VARIABLES
    log,               \* records of the JSONL file
    prev_hash,         \* the global _prev_hash
    recorded,          \* events recorded, written or not
    restarts,          \* restarts so far
    unwritten          \* failed writes so far

vars == <<log, prev_hash, recorded, restarts, unwritten>>

ZERO_HASH == <<"zero">>
Hash(prev, type, payload) == <<prev, type, payload>>

Init ==
    /\ log = << >>
    /\ prev_hash = ZERO_HASH
    /\ recorded = 0
    /\ restarts = 0
    /\ unwritten = 0

\* _append_event up to the write: the global moves before the file is opened.
Advance(type, payload) ==
    /\ recorded < MaxRecords
    /\ recorded' = recorded + 1
    /\ prev_hash' = Hash(prev_hash, type, payload)
    /\ UNCHANGED restarts

append_event(type, payload) ==
    /\ Advance(type, payload)
    /\ log' = Append(log, [type |-> type, payload |-> payload,
                           prev |-> prev_hash, current |-> prev_hash'])
    /\ UNCHANGED unwritten

\* Opening or writing the file raises; the caller gets the exception.
append_event_raises(type, payload) ==
    /\ unwritten < MaxWriteFailures
    /\ Advance(type, payload)
    /\ unwritten' = unwritten + 1
    /\ UNCHANGED log

log_key_generation(payload) ==
    \/ append_event("key_generation", payload)
    \/ append_event_raises("key_generation", payload)

log_key_rotation(payload) ==
    \/ append_event("key_rotation", payload)
    \/ append_event_raises("key_rotation", payload)

\* The module is imported again, against the file of the process before.
Restart ==
    /\ restarts < MaxRestarts
    /\ restarts' = restarts + 1
    /\ prev_hash' = ZERO_HASH
    /\ UNCHANGED <<log, recorded, unwritten>>

Next ==
    \/ \E p \in Payloads : log_key_generation(p) \/ log_key_rotation(p)
    \/ Restart

Spec == Init /\ [][Next]_vars

-----------------------------------------------------------------------------
\* The record's hashes are those verify_audit_chain would expect of it.
Linked(i) ==
    /\ log[i].prev = IF i = 1 THEN ZERO_HASH ELSE log[i - 1].current
    /\ log[i].current = Hash(log[i].prev, log[i].type, log[i].payload)

\* The module's docstring: the log can be verified for tampering in the same
\* way as the main audit chain, so a log nobody tampered with verifies.
LogVerifies == \A i \in DOMAIN log : Linked(i)
=============================================================================
