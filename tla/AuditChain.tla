----------------------------- MODULE AuditChain -----------------------------
(***************************************************************************)
(* The partitioned, hash-chained audit log (core/audit_chain.py) as pure   *)
(* operators on a set of rows of the audit_log table.                      *)
(*                                                                         *)
(* SHA-256 is modelled by a free constructor: the hash of a row is the     *)
(* sequence of events from the start of its chain up to and including that *)
(* row, so two hashes are equal exactly when the hashed histories are.     *)
(* This keeps the one assumption the design rests on, collision freedom,   *)
(* and nothing else.  chain_id is not hashed, in the model as in the code. *)
(***************************************************************************)
EXTENDS Integers, Sequences, FiniteSets

CONSTANTS
    Inputs,                  \* canonical inputs, one per input_hash
    AUDIT_CHAIN_PARTITIONS,  \* number of chains (64 in the code)
    ChainOf,                 \* int(input_hash, 16) % AUDIT_CHAIN_PARTITIONS
    MaxClock                 \* bound: the last instant the model's clock shows

Chains == 0 .. (AUDIT_CHAIN_PARTITIONS - 1)

Times == 0 .. MaxClock

ASSUME PartitionAssumption == AUDIT_CHAIN_PARTITIONS \in Nat \ {0}
ASSUME ChainOfAssumption == ChainOf \in [Inputs -> Chains]
ASSUME ClockAssumption == MaxClock \in Nat

chain_id_for_input(i) == ChainOf[i]

EventTypes == {"calculation_persisted",
               "calculation_rejected_duplicate",
               "calculation_persist_failed"}

(***************************************************************************)
(* What audit_hash_payload puts under the hash.  The request id is         *)
(* uuid5(input_hash), so the input itself stands for it, and the payload   *)
(* is a function of the event type and the input.                          *)
(***************************************************************************)
AuditPayload == [event_type : EventTypes, reference_id : Inputs, created_at : Times]

Hash == Seq(AuditPayload)

ZERO_HASH == << >>

AuditRow == [id : Nat, chain_id : Chains, payload : AuditPayload,
             prev_hash : Hash, current_hash : Hash]

compute_audit_hash(prev_hash, payload) == Append(prev_hash, payload)

build_audit_event(id, payload, prev_hash, chain_id) ==
    [id |-> id, chain_id |-> chain_id, payload |-> payload,
     prev_hash |-> prev_hash,
     current_hash |-> compute_audit_hash(prev_hash, payload)]

-----------------------------------------------------------------------------
(***************************************************************************)
(* SELECT current_hash ... WHERE chain_id = c ORDER BY id DESC LIMIT 1,    *)
(* with ZERO_HASH for no row.                                              *)
(***************************************************************************)
ChainRows(log, c) == {r \in log : r.chain_id = c}

IsLast(rows, r) == r \in rows /\ \A q \in rows : q.id <= r.id

LastHash(rows) ==
    IF rows = {} THEN ZERO_HASH
                 ELSE (CHOOSE r \in rows : IsLast(rows, r)).current_hash

\* Mutation: the latest hash of the whole table, as before partitioning.
LatestHashOfTable(log, c) == LastHash(log)

LatestHash(log, c) == LastHash(ChainRows(log, c))

(***************************************************************************)
(* _verify_single_chain walks one chain in id order carrying previous_hash,*)
(* the current_hash of the row before.  A row is broken when one of the two *)
(* comparisons of the loop body fails on it.                               *)
(***************************************************************************)
Earlier(log, r) == {q \in log : q.chain_id = r.chain_id /\ q.id < r.id}

PreviousHashMismatch(log, r) == r.prev_hash # LastHash(Earlier(log, r))

CurrentHashMismatch(r) ==
    r.current_hash # compute_audit_hash(r.prev_hash, r.payload)

Broken(log) ==
    {r \in log : PreviousHashMismatch(log, r) \/ CurrentHashMismatch(r)}

(***************************************************************************)
(* verify_audit_chain walks the chains in chain_id order and reports the    *)
(* first broken row it meets.  checked_rows counts, for an INVALID result,  *)
(* the rows of that chain before the broken one.                           *)
(***************************************************************************)
FirstBroken(log) ==
    CHOOSE r \in Broken(log) : \A q \in Broken(log) :
        r.chain_id < q.chain_id \/ (r.chain_id = q.chain_id /\ r.id <= q.id)

verify_audit_chain(log) ==
    IF Broken(log) = {}
    THEN [status |-> "VALID", checked_rows |-> Cardinality(log)]
    ELSE [status |-> "INVALID",
          checked_rows |-> Cardinality(Earlier(log, FirstBroken(log))),
          broken_record_id |-> FirstBroken(log).id]

-----------------------------------------------------------------------------
(* Damage to a stored row, to state what a verification reports of it: the  *)
(* row read back with another payload, another link or another hash.        *)
DamagedRows(r) == {[r EXCEPT !.payload.event_type = "damaged"],
                   [r EXCEPT !.prev_hash = r.current_hash],
                   [r EXCEPT !.current_hash = r.prev_hash]}
=============================================================================
