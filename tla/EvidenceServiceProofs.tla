----------------------- MODULE EvidenceServiceProofs -----------------------
(***************************************************************************)
(* Theorems about EvidenceService for every set of callers and readers,    *)
(* every assignment of inputs to chains, every pool size, retry limit and  *)
(* number of faults.                                                       *)
(*                                                                         *)
(* ChainsVerify is not inductive: that a commit extends the end of its     *)
(* chain depends on what the transaction read several awaits earlier, and  *)
(* that this is still the end depends on the lock.  IInv adds exactly      *)
(* those facts.                                                            *)
(***************************************************************************)
EXTENDS EvidenceService, AuditChainProofs

\* From the choice of the audit event to the commit, one has been chosen.
EventChosen ==
    \A p \in Requests : pc[p] \in {"batch", "audit", "commit"} =>
        event_type[p] \in EventTypes

\* What a transaction read as the end of its chain still is the end.
SnapshotCurrent ==
    \A p \in Requests : pc[p] \in {"check", "batch", "audit", "commit"} =>
        prev_hash[p] = LatestHash(audit_log, ChainId(p))

\* A transaction about to commit holds one row, built on that end, with an id
\* above those of its chain.
PendingRow ==
    \A p \in Requests : pc[p] = "commit" =>
        \E k \in Nat :
            /\ row[p] = {build_audit_event(k, EventOf(p), prev_hash[p], ChainId(p))}
            /\ k < audit_seq
            /\ \A q \in ChainRows(audit_log, ChainId(p)) : q.id < k

\* Ids in the table have been handed out by the sequence.
IdsDrawn == \A r \in audit_log : r.id < audit_seq

\* What a transaction will do to the evidence tables agrees with them.
BatchAgrees ==
    \A p \in Requests :
        /\ batch[p] # {} => pc[p] \in {"audit", "commit", "rollback"}
        /\ pc[p] = "batch" => /\ event_type[p] = "calculation_persisted"
                              /\ InputOf[p] \notin requests
        /\ pc[p] \in {"audit", "commit"} =>
              CASE event_type[p] = "calculation_persisted" ->
                       batch[p] = {InputOf[p]} /\ InputOf[p] \notin requests
                [] event_type[p] = "calculation_rejected_duplicate" ->
                       batch[p] = {} /\ InputOf[p] \in requests
                [] OTHER -> batch[p] = {}

IInv ==
    /\ TypeOK
    /\ EventChosen
    /\ LocksScoped
    /\ WellFormed(audit_log)
    /\ SnapshotCurrent
    /\ PendingRow
    /\ IdsDrawn
    /\ BatchAgrees

-----------------------------------------------------------------------------
\* The chain of a call is a chain.
LEMMA ChainIdType == \A p \in Requests : ChainId(p) \in Chains /\ InputOf[p] \in Inputs
BY InputOfAssumption, ChainOfAssumption DEF ChainId, chain_id_for_input

\* chain_metrics counters stay natural numbers.
LEMMA CountType ==
    ASSUME TypeOK, NEW p \in Requests, NEW k \in Counters, Count(p, k)
    PROVE  metrics' \in [Chains -> [Counters -> Nat]]
BY ChainIdType DEF Count, TypeOK

\* What any path through the except clauses leaves: the call waits for a
\* connection again or is answered, and only its own locals have changed.
Caught(p) ==
    /\ \E l \in {"pool", "done"} : pc' = [pc EXCEPT ![p] = l]
    /\ job' \in [Requests -> {"persist", "log"}]
    /\ attempt' \in [Requests -> 1 .. MAX_TRANSACTION_RETRIES]
    /\ created_at' \in [Requests -> Times]
    /\ \A q \in Requests \ {p} : created_at'[q] = created_at[q]
    /\ outcome' \in [Requests -> {"none", "success", "duplicate", "error"}]
    /\ metrics' \in [Chains -> [Counters -> Nat]]
    /\ clock' \in 0 .. MaxClock

\* The except clauses of calculate_and_persist establish Caught.
LEMMA ExceptFacts ==
    ASSUME TypeOK, NEW p \in Requests, NEW kind, ExceptClauses(p, kind)
    PROVE  Caught(p)
<1>1. \E l \in {"pool", "done"} : pc' = [pc EXCEPT ![p] = l]
  BY DEF ExceptClauses, Answer, StartFailureLog, Goto
<1>2. job' \in [Requests -> {"persist", "log"}]
  BY DEF ExceptClauses, Answer, StartFailureLog, TypeOK
<1>3. attempt' \in [Requests -> 1 .. MAX_TRANSACTION_RETRIES]
  <2>1. attempt \in [Requests -> 1 .. MAX_TRANSACTION_RETRIES]
    BY DEF TypeOK
  <2>2. attempt[p] # MAX_TRANSACTION_RETRIES =>
           attempt[p] + 1 \in 1 .. MAX_TRANSACTION_RETRIES
    BY <2>1, RetryAssumption
  <2>3. \/ attempt' = attempt
        \/ /\ attempt[p] # MAX_TRANSACTION_RETRIES
           /\ attempt' = [attempt EXCEPT ![p] = attempt[p] + 1]
    BY DEF ExceptClauses, Answer, StartFailureLog
  <2> QED
    BY <2>1, <2>2, <2>3
<1>4. /\ created_at' \in [Requests -> Times]
      /\ \A q \in Requests \ {p} : created_at'[q] = created_at[q]
      /\ clock' \in 0 .. MaxClock
  BY ClockAssumption DEF ExceptClauses, Answer, StartFailureLog, utc_now, Times, TypeOK
<1>5. outcome' \in [Requests -> {"none", "success", "duplicate", "error"}]
  BY DEF ExceptClauses, Answer, StartFailureLog, TypeOK
<1>6. metrics' \in [Chains -> [Counters -> Nat]]
  BY ChainIdType DEF ExceptClauses, Count, Counters, TypeOK
<1> QED
  BY <1>1, <1>2, <1>3, <1>4, <1>5, <1>6 DEF Caught

-----------------------------------------------------------------------------
\* Every step keeps every variable in its type.
LEMMA TypeStep ==
    ASSUME IInv, [Next]_vars
    PROVE  TypeOK' /\ EventChosen'
<1> USE DEF IInv, Goto, Fault, db, local, reading, process, Labels, InTxn, Critical
<1> SUFFICES ASSUME Next PROVE TypeOK' /\ EventChosen'
  <2>1. CASE UNCHANGED vars
    BY <2>1 DEF vars, TypeOK, EventChosen
  <2> QED
    BY <2>1
<1>1. ASSUME NEW p \in Requests, Compute(p)
      PROVE  TypeOK' /\ EventChosen'
  <2>1. metrics' \in [Chains -> [Counters -> Nat]]
    BY <1>1, ChainIdType DEF Compute, Count, Counters, TypeOK
  <2> QED
    BY <1>1, <2>1, ClockAssumption DEF Compute, utc_now, Times, TypeOK, EventChosen
<1>2. ASSUME NEW p \in Requests, ComputeFails(p)
      PROVE  TypeOK' /\ EventChosen'
  BY <1>2, FaultAssumption DEF ComputeFails, Answer, TypeOK, EventChosen
<1>3. ASSUME NEW p \in Requests, AcquireConnection(p)
      PROVE  TypeOK' /\ EventChosen'
  BY <1>3 DEF AcquireConnection, TypeOK, EventChosen
<1>4. ASSUME NEW p \in Requests, PoolTimeout(p)
      PROVE  TypeOK' /\ EventChosen'
  <2>1. ExceptClauses(p, "other")
    BY <1>4 DEF PoolTimeout
  <2>c. Caught(p)
    BY <2>1, ExceptFacts
  <2>t. TypeOK'
    <3>1. pc' \in [Requests -> Labels]
      BY <2>c DEF Caught, TypeOK
    <3> QED
      BY <1>4, <2>c, <3>1
         DEF Caught, PoolTimeout, TypeOK
  <2>e. EventChosen'
    BY <1>4, <2>c DEF Caught, PoolTimeout, TypeOK, EventChosen
  <2> QED
    BY <2>t, <2>e
<1>5. ASSUME NEW p \in Requests, BeginTransaction(p)
      PROVE  TypeOK' /\ EventChosen'
  BY <1>5 DEF BeginTransaction, TypeOK, EventChosen
<1>6. ASSUME NEW p \in Requests, BeginFails(p)
      PROVE  TypeOK' /\ EventChosen'
  <2>1. ExceptClauses(p, "other")
    BY <1>6 DEF BeginFails
  <2>c. Caught(p)
    BY <2>1, ExceptFacts
  <2>2. faults' \in 0 .. MaxFaults
    BY <1>6, FaultAssumption DEF BeginFails, TypeOK
  <2>3. TypeOK'
    <3>1. leaked' \in Nat
      BY <1>6 DEF BeginFails, TypeOK
    <3>2. pc' \in [Requests -> Labels]
      BY <2>c DEF Caught, TypeOK
    <3> QED
      BY <1>6, <2>c, <2>2, <3>1, <3>2 DEF Caught, BeginFails, TypeOK
  <2>4. EventChosen'
    BY <1>6, <2>c DEF Caught, BeginFails, TypeOK, EventChosen
  <2> QED
    BY <2>3, <2>4
<1>7. ASSUME NEW p \in Requests, acquire_audit_chain_lock(p)
      PROVE  TypeOK' /\ EventChosen'
  BY <1>7, ChainIdType DEF acquire_audit_chain_lock, TypeOK, EventChosen
<1>8. ASSUME NEW p \in Requests, fetch_latest_audit_hash_for_chain(p)
      PROVE  TypeOK' /\ EventChosen'
  <2>1. LatestHash(audit_log, ChainId(p)) \in Hash
    BY ChainIdType, LatestHashType
  <2>2. TypeOK'
    BY <1>8, <2>1 DEF fetch_latest_audit_hash_for_chain, TypeOK, EventTypes
  <2>3. EventChosen'
    BY <1>8 DEF fetch_latest_audit_hash_for_chain, TypeOK, EventChosen, EventTypes
  <2> QED
    BY <2>2, <2>3
<1>9. ASSUME NEW p \in Requests, check_duplicate(p)
      PROVE  TypeOK' /\ EventChosen'
  <2>1. PICK e \in EventTypes, l \in {"audit", "batch"} :
           /\ event_type' = [event_type EXCEPT ![p] = e]
           /\ pc' = [pc EXCEPT ![p] = l]
    BY <1>9 DEF check_duplicate, EventTypes
  <2> QED
    BY <1>9, <2>1 DEF check_duplicate, TypeOK, EventChosen
<1>10. ASSUME NEW p \in Requests, insert_records_batch(p)
      PROVE  TypeOK' /\ EventChosen'
  <2>1. CASE InputOf[p] \in requests
    BY <1>10, <2>1 DEF insert_records_batch, TypeOK, EventChosen
  <2>2. CASE InputOf[p] \notin requests
    <3>1. EventChosen'
      BY <1>10, <2>2 DEF insert_records_batch, TypeOK, EventChosen
    <3>2. batch' \in [Requests -> SUBSET Inputs]
      <4>1. {InputOf[p]} \in SUBSET Inputs
        BY ChainIdType
      <4> QED
        BY <1>10, <2>2, <4>1 DEF insert_records_batch, TypeOK
    <3> QED
      BY <1>10, <2>2, <3>1, <3>2 DEF insert_records_batch, TypeOK
  <2> QED
    BY <2>1, <2>2
<1>11. ASSUME NEW p \in Requests, insert_audit_event(p)
      PROVE  TypeOK' /\ EventChosen'
  <2>1. EventOf(p) \in AuditPayload
    BY <1>11, ChainIdType DEF insert_audit_event, EventOf, AuditPayload, TypeOK, EventChosen
  <2>2. build_audit_event(audit_seq, EventOf(p), prev_hash[p], ChainId(p)) \in AuditRow
    BY <2>1, RowType, ChainIdType DEF TypeOK
  <2> QED
    BY <1>11, <2>2 DEF insert_audit_event, TypeOK, EventChosen
<1>12. ASSUME NEW p \in Requests, LockTimeout(p)
      PROVE  TypeOK' /\ EventChosen'
  BY <1>12 DEF LockTimeout, TypeOK, EventChosen
<1>13. ASSUME NEW p \in Requests, NEW kind \in {"retryable", "other"}, BlockFails(p, kind)
      PROVE  TypeOK' /\ EventChosen'
  BY <1>13, FaultAssumption DEF BlockFails, TypeOK, EventChosen
<1>14. ASSUME NEW p \in Requests, NEW kind, Rollback(p, kind)
      PROVE  TypeOK' /\ EventChosen'
  <2>1. ExceptClauses(p, kind)
    BY <1>14 DEF Rollback
  <2>c. Caught(p)
    BY <2>1, ExceptFacts
  <2>2. faults' \in 0 .. MaxFaults
    BY <1>14, FaultAssumption DEF Rollback, TypeOK
  <2>t. TypeOK'
    <3>1. pc' \in [Requests -> Labels]
      BY <2>c DEF Caught, TypeOK
    <3> QED
      BY <1>14, <2>c, <2>2, <3>1
         DEF Caught, Rollback, DropTransaction, Unlocked, TypeOK
  <2>e. EventChosen'
    BY <1>14, <2>c, <2>2 DEF Caught, Rollback, TypeOK, EventChosen
  <2> QED
    BY <2>t, <2>e
<1>15. ASSUME NEW p \in Requests, Commit(p)
      PROVE  TypeOK' /\ EventChosen'
  BY <1>15 DEF Commit, DropTransaction, Unlocked, TypeOK, EventChosen
<1>16. ASSUME NEW p \in Requests, NEW kind, CommitFails(p, kind)
      PROVE  TypeOK' /\ EventChosen'
  <2>1. ExceptClauses(p, kind)
    BY <1>16 DEF CommitFails
  <2>c. Caught(p)
    BY <2>1, ExceptFacts
  <2>2. faults' \in 0 .. MaxFaults
    BY <1>16, FaultAssumption DEF CommitFails, TypeOK
  <2>t. TypeOK'
    <3>1. pc' \in [Requests -> Labels]
      BY <2>c DEF Caught, TypeOK
    <3> QED
      BY <1>16, <2>c, <2>2, <3>1
         DEF Caught, CommitFails, DropTransaction, Unlocked, TypeOK
  <2>e. EventChosen'
    BY <1>16, <2>c, <2>2 DEF Caught, CommitFails, TypeOK, EventChosen
  <2> QED
    BY <2>t, <2>e
<1>17. ASSUME NEW p \in Requests, Acknowledge(p)
      PROVE  TypeOK' /\ EventChosen'
  <2>1. metrics' \in [Chains -> [Counters -> Nat]]
    <3>1. \/ metrics' = metrics
          \/ Count(p, "duplicates")
          \/ Count(p, "successes")
      BY <1>17 DEF Acknowledge
    <3> QED
      BY <3>1, CountType DEF Counters, TypeOK
  <2>2. \E result \in {"success", "duplicate", "error"} : Answer(p, result)
    BY <1>17 DEF Acknowledge
  <2> QED
    BY <1>17, <2>1, <2>2 DEF Acknowledge, Answer, TypeOK, EventChosen
<1>18. ASSUME NEW p \in Requests, AcknowledgeLost(p)
      PROVE  TypeOK' /\ EventChosen'
  <2>1. ExceptClauses(p, "other")
    BY <1>18 DEF AcknowledgeLost
  <2>c. Caught(p)
    BY <2>1, ExceptFacts
  <2>2. faults' \in 0 .. MaxFaults
    BY <1>18, FaultAssumption DEF AcknowledgeLost, TypeOK
  <2>3. TypeOK'
    <3>1. pool_free' \in Nat
      BY <1>18 DEF AcknowledgeLost, TypeOK
    <3>2. pc' \in [Requests -> Labels]
      BY <2>c DEF Caught, TypeOK
    <3> QED
      BY <1>18, <2>c, <2>2, <3>1, <3>2 DEF Caught, AcknowledgeLost, TypeOK
  <2>4. EventChosen'
    BY <1>18, <2>c DEF Caught, AcknowledgeLost, TypeOK, EventChosen
  <2> QED
    BY <2>3, <2>4
<1>19. ASSUME NEW v \in Readers, Reading(v)
      PROVE  TypeOK' /\ EventChosen'
  <2>1. CASE fetch_by_input_hash(v)
    <3>1. TypeOK'
      <4>1. LatestAbout(audit_log, InputOf[v]) \in SUBSET AuditRow
        BY DEF LatestAbout, AboutInput, TypeOK
      <4>2. \/ stored' = stored
            \/ stored' = [stored EXCEPT ![v] = LatestAbout(audit_log, InputOf[v])]
        BY <2>1 DEF fetch_by_input_hash
      <4>3. stored' \in [Readers -> SUBSET AuditRow]
        BY <4>1, <4>2 DEF TypeOK
      <4>4. verdict' \in [Readers -> {"idle", "found", "missing", "VALID",
                                      "INVALID", "error", "crashed"}]
        BY <2>1 DEF fetch_by_input_hash, TypeOK
      <4> QED
        BY <2>1, <4>3, <4>4 DEF fetch_by_input_hash, TypeOK
    <3>2. EventChosen'
      BY <2>1 DEF fetch_by_input_hash, EventChosen
    <3> QED
      BY <3>1, <3>2
  <2>2. CASE verify_persisted(v)
    BY <2>2 DEF verify_persisted, VerificationStatus, TypeOK, EventChosen
  <2>3. CASE ReadUnavailable(v)
    BY <2>3 DEF ReadUnavailable, TypeOK, EventChosen
  <2> QED
    BY <1>19, <2>1, <2>2, <2>3 DEF Reading
<1>20. CASE Crash
  BY <1>20, PoolAssumption, FaultAssumption
     DEF Crash, Unlocked, InFlight, Active, Connected, Counters, TypeOK, EventChosen
<1>21. CASE Rest
  BY <1>21 DEF Rest, vars, TypeOK, EventChosen
<1> QED
  BY <1>1, <1>2, <1>3, <1>4, <1>5, <1>6, <1>7, <1>8, <1>9, <1>10, <1>11, <1>12,
     <1>13, <1>14, <1>15, <1>16, <1>17, <1>18, <1>19, <1>20, <1>21
     DEF Next, Progress, Trouble

-----------------------------------------------------------------------------
\* Every step keeps the chain locks scoped to the transactions that took them:
\* a step of one call neither takes nor frees the lock another call relies on.
LEMMA LockStep ==
    ASSUME IInv, [Next]_vars
    PROVE  LocksScoped'
<1> USE DEF Goto, Critical
<1>0. TypeOK /\ LocksScoped /\ TypeOK'
  BY TypeStep DEF IInv
<1> SUFFICES ASSUME Next PROVE LocksScoped'
  BY <1>0 DEF vars, LocksScoped, ChainId
<1>1. ASSUME NEW p \in Requests, Compute(p)
      PROVE  LocksScoped'
  BY <1>0, <1>1, ChainIdType, NoOneAssumption
     DEF Compute, LocksScoped, TypeOK, ChainId
<1>2. ASSUME NEW p \in Requests, ComputeFails(p)
      PROVE  LocksScoped'
  BY <1>0, <1>2, ChainIdType, NoOneAssumption
     DEF ComputeFails, Answer, LocksScoped, TypeOK, ChainId
<1>3. ASSUME NEW p \in Requests, AcquireConnection(p)
      PROVE  LocksScoped'
  BY <1>0, <1>3, ChainIdType, NoOneAssumption
     DEF AcquireConnection, LocksScoped, TypeOK, ChainId
<1>4. ASSUME NEW p \in Requests, PoolTimeout(p)
      PROVE  LocksScoped'
  <2>1. ExceptClauses(p, "other")
    BY <1>4 DEF PoolTimeout
  <2>2. PICK l \in {"pool", "done"} : pc' = [pc EXCEPT ![p] = l]
    BY <1>0, <2>1, ExceptFacts DEF Caught
  <2> QED
    BY <1>0, <1>4, <2>2, ChainIdType, NoOneAssumption
       DEF PoolTimeout, LocksScoped, TypeOK, ChainId
<1>5. ASSUME NEW p \in Requests, BeginTransaction(p)
      PROVE  LocksScoped'
  BY <1>0, <1>5, ChainIdType, NoOneAssumption
     DEF BeginTransaction, LocksScoped, TypeOK, ChainId
<1>6. ASSUME NEW p \in Requests, BeginFails(p)
      PROVE  LocksScoped'
  <2>1. ExceptClauses(p, "other")
    BY <1>6 DEF BeginFails
  <2>2. PICK l \in {"pool", "done"} : pc' = [pc EXCEPT ![p] = l]
    BY <1>0, <2>1, ExceptFacts DEF Caught
  <2> QED
    BY <1>0, <1>6, <2>2, ChainIdType, NoOneAssumption
       DEF BeginFails, LocksScoped, TypeOK, ChainId
<1>7. ASSUME NEW p \in Requests, acquire_audit_chain_lock(p)
      PROVE  LocksScoped'
  BY <1>0, <1>7, ChainIdType, NoOneAssumption
     DEF acquire_audit_chain_lock, LocksScoped, TypeOK, ChainId
<1>8. ASSUME NEW p \in Requests, fetch_latest_audit_hash_for_chain(p)
      PROVE  LocksScoped'
  <2>1. PICK l \in {"audit", "check"} : pc' = [pc EXCEPT ![p] = l]
    BY <1>8 DEF fetch_latest_audit_hash_for_chain
  <2>2. UNCHANGED chain_lock
    BY <1>8 DEF fetch_latest_audit_hash_for_chain
  <2> QED
    BY <1>0, <1>8, <2>1, <2>2, ChainIdType, NoOneAssumption
       DEF fetch_latest_audit_hash_for_chain, LocksScoped, TypeOK, ChainId
<1>9. ASSUME NEW p \in Requests, check_duplicate(p)
      PROVE  LocksScoped'
  <2>1. PICK l \in {"audit", "batch"} : pc' = [pc EXCEPT ![p] = l]
    BY <1>9 DEF check_duplicate
  <2>2. UNCHANGED chain_lock
    BY <1>9 DEF check_duplicate
  <2> QED
    BY <1>0, <1>9, <2>1, <2>2, ChainIdType, NoOneAssumption
       DEF check_duplicate, LocksScoped, TypeOK, ChainId
<1>10. ASSUME NEW p \in Requests, insert_records_batch(p)
      PROVE  LocksScoped'
  <2>1. PICK l \in {"rollback", "audit"} : pc' = [pc EXCEPT ![p] = l]
    BY <1>10 DEF insert_records_batch
  <2>2. UNCHANGED chain_lock
    BY <1>10 DEF insert_records_batch
  <2> QED
    BY <1>0, <1>10, <2>1, <2>2, ChainIdType, NoOneAssumption
       DEF insert_records_batch, LocksScoped, TypeOK, ChainId
<1>11. ASSUME NEW p \in Requests, insert_audit_event(p)
      PROVE  LocksScoped'
  BY <1>0, <1>11, ChainIdType, NoOneAssumption
     DEF insert_audit_event, LocksScoped, TypeOK, ChainId
<1>12. ASSUME NEW p \in Requests, LockTimeout(p)
      PROVE  LocksScoped'
  BY <1>0, <1>12, ChainIdType, NoOneAssumption
     DEF LockTimeout, LocksScoped, TypeOK, ChainId
<1>13. ASSUME NEW p \in Requests, NEW kind, BlockFails(p, kind)
      PROVE  LocksScoped'
  BY <1>0, <1>13, ChainIdType, NoOneAssumption
     DEF BlockFails, InTxn, LocksScoped, TypeOK, ChainId
<1>14. ASSUME NEW p \in Requests, NEW kind, Rollback(p, kind)
      PROVE  LocksScoped'
  <2>1. ExceptClauses(p, kind)
    BY <1>14 DEF Rollback
  <2>2. PICK l \in {"pool", "done"} : pc' = [pc EXCEPT ![p] = l]
    BY <1>0, <2>1, ExceptFacts DEF Caught
  <2> QED
    BY <1>0, <1>14, <2>2, ChainIdType, NoOneAssumption
       DEF Rollback, DropTransaction, Unlocked, LocksScoped, TypeOK, ChainId
<1>15. ASSUME NEW p \in Requests, Commit(p)
      PROVE  LocksScoped'
  BY <1>0, <1>15, ChainIdType, NoOneAssumption
     DEF Commit, DropTransaction, Unlocked, LocksScoped, TypeOK, ChainId
<1>16. ASSUME NEW p \in Requests, NEW kind, CommitFails(p, kind)
      PROVE  LocksScoped'
  <2>1. ExceptClauses(p, kind)
    BY <1>16 DEF CommitFails
  <2>2. PICK l \in {"pool", "done"} : pc' = [pc EXCEPT ![p] = l]
    BY <1>0, <2>1, ExceptFacts DEF Caught
  <2> QED
    BY <1>0, <1>16, <2>2, ChainIdType, NoOneAssumption
       DEF CommitFails, DropTransaction, Unlocked, LocksScoped, TypeOK, ChainId
<1>17. ASSUME NEW p \in Requests, Acknowledge(p)
      PROVE  LocksScoped'
  <2>1. PICK l \in {"done"} : pc' = [pc EXCEPT ![p] = l]
    BY <1>17 DEF Acknowledge, Answer
  <2>2. UNCHANGED chain_lock
    BY <1>17 DEF Acknowledge, Answer
  <2> QED
    BY <1>0, <1>17, <2>1, <2>2, ChainIdType, NoOneAssumption
       DEF Acknowledge, LocksScoped, TypeOK, ChainId
<1>18. ASSUME NEW p \in Requests, AcknowledgeLost(p)
      PROVE  LocksScoped'
  <2>1. ExceptClauses(p, "other")
    BY <1>18 DEF AcknowledgeLost
  <2>2. PICK l \in {"pool", "done"} : pc' = [pc EXCEPT ![p] = l]
    BY <1>0, <2>1, ExceptFacts DEF Caught
  <2> QED
    BY <1>0, <1>18, <2>2, ChainIdType, NoOneAssumption
       DEF AcknowledgeLost, LocksScoped, TypeOK, ChainId
<1>19. ASSUME NEW v \in Readers, Reading(v)
       PROVE  LocksScoped'
  BY <1>0, <1>19
     DEF Reading, fetch_by_input_hash, verify_persisted, ReadUnavailable, LocksScoped, ChainId
<1>20. CASE Crash
  BY <1>0, <1>20, ChainIdType, NoOneAssumption
     DEF Crash, Unlocked, InFlight, Active, Connected, InTxn, LocksScoped, TypeOK, ChainId
<1>21. CASE Rest
  BY <1>0, <1>21 DEF Rest, vars, LocksScoped, ChainId
<1> QED
  BY <1>1, <1>2, <1>3, <1>4, <1>5, <1>6, <1>7, <1>8, <1>9, <1>10, <1>11, <1>12,
     <1>13, <1>14, <1>15, <1>16, <1>17, <1>18, <1>19, <1>20, <1>21
     DEF Next, Progress, Trouble

-----------------------------------------------------------------------------
ChainInv == WellFormed(audit_log) /\ SnapshotCurrent /\ PendingRow /\ IdsDrawn

\* A step of one call changes no other call's locals.
OthersKept(p) ==
    \A q \in Requests \ {p} :
        /\ pc'[q] = pc[q]
        /\ prev_hash'[q] = prev_hash[q]
        /\ event_type'[q] = event_type[q]
        /\ created_at'[q] = created_at[q]
        /\ row'[q] = row[q]
        /\ batch'[q] = batch[q]

\* A step of one call that commits nothing, draws no id and leaves its own
\* snapshot current disturbs no invariant of the chains.
LEMMA SnapshotStep ==
    ASSUME IInv, NEW p \in Requests, UNCHANGED db, OthersKept(p),
           pc'[p] # "commit",
           pc'[p] \in {"check", "batch", "audit"} =>
               prev_hash'[p] = LatestHash(audit_log, ChainId(p))
    PROVE  ChainInv'
<1>1. WellFormed(audit_log)'
  BY DEF IInv, db
<1>2. IdsDrawn'
  BY DEF IInv, db, IdsDrawn
<1>3. SnapshotCurrent'
  BY DEF IInv, OthersKept, db, SnapshotCurrent, ChainId
<1>4. PendingRow'
  BY DEF IInv, OthersKept, db, PendingRow, ChainId, EventOf
<1> QED
  BY <1>1, <1>2, <1>3, <1>4 DEF ChainInv

(***************************************************************************)
(* A step of one call that leaves the tables alone and leaves the call     *)
(* outside the statements between the fetch and the commit.                *)
(***************************************************************************)
Quiet(p) ==
    /\ UNCHANGED db
    /\ OthersKept(p)
    /\ pc'[p] \notin {"check", "batch", "audit", "commit"}
    /\ batch'[p] # {} => pc'[p] = "rollback"

\* A quiet step disturbs no invariant of the chains or of the evidence.
LEMMA QuietStep ==
    ASSUME IInv, NEW p \in Requests, Quiet(p)
    PROVE  ChainInv' /\ BatchAgrees'
<1>1. ChainInv'
  BY SnapshotStep DEF Quiet
<1>2. BatchAgrees'
  BY DEF IInv, Quiet, OthersKept, db, BatchAgrees
<1> QED
  BY <1>1, <1>2

\* Every step keeps the chains well formed, every open snapshot current and
\* the pending writes in agreement with the tables.
LEMMA ChainStep ==
    ASSUME IInv, [Next]_vars
    PROVE  ChainInv' /\ BatchAgrees'
<1> USE DEF Goto, db, local
<1>0. /\ TypeOK /\ LocksScoped /\ ChainInv /\ BatchAgrees /\ EventChosen
      /\ TypeOK'
  BY TypeStep DEF IInv, ChainInv
<1> SUFFICES ASSUME Next PROVE ChainInv' /\ BatchAgrees'
  BY <1>0 DEF vars, ChainInv, SnapshotCurrent, PendingRow, IdsDrawn, BatchAgrees,
              EventOf, ChainId
<1>1. ASSUME NEW p \in Requests, Compute(p)
       PROVE  ChainInv' /\ BatchAgrees'
  <2>0. batch[p] = {}
    BY <1>0, <1>1 DEF Compute, BatchAgrees
  <2>1. Quiet(p)
    BY <1>0, <2>0, <1>1 DEF Compute, utc_now, Quiet, OthersKept, TypeOK
  <2> QED
    BY <2>1, QuietStep
<1>2. ASSUME NEW p \in Requests, ComputeFails(p)
       PROVE  ChainInv' /\ BatchAgrees'
  <2>0. batch[p] = {}
    BY <1>0, <1>2 DEF ComputeFails, BatchAgrees
  <2>1. Quiet(p)
    BY <1>0, <2>0, <1>2 DEF ComputeFails, Answer, Quiet, OthersKept, TypeOK
  <2> QED
    BY <2>1, QuietStep
<1>3. ASSUME NEW p \in Requests, AcquireConnection(p)
       PROVE  ChainInv' /\ BatchAgrees'
  <2>1. Quiet(p)
    BY <1>0, <1>3 DEF AcquireConnection, Quiet, OthersKept, TypeOK, BatchAgrees
  <2> QED
    BY <2>1, QuietStep
<1>4. ASSUME NEW p \in Requests, PoolTimeout(p)
       PROVE  ChainInv' /\ BatchAgrees'
  <2>1. ExceptClauses(p, "other")
    BY <1>4 DEF PoolTimeout
  <2>2. PICK l \in {"pool", "done"} : pc' = [pc EXCEPT ![p] = l]
    BY <1>0, <2>1, ExceptFacts DEF Caught
  <2>3. \A q \in Requests \ {p} : created_at'[q] = created_at[q]
    BY <1>0, <2>1, ExceptFacts DEF Caught
  <2>0. batch[p] = {}
    BY <1>0, <1>4 DEF PoolTimeout, BatchAgrees
  <2>4. Quiet(p)
    BY <1>0, <2>0, <1>4, <2>2, <2>3 DEF PoolTimeout, Quiet, OthersKept, TypeOK
  <2> QED
    BY <2>4, QuietStep
<1>5. ASSUME NEW p \in Requests, BeginTransaction(p)
       PROVE  ChainInv' /\ BatchAgrees'
  <2>0. batch[p] = {}
    BY <1>0, <1>5 DEF BeginTransaction, BatchAgrees
  <2>1. Quiet(p)
    BY <1>0, <2>0, <1>5 DEF BeginTransaction, Quiet, OthersKept, TypeOK
  <2> QED
    BY <2>1, QuietStep
<1>6. ASSUME NEW p \in Requests, BeginFails(p)
       PROVE  ChainInv' /\ BatchAgrees'
  <2>1. ExceptClauses(p, "other")
    BY <1>6 DEF BeginFails
  <2>2. PICK l \in {"pool", "done"} : pc' = [pc EXCEPT ![p] = l]
    BY <1>0, <2>1, ExceptFacts DEF Caught
  <2>3. \A q \in Requests \ {p} : created_at'[q] = created_at[q]
    BY <1>0, <2>1, ExceptFacts DEF Caught
  <2>0. batch[p] = {}
    BY <1>0, <1>6 DEF BeginFails, BatchAgrees
  <2>4. Quiet(p)
    BY <1>0, <1>6, <2>0, <2>2, <2>3 DEF BeginFails, Quiet, OthersKept, TypeOK
  <2> QED
    BY <2>4, QuietStep
<1>7. ASSUME NEW p \in Requests, acquire_audit_chain_lock(p)
       PROVE  ChainInv' /\ BatchAgrees'
  <2>0. batch[p] = {}
    BY <1>0, <1>7 DEF acquire_audit_chain_lock, BatchAgrees
  <2>1. Quiet(p)
    BY <1>0, <2>0, <1>7 DEF acquire_audit_chain_lock, Quiet, OthersKept, TypeOK
  <2> QED
    BY <2>1, QuietStep
<1>8. ASSUME NEW p \in Requests, LockTimeout(p)
       PROVE  ChainInv' /\ BatchAgrees'
  <2>1. Quiet(p)
    BY <1>0, <1>8 DEF LockTimeout, Quiet, OthersKept, TypeOK, BatchAgrees
  <2> QED
    BY <2>1, QuietStep
<1>9. ASSUME NEW p \in Requests, NEW kind, BlockFails(p, kind)
       PROVE  ChainInv' /\ BatchAgrees'
  <2>1. Quiet(p)
    BY <1>0, <1>9 DEF BlockFails, InTxn, Critical, Quiet, OthersKept, TypeOK, BatchAgrees
  <2> QED
    BY <2>1, QuietStep
<1>10. ASSUME NEW p \in Requests, NEW kind, Rollback(p, kind)
       PROVE  ChainInv' /\ BatchAgrees'
  <2>1. ExceptClauses(p, kind)
    BY <1>10 DEF Rollback
  <2>2. PICK l \in {"pool", "done"} : pc' = [pc EXCEPT ![p] = l]
    BY <1>0, <2>1, ExceptFacts DEF Caught
  <2>3. \A q \in Requests \ {p} : created_at'[q] = created_at[q]
    BY <1>0, <2>1, ExceptFacts DEF Caught
  <2>4. Quiet(p)
    BY <1>0, <1>10, <2>2, <2>3 DEF Rollback, DropTransaction, Quiet, OthersKept, TypeOK, BatchAgrees
  <2> QED
    BY <2>4, QuietStep
<1>11. ASSUME NEW p \in Requests, NEW kind, CommitFails(p, kind)
       PROVE  ChainInv' /\ BatchAgrees'
  <2>1. ExceptClauses(p, kind)
    BY <1>11 DEF CommitFails
  <2>2. PICK l \in {"pool", "done"} : pc' = [pc EXCEPT ![p] = l]
    BY <1>0, <2>1, ExceptFacts DEF Caught
  <2>3. \A q \in Requests \ {p} : created_at'[q] = created_at[q]
    BY <1>0, <2>1, ExceptFacts DEF Caught
  <2>4. Quiet(p)
    BY <1>0, <1>11, <2>2, <2>3 DEF CommitFails, DropTransaction, Quiet, OthersKept, TypeOK, BatchAgrees
  <2> QED
    BY <2>4, QuietStep
<1>12. ASSUME NEW p \in Requests, Acknowledge(p)
       PROVE  ChainInv' /\ BatchAgrees'
  <2>0. batch[p] = {}
    BY <1>0, <1>12 DEF Acknowledge, BatchAgrees
  <2>1. Quiet(p)
    BY <1>0, <2>0, <1>12 DEF Acknowledge, Answer, Quiet, OthersKept, TypeOK
  <2> QED
    BY <2>1, QuietStep
<1>13. ASSUME NEW p \in Requests, AcknowledgeLost(p)
       PROVE  ChainInv' /\ BatchAgrees'
  <2>1. ExceptClauses(p, "other")
    BY <1>13 DEF AcknowledgeLost
  <2>2. PICK l \in {"pool", "done"} : pc' = [pc EXCEPT ![p] = l]
    BY <1>0, <2>1, ExceptFacts DEF Caught
  <2>3. \A q \in Requests \ {p} : created_at'[q] = created_at[q]
    BY <1>0, <2>1, ExceptFacts DEF Caught
  <2>4. Quiet(p)
    BY <1>0, <1>13, <2>2, <2>3 DEF AcknowledgeLost, Quiet, OthersKept, TypeOK, BatchAgrees
  <2> QED
    BY <2>4, QuietStep
<1>14. ASSUME NEW p \in Requests, fetch_latest_audit_hash_for_chain(p)
       PROVE  ChainInv' /\ BatchAgrees'
  <2>1. PICK l \in {"audit", "check"} :
           /\ pc' = [pc EXCEPT ![p] = l]
           /\ l = "audit" => event_type'[p] = "calculation_persist_failed"
           /\ \A q \in Requests \ {p} : event_type'[q] = event_type[q]
    BY <1>0, <1>14 DEF fetch_latest_audit_hash_for_chain, TypeOK
  <2>2. /\ prev_hash' = [prev_hash EXCEPT ![p] = LatestHash(audit_log, ChainId(p))]
        /\ UNCHANGED <<requests, audit_log, audit_seq, created_at, row, batch>>
        /\ pc[p] = "fetch"
    BY <1>14 DEF fetch_latest_audit_hash_for_chain
  <2>3. OthersKept(p)
    BY <1>0, <2>1, <2>2 DEF OthersKept, TypeOK
  <2>4. pc'[p] # "commit" /\ prev_hash'[p] = LatestHash(audit_log, ChainId(p))
    BY <1>0, <2>1, <2>2 DEF ChainInv, SnapshotCurrent, TypeOK
  <2>5. ChainInv'
    BY <2>1, <2>2, <2>3, <2>4, SnapshotStep
  <2>6. BatchAgrees'
    BY <1>0, <2>1, <2>2, <2>3 DEF OthersKept, BatchAgrees, TypeOK
  <2> QED
    BY <2>5, <2>6
<1>15. ASSUME NEW p \in Requests, check_duplicate(p)
       PROVE  ChainInv' /\ BatchAgrees'
  <2>1. /\ UNCHANGED <<requests, audit_log, audit_seq, created_at, prev_hash, row, batch>>
        /\ pc[p] = "check"
    BY <1>15 DEF check_duplicate
  <2>2. \/ /\ InputOf[p] \in requests
           /\ event_type' = [event_type EXCEPT ![p] = "calculation_rejected_duplicate"]
           /\ pc' = [pc EXCEPT ![p] = "audit"]
        \/ /\ InputOf[p] \notin requests
           /\ event_type' = [event_type EXCEPT ![p] = "calculation_persisted"]
           /\ pc' = [pc EXCEPT ![p] = "batch"]
    BY <1>15 DEF check_duplicate
  <2>3. OthersKept(p)
    BY <1>0, <2>1, <2>2 DEF OthersKept, TypeOK
  <2>4. pc'[p] # "commit" /\ prev_hash'[p] = LatestHash(audit_log, ChainId(p))
    BY <1>0, <2>1, <2>2 DEF ChainInv, SnapshotCurrent, TypeOK
  <2>5. ChainInv'
    BY <2>1, <2>2, <2>3, <2>4, SnapshotStep
  <2>6. BatchAgrees'
    BY <1>0, <2>1, <2>2, <2>3 DEF OthersKept, BatchAgrees, TypeOK
  <2> QED
    BY <2>5, <2>6
<1>16. ASSUME NEW p \in Requests, insert_records_batch(p)
       PROVE  ChainInv' /\ BatchAgrees'
  <2>1. /\ UNCHANGED <<requests, audit_log, audit_seq, created_at, prev_hash, event_type, row>>
        /\ pc[p] = "batch"
        /\ InputOf[p] \notin requests
    BY <1>0, <1>16 DEF insert_records_batch, BatchAgrees
  <2>2. /\ batch' = [batch EXCEPT ![p] = {InputOf[p]}]
        /\ pc' = [pc EXCEPT ![p] = "audit"]
    BY <1>16, <2>1 DEF insert_records_batch
  <2>3. OthersKept(p)
    BY <1>0, <2>1, <2>2 DEF OthersKept, TypeOK
  <2>4. pc'[p] # "commit" /\ prev_hash'[p] = LatestHash(audit_log, ChainId(p))
    BY <1>0, <2>1, <2>2 DEF ChainInv, SnapshotCurrent, TypeOK
  <2>5. ChainInv'
    BY <2>1, <2>2, <2>3, <2>4, SnapshotStep
  <2>6. BatchAgrees'
    BY <1>0, <2>1, <2>2, <2>3 DEF OthersKept, BatchAgrees, TypeOK
  <2> QED
    BY <2>5, <2>6
<1>17. ASSUME NEW p \in Requests, insert_audit_event(p)
       PROVE  ChainInv' /\ BatchAgrees'
  <2> DEFINE new == build_audit_event(audit_seq, EventOf(p), prev_hash[p], ChainId(p))
  <2>1. /\ UNCHANGED <<requests, audit_log, created_at, prev_hash, event_type, batch>>
        /\ pc[p] = "audit"
        /\ pc' = [pc EXCEPT ![p] = "commit"]
        /\ row' = [row EXCEPT ![p] = {new}]
        /\ audit_seq' = audit_seq + 1
        /\ audit_seq \in Nat
    BY <1>0, <1>17 DEF insert_audit_event, TypeOK
  <2>2. \A r \in audit_log : r.id \in Nat /\ r.id < audit_seq
    BY <1>0 DEF ChainInv, IdsDrawn, TypeOK, AuditRow
  <2>3. IdsDrawn'
    BY <2>1, <2>2 DEF IdsDrawn
  <2>4. SnapshotCurrent'
    BY <1>0, <2>1 DEF ChainInv, SnapshotCurrent, TypeOK, ChainId
  <2>5. PendingRow'
    <3> SUFFICES ASSUME NEW q \in Requests, pc'[q] = "commit"
                 PROVE  \E k \in Nat :
                           /\ row'[q] = {build_audit_event(k, EventOf(q), prev_hash[q], ChainId(q))}
                           /\ k < audit_seq + 1
                           /\ \A s \in ChainRows(audit_log, ChainId(q)) : s.id < k
      BY <2>1 DEF PendingRow, EventOf, ChainId
    <3>1. CASE q = p
      <4>1. row'[q] = {build_audit_event(audit_seq, EventOf(q), prev_hash[q], ChainId(q))}
        <5>1. row \in [Requests -> SUBSET AuditRow]
          BY <1>0 DEF TypeOK
        <5> QED
          BY <2>1, <3>1, <5>1
      <4>2. \A s \in ChainRows(audit_log, ChainId(q)) : s.id < audit_seq
        BY <2>2 DEF ChainRows
      <4> QED
        BY <2>1, <4>1, <4>2
    <3>2. CASE q # p
      <4>1. pc[q] = "commit" /\ row'[q] = row[q]
        BY <1>0, <2>1, <3>2 DEF TypeOK
      <4>2. PICK k \in Nat :
               /\ row[q] = {build_audit_event(k, EventOf(q), prev_hash[q], ChainId(q))}
               /\ k < audit_seq
               /\ \A s \in ChainRows(audit_log, ChainId(q)) : s.id < k
        BY <1>0, <4>1 DEF ChainInv, PendingRow
      <4> QED
        BY <2>1, <4>1, <4>2
    <3> QED
      BY <3>1, <3>2
  <2>6. BatchAgrees'
    BY <1>0, <2>1 DEF BatchAgrees, TypeOK
  <2> QED
    BY <1>0, <2>1, <2>3, <2>4, <2>5, <2>6 DEF ChainInv
<1>18. ASSUME NEW p \in Requests, Commit(p)
       PROVE  ChainInv' /\ BatchAgrees'
  <2>1. /\ pc[p] = "commit"
        /\ requests' = requests \cup batch[p]
        /\ audit_log' = audit_log \cup row[p]
        /\ pc' = [pc EXCEPT ![p] = "ack"]
        /\ batch' = [batch EXCEPT ![p] = {}]
        /\ row' = [row EXCEPT ![p] = {}]
        /\ UNCHANGED <<audit_seq, created_at, prev_hash, event_type>>
    BY <1>18 DEF Commit, DropTransaction
  <2>2. PICK k \in Nat :
           /\ row[p] = {build_audit_event(k, EventOf(p), prev_hash[p], ChainId(p))}
           /\ k < audit_seq
           /\ \A q \in ChainRows(audit_log, ChainId(p)) : q.id < k
    BY <1>0, <2>1 DEF ChainInv, PendingRow
  <2>3. prev_hash[p] = LatestHash(audit_log, ChainId(p))
    BY <1>0, <2>1 DEF ChainInv, SnapshotCurrent
  <2>4. EventOf(p) \in AuditPayload
    BY <1>0, <2>1, ChainIdType DEF EventOf, AuditPayload, TypeOK, EventChosen
  <2>5. /\ WellFormed(audit_log')
        /\ \A d \in Chains \ {ChainId(p)} : LatestHash(audit_log', d) = LatestHash(audit_log, d)
    BY <1>0, <2>1, <2>2, <2>3, <2>4, ChainIdType, AppendRow DEF ChainInv
  <2>6. \A q \in Requests \ {p} : pc[q] \in Critical => ChainId(q) # ChainId(p)
    BY <1>0, <2>1 DEF LocksScoped, Critical
  <2>7. \A d \in Chains \ {ChainId(p)} : ChainRows(audit_log', d) = ChainRows(audit_log, d)
    BY <2>1, <2>2 DEF ChainRows, build_audit_event
  <2>8. IdsDrawn'
    BY <1>0, <2>1, <2>2 DEF ChainInv, IdsDrawn, build_audit_event
  <2>9. SnapshotCurrent'
    <3> SUFFICES ASSUME NEW q \in Requests, pc'[q] \in {"check", "batch", "audit", "commit"}
                 PROVE  prev_hash[q] = LatestHash(audit_log', ChainId(q))
      BY <2>1 DEF SnapshotCurrent, ChainId
    <3>1. q # p /\ pc[q] = pc'[q]
      BY <1>0, <2>1 DEF TypeOK
    <3>2. ChainId(q) \in Chains \ {ChainId(p)}
      BY <3>1, <2>6, ChainIdType DEF Critical
    <3> QED
      BY <1>0, <2>5, <3>1, <3>2 DEF ChainInv, SnapshotCurrent
  <2>10. PendingRow'
    <3> SUFFICES ASSUME NEW q \in Requests, pc'[q] = "commit"
                 PROVE  \E j \in Nat :
                           /\ row'[q] = {build_audit_event(j, EventOf(q), prev_hash[q], ChainId(q))}
                           /\ j < audit_seq
                           /\ \A s \in ChainRows(audit_log', ChainId(q)) : s.id < j
      BY <2>1 DEF PendingRow, EventOf, ChainId
    <3>1. q # p /\ pc[q] = "commit" /\ row'[q] = row[q]
      BY <1>0, <2>1 DEF TypeOK
    <3>2. ChainId(q) \in Chains \ {ChainId(p)}
      BY <3>1, <2>6, ChainIdType DEF Critical
    <3> QED
      BY <1>0, <2>7, <3>1, <3>2 DEF ChainInv, PendingRow
  <2>11. BatchAgrees'
    <3>1. batch[p] \subseteq {InputOf[p]}
      BY <1>0, <2>1 DEF BatchAgrees
    <3>2. \A q \in Requests \ {p} :
             /\ pc'[q] = pc[q] /\ batch'[q] = batch[q]
             /\ pc[q] \in Critical => InputOf[q] # InputOf[p]
      BY <1>0, <2>1, <2>6 DEF TypeOK, ChainId
    <3>3. \A q \in Requests \ {p} :
             pc[q] \in Critical => (InputOf[q] \in requests' <=> InputOf[q] \in requests)
      BY <2>1, <3>1, <3>2
    <3>4. pc'[p] = "ack" /\ batch'[p] = {}
      BY <1>0, <2>1 DEF TypeOK
    <3> QED
      BY <1>0, <2>1, <3>2, <3>3, <3>4 DEF BatchAgrees, Critical
  <2> QED
    BY <2>5, <2>8, <2>9, <2>10, <2>11 DEF ChainInv
<1>19. ASSUME NEW v \in Readers, Reading(v)
       PROVE  ChainInv' /\ BatchAgrees'
  <2>1. UNCHANGED <<db, pc, local>>
    BY <1>19 DEF Reading, fetch_by_input_hash, verify_persisted, ReadUnavailable
  <2> QED
    BY <1>0, <2>1 DEF ChainInv, SnapshotCurrent, PendingRow, IdsDrawn, BatchAgrees,
                      EventOf, ChainId
<1>20. CASE Crash
  <2>1. /\ UNCHANGED <<requests, audit_log, audit_seq>>
        /\ \A q \in Requests :
              pc'[q] \notin {"check", "batch", "audit", "commit"} /\ batch'[q] = {}
    BY <1>0, <1>20 DEF Crash, InFlight, Active, Connected, InTxn, Critical, TypeOK
  <2> QED
    BY <1>0, <2>1 DEF ChainInv, SnapshotCurrent, PendingRow, IdsDrawn, BatchAgrees
<1>21. CASE Rest
  BY <1>0, <1>21 DEF Rest, vars, ChainInv, SnapshotCurrent, PendingRow, IdsDrawn,
                     BatchAgrees, EventOf, ChainId
<1> QED
  BY <1>1, <1>2, <1>3, <1>4, <1>5, <1>6, <1>7, <1>8, <1>9, <1>10, <1>11, <1>12,
     <1>13, <1>14, <1>15, <1>16, <1>17, <1>18, <1>19, <1>20, <1>21
     DEF Next, Progress, Trouble

-----------------------------------------------------------------------------
(***************************************************************************)
(* The theorems.                                                           *)
(***************************************************************************)
\* The invariant holds when the service starts on an empty database.
LEMMA IInvInit == Init => IInv
<1> SUFFICES ASSUME Init PROVE IInv
  OBVIOUS
<1>1. TypeOK
  BY RetryAssumption, PoolAssumption, FaultAssumption, ClockAssumption
     DEF Init, TypeOK, Labels, ZERO_HASH, Hash, Times, AuditRow, Counters
<1>2. WellFormed(audit_log)
  BY EmptyLog DEF Init
<1>3. LocksScoped
  BY DEF Init, LocksScoped, Critical
<1>4. EventChosen /\ SnapshotCurrent /\ PendingRow /\ IdsDrawn /\ BatchAgrees
  BY DEF Init, EventChosen, SnapshotCurrent, PendingRow, IdsDrawn, BatchAgrees
<1> QED
  BY <1>1, <1>2, <1>3, <1>4 DEF IInv

\* IInv is an invariant of the service.
THEOREM Invariance == Spec => []IInv
<1>1. IInv /\ [Next]_vars => IInv'
  <2> SUFFICES ASSUME IInv, [Next]_vars PROVE IInv'
    OBVIOUS
  <2>1. TypeOK' /\ EventChosen'
    BY TypeStep
  <2>2. LocksScoped'
    BY LockStep
  <2>3. ChainInv' /\ BatchAgrees'
    BY ChainStep
  <2> QED
    BY <2>1, <2>2, <2>3 DEF IInv, ChainInv
<1> QED
  BY IInvInit, <1>1, PTL DEF Spec

\* Every variable of the service stays in its type; for prev_hash this needs
\* that a chain with rows has a last one, so typing rests on the whole of IInv.
THEOREM TypeCorrect == Spec => []TypeOK
<1>1. IInv => TypeOK
  BY DEF IInv
<1> QED
  BY <1>1, Invariance, PTL

\* Chain locks are held exactly by the transactions that took them, through
\* every error path, timeout and restart of calculate_and_persist.
THEOREM LockSafety == Spec => []LocksScoped
<1>1. IInv => LocksScoped
  BY DEF IInv
<1> QED
  BY <1>1, Invariance, PTL

\* verify_audit_chain reports VALID in every reachable state.
THEOREM ChainIntegrity == Spec => []ChainsVerify
<1>1. IInv => ChainsVerify
  BY DEF IInv, WellFormed, ChainsVerify, verify_audit_chain
<1> QED
  BY <1>1, Invariance, PTL

\* The hash and the id an open transaction relies on are never overtaken.
THEOREM NoStaleSnapshot == Spec => []PrevHashCurrent
<1>1. IInv => PrevHashCurrent
  <2> SUFFICES ASSUME IInv, NEW p \in Requests
               PROVE  /\ pc[p] \in {"check", "batch", "audit", "commit"} =>
                            prev_hash[p] = LatestHash(audit_log, ChainId(p))
                      /\ pc[p] = "commit" =>
                            \A r \in row[p] :
                                \A q \in ChainRows(audit_log, ChainId(p)) : q.id < r.id
    BY DEF PrevHashCurrent
  <2>1. pc[p] \in {"check", "batch", "audit", "commit"} =>
           prev_hash[p] = LatestHash(audit_log, ChainId(p))
    BY DEF IInv, SnapshotCurrent
  <2>2. ASSUME pc[p] = "commit"
        PROVE  \A r \in row[p] : \A q \in ChainRows(audit_log, ChainId(p)) : q.id < r.id
    BY <2>2 DEF IInv, PendingRow, build_audit_event
  <2> QED
    BY <2>1, <2>2
<1> QED
  BY <1>1, Invariance, PTL

(***************************************************************************)
(* What a step does to the tables, all at once: nothing, or the commit of  *)
(* one call, which appends one row to its chain.                           *)
(***************************************************************************)
LEMMA TableStep ==
    ASSUME IInv, [Next]_vars
    PROVE  \/ UNCHANGED <<requests, audit_log>>
           \/ \E p \in Requests : Commit(p)
<1>1. ASSUME NEW p \in Requests, Compute(p) \/ Progress(p) \/ Trouble(p)
      PROVE  UNCHANGED <<requests, audit_log>> \/ Commit(p)
  BY <1>1
     DEF Progress, Trouble, Compute, ComputeFails, AcquireConnection, PoolTimeout,
         BeginTransaction, BeginFails, acquire_audit_chain_lock, LockTimeout,
         fetch_latest_audit_hash_for_chain, check_duplicate, insert_records_batch,
         insert_audit_event, BlockFails, Rollback, CommitFails, Acknowledge,
         AcknowledgeLost, db
<1>2. ASSUME NEW v \in Readers, Reading(v)
      PROVE  UNCHANGED <<requests, audit_log>>
  BY <1>2 DEF Reading, fetch_by_input_hash, verify_persisted, ReadUnavailable, db
<1>3. Crash \/ Rest \/ UNCHANGED vars => UNCHANGED <<requests, audit_log>>
  BY DEF Crash, Rest, vars, db
<1> QED
  BY <1>1, <1>2, <1>3 DEF Next

\* The facts about the row a commit appends.
LEMMA CommitFacts ==
    ASSUME IInv, NEW p \in Requests, Commit(p)
    PROVE  /\ requests' = requests \cup batch[p]
           /\ EventOf(p) \in AuditPayload
           /\ \E k \in Nat :
                 /\ audit_log' = audit_log \cup
                      {build_audit_event(k, EventOf(p), LatestHash(audit_log, ChainId(p)),
                                         ChainId(p))}
                 /\ \A q \in ChainRows(audit_log, ChainId(p)) : q.id < k
           /\ LatestHash(audit_log', ChainId(p)) =
                 Append(LatestHash(audit_log, ChainId(p)), EventOf(p))
           /\ \A d \in Chains \ {ChainId(p)} :
                 LatestHash(audit_log', d) = LatestHash(audit_log, d)
<1>1. /\ pc[p] = "commit"
      /\ requests' = requests \cup batch[p]
      /\ audit_log' = audit_log \cup row[p]
  BY DEF Commit
<1>2. PICK k \in Nat :
         /\ row[p] = {build_audit_event(k, EventOf(p), prev_hash[p], ChainId(p))}
         /\ \A q \in ChainRows(audit_log, ChainId(p)) : q.id < k
  BY <1>1 DEF IInv, PendingRow
<1>3. prev_hash[p] = LatestHash(audit_log, ChainId(p))
  BY <1>1 DEF IInv, SnapshotCurrent
<1>4. EventOf(p) \in AuditPayload
  BY <1>1, ChainIdType DEF IInv, EventOf, AuditPayload, TypeOK, EventChosen
<1>5. /\ LatestHash(audit_log', ChainId(p)) =
            compute_audit_hash(LatestHash(audit_log, ChainId(p)), EventOf(p))
      /\ \A d \in Chains \ {ChainId(p)} :
            LatestHash(audit_log', d) = LatestHash(audit_log, d)
  <2>1. WellFormed(audit_log) /\ ChainId(p) \in Chains
    BY ChainIdType DEF IInv
  <2>2. audit_log' = audit_log \cup
           {build_audit_event(k, EventOf(p), LatestHash(audit_log, ChainId(p)), ChainId(p))}
    BY <1>1, <1>2, <1>3
  <2> QED
    BY <2>1, <2>2, <1>2, <1>4, AppendRow
<1> QED
  BY <1>1, <1>2, <1>3, <1>4, <1>5 DEF compute_audit_hash

\* Committed rows stay, and a row that appears has the largest id of its chain.
THEOREM NothingRewritten == Spec => AppendOnly
<1> DEFINE Step == /\ requests \subseteq requests'
                   /\ audit_log \subseteq audit_log'
                   /\ \A r \in audit_log' \ audit_log :
                         \A q \in ChainRows(audit_log, r.chain_id) : q.id < r.id
<1>1. IInv /\ [Next]_vars => [Step]_vars
  <2> SUFFICES ASSUME IInv, [Next]_vars PROVE Step
    OBVIOUS
  <2>1. CASE UNCHANGED <<requests, audit_log>>
    BY <2>1
  <2>2. ASSUME NEW p \in Requests, Commit(p) PROVE Step
    BY <2>2, CommitFacts DEF build_audit_event
  <2> QED
    BY <2>1, <2>2, TableStep
<1> QED
  BY <1>1, Invariance, PTL DEF Spec, AppendOnly

\* Every insert_records_batch succeeds as far as the unique index goes: the
\* duplicate check under the chain lock makes a unique violation impossible.
THEOREM IndexNeverHit == Spec => []NoUniqueViolation
<1>1. Init => NoUniqueViolation
  BY DEF Init, NoUniqueViolation
<1>2. IInv /\ NoUniqueViolation /\ [Next]_vars => NoUniqueViolation'
  <2> SUFFICES ASSUME IInv, NoUniqueViolation, [Next]_vars PROVE NoUniqueViolation'
    OBVIOUS
  <2> USE DEF NoUniqueViolation, IInv, TypeOK, local
  <2>1. ASSUME NEW p \in Requests, insert_records_batch(p) PROVE NoUniqueViolation'
    BY <2>1 DEF insert_records_batch, BatchAgrees
  <2>2. ASSUME NEW p \in Requests, LockTimeout(p) PROVE NoUniqueViolation'
    BY <2>2 DEF LockTimeout
  <2>3. ASSUME NEW p \in Requests, NEW kind \in {"retryable", "other"}, BlockFails(p, kind)
        PROVE  NoUniqueViolation'
    BY <2>3 DEF BlockFails
  <2>4. ASSUME NEW p \in Requests, DropTransaction(p) PROVE NoUniqueViolation'
    BY <2>4 DEF DropTransaction
  <2>5. CASE Crash
    BY <2>5 DEF Crash
  <2>6. CASE UNCHANGED exc
    BY <2>6
  <2>7. ASSUME NEW p \in Requests, Compute(p) \/ Progress(p) \/ Trouble(p)
        PROVE  \/ insert_records_batch(p) \/ LockTimeout(p) \/ DropTransaction(p)
               \/ \E kind \in {"retryable", "other"} : BlockFails(p, kind)
               \/ UNCHANGED exc
    BY <2>7
       DEF Progress, Trouble, Compute, ComputeFails, AcquireConnection, PoolTimeout,
           BeginTransaction, BeginFails, acquire_audit_chain_lock, Commit, Rollback,
           fetch_latest_audit_hash_for_chain, check_duplicate, insert_audit_event,
           CommitFails, Acknowledge, AcknowledgeLost
  <2>8. (\E v \in Readers : Reading(v)) \/ Rest \/ UNCHANGED vars => UNCHANGED exc
    BY DEF Reading, fetch_by_input_hash, verify_persisted, ReadUnavailable, Rest, vars
  <2> QED
    BY <2>1, <2>2, <2>3, <2>4, <2>5, <2>6, <2>7, <2>8 DEF Next
<1> QED
  BY <1>1, <1>2, Invariance, PTL DEF Spec

\* The service implements EvidenceLedger: each commit is one operation of the
\* ledger on the chain of its input, and every other step is invisible to it.
THEOREM Refinement == Spec => ImplementsLedger
<1> DEFINE history == [c \in Chains |-> LatestHash(audit_log, c)]
<1>1. Init => Ledger!Init
  BY EmptyLog DEF Init, Ledger!Init, Ledger!Chains, Chains, ZERO_HASH
<1>2. IInv /\ [Next]_vars => [Ledger!Next]_(Ledger!vars)
  <2> SUFFICES ASSUME IInv, [Next]_vars
               PROVE  Ledger!Next \/ UNCHANGED Ledger!vars
    OBVIOUS
  <2>1. CASE UNCHANGED <<requests, audit_log>>
    BY <2>1 DEF Ledger!vars
  <2>2. ASSUME NEW p \in Requests, Commit(p) PROVE Ledger!Next
    <3>1. history' = [history EXCEPT ![ChainId(p)] = Append(@, EventOf(p))]
      BY <2>2, CommitFacts, ChainIdType
    <3>2. event_type[p] \in EventTypes /\ pc[p] = "commit"
      BY <2>2 DEF Commit, IInv, EventChosen
    <3>3. Ledger!Record(event_type[p], InputOf[p])
      <4>1. created_at[p] \in Times
        BY DEF IInv, TypeOK
      <4> QED
        BY <3>1, <4>1 DEF Ledger!Record, EventOf, ChainId, Ledger!Times, Times,
                          Ledger!chain_id_for_input, chain_id_for_input, Ledger!Chains, Chains
    <3>4. requests' = requests \cup batch[p]
      BY <2>2, CommitFacts
    <3>5. CASE event_type[p] = "calculation_persisted"
      BY <3>2, <3>3, <3>4, <3>5, ChainIdType
         DEF IInv, BatchAgrees, Ledger!Next, Ledger!Persist
    <3>6. CASE event_type[p] = "calculation_rejected_duplicate"
      BY <3>2, <3>3, <3>4, <3>6, ChainIdType
         DEF IInv, BatchAgrees, Ledger!Next, Ledger!RejectDuplicate
    <3>7. CASE event_type[p] = "calculation_persist_failed"
      BY <3>2, <3>3, <3>4, <3>7, ChainIdType
         DEF IInv, BatchAgrees, Ledger!Next, Ledger!LogFailure
    <3> QED
      BY <3>2, <3>5, <3>6, <3>7 DEF EventTypes
  <2> QED
    BY <2>1, <2>2, TableStep
<1> QED
  BY <1>1, <1>2, Invariance, PTL DEF Spec, ImplementsLedger, Ledger!Spec

\* Evidence rows and their single calculation_persisted event appear together
\* and stay together, on the chain their input hashes to.
THEOREM EvidenceIsAudited == Spec => []EvidenceAudited
<1>1. Init => EvidenceAudited
  BY DEF Init, EvidenceAudited, PersistedRows
<1>2. IInv /\ EvidenceAudited /\ [Next]_vars => EvidenceAudited'
  <2> SUFFICES ASSUME IInv, EvidenceAudited, [Next]_vars PROVE EvidenceAudited'
    OBVIOUS
  <2>1. CASE UNCHANGED <<requests, audit_log>>
    BY <2>1 DEF EvidenceAudited, PersistedRows
  <2>2. ASSUME NEW p \in Requests, Commit(p) PROVE EvidenceAudited'
    <3>1. PICK k \in Nat :
             audit_log' = audit_log \cup
                 {build_audit_event(k, EventOf(p), LatestHash(audit_log, ChainId(p)),
                                    ChainId(p))}
      BY <2>2, CommitFacts
    <3>2. requests' = requests \cup batch[p] /\ pc[p] = "commit"
      BY <2>2, CommitFacts DEF Commit
    <3> DEFINE r == build_audit_event(k, EventOf(p), LatestHash(audit_log, ChainId(p)),
                                      ChainId(p))
    <3>3. /\ r.chain_id = chain_id_for_input(InputOf[p])
          /\ r.payload.event_type = event_type[p]
          /\ r.payload.reference_id = InputOf[p]
      BY DEF build_audit_event, EventOf, ChainId
    <3>4. audit_log' = audit_log \cup {r}
      BY <3>1
    <3> HIDE DEF r
    <3>5. CASE event_type[p] = "calculation_persisted"
      <4>1. requests' = requests \cup {InputOf[p]} /\ InputOf[p] \notin requests
        BY <3>2, <3>5 DEF IInv, BatchAgrees
      <4>2. PersistedRows(InputOf[p]) = {}
        BY <4>1, ChainIdType DEF EvidenceAudited
      <4>3. PersistedRows(InputOf[p])' = {r}
        BY <3>3, <3>4, <3>5, <4>2 DEF PersistedRows
      <4>4. \A i \in Inputs \ {InputOf[p]} : PersistedRows(i)' = PersistedRows(i)
        BY <3>3, <3>4 DEF PersistedRows
      <4> QED
        BY <3>3, <3>4, <4>1, <4>3, <4>4 DEF EvidenceAudited
    <3>6. CASE event_type[p] # "calculation_persisted"
      <4>1. requests' = requests
        BY <3>2, <3>6 DEF IInv, BatchAgrees
      <4>2. \A i \in Inputs : PersistedRows(i)' = PersistedRows(i)
        BY <3>3, <3>4, <3>6 DEF PersistedRows
      <4> QED
        BY <3>4, <4>1, <4>2 DEF EvidenceAudited
    <3> QED
      BY <3>5, <3>6
  <2> QED
    BY <2>1, <2>2, TableStep
<1> QED
  BY <1>1, <1>2, Invariance, PTL DEF Spec
=============================================================================
