----------------------- MODULE EvidenceAnswersProofs -----------------------
(***************************************************************************)
(* More theorems about EvidenceService: what the callers are told, what a  *)
(* verification reports, the connections and the counters.  Each rests on  *)
(* the inductive invariant of EvidenceServiceProofs and adds what its own  *)
(* property needs.  No finiteness of the set of calls is assumed: only     *)
(* finitely many have begun at any moment, and that is part of what is     *)
(* proved.                                                                 *)
(***************************************************************************)
EXTENDS EvidenceServiceProofs, SetFacts

\* The call made the evidence of its input durable: it was told so, or its
\* commit is done and the acknowledgement on its way.
Persisted(p) ==
    \/ outcome[p] = "success"
    \/ pc[p] = "ack" /\ job[p] = "persist" /\ event_type[p] = "calculation_persisted"

\* What a call will be told agrees with the tables.
AnswersKnown ==
    /\ \A p \in Requests :
          /\ (job[p] = "persist" /\ pc[p] \in {"batch", "audit", "commit", "ack"}) =>
                event_type[p] \in {"calculation_persisted", "calculation_rejected_duplicate"}
          /\ (pc[p] = "ack" /\ job[p] = "persist") => InputOf[p] \in requests
          /\ outcome[p] \in {"success", "duplicate"} => InputOf[p] \in requests
    /\ \A p, q \in Requests :
          (Persisted(p) /\ Persisted(q) /\ InputOf[p] = InputOf[q]) => p = q

\* The calls that use a connection, and those of a chain still to be counted.
Users == {p \in Requests : pc[p] \in Connected}
Countable(c) == {p \in Requests : ChainId(p) = c /\ pc[p] \in Active /\ job[p] = "persist"}

ConnectionsKnown == IsFiniteSet(Users) /\ ConnectionsAccounted

\* Outcomes counted and outcomes still to come are at most the requests.
CountsKnown ==
    \A c \in Chains :
        /\ IsFiniteSet(Countable(c))
        /\ metrics[c]["successes"] + metrics[c]["duplicates"] + metrics[c]["errors"]
             + Cardinality(Countable(c)) <= metrics[c]["requests"]

\* The audit event S of a bundle and the event q that persisted the input of
\* reader v, among the given rows.
Covers(rows, v, S) ==
    \E q, r \in rows :
        /\ S = {r}
        /\ q.payload.event_type = "calculation_persisted"
        /\ q.payload.reference_id = InputOf[v]
        /\ r.payload.reference_id = InputOf[v]
        /\ q.chain_id = r.chain_id /\ q.id <= r.id

\* Rows about an input are on its chain, and one of them is the last.
RowsPlaced ==
    \A r \in audit_log : r.chain_id = chain_id_for_input(r.payload.reference_id)

LastKnown ==
    \A i \in Inputs : AboutInput(audit_log, i) # {} =>
        \E r \in AboutInput(audit_log, i) : IsLast(AboutInput(audit_log, i), r)

\* What a verification has read is still in the table, and the chain it
\* answered for was well formed when it was read.
ReadsKept ==
    \A v \in Readers :
        /\ verdict[v] \in {"idle", "missing", "INVALID"} => stored[v] = {}
        /\ verdict[v] = "found" => Covers(audit_log, v, stored[v])
        /\ verdict[v] = "VALID" => /\ Covers(chain_read[v], v, stored[v])
                                   /\ WellFormed(chain_read[v])

-----------------------------------------------------------------------------
\* A step of the call p leaves every other call where it was.
OnlyCall(p) ==
    \A q \in Requests \ {p} :
        /\ pc'[q] = pc[q] /\ job'[q] = job[q]
        /\ event_type'[q] = event_type[q] /\ outcome'[q] = outcome[q]

\* What the except clauses tell the caller and count.
LEMMA ExceptEffect ==
    ASSUME TypeOK, NEW p \in Requests, NEW kind, ExceptClauses(p, kind), UNCHANGED event_type
    PROVE  /\ OnlyCall(p)
           /\ pc'[p] \in {"pool", "done"}
           /\ \/ outcome'[p] \in {outcome[p], "error"}
              \/ kind = "duplicate" /\ outcome'[p] = "duplicate"
           /\ \/ UNCHANGED metrics /\ job'[p] \in {job[p], "log"}
              \/ Count(p, "errors") /\ job[p] = "persist" /\ job'[p] = "log"
<1>1. \A q \in Requests \ {p} : pc'[q] = pc[q] /\ job'[q] = job[q] /\ outcome'[q] = outcome[q]
  BY DEF ExceptClauses, Answer, StartFailureLog, Goto, TypeOK
<1>2. pc'[p] \in {"pool", "done"}
  BY DEF ExceptClauses, Answer, StartFailureLog, Goto, TypeOK
<1>3. \/ outcome'[p] \in {outcome[p], "error"}
      \/ kind = "duplicate" /\ outcome'[p] = "duplicate"
  BY DEF ExceptClauses, Answer, StartFailureLog, TypeOK
<1>4. \/ UNCHANGED metrics /\ job'[p] \in {job[p], "log"}
      \/ Count(p, "errors") /\ job[p] = "persist" /\ job'[p] = "log"
  BY DEF ExceptClauses, Answer, StartFailureLog, TypeOK
<1> QED
  BY <1>1, <1>2, <1>3, <1>4 DEF OnlyCall

\* A step on which the tables, the connections and the counters stay, and the
\* call moves on within or before its transaction.
MovesOn(p) ==
    /\ OnlyCall(p)
    /\ UNCHANGED <<requests, audit_log, pool_free, leaked, metrics>>
    /\ job'[p] = job[p] /\ outcome'[p] = outcome[p]
    /\ pc[p] \in Connected /\ pc'[p] \in Connected /\ pc'[p] # "ack"
    /\ (job[p] = "persist" /\ pc'[p] \in {"batch", "audit", "commit"}) =>
          event_type'[p] \in {"calculation_persisted", "calculation_rejected_duplicate"}

\* A step that leaves the transaction by an exception, with or without the
\* connection; only a failed BEGIN leaks it.
Leaves(p) ==
    /\ OnlyCall(p)
    /\ UNCHANGED <<requests, audit_log>>
    /\ pc'[p] \in {"pool", "done"}
    /\ outcome'[p] \in {outcome[p], "error"}
    /\ pc[p] \in Active
    /\ \/ pc[p] = "pool" /\ UNCHANGED <<pool_free, leaked>>
       \/ pc[p] \in Connected /\ pool_free' = pool_free + 1 /\ UNCHANGED leaked
       \/ pc[p] \in Connected /\ leaked' = leaked + 1 /\ UNCHANGED pool_free
    /\ \/ UNCHANGED metrics /\ job'[p] \in {job[p], "log"}
       \/ Count(p, "errors") /\ job[p] = "persist" /\ job'[p] = "log"

\* Every step of a call is one of these.
LEMMA CallStep ==
    ASSUME IInv, NoUniqueViolation, AnswersKnown,
           NEW p \in Requests, Compute(p) \/ Progress(p) \/ Trouble(p)
    PROVE  \/ Compute(p) \/ ComputeFails(p) \/ AcquireConnection(p)
           \/ Commit(p) \/ Acknowledge(p)
           \/ MovesOn(p) \/ Leaves(p)
<1> USE DEF Goto, db, local, reading, process
<1>t. TypeOK /\ exc[p] # "duplicate"
  BY DEF IInv, NoUniqueViolation
<1>1. CASE \/ BeginTransaction(p) \/ acquire_audit_chain_lock(p) \/ insert_audit_event(p)
           \/ LockTimeout(p) \/ \E kind \in {"retryable", "other"} : BlockFails(p, kind)
  <2>1. pc[p] \in Connected /\ pc'[p] \in Connected \ {"ack", "batch", "audit"}
    BY <1>t, <1>1 DEF BeginTransaction, acquire_audit_chain_lock, insert_audit_event, LockTimeout,
                      BlockFails, Connected, InTxn, Critical, TypeOK
  <2>2. /\ OnlyCall(p) /\ UNCHANGED <<requests, audit_log, pool_free, leaked, metrics>>
        /\ UNCHANGED <<job, event_type, outcome>>
    BY <1>t, <1>1 DEF BeginTransaction, acquire_audit_chain_lock, insert_audit_event, LockTimeout,
                      BlockFails, OnlyCall, TypeOK
  <2>3. pc'[p] = "commit" => pc[p] = "audit"
    BY <1>t, <1>1 DEF BeginTransaction, acquire_audit_chain_lock, insert_audit_event, LockTimeout,
                      BlockFails, TypeOK
  <2>4. (job[p] = "persist" /\ pc[p] = "audit") =>
           event_type[p] \in {"calculation_persisted", "calculation_rejected_duplicate"}
    BY DEF AnswersKnown
  <2> QED
    BY <2>1, <2>2, <2>3, <2>4 DEF MovesOn
<1>2. CASE fetch_latest_audit_hash_for_chain(p)
  BY <1>t, <1>2 DEF fetch_latest_audit_hash_for_chain, MovesOn, OnlyCall, Connected, InTxn,
                    Critical, TypeOK
<1>3. CASE check_duplicate(p)
  BY <1>t, <1>3 DEF check_duplicate, MovesOn, OnlyCall, Connected, InTxn, Critical, TypeOK
<1>4. CASE insert_records_batch(p)
  <2>1. (job[p] = "persist" /\ pc[p] = "batch") =>
           event_type[p] \in {"calculation_persisted", "calculation_rejected_duplicate"}
    BY DEF AnswersKnown
  <2> QED
    BY <1>t, <1>4, <2>1 DEF insert_records_batch, MovesOn, OnlyCall, Connected, InTxn, Critical,
                            TypeOK
<1>5. ASSUME NEW kind, ExceptClauses(p, kind), UNCHANGED event_type, kind # "duplicate",
             UNCHANGED <<requests, audit_log>>, pc[p] \in Active,
             \/ pc[p] = "pool" /\ UNCHANGED <<pool_free, leaked>>
             \/ pc[p] \in Connected /\ pool_free' = pool_free + 1 /\ UNCHANGED leaked
             \/ pc[p] \in Connected /\ leaked' = leaked + 1 /\ UNCHANGED pool_free
      PROVE  Leaves(p)
  BY <1>t, <1>5, ExceptEffect DEF Leaves
<1>6. CASE PoolTimeout(p)
  BY <1>5, <1>6 DEF PoolTimeout, Active
<1>7. CASE BeginFails(p)
  BY <1>5, <1>7 DEF BeginFails, Active, Connected
<1>8. ASSUME NEW kind, Rollback(p, kind) PROVE Leaves(p)
  <2>1. kind # "duplicate"
    BY <1>t, <1>8 DEF Rollback
  <2> QED
    BY <1>5, <1>8, <2>1 DEF Rollback, Active, Connected
<1>9. ASSUME NEW kind \in {"retryable", "other"}, CommitFails(p, kind) PROVE Leaves(p)
  BY <1>5, <1>9 DEF CommitFails, Active, Connected, InTxn, Critical
<1>10. CASE AcknowledgeLost(p)
  BY <1>5, <1>10 DEF AcknowledgeLost, Active, Connected
<1> QED
  BY <1>1, <1>2, <1>3, <1>4, <1>6, <1>7, <1>8, <1>9, <1>10 DEF Progress, Trouble

\* Steps that are no step of a call.
LEMMA OtherStep ==
    ASSUME \/ \E v \in Readers : Reading(v)
           \/ Rest
           \/ UNCHANGED vars
    PROVE  UNCHANGED <<requests, audit_log, pc, job, event_type, outcome, pool_free, leaked, metrics>>
BY DEF Reading, fetch_by_input_hash, verify_persisted, ReadUnavailable, Rest, vars, db, local,
       process

-----------------------------------------------------------------------------
(***************************************************************************)
(* What the callers are told.                                              *)
(***************************************************************************)

\* AnswersKnown holds of every state: a commit that persists an input finds it
\* missing, so no earlier call can have persisted it.
LEMMA AnswersStep ==
    ASSUME IInv, NoUniqueViolation, AnswersKnown, [Next]_vars
    PROVE  AnswersKnown'
<1>a. requests \subseteq requests'
  BY TableStep, CommitFacts
<1>t. TypeOK /\ TypeOK'
  BY TypeStep DEF IInv
<1> DEFINE Kinds == {"calculation_persisted", "calculation_rejected_duplicate"}
           Local(p) == /\ (job[p] = "persist" /\ pc[p] \in {"batch", "audit", "commit", "ack"}) =>
                             event_type[p] \in Kinds
                       /\ (pc[p] = "ack" /\ job[p] = "persist") => InputOf[p] \in requests
                       /\ outcome[p] \in {"success", "duplicate"} => InputOf[p] \in requests
<1>b. \A p \in Requests : Local(p)
  BY DEF AnswersKnown
<1>c. \A p, q \in Requests : (Persisted(p) /\ Persisted(q) /\ InputOf[p] = InputOf[q]) => p = q
  BY DEF AnswersKnown
\* A step of p after which p has persisted only what it had before.
<1>1. ASSUME NEW p \in Requests, OnlyCall(p), Local(p)', Persisted(p)' => Persisted(p)
      PROVE  AnswersKnown'
  <2>1. \A q \in Requests : q # p => Local(q)'
    BY <1>a, <1>b, <1>1 DEF OnlyCall
  <2>2. \A q \in Requests : Persisted(q)' => Persisted(q)
    BY <1>1 DEF OnlyCall, Persisted
  <2> QED
    BY <1>c, <1>1, <2>1, <2>2 DEF AnswersKnown
<1>2. ASSUME NEW p \in Requests, Compute(p) \/ ComputeFails(p) \/ AcquireConnection(p)
      PROVE  AnswersKnown'
  <2>1. /\ OnlyCall(p) /\ UNCHANGED <<requests, event_type>>
        /\ outcome'[p] \in {outcome[p], "error"} /\ pc'[p] \in {"pool", "done", "begin"}
    BY <1>t, <1>2 DEF Compute, ComputeFails, AcquireConnection, Answer, Goto, OnlyCall, TypeOK,
                      db, local
  <2>2. Local(p)'
    BY <1>b, <2>1
  <2>3. Persisted(p)' => Persisted(p)
    BY <2>1 DEF Persisted
  <2> QED
    BY <1>1, <2>1, <2>2, <2>3
<1>3. ASSUME NEW p \in Requests, MovesOn(p) PROVE AnswersKnown'
  <2>1. Local(p)'
    BY <1>b, <1>3 DEF MovesOn
  <2>2. Persisted(p)' => Persisted(p)
    BY <1>3 DEF Persisted, MovesOn
  <2> QED
    BY <1>1, <1>3, <2>1, <2>2 DEF MovesOn
<1>4. ASSUME NEW p \in Requests, Leaves(p) PROVE AnswersKnown'
  <2>1. Local(p)'
    BY <1>b, <1>4 DEF Leaves
  <2>2. Persisted(p)' => Persisted(p)
    BY <1>4 DEF Persisted, Leaves
  <2> QED
    BY <1>1, <1>4, <2>1, <2>2 DEF Leaves
<1>5. ASSUME NEW p \in Requests, Acknowledge(p) PROVE AnswersKnown'
  <2>1. /\ OnlyCall(p) /\ pc[p] = "ack" /\ pc'[p] = "done" /\ UNCHANGED requests
        /\ \/ outcome'[p] = "error"
           \/ job[p] = "persist" /\ event_type[p] = "calculation_rejected_duplicate"
                /\ outcome'[p] = "duplicate"
           \/ job[p] = "persist" /\ event_type[p] # "calculation_rejected_duplicate"
                /\ outcome'[p] = "success"
    BY <1>t, <1>5 DEF Acknowledge, Answer, Goto, OnlyCall, TypeOK, db, local
  <2>2. Local(p)'
    BY <1>b, <2>1
  <2>3. Persisted(p)' => Persisted(p)
    BY <1>b, <2>1 DEF Persisted
  <2> QED
    BY <1>1, <2>1, <2>2, <2>3
<1>6. ASSUME NEW p \in Requests, Commit(p) PROVE AnswersKnown'
  <2>1. /\ OnlyCall(p) /\ pc[p] = "commit" /\ pc'[p] = "ack"
        /\ UNCHANGED <<job, event_type, outcome>> /\ requests' = requests \cup batch[p]
    BY <1>t, <1>6 DEF Commit, Goto, OnlyCall, TypeOK
  <2>2. job[p] = "persist" => InputOf[p] \in requests'
    BY <1>b, <2>1 DEF IInv, BatchAgrees
  <2>3. Local(p)'
    BY <1>a, <1>b, <2>1, <2>2
  <2>4. CASE job[p] = "persist" /\ event_type[p] = "calculation_persisted"
    <3>1. InputOf[p] \notin requests
      BY <2>1, <2>4 DEF IInv, BatchAgrees
    <3>2. \A q \in Requests : Persisted(q) => InputOf[q] \in requests
      BY <1>b DEF Persisted
    <3>3. \A q \in Requests : q # p => Local(q)' /\ (Persisted(q)' => Persisted(q))
      BY <1>a, <1>b, <2>1 DEF OnlyCall, Persisted
    <3>4. ASSUME NEW q \in Requests, NEW r \in Requests,
                 Persisted(q)', Persisted(r)', InputOf[q] = InputOf[r]
          PROVE  q = r
      BY <1>c, <3>1, <3>2, <3>3, <3>4
    <3> QED
      BY <2>3, <3>3, <3>4 DEF AnswersKnown
  <2>5. CASE ~(job[p] = "persist" /\ event_type[p] = "calculation_persisted")
    <3>1. Persisted(p)' => Persisted(p)
      BY <2>1, <2>5 DEF Persisted
    <3> QED
      BY <1>1, <2>1, <2>3, <3>1
  <2> QED
    BY <2>4, <2>5
<1>7. CASE Crash
  <2>1. /\ UNCHANGED <<requests, job, event_type, outcome>>
        /\ \A p \in Requests : pc'[p] = pc[p] \/ pc'[p] = "crashed"
    BY <1>7 DEF Crash, db, TypeOK
  <2>2. \A p \in Requests : Local(p)'
    BY <1>b, <2>1
  <2>3. \A p \in Requests : Persisted(p)' => Persisted(p)
    BY <2>1 DEF Persisted
  <2> QED
    BY <1>c, <2>2, <2>3 DEF AnswersKnown
<1>8. CASE (\E v \in Readers : Reading(v)) \/ Rest \/ UNCHANGED vars
  BY <1>8, OtherStep DEF AnswersKnown, Persisted
<1> QED
  BY <1>2, <1>3, <1>4, <1>5, <1>6, <1>7, <1>8, CallStep DEF Next

\* What the callers will be told is an invariant of the service.
LEMMA AnswersInvariant == Spec => []AnswersKnown
<1>1. Init => AnswersKnown
  BY DEF Init, AnswersKnown, Persisted
<1>2. IInv /\ NoUniqueViolation /\ AnswersKnown /\ [Next]_vars => AnswersKnown'
  BY AnswersStep
<1> QED
  BY <1>1, <1>2, Invariance, IndexNeverHit, PTL DEF Spec

\* A caller told "success" has durable evidence and is the only one told so; a
\* caller told "duplicate" was right to be refused.
THEOREM AnswersAreHonest == Spec => []AnswersHonest
<1>1. AnswersKnown => AnswersHonest
  BY DEF AnswersKnown, AnswersHonest, Persisted
<1> QED
  BY <1>1, AnswersInvariant, PTL

\* A verification that starts after some caller was told "success" finds the
\* evidence of that input.
THEOREM WritesAreRead == Spec => ReadYourWrites
<1> DEFINE Step == \A v \in Readers :
          (verdict[v] = "idle" /\ verdict'[v] = "missing") =>
              \A p \in Requests : outcome[p] = "success" => InputOf[p] # InputOf[v]
<1>1. IInv /\ AnswersKnown /\ [Next]_vars => [Step]_vars
  <2> SUFFICES ASSUME IInv, AnswersKnown, [Next]_vars, NEW v \in Readers,
                      verdict[v] = "idle", verdict'[v] = "missing",
                      NEW p \in Requests, outcome[p] = "success"
               PROVE  InputOf[p] # InputOf[v]
    OBVIOUS
  <2>1. verdict \in [Readers -> {"idle", "found", "missing", "VALID",
                                 "INVALID", "error", "crashed"}]
    BY DEF IInv, TypeOK
  <2>2. ASSUME NEW q \in Requests, Compute(q) \/ Progress(q) \/ Trouble(q) PROVE UNCHANGED verdict
    BY <2>2
       DEF Progress, Trouble, Compute, ComputeFails, AcquireConnection, PoolTimeout,
           BeginTransaction, BeginFails, acquire_audit_chain_lock, LockTimeout,
           fetch_latest_audit_hash_for_chain, check_duplicate, insert_records_batch,
           insert_audit_event, BlockFails, Rollback, Commit, CommitFails, Acknowledge,
           AcknowledgeLost, reading
  <2>3. ~Crash /\ ~Rest /\ ~UNCHANGED vars
    BY <2>1 DEF Crash, Rest, vars, reading
  <2>4. PICK u \in Readers : Reading(u)
    BY <2>2, <2>3 DEF Next
  <2>5. fetch_by_input_hash(v) /\ InputOf[v] \notin requests
    BY <2>1, <2>4 DEF Reading, fetch_by_input_hash, verify_persisted, ReadUnavailable
  <2> QED
    BY <2>5 DEF AnswersKnown
<1> QED
  BY <1>1, Invariance, AnswersInvariant, PTL DEF Spec, ReadYourWrites

\* A rejection is recorded after the event it refers to, on the same chain.
THEOREM RejectionsAreLater == Spec => []RejectionsFollowPersist
<1>1. Init => RejectionsFollowPersist
  BY DEF Init, RejectionsFollowPersist
<1>2. IInv /\ EvidenceAudited /\ RejectionsFollowPersist /\ [Next]_vars => RejectionsFollowPersist'
  <2> SUFFICES ASSUME IInv, EvidenceAudited, RejectionsFollowPersist, [Next]_vars
               PROVE  RejectionsFollowPersist'
    OBVIOUS
  <2>1. CASE UNCHANGED <<requests, audit_log>>
    BY <2>1 DEF RejectionsFollowPersist, Earlier
  <2>2. ASSUME NEW p \in Requests, Commit(p) PROVE RejectionsFollowPersist'
    <3>1. PICK k \in Nat :
             /\ audit_log' = audit_log \cup
                   {build_audit_event(k, EventOf(p), LatestHash(audit_log, ChainId(p)),
                                      ChainId(p))}
             /\ \A q \in ChainRows(audit_log, ChainId(p)) : q.id < k
      BY <2>2, CommitFacts
    <3> DEFINE n == build_audit_event(k, EventOf(p), LatestHash(audit_log, ChainId(p)),
                                      ChainId(p))
    <3>2. /\ n.chain_id = ChainId(p) /\ n.id = k
          /\ n.payload.event_type = event_type[p]
          /\ n.payload.reference_id = InputOf[p]
      BY DEF build_audit_event, EventOf
    <3>3. audit_log' = audit_log \cup {n}
      BY <3>1
    <3> HIDE DEF n
    <3>4. ASSUME event_type[p] = "calculation_rejected_duplicate"
          PROVE  \E q \in Earlier(audit_log', n) :
                    /\ q.payload.event_type = "calculation_persisted"
                    /\ q.payload.reference_id = n.payload.reference_id
      <4>1. InputOf[p] \in requests /\ InputOf[p] \in Inputs
        BY <2>2, <3>4, ChainIdType DEF Commit, IInv, BatchAgrees
      <4>2. PICK r \in audit_log : /\ PersistedRows(InputOf[p]) = {r}
                                   /\ r.chain_id = ChainId(p)
        BY <4>1 DEF EvidenceAudited, ChainId
      <4>3. /\ r.payload.event_type = "calculation_persisted"
            /\ r.payload.reference_id = InputOf[p]
        BY <4>2 DEF PersistedRows
      <4>4. r \in Earlier(audit_log', n)
        BY <3>1, <3>2, <3>3, <4>2 DEF Earlier, ChainRows
      <4> QED
        BY <3>2, <4>3, <4>4
    <3>5. \A r \in audit_log : Earlier(audit_log, r) \subseteq Earlier(audit_log', r)
      BY <3>3 DEF Earlier
    <3> SUFFICES ASSUME NEW r \in audit_log',
                        r.payload.event_type = "calculation_rejected_duplicate"
                 PROVE  \E q \in Earlier(audit_log', r) :
                           /\ q.payload.event_type = "calculation_persisted"
                           /\ q.payload.reference_id = r.payload.reference_id
      BY DEF RejectionsFollowPersist
    <3>6. CASE r = n
      BY <3>2, <3>4, <3>6
    <3>7. CASE r \in audit_log
      BY <3>5, <3>7 DEF RejectionsFollowPersist
    <3> QED
      BY <3>3, <3>6, <3>7
  <2> QED
    BY <2>1, <2>2, TableStep
<1> QED
  BY <1>1, <1>2, Invariance, EvidenceIsAudited, PTL DEF Spec

\* Appending to a hash gives another hash, and two appended events differ in
\* the hashes they give.
LEMMA HashesDiffer ==
    ASSUME NEW h \in Hash, NEW e, NEW f
    PROVE  /\ Append(h, e) # h
           /\ Append(h, e) = Append(h, f) => e = f
<1>1. h \in Seq(AuditPayload) /\ Len(h) \in Nat
  BY DEF Hash
<1>2. /\ Len(Append(h, e)) = Len(h) + 1
      /\ Append(h, e)[Len(h) + 1] = e
      /\ Append(h, f)[Len(h) + 1] = f
  BY <1>1
<1> QED
  BY <1>1, <1>2

\* A damaged form of a row that hashes to what it says no longer does.
LEMMA DamageBreaks ==
    ASSUME NEW r \in AuditRow, ~CurrentHashMismatch(r), NEW d \in DamagedRows(r)
    PROVE  CurrentHashMismatch(d)
<1> DEFINE h == r.prev_hash
           e == r.payload
<1>1. /\ h \in Hash /\ e \in AuditPayload /\ r.current_hash \in Hash
      /\ r.current_hash = Append(h, e)
  BY DEF AuditRow, CurrentHashMismatch, compute_audit_hash
<1>2. CASE d = [r EXCEPT !.payload.event_type = "damaged"]
  <2>1. d.prev_hash = h /\ d.current_hash = r.current_hash
        /\ d.payload = [e EXCEPT !.event_type = "damaged"]
    BY <1>2 DEF AuditRow
  <2>2. d.payload # e
    <3>1. e.event_type \in EventTypes
      BY <1>1 DEF AuditPayload
    <3>2. d.payload.event_type = "damaged"
      BY <1>1, <2>1 DEF AuditPayload
    <3> QED
      BY <3>1, <3>2 DEF EventTypes
  <2> QED
    BY <1>1, <2>1, <2>2, HashesDiffer DEF CurrentHashMismatch, compute_audit_hash
<1>3. CASE d = [r EXCEPT !.prev_hash = r.current_hash]
  <2>1. d.prev_hash = r.current_hash /\ d.current_hash = r.current_hash /\ d.payload = e
    BY <1>3 DEF AuditRow
  <2> QED
    BY <1>1, <2>1, HashesDiffer DEF CurrentHashMismatch, compute_audit_hash
<1>4. CASE d = [r EXCEPT !.current_hash = r.prev_hash]
  <2>1. d.prev_hash = h /\ d.current_hash = h /\ d.payload = e
    BY <1>4 DEF AuditRow
  <2> QED
    BY <1>1, <2>1, HashesDiffer DEF CurrentHashMismatch, compute_audit_hash
<1> QED
  BY <1>2, <1>3, <1>4 DEF DamagedRows

\* An answer made from a well-formed chain and an event of it changes to
\* INVALID with any damaged row.
LEMMA DamageIsAnswered ==
    ASSUME NEW v \in Readers, WellFormed(chain_read[v]), stored[v] \subseteq chain_read[v]
    PROVE  DamageShows(v)
<1>1. \A r \in chain_read[v] : r \in AuditRow /\ ~CurrentHashMismatch(r)
  BY DEF WellFormed, Broken
<1>2. ASSUME NEW r \in chain_read[v], NEW d \in DamagedRows(r)
      PROVE  VerificationStatus(TRUE, stored[v], (chain_read[v] \ {r}) \cup {d}) = "INVALID"
  <2>1. CurrentHashMismatch(d)
    BY <1>1, DamageBreaks
  <2>2. Broken((chain_read[v] \ {r}) \cup {d}) # {}
    BY <2>1 DEF Broken
  <2>3. verify_audit_chain((chain_read[v] \ {r}) \cup {d}).status # "VALID"
    BY <2>2 DEF verify_audit_chain
  <2> QED
    BY <2>3 DEF VerificationStatus
<1>3. ASSUME NEW r \in stored[v], NEW d \in DamagedRows(r)
      PROVE  VerificationStatus(TRUE, {d}, chain_read[v]) = "INVALID"
  <2>1. CurrentHashMismatch(d)
    BY <1>1, DamageBreaks
  <2> QED
    BY <2>1 DEF VerificationStatus, verify_bundle
<1> QED
  BY <1>2, <1>3 DEF DamageShows

\* Every committed row is on the chain of the input it is about, and the rows
\* about an input have a last one: what the commit of a call appends is above
\* the rows of its chain.
LEMMA PlacesInvariant == Spec => [](RowsPlaced /\ LastKnown)
<1>1. Init => RowsPlaced /\ LastKnown
  BY DEF Init, RowsPlaced, LastKnown, AboutInput
<1>2. IInv /\ RowsPlaced /\ LastKnown /\ [Next]_vars => (RowsPlaced /\ LastKnown)'
  <2> SUFFICES ASSUME IInv, RowsPlaced, LastKnown, [Next]_vars
               PROVE  RowsPlaced' /\ LastKnown'
    OBVIOUS
  <2>1. CASE UNCHANGED <<requests, audit_log>>
    BY <2>1 DEF RowsPlaced, LastKnown
  <2>2. ASSUME NEW p \in Requests, Commit(p) PROVE RowsPlaced' /\ LastKnown'
    <3>1. PICK k \in Nat :
             /\ audit_log' = audit_log \cup
                   {build_audit_event(k, EventOf(p), LatestHash(audit_log, ChainId(p)),
                                      ChainId(p))}
             /\ \A q \in ChainRows(audit_log, ChainId(p)) : q.id < k
      BY <2>2, CommitFacts
    <3> DEFINE n == build_audit_event(k, EventOf(p), LatestHash(audit_log, ChainId(p)),
                                      ChainId(p))
    <3>2. n.chain_id = ChainId(p) /\ n.id = k /\ n.payload.reference_id = InputOf[p]
      BY DEF build_audit_event, EventOf
    <3>3. audit_log' = audit_log \cup {n}
      BY <3>1
    <3> HIDE DEF n
    <3>4. RowsPlaced'
      BY <3>2, <3>3 DEF RowsPlaced, ChainId
    <3>5. ASSUME NEW i \in Inputs, i = InputOf[p]
          PROVE  IsLast(AboutInput(audit_log', i), n) /\ n \in AboutInput(audit_log', i)
      <4>1. n \in AboutInput(audit_log', i)
        BY <3>2, <3>3, <3>5 DEF AboutInput
      <4>2. ASSUME NEW q \in AboutInput(audit_log', i) PROVE q.id <= n.id
        <5>1. CASE q = n
          BY <3>2, <5>1
        <5>2. CASE q \in audit_log
          <6>1. q \in ChainRows(audit_log, ChainId(p))
            BY <3>5, <4>2, <5>2 DEF AboutInput, RowsPlaced, ChainRows, ChainId
          <6>2. q.id < k /\ q.id \in Nat
            BY <3>1, <5>2, <6>1 DEF IInv, WellFormed, AuditRow
          <6> QED
            BY <3>2, <6>2
        <5> QED
          BY <3>3, <4>2, <5>1, <5>2 DEF AboutInput
      <4> QED
        BY <4>1, <4>2 DEF IsLast
    <3>6. ASSUME NEW i \in Inputs, i # InputOf[p]
          PROVE  AboutInput(audit_log', i) = AboutInput(audit_log, i)
      BY <3>2, <3>3, <3>6 DEF AboutInput
    <3>7. LastKnown'
      BY <3>5, <3>6 DEF LastKnown
    <3> QED
      BY <3>4, <3>7
  <2> QED
    BY <2>1, <2>2, TableStep
<1> QED
  BY <1>1, <1>2, Invariance, PTL DEF Spec

\* The bundle fetch_by_input_hash returns carries one audit event, no earlier
\* than the event that persisted the input.
LEMMA LatestCovers ==
    ASSUME IInv, EvidenceAudited, RowsPlaced, LastKnown,
           NEW v \in Readers, InputOf[v] \in requests
    PROVE  Covers(audit_log, v, LatestAbout(audit_log, InputOf[v]))
<1> DEFINE i == InputOf[v]
           about == AboutInput(audit_log, i)
<1>1. i \in Inputs
  BY InputOfAssumption
<1>2. PICK q \in audit_log : PersistedRows(i) = {q} /\ q.chain_id = chain_id_for_input(i)
  BY <1>1 DEF EvidenceAudited
<1>3. q.payload.event_type = "calculation_persisted" /\ q.payload.reference_id = i
  BY <1>2 DEF PersistedRows
<1>4. q \in about
  BY <1>3 DEF AboutInput
<1>5. PICK r \in about : IsLast(about, r)
  BY <1>1, <1>4 DEF LastKnown
<1>6. \A s \in about : s \in audit_log /\ s.chain_id = chain_id_for_input(i)
                       /\ s.id \in Nat /\ s.payload.reference_id = i
  BY DEF AboutInput, RowsPlaced, IInv, WellFormed, AuditRow
<1>7. \A s \in about : IsLast(about, s) => s = r
  <2> SUFFICES ASSUME NEW s \in about, IsLast(about, s) PROVE s = r
    OBVIOUS
  <2>1. s.id <= r.id /\ r.id <= s.id
    BY <1>5 DEF IsLast
  <2>2. s.id = r.id
    BY <1>6, <2>1
  <2> QED
    BY <1>6, <2>2 DEF IInv, WellFormed, UniqueIds
<1>8. LatestAbout(audit_log, i) = {r}
  BY <1>5, <1>7 DEF LatestAbout
<1>9. q.id <= r.id
  BY <1>4, <1>5 DEF IsLast
<1> QED
  BY <1>3, <1>4, <1>5, <1>6, <1>8, <1>9 DEF Covers

\* Every step keeps what the verifications have read covered by the table.
LEMMA ReadsStep ==
    ASSUME IInv, EvidenceAudited, RowsPlaced, LastKnown, ReadsKept, [Next]_vars
    PROVE  ReadsKept'
<1>t. /\ verdict \in [Readers -> {"idle", "found", "missing", "VALID",
                                  "INVALID", "error", "crashed"}]
      /\ stored \in [Readers -> SUBSET AuditRow]
      /\ chain_read \in [Readers -> SUBSET AuditRow]
  BY DEF IInv, TypeOK
<1>a. audit_log \subseteq audit_log'
  BY TableStep, CommitFacts
<1>b. \A v \in Readers : \A S : Covers(audit_log, v, S) => Covers(audit_log', v, S)
  BY <1>a DEF Covers
<1>1. CASE UNCHANGED reading
  BY <1>1, <1>b DEF ReadsKept, reading
<1>2. ASSUME NEW q \in Requests, Compute(q) \/ Progress(q) \/ Trouble(q) PROVE UNCHANGED reading
  BY <1>2
     DEF Progress, Trouble, Compute, ComputeFails, AcquireConnection, PoolTimeout,
         BeginTransaction, BeginFails, acquire_audit_chain_lock, LockTimeout,
         fetch_latest_audit_hash_for_chain, check_duplicate, insert_records_batch,
         insert_audit_event, BlockFails, Rollback, Commit, CommitFails, Acknowledge,
         AcknowledgeLost
<1>3. Rest \/ UNCHANGED vars => UNCHANGED reading
  BY DEF Rest, vars
<1>4. CASE Crash
  <2>1. /\ stored' = stored /\ chain_read' = chain_read
        /\ \A v \in Readers : verdict'[v] = verdict[v] \/ verdict'[v] = "crashed"
    BY <1>4 DEF Crash
  <2> QED
    BY <2>1, <1>b DEF ReadsKept
<1>5. ASSUME NEW u \in Readers, Reading(u) PROVE ReadsKept'
  <2> SUFFICES ASSUME NEW v \in Readers
               PROVE  /\ verdict'[v] \in {"idle", "missing", "INVALID"} => stored'[v] = {}
                      /\ verdict'[v] = "found" => Covers(audit_log', v, stored'[v])
                      /\ verdict'[v] = "VALID" => /\ Covers(chain_read'[v], v, stored'[v])
                                                  /\ WellFormed(chain_read'[v])
    BY DEF ReadsKept
  <2>1. CASE v # u
    <3>1. verdict'[v] = verdict[v] /\ stored'[v] = stored[v] /\ chain_read'[v] = chain_read[v]
      BY <1>5, <1>t, <2>1 DEF Reading, fetch_by_input_hash, verify_persisted, ReadUnavailable
    <3> QED
      BY <3>1, <1>b DEF ReadsKept
  <2>2. CASE v = u /\ fetch_by_input_hash(v)
    <3>1. CASE InputOf[v] \in requests
      <4>1. verdict'[v] = "found" /\ stored'[v] = LatestAbout(audit_log, InputOf[v])
        BY <1>t, <2>2, <3>1 DEF fetch_by_input_hash
      <4>2. Covers(audit_log, v, LatestAbout(audit_log, InputOf[v]))
        BY <3>1, LatestCovers
      <4> QED
        BY <4>1, <4>2, <1>b
    <3>2. CASE InputOf[v] \notin requests
      <4>1. verdict'[v] = "missing" /\ stored'[v] = stored[v] /\ verdict[v] = "idle"
        BY <1>t, <2>2, <3>2 DEF fetch_by_input_hash
      <4> QED
        BY <4>1 DEF ReadsKept
    <3> QED
      BY <3>1, <3>2
  <2>3. CASE v = u /\ verify_persisted(v)
    <3>1. /\ stored'[v] = stored[v] /\ chain_read'[v] = audit_log
          /\ verdict[v] \in {"found", "missing"}
          /\ verdict'[v] = VerificationStatus(verdict[v] = "found", stored[v], audit_log)
      BY <1>t, <2>3 DEF verify_persisted
    <3>2. WellFormed(audit_log) /\ verify_audit_chain(audit_log).status = "VALID"
      BY DEF IInv, WellFormed, verify_audit_chain
    <3>3. CASE verdict[v] = "missing"
      <4>1. verdict'[v] = "INVALID"
        BY <3>1, <3>3 DEF VerificationStatus
      <4> QED
        BY <3>1, <3>3, <4>1 DEF ReadsKept
    <3>4. CASE verdict[v] = "found"
      <4>1. Covers(audit_log, v, stored[v])
        BY <3>4 DEF ReadsKept
      <4>2. stored[v] \subseteq audit_log
        BY <4>1 DEF Covers
      <4>3. verify_bundle(stored[v])
        BY <3>2, <4>2 DEF verify_bundle, WellFormed, Broken
      <4>4. verdict'[v] = "VALID"
        BY <3>1, <3>2, <3>4, <4>3 DEF VerificationStatus
      <4> QED
        BY <3>1, <3>2, <4>1, <4>4
    <3> QED
      BY <3>1, <3>3, <3>4
  <2>4. CASE v = u /\ ReadUnavailable(v)
    BY <1>t, <2>4 DEF ReadUnavailable
  <2> QED
    BY <1>5, <2>1, <2>2, <2>3, <2>4 DEF Reading
<1> QED
  BY <1>1, <1>2, <1>3, <1>4, <1>5 DEF Next

\* Whatever is committed between the two reads of verify_persisted, evidence it
\* found is answered VALID and with a chain that covers it and would show
\* damage; the INVALID of a service that works is the one without evidence.
THEOREM VerdictsCoverEvidence == Spec => []VerdictCoversEvidence
<1>1. Init => ReadsKept
  BY DEF Init, ReadsKept
<1>2. IInv /\ EvidenceAudited /\ RowsPlaced /\ LastKnown /\ ReadsKept /\ [Next]_vars => ReadsKept'
  BY ReadsStep
<1>3. ReadsKept => VerdictCoversEvidence
  <2> SUFFICES ASSUME ReadsKept, NEW v \in Readers
               PROVE  /\ verdict[v] = "found" => stored[v] # {}
                      /\ verdict[v] = "INVALID" => stored[v] = {}
                      /\ verdict[v] = "VALID" =>
                            Covers(chain_read[v], v, stored[v]) /\ DamageShows(v)
    BY DEF VerdictCoversEvidence, Covers
  <2>1. verdict[v] = "found" => stored[v] # {}
    BY DEF ReadsKept, Covers
  <2>2. verdict[v] = "INVALID" => stored[v] = {}
    BY DEF ReadsKept
  <2>3. ASSUME verdict[v] = "VALID"
        PROVE  Covers(chain_read[v], v, stored[v]) /\ DamageShows(v)
    <3>1. Covers(chain_read[v], v, stored[v]) /\ WellFormed(chain_read[v])
      BY <2>3 DEF ReadsKept
    <3>2. stored[v] \subseteq chain_read[v]
      BY <3>1 DEF Covers
    <3> QED
      BY <3>1, <3>2, DamageIsAnswered
  <2> QED
    BY <2>1, <2>2, <2>3
<1> QED
  BY <1>1, <1>2, <1>3, Invariance, EvidenceIsAudited, PlacesInvariant, PTL DEF Spec

-----------------------------------------------------------------------------
(***************************************************************************)
(* The connections and the counters.                                       *)
(***************************************************************************)

\* Every step keeps the connections accounted for.
LEMMA ConnectionsStep ==
    ASSUME IInv, NoUniqueViolation, AnswersKnown, ConnectionsKnown, [Next]_vars
    PROVE  ConnectionsKnown'
<1>t. /\ TypeOK /\ PoolSize \in Nat /\ pool_free \in Nat /\ leaked \in Nat
      /\ IsFiniteSet(Users) /\ pool_free + leaked + Cardinality(Users) = PoolSize
  BY PoolAssumption DEF IInv, TypeOK, ConnectionsKnown, ConnectionsAccounted, Users
<1>a. Cardinality(Users) \in Nat
  BY <1>t, FS_CardinalityType
<1>b. ConnectionsKnown' <=> /\ IsFiniteSet(Users')
                            /\ pool_free' + leaked' + Cardinality(Users') = PoolSize
  BY DEF ConnectionsKnown, ConnectionsAccounted, Users
<1>1. ASSUME NEW p \in Requests, OnlyCall(p),
             pool_free' \in Nat, leaked' \in Nat,
             pool_free' + leaked' + (IF pc'[p] \in Connected THEN 1 ELSE 0) =
                pool_free + leaked + (IF pc[p] \in Connected THEN 1 ELSE 0)
      PROVE  ConnectionsKnown'
  <2>1. /\ \A q : q # p => (q \in Users <=> q \in Users')
        /\ p \in Users <=> pc[p] \in Connected
        /\ p \in Users' <=> pc'[p] \in Connected
    BY <1>1 DEF Users, OnlyCall
  <2>2. /\ IsFiniteSet(Users') /\ Cardinality(Users') \in Nat
        /\ Cardinality(Users') = Cardinality(Users) - (IF p \in Users THEN 1 ELSE 0)
                                                    + (IF p \in Users' THEN 1 ELSE 0)
    BY <1>t, <2>1, OneMemberChanges
  <2>3. Cardinality(Users') = Cardinality(Users) - (IF pc[p] \in Connected THEN 1 ELSE 0)
                                                 + (IF pc'[p] \in Connected THEN 1 ELSE 0)
    BY <2>1, <2>2
  <2> QED
    BY <1>t, <1>a, <1>b, <1>1, <2>2, <2>3
<1>2. ASSUME NEW p \in Requests, Compute(p) \/ ComputeFails(p) PROVE ConnectionsKnown'
  <2>1. /\ OnlyCall(p) /\ UNCHANGED <<pool_free, leaked>>
        /\ pc[p] \notin Connected /\ pc'[p] \notin Connected
    BY <1>t, <1>2 DEF Compute, ComputeFails, Answer, Goto, OnlyCall, TypeOK, local, process,
                      Connected, InTxn, Critical
  <2> QED
    BY <1>t, <1>1, <2>1
<1>3. ASSUME NEW p \in Requests, AcquireConnection(p) PROVE ConnectionsKnown'
  <2>1. /\ OnlyCall(p) /\ pool_free' = pool_free - 1 /\ pool_free > 0 /\ UNCHANGED leaked
        /\ pc[p] \notin Connected /\ pc'[p] \in Connected
    BY <1>t, <1>3 DEF AcquireConnection, Goto, OnlyCall, TypeOK, local,
                      Connected, InTxn, Critical
  <2> QED
    BY <1>t, <1>1, <2>1
<1>4. ASSUME NEW p \in Requests, MovesOn(p) PROVE ConnectionsKnown'
  BY <1>t, <1>1, <1>4 DEF MovesOn
<1>5. ASSUME NEW p \in Requests, Leaves(p) PROVE ConnectionsKnown'
  <2>1. pc'[p] \notin Connected /\ (pc[p] = "pool" => pc[p] \notin Connected)
    BY <1>5 DEF Leaves, Connected, InTxn, Critical
  <2> QED
    BY <1>t, <1>1, <1>5, <2>1 DEF Leaves
<1>6. ASSUME NEW p \in Requests, Commit(p) PROVE ConnectionsKnown'
  <2>1. OnlyCall(p) /\ UNCHANGED <<pool_free, leaked>> /\ pc[p] \in Connected /\ pc'[p] \in Connected
    BY <1>t, <1>6 DEF Commit, Goto, OnlyCall, TypeOK, process, Connected, InTxn, Critical
  <2> QED
    BY <1>t, <1>1, <2>1
<1>7. ASSUME NEW p \in Requests, Acknowledge(p) PROVE ConnectionsKnown'
  <2>1. /\ OnlyCall(p) /\ pool_free' = pool_free + 1 /\ UNCHANGED leaked
        /\ pc[p] \in Connected /\ pc'[p] \notin Connected
    BY <1>t, <1>7 DEF Acknowledge, Answer, Goto, OnlyCall, TypeOK, local, Connected, InTxn, Critical
  <2> QED
    BY <1>t, <1>1, <2>1
<1>8. CASE Crash
  <2>1. Users' = {}
    BY <1>t, <1>8 DEF Crash, InFlight, Users, Active, Connected, InTxn, Critical, TypeOK
  <2>2. pool_free' = PoolSize /\ leaked' = 0
    BY <1>8 DEF Crash
  <2> QED
    BY <1>t, <1>b, <2>1, <2>2, FS_EmptySet
<1>9. CASE (\E v \in Readers : Reading(v)) \/ Rest \/ UNCHANGED vars
  BY <1>t, <1>b, <1>9, OtherStep DEF Users
<1> QED
  BY <1>2, <1>3, <1>4, <1>5, <1>6, <1>7, <1>8, <1>9, CallStep DEF Next

\* Every connection is idle, in use by one call, or lost to a failed BEGIN.
THEOREM ConnectionsAreAccounted == Spec => []ConnectionsAccounted
<1>1. Init => ConnectionsKnown
  <2> SUFFICES ASSUME Init PROVE ConnectionsKnown
    OBVIOUS
  <2>1. Users = {} /\ pool_free = PoolSize /\ leaked = 0
    BY DEF Init, Users, Connected, InTxn, Critical
  <2> QED
    BY <2>1, FS_EmptySet, PoolAssumption DEF ConnectionsKnown, ConnectionsAccounted, Users
<1>2. IInv /\ NoUniqueViolation /\ AnswersKnown /\ ConnectionsKnown /\ [Next]_vars => ConnectionsKnown'
  BY ConnectionsStep
<1>3. ConnectionsKnown => ConnectionsAccounted
  BY DEF ConnectionsKnown
<1> QED
  BY <1>1, <1>2, <1>3, Invariance, IndexNeverHit, AnswersInvariant, PTL DEF Spec

\* The outcomes a chain's counters report, of naturals.
Outcomes(c) == metrics[c]["successes"] + metrics[c]["duplicates"] + metrics[c]["errors"]

\* Counting one outcome, or one request, of a call touches its chain only.
LEMMA CountEffect ==
    ASSUME TypeOK, NEW p \in Requests, NEW k \in Counters, Count(p, k)
    PROVE  \A c \in Chains :
              /\ Outcomes(c)' = Outcomes(c) + (IF c = ChainId(p) /\ k # "requests" THEN 1 ELSE 0)
              /\ metrics'[c]["requests"] = metrics[c]["requests"] +
                                              (IF c = ChainId(p) /\ k = "requests" THEN 1 ELSE 0)
<1>1. metrics \in [Chains -> [Counters -> Nat]] /\ ChainId(p) \in Chains
  BY ChainIdType DEF TypeOK
<1> SUFFICES ASSUME NEW c \in Chains
             PROVE  /\ Outcomes(c)' = Outcomes(c) + (IF c = ChainId(p) /\ k # "requests" THEN 1 ELSE 0)
                    /\ metrics'[c]["requests"] = metrics[c]["requests"] +
                                              (IF c = ChainId(p) /\ k = "requests" THEN 1 ELSE 0)
  OBVIOUS
<1>2. /\ metrics[c]["successes"] \in Nat /\ metrics[c]["duplicates"] \in Nat
      /\ metrics[c]["errors"] \in Nat /\ metrics[c]["requests"] \in Nat
  BY <1>1 DEF Counters
<1>3. \A j \in Counters : metrics'[c][j] = metrics[c][j] + (IF c = ChainId(p) /\ j = k THEN 1 ELSE 0)
  <2>1. metrics' = [metrics EXCEPT ![ChainId(p)] = [metrics[ChainId(p)] EXCEPT ![k] = metrics[ChainId(p)][k] + 1]]
    BY <1>1 DEF Count
  <2>2. \A j \in Counters : metrics[c][j] \in Nat
    BY <1>1
  <2> QED
    BY <1>1, <2>1, <2>2
<1> QED
  BY <1>2, <1>3 DEF Outcomes, Counters

\* Every step keeps outcomes counted and to come within the requests.
LEMMA CountsStep ==
    ASSUME IInv, NoUniqueViolation, AnswersKnown, CountsKnown, [Next]_vars
    PROVE  CountsKnown'
<1> DEFINE Asked(c) == metrics[c]["requests"]
           Waits(p, c) == IF p \in Countable(c) THEN 1 ELSE 0
<1>t. TypeOK
  BY DEF IInv
<1>n. \A c \in Chains : Outcomes(c) \in Nat /\ Outcomes(c)' \in Nat /\ Asked(c) \in Nat /\ Asked(c)' \in Nat
  <2>1. TypeOK'
    BY TypeStep
  <2>2. /\ metrics \in [Chains -> [Counters -> Nat]] /\ metrics' \in [Chains -> [Counters -> Nat]]
    BY <1>t, <2>1 DEF TypeOK
  <2> QED
    BY <2>2 DEF Outcomes, Counters
<1>b. \A c \in Chains : /\ IsFiniteSet(Countable(c)) /\ Cardinality(Countable(c)) \in Nat
                        /\ Outcomes(c) + Cardinality(Countable(c)) <= Asked(c)
  BY FS_CardinalityType DEF CountsKnown, Outcomes
<1>c. ASSUME \A c \in Chains : /\ IsFiniteSet(Countable(c)')
                               /\ Outcomes(c)' + Cardinality(Countable(c)') <= Asked(c)'
      PROVE  CountsKnown'
  BY <1>c DEF CountsKnown, Outcomes
\* A step of one call.
<1>1. ASSUME NEW p \in Requests, OnlyCall(p),
             \A c \in Chains : Outcomes(c)' + Waits(p, c)' + Asked(c) <=
                                  Outcomes(c) + Waits(p, c) + Asked(c)'
      PROVE  CountsKnown'
  <2> SUFFICES ASSUME NEW c \in Chains
               PROVE  /\ IsFiniteSet(Countable(c)')
                      /\ Outcomes(c)' + Cardinality(Countable(c)') <= Asked(c)'
    BY <1>c
  <2>1. \A q : q # p => (q \in Countable(c) <=> q \in Countable(c)')
    BY <1>1 DEF Countable, OnlyCall
  <2>2. /\ IsFiniteSet(Countable(c)') /\ Cardinality(Countable(c)') \in Nat
        /\ Cardinality(Countable(c)') = Cardinality(Countable(c)) - Waits(p, c) + Waits(p, c)'
    BY <1>b, <2>1, OneMemberChanges
  <2>3. Waits(p, c) \in {0, 1} /\ Waits(p, c)' \in {0, 1}
    OBVIOUS
  <2>4. Outcomes(c)' + Waits(p, c)' + Asked(c) <= Outcomes(c) + Waits(p, c) + Asked(c)'
    BY <1>1
  <2> HIDE DEF Waits, Asked
  <2> QED
    BY <1>n, <1>b, <2>2, <2>3, <2>4
\* What p counts for before and after.
<1>w. ASSUME NEW p \in Requests, NEW c \in Chains
      PROVE  /\ Waits(p, c) \in {0, 1} /\ Waits(p, c)' \in {0, 1}
             /\ Waits(p, c) = IF ChainId(p) = c /\ pc[p] \in Active /\ job[p] = "persist"
                              THEN 1 ELSE 0
             /\ Waits(p, c)' = IF ChainId(p) = c /\ pc'[p] \in Active /\ job'[p] = "persist"
                               THEN 1 ELSE 0
  BY DEF Countable
<1> HIDE DEF Waits
\* A step that counts nothing and does not make the call countable.
<1>2. ASSUME NEW p \in Requests, OnlyCall(p), UNCHANGED metrics,
             (pc'[p] \in Active /\ job'[p] = "persist") => (pc[p] \in Active /\ job[p] = "persist")
      PROVE  CountsKnown'
  <2>1. \A c \in Chains : Outcomes(c)' = Outcomes(c) /\ Asked(c)' = Asked(c)
    BY <1>2 DEF Outcomes
  <2>2. \A c \in Chains : Waits(p, c)' <= Waits(p, c)
    BY <1>w, <1>2
  <2> HIDE DEF Asked
  <2>3. \A c \in Chains : Outcomes(c)' + Waits(p, c)' + Asked(c) <=
                             Outcomes(c) + Waits(p, c) + Asked(c)'
    BY <1>n, <1>w, <2>1, <2>2
  <2> QED
    BY <1>1, <1>2, <2>3
\* A step that counts the one outcome of the call.
<1>3. ASSUME NEW p \in Requests, NEW k \in Counters \ {"requests"}, OnlyCall(p), Count(p, k),
             pc[p] \in Active /\ job[p] = "persist",
             ~(pc'[p] \in Active /\ job'[p] = "persist")
      PROVE  CountsKnown'
  <2>1. \A c \in Chains : /\ Outcomes(c)' = Outcomes(c) + (IF c = ChainId(p) THEN 1 ELSE 0)
                          /\ Asked(c)' = Asked(c)
    BY <1>t, <1>n, <1>3, CountEffect
  <2>2. \A c \in Chains : Waits(p, c)' = 0 /\ Waits(p, c) = IF c = ChainId(p) THEN 1 ELSE 0
    BY <1>w, <1>3
  <2> HIDE DEF Asked
  <2>3. \A c \in Chains : Outcomes(c)' + Waits(p, c)' + Asked(c) <=
                             Outcomes(c) + Waits(p, c) + Asked(c)'
    BY <1>n, <1>w, <2>1, <2>2
  <2> QED
    BY <1>1, <1>3, <2>3
<1>4. ASSUME NEW p \in Requests, Compute(p) PROVE CountsKnown'
  <2>1. OnlyCall(p) /\ Count(p, "requests") /\ pc[p] \notin Active
    BY <1>t, <1>4 DEF Compute, Goto, OnlyCall, TypeOK, Active, Connected, InTxn, Critical
  <2>2. \A c \in Chains : /\ Outcomes(c)' = Outcomes(c)
                          /\ Asked(c)' = Asked(c) + (IF c = ChainId(p) THEN 1 ELSE 0)
    BY <1>t, <1>n, <2>1, CountEffect DEF Counters
  <2>3. \A c \in Chains : Waits(p, c) = 0 /\ Waits(p, c)' <= IF c = ChainId(p) THEN 1 ELSE 0
    BY <1>w, <2>1
  <2> HIDE DEF Asked
  <2>4. \A c \in Chains : Outcomes(c)' + Waits(p, c)' + Asked(c) <=
                             Outcomes(c) + Waits(p, c) + Asked(c)'
    BY <1>n, <1>w, <2>2, <2>3
  <2> QED
    BY <1>1, <2>1, <2>4
<1>5. ASSUME NEW p \in Requests, ComputeFails(p) \/ AcquireConnection(p) \/ Commit(p)
      PROVE  CountsKnown'
  <2>1. OnlyCall(p) /\ UNCHANGED <<metrics, job>> /\ (pc'[p] \in Active => pc[p] \in Active)
    BY <1>t, <1>5 DEF ComputeFails, AcquireConnection, Commit, Answer, Goto, OnlyCall, TypeOK,
                      local, process, Active, Connected, InTxn, Critical
  <2> QED
    BY <1>2, <2>1
<1>6. ASSUME NEW p \in Requests, MovesOn(p) PROVE CountsKnown'
  BY <1>2, <1>6 DEF MovesOn, Active
<1>7. ASSUME NEW p \in Requests, Leaves(p) PROVE CountsKnown'
  BY <1>2, <1>3, <1>7 DEF Leaves, Counters
<1>8. ASSUME NEW p \in Requests, Acknowledge(p) PROVE CountsKnown'
  <2>1. /\ OnlyCall(p) /\ pc[p] \in Active /\ pc'[p] \notin Active /\ UNCHANGED job
        /\ \/ UNCHANGED metrics
           \/ job[p] = "persist" /\ Count(p, "duplicates")
           \/ job[p] = "persist" /\ Count(p, "successes")
    BY <1>t, <1>8 DEF Acknowledge, Answer, Goto, OnlyCall, TypeOK, local, Active, Connected,
                      InTxn, Critical
  <2> QED
    BY <1>2, <1>3, <2>1 DEF Counters
<1>9. CASE Crash
  <2>1. \A c \in Chains : Countable(c)' = {}
    BY <1>t, <1>9 DEF Crash, InFlight, Countable, Active, Connected, InTxn, Critical, TypeOK
  <2>2. \A c \in Chains : Outcomes(c)' = 0 /\ Asked(c)' = 0
    BY <1>9 DEF Crash, Outcomes, Counters
  <2> QED
    BY <1>c, <2>1, <2>2, FS_EmptySet
<1>10. CASE (\E v \in Readers : Reading(v)) \/ Rest \/ UNCHANGED vars
  <2>1. UNCHANGED <<pc, job, metrics>>
    BY <1>10, OtherStep
  <2>2. \A c \in Chains : Countable(c)' = Countable(c) /\ Outcomes(c)' = Outcomes(c) /\ Asked(c)' = Asked(c)
    BY <2>1 DEF Countable, Outcomes
  <2> QED
    BY <1>b, <1>c, <2>2
<1> QED
  BY <1>4, <1>5, <1>6, <1>7, <1>8, <1>9, <1>10, CallStep DEF Next

\* No call is counted under two outcomes, or under one without its request.
THEOREM CallsAreCountedOnce == Spec => []CountedOnce
<1>1. Init => CountsKnown
  <2> SUFFICES ASSUME Init, NEW c \in Chains
               PROVE  /\ IsFiniteSet(Countable(c))
                      /\ Outcomes(c) + Cardinality(Countable(c)) <= metrics[c]["requests"]
    BY DEF CountsKnown, Outcomes
  <2>1. Countable(c) = {}
    BY DEF Init, Countable, Active, Connected, InTxn, Critical
  <2>2. Outcomes(c) = 0 /\ metrics[c]["requests"] = 0
    BY DEF Init, Outcomes, Counters
  <2> QED
    BY <2>1, <2>2, FS_EmptySet
<1>2. IInv /\ NoUniqueViolation /\ AnswersKnown /\ CountsKnown /\ [Next]_vars => CountsKnown'
  BY CountsStep
<1>3. IInv /\ CountsKnown => CountedOnce
  <2> SUFFICES ASSUME IInv, CountsKnown, NEW c \in Chains
               PROVE  Outcomes(c) <= metrics[c]["requests"]
    BY DEF CountedOnce, Outcomes
  <2>1. Outcomes(c) \in Nat /\ metrics[c]["requests"] \in Nat
    BY DEF IInv, TypeOK, Outcomes, Counters
  <2>2. /\ Cardinality(Countable(c)) \in Nat
        /\ Outcomes(c) + Cardinality(Countable(c)) <= metrics[c]["requests"]
    BY FS_CardinalityType DEF CountsKnown, Outcomes
  <2> QED
    BY <2>1, <2>2
<1> QED
  BY <1>1, <1>2, <1>3, Invariance, IndexNeverHit, AnswersInvariant, PTL DEF Spec
=============================================================================
