-------------------------- MODULE AuditChainProofs --------------------------
(***************************************************************************)
(* What appending one row does to a well-formed audit log: the facts every *)
(* proof about a writer of the log rests on.                               *)
(***************************************************************************)
EXTENDS AuditChain, TLAPS

(***************************************************************************)
(* A log is well formed when ids are unique within a chain, every chain    *)
(* that is not empty has a last row, and no row is broken.  "Has a last    *)
(* row" follows from finiteness; stating it makes the invariant inductive  *)
(* without counting.                                                       *)
(***************************************************************************)
UniqueIds(log) ==
    \A q, r \in log : (q.chain_id = r.chain_id /\ q.id = r.id) => q = r

HasLast(log) ==
    \A c \in Chains : ChainRows(log, c) # {} =>
        \E r \in ChainRows(log, c) : IsLast(ChainRows(log, c), r)

WellFormed(log) ==
    /\ log \in SUBSET AuditRow
    /\ UniqueIds(log)
    /\ HasLast(log)
    /\ Broken(log) = {}

\* Hashing keeps the type: the hash of a payload on top of a hash is a hash.
LEMMA HashType ==
    ASSUME NEW h \in Hash, NEW e \in AuditPayload
    PROVE  compute_audit_hash(h, e) \in Hash
BY DEF compute_audit_hash, Hash

\* The event build_audit_event returns is a row of the table.
LEMMA RowType ==
    ASSUME NEW k \in Nat, NEW e \in AuditPayload, NEW h \in Hash, NEW c \in Chains
    PROVE  build_audit_event(k, e, h, c) \in AuditRow
BY HashType DEF build_audit_event, AuditRow

\* The last row of a set is the one LastHash reads, when ids are unique in it.
LEMMA LastHashIs ==
    ASSUME NEW rows, NEW r \in rows,
           rows \in SUBSET AuditRow,
           \A q, s \in rows : q.id = s.id => q = s,
           IsLast(rows, r)
    PROVE  LastHash(rows) = r.current_hash
<1> DEFINE m == CHOOSE s \in rows : IsLast(rows, s)
<1>1. m \in rows /\ IsLast(rows, m)
  OBVIOUS
<1>2. m.id \in Nat /\ r.id \in Nat
  BY <1>1 DEF AuditRow
<1>3. m.id <= r.id /\ r.id <= m.id
  BY <1>1 DEF IsLast
<1>4. m = r
  BY <1>1, <1>2, <1>3
<1> QED
  BY <1>4 DEF LastHash

\* The hash a writer fetches is a hash, for an empty chain too.
LEMMA LatestHashType ==
    ASSUME NEW log, WellFormed(log), NEW c \in Chains
    PROVE  LatestHash(log, c) \in Hash
<1> DEFINE rows == ChainRows(log, c)
<1>1. CASE rows = {}
  BY <1>1 DEF LatestHash, LastHash, ZERO_HASH, Hash
<1>2. CASE rows # {}
  <2>1. PICK r \in rows : IsLast(rows, r)
    BY <1>2 DEF WellFormed, HasLast
  <2>2. (CHOOSE s \in rows : IsLast(rows, s)) \in rows
    BY <2>1
  <2>3. rows \in SUBSET AuditRow
    BY DEF WellFormed, ChainRows
  <2>4. \A s \in rows : s.current_hash \in Hash
    BY <2>3 DEF AuditRow
  <2> QED
    BY <1>2, <2>2, <2>4 DEF LatestHash, LastHash
<1> QED
  BY <1>1, <1>2

\* The empty log is well formed and every chain of it is at ZERO_HASH.
LEMMA EmptyLog == WellFormed({}) /\ \A c \in Chains : LatestHash({}, c) = ZERO_HASH
BY DEF WellFormed, UniqueIds, HasLast, ChainRows, Broken, LatestHash, LastHash

(***************************************************************************)
(* Appending to a well-formed log a row built on the hash read from its    *)
(* chain, with an id above those of the chain, leaves it well formed,      *)
(* extends that chain's hash by the new event and moves no other chain.    *)
(***************************************************************************)
THEOREM AppendRow ==
    ASSUME NEW log, WellFormed(log),
           NEW c \in Chains, NEW k \in Nat, NEW e \in AuditPayload,
           \A q \in ChainRows(log, c) : q.id < k
    PROVE  LET r == build_audit_event(k, e, LatestHash(log, c), c)
               new == log \cup {r}
           IN  /\ WellFormed(new)
               /\ LatestHash(new, c) = compute_audit_hash(LatestHash(log, c), e)
               /\ \A d \in Chains \ {c} : LatestHash(new, d) = LatestHash(log, d)
<1> DEFINE r == build_audit_event(k, e, LatestHash(log, c), c)
           new == log \cup {r}
<1>1. r \in AuditRow
  BY RowType, LatestHashType
<1>2. /\ r.id = k /\ r.chain_id = c /\ r.payload = e
      /\ r.prev_hash = LatestHash(log, c)
      /\ r.current_hash = compute_audit_hash(LatestHash(log, c), e)
  BY DEF build_audit_event
<1>3. new \in SUBSET AuditRow /\ log \in SUBSET AuditRow
  BY <1>1 DEF WellFormed
<1>4. \A q \in log : q.chain_id \in Chains /\ q.id \in Nat
  BY <1>3 DEF AuditRow
<1>5. ChainRows(new, c) = ChainRows(log, c) \cup {r}
  BY <1>2 DEF ChainRows
<1>6. \A d \in Chains \ {c} : ChainRows(new, d) = ChainRows(log, d)
  BY <1>2 DEF ChainRows
<1> HIDE DEF r
<1>7. UniqueIds(new)
  <2>1. \A q \in log : q.chain_id = c => q.id < k
    BY DEF ChainRows
  <2> QED
    BY <1>2, <1>4, <2>1 DEF WellFormed, UniqueIds
<1>8. IsLast(ChainRows(new, c), r)
  <2>1. \A q \in ChainRows(log, c) : q.id \in Nat /\ q.id <= k
    BY <1>4 DEF ChainRows
  <2> QED
    BY <1>2, <1>5, <2>1 DEF IsLast
<1>9. HasLast(new)
  <2> SUFFICES ASSUME NEW d \in Chains, ChainRows(new, d) # {}
               PROVE  \E s \in ChainRows(new, d) : IsLast(ChainRows(new, d), s)
    BY DEF HasLast
  <2>1. CASE d = c
    BY <2>1, <1>8, <1>5
  <2>2. CASE d # c
    BY <2>2, <1>6 DEF WellFormed, HasLast
  <2> QED
    BY <2>1, <2>2
<1>10. Earlier(new, r) = ChainRows(log, c)
  BY <1>2 DEF Earlier, ChainRows
<1>11. \A q \in log : Earlier(new, q) = Earlier(log, q)
  <2> SUFFICES ASSUME NEW q \in log, q.chain_id = c
               PROVE  ~(k < q.id)
    BY <1>2 DEF Earlier
  <2>1. q.id < k /\ q.id \in Nat
    BY <1>4 DEF ChainRows
  <2> QED
    BY <2>1
<1>12. Broken(new) = {}
  <2>1. ~PreviousHashMismatch(new, r)
    BY <1>2, <1>10 DEF PreviousHashMismatch, LatestHash
  <2>2. ~CurrentHashMismatch(r)
    BY <1>2 DEF CurrentHashMismatch
  <2>3. \A q \in log : ~PreviousHashMismatch(log, q) /\ ~CurrentHashMismatch(q)
    BY DEF WellFormed, Broken
  <2>4. \A q \in log : ~PreviousHashMismatch(new, q)
    BY <2>3, <1>11 DEF PreviousHashMismatch
  <2> QED
    BY <2>1, <2>2, <2>3, <2>4 DEF Broken
<1>13. LatestHash(new, c) = r.current_hash
  <2>1. r \in ChainRows(new, c) /\ ChainRows(new, c) \in SUBSET AuditRow
    BY <1>3, <1>5 DEF ChainRows
  <2>2. \A q, s \in ChainRows(new, c) : q.id = s.id => q = s
    BY <1>7 DEF ChainRows, UniqueIds
  <2> QED
    BY <2>1, <2>2, <1>8, LastHashIs DEF LatestHash
<1>14. \A d \in Chains \ {c} : LatestHash(new, d) = LatestHash(log, d)
  BY <1>6 DEF LatestHash
<1>15. WellFormed(new)
  BY <1>3, <1>7, <1>9, <1>12 DEF WellFormed
<1> QED
  BY <1>2, <1>13, <1>14, <1>15 DEF r
=============================================================================
