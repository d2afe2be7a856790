--------------------------- MODULE ChainCheckpoint ---------------------------
(***************************************************************************)
(* Segment checkpoints of the audit chain (core/chain_checkpoint.py), over *)
(* the rows the evidence service has committed.  A checkpoint is taken of  *)
(* the complete segments the chain has at some moment and used to verify   *)
(* the longer chain of a later moment.                                     *)
(***************************************************************************)
EXTENDS EvidenceService
LOCAL INSTANCE SequencesExt

CONSTANT CHECKPOINT_INTERVAL    \* rows per segment, 1000 in the code

ASSUME CheckpointAssumption == CHECKPOINT_INTERVAL \in Nat \ {0}

\* The records of a chain, as the callers pass them: in id order.
RecordsOf(log, c) == SetToSortSeq(ChainRows(log, c), LAMBDA r, q : r.id < q.id)

compute_checkpoint_hash(chain_id, segment_index, last_record_id, last_current_hash) ==
    <<chain_id, segment_index, last_record_id, last_current_hash>>

Segment(records, seg) ==
    SubSeq(records, seg * CHECKPOINT_INTERVAL + 1, (seg + 1) * CHECKPOINT_INTERVAL)

CompleteSegments(records) == 0 .. (Len(records) \div CHECKPOINT_INTERVAL) - 1

build_checkpoints_for_chain(c, records) ==
    [seg \in CompleteSegments(records) |->
        LET last == Last(Segment(records, seg))
        IN  [last_record_id |-> last.id, last_current_hash |-> last.current_hash,
             checkpoint_hash |-> compute_checkpoint_hash(c, seg, last.id, last.current_hash)]]

\* verify_segment's loop: the rows of a segment that do not link to the row
\* before (to `before' for the first) or whose own hash is wrong.
BrokenIn(records, before) ==
    {i \in 1 .. Len(records) :
        \/ records[i].prev_hash # (IF i = 1 THEN before ELSE records[i - 1].current_hash)
        \/ CurrentHashMismatch(records[i])}

First(S) == CHOOSE i \in S : \A j \in S : i <= j

verify_segment(c, seg, records, before, checkpoints) ==
    LET broken == BrokenIn(records, before)
        last == Last(records)
    IN  IF broken # {}
        THEN [status |-> "INVALID", checked_rows |-> First(broken) - 1,
              broken_record_id |-> records[First(broken)].id]
        ELSE IF /\ seg \in DOMAIN checkpoints
                /\ compute_checkpoint_hash(c, seg, last.id, last.current_hash)
                       # checkpoints[seg].checkpoint_hash
        THEN [status |-> "INVALID", checked_rows |-> Len(records), broken_record_id |-> last.id]
        ELSE [status |-> "VALID", checked_rows |-> Len(records)]

\* Mutation: a stored checkpoint is taken as it is.
SkippedUnchecked(c, records, checkpoints) == CompleteSegments(records) \cap DOMAIN checkpoints

\* A complete segment is skipped when its stored checkpoint agrees with itself.
Skipped(c, records, checkpoints) ==
    {seg \in CompleteSegments(records) \cap DOMAIN checkpoints :
        checkpoints[seg].checkpoint_hash =
            compute_checkpoint_hash(c, seg, checkpoints[seg].last_record_id,
                                    checkpoints[seg].last_current_hash)}

\* prev_hash when the loop reaches a segment: the stored hash after a skipped
\* segment, the hash of the row before after a verified one.
PrevHashAt(c, records, checkpoints, seg) ==
    IF seg = 0 THEN ZERO_HASH
    ELSE IF seg - 1 \in Skipped(c, records, checkpoints)
         THEN checkpoints[seg - 1].last_current_hash
         ELSE records[seg * CHECKPOINT_INTERVAL].current_hash

\* The complete segments in order, then the tail; the first that is neither
\* skipped nor valid ends the verification.
verify_chain_with_checkpoints(c, records, checkpoints) ==
    LET tail == Len(records) \div CHECKPOINT_INTERVAL
        rows(seg) == IF seg = tail THEN SubSeq(records, tail * CHECKPOINT_INTERVAL + 1,
                                               Len(records))
                                   ELSE Segment(records, seg)
        result(seg) == verify_segment(c, seg, rows(seg),
                                      PrevHashAt(c, records, checkpoints, seg),
                                      IF seg = tail THEN << >> ELSE checkpoints)
        invalid == {seg \in 0 .. tail \ Skipped(c, records, checkpoints) :
                       rows(seg) # << >> /\ result(seg).status # "VALID"}
    IN  IF invalid = {}
        THEN [status |-> "VALID", checked_rows |-> Len(records)]
        ELSE [result(First(invalid)) EXCEPT
                 !.checked_rows = First(invalid) * CHECKPOINT_INTERVAL + @]

-----------------------------------------------------------------------------
(* Damage to a stored checkpoint, to state what each kind of it leads to.   *)

\* A field of the checkpoint no longer what it was, the checkpoint_hash kept.
AlteredFields(cp) == {[cp EXCEPT !.last_current_hash = Append(@, [event_type |-> "damaged"])],
                      [cp EXCEPT !.last_record_id = @ + 1]}

\* The checkpoint_hash itself no longer what it was.
AlteredHash(cp) == [cp EXCEPT !.checkpoint_hash = Append(@, "damaged")]

\* An altered field and a checkpoint_hash that belongs to it.
Rehashed(c, seg, cp) ==
    [cp EXCEPT !.checkpoint_hash =
        compute_checkpoint_hash(c, seg, cp.last_record_id, cp.last_current_hash)]

\* What the verification of an intact chain reports when the checkpoint of
\* segment seg is one that agrees with itself but not with the rows: the
\* segment is skipped, and its altered hash is compared with one row only, the
\* next, unless that row's segment is skipped as well.
VerdictOfForged(records, taken, seg, cp) ==
    LET next == (seg + 1) * CHECKPOINT_INTERVAL + 1
    IN  IF /\ cp.last_current_hash # taken[seg].last_current_hash
           /\ next <= Len(records)
           /\ seg + 1 \notin DOMAIN taken
        THEN [status |-> "INVALID", checked_rows |-> next - 1,
              broken_record_id |-> records[next].id]
        ELSE [status |-> "VALID", checked_rows |-> Len(records)]

\* On an intact chain, with the checkpoints taken of its first rows and at most
\* one of them damaged.
IntactVerdicts(c, records, taken) ==
    LET verdict_with(checkpoints) == verify_chain_with_checkpoints(c, records, checkpoints)
        full == verify_audit_chain(Range(records))
    IN  /\ verdict_with(taken) = full
        /\ \A seg \in DOMAIN taken :
              LET last == Last(Segment(records, seg))
              IN  /\ verdict_with([taken EXCEPT ![seg] = AlteredHash(@)]) =
                        [status |-> "INVALID", checked_rows |-> (seg + 1) * CHECKPOINT_INTERVAL,
                         broken_record_id |-> last.id]
                  /\ \A cp \in AlteredFields(taken[seg]) :
                        /\ verdict_with([taken EXCEPT ![seg] = cp]) = full
                        /\ verdict_with([taken EXCEPT ![seg] = Rehashed(c, seg, cp)])
                               = VerdictOfForged(records, taken, seg, cp)

\* With row j damaged: reported as by the full walk, unless the checkpoint of
\* its segment is there and agrees with itself.
DamagedVerdicts(c, records, taken) ==
    \A j \in 1 .. Len(records) : \A r \in DamagedRows(records[j]) :
        LET altered == [records EXCEPT ![j] = r]
            full == verify_audit_chain(Range(altered))
            own == (j - 1) \div CHECKPOINT_INTERVAL
        IN  IF own \in DOMAIN taken
            THEN /\ verify_chain_with_checkpoints(c, altered, taken)
                        = [status |-> "VALID", checked_rows |-> Len(records)]
                 /\ \A cp \in AlteredFields(taken[own]) \cup {AlteredHash(taken[own])} :
                        verify_chain_with_checkpoints(c, altered, [taken EXCEPT ![own] = cp])
                            = full
            ELSE verify_chain_with_checkpoints(c, altered, taken) = full

CheckpointsAgreeOn(log) ==
    \A c \in Chains :
        LET records == RecordsOf(log, c)
        IN  \A k \in 0 .. Len(records) :
              LET taken == build_checkpoints_for_chain(c, SubSeq(records, 1, k))
              IN  IntactVerdicts(c, records, taken) /\ DamagedVerdicts(c, records, taken)

\* Whatever the service commits, whenever the checkpoints were taken, and with
\* one checkpoint or one row damaged, how far verify_chain_with_checkpoints and
\* verify_audit_chain report the same row and count.  They do on an intact
\* chain with sound checkpoints, and when a field of a checkpoint is altered
\* under its old hash: the segment is then walked.  They do on a damaged row
\* unless a checkpoint that agrees with itself covers it; then the row is not
\* looked at.  They differ on an intact chain in two cases.  A checkpoint whose
\* hash is altered makes the chain INVALID at the end of its segment.  A
\* checkpoint whose last_current_hash was altered and hashed again makes it
\* INVALID at the first row after, which is sound, or, where the next segment
\* is skipped too or no row follows, is not noticed.
CheckpointsAgree == [][audit_log' # audit_log => CheckpointsAgreeOn(audit_log')]_vars
=============================================================================
