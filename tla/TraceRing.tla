----------------------------- MODULE TraceRing -----------------------------
(***************************************************************************)
(* The trace ring of kernel/src/trace.c, driven as trace_runtime.c drives  *)
(* it: a producer, os_trace_emit or os_trace_emit_selection, holds PRIMASK *)
(* while it reports earlier loss and pushes its batch; a consumer holds it *)
(* while it pops one record.  So each call is one step.                    *)
(*                                                                         *)
(* A record's tick, tasks and values are its producer's and pass through   *)
(* unread: a record keeps its sequence, its event, the first sequence of   *)
(* its batch (to tell batches apart) and, if it reports loss, the counters *)
(* of the report.  Single events and selection batches differ in size      *)
(* only.                                                                   *)
(***************************************************************************)
EXTENDS Integers, Sequences

CONSTANTS
    Capacity,                       \* records in the static storage
    OS_TRACE_MAX_BATCH_RECORDS,
    UINT32_MAX,
    PopBound                        \* bound: records read before close

ASSUME TraceConstants ==
    /\ Capacity \in Nat \ {0}
    /\ OS_TRACE_MAX_BATCH_RECORDS \in Nat \ {0}
    /\ UINT32_MAX \in Nat \ {0}
    /\ OS_TRACE_MAX_BATCH_RECORDS <= UINT32_MAX
    /\ Capacity <= UINT32_MAX
    /\ PopBound \in Nat

Slots == 0 .. Capacity - 1
Counts == 0 .. UINT32_MAX
Batches == 1 .. OS_TRACE_MAX_BATCH_RECORDS

NoReport == [dropped |-> 0, attempted |-> 0, emitted |-> 0]
Record == [sequence : Counts, event : {"EVENT", "OVERFLOW"}, first : Counts,
           size : Batches, report : [dropped : Counts, attempted : Counts,
                                     emitted : Counts]]
Cleared == [sequence |-> 0, event |-> "EVENT", first |-> 0, size |-> 1,
            report |-> NoReport]    \* storage after memset

----------------------------------------------------------------------------
\* trace.c, as operators on an os_trace_ring_t.

EmptyRing ==    \* os_trace_ring_init
    [records |-> [slot \in Slots |-> Cleared],
     read_index |-> 0, write_index |-> 0, count |-> 0, next_sequence |-> 0,
     attempted |-> 0, emitted |-> 0, dropped |-> 0, reported_dropped |-> 0,
     enabled |-> TRUE, sequence_exhausted |-> FALSE]

\* increment_saturating, count times.
AddSaturating(value, count) ==
    IF value + count <= UINT32_MAX THEN value + count ELSE UINT32_MAX

PushAllowed(ring, count) ==
    ring.enabled /\ count <= Capacity /\ count \in Batches

SequenceRunsOut(ring, count) ==
    \/ ring.sequence_exhausted
    \/ ring.next_sequence > UINT32_MAX - (count - 1)

\* Mutant: one attempt for a whole batch.
NumberedOnce(ring, count) ==
    LET following == (ring.next_sequence + count) % (UINT32_MAX + 1) IN
    [ring EXCEPT
        !.attempted = AddSaturating(@, 1),
        !.next_sequence = following,
        !.sequence_exhausted = @ \/ following = 0]

\* The attempt consumes its sequence numbers whether or not it fits.
Numbered(ring, count) ==
    LET following == (ring.next_sequence + count) % (UINT32_MAX + 1) IN
    [ring EXCEPT
        !.attempted = AddSaturating(@, count),
        !.next_sequence = following,
        !.sequence_exhausted = @ \/ following = 0]

\* Mutant: only a full ring refuses.
FitsUnlessFull(ring, count) == ring.count < Capacity

Fits(ring, count) == count <= Capacity - ring.count

\* Mutant: the sequence comes from the stored records.
WrittenContiguously(ring, event, report, count, slot) ==
    [sequence |-> ring.emitted + ((slot - ring.write_index) % Capacity),
     event |-> event, first |-> ring.next_sequence, size |-> count,
     report |-> report]

\* The record a push writes at slot.
Written(ring, event, report, count, slot) ==
    [sequence |-> ring.next_sequence
                    + ((slot - ring.write_index) % Capacity),
     event |-> event, first |-> ring.next_sequence, size |-> count,
     report |-> report]

Stored(ring, event, report, count) ==
    [Numbered(ring, count) EXCEPT
        !.records = [slot \in Slots |->
            IF (slot - ring.write_index) % Capacity < count
            THEN Written(ring, event, report, count, slot)
            ELSE @[slot]],
        !.write_index = (@ + count) % Capacity,
        !.count = @ + count,
        !.emitted = AddSaturating(@, count)]

push_batch(ring, event, report, count) ==
    CASE ~PushAllowed(ring, count) -> ring
      [] PushAllowed(ring, count) /\ SequenceRunsOut(ring, count) ->
           [ring EXCEPT !.sequence_exhausted = TRUE,
                        !.attempted = AddSaturating(@, count),
                        !.dropped = AddSaturating(@, count)]
      [] OTHER ->
           IF Fits(ring, count) THEN Stored(ring, event, report, count)
           ELSE [Numbered(ring, count) EXCEPT
                    !.dropped = AddSaturating(@, count)]

\* Mutant: what was reported is not remembered.
ReportAgain(ring) ==
    /\ ring.enabled
    /\ ring.count < Capacity
    /\ ~ring.sequence_exhausted
    /\ ring.dropped > 0

ReportDue(ring) ==
    /\ ring.enabled
    /\ ring.count < Capacity
    /\ ~ring.sequence_exhausted
    /\ ring.dropped # ring.reported_dropped

\* With room and numbers left, the push of the report succeeds.
report_overflow(ring) ==
    IF ReportDue(ring)
    THEN LET report == [dropped |-> ring.dropped,
                        attempted |-> ring.attempted,
                        emitted |-> ring.emitted]
         IN [push_batch(ring, "OVERFLOW", report, 1) EXCEPT
               !.reported_dropped = ring.dropped]
    ELSE ring

popped(ring) ==
    [ring EXCEPT !.read_index = (@ + 1) % Capacity, !.count = @ - 1]

\* Mutant: the next number for the last one.
FinalSequenceIsNext(ring) ==
    IF ring.sequence_exhausted THEN UINT32_MAX ELSE ring.next_sequence

FinalSequence(ring) ==
    CASE ring.attempted = 0 -> UINT32_MAX
      [] ring.attempted # 0 /\ ring.sequence_exhausted -> UINT32_MAX
      [] OTHER -> ring.next_sequence - 1

Footer(ring) ==
    [attempted |-> ring.attempted, emitted |-> ring.emitted,
     dropped |-> ring.dropped, final_sequence |-> FinalSequence(ring),
     flags |-> IF ring.sequence_exhausted THEN 1 ELSE 0]

\* The records not read yet, oldest first.
Unread(ring) ==
    [i \in 1 .. ring.count |->
        ring.records[(ring.read_index + i - 1) % Capacity]]

----------------------------------------------------------------------------

VARIABLES
    ring,       \* trace_ring
    read        \* history: every record the consumer has popped

vars == <<ring, read>>

Init == ring = EmptyRing /\ read = << >>

\* os_trace_emit and os_trace_emit_selection.
Emit(count) ==
    /\ ring' = push_batch(report_overflow(ring), "EVENT", NoReport, count)
    /\ UNCHANGED read

Pop ==
    /\ ring.count > 0
    /\ ring.enabled => Len(read) < PopBound
    /\ read' = Append(read, ring.records[ring.read_index])
    /\ ring' = popped(ring)

Close ==
    /\ ring.enabled
    /\ ring' = [ring EXCEPT !.enabled = FALSE]
    /\ UNCHANGED read

Next == (\E count \in Batches : Emit(count)) \/ Pop \/ Close

Spec == Init /\ [][Next]_vars

----------------------------------------------------------------------------
\* What the ring promises.

\* Everything accepted so far, in the order it was accepted.
Accepted == read \o Unread(ring)

\* A selection batch is accepted whole or dropped whole, and a drop leaves a
\* gap in the sequence (docs/TRACE_FORMAT.md, "Selection snapshots").
BatchesWhole ==
    \A i \in DOMAIN Accepted :
        LET first == i - (Accepted[i].sequence - Accepted[i].first) IN
        /\ first >= 1
        /\ first + Accepted[i].size - 1 <= Len(Accepted)
        /\ \A k \in 0 .. Accepted[i].size - 1 :
              /\ Accepted[first + k].sequence = Accepted[i].first + k
              /\ Accepted[first + k].first = Accepted[i].first
        /\ i > 1 => Accepted[i - 1].sequence < Accepted[i].sequence

\* Until the numbers run out every attempt is counted once, as accepted or as
\* dropped, and its numbers are the counters'.
AttemptsAccounted ==
    ~ring.sequence_exhausted =>
        /\ ring.attempted = ring.emitted + ring.dropped
        /\ ring.attempted = ring.next_sequence
        /\ ring.emitted = Len(Accepted)

\* A loss report says exactly what precedes it: as many accepted records as it
\* counts emitted, and as many missing numbers as it counts dropped; the next
\* report tells of more loss.
ReportsExact ==
    \A i \in DOMAIN Accepted :
        LET this == Accepted[i] IN
        this.event = "OVERFLOW" =>
            /\ this.report.emitted = i - 1
            /\ this.report.attempted = this.sequence
            /\ this.report.dropped = this.sequence - (i - 1)
            /\ \A j \in 1 .. i - 1 :
                  Accepted[j].event = "OVERFLOW" =>
                      Accepted[j].report.dropped < this.report.dropped

----------------------------------------------------------------------------
\* The circular buffer implements a bounded log.
Log == INSTANCE TraceLog WITH
           waiting <- Unread(ring),
           taken <- read,
           number <- IF ring.sequence_exhausted THEN UINT32_MAX + 1
                     ELSE ring.next_sequence,
           lost <- ring.dropped,
           reported <- ring.reported_dropped,
           open <- ring.enabled

ImplementsLog == Log!Spec
=============================================================================
