------------------------------ MODULE TraceLog ------------------------------
(***************************************************************************)
(* What the trace ring promises to its producers and its reader: a bounded *)
(* first-in first-out log of numbered records.  An attempt takes the next  *)
(* numbers; its records are appended together or not at all; the loss is   *)
(* told in a record of its own as soon as there is room for one.           *)
(***************************************************************************)
EXTENDS Integers, Sequences

CONSTANTS Capacity, OS_TRACE_MAX_BATCH_RECORDS, UINT32_MAX

VARIABLES
    waiting,    \* accepted records that have not been read
    taken,      \* records read
    number,     \* the next sequence number, UINT32_MAX + 1 once they are out
    lost,       \* records dropped, up to UINT32_MAX
    reported,   \* the loss told so far
    open

vars == <<waiting, taken, number, lost, reported, open>>

Init ==
    /\ waiting = << >> /\ taken = << >>
    /\ number = 0 /\ lost = 0 /\ reported = 0
    /\ open = TRUE

NumbersLeft(first, count) == first <= UINT32_MAX - (count - 1)

\* Records numbered from first on, the batch of count.
Numbered(records, first, count, event) ==
    /\ Len(records) = count
    /\ \A k \in 1 .. count : /\ records[k].sequence = first + k - 1
                             /\ records[k].first = first
                             /\ records[k].event = event

\* The batch of count that comes when log waits and first is the next number:
\* it is appended, or lost although its numbers are spent.  One larger than the
\* whole log is refused and costs nothing.
Offered(log, first, count, lost_before) ==
    /\ count <= Capacity
    /\ number' = IF NumbersLeft(first, count) THEN first + count
                 ELSE UINT32_MAX + 1
    /\ IF NumbersLeft(first, count) /\ Len(log) + count <= Capacity
       THEN LET batch == SubSeq(waiting', Len(log) + 1, Len(waiting')) IN
            /\ Numbered(batch, first, count, "EVENT")
            /\ waiting' = log \o batch
            /\ lost' = lost_before
       ELSE /\ waiting' = log
            /\ lost' = IF lost_before + count <= UINT32_MAX
                       THEN lost_before + count
                       ELSE UINT32_MAX

Refused(log, first, count, lost_before) ==
    /\ count > Capacity
    /\ waiting' = log /\ number' = first /\ lost' = lost_before

ToReport == lost # reported /\ Len(waiting) < Capacity
              /\ NumbersLeft(number, 1)

\* An attempt, with the report of earlier loss before it when one is due.
Attempt(count) ==
    /\ open
    /\ IF ToReport
       THEN LET told == SubSeq(waiting', 1, Len(waiting) + 1) IN
            /\ Len(waiting') > Len(waiting)
            /\ told = Append(waiting, told[Len(told)])
            /\ Numbered(<<told[Len(told)]>>, number, 1, "OVERFLOW")
            /\ told[Len(told)].report.dropped = lost
            /\ reported' = lost
            /\ \/ Offered(told, number + 1, count, lost)
               \/ Refused(told, number + 1, count, lost)
       ELSE /\ \/ Offered(waiting, number, count, lost)
               \/ Refused(waiting, number, count, lost)
            /\ UNCHANGED reported
    /\ UNCHANGED <<taken, open>>

Take ==
    /\ waiting # << >>
    /\ taken' = Append(taken, Head(waiting))
    /\ waiting' = Tail(waiting)
    /\ UNCHANGED <<number, lost, reported, open>>

CloseLog ==
    /\ open /\ open' = FALSE
    /\ UNCHANGED <<waiting, taken, number, lost, reported>>

Next == \/ \E count \in 1 .. OS_TRACE_MAX_BATCH_RECORDS : Attempt(count)
        \/ Take \/ CloseLog

Spec == Init /\ [][Next]_vars
=============================================================================
