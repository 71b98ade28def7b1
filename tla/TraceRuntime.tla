---------------------------- MODULE TraceRuntime ----------------------------
(***************************************************************************)
(* The end of a trace: os_trace_finish of kernel/src/trace_runtime.c closes*)
(* the ring, drains it into UART frames and sends the footer, and decode   *)
(* of tools/aymos_lab/trace.py accepts or rejects what arrived.            *)
(*                                                                         *)
(* os_trace_finish runs in the idle thread and holds PRIMASK only to close *)
(* and to pop: between any two of its steps, handlers and other tasks run  *)
(* and try to emit.  When the UART reports an error, nothing, a part or all *)
(* of the frame has left, and os_trace_finish gives up.                    *)
(***************************************************************************)
EXTENDS TraceRing

CONSTANT EmitBound          \* bound: calls of the producers

ASSUME EmitBoundAssumption == EmitBound \in Nat

VARIABLES
    step,       \* where os_trace_finish is
    final,      \* os_trace_final_t, once closed
    wire,       \* the frames on the UART
    emits,      \* calls of producers
    offered     \* history: records offered before the ring closed

runtime_vars == <<vars, step, final, wire, emits, offered>>

RecordFrame(record) == [type |-> "RECORD", record |-> record]
FooterFrame(footer) == [type |-> "FOOTER", footer |-> footer]
BrokenFrame == [type |-> "BROKEN"]

RuntimeInit ==
    /\ Init
    /\ step = "open"
    /\ final = Footer(EmptyRing)
    /\ wire = << >>
    /\ emits = 0
    /\ offered = 0

\* A producer, whatever os_trace_finish is doing.  Its report of earlier loss,
\* when one is due, is an attempt too.
Produce(count) ==
    /\ emits < EmitBound
    /\ emits' = emits + 1
    /\ Emit(count)
    /\ offered' = offered
                    + (IF ring.enabled /\ count <= Capacity THEN count ELSE 0)
                    + (IF ReportDue(ring) THEN 1 ELSE 0)
    /\ UNCHANGED <<step, final, wire>>

\* The PRIMASK section that closes the ring.
FinishClose ==
    /\ step = "open"
    /\ Close
    /\ final' = Footer(ring)
    /\ step' = "drain"
    /\ UNCHANGED <<wire, emits, offered>>

\* Mutant: drains until as many records were read as were attempted.
FinishPopAttempted ==
    /\ step = "drain"
    /\ \/ Pop /\ step' = "record"
       \/ /\ Len(read) = final.attempted /\ step' = "footer"
          /\ UNCHANGED <<ring, read>>
    /\ UNCHANGED <<final, wire, emits, offered>>

\* The PRIMASK section that takes a record, or finds none.
FinishPop ==
    /\ step = "drain"
    /\ \/ Pop /\ step' = "record"
       \/ ring.count = 0 /\ step' = "footer" /\ UNCHANGED <<ring, read>>
    /\ UNCHANGED <<final, wire, emits, offered>>

\* send_frame
send_frame(frame, next_step) ==
    \/ wire' = Append(wire, frame) /\ step' = next_step
    \/ /\ wire' \in {wire, Append(wire, BrokenFrame), Append(wire, frame)}
       /\ step' = "failed"

FinishSendRecord ==
    /\ step = "record"
    /\ send_frame(RecordFrame(read[Len(read)]), "drain")
    /\ UNCHANGED <<ring, read, final, emits, offered>>

FinishSendFooter ==
    /\ step = "footer"
    /\ send_frame(FooterFrame(final), "done")
    /\ UNCHANGED <<ring, read, final, emits, offered>>

os_trace_finish ==
    FinishClose \/ FinishPop \/ FinishSendRecord \/ FinishSendFooter

RuntimeNext ==
    (\E count \in Batches : Produce(count))
    \/ os_trace_finish

RuntimeSpec == RuntimeInit /\ [][RuntimeNext]_runtime_vars

\* The idle thread runs again and again.
FairRuntimeSpec == RuntimeSpec /\ WF_runtime_vars(os_trace_finish)

----------------------------------------------------------------------------
\* decode of tools/aymos_lab/trace.py, without the roles and payloads.

\* Mutant: loss is consistent, so accepted.
FooterMatchesWithLoss(footer, records) ==
    /\ footer.flags = 0
    /\ footer.emitted = Len(records)
    /\ footer.attempted = footer.emitted + footer.dropped

FooterMatches(footer, records) ==
    /\ footer.flags = 0
    /\ footer.emitted = Len(records)
    /\ footer.attempted = footer.emitted + footer.dropped
    /\ footer.final_sequence = IF footer.attempted = 0 THEN UINT32_MAX
                               ELSE footer.attempted - 1
    /\ footer.dropped = 0

\* Record frames numbered from 0 on without a gap, one footer, nothing after
\* it, and no report of loss.
Decodes(frames) ==
    /\ frames # << >>
    /\ LET records == SubSeq(frames, 1, Len(frames) - 1)
           last == frames[Len(frames)]
       IN
       /\ \A i \in DOMAIN records :
             /\ records[i].type = "RECORD"
             /\ records[i].record.sequence = i - 1
             /\ records[i].record.event # "OVERFLOW"
       /\ last.type = "FOOTER"
       /\ FooterMatches(last.footer, records)

----------------------------------------------------------------------------

\* What the decoder accepts is the whole history: every record offered before
\* the ring closed, in order; and a run that lost nothing is accepted
\* (docs/TRACE_FORMAT.md, "Ring, closure, and overflow").
AcceptedIsComplete ==
    Decodes(wire) =>
        /\ Len(wire) - 1 = offered
        /\ \A i \in 1 .. offered : wire[i] = RecordFrame(read[i])

CompleteIsAccepted ==
    step = "done" /\ ring.dropped = 0 /\ ~ring.sequence_exhausted =>
        Decodes(wire)

\* However often producers call, os_trace_finish ends.
FinishEnds == step # "open" ~> step \in {"done", "failed"}
=============================================================================
