----------------------------- MODULE SignalLab -----------------------------
(***************************************************************************)
(* apps/signal_lab/main.c: a sampler, a processor and a verifier share one *)
(* buffer of samples and one of outputs without a lock.  Their releases,   *)
(* one tick apart, order them, and each checks the generation counters of  *)
(* the others before it touches a buffer.                                  *)
(*                                                                         *)
(* The contents of samples stand for themselves: the number of the frame,  *)
(* or 0 while they change.  A checksum is the one expected when it was     *)
(* taken of its own frame.                                                 *)
(***************************************************************************)
EXTENDS Lab

TASK_SAMPLER == 1
TASK_PROCESSOR == 2
TASK_VERIFIER == 3
Roles == TASK_SAMPLER .. TASK_VERIFIER
FRAME_COUNT == 4

VARIABLES
    frame,              \* each task's loop counter
    generation,         \* sampled_, processed_ and verified_generation
    samples,
    frame_input_crc,    \* the contents each checksum was taken of
    frame_output_crc

signal_vars == <<frame, generation, samples, frame_input_crc,
                 frame_output_crc>>

SignalInit ==
    /\ frame = [role \in Roles |-> 0]
    /\ generation = [role \in Roles |-> 0]
    /\ samples = 0
    /\ frame_input_crc = [f \in 1 .. FRAME_COUNT |-> 0]
    /\ frame_output_crc = [f \in 1 .. FRAME_COUNT |-> 0]

\* The tasks before this one have passed the frame, the others have not.
InTurn(id) ==
    \A role \in Roles :
        generation[role] = frame[id] + (IF role < id THEN 1 ELSE 0)

ChecksumsExpected(f) == frame_input_crc[f] = f /\ frame_output_crc[f] = f

\* Mutant: the generation is stored before the frame is complete.
BeginsPublished(id) ==
    /\ Executes(id, "job")
    /\ Requires(id, InTurn(id), "GENERATION", "work")
    /\ generation' = [generation EXCEPT ![id] = frame[id] + 1]
    /\ UNCHANGED <<kernel_state, application, late, systick_pending, asleep,
                   info, finished, trace_flushed, frame, samples,
                   frame_input_crc, frame_output_crc>>

\* The start of a pass of the task's loop: its checks, and the first access to
\* the buffers.
BeginsFrame(id) ==
    /\ Executes(id, "job")
    /\ Requires(id,
                InTurn(id)
                  /\ (id = TASK_VERIFIER => ChecksumsExpected(frame[id] + 1)),
                "GENERATION", "work")
    /\ samples' = IF id = TASK_SAMPLER /\ InTurn(id) THEN 0 ELSE samples
    /\ UNCHANGED <<kernel_state, application, late, systick_pending, asleep,
                   info, finished, trace_flushed, frame, generation,
                   frame_input_crc, frame_output_crc>>

\* The last access, and the task's generation.
PublishesFrame(id) ==
    LET f == frame[id] + 1 IN
    /\ Executes(id, "work")
    /\ generation' = [generation EXCEPT ![id] = f]
    /\ samples' = IF id = TASK_SAMPLER THEN f ELSE samples
    /\ frame_input_crc' = IF id = TASK_SAMPLER
                          THEN [frame_input_crc EXCEPT ![f] = f]
                          ELSE frame_input_crc
    /\ frame_output_crc' = IF id = TASK_PROCESSOR
                           THEN [frame_output_crc EXCEPT ![f] = samples]
                           ELSE frame_output_crc
    /\ Goes(id, "mask")
    /\ UNCHANGED <<vars, application, late, systick_pending, asleep, info,
                   finished, trace_flushed, frame>>

----------------------------------------------------------------------------
\* wait_for_one_execution_tick: sample and WFI under PRIMASK.

\* Mutant: interrupts stay on.
SamplesUnmasked(id) ==
    /\ Executes(id, "mask")
    /\ Goes(id, "sample")
    /\ UNCHANGED <<vars, application, late, systick_pending, asleep, info,
                   finished, trace_flushed, signal_vars>>

MasksInterrupts(id) ==
    /\ Executes(id, "mask")
    /\ DisableInterrupts
    /\ Goes(id, "sample")
    /\ UNCHANGED <<application, late, systick_pending, asleep, info,
                   finished, trace_flushed, signal_vars>>

SamplesInfo(id) ==
    LET now == os_task_info(id) IN
    /\ Executes(id, "sample")
    /\ info' = [info EXCEPT ![id] = now]
    /\ Requires(id, now.job_active /\ now.state = "RUNNING", "EXECUTION_INFO",
                IF now.job_execution_ticks = 0 THEN "wfi" ELSE "unmask")
    /\ UNCHANGED <<kernel_state, application, late, systick_pending, asleep,
                   finished, trace_flushed, signal_vars>>

\* WFI does not wait when an exception is pending.
WaitsForInterrupt(id) ==
    /\ Executes(id, "wfi")
    /\ asleep' = ~(systick_pending \/ pendsv_pending)
    /\ Goes(id, "unmask")
    /\ UNCHANGED <<vars, application, late, systick_pending, info, finished,
                   trace_flushed, signal_vars>>

RestoresInterrupts(id) ==
    /\ Executes(id, "unmask")
    /\ EnableInterrupts
    /\ Goes(id, IF info[id].job_execution_ticks = 0 THEN "mask" ELSE "charged")
    /\ UNCHANGED <<application, late, systick_pending, asleep, info,
                   finished, trace_flushed, signal_vars>>

----------------------------------------------------------------------------

\* The end of a pass: the checks of the wait, and the loop's exit after the
\* last frame, which the verifier takes with the checksums of all frames.
EndsFrame(id) ==
    LET last == frame[id] + 1 = FRAME_COUNT
        charged == /\ info[id].job_execution_ticks = 1
                   /\ info[id].deadline_miss_count = 0
        verified == last /\ id = TASK_VERIFIER =>
                        \A f \in 1 .. FRAME_COUNT : ChecksumsExpected(f)
    IN
    /\ Executes(id, "charged")
    /\ Requires(id, charged /\ verified, "EXECUTION_TICK",
                IF last THEN "return" ELSE "period")
    /\ finished' = IF charged /\ verified /\ last THEN finished \cup {id}
                   ELSE finished
    /\ frame' = [frame EXCEPT ![id] = IF last THEN @ ELSE @ + 1]
    /\ UNCHANGED <<kernel_state, application, late, systick_pending, asleep,
                   info, trace_flushed, generation, samples, frame_input_crc,
                   frame_output_crc>>

SignalHook ==
    /\ IdleHook(AllFinished,
                /\ Completed(TASK_VERIFIER)
                /\ \A role \in Roles : generation[role] = FRAME_COUNT
                /\ \A f \in 1 .. FRAME_COUNT : ChecksumsExpected(f))
    /\ UNCHANGED signal_vars

SignalStep ==
    \/ \E id \in Roles :
          \/ BeginsFrame(id) \/ PublishesFrame(id)
          \/ MasksInterrupts(id) \/ SamplesInfo(id) \/ WaitsForInterrupt(id)
          \/ RestoresInterrupts(id) \/ EndsFrame(id)
    \/ SignalHook

----------------------------------------------------------------------------

\* A task that waits for its tick in WFI has not been charged since it looked:
\* the tick it waits for is still to come, so no wake-up is lost
\* (wait_for_one_execution_tick).
NoTickSleptThrough ==
    application = "signal_lab" /\ asleep /\ current_task \in Roles =>
        info[current_task].job_execution_ticks
          = schedules[current_task].job_execution_ticks

\* Without a lock, whatever the timing, the tasks hand the buffers over frame
\* by frame: nobody fills, filters or verifies while another does, and the
\* sampler does not start a frame before the last one is verified.
Buffers == INSTANCE Pipeline WITH
    Stages <- 3,
    Frames <- FRAME_COUNT,
    passed <- generation[1] + generation[2] + generation[3],
    busy <- IF application = "signal_lab"
            THEN {role \in Roles : at[role] = "work"}
            ELSE {}

ImplementsPipeline == Buffers!Spec
=============================================================================
