# AymOS: a verification development

TLA+ models of AymOS, a preemptive real-time kernel for the STM32F401 with
earliest-deadline-first scheduling, a next-fit heap and a binary trace, with the
TLC configurations that check them and the theorems TLAPS proves about them.
All source paths are relative to the repository.

## 1. Inventory

### Scheduling policy: `kernel/src/scheduler.c`
- *State.* One `os_sched_task_t` per slot: kind, state, current job, release,
  wake and deadline times as 64-bit orders, 32-bit counters.
- *Operations.* Configure, release, sleep, wake, complete, wait for the next
  period, record a missed release or deadline, account a tick, compare, select.
  All are pure on the record they are given; the kernel calls them under PRIMASK
  or in a handler that nothing relevant interrupts.
- *Hard.* Absolute times near the end of 64 bits, saturating counters, releases
  that fall while the previous job still runs, one latch for a deadline that is
  looked at from two places.
- *Correct when* jobs and misses are conserved, releases keep their phase, a miss
  is latched when the deadline comes, and the selection is the EDF choice.

### Kernel: `kernel/src/kernel.c`
- *State.* `running`, `current_task`, the task table, `monotonic_ticks`, the
  pending switch cause and preemption sources, the yield exclusion, the reclaim
  counters.
- *Operations.* Create, start, yield, sleep, wait for the period, exit, allocate
  and free; `os_kernel_tick` (SysTick); `os_svc_dispatch` (SVC);
  `os_pendsv_switch` (PendSV).
- *Interaction.* SVC and SysTick only change the table and set PendSV pending;
  PendSV parks the outgoing task, reclaims an exiting one (stack, slot and heap)
  and selects the next. Priorities are SVC over SysTick over PendSV.
- *Hard.* SysTick between a system call and its PendSV and inside both windows of
  PendSV; coalesced preemption requests; a yield exclusion that outlives the call
  that set it; slots that are reclaimed and refilled.
- *Correct when* no `os_kernel_panic` is reachable except at the end of time,
  every request ends in its switch, and while a task executes no ready task
  precedes it.

### Context switch: `arch/arm_cm4/context_switch.S`, `bsp/.../kernel_interrupts.c`
- *State.* The active context flag, PSP, PRIMASK, the PendSV pending bit.
- *Hard.* The two instructions before `cpsid i` and those after PRIMASK is
  restored.

### Heap: `kernel/src/allocator.c`
- *State.* A doubly linked chain of block headers in address order, `next_fit`,
  byte counts.
- *Operations.* Allocate, free, release by owner; each validates the whole chain
  first and runs under PRIMASK (`kernel.c`).
- *Hard.* Merges that remove the header `next_fit` names; remainders that are too
  small; frees in the middle of a walk.
- *Correct when* the chain stays valid, regions are disjoint and owned, and no
  call touches another owner's block.

### Trace: `kernel/src/trace.c`, `kernel/src/trace_runtime.c`, `tools/aymos_lab/trace.py`
- *State.* A ring of records with its indices and counters; a close flag; the
  UART; the decoder's view of what arrived.
- *Operations.* Emit an event or a selection batch, report overflow, pop, close,
  drain to the UART with a footer; decode.
- *Hard.* A batch meets a nearly full ring; loss must be reported once and
  exactly; sequence numbers run out; handlers emit while the ring is drained; the
  UART breaks off.
- *Correct when* a batch is whole or absent, losses are accounted for exactly,
  and the decoder accepts exactly the complete histories.

### Filters: `dsp/`
- *State.* None of their own: the arrays of samples, coefficients and outputs.
- *Operations.* Validate the arguments, then compute one output after another: a
  scalar loop, a portable loop over packed pairs and one with Arm DSP
  instructions.
- *Hard.* Sizes and addresses at the end of their range, arrays that overlap,
  packed signs, an odd tap, rounding of negative sums, saturation.
- *Correct when* only calls that stay inside their arrays are accepted and all
  three loops store the same filter of the inputs they were called with.

### Applications: `apps/`
- *State.* Flags and generation counters that tasks share without a lock, a
  buffer each for samples and outputs (`signal_lab`), per-task job counts
  (`deadline_lab`), and what `os_task_info` returned last.
- *Operations.* `main` creates the tasks; each task computes, waits for its tick,
  yields, sleeps, creates, allocates, waits for its period or exits; the idle
  hook looks whether all are finished, and ends the trace.
- *Interaction.* Only with the kernel, and with each other through flags.
- *Hard.* They assert exact ticks, orders and reclaim counts, so each of them
  relies on where ticks fall; buffers are handed over by release times alone; a
  tick between a look and `WFI`.
- *Correct when* their requirements hold on every run that keeps the time
  budgets, one task at a time is in the shared buffers, and every run ends.

### Others
Board support (`bsp/`), host laboratories (`tools/aymos_lab`), build and
emulation scripts, vendor start-up code. Section 7 says what of them is not
modelled and why.

## 2. Modules

| Module | Models | Uses |
|---|---|---|
| `Scheduler` | the operations of `scheduler.c` on one record, the EDF order and the choice `os_sched_select` makes | |
| `SchedulerSelect` | the scan of `os_sched_select`, one task a step | `Scheduler` |
| `Kernel` | `kernel.c` and `context_switch.S`: the task table and the exceptions | `Scheduler` |
| `KernelProperties` | what the kernel promises | `Kernel`, `TaskLifecycle` |
| `TaskLifecycle` | abstract life of a task: what a slot and its resources go through; `Kernel` implements it | |
| `KernelInvariant` | the inductive invariant behind it | `KernelProperties` |
| `Memory` | abstract heap: disjoint regions with owners | |
| `Allocator` | `allocator.c`, header by header; implements `Memory` | `Memory` |
| `TraceLog` | abstract trace: a bounded log of numbered records | |
| `TraceRing` | `trace.c`; implements `TraceLog` | `TraceLog` |
| `TraceRuntime` | `os_trace_finish` against producers, the UART and the decoder; extends the ring | `TraceRing` |
| `KernelTrace` | the records `kernel.c` emits and the selection batches of `trace_runtime.c`, the checks of `trace.py` on them, the summary of `deadline_lab.py` | `Kernel` |
| `FirQ15` | `dsp/`: a call of one of the three filters on a memory | |
| `Lab` | what the applications share: task sets, timer, exceptions, `WFI`, idle loop | `Kernel` |
| `Pipeline` | abstract hand-over of frames through stages | |
| `SignalLab` | `apps/signal_lab`; implements `Pipeline` | `Lab`, `Pipeline` |
| `DeadlineLab` | `apps/deadline_lab`, both builds | `Lab` |
| `TraceLab` | `apps/trace` | `Lab` |
| `Scenarios` | `apps/edf`, `apps/lifecycle`, `apps/allocator` | `Lab` |
| `Labs` | the applications on the kernel, one of them built | `SignalLab`, `DeadlineLab`, `TraceLab`, `Scenarios` |
| `SchedulerProofs`, `SelectProofs` | proofs about the policy's operations and the scan | `Scheduler`, `SchedulerSelect` |
| `KernelProofs` | proofs about the kernel: types and structure; time; urgency, phase and the refinement | `KernelInvariant` |
| `AllocatorProofs` | proofs about the heap's chain and its refinement | `Allocator` |
| `TraceProofs` | proofs about the ring and its refinement, and about the end of a trace | `TraceRuntime` |
| `KernelTraceProofs` | proofs about what the decoder accepts and a reader of the trace knows, and about the ticks charged | `KernelTrace`, `KernelProofs` |
| `FirProofs` | proofs about the filters' validation, arithmetic and outputs | `FirQ15` |
| `LabProofs` | proofs about the signal laboratory | `Labs` |
| `MCKernel`, `MCKernelTrace`, `MCSchedulerSelect`, `MCFirQ15` | instances for TLC | |

Definitions keep the names of the functions, fields and constants they stand
for. Operators marked `Mutant:` in a comment are faulty variants of the
definition that follows; no specification uses them. They record what each
property is able to detect.

### The kernel's steps
There is one CPU; the variable `cpu` says what it executes.

| Action | Code |
|---|---|
| `os_task_create(config)` | the whole call, under PRIMASK, before or after the start |
| `os_kernel_start`, `SvcStart` | setting `running` (SysTick counts from here), then `svc #0` |
| `SvcYield`, `SvcSleep`, `SvcExit`, `SvcWaitNextPeriod` | one run of `os_svc_dispatch`, atomic because SVC has the highest priority |
| `DisableInterrupts`, `EnableInterrupts` | a task's own critical section |
| `os_memory_alloc`, `os_memory_free` | successful calls, as counts of owned blocks; failing ones change nothing here |
| `SysTick` | one `os_kernel_tick`, possible wherever PRIMASK is clear, so inside PendSV's windows too |
| `PendsvEnter` | exception entry, which clears the pending bit, up to `cpsid i` |
| `os_pendsv_switch` | the part of PendSV under `cpsid i` |
| `PendsvReturn` | from the restored PRIMASK to `bx lr` |
| `Halted` | a panicked kernel |

`os_kernel_panic` never returns. The model collects the names of failed checks in
`panics` and enables nothing but `Halted` afterwards, so *no check fails* is an
invariant. `last_switch` keeps the last CONTEXT_SWITCH event of the trace.

In the model of the kernel, `owned[id]` counts blocks; in `Allocator`, a region of
`Memory` with that owner is one of them. Reclaim sets the count to zero, which is
what `Memory`'s `Reclaim` does to the owner's regions.

`TaskLifecycle` forgets time and priorities: a slot is FREE, BLOCKED, READY or
LEAVING, its task acts only while it has the processor and is READY, and the slot
and all it holds become free at the switch that leaves it, not before. A sleep, a
wait and an exit map to `Leave`, a tick to `Wake`, the locked part of PendSV to
`Switch`; the remaining steps map to stutters.

### The trace's steps
Every access to the ring is under PRIMASK, so an emission (with the report of
earlier loss before it), a pop and the close are one step each. Between the
steps of `os_trace_finish` the producers go on. A UART error lets nothing, a part
or all of a frame through and ends the drain. `Decodes` is the decoder's
acceptance of the frames.

### The kernel and its trace
`KernelTrace` conjoins each action of `Kernel` with the records the code emits in
it (`emitted`, in the code's order) and lets a reader fold over them: `summary` is
what `running_intervals` and `build_summary` of `deadline_lab.py` compute, `told`
the state of each task as the documented meaning of the events gives it. A
selection and its candidates are one record whose value is a record of sets.
`Decodes` is the part of `trace.py` that a value of the kernel could fail; field
widths, markers that repeat other fields and reserved bits are left out. The
calls of the allocator that fail, and the free of a null pointer, change nothing
in `Kernel` and are actions here because they are traced. An allocation may fail
for any size, zero bytes included: only the bytes asked for, the pointer and the
success are recorded.

### The heap's steps
Each call runs under PRIMASK, so no other call begins before it returns. An
allocation is one step. A free and a release by owner are a step and then a step
for each turn of their loops: `pc` says which loop runs, `block` is the code's
variable of that name, and a call is over when `pc` is `ready` again. So what the
code validates at the start of a call is checked between any two turns as well.
Calls that fail change only counters that nothing reads back, so they are
stutters; a release that finds no block of the owner's is one too.

| Action | Code |
|---|---|
| `os_allocator_alloc` | the whole call: search, cut, hand over |
| `os_allocator_free` | up to `set_free`; `coalesce_all` follows |
| `os_allocator_release_owner`, `ReleaseTurn` | up to the loop over the blocks; a turn of it |
| `Merges`, `GoesOn`, `Returns` | a turn of `coalesce_all` that merges, one that does not, and its end with that of the call |

`Memory` remembers for whom the last call was made, and lets it touch regions of
this owner only. A release maps to `Reclaim` where it begins: from then on its
blocks count as reclaimed (`Live`), and the turns are stutters.

### The filters' steps
A call is one validation and then one step for each output it stores, read from
the memory as it then is: what an overlap would change is changed. Packing and
the M4's 64-bit accumulator are arithmetic modulo their width; `__SMLALD` and
`__SSAT` are modelled by the instructions they stand for.

### The applications' steps
`Kernel` lets tasks make any call at any time. `Lab` gives every task a place in
its code (`at`), and only its next call is made. SysTick becomes pending when the
timer elapses (`TimerElapses`), is taken once PRIMASK is clear, and ends a `WFI`
even under PRIMASK; a thread makes no step while a tick can be taken. `IdleHook`
and `IdleWaits` are the two halves of `idle_entry`: a traced build comes back to
the hook after each `WFI`, another build calls it once. A requirement that fails
adds its name to `panics` and ends the run, as `board_kernel_panic` does.

The applications assert exact tick counts, so they cannot hold for every timing:
a job has an `execution_budget_ticks`, and its code must be complete before a
tick beyond it. `TickExpected` says this of a tick; `late` counts the ticks that
come otherwise. `RequirementsHold` speaks of the runs with none of them; the
other properties of the run hold with up to `LateBound` of them as well. So the
run does not tell which late tick makes a requirement fail, the one between the
last unit of work in `deadline_lab` and the look that judges it (`main.c:179-183`)
included; `LabsEnd` counts an application that ends by a failed requirement as ended.
The contents of samples are the number of their frame, of work whether it was
done; in `Scenarios` allocations are counted as in `Kernel`.

## 3. What TLC checks

Every property comes with a faulty variant of a definition for which the same
run finds a violation.

| Run | Instance | Shows | Distinct states |
|---|---|---|---|
| `mixed` | 2 slots, a short period, a delayed period, a one-shot; 4 ticks | `SwitchPromised`, `NothingOverdue`, `JobsConserved`, `MissLatchedInTime`, `TicksChargedOnce`, `ReleasesKeepPhase` | 2.1 million |
| `urgency` | 3 slots, equal deadlines and a late urgent release; 2 ticks | `EdfWhileExecuting`, `PreemptionJustified`, `YieldHonoured` | 0.6 million |
| `edge` | 2 slots that are reused, 2 heap blocks, 64-bit limit 5, 32-bit limit 2, ticks up to the limit, rejected configurations | `TypeOK`, `KernelInv`, `SlotsConsistent`, `OnlyTimeRangePanics`, `TimePanicsNearTheEnd`, `ImplementsLifecycle` | 0.9 million |
| `live` | 2 competing tasks; 2 ticks | `ExitsAreReclaimed`, `SleepersWake`, `RequestsAreServed` | 40 thousand |
| `select` | every table of 3 tasks with small fields, every exclusion | `BestSoFar`, `ScanIsSelect` | |
| `ring` | ring of 3, batches of up to 4, numbers up to 8 | `BatchesWhole`, `AttemptsAccounted`, `ReportsExact`, `ImplementsLog` | 39 thousand |
| `finish` | ring of 3, batches of up to 2, 6 calls of producers | `AcceptedIsComplete`, `CompleteIsAccepted`, `FinishEnds` | 2.9 thousand |
| `heap` | 2 owners, 22 bytes, 2-byte headers, 4 sizes | `AlwaysValid`, `FullyCoalesced`, `ImplementsMemory` | 242 thousand |
| `story` | 2 slots, a short period and a delayed one-shot, 1 heap block; 2 ticks | `TraceTellsState`, `JobsTold`, `IntervalsCoverCharges`, `RecordsDecode` | 0.5 million |
| `fir` | lanes of 3 bits, 5-bit addresses, 3 taps; every filter of 3 samples with extreme lanes, every layout | `AcceptsExactly`, `OutputsExact` | 264 thousand |
| `labs` | the seven applications as they are built, up to 2 ticks off budget | `RequirementsHold`, `NoTickSleptThrough`, `ImplementsPipeline`, `LabsEnd` | 111 thousand |
| `cause` | 3 slots | violates `SwitchCauseNamed`, see section 5 | |

### Bounds and why they are enough
- *Slots.* Two tasks and idle give every relation between an outgoing, an
  incoming and a created task; three are needed for a yield exclusion with a
  choice between others, and for ties. The code has four (`OS_MAX_USER_TASKS`).
- *Time.* `TickBound` stops SysTick. Four ticks take a task of period two through
  two missed releases and a deadline miss; sleeps are of one tick, so that they
  end within it. Where the question is one of order, two ticks suffice: in
  `urgency` the late release comes with the first, in `story` the second brings
  a missed release, a miss and a new job. In `edge` the bound lies past the end
  of the time range.
- *Widths.* `UINT64_MAX` and `UINT32_MAX` are constants; in `mixed`, `urgency`,
  `live`, `story` and `labs` they are out of reach, in `edge`, `ring` and `finish` they
  are reached. `OS_MAX_TIME_INTERVAL` likewise.
- *Reclaims.* `ReclaimBound` stops creation after that many reclaims: one reuse
  of a slot is enough to meet anything left behind, two to meet it twice.
- *Ring.* `PopBound` bounds the reads of an open ring; with numbers up to 8 the
  batches run out of numbers both inside a batch and at its end. A batch of four
  is larger than the ring and is refused without a trace.
- *Heap.* 22 bytes hold five blocks of the smallest size: enough for both
  neighbours of a freed block to be free, exact fits and unsplittable remainders.
- *Filters.* `LANE` scales the width of a lane and of the accumulator, which keeps
  the code's headroom (`FirConstants`). The extreme lanes, -1 and 0 give every
  rounding, both saturations and both signs in either half of a pair; one to
  three taps give no pair, a pair, and a pair with a tail.
- *Applications.* Their task sets, periods and job counts are those of the code;
  `TickBound` lies past the end of each (the longest, `lifecycle`, sleeps for 50 ticks). No tick
  comes once an application has ended. `EarlyTicks` lets the first tick of
  `signal_lab`, and the first four of the applications without a trace, come
  anywhere; two late ticks (`LateBound`) let one come in each of two critical
  places.

Deadlock is checked in `select`, `ring` and `heap`. The other runs switch it off:
time stops at `TickBound`, a finished trace stays finished, a filter returns, an
application that has ended waits in `WFI`.

### Fairness
- `WF` for `SvcStart`, `PendsvEnter`, `os_pendsv_switch`, `PendsvReturn`: the
  hardware takes a pending exception and a handler runs to its end.
- `SF` for `SysTick`: the interrupt stays pending while PRIMASK is set and is
  taken when PRIMASK is cleared, so it is never starved by a task that masks it
  again and again.
- `WF` for `EnableInterrupts`: tasks leave their critical sections. This is an
  obligation of the tasks. Nothing is assumed about whether a task ever yields.
- `WF` for the threads and for the environment of `labs`: a thread that is not
  waiting goes on, and the timer elapses, up to the bound on late ticks. Which
  of the enabled interrupts or calls comes first is not constrained.
- `WF` for `os_trace_finish`: the idle thread, where it runs, is scheduled once
  the workload is over, and the UART call returns because of its timeout.

## 4. What is proved

For every value of the constants that satisfies the assumptions named in the
modules (`SchedulerConstants`, `KernelConstants`, `TraceConstants`,
`EmitBoundAssumption`, `FirConstants`, `ArraysAligned`, `AllocatorConstants`,
`ArenaHoldsABlock`, `TaskSetsFit`, `LateBoundAssumption`, `TablesAssumption`),
TLAPS checks these theorems. Where the
statement is a property of section 3, the run shows it on a small instance and
the theorem for any number of slots, any task set, any capacity and any width.

| Module | Theorem | States |
|---|---|---|
| `KernelProofs` | `TypeCorrect` | `Spec => []TypeOK` |
| | `SlotsSafe` | `Spec => []SlotsConsistent` |
| | `SwitchSafe` | `Spec => []SwitchPromised` |
| | `PreemptionSafe` | `Spec => []PreemptionJustified` |
| | `PanicsOnlyAtTimeLimit` | `Spec => []OnlyTimeRangePanics` |
| | `NothingOverdueSafe` | `Spec => []NothingOverdue` |
| | `MissesSafe` | `Spec => []MissLatchedInTime` |
| | `JobsSafe` | `Spec => []JobsConserved` |
| | `PanicsNearTheEnd` | `Spec => []TimePanicsNearTheEnd` |
| | `KernelSafe` | `Spec => []KernelInv` |
| | `EdfSafe` | `Spec => []EdfWhileExecuting` |
| | `PhaseSafe` | `Spec => ReleasesKeepPhase` (an action property) |
| | `YieldSafe` | `Spec => YieldHonoured` (an action property) |
| | `LifecycleImplemented` | `Spec => ImplementsLifecycle` (a refinement) |
| `KernelTraceProofs` | `TicksSafe` | `Spec => []TicksChargedOnce` |
| | `RecordsDecodeSafe` | `TracedSpec => []RecordsDecode` |
| | `TraceTellsSafe` | `TracedSpec => []TraceTellsState` |
| | `IntervalsSafe` | `TracedSpec => []IntervalsCoverCharges` |
| | `JobsToldSafe` | `TracedSpec => JobsTold` (an action property) |
| `SelectProofs` | `BestSoFarSafe`, `ScanImplementsSelect` | `Spec => []BestSoFar`, `Spec => []ScanIsSelect` |
| `TraceProofs` | `BatchesWholeSafe` | `Spec => []BatchesWhole` |
| | `AttemptsSafe` | `Spec => []AttemptsAccounted` |
| | `ReportsSafe` | `Spec => []ReportsExact` |
| | `LogImplemented` | `Spec => ImplementsLog` (a refinement) |
| | `AcceptedSafe` | `RuntimeSpec => []AcceptedIsComplete` |
| | `CompleteSafe` | `RuntimeSpec => []CompleteIsAccepted` |
| `AllocatorProofs` | `ValidSafe`, `CoalescedSafe` | `Spec => []AlwaysValid`, `Spec => []FullyCoalesced` |
| | `MemoryImplemented` | `Spec => ImplementsMemory` (a refinement) |
| `FirProofs` | `ValidationSafe` | `Spec => []AcceptsExactly` |
| | `PairMacExact`, `SaturationNearest` | the packed multiply-accumulate is the sum of two products; the saturated value is the nearest lane |
| | `FiltersAgree` | each of the three loops gives the reference filter's lane |
| | `OutputsSafe` | `Spec => []OutputsExact` |
| `LabProofs` | `NoTickSleptThroughSafe` | `LabsSpec => []NoTickSleptThrough` |
| | `PipelineImplemented` | `LabsSpec => ImplementsPipeline` (a refinement) |

### The kernel
None of the properties is inductive alone. `KernelInv`, which TLC checks in
`edge`, has three parts, proved in this order; the later parts use the first.

*Structure* (`StructureInv`). That a commit never finds the
outgoing task selected again (`PREEMPT_COMMIT`) needs a ready task that precedes
the current one in every state with a recorded preemption. This needs that no
step between request and commit removes that task, and that a yield, whose
exclusion could remove it from the candidates, never coexists with a preemption.
This in turn needs that a yielding task stays READY and current until its switch.
So `StructureInv` conjoins with the properties themselves:

- `ContextInv`: a current task exists exactly once a context was restored, and
  only a running kernel has one;
- `MaskInv`: only a thread that is RUNNING masks interrupts;
- `YieldInv`: with an exclusion, no preemption is recorded and a switch comes;
- `IdleInv`, `OccupantInv`: idle is selectable and keeps its stack, the current
  task keeps its slot.

`SchedulerProofs` types each operation and shows, by strong induction on
deadline, priority and id, that `os_sched_select` returns a candidate no other
candidate precedes (`SelectIsBest`); `OutranksIsEarlier` relates the code's
comparison to the order in which the properties are written.

*Time* (`TimeInv`). For each task, at the time now: its timing has
been validated (`TimingValid`, since the code takes a period of zero for the end of
time); every time it waits for is still to come and in range (`OnTime`); an
active job is latched as missed exactly when its deadline has come
(`MissLatched`), so completion never finds a miss that the tick has not; and the
counters add up (`JobsAddUp`). A tick advances time by one and takes every task
through its loop at once, so each part is a fact about one record before and after
one turn of the loop. `OnTime` is promised only while no check has failed: at
the end of the 64-bit range a due release stays where it is, and the check that
fails then lets nobody run after it. `JobsAddUp` stops at saturation, as the code's counters
do.

*Urgency* (`UrgencyInv`). From the switch to the next request
every READY task may wait: the current task is not idle, and no waiting task
precedes it, unless that task yielded at the last switch (`MayWait`). A tick, a
creation or a call that breaks this requests a switch in the same step, by
`SwitchPromised` and `PreemptionJustified`; the switch restores it by
`SelectIsBest`.

*Phase* (`PhaseSafe`). `ReleasesKeepPhase` speaks of a step. `SamePhase` says that
in it either nothing of a task's releases changes, or its next release moves by one
period and one of the two counters by one (`TickPhase`: a tick releases a job or
counts a missed release, never both; `CompletePhase`: a wait or an exit does
neither). That the first release computed back from the next one then
stays is arithmetic (`PhaseKept`).

*Yield* (`YieldSafe`). `UrgencyInv` also keeps the excluded task the current one, so
that the candidates of the switch are exactly the other READY tasks.

*Refinement* (`LifecycleImplemented`). `TaskLifecycle` is implemented with the
mapping of `KernelProperties`: each kind of step is one abstract action or leaves
the mapped state alone. Creation is `Create` (`CreateLives`), the heap calls are
`Take` and `Give`, a sleep, a wait and an exit are `Leave` and a yield is a stutter,
a tick is `Wake`, the locked part of PendSV is `Switch`. `StructureInv` supplies that a
task which calls is RUNNING and current, that a task which leaves is the current one,
and that idle is chosen only if nobody is READY.

*Ticks* (`TicksSafe`). A step charges at most one task, and as many ticks as pass
in it (`ChargesOfStep`); a slot that is created anew starts from zero. The rest is
about sums: that the sum `MapThenSumSet` takes over a set exists, and that raising
one summand raises it by as much, both shown from a smallest set on which they would
fail.

### The kernel's trace
The theorems are about the kernel of the section above with the records of each of
its steps, so `KernelInv` holds throughout (a traced step is a step of the kernel or
changes none of its state).

*What decodes* (`RecordsDecodeSafe`). Most records carry values that the kernel has
just checked. The hard one is the selection: the decoder requires the selected task
to come first among the candidates shown, by deadline, priority and id, and the
reason to be the first field in which it differs from the second. This follows from
`SelectIsBest`, once the table the record shows is known to be the one the switch
chose from (`SavedShown`), and the excluded task never to be idle (`ExcludedInv`).
A creation compares the new task with its creator only, so its probe follows from
the candidates exactly if none of them precedes the new task (`CreateProbeGood`).

*What a reader knows* (`ReaderInv`). The reader's current task is the kernel's, and
its open interval began no later than now; the state told of each task is its state,
up to a preemption by SysTick that PendSV has yet to tell (`Tells`); and the ticks
charged to a task are covered by its intervals, the open one included (`Covered`). A
tick emits any number of records, and the reader folds over them: the
concatenation is unfolded record by record, and a record about one task changes
only what is told of that task. So what a step's records do to a task is what that
task's own records do to it.

*Jobs* (`JobsToldSafe`). Of a task's records in a tick the summary counts its miss
and its release; a wait or an exit tells the outcome of the job it ends. Each adds
to the summary exactly what the turn of SysTick's loop, `complete_job` or a creation
adds to the task's counters while they have not saturated. `TimeInv` is needed for the outcome: a job
that is completed late has been latched, and told as missed, already.

### The scan
`BestSoFar` is the loop invariant of `os_sched_select`: the best candidate is the
least, by deadline, priority and id, of those passed. With `ScanIsSelect` and the
types it is inductive (`SelectInv`). At the end of the loop it describes one task
only, since ids differ, and `SelectIsBest` describes the same one.

### The ring
`TraceInv` has three parts. `Rings` types the record; `Linked` says that the write
index is `count` places after the read index, modulo the capacity; `LogInv` speaks
of the history, what was read followed by what is unread: batches are whole
(`Whole`), reports are exact (`Told`) and none tells more than the loss reported
so far (`ToldUpTo`), and, until the numbers are out, attempts are numbers, accepted
records are the history, and its sequence numbers lie below the next one
(`Counted`). The last one is what makes the order of a new batch, and the numbers
of a new report, follow. A push is refused, accepted or lost (`PushEffect`), and
an accepted push appends to the history (`StoredEffect`, `HistoryGrows`); the rest
of the proof speaks of sequences that are appended to, and no longer of indices.
`LogImplemented` shows the same three cases to be those of `TraceLog`.

### The end of a trace
`RuntimeInv` adds to `TraceInv`: the ring is open exactly until `os_trace_finish`
closes it, and then refuses every call, so the footer stays what the counters say
(`EndInv`); the frames on the wire are the records read, in order, with at most
one frame more, the footer after the last record or a broken one (`WireInv`); and
a history without loss holds events only, numbered without a gap (`Clean`). A
decoder that sees a footer without loss has then seen every record that was
offered, and a trace without loss decodes.

### The heap
`block_chain_valid` looks at each header and its successor, and compares a count
with a walk along the links. That is not enough for an induction: links alone
allow headers beside the chain, and say nothing of what is free. `HeapInv` has three
parts.

- `ChainInv`: the blocks tile the heap (`Tiles`), which with the links gives each
  block's successor and that nothing lies between the two (`Follows`); and the
  chain has a tally, the bytes in use from each block on, which at the first block is
  `allocated_bytes` (`Counted`).
- `LoopInv`: what a loop has still to do, it has to do from `block` on. Below it a
  release has left nothing of the owner's, and the merging no two free neighbours.
- `FullyCoalesced` itself.

The tally stands for the walk of `block_chain_valid`, whose result
(`computed_allocated`) is a recursive function. A chain has one tally only, shown
from the last address on which two would differ (`TallyUnique`), so the walk
computes it (`WalkComputes`), and each operation says how to change it: a block
that changes hands shifts it up to that block (`ReownedTally`), a merge drops an
entry and a cut repeats one (`JoinedTally`, `SplitTally`). That the blocks tile
after a cut needs sizes and addresses to be aligned, by `AlignedSum` and `AlignTo`.

An allocation keeps free blocks apart though it makes one: what was behind the block
that is cut was not free (`AllocationCoalesced`). For the refinement, `Follows`
makes regions disjoint, `CutKeeps` bounds what an allocation wastes, and `LoopInv`
supplies that a release ends with no block of the owner's left. The arguments
use neither the size of a header nor the alignment, except that both are
positive and one divides the other.

### The filters
`ValidationSafe` goes through the checks of `aymos_fir_q15_validate` one by one:
each bounds the product or sum the next one computes, so none wraps and the range
is the one the code means. `PairMacExact` and `SaturationNearest` are about the
operators: halves of a word and two's complement at any lane width.

`FiltersAgree` is about one output. The sum over all taps is the sum over the pairs
and the tap left over (`PairedSum`); an accumulator that wraps at every turn ends with
the sum wrapped (`AccumulatedSum`); the largest number of taps keeps the sum inside the
accumulator (`TapsBound`, from `AYMOS_FIR_Q15_MAX_TAPS * LANE * LANE < ACCUMULATOR`),
so unwrapping restores it. The sums are compared through the least
number of taps, or a smallest set, on which they would differ. C's division and
clamping then give the lane nearest to the exact quotient (`FilteredNearest`).

`OutputsSafe` adds the memory. `OutputInv` says what is stored so far (`Stored`).
That the next output still reads the inputs of the call (`InputsKept`) rests on
`ValidationSafe`: the output is apart from both inputs and no address wraps. Here the
arrays are taken to be aligned as their type `int16_t` asks (`ArraysAligned`).

### The signal laboratory
Both theorems are about the composition of all applications, of which one is
built (`SameApplication`), and about every step of the kernel, the timer and the
exceptions; the number of slots, the widths and the budgets are arbitrary, except
that the table holds the four tasks of the largest task set (`TaskSetsFit`).

*The wait for a tick* (`SleepInv`). From the look at the tick count to `WFI` a task
masks interrupts, so it keeps the processor and no tick is taken; at `WFI` its look
is still fresh. `WFI` waits only if nothing is pending, and then nothing but the
timer can happen, which ends the wait.

*The buffers* (`TurnInv`). A task at work on the buffers is in its turn: the counters
of the tasks before it are one ahead of its own frame, the others are not. Two
tasks cannot be in their turn at once (`OneTurn`), so a task that begins finds
nobody at work, and the sum of the counters tells whose turn it is (`TurnPassed`).
The proof uses neither the release times nor the kernel: the generation
checks alone keep the buffers safe.

### Only model-checked
- Liveness under fairness: `ExitsAreReclaimed`, `SleepersWake`,
  `RequestsAreServed`, `FinishEnds`, `LabsEnd`. TLAPS handles neither fairness nor
  ENABLED.
- `RequirementsHold`, which is about seven fixed task sets: it is a computation
  that the run carries out in full, and no statement about all values of a constant.

## 5. Disagreements with the documentation and the decoder

`cause`: a task creates a more urgent task, so PendSV is pending with the cause
*runtime-create*. SysTick preempts PendSV in the two instructions before
`cpsid i`, while the creator is still RUNNING, and requests PendSV again because
a release outranks it. The first pass commits both requests, with the cause
*coalesced*, and clears them (`kernel.c:626-629`). PendSV then runs a second
time: the task just selected is parked and selected again, and CONTEXT_SWITCH is
emitted with cause 0. `docs/TRACE_FORMAT.md:67-69` names the causes 1 to 8 and
`tools/aymos_lab/trace.py:512` rejects any other. Scheduling is not affected: the
second pass keeps every invariant of the other runs.

Seen while modelling, and not the subject of a run:

- A creation compares the new task with its creator only (`kernel.c:222-226`) and
  records a probe that selects it, although another ready task may precede it;
  `trace.py:434-435` requires the selected task to come first among the candidates.
  That happens if a task that has PRIMASK set, as the trace workload does
  (`docs/BUILDING.md:355`), creates two tasks more urgent than itself, the more
  urgent one first, or if a more urgent task has yielded to the creator. The
  dispatch that follows selects the right task.
- `os_memory_alloc(0)` is refused (`allocator.c:104`; `docs/API_REFERENCE.md:113`
  asks for a nonzero size), and `kernel.c:368-371` records it as an ALLOC of 0
  bytes, as `docs/TRACE_FORMAT.md:63-64` says of a call that fails.
  `trace.py:514-516` accepts an ALLOC only of more than 0 bytes.
- `os_memory_free(NULL)` is a successful no-op (`docs/API_REFERENCE.md:123`), and
  `kernel.c:386-392` records it as a FREE with the offset `0xFFFFFFFF` and
  success 1. `trace.py:517-519` accepts success only with an offset, so one such
  call makes the capture undecodable.
- A tick between `running = true` in `os_kernel_start` and the first switch is
  counted and charged to nobody. The requirements on exact ticks in
  `deadline_lab` (`main.c:186-196`) and `trace` (`main.c:102-106`) then fail by
  one tick; `signal_lab` tolerates it. The window is a
  small part of a tick's millisecond; `EarlyTicks` is 0 for these applications.

`RecordsDecode` therefore leaves out four kinds of record (`Disputed`): a switch
with cause 0, a creation's probe that shows a candidate more urgent than the new
task, a successful FREE of no pointer and an ALLOC of 0 bytes. It says of all others
that they decode.

## 6. Plan

Done, in this order: `Scheduler`, `Kernel`, its properties and runs,
`SchedulerSelect`, the proofs of types and structure, `TraceRing` with
`TraceLog`, `TraceRuntime`, `Allocator` with `Memory`, `KernelTrace`, `FirQ15`,
`Lab` with the applications and `Pipeline`, `TaskLifecycle`.

Next, to model:
1. Composition of `Kernel` with `Memory` in place of the counts `owned`.
2. Composition of `KernelTrace` with `TraceRing`: what a reader can still tell
   after an overflow.
3. The calls that `apps/lifecycle` and `apps/allocator` expect to be refused.

Proved since, in this order: time (`TimeInv`), phase, urgency and yield, the
refinement of `TaskLifecycle`, the scan, the ring and its refinement of
`TraceLog`, the validation of the filters, the end of a trace, the heap's chain
and its refinement of `Memory`, the signal laboratory's wait and its buffers, the
kernel's trace (decoding, states, intervals and jobs), the ticks charged, the outputs
of the filters.

Next, to prove: what the compositions above add to their parts, once modelled.

## 7. Not modelled
- *Applications*, in part: `apps/boot`, which runs no kernel; the calls that two
  applications expect to be refused; the results of computations and the text
  that is written.
- *Host laboratories*, except the deadline laboratory's intervals and summary:
  expected tables, reports and HTML drawn from finished captures.
- *Board support*, except `board_uart_write` as the trace sees it; *build,
  emulation and set-up scripts*; *vendor start-up and newlib glue*, and the tests
  of an earlier kernel in `src/tests`, which the build does not link.
- *Registers and stacks*: a stack is claimed or not; its contents, the stack
  limits and the exception frame are abstracted. HardFault is not modelled: tasks
  are assumed not to call `svc` under PRIMASK.
