------------------------------- MODULE Kernel -------------------------------
(***************************************************************************)
(* The AymOS kernel: kernel/src/kernel.c with the PendSV and SVC handlers  *)
(* of arch/arm_cm4/context_switch.S, over the policy of Scheduler.tla.     *)
(*                                                                         *)
(* There is one CPU.  The variable cpu says what it executes:              *)
(*   "main"       thread mode on the MSP, before the first switch          *)
(*   "starting"   os_kernel_start has set running; its svc #0 comes next   *)
(*   "thread"     thread mode on the PSP of current_task                   *)
(*   "pendsv_in"  PendSV has been entered and is not yet at its cpsid i    *)
(*   "pendsv_out" PendSV has restored PRIMASK and is not yet at its bx lr  *)
(* The priorities are SVC over SysTick over PendSV.  So the SVC handler,   *)
(* SysTick, the part of PendSV under cpsid i and a thread's section under  *)
(* PRIMASK are single steps, and SysTick can run anywhere else: between a  *)
(* system call and its PendSV, and in both windows of PendSV.  A request   *)
(* for PendSV made while PendSV is active runs it a second time.           *)
(*                                                                         *)
(* os_kernel_panic never returns: the actions collect the names of the     *)
(* failed checks in panics, and nothing is enabled once there is one.      *)
(***************************************************************************)
EXTENDS Scheduler

CONSTANTS
    Configs,        \* the timing configurations tasks are created with
    SleepTicks,     \* the arguments of os_sleep
    HeapBlocks,     \* how many blocks fit in the heap at once
    TickBound,      \* bound: no SysTick once monotonic_ticks is TickBound
    ReclaimBound    \* bound: no new task once ReclaimBound were reclaimed

ASSUME KernelConstants ==
    /\ Configs \subseteq TimingConfig
    /\ SleepTicks \subseteq Nat
    /\ HeapBlocks \in Nat
    /\ TickBound \in Nat
    /\ ReclaimBound \in Nat

VARIABLES
    running, current_task, yield_excluded_task, pending_switch_cause,
    pending_preempt_sources, monotonic_ticks, reclaim_counter, last_reclaimed,
    tasks,                      \* os_tcb_t: stack_claimed and started
    schedules,                  \* os_sched_task_t
    os_arch_has_active_context,
    owned,                      \* blocks of the heap each task owns
    cpu, primask, pendsv_pending,
    panics,
    last_switch                 \* the last CONTEXT_SWITCH event of the trace

hardware == <<cpu, primask, pendsv_pending>>
pending == <<pending_switch_cause, pending_preempt_sources>>
identity == <<running, current_task, os_arch_has_active_context>>
reclaims == <<reclaim_counter, last_reclaimed>>
vars == <<identity, yield_excluded_task, pending, monotonic_ticks, reclaims,
          tasks, schedules, owned, hardware, panics, last_switch>>

SwitchCauses == {"NONE", "START", "YIELD", "SLEEP", "EXIT", "WAIT_PERIOD",
                 "SYSTICK_PREEMPT", "RUNTIME_CREATE", "COALESCED_PREEMPT"}
PreemptSources == {"SYSTICK", "RUNTIME_CREATE"}

FreeTcb == [stack_claimed |-> FALSE, started |-> FALSE]
NoSwitch == [outgoing |-> OS_TASK_ID_INVALID, next |-> OS_TASK_ID_INVALID,
             cause |-> "NONE", state |-> "DORMANT"]

----------------------------------------------------------------------------
\* Checks that end in os_kernel_panic, and other helpers.

PanicReasons ==
    {"CREATE", "SVC_START", "SVC_YIELD", "TASK_SLEEP", "EXIT_COMPLETE",
     "SVC_PERIOD", "TICK_RANGE", "TASK_TIME_RANGE", "SAVE_PSP", "FIRST_PSP",
     "RECLAIM", "NEXT_TASK", "PREEMPT_COMMIT", "SWITCH"}

Check(condition, reason) == IF condition THEN {} ELSE {reason}

\* verify_state, on the table and the identity a step leaves behind.
StateVerified(is_running, context, ts, current) ==
    LET runners == {id \in TaskIds : ts[id].state = "RUNNING"} IN
    /\ ~is_running => runners = {}
    /\ is_running /\ context => runners = {current}

\* valid_saved_psp: reset_task clears the stack limits the check reads; a
\* claimed slot's saved PSP lies inside them.
StackIsValid(tcbs, id) == id \in TaskIds /\ tcbs[id].stack_claimed

\* record_preemption_request
CauseOf(sources) ==
    CASE sources = {"SYSTICK"} -> "SYSTICK_PREEMPT"
      [] sources = {"RUNTIME_CREATE"} -> "RUNTIME_CREATE"
      [] sources = PreemptSources -> "COALESCED_PREEMPT"

record_preemption_request(source) ==
    /\ pending_preempt_sources' = pending_preempt_sources \cup {source}
    /\ pending_switch_cause' = CauseOf(pending_preempt_sources \cup {source})

\* Mutant: an active PendSV taken for one that will still look.
RequestUnlessActive ==
    pendsv_pending' = (pendsv_pending \/ cpu \notin {"pendsv_in", "pendsv_out"})

request_pendsv == pendsv_pending' = TRUE

\* Thread mode on a task's stack; a pending PendSV is taken before the next
\* instruction unless PRIMASK holds it back.
ThreadExecutes ==
    /\ panics = {}
    /\ cpu = "thread"
    /\ pendsv_pending => primask

caller_is_running_task ==
    /\ running
    /\ current_task \in TaskIds
    /\ schedules[current_task].state = "RUNNING"
    /\ os_arch_has_active_context

\* Code of a user task.  The idle task only executes its WFI loop.
UserTaskExecutes == ThreadExecutes /\ current_task # OS_TASK_ID_IDLE

\* os_kernel_init
Init ==
    /\ running = FALSE
    /\ current_task = OS_TASK_ID_INVALID
    /\ yield_excluded_task = OS_TASK_ID_INVALID
    /\ pending_switch_cause = "NONE"
    /\ pending_preempt_sources = {}
    /\ monotonic_ticks = 0
    /\ reclaim_counter = 0
    /\ last_reclaimed = OS_TASK_ID_INVALID
    /\ tasks = [id \in TaskIds |->
                  [FreeTcb EXCEPT !.stack_claimed = id = OS_TASK_ID_IDLE]]
    /\ schedules = [id \in TaskIds |->
                      IF id = OS_TASK_ID_IDLE
                      THEN [ResetTask EXCEPT !.state = "READY"]
                      ELSE ResetTask]
    /\ os_arch_has_active_context = FALSE
    /\ owned = [id \in TaskIds |-> 0]
    /\ cpu = "main"
    /\ primask = FALSE
    /\ pendsv_pending = FALSE
    /\ panics = {}
    /\ last_switch = NoSwitch

----------------------------------------------------------------------------
\* Calls that run in the caller's thread.

FreeSlots == {id \in UserTasks :
                 schedules[id].state = "DORMANT" /\ ~tasks[id].stack_claimed}

\* os_task_create, all of it under PRIMASK: the lowest free slot; a new task
\* that is READY and outranks its creator asks for PendSV.
os_task_create(config) ==
    LET id == CHOOSE s \in FreeSlots : \A t \in FreeSlots : s <= t
        configured == [schedules EXCEPT
                         ![id] = os_sched_task_configure(config,
                                                         monotonic_ticks)]
    IN
    /\ \/ panics = {} /\ cpu = "main"
       \/ UserTaskExecutes /\ caller_is_running_task
    /\ reclaim_counter < ReclaimBound
    /\ FreeSlots # {}
    /\ ConfigureAccepts(config, monotonic_ticks)
    /\ schedules' = configured
    /\ tasks' = [tasks EXCEPT ![id].stack_claimed = TRUE]
    /\ IF /\ running
          /\ os_sched_outranks(configured, id, current_task)
       THEN /\ record_preemption_request("RUNTIME_CREATE")
            /\ request_pendsv
       ELSE UNCHANGED <<pending, pendsv_pending>>
    /\ panics' = Check(StateVerified(running, os_arch_has_active_context,
                                     configured, current_task), "CREATE")
    /\ UNCHANGED <<identity, yield_excluded_task, monotonic_ticks, reclaims,
                   owned, cpu, primask, last_switch>>

\* A task masks interrupts around a group of calls.  It makes no system call
\* meanwhile: an svc under PRIMASK is a HardFault.
DisableInterrupts ==
    /\ UserTaskExecutes
    /\ ~primask
    /\ primask' = TRUE
    /\ UNCHANGED <<identity, yield_excluded_task, pending, monotonic_ticks,
                   reclaims, tasks, schedules, owned, cpu, pendsv_pending,
                   panics, last_switch>>

EnableInterrupts ==
    /\ ThreadExecutes
    /\ primask
    /\ primask' = FALSE
    /\ UNCHANGED <<identity, yield_excluded_task, pending, monotonic_ticks,
                   reclaims, tasks, schedules, owned, cpu, pendsv_pending,
                   panics, last_switch>>

HeapUsed == {b \in UserTasks \X (1 .. HeapBlocks) : b[2] <= owned[b[1]]}

\* os_memory_alloc and os_memory_free that succeed.
os_memory_alloc ==
    /\ UserTaskExecutes /\ caller_is_running_task
    /\ Cardinality(HeapUsed) < HeapBlocks
    /\ owned' = [owned EXCEPT ![current_task] = @ + 1]
    /\ UNCHANGED <<identity, yield_excluded_task, pending, monotonic_ticks,
                   reclaims, tasks, schedules, hardware, panics, last_switch>>

os_memory_free ==
    /\ UserTaskExecutes /\ caller_is_running_task
    /\ owned[current_task] > 0
    /\ owned' = [owned EXCEPT ![current_task] = @ - 1]
    /\ UNCHANGED <<identity, yield_excluded_task, pending, monotonic_ticks,
                   reclaims, tasks, schedules, hardware, panics, last_switch>>

----------------------------------------------------------------------------
\* System calls: os_svc_dispatch, which SysTick and PendSV cannot interrupt.

\* os_kernel_start up to its svc: from here on SysTick counts.
os_kernel_start ==
    /\ panics = {} /\ cpu = "main"
    /\ running' = TRUE
    /\ pending_switch_cause' = "START"
    /\ cpu' = "starting"
    /\ UNCHANGED <<current_task, os_arch_has_active_context,
                   yield_excluded_task, pending_preempt_sources,
                   monotonic_ticks, reclaims, tasks, schedules, owned,
                   primask, pendsv_pending, panics, last_switch>>

SvcStart ==
    /\ panics = {} /\ cpu = "starting" /\ ~pendsv_pending
    /\ panics' = Check(current_task = OS_TASK_ID_INVALID
                         /\ ~os_arch_has_active_context, "SVC_START")
    /\ request_pendsv
    /\ UNCHANGED <<identity, yield_excluded_task, pending, monotonic_ticks,
                   reclaims, tasks, schedules, owned, cpu, primask,
                   last_switch>>

\* What the system calls of a task share: it executes with interrupts on, the
\* handler replaces its schedule, names the cause and asks for PendSV.
SystemCall(reason, accepted, task, cause) ==
    /\ UserTaskExecutes /\ ~primask
    /\ panics' = Check(current_task # OS_TASK_ID_INVALID
                         /\ schedules[current_task].state = "RUNNING"
                         /\ accepted, reason)
    /\ schedules' = IF accepted
                    THEN [schedules EXCEPT ![current_task] = task]
                    ELSE schedules
    /\ pending_switch_cause' = cause
    /\ request_pendsv
    /\ UNCHANGED <<identity, pending_preempt_sources, monotonic_ticks,
                   reclaims, tasks, owned, cpu, primask, last_switch>>

Caller == schedules[current_task]

SvcYield ==
    /\ SystemCall("SVC_YIELD", TRUE,
                  [Caller EXCEPT !.state = "READY"], "YIELD")
    /\ yield_excluded_task' = current_task

SvcSleep(sleep_ticks) ==
    /\ sleep_ticks \in Intervals \ {0}      \* os_sleep refuses the others
    /\ SystemCall("TASK_SLEEP",
                  SleepAccepts(Caller, monotonic_ticks, sleep_ticks),
                  os_sched_sleep(Caller, monotonic_ticks, sleep_ticks),
                  "SLEEP")
    /\ UNCHANGED yield_excluded_task

SvcExit ==
    /\ SystemCall("EXIT_COMPLETE", CompleteAccepts(Caller),
                  [os_sched_complete_job(Caller, monotonic_ticks)
                      EXCEPT !.state = "EXITING"],
                  "EXIT")
    /\ UNCHANGED yield_excluded_task

SvcWaitNextPeriod ==
    /\ UserTaskExecutes
    /\ Caller.kind = "PERIODIC"     \* os_wait_next_period refuses the others
    /\ SystemCall("SVC_PERIOD", CompleteAccepts(Caller),
                  os_sched_wait_next_period(Caller, monotonic_ticks),
                  "WAIT_PERIOD")
    /\ UNCHANGED yield_excluded_task

----------------------------------------------------------------------------
\* SysTick: os_kernel_tick.

\* One turn of the handler's loop, for one user task.
CountedTick(task, now) ==
    os_sched_record_active_release(
        os_sched_record_deadline_miss(
            os_sched_account_running_tick(task), now), now)

ReleasedTick(task, now) == os_sched_release_due(CountedTick(task, now), now)

TickTask(task, now) == os_sched_wake_due(ReleasedTick(task, now), now)

\* Mutant: a wake-up is not looked at.
BecomesReadyByRelease(task, now) ==
    ReleaseIsDue(CountedTick(task, now), now)

BecomesReady(task, now) ==
    LET released == ReleasedTick(task, now) IN
    \/ ReleaseIsDue(CountedTick(task, now), now)
         /\ ~released.time_range_exhausted
    \/ WakeIsDue(released, now)

SysTick ==
    LET now == monotonic_ticks + 1
        ticked == [id \in TaskIds |->
                     IF id = OS_TASK_ID_IDLE THEN schedules[id]
                     ELSE TickTask(schedules[id], now)]
        candidate == os_sched_select(ticked, OS_TASK_ID_INVALID)
        preempts ==
            /\ \E id \in UserTasks : BecomesReady(schedules[id], now)
            /\ current_task # OS_TASK_ID_INVALID
            /\ ticked[current_task].state = "RUNNING"
            /\ candidate \in UserTasks
            /\ os_sched_outranks(ticked, candidate, current_task)
    IN
    /\ panics = {} /\ running /\ ~primask
    /\ monotonic_ticks < TickBound
    /\ IF monotonic_ticks = UINT64_MAX
       THEN /\ panics' = {"TICK_RANGE"}
            /\ UNCHANGED <<monotonic_ticks, schedules, pending,
                           pendsv_pending>>
       ELSE /\ monotonic_ticks' = now
            /\ panics' = Check(\A id \in UserTasks :
                                  ~ticked[id].time_range_exhausted,
                               "TASK_TIME_RANGE")
            /\ IF preempts
               THEN /\ record_preemption_request("SYSTICK")
                    /\ schedules' = [ticked EXCEPT
                                       ![current_task].state = "READY"]
                    /\ request_pendsv
               ELSE /\ schedules' = ticked
                    /\ UNCHANGED <<pending, pendsv_pending>>
    /\ UNCHANGED <<identity, yield_excluded_task, reclaims, tasks, owned,
                   cpu, primask, last_switch>>

----------------------------------------------------------------------------
\* PendSV: the handler's entry, os_pendsv_switch, and the return.

PendsvEnter ==
    /\ panics = {} /\ cpu \in {"starting", "thread"}
    /\ pendsv_pending /\ ~primask
    /\ cpu' = "pendsv_in"
    /\ pendsv_pending' = FALSE
    /\ UNCHANGED <<identity, yield_excluded_task, pending, monotonic_ticks,
                   reclaims, tasks, schedules, owned, primask, panics,
                   last_switch>>

\* Mutant: the walk stops before the first block it should free.
ReleaseNoBlock(id) == [owned EXCEPT ![id] = @]

\* os_allocator_release_owner, the whole heap walked.
os_allocator_release_owner(id) == [owned EXCEPT ![id] = 0]

\* Mutant: reclaim without the transition to DORMANT.
ParkedUnreclaimed(id) ==
    IF schedules[id].state = "RUNNING"
    THEN [schedules EXCEPT ![id].state = "READY"]
    ELSE schedules

\* The task table once the outgoing task is off the CPU: PEND_READY, or
\* RECLAIM_STATE and reset_task.
Parked(id) ==
    CASE schedules[id].state = "RUNNING" ->
           [schedules EXCEPT ![id].state = "READY"]
      [] schedules[id].state = "EXITING" ->
           [schedules EXCEPT ![id] = ResetTask]
      [] OTHER -> schedules

\* From cpsid i to the restored PRIMASK: a task that is still RUNNING becomes
\* READY, one that is EXITING is reclaimed with everything it owns, and the
\* selected task becomes RUNNING.
os_pendsv_switch ==
    LET outgoing == current_task
        isTask == outgoing # OS_TASK_ID_INVALID
        outgoing_state ==
            IF isTask THEN schedules[outgoing].state ELSE "DORMANT"
        exiting == outgoing_state = "EXITING"
        saved == IF isTask THEN Parked(outgoing) ELSE schedules
        tcbs == IF exiting THEN [tasks EXCEPT ![outgoing] = FreeTcb]
                ELSE tasks
        selected == os_sched_select(saved, yield_excluded_task)
        next == IF selected = OS_TASK_ID_INVALID THEN OS_TASK_ID_IDLE
                ELSE selected
        committed == [saved EXCEPT ![next].state = "RUNNING"]
    IN
    /\ panics = {} /\ cpu = "pendsv_in"
    /\ schedules' = committed
    /\ tasks' = IF next = OS_TASK_ID_IDLE THEN tcbs
                ELSE [tcbs EXCEPT ![next].started = TRUE]
    /\ owned' = IF exiting THEN os_allocator_release_owner(outgoing) ELSE owned
    /\ last_reclaimed' = IF exiting THEN outgoing ELSE last_reclaimed
    /\ reclaim_counter' = IF exiting
                          THEN (reclaim_counter + 1) % (UINT32_MAX + 1)
                          ELSE reclaim_counter
    /\ current_task' = next
    /\ os_arch_has_active_context' = TRUE
    /\ yield_excluded_task' = OS_TASK_ID_INVALID
    /\ pending_switch_cause' = "NONE"
    /\ pending_preempt_sources' = {}
    /\ last_switch' = [outgoing |-> outgoing, next |-> next,
                       cause |-> pending_switch_cause,
                       state |-> outgoing_state]
    /\ cpu' = "pendsv_out"
    /\ panics' =
         UNION {Check(os_arch_has_active_context =>
                        isTask /\ StackIsValid(tasks, outgoing), "SAVE_PSP"),
                Check(~os_arch_has_active_context => ~isTask, "FIRST_PSP"),
                Check(exiting => outgoing # OS_TASK_ID_IDLE
                        /\ tasks[outgoing].stack_claimed, "RECLAIM"),
                Check(saved[next].state = "READY"
                        /\ StackIsValid(tcbs, next), "NEXT_TASK"),
                Check(pending_preempt_sources # {} =>
                        isTask /\ outgoing # next, "PREEMPT_COMMIT"),
                Check(StateVerified(running, TRUE, committed, next),
                      "SWITCH")}
    /\ UNCHANGED <<running, monotonic_ticks, primask, pendsv_pending>>

PendsvReturn ==
    /\ panics = {} /\ cpu = "pendsv_out"
    /\ cpu' = "thread"
    /\ UNCHANGED <<identity, yield_excluded_task, pending, monotonic_ticks,
                   reclaims, tasks, schedules, owned, primask,
                   pendsv_pending, panics, last_switch>>

----------------------------------------------------------------------------

\* A panicked kernel stays where it is (board_kernel_panic never returns).
Halted == panics # {} /\ UNCHANGED vars

Next ==
    \/ \E config \in Configs : os_task_create(config)
    \/ DisableInterrupts \/ EnableInterrupts
    \/ os_memory_alloc \/ os_memory_free
    \/ os_kernel_start \/ SvcStart
    \/ SvcYield \/ SvcExit \/ SvcWaitNextPeriod
    \/ \E sleep_ticks \in SleepTicks : SvcSleep(sleep_ticks)
    \/ SysTick
    \/ PendsvEnter \/ os_pendsv_switch \/ PendsvReturn
    \/ Halted

Spec == Init /\ [][Next]_vars

\* The hardware takes a pending exception and finishes a handler (weak
\* fairness).  SysTick stays pending while PRIMASK is set and is taken when it
\* is cleared, however often a task sets it again (strong fairness).
Fairness ==
    /\ WF_vars(SvcStart)
    /\ WF_vars(PendsvEnter) /\ WF_vars(os_pendsv_switch)
    /\ WF_vars(PendsvReturn)
    /\ SF_vars(SysTick)

\* Tasks leave their sections under PRIMASK.
TaskFairness == WF_vars(EnableInterrupts)

FairSpec == Spec /\ Fairness /\ TaskFairness
=============================================================================
