--------------------------- MODULE KernelInvariant ---------------------------
(***************************************************************************)
(* The inductive invariant behind the kernel's structural properties: what *)
(* the CPU executes, the table, the pending request and the yield exclusion*)
(* fit together in every state, between any two handlers.                  *)
(***************************************************************************)
EXTENDS KernelProperties

Current == schedules[current_task]

SwitchToCome == pendsv_pending \/ cpu = "pendsv_in"

\* A current task exists exactly once PendSV has restored a context, which
\* only a running kernel does; the kernel runs from os_kernel_start on.
ContextInv ==
    /\ os_arch_has_active_context <=> current_task # OS_TASK_ID_INVALID
    /\ os_arch_has_active_context =>
         running /\ cpu \in {"thread", "pendsv_in", "pendsv_out"}
    /\ ~os_arch_has_active_context => cpu \in {"main", "starting", "pendsv_in"}
    /\ running <=> cpu # "main"
    /\ cpu = "main" => ~pendsv_pending

\* Only thread code masks interrupts, and not across a system call.
MaskInv == primask => cpu = "thread" /\ Current.state = "RUNNING"

\* A yielded processor is not preempted: the yielding task waits, READY, for
\* the switch that excludes it.
YieldInv ==
    yield_excluded_task # OS_TASK_ID_INVALID =>
        /\ pending_preempt_sources = {}
        /\ os_arch_has_active_context
        /\ Current.state = "READY"
        /\ SwitchToCome

\* Idle is always ready or running, and its stack is never freed.
IdleInv ==
    /\ schedules[OS_TASK_ID_IDLE].state \in {"READY", "RUNNING"}
    /\ tasks[OS_TASK_ID_IDLE].stack_claimed

\* The current task has been dispatched and is not reclaimed under its feet;
\* only tasks with a stack have been dispatched.
OccupantInv ==
    /\ current_task \in UserTasks =>
         tasks[current_task].started /\ Current.state # "DORMANT"
    /\ \A id \in UserTasks : tasks[id].started => tasks[id].stack_claimed

StructureInv ==
    /\ TypeOK
    /\ ContextInv
    /\ MaskInv
    /\ YieldInv
    /\ IdleInv
    /\ OccupantInv
    /\ SlotsConsistent
    /\ SwitchPromised
    /\ PreemptionJustified
    /\ OnlyTimeRangePanics

----------------------------------------------------------------------------
\* Time: what holds of one task's record at the time now.

\* os_sched_config_valid has seen the timing of whatever fills a slot.
TimingValid(task) ==
    task.state # "DORMANT" =>
        /\ task.relative_deadline_ticks # 0
        /\ task.kind = "PERIODIC" => task.period_ticks # 0

\* Every time the task waits for is still to come, and fits in 64 bits.
OnTime(task, now) ==
    /\ task.state = "SLEEPING" => now < task.wake_order
    /\ \/ task.state = "WAITING_RELEASE"
       \/ task.kind = "PERIODIC" /\ task.state \notin {"DORMANT", "EXITING"}
       => now < task.next_release_order
    /\ ~task.time_range_exhausted

MissLatched(task, now) ==
    task.job_active =>
        (task.deadline_miss_latched <=> task.absolute_deadline_order <= now)

\* The job counted as released and not as completed, and its miss.
ActiveJobs(task) == IF task.job_active THEN 1 ELSE 0
LateJobs(task) ==
    IF task.job_active /\ task.deadline_miss_latched THEN 1 ELSE 0

\* Up to its saturation job_sequence counts exactly, and bounds the others.
JobsAddUp(task) ==
    task.job_sequence < UINT32_MAX =>
        /\ task.job_sequence = task.completed_job_count + ActiveJobs(task)
        /\ task.deadline_miss_count
             <= task.completed_job_count + LateJobs(task)

Timely(task, now) ==
    TimingValid(task) /\ MissLatched(task, now) /\ JobsAddUp(task)

TimeInv ==
    /\ \A id \in UserTasks :
          /\ Timely(schedules[id], monotonic_ticks)
          /\ panics = {} => OnTime(schedules[id], monotonic_ticks)
    /\ TimePanicsNearTheEnd

----------------------------------------------------------------------------
\* Urgency.

\* c may be READY while the current task executes.
MayWait(c) ==
    /\ current_task # OS_TASK_ID_IDLE
    /\ Earlier(c, current_task) =>
         last_switch.cause = "YIELD" /\ last_switch.outgoing = c

\* The excluded task is the current one, until its switch; and from the switch
\* to the next request, through the return of PendSV, the task switched to is
\* the one to execute.
UrgencyInv ==
    /\ yield_excluded_task # OS_TASK_ID_INVALID =>
         yield_excluded_task = current_task /\ pending_switch_cause = "YIELD"
    /\ cpu \in {"pendsv_out", "thread"} /\ ~pendsv_pending =>
         \A c \in ReadyTasks : MayWait(c)

\* All of it: inductive, and it implies every invariant of KernelProperties.
KernelInv == StructureInv /\ TimeInv /\ UrgencyInv
=============================================================================
