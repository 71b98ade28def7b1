-------------------------- MODULE KernelProperties --------------------------
(***************************************************************************)
(* What the kernel promises.  Orderings and times are stated here from the *)
(* fields of the task table, not with the operators the kernel decides by. *)
(***************************************************************************)
EXTENDS Kernel, FiniteSetsExt

Earlier(c, i) ==    \* c's job must run before i's under EDF
    \/ schedules[c].absolute_deadline_order
         < schedules[i].absolute_deadline_order
    \/ /\ schedules[c].absolute_deadline_order
            = schedules[i].absolute_deadline_order
       /\ \/ schedules[c].priority < schedules[i].priority
          \/ schedules[c].priority = schedules[i].priority /\ c < i

ReadyTasks == {id \in UserTasks : schedules[id].state = "READY"}

Periodic(id) == schedules[id].kind = "PERIODIC"
Live(id) == schedules[id].state \notin {"DORMANT", "EXITING"}

\* Before the counters saturate.
Unsaturated(id) == /\ schedules[id].job_sequence < UINT32_MAX
                   /\ schedules[id].missed_release_count < UINT32_MAX

----------------------------------------------------------------------------

\* The types of kernel.c's state.
TypeOK ==
    /\ running \in BOOLEAN
    /\ current_task \in TaskIdsOrInvalid
    /\ yield_excluded_task \in TaskIdsOrInvalid
    /\ pending_switch_cause \in SwitchCauses
    /\ pending_preempt_sources \subseteq PreemptSources
    /\ monotonic_ticks \in Orders
    /\ reclaim_counter \in Counts
    /\ last_reclaimed \in TaskIdsOrInvalid
    /\ tasks \in [TaskIds -> [stack_claimed : BOOLEAN, started : BOOLEAN]]
    /\ schedules \in [TaskIds -> SchedTask]
    /\ os_arch_has_active_context \in BOOLEAN
    /\ owned \in [TaskIds -> Nat]
    /\ cpu \in {"main", "starting", "thread", "pendsv_in", "pendsv_out"}
    /\ primask \in BOOLEAN
    /\ pendsv_pending \in BOOLEAN
    /\ panics \subseteq PanicReasons
    /\ last_switch \in [outgoing : TaskIdsOrInvalid, next : TaskIdsOrInvalid,
                        cause : SwitchCauses, state : States]

\* With the end of the 64-bit time range in reach, only the checks of that
\* range fail: no order of events breaks any other check of the kernel.
OnlyTimeRangePanics ==
    panics \subseteq {"TICK_RANGE", "TASK_TIME_RANGE", "TASK_SLEEP"}

\* Those fail only when a task's next time could pass the end: a kernel whose
\* tasks use intervals of up to n ticks works until n ticks before the end.
TimePanicsNearTheEnd ==
    panics # {} => monotonic_ticks + OS_MAX_TIME_INTERVAL >= UINT64_MAX

\* The state of a slot, its job, its stack and its memory agree, across exit,
\* reclaim and reuse: a job is active exactly while its task is READY, RUNNING
\* or SLEEPING, a slot is free exactly when it is DORMANT, and a task that has
\* not been dispatched yet has run no tick and owns no memory of the slot's
\* previous task.
SlotsConsistent ==
    \A id \in UserTasks :
        LET task == schedules[id] IN
        /\ task.job_active <=> task.state \in {"READY", "RUNNING", "SLEEPING"}
        /\ tasks[id].stack_claimed <=> task.state # "DORMANT"
        /\ ~tasks[id].started =>
             /\ owned[id] = 0
             /\ task.total_execution_ticks = 0
             /\ task.completed_job_count = 0

\* Once a task has been dispatched nobody but the current task is RUNNING,
\* and when it is not, a PendSV that replaces it is to come: no system call or
\* preemption is left without its switch (verify_state, request_pendsv).
SwitchPromised ==
    /\ \A id \in TaskIds :
          schedules[id].state = "RUNNING" =>
             id = current_task /\ os_arch_has_active_context
    /\ os_arch_has_active_context =>
         \/ schedules[current_task].state = "RUNNING"
         \/ pendsv_pending
         \/ cpu = "pendsv_in"

\* Nobody sleeps past the wake time or waits past the release time: a tick
\* that reaches the time acts on it, whatever it interrupts, or stops the
\* kernel because the task's next time does not fit in 64 bits.
NothingOverdue ==
    panics = {} => \A id \in UserTasks :
        /\ schedules[id].state = "SLEEPING" =>
             monotonic_ticks < schedules[id].wake_order
        /\ schedules[id].state = "WAITING_RELEASE" =>
             monotonic_ticks < schedules[id].next_release_order
        /\ Periodic(id) /\ Live(id) =>
             monotonic_ticks < schedules[id].next_release_order

\* Every job counted as released is complete or the active one, and at most
\* one miss is counted for each.
JobsConserved ==
    \A id \in UserTasks :
        LET task == schedules[id]
            active == IF task.job_active THEN 1 ELSE 0
            late == IF task.job_active /\ task.deadline_miss_latched
                    THEN 1 ELSE 0
        IN Unsaturated(id) =>
             /\ task.job_sequence = task.completed_job_count + active
             /\ task.deadline_miss_count <= task.completed_job_count + late

\* An active job's miss is latched exactly when its deadline has come, so
\* that complete_job never has to discover one.
MissLatchedInTime ==
    \A id \in UserTasks :
        LET task == schedules[id] IN
        task.job_active =>
            (task.deadline_miss_latched
               <=> task.absolute_deadline_order <= monotonic_ticks)

\* Each tick of the clock is charged to at most one task
\* (os_sched_account_running_tick), across preemption and slot reuse: the
\* charges of all slots together never exceed the time.
TicksChargedOnce ==
    MapThenSumSet(LAMBDA id : schedules[id].total_execution_ticks, UserTasks)
      <= monotonic_ticks

\* Earliest deadline first: while a user task executes, no ready task should
\* run before it, except the one task that gave the processor away by os_yield
\* at the last switch.  Idle executes only when no task is ready.
EdfWhileExecuting ==
    cpu = "thread" /\ ~pendsv_pending =>
        \A c \in ReadyTasks :
            /\ current_task # OS_TASK_ID_IDLE
            /\ Earlier(c, current_task) =>
                 /\ last_switch.cause = "YIELD"
                 /\ last_switch.outgoing = c

\* A recorded preemption request is always backed by a PendSV to come and by
\* a ready task that must run before the current one, so that the commit in
\* os_pendsv_switch never finds outgoing and next equal.
PreemptionJustified ==
    pending_preempt_sources # {} =>
        /\ pendsv_pending \/ cpu = "pendsv_in"
        /\ current_task \in TaskIds
        /\ schedules[current_task].state \in {"READY", "RUNNING"}
        /\ \E c \in ReadyTasks :
              current_task = OS_TASK_ID_IDLE \/ Earlier(c, current_task)

----------------------------------------------------------------------------
\* What a step may never do.

\* The same task before and after a step: its slot was not freed or refilled.
SameTask(id) == /\ schedules[id].state # "DORMANT"
                /\ schedules'[id].state # "DORMANT"

\* A periodic task's first release, computed back from its next one.
FirstRelease(id) ==
    LET task == schedules[id] IN
    task.next_release_order
      - (task.job_sequence + task.missed_release_count) * task.period_ticks

\* Releases never drift and none is lost: whatever a job's completion time,
\* the next release stays in phase with the first, job_sequence and
\* missed_release_count together counting the releases in between.
ReleasesKeepPhase ==
    [][\A id \in UserTasks :
         /\ Periodic(id) /\ SameTask(id)
         /\ Unsaturated(id) /\ Unsaturated(id)'
         => FirstRelease(id)' = FirstRelease(id)]_vars

\* os_yield offers the processor: the switch it asks for goes to another ready
\* task when there is one, whatever SysTick released or woke in between.
YieldHonoured ==
    [][cpu = "pendsv_in" /\ cpu' = "pendsv_out" =>
         \/ yield_excluded_task = OS_TASK_ID_INVALID
         \/ ReadyTasks \ {yield_excluded_task} = {}
         \/ current_task' \in ReadyTasks \ {yield_excluded_task}]_vars

\* The life of a slot, from the state in its schedule; its memory.
LifeOf(state) ==
    CASE state = "DORMANT" -> "FREE"
      [] state = "EXITING" -> "LEAVING"
      [] state \in {"READY", "RUNNING"} -> "READY"
      [] OTHER -> "BLOCKED"

SlotLife == [id \in UserTasks |-> LifeOf(schedules[id].state)]
SlotMemory == [id \in UserTasks |-> owned[id]]

\* Across creation, preemption, sleep, exit, reclaim and reuse, every slot goes
\* through the life of TaskLifecycle: in particular a task's slot and memory
\* are freed by the PendSV that leaves its stack and by nothing else, and the
\* slot's next task starts with nothing (reclaim_exiting_task).
Lives == INSTANCE TaskLifecycle WITH
    Tasks <- UserTasks,
    Idle <- OS_TASK_ID_IDLE,
    life <- SlotLife,
    holds <- SlotMemory,
    on_cpu <- current_task

ImplementsLifecycle == Lives!Spec

----------------------------------------------------------------------------
\* What must eventually happen.

\* A task that exits is reclaimed.
ExitsAreReclaimed ==
    \A id \in UserTasks :
        schedules[id].state = "EXITING" ~> schedules[id].state = "DORMANT"

\* A sleeping task wakes (up to the bound on time).
SleepersWake ==
    \A id \in UserTasks :
        schedules[id].state = "SLEEPING"
          /\ schedules[id].wake_order <= TickBound
            ~> schedules[id].state # "SLEEPING"

\* Whoever started the kernel, made a system call or was preempted is replaced,
\* and the preemptions recorded meanwhile are committed with it: no request is
\* left to a PendSV that does not come (request_pendsv, os_pendsv_switch).
Settled ==
    /\ running => /\ current_task \in TaskIds
                  /\ schedules[current_task].state = "RUNNING"
    /\ pending_preempt_sources = {}

RequestsAreServed == ~Settled ~> Settled

----------------------------------------------------------------------------
\* Claims of the documentation.

\* docs/TRACE_FORMAT.md gives CONTEXT_SWITCH the causes 1 to 8, and the decoder
\* rejects every other value.
SwitchCauseNamed == last_switch # NoSwitch => last_switch.cause # "NONE"
=============================================================================
