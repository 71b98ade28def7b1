----------------------------- MODULE Scheduler -----------------------------
(***************************************************************************)
(* The architecture-neutral scheduling policy, kernel/src/scheduler.c.     *)
(*                                                                         *)
(* The C functions take a pointer to an os_sched_task_t, may change it and *)
(* return whether they did.  Here each becomes a pure operator from a task *)
(* record to a task record; one that can refuse has a predicate of its own *)
(* (the function's early returns), because the kernel branches on it.      *)
(*                                                                         *)
(* Time is the 64-bit "order" the code decides with; the 32-bit *_tick     *)
(* fields are truncated copies that no decision reads, and                 *)
(* execution_budget_ticks is reported but never enforced: both are left    *)
(* out.  UINT64_MAX and UINT32_MAX are constants, so that a small instance *)
(* reaches the edge of the time range and the saturation of the counters.  *)
(***************************************************************************)
EXTENDS Integers, FiniteSets

CONSTANTS
    OS_MAX_USER_TASKS,      \* slots 1 .. OS_MAX_USER_TASKS
    OS_MAX_TIME_INTERVAL,   \* INT32_MAX in the code
    UINT32_MAX,             \* where the task counters saturate
    UINT64_MAX              \* the last tick

ASSUME SchedulerConstants ==
    /\ OS_MAX_USER_TASKS \in Nat \ {0}
    /\ OS_MAX_USER_TASKS < 255
    /\ OS_MAX_TIME_INTERVAL \in Nat
    /\ UINT32_MAX \in Nat \ {0}
    /\ UINT64_MAX \in Nat

OS_TASK_ID_IDLE == 0
OS_TASK_ID_INVALID == 255

UserTasks == 1 .. OS_MAX_USER_TASKS
TaskIds == 0 .. OS_MAX_USER_TASKS
TaskIdsOrInvalid == TaskIds \cup {OS_TASK_ID_INVALID}

States == {"DORMANT", "WAITING_RELEASE", "READY", "RUNNING", "SLEEPING",
           "EXITING"}
Kinds == {"ONE_SHOT", "PERIODIC"}
Orders == 0 .. UINT64_MAX       \* a uint64_t time
Counts == 0 .. UINT32_MAX       \* a uint32_t counter
Intervals == 0 .. OS_MAX_TIME_INTERVAL

\* os_task_timing_config_t, for any arguments an application may pass.
TimingConfig ==
    [kind : Kinds, initial_release_delay_ticks : Nat, period_ticks : Nat,
     relative_deadline_ticks : Nat, priority : Nat]

\* os_sched_task_t.
SchedTask ==
    [state : States, kind : Kinds, priority : Nat,
     period_ticks : Intervals, relative_deadline_ticks : Intervals,
     release_order : Orders, next_release_order : Orders,
     wake_order : Orders, absolute_deadline_order : Orders,
     job_active : BOOLEAN, deadline_miss_latched : BOOLEAN,
     time_range_exhausted : BOOLEAN,
     job_sequence : Counts, completed_job_count : Counts,
     deadline_miss_count : Counts, missed_release_count : Counts,
     total_execution_ticks : Counts, job_execution_ticks : Counts]

----------------------------------------------------------------------------

\* Mutant: the counter wraps past its width.
IncrementUnchecked(value) == value + 1

increment_saturating(value) == IF value # UINT32_MAX THEN value + 1 ELSE value

\* Mutant: off by one.
TickPassed(now, target) == target < now

os_tick_reached(now, target) == target <= now

\* A delayed release and its deadline stay in the time range together, and
\* a periodic task's deadline is no later than its next release.
os_sched_config_valid(config) ==
    /\ config.relative_deadline_ticks # 0
    /\ config.initial_release_delay_ticks \in Intervals
    /\ config.period_ticks \in Intervals
    /\ config.relative_deadline_ticks \in Intervals
    /\ config.initial_release_delay_ticks
         <= OS_MAX_TIME_INTERVAL - config.relative_deadline_ticks
    /\ IF config.kind = "ONE_SHOT"
       THEN config.period_ticks = 0
       ELSE /\ config.period_ticks # 0
            /\ config.relative_deadline_ticks <= config.period_ticks

\* os_sched_task_reset: memset to zero, DORMANT, ONE_SHOT.
ResetTask ==
    [state |-> "DORMANT", kind |-> "ONE_SHOT", priority |-> 0,
     period_ticks |-> 0, relative_deadline_ticks |-> 0,
     release_order |-> 0, next_release_order |-> 0,
     wake_order |-> 0, absolute_deadline_order |-> 0,
     job_active |-> FALSE, deadline_miss_latched |-> FALSE,
     time_range_exhausted |-> FALSE,
     job_sequence |-> 0, completed_job_count |-> 0,
     deadline_miss_count |-> 0, missed_release_count |-> 0,
     total_execution_ticks |-> 0, job_execution_ticks |-> 0]

----------------------------------------------------------------------------
\* Jobs: one at a time for each task.

\* The part of activate_job that refuses: the job's deadline, or the release
\* after it, would not fit in 64 bits.
ActivationFits(task) ==
    /\ task.release_order <= UINT64_MAX - task.relative_deadline_ticks
    /\ task.kind = "PERIODIC"
         => task.release_order <= UINT64_MAX - task.period_ticks

\* Mutant: the previous job's miss stays latched.
ActivateKeepingLatch(task) ==
    IF ~ActivationFits(task)
    THEN [task EXCEPT !.time_range_exhausted = TRUE]
    ELSE [task EXCEPT
            !.absolute_deadline_order =
                task.release_order + task.relative_deadline_ticks,
            !.job_active = TRUE,
            !.job_sequence = increment_saturating(@),
            !.next_release_order = task.release_order + task.period_ticks,
            !.state = "READY"]

activate_job(task) ==
    IF ~ActivationFits(task)
    THEN [task EXCEPT !.time_range_exhausted = TRUE]
    ELSE [task EXCEPT
            !.absolute_deadline_order =
                task.release_order + task.relative_deadline_ticks,
            !.job_execution_ticks = 0,
            !.deadline_miss_latched = FALSE,
            !.job_active = TRUE,
            !.job_sequence = increment_saturating(@),
            !.next_release_order =
                IF task.kind = "PERIODIC"
                THEN task.release_order + task.period_ticks
                ELSE 0,
            !.state = "READY"]

\* The conditions under which os_sched_task_configure accepts a DORMANT task.
ConfigureAccepts(config, now) ==
    LET release == now + config.initial_release_delay_ticks IN
    /\ os_sched_config_valid(config)
    /\ release <= UINT64_MAX
    /\ release <= UINT64_MAX - config.relative_deadline_ticks
    /\ config.kind = "PERIODIC" => release <= UINT64_MAX - config.period_ticks

os_sched_task_configure(config, now) ==
    LET release == now + config.initial_release_delay_ticks
        configured == [ResetTask EXCEPT
            !.kind = config.kind,
            !.release_order = release,
            !.next_release_order = release,
            !.period_ticks = config.period_ticks,
            !.relative_deadline_ticks = config.relative_deadline_ticks,
            !.priority = config.priority,
            !.state = "WAITING_RELEASE"]
    IN IF config.initial_release_delay_ticks = 0
       THEN activate_job(configured)
       ELSE configured

\* os_sched_release_due: a waiting task whose release time has come.
ReleaseIsDue(task, now) ==
    /\ task.state = "WAITING_RELEASE"
    /\ ~task.job_active
    /\ os_tick_reached(now, task.next_release_order)

os_sched_release_due(task, now) ==
    IF ReleaseIsDue(task, now)
    THEN activate_job([task EXCEPT !.release_order = task.next_release_order])
    ELSE task

\* os_sched_wake_due
WakeIsDue(task, now) ==
    /\ task.state = "SLEEPING"
    /\ task.job_active
    /\ os_tick_reached(now, task.wake_order)

os_sched_wake_due(task, now) ==
    IF WakeIsDue(task, now) THEN [task EXCEPT !.state = "READY"] ELSE task

\* os_sched_sleep; the job stays active while its task sleeps.
\* Mutant: the end of the time range taken for the longest interval.
SleepAcceptsEarly(task, now, sleep_ticks) ==
    /\ task.state = "RUNNING" /\ task.job_active
    /\ sleep_ticks # 0
    /\ now <= OS_MAX_TIME_INTERVAL - sleep_ticks

SleepAccepts(task, now, sleep_ticks) ==
    /\ task.state = "RUNNING"
    /\ task.job_active
    /\ sleep_ticks # 0
    /\ sleep_ticks \in Intervals
    /\ now <= UINT64_MAX - sleep_ticks

os_sched_sleep(task, now, sleep_ticks) ==
    [task EXCEPT !.wake_order = now + sleep_ticks, !.state = "SLEEPING"]

\* os_sched_record_deadline_miss: once per job.
\* Mutant: counts a late job again at every tick.
RecordMissUnlatched(task, now) ==
    IF task.job_active /\ os_tick_reached(now, task.absolute_deadline_order)
    THEN [task EXCEPT !.deadline_miss_latched = TRUE,
                      !.deadline_miss_count = increment_saturating(@)]
    ELSE task

os_sched_record_deadline_miss(task, now) ==
    IF /\ task.job_active
       /\ ~task.deadline_miss_latched
       /\ os_tick_reached(now, task.absolute_deadline_order)
    THEN [task EXCEPT !.deadline_miss_latched = TRUE,
                      !.deadline_miss_count = increment_saturating(@)]
    ELSE task

\* os_sched_complete_job
CompleteAccepts(task) == task.state = "RUNNING" /\ task.job_active

os_sched_complete_job(task, now) ==
    [os_sched_record_deadline_miss(task, now) EXCEPT
        !.job_active = FALSE,
        !.completed_job_count = increment_saturating(@)]

\* os_sched_wait_next_period
\* Mutant: the next release counted from the completion.
WaitFromCompletion(task, now) ==
    [os_sched_complete_job(task, now) EXCEPT
        !.state = "WAITING_RELEASE",
        !.next_release_order = now + task.period_ticks]

os_sched_wait_next_period(task, now) ==
    [os_sched_complete_job(task, now) EXCEPT !.state = "WAITING_RELEASE"]

\* os_sched_record_active_release: a release that arrives while the previous
\* job is still active is counted, and is neither queued nor postponed.
os_sched_record_active_release(task, now) ==
    IF \/ task.kind # "PERIODIC"
       \/ ~task.job_active
       \/ task.state \in {"DORMANT", "EXITING"}
       \/ ~os_tick_reached(now, task.next_release_order)
    THEN task
    ELSE IF \/ task.period_ticks = 0
            \/ task.next_release_order > UINT64_MAX - task.period_ticks
    THEN [task EXCEPT !.time_range_exhausted = TRUE]
    ELSE [task EXCEPT !.missed_release_count = increment_saturating(@),
                      !.next_release_order = @ + task.period_ticks]

\* os_sched_account_running_tick
\* Mutant: charges ready tasks too.
AccountReadyTick(task) ==
    IF task.job_active
    THEN [task EXCEPT !.total_execution_ticks = increment_saturating(@)]
    ELSE task

os_sched_account_running_tick(task) ==
    IF task.state = "RUNNING" /\ task.job_active
    THEN [task EXCEPT !.total_execution_ticks = increment_saturating(@),
                      !.job_execution_ticks = increment_saturating(@)]
    ELSE task

----------------------------------------------------------------------------
\* Earliest deadline first, ties to the smaller priority number and then to
\* the smaller task id.

\* Mutant: a sleeping task's job is active too.
HasJob(task) == task.job_active

IsReady(task) == task.state = "READY" /\ task.job_active

\* The comparison of two user tasks, c and i, of the table ts.
\* Mutants: the priority the wrong way round; a tie counted as precedence.
PrecedesByLargePriority(ts, c, i) ==
    \/ ts[c].absolute_deadline_order < ts[i].absolute_deadline_order
    \/ /\ ts[c].absolute_deadline_order = ts[i].absolute_deadline_order
       /\ \/ ts[c].priority > ts[i].priority
          \/ ts[c].priority = ts[i].priority /\ c < i

PrecedesOnTie(ts, c, i) ==
    ts[c].absolute_deadline_order <= ts[i].absolute_deadline_order

PrecedesKey(ts, c, i) ==
    \/ ts[c].absolute_deadline_order < ts[i].absolute_deadline_order
    \/ /\ ts[c].absolute_deadline_order = ts[i].absolute_deadline_order
       /\ \/ ts[c].priority < ts[i].priority
          \/ ts[c].priority = ts[i].priority /\ c < i

\* Every user task outranks idle; nobody outranks an incumbent that is not
\* READY or RUNNING with an active job.
os_sched_outranks(ts, c, i) ==
    /\ c # OS_TASK_ID_IDLE
    /\ IsReady(ts[c])
    /\ \/ i = OS_TASK_ID_IDLE
       \/ /\ ts[i].job_active
          /\ ts[i].state \in {"READY", "RUNNING"}
          /\ PrecedesKey(ts, c, i)

ReadyUserTasks(ts) == {c \in UserTasks : IsReady(ts[c])}

\* Mutant: the exclusion forgotten.
AllReady(ts, excluded) == ReadyUserTasks(ts)

Candidates(ts, excluded) == ReadyUserTasks(ts) \ {excluded}

\* os_sched_select scans the table for the best ready task; the result is
\* the one that outranks every other candidate (SchedulerSelect.tla compares
\* this definition with the scan).  An excluded task runs only when nobody
\* else is ready, and idle only when no user task is.
os_sched_select(ts, excluded) ==
    LET candidates == Candidates(ts, excluded)
        best == {c \in candidates :
                    \A d \in candidates \ {c} : os_sched_outranks(ts, c, d)}
    IN CASE best # {} -> CHOOSE c \in best : TRUE
         [] best = {} /\ excluded \in ReadyUserTasks(ts) -> excluded
         [] best = {} /\ excluded \notin ReadyUserTasks(ts)
              /\ ts[OS_TASK_ID_IDLE].state = "READY" -> OS_TASK_ID_IDLE
         [] OTHER -> OS_TASK_ID_INVALID
=============================================================================
