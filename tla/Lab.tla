-------------------------------- MODULE Lab --------------------------------
(***************************************************************************)
(* What the applications of apps/ share when they run on the kernel: the   *)
(* task sets their main functions create, the timer, the exceptions, WFI   *)
(* and the idle loop of idle_entry with board_lifecycle_idle_hook.         *)
(*                                                                         *)
(* Kernel lets tasks make any call at any time.  Here each task's code is  *)
(* where "at" says, and only its next call is made.  SysTick becomes       *)
(* pending when the timer elapses, is taken once PRIMASK is clear, and     *)
(* wakes WFI even under PRIMASK.                                           *)
(*                                                                         *)
(* A require that fails calls board_kernel_panic: its name joins panics.   *)
(***************************************************************************)
EXTENDS Kernel, Sequences

CONSTANT LateBound      \* bound: ticks that TickExpected does not allow

ASSUME LateBoundAssumption == LateBound \in Nat

\* OS_MAX_USER_TASKS is 4 in the code, and the largest task set needs them.
ASSUME TaskSetsFit == OS_MAX_USER_TASKS >= 4

VARIABLES
    application,        \* the firmware that was built
    late,               \* history: ticks that came before code kept its budget
    systick_pending,
    asleep,             \* the CPU waits in WFI
    at,                 \* where each task's code is
    info,               \* what each task's last os_task_info returned
    finished,           \* the tasks that have set their finished flag
    trace_flushed       \* the idle hook has done its last work

lab_vars == <<application, late, systick_pending, asleep, at, info,
              finished, trace_flushed>>

\* The variables of the kernel but panics.
kernel_state == <<identity, yield_excluded_task, pending, monotonic_ticks,
                  reclaims, tasks, schedules, owned, hardware, last_switch>>

FINAL_TICK == 21

----------------------------------------------------------------------------
\* The task sets of the main functions.

\* os_task_config_default with a relative deadline and a priority.
delayed_one_shot(delay, deadline, priority) ==
    [kind |-> "ONE_SHOT", initial_release_delay_ticks |-> delay,
     period_ticks |-> 0, relative_deadline_ticks |-> deadline,
     priority |-> priority]

one_shot(deadline, priority) == delayed_one_shot(0, deadline, priority)

periodic(delay, period, deadline, priority) ==
    [kind |-> "PERIODIC", initial_release_delay_ticks |-> delay,
     period_ticks |-> period, relative_deadline_ticks |-> deadline,
     priority |-> priority]

\* execution: ticks a job takes, its execution_budget_ticks; jobs: job_limit
\* or FRAME_COUNT.
task(timing, execution, jobs) ==
    [timing |-> timing, execution |-> execution, jobs |-> jobs]

\* Mutant: all of them released at once.
SignalTasksUndelayed == <<task(periodic(0, 6, 3, 0), 1, 4),
                          task(periodic(0, 6, 3, 1), 1, 4),
                          task(periodic(0, 6, 3, 2), 1, 4)>>

SignalTasks == <<task(periodic(0, 6, 3, 0), 1, 4),
                 task(periodic(1, 6, 3, 1), 1, 4),
                 task(periodic(2, 6, 3, 2), 1, 4)>>

DeadlineTasks(load_execution) ==
    <<task(periodic(0, 6, 3, 0), 1, 3),
      task(periodic(1, 10, 8, 1), 2, 2),
      task(periodic(2, 18, 14, 2), 1, 2),
      task(one_shot(12, 3), load_execution, 1)>>

\* The applications below measure no execution.
A_DEADLINE == 15
TraceTasks == <<task(one_shot(A_DEADLINE, 128), 0, 1),
                task(delayed_one_shot(1, 3, 128), 0, 1),
                task(one_shot(200, 128), 0, 1)>>

EdfTasks == <<task(periodic(5, 15, 10, 1), 0, 2), task(one_shot(50, 2), 0, 1)>>

LifecycleTasks == <<task(one_shot(1000, 1), 0, 1),
                    task(one_shot(1000, 2), 0, 1)>>

AllocatorTasks == <<task(one_shot(1000000, 200), 0, 1)>>

\* The applications that are built with AYMOS_TRACE_ENABLED, and the others.
Traced == {"signal_lab", "deadline_lab", "overload_lab", "trace"}
Applications == Traced \cup {"edf", "lifecycle", "allocator"}

Workload == CASE application = "signal_lab" -> SignalTasks
              [] application = "deadline_lab" -> DeadlineTasks(1)
              [] application = "overload_lab" -> DeadlineTasks(8)
              [] application = "trace" -> TraceTasks
              [] application = "edf" -> EdfTasks
              [] application = "lifecycle" -> LifecycleTasks
              [] application = "allocator" -> AllocatorTasks

\* os_task_info, at once because it masks interrupts: the fields the
\* laboratories look at.
os_task_info(id) ==
    [state |-> schedules[id].state,
     job_active |-> schedules[id].job_active,
     job_execution_ticks |-> schedules[id].job_execution_ticks,
     deadline_miss_count |-> schedules[id].deadline_miss_count]

LabInit ==
    /\ Init
    /\ application \in Applications
    /\ late = 0
    /\ systick_pending = FALSE
    /\ asleep = FALSE
    /\ at = [id \in TaskIds |-> IF id = OS_TASK_ID_IDLE THEN "hook" ELSE "job"]
    /\ info = [id \in TaskIds |-> os_task_info(id)]
    /\ finished = {}
    /\ trace_flushed = FALSE

Created == {id \in UserTasks : tasks[id].stack_claimed}

\* main: os_task_create for each task, then os_kernel_start.
MainCreates ==
    /\ cpu = "main"
    /\ Cardinality(Created) < Len(Workload)
    /\ os_task_create(Workload[Cardinality(Created) + 1].timing)
    /\ UNCHANGED lab_vars

MainStarts ==
    /\ Cardinality(Created) = Len(Workload)
    /\ os_kernel_start
    /\ UNCHANGED lab_vars

----------------------------------------------------------------------------
\* The timer and the exceptions.

UserJobRuns == current_task \in UserTasks
                 /\ schedules[current_task].state = "RUNNING"

\* The first ticks, which an application tolerates anywhere: bounds where it
\* tolerates more.  The load of the deadline laboratory and the trace workload
\* need the first one to come when their first task executes, not between
\* os_kernel_start and the first switch.
EarlyTicks == CASE application = "signal_lab" -> 1
                [] application \in {"edf", "lifecycle", "allocator"} -> 4
                [] OTHER -> 0

\* A loop of the current task runs until ticks have come.
PollsForTicks ==
    \/ at[current_task] = "spin"
    \/ at[current_task] = "poll"
         /\ CASE application = "trace" -> monotonic_ticks < A_DEADLINE
              [] application = "edf" -> finished = {}
              [] application = "lifecycle" -> reclaim_counter = 0

\* The budgets: after the first ticks, a job is complete before a tick beyond
\* its execution_budget_ticks, and no tick falls into the idle loop awake,
\* into a handler or between two tasks.
TickExpected ==
    \/ monotonic_ticks < EarlyTicks
    \/ asleep
    \/ /\ cpu = "thread" /\ UserJobRuns
       /\ \/ PollsForTicks
          \/ /\ current_task \in DOMAIN Workload
             /\ schedules[current_task].job_execution_ticks
                  < Workload[current_task].execution

\* Bound: no tick once the application has ended.
TimerElapses ==
    /\ panics = {} /\ running /\ ~systick_pending
    /\ ~trace_flushed /\ monotonic_ticks < TickBound
    /\ IF TickExpected THEN UNCHANGED late
       ELSE late < LateBound /\ late' = late + 1
    /\ systick_pending' = TRUE
    /\ asleep' = FALSE
    /\ UNCHANGED <<vars, application, at, info, finished, trace_flushed>>

TickIsTaken == systick_pending /\ ~primask

SysTick_Handler ==
    /\ TickIsTaken
    /\ SysTick
    /\ systick_pending' = FALSE
    /\ UNCHANGED <<application, late, asleep, at, info, finished,
                   trace_flushed>>

\* SysTick comes first.
SwitchStep ==
    /\ ~TickIsTaken
    /\ SvcStart \/ PendsvEnter \/ os_pendsv_switch \/ PendsvReturn
    /\ UNCHANGED lab_vars

----------------------------------------------------------------------------
\* The code of a task.

Executes(id, place) ==
    /\ ThreadExecutes /\ ~TickIsTaken /\ ~asleep
    /\ current_task = id
    /\ at[id] = place

Goes(id, place) == at' = [at EXCEPT ![id] = place]

\* require: on to the next place, or no further.
Requires(id, condition, reason, place) ==
    /\ panics' = Check(condition, reason)
    /\ IF condition THEN Goes(id, place) ELSE UNCHANGED at

NoCall == UNCHANGED vars

\* A step that is one call of the kernel, or none.
Calls(id, place, call, next) ==
    /\ Executes(id, place)
    /\ call
    /\ Goes(id, next)
    /\ UNCHANGED <<application, late, systick_pending, asleep, info, finished,
                   trace_flushed>>

\* A step that only goes on when a requirement holds.
Asserts(id, place, condition, reason, next) ==
    /\ Executes(id, place)
    /\ Requires(id, condition, reason, next)
    /\ UNCHANGED <<kernel_state, application, late, systick_pending, asleep,
                   info, finished, trace_flushed>>

\* A call of os_task_create that fills a given slot: the code of the new task
\* starts at its entry function.
CreatesTask(id, place, timing, slot, entry, next) ==
    /\ Executes(id, place)
    /\ os_task_create(timing)
    /\ at' = [at EXCEPT ![id] = next, ![slot] = entry]
    /\ UNCHANGED <<application, late, systick_pending, asleep, info, finished,
                   trace_flushed>>

Finishes(id, place, flag) ==
    /\ Executes(id, place)
    /\ finished' = finished \cup {flag}
    /\ Goes(id, "return")
    /\ UNCHANGED <<vars, application, late, systick_pending, asleep, info,
                   trace_flushed>>

Reclaimed(count, last) == reclaim_counter = count /\ last_reclaimed = last

\* The entry function returns to task_entry_trampoline, which exits.
TaskReturns(id) == Calls(id, "return", SvcExit, "gone")

\* os_wait_next_period; the call returns in the next job.
TaskWaits(id) == Calls(id, "period", SvcWaitNextPeriod, "job")

\* idle_entry: the hook, then WFI; again and again when traced.
IdleHook(done, complete) ==
    /\ Executes(OS_TASK_ID_IDLE, "hook")
    /\ IF done /\ ~trace_flushed
       THEN /\ Requires(OS_TASK_ID_IDLE, complete, "LAB_COMPLETE", "wfi")
            /\ trace_flushed' = complete
       ELSE /\ Goes(OS_TASK_ID_IDLE, "wfi")
            /\ UNCHANGED <<panics, trace_flushed>>
    /\ UNCHANGED <<kernel_state, application, late, systick_pending, asleep,
                   info, finished>>

\* Mutant: the hook is not called again after WFI.
IdleWaitsOn ==
    /\ Executes(OS_TASK_ID_IDLE, "wfi")
    /\ asleep' = TRUE
    /\ UNCHANGED <<vars, application, late, systick_pending, at, info, finished,
                   trace_flushed>>

IdleWaits ==
    /\ Executes(OS_TASK_ID_IDLE, "wfi")
    /\ asleep' = TRUE
    /\ Goes(OS_TASK_ID_IDLE, IF application \in Traced THEN "hook" ELSE "wfi")
    /\ UNCHANGED <<vars, application, late, systick_pending, info, finished,
                   trace_flushed>>

AllFinished == finished = DOMAIN Workload

\* What both laboratories' hooks require of the kernel.
Completed(last) ==
    monotonic_ticks = FINAL_TICK /\ Reclaimed(Len(Workload), last)

Harness == \/ MainCreates \/ MainStarts
           \/ TimerElapses \/ SysTick_Handler \/ SwitchStep
           \/ IdleWaits
           \/ \E id \in UserTasks : TaskReturns(id) \/ TaskWaits(id)
=============================================================================
