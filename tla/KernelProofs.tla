---------------------------- MODULE KernelProofs ----------------------------
(***************************************************************************)
(* The kernel, for every number of slots, every set of configurations,     *)
(* every width of the counters and of time, and every interleaving of      *)
(* calls, SysTick and PendSV: KernelInv is inductive, part by part         *)
(* (StructureInv, TimeInv, UrgencyInv), and implies the invariants of      *)
(* KernelProperties; then the properties of its steps, and that it         *)
(* implements TaskLifecycle.                                               *)
(***************************************************************************)
EXTENDS KernelInvariant, SchedulerProofs

----------------------------------------------------------------------------
\* Types and structure: type correctness of the kernel and the structural
\* part of its inductive invariant.

\* One turn of os_kernel_tick's loop keeps a record well-typed.
LEMMA TickType ==
    ASSUME NEW task \in SchedTask, NEW now \in Nat
    PROVE  /\ CountedTick(task, now) \in SchedTask
           /\ ReleasedTick(task, now) \in SchedTask
           /\ TickTask(task, now) \in SchedTask
  <1>1. CountedTick(task, now) \in SchedTask
    BY AccountType, MissType, ActiveReleaseType DEF CountedTick
  <1>2. ReleasedTick(task, now) \in SchedTask
    BY <1>1, ReleaseDueType DEF ReleasedTick
  <1> QED
    BY <1>1, <1>2, WakeDueType DEF TickTask

\* A record stays well-typed when only its state changes.
LEMMA StateType ==
    ASSUME NEW task \in SchedTask, NEW state \in States
    PROVE  [task EXCEPT !.state = state] \in SchedTask
  BY DEF SchedTask

\* The identifiers are numbers, and the invalid one is no task.
LEMMA IdTypes ==
    /\ OS_TASK_ID_IDLE \in TaskIds
    /\ UserTasks \subseteq TaskIds
    /\ OS_TASK_ID_INVALID \notin TaskIds
    /\ TaskIdsOrInvalid = TaskIds \cup {OS_TASK_ID_INVALID}
    /\ TaskIds = UserTasks \cup {OS_TASK_ID_IDLE}
    /\ OS_TASK_ID_IDLE \notin UserTasks
  BY SchedulerConstants
  DEF TaskIds, UserTasks, TaskIdsOrInvalid, OS_TASK_ID_IDLE,
      OS_TASK_ID_INVALID

\* The slot os_task_create fills is the lowest free one.
LEMMA LowestFreeSlot ==
    ASSUME FreeSlots # {}
    PROVE  (CHOOSE s \in FreeSlots : \A t \in FreeSlots : s <= t) \in FreeSlots
  <1>1. FreeSlots \in SUBSET Nat
    BY SchedulerConstants DEF FreeSlots, UserTasks
  <1> QED BY <1>1, NatMinimum

LEMMA CheckType ==
    ASSUME NEW condition, NEW reason \in PanicReasons
    PROVE  Check(condition, reason) \subseteq PanicReasons
  BY DEF Check

LEMMA CauseType ==
    ASSUME NEW sources \in SUBSET PreemptSources, sources # {}
    PROVE  CauseOf(sources) \in SwitchCauses
  BY DEF CauseOf, SwitchCauses, PreemptSources

\* A request adds a source and names the cause (record_preemption_request).
LEMMA RequestType ==
    ASSUME TypeOK, NEW source \in PreemptSources,
           record_preemption_request(source)
    PROVE  /\ pending_preempt_sources' \subseteq PreemptSources
           /\ pending_switch_cause' \in SwitchCauses
  BY CauseType DEF TypeOK, record_preemption_request

LEMMA InitType == Init => TypeOK
  <1> SUFFICES ASSUME Init PROVE TypeOK
    OBVIOUS
  <1>1. 0 \in Orders /\ 0 \in Counts
    BY SchedulerConstants DEF Orders, Counts
  <1>2. schedules \in [TaskIds -> SchedTask]
    BY ResetType, StateType DEF Init, States
  <1>3. tasks \in [TaskIds -> [stack_claimed : BOOLEAN, started : BOOLEAN]]
    BY DEF Init, FreeTcb
  <1>4. last_switch \in [outgoing : TaskIdsOrInvalid, next : TaskIdsOrInvalid,
                         cause : SwitchCauses, state : States]
    BY DEF Init, NoSwitch, SwitchCauses, States, TaskIdsOrInvalid
  <1> QED
    BY <1>1, <1>2, <1>3, <1>4
    DEF Init, TypeOK, SwitchCauses, TaskIdsOrInvalid

LEMMA CreateType ==
    ASSUME TypeOK, NEW config \in Configs, os_task_create(config)
    PROVE  TypeOK'
  <1> DEFINE id == CHOOSE s \in FreeSlots : \A t \in FreeSlots : s <= t
             filled == os_sched_task_configure(config, monotonic_ticks)
  <1>1. id \in UserTasks
    BY LowestFreeSlot DEF os_task_create, FreeSlots
  <1>2. filled \in SchedTask
    BY ConfigureType, KernelConstants DEF os_task_create, TypeOK
  <1> HIDE DEF id, filled
  <1>3. /\ schedules' = [schedules EXCEPT ![id] = filled]
        /\ tasks' = [tasks EXCEPT ![id].stack_claimed = TRUE]
    BY DEF os_task_create, id, filled
  <1>4. /\ pending_preempt_sources' \subseteq PreemptSources
        /\ pending_switch_cause' \in SwitchCauses
        /\ pendsv_pending' \in BOOLEAN
    <2>1. "RUNTIME_CREATE" \in PreemptSources
      BY DEF PreemptSources
    <2>2. \/ record_preemption_request("RUNTIME_CREATE") /\ request_pendsv
          \/ UNCHANGED <<pending, pendsv_pending>>
      BY DEF os_task_create
    <2> QED BY <2>1, <2>2, RequestType DEF request_pendsv, TypeOK, pending
  <1>5. panics' \subseteq PanicReasons
    <2>1. "CREATE" \in PanicReasons
      BY DEF PanicReasons
    <2> QED BY <2>1, CheckType DEF os_task_create
  <1>6. schedules' \in [TaskIds -> SchedTask]
    BY <1>1, <1>2, <1>3, IdTypes DEF TypeOK
  <1>7. tasks' \in [TaskIds -> [stack_claimed : BOOLEAN, started : BOOLEAN]]
    BY <1>1, <1>3, IdTypes DEF TypeOK
  <1> QED
    BY <1>4, <1>5, <1>6, <1>7, ZenonT(60)
    DEF TypeOK, os_task_create, identity, reclaims

\* A system call whose replacement record is well-typed, when accepted, keeps
\* everything but yield_excluded_task well-typed (os_svc_dispatch).
LEMMA SystemCallType ==
    ASSUME TypeOK,
           NEW reason \in PanicReasons, NEW accepted \in BOOLEAN, NEW task,
           NEW cause \in SwitchCauses,
           SystemCall(reason, accepted, task, cause),
           accepted /\ current_task \in TaskIds => task \in SchedTask,
           yield_excluded_task' \in TaskIdsOrInvalid
    PROVE  TypeOK'
  <1>1. schedules' \in [TaskIds -> SchedTask]
    <2>1. CASE accepted /\ current_task \in TaskIds
      BY <2>1 DEF SystemCall, TypeOK
    <2>2. CASE ~(accepted /\ current_task \in TaskIds)
      BY <2>2 DEF SystemCall, TypeOK
    <2> QED BY <2>1, <2>2
  <1>2. panics' \subseteq PanicReasons
    BY CheckType DEF SystemCall
  <1> QED
    BY <1>1, <1>2
    DEF SystemCall, TypeOK, request_pendsv, identity, reclaims

LEMMA CallerType ==
    ASSUME TypeOK, current_task \in TaskIds
    PROVE  Caller \in SchedTask
  BY DEF TypeOK, Caller

LEMMA YieldType == TypeOK /\ SvcYield => TypeOK'
  <1> SUFFICES ASSUME TypeOK, SvcYield PROVE TypeOK'
    OBVIOUS
  <1> DEFINE task == [Caller EXCEPT !.state = "READY"]
  <1>1. current_task \in TaskIds => task \in SchedTask
    BY CallerType, StateType DEF States
  <1>2. SystemCall("SVC_YIELD", TRUE, task, "YIELD")
    BY DEF SvcYield
  <1>3. "SVC_YIELD" \in PanicReasons /\ "YIELD" \in SwitchCauses
    BY DEF PanicReasons, SwitchCauses
  <1>4. yield_excluded_task' \in TaskIdsOrInvalid
    BY DEF SvcYield, TypeOK
  <1> HIDE DEF task
  <1> QED BY <1>1, <1>2, <1>3, <1>4, SystemCallType

LEMMA SleepStepType ==
    ASSUME TypeOK, NEW sleep_ticks \in SleepTicks, SvcSleep(sleep_ticks)
    PROVE  TypeOK'
  <1> DEFINE accepted == SleepAccepts(Caller, monotonic_ticks, sleep_ticks)
             task == os_sched_sleep(Caller, monotonic_ticks, sleep_ticks)
  <1>1. accepted /\ current_task \in TaskIds => task \in SchedTask
    BY CallerType, SleepType, KernelConstants DEF TypeOK
  <1>2. accepted \in BOOLEAN
    BY DEF SleepAccepts
  <1>3. SystemCall("TASK_SLEEP", accepted, task, "SLEEP")
    BY DEF SvcSleep
  <1>4. "TASK_SLEEP" \in PanicReasons /\ "SLEEP" \in SwitchCauses
    BY DEF PanicReasons, SwitchCauses
  <1>5. yield_excluded_task' \in TaskIdsOrInvalid
    BY DEF SvcSleep, TypeOK
  <1> HIDE DEF accepted, task
  <1> QED BY <1>1, <1>2, <1>3, <1>4, <1>5, SystemCallType

LEMMA TickIsNat == TypeOK => monotonic_ticks \in Nat
  BY SchedulerConstants DEF TypeOK, Orders

LEMMA ExitType == TypeOK /\ SvcExit => TypeOK'
  <1> SUFFICES ASSUME TypeOK, SvcExit PROVE TypeOK'
    OBVIOUS
  <1> DEFINE task == [os_sched_complete_job(Caller, monotonic_ticks)
                         EXCEPT !.state = "EXITING"]
  <1>1. current_task \in TaskIds => task \in SchedTask
    BY CallerType, CompleteType, TickIsNat DEF States
  <1>2. CompleteAccepts(Caller) \in BOOLEAN
    BY DEF CompleteAccepts
  <1>3. SystemCall("EXIT_COMPLETE", CompleteAccepts(Caller), task, "EXIT")
    BY DEF SvcExit
  <1>4. "EXIT_COMPLETE" \in PanicReasons /\ "EXIT" \in SwitchCauses
    BY DEF PanicReasons, SwitchCauses
  <1>5. yield_excluded_task' \in TaskIdsOrInvalid
    BY DEF SvcExit, TypeOK
  <1> HIDE DEF task
  <1> QED BY <1>1, <1>2, <1>3, <1>4, <1>5, SystemCallType

LEMMA WaitType == TypeOK /\ SvcWaitNextPeriod => TypeOK'
  <1> SUFFICES ASSUME TypeOK, SvcWaitNextPeriod PROVE TypeOK'
    OBVIOUS
  <1> DEFINE task == os_sched_wait_next_period(Caller, monotonic_ticks)
  <1>1. current_task \in TaskIds => task \in SchedTask
    BY CallerType, CompleteType, TickIsNat
    DEF os_sched_wait_next_period, States
  <1>2. CompleteAccepts(Caller) \in BOOLEAN
    BY DEF CompleteAccepts
  <1>3. SystemCall("SVC_PERIOD", CompleteAccepts(Caller), task, "WAIT_PERIOD")
    BY DEF SvcWaitNextPeriod
  <1>4. "SVC_PERIOD" \in PanicReasons /\ "WAIT_PERIOD" \in SwitchCauses
    BY DEF PanicReasons, SwitchCauses
  <1>5. yield_excluded_task' \in TaskIdsOrInvalid
    BY DEF SvcWaitNextPeriod, TypeOK
  <1> HIDE DEF task
  <1> QED BY <1>1, <1>2, <1>3, <1>4, <1>5, SystemCallType

\* os_kernel_tick, with or without a preemption request.
LEMMA SysTickType == TypeOK /\ SysTick => TypeOK'
  <1> SUFFICES ASSUME TypeOK, SysTick PROVE TypeOK'
    OBVIOUS
  <1> DEFINE now == monotonic_ticks + 1
             ticked == [id \in TaskIds |->
                          IF id = OS_TASK_ID_IDLE THEN schedules[id]
                          ELSE TickTask(schedules[id], now)]
             unchanged == UNCHANGED <<identity, yield_excluded_task, reclaims,
                                      tasks, owned, cpu, primask, last_switch>>
  <1>0. unchanged
    BY DEF SysTick
  <1>1. CASE monotonic_ticks = UINT64_MAX
    <2>1. "TICK_RANGE" \in PanicReasons
      BY DEF PanicReasons
    <2>2. /\ panics' = {"TICK_RANGE"}
          /\ UNCHANGED <<monotonic_ticks, schedules, pending, pendsv_pending>>
      BY <1>1 DEF SysTick
    <2> QED
      BY <1>0, <2>1, <2>2 DEF TypeOK, pending, identity, reclaims
  <1>2. CASE monotonic_ticks # UINT64_MAX
    <2>1. now \in Nat /\ now \in Orders /\ monotonic_ticks' = now
      <3>1. monotonic_ticks \in Orders
        BY DEF TypeOK
      <3>2. now \in Nat /\ now \in Orders
        BY <1>2, <3>1, SchedulerConstants DEF Orders
      <3>3. monotonic_ticks' = now
        BY <1>2 DEF SysTick
      <3> QED BY <3>2, <3>3
    <2>2. ticked \in [TaskIds -> SchedTask]
      BY <2>1, TickType DEF TypeOK
    <2>3. panics' \subseteq PanicReasons
      <3>1. "TASK_TIME_RANGE" \in PanicReasons
        BY DEF PanicReasons
      <3> QED BY <1>2, <3>1, CheckType DEF SysTick
    <2>4. \/ /\ record_preemption_request("SYSTICK")
             /\ schedules' = [ticked EXCEPT ![current_task].state = "READY"]
             /\ request_pendsv
          \/ /\ schedules' = ticked
             /\ UNCHANGED <<pending, pendsv_pending>>
      BY <1>2 DEF SysTick
    <2> HIDE DEF ticked, now
    <2>5. schedules' \in [TaskIds -> SchedTask]
      <3>1. CASE schedules' = [ticked EXCEPT ![current_task].state = "READY"]
        <4>1. ASSUME current_task \in TaskIds
              PROVE  [ticked[current_task] EXCEPT !.state = "READY"]
                        \in SchedTask
          BY <2>2, <4>1, StateType DEF States
        <4> QED BY <2>2, <3>1, <4>1
      <3> QED BY <2>2, <2>4, <3>1
    <2>6. /\ pending_preempt_sources' \subseteq PreemptSources
          /\ pending_switch_cause' \in SwitchCauses
          /\ pendsv_pending' \in BOOLEAN
      <3>1. "SYSTICK" \in PreemptSources
        BY DEF PreemptSources
      <3> QED
        BY <2>4, <3>1, RequestType DEF request_pendsv, TypeOK, pending
    <2> HIDE DEF unchanged
    <2> QED
      BY <1>0, <2>1, <2>3, <2>5, <2>6
      DEF TypeOK, identity, reclaims, unchanged
  <1> QED BY <1>1, <1>2

\* What PendSV makes of the outgoing task (transition_task, reset_task).
LEMMA ParkedType ==
    ASSUME TypeOK, NEW id \in TaskIds
    PROVE  Parked(id) \in [TaskIds -> SchedTask]
  <1>1. [schedules[id] EXCEPT !.state = "READY"] \in SchedTask
    BY StateType DEF TypeOK, States
  <1>2. [schedules EXCEPT ![id].state = "READY"] \in [TaskIds -> SchedTask]
    BY <1>1 DEF TypeOK
  <1>3. [schedules EXCEPT ![id] = ResetTask] \in [TaskIds -> SchedTask]
    BY ResetType DEF TypeOK
  <1> QED BY <1>2, <1>3 DEF Parked, TypeOK

\* os_pendsv_switch.
LEMMA SwitchType == TypeOK /\ os_pendsv_switch => TypeOK'
  <1> SUFFICES ASSUME TypeOK, os_pendsv_switch PROVE TypeOK'
    OBVIOUS
  <1> DEFINE outgoing == current_task
             isTask == outgoing # OS_TASK_ID_INVALID
             outgoing_state ==
                 IF isTask THEN schedules[outgoing].state ELSE "DORMANT"
             exiting == outgoing_state = "EXITING"
             saved == IF isTask THEN Parked(outgoing) ELSE schedules
             tcbs == IF exiting THEN [tasks EXCEPT ![outgoing] = FreeTcb]
                     ELSE tasks
             selected == os_sched_select(saved, yield_excluded_task)
             next == IF selected = OS_TASK_ID_INVALID THEN OS_TASK_ID_IDLE
                     ELSE selected
             Tcbs == [TaskIds -> [stack_claimed : BOOLEAN, started : BOOLEAN]]
  <1>1. outgoing \in TaskIdsOrInvalid /\ (isTask => outgoing \in TaskIds)
    BY IdTypes DEF TypeOK
  <1>2. outgoing_state \in States
    BY <1>1 DEF TypeOK, SchedTask, States
  <1>3. saved \in [TaskIds -> SchedTask]
    BY <1>1, ParkedType DEF TypeOK
  <1>4. exiting => outgoing \in TaskIds
    BY <1>1
  <1>5. tcbs \in Tcbs
    BY <1>4 DEF TypeOK, FreeTcb
  <1>6. next \in TaskIds
    BY <1>3, SelectResult, IdTypes DEF TypeOK
  <1>7. [saved EXCEPT ![next].state = "RUNNING"] \in [TaskIds -> SchedTask]
    BY <1>3, <1>6, StateType DEF States
  <1>8. schedules' \in [TaskIds -> SchedTask]
    BY <1>7 DEF os_pendsv_switch
  <1>9. tasks' \in Tcbs
    <2>1. tasks' = IF next = OS_TASK_ID_IDLE THEN tcbs
                   ELSE [tcbs EXCEPT ![next].started = TRUE]
      BY DEF os_pendsv_switch
    <2> HIDE DEF tcbs, next
    <2> QED BY <1>5, <1>6, <2>1
  <1>10. owned' \in [TaskIds -> Nat]
    BY <1>4 DEF os_pendsv_switch, os_allocator_release_owner, TypeOK
  <1>11. reclaim_counter' \in Counts /\ last_reclaimed' \in TaskIdsOrInvalid
    <2>1. reclaim_counter \in Counts
      BY DEF TypeOK
    <2>2. (reclaim_counter + 1) % (UINT32_MAX + 1) \in Counts
      BY <2>1, SchedulerConstants DEF Counts
    <2>3. \/ reclaim_counter' = reclaim_counter
          \/ reclaim_counter' = (reclaim_counter + 1) % (UINT32_MAX + 1)
      BY DEF os_pendsv_switch
    <2>4. last_reclaimed' \in {outgoing, last_reclaimed}
      BY DEF os_pendsv_switch
    <2> QED BY <1>1, <2>1, <2>2, <2>3, <2>4 DEF TypeOK
  <1>12. panics' \subseteq PanicReasons
    <2>1. {"SAVE_PSP", "FIRST_PSP", "RECLAIM", "NEXT_TASK", "PREEMPT_COMMIT",
           "SWITCH"} \subseteq PanicReasons
      BY DEF PanicReasons
    <2> QED
      BY <2>1, ZenonT(60) DEF os_pendsv_switch, Check
  <1>13. /\ current_task' = next
         /\ os_arch_has_active_context' = TRUE
         /\ yield_excluded_task' = OS_TASK_ID_INVALID
         /\ pending_switch_cause' = "NONE"
         /\ pending_preempt_sources' = {}
         /\ cpu' = "pendsv_out"
         /\ UNCHANGED <<running, monotonic_ticks, primask, pendsv_pending>>
         /\ last_switch' = [outgoing |-> outgoing, next |-> next,
                            cause |-> pending_switch_cause,
                            state |-> outgoing_state]
    BY DEF os_pendsv_switch
  <1> HIDE DEF next, outgoing_state, outgoing
  <1>14. last_switch' \in [outgoing : TaskIdsOrInvalid,
                           next : TaskIdsOrInvalid,
                           cause : SwitchCauses, state : States]
    BY <1>1, <1>2, <1>6, <1>13, IdTypes DEF TypeOK
  <1>15. "NONE" \in SwitchCauses
    BY DEF SwitchCauses
  <1> QED
    BY <1>6, <1>8, <1>9, <1>10, <1>11, <1>12, <1>13, <1>14, <1>15, IdTypes
    DEF TypeOK

\* The remaining actions assign values of their types.
LEMMA SimpleTypes ==
    ASSUME TypeOK,
           \/ DisableInterrupts \/ EnableInterrupts
           \/ os_memory_alloc \/ os_memory_free
           \/ os_kernel_start \/ SvcStart \/ PendsvEnter \/ PendsvReturn
           \/ UNCHANGED vars
    PROVE  TypeOK'
  <1>1. CASE DisableInterrupts \/ EnableInterrupts \/ PendsvEnter
             \/ PendsvReturn
    BY <1>1
    DEF DisableInterrupts, EnableInterrupts, PendsvEnter, PendsvReturn,
        TypeOK, identity, pending, reclaims
  <1>2. CASE os_memory_alloc \/ os_memory_free
    <2>1. owned' \in [TaskIds -> Nat]
      BY <1>2 DEF os_memory_alloc, os_memory_free, TypeOK
    <2> QED
      BY <1>2, <2>1
      DEF os_memory_alloc, os_memory_free, TypeOK, identity, pending,
          reclaims, hardware
  <1>3. CASE os_kernel_start
    BY <1>3 DEF os_kernel_start, TypeOK, reclaims, SwitchCauses
  <1>4. CASE SvcStart
    <2>1. "SVC_START" \in PanicReasons
      BY DEF PanicReasons
    <2>2. panics' \subseteq PanicReasons
      BY <1>4, <2>1, CheckType DEF SvcStart
    <2> QED
      BY <1>4, <2>2
      DEF SvcStart, TypeOK, request_pendsv, identity, pending, reclaims
  <1>5. CASE UNCHANGED vars
    BY <1>5 DEF vars, TypeOK, identity, pending, reclaims, hardware
  <1> QED BY <1>1, <1>2, <1>3, <1>4, <1>5

\* Every step of the kernel keeps its types.
LEMMA TypeStep == TypeOK /\ [Next]_vars => TypeOK'
  <1> SUFFICES ASSUME TypeOK, [Next]_vars PROVE TypeOK'
    OBVIOUS
  <1>1. CASE \E config \in Configs : os_task_create(config)
    BY <1>1, CreateType
  <1>2. CASE \E sleep_ticks \in SleepTicks : SvcSleep(sleep_ticks)
    BY <1>2, SleepStepType
  <1>3. CASE SvcYield
    BY <1>3, YieldType
  <1>4. CASE SvcExit
    BY <1>4, ExitType
  <1>5. CASE SvcWaitNextPeriod
    BY <1>5, WaitType
  <1>6. CASE SysTick
    BY <1>6, SysTickType
  <1>7. CASE os_pendsv_switch
    BY <1>7, SwitchType
  <1>8. CASE \/ DisableInterrupts \/ EnableInterrupts
             \/ os_memory_alloc \/ os_memory_free
             \/ os_kernel_start \/ SvcStart
             \/ PendsvEnter \/ PendsvReturn \/ UNCHANGED vars
    BY <1>8, SimpleTypes
  <1> QED
    BY <1>1, <1>2, <1>3, <1>4, <1>5, <1>6, <1>7, <1>8 DEF Next, Halted

\* The kernel's state keeps its types whatever order tasks, SysTick and PendSV
\* run in: no time leaves the 64-bit range, no counter its width, and no
\* identifier the table.
THEOREM TypeCorrect == Spec => []TypeOK
  <1>1. Init => TypeOK
    BY InitType
  <1>2. TypeOK /\ [Next]_vars => TypeOK'
    BY TypeStep
  <1> QED BY <1>1, <1>2, PTL DEF Spec

----------------------------------------------------------------------------
\* StructureInv is inductive.

ActiveStates == {"READY", "RUNNING", "SLEEPING"}

\* A task's job is active exactly while it is READY, RUNNING or SLEEPING.
JobMatches(task) == task.job_active <=> task.state \in ActiveStates

----------------------------------------------------------------------------
\* What the scheduling operators do to a task's state.

\* Activation makes a waiting task READY or leaves it waiting (activate_job).
LEMMA ActivateEffect ==
    ASSUME NEW task \in SchedTask, JobMatches(task),
           task.state = "WAITING_RELEASE"
    PROVE  LET after == activate_job(task) IN
           /\ after.state \in {"WAITING_RELEASE", "READY"}
           /\ JobMatches(after)
           /\ after.total_execution_ticks = task.total_execution_ticks
           /\ after.completed_job_count = task.completed_job_count
  BY DEF activate_job, SchedTask, JobMatches, ActiveStates

\* One turn of os_kernel_tick's loop: only a waiting or sleeping task changes
\* its state, to READY; the key of a task that can run stays; and only a
\* RUNNING task is charged.
LEMMA TickEffect ==
    ASSUME NEW task \in SchedTask, NEW now \in Nat, JobMatches(task)
    PROVE  LET after == TickTask(task, now) IN
           /\ \/ after.state = task.state
              \/ /\ task.state \in {"WAITING_RELEASE", "SLEEPING"}
                 /\ after.state = "READY"
           /\ JobMatches(after)
           /\ task.state \in {"READY", "RUNNING"} =>
                /\ after.absolute_deadline_order =
                     task.absolute_deadline_order
                /\ after.priority = task.priority
           /\ task.state # "RUNNING" =>
                after.total_execution_ticks = task.total_execution_ticks
           /\ after.completed_job_count = task.completed_job_count
  <1> DEFINE Same(a, b) ==
                /\ a.state = b.state
                /\ a.job_active = b.job_active
                /\ a.absolute_deadline_order = b.absolute_deadline_order
                /\ a.priority = b.priority
                /\ a.completed_job_count = b.completed_job_count
             charged == os_sched_account_running_tick(task)
             missed == os_sched_record_deadline_miss(charged, now)
             counted == CountedTick(task, now)
             released == ReleasedTick(task, now)
             after == TickTask(task, now)
  <1>1. /\ charged \in SchedTask
        /\ Same(charged, task)
        /\ task.state # "RUNNING" =>
             charged.total_execution_ticks = task.total_execution_ticks
    <2>1. charged \in SchedTask
      BY AccountType
    <2> QED
      BY <2>1 DEF os_sched_account_running_tick, SchedTask
  <1>2. /\ missed \in SchedTask
        /\ Same(missed, charged)
        /\ missed.total_execution_ticks = charged.total_execution_ticks
    <2>1. missed \in SchedTask
      BY <1>1, MissType
    <2> HIDE DEF charged
    <2> QED
      BY <1>1, <2>1 DEF os_sched_record_deadline_miss, SchedTask
  <1>3. /\ counted \in SchedTask
        /\ Same(counted, missed)
        /\ counted.total_execution_ticks = missed.total_execution_ticks
    <2>1. counted = os_sched_record_active_release(missed, now)
      BY DEF CountedTick
    <2>2. counted \in SchedTask
      BY TickType
    <2> HIDE DEF missed, counted
    <2> QED
      BY <1>2, <2>1, <2>2 DEF os_sched_record_active_release, SchedTask
  <1>4. /\ released \in SchedTask
        /\ JobMatches(released)
        /\ \/ released.state = counted.state
           \/ /\ counted.state = "WAITING_RELEASE"
              /\ released.state = "READY"
        /\ counted.state # "WAITING_RELEASE" => released = counted
        /\ released.total_execution_ticks = counted.total_execution_ticks
        /\ released.completed_job_count = counted.completed_job_count
    <2> DEFINE moved ==
                 [counted EXCEPT !.release_order = counted.next_release_order]
    <2>1. released = IF ReleaseIsDue(counted, now) THEN activate_job(moved)
                     ELSE counted
      BY DEF ReleasedTick, os_sched_release_due
    <2>2. released \in SchedTask
      BY TickType
    <2>3. JobMatches(counted)
      BY <1>1, <1>2, <1>3 DEF JobMatches
    <2> HIDE DEF counted, released
    <2>4. CASE ReleaseIsDue(counted, now)
      <3>1. /\ moved \in SchedTask
            /\ moved.state = "WAITING_RELEASE"
            /\ moved.total_execution_ticks = counted.total_execution_ticks
            /\ moved.completed_job_count = counted.completed_job_count
            /\ JobMatches(moved)
        BY <1>3, <2>3, <2>4 DEF ReleaseIsDue, SchedTask, JobMatches
      <3>2. counted.state = "WAITING_RELEASE"
        BY <2>4 DEF ReleaseIsDue
      <3> HIDE DEF moved
      <3> QED
        BY <2>1, <2>2, <2>4, <3>1, <3>2, ActivateEffect
    <2>5. CASE ~ReleaseIsDue(counted, now)
      BY <1>3, <2>1, <2>3, <2>5
    <2> QED BY <2>4, <2>5
  <1>5. /\ \/ after.state = released.state
           \/ released.state = "SLEEPING" /\ after.state = "READY"
        /\ JobMatches(after)
        /\ released.state # "SLEEPING" => after = released
        /\ after.total_execution_ticks = released.total_execution_ticks
        /\ after.completed_job_count = released.completed_job_count
    <2>1. after = os_sched_wake_due(released, now)
      BY DEF TickTask
    <2> HIDE DEF released, after
    <2> QED
      BY <1>4, <2>1
      DEF os_sched_wake_due, WakeIsDue, SchedTask, JobMatches, ActiveStates
  <1> HIDE DEF charged, missed, counted, released, after
  <1>6. /\ \/ after.state = task.state
           \/ /\ task.state \in {"WAITING_RELEASE", "SLEEPING"}
              /\ after.state = "READY"
        /\ task.state # "RUNNING" =>
             after.total_execution_ticks = task.total_execution_ticks
        /\ after.completed_job_count = task.completed_job_count
    BY <1>1, <1>2, <1>3, <1>4, <1>5
  <1>7. task.state \in {"READY", "RUNNING"} =>
          /\ after.absolute_deadline_order = task.absolute_deadline_order
          /\ after.priority = task.priority
    BY <1>1, <1>2, <1>3, <1>4, <1>5
  <1> QED BY <1>5, <1>6, <1>7 DEF after

\* A configured task is READY or waits for its release, and has run nothing
\* (os_sched_task_configure).
LEMMA ConfigureEffect ==
    ASSUME NEW config \in TimingConfig, NEW now \in Orders,
           ConfigureAccepts(config, now)
    PROVE  LET after == os_sched_task_configure(config, now) IN
           /\ after.state \in {"WAITING_RELEASE", "READY"}
           /\ JobMatches(after)
           /\ after.total_execution_ticks = 0
           /\ after.completed_job_count = 0
  BY DEF os_sched_task_configure, activate_job, ResetTask, JobMatches,
         ActiveStates

----------------------------------------------------------------------------
\* os_kernel_init establishes the invariant.
LEMMA InitInv == Init => StructureInv
  <1> SUFFICES ASSUME Init PROVE StructureInv
    OBVIOUS
  <1>1. TypeOK
    BY InitType
  <1>2. /\ schedules[OS_TASK_ID_IDLE].state = "READY"
        /\ \A id \in UserTasks : schedules[id] = ResetTask
        /\ \A id \in TaskIds : schedules[id].state # "RUNNING"
    BY IdTypes DEF Init, ResetTask
  <1>3. /\ tasks[OS_TASK_ID_IDLE].stack_claimed
        /\ \A id \in UserTasks : /\ tasks[id].stack_claimed = FALSE
                                  /\ tasks[id].started = FALSE
    BY IdTypes DEF Init, FreeTcb
  <1>4. \A id \in UserTasks : owned[id] = 0
    BY IdTypes DEF Init
  <1>5. ContextInv /\ MaskInv /\ YieldInv /\ OnlyTimeRangePanics
        /\ PreemptionJustified
    BY DEF Init, ContextInv, MaskInv, YieldInv, OnlyTimeRangePanics,
           PreemptionJustified
  <1>6. IdleInv
    BY <1>2, <1>3 DEF IdleInv
  <1>7. OccupantInv
    BY <1>3, IdTypes DEF Init, OccupantInv
  <1>8. SlotsConsistent
    BY <1>2, <1>3, <1>4 DEF SlotsConsistent, ResetTask
  <1>9. SwitchPromised
    BY <1>2 DEF Init, SwitchPromised
  <1> QED
    BY <1>1, <1>5, <1>6, <1>7, <1>8, <1>9 DEF StructureInv

\* A task that must run first outranks the other, as the kernel compares them.
LEMMA OutranksIsEarlier ==
    ASSUME NEW c \in UserTasks, NEW i \in TaskIds, i # OS_TASK_ID_IDLE
    PROVE  PrecedesKey(schedules, c, i) <=> Earlier(c, i)
  BY DEF PrecedesKey, Earlier

\* os_task_create fills a free slot, with a request if the new task outranks
\* its creator.
LEMMA CreateInv ==
    ASSUME StructureInv, NEW config \in Configs, os_task_create(config)
    PROVE  StructureInv'
  <1> DEFINE lowest == CHOOSE s \in FreeSlots : \A t \in FreeSlots : s <= t
             filled == os_sched_task_configure(config, monotonic_ticks)
  <1>1. TypeOK /\ TypeOK'
    BY CreateType DEF StructureInv
  <1>2. PICK id \in UserTasks : /\ id = lowest
                               /\ schedules[id].state = "DORMANT"
                               /\ ~tasks[id].stack_claimed
    BY LowestFreeSlot DEF os_task_create, FreeSlots
  <1>3. /\ filled.state \in {"WAITING_RELEASE", "READY"}
        /\ JobMatches(filled)
        /\ filled.total_execution_ticks = 0
        /\ filled.completed_job_count = 0
    BY <1>1, ConfigureEffect, KernelConstants DEF os_task_create, TypeOK
  <1> HIDE DEF lowest, filled
  <1>4. /\ schedules' = [schedules EXCEPT ![id] = filled]
        /\ tasks' = [tasks EXCEPT ![id].stack_claimed = TRUE]
        /\ UNCHANGED <<running, current_task, os_arch_has_active_context,
                       yield_excluded_task, owned, cpu, primask>>
    BY <1>2 DEF os_task_create, lowest, filled, identity
  <1>5. /\ schedules \in [TaskIds -> SchedTask]
        /\ tasks \in [TaskIds -> [stack_claimed : BOOLEAN,
                                  started : BOOLEAN]]
        /\ owned \in [TaskIds -> Nat]
    BY <1>1 DEF TypeOK
  <1>6. \/ cpu = "main" /\ ~running /\ current_task = OS_TASK_ID_INVALID
        \/ /\ cpu = "thread" /\ running /\ current_task \in UserTasks
           /\ Current.state = "RUNNING"
    BY IdTypes
    DEF os_task_create, UserTaskExecutes, ThreadExecutes,
        caller_is_running_task, StructureInv, ContextInv, Current
  <1>7. \/ /\ running
           /\ os_sched_outranks(schedules', id, current_task)
           /\ pending_preempt_sources' = pending_preempt_sources
                                           \cup {"RUNTIME_CREATE"}
           /\ pendsv_pending' = TRUE
        \/ UNCHANGED <<pending_preempt_sources, pendsv_pending>>
    BY <1>2, <1>4
    DEF os_task_create, record_preemption_request, request_pendsv, pending,
        lowest, filled
  <1>8. \A t \in TaskIds : t # id => /\ schedules'[t] = schedules[t]
                                     /\ tasks'[t] = tasks[t]
    BY <1>4, <1>5
  <1>9. /\ id \in TaskIds /\ schedules'[id] = filled
        /\ tasks'[id].stack_claimed = TRUE
        /\ tasks'[id].started = tasks[id].started
    BY <1>2, <1>4, <1>5, IdTypes
  <1>10. current_task \in TaskIds =>
            /\ current_task # id
            /\ schedules'[current_task] = schedules[current_task]
            /\ tasks'[current_task] = tasks[current_task]
    BY <1>2, <1>6, <1>8, IdTypes DEF Current
  <1>11. ContextInv'
    <2>1. ContextInv
      BY DEF StructureInv
    <2> QED BY <1>4, <1>6, <1>7, <2>1 DEF ContextInv
  <1>12. MaskInv'
    BY <1>4, <1>6, <1>10, IdTypes DEF StructureInv, MaskInv, Current
  <1>13. YieldInv'
    <2>1. yield_excluded_task = OS_TASK_ID_INVALID
      BY <1>6 DEF StructureInv, YieldInv, ContextInv
    <2> QED BY <1>4, <2>1 DEF YieldInv
  <1>14. IdleInv'
    BY <1>2, <1>8, IdTypes DEF StructureInv, IdleInv
  <1>15. OccupantInv'
    BY <1>4, <1>8, <1>9, <1>10, IdTypes
    DEF StructureInv, OccupantInv, Current
  <1>16. SlotsConsistent'
    <2> SUFFICES ASSUME NEW t \in UserTasks
                 PROVE  LET task == schedules'[t] IN
                        /\ task.job_active <=>
                             task.state \in {"READY", "RUNNING", "SLEEPING"}
                        /\ tasks'[t].stack_claimed <=> task.state # "DORMANT"
                        /\ ~tasks'[t].started =>
                             /\ owned'[t] = 0
                             /\ task.total_execution_ticks = 0
                             /\ task.completed_job_count = 0
      BY DEF SlotsConsistent
    <2>1. SlotsConsistent /\ OccupantInv
      BY DEF StructureInv
    <2>2. CASE t # id
      BY <1>4, <1>8, <2>1, <2>2, IdTypes DEF SlotsConsistent
    <2>3. CASE t = id
      <3>1. ~tasks[id].started
        BY <1>2, <2>1 DEF OccupantInv
      <3>2. owned[id] = 0
        BY <1>2, <2>1, <3>1 DEF SlotsConsistent
      <3> QED
        BY <1>3, <1>4, <1>9, <2>3, <3>2 DEF JobMatches, ActiveStates
    <2> QED BY <2>2, <2>3
  <1>17. SwitchPromised'
    <2>1. SwitchPromised
      BY DEF StructureInv
    <2>2. ASSUME NEW t \in TaskIds, schedules'[t].state = "RUNNING"
          PROVE  t # id /\ schedules[t].state = "RUNNING"
      BY <1>3, <1>8, <1>9, <2>2
    <2>3. os_arch_has_active_context => schedules'[current_task].state
                                          = "RUNNING"
      BY <1>6, <1>10, IdTypes DEF StructureInv, ContextInv, Current
    <2> QED BY <1>4, <2>1, <2>2, <2>3 DEF SwitchPromised
  <1>18. PreemptionJustified'
    <2>1. PreemptionJustified
      BY DEF StructureInv
    <2>2. CASE UNCHANGED <<pending_preempt_sources, pendsv_pending>>
      <3> SUFFICES ASSUME pending_preempt_sources # {}
                   PROVE  PreemptionJustified'
        BY <2>2 DEF PreemptionJustified
      <3>1. PICK c \in ReadyTasks :
              current_task = OS_TASK_ID_IDLE \/ Earlier(c, current_task)
        BY <2>1 DEF PreemptionJustified
      <3>2. current_task \in TaskIds
        BY <2>1 DEF PreemptionJustified
      <3>3. c \in UserTasks /\ schedules'[c] = schedules[c]
        BY <1>2, <1>8, <3>1, IdTypes DEF ReadyTasks
      <3>4. /\ c \in ReadyTasks'
            /\ current_task' = OS_TASK_ID_IDLE
               \/ Earlier(c, current_task)'
        BY <1>4, <1>10, <3>1, <3>2, <3>3 DEF ReadyTasks, Earlier
      <3> QED
        BY <1>4, <1>10, <2>1, <2>2, <3>2, <3>4 DEF PreemptionJustified
    <2>3. CASE /\ running
               /\ os_sched_outranks(schedules', id, current_task)
               /\ pendsv_pending' = TRUE
      <3>1. /\ current_task \in UserTasks /\ current_task # OS_TASK_ID_IDLE
            /\ Current.state = "RUNNING"
        BY <1>6, <2>3, IdTypes
      <3>2. schedules'[id].state = "READY"
        BY <2>3 DEF os_sched_outranks, IsReady
      <3>3. Earlier(id, current_task)'
        BY <1>4, <2>3, <3>1 DEF os_sched_outranks, PrecedesKey, Earlier
      <3>4. id \in ReadyTasks'
        BY <1>2, <3>2 DEF ReadyTasks
      <3>5. /\ current_task' \in TaskIds
            /\ schedules'[current_task'].state \in {"READY", "RUNNING"}
        BY <1>4, <1>10, <3>1, IdTypes DEF Current
      <3> QED
        BY <2>3, <3>3, <3>4, <3>5 DEF PreemptionJustified
    <2> QED BY <1>7, <2>2, <2>3
  <1>19. OnlyTimeRangePanics'
    <2>1. StateVerified(running, os_arch_has_active_context, schedules',
                        current_task)
      <3>1. ASSUME NEW t \in TaskIds, schedules'[t].state = "RUNNING"
            PROVE  schedules[t].state = "RUNNING"
        BY <1>3, <1>8, <1>9, <3>1
      <3>2. ~running => \A t \in TaskIds : schedules[t].state # "RUNNING"
        BY DEF StructureInv, SwitchPromised, ContextInv
      <3>3. os_arch_has_active_context =>
               /\ current_task \in TaskIds
               /\ schedules'[current_task].state = "RUNNING"
               /\ \A t \in TaskIds :
                    schedules'[t].state = "RUNNING" => t = current_task
        BY <1>6, <1>10, <3>1, IdTypes
        DEF StructureInv, SwitchPromised, ContextInv, Current
      <3> QED BY <3>1, <3>2, <3>3 DEF StateVerified
    <2>2. panics' = Check(StateVerified(running, os_arch_has_active_context,
                                        schedules', current_task), "CREATE")
      BY <1>2, <1>4 DEF os_task_create, lowest, filled
    <2> QED BY <2>1, <2>2 DEF Check, OnlyTimeRangePanics
  <1> QED
    BY <1>1, <1>11, <1>12, <1>13, <1>14, <1>15, <1>16, <1>17, <1>18, <1>19
    DEF StructureInv

\* A task that executes with interrupts on is RUNNING, and nothing is pending.
LEMMA QuietThread ==
    ASSUME StructureInv, UserTaskExecutes, ~primask
    PROVE  /\ cpu = "thread" /\ ~pendsv_pending
           /\ running /\ os_arch_has_active_context
           /\ current_task \in UserTasks
           /\ Current \in SchedTask
           /\ Current.state = "RUNNING" /\ Current.job_active
           /\ tasks[current_task].started
           /\ yield_excluded_task = OS_TASK_ID_INVALID
           /\ pending_preempt_sources = {}
  <1>1. cpu = "thread" /\ ~pendsv_pending /\ current_task # OS_TASK_ID_IDLE
    BY DEF UserTaskExecutes, ThreadExecutes
  <1>2. os_arch_has_active_context /\ running
    BY <1>1 DEF StructureInv, ContextInv
  <1>3. current_task \in UserTasks
    BY <1>1, <1>2, IdTypes DEF StructureInv, ContextInv, TypeOK
  <1>4. Current.state = "RUNNING"
    BY <1>1, <1>2 DEF StructureInv, SwitchPromised, Current
  <1>5. Current \in SchedTask
    BY <1>3, IdTypes DEF StructureInv, TypeOK, Current
  <1>6. Current.job_active /\ tasks[current_task].started
    BY <1>3, <1>4
    DEF StructureInv, SlotsConsistent, OccupantInv, Current
  <1>7. /\ yield_excluded_task = OS_TASK_ID_INVALID
        /\ pending_preempt_sources = {}
    BY <1>1 DEF StructureInv, YieldInv, SwitchToCome, PreemptionJustified
  <1> QED BY <1>1, <1>2, <1>3, <1>4, <1>5, <1>6, <1>7

\* A system call gives up the RUNNING state and asks for the switch
\* (os_svc_dispatch).
LEMMA SystemCallInv ==
    ASSUME StructureInv, TypeOK',
           NEW reason, NEW accepted \in BOOLEAN, NEW task, NEW cause,
           SystemCall(reason, accepted, task, cause),
           accepted \/ reason = "TASK_SLEEP",
           accepted =>
              /\ task.state \in {"READY", "SLEEPING", "EXITING",
                                 "WAITING_RELEASE"}
              /\ JobMatches(task),
           \/ yield_excluded_task' = yield_excluded_task
           \/ /\ yield_excluded_task' = current_task
              /\ accepted /\ task.state = "READY"
    PROVE  StructureInv'
  <1>1. /\ cpu = "thread" /\ ~pendsv_pending
        /\ running /\ os_arch_has_active_context
        /\ current_task \in UserTasks
        /\ Current \in SchedTask
        /\ Current.state = "RUNNING" /\ Current.job_active
        /\ tasks[current_task].started
        /\ yield_excluded_task = OS_TASK_ID_INVALID
        /\ pending_preempt_sources = {}
        /\ ~primask
    BY QuietThread DEF SystemCall
  <1>2. /\ schedules' = IF accepted
                        THEN [schedules EXCEPT ![current_task] = task]
                        ELSE schedules
        /\ panics' = Check(current_task # OS_TASK_ID_INVALID
                             /\ schedules[current_task].state = "RUNNING"
                             /\ accepted, reason)
        /\ pendsv_pending' = TRUE
        /\ UNCHANGED <<running, current_task, os_arch_has_active_context,
                       pending_preempt_sources, tasks, owned, cpu, primask>>
    BY DEF SystemCall, request_pendsv, identity
  <1>3. /\ schedules \in [TaskIds -> SchedTask]
        /\ current_task \in TaskIds
        /\ current_task # OS_TASK_ID_IDLE
        /\ current_task # OS_TASK_ID_INVALID
    BY <1>1, IdTypes DEF StructureInv, TypeOK
  <1>4. /\ \A t \in TaskIds : t # current_task => schedules'[t] = schedules[t]
        /\ schedules'[current_task] = IF accepted THEN task ELSE Current
    BY <1>2, <1>3 DEF Current
  <1>5. ContextInv'
    BY <1>1, <1>2 DEF StructureInv, ContextInv
  <1>6. MaskInv'
    BY <1>1, <1>2 DEF MaskInv
  <1>7. YieldInv'
    BY <1>1, <1>2, <1>4 DEF YieldInv, Current, SwitchToCome
  <1>8. IdleInv'
    BY <1>2, <1>3, <1>4, IdTypes DEF StructureInv, IdleInv
  <1>9. OccupantInv'
    BY <1>1, <1>2, <1>4 DEF StructureInv, OccupantInv, Current
  <1>10. SlotsConsistent'
    <2> SUFFICES ASSUME NEW t \in UserTasks
                 PROVE  LET entry == schedules'[t] IN
                        /\ entry.job_active <=>
                             entry.state \in {"READY", "RUNNING", "SLEEPING"}
                        /\ tasks'[t].stack_claimed <=>
                              entry.state # "DORMANT"
                        /\ ~tasks'[t].started =>
                             /\ owned'[t] = 0
                             /\ entry.total_execution_ticks = 0
                             /\ entry.completed_job_count = 0
      BY DEF SlotsConsistent
    <2>1. SlotsConsistent
      BY DEF StructureInv
    <2>2. CASE t # current_task \/ ~accepted
      BY <1>2, <1>4, <2>1, <2>2, IdTypes DEF SlotsConsistent, Current
    <2>3. CASE t = current_task /\ accepted
      <3>1. tasks[current_task].stack_claimed
        BY <1>1, <2>1 DEF SlotsConsistent, Current
      <3> QED
        BY <1>1, <1>2, <1>4, <2>3, <3>1 DEF JobMatches, ActiveStates
    <2> QED BY <2>2, <2>3
  <1>11. SwitchPromised'
    BY <1>1, <1>2, <1>4 DEF StructureInv, SwitchPromised, Current
  <1>12. PreemptionJustified'
    BY <1>1, <1>2 DEF PreemptionJustified
  <1>13. OnlyTimeRangePanics'
    BY <1>1, <1>2, <1>3 DEF OnlyTimeRangePanics, Check, Current
  <1> QED
    BY <1>5, <1>6, <1>7, <1>8, <1>9, <1>10, <1>11, <1>12, <1>13
    DEF StructureInv

\* Completing a job changes neither the state nor the charged ticks, and ends
\* the job (os_sched_complete_job).
LEMMA CompleteEffect ==
    ASSUME NEW task \in SchedTask, NEW now \in Nat, NEW state \in States
    PROVE  LET after == [os_sched_complete_job(task, now)
                           EXCEPT !.state = state]
           IN after.state = state /\ after.job_active = FALSE
  <1>1. os_sched_complete_job(task, now) \in SchedTask
    BY CompleteType
  <1>2. os_sched_complete_job(task, now).job_active = FALSE
    <2>1. os_sched_record_deadline_miss(task, now) \in SchedTask
      BY MissType
    <2> QED BY <2>1 DEF os_sched_complete_job, SchedTask
  <1> QED BY <1>1, <1>2 DEF SchedTask

\* The os_yield service keeps the structure.
LEMMA YieldStep == StructureInv /\ SvcYield => StructureInv'
  <1> SUFFICES ASSUME StructureInv, SvcYield PROVE StructureInv'
    OBVIOUS
  <1> DEFINE task == [Caller EXCEPT !.state = "READY"]
  <1>1. SystemCall("SVC_YIELD", TRUE, task, "YIELD")
        /\ yield_excluded_task' = current_task
    BY DEF SvcYield
  <1>2. Caller \in SchedTask /\ Caller.job_active
    BY <1>1, QuietThread DEF SystemCall, Caller, Current
  <1>3. task.state = "READY" /\ JobMatches(task)
    BY <1>2 DEF SchedTask, JobMatches, ActiveStates
  <1>4. TypeOK'
    BY YieldType DEF StructureInv
  <1> HIDE DEF task
  <1> QED BY <1>1, <1>3, <1>4, SystemCallInv

\* So does a sleep of any length, accepted or refused.
LEMMA SleepStep ==
    ASSUME StructureInv, NEW sleep_ticks \in SleepTicks, SvcSleep(sleep_ticks)
    PROVE  StructureInv'
  <1> DEFINE task == os_sched_sleep(Caller, monotonic_ticks, sleep_ticks)
             accepted == SleepAccepts(Caller, monotonic_ticks, sleep_ticks)
  <1>1. /\ SystemCall("TASK_SLEEP", accepted, task, "SLEEP")
        /\ yield_excluded_task' = yield_excluded_task
    BY DEF SvcSleep
  <1>2. Caller \in SchedTask /\ Caller.job_active
    BY <1>1, QuietThread DEF SystemCall, Caller, Current
  <1>3. task.state = "SLEEPING" /\ JobMatches(task)
    BY <1>2 DEF os_sched_sleep, SchedTask, JobMatches, ActiveStates
  <1>4. TypeOK'
    BY SleepStepType DEF StructureInv
  <1>5. accepted \in BOOLEAN
    BY DEF SleepAccepts
  <1> HIDE DEF task, accepted
  <1> QED BY <1>1, <1>3, <1>4, <1>5, SystemCallInv

\* So does os_task_exit.
LEMMA ExitStep == StructureInv /\ SvcExit => StructureInv'
  <1> SUFFICES ASSUME StructureInv, SvcExit PROVE StructureInv'
    OBVIOUS
  <1> DEFINE task == [os_sched_complete_job(Caller, monotonic_ticks)
                         EXCEPT !.state = "EXITING"]
             accepted == CompleteAccepts(Caller)
  <1>1. /\ SystemCall("EXIT_COMPLETE", accepted, task, "EXIT")
        /\ yield_excluded_task' = yield_excluded_task
    BY DEF SvcExit
  <1>2. /\ Caller \in SchedTask /\ Caller.job_active
        /\ Caller.state = "RUNNING"
    BY <1>1, QuietThread DEF SystemCall, Caller, Current
  <1>3. accepted = TRUE
    BY <1>2 DEF CompleteAccepts, SchedTask
  <1>4. monotonic_ticks \in Nat
    BY TickIsNat DEF StructureInv
  <1>5. task.state = "EXITING" /\ JobMatches(task)
    BY <1>2, <1>4, CompleteEffect DEF JobMatches, ActiveStates, States
  <1>6. TypeOK'
    BY ExitType DEF StructureInv
  <1> HIDE DEF task, accepted
  <1> QED BY <1>1, <1>3, <1>5, <1>6, SystemCallInv

\* So does os_wait_next_period.
LEMMA WaitStep == StructureInv /\ SvcWaitNextPeriod => StructureInv'
  <1> SUFFICES ASSUME StructureInv, SvcWaitNextPeriod PROVE StructureInv'
    OBVIOUS
  <1> DEFINE task == os_sched_wait_next_period(Caller, monotonic_ticks)
             accepted == CompleteAccepts(Caller)
  <1>1. /\ SystemCall("SVC_PERIOD", accepted, task, "WAIT_PERIOD")
        /\ yield_excluded_task' = yield_excluded_task
    BY DEF SvcWaitNextPeriod
  <1>2. /\ Caller \in SchedTask /\ Caller.job_active
        /\ Caller.state = "RUNNING"
    BY <1>1, QuietThread DEF SystemCall, Caller, Current
  <1>3. accepted = TRUE
    BY <1>2 DEF CompleteAccepts, SchedTask
  <1>4. monotonic_ticks \in Nat
    BY TickIsNat DEF StructureInv
  <1>5. task.state = "WAITING_RELEASE" /\ JobMatches(task)
    BY <1>2, <1>4, CompleteEffect
    DEF os_sched_wait_next_period, JobMatches, ActiveStates, States
  <1>6. TypeOK'
    BY WaitType DEF StructureInv
  <1> HIDE DEF task, accepted
  <1> QED BY <1>1, <1>3, <1>5, <1>6, SystemCallInv

----------------------------------------------------------------------------
\* os_kernel_tick: tasks only become ready, and the current one loses the
\* RUNNING state only to a request for a switch.
LEMMA SysTickStep == StructureInv /\ SysTick => StructureInv'
  <1> SUFFICES ASSUME StructureInv, SysTick PROVE StructureInv'
    OBVIOUS
  <1> DEFINE now == monotonic_ticks + 1
             ticked == [id \in TaskIds |->
                          IF id = OS_TASK_ID_IDLE THEN schedules[id]
                          ELSE TickTask(schedules[id], now)]
             candidate == os_sched_select(ticked, OS_TASK_ID_INVALID)
  <1>1. TypeOK /\ TypeOK'
    BY SysTickType DEF StructureInv
  <1>2. /\ UNCHANGED <<running, current_task, os_arch_has_active_context,
                       yield_excluded_task, tasks, owned, cpu, primask>>
        /\ running /\ ~primask /\ cpu # "main"
    BY DEF SysTick, identity, StructureInv, ContextInv
  <1>3. panics' \subseteq {"TICK_RANGE", "TASK_TIME_RANGE"}
    BY DEF SysTick, Check
  <1>4. OnlyTimeRangePanics'
    BY <1>3 DEF OnlyTimeRangePanics
  <1>5. CASE monotonic_ticks = UINT64_MAX
    <2>1. UNCHANGED <<schedules, pending, pendsv_pending>>
      BY <1>5 DEF SysTick
    <2> QED
      BY <1>1, <1>2, <1>4, <2>1
      DEF StructureInv, pending, ContextInv, MaskInv, YieldInv, IdleInv,
          OccupantInv, SlotsConsistent, SwitchPromised, PreemptionJustified,
          Current, SwitchToCome, ReadyTasks, Earlier
  <1>6. CASE monotonic_ticks # UINT64_MAX
    <2>1. \/ /\ current_task # OS_TASK_ID_INVALID
             /\ ticked[current_task].state = "RUNNING"
             /\ candidate \in UserTasks
             /\ os_sched_outranks(ticked, candidate, current_task)
             /\ pending_preempt_sources' = pending_preempt_sources
                                             \cup {"SYSTICK"}
             /\ schedules' = [ticked EXCEPT ![current_task].state = "READY"]
             /\ pendsv_pending' = TRUE
          \/ /\ schedules' = ticked
             /\ UNCHANGED <<pending_preempt_sources, pendsv_pending>>
      BY <1>6
      DEF SysTick, record_preemption_request, request_pendsv, pending
    <2>2. now \in Nat
      BY <1>1, TickIsNat
    <2>3. /\ schedules \in [TaskIds -> SchedTask]
          /\ schedules' \in [TaskIds -> SchedTask]
          /\ current_task \in TaskIdsOrInvalid
      BY <1>1, <1>2 DEF TypeOK
    <2>4. \A id \in UserTasks : JobMatches(schedules[id])
      BY DEF StructureInv, SlotsConsistent, JobMatches, ActiveStates
    <2>5. ASSUME NEW id \in UserTasks
          PROVE  LET before == schedules[id]
                     after == ticked[id]
                 IN
                 /\ after \in SchedTask
                 /\ \/ after.state = before.state
                    \/ /\ before.state \in {"WAITING_RELEASE", "SLEEPING"}
                       /\ after.state = "READY"
                 /\ JobMatches(after)
                 /\ before.state \in {"READY", "RUNNING"} =>
                      /\ after.absolute_deadline_order =
                           before.absolute_deadline_order
                      /\ after.priority = before.priority
                 /\ before.state # "RUNNING" =>
                      after.total_execution_ticks =
                        before.total_execution_ticks
                 /\ after.completed_job_count = before.completed_job_count
      <3>1. ticked[id] = TickTask(schedules[id], now)
        BY <2>5, IdTypes
      <3>2. schedules[id] \in SchedTask /\ JobMatches(schedules[id])
        BY <2>3, <2>4, <2>5, IdTypes
      <3> HIDE DEF ticked, now
      <3> QED BY <2>2, <3>1, <3>2, TickEffect, TickType
    <2>6. /\ ticked[OS_TASK_ID_IDLE] = schedules[OS_TASK_ID_IDLE]
          /\ ticked \in [TaskIds -> SchedTask]
      <3>1. \A id \in TaskIds : ticked[id] \in SchedTask
        BY <2>3, <2>5, IdTypes
      <3> QED BY <3>1, IdTypes
    <2> HIDE DEF ticked, now, candidate
    <2>7. \A id \in TaskIds :
             /\ id # current_task => schedules'[id] = ticked[id]
             /\ \/ schedules'[id] = ticked[id]
                \/ /\ id = current_task
                   /\ ticked[id].state = "RUNNING"
                   /\ schedules'[id] = [ticked[id] EXCEPT !.state = "READY"]
      BY <2>1, <2>6
    <2>8. \A id \in UserTasks :
             LET before == schedules[id]
                 after == schedules'[id]
             IN
             /\ \/ after.state = before.state
                \/ /\ before.state \in {"WAITING_RELEASE", "SLEEPING"}
                   /\ after.state = "READY"
                \/ /\ before.state = "RUNNING" /\ after.state = "READY"
                   /\ id = current_task
             /\ JobMatches(after)
             /\ before.state \in {"READY", "RUNNING"} =>
                  /\ after.absolute_deadline_order =
                       before.absolute_deadline_order
                  /\ after.priority = before.priority
             /\ before.state # "RUNNING" =>
                  after.total_execution_ticks = before.total_execution_ticks
             /\ after.completed_job_count = before.completed_job_count
      <3> SUFFICES ASSUME NEW id \in UserTasks
                   PROVE  LET before == schedules[id]
                              after == schedules'[id]
                          IN
                          /\ \/ after.state = before.state
                             \/ /\ before.state
                                     \in {"WAITING_RELEASE", "SLEEPING"}
                                /\ after.state = "READY"
                             \/ /\ before.state = "RUNNING"
                                /\ after.state = "READY"
                                /\ id = current_task
                          /\ JobMatches(after)
                          /\ before.state \in {"READY", "RUNNING"} =>
                               /\ after.absolute_deadline_order =
                                    before.absolute_deadline_order
                               /\ after.priority = before.priority
                          /\ before.state # "RUNNING" =>
                               after.total_execution_ticks =
                                 before.total_execution_ticks
                          /\ after.completed_job_count =
                               before.completed_job_count
        OBVIOUS
      <3>1. id \in TaskIds
        BY IdTypes
      <3>2. CASE schedules'[id] = ticked[id]
        BY <2>5, <3>2
      <3>3. CASE /\ id = current_task
                 /\ ticked[id].state = "RUNNING"
                 /\ schedules'[id] = [ticked[id] EXCEPT !.state = "READY"]
        BY <2>5, <3>3 DEF SchedTask, JobMatches, ActiveStates
      <3> QED BY <2>7, <3>1, <3>2, <3>3
    <2>9. /\ schedules'[OS_TASK_ID_IDLE].state \in {"READY", "RUNNING"}
          /\ schedules'[OS_TASK_ID_IDLE].state = "RUNNING" =>
               schedules[OS_TASK_ID_IDLE].state = "RUNNING"
      <3>1. schedules[OS_TASK_ID_IDLE].state \in {"READY", "RUNNING"}
        BY DEF StructureInv, IdleInv
      <3>2. /\ OS_TASK_ID_IDLE \in TaskIds
            /\ ticked[OS_TASK_ID_IDLE] \in SchedTask
        BY <2>6, IdTypes
      <3>3. CASE schedules'[OS_TASK_ID_IDLE] = ticked[OS_TASK_ID_IDLE]
        BY <2>6, <3>1, <3>3
      <3>4. CASE schedules'[OS_TASK_ID_IDLE]
                   = [ticked[OS_TASK_ID_IDLE] EXCEPT !.state = "READY"]
        BY <3>2, <3>4 DEF SchedTask
      <3> QED BY <2>7, <3>2, <3>3, <3>4
    <2>10. ContextInv'
      BY <1>2, <2>1 DEF StructureInv, ContextInv
    <2>11. MaskInv'
      BY <1>2 DEF MaskInv
    <2>12. YieldInv'
      <3> SUFFICES ASSUME yield_excluded_task # OS_TASK_ID_INVALID
                   PROVE  YieldInv'
        BY <1>2 DEF YieldInv
      <3>1. /\ pending_preempt_sources = {} /\ os_arch_has_active_context
            /\ Current.state = "READY" /\ SwitchToCome
            /\ current_task \in TaskIds
        BY IdTypes DEF StructureInv, YieldInv, ContextInv, TypeOK
      <3>2. ticked[current_task].state = "READY"
        BY <2>5, <2>6, <3>1, IdTypes DEF Current
      <3>3. /\ schedules' = ticked
            /\ UNCHANGED <<pending_preempt_sources, pendsv_pending>>
        BY <2>1, <3>2
      <3> QED
        BY <1>2, <3>1, <3>2, <3>3 DEF YieldInv, Current, SwitchToCome
    <2>13. IdleInv'
      BY <1>2, <2>9 DEF StructureInv, IdleInv
    <2>14. OccupantInv'
      BY <1>2, <2>8 DEF StructureInv, OccupantInv, Current
    <2>15. SlotsConsistent'
      <3> SUFFICES ASSUME NEW t \in UserTasks
                   PROVE  LET task == schedules'[t] IN
                          /\ task.job_active <=>
                               task.state \in {"READY", "RUNNING", "SLEEPING"}
                          /\ tasks'[t].stack_claimed <=>
                                task.state # "DORMANT"
                          /\ ~tasks'[t].started =>
                               /\ owned'[t] = 0
                               /\ task.total_execution_ticks = 0
                               /\ task.completed_job_count = 0
        BY DEF SlotsConsistent
      <3>1. SlotsConsistent /\ OccupantInv /\ SwitchPromised
        BY DEF StructureInv
      <3>2. JobMatches(schedules'[t])
        BY <2>8
      <3>3. tasks'[t].stack_claimed <=> schedules'[t].state # "DORMANT"
        BY <1>2, <2>8, <3>1 DEF SlotsConsistent
      <3>4. ~tasks[t].started => schedules[t].state # "RUNNING"
        BY <3>1, IdTypes DEF SwitchPromised, OccupantInv
      <3>5. ~tasks'[t].started =>
               /\ owned'[t] = 0
               /\ schedules'[t].total_execution_ticks = 0
               /\ schedules'[t].completed_job_count = 0
        BY <1>2, <2>8, <3>1, <3>4 DEF SlotsConsistent
      <3> QED BY <3>2, <3>3, <3>5 DEF JobMatches, ActiveStates
    <2>16. SwitchPromised'
      <3>1. ASSUME NEW id \in TaskIds, schedules'[id].state = "RUNNING"
            PROVE  schedules[id].state = "RUNNING"
        BY <2>8, <2>9, <3>1, IdTypes
      <3>2. ASSUME os_arch_has_active_context
            PROVE  \/ schedules'[current_task].state = "RUNNING"
                   \/ pendsv_pending' \/ cpu = "pendsv_in"
        <4>1. current_task \in TaskIds
          BY <3>2, IdTypes DEF StructureInv, ContextInv, TypeOK
        <4>2. \/ Current.state = "RUNNING" \/ pendsv_pending
              \/ cpu = "pendsv_in"
          BY <3>2 DEF StructureInv, SwitchPromised, Current
        <4>3. Current.state = "RUNNING" => ticked[current_task].state = "RUNNING"
          BY <2>5, <2>6, <4>1, IdTypes DEF Current
        <4> QED BY <2>1, <4>2, <4>3
      <3> QED
        BY <1>2, <3>1, <3>2 DEF StructureInv, SwitchPromised
    <2>17. PreemptionJustified'
      <3>1. CASE /\ schedules' = ticked
                 /\ UNCHANGED <<pending_preempt_sources, pendsv_pending>>
        <4> SUFFICES ASSUME pending_preempt_sources # {}
                     PROVE  PreemptionJustified'
          BY <3>1 DEF PreemptionJustified
        <4>1. /\ pendsv_pending \/ cpu = "pendsv_in"
              /\ current_task \in TaskIds
              /\ schedules[current_task].state \in {"READY", "RUNNING"}
          BY DEF StructureInv, PreemptionJustified
        <4>2. PICK c \in UserTasks :
                 /\ schedules[c].state = "READY"
                 /\ current_task = OS_TASK_ID_IDLE \/ Earlier(c, current_task)
          BY DEF StructureInv, PreemptionJustified, ReadyTasks
        <4>3. schedules'[current_task].state \in {"READY", "RUNNING"}
          BY <2>8, <2>9, <4>1, IdTypes
        <4>4. schedules'[c].state = "READY"
          BY <2>8, <4>2
        <4>5. current_task = OS_TASK_ID_IDLE \/ Earlier(c, current_task)'
          BY <1>2, <2>8, <4>1, <4>2, IdTypes DEF Earlier
        <4> QED
          BY <1>2, <3>1, <4>1, <4>2, <4>3, <4>4, <4>5
          DEF PreemptionJustified, ReadyTasks
      <3>2. CASE /\ current_task # OS_TASK_ID_INVALID
                 /\ ticked[current_task].state = "RUNNING"
                 /\ candidate \in UserTasks
                 /\ os_sched_outranks(ticked, candidate, current_task)
                 /\ schedules' = [ticked EXCEPT ![current_task].state
                                                  = "READY"]
                 /\ pendsv_pending' = TRUE
        <4>1. PICK c \in UserTasks :
                 /\ ticked[c].state = "READY"
                 /\ \/ current_task = OS_TASK_ID_IDLE
                    \/ PrecedesKey(ticked, c, current_task)
          BY <3>2 DEF os_sched_outranks, IsReady
        <4>2. current_task \in TaskIds /\ c \in TaskIds /\ c # current_task
          BY <2>3, <3>2, <4>1, IdTypes
        <4>3. schedules'[c] = ticked[c]
          BY <2>7, <4>2
        <4>4. /\ schedules'[current_task].state = "READY"
              /\ schedules'[current_task].absolute_deadline_order =
                   ticked[current_task].absolute_deadline_order
              /\ schedules'[current_task].priority =
                   ticked[current_task].priority
          BY <2>6, <3>2, <4>2 DEF SchedTask
        <4>5. current_task = OS_TASK_ID_IDLE \/ Earlier(c, current_task)'
          BY <1>2, <4>1, <4>3, <4>4 DEF Earlier, PrecedesKey
        <4> QED
          BY <1>2, <3>2, <4>1, <4>2, <4>3, <4>4, <4>5
          DEF PreemptionJustified, ReadyTasks
      <3> QED BY <2>1, <3>1, <3>2
    <2> QED
      BY <1>1, <1>4, <2>10, <2>11, <2>12, <2>13, <2>14, <2>15, <2>16, <2>17
      DEF StructureInv
  <1> QED BY <1>5, <1>6

----------------------------------------------------------------------------
\* os_pendsv_switch, up to the choice of the next task.

\* The task table os_sched_select looks at.
Saved == IF current_task # OS_TASK_ID_INVALID THEN Parked(current_task)
         ELSE schedules

Leaving == current_task # OS_TASK_ID_INVALID /\ Current.state = "EXITING"

SavedTcbs == IF Leaving THEN [tasks EXCEPT ![current_task] = FreeTcb]
             ELSE tasks

Selected == os_sched_select(Saved, yield_excluded_task)

\* Nobody is RUNNING once the outgoing task is parked; it is READY if it was
\* RUNNING, DORMANT without job and stack if it was EXITING, else as it was,
\* and nobody else has changed.
LEMMA ParkedEffect ==
    ASSUME StructureInv, cpu = "pendsv_in"
    PROVE  /\ Saved \in [TaskIds -> SchedTask]
           /\ \A t \in TaskIds : Saved[t].state # "RUNNING"
           /\ \A t \in TaskIds : t # current_task => Saved[t] = schedules[t]
           /\ Saved[OS_TASK_ID_IDLE].state = "READY"
           /\ \A t \in UserTasks : JobMatches(Saved[t])
           /\ current_task \in TaskIds /\ Current.state = "RUNNING" =>
                Saved[current_task] = [Current EXCEPT !.state = "READY"]
           /\ Leaving => /\ current_task \in UserTasks
                         /\ Saved[current_task] = ResetTask
           /\ current_task \in TaskIds
                /\ Current.state \notin {"RUNNING", "EXITING"} =>
                Saved[current_task] = Current
  <1>1. TypeOK /\ schedules \in [TaskIds -> SchedTask]
    BY DEF StructureInv, TypeOK
  <1>2. current_task = OS_TASK_ID_INVALID \/ current_task \in TaskIds
    BY <1>1, IdTypes DEF TypeOK
  <1>3. \A t \in TaskIds : schedules[t].state = "RUNNING" => t = current_task
    BY DEF StructureInv, SwitchPromised
  <1>4. schedules[OS_TASK_ID_IDLE].state \in {"READY", "RUNNING"}
    BY DEF StructureInv, IdleInv
  <1>5. \A t \in UserTasks : JobMatches(schedules[t])
    BY DEF StructureInv, SlotsConsistent, JobMatches, ActiveStates
  <1>6. Saved \in [TaskIds -> SchedTask]
    BY <1>1, <1>2, ParkedType DEF Saved
  <1>7. CASE current_task = OS_TASK_ID_INVALID
    BY <1>1, <1>3, <1>4, <1>5, <1>6, <1>7, IdTypes DEF Saved, Leaving
  <1>8. CASE current_task \in TaskIds
    <2>1. Saved = Parked(current_task) /\ current_task # OS_TASK_ID_INVALID
      BY <1>8, IdTypes DEF Saved
    <2>2. \A t \in TaskIds : t # current_task => Saved[t] = schedules[t]
      BY <1>1, <1>8, <2>1 DEF Parked
    <2>3. Current.state = "RUNNING" =>
            Saved[current_task] = [Current EXCEPT !.state = "READY"]
      BY <1>1, <1>8, <2>1 DEF Parked, Current
    <2>4. Current.state = "EXITING" => Saved[current_task] = ResetTask
      BY <1>1, <1>8, <2>1 DEF Parked, Current
    <2>5. Current.state \notin {"RUNNING", "EXITING"} =>
            Saved[current_task] = Current
      BY <1>1, <1>8, <2>1 DEF Parked, Current
    <2>6. Leaving => current_task \in UserTasks
      BY <1>4, <1>8, IdTypes DEF Leaving, Current
    <2>7. Current \in SchedTask
      BY <1>1, <1>8 DEF Current
    <2>8. Saved[current_task].state # "RUNNING"
      BY <2>3, <2>4, <2>5, <2>7 DEF SchedTask, ResetTask
    <2>9. current_task \in UserTasks => JobMatches(Saved[current_task])
      <3>1. current_task \in UserTasks => JobMatches(Current)
        BY <1>5 DEF Current
      <3> QED
        BY <2>3, <2>4, <2>5, <2>7, <3>1
        DEF SchedTask, ResetTask, JobMatches, ActiveStates
    <2>10. \A t \in UserTasks : JobMatches(Saved[t])
      BY <1>5, <2>2, <2>9, IdTypes
    <2>11. Saved[OS_TASK_ID_IDLE].state = "READY"
      <3>1. CASE current_task = OS_TASK_ID_IDLE
        BY <1>4, <2>3, <2>5, <2>7, <3>1 DEF SchedTask, Current
      <3>2. CASE current_task # OS_TASK_ID_IDLE
        BY <1>3, <1>4, <2>2, <3>2, IdTypes
      <3> QED BY <3>1, <3>2
    <2>12. \A t \in TaskIds : Saved[t].state # "RUNNING"
      BY <1>3, <2>2, <2>8
    <2> QED
      BY <1>6, <2>2, <2>3, <2>4, <2>5, <2>6, <2>10, <2>11, <2>12
      DEF Leaving
  <1> QED BY <1>2, <1>7, <1>8

\* The stack and the memory of every slot agree with its parked state.
LEMMA ParkedSlots ==
    ASSUME StructureInv, cpu = "pendsv_in", NEW t \in UserTasks
    PROVE  /\ SavedTcbs[t].stack_claimed <=> Saved[t].state # "DORMANT"
           /\ SavedTcbs[t].started => SavedTcbs[t].stack_claimed
           /\ ~SavedTcbs[t].started =>
                /\ (IF Leaving /\ t = current_task THEN 0 ELSE owned[t]) = 0
                /\ Saved[t].total_execution_ticks = 0
                /\ Saved[t].completed_job_count = 0
  <1>1. SlotsConsistent /\ OccupantInv
    BY DEF StructureInv
  <1>2. /\ schedules \in [TaskIds -> SchedTask]
        /\ tasks \in [TaskIds -> [stack_claimed : BOOLEAN,
                                  started : BOOLEAN]]
        /\ t \in TaskIds /\ t # OS_TASK_ID_INVALID
    BY IdTypes DEF StructureInv, TypeOK
  <1>3. CASE t # current_task
    BY <1>1, <1>2, <1>3, ParkedEffect
    DEF SavedTcbs, SlotsConsistent, OccupantInv
  <1>4. CASE t = current_task /\ Leaving
    <2>1. Saved[t] = ResetTask
      BY <1>4, ParkedEffect
    <2>2. SavedTcbs[t] = FreeTcb
      BY <1>2, <1>4 DEF SavedTcbs
    <2> QED BY <1>4, <2>1, <2>2 DEF ResetTask, FreeTcb
  <1>5. CASE t = current_task /\ ~Leaving
    <2>1. SavedTcbs = tasks
      BY <1>5 DEF SavedTcbs
    <2>2. Current \in SchedTask /\ Current.state # "EXITING"
      BY <1>2, <1>5 DEF Current, Leaving
    <2>3. \/ Saved[t] = Current
          \/ /\ Current.state = "RUNNING"
             /\ Saved[t] = [Current EXCEPT !.state = "READY"]
      BY <1>2, <1>5, <2>2, ParkedEffect
    <2>4. /\ Saved[t].state = "DORMANT" <=> Current.state = "DORMANT"
          /\ Saved[t].total_execution_ticks = Current.total_execution_ticks
          /\ Saved[t].completed_job_count = Current.completed_job_count
      BY <2>2, <2>3 DEF SchedTask
    <2> QED
      BY <1>1, <1>5, <2>1, <2>4 DEF SlotsConsistent, OccupantInv, Current
  <1> QED BY <1>3, <1>4, <1>5

\* There is always a task to run: a READY one, with a stack.
LEMMA SelectedIsReady ==
    ASSUME StructureInv, cpu = "pendsv_in"
    PROVE  /\ Selected \in TaskIds
           /\ Saved[Selected].state = "READY"
           /\ SavedTcbs[Selected].stack_claimed
  <1>1. /\ Saved \in [TaskIds -> SchedTask]
        /\ Saved[OS_TASK_ID_IDLE].state = "READY"
    BY ParkedEffect
  <1>2. yield_excluded_task \in TaskIdsOrInvalid
    BY DEF StructureInv, TypeOK
  <1>3. /\ Selected \in TaskIds
        /\ Saved[Selected].state = "READY"
    BY <1>1, <1>2, SelectResult, IdTypes DEF Selected, IsReady
  <1>4. CASE Selected \in UserTasks
    BY <1>3, <1>4, ParkedSlots
  <1>5. CASE Selected = OS_TASK_ID_IDLE
    <2>1. tasks[OS_TASK_ID_IDLE].stack_claimed
      BY DEF StructureInv, IdleInv
    <2>2. Leaving => current_task # OS_TASK_ID_IDLE
      BY ParkedEffect, IdTypes
    <2>3. tasks \in [TaskIds -> [stack_claimed : BOOLEAN,
                                 started : BOOLEAN]]
      BY DEF StructureInv, TypeOK
    <2>4. SavedTcbs[OS_TASK_ID_IDLE].stack_claimed
      BY <2>1, <2>2, <2>3, IdTypes DEF SavedTcbs
    <2> QED BY <1>3, <1>5, <2>4
  <1> QED BY <1>3, <1>4, <1>5, IdTypes

\* A recorded preemption takes the processor from the outgoing task, whatever
\* happened since it was recorded.
LEMMA PreemptionCommits ==
    ASSUME StructureInv, cpu = "pendsv_in", pending_preempt_sources # {}
    PROVE  current_task \in TaskIds /\ Selected # current_task
  <1>1. /\ current_task \in TaskIds
        /\ Current.state \in {"READY", "RUNNING"}
    BY DEF StructureInv, PreemptionJustified, Current
  <1>2. PICK c \in UserTasks :
           /\ schedules[c].state = "READY"
           /\ current_task = OS_TASK_ID_IDLE \/ Earlier(c, current_task)
    BY DEF StructureInv, PreemptionJustified, ReadyTasks
  <1>3. yield_excluded_task = OS_TASK_ID_INVALID
    BY DEF StructureInv, YieldInv
  <1>4. /\ schedules \in [TaskIds -> SchedTask]
        /\ Saved \in [TaskIds -> SchedTask]
        /\ c \in TaskIds /\ c # OS_TASK_ID_INVALID /\ c # OS_TASK_ID_IDLE
    BY <1>2, ParkedEffect, IdTypes DEF StructureInv, TypeOK
  <1>5. c # current_task
    BY <1>2, <1>4 DEF Earlier, SchedTask, UserTasks, Orders
  <1>6. Saved[c] = schedules[c]
    BY <1>4, <1>5, ParkedEffect
  <1>7. c \in Candidates(Saved, OS_TASK_ID_INVALID)
    <2>1. JobMatches(Saved[c])
      BY <1>2, ParkedEffect
    <2> QED
      BY <1>2, <1>4, <1>6, <2>1
      DEF Candidates, ReadyUserTasks, IsReady, JobMatches, ActiveStates
  <1>8. /\ Selected \in Candidates(Saved, OS_TASK_ID_INVALID)
        /\ \A d \in Candidates(Saved, OS_TASK_ID_INVALID) \ {Selected} :
              os_sched_outranks(Saved, Selected, d)
    BY <1>3, <1>4, <1>7, SelectIsBest DEF Selected
  <1>9. ASSUME Selected = current_task PROVE FALSE
    <2>1. current_task \in UserTasks /\ current_task # OS_TASK_ID_IDLE
      BY <1>8, <1>9, IdTypes DEF Candidates, ReadyUserTasks
    <2>2. PrecedesKey(Saved, current_task, c)
      BY <1>4, <1>5, <1>7, <1>8, <1>9 DEF os_sched_outranks
    <2>3. /\ Saved[current_task].absolute_deadline_order =
               schedules[current_task].absolute_deadline_order
          /\ Saved[current_task].priority = schedules[current_task].priority
      BY <1>1, <1>4, ParkedEffect DEF Current, SchedTask
    <2>4. Earlier(current_task, c)
      BY <1>6, <2>2, <2>3 DEF PrecedesKey, Earlier
    <2>5. Earlier(c, current_task)
      BY <1>2, <2>1
    <2>6. schedules[c] \in SchedTask /\ schedules[current_task] \in SchedTask
      BY <1>1, <1>4
    <2>7. /\ schedules[c].absolute_deadline_order \in Int
          /\ schedules[current_task].absolute_deadline_order \in Int
          /\ schedules[c].priority \in Int
          /\ schedules[current_task].priority \in Int
          /\ c \in Int /\ current_task \in Int
      BY <1>1, <1>4, <2>6, SchedulerConstants
      DEF SchedTask, Orders, TaskIds
    <2> QED BY <2>4, <2>5, <2>7 DEF Earlier
  <1> QED BY <1>1, <1>9

----------------------------------------------------------------------------
\* os_pendsv_switch commits the choice.

\* What the step assigns, in the terms above; all its checks hold.
LEMMA SwitchEffect ==
    ASSUME StructureInv, os_pendsv_switch
    PROVE  /\ schedules' = [Saved EXCEPT ![Selected].state = "RUNNING"]
           /\ tasks' = IF Selected = OS_TASK_ID_IDLE THEN SavedTcbs
                       ELSE [SavedTcbs EXCEPT ![Selected].started = TRUE]
           /\ owned' = IF Leaving THEN [owned EXCEPT ![current_task] = 0]
                       ELSE owned
           /\ current_task' = Selected
           /\ os_arch_has_active_context' = TRUE
           /\ yield_excluded_task' = OS_TASK_ID_INVALID
           /\ pending_preempt_sources' = {}
           /\ cpu' = "pendsv_out"
           /\ UNCHANGED <<running, primask, pendsv_pending>>
           /\ running /\ ~primask
           /\ panics' = {}
  <1> DEFINE outgoing == current_task
             isTask == outgoing # OS_TASK_ID_INVALID
             outgoing_state ==
                 IF isTask THEN schedules[outgoing].state ELSE "DORMANT"
             exiting == outgoing_state = "EXITING"
             saved == IF isTask THEN Parked(outgoing) ELSE schedules
             tcbs == IF exiting THEN [tasks EXCEPT ![outgoing] = FreeTcb]
                     ELSE tasks
             selected == os_sched_select(saved, yield_excluded_task)
             next == IF selected = OS_TASK_ID_INVALID THEN OS_TASK_ID_IDLE
                     ELSE selected
             committed == [saved EXCEPT ![next].state = "RUNNING"]
  <1>1. cpu = "pendsv_in"
    BY DEF os_pendsv_switch
  <1>2. saved = Saved /\ selected = Selected
    BY DEF Saved, Selected
  <1>3. exiting <=> Leaving
    BY DEF Leaving, Current
  <1>4. tcbs = SavedTcbs
    BY <1>3 DEF SavedTcbs
  <1>5. next = Selected
    BY <1>1, <1>2, SelectedIsReady, IdTypes
  <1>6. committed = [Saved EXCEPT ![Selected].state = "RUNNING"]
    BY <1>2, <1>5
  <1>7. /\ schedules' = committed
        /\ tasks' = IF next = OS_TASK_ID_IDLE THEN tcbs
                    ELSE [tcbs EXCEPT ![next].started = TRUE]
        /\ owned' = IF exiting THEN os_allocator_release_owner(outgoing)
                    ELSE owned
        /\ current_task' = next
        /\ os_arch_has_active_context' = TRUE
        /\ yield_excluded_task' = OS_TASK_ID_INVALID
        /\ pending_preempt_sources' = {}
        /\ cpu' = "pendsv_out"
        /\ UNCHANGED <<running, primask, pendsv_pending>>
    BY DEF os_pendsv_switch
  <1>8. running /\ ~primask
    BY <1>1 DEF StructureInv, ContextInv, MaskInv
  <1>9. panics' = {}
    <2>1. panics' =
            UNION {Check(os_arch_has_active_context =>
                           isTask /\ StackIsValid(tasks, outgoing),
                         "SAVE_PSP"),
                   Check(~os_arch_has_active_context => ~isTask, "FIRST_PSP"),
                   Check(exiting => outgoing # OS_TASK_ID_IDLE
                           /\ tasks[outgoing].stack_claimed, "RECLAIM"),
                   Check(saved[next].state = "READY"
                           /\ StackIsValid(tcbs, next), "NEXT_TASK"),
                   Check(pending_preempt_sources # {} =>
                           isTask /\ outgoing # next, "PREEMPT_COMMIT"),
                   Check(StateVerified(running, TRUE, committed, next),
                         "SWITCH")}
      BY DEF os_pendsv_switch
    <2>2. os_arch_has_active_context <=> isTask
      BY DEF StructureInv, ContextInv
    <2>3. isTask => /\ outgoing \in TaskIds
                    /\ tasks[outgoing].stack_claimed
      BY IdTypes DEF StructureInv, TypeOK, IdleInv, OccupantInv
    <2>4. os_arch_has_active_context =>
             isTask /\ StackIsValid(tasks, outgoing)
      BY <2>2, <2>3 DEF StackIsValid
    <2>5. exiting => outgoing # OS_TASK_ID_IDLE
                       /\ tasks[outgoing].stack_claimed
      BY <1>1, <1>3, <2>3, ParkedEffect, IdTypes
    <2>6. saved[next].state = "READY" /\ StackIsValid(tcbs, next)
      BY <1>1, <1>2, <1>4, <1>5, SelectedIsReady DEF StackIsValid
    <2>7. pending_preempt_sources # {} => isTask /\ outgoing # next
      BY <1>1, <1>5, PreemptionCommits, IdTypes
    <2>8. StateVerified(running, TRUE, committed, next)
      <3>1. /\ Saved \in [TaskIds -> SchedTask] /\ Selected \in TaskIds
            /\ \A t \in TaskIds : Saved[t].state # "RUNNING"
        BY <1>1, ParkedEffect, SelectedIsReady
      <3>2. /\ committed[Selected].state = "RUNNING"
            /\ \A t \in TaskIds : t # Selected => committed[t] = Saved[t]
        BY <1>6, <3>1 DEF SchedTask
      <3>3. {t \in TaskIds : committed[t].state = "RUNNING"} = {Selected}
        BY <3>1, <3>2
      <3> QED BY <1>5, <1>8, <3>3 DEF StateVerified
    <2> HIDE DEF isTask, exiting, tcbs, saved, next, committed, outgoing
    <2> QED BY <2>1, <2>2, <2>4, <2>5, <2>6, <2>7, <2>8 DEF Check
  <1> HIDE DEF committed, tcbs, next, exiting
  <1> QED
    BY <1>3, <1>4, <1>5, <1>6, <1>7, <1>8, <1>9
    DEF os_allocator_release_owner

\* The switch of PendSV keeps the structure.
LEMMA SwitchStep == StructureInv /\ os_pendsv_switch => StructureInv'
  <1> SUFFICES ASSUME StructureInv, os_pendsv_switch PROVE StructureInv'
    OBVIOUS
  <1>1. TypeOK /\ TypeOK' /\ cpu = "pendsv_in"
    BY SwitchType DEF StructureInv, os_pendsv_switch
  <1>2. /\ schedules' = [Saved EXCEPT ![Selected].state = "RUNNING"]
        /\ tasks' = IF Selected = OS_TASK_ID_IDLE THEN SavedTcbs
                    ELSE [SavedTcbs EXCEPT ![Selected].started = TRUE]
        /\ owned' = IF Leaving THEN [owned EXCEPT ![current_task] = 0]
                    ELSE owned
        /\ current_task' = Selected
        /\ os_arch_has_active_context' = TRUE
        /\ yield_excluded_task' = OS_TASK_ID_INVALID
        /\ pending_preempt_sources' = {}
        /\ cpu' = "pendsv_out"
        /\ running' /\ ~primask' /\ panics' = {}
    BY SwitchEffect
  <1>3. PICK next \in TaskIds :
           /\ next = Selected
           /\ Saved[next].state = "READY" /\ SavedTcbs[next].stack_claimed
    BY <1>1, SelectedIsReady
  <1>4. /\ Saved \in [TaskIds -> SchedTask]
        /\ \A t \in TaskIds : Saved[t].state # "RUNNING"
        /\ Saved[OS_TASK_ID_IDLE].state = "READY"
        /\ \A t \in UserTasks : JobMatches(Saved[t])
    BY <1>1, ParkedEffect
  <1>5. SavedTcbs \in [TaskIds -> [stack_claimed : BOOLEAN,
                                  started : BOOLEAN]]
    <2>1. tasks \in [TaskIds -> [stack_claimed : BOOLEAN, started : BOOLEAN]]
      BY <1>1 DEF TypeOK
    <2>2. FreeTcb \in [stack_claimed : BOOLEAN, started : BOOLEAN]
      BY DEF FreeTcb
    <2> QED BY <2>1, <2>2 DEF SavedTcbs
  <1>6. /\ schedules'[next] = [Saved[next] EXCEPT !.state = "RUNNING"]
        /\ \A t \in TaskIds : t # next => schedules'[t] = Saved[t]
    BY <1>2, <1>3, <1>4
  <1>7. /\ \A t \in TaskIds : tasks'[t].stack_claimed
                                = SavedTcbs[t].stack_claimed
        /\ \A t \in TaskIds : t # next => tasks'[t] = SavedTcbs[t]
        /\ next # OS_TASK_ID_IDLE => tasks'[next].started = TRUE
    BY <1>2, <1>3, <1>5
  <1>8. schedules'[next].state = "RUNNING"
    BY <1>3, <1>4, <1>6 DEF SchedTask
  <1>9. ContextInv'
    BY <1>2, <1>3, IdTypes DEF ContextInv
  <1>10. MaskInv' /\ YieldInv' /\ PreemptionJustified' /\ OnlyTimeRangePanics'
    BY <1>2 DEF MaskInv, YieldInv, PreemptionJustified, OnlyTimeRangePanics
  <1>11. IdleInv'
    <2>1. SavedTcbs[OS_TASK_ID_IDLE].stack_claimed
      <3>1. tasks[OS_TASK_ID_IDLE].stack_claimed
        BY DEF StructureInv, IdleInv
      <3>2. Leaving => current_task # OS_TASK_ID_IDLE
        BY <1>1, ParkedEffect, IdTypes
      <3> QED BY <1>1, <3>1, <3>2, IdTypes DEF SavedTcbs, TypeOK
    <2>2. schedules'[OS_TASK_ID_IDLE].state \in {"READY", "RUNNING"}
      BY <1>4, <1>6, <1>8, IdTypes
    <2> QED BY <1>7, <2>1, <2>2, IdTypes DEF IdleInv
  <1>12. OccupantInv'
    <2>1. \A t \in UserTasks : tasks'[t].started => tasks'[t].stack_claimed
      BY <1>1, <1>3, <1>7, ParkedSlots, IdTypes
    <2>2. next \in UserTasks =>
             tasks'[next].started /\ schedules'[next].state # "DORMANT"
      BY <1>7, <1>8, IdTypes
    <2> QED BY <1>2, <1>3, <2>1, <2>2 DEF OccupantInv, Current
  <1>13. SlotsConsistent'
    <2> SUFFICES ASSUME NEW t \in UserTasks
                 PROVE  LET task == schedules'[t] IN
                        /\ task.job_active <=>
                             task.state \in {"READY", "RUNNING", "SLEEPING"}
                        /\ tasks'[t].stack_claimed <=>
                              task.state # "DORMANT"
                        /\ ~tasks'[t].started =>
                             /\ owned'[t] = 0
                             /\ task.total_execution_ticks = 0
                             /\ task.completed_job_count = 0
      BY DEF SlotsConsistent
    <2>1. t \in TaskIds
      BY IdTypes
    <2>2. /\ SavedTcbs[t].stack_claimed <=> Saved[t].state # "DORMANT"
          /\ ~SavedTcbs[t].started =>
               /\ (IF Leaving /\ t = current_task THEN 0 ELSE owned[t]) = 0
               /\ Saved[t].total_execution_ticks = 0
               /\ Saved[t].completed_job_count = 0
      BY <1>1, ParkedSlots
    <2>3. JobMatches(Saved[t])
      BY <1>4
    <2>4. CASE t = next
      BY <1>3, <1>4, <1>6, <1>7, <1>8, <2>1, <2>3, <2>4, IdTypes
      DEF JobMatches, ActiveStates, SchedTask
    <2>5. CASE t # next
      <3>1. schedules'[t] = Saved[t] /\ tasks'[t] = SavedTcbs[t]
        BY <1>6, <1>7, <2>1, <2>5
      <3>2. owned'[t] = IF Leaving /\ t = current_task THEN 0 ELSE owned[t]
        BY <1>1, <1>2, <2>1 DEF TypeOK
      <3> QED BY <2>2, <2>3, <3>1, <3>2 DEF JobMatches, ActiveStates
    <2> QED BY <2>4, <2>5
  <1>14. SwitchPromised'
    BY <1>2, <1>3, <1>4, <1>6, <1>8 DEF SwitchPromised
  <1> QED
    BY <1>1, <1>9, <1>10, <1>11, <1>12, <1>13, <1>14 DEF StructureInv

----------------------------------------------------------------------------
\* The actions that change one thing.

\* Allocating and freeing keep the structure: only a task that has been
\* dispatched does either.
LEMMA MemoryStep ==
    StructureInv /\ (os_memory_alloc \/ os_memory_free) => StructureInv'
  <1> SUFFICES ASSUME StructureInv, os_memory_alloc \/ os_memory_free
               PROVE  StructureInv'
    OBVIOUS
  <1>1. TypeOK'
    BY SimpleTypes DEF StructureInv
  <1>2. /\ current_task \in UserTasks
        /\ Current.state = "RUNNING" /\ os_arch_has_active_context
    BY IdTypes
    DEF os_memory_alloc, os_memory_free, UserTaskExecutes,
        caller_is_running_task, Current
  <1>3. tasks[current_task].started
    BY <1>2 DEF StructureInv, OccupantInv
  <1>4. UNCHANGED <<running, current_task, os_arch_has_active_context,
                    yield_excluded_task, pending_preempt_sources, tasks,
                    schedules, cpu, primask, pendsv_pending, panics>>
    BY DEF os_memory_alloc, os_memory_free, identity, pending, hardware
  <1>5. \A t \in TaskIds : t # current_task => owned'[t] = owned[t]
    <2>1. owned \in [TaskIds -> Nat]
      BY DEF StructureInv, TypeOK
    <2> QED BY <2>1 DEF os_memory_alloc, os_memory_free
  <1>6. SlotsConsistent'
    <2>1. SlotsConsistent
      BY DEF StructureInv
    <2> QED BY <1>3, <1>4, <1>5, <2>1, IdTypes DEF SlotsConsistent
  <1> QED
    BY <1>1, <1>4, <1>6
    DEF StructureInv, ContextInv, MaskInv, YieldInv, IdleInv, OccupantInv,
        SwitchPromised, PreemptionJustified, OnlyTimeRangePanics, Current,
        SwitchToCome, ReadyTasks, Earlier

\* So do the steps that leave every task as it is.
LEMMA SimpleSteps ==
    ASSUME StructureInv,
           \/ DisableInterrupts \/ EnableInterrupts
           \/ os_kernel_start \/ SvcStart \/ PendsvEnter \/ PendsvReturn
           \/ UNCHANGED vars
    PROVE  StructureInv'
  <1>1. TypeOK'
    BY SimpleTypes DEF StructureInv
  <1>2. UNCHANGED <<current_task, os_arch_has_active_context,
                    yield_excluded_task, pending_preempt_sources, tasks,
                    schedules, owned>>
    BY DEF DisableInterrupts, EnableInterrupts, os_kernel_start, SvcStart,
           PendsvEnter, PendsvReturn, vars, identity, pending, hardware
  <1>3. IdleInv' /\ OccupantInv' /\ SlotsConsistent'
    BY <1>2
    DEF StructureInv, IdleInv, OccupantInv, SlotsConsistent, Current
  <1>4. CASE DisableInterrupts
    <2>1. /\ cpu = "thread" /\ Current.state = "RUNNING"
          /\ UNCHANGED <<running, cpu, pendsv_pending, panics>>
      BY <1>4, QuietThread DEF DisableInterrupts, identity
    <2> QED
      BY <1>1, <1>2, <1>3, <2>1
      DEF StructureInv, ContextInv, MaskInv, YieldInv, SwitchPromised,
          PreemptionJustified, OnlyTimeRangePanics, Current, SwitchToCome,
          ReadyTasks, Earlier
  <1>5. CASE EnableInterrupts \/ UNCHANGED vars
    <2>1. /\ primask' => primask
          /\ UNCHANGED <<running, cpu, pendsv_pending, panics>>
      BY <1>5 DEF EnableInterrupts, vars, identity, hardware
    <2> QED
      BY <1>1, <1>2, <1>3, <2>1
      DEF StructureInv, ContextInv, MaskInv, YieldInv, SwitchPromised,
          PreemptionJustified, OnlyTimeRangePanics, Current, SwitchToCome,
          ReadyTasks, Earlier
  <1>6. CASE os_kernel_start
    <2>1. /\ cpu = "main" /\ cpu' = "starting" /\ running'
          /\ UNCHANGED <<primask, pendsv_pending, panics>>
      BY <1>6 DEF os_kernel_start
    <2> QED
      BY <1>1, <1>2, <1>3, <2>1
      DEF StructureInv, ContextInv, MaskInv, YieldInv, SwitchPromised,
          PreemptionJustified, OnlyTimeRangePanics, Current, SwitchToCome,
          ReadyTasks, Earlier
  <1>7. CASE SvcStart
    <2>1. /\ cpu = "starting" /\ pendsv_pending'
          /\ UNCHANGED <<running, cpu, primask>>
          /\ panics' = Check(current_task = OS_TASK_ID_INVALID
                               /\ ~os_arch_has_active_context, "SVC_START")
      BY <1>7 DEF SvcStart, request_pendsv, identity
    <2>2. panics' = {}
      BY <2>1 DEF Check, StructureInv, ContextInv
    <2> QED
      BY <1>1, <1>2, <1>3, <2>1, <2>2
      DEF StructureInv, ContextInv, MaskInv, YieldInv, SwitchPromised,
          PreemptionJustified, OnlyTimeRangePanics, Current, SwitchToCome,
          ReadyTasks, Earlier
  <1>8. CASE PendsvEnter
    <2>1. /\ cpu \in {"starting", "thread"} /\ pendsv_pending /\ ~primask
          /\ cpu' = "pendsv_in"
          /\ UNCHANGED <<running, primask, panics>>
      BY <1>8 DEF PendsvEnter, identity
    <2> QED
      BY <1>1, <1>2, <1>3, <2>1
      DEF StructureInv, ContextInv, MaskInv, YieldInv, SwitchPromised,
          PreemptionJustified, OnlyTimeRangePanics, Current, SwitchToCome,
          ReadyTasks, Earlier
  <1>9. CASE PendsvReturn
    <2>1. /\ cpu = "pendsv_out" /\ cpu' = "thread"
          /\ UNCHANGED <<running, primask, pendsv_pending, panics>>
      BY <1>9 DEF PendsvReturn, identity
    <2> QED
      BY <1>1, <1>2, <1>3, <2>1
      DEF StructureInv, ContextInv, MaskInv, YieldInv, SwitchPromised,
          PreemptionJustified, OnlyTimeRangePanics, Current, SwitchToCome,
          ReadyTasks, Earlier
  <1> QED BY <1>4, <1>5, <1>6, <1>7, <1>8, <1>9

----------------------------------------------------------------------------

\* Every step of the kernel keeps its structure.
LEMMA StructureStep == StructureInv /\ [Next]_vars => StructureInv'
  <1> SUFFICES ASSUME StructureInv, [Next]_vars PROVE StructureInv'
    OBVIOUS
  <1>1. CASE \E config \in Configs : os_task_create(config)
    BY <1>1, CreateInv
  <1>2. CASE \E sleep_ticks \in SleepTicks : SvcSleep(sleep_ticks)
    BY <1>2, SleepStep
  <1>3. CASE SvcYield
    BY <1>3, YieldStep
  <1>4. CASE SvcExit
    BY <1>4, ExitStep
  <1>5. CASE SvcWaitNextPeriod
    BY <1>5, WaitStep
  <1>6. CASE SysTick
    BY <1>6, SysTickStep
  <1>7. CASE os_pendsv_switch
    BY <1>7, SwitchStep
  <1>8. CASE os_memory_alloc \/ os_memory_free
    BY <1>8, MemoryStep
  <1>9. CASE \/ DisableInterrupts \/ EnableInterrupts
             \/ os_kernel_start \/ SvcStart
             \/ PendsvEnter \/ PendsvReturn \/ UNCHANGED vars
    BY <1>9, SimpleSteps
  <1> QED
    BY <1>1, <1>2, <1>3, <1>4, <1>5, <1>6, <1>7, <1>8, <1>9
    DEF Next, Halted

\* Whatever the tasks do and wherever SysTick strikes, the kernel's state is
\* well formed between any two handlers.
THEOREM StructureSafe == Spec => []StructureInv
  <1>1. Init => StructureInv
    BY InitInv
  <1>2. StructureInv /\ [Next]_vars => StructureInv'
    BY StructureStep
  <1> QED BY <1>1, <1>2, PTL DEF Spec

\* A slot's state, job, stack and memory agree, across exit and reuse.
THEOREM SlotsSafe == Spec => []SlotsConsistent
  <1>1. StructureInv => SlotsConsistent
    BY DEF StructureInv
  <1> QED BY <1>1, StructureSafe, PTL

\* At most the current task is RUNNING, and no request for a switch is lost.
THEOREM SwitchSafe == Spec => []SwitchPromised
  <1>1. StructureInv => SwitchPromised
    BY DEF StructureInv
  <1> QED BY <1>1, StructureSafe, PTL

\* A recorded preemption always has a better task to switch to.
THEOREM PreemptionSafe == Spec => []PreemptionJustified
  <1>1. StructureInv => PreemptionJustified
    BY DEF StructureInv
  <1> QED BY <1>1, StructureSafe, PTL

\* Away from the end of the time range the kernel's own checks never fail.
THEOREM PanicsOnlyAtTimeLimit == Spec => []OnlyTimeRangePanics
  <1>1. StructureInv => OnlyTimeRangePanics
    BY DEF StructureInv
  <1> QED BY <1>1, StructureSafe, PTL

----------------------------------------------------------------------------
\* Time: nothing is ever overdue, a miss is latched at its tick, jobs are
\* conserved.

\* A time that is within one interval of the end of the 64-bit range.
NearTheEnd(time) == time + OS_MAX_TIME_INTERVAL >= UINT64_MAX

\* The constants are numbers, and so is everything typed by them.
LEMMA NumberTypes ==
    /\ UINT64_MAX \in Nat /\ UINT32_MAX \in Nat /\ UINT32_MAX # 0
    /\ OS_MAX_TIME_INTERVAL \in Nat
    /\ Orders \subseteq Nat /\ Counts \subseteq Nat /\ Intervals \subseteq Nat
    /\ \A n \in Orders : n <= UINT64_MAX
    /\ \A n \in Counts : n <= UINT32_MAX
    /\ \A n \in Intervals : n <= OS_MAX_TIME_INTERVAL
  BY SchedulerConstants DEF Orders, Counts, Intervals

----------------------------------------------------------------------------
\* What the scheduling operators do to a task's times and jobs.

\* Charging a tick concerns neither (os_sched_account_running_tick).
LEMMA AccountTimely ==
    ASSUME NEW task \in SchedTask, NEW now \in Nat,
           Timely(task, now), OnTime(task, now), JobMatches(task)
    PROVE  LET after == os_sched_account_running_tick(task) IN
           /\ Timely(after, now) /\ OnTime(after, now) /\ JobMatches(after)
  <1>1. os_sched_account_running_tick(task) \in SchedTask
    BY AccountType
  <1> QED
    BY <1>1
    DEF os_sched_account_running_tick, SchedTask, Timely, OnTime, JobMatches,
        TimingValid, MissLatched, JobsAddUp, ActiveJobs, LateJobs

\* A deadline reached at the next tick is latched at it, once
\* (os_sched_record_deadline_miss).
LEMMA MissTimely ==
    ASSUME NEW task \in SchedTask, NEW now \in Nat,
           Timely(task, now), OnTime(task, now), JobMatches(task)
    PROVE  LET after == os_sched_record_deadline_miss(task, now + 1) IN
           /\ Timely(after, now + 1)
           /\ OnTime(after, now) /\ JobMatches(after)
  <1> DEFINE after == os_sched_record_deadline_miss(task, now + 1)
             missing == /\ task.job_active /\ ~task.deadline_miss_latched
                        /\ task.absolute_deadline_order <= now + 1
  <1>1. after \in SchedTask
    BY MissType
  <1>2. /\ task.absolute_deadline_order \in Nat
        /\ task.deadline_miss_count \in Nat
        /\ task.completed_job_count \in Nat
        /\ task.job_active \in BOOLEAN
        /\ task.deadline_miss_latched \in BOOLEAN
    BY NumberTypes DEF SchedTask
  <1>3. CASE ~missing
    <2>1. after = task
      BY <1>3 DEF os_sched_record_deadline_miss, os_tick_reached
    <2>2. MissLatched(task, now + 1)
      BY <1>2, <1>3 DEF Timely, MissLatched
    <2> QED BY <2>1, <2>2 DEF Timely
  <1>4. CASE missing
    <2>1. after = [task EXCEPT !.deadline_miss_latched = TRUE,
                               !.deadline_miss_count = increment_saturating(@)]
      BY <1>4 DEF os_sched_record_deadline_miss, os_tick_reached
    <2>2. /\ after.deadline_miss_latched = TRUE
          /\ after.deadline_miss_count
               = increment_saturating(task.deadline_miss_count)
          /\ after.job_active = task.job_active
          /\ after.absolute_deadline_order = task.absolute_deadline_order
          /\ after.job_sequence = task.job_sequence
          /\ after.completed_job_count = task.completed_job_count
      BY <2>1 DEF SchedTask
    <2>3. TimingValid(after) /\ OnTime(after, now) /\ JobMatches(after)
      BY <2>1 DEF SchedTask, Timely, TimingValid, OnTime, JobMatches
    <2>4. MissLatched(after, now + 1)
      BY <1>4, <2>2 DEF MissLatched
    <2>5. JobsAddUp(after)
      <3>1. /\ LateJobs(task) = 0 /\ LateJobs(after) = 1
            /\ ActiveJobs(task) = ActiveJobs(after)
        BY <1>4, <2>2 DEF LateJobs, ActiveJobs
      <3>2. increment_saturating(task.deadline_miss_count)
              <= task.deadline_miss_count + 1
        BY <1>2 DEF increment_saturating
      <3>3. increment_saturating(task.deadline_miss_count) \in Nat
        BY <1>2 DEF increment_saturating
      <3> QED BY <1>2, <2>2, <3>1, <3>2, <3>3 DEF Timely, JobsAddUp
    <2> QED BY <2>3, <2>4, <2>5 DEF Timely
  <1> QED BY <1>3, <1>4

\* A release that finds the previous job active is counted and the next one
\* is put a period later; only near the end does that not fit
\* (os_sched_record_active_release).
LEMMA ActiveReleaseTimely ==
    ASSUME NEW task \in SchedTask, NEW now \in Nat,
           Timely(task, now + 1), OnTime(task, now), JobMatches(task)
    PROVE  LET after == os_sched_record_active_release(task, now + 1) IN
           /\ Timely(after, now + 1) /\ JobMatches(after)
           /\ after.state = task.state
           /\ IF after.time_range_exhausted THEN NearTheEnd(now + 1)
              ELSE OnTime(after, now)
           /\ task.state = "WAITING_RELEASE" => after = task
           /\ ~after.time_range_exhausted /\ task.kind = "PERIODIC"
                /\ task.state \in ActiveStates =>
                  now + 1 < after.next_release_order
  <1> DEFINE after == os_sched_record_active_release(task, now + 1)
             counts == /\ task.kind = "PERIODIC" /\ task.job_active
                       /\ task.next_release_order <= now + 1
  <1>1. /\ task.next_release_order \in Nat /\ task.period_ticks \in Nat
        /\ task.period_ticks <= OS_MAX_TIME_INTERVAL
        /\ task.time_range_exhausted \in BOOLEAN
        /\ UINT64_MAX \in Nat /\ OS_MAX_TIME_INTERVAL \in Nat
    BY NumberTypes DEF SchedTask
  <1>2. CASE ~counts
    <2>1. after = task
      BY <1>2 DEF os_sched_record_active_release, os_tick_reached
    <2>2. task.kind = "PERIODIC" /\ task.state \in ActiveStates =>
            now + 1 < task.next_release_order
      BY <1>1, <1>2 DEF JobMatches
    <2>3. ~task.time_range_exhausted
      BY DEF OnTime
    <2> QED BY <2>1, <2>2, <2>3
  <1>3. CASE counts
    <2>1. task.state \in ActiveStates
      BY <1>3 DEF JobMatches
    <2>2. task.next_release_order = now + 1
      BY <1>1, <1>3, <2>1 DEF OnTime, ActiveStates
    <2>3. task.period_ticks # 0
      BY <1>3, <2>1 DEF Timely, TimingValid, ActiveStates
    <2>4. CASE task.next_release_order > UINT64_MAX - task.period_ticks
      <3>1. after = [task EXCEPT !.time_range_exhausted = TRUE]
        BY <1>3, <2>1, <2>4
        DEF os_sched_record_active_release, os_tick_reached, ActiveStates
      <3>2. NearTheEnd(now + 1)
        BY <1>1, <2>2, <2>4 DEF NearTheEnd
      <3>3. /\ after.time_range_exhausted = TRUE
            /\ after.state = task.state
            /\ Timely(after, now + 1) /\ JobMatches(after)
        BY <3>1
        DEF SchedTask, Timely, JobMatches, TimingValid, MissLatched,
            JobsAddUp, ActiveJobs, LateJobs
      <3> QED BY <2>1, <3>2, <3>3 DEF ActiveStates
    <2>5. CASE ~(task.next_release_order > UINT64_MAX - task.period_ticks)
      <3>1. after = [task EXCEPT
                       !.missed_release_count = increment_saturating(@),
                       !.next_release_order = @ + task.period_ticks]
        BY <1>3, <2>1, <2>3, <2>5
        DEF os_sched_record_active_release, os_tick_reached, ActiveStates
      <3>2. /\ after.next_release_order = task.next_release_order
                                             + task.period_ticks
            /\ after.next_release_order > now + 1
        <4>1. after.next_release_order = task.next_release_order
                                           + task.period_ticks
          BY <3>1 DEF SchedTask
        <4> HIDE DEF after
        <4> QED BY <1>1, <2>2, <2>3, <4>1
      <3>3. /\ after.state = task.state /\ after.kind = task.kind
            /\ after.wake_order = task.wake_order
            /\ after.time_range_exhausted = task.time_range_exhausted
            /\ Timely(after, now + 1) /\ JobMatches(after)
        BY <3>1
        DEF SchedTask, Timely, JobMatches, TimingValid, MissLatched,
            JobsAddUp, ActiveJobs, LateJobs
      <3>4. after.next_release_order \in Nat
        BY <1>1, <3>2
      <3>5. now < after.next_release_order
        BY <3>2, <3>4
      <3>6. OnTime(after, now)
        BY <3>3, <3>5 DEF OnTime
      <3>7. ~after.time_range_exhausted
        BY <3>6 DEF OnTime
      <3> QED BY <2>1, <3>2, <3>3, <3>6, <3>7 DEF ActiveStates
    <2> QED BY <2>4, <2>5
  <1> QED BY <1>2, <1>3

\* A job activated at its release time is due later, its counters say one job
\* more, and its next release is still to come; near the end of the range it
\* is not activated (activate_job).
LEMMA ActivateTimely ==
    ASSUME NEW task \in SchedTask, NEW now \in Nat,
           task.state = "WAITING_RELEASE", ~task.job_active,
           task.release_order = now, ~task.time_range_exhausted,
           TimingValid(task), JobsAddUp(task)
    PROVE  LET after == activate_job(task) IN
           /\ Timely(after, now)
           /\ IF after.time_range_exhausted
              THEN NearTheEnd(now) /\ ~ActivationFits(task)
              ELSE after.state = "READY" /\ OnTime(after, now)
  <1> DEFINE after == activate_job(task)
  <1>1. /\ task.relative_deadline_ticks \in Nat /\ task.period_ticks \in Nat
        /\ task.period_ticks <= OS_MAX_TIME_INTERVAL
        /\ task.relative_deadline_ticks <= OS_MAX_TIME_INTERVAL
        /\ task.job_sequence \in Nat /\ task.job_sequence <= UINT32_MAX
        /\ task.completed_job_count \in Nat
        /\ task.deadline_miss_count \in Nat
        /\ UINT64_MAX \in Nat /\ OS_MAX_TIME_INTERVAL \in Nat
        /\ UINT32_MAX \in Nat
    BY NumberTypes DEF SchedTask
  <1>2. CASE ~ActivationFits(task)
    <2>1. after = [task EXCEPT !.time_range_exhausted = TRUE]
      BY <1>2 DEF activate_job
    <2>2. NearTheEnd(now)
      BY <1>1, <1>2 DEF ActivationFits, NearTheEnd
    <2>3. after.time_range_exhausted = TRUE /\ Timely(after, now)
      BY <2>1
      DEF SchedTask, Timely, TimingValid, MissLatched, JobsAddUp, ActiveJobs,
          LateJobs
    <2> QED BY <1>2, <2>2, <2>3
  <1>3. CASE ActivationFits(task)
    <2>1. /\ after.absolute_deadline_order
               = now + task.relative_deadline_ticks
          /\ after.deadline_miss_latched = FALSE /\ after.job_active = TRUE
          /\ after.job_sequence = increment_saturating(task.job_sequence)
          /\ after.completed_job_count = task.completed_job_count
          /\ after.deadline_miss_count = task.deadline_miss_count
          /\ task.kind = "PERIODIC" =>
               after.next_release_order = now + task.period_ticks
          /\ after.state = "READY" /\ after.kind = task.kind
          /\ after.relative_deadline_ticks = task.relative_deadline_ticks
          /\ after.period_ticks = task.period_ticks
          /\ after.time_range_exhausted = FALSE
      BY <1>3 DEF activate_job, SchedTask
    <2> HIDE DEF after
    <2>2. /\ task.relative_deadline_ticks # 0
          /\ task.kind = "PERIODIC" => task.period_ticks # 0
      BY DEF TimingValid
    <2>3. TimingValid(after)
      BY <2>1, <2>2 DEF TimingValid
    <2>4. MissLatched(after, now)
      BY <1>1, <2>1, <2>2 DEF MissLatched
    <2>5. OnTime(after, now)
      BY <1>1, <2>1, <2>2 DEF OnTime
    <2>6. JobsAddUp(after)
      <3> SUFFICES ASSUME after.job_sequence < UINT32_MAX
                   PROVE  JobsAddUp(after)
        BY DEF JobsAddUp
      <3>1. /\ task.job_sequence < UINT32_MAX
            /\ after.job_sequence = task.job_sequence + 1
        BY <1>1, <2>1 DEF increment_saturating
      <3>2. /\ task.job_sequence = task.completed_job_count
            /\ task.deadline_miss_count <= task.completed_job_count
        BY <1>1, <3>1 DEF JobsAddUp, ActiveJobs, LateJobs
      <3> QED
        BY <1>1, <2>1, <3>1, <3>2 DEF JobsAddUp, ActiveJobs, LateJobs
    <2> QED BY <2>1, <2>3, <2>4, <2>5, <2>6 DEF after, Timely
  <1> QED BY <1>2, <1>3

\* A waiting task is released at the very tick of its release time
\* (os_sched_release_due).
LEMMA ReleaseDueTimely ==
    ASSUME NEW task \in SchedTask, NEW now \in Nat,
           Timely(task, now + 1), JobMatches(task),
           IF task.time_range_exhausted THEN NearTheEnd(now + 1)
           ELSE OnTime(task, now),
           task.state = "WAITING_RELEASE" => ~task.time_range_exhausted,
           ~task.time_range_exhausted /\ task.kind = "PERIODIC"
             /\ task.state \in ActiveStates =>
               now + 1 < task.next_release_order
    PROVE  LET after == os_sched_release_due(task, now + 1) IN
           /\ Timely(after, now + 1)
           /\ after.time_range_exhausted => NearTheEnd(now + 1)
           /\ ~after.time_range_exhausted =>
                \/ OnTime(after, now + 1)
                \/ /\ after = task /\ task.state = "SLEEPING"
                   /\ OnTime([task EXCEPT !.state = "READY"], now + 1)
                   /\ now < task.wake_order
  <1> DEFINE after == os_sched_release_due(task, now + 1)
             moved == [task EXCEPT !.release_order = task.next_release_order]
  <1>1. /\ task.next_release_order \in Nat /\ task.wake_order \in Nat
        /\ task.time_range_exhausted \in BOOLEAN
    BY NumberTypes DEF SchedTask
  <1>2. CASE ReleaseIsDue(task, now + 1)
    <2>1. after = activate_job(moved)
      BY <1>2 DEF os_sched_release_due
    <2>2. /\ task.state = "WAITING_RELEASE" /\ ~task.job_active
          /\ task.next_release_order <= now + 1
          /\ ~task.time_range_exhausted
      BY <1>2 DEF ReleaseIsDue, os_tick_reached
    <2>3. task.next_release_order = now + 1
      BY <1>1, <2>2 DEF OnTime
    <2>4. /\ moved \in SchedTask /\ moved.state = "WAITING_RELEASE"
          /\ ~moved.job_active /\ moved.release_order = now + 1
          /\ ~moved.time_range_exhausted
          /\ TimingValid(moved) /\ JobsAddUp(moved)
      BY <2>2, <2>3
      DEF SchedTask, Timely, TimingValid, JobsAddUp, ActiveJobs, LateJobs
    <2> HIDE DEF moved
    <2> QED BY <2>1, <2>4, ActivateTimely
  <1>3. CASE ~ReleaseIsDue(task, now + 1)
    <2>1. after = task
      BY <1>3 DEF os_sched_release_due
    <2>2. ~task.time_range_exhausted /\ task.state # "SLEEPING" =>
            OnTime(task, now + 1)
      <3> SUFFICES ASSUME ~task.time_range_exhausted, task.state # "SLEEPING"
                   PROVE  OnTime(task, now + 1)
        OBVIOUS
      <3>1. CASE task.state = "WAITING_RELEASE"
        BY <1>1, <1>3, <3>1
        DEF ReleaseIsDue, os_tick_reached, JobMatches, ActiveStates, OnTime
      <3>2. CASE task.state # "WAITING_RELEASE"
        <4>1. task.state \in ActiveStates \cup {"DORMANT", "EXITING"}
          BY <3>2 DEF SchedTask, States, ActiveStates
        <4> QED BY <3>2, <4>1 DEF OnTime
      <3> QED BY <3>1, <3>2
    <2>3. ~task.time_range_exhausted /\ task.state = "SLEEPING" =>
            /\ OnTime([task EXCEPT !.state = "READY"], now + 1)
            /\ now < task.wake_order
      BY DEF OnTime, SchedTask, ActiveStates
    <2> QED BY <2>1, <2>2, <2>3
  <1> QED BY <1>2, <1>3

\* One turn of os_kernel_tick's loop: what becomes due at the tick is acted on
\* at the tick, or the task is marked as out of the time range.
LEMMA TickTimely ==
    ASSUME NEW task \in SchedTask, NEW now \in Nat,
           Timely(task, now), OnTime(task, now), JobMatches(task)
    PROVE  LET after == TickTask(task, now + 1) IN
           /\ Timely(after, now + 1)
           /\ IF after.time_range_exhausted THEN NearTheEnd(now + 1)
              ELSE OnTime(after, now + 1)
  <1> DEFINE charged == os_sched_account_running_tick(task)
             missed == os_sched_record_deadline_miss(charged, now + 1)
             counted == CountedTick(task, now + 1)
             released == ReleasedTick(task, now + 1)
             after == TickTask(task, now + 1)
  <1>1. /\ charged \in SchedTask
        /\ Timely(charged, now) /\ OnTime(charged, now)
        /\ JobMatches(charged)
    BY AccountTimely, AccountType
  <1> HIDE DEF charged
  <1>2. /\ missed \in SchedTask
        /\ Timely(missed, now + 1) /\ OnTime(missed, now)
        /\ JobMatches(missed)
    BY <1>1, MissTimely, MissType
  <1>3. /\ counted \in SchedTask
        /\ Timely(counted, now + 1) /\ JobMatches(counted)
        /\ IF counted.time_range_exhausted THEN NearTheEnd(now + 1)
           ELSE OnTime(counted, now)
        /\ counted.state = "WAITING_RELEASE" => ~counted.time_range_exhausted
        /\ ~counted.time_range_exhausted /\ counted.kind = "PERIODIC"
             /\ counted.state \in ActiveStates =>
               now + 1 < counted.next_release_order
    <2>1. counted = os_sched_record_active_release(missed, now + 1)
      BY DEF CountedTick, missed, charged
    <2>2. counted \in SchedTask
      BY TickType
    <2> HIDE DEF missed, counted
    <2>3. /\ Timely(counted, now + 1) /\ JobMatches(counted)
          /\ counted.state = missed.state
          /\ IF counted.time_range_exhausted THEN NearTheEnd(now + 1)
             ELSE OnTime(counted, now)
          /\ missed.state = "WAITING_RELEASE" => counted = missed
      BY <1>2, <2>1, ActiveReleaseTimely
    <2>4. ~counted.time_range_exhausted /\ missed.kind = "PERIODIC"
            /\ missed.state \in ActiveStates =>
              now + 1 < counted.next_release_order
      BY <1>2, <2>1, ActiveReleaseTimely
    <2>5. counted.kind = missed.kind
      BY <1>2, <2>1 DEF os_sched_record_active_release, SchedTask
    <2>6. ~missed.time_range_exhausted
      BY <1>2 DEF OnTime
    <2> QED BY <2>2, <2>3, <2>4, <2>5, <2>6
  <1> HIDE DEF missed
  <1>4. /\ released \in SchedTask
        /\ Timely(released, now + 1)
        /\ released.time_range_exhausted => NearTheEnd(now + 1)
        /\ ~released.time_range_exhausted =>
             \/ OnTime(released, now + 1)
             \/ /\ released.state = "SLEEPING" /\ released.job_active
                /\ OnTime([released EXCEPT !.state = "READY"], now + 1)
                /\ now < released.wake_order
    <2>1. released = os_sched_release_due(counted, now + 1)
      BY DEF ReleasedTick
    <2>2. released \in SchedTask
      BY TickType
    <2> HIDE DEF counted, released
    <2>3. counted.state = "SLEEPING" => counted.job_active
      BY <1>3 DEF JobMatches, ActiveStates
    <2> QED BY <1>3, <2>1, <2>2, <2>3, ReleaseDueTimely
  <1>5. after = os_sched_wake_due(released, now + 1)
    BY DEF TickTask
  <1> HIDE DEF released, after
  <1>6. /\ released.wake_order \in Nat
        /\ released.time_range_exhausted \in BOOLEAN
    BY <1>4, NumberTypes DEF SchedTask
  <1>7. CASE WakeIsDue(released, now + 1)
    <2>1. /\ after = [released EXCEPT !.state = "READY"]
          /\ released.state = "SLEEPING"
          /\ released.wake_order <= now + 1
      BY <1>5, <1>7 DEF os_sched_wake_due, WakeIsDue, os_tick_reached
    <2>2. after.time_range_exhausted = released.time_range_exhausted
      BY <1>4, <2>1 DEF SchedTask
    <2>3. Timely(after, now + 1)
      BY <1>4, <2>1
      DEF SchedTask, Timely, TimingValid, MissLatched, JobsAddUp, ActiveJobs,
          LateJobs
    <2>4. ~OnTime(released, now + 1)
      BY <1>6, <2>1 DEF OnTime
    <2> QED BY <1>4, <2>1, <2>2, <2>3, <2>4 DEF after
  <1>8. CASE ~WakeIsDue(released, now + 1)
    <2>1. after = released
      BY <1>5, <1>8 DEF os_sched_wake_due
    <2>2. ASSUME ~released.time_range_exhausted,
                 released.state = "SLEEPING", released.job_active,
                 OnTime([released EXCEPT !.state = "READY"], now + 1)
          PROVE  OnTime(released, now + 1)
      <3>1. now + 1 < released.wake_order
        BY <1>6, <1>8, <2>2 DEF WakeIsDue, os_tick_reached
      <3>2. released.kind = "PERIODIC" =>
              now + 1 < released.next_release_order
        BY <1>4, <2>2 DEF OnTime, SchedTask
      <3> QED BY <2>2, <3>1, <3>2 DEF OnTime
    <2> QED BY <1>4, <2>1, <2>2 DEF after
  <1> QED BY <1>7, <1>8

\* A completed job moves from one count to the other with its miss
\* (os_sched_complete_job), whatever state its task goes to.
LEMMA CompleteTimely ==
    ASSUME NEW task \in SchedTask, NEW now \in Nat,
           NEW state \in {"EXITING", "WAITING_RELEASE"},
           task.state = "RUNNING", task.job_active,
           task.kind = "PERIODIC" \/ state = "EXITING",
           Timely(task, now), OnTime(task, now)
    PROVE  LET after == [os_sched_complete_job(task, now)
                           EXCEPT !.state = state] IN
           Timely(after, now) /\ OnTime(after, now)
  <1> DEFINE missed == os_sched_record_deadline_miss(task, now)
             completed == os_sched_complete_job(task, now)
             after == [completed EXCEPT !.state = state]
  <1>1. missed = task
    BY DEF os_sched_record_deadline_miss, os_tick_reached, Timely,
           MissLatched
  <1>2. completed = [task EXCEPT
                       !.job_active = FALSE,
                       !.completed_job_count = increment_saturating(@)]
    BY <1>1 DEF os_sched_complete_job
  <1>3. /\ after.job_active = FALSE
        /\ after.completed_job_count
             = increment_saturating(task.completed_job_count)
        /\ after.state = state
        /\ after.job_sequence = task.job_sequence
        /\ after.deadline_miss_count = task.deadline_miss_count
        /\ after.time_range_exhausted = task.time_range_exhausted
        /\ after.kind = task.kind
        /\ after.relative_deadline_ticks = task.relative_deadline_ticks
        /\ after.period_ticks = task.period_ticks
        /\ after.next_release_order = task.next_release_order
        /\ after.wake_order = task.wake_order
    BY <1>2 DEF SchedTask
  <1>4. /\ task.job_sequence \in Nat /\ task.completed_job_count \in Nat
        /\ task.deadline_miss_count \in Nat /\ UINT32_MAX \in Nat
        /\ task.deadline_miss_latched \in BOOLEAN
    BY NumberTypes DEF SchedTask
  <1> HIDE DEF after
  <1>5. TimingValid(after)
    BY <1>3 DEF Timely, TimingValid
  <1>6. MissLatched(after, now)
    BY <1>3 DEF MissLatched
  <1>7. JobsAddUp(after)
    <2> SUFFICES ASSUME task.job_sequence < UINT32_MAX
                 PROVE  JobsAddUp(after)
      BY <1>3 DEF JobsAddUp
    <2>1. /\ task.job_sequence = task.completed_job_count + 1
          /\ task.deadline_miss_count <= task.completed_job_count + 1
      BY <1>4 DEF Timely, JobsAddUp, ActiveJobs, LateJobs
    <2>2. increment_saturating(task.completed_job_count)
            = task.completed_job_count + 1
      BY <1>4, <2>1 DEF increment_saturating
    <2> QED
      BY <1>3, <1>4, <2>1, <2>2 DEF JobsAddUp, ActiveJobs, LateJobs
  <1>8. OnTime(after, now)
    BY <1>3 DEF OnTime
  <1> QED BY <1>5, <1>6, <1>7, <1>8 DEF after, Timely

\* A task the kernel accepts is released now, in which case it fits in the time
\* range, or later (os_sched_task_configure).
LEMMA ConfigureTimely ==
    ASSUME NEW config \in TimingConfig, NEW now \in Orders,
           ConfigureAccepts(config, now)
    PROVE  LET after == os_sched_task_configure(config, now) IN
           Timely(after, now) /\ OnTime(after, now)
  <1> DEFINE release == now + config.initial_release_delay_ticks
             configured == [ResetTask EXCEPT
                 !.kind = config.kind,
                 !.release_order = release,
                 !.next_release_order = release,
                 !.period_ticks = config.period_ticks,
                 !.relative_deadline_ticks = config.relative_deadline_ticks,
                 !.priority = config.priority,
                 !.state = "WAITING_RELEASE"]
             after == os_sched_task_configure(config, now)
  <1>1. /\ config.relative_deadline_ticks # 0
        /\ config.kind = "PERIODIC" => config.period_ticks # 0
        /\ config.initial_release_delay_ticks \in Intervals
        /\ config.period_ticks \in Intervals
        /\ config.relative_deadline_ticks \in Intervals
        /\ config.kind \in Kinds /\ config.priority \in Nat
    BY DEF ConfigureAccepts, os_sched_config_valid, TimingConfig, Kinds
  <1>2. /\ now \in Nat /\ config.initial_release_delay_ticks \in Nat
        /\ UINT64_MAX \in Nat /\ UINT32_MAX \in Nat /\ UINT32_MAX # 0
    BY <1>1, NumberTypes
  <1>3. release \in Orders
    BY <1>2 DEF ConfigureAccepts, Orders
  <1>4. configured \in SchedTask
    <2>1. ResetTask \in SchedTask
      BY ResetType
    <2> QED BY <1>1, <1>3, <2>1 DEF SchedTask, States
  <1>5. /\ configured.state = "WAITING_RELEASE"
        /\ configured.job_active = FALSE
        /\ configured.release_order = release
        /\ configured.next_release_order = release
        /\ configured.time_range_exhausted = FALSE
        /\ configured.kind = config.kind
        /\ configured.period_ticks = config.period_ticks
        /\ configured.relative_deadline_ticks
             = config.relative_deadline_ticks
        /\ configured.job_sequence = 0
        /\ configured.completed_job_count = 0
        /\ configured.deadline_miss_count = 0
    BY DEF ResetTask
  <1>6. after = IF config.initial_release_delay_ticks = 0
                THEN activate_job(configured) ELSE configured
    BY DEF os_sched_task_configure
  <1>7. ActivationFits(configured)
    BY <1>5 DEF ConfigureAccepts, ActivationFits
  <1> HIDE DEF configured, after
  <1>8. /\ TimingValid(configured) /\ JobsAddUp(configured)
        /\ MissLatched(configured, now)
    BY <1>1, <1>5
    DEF TimingValid, JobsAddUp, MissLatched, ActiveJobs, LateJobs
  <1>9. CASE config.initial_release_delay_ticks = 0
    <2>1. configured.release_order = now
      BY <1>2, <1>5, <1>9
    <2> QED
      BY <1>2, <1>4, <1>5, <1>6, <1>7, <1>8, <1>9, <2>1, ActivateTimely
      DEF after
  <1>10. CASE config.initial_release_delay_ticks # 0
    <2>1. now < release
      BY <1>2, <1>10
    <2>2. OnTime(configured, now)
      BY <1>5, <2>1 DEF OnTime
    <2> QED BY <1>6, <1>8, <1>10, <2>2 DEF after, Timely
  <1> QED BY <1>9, <1>10

\* Preemption and dispatch change the state of a task that can run, not its
\* times, and a slot that was reset has none.
LEMMA StateTimely ==
    ASSUME NEW task \in SchedTask, NEW now \in Nat,
           NEW state \in {"READY", "RUNNING"},
           task.state \in {"READY", "RUNNING"},
           Timely(task, now)
    PROVE  LET after == [task EXCEPT !.state = state] IN
           /\ Timely(after, now)
           /\ OnTime(task, now) => OnTime(after, now)
  BY DEF SchedTask, Timely, OnTime, TimingValid, MissLatched, JobsAddUp,
         ActiveJobs, LateJobs

\* A slot that is reset has no time to keep.
LEMMA ResetTimely ==
    ASSUME NEW now \in Nat
    PROVE  Timely(ResetTask, now) /\ OnTime(ResetTask, now)
  BY NumberTypes
  DEF ResetTask, Timely, OnTime, TimingValid, MissLatched, JobsAddUp,
      ActiveJobs, LateJobs

----------------------------------------------------------------------------
\* The steps.

\* At the start no task has a time to keep.
LEMMA InitTime == Init => TimeInv
  <1> SUFFICES ASSUME Init PROVE TimeInv
    OBVIOUS
  <1>1. \A id \in UserTasks : schedules[id] = ResetTask
    BY IdTypes DEF Init
  <1>2. monotonic_ticks = 0 /\ panics = {}
    BY DEF Init
  <1> QED BY <1>1, <1>2, ResetTimely DEF TimeInv, TimePanicsNearTheEnd

\* What the actions are given: the types, and every task in time.
LEMMA TimeBefore ==
    ASSUME StructureInv, TimeInv, panics = {}
    PROVE  /\ monotonic_ticks \in Nat /\ monotonic_ticks \in Orders
           /\ schedules \in [TaskIds -> SchedTask]
           /\ \A id \in UserTasks :
                /\ schedules[id] \in SchedTask /\ JobMatches(schedules[id])
                /\ Timely(schedules[id], monotonic_ticks)
                /\ OnTime(schedules[id], monotonic_ticks)
  <1>1. TypeOK /\ SlotsConsistent
    BY DEF StructureInv
  <1>2. monotonic_ticks \in Nat
    BY <1>1, TickIsNat
  <1> QED
    BY <1>1, <1>2, IdTypes
    DEF TypeOK, SlotsConsistent, JobMatches, ActiveStates, TimeInv

\* A step between two ticks keeps the invariant when each task it leaves
\* behind is in time.
LEMMA TimeAfter ==
    ASSUME UNCHANGED monotonic_ticks,
           \A id \in UserTasks : /\ Timely(schedules'[id], monotonic_ticks)
                                 /\ OnTime(schedules'[id], monotonic_ticks),
           panics' # {} => NearTheEnd(monotonic_ticks)
    PROVE  TimeInv'
  BY DEF TimeInv, TimePanicsNearTheEnd, NearTheEnd

\* The new task is in time, and nobody else has changed.
LEMMA CreateTime ==
    ASSUME StructureInv, StructureInv', TimeInv,
           NEW config \in Configs, os_task_create(config)
    PROVE  TimeInv'
  <1> DEFINE lowest == CHOOSE s \in FreeSlots : \A t \in FreeSlots : s <= t
             filled == os_sched_task_configure(config, monotonic_ticks)
  <1>1. panics = {}
    BY DEF os_task_create, UserTaskExecutes, ThreadExecutes
  <1>2. /\ ConfigureAccepts(config, monotonic_ticks)
        /\ schedules' = [schedules EXCEPT ![lowest] = filled]
        /\ UNCHANGED monotonic_ticks
    BY DEF os_task_create
  <1>3. Timely(filled, monotonic_ticks) /\ OnTime(filled, monotonic_ticks)
    BY <1>1, <1>2, TimeBefore, ConfigureTimely, KernelConstants
  <1>4. panics' = {}
    <2>1. panics' \subseteq {"CREATE"}
      BY DEF os_task_create, Check
    <2> QED BY <2>1 DEF StructureInv, OnlyTimeRangePanics
  <1>5. lowest \in UserTasks
    BY LowestFreeSlot DEF os_task_create, FreeSlots
  <1> HIDE DEF lowest, filled
  <1>6. \A id \in UserTasks : schedules'[id] = filled
                             \/ schedules'[id] = schedules[id]
    BY <1>1, <1>2, <1>5, TimeBefore, IdTypes
  <1> QED BY <1>1, <1>2, <1>3, <1>4, <1>6, TimeBefore, TimeAfter

\* A system call whose replacement record is in time.
LEMMA SystemCallTime ==
    ASSUME StructureInv, StructureInv', TimeInv,
           NEW reason, NEW accepted \in BOOLEAN, NEW task, NEW cause,
           SystemCall(reason, accepted, task, cause),
           accepted => /\ Timely(task, monotonic_ticks)
                       /\ OnTime(task, monotonic_ticks),
           ~accepted => NearTheEnd(monotonic_ticks)
    PROVE  TimeInv'
  <1>1. panics = {} /\ UNCHANGED monotonic_ticks
    BY DEF SystemCall, UserTaskExecutes, ThreadExecutes
  <1>2. /\ current_task \in UserTasks /\ Current.state = "RUNNING"
        /\ current_task # OS_TASK_ID_INVALID
    BY QuietThread, IdTypes DEF SystemCall
  <1>3. /\ schedules' = IF accepted
                        THEN [schedules EXCEPT ![current_task] = task]
                        ELSE schedules
        /\ panics' = Check(current_task # OS_TASK_ID_INVALID
                             /\ schedules[current_task].state = "RUNNING"
                             /\ accepted, reason)
    BY DEF SystemCall
  <1>4. \A id \in UserTasks :
           \/ schedules'[id] = schedules[id]
           \/ accepted /\ schedules'[id] = task
    <2>1. schedules \in [TaskIds -> SchedTask]
      BY <1>1, TimeBefore
    <2>2. UserTasks \subseteq TaskIds
      BY IdTypes
    <2>3. CASE accepted
      BY <1>2, <1>3, <2>1, <2>2, <2>3
    <2>4. CASE ~accepted
      BY <1>3, <2>4
    <2> QED BY <2>3, <2>4
  <1>5. panics' # {} => ~accepted
    BY <1>2, <1>3 DEF Check, Current
  <1> QED BY <1>1, <1>4, <1>5, TimeBefore, TimeAfter

\* A yield changes no task's times.
LEMMA YieldTime ==
    StructureInv /\ StructureInv' /\ TimeInv /\ SvcYield => TimeInv'
  <1> SUFFICES ASSUME StructureInv, StructureInv', TimeInv, SvcYield
               PROVE  TimeInv'
    OBVIOUS
  <1> DEFINE task == [Caller EXCEPT !.state = "READY"]
  <1>1. SystemCall("SVC_YIELD", TRUE, task, "YIELD") /\ panics = {}
    BY DEF SvcYield, SystemCall, UserTaskExecutes, ThreadExecutes
  <1>2. /\ current_task \in UserTasks
        /\ Caller \in SchedTask /\ Caller.state = "RUNNING"
    BY <1>1, QuietThread DEF SystemCall, Caller, Current
  <1>3. /\ Timely(Caller, monotonic_ticks) /\ OnTime(Caller, monotonic_ticks)
        /\ monotonic_ticks \in Nat
    BY <1>1, <1>2, TimeBefore DEF Caller
  <1>4. Timely(task, monotonic_ticks) /\ OnTime(task, monotonic_ticks)
    BY <1>2, <1>3, StateTimely
  <1> HIDE DEF task
  <1> QED BY <1>1, <1>4, SystemCallTime

\* A sleeper wakes later; a sleep is refused only near the end.
LEMMA SleepTime ==
    ASSUME StructureInv, StructureInv', TimeInv,
           NEW sleep_ticks \in SleepTicks, SvcSleep(sleep_ticks)
    PROVE  TimeInv'
  <1> DEFINE task == os_sched_sleep(Caller, monotonic_ticks, sleep_ticks)
             accepted == SleepAccepts(Caller, monotonic_ticks, sleep_ticks)
  <1>1. /\ SystemCall("TASK_SLEEP", accepted, task, "SLEEP")
        /\ sleep_ticks \in Intervals \ {0} /\ panics = {}
    BY DEF SvcSleep, SystemCall, UserTaskExecutes, ThreadExecutes
  <1>2. /\ current_task \in UserTasks
        /\ Caller \in SchedTask /\ Caller.state = "RUNNING"
        /\ Caller.job_active
    BY <1>1, QuietThread DEF SystemCall, Caller, Current
  <1>3. /\ Timely(Caller, monotonic_ticks) /\ OnTime(Caller, monotonic_ticks)
        /\ monotonic_ticks \in Nat
    BY <1>1, <1>2, TimeBefore DEF Caller
  <1>4. /\ sleep_ticks \in Nat /\ sleep_ticks # 0
        /\ sleep_ticks <= OS_MAX_TIME_INTERVAL
        /\ UINT64_MAX \in Nat /\ OS_MAX_TIME_INTERVAL \in Nat
    BY <1>1, NumberTypes
  <1>5. /\ task.state = "SLEEPING"
        /\ task.wake_order = monotonic_ticks + sleep_ticks
        /\ task.kind = Caller.kind
        /\ task.next_release_order = Caller.next_release_order
        /\ task.time_range_exhausted = Caller.time_range_exhausted
        /\ Timely(task, monotonic_ticks)
    BY <1>2, <1>3
    DEF os_sched_sleep, SchedTask, Timely, TimingValid, MissLatched,
        JobsAddUp, ActiveJobs, LateJobs
  <1>6. ~accepted => NearTheEnd(monotonic_ticks)
    BY <1>1, <1>2, <1>3, <1>4 DEF SleepAccepts, NearTheEnd
  <1>7. accepted \in BOOLEAN
    BY DEF SleepAccepts
  <1> HIDE DEF task, accepted
  <1>8. OnTime(task, monotonic_ticks)
    <2>1. monotonic_ticks < task.wake_order
      BY <1>3, <1>4, <1>5
    <2> QED BY <1>2, <1>3, <1>5, <2>1 DEF OnTime
  <1> QED BY <1>1, <1>5, <1>6, <1>7, <1>8, SystemCallTime

\* An exit completes its job with its miss marked already.
LEMMA ExitTime ==
    StructureInv /\ StructureInv' /\ TimeInv /\ SvcExit => TimeInv'
  <1> SUFFICES ASSUME StructureInv, StructureInv', TimeInv, SvcExit
               PROVE  TimeInv'
    OBVIOUS
  <1> DEFINE task == [os_sched_complete_job(Caller, monotonic_ticks)
                         EXCEPT !.state = "EXITING"]
  <1>1. SystemCall("EXIT_COMPLETE", CompleteAccepts(Caller), task, "EXIT")
        /\ panics = {}
    BY DEF SvcExit, SystemCall, UserTaskExecutes, ThreadExecutes
  <1>2. /\ current_task \in UserTasks
        /\ Caller \in SchedTask /\ Caller.state = "RUNNING"
        /\ Caller.job_active
    BY <1>1, QuietThread DEF SystemCall, Caller, Current
  <1>3. /\ Timely(Caller, monotonic_ticks) /\ OnTime(Caller, monotonic_ticks)
        /\ monotonic_ticks \in Nat
    BY <1>1, <1>2, TimeBefore DEF Caller
  <1>4. Timely(task, monotonic_ticks) /\ OnTime(task, monotonic_ticks)
    BY <1>2, <1>3, CompleteTimely
  <1>5. CompleteAccepts(Caller) /\ CompleteAccepts(Caller) \in BOOLEAN
    BY <1>2 DEF CompleteAccepts, SchedTask
  <1> HIDE DEF task
  <1> QED BY <1>1, <1>4, <1>5, SystemCallTime

\* os_wait_next_period keeps the time invariant: the next release is to come.
LEMMA WaitTime ==
    StructureInv /\ StructureInv' /\ TimeInv /\ SvcWaitNextPeriod => TimeInv'
  <1> SUFFICES ASSUME StructureInv, StructureInv', TimeInv, SvcWaitNextPeriod
               PROVE  TimeInv'
    OBVIOUS
  <1> DEFINE task == os_sched_wait_next_period(Caller, monotonic_ticks)
  <1>1. /\ SystemCall("SVC_PERIOD", CompleteAccepts(Caller), task,
                      "WAIT_PERIOD")
        /\ Caller.kind = "PERIODIC" /\ panics = {}
    BY DEF SvcWaitNextPeriod, UserTaskExecutes, ThreadExecutes
  <1>2. /\ current_task \in UserTasks
        /\ Caller \in SchedTask /\ Caller.state = "RUNNING"
        /\ Caller.job_active
    BY <1>1, QuietThread DEF SystemCall, Caller, Current
  <1>3. /\ Timely(Caller, monotonic_ticks) /\ OnTime(Caller, monotonic_ticks)
        /\ monotonic_ticks \in Nat
    BY <1>1, <1>2, TimeBefore DEF Caller
  <1>4. Timely(task, monotonic_ticks) /\ OnTime(task, monotonic_ticks)
    BY <1>1, <1>2, <1>3, CompleteTimely DEF os_sched_wait_next_period
  <1>5. CompleteAccepts(Caller) /\ CompleteAccepts(Caller) \in BOOLEAN
    BY <1>2 DEF CompleteAccepts, SchedTask
  <1> HIDE DEF task
  <1> QED BY <1>1, <1>4, <1>5, SystemCallTime

\* Everything that falls due at a tick is acted on at that tick, or the kernel
\* stops, near the end of the time range (os_kernel_tick).
LEMMA SysTickTime ==
    StructureInv /\ StructureInv' /\ TimeInv /\ SysTick => TimeInv'
  <1> SUFFICES ASSUME StructureInv, StructureInv', TimeInv, SysTick
               PROVE  TimeInv'
    OBVIOUS
  <1> DEFINE now == monotonic_ticks + 1
             ticked == [id \in TaskIds |->
                          IF id = OS_TASK_ID_IDLE THEN schedules[id]
                          ELSE TickTask(schedules[id], now)]
  <1>1. panics = {}
    BY DEF SysTick
  <1>2. /\ monotonic_ticks \in Nat /\ UINT64_MAX \in Nat
        /\ OS_MAX_TIME_INTERVAL \in Nat
    BY <1>1, TimeBefore, NumberTypes
  <1>3. CASE monotonic_ticks = UINT64_MAX
    <2>1. UNCHANGED <<schedules, monotonic_ticks>>
      BY <1>3 DEF SysTick
    <2>2. NearTheEnd(monotonic_ticks)
      BY <1>2, <1>3 DEF NearTheEnd
    <2> QED BY <1>1, <2>1, <2>2, TimeBefore, TimeAfter
  <1>4. CASE monotonic_ticks # UINT64_MAX
    <2>1. /\ monotonic_ticks' = now
          /\ panics' = Check(\A id \in UserTasks :
                                ~ticked[id].time_range_exhausted,
                             "TASK_TIME_RANGE")
          /\ \/ schedules' = ticked
             \/ /\ ticked[current_task].state = "RUNNING"
                /\ schedules' = [ticked EXCEPT ![current_task].state
                                                 = "READY"]
      BY <1>4 DEF SysTick
    <2>2. now \in Nat
      BY <1>2
    <2>3. ASSUME NEW id \in UserTasks
          PROVE  /\ ticked[id] \in SchedTask
                 /\ Timely(ticked[id], now)
                 /\ IF ticked[id].time_range_exhausted THEN NearTheEnd(now)
                    ELSE OnTime(ticked[id], now)
      <3>1. ticked[id] = TickTask(schedules[id], now)
        BY <2>3, IdTypes
      <3>2. /\ schedules[id] \in SchedTask /\ JobMatches(schedules[id])
            /\ Timely(schedules[id], monotonic_ticks)
            /\ OnTime(schedules[id], monotonic_ticks)
        BY <1>1, <2>3, TimeBefore
      <3>3. TickTask(schedules[id], now) \in SchedTask
        BY <2>2, <3>2, TickType
      <3> HIDE DEF ticked
      <3> QED BY <1>2, <3>1, <3>2, <3>3, TickTimely
    <2>4. ticked \in [TaskIds -> SchedTask]
      <3>1. \A id \in UserTasks : ticked[id] \in SchedTask
        BY <2>3
      <3>2. schedules[OS_TASK_ID_IDLE] \in SchedTask
        BY <1>1, TimeBefore, IdTypes
      <3>3. ticked[OS_TASK_ID_IDLE] = schedules[OS_TASK_ID_IDLE]
        BY IdTypes
      <3>4. \A id \in TaskIds : ticked[id] \in SchedTask
        BY <3>1, <3>2, <3>3, IdTypes
      <3> QED BY <3>4
    <2>5. panics' = {} <=> \A id \in UserTasks :
                              ~ticked[id].time_range_exhausted
      BY <2>1 DEF Check
    <2> HIDE DEF ticked, now
    <2>6. ASSUME NEW id \in UserTasks
          PROVE  /\ Timely(schedules'[id], now)
                 /\ panics' = {} => OnTime(schedules'[id], now)
      <3>1. id \in TaskIds
        BY <2>6, IdTypes
      <3>2. CASE schedules'[id] = ticked[id]
        BY <2>3, <2>5, <2>6, <3>2
      <3>3. CASE /\ ticked[id].state = "RUNNING"
                 /\ schedules'[id] = [ticked[id] EXCEPT !.state = "READY"]
        BY <2>2, <2>3, <2>5, <2>6, <3>3, StateTimely
      <3> QED BY <2>1, <2>4, <3>1, <3>2, <3>3
    <2>7. panics' # {} => NearTheEnd(now)
      BY <2>3, <2>5
    <2> QED
      BY <2>1, <2>6, <2>7 DEF TimeInv, TimePanicsNearTheEnd, NearTheEnd
  <1> QED BY <1>3, <1>4

\* PendSV moves tasks between READY and RUNNING and empties a slot.
LEMMA SwitchTime ==
    StructureInv /\ TimeInv /\ os_pendsv_switch => TimeInv'
  <1> SUFFICES ASSUME StructureInv, TimeInv, os_pendsv_switch PROVE TimeInv'
    OBVIOUS
  <1>1. /\ cpu = "pendsv_in" /\ panics = {} /\ UNCHANGED monotonic_ticks
        /\ panics' = {}
        /\ schedules' = [Saved EXCEPT ![Selected].state = "RUNNING"]
    BY SwitchEffect DEF os_pendsv_switch
  <1>2. /\ Selected \in TaskIds /\ Saved[Selected].state = "READY"
        /\ Saved \in [TaskIds -> SchedTask]
    BY <1>1, SelectedIsReady, ParkedEffect
  <1>3. ASSUME NEW id \in UserTasks
        PROVE  /\ Timely(Saved[id], monotonic_ticks)
               /\ OnTime(Saved[id], monotonic_ticks)
    <2>1. /\ schedules[id] \in SchedTask /\ monotonic_ticks \in Nat
          /\ Timely(schedules[id], monotonic_ticks)
          /\ OnTime(schedules[id], monotonic_ticks)
      BY <1>1, <1>3, TimeBefore
    <2>2. \/ Saved[id] = schedules[id]
          \/ Saved[id] = ResetTask
          \/ /\ schedules[id].state = "RUNNING"
             /\ Saved[id] = [schedules[id] EXCEPT !.state = "READY"]
      BY <1>1, <1>3, ParkedEffect, IdTypes DEF Current, Leaving
    <2>3. CASE Saved[id] = schedules[id]
      BY <2>1, <2>3
    <2>4. CASE Saved[id] = ResetTask
      BY <2>1, <2>4, ResetTimely
    <2>5. CASE /\ schedules[id].state = "RUNNING"
               /\ Saved[id] = [schedules[id] EXCEPT !.state = "READY"]
      BY <2>1, <2>5, StateTimely
    <2> QED BY <2>2, <2>3, <2>4, <2>5
  <1>4. ASSUME NEW id \in UserTasks
        PROVE  /\ Timely(schedules'[id], monotonic_ticks)
               /\ OnTime(schedules'[id], monotonic_ticks)
    <2>1. \/ schedules'[id] = Saved[id]
          \/ /\ Saved[id].state = "READY"
             /\ schedules'[id] = [Saved[id] EXCEPT !.state = "RUNNING"]
      BY <1>1, <1>2, <1>4, IdTypes
    <2>2. Saved[id] \in SchedTask /\ monotonic_ticks \in Nat
      BY <1>1, <1>2, <1>4, IdTypes, TimeBefore
    <2> QED BY <1>3, <1>4, <2>1, <2>2, StateTimely
  <1> QED BY <1>1, <1>4, TimeAfter

\* The other actions leave the table and the clock alone.
LEMMA SimpleTime ==
    ASSUME StructureInv, TimeInv,
           \/ DisableInterrupts \/ EnableInterrupts
           \/ os_memory_alloc \/ os_memory_free
           \/ os_kernel_start \/ SvcStart \/ PendsvEnter \/ PendsvReturn
           \/ UNCHANGED vars
    PROVE  TimeInv'
  <1>1. UNCHANGED <<schedules, monotonic_ticks>>
    BY DEF DisableInterrupts, EnableInterrupts, os_memory_alloc,
           os_memory_free, os_kernel_start, SvcStart, PendsvEnter,
           PendsvReturn, vars
  <1>2. UNCHANGED panics \/ SvcStart
    BY DEF DisableInterrupts, EnableInterrupts, os_memory_alloc,
           os_memory_free, os_kernel_start, PendsvEnter, PendsvReturn, vars
  <1>3. SvcStart => UNCHANGED panics
    <2>1. cpu = "starting" => current_task = OS_TASK_ID_INVALID
                                /\ ~os_arch_has_active_context
      BY DEF StructureInv, ContextInv
    <2> QED BY <2>1 DEF SvcStart, Check
  <1> QED BY <1>1, <1>2, <1>3 DEF TimeInv, TimePanicsNearTheEnd

\* Every step keeps the time invariant.
LEMMA TimeStep ==
    StructureInv /\ StructureInv' /\ TimeInv /\ [Next]_vars => TimeInv'
  <1> SUFFICES ASSUME StructureInv, StructureInv', TimeInv, [Next]_vars
               PROVE  TimeInv'
    OBVIOUS
  <1>1. CASE \E config \in Configs : os_task_create(config)
    BY <1>1, CreateTime
  <1>2. CASE \E sleep_ticks \in SleepTicks : SvcSleep(sleep_ticks)
    BY <1>2, SleepTime
  <1>3. CASE SvcYield
    BY <1>3, YieldTime
  <1>4. CASE SvcExit
    BY <1>4, ExitTime
  <1>5. CASE SvcWaitNextPeriod
    BY <1>5, WaitTime
  <1>6. CASE SysTick
    BY <1>6, SysTickTime
  <1>7. CASE os_pendsv_switch
    BY <1>7, SwitchTime
  <1>8. CASE \/ DisableInterrupts \/ EnableInterrupts
             \/ os_memory_alloc \/ os_memory_free
             \/ os_kernel_start \/ SvcStart
             \/ PendsvEnter \/ PendsvReturn \/ UNCHANGED vars
    BY <1>8, SimpleTime
  <1> QED
    BY <1>1, <1>2, <1>3, <1>4, <1>5, <1>6, <1>7, <1>8 DEF Next, Halted

----------------------------------------------------------------------------

\* Every task's times and jobs are in order at every tick.
THEOREM TimeSafe == Spec => [](StructureInv /\ TimeInv)
  <1>1. Init => StructureInv /\ TimeInv
    BY InitInv, InitTime
  <1>2. StructureInv /\ TimeInv /\ [Next]_vars => (StructureInv /\ TimeInv)'
    BY StructureStep, TimeStep
  <1> QED BY <1>1, <1>2, PTL DEF Spec

\* A tick acts on every sleep, release and period it reaches.
THEOREM NothingOverdueSafe == Spec => []NothingOverdue
  <1>1. TimeInv => NothingOverdue
    BY DEF TimeInv, NothingOverdue, OnTime, Periodic, Live
  <1> QED BY <1>1, TimeSafe, PTL

\* A job's miss is latched at the tick that reaches its deadline.
THEOREM MissesSafe == Spec => []MissLatchedInTime
  <1>1. TimeInv => MissLatchedInTime
    BY DEF TimeInv, Timely, MissLatched, MissLatchedInTime
  <1> QED BY <1>1, TimeSafe, PTL

\* No job is lost or counted twice before the counters saturate.
THEOREM JobsSafe == Spec => []JobsConserved
  <1>1. TimeInv => JobsConserved
    BY DEF TimeInv, Timely, JobsAddUp, ActiveJobs, LateJobs, JobsConserved,
           Unsaturated
  <1> QED BY <1>1, TimeSafe, PTL

\* A kernel far enough from the end of the time range never stops.
THEOREM PanicsNearTheEnd == Spec => []TimePanicsNearTheEnd
  <1>1. TimeInv => TimePanicsNearTheEnd
    BY DEF TimeInv
  <1> QED BY <1>1, TimeSafe, PTL

----------------------------------------------------------------------------
\* What the kernel's steps promise: releases keep their phase, the most urgent
\* task executes, a yield is honoured, a slot goes through its life.

----------------------------------------------------------------------------
\* Releases.

\* One release later, or none: the next release and the count of the releases
\* before it move together.
SamePhase(before, after) ==
    /\ after.kind = before.kind
    /\ after.period_ticks = before.period_ticks
    /\ \/ /\ after.next_release_order = before.next_release_order
          /\ after.job_sequence = before.job_sequence
          /\ after.missed_release_count = before.missed_release_count
       \/ /\ after.next_release_order = before.next_release_order
                                          + before.period_ticks
          /\ after.job_sequence + after.missed_release_count
               = before.job_sequence + before.missed_release_count + 1

\* One more release counted and one more period added leave the first
\* release where it was.
LEMMA PhaseArithmetic ==
    ASSUME NEW n \in Nat, NEW p \in Nat, NEW t \in Nat
    PROVE  (t + p) - (n + 1) * p = t - n * p
  <1>1. (n + 1) * p = n * p + p
    OBVIOUS
  <1>2. n * p \in Nat
    OBVIOUS
  <1> QED BY <1>1, <1>2

\* The first release computed back from the next one does not move.
LEMMA PhaseKept ==
    ASSUME NEW before \in SchedTask, NEW after \in SchedTask,
           SamePhase(before, after)
    PROVE  after.next_release_order
             - (after.job_sequence + after.missed_release_count)
                 * after.period_ticks
           = before.next_release_order
               - (before.job_sequence + before.missed_release_count)
                   * before.period_ticks
  <1> DEFINE n == before.job_sequence + before.missed_release_count
  <1>1. /\ before.next_release_order \in Nat /\ before.period_ticks \in Nat
        /\ before.job_sequence \in Nat /\ before.missed_release_count \in Nat
    BY NumberTypes DEF SchedTask
  <1>2. n \in Nat
    BY <1>1
  <1>3. CASE /\ after.next_release_order = before.next_release_order
             /\ after.job_sequence = before.job_sequence
             /\ after.missed_release_count = before.missed_release_count
    BY <1>3 DEF SamePhase
  <1>4. CASE /\ after.next_release_order = before.next_release_order
                                             + before.period_ticks
             /\ after.job_sequence + after.missed_release_count = n + 1
    <2>1. after.period_ticks = before.period_ticks
      BY DEF SamePhase
    <2> HIDE DEF n
    <2>2. (before.next_release_order + before.period_ticks)
            - (n + 1) * before.period_ticks
          = before.next_release_order - n * before.period_ticks
      BY <1>1, <1>2, PhaseArithmetic
    <2> QED BY <1>4, <2>1, <2>2 DEF n
  <1> QED BY <1>3, <1>4 DEF SamePhase

\* A tick releases a job or counts a missed release, never both
\* (os_sched_release_due, os_sched_record_active_release).
LEMMA TickPhase ==
    ASSUME NEW task \in SchedTask, NEW now \in Nat, task.kind = "PERIODIC",
           task.job_sequence < UINT32_MAX,
           task.missed_release_count < UINT32_MAX
    PROVE  SamePhase(task, TickTask(task, now))
  <1> DEFINE Same(a, b) ==
                /\ a.kind = b.kind
                /\ a.period_ticks = b.period_ticks
                /\ a.next_release_order = b.next_release_order
                /\ a.job_sequence = b.job_sequence
                /\ a.missed_release_count = b.missed_release_count
             charged == os_sched_account_running_tick(task)
             missed == os_sched_record_deadline_miss(charged, now)
             counted == CountedTick(task, now)
             released == ReleasedTick(task, now)
             after == TickTask(task, now)
  <1>1. charged \in SchedTask /\ Same(charged, task)
    <2>1. charged \in SchedTask
      BY AccountType
    <2> QED BY <2>1 DEF os_sched_account_running_tick, SchedTask
  <1> HIDE DEF charged
  <1>2. missed \in SchedTask /\ Same(missed, task)
    <2>1. missed \in SchedTask
      BY <1>1, MissType
    <2> QED BY <1>1, <2>1 DEF os_sched_record_deadline_miss, SchedTask
  <1>3. counted = os_sched_record_active_release(missed, now)
    BY DEF CountedTick, missed, charged
  <1>4. counted \in SchedTask /\ released \in SchedTask
    BY TickType
  <1>5. released = os_sched_release_due(counted, now)
    BY DEF ReleasedTick
  <1>6. after = os_sched_wake_due(released, now)
    BY DEF TickTask
  <1> HIDE DEF missed, counted, released, after
  <1>7. /\ counted.kind = task.kind
        /\ counted.period_ticks = task.period_ticks
        /\ counted.job_sequence = task.job_sequence
        /\ \/ Same(counted, task)
           \/ /\ counted.job_active
              /\ counted.next_release_order = task.next_release_order
                                                + task.period_ticks
              /\ counted.missed_release_count
                   = increment_saturating(task.missed_release_count)
    <2>1. \/ counted = missed
          \/ counted = [missed EXCEPT !.time_range_exhausted = TRUE]
          \/ /\ missed.job_active
             /\ counted = [missed EXCEPT
                             !.missed_release_count = increment_saturating(@),
                             !.next_release_order = @ + missed.period_ticks]
      BY <1>3 DEF os_sched_record_active_release
    <2>2. CASE counted = missed
      BY <1>2, <2>2
    <2>3. CASE counted = [missed EXCEPT !.time_range_exhausted = TRUE]
      <3>1. Same(counted, missed)
        BY <1>2, <2>3 DEF SchedTask
      <3> QED BY <1>2, <3>1
    <2>4. CASE /\ missed.job_active
               /\ counted = [missed EXCEPT
                               !.missed_release_count =
                                   increment_saturating(@),
                               !.next_release_order =
                                   @ + missed.period_ticks]
      <3> DEFINE misses == increment_saturating(missed.missed_release_count)
                 following == missed.next_release_order + missed.period_ticks
      <3>1. counted = [missed EXCEPT !.missed_release_count = misses,
                                     !.next_release_order = following]
        BY <2>4
      <3>2. /\ misses = increment_saturating(task.missed_release_count)
            /\ following = task.next_release_order + task.period_ticks
        BY <1>2
      <3> HIDE DEF misses, following
      <3>3. /\ counted.kind = missed.kind
            /\ counted.period_ticks = missed.period_ticks
            /\ counted.job_sequence = missed.job_sequence
            /\ counted.job_active = missed.job_active
            /\ counted.next_release_order = following
            /\ counted.missed_release_count = misses
        BY <1>2, <3>1 DEF SchedTask
      <3> QED BY <1>2, <2>4, <3>2, <3>3
    <2> QED BY <2>1, <2>2, <2>3, <2>4
  <1>8. /\ task.missed_release_count \in Nat /\ task.job_sequence \in Nat
        /\ UINT32_MAX \in Nat
        /\ increment_saturating(task.missed_release_count)
             = task.missed_release_count + 1
        /\ increment_saturating(task.job_sequence) = task.job_sequence + 1
    <2>1. /\ task.missed_release_count \in Nat /\ task.job_sequence \in Nat
          /\ UINT32_MAX \in Nat
      BY NumberTypes DEF SchedTask
    <2> QED BY <2>1 DEF increment_saturating
  <1>9. SamePhase(task, released)
    <2>1. CASE ReleaseIsDue(counted, now)
      <3> DEFINE moved ==
                   [counted EXCEPT
                      !.release_order = counted.next_release_order]
      <3>1. released = activate_job(moved)
        BY <1>5, <2>1 DEF os_sched_release_due
      <3>2. Same(counted, task)
        BY <1>7, <2>1 DEF ReleaseIsDue
      <3>3. /\ moved \in SchedTask /\ Same(moved, task)
            /\ moved.release_order = task.next_release_order
        BY <1>4, <3>2 DEF SchedTask
      <3> HIDE DEF moved
      <3>4. \/ Same(released, moved)
            \/ /\ released.kind = moved.kind
               /\ released.period_ticks = moved.period_ticks
               /\ released.next_release_order = moved.release_order
                                                  + moved.period_ticks
               /\ released.job_sequence
                    = increment_saturating(moved.job_sequence)
               /\ released.missed_release_count = moved.missed_release_count
        BY <3>1, <3>3 DEF activate_job, SchedTask
      <3> QED BY <1>8, <3>3, <3>4 DEF SamePhase
    <2>2. CASE ~ReleaseIsDue(counted, now)
      <3>1. released = counted
        BY <1>5, <2>2 DEF os_sched_release_due
      <3> QED BY <1>7, <1>8, <3>1 DEF SamePhase
    <2> QED BY <2>1, <2>2
  <1>10. Same(after, released)
    BY <1>4, <1>6 DEF os_sched_wake_due, SchedTask
  <1> QED BY <1>9, <1>10 DEF SamePhase, after

\* Completing a job does not touch the releases (os_sched_complete_job).
LEMMA CompletePhase ==
    ASSUME NEW task \in SchedTask, NEW now \in Nat, NEW state \in States
    PROVE  SamePhase(task, [os_sched_complete_job(task, now)
                              EXCEPT !.state = state])
  <1> DEFINE missed == os_sched_record_deadline_miss(task, now)
  <1>1. missed \in SchedTask
    BY MissType
  <1>2. /\ missed.kind = task.kind
        /\ missed.period_ticks = task.period_ticks
        /\ missed.next_release_order = task.next_release_order
        /\ missed.job_sequence = task.job_sequence
        /\ missed.missed_release_count = task.missed_release_count
    BY DEF os_sched_record_deadline_miss, SchedTask
  <1>3. os_sched_complete_job(task, now)
          = [missed EXCEPT
               !.job_active = FALSE,
               !.completed_job_count = increment_saturating(@)]
    BY DEF os_sched_complete_job
  <1> HIDE DEF missed
  <1> QED BY <1>1, <1>2, <1>3 DEF SamePhase, SchedTask

\* A system call replaces the current task's record, if any, and keeps it RUNNING
\* or not in the same phase.
LEMMA SystemCallPhase ==
    ASSUME StructureInv, NEW id \in UserTasks,
           NEW reason, NEW accepted, NEW task, NEW cause,
           SystemCall(reason, accepted, task, cause),
           SamePhase(Caller, task)
    PROVE  SamePhase(schedules[id], schedules'[id])
  <1>1. /\ schedules \in [TaskIds -> SchedTask] /\ id \in TaskIds
        /\ schedules' = IF accepted
                        THEN [schedules EXCEPT ![current_task] = task]
                        ELSE schedules
    BY IdTypes DEF StructureInv, TypeOK, SystemCall
  <1>2. \/ schedules'[id] = schedules[id]
        \/ id = current_task /\ schedules'[id] = task
    BY <1>1
  <1> QED BY <1>2 DEF SamePhase, Caller

\* Whatever happens to a task, except its creation and the end of its slot's
\* life, keeps it in phase.
LEMMA PhaseStep ==
    ASSUME StructureInv, [Next]_vars,
           NEW id \in UserTasks, Periodic(id), SameTask(id), Unsaturated(id)
    PROVE  SamePhase(schedules[id], schedules'[id])
  <1>1. /\ schedules \in [TaskIds -> SchedTask]
        /\ schedules[id] \in SchedTask /\ id \in TaskIds
        /\ monotonic_ticks \in Nat
    BY IdTypes, TickIsNat DEF StructureInv, TypeOK
  <1>2. CASE UNCHANGED schedules
    BY <1>2 DEF SamePhase
  <1>3. CASE \E config \in Configs : os_task_create(config)
    <2>1. PICK config \in Configs : os_task_create(config)
      BY <1>3
    <2> DEFINE lowest == CHOOSE s \in FreeSlots : \A t \in FreeSlots : s <= t
    <2>2. /\ lowest \in UserTasks /\ schedules[lowest].state = "DORMANT"
          /\ schedules' = [schedules EXCEPT
                             ![lowest] = os_sched_task_configure(
                                            config, monotonic_ticks)]
      BY <2>1, LowestFreeSlot DEF os_task_create, FreeSlots
    <2> HIDE DEF lowest
    <2>3. schedules'[id] = schedules[id]
      BY <1>1, <2>2 DEF SameTask
    <2> QED BY <2>3 DEF SamePhase
  <1>4. CASE SvcYield \/ \E ticks \in SleepTicks : SvcSleep(ticks)
    <2>1. PICK reason, accepted, task, cause :
             /\ SystemCall(reason, accepted, task, cause)
             /\ \/ task = [Caller EXCEPT !.state = "READY"]
                \/ \E ticks \in SleepTicks :
                     task = os_sched_sleep(Caller, monotonic_ticks, ticks)
      BY <1>4 DEF SvcYield, SvcSleep
    <2>2. Caller \in SchedTask
      BY <2>1, QuietThread DEF SystemCall, Caller, Current
    <2>3. SamePhase(Caller, task)
      BY <2>1, <2>2 DEF SamePhase, os_sched_sleep, SchedTask
    <2> QED BY <2>1, <2>3, SystemCallPhase
  <1>5. CASE SvcExit \/ SvcWaitNextPeriod
    <2>1. PICK reason, accepted, task, cause :
             /\ SystemCall(reason, accepted, task, cause)
             /\ \E state \in {"EXITING", "WAITING_RELEASE"} :
                  task = [os_sched_complete_job(Caller, monotonic_ticks)
                            EXCEPT !.state = state]
      BY <1>5 DEF SvcExit, SvcWaitNextPeriod, os_sched_wait_next_period
    <2>2. Caller \in SchedTask
      BY <2>1, QuietThread DEF SystemCall, Caller, Current
    <2>3. SamePhase(Caller, task)
      <3>1. PICK state \in States :
               task = [os_sched_complete_job(Caller, monotonic_ticks)
                         EXCEPT !.state = state]
        BY <2>1 DEF States
      <3> QED BY <1>1, <2>2, <3>1, CompletePhase
    <2> QED BY <2>1, <2>3, SystemCallPhase
  <1>6. CASE SysTick
    <2> DEFINE now == monotonic_ticks + 1
               ticked == [t \in TaskIds |->
                            IF t = OS_TASK_ID_IDLE THEN schedules[t]
                            ELSE TickTask(schedules[t], now)]
    <2>1. \/ schedules' = schedules
          \/ schedules' = ticked
          \/ schedules' = [ticked EXCEPT ![current_task].state = "READY"]
      BY <1>6 DEF SysTick
    <2>2. ticked[id] = TickTask(schedules[id], now)
      BY <1>1, IdTypes
    <2>3. ticked[id] \in SchedTask /\ SamePhase(schedules[id], ticked[id])
      <3>1. now \in Nat
        BY <1>1
      <3>2. /\ schedules[id].kind = "PERIODIC"
            /\ schedules[id].job_sequence < UINT32_MAX
            /\ schedules[id].missed_release_count < UINT32_MAX
        BY DEF Periodic, Unsaturated
      <3> HIDE DEF now, ticked
      <3> QED BY <1>1, <2>2, <3>1, <3>2, TickPhase, TickType
    <2>4. \/ schedules'[id] = schedules[id]
          \/ schedules'[id] = ticked[id]
          \/ schedules'[id] = [ticked[id] EXCEPT !.state = "READY"]
      BY <1>1, <2>1
    <2> HIDE DEF ticked
    <2> QED BY <2>3, <2>4 DEF SamePhase, SchedTask
  <1>7. CASE os_pendsv_switch
    <2>1. /\ cpu = "pendsv_in"
          /\ schedules' = [Saved EXCEPT ![Selected].state = "RUNNING"]
      BY <1>7, SwitchEffect DEF os_pendsv_switch
    <2>2. /\ Selected \in TaskIds /\ Saved[Selected].state = "READY"
          /\ Saved \in [TaskIds -> SchedTask]
      BY <2>1, SelectedIsReady, ParkedEffect
    <2>3. \/ schedules'[id] = Saved[id]
          \/ /\ Saved[id].state = "READY"
             /\ schedules'[id] = [Saved[id] EXCEPT !.state = "RUNNING"]
      BY <1>1, <2>1, <2>2
    <2>4. \/ Saved[id] = schedules[id]
          \/ Saved[id] = ResetTask
          \/ Saved[id] = [schedules[id] EXCEPT !.state = "READY"]
      BY <2>1, ParkedEffect, IdTypes DEF Current, Leaving
    <2>5. Saved[id] # ResetTask
      BY <2>3 DEF SameTask, ResetTask
    <2> QED BY <1>1, <2>3, <2>4, <2>5 DEF SamePhase, SchedTask
  <1> QED
    BY <1>2, <1>3, <1>4, <1>5, <1>6, <1>7
    DEF Next, vars, Halted, DisableInterrupts, EnableInterrupts,
        os_memory_alloc, os_memory_free, os_kernel_start, SvcStart,
        PendsvEnter, PendsvReturn

\* Releases never drift: job_sequence and missed_release_count together count
\* the releases since the first, in steps of exactly one period.
THEOREM PhaseSafe == Spec => ReleasesKeepPhase
  <1>1. ASSUME StructureInv, StructureInv', [Next]_vars,
               NEW id \in UserTasks,
               Periodic(id), SameTask(id), Unsaturated(id)
        PROVE  FirstRelease(id)' = FirstRelease(id)
    <2>1. schedules[id] \in SchedTask /\ schedules'[id] \in SchedTask
      BY <1>1, IdTypes DEF StructureInv, TypeOK
    <2>2. SamePhase(schedules[id], schedules'[id])
      BY <1>1, PhaseStep
    <2> QED BY <2>1, <2>2, PhaseKept DEF FirstRelease
  <1>2. StructureInv /\ StructureInv' /\ [Next]_vars =>
          [\A id \in UserTasks :
              /\ Periodic(id) /\ SameTask(id)
              /\ Unsaturated(id) /\ Unsaturated(id)'
              => FirstRelease(id)' = FirstRelease(id)]_vars
    BY <1>1
  <1> QED BY <1>2, StructureSafe, PTL DEF Spec, ReleasesKeepPhase

----------------------------------------------------------------------------
\* Urgency.

\* A task that a tick makes READY is one os_kernel_tick takes notice of.
LEMMA TickReady ==
    ASSUME NEW task \in SchedTask, NEW now \in Nat, JobMatches(task),
           ~task.time_range_exhausted, task.state # "READY",
           TickTask(task, now).state = "READY"
    PROVE  BecomesReady(task, now)
  <1> DEFINE charged == os_sched_account_running_tick(task)
             missed == os_sched_record_deadline_miss(charged, now)
             counted == CountedTick(task, now)
             released == ReleasedTick(task, now)
  <1>1. /\ charged \in SchedTask /\ charged.state = task.state
        /\ charged.job_active = task.job_active
        /\ ~charged.time_range_exhausted
    <2>1. charged \in SchedTask
      BY AccountType
    <2> QED BY <2>1 DEF os_sched_account_running_tick, SchedTask
  <1> HIDE DEF charged
  <1>2. /\ missed \in SchedTask /\ missed.state = task.state
        /\ missed.job_active = task.job_active
        /\ ~missed.time_range_exhausted
    <2>1. missed \in SchedTask
      BY <1>1, MissType
    <2> QED BY <1>1, <2>1 DEF os_sched_record_deadline_miss, SchedTask
  <1>3. counted = os_sched_record_active_release(missed, now)
    BY DEF CountedTick, missed, charged
  <1>4. counted \in SchedTask /\ released \in SchedTask
    BY TickType
  <1>5. released = os_sched_release_due(counted, now)
    BY DEF ReleasedTick
  <1>6. TickTask(task, now) = os_sched_wake_due(released, now)
    BY DEF TickTask
  <1> HIDE DEF missed, counted, released
  <1>7. counted.state = task.state /\ (~task.job_active => counted = missed)
    BY <1>2, <1>3 DEF os_sched_record_active_release, SchedTask
  <1>8. CASE WakeIsDue(released, now)
    BY <1>8 DEF BecomesReady, released
  <1>9. CASE ~WakeIsDue(released, now)
    <2>1. released.state = "READY"
      BY <1>6, <1>9 DEF os_sched_wake_due
    <2>2. ReleaseIsDue(counted, now)
      BY <1>5, <1>7, <2>1 DEF os_sched_release_due
    <2>3. /\ counted.state = "WAITING_RELEASE"
          /\ ~counted.time_range_exhausted
      BY <1>2, <1>7, <2>2 DEF ReleaseIsDue, JobMatches, ActiveStates
    <2>4. released = activate_job([counted EXCEPT
                                     !.release_order =
                                        counted.next_release_order])
      BY <1>5, <2>2 DEF os_sched_release_due
    <2>5. ~released.time_range_exhausted
      BY <1>4, <2>1, <2>3, <2>4 DEF activate_job, SchedTask
    <2> QED BY <2>2, <2>5 DEF BecomesReady, counted, released
  <1> QED BY <1>8, <1>9

\* At the start nothing runs and nothing is owed.
LEMMA InitUrgency == Init => UrgencyInv
  BY DEF Init, UrgencyInv

\* A switch goes to the most urgent task but the excluded one
\* (os_pendsv_switch).
LEMMA SwitchUrgency ==
    ASSUME StructureInv, UrgencyInv, os_pendsv_switch
    PROVE  UrgencyInv'
  <1>1. /\ cpu = "pendsv_in"
        /\ schedules' = [Saved EXCEPT ![Selected].state = "RUNNING"]
        /\ current_task' = Selected
        /\ yield_excluded_task' = OS_TASK_ID_INVALID
        /\ last_switch'.cause = pending_switch_cause
        /\ last_switch'.outgoing = current_task
    BY SwitchEffect DEF os_pendsv_switch
  <1>2. /\ Selected \in TaskIds /\ Saved[Selected].state = "READY"
        /\ Saved \in [TaskIds -> SchedTask]
        /\ \A t \in UserTasks : JobMatches(Saved[t])
    BY <1>1, SelectedIsReady, ParkedEffect
  <1>3. /\ \A t \in TaskIds : t # Selected => schedules'[t] = Saved[t]
        /\ schedules'[Selected].state = "RUNNING"
        /\ schedules'[Selected].absolute_deadline_order
             = Saved[Selected].absolute_deadline_order
        /\ schedules'[Selected].priority = Saved[Selected].priority
    <2>1. Saved[Selected] \in SchedTask
      BY <1>2
    <2> QED BY <1>1, <1>2, <2>1 DEF SchedTask
  <1>4. ASSUME NEW c \in ReadyTasks' PROVE MayWait(c)'
    <2>1. /\ c \in UserTasks /\ c \in TaskIds /\ c # Selected
          /\ schedules'[c] = Saved[c] /\ Saved[c].state = "READY"
      BY <1>3, <1>4, IdTypes DEF ReadyTasks
    <2>2. c \in ReadyUserTasks(Saved)
      BY <1>2, <2>1 DEF ReadyUserTasks, IsReady, JobMatches, ActiveStates
    <2>3. current_task' # OS_TASK_ID_IDLE
      <3>1. Selected \in UserTasks
        BY <1>2, <2>2, SelectReady DEF Selected, ReadyUserTasks
      <3> QED BY <1>1, <3>1, IdTypes
    <2>4. ASSUME Earlier(c, current_task)' PROVE c = yield_excluded_task
      <3> SUFFICES ASSUME c # yield_excluded_task PROVE FALSE
        OBVIOUS
      <3>1. c \in Candidates(Saved, yield_excluded_task)
        BY <2>2 DEF Candidates
      <3>2. os_sched_outranks(Saved, Selected, c)
        BY <1>2, <2>1, <3>1, SelectIsBest DEF Selected
      <3>3. PrecedesKey(Saved, Selected, c)
        BY <2>1, <3>2, IdTypes DEF os_sched_outranks
      <3>4. ~PrecedesKey(Saved, c, Selected)
        BY <1>2, <2>1, <3>3, PrecedesAsymmetric
      <3>5. PrecedesKey(Saved, c, Selected)
        BY <1>1, <1>3, <2>1, <2>4 DEF Earlier, PrecedesKey
      <3> QED BY <3>4, <3>5
    <2>5. c = yield_excluded_task =>
             last_switch'.cause = "YIELD" /\ last_switch'.outgoing = c
      BY <1>1, <2>1, IdTypes DEF UrgencyInv
    <2> QED BY <2>3, <2>4, <2>5 DEF MayWait
  <1> QED BY <1>1, <1>4 DEF UrgencyInv

\* Where the promise is to be kept, a task is dispatched and RUNNING.
LEMMA Executing ==
    ASSUME StructureInv, cpu \in {"pendsv_out", "thread"}, ~pendsv_pending
    PROVE  /\ current_task \in TaskIds /\ Current.state = "RUNNING"
           /\ current_task # OS_TASK_ID_INVALID
           /\ schedules \in [TaskIds -> SchedTask]
           /\ \A t \in UserTasks : JobMatches(schedules[t])
           /\ current_task \in UserTasks => Current.job_active
  BY IdTypes
  DEF StructureInv, ContextInv, TypeOK, SwitchPromised, SlotsConsistent,
      JobMatches, ActiveStates, Current

\* A new task more urgent than its creator takes the processor at once, by the
\* request os_task_create makes.
LEMMA CreateUrgency ==
    ASSUME StructureInv, StructureInv', UrgencyInv,
           NEW config \in Configs, os_task_create(config)
    PROVE  UrgencyInv'
  <1> DEFINE lowest == CHOOSE s \in FreeSlots : \A t \in FreeSlots : s <= t
             filled == os_sched_task_configure(config, monotonic_ticks)
  <1>1. PICK id \in UserTasks : id = lowest /\ schedules[id].state = "DORMANT"
    BY LowestFreeSlot DEF os_task_create, FreeSlots
  <1> HIDE DEF lowest, filled
  <1>2. /\ schedules' = [schedules EXCEPT ![id] = filled]
        /\ UNCHANGED <<current_task, yield_excluded_task, cpu, last_switch>>
        /\ \/ UNCHANGED <<pending, pendsv_pending>>
              /\ (running => ~os_sched_outranks(schedules', id, current_task))
           \/ pendsv_pending' = TRUE
    BY <1>1
    DEF os_task_create, lowest, filled, identity, request_pendsv
  <1>3. yield_excluded_task = OS_TASK_ID_INVALID
    <2>1. \/ cpu = "main"
          \/ Current.state = "RUNNING"
      BY DEF os_task_create, caller_is_running_task, Current
    <2> QED BY <2>1 DEF StructureInv, YieldInv, ContextInv
  <1>4. ASSUME cpu' \in {"pendsv_out", "thread"}, ~pendsv_pending',
               NEW c \in ReadyTasks'
        PROVE  MayWait(c)'
    <2>1. /\ cpu \in {"pendsv_out", "thread"} /\ ~pendsv_pending
          /\ ~os_sched_outranks(schedules', id, current_task)
      <3>1. cpu \in {"pendsv_out", "thread"} => running
        BY DEF StructureInv, ContextInv
      <3>2. UNCHANGED <<pending, pendsv_pending>>
              /\ (running => ~os_sched_outranks(schedules', id, current_task))
        BY <1>2, <1>4
      <3> QED BY <1>2, <1>4, <3>1, <3>2
    <2>2. /\ current_task \in TaskIds /\ Current.state = "RUNNING"
          /\ schedules \in [TaskIds -> SchedTask]
          /\ current_task \in UserTasks => Current.job_active
      BY <2>1, Executing
    <2>3. /\ current_task # id
          /\ schedules'[current_task] = schedules[current_task]
      BY <1>1, <1>2, <2>2 DEF Current
    <2>4. CASE c # id
      <3>1. c \in ReadyTasks /\ schedules'[c] = schedules[c]
        BY <1>1, <1>2, <1>4, <2>2, <2>4, IdTypes DEF ReadyTasks
      <3>2. MayWait(c)
        BY <2>1, <3>1 DEF UrgencyInv
      <3> QED BY <1>2, <2>3, <3>1, <3>2 DEF MayWait, Earlier
    <2>5. CASE c = id
      <3>1. /\ schedules'[id].state = "READY" /\ schedules'[id].job_active
            /\ id # OS_TASK_ID_IDLE
        BY <1>1, <1>4, <2>5, IdTypes
        DEF ReadyTasks, StructureInv, SlotsConsistent
      <3>2. current_task # OS_TASK_ID_IDLE
        BY <2>1, <3>1 DEF os_sched_outranks, IsReady
      <3>3. /\ schedules'[current_task].job_active
            /\ schedules'[current_task].state = "RUNNING"
        BY <2>2, <2>3, <3>2, IdTypes DEF Current
      <3>4. ~PrecedesKey(schedules', id, current_task)
        BY <2>1, <3>1, <3>3 DEF os_sched_outranks, IsReady
      <3>5. ~Earlier(id, current_task)'
        BY <1>2, <3>4 DEF PrecedesKey, Earlier
      <3> QED BY <1>2, <2>5, <3>2, <3>5 DEF MayWait
    <2> QED BY <2>4, <2>5
  <1> QED BY <1>2, <1>3, <1>4 DEF UrgencyInv

\* A tick that makes a task more urgent than the current one READY asks for its
\* switch, whichever of several such tasks os_sched_select names
\* (os_kernel_tick).
LEMMA SysTickUrgency ==
    ASSUME StructureInv, StructureInv', TimeInv, UrgencyInv, SysTick
    PROVE  UrgencyInv'
  <1> DEFINE now == monotonic_ticks + 1
             ticked == [id \in TaskIds |->
                          IF id = OS_TASK_ID_IDLE THEN schedules[id]
                          ELSE TickTask(schedules[id], now)]
             candidate == os_sched_select(ticked, OS_TASK_ID_INVALID)
             preempts ==
                 /\ \E id \in UserTasks : BecomesReady(schedules[id], now)
                 /\ current_task # OS_TASK_ID_INVALID
                 /\ ticked[current_task].state = "RUNNING"
                 /\ candidate \in UserTasks
                 /\ os_sched_outranks(ticked, candidate, current_task)
  <1>1. /\ UNCHANGED <<current_task, yield_excluded_task, cpu, last_switch>>
        /\ panics = {}
    BY DEF SysTick, identity
  <1>2. \/ UNCHANGED <<schedules, pending, pendsv_pending>>
        \/ ~preempts /\ schedules' = ticked
             /\ UNCHANGED <<pending, pendsv_pending>>
        \/ preempts /\ pendsv_pending' = TRUE
    BY DEF SysTick, request_pendsv
  <1>3. /\ monotonic_ticks \in Nat /\ now \in Nat
        /\ schedules \in [TaskIds -> SchedTask]
        /\ \A id \in UserTasks :
             /\ schedules[id] \in SchedTask /\ JobMatches(schedules[id])
             /\ OnTime(schedules[id], monotonic_ticks)
    BY <1>1, TimeBefore
  <1>4. ASSUME NEW id \in UserTasks
        PROVE  LET before == schedules[id]
                   after == ticked[id]
               IN
               /\ after \in SchedTask /\ JobMatches(after)
               /\ \/ after.state = before.state
                  \/ /\ before.state \in {"WAITING_RELEASE", "SLEEPING"}
                     /\ after.state = "READY"
               /\ before.state \in {"READY", "RUNNING"} =>
                    /\ after.absolute_deadline_order =
                         before.absolute_deadline_order
                    /\ after.priority = before.priority
               /\ before.state # "READY" /\ after.state = "READY" =>
                    BecomesReady(before, now)
    <2>1. ticked[id] = TickTask(schedules[id], now)
      BY <1>4, IdTypes
    <2>2. /\ schedules[id] \in SchedTask /\ JobMatches(schedules[id])
          /\ ~schedules[id].time_range_exhausted
      BY <1>3, <1>4 DEF OnTime
    <2> HIDE DEF ticked, now
    <2> QED BY <1>3, <2>1, <2>2, TickEffect, TickType, TickReady
  <1>5. /\ ticked[OS_TASK_ID_IDLE] = schedules[OS_TASK_ID_IDLE]
        /\ ticked \in [TaskIds -> SchedTask]
    <2>1. \A id \in UserTasks : ticked[id] \in SchedTask
      BY <1>4
    <2>2. ticked[OS_TASK_ID_IDLE] = schedules[OS_TASK_ID_IDLE]
      BY IdTypes
    <2>3. \A id \in TaskIds : ticked[id] \in SchedTask
      BY <1>3, <2>1, <2>2, IdTypes
    <2> QED BY <2>2, <2>3
  <1> HIDE DEF now, ticked, candidate
  <1>6. ASSUME yield_excluded_task # OS_TASK_ID_INVALID
        PROVE  ~preempts /\ UNCHANGED pending
    <2>1. /\ current_task \in TaskIds /\ Current.state = "READY"
      BY <1>6, IdTypes DEF StructureInv, YieldInv, ContextInv, TypeOK
    <2>2. ticked[current_task].state = "READY"
      BY <1>4, <1>5, <2>1, IdTypes DEF Current
    <2> QED BY <1>2, <2>2
  <1>7. ASSUME cpu' \in {"pendsv_out", "thread"}, ~pendsv_pending',
               ~preempts, schedules' = ticked, ~pendsv_pending,
               NEW c \in ReadyTasks'
        PROVE  MayWait(c)'
    <2>1. /\ current_task \in TaskIds /\ Current.state = "RUNNING"
          /\ current_task # OS_TASK_ID_INVALID
      BY <1>1, <1>7, Executing
    <2>2. /\ ticked[current_task].state = "RUNNING"
          /\ current_task \in UserTasks =>
               /\ ticked[current_task].job_active
               /\ ticked[current_task].absolute_deadline_order
                    = Current.absolute_deadline_order
               /\ ticked[current_task].priority = Current.priority
      BY <1>4, <1>5, <2>1, IdTypes DEF Current, JobMatches, ActiveStates
    <2>3. c \in UserTasks /\ c \in TaskIds /\ ticked[c].state = "READY"
      BY <1>7, IdTypes DEF ReadyTasks
    <2>4. CASE schedules[c].state = "READY"
      <3>1. MayWait(c)
        BY <1>1, <1>7, <2>3, <2>4 DEF UrgencyInv, ReadyTasks
      <3>2. /\ ticked[c].absolute_deadline_order
                 = schedules[c].absolute_deadline_order
            /\ ticked[c].priority = schedules[c].priority
        BY <1>4, <2>3, <2>4
      <3>3. current_task \in UserTasks
        BY <2>1, <3>1, IdTypes DEF MayWait
      <3>4. Earlier(c, current_task)' => Earlier(c, current_task)
        BY <1>1, <1>7, <2>2, <3>2, <3>3 DEF Earlier, Current
      <3> QED BY <1>1, <3>1, <3>4 DEF MayWait
    <2>5. CASE schedules[c].state # "READY"
      <3>1. BecomesReady(schedules[c], now)
        BY <1>4, <2>3, <2>5
      <3>2. c \in Candidates(ticked, OS_TASK_ID_INVALID)
        BY <1>4, <2>3, IdTypes
        DEF Candidates, ReadyUserTasks, IsReady, JobMatches, ActiveStates
      <3>3. /\ candidate \in Candidates(ticked, OS_TASK_ID_INVALID)
            /\ c # candidate => os_sched_outranks(ticked, candidate, c)
        BY <1>5, <3>2, SelectIsBest DEF candidate
      <3>4. /\ candidate \in UserTasks /\ candidate \in TaskIds
            /\ IsReady(ticked[candidate])
            /\ candidate # OS_TASK_ID_IDLE
        BY <3>3, IdTypes DEF Candidates, ReadyUserTasks
      <3>5. ~os_sched_outranks(ticked, candidate, current_task)
        BY <1>7, <2>1, <2>2, <2>3, <3>1, <3>4
      <3>6. current_task # OS_TASK_ID_IDLE
        BY <3>4, <3>5 DEF os_sched_outranks
      <3>7. ~PrecedesKey(ticked, candidate, current_task)
        BY <2>1, <2>2, <3>4, <3>5, <3>6, IdTypes DEF os_sched_outranks
      <3>8. ~PrecedesKey(ticked, c, current_task)
        <4>1. CASE c = candidate
          BY <3>7, <4>1
        <4>2. CASE c # candidate
          <5>1. PrecedesKey(ticked, candidate, c)
            BY <2>3, <3>3, <4>2, IdTypes DEF os_sched_outranks
          <5> QED
            BY <1>5, <2>1, <2>3, <3>4, <3>7, <5>1, PrecedesTransitive
        <4> QED BY <4>1, <4>2
      <3>9. ~Earlier(c, current_task)'
        BY <1>1, <1>7, <3>8 DEF Earlier, PrecedesKey
      <3> QED BY <1>1, <3>6, <3>9 DEF MayWait
    <2> QED BY <2>4, <2>5
  <1>8. CASE UNCHANGED <<schedules, pending, pendsv_pending>>
    BY <1>1, <1>8
    DEF UrgencyInv, MayWait, Earlier, ReadyTasks, pending
  <1>9. CASE preempts /\ pendsv_pending' = TRUE
    BY <1>1, <1>6, <1>9 DEF UrgencyInv
  <1>10. CASE ~preempts /\ schedules' = ticked
               /\ UNCHANGED <<pending, pendsv_pending>>
    BY <1>1, <1>7, <1>10 DEF UrgencyInv, pending
  <1> HIDE DEF preempts
  <1> QED BY <1>2, <1>8, <1>9, <1>10

\* A system call ends the promise until its switch; only os_yield excludes a
\* task from it.
LEMMA SystemCallUrgency ==
    ASSUME StructureInv, UrgencyInv,
           SvcYield \/ SvcExit \/ SvcWaitNextPeriod
             \/ \E sleep_ticks \in SleepTicks : SvcSleep(sleep_ticks)
    PROVE  UrgencyInv'
  <1>1. PICK reason, accepted, task, cause :
           /\ SystemCall(reason, accepted, task, cause)
           /\ \/ UNCHANGED yield_excluded_task
              \/ cause = "YIELD" /\ yield_excluded_task' = current_task
    BY DEF SvcYield, SvcExit, SvcWaitNextPeriod, SvcSleep
  <1>2. /\ pendsv_pending' /\ UNCHANGED current_task
        /\ pending_switch_cause' = cause
    BY <1>1 DEF SystemCall, request_pendsv, identity
  <1>3. yield_excluded_task = OS_TASK_ID_INVALID
    BY <1>1, QuietThread DEF SystemCall
  <1> QED BY <1>1, <1>2, <1>3 DEF UrgencyInv

\* The other steps change neither the tasks nor who executes.
LEMMA SimpleUrgency ==
    ASSUME StructureInv, UrgencyInv,
           \/ DisableInterrupts \/ EnableInterrupts
           \/ os_memory_alloc \/ os_memory_free
           \/ os_kernel_start \/ SvcStart \/ PendsvEnter \/ PendsvReturn
           \/ UNCHANGED vars
    PROVE  UrgencyInv'
  <1>1. UNCHANGED <<schedules, current_task, yield_excluded_task, last_switch>>
    BY DEF DisableInterrupts, EnableInterrupts, os_memory_alloc,
           os_memory_free, os_kernel_start, SvcStart, PendsvEnter,
           PendsvReturn, vars, identity
  <1>2. \A c \in ReadyTasks : MayWait(c)' <=> MayWait(c)
    BY <1>1 DEF MayWait, Earlier
  <1>3. ReadyTasks' = ReadyTasks
    BY <1>1 DEF ReadyTasks
  <1>4. CASE os_kernel_start
    <2>1. cpu = "main" /\ cpu' = "starting"
      BY <1>4 DEF os_kernel_start
    <2>2. yield_excluded_task = OS_TASK_ID_INVALID
      BY <2>1 DEF StructureInv, YieldInv, ContextInv
    <2> QED BY <1>1, <2>1, <2>2 DEF UrgencyInv
  <1>5. CASE ~os_kernel_start
    <2>1. UNCHANGED pending_switch_cause
      BY <1>5
      DEF DisableInterrupts, EnableInterrupts, os_memory_alloc,
          os_memory_free, SvcStart, PendsvEnter, PendsvReturn, vars, pending
    <2>2. \/ pendsv_pending'
          \/ cpu' = "pendsv_in"
          \/ /\ cpu' \in {"pendsv_out", "thread"} =>
                  cpu \in {"pendsv_out", "thread"}
             /\ UNCHANGED pendsv_pending
      BY <1>5
      DEF DisableInterrupts, EnableInterrupts, os_memory_alloc,
          os_memory_free, SvcStart, PendsvEnter, PendsvReturn, vars,
          hardware, request_pendsv
    <2> QED BY <1>1, <1>2, <1>3, <2>1, <2>2 DEF UrgencyInv
  <1> QED BY <1>4, <1>5

\* Every step keeps the urgency invariant.
LEMMA UrgencyStep ==
    StructureInv /\ StructureInv' /\ TimeInv /\ UrgencyInv /\ [Next]_vars
      => UrgencyInv'
  <1> SUFFICES ASSUME StructureInv, StructureInv', TimeInv, UrgencyInv,
                      [Next]_vars
               PROVE  UrgencyInv'
    OBVIOUS
  <1>1. CASE \E config \in Configs : os_task_create(config)
    BY <1>1, CreateUrgency
  <1>2. CASE SvcYield \/ SvcExit \/ SvcWaitNextPeriod
               \/ \E sleep_ticks \in SleepTicks : SvcSleep(sleep_ticks)
    BY <1>2, SystemCallUrgency
  <1>3. CASE SysTick
    BY <1>3, SysTickUrgency
  <1>4. CASE os_pendsv_switch
    BY <1>4, SwitchUrgency
  <1>5. CASE \/ DisableInterrupts \/ EnableInterrupts
             \/ os_memory_alloc \/ os_memory_free
             \/ os_kernel_start \/ SvcStart \/ PendsvEnter \/ PendsvReturn
             \/ UNCHANGED vars
    BY <1>5, SimpleUrgency
  <1> QED BY <1>1, <1>2, <1>3, <1>4, <1>5 DEF Next, Halted

\* The whole invariant.
THEOREM KernelSafe == Spec => []KernelInv
  <1>1. Init => KernelInv
    BY InitInv, InitTime, InitUrgency DEF KernelInv
  <1>2. KernelInv /\ [Next]_vars => KernelInv'
    BY StructureStep, TimeStep, UrgencyStep DEF KernelInv
  <1> QED BY <1>1, <1>2, PTL DEF Spec

\* Earliest deadline first while a task executes, the yielding one excepted.
THEOREM EdfSafe == Spec => []EdfWhileExecuting
  <1>1. KernelInv => EdfWhileExecuting
    BY DEF KernelInv, UrgencyInv, MayWait, EdfWhileExecuting
  <1> QED BY <1>1, KernelSafe, PTL

\* The switch that a yield asks for goes to another ready task if there is one
\* (os_svc_yield_c, os_pendsv_switch).
THEOREM YieldSafe == Spec => YieldHonoured
  <1>1. ASSUME KernelInv, [Next]_vars,
               cpu = "pendsv_in", cpu' = "pendsv_out",
               yield_excluded_task # OS_TASK_ID_INVALID,
               ReadyTasks \ {yield_excluded_task} # {}
        PROVE  current_task' \in ReadyTasks \ {yield_excluded_task}
    <2>1. StructureInv /\ yield_excluded_task = current_task
      BY <1>1 DEF KernelInv, UrgencyInv
    <2>2. os_pendsv_switch
      BY <1>1
      DEF Next, Halted, vars, hardware, os_task_create, DisableInterrupts,
          EnableInterrupts, os_memory_alloc, os_memory_free, os_kernel_start,
          SvcStart, SvcYield, SvcExit, SvcWaitNextPeriod, SvcSleep,
          SystemCall, SysTick, PendsvEnter, PendsvReturn
    <2>3. current_task' = Selected
      BY <2>1, <2>2, <1>1, SwitchEffect
    <2>4. /\ Saved \in [TaskIds -> SchedTask]
          /\ \A t \in TaskIds : t # current_task => Saved[t] = schedules[t]
          /\ \A t \in UserTasks : JobMatches(Saved[t])
      BY <1>1, <2>1, ParkedEffect
    <2>5. \A t \in UserTasks \ {current_task} :
             IsReady(Saved[t]) <=> schedules[t].state = "READY"
      BY <2>4, IdTypes DEF IsReady, JobMatches, ActiveStates
    <2>6. Candidates(Saved, yield_excluded_task)
            = ReadyTasks \ {yield_excluded_task}
      BY <2>1, <2>5 DEF Candidates, ReadyUserTasks, ReadyTasks
    <2>7. Selected \in Candidates(Saved, yield_excluded_task)
      BY <1>1, <2>4, <2>6, SelectIsBest DEF Selected
    <2> QED BY <2>3, <2>6, <2>7
  <1>2. KernelInv /\ [Next]_vars =>
          [cpu = "pendsv_in" /\ cpu' = "pendsv_out" =>
             \/ yield_excluded_task = OS_TASK_ID_INVALID
             \/ ReadyTasks \ {yield_excluded_task} = {}
             \/ current_task' \in ReadyTasks \ {yield_excluded_task}]_vars
    BY <1>1
  <1> QED BY <1>2, KernelSafe, PTL DEF Spec, YieldHonoured

----------------------------------------------------------------------------
\* The life of a slot: the steps of TaskLifecycle.

\* One slot's state changes, or no slot's life does.
LEMMA LifeUpdate ==
    ASSUME NEW id \in UserTasks,
           \A t \in UserTasks : t # id => schedules'[t] = schedules[t]
    PROVE  SlotLife' = [SlotLife EXCEPT ![id] = LifeOf(schedules'[id].state)]
  BY DEF SlotLife

\* A slot whose schedule and memory stay lives on as it was.
LEMMA LifeSame ==
    ASSUME \A t \in UserTasks :
              LifeOf(schedules'[t].state) = LifeOf(schedules[t].state)
    PROVE  SlotLife' = SlotLife
  BY DEF SlotLife

\* At the start every slot is free and holds nothing.
LEMMA InitLives == Init => Lives!Init
  <1> SUFFICES ASSUME Init PROVE Lives!Init
    OBVIOUS
  <1>1. \A id \in UserTasks : schedules[id].state = "DORMANT"
    BY IdTypes DEF Init, ResetTask
  <1>2. SlotLife = [id \in UserTasks |-> "FREE"]
    BY <1>1 DEF SlotLife, LifeOf
  <1>3. SlotMemory = [id \in UserTasks |-> 0]
    BY IdTypes DEF Init, SlotMemory
  <1>4. current_task \notin UserTasks
    BY IdTypes DEF Init
  <1> QED BY <1>2, <1>3, <1>4 DEF Lives!Init

\* os_task_create fills a free slot with a task that is READY or waits for its
\* first release.
LEMMA CreateLives ==
    ASSUME StructureInv, NEW config \in Configs, os_task_create(config)
    PROVE  \E id \in UserTasks : Lives!Create(id)
  <1> DEFINE lowest == CHOOSE s \in FreeSlots : \A t \in FreeSlots : s <= t
             filled == os_sched_task_configure(config, monotonic_ticks)
  <1>1. PICK id \in UserTasks : id = lowest /\ schedules[id].state = "DORMANT"
    BY LowestFreeSlot DEF os_task_create, FreeSlots
  <1>2. filled.state \in {"WAITING_RELEASE", "READY"}
    <2>1. monotonic_ticks \in Orders
      BY DEF StructureInv, TypeOK
    <2> QED BY <2>1, ConfigureEffect, KernelConstants DEF os_task_create
  <1> HIDE DEF lowest, filled
  <1>3. /\ schedules' = [schedules EXCEPT ![id] = filled]
        /\ UNCHANGED <<current_task, owned>>
    BY <1>1 DEF os_task_create, lowest, filled, identity
  <1>4. /\ schedules'[id] = filled
        /\ \A t \in UserTasks : t # id => schedules'[t] = schedules[t]
    BY <1>1, <1>3, IdTypes DEF StructureInv, TypeOK
  <1>5. current_task \in UserTasks => SlotLife[current_task] = "READY"
    <2>1. \/ current_task = OS_TASK_ID_INVALID
          \/ Current.state = "RUNNING"
      BY DEF os_task_create, caller_is_running_task, Current, StructureInv,
             ContextInv
    <2> QED BY <2>1, IdTypes DEF SlotLife, LifeOf, Current
  <1>6. SlotLife[id] = "FREE"
    BY <1>1 DEF SlotLife, LifeOf
  <1>7. SlotLife' = [SlotLife EXCEPT ![id] = LifeOf(schedules'[id].state)]
    BY <1>4, LifeUpdate
  <1>8. LifeOf(schedules'[id].state) \in {"READY", "BLOCKED"}
    BY <1>2, <1>4 DEF LifeOf
  <1>9. UNCHANGED <<SlotMemory, current_task>>
    BY <1>3 DEF SlotMemory
  <1>10. Lives!Create(id)
    BY <1>5, <1>6, <1>7, <1>8, <1>9 DEF Lives!Create, Lives!Becomes
  <1> QED BY <1>10

\* Only the task that executes takes and gives memory.
LEMMA MemoryLives ==
    ASSUME StructureInv, os_memory_alloc \/ os_memory_free
    PROVE  \E id \in UserTasks : Lives!Take(id) \/ Lives!Give(id)
  <1>1. /\ current_task \in UserTasks
        /\ Current.state = "RUNNING"
    BY IdTypes
    DEF os_memory_alloc, os_memory_free, UserTaskExecutes,
        caller_is_running_task, Current
  <1>2. UNCHANGED <<schedules, current_task>>
    BY DEF os_memory_alloc, os_memory_free, identity
  <1>3. UNCHANGED SlotLife /\ SlotLife[current_task] = "READY"
    BY <1>1, <1>2 DEF SlotLife, LifeOf, Current
  <1>4. owned \in [TaskIds -> Nat]
    BY DEF StructureInv, TypeOK
  <1>5. CASE os_memory_alloc
    <2>1. SlotMemory' = [SlotMemory EXCEPT ![current_task] = @ + 1]
      BY <1>1, <1>4, <1>5, IdTypes DEF SlotMemory, os_memory_alloc
    <2>2. Lives!Take(current_task)
      BY <1>2, <1>3, <2>1 DEF Lives!Take, Lives!Acts
    <2> QED BY <1>1, <2>2
  <1>6. CASE os_memory_free
    <2>1. /\ SlotMemory' = [SlotMemory EXCEPT ![current_task] = @ - 1]
          /\ SlotMemory[current_task] > 0
      BY <1>1, <1>4, <1>6, IdTypes DEF SlotMemory, os_memory_free
    <2>2. Lives!Give(current_task)
      BY <1>2, <1>3, <2>1 DEF Lives!Give, Lives!Acts
    <2> QED BY <1>1, <2>2
  <1> QED BY <1>5, <1>6

\* A system call gives the processor away, and is a step of the life only if
\* the task can then not run.
LEMMA SystemCallLives ==
    ASSUME StructureInv,
           NEW reason, NEW accepted \in BOOLEAN, NEW task, NEW cause,
           SystemCall(reason, accepted, task, cause),
           accepted => task.state \in {"READY", "SLEEPING", "EXITING",
                                       "WAITING_RELEASE"}
    PROVE  (\E id \in UserTasks : Lives!Leave(id)) \/ UNCHANGED Lives!vars
  <1>1. current_task \in UserTasks /\ Current.state = "RUNNING"
    BY QuietThread DEF SystemCall
  <1>2. /\ schedules' = IF accepted
                        THEN [schedules EXCEPT ![current_task] = task]
                        ELSE schedules
        /\ UNCHANGED <<current_task, owned>>
    BY DEF SystemCall, identity
  <1>3. UNCHANGED <<SlotMemory, current_task>>
    BY <1>2 DEF SlotMemory
  <1>4. SlotLife[current_task] = "READY"
    BY <1>1 DEF SlotLife, LifeOf, Current
  <1>5. CASE ~accepted
    <2>1. UNCHANGED SlotLife
      BY <1>2, <1>5 DEF SlotLife
    <2> QED BY <1>3, <2>1 DEF Lives!vars
  <1>6. CASE accepted
    <2>1. /\ schedules'[current_task] = task
          /\ \A t \in UserTasks : t # current_task =>
                schedules'[t] = schedules[t]
      BY <1>1, <1>2, <1>6, IdTypes DEF StructureInv, TypeOK
    <2>2. SlotLife' = [SlotLife EXCEPT ![current_task] = LifeOf(task.state)]
      BY <1>1, <2>1, LifeUpdate
    <2>3. CASE task.state = "READY"
      <3>1. LifeOf(task.state) = SlotLife[current_task]
        BY <1>4, <2>3 DEF LifeOf
      <3>2. UNCHANGED SlotLife
        BY <2>2, <3>1 DEF SlotLife
      <3> QED BY <1>3, <3>2 DEF Lives!vars
    <2>4. CASE task.state # "READY"
      <3>1. LifeOf(task.state) \in {"LEAVING", "BLOCKED"}
        BY <1>6, <2>4 DEF LifeOf
      <3>2. Lives!Leave(current_task)
        BY <1>3, <1>4, <2>2, <3>1 DEF Lives!Leave, Lives!Acts, Lives!Becomes
      <3> QED BY <1>1, <3>2
    <2> QED BY <2>3, <2>4
  <1> QED BY <1>5, <1>6

\* A tick wakes the tasks whose time has come, and may take the processor from
\* the current one, which stays able to run.
LEMMA SysTickLives ==
    ASSUME StructureInv, SysTick
    PROVE  \E woken \in SUBSET UserTasks : Lives!Wake(woken)
  <1> DEFINE now == monotonic_ticks + 1
             ticked == [id \in TaskIds |->
                          IF id = OS_TASK_ID_IDLE THEN schedules[id]
                          ELSE TickTask(schedules[id], now)]
             woken == {id \in UserTasks :
                         /\ schedules[id].state
                              \in {"WAITING_RELEASE", "SLEEPING"}
                         /\ schedules'[id].state = "READY"}
  <1>1. UNCHANGED <<current_task, owned>>
    BY DEF SysTick, identity
  <1>2. /\ schedules \in [TaskIds -> SchedTask]
        /\ monotonic_ticks \in Nat /\ now \in Nat
        /\ \A id \in UserTasks : JobMatches(schedules[id])
    BY TickIsNat
    DEF StructureInv, TypeOK, SlotsConsistent, JobMatches, ActiveStates
  <1>3. \/ schedules' = schedules
        \/ schedules' = ticked
        \/ /\ current_task \in TaskIdsOrInvalid
           /\ ticked[current_task].state = "RUNNING"
           /\ schedules' = [ticked EXCEPT ![current_task].state = "READY"]
    BY DEF SysTick, StructureInv, TypeOK
  <1>4. ASSUME NEW id \in UserTasks
        PROVE  /\ ticked[id] \in SchedTask
               /\ \/ ticked[id].state = schedules[id].state
                  \/ /\ schedules[id].state \in {"WAITING_RELEASE", "SLEEPING"}
                     /\ ticked[id].state = "READY"
    <2>1. ticked[id] = TickTask(schedules[id], now)
      BY <1>4, IdTypes
    <2>2. schedules[id] \in SchedTask
      BY <1>2, <1>4, IdTypes
    <2> HIDE DEF ticked, now
    <2> QED BY <1>2, <1>4, <2>1, <2>2, TickEffect, TickType
  <1>5. ticked = [id \in TaskIds |-> ticked[id]]
    OBVIOUS
  <1> HIDE DEF ticked, now
  <1>6. ASSUME NEW id \in UserTasks
        PROVE  \/ schedules'[id].state = schedules[id].state
               \/ /\ schedules[id].state \in {"WAITING_RELEASE", "SLEEPING"}
                  /\ schedules'[id].state = "READY"
               \/ /\ schedules[id].state = "RUNNING"
                  /\ schedules'[id].state = "READY"
    <2>1. \/ schedules'[id] = schedules[id]
          \/ schedules'[id] = ticked[id]
          \/ /\ ticked[id].state = "RUNNING"
             /\ schedules'[id] = [ticked[id] EXCEPT !.state = "READY"]
      BY <1>3, <1>5, <1>6, IdTypes
    <2>2. [ticked[id] EXCEPT !.state = "READY"].state = "READY"
      BY <1>4, <1>6 DEF SchedTask
    <2> QED BY <1>4, <1>6, <2>1, <2>2
  <1>7. /\ woken \in SUBSET UserTasks
        /\ woken \subseteq {id \in UserTasks : SlotLife[id] = "BLOCKED"}
    BY DEF SlotLife, LifeOf
  <1>8. SlotLife' = [id \in UserTasks |-> IF id \in woken THEN "READY"
                                          ELSE SlotLife[id]]
    <2>1. ASSUME NEW id \in UserTasks
          PROVE  LifeOf(schedules'[id].state)
                   = IF id \in woken THEN "READY" ELSE SlotLife[id]
      BY <1>6, <2>1 DEF SlotLife, LifeOf
    <2> HIDE DEF woken
    <2> QED BY <2>1 DEF SlotLife
  <1>9. UNCHANGED <<SlotMemory, current_task>>
    BY <1>1 DEF SlotMemory
  <1> HIDE DEF woken
  <1>10. Lives!Wake(woken)
    BY <1>7, <1>8, <1>9 DEF Lives!Wake
  <1> QED BY <1>7, <1>10

\* The switch goes to a task that can run, to idle only if there is none, and
\* frees the slot and the memory of a task that leaves (os_pendsv_switch).
LEMMA SwitchLives ==
    ASSUME StructureInv, os_pendsv_switch
    PROVE  \E next \in UserTasks \cup {OS_TASK_ID_IDLE} : Lives!Switch(next)
  <1>1. /\ cpu = "pendsv_in"
        /\ schedules' = [Saved EXCEPT ![Selected].state = "RUNNING"]
        /\ owned' = IF Leaving THEN [owned EXCEPT ![current_task] = 0]
                    ELSE owned
        /\ current_task' = Selected
    BY SwitchEffect DEF os_pendsv_switch
  <1>2. /\ Selected \in TaskIds /\ Saved[Selected].state = "READY"
        /\ Saved \in [TaskIds -> SchedTask]
        /\ owned \in [TaskIds -> Nat]
        /\ \A t \in TaskIds : t # current_task => Saved[t] = schedules[t]
        /\ \A t \in UserTasks : JobMatches(Saved[t])
    BY <1>1, SelectedIsReady, ParkedEffect DEF StructureInv, TypeOK
  <1>3. /\ schedules'[Selected].state = "RUNNING"
        /\ \A t \in TaskIds : t # Selected => schedules'[t] = Saved[t]
    BY <1>1, <1>2 DEF SchedTask
  <1>4. ASSUME NEW t \in UserTasks
        PROVE  \/ Saved[t].state = schedules[t].state
               \/ schedules[t].state = "RUNNING" /\ Saved[t].state = "READY"
               \/ /\ t = current_task /\ Leaving
                  /\ Saved[t].state = "DORMANT"
    <2>1. t \in TaskIds /\ schedules[t] \in SchedTask
      BY IdTypes DEF StructureInv, TypeOK
    <2>2. CASE t # current_task
      BY <1>2, <2>1, <2>2
    <2>3. CASE t = current_task
      <3>1. t # OS_TASK_ID_INVALID
        BY <2>1, IdTypes
      <3>2. CASE schedules[t].state = "RUNNING"
        <4>1. Saved[t] = [schedules[t] EXCEPT !.state = "READY"]
          BY <1>1, <2>1, <2>3, <3>2, ParkedEffect DEF Current
        <4> QED BY <2>1, <3>2, <4>1 DEF SchedTask
      <3>3. CASE schedules[t].state = "EXITING"
        <4>1. Leaving /\ Saved[t] = ResetTask
          BY <1>1, <2>3, <3>1, <3>3, ParkedEffect DEF Leaving, Current
        <4> QED BY <2>3, <4>1 DEF ResetTask
      <3>4. CASE schedules[t].state \notin {"RUNNING", "EXITING"}
        BY <1>1, <2>1, <2>3, <3>4, ParkedEffect DEF Current
      <3> QED BY <3>2, <3>3, <3>4
    <2> QED BY <2>2, <2>3
  <1>5. ASSUME Selected = OS_TASK_ID_IDLE
        PROVE  \A t \in UserTasks : SlotLife[t] # "READY"
    <2>1. ReadyUserTasks(Saved) = {}
      BY <1>2, <1>5, SelectReady, IdTypes DEF Selected, ReadyUserTasks
    <2>2. ASSUME NEW t \in UserTasks
          PROVE  schedules[t].state \notin {"READY", "RUNNING"}
      <3>1. Saved[t].state # "READY"
        BY <1>2, <2>1, <2>2
        DEF ReadyUserTasks, IsReady, JobMatches, ActiveStates
      <3>2. t = current_task /\ Leaving => schedules[t].state = "EXITING"
        BY DEF Leaving, Current
      <3>3. t \in TaskIds /\ Saved[t].state # "RUNNING"
        BY <1>1, <2>2, IdTypes, ParkedEffect
      <3> QED BY <1>4, <2>2, <3>1, <3>2, <3>3
    <2> QED BY <2>2, <1>5 DEF SlotLife, LifeOf
  <1>6. Selected # OS_TASK_ID_IDLE =>
           /\ Selected \in UserTasks
           /\ schedules[Selected].state \in {"READY", "RUNNING"}
    BY <1>2, <1>4, IdTypes
  <1>7. /\ Leaving <=> (/\ current_task \in UserTasks
                        /\ SlotLife[current_task] = "LEAVING")
        /\ Leaving => Selected # current_task
    <2>1. Leaving => /\ current_task \in UserTasks
                     /\ Saved[current_task].state = "DORMANT"
      BY <1>1, ParkedEffect DEF ResetTask
    <2>2. current_task \in UserTasks => current_task # OS_TASK_ID_INVALID
      BY IdTypes
    <2> QED BY <1>2, <2>1, <2>2 DEF Leaving, Current, SlotLife, LifeOf
  <1>8. SlotLife' = IF Leaving
                    THEN [SlotLife EXCEPT ![current_task] = "FREE"]
                    ELSE SlotLife
    <2>1. ASSUME NEW t \in UserTasks
          PROVE  LifeOf(schedules'[t].state)
                   = IF Leaving /\ t = current_task THEN "FREE"
                     ELSE SlotLife[t]
      <3>1. CASE t = Selected
        BY <1>3, <1>6, <1>7, <3>1, IdTypes DEF SlotLife, LifeOf
      <3>2. CASE t # Selected
        <4>1. schedules'[t].state = Saved[t].state
          BY <1>3, <2>1, <3>2, IdTypes
        <4>2. CASE Leaving /\ t = current_task
          <5>1. Saved[t].state = "DORMANT"
            BY <1>1, <4>2, ParkedEffect DEF ResetTask
          <5> QED BY <4>1, <4>2, <5>1 DEF LifeOf
        <4>3. CASE ~(Leaving /\ t = current_task)
          BY <1>4, <2>1, <4>1, <4>3 DEF SlotLife, LifeOf
        <4> QED BY <4>2, <4>3
      <3> QED BY <3>1, <3>2
    <2>2. SlotLife' = [t \in UserTasks |->
                         IF Leaving /\ t = current_task THEN "FREE"
                         ELSE SlotLife[t]]
      BY <2>1 DEF SlotLife
    <2>3. SlotLife = [t \in UserTasks |-> SlotLife[t]]
      BY DEF SlotLife
    <2> HIDE DEF SlotLife
    <2> QED BY <1>7, <2>2, <2>3
  <1>9. SlotMemory' = IF Leaving
                      THEN [SlotMemory EXCEPT ![current_task] = 0]
                      ELSE SlotMemory
    BY <1>1, <1>2, <1>7, IdTypes DEF SlotMemory
  <1>10. Lives!Switch(Selected)
    <2>1. IF Selected = OS_TASK_ID_IDLE
          THEN \A t \in UserTasks : SlotLife[t] # "READY"
          ELSE SlotLife[Selected] = "READY"
      BY <1>5, <1>6 DEF SlotLife, LifeOf
    <2> QED BY <1>1, <1>7, <1>8, <1>9, <2>1 DEF Lives!Switch, Lives!Becomes
  <1> QED BY <1>2, <1>10, IdTypes

\* Every step of the kernel is a step of a slot's life, or leaves the lives as
\* they are.
LEMMA LivesStep == StructureInv /\ [Next]_vars => [Lives!Next]_Lives!vars
  <1> SUFFICES ASSUME StructureInv, [Next]_vars
               PROVE  [Lives!Next]_Lives!vars
    OBVIOUS
  <1>1. CASE \E config \in Configs : os_task_create(config)
    BY <1>1, CreateLives DEF Lives!Next
  <1>2. CASE os_memory_alloc \/ os_memory_free
    BY <1>2, MemoryLives DEF Lives!Next
  <1>3. CASE SvcYield
    <2> DEFINE task == [Caller EXCEPT !.state = "READY"]
    <2>1. SystemCall("SVC_YIELD", TRUE, task, "YIELD")
      BY <1>3 DEF SvcYield
    <2>2. task.state = "READY"
      BY <2>1, QuietThread DEF SystemCall, Caller, Current, SchedTask
    <2> HIDE DEF task
    <2> QED BY <2>1, <2>2, SystemCallLives DEF Lives!Next
  <1>4. CASE \E ticks \in SleepTicks : SvcSleep(ticks)
    <2>1. PICK ticks \in SleepTicks : SvcSleep(ticks)
      BY <1>4
    <2> DEFINE task == os_sched_sleep(Caller, monotonic_ticks, ticks)
               accepted == SleepAccepts(Caller, monotonic_ticks, ticks)
    <2>2. SystemCall("TASK_SLEEP", accepted, task, "SLEEP")
      BY <2>1 DEF SvcSleep
    <2>3. task.state = "SLEEPING"
      BY <2>2, QuietThread
      DEF SystemCall, Caller, Current, SchedTask, os_sched_sleep
    <2>4. accepted \in BOOLEAN
      BY DEF SleepAccepts
    <2> HIDE DEF task, accepted
    <2> QED BY <2>2, <2>3, <2>4, SystemCallLives DEF Lives!Next
  <1>5. CASE SvcExit \/ SvcWaitNextPeriod
    <2> DEFINE task(state) == [os_sched_complete_job(Caller, monotonic_ticks)
                                 EXCEPT !.state = state]
               accepted == CompleteAccepts(Caller)
    <2>1. \/ SystemCall("EXIT_COMPLETE", accepted, task("EXITING"), "EXIT")
          \/ SystemCall("SVC_PERIOD", accepted, task("WAITING_RELEASE"),
                        "WAIT_PERIOD")
      BY <1>5 DEF SvcExit, SvcWaitNextPeriod, os_sched_wait_next_period
    <2>2. Caller \in SchedTask /\ monotonic_ticks \in Nat
      BY <2>1, QuietThread, TickIsNat
      DEF SystemCall, Caller, Current, StructureInv
    <2>3. \A state \in States : task(state).state = state
      BY <2>2, CompleteEffect
    <2>4. /\ task("EXITING").state = "EXITING"
          /\ task("WAITING_RELEASE").state = "WAITING_RELEASE"
      BY <2>3 DEF States
    <2>5. accepted \in BOOLEAN
      BY DEF CompleteAccepts
    <2> HIDE DEF task, accepted
    <2> QED BY <2>1, <2>4, <2>5, SystemCallLives DEF Lives!Next
  <1>6. CASE SysTick
    BY <1>6, SysTickLives DEF Lives!Next
  <1>7. CASE os_pendsv_switch
    BY <1>7, SwitchLives DEF Lives!Next
  <1>8. CASE \/ DisableInterrupts \/ EnableInterrupts
             \/ os_kernel_start \/ SvcStart \/ PendsvEnter \/ PendsvReturn
             \/ UNCHANGED vars
    <2>1. UNCHANGED <<schedules, owned, current_task>>
      BY <1>8
      DEF DisableInterrupts, EnableInterrupts, os_kernel_start, SvcStart,
          PendsvEnter, PendsvReturn, vars, identity
    <2> QED BY <2>1 DEF Lives!vars, SlotLife, SlotMemory
  <1> QED
    BY <1>1, <1>2, <1>3, <1>4, <1>5, <1>6, <1>7, <1>8 DEF Next, Halted

\* The kernel implements TaskLifecycle.
THEOREM LifecycleImplemented == Spec => ImplementsLifecycle
  <1>1. Init => Lives!Init
    BY InitLives
  <1>2. StructureInv /\ [Next]_vars => [Lives!Next]_Lives!vars
    BY LivesStep
  <1> QED
    BY <1>1, <1>2, StructureSafe, PTL
    DEF Spec, ImplementsLifecycle, Lives!Spec
=============================================================================
