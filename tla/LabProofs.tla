------------------------------ MODULE LabProofs ------------------------------
(***************************************************************************)
(* The signal laboratory, whatever the timing, the widths and the number   *)
(* of slots: the wait in WFI misses no tick, and the buffers are handed    *)
(* over as Pipeline says, without a lock.  Proved of the composition with  *)
(* every other application, of which one is built.                         *)
(***************************************************************************)
EXTENDS Labs, TLAPS

Signal == application = "signal_lab"

\* The roles are tasks of the table, and none of them is idle.
LEMMA RoleIds ==
    /\ Roles \subseteq TaskIds /\ Roles = {1, 2, 3}
    /\ OS_TASK_ID_IDLE = 0 /\ OS_TASK_ID_IDLE \in TaskIds
    /\ OS_TASK_ID_IDLE \notin Roles
  BY TaskSetsFit, SchedulerConstants
  DEF Roles, TASK_SAMPLER, TASK_VERIFIER, TaskIds, OS_TASK_ID_IDLE

\* What a step of the signal laboratory can be: the other applications' tasks
\* are not there.
SignalNext ==
    \/ SignalStep
    \/ Harness /\ UNCHANGED signal_vars

LEMMA SignalOnly ==
    ASSUME Signal, Threads \/ Environment
    PROVE  SignalNext
  BY DEF Signal, Threads, Environment, ScenarioStep, SignalNext

\* The firmware stays the one that was built.
LEMMA SameApplication ==
    ASSUME [Threads \/ Environment]_labs_vars
    PROVE  application' = application
  <1>1. CASE SignalStep
    BY <1>1
    DEF SignalStep, BeginsFrame, PublishesFrame, MasksInterrupts, SamplesInfo,
        WaitsForInterrupt, RestoresInterrupts, EndsFrame, SignalHook, IdleHook
  <1>2. CASE DeadlineStep
    BY <1>2
    DEF DeadlineStep, PollsExecution, perform_work, AccountsJob, EndsJob,
        DeadlineHook, IdleHook
  <1>3. CASE TraceStep
    BY <1>3
    DEF TraceStep, task_a, task_b, task_c, task_d, task_e, TraceHook, IdleHook,
        SpinsForTick, SpinsToDeadline, Calls, Asserts, CreatesTask, Finishes
  <1>4. CASE ScenarioStep
    BY <1>4
    DEF ScenarioStep, EdfStep, LifecycleStep, AllocatorStep, urgent_task,
        relaxed_task, lifecycle_task_a, lifecycle_task_b, manager_task,
        worker_task, IdleHook, Calls, Asserts, CreatesTask, Finishes
  <1>5. CASE Environment
    BY <1>5
    DEF Environment, Harness, MainCreates, MainStarts, TimerElapses,
        SysTick_Handler, SwitchStep, IdleWaits, TaskReturns, TaskWaits, Calls,
        lab_vars
  <1>6. CASE UNCHANGED labs_vars
    BY <1>6 DEF labs_vars, lab_vars
  <1> QED BY <1>1, <1>2, <1>3, <1>4, <1>5, <1>6 DEF Threads
----------------------------------------------------------------------------
\* The wait for a tick.

\* The task has been charged no tick since its last look.
Fresh(id) ==
    info[id].job_execution_ticks = schedules[id].job_execution_ticks

\* From the look to WFI a task keeps the processor and no tick is taken; and
\* nothing but the timer happens while the CPU waits.
SleepInv ==
    /\ at = [id \in TaskIds |-> at[id]] /\ info = [id \in TaskIds |-> info[id]]
    /\ primask => cpu = "thread" /\ current_task # OS_TASK_ID_IDLE
    /\ asleep => cpu = "thread" /\ ~pendsv_pending /\ ~systick_pending
    /\ \A id \in Roles : at[id] \in {"sample", "wfi"} =>
                            primask /\ current_task = id
    /\ \A id \in Roles : at[id] = "wfi" => Fresh(id)
    /\ asleep /\ current_task \in Roles => Fresh(current_task)

LEMMA SleepInit == LabsInit => SleepInv
  BY RoleIds
  DEF LabsInit, LabInit, Init, SleepInv, os_task_info, OS_TASK_ID_IDLE

\* The steps of a task: nobody else is between its look and WFI, and the CPU
\* does not wait.
LEMMA SleepRoleStep ==
    ASSUME SleepInv, NEW id \in Roles,
           \/ BeginsFrame(id) \/ PublishesFrame(id)
           \/ MasksInterrupts(id) \/ SamplesInfo(id) \/ WaitsForInterrupt(id)
           \/ RestoresInterrupts(id) \/ EndsFrame(id)
    PROVE  SleepInv'
  <1> DEFINE place == at'[id]
  <1>1. /\ current_task = id /\ current_task' = id /\ cpu = "thread"
        /\ cpu' = cpu /\ pendsv_pending' = pendsv_pending
        /\ systick_pending' = systick_pending
        /\ schedules' = schedules /\ ~asleep
    BY DEF BeginsFrame, PublishesFrame, MasksInterrupts, SamplesInfo,
           WaitsForInterrupt, RestoresInterrupts, EndsFrame, Executes,
           ThreadExecutes, kernel_state, vars, identity, hardware,
           DisableInterrupts, EnableInterrupts
  <1>2. /\ id \in TaskIds /\ id # OS_TASK_ID_IDLE
        /\ \A other \in Roles : other \in TaskIds
    BY RoleIds
  <1>3. /\ at' = [other \in TaskIds |-> at'[other]]
        /\ \A other \in Roles \ {id} : at'[other] = at[other]
    <2>1. at' = at \/ \E p : at' = [at EXCEPT ![id] = p]
      BY DEF BeginsFrame, PublishesFrame, MasksInterrupts, SamplesInfo,
             WaitsForInterrupt, RestoresInterrupts, EndsFrame, Goes, Requires
    <2> QED BY <1>2, <2>1 DEF SleepInv
  <1>4. \A other \in Roles \ {id} : at[other] \notin {"sample", "wfi"}
    BY <1>1 DEF SleepInv
  <1>5. /\ primask' => cpu' = "thread" /\ current_task' # OS_TASK_ID_IDLE
    BY <1>1, <1>2
  <1>6. CASE MasksInterrupts(id)
    <2>1. primask' /\ asleep' = asleep /\ info' = info /\ at'[id] = "sample"
      BY <1>2, <1>6 DEF MasksInterrupts, DisableInterrupts, Goes, SleepInv
    <2> QED BY <1>1, <1>2, <1>3, <1>4, <1>5, <2>1 DEF SleepInv
  <1>7. CASE SamplesInfo(id)
    <2>1. /\ at[id] = "sample" /\ primask /\ primask' = primask
          /\ asleep' = asleep
      BY <1>2, <1>7
      DEF SamplesInfo, Executes, kernel_state, hardware, SleepInv
    <2>2. info' = [info EXCEPT ![id] = os_task_info(id)]
      BY <1>7 DEF SamplesInfo
    <2>3. /\ info' = [other \in TaskIds |-> info'[other]]
          /\ Fresh(id)'
      BY <1>1, <1>2, <2>2 DEF SleepInv, Fresh, os_task_info
    <2> QED BY <1>1, <1>2, <1>3, <1>4, <1>5, <2>1, <2>3 DEF SleepInv
  <1>8. CASE WaitsForInterrupt(id)
    <2>1. /\ at[id] = "wfi" /\ at'[id] = "unmask" /\ info' = info
          /\ primask' = primask
          /\ asleep' => ~systick_pending /\ ~pendsv_pending
      BY <1>2, <1>8
      DEF WaitsForInterrupt, Executes, Goes, vars, hardware, SleepInv
    <2>2. Fresh(id)'
      BY <1>1, <2>1 DEF SleepInv, Fresh
    <2> QED BY <1>1, <1>2, <1>3, <1>4, <1>5, <2>1, <2>2 DEF SleepInv
  <1>9. CASE \/ BeginsFrame(id) \/ PublishesFrame(id)
             \/ RestoresInterrupts(id) \/ EndsFrame(id)
    <2>1. info' = info /\ asleep' = asleep
      BY <1>9 DEF BeginsFrame, PublishesFrame, RestoresInterrupts, EndsFrame
    <2>2. at'[id] \notin {"sample", "wfi"}
      BY <1>2, <1>9
      DEF BeginsFrame, PublishesFrame, RestoresInterrupts, EndsFrame, Goes,
          Requires, Executes, SleepInv
    <2> QED BY <1>1, <1>2, <1>3, <1>4, <1>5, <2>1, <2>2 DEF SleepInv
  <1> QED BY <1>6, <1>7, <1>8, <1>9

\* The other steps of the system.
LEMMA SleepEnvironmentStep ==
    ASSUME SleepInv, Harness
    PROVE  SleepInv'
  <1>1. CASE \/ MainCreates \/ MainStarts \/ SysTick_Handler \/ SwitchStep
             \/ \E id \in UserTasks : TaskReturns(id) \/ TaskWaits(id)
    <2>1. ~primask /\ ~asleep /\ primask' = primask /\ asleep' = asleep
      <3>1. CASE MainCreates \/ MainStarts
        BY <3>1
        DEF MainCreates, MainStarts, os_task_create, os_kernel_start, SleepInv,
            lab_vars
      <3>2. CASE SysTick_Handler
        BY <3>2 DEF SysTick_Handler, TickIsTaken, SysTick, SleepInv
      <3>3. CASE SwitchStep
        BY <3>3
        DEF SwitchStep, SvcStart, PendsvEnter, os_pendsv_switch, PendsvReturn,
            SleepInv, lab_vars
      <3>4. CASE \E id \in UserTasks : TaskReturns(id) \/ TaskWaits(id)
        BY <3>4
        DEF TaskReturns, TaskWaits, Calls, Executes, SvcExit,
            SvcWaitNextPeriod, SystemCall
      <3> QED BY <1>1, <3>1, <3>2, <3>3, <3>4
    <2>2. info' = info
      BY <1>1
      DEF MainCreates, MainStarts, SysTick_Handler, SwitchStep, TaskReturns,
          TaskWaits, Calls, lab_vars
    <2>3. \/ at' = at
          \/ \E id \in UserTasks : \/ at' = [at EXCEPT ![id] = "gone"]
                                  \/ at' = [at EXCEPT ![id] = "job"]
      BY <1>1
      DEF MainCreates, MainStarts, SysTick_Handler, SwitchStep, TaskReturns,
          TaskWaits, Calls, Goes, lab_vars
    <2>4. \A id \in Roles : at[id] \notin {"sample", "wfi"}
      BY <2>1 DEF SleepInv
    <2>5. /\ at' = [id \in TaskIds |-> at'[id]]
          /\ \A id \in Roles : at'[id] \notin {"sample", "wfi"}
      BY <2>3, <2>4, RoleIds DEF SleepInv
    <2> QED BY <2>1, <2>2, <2>5 DEF SleepInv
  <1>2. CASE TimerElapses
    BY <1>2
    DEF TimerElapses, SleepInv, Fresh, vars, identity, hardware
  <1>3. CASE IdleWaits
    <2>1. /\ current_task = OS_TASK_ID_IDLE /\ cpu = "thread"
          /\ pendsv_pending => primask
          /\ ~(systick_pending /\ ~primask)
          /\ UNCHANGED <<current_task, cpu, primask, pendsv_pending, schedules,
                         systick_pending, info>>
      BY <1>3
      DEF IdleWaits, Executes, ThreadExecutes, TickIsTaken, vars, identity,
          hardware
    <2>2. ~primask /\ ~pendsv_pending /\ ~systick_pending
      BY <2>1 DEF SleepInv
    <2>3. /\ at' = [id \in TaskIds |-> at'[id]]
          /\ \A id \in Roles : at'[id] = at[id]
      BY <1>3, RoleIds DEF IdleWaits, Goes, SleepInv
    <2> QED BY <2>1, <2>2, <2>3, RoleIds DEF SleepInv, Fresh
  <1> QED BY <1>1, <1>2, <1>3 DEF Harness

\* The idle hook is no look.
LEMMA SleepHookStep ==
    ASSUME SleepInv, SignalHook
    PROVE  SleepInv'
  <1>1. UNCHANGED <<current_task, cpu, primask, pendsv_pending, schedules,
                    systick_pending, asleep, info>>
    BY DEF SignalHook, IdleHook, kernel_state, identity, hardware
  <1>2. at' = at \/ at' = [at EXCEPT ![OS_TASK_ID_IDLE] = "wfi"]
    BY DEF SignalHook, IdleHook, Requires, Goes
  <1>3. /\ at' = [id \in TaskIds |-> at'[id]]
        /\ \A id \in Roles : at'[id] = at[id]
    BY <1>2, RoleIds DEF SleepInv
  <1> QED BY <1>1, <1>3 DEF SleepInv, Fresh

\* No tick is slept through (wait_for_one_execution_tick), in the build of the
\* signal laboratory.
THEOREM NoTickSleptThroughSafe == LabsSpec => []NoTickSleptThrough
  <1> DEFINE Inv == Signal => SleepInv
  <1>1. LabsInit => Inv
    BY SleepInit
  <1>2. Inv /\ [Threads \/ Environment]_labs_vars => Inv'
    <2> SUFFICES ASSUME Inv, [Threads \/ Environment]_labs_vars, Signal'
                 PROVE  SleepInv'
      OBVIOUS
    <2>1. Signal /\ SleepInv
      BY SameApplication DEF Signal
    <2>2. CASE Threads \/ Environment
      <3>1. SignalNext
        BY <2>1, <2>2, SignalOnly
      <3> QED BY <2>1, <3>1, SleepRoleStep, SleepEnvironmentStep, SleepHookStep
              DEF SignalNext, SignalStep
    <2>3. CASE UNCHANGED labs_vars
      BY <2>1, <2>3
      DEF labs_vars, lab_vars, vars, identity, hardware, SleepInv, Fresh
    <2> QED BY <2>2, <2>3
  <1>3. Inv => NoTickSleptThrough
    BY DEF Signal, SleepInv, Fresh, NoTickSleptThrough
  <1> HIDE DEF Inv
  <1> QED BY <1>1, <1>2, <1>3, PTL DEF LabsSpec

----------------------------------------------------------------------------
\* The buffers.

\* A frame's turn lasts from the first access to the last.
TurnInv ==
    /\ at = [id \in TaskIds |-> at[id]]
    /\ frame \in [Roles -> 0 .. FRAME_COUNT - 1]
    /\ generation \in [Roles -> Nat]
    /\ \A id \in Roles : at[id] = "work" => InTurn(id)

LEMMA TurnInit == LabsInit => TurnInv
  BY RoleIds
  DEF LabsInit, LabInit, SignalInit, TurnInv, FRAME_COUNT, OS_TASK_ID_IDLE

\* Only one role at a time can have its turn.
LEMMA OneTurn ==
    ASSUME TurnInv, NEW id \in Roles, NEW other \in Roles,
           InTurn(id), InTurn(other)
    PROVE  id = other
  <1>1. /\ generation[1] = frame[id] + (IF 1 < id THEN 1 ELSE 0)
        /\ generation[2] = frame[id] + (IF 2 < id THEN 1 ELSE 0)
        /\ generation[3] = frame[id] + (IF 3 < id THEN 1 ELSE 0)
        /\ generation[1] = frame[other] + (IF 1 < other THEN 1 ELSE 0)
        /\ generation[2] = frame[other] + (IF 2 < other THEN 1 ELSE 0)
        /\ generation[3] = frame[other] + (IF 3 < other THEN 1 ELSE 0)
    BY RoleIds DEF InTurn
  <1>2. frame[id] \in Nat /\ frame[other] \in Nat
    BY DEF TurnInv, FRAME_COUNT
  <1>3. id \in {1, 2, 3} /\ other \in {1, 2, 3}
    BY RoleIds
  <1> QED BY <1>1, <1>2, <1>3

\* What the steps that are not about the buffers leave alone.
LEMMA OutsideBuffers ==
    ASSUME TurnInv,
           \/ Harness /\ UNCHANGED signal_vars
           \/ SignalHook
           \/ \E id \in Roles : \/ MasksInterrupts(id) \/ SamplesInfo(id)
                               \/ WaitsForInterrupt(id)
                               \/ RestoresInterrupts(id) \/ EndsFrame(id)
    PROVE  /\ generation' = generation
           /\ at' = [id \in TaskIds |-> at'[id]]
           /\ \A id \in Roles : at'[id] = "work" <=> at[id] = "work"
           /\ \A id \in Roles : at[id] = "work" => frame'[id] = frame[id]
           /\ frame' \in [Roles -> 0 .. FRAME_COUNT - 1]
  <1>1. generation' = generation
    BY DEF SignalHook, MasksInterrupts, SamplesInfo, WaitsForInterrupt,
           RestoresInterrupts, EndsFrame, signal_vars
  <1>2. CASE Harness /\ UNCHANGED signal_vars
    <2>1. frame' = frame
      BY <1>2 DEF signal_vars
    <2>2. \/ at' = at
          \/ \E id \in TaskIds, place \in {"gone", "job", "hook", "wfi"} :
                at[id] \in {"return", "period", "wfi"}
                  /\ at' = [at EXCEPT ![id] = place]
      <3>1. UserTasks \subseteq TaskIds
        BY SchedulerConstants DEF UserTasks, TaskIds
      <3>2. CASE IdleWaits
        BY <3>2, RoleIds DEF IdleWaits, Executes, Goes
      <3>3. CASE \E id \in UserTasks : TaskReturns(id) \/ TaskWaits(id)
        BY <3>1, <3>3 DEF TaskReturns, TaskWaits, Calls, Executes, Goes
      <3>4. CASE \/ MainCreates \/ MainStarts \/ TimerElapses
                 \/ SysTick_Handler \/ SwitchStep
        BY <3>4
        DEF MainCreates, MainStarts, TimerElapses, SysTick_Handler, SwitchStep,
            lab_vars
      <3> QED BY <1>2, <3>2, <3>3, <3>4 DEF Harness
    <2> QED BY <1>1, <2>1, <2>2, RoleIds DEF TurnInv
  <1>3. CASE SignalHook
    <2>1. frame' = frame
      BY <1>3 DEF SignalHook, signal_vars
    <2>2. at' = at \/ at' = [at EXCEPT ![OS_TASK_ID_IDLE] = "wfi"]
      BY <1>3 DEF SignalHook, IdleHook, Requires, Goes
    <2> QED BY <1>1, <2>1, <2>2, RoleIds DEF TurnInv
  <1>4. ASSUME NEW id \in Roles,
               \/ MasksInterrupts(id) \/ SamplesInfo(id)
               \/ WaitsForInterrupt(id) \/ RestoresInterrupts(id)
               \/ EndsFrame(id)
        PROVE  /\ at' = [other \in TaskIds |-> at'[other]]
               /\ \A other \in Roles : at'[other] = "work"
                                       <=> at[other] = "work"
               /\ \A other \in Roles : at[other] = "work" =>
                                        frame'[other] = frame[other]
               /\ frame' \in [Roles -> 0 .. FRAME_COUNT - 1]
    <2>1. /\ at[id] # "work" /\ id \in TaskIds
          /\ at' = at \/ \E place : place # "work"
                                     /\ at' = [at EXCEPT ![id] = place]
      <3>1. id \in TaskIds
        BY RoleIds
      <3>2. at[id] # "work"
        BY <1>4
        DEF MasksInterrupts, SamplesInfo, WaitsForInterrupt,
            RestoresInterrupts, EndsFrame, Executes
      <3>3. at' = at \/ \E place : place # "work"
                                   /\ at' = [at EXCEPT ![id] = place]
        BY <1>4
        DEF MasksInterrupts, SamplesInfo, WaitsForInterrupt,
            RestoresInterrupts, EndsFrame, Goes, Requires
      <3> QED BY <3>1, <3>2, <3>3
    <2>2. \/ frame' = frame
          \/ frame[id] + 1 # FRAME_COUNT
               /\ frame' = [frame EXCEPT ![id] = @ + 1]
      <3>1. CASE EndsFrame(id)
        <4>1. frame' = [frame EXCEPT ![id] = IF frame[id] + 1 = FRAME_COUNT
                                             THEN @ ELSE @ + 1]
          BY <3>1 DEF EndsFrame
        <4> QED BY <4>1 DEF TurnInv
      <3>2. CASE \/ MasksInterrupts(id) \/ SamplesInfo(id)
                 \/ WaitsForInterrupt(id) \/ RestoresInterrupts(id)
        BY <3>2
        DEF MasksInterrupts, SamplesInfo, WaitsForInterrupt,
            RestoresInterrupts, signal_vars
      <3> QED BY <1>4, <3>1, <3>2
    <2>3. frame' \in [Roles -> 0 .. FRAME_COUNT - 1]
      BY <2>2 DEF TurnInv, FRAME_COUNT
    <2>4. \A other \in Roles : other # id => frame'[other] = frame[other]
      BY <2>2 DEF TurnInv
    <2> QED BY <2>1, <2>3, <2>4, RoleIds DEF TurnInv
  <1> QED BY <1>1, <1>2, <1>3, <1>4

\* What Pipeline sees of the laboratory.
Passed == generation[1] + generation[2] + generation[3]
Busy == IF application = "signal_lab" THEN {role \in Roles : at[role] = "work"}
        ELSE {}

\* Where the pipeline is at a role's turn.
LEMMA TurnPassed ==
    ASSUME TurnInv, NEW id \in Roles, InTurn(id)
    PROVE  /\ Passed \in Nat /\ Passed < 3 * FRAME_COUNT
           /\ (Passed % 3) + 1 = id
           /\ generation[id] = frame[id]
           /\ frame[id] \in 0 .. 3
  <1>1. frame[id] \in 0 .. 3
    BY DEF TurnInv, FRAME_COUNT
  <1>2. /\ generation[1] = frame[id] + (IF 1 < id THEN 1 ELSE 0)
        /\ generation[2] = frame[id] + (IF 2 < id THEN 1 ELSE 0)
        /\ generation[3] = frame[id] + (IF 3 < id THEN 1 ELSE 0)
    BY RoleIds DEF InTurn
  <1>3. id \in {1, 2, 3}
    BY RoleIds
  <1>4. Passed = 3 * frame[id] + (id - 1)
    BY <1>1, <1>2, <1>3 DEF Passed
  <1>5. generation[id] = frame[id]
    BY <1>1, <1>2, <1>3
  <1>6. Passed \in Nat /\ Passed < 12
    BY <1>1, <1>3, <1>4
  <1>7. (Passed % 3) + 1 = id
    BY <1>1, <1>3, <1>4
  <1> QED BY <1>1, <1>5, <1>6, <1>7 DEF FRAME_COUNT

\* While a role works on the buffers no other does.
LEMMA AloneAtWork ==
    ASSUME Signal, TurnInv, NEW id \in Roles, InTurn(id)
    PROVE  Busy = IF at[id] = "work" THEN {id} ELSE {}
  <1>1. \A other \in Roles : at[other] = "work" => other = id
    BY OneTurn DEF TurnInv
  <1> QED BY <1>1 DEF Busy, Signal

\* A role that begins a frame enters; one that may not, because it is not its
\* turn, or because the verifier finds a wrong checksum, does nothing.
LEMMA BeginEnters ==
    ASSUME Signal, TurnInv, NEW id \in Roles, BeginsFrame(id)
    PROVE  /\ TurnInv'
           /\ \/ /\ Busy = {} /\ Passed < 3 * FRAME_COUNT
                 /\ Busy' = {(Passed % 3) + 1} /\ Passed' = Passed
              \/ Busy' = Busy /\ Passed' = Passed
  <1>1. /\ generation' = generation /\ frame' = frame
        /\ application' = application /\ at[id] = "job" /\ id \in TaskIds
        /\ \/ InTurn(id) /\ at' = [at EXCEPT ![id] = "work"]
           \/ at' = at
    BY RoleIds DEF BeginsFrame, Requires, Goes, Executes
  <1>2. Passed' = Passed /\ \A role \in Roles : InTurn(role)' <=> InTurn(role)
    BY <1>1 DEF Passed, InTurn
  <1>3. CASE at' = at
    BY <1>1, <1>2, <1>3 DEF TurnInv, Busy
  <1>4. CASE InTurn(id) /\ at' = [at EXCEPT ![id] = "work"]
    <2>1. Busy = {} /\ Passed < 3 * FRAME_COUNT /\ (Passed % 3) + 1 = id
      BY <1>1, <1>4, AloneAtWork, TurnPassed
    <2>2. TurnInv'
      BY <1>1, <1>2, <1>4, RoleIds DEF TurnInv
    <2>3. Busy' = {id}
      <3>1. \A other \in Roles : at[other] # "work"
        BY <2>1 DEF Busy, Signal
      <3>2. \A other \in Roles : at'[other] = "work" <=> other = id
        BY <1>1, <1>4, <3>1, RoleIds DEF TurnInv
      <3> QED BY <1>1, <3>2 DEF Busy, Signal
    <2> QED BY <1>2, <2>1, <2>2, <2>3
  <1> QED BY <1>1, <1>3, <1>4

\* A role that publishes its frame leaves.
LEMMA PublishLeaves ==
    ASSUME Signal, TurnInv, NEW id \in Roles, PublishesFrame(id)
    PROVE  /\ TurnInv'
           /\ Busy = {(Passed % 3) + 1} /\ Busy' = {} /\ Passed' = Passed + 1
  <1>1. /\ frame' = frame /\ application' = application
        /\ at[id] = "work" /\ at' = [at EXCEPT ![id] = "mask"]
        /\ generation' = [generation EXCEPT ![id] = frame[id] + 1]
        /\ id \in TaskIds
    BY RoleIds DEF PublishesFrame, Goes, Executes
  <1>2. InTurn(id)
    BY <1>1 DEF TurnInv
  <1>3. Busy = {id} /\ (Passed % 3) + 1 = id /\ generation[id] = frame[id]
        /\ frame[id] \in 0 .. 3
    BY <1>1, <1>2, AloneAtWork, TurnPassed
  <1>4. \A role \in Roles : at'[role] # "work"
    BY <1>1, <1>3, RoleIds DEF Busy, Signal, TurnInv
  <1>5. Busy' = {}
    BY <1>4 DEF Busy
  <1>6. generation' \in [Roles -> Nat]
    BY <1>1, <1>3 DEF TurnInv
  <1>7. TurnInv'
    BY <1>1, <1>4, <1>6 DEF TurnInv
  <1>8. Passed' = Passed + 1
    BY <1>1, <1>3, RoleIds DEF Passed, TurnInv
  <1> QED BY <1>3, <1>5, <1>7, <1>8

\* Every step of the signal laboratory enters, leaves or does neither.
LEMMA PipelineStep ==
    ASSUME Signal => TurnInv, [Threads \/ Environment]_labs_vars
    PROVE  /\ (Signal => TurnInv)'
           /\ \/ /\ Busy = {} /\ Passed < 3 * FRAME_COUNT
                 /\ Busy' = {(Passed % 3) + 1} /\ Passed' = Passed
              \/ /\ Busy = {(Passed % 3) + 1} /\ Busy' = {}
                 /\ Passed' = Passed + 1
              \/ Busy' = Busy /\ Passed' = Passed
  <1>1. application' = application
    BY SameApplication
  <1>2. CASE UNCHANGED labs_vars
    <2>1. UNCHANGED <<generation, frame, at>>
      BY <1>2 DEF labs_vars, lab_vars, signal_vars
    <2> QED BY <1>1, <2>1 DEF Signal, TurnInv, InTurn, Busy, Passed
  <1>3. CASE ~Signal /\ (Threads \/ Environment)
    <2>1. UNCHANGED signal_vars
      BY <1>3 DEF Signal, Threads, Environment
    <2> QED BY <1>1, <1>3, <2>1 DEF Signal, Busy, Passed, signal_vars
  <1>4. CASE Signal /\ (Threads \/ Environment)
    <2>1. SignalNext /\ TurnInv
      BY <1>4, SignalOnly
    <2>2. CASE \E id \in Roles : BeginsFrame(id)
      BY <1>4, <2>1, <2>2, BeginEnters
    <2>3. CASE \E id \in Roles : PublishesFrame(id)
      BY <1>4, <2>1, <2>3, PublishLeaves
    <2>4. CASE \/ Harness /\ UNCHANGED signal_vars
               \/ SignalHook
               \/ \E id \in Roles : \/ MasksInterrupts(id) \/ SamplesInfo(id)
                                   \/ WaitsForInterrupt(id)
                                   \/ RestoresInterrupts(id) \/ EndsFrame(id)
      <3>1. /\ generation' = generation
            /\ at' = [id \in TaskIds |-> at'[id]]
            /\ \A id \in Roles : at'[id] = "work" <=> at[id] = "work"
            /\ \A id \in Roles : at[id] = "work" => frame'[id] = frame[id]
            /\ frame' \in [Roles -> 0 .. FRAME_COUNT - 1]
        BY <2>1, <2>4, OutsideBuffers
      <3>2. Busy' = Busy /\ Passed' = Passed
        BY <1>1, <3>1 DEF Busy, Passed
      <3>3. \A id \in Roles : at'[id] = "work" => InTurn(id)'
        BY <2>1, <3>1 DEF TurnInv, InTurn
      <3> QED BY <2>1, <3>1, <3>2, <3>3 DEF TurnInv
    <2> QED BY <2>1, <2>2, <2>3, <2>4 DEF SignalNext, SignalStep
  <1> QED BY <1>2, <1>3, <1>4

\* The buffers are handed over frame by frame, whatever the timing, without a
\* lock: the laboratory implements Pipeline (the generation checks of
\* sampler_task, processor_task and verifier_task).
THEOREM PipelineImplemented == LabsSpec => ImplementsPipeline
  <1> DEFINE Inv == Signal => TurnInv
  <1>1. LabsInit => Inv /\ Buffers!Init
    <2> SUFFICES ASSUME LabsInit PROVE TurnInv /\ Passed = 0 /\ Busy = {}
      BY DEF Buffers!Init, Passed, Busy
    <2>1. TurnInv
      BY TurnInit
    <2>2. Passed = 0
      BY RoleIds DEF LabsInit, SignalInit, Passed
    <2>3. Busy = {}
      BY RoleIds DEF LabsInit, LabInit, Busy
    <2> QED BY <2>1, <2>2, <2>3
  <1>2. Inv /\ [Threads \/ Environment]_labs_vars
          => Inv' /\ [Buffers!Enter \/ Buffers!Leave]_Buffers!vars
    <2> SUFFICES ASSUME Inv, [Threads \/ Environment]_labs_vars
                 PROVE  Inv' /\ [Buffers!Enter \/ Buffers!Leave]_Buffers!vars
      OBVIOUS
    <2>1. /\ Inv'
          /\ \/ /\ Busy = {} /\ Passed < 3 * FRAME_COUNT
                /\ Busy' = {(Passed % 3) + 1} /\ Passed' = Passed
             \/ /\ Busy = {(Passed % 3) + 1} /\ Busy' = {}
                /\ Passed' = Passed + 1
             \/ Busy' = Busy /\ Passed' = Passed
      BY PipelineStep
    <2> QED BY <2>1
            DEF Buffers!Enter, Buffers!Leave, Buffers!NextStage, Buffers!vars,
                Passed, Busy
  <1> HIDE DEF Inv
  <1> QED BY <1>1, <1>2, PTL DEF LabsSpec, ImplementsPipeline, Buffers!Spec
=============================================================================
