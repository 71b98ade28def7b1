------------------------------ MODULE TraceLab ------------------------------
(***************************************************************************)
(* apps/trace/main.c: tasks that are made to meet every cause of a switch. *)
(* Task A creates the more urgent D under PRIMASK and waits, still under   *)
(* PRIMASK, for the tick that releases B, so that one PendSV commits both  *)
(* preemptions; E reuses the slot D has left; C runs when A yields.        *)
(***************************************************************************)
EXTENDS Lab

\* Slots, and the numbers of the finished flags; E has the slot of D.
TASK_A == 1
TASK_B == 2
TASK_C == 3
TASK_D == 4
TASK_E == 5
B_RELEASE_DELAY == 1

\* The loop on SCB->ICSR.PENDSTSET ends when the tick is pending.
SpinsForTick ==
    /\ systick_pending
    /\ Calls(TASK_A, "spin", NoCall, "unmask")

SpinsToDeadline ==
    /\ monotonic_ticks >= A_DEADLINE
    /\ Finishes(TASK_A, "poll", TASK_A)

task_a ==
    \/ Calls(TASK_A, "job", os_memory_alloc, "free")
    \/ Calls(TASK_A, "free", os_memory_free, "mask")
    \/ Calls(TASK_A, "mask", DisableInterrupts, "create_d")
    \/ CreatesTask(TASK_A, "create_d", one_shot(5, 128),
                   TASK_D, "task_d", "created_d")
    \/ Asserts(TASK_A, "created_d", primask, "CREATE_D_PRIMASK", "spin")
    \/ SpinsForTick
    \/ Calls(TASK_A, "unmask", EnableInterrupts, "preempted")
    \/ Asserts(TASK_A, "preempted",
               /\ ~primask
               /\ monotonic_ticks = B_RELEASE_DELAY
               /\ TASK_B \notin finished /\ TASK_D \in finished
               /\ Reclaimed(1, TASK_D), "COALESCED_PREEMPT", "create_e")
    \/ CreatesTask(TASK_A, "create_e", delayed_one_shot(3, 20, 128),
                   TASK_D, "task_e", "yield")
    \/ Calls(TASK_A, "yield", SvcYield, "resumed")
    \/ Asserts(TASK_A, "resumed", TASK_C \in finished /\ Reclaimed(2, TASK_C),
               "TASK_A_RESUME", "sleep")
    \/ Calls(TASK_A, "sleep", SvcSleep(7), "woken")
    \/ Asserts(TASK_A, "woken", /\ {TASK_B, TASK_E} \subseteq finished
                                /\ Reclaimed(4, TASK_D), "TASK_A_WAKE", "poll")
    \/ SpinsToDeadline

task_b == \/ Calls(TASK_B, "job", SvcSleep(2), "woken")
          \/ Finishes(TASK_B, "woken", TASK_B)
task_c == Finishes(TASK_C, "job", TASK_C)
task_d == Finishes(TASK_D, "task_d", TASK_D)
task_e == Finishes(TASK_D, "task_e", TASK_E)

TraceHook ==
    IdleHook(TASK_A \in finished,
             /\ finished = TASK_A .. TASK_E
             /\ monotonic_ticks = A_DEADLINE
             /\ Reclaimed(5, TASK_A))

TraceStep == task_a \/ task_b \/ task_c \/ task_d \/ task_e \/ TraceHook
=============================================================================
