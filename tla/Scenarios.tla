----------------------------- MODULE Scenarios -----------------------------
(***************************************************************************)
(* The three applications that are built without a trace:                  *)
(* apps/edf/main.c, an urgent periodic task preempts a relaxed one;        *)
(* apps/lifecycle/main.c, two tasks yield to each other, then one sleeps   *)
(* and preempts the other when it wakes; apps/allocator/main.c, a manager  *)
(* creates one worker after another in the same slot, and each leaves      *)
(* blocks behind.                                                          *)
(*                                                                         *)
(* Blocks are counted; what the calls do to the heap is Allocator's.  The  *)
(* calls the applications expect to be refused are left out.               *)
(***************************************************************************)
EXTENDS Lab

VARIABLES
    iteration,                      \* manager_task's loop counter
    worker_completed_iteration

scenario_vars == <<iteration, worker_completed_iteration>>

ScenarioInit == iteration = 1 /\ worker_completed_iteration = 0

----------------------------------------------------------------------------
\* apps/edf/main.c

URGENT == 1
RELAXED == 2

JobAsExpected(id, sequence, release, deadline) ==
    LET task_info == schedules[id] IN
    /\ task_info.state = "RUNNING" /\ task_info.job_active
    /\ task_info.deadline_miss_count = 0
    /\ task_info.job_sequence = sequence
    /\ task_info.release_order = release
    /\ task_info.absolute_deadline_order = deadline

relaxed_running == at[RELAXED] # "job"

urgent_task ==
    \/ Asserts(URGENT, "job",
               /\ relaxed_running
               /\ JobAsExpected(URGENT, 1, 5, 15)
               /\ schedules[URGENT].next_release_order = 20,
               "URGENT_PERIOD_1", "wait")
    \/ Calls(URGENT, "wait", SvcWaitNextPeriod, "second")
    \/ Asserts(URGENT, "second",
               /\ JobAsExpected(URGENT, 2, 20, 30)
               /\ schedules[URGENT].completed_job_count = 1,
               "URGENT_PERIOD_2", "finish")
    \/ Finishes(URGENT, "finish", URGENT)

relaxed_task ==
    \/ Asserts(RELAXED, "job", JobAsExpected(RELAXED, 1, 0, 50),
               "RELAXED_TIMING", "poll")
    \/ /\ URGENT \in finished
       /\ Asserts(RELAXED, "poll",
                  Reclaimed(1, URGENT) /\ JobAsExpected(RELAXED, 1, 0, 50),
                  "RELAXED_RESUME", "return")

EdfStep ==
    \/ urgent_task \/ relaxed_task
    \/ IdleHook(TRUE, Reclaimed(2, RELAXED))

----------------------------------------------------------------------------
\* apps/lifecycle/main.c, with the loops of register_probe.S

LIFECYCLE_A == 1
LIFECYCLE_B == 2
PREEMPT_SLEEP_TICKS == 50

task_b_waiting == at[LIFECYCLE_B] \notin {"job", "resumed"}

lifecycle_task_a ==
    \/ Calls(LIFECYCLE_A, "job", SvcYield, "resumed")
    \/ Calls(LIFECYCLE_A, "resumed", SvcSleep(PREEMPT_SLEEP_TICKS), "woken")
    \/ Asserts(LIFECYCLE_A, "woken", task_b_waiting, "NO_PREEMPT", "return")

lifecycle_task_b ==
    \/ Calls(LIFECYCLE_B, "job", SvcYield, "resumed")
    \/ Calls(LIFECYCLE_B, "resumed", NoCall, "poll")
    \/ /\ reclaim_counter # 0
       /\ Asserts(LIFECYCLE_B, "poll", Reclaimed(1, LIFECYCLE_A), "RECLAIM_A",
                  "return")

LifecycleStep ==
    \/ lifecycle_task_a \/ lifecycle_task_b
    \/ IdleHook(TRUE, Reclaimed(2, LIFECYCLE_B))

----------------------------------------------------------------------------
\* apps/allocator/main.c

MANAGER == 1
WORKER == 2
ALLOCATOR_ITERATIONS == 8
WORKER_DEADLINE == 100

\* The worker has run to its end inside os_task_create, and what it has left
\* allocated is free again.
WorkerIsGone ==
    /\ worker_completed_iteration = iteration
    /\ Reclaimed(iteration, WORKER)
    /\ schedules[WORKER].state = "DORMANT"
    /\ HeapUsed = {<<MANAGER, 1>>}

manager_task ==
    \/ /\ \/ Calls(MANAGER, "job", os_memory_alloc, "loop")
          \/ CreatesTask(MANAGER, "loop", one_shot(WORKER_DEADLINE, 1),
                         WORKER, "worker", "created")
          \/ Calls(MANAGER, "free", os_memory_free, "return")
       /\ UNCHANGED iteration
    \/ /\ Asserts(MANAGER, "created", WorkerIsGone, "WORKER_RECLAIM",
                  IF iteration < ALLOCATOR_ITERATIONS THEN "loop" ELSE "free")
       /\ iteration' = iteration + 1

worker_task ==
    \/ /\ \/ Calls(WORKER, "worker", os_memory_alloc, "middle")
          \/ Calls(WORKER, "middle", os_memory_alloc, "last")
          \/ Calls(WORKER, "last", os_memory_alloc, "free")
          \/ Calls(WORKER, "free", os_memory_free, "complete")
       /\ UNCHANGED worker_completed_iteration
    \/ /\ Calls(WORKER, "complete", NoCall, "return")
       /\ worker_completed_iteration' = iteration

AllocatorStep ==
    \/ manager_task /\ UNCHANGED worker_completed_iteration
    \/ worker_task /\ UNCHANGED iteration
    \/ IdleHook(TRUE, Reclaimed(ALLOCATOR_ITERATIONS + 1, MANAGER)
                        /\ HeapUsed = {})
         /\ UNCHANGED scenario_vars

ScenarioStep ==
    \/ application = "edf" /\ EdfStep /\ UNCHANGED scenario_vars
    \/ application = "lifecycle" /\ LifecycleStep /\ UNCHANGED scenario_vars
    \/ application = "allocator" /\ AllocatorStep
=============================================================================
