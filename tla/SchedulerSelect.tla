-------------------------- MODULE SchedulerSelect --------------------------
(***************************************************************************)
(* The scan of os_sched_select (kernel/src/scheduler.c), turn by turn, over *)
(* any task table: it is compared with the definition the kernel model     *)
(* uses, Scheduler!os_sched_select.  The table does not change meanwhile:  *)
(* both callers hold off every other writer (SysTick's handler, PendSV     *)
(* under PRIMASK).                                                         *)
(***************************************************************************)
EXTENDS Scheduler

CONSTANT Tables     \* the task tables the scan is run on

ASSUME TablesAssumption == Tables \subseteq [TaskIds -> SchedTask]

VARIABLES table, excluded, index, best

vars == <<table, excluded, index, best>>

Init ==
    /\ table \in Tables
    /\ excluded \in TaskIdsOrInvalid
    /\ index = 1
    /\ best = OS_TASK_ID_INVALID

Skipped == index = excluded \/ ~IsReady(table[index])

\* Mutant: the deadline alone decides, and a tie goes to the later task.
ReplacesBestOnTie ==
    \/ best = OS_TASK_ID_INVALID
    \/ table[index].absolute_deadline_order
         <= table[best].absolute_deadline_order

ReplacesBest ==
    \/ best = OS_TASK_ID_INVALID
    \/ os_sched_outranks(table, index, best)

\* One turn of the loop over the user tasks.
ScanTask ==
    /\ index \in UserTasks
    /\ best' = IF ~Skipped /\ ReplacesBest THEN index ELSE best
    /\ index' = index + 1
    /\ UNCHANGED <<table, excluded>>

\* After the loop: the excluded task if it alone is ready, then idle.
FallBack ==
    /\ index = OS_MAX_USER_TASKS + 1
    /\ best' =
         IF best # OS_TASK_ID_INVALID THEN best
         ELSE IF excluded \in UserTasks /\ IsReady(table[excluded])
         THEN excluded
         ELSE IF table[OS_TASK_ID_IDLE].state = "READY" THEN OS_TASK_ID_IDLE
         ELSE OS_TASK_ID_INVALID
    /\ index' = index + 1
    /\ UNCHANGED <<table, excluded>>

Returned == index = OS_MAX_USER_TASKS + 2 /\ UNCHANGED vars

Next == ScanTask \/ FallBack \/ Returned

Spec == Init /\ [][Next]_vars

----------------------------------------------------------------------------

TypeOK ==
    /\ table \in [TaskIds -> SchedTask]
    /\ excluded \in TaskIdsOrInvalid
    /\ index \in 1 .. OS_MAX_USER_TASKS + 2
    /\ best \in TaskIdsOrInvalid

ScannedReady == {c \in UserTasks : c < index /\ c # excluded
                                     /\ IsReady(table[c])}

\* The key the documentation orders jobs by: deadline, then priority, then id.
LexLess(c, d) ==
    LET key(t) == <<table[t].absolute_deadline_order, table[t].priority, t>>
    IN \E k \in 1 .. 3 : /\ key(c)[k] < key(d)[k]
                         /\ \A j \in 1 .. k - 1 : key(c)[j] = key(d)[j]

\* While the loop of os_sched_select runs, its best is the ready task with the
\* least key among the ones it has passed, whatever their order in the table.
BestSoFar ==
    index <= OS_MAX_USER_TASKS + 1 =>
        IF ScannedReady = {} THEN best = OS_TASK_ID_INVALID
        ELSE /\ best \in ScannedReady
             /\ \A c \in ScannedReady \ {best} : LexLess(best, c)

\* The value os_sched_select returns is the one the kernel model uses.
ScanIsSelect ==
    index = OS_MAX_USER_TASKS + 2 => best = os_sched_select(table, excluded)
=============================================================================
