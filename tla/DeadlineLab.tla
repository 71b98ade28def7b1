---------------------------- MODULE DeadlineLab ----------------------------
(***************************************************************************)
(* apps/deadline_lab/main.c: three periodic tasks and a one-shot load,     *)
(* which the overload build lets run past its deadline.  All of them run   *)
(* workload_task, which polls os_task_info and does one round of work for  *)
(* each tick its job has been charged.                                     *)
(*                                                                         *)
(* The results of the work are left out, except that a task which worked   *)
(* has left one: xorshift takes no nonzero value to zero.                  *)
(***************************************************************************)
EXTENDS Lab

TASK_TELEMETRY == 3
TASK_LOAD == 4
DeadlineRoles == 1 .. TASK_LOAD

VARIABLES
    completed,          \* consume_execution's count for the job
    jobs_completed,
    worked              \* sensor_sample, control_output, telemetry_digest

deadline_vars == <<completed, jobs_completed, worked>>

DeadlineInit ==
    /\ completed = [id \in DeadlineRoles |-> 0]
    /\ jobs_completed = [id \in DeadlineRoles |-> 0]
    /\ worked = {}

\* consume_execution: one look at the job.
PollsExecution(id) ==
    /\ Executes(id, "job")
    /\ info' = [info EXCEPT ![id] = os_task_info(id)]
    /\ Requires(id, os_task_info(id).job_active, "EXECUTION_INFO",
                IF completed[id] < os_task_info(id).job_execution_ticks
                THEN "work" ELSE "job")
    /\ UNCHANGED <<kernel_state, application, late, systick_pending, asleep,
                   finished, trace_flushed, deadline_vars>>

\* perform_work, until the ticks seen or the job's ticks are used up.
perform_work(id) ==
    LET done == completed[id] + 1
        place == CASE done = Workload[id].execution -> "account"
                   [] done < Workload[id].execution
                        /\ done < info[id].job_execution_ticks -> "work"
                   [] OTHER -> "job"
    IN
    /\ Executes(id, "work")
    /\ completed' = [completed EXCEPT ![id] = done]
    /\ worked' = worked \cup {id}
    /\ Goes(id, place)
    /\ UNCHANGED <<vars, application, late, systick_pending, asleep, info,
                   finished, trace_flushed, jobs_completed>>

\* The look that a completed job is judged by.
AccountsJob(id) ==
    LET now == os_task_info(id) IN
    /\ Executes(id, "account")
    /\ info' = [info EXCEPT ![id] = now]
    /\ Requires(id, now.job_active /\ now.state = "RUNNING", "TASK_INFO",
                "judge")
    /\ jobs_completed' = [jobs_completed EXCEPT ![id] = @ + 1]
    /\ UNCHANGED <<kernel_state, application, late, systick_pending, asleep,
                   finished, trace_flushed, completed, worked>>

\* OVERLOAD_MISS and NORMAL_LOAD: the load ends at its tick, with the miss the
\* build is for.
LoadAsPlanned ==
    IF application = "overload_lab"
    THEN info[TASK_LOAD].deadline_miss_count = 1 /\ monotonic_ticks = 12
    ELSE info[TASK_LOAD].deadline_miss_count = 0 /\ monotonic_ticks = 4

EndsJob(id) ==
    LET last == jobs_completed[id] = Workload[id].jobs
        judged == IF last THEN id = TASK_LOAD => LoadAsPlanned
                  ELSE info[id].deadline_miss_count = 0
    IN
    /\ Executes(id, "judge")
    /\ Requires(id, judged, IF last THEN "LOAD" ELSE "WAIT_PERIOD",
                IF last THEN "return" ELSE "period")
    /\ finished' = IF judged /\ last THEN finished \cup {id} ELSE finished
    /\ completed' = [completed EXCEPT ![id] = 0]
    /\ UNCHANGED <<kernel_state, application, late, systick_pending, asleep,
                   info, trace_flushed, jobs_completed, worked>>

DeadlineHook ==
    /\ IdleHook(AllFinished,
                Completed(TASK_TELEMETRY)
                  /\ DeadlineRoles \ {TASK_LOAD} \subseteq worked)
    /\ UNCHANGED deadline_vars

DeadlineStep ==
    \/ \E id \in DeadlineRoles :
          \/ PollsExecution(id) \/ perform_work(id)
          \/ AccountsJob(id) \/ EndsJob(id)
    \/ DeadlineHook
=============================================================================
