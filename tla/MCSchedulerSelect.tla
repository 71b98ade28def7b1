------------------------- MODULE MCSchedulerSelect -------------------------
(* Every table of three user tasks over two deadlines and two priorities. *)
EXTENDS SchedulerSelect

Ready(deadline, priority) ==
    [ResetTask EXCEPT !.state = "READY", !.job_active = TRUE,
                      !.absolute_deadline_order = deadline,
                      !.priority = priority]

Sleeping == [Ready(1, 1) EXCEPT !.state = "SLEEPING"]

AllTables ==
    {[id \in TaskIds |->
        IF id = OS_TASK_ID_IDLE THEN [ResetTask EXCEPT !.state = idle]
        ELSE users[id]] :
       idle \in {"READY", "RUNNING"},
       users \in [UserTasks -> {Ready(d, p) : d, p \in 1 .. 2}
                               \cup {Sleeping, ResetTask}]}
=============================================================================
