-------------------------------- MODULE Labs --------------------------------
(* The applications on the kernel, one of them built. *)
EXTENDS SignalLab, DeadlineLab, TraceLab, Scenarios

labs_vars == <<vars, lab_vars, signal_vars, deadline_vars, scenario_vars>>

Threads ==
    \/ /\ application = "signal_lab"
       /\ SignalStep
       /\ UNCHANGED <<deadline_vars, scenario_vars>>
    \/ /\ application \in {"deadline_lab", "overload_lab"}
       /\ DeadlineStep
       /\ UNCHANGED <<signal_vars, scenario_vars>>
    \/ /\ application = "trace"
       /\ TraceStep
       /\ UNCHANGED <<signal_vars, deadline_vars, scenario_vars>>
    \/ ScenarioStep /\ UNCHANGED <<signal_vars, deadline_vars>>

Environment ==
    Harness /\ UNCHANGED <<signal_vars, deadline_vars, scenario_vars>>

LabsInit == LabInit /\ SignalInit /\ DeadlineInit /\ ScenarioInit

LabsSpec ==
    /\ LabsInit
    /\ [][Threads \/ Environment]_labs_vars
    /\ WF_labs_vars(Threads)
    /\ WF_labs_vars(Environment)

\* Every require of the applications holds, to the last one in the idle hook,
\* wherever the first ticks fall and wherever in a job its ticks fall, as long
\* as the code keeps its time budgets.
RequirementsHold == late = 0 => panics = {}

\* Whatever the timing, an application ends: with its report, or with a failed
\* requirement.  No task waits in WFI, and no completion goes unseen by the
\* idle hook, for ever.
LabsEnd == <>(trace_flushed \/ panics # {})
=============================================================================
