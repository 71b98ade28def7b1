------------------------------ MODULE MCKernel ------------------------------
(* Instances of the kernel for TLC. *)
EXTENDS KernelInvariant

OneShot(delay, deadline, priority) ==
    [kind |-> "ONE_SHOT", initial_release_delay_ticks |-> delay,
     period_ticks |-> 0, relative_deadline_ticks |-> deadline,
     priority |-> priority]

PeriodicTask(delay, period, deadline, priority) ==
    [kind |-> "PERIODIC", initial_release_delay_ticks |-> delay,
     period_ticks |-> period, relative_deadline_ticks |-> deadline,
     priority |-> priority]

\* A short period, a delayed and less urgent period, and a background task.
MixedConfigs == {PeriodicTask(0, 2, 1, 1), PeriodicTask(1, 2, 2, 1),
                 OneShot(0, 4, 2)}

\* A task released later with a short deadline, and equal deadlines told apart
\* by priority.
UrgencyConfigs == {OneShot(1, 1, 2), OneShot(0, 3, 2), OneShot(0, 3, 1)}

\* Two tasks that compete, for the liveness properties.
LiveConfigs == {PeriodicTask(0, 2, 2, 1), OneShot(0, 2, 2)}

\* Next to valid configurations, ones os_sched_config_valid rejects: a deadline
\* after the next release, and a release whose deadline is out of range.
EdgeConfigs == {PeriodicTask(0, 2, 2, 1), OneShot(2, 1, 1),
                PeriodicTask(0, 1, 2, 1), OneShot(2, 2, 1)}
=============================================================================
