---------------------------- MODULE MCKernelTrace ----------------------------
(* Instances of the kernel with its trace for TLC. *)
EXTENDS KernelTrace

OneShot(delay, deadline, priority) ==
    [kind |-> "ONE_SHOT", initial_release_delay_ticks |-> delay,
     period_ticks |-> 0, relative_deadline_ticks |-> deadline,
     priority |-> priority]

PeriodicTask(delay, period, deadline, priority) ==
    [kind |-> "PERIODIC", initial_release_delay_ticks |-> delay,
     period_ticks |-> period, relative_deadline_ticks |-> deadline,
     priority |-> priority]

\* A periodic task and a background task of another priority with the same
\* deadline.
TraceConfigs == {PeriodicTask(0, 2, 1, 1), OneShot(1, 1, 2)}
=============================================================================
