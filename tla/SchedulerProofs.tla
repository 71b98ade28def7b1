-------------------------- MODULE SchedulerProofs --------------------------
(***************************************************************************)
(* Lemmas about the scheduling policy: what each operator of Scheduler.tla *)
(* makes of a well-typed task record, and that earliest deadline first     *)
(* always has exactly one best choice.                                     *)
(***************************************************************************)
EXTENDS Scheduler, NaturalsInduction, WellFoundedInduction, TLAPS

----------------------------------------------------------------------------
\* Types.

\* A saturating counter stays in its width (increment_saturating).
LEMMA IncrementType ==
    ASSUME NEW value \in Counts
    PROVE  increment_saturating(value) \in Counts
  BY SchedulerConstants DEF increment_saturating, Counts

\* A freed slot is a well-typed record (os_sched_task_reset).
LEMMA ResetType == ResetTask \in SchedTask
  BY SchedulerConstants
  DEF ResetTask, SchedTask, States, Kinds, Orders, Counts, Intervals

\* Activation stays in the time range or only marks it as exhausted
\* (activate_job).
LEMMA ActivateType ==
    ASSUME NEW task \in SchedTask
    PROVE  activate_job(task) \in SchedTask
  <1>1. CASE ~ActivationFits(task)
    BY <1>1 DEF activate_job, SchedTask
  <1>2. CASE ActivationFits(task)
    <2> DEFINE deadline ==
                   task.release_order + task.relative_deadline_ticks
               following ==
                   IF task.kind = "PERIODIC"
                   THEN task.release_order + task.period_ticks ELSE 0
               sequence == increment_saturating(task.job_sequence)
    <2>1. /\ deadline \in Orders
          /\ following \in Orders
      BY <1>2, SchedulerConstants
      DEF ActivationFits, SchedTask, Orders, Intervals
    <2>2. sequence \in Counts
      BY IncrementType DEF SchedTask
    <2>3. 0 \in Counts
      BY SchedulerConstants DEF Counts
    <2> HIDE DEF deadline, following, sequence
    <2>4. activate_job(task) =
            [task EXCEPT !.absolute_deadline_order = deadline,
                         !.job_execution_ticks = 0,
                         !.deadline_miss_latched = FALSE,
                         !.job_active = TRUE,
                         !.job_sequence = sequence,
                         !.next_release_order = following,
                         !.state = "READY"]
      BY <1>2 DEF activate_job, deadline, following, sequence, SchedTask
    <2> DEFINE timed == [task EXCEPT !.absolute_deadline_order = deadline,
                                     !.job_execution_ticks = 0,
                                     !.deadline_miss_latched = FALSE]
    <2>5. timed \in SchedTask
      BY <2>1, <2>3 DEF SchedTask
    <2> HIDE DEF timed
    <2>6. [timed EXCEPT !.job_active = TRUE, !.job_sequence = sequence,
                        !.next_release_order = following,
                        !.state = "READY"] \in SchedTask
      BY <2>1, <2>2, <2>5 DEF SchedTask, States
    <2> QED BY <2>4, <2>6 DEF timed
  <1> QED BY <1>1, <1>2

\* A configuration that is accepted makes a well-typed record
\* (os_sched_task_configure).
LEMMA ConfigureType ==
    ASSUME NEW config \in TimingConfig, NEW now \in Orders,
           ConfigureAccepts(config, now)
    PROVE  os_sched_task_configure(config, now) \in SchedTask
  <1> DEFINE release == now + config.initial_release_delay_ticks
             configured == [ResetTask EXCEPT
                !.kind = config.kind,
                !.release_order = release,
                !.next_release_order = release,
                !.period_ticks = config.period_ticks,
                !.relative_deadline_ticks = config.relative_deadline_ticks,
                !.priority = config.priority,
                !.state = "WAITING_RELEASE"]
  <1>1. /\ release \in Orders
        /\ config.period_ticks \in Intervals
        /\ config.relative_deadline_ticks \in Intervals
        /\ config.kind \in Kinds
        /\ config.priority \in Nat
    BY SchedulerConstants
    DEF ConfigureAccepts, os_sched_config_valid, TimingConfig, Orders
  <1> HIDE DEF release
  <1>2. configured \in SchedTask
    BY <1>1, ResetType DEF SchedTask, States
  <1>3. activate_job(configured) \in SchedTask
    BY <1>2, ActivateType
  <1>4. os_sched_task_configure(config, now) =
          IF config.initial_release_delay_ticks = 0
          THEN activate_job(configured) ELSE configured
    BY DEF os_sched_task_configure, release
  <1> QED BY <1>2, <1>3, <1>4

\* Completing a job, recording a miss, sleeping and being charged a tick keep
\* a record well-typed.
LEMMA MissType ==
    ASSUME NEW task \in SchedTask, NEW now \in Nat
    PROVE  os_sched_record_deadline_miss(task, now) \in SchedTask
  <1>1. increment_saturating(task.deadline_miss_count) \in Counts
    BY IncrementType DEF SchedTask
  <1> QED BY <1>1 DEF os_sched_record_deadline_miss, SchedTask

LEMMA CompleteType ==
    ASSUME NEW task \in SchedTask, NEW now \in Nat, NEW state \in States
    PROVE  /\ os_sched_complete_job(task, now) \in SchedTask
           /\ [os_sched_complete_job(task, now) EXCEPT !.state = state]
                 \in SchedTask
  <1> DEFINE missed == os_sched_record_deadline_miss(task, now)
  <1>1. missed \in SchedTask
    BY MissType
  <1>2. increment_saturating(missed.completed_job_count) \in Counts
    BY <1>1, IncrementType DEF SchedTask
  <1>3. os_sched_complete_job(task, now) =
          [missed EXCEPT !.job_active = FALSE,
             !.completed_job_count =
                increment_saturating(missed.completed_job_count)]
    BY <1>1 DEF os_sched_complete_job, SchedTask
  <1> HIDE DEF missed
  <1> QED BY <1>1, <1>2, <1>3 DEF SchedTask

LEMMA SleepType ==
    ASSUME NEW task \in SchedTask, NEW now \in Orders, NEW ticks \in Nat,
           SleepAccepts(task, now, ticks)
    PROVE  os_sched_sleep(task, now, ticks) \in SchedTask
  <1>1. now + ticks \in Orders
    BY SchedulerConstants DEF SleepAccepts, Orders
  <1> QED BY <1>1 DEF os_sched_sleep, SchedTask, States

LEMMA AccountType ==
    ASSUME NEW task \in SchedTask
    PROVE  os_sched_account_running_tick(task) \in SchedTask
  <1>1. /\ increment_saturating(task.total_execution_ticks) \in Counts
        /\ increment_saturating(task.job_execution_ticks) \in Counts
    BY IncrementType DEF SchedTask
  <1> QED BY <1>1 DEF os_sched_account_running_tick, SchedTask

\* A release counted as missed moves the next one by a period, inside the time
\* range (os_sched_record_active_release).
LEMMA ActiveReleaseType ==
    ASSUME NEW task \in SchedTask, NEW now \in Nat
    PROVE  os_sched_record_active_release(task, now) \in SchedTask
  <1> DEFINE range == [task EXCEPT !.time_range_exhausted = TRUE]
             missed == increment_saturating(task.missed_release_count)
             following == task.next_release_order + task.period_ticks
             counted == [task EXCEPT !.missed_release_count = missed,
                                     !.next_release_order = following]
  <1>1. range \in SchedTask
    BY DEF SchedTask
  <1>2. missed \in Counts
    BY IncrementType DEF SchedTask
  <1>3. ASSUME task.next_release_order <= UINT64_MAX - task.period_ticks
        PROVE  counted \in SchedTask
    <2>1. following \in Orders
      BY <1>3, SchedulerConstants DEF SchedTask, Orders, Intervals
    <2> HIDE DEF missed, following
    <2> QED BY <1>2, <2>1 DEF SchedTask
  <1>4. CASE task.next_release_order > UINT64_MAX - task.period_ticks
    BY <1>1, <1>4 DEF os_sched_record_active_release
  <1>5. CASE ~(task.next_release_order > UINT64_MAX - task.period_ticks)
    <2>1. task.next_release_order <= UINT64_MAX - task.period_ticks
      BY <1>5, SchedulerConstants DEF SchedTask, Orders, Intervals
    <2>2. counted \in SchedTask
      BY <2>1, <1>3
    <2>3. os_sched_record_active_release(task, now) \in {task, range, counted}
      BY DEF os_sched_record_active_release, SchedTask
    <2> QED BY <1>1, <2>2, <2>3
  <1> QED BY <1>4, <1>5

LEMMA ReleaseDueType ==
    ASSUME NEW task \in SchedTask, NEW now \in Nat
    PROVE  os_sched_release_due(task, now) \in SchedTask
  <1>1. [task EXCEPT !.release_order = task.next_release_order] \in SchedTask
    BY DEF SchedTask
  <1> QED BY <1>1, ActivateType DEF os_sched_release_due

LEMMA WakeDueType ==
    ASSUME NEW task \in SchedTask, NEW now \in Nat
    PROVE  os_sched_wake_due(task, now) \in SchedTask
  BY DEF os_sched_wake_due, SchedTask, States

----------------------------------------------------------------------------
\* Earliest deadline first.

\* A set of naturals that is not empty has a least element.
LEMMA NatMinimum ==
    ASSUME NEW T \in SUBSET Nat, T # {}
    PROVE  \E m \in T : \A n \in T : m <= n
  <1>1. \E m \in T : \A n \in T : ~(<<n, m>> \in OpToRel(<, Nat))
    BY NatLessThanWellFounded, WFMin, Zenon
  <1>2. PICK m \in T : \A n \in T : ~(<<n, m>> \in OpToRel(<, Nat))
    BY <1>1
  <1>3. ASSUME NEW n \in T PROVE m <= n
    <2>1. ~(<<n, m>> \in OpToRel(<, Nat))
      BY <1>2
    <2>2. ~(n < m)
      BY <2>1, m \in Nat, n \in Nat DEF OpToRel
    <2> QED BY <2>2, m \in Nat, n \in Nat
  <1> QED BY <1>3

\* Among any tasks that are ready one outranks all the others: the scan of
\* os_sched_select has a best element, whatever the keys.
LEMMA BestExists ==
    ASSUME NEW ts \in [TaskIds -> SchedTask],
           NEW C \in SUBSET UserTasks, C # {},
           \A c \in C : IsReady(ts[c])
    PROVE  \E b \in C : \A d \in C \ {b} : os_sched_outranks(ts, b, d)
  <1> DEFINE deadline(c) == ts[c].absolute_deadline_order
             priority(c) == ts[c].priority
  <1>1. \A c \in C : c \in Nat /\ c # 0 /\ deadline(c) \in Nat
                       /\ priority(c) \in Nat
    <2> SUFFICES ASSUME NEW c \in C
                 PROVE  /\ c \in Nat /\ c # 0 /\ deadline(c) \in Nat
                        /\ priority(c) \in Nat
      OBVIOUS
    <2>1. c \in Nat /\ c # 0 /\ c \in TaskIds
      BY SchedulerConstants DEF UserTasks, TaskIds
    <2>2. ts[c] \in SchedTask
      BY <2>1
    <2>3. ts[c].absolute_deadline_order \in Orders /\ ts[c].priority \in Nat
      BY <2>2 DEF SchedTask
    <2> QED BY <2>1, <2>3, SchedulerConstants DEF Orders
  <1>2. PICK b1 \in C : \A c \in C : deadline(b1) <= deadline(c)
    <2> DEFINE D == {deadline(c) : c \in C}
    <2>1. D \in SUBSET Nat /\ D # {}
      BY <1>1
    <2> HIDE DEF D
    <2>2. \E m \in D : \A n \in D : m <= n
      BY <2>1, NatMinimum
    <2> QED BY <2>2 DEF D
  <1>3. PICK b2 \in C : /\ deadline(b2) = deadline(b1)
                        /\ \A c \in C : deadline(c) = deadline(b1)
                                          => priority(b2) <= priority(c)
    <2> DEFINE P == {priority(c) : c \in {e \in C : deadline(e) = deadline(b1)}}
    <2>1. P \in SUBSET Nat /\ P # {}
      BY <1>1, <1>2
    <2> HIDE DEF P
    <2>2. \E m \in P : \A n \in P : m <= n
      BY <2>1, NatMinimum
    <2> QED BY <2>2 DEF P
  <1>4. PICK b \in C : /\ deadline(b) = deadline(b1)
                       /\ priority(b) = priority(b2)
                       /\ \A c \in C : (/\ deadline(c) = deadline(b1)
                                         /\ priority(c) = priority(b2))
                                         => b <= c
    <2> DEFINE I == {c \in C : /\ deadline(c) = deadline(b1)
                               /\ priority(c) = priority(b2)}
    <2>1. I \in SUBSET Nat /\ I # {}
      BY <1>1, <1>3
    <2>2. \E m \in I : \A n \in I : m <= n
      BY <2>1, NatMinimum
    <2> QED BY <2>2
  <1>5. ASSUME NEW d \in C, d # b
        PROVE  os_sched_outranks(ts, b, d)
    <2>1. deadline(b) <= deadline(d)
      BY <1>2, <1>4
    <2>2. deadline(b) = deadline(d) => priority(b) <= priority(d)
      BY <1>3, <1>4
    <2>3. deadline(b) = deadline(d) /\ priority(b) = priority(d) => b < d
      BY <1>4, <1>5, <1>1
    <2>4. PrecedesKey(ts, b, d)
      BY <2>1, <2>2, <2>3, <1>1 DEF PrecedesKey
    <2> QED
      BY <2>4, <1>1 DEF os_sched_outranks, IsReady, OS_TASK_ID_IDLE
  <1> QED BY <1>5

\* os_sched_select returns a ready task, idle when there is no other, and
\* OS_TASK_ID_INVALID only if not even idle is ready.
LEMMA SelectResult ==
    ASSUME NEW ts \in [TaskIds -> SchedTask], NEW excluded \in TaskIdsOrInvalid
    PROVE  LET chosen == os_sched_select(ts, excluded) IN
           /\ chosen \in TaskIdsOrInvalid
           /\ chosen \in UserTasks => IsReady(ts[chosen])
           /\ chosen = OS_TASK_ID_IDLE =>
                ts[OS_TASK_ID_IDLE].state = "READY"
           /\ chosen = OS_TASK_ID_INVALID =>
                ts[OS_TASK_ID_IDLE].state # "READY"
  <1> DEFINE C == Candidates(ts, excluded)
             best == {c \in C : \A d \in C \ {c} : os_sched_outranks(ts, c, d)}
             chosen == os_sched_select(ts, excluded)
  <1>1. CASE best # {}
    <2>1. chosen \in best
      BY <1>1 DEF os_sched_select
    <2> QED
      BY <2>1, SchedulerConstants
      DEF Candidates, ReadyUserTasks, TaskIdsOrInvalid, TaskIds, UserTasks,
          OS_TASK_ID_IDLE, OS_TASK_ID_INVALID
  <1>2. CASE best = {} /\ excluded \in ReadyUserTasks(ts)
    <2>1. chosen = excluded
      BY <1>2 DEF os_sched_select
    <2> QED
      BY <2>1, <1>2, SchedulerConstants
      DEF ReadyUserTasks, UserTasks, OS_TASK_ID_IDLE, OS_TASK_ID_INVALID
  <1>3. CASE /\ best = {} /\ excluded \notin ReadyUserTasks(ts)
             /\ ts[OS_TASK_ID_IDLE].state = "READY"
    <2>1. chosen = OS_TASK_ID_IDLE
      BY <1>3 DEF os_sched_select
    <2> QED
      BY <2>1, <1>3, SchedulerConstants
      DEF UserTasks, TaskIds, TaskIdsOrInvalid, OS_TASK_ID_IDLE,
          OS_TASK_ID_INVALID
  <1>4. CASE /\ best = {} /\ excluded \notin ReadyUserTasks(ts)
             /\ ts[OS_TASK_ID_IDLE].state # "READY"
    <2>1. chosen = OS_TASK_ID_INVALID
      BY <1>4 DEF os_sched_select
    <2> QED
      BY <2>1, <1>4, SchedulerConstants
      DEF UserTasks, TaskIdsOrInvalid, OS_TASK_ID_IDLE, OS_TASK_ID_INVALID
  <1> QED BY <1>1, <1>2, <1>3, <1>4

\* When another task than the excluded one is ready, os_sched_select returns
\* one that outranks every other such task.
LEMMA SelectIsBest ==
    ASSUME NEW ts \in [TaskIds -> SchedTask], NEW excluded,
           Candidates(ts, excluded) # {}
    PROVE  LET chosen == os_sched_select(ts, excluded) IN
           /\ chosen \in Candidates(ts, excluded)
           /\ \A d \in Candidates(ts, excluded) \ {chosen} :
                 os_sched_outranks(ts, chosen, d)
  <1> DEFINE C == Candidates(ts, excluded)
             best == {c \in C : \A d \in C \ {c} : os_sched_outranks(ts, c, d)}
  <1>1. best # {}
    <2>1. C \in SUBSET UserTasks /\ \A c \in C : IsReady(ts[c])
      BY DEF Candidates, ReadyUserTasks
    <2> QED BY <2>1, BestExists
  <1>2. os_sched_select(ts, excluded) \in best
    BY <1>1 DEF os_sched_select
  <1> QED BY <1>2

\* While a user task is ready os_sched_select never returns idle, not even
\* when the only ready task is the excluded one.
LEMMA SelectReady ==
    ASSUME NEW ts \in [TaskIds -> SchedTask], NEW excluded,
           ReadyUserTasks(ts) # {}
    PROVE  os_sched_select(ts, excluded) \in ReadyUserTasks(ts)
  <1>1. CASE Candidates(ts, excluded) # {}
    BY <1>1, SelectIsBest DEF Candidates
  <1>2. CASE Candidates(ts, excluded) = {}
    <2>1. excluded \in ReadyUserTasks(ts)
      BY <1>2 DEF Candidates
    <2>2. os_sched_select(ts, excluded) = excluded
      BY <1>2, <2>1 DEF os_sched_select
    <2> QED BY <2>1, <2>2
  <1> QED BY <1>1, <1>2

\* The numbers the comparison of two tasks reads.
LEMMA KeyTypes ==
    ASSUME NEW ts \in [TaskIds -> SchedTask], NEW c \in TaskIds
    PROVE  /\ ts[c].absolute_deadline_order \in Int
           /\ ts[c].priority \in Int /\ c \in Int
  BY SchedulerConstants DEF SchedTask, Orders, TaskIds

\* The comparison is a strict order.
LEMMA PrecedesTransitive ==
    ASSUME NEW ts \in [TaskIds -> SchedTask],
           NEW a \in TaskIds, NEW b \in TaskIds, NEW c \in TaskIds,
           PrecedesKey(ts, a, b), PrecedesKey(ts, b, c)
    PROVE  PrecedesKey(ts, a, c)
  BY KeyTypes DEF PrecedesKey

LEMMA PrecedesAsymmetric ==
    ASSUME NEW ts \in [TaskIds -> SchedTask],
           NEW a \in TaskIds, NEW b \in TaskIds, PrecedesKey(ts, a, b)
    PROVE  ~PrecedesKey(ts, b, a)
  BY KeyTypes DEF PrecedesKey
=============================================================================
