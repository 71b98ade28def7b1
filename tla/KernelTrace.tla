---------------------------- MODULE KernelTrace ----------------------------
(***************************************************************************)
(* What the kernel writes into its trace, and what the host reads there:   *)
(* the os_trace_emit and os_trace_emit_selection calls of kernel.c, the    *)
(* checks of tools/aymos_lab/trace.py on each record, and the summary that *)
(* tools/aymos_lab/deadline_lab.py draws from all of them.                 *)
(*                                                                         *)
(* A selection and its candidates are one record here, and 64-bit values   *)
(* are not cut in halves.  The ring never overflows: TraceRing models loss.*)
(* Nobody reads the trace of a kernel that panicked.  A slot has one       *)
(* occupant in a run, as in the laboratories, if ReclaimBound is 1.        *)
(***************************************************************************)
EXTENDS Kernel, SequencesExt

VARIABLES
    emitted,    \* the records of the last step, in order
    summary,    \* what deadline_lab.py has gathered from the records so far
    told        \* an observer: each task's state as the records tell it

traced_vars == <<vars, emitted, summary, told>>

----------------------------------------------------------------------------
\* os_trace_emit_selection: the snapshot of a choice.

\* The tasks a snapshot shows: those that are READY, and the RUNNING incumbent
\* of a probe.
Shown(ts, incumbent, purpose) ==
    {id \in UserTasks :
        \/ IsReady(ts[id])
        \/ /\ id = incumbent /\ purpose # "DISPATCH"
           /\ ts[id].state = "RUNNING" /\ ts[id].job_active}

snapshot_outranks(ts, c, i) ==
    IF ts[c].absolute_deadline_order # ts[i].absolute_deadline_order
    THEN ts[c].absolute_deadline_order < ts[i].absolute_deadline_order
    ELSE IF ts[c].priority # ts[i].priority
         THEN ts[c].priority < ts[i].priority
         ELSE c < i

\* Mutant: the selected task is its own runner-up.
ReasonAgainstItself(ts, shown, selected, excluded) ==
    LET eligible == shown \ {excluded} IN
    CASE selected = OS_TASK_ID_IDLE -> "IDLE"
      [] selected = excluded /\ eligible = {} -> "EXCLUDED_FALLBACK"
      [] Cardinality(eligible) = 1 -> "ONLY_READY"
      [] OTHER -> "STABLE_TID"

selection_reason(ts, shown, selected, excluded) ==
    LET eligible == shown \ {excluded}
        others == eligible \ {selected}
        runner_up == CHOOSE r \in others :
                        \A o \in others \ {r} : snapshot_outranks(ts, r, o)
    IN
    CASE selected = OS_TASK_ID_IDLE -> "IDLE"
      [] selected # OS_TASK_ID_IDLE /\ selected = excluded /\ eligible = {} ->
           "EXCLUDED_FALLBACK"
      [] OTHER ->
           IF Cardinality(eligible) <= 1 THEN "ONLY_READY"
           ELSE IF ts[selected].absolute_deadline_order
                     # ts[runner_up].absolute_deadline_order THEN "DEADLINE"
           ELSE IF ts[selected].priority # ts[runner_up].priority
                THEN "PRIORITY"
           ELSE "STABLE_TID"

----------------------------------------------------------------------------
\* The records.

Event(event, task, related, values) ==
    [event |-> event, tick |-> monotonic_ticks', task |-> task,
     related |-> related, values |-> values]

When(condition, event) == IF condition THEN <<event>> ELSE << >>

os_trace_emit_selection(ts, selected, incumbent, excluded, purpose) ==
    LET shown == Shown(ts, incumbent, purpose) IN
    Event("TASK_SELECT", selected, incumbent,
          [purpose |-> purpose,
           excluded |-> excluded,
           reason |-> selection_reason(ts, shown, selected, excluded),
           ready_mask |-> {id \in UserTasks : IsReady(ts[id])},
           eligible_count |-> Cardinality(shown \ {excluded}),
           candidates |->
               {[task |-> id, deadline |-> ts[id].absolute_deadline_order,
                 priority |-> ts[id].priority, state |-> ts[id].state] :
                    id \in shown}])

\* trace_deadline
trace_deadline(event, id, task) ==
    Event(event, id, OS_TASK_ID_INVALID,
          <<task.absolute_deadline_order, task.job_sequence>>)

\* The events of a call that has filled slot id.
CreateEvents(id) ==
    LET task == schedules'[id]
        creator == IF running THEN current_task ELSE OS_TASK_ID_INVALID
    IN <<Event("TASK_CREATE", id, creator,
               <<task.kind, task.priority, task.state>>)>>
       \o When(task.state = "READY", trace_deadline("TASK_RELEASE", id, task))
       \o When(running /\ os_sched_outranks(schedules', id, current_task),
               os_trace_emit_selection(schedules', id, current_task,
                   OS_TASK_ID_INVALID, "RUNTIME_CREATE_PROBE"))

\* One turn of SysTick's loop.
TaskTickEvents(id) ==
    LET now == monotonic_ticks'
        task == schedules[id]
        missed == os_sched_record_deadline_miss(
                      os_sched_account_running_tick(task), now)
        counted == os_sched_record_active_release(missed, now)
        released == ReleasedTick(task, now)
    IN When(missed.deadline_miss_latched # task.deadline_miss_latched,
            trace_deadline("DEADLINE_MISS", id, missed))
       \o When(counted.next_release_order # missed.next_release_order,
               Event("TASK_RELEASE_SKIPPED", id, OS_TASK_ID_INVALID,
                     <<counted.next_release_order - counted.period_ticks,
                       counted.missed_release_count>>))
       \o When(ReleaseIsDue(counted, now) /\ ~released.time_range_exhausted,
               trace_deadline("TASK_RELEASE", id, released))
       \o When(WakeIsDue(released, now),
               trace_deadline("TASK_WAKE", id, TickTask(task, now)))

TickEvents ==
    IF monotonic_ticks' = monotonic_ticks THEN << >> ELSE
    LET preempts == /\ current_task # OS_TASK_ID_INVALID
                    /\ schedules[current_task].state = "RUNNING"
                    /\ schedules'[current_task].state = "READY"
        ticked == [schedules' EXCEPT ![current_task].state = "RUNNING"]
    IN FlattenSeq([id \in UserTasks |-> TaskTickEvents(id)])
       \o When(preempts,
               os_trace_emit_selection(ticked,
                   os_sched_select(ticked, OS_TASK_ID_INVALID), current_task,
                   OS_TASK_ID_INVALID, "SYSTICK_PROBE"))

\* Mutant: a miss that SysTick has told is told again.
OutcomeEveryTime(before, after) ==
    IF after.deadline_miss_latched
    THEN <<trace_deadline("DEADLINE_MISS", current_task, after)>>
    ELSE <<trace_deadline("DEADLINE_MET", current_task, after)>>

\* How a completed job ended, unless SysTick has told already.
OutcomeEvents(before, after) ==
    When(~before.deadline_miss_latched /\ after.deadline_miss_latched,
         trace_deadline("DEADLINE_MISS", current_task, after))
    \o When(~after.deadline_miss_latched,
            trace_deadline("DEADLINE_MET", current_task, after))

CallEvent(event, values) ==
    Event(event, current_task, OS_TASK_ID_INVALID, values)

ExitEvents ==
    LET after == schedules'[current_task] IN
    Append(OutcomeEvents(Caller, after),
           CallEvent("TASK_EXIT", <<after.completed_job_count,
                                    after.deadline_miss_count>>))

WaitEvents ==
    LET after == schedules'[current_task] IN
    Append(OutcomeEvents(Caller, after),
           CallEvent("TASK_WAIT_PERIOD", <<after.next_release_order>>))

\* Mutant: the state the system call left, and not what SysTick made of it.
StateAsRequested(outgoing) ==
    CASE outgoing = OS_TASK_ID_INVALID -> "DORMANT"
      [] pending_switch_cause = "SLEEP" -> "SLEEPING"
      [] OTHER -> schedules[outgoing].state

StateAtSwitch(outgoing) ==
    IF outgoing = OS_TASK_ID_INVALID THEN "DORMANT"
    ELSE schedules[outgoing].state

SwitchEvents ==
    LET outgoing == current_task
        next == current_task'
        saved == [schedules' EXCEPT ![next].state = "READY"]
    IN When(last_reclaimed' # last_reclaimed /\ owned[outgoing] > 0,
            CallEvent("OWNER_RELEASE", <<owned[outgoing]>>))
       \o <<os_trace_emit_selection(saved, next, outgoing,
                yield_excluded_task, "DISPATCH")>>
       \o When(outgoing = OS_TASK_ID_IDLE /\ next # OS_TASK_ID_IDLE,
               Event("IDLE_STOP", OS_TASK_ID_IDLE, next, << >>))
       \o When(next = OS_TASK_ID_IDLE /\ outgoing # OS_TASK_ID_IDLE,
               Event("IDLE_START", OS_TASK_ID_IDLE, outgoing, << >>))
       \o When(pending_preempt_sources # {},
               Event("TASK_PREEMPT", outgoing, next,
                     <<pending_preempt_sources>>))
       \o <<Event("CONTEXT_SWITCH", outgoing, next,
                  <<pending_switch_cause, StateAtSwitch(outgoing)>>)>>
       \o When(next # OS_TASK_ID_IDLE /\ ~tasks[next].started,
               trace_deadline("TASK_START", next, schedules'[next]))

----------------------------------------------------------------------------
\* deadline_lab.py: running_intervals and build_summary, record by record.

NothingRead ==
    [task |-> OS_TASK_ID_INVALID, since |-> 0, continuous |-> TRUE,
     running_ticks |-> [id \in TaskIds |-> 0],
     released_jobs |-> [id \in UserTasks |-> 0],
     deadlines_met |-> [id \in UserTasks |-> 0],
     deadline_misses |-> [id \in UserTasks |-> 0]]

\* A committed switch ends an interval and begins the next.
ReadSwitch(s, e) ==
    LET ended == IF s.task = OS_TASK_ID_INVALID THEN s
                 ELSE [s EXCEPT !.running_ticks[s.task] =
                                    @ + (e.tick - s.since)]
    IN [ended EXCEPT !.task = e.related, !.since = e.tick,
                     !.continuous = @ /\ e.task = s.task]

Read(s, e) ==
    CASE e.event = "TASK_RELEASE" -> [s EXCEPT !.released_jobs[e.task] = @ + 1]
      [] e.event = "DEADLINE_MET" -> [s EXCEPT !.deadlines_met[e.task] = @ + 1]
      [] e.event = "DEADLINE_MISS" ->
           [s EXCEPT !.deadline_misses[e.task] = @ + 1]
      [] e.event = "CONTEXT_SWITCH" -> ReadSwitch(s, e)
      [] OTHER -> s

\* The observer: the state an event leaves its task in.
Tell(states, e) ==
    CASE e.event = "TASK_CREATE" -> [states EXCEPT ![e.task] = e.values[3]]
      [] e.event \in {"TASK_RELEASE", "TASK_WAKE", "TASK_YIELD"} ->
           [states EXCEPT ![e.task] = "READY"]
      [] e.event = "TASK_SLEEP" -> [states EXCEPT ![e.task] = "SLEEPING"]
      [] e.event = "TASK_EXIT" -> [states EXCEPT ![e.task] = "EXITING"]
      [] e.event = "TASK_WAIT_PERIOD" ->
           [states EXCEPT ![e.task] = "WAITING_RELEASE"]
      [] e.event = "CONTEXT_SWITCH" ->
           [id \in TaskIds |->
              CASE id = e.related -> "RUNNING"
                [] id = e.task /\ id # e.related ->
                     CASE e.values[2] \in {"RUNNING", "READY"} -> "READY"
                       [] e.values[2] = "EXITING" -> "DORMANT"
                       [] OTHER -> e.values[2]
                [] OTHER -> states[id]]
      [] OTHER -> states

----------------------------------------------------------------------------
\* trace.py: what the decoder accepts of one record.

\* The order of candidates.
CandidateBefore(c, d) ==
    \/ c.deadline < d.deadline
    \/ c.deadline = d.deadline /\ c.priority < d.priority
    \/ c.deadline = d.deadline /\ c.priority = d.priority /\ c.task < d.task

\* _validate_selection_snapshots
SelectionAccepted(e) ==
    LET v == e.values
        eligible == {c \in v.candidates : c.task # v.excluded}
        selectable == IF eligible = {} /\ e.task = v.excluded
                      THEN {c \in v.candidates : c.task = e.task}
                      ELSE eligible
        First(set) ==
            CHOOSE c \in set : \A d \in set \ {c} : CandidateBefore(c, d)
        Reason(best, rest) ==
            CASE rest = {} -> IF eligible = {} THEN "EXCLUDED_FALLBACK"
                              ELSE "ONLY_READY"
              [] OTHER ->
                   LET second == First(rest) IN
                   IF best.deadline # second.deadline THEN "DEADLINE"
                   ELSE IF best.priority # second.priority THEN "PRIORITY"
                   ELSE "STABLE_TID"
    IN
    /\ {c.task : c \in {d \in v.candidates : d.state = "READY"}} = v.ready_mask
    /\ v.eligible_count = Cardinality(eligible)
    /\ v.excluded # OS_TASK_ID_IDLE
    /\ v.purpose # "DISPATCH" =>
         /\ v.excluded = OS_TASK_ID_INVALID
         /\ e.related # OS_TASK_ID_INVALID /\ e.task # e.related
         /\ e.related # OS_TASK_ID_IDLE =>
              /\ Cardinality(v.candidates) >= 2
              /\ \E c \in v.candidates : c.task = e.related
    /\ \A c \in v.candidates :
          c.state = IF v.purpose # "DISPATCH" /\ c.task = e.related
                    THEN "RUNNING" ELSE "READY"
    /\ IF e.task = OS_TASK_ID_IDLE
       THEN /\ v.candidates = {} /\ v.excluded = OS_TASK_ID_INVALID
            /\ v.reason = "IDLE" /\ v.purpose = "DISPATCH"
       ELSE /\ selectable # {} /\ First(selectable).task = e.task
            /\ v.reason = Reason(First(selectable),
                                 selectable \ {First(selectable)})

\* _validate_event_roles and _validate_event_payloads, where a value of the
\* kernel could fail them.
Decodes(e) ==
    CASE e.event = "TASK_SELECT" -> SelectionAccepted(e)
      [] e.event = "TASK_CREATE" ->
           e.related # OS_TASK_ID_IDLE
             /\ e.values[3] \in {"WAITING_RELEASE", "READY"}
      [] e.event \in {"TASK_RELEASE", "TASK_START", "TASK_WAKE",
                      "DEADLINE_MET", "DEADLINE_MISS"} -> e.values[2] > 0
      [] e.event = "TASK_SLEEP" -> e.values[2] > 0 /\ e.values[1] >= e.tick
      [] e.event = "TASK_EXIT" -> e.task # OS_TASK_ID_IDLE /\ e.values[1] > 0
      [] e.event = "TASK_WAIT_PERIOD" -> e.values[1] > e.tick
      [] e.event = "TASK_RELEASE_SKIPPED" -> e.values[2] > 0
      [] e.event = "TASK_PREEMPT" ->
           e.task \in TaskIds /\ e.related \in UserTasks
      [] e.event = "CONTEXT_SWITCH" -> e.values[1] # "NONE"
      [] e.event = "IDLE_START" -> e.related # OS_TASK_ID_IDLE
      [] e.event = "OWNER_RELEASE" ->
           e.task \in UserTasks /\ e.values[1] > 0
      [] e.event = "ALLOC" ->
           e.values[1] > 0 /\ (e.values[3] <=> e.values[2] # "SENTINEL")
      [] e.event = "FREE" -> e.values[2] => e.values[1] # "SENTINEL"
      [] OTHER -> TRUE

----------------------------------------------------------------------------

Emits(events) ==
    /\ emitted' = events
    /\ summary' = FoldLeft(Read, summary, events)
    /\ told' = FoldLeft(Tell, told, events)

TracedInit ==
    /\ Init
    /\ emitted = << >>
    /\ summary = NothingRead
    /\ told = [id \in TaskIds |-> schedules[id].state]

\* What a task asks for: no bytes, or some.
RequestSizes == {0, 1}

AllocEvent(size, pointer, accepted) ==
    CallEvent("ALLOC", <<size, pointer, accepted>>)

FreeEvent(pointer, accepted) == CallEvent("FREE", <<pointer, accepted>>)

\* Calls of the allocator that the kernel passes on and that fail: no bytes
\* are asked for or more than any block has left, or the pointer is not the
\* caller's.
os_memory_refused(event) ==
    /\ UserTaskExecutes /\ caller_is_running_task
    /\ UNCHANGED vars
    /\ \/ /\ event = "ALLOC"
          /\ \E size \in RequestSizes :
                Emits(<<AllocEvent(size, "SENTINEL", FALSE)>>)
       \/ /\ event = "FREE"
          /\ \E pointer \in {"SENTINEL", "OFFSET"} :
                Emits(<<FreeEvent(pointer, FALSE)>>)

\* os_memory_free(NULL), which succeeds.
os_memory_free_null ==
    /\ UserTaskExecutes /\ caller_is_running_task
    /\ UNCHANGED vars
    /\ Emits(<<FreeEvent("SENTINEL", TRUE)>>)

TracedNext ==
    \/ \E config \in Configs :
          /\ os_task_create(config)
          /\ Emits(CreateEvents(CHOOSE id \in UserTasks :
                tasks'[id].stack_claimed /\ ~tasks[id].stack_claimed))
    \/ /\ os_kernel_start
       /\ Emits(<<Event("KERNEL_START", OS_TASK_ID_INVALID,
                        OS_TASK_ID_INVALID, << >>)>>)
    \/ /\ os_memory_alloc
       /\ \E size \in RequestSizes \ {0} :
             Emits(<<AllocEvent(size, "OFFSET", TRUE)>>)
    \/ os_memory_free /\ Emits(<<FreeEvent("OFFSET", TRUE)>>)
    \/ \E event \in {"ALLOC", "FREE"} : os_memory_refused(event)
    \/ os_memory_free_null
    \/ SvcYield /\ Emits(<<CallEvent("TASK_YIELD", << >>)>>)
    \/ \E sleep_ticks \in SleepTicks :
          /\ SvcSleep(sleep_ticks)
          /\ Emits(<<CallEvent("TASK_SLEEP",
                               <<schedules'[current_task].wake_order,
                                 sleep_ticks>>)>>)
    \/ SvcExit /\ Emits(ExitEvents)
    \/ SvcWaitNextPeriod /\ Emits(WaitEvents)
    \/ SysTick /\ Emits(TickEvents)
    \/ os_pendsv_switch /\ Emits(SwitchEvents)
    \/ /\ \/ DisableInterrupts \/ EnableInterrupts
          \/ SvcStart \/ PendsvEnter \/ PendsvReturn
          \/ Halted
       /\ Emits(<< >>)

TracedSpec == TracedInit /\ [][TracedNext]_traced_vars

----------------------------------------------------------------------------
\* What the trace is good for.

Occupied(id) == schedules[id].state # "DORMANT"

\* The trace tells the whole story: who reads it knows every task's state and
\* the current task, between any two steps, except that a preemption by SysTick
\* is told when PendSV commits it (docs/TRACE_FORMAT.md, TASK_PREEMPT).
TraceTellsState ==
    /\ summary.task = current_task /\ summary.continuous
    /\ panics = {} => \A id \in TaskIds :
          \/ told[id] = schedules[id].state
          \/ /\ id = current_task /\ "SYSTICK" \in pending_preempt_sources
             /\ told[id] = "RUNNING"
             /\ schedules[id].state = "READY"

\* The jobs the kernel has counted for a slot's task: released, missed, and
\* with their outcome known.  A free slot has none.
Released(task) == IF task.state = "DORMANT" THEN 0 ELSE task.job_sequence
Missed(task) == IF task.state = "DORMANT" THEN 0 ELSE task.deadline_miss_count
Resolved(task) ==
    IF task.state = "DORMANT" THEN 0
    ELSE task.completed_job_count
           + (IF task.job_active /\ task.deadline_miss_latched THEN 1 ELSE 0)

TellsJobsOf(id) ==
    LET before == schedules[id]
        after == schedules'[id]
    IN
    /\ summary'.released_jobs[id] - summary.released_jobs[id]
         = Released(after) - Released(before)
    /\ summary'.deadline_misses[id] - summary.deadline_misses[id]
         = Missed(after) - Missed(before)
    /\ (summary'.deadlines_met[id] + summary'.deadline_misses[id])
         - (summary.deadlines_met[id] + summary.deadline_misses[id])
         = Resolved(after) - Resolved(before)

\* Each job's release is told once, and so is its one outcome: whatever a step
\* adds to the kernel's counts, until they saturate, it adds to the summary's
\* ("one record per missed job").
JobsTold ==
    [][panics' = {} =>
         \A id \in UserTasks :
            /\ schedules'[id].state # "DORMANT"
            /\ schedules'[id].job_sequence < UINT32_MAX
            => TellsJobsOf(id)]_traced_vars

\* The intervals between switches cover the time the kernel charged to a task.
\* (They are longer by ticks between a task's last instruction and its switch.)
IntervalsCoverCharges ==
    \A id \in UserTasks :
        Occupied(id) =>
            schedules[id].total_execution_ticks
              <= summary.running_ticks[id]
                   + (IF summary.task = id
                      THEN monotonic_ticks - summary.since ELSE 0)

\* What the decoder rejects of a working kernel's trace: a second pass of
\* PendSV, os_memory_free(NULL), os_memory_alloc(0), and a creation's probe
\* that shows a candidate more urgent than the new task.
Disputed(e) ==
    \/ e.event = "CONTEXT_SWITCH" /\ e.values[1] = "NONE"
    \/ e.event = "FREE" /\ e.values = <<"SENTINEL", TRUE>>
    \/ e.event = "ALLOC" /\ e.values[1] = 0
    \/ /\ e.event = "TASK_SELECT"
       /\ e.values.purpose = "RUNTIME_CREATE_PROBE"
       /\ \E c, s \in e.values.candidates :
             s.task = e.task /\ CandidateBefore(c, s)

\* Every other record decodes: the selection explains itself by the candidates
\* it shows, and the payload is in its range.
RecordsDecode ==
    panics = {} =>
        \A i \in DOMAIN emitted : Decodes(emitted[i]) \/ Disputed(emitted[i])
=============================================================================
