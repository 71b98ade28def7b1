-------------------------- MODULE KernelTraceProofs --------------------------
(***************************************************************************)
(* The kernel's trace, for every number of slots, every set of             *)
(* configurations, every width and every interleaving: what the decoder    *)
(* accepts, and what a reader of the records knows.  At the end, what the  *)
(* clock's ticks are charged to.                                           *)
(***************************************************************************)
EXTENDS KernelTrace, KernelProofs, FiniteSetTheorems, SequenceTheorems

----------------------------------------------------------------------------
\* The records of a step.

\* Records are told one after another.
LEMMA ConcatSeq ==
    ASSUME NEW S, NEW s \in Seq(S), NEW t \in Seq(S)
    PROVE  s \o t \in Seq(S)
  BY ConcatProperties

LEMMA WhenSeq ==
    ASSUME NEW S, NEW condition, NEW event, condition => event \in S
    PROVE  When(condition, event) \in Seq(S)
  <1>1. << >> \in Seq(S)
    OBVIOUS
  <1>2. ASSUME event \in S PROVE <<event>> \in Seq(S)
    BY <1>2
  <1> QED BY <1>1, <1>2 DEF When

\* Flattening appends one sequence after another.
Flattened(seqs, n, f) ==
    f = [i \in 1 .. n |-> IF i = 1 THEN seqs[i] ELSE f[i - 1] \o seqs[i]]

LEMMA FlattenedExists ==
    ASSUME NEW n \in Nat, NEW seqs
    PROVE  \E f : Flattened(seqs, n, f)
  <1> DEFINE Bad == {k \in 0 .. n : ~ \E f : Flattened(seqs, k, f)}
  <1>1. Bad = {}
    <2> SUFFICES ASSUME Bad # {} PROVE FALSE
      OBVIOUS
    <2>1. Bad \in SUBSET Nat
      OBVIOUS
    <2>2. PICK k \in Bad : \A j \in Bad : k <= j
      <3> HIDE DEF Bad
      <3> QED BY <2>1, NatMinimum
    <2>3. CASE k = 0
      <3>1. Flattened(seqs, 0, [i \in 1 .. 0 |-> seqs])
        BY DEF Flattened
      <3> QED BY <2>2, <2>3, <3>1
    <2>4. CASE k # 0
      <3>1. k - 1 \in 0 .. n /\ k - 1 \notin Bad /\ k \in 1 .. n
        BY <2>2, <2>4
      <3>2. PICK f : Flattened(seqs, k - 1, f)
        BY <3>1
      <3> DEFINE g == [i \in 1 .. k |->
                         IF i < k THEN f[i]
                         ELSE IF i = 1 THEN seqs[i] ELSE f[i - 1] \o seqs[i]]
      <3>3. Flattened(seqs, k, g)
        <4>1. ASSUME NEW i \in 1 .. k
              PROVE  g[i] = IF i = 1 THEN seqs[i] ELSE g[i - 1] \o seqs[i]
          <5>1. CASE i < k
            <6>1. i \in 1 .. k - 1 /\ (i # 1 => i - 1 \in 1 .. k - 1)
              BY <3>1, <5>1
            <6>2. f[i] = IF i = 1 THEN seqs[i] ELSE f[i - 1] \o seqs[i]
              BY <3>2, <6>1 DEF Flattened
            <6>3. g[i] = f[i] /\ (i # 1 => g[i - 1] = f[i - 1])
              BY <3>1, <5>1, <6>1
            <6> QED BY <6>2, <6>3
          <5>2. CASE i = k
            <6>1. i # 1 => i - 1 \in 1 .. k /\ i - 1 < k
              BY <3>1, <5>2
            <6>2. i # 1 => g[i - 1] = f[i - 1]
              BY <6>1
            <6> QED BY <5>2, <6>2
          <5> QED BY <3>1, <5>1, <5>2
        <4> HIDE DEF g
        <4>2. g = [i \in 1 .. k |-> g[i]]
          BY DEF g
        <4> QED BY <4>1, <4>2 DEF Flattened
      <3> HIDE DEF g
      <3> QED BY <2>2, <3>3
    <2> QED BY <2>3, <2>4
  <1> QED BY <1>1

\* What FlattenSeq returns is reached by appending.
LEMMA FlattenIs ==
    ASSUME NEW n \in Nat \ {0}, NEW T, NEW seqs \in [1 .. n -> T]
    PROVE  \E f : Flattened(seqs, n, f) /\ FlattenSeq(seqs) = f[n]
  <1>1. Len(seqs) = n
    BY DEF Len
  <1> DEFINE flat == CHOOSE f : f = [i \in 1 .. Len(seqs) |->
                                       IF i = 1 THEN seqs[i]
                                       ELSE f[i - 1] \o seqs[i]]
  <1>2. FlattenSeq(seqs) = flat[n]
    BY <1>1 DEF FlattenSeq
  <1>3. flat = CHOOSE f : Flattened(seqs, n, f)
    BY <1>1 DEF Flattened
  <1> HIDE DEF flat
  <1>4. Flattened(seqs, n, flat)
    BY <1>3, FlattenedExists
  <1> QED BY <1>2, <1>4

\* It adds no element.
LEMMA FlattenSeqType ==
    ASSUME NEW n \in Nat \ {0}, NEW S, NEW seqs \in [1 .. n -> Seq(S)]
    PROVE  FlattenSeq(seqs) \in Seq(S)
  <1>1. PICK f : Flattened(seqs, n, f) /\ FlattenSeq(seqs) = f[n]
    BY FlattenIs
  <1> DEFINE Bad == {i \in 1 .. n : f[i] \notin Seq(S)}
  <1>2. Bad = {}
    <2> SUFFICES ASSUME Bad # {} PROVE FALSE
      OBVIOUS
    <2>1. Bad \in SUBSET Nat
      OBVIOUS
    <2>2. PICK i \in Bad : \A j \in Bad : i <= j
      <3> HIDE DEF Bad
      <3> QED BY <2>1, NatMinimum
    <2>3. f[i] = IF i = 1 THEN seqs[i] ELSE f[i - 1] \o seqs[i]
      BY <1>1, <2>2 DEF Flattened
    <2>4. seqs[i] \in Seq(S)
      BY <2>2
    <2>5. CASE i # 1
      <3>1. i - 1 \in 1 .. n /\ i - 1 \notin Bad
        BY <2>2, <2>5
      <3>2. f[i - 1] \o seqs[i] \in Seq(S)
        BY <2>4, <3>1, ConcatSeq
      <3> QED BY <2>2, <2>3, <2>5, <3>2
    <2> QED BY <2>2, <2>3, <2>4, <2>5
  <1> QED BY <1>1, <1>2

----------------------------------------------------------------------------
\* Selections.

\* A candidate of a snapshot.
Candidate(ts, id) ==
    [task |-> id, deadline |-> ts[id].absolute_deadline_order,
     priority |-> ts[id].priority, state |-> ts[id].state]

CandidatesOf(ts, T) == {Candidate(ts, id) : id \in T}

\* The first of a set by the decoder's order.
FirstCandidate(set) ==
    CHOOSE c \in set : \A d \in set \ {c} : CandidateBefore(c, d)

\* b precedes all others of T.
Best(ts, b, T) == b \in T /\ \A d \in T \ {b} : PrecedesKey(ts, b, d)

\* The kernel and the decoder compare alike.
LEMMA SameOrder ==
    ASSUME NEW ts \in [TaskIds -> SchedTask], NEW c \in UserTasks,
           NEW d \in UserTasks
    PROVE  /\ CandidateBefore(Candidate(ts, c), Candidate(ts, d))
                <=> PrecedesKey(ts, c, d)
           /\ snapshot_outranks(ts, c, d) <=> PrecedesKey(ts, c, d)
           /\ Candidate(ts, c) = Candidate(ts, d) => c = d
           /\ PrecedesKey(ts, c, d) => ~PrecedesKey(ts, d, c) /\ c # d
  <1>1. c \in TaskIds /\ d \in TaskIds
    BY IdTypes
  <1>2. /\ ts[c].absolute_deadline_order \in Int /\ ts[c].priority \in Int
        /\ ts[d].absolute_deadline_order \in Int /\ ts[d].priority \in Int
        /\ c \in Int /\ d \in Int
    BY <1>1, KeyTypes
  <1>3. Candidate(ts, c) = Candidate(ts, d) => c = d
    BY DEF Candidate
  <1>4. CandidateBefore(Candidate(ts, c), Candidate(ts, d))
          <=> PrecedesKey(ts, c, d)
    BY <1>2 DEF CandidateBefore, Candidate, PrecedesKey
  <1>5. snapshot_outranks(ts, c, d) <=> PrecedesKey(ts, c, d)
    BY <1>2 DEF snapshot_outranks, PrecedesKey
  <1>6. PrecedesKey(ts, c, d) => ~PrecedesKey(ts, d, c) /\ c # d
    BY <1>2 DEF PrecedesKey
  <1> QED BY <1>3, <1>4, <1>5, <1>6

\* The first candidate is the best task's, and the runner-up of the snapshot is
\* the best of the others.
LEMMA FirstIsBest ==
    ASSUME NEW ts \in [TaskIds -> SchedTask], NEW T \in SUBSET UserTasks,
           NEW b, Best(ts, b, T)
    PROVE  /\ FirstCandidate(CandidatesOf(ts, T)) = Candidate(ts, b)
           /\ (CHOOSE r \in T : \A o \in T \ {r} : snapshot_outranks(ts, r, o))
                = b
  <1> DEFINE all == CandidatesOf(ts, T)
             first == FirstCandidate(all)
             Is(c) == \A d \in all \ {c} : CandidateBefore(c, d)
  <1>1. b \in T /\ b \in UserTasks
    BY DEF Best
  <1>2. Candidate(ts, b) \in all
    BY <1>1 DEF CandidatesOf
  <1>3. Is(Candidate(ts, b))
    BY <1>1, SameOrder DEF Best, CandidatesOf
  <1>4. first \in all /\ Is(first)
    <2>1. first = CHOOSE c \in all : Is(c)
      BY DEF FirstCandidate
    <2> HIDE DEF first, Is, all
    <2> QED BY <1>2, <1>3, <2>1
  <1>5. PICK f \in T : first = Candidate(ts, f)
    BY <1>4 DEF CandidatesOf
  <1>6. f = b
    <2> SUFFICES ASSUME f # b PROVE FALSE
      OBVIOUS
    <2>1. f \in UserTasks /\ PrecedesKey(ts, b, f)
      BY <1>5 DEF Best
    <2>2. Candidate(ts, f) # Candidate(ts, b)
      BY <1>1, <2>1, SameOrder
    <2>3. CandidateBefore(Candidate(ts, f), Candidate(ts, b))
      BY <1>2, <1>4, <1>5, <2>2
    <2>4. PrecedesKey(ts, f, b)
      BY <1>1, <2>1, <2>3, SameOrder
    <2> QED BY <1>1, <2>1, <2>4, SameOrder
  <1>7. (CHOOSE r \in T : \A o \in T \ {r} : snapshot_outranks(ts, r, o)) = b
    <2> DEFINE Up(r) == \A o \in T \ {r} : snapshot_outranks(ts, r, o)
    <2>1. Up(b)
      BY <1>1, SameOrder DEF Best
    <2>2. ASSUME NEW r \in T, Up(r) PROVE r = b
      <3> SUFFICES ASSUME r # b PROVE FALSE
        OBVIOUS
      <3>1. r \in UserTasks /\ PrecedesKey(ts, b, r)
        BY DEF Best
      <3>2. snapshot_outranks(ts, r, b)
        BY <1>1, <2>2
      <3> QED BY <1>1, <3>1, <3>2, SameOrder
    <2> HIDE DEF Up
    <2>3. (CHOOSE r \in T : Up(r)) = b
      BY <1>1, <2>1, <2>2
    <2> QED BY <2>3 DEF Up
  <1> QED BY <1>5, <1>6, <1>7

\* A snapshot has one candidate for each task it shows.
LEMMA CandidateCount ==
    ASSUME NEW ts, NEW T \in SUBSET UserTasks
    PROVE  /\ IsFiniteSet(T) /\ Cardinality(T) \in Nat
           /\ Cardinality(CandidatesOf(ts, T)) = Cardinality(T)
  <1>1. IsFiniteSet(UserTasks)
    BY FS_Interval, SchedulerConstants DEF UserTasks
  <1>2. IsFiniteSet(T)
    BY <1>1, FS_Subset
  <1> DEFINE f == [id \in T |-> Candidate(ts, id)]
  <1>3. f \in Bijection(T, CandidatesOf(ts, T))
    <2>1. f \in [T -> CandidatesOf(ts, T)]
      BY DEF CandidatesOf
    <2>2. \A c \in T, d \in T : f[c] = f[d] => c = d
      <3>1. \A c \in T : f[c].task = c
        BY DEF Candidate
      <3> HIDE DEF f
      <3> QED BY <3>1
    <2>3. \A e \in CandidatesOf(ts, T) : \E id \in T : f[id] = e
      BY DEF CandidatesOf
    <2> HIDE DEF f
    <2> QED BY <2>1, <2>2, <2>3 DEF Bijection, Injection, Surjection,
                                     IsInjective
  <1>4. ExistsBijection(T, CandidatesOf(ts, T))
    BY <1>3 DEF ExistsBijection
  <1> QED BY <1>2, <1>4, FS_Bijection, FS_CardinalityType

\* A set with an element has no other exactly if it is of size one.
LEMMA OnlyMember ==
    ASSUME NEW T, IsFiniteSet(T), NEW b \in T
    PROVE  Cardinality(T) <= 1 <=> T \ {b} = {}
  <1>1. /\ IsFiniteSet(T \ {b})
        /\ Cardinality(T \ {b}) = Cardinality(T) - 1
    BY FS_RemoveElement
  <1>2. Cardinality(T) \in Nat
    BY FS_CardinalityType
  <1>3. Cardinality(T \ {b}) \in Nat
    BY <1>1, FS_CardinalityType
  <1>4. Cardinality(T \ {b}) = 0 <=> T \ {b} = {}
    BY <1>1, FS_EmptySet
  <1> QED BY <1>1, <1>2, <1>3, <1>4

\* Any tasks have a best one.
LEMMA BestOfAny ==
    ASSUME NEW ts \in [TaskIds -> SchedTask],
           NEW T \in SUBSET UserTasks, T # {}
    PROVE  \E b : Best(ts, b, T)
  <1> DEFINE all == [id \in TaskIds |->
                       [ts[id] EXCEPT !.state = "READY", !.job_active = TRUE]]
  <1>1. all \in [TaskIds -> SchedTask]
    <2>1. ASSUME NEW id \in TaskIds PROVE all[id] \in SchedTask
      <3>1. [ts[id] EXCEPT !.state = "READY"] \in SchedTask
        BY StateType DEF States
      <3>2. ASSUME NEW task \in SchedTask
            PROVE  [task EXCEPT !.job_active = TRUE] \in SchedTask
        BY <3>2 DEF SchedTask
      <3> QED BY <3>1, <3>2
    <2>2. all = [id \in TaskIds |-> all[id]]
      OBVIOUS
    <2> HIDE DEF all
    <2> QED BY <2>1, <2>2
  <1>2. \A c \in TaskIds : /\ IsReady(all[c])
                           /\ all[c].absolute_deadline_order
                                = ts[c].absolute_deadline_order
                           /\ all[c].priority = ts[c].priority
    BY DEF IsReady, SchedTask
  <1>3. \A c \in T : c \in TaskIds /\ c # OS_TASK_ID_IDLE
    BY IdTypes DEF UserTasks, OS_TASK_ID_IDLE
  <1> HIDE DEF all
  <1>4. PICK b \in T : \A d \in T \ {b} : os_sched_outranks(all, b, d)
    BY <1>1, <1>2, <1>3, BestExists
  <1>5. \A d \in T \ {b} : PrecedesKey(all, b, d)
    BY <1>3, <1>4 DEF os_sched_outranks
  <1>6. \A d \in T \ {b} : PrecedesKey(ts, b, d)
    BY <1>2, <1>3, <1>5 DEF PrecedesKey
  <1> QED BY <1>6 DEF Best

\* The tasks a selection chooses from, and the choice: the best of those that
\* are not excluded, or the excluded one if there is no other.
Chosen(ts, selected, shown, excluded) ==
    IF shown \ {excluded} = {} THEN selected = excluded /\ selected \in shown
    ELSE Best(ts, selected, shown \ {excluded})

\* The reason the decoder expects, from the first candidate, the others and
\* those that are not excluded.
ExpectedReason(best, rest, eligible) ==
    LET second == FirstCandidate(rest)
    IN IF rest = {} THEN IF eligible = {} THEN "EXCLUDED_FALLBACK"
                        ELSE "ONLY_READY"
       ELSE IF best.deadline # second.deadline THEN "DEADLINE"
       ELSE IF best.priority # second.priority THEN "PRIORITY"
       ELSE "STABLE_TID"

\* The candidates the decoder allows to be selected.
SelectableOf(ts, selected, T) ==
    IF T = {} THEN {Candidate(ts, selected)} ELSE CandidatesOf(ts, T)

\* The decoder finds the selected task first, and the reason the kernel gives.
LEMMA ReasonAgrees ==
    ASSUME NEW ts \in [TaskIds -> SchedTask], NEW shown \in SUBSET UserTasks,
           NEW excluded, NEW selected \in UserTasks,
           Chosen(ts, selected, shown, excluded)
    PROVE  LET T == shown \ {excluded}
               selectable == SelectableOf(ts, selected, T)
               best == Candidate(ts, selected)
           IN /\ FirstCandidate(selectable) = best
              /\ selection_reason(ts, shown, selected, excluded)
                   = ExpectedReason(best, selectable \ {best},
                                    CandidatesOf(ts, T))
  <1> USE DEF SelectableOf, ExpectedReason
  <1> DEFINE T == shown \ {excluded}
             best == Candidate(ts, selected)
             reason == selection_reason(ts, shown, selected, excluded)
  <1>1. selected # OS_TASK_ID_IDLE /\ T \in SUBSET UserTasks
    <2>1. selected # OS_TASK_ID_IDLE
      BY SchedulerConstants DEF UserTasks, OS_TASK_ID_IDLE
    <2> QED BY <2>1
  <1>2. CASE T = {}
    <2>1. /\ Best(ts, selected, {selected}) /\ selected = excluded
          /\ {selected} \in SUBSET UserTasks
      BY <1>2 DEF Best, Chosen
    <2>2. CandidatesOf(ts, {selected}) = {best} /\ CandidatesOf(ts, T) = {}
      BY <1>2 DEF CandidatesOf
    <2>3. FirstCandidate({best}) = best
      <3>1. FirstCandidate(CandidatesOf(ts, {selected})) = best
        BY <2>1, FirstIsBest
      <3> HIDE DEF best
      <3> QED BY <2>2, <3>1
    <2>4. reason = "EXCLUDED_FALLBACK"
      BY <1>1, <1>2, <2>1 DEF selection_reason
    <2> QED BY <1>2, <2>2, <2>3, <2>4
  <1>3. CASE T # {} /\ T \ {selected} = {}
    <2>1. Best(ts, selected, T) /\ T = {selected} /\ selected # excluded
      BY <1>3 DEF Chosen, Best
    <2>2. CandidatesOf(ts, T) = {best}
      BY <2>1 DEF CandidatesOf
    <2>3. FirstCandidate({best}) = best
      BY <2>1, <2>2, FirstIsBest
    <2>4. Cardinality(T) <= 1
      BY <1>1, <1>3, <2>1, CandidateCount, OnlyMember
    <2>5. reason = "ONLY_READY"
      BY <1>1, <1>3, <2>1, <2>4 DEF selection_reason
    <2> QED BY <1>3, <2>2, <2>3, <2>5
  <1>4. CASE T \ {selected} # {}
    <2> DEFINE others == T \ {selected}
               up == CHOOSE r \in others :
                       \A o \in others \ {r} : snapshot_outranks(ts, r, o)
               rest == CandidatesOf(ts, T) \ {best}
    <2>1. Best(ts, selected, T) /\ selected # excluded /\ selected \in T
      BY <1>4 DEF Chosen, Best
    <2>2. FirstCandidate(CandidatesOf(ts, T)) = best
      BY <1>1, <2>1, FirstIsBest
    <2>3. rest = CandidatesOf(ts, others) /\ rest # {}
      BY <1>1, <1>4, SameOrder DEF CandidatesOf
    <2>4. PICK b : Best(ts, b, others)
      BY <1>1, <1>4, BestOfAny DEF Best
    <2>5. FirstCandidate(rest) = Candidate(ts, b) /\ up = b
      <3>1. others \in SUBSET UserTasks
        BY <1>1
      <3>2. /\ FirstCandidate(CandidatesOf(ts, others)) = Candidate(ts, b)
            /\ up = b
        BY <2>4, <3>1, FirstIsBest
      <3> HIDE DEF rest
      <3> QED BY <2>3, <3>2
    <2>6. ~(Cardinality(T) <= 1)
      BY <1>1, <1>4, <2>1, CandidateCount, OnlyMember
    <2>7. reason = IF ts[selected].absolute_deadline_order
                        # ts[up].absolute_deadline_order THEN "DEADLINE"
                   ELSE IF ts[selected].priority # ts[up].priority
                        THEN "PRIORITY"
                   ELSE "STABLE_TID"
      BY <1>1, <2>1, <2>6 DEF selection_reason
    <2>8. /\ FirstCandidate(rest).deadline = ts[up].absolute_deadline_order
          /\ FirstCandidate(rest).priority = ts[up].priority
          /\ best.deadline = ts[selected].absolute_deadline_order
          /\ best.priority = ts[selected].priority
      <3> HIDE DEF rest, up
      <3> QED BY <2>5 DEF Candidate
    <2>9. CandidatesOf(ts, T) # {} /\ T # {}
      BY <1>4, <2>3
    <2> HIDE DEF up, others
    <2> QED BY <2>2, <2>3, <2>7, <2>8, <2>9
  <1> QED BY <1>2, <1>3, <1>4

\* What the decoder asks of the selection of a user task, with the operators
\* above.
Acceptable(e) ==
    LET v == e.values
        eligible == {c \in v.candidates : c.task # v.excluded}
        selectable == IF eligible = {} /\ e.task = v.excluded
                      THEN {c \in v.candidates : c.task = e.task}
                      ELSE eligible
        best == FirstCandidate(selectable)
    IN /\ {c.task : c \in {d \in v.candidates : d.state = "READY"}}
             = v.ready_mask
       /\ v.eligible_count = Cardinality(eligible)
       /\ v.excluded # OS_TASK_ID_IDLE
       /\ v.purpose # "DISPATCH" =>
            /\ v.excluded = OS_TASK_ID_INVALID
            /\ e.related # OS_TASK_ID_INVALID /\ e.task # e.related
            /\ e.related # OS_TASK_ID_IDLE =>
                 /\ Cardinality(v.candidates) >= 2
                 /\ \E c \in v.candidates : c.task = e.related
       /\ \A c \in v.candidates :
             c.state = IF v.purpose # "DISPATCH" /\ c.task = e.related
                       THEN "RUNNING" ELSE "READY"
       /\ selectable # {} /\ best.task = e.task
       /\ v.reason = ExpectedReason(best, selectable \ {best},
                                    eligible)

LEMMA AcceptedIf ==
    ASSUME NEW e, e.task # OS_TASK_ID_IDLE, Acceptable(e)
    PROVE  SelectionAccepted(e)
  BY DEF Acceptable, SelectionAccepted, ExpectedReason, FirstCandidate

\* A snapshot that explains its choice decodes: one of the task to execute next,
\* or one of a task that preempts the incumbent.
LEMMA SelectionDecodes ==
    ASSUME NEW ts \in [TaskIds -> SchedTask], NEW selected \in UserTasks,
           NEW incumbent, NEW excluded \in TaskIdsOrInvalid,
           excluded # OS_TASK_ID_IDLE,
           NEW purpose \in {"DISPATCH", "SYSTICK_PROBE",
                            "RUNTIME_CREATE_PROBE"},
           Chosen(ts, selected, Shown(ts, incumbent, purpose), excluded),
           purpose # "DISPATCH" =>
             /\ excluded = OS_TASK_ID_INVALID
             /\ incumbent \in TaskIds /\ incumbent # selected
             /\ ts[incumbent].state = "RUNNING"
             /\ incumbent \in UserTasks => ts[incumbent].job_active
    PROVE  SelectionAccepted(os_trace_emit_selection(ts, selected, incumbent,
                                                     excluded, purpose))
  <1> DEFINE e == os_trace_emit_selection(ts, selected, incumbent, excluded,
                                          purpose)
             v == e.values
             shown == Shown(ts, incumbent, purpose)
             T == shown \ {excluded}
             best == Candidate(ts, selected)
             eligible == {c \in v.candidates : c.task # v.excluded}
             selectable == IF eligible = {} /\ e.task = v.excluded
                           THEN {c \in v.candidates : c.task = e.task}
                           ELSE eligible
  <1>1. /\ e.task = selected /\ e.related = incumbent
        /\ v.purpose = purpose /\ v.excluded = excluded
        /\ v.reason = selection_reason(ts, shown, selected, excluded)
        /\ v.ready_mask = {id \in UserTasks : IsReady(ts[id])}
        /\ v.eligible_count = Cardinality(T)
        /\ v.candidates = CandidatesOf(ts, shown)
    BY DEF os_trace_emit_selection, Event, CandidatesOf, Candidate
  <1> HIDE DEF e
  <1>2. shown \in SUBSET UserTasks /\ T \in SUBSET UserTasks
        /\ selected \in shown /\ Chosen(ts, selected, shown, excluded)
    BY DEF Shown, Chosen, Best
  <1>3. /\ \A id : Candidate(ts, id).task = id
        /\ \A id : Candidate(ts, id).state = ts[id].state
    BY DEF Candidate
  <1>4. eligible = CandidatesOf(ts, T)
    BY <1>1, <1>3 DEF CandidatesOf
  <1>5. selectable = IF T = {} THEN {best} ELSE CandidatesOf(ts, T)
    <2>1. eligible = {} <=> T = {}
      BY <1>4 DEF CandidatesOf
    <2>2. T = {} => selected = excluded
      BY DEF Chosen
    <2>3. {c \in v.candidates : c.task = e.task} = {best}
      BY <1>1, <1>2, <1>3 DEF CandidatesOf
    <2> QED BY <1>1, <1>4, <2>1, <2>2, <2>3
  <1>6. /\ FirstCandidate(selectable) = best
        /\ v.reason = ExpectedReason(best, selectable \ {best}, eligible)
    <2>1. /\ FirstCandidate(SelectableOf(ts, selected, T)) = best
          /\ selection_reason(ts, shown, selected, excluded)
               = ExpectedReason(best, SelectableOf(ts, selected, T) \ {best},
                                CandidatesOf(ts, T))
      <3> HIDE DEF shown
      <3> QED BY <1>2, ReasonAgrees
    <2> HIDE DEF selectable, eligible, v, best, shown, T
    <2> QED BY <1>1, <1>4, <1>5, <2>1 DEF SelectableOf, best
  <1>7. selectable # {} /\ best.task = e.task
    <2>1. T # {} => CandidatesOf(ts, T) # {}
      BY DEF CandidatesOf
    <2>2. best.task = e.task
      BY <1>1, <1>3
    <2> HIDE DEF selectable, T, best
    <2> QED BY <1>5, <2>1, <2>2
  <1>8. v.eligible_count = Cardinality(eligible)
    <2>1. Cardinality(CandidatesOf(ts, T)) = Cardinality(T)
      BY <1>2, CandidateCount
    <2> HIDE DEF v, eligible, T
    <2> QED BY <1>1, <1>4, <2>1
  <1>9. \A id \in shown :
           /\ ts[id].state = IF purpose # "DISPATCH" /\ id = incumbent
                             THEN "RUNNING" ELSE "READY"
           /\ ts[id].state = "READY" => IsReady(ts[id])
    BY DEF Shown, IsReady
  <1>10. {c.task : c \in {d \in v.candidates : d.state = "READY"}}
           = v.ready_mask
    <2>1. \A id \in UserTasks : IsReady(ts[id]) =>
             id \in shown /\ ts[id].state = "READY"
      BY DEF Shown, IsReady
    <2> HIDE DEF shown
    <2> QED BY <1>1, <1>2, <1>3, <1>9, <2>1 DEF CandidatesOf
  <1>11. \A c \in v.candidates :
            c.state = IF v.purpose # "DISPATCH" /\ c.task = e.related
                      THEN "RUNNING" ELSE "READY"
    <2> HIDE DEF shown
    <2> QED BY <1>1, <1>3, <1>9 DEF CandidatesOf
  <1>12. purpose # "DISPATCH" =>
           /\ excluded = OS_TASK_ID_INVALID
           /\ incumbent # OS_TASK_ID_INVALID /\ selected # incumbent
           /\ incumbent # OS_TASK_ID_IDLE =>
                /\ Cardinality(v.candidates) >= 2
                /\ \E c \in v.candidates : c.task = incumbent
    <2> SUFFICES ASSUME purpose # "DISPATCH"
                 PROVE  /\ incumbent # OS_TASK_ID_INVALID
                        /\ incumbent # OS_TASK_ID_IDLE =>
                             /\ Cardinality(v.candidates) >= 2
                             /\ \E c \in v.candidates : c.task = incumbent
      OBVIOUS
    <2>1. incumbent # OS_TASK_ID_INVALID
      BY IdTypes
    <2>2. ASSUME incumbent # OS_TASK_ID_IDLE
          PROVE  incumbent \in shown
      BY <2>2, SchedulerConstants
      DEF Shown, UserTasks, TaskIds, OS_TASK_ID_IDLE
    <2>3. ASSUME incumbent \in shown
          PROVE  Cardinality(v.candidates) >= 2
      <3>1. /\ IsFiniteSet(shown) /\ Cardinality(shown) \in Nat
            /\ Cardinality(v.candidates) = Cardinality(shown)
        BY <1>1, <1>2, CandidateCount
      <3>2. incumbent \in shown \ {selected} /\ selected \in shown
        BY <1>2, <2>3
      <3> HIDE DEF shown, v
      <3>3. ~(Cardinality(shown) <= 1)
        BY <3>1, <3>2, OnlyMember
      <3> QED BY <3>1, <3>3
    <2>4. ASSUME incumbent \in shown
          PROVE  \E c \in v.candidates : c.task = incumbent
      <3> HIDE DEF shown, v
      <3> QED BY <1>1, <1>3, <2>4 DEF CandidatesOf
    <2> HIDE DEF shown, v
    <2> QED BY <2>1, <2>2, <2>3, <2>4
  <1>13. e.task # OS_TASK_ID_IDLE
    BY <1>1, SchedulerConstants DEF UserTasks, OS_TASK_ID_IDLE
  <1> HIDE DEF best, shown, T
  <1>14. Acceptable(e)
    BY <1>1, <1>6, <1>7, <1>8, <1>10, <1>11, <1>12 DEF Acceptable
  <1> QED BY <1>13, <1>14, AcceptedIf DEF e

\* The choice among ready tasks.
LEMMA ReadyChosen ==
    ASSUME NEW ts \in [TaskIds -> SchedTask], NEW excluded,
           ReadyUserTasks(ts) # {}
    PROVE  Chosen(ts, os_sched_select(ts, excluded), ReadyUserTasks(ts),
                  excluded)
  <1> DEFINE chosen == os_sched_select(ts, excluded)
  <1>1. chosen \in ReadyUserTasks(ts)
    BY SelectReady
  <1>2. CASE Candidates(ts, excluded) = {}
    <2>1. chosen = excluded
      BY <1>1, <1>2 DEF Candidates
    <2> QED BY <1>1, <1>2, <2>1 DEF Candidates, Chosen
  <1>3. CASE Candidates(ts, excluded) # {}
    <2>1. /\ chosen \in Candidates(ts, excluded)
          /\ \A d \in Candidates(ts, excluded) \ {chosen} :
                os_sched_outranks(ts, chosen, d)
      BY <1>3, SelectIsBest
    <2>2. OS_TASK_ID_IDLE \notin Candidates(ts, excluded)
      BY IdTypes DEF Candidates, ReadyUserTasks
    <2>3. \A d \in Candidates(ts, excluded) \ {chosen} :
             PrecedesKey(ts, chosen, d)
      BY <2>1, <2>2 DEF os_sched_outranks
    <2>4. ReadyUserTasks(ts) \ {excluded} = Candidates(ts, excluded)
      BY DEF Candidates
    <2> HIDE DEF chosen
    <2>5. Best(ts, chosen, Candidates(ts, excluded))
      BY <2>1, <2>3 DEF Best
    <2>6. Chosen(ts, chosen, ReadyUserTasks(ts), excluded)
      BY <1>3, <2>4, <2>5 DEF Chosen
    <2> QED BY <2>6 DEF chosen
  <1> QED BY <1>2, <1>3

\* At a dispatch the ready tasks are shown.
LEMMA DispatchShows ==
    ASSUME NEW ts, NEW incumbent
    PROVE  Shown(ts, incumbent, "DISPATCH") = ReadyUserTasks(ts)
  BY DEF Shown, ReadyUserTasks

\* A dispatch of idle shows nobody.
LEMMA IdleDecodes ==
    ASSUME NEW ts \in [TaskIds -> SchedTask], NEW incumbent,
           ReadyUserTasks(ts) = {}
    PROVE  SelectionAccepted(
               os_trace_emit_selection(ts, OS_TASK_ID_IDLE, incumbent,
                                       OS_TASK_ID_INVALID, "DISPATCH"))
  <1> DEFINE e == os_trace_emit_selection(ts, OS_TASK_ID_IDLE, incumbent,
                                          OS_TASK_ID_INVALID, "DISPATCH")
             v == e.values
             shown == Shown(ts, incumbent, "DISPATCH")
  <1>1. shown = {}
    BY DispatchShows
  <1>2. /\ e.task = OS_TASK_ID_IDLE /\ v.excluded = OS_TASK_ID_INVALID
        /\ OS_TASK_ID_INVALID # OS_TASK_ID_IDLE
        /\ v.purpose = "DISPATCH"
        /\ v.reason = selection_reason(ts, shown, OS_TASK_ID_IDLE,
                                       OS_TASK_ID_INVALID)
        /\ v.ready_mask = {id \in UserTasks : IsReady(ts[id])}
        /\ v.eligible_count = Cardinality(shown \ {OS_TASK_ID_INVALID})
        /\ v.candidates = CandidatesOf(ts, shown)
    BY IdTypes DEF os_trace_emit_selection, Event, CandidatesOf, Candidate
  <1>3. v.reason = "IDLE"
    BY <1>2 DEF selection_reason
  <1>4. v.candidates = {} /\ v.ready_mask = {}
    BY <1>1, <1>2 DEF CandidatesOf, ReadyUserTasks
  <1>5. v.eligible_count = 0 /\ Cardinality({}) = 0
    BY <1>1, <1>2, FS_EmptySet
  <1> HIDE DEF e
  <1>6. SelectionAccepted(e)
    BY <1>2, <1>3, <1>4, <1>5 DEF SelectionAccepted
  <1> QED BY <1>6 DEF e

----------------------------------------------------------------------------
\* The records of a step decode.

\* A record decodes, or is of a kind the decoder rejects.
Good(e) == Decodes(e) \/ Disputed(e)

AllGood(s) == \E S : s \in Seq({e \in S : Good(e)})

LEMMA AllGoodMembers ==
    ASSUME NEW s, AllGood(s), NEW i \in DOMAIN s
    PROVE  Good(s[i])
  <1>1. PICK S : s \in Seq({e \in S : Good(e)})
    BY DEF AllGood
  <1>2. s[i] \in {e \in S : Good(e)}
    BY <1>1, ElementOfSeq, LenProperties
  <1> QED BY <1>2

LEMMA AllGoodOne ==
    ASSUME NEW e, Good(e)
    PROVE  AllGood(<<e>>)
  <1>1. e \in {d \in {e} : Good(d)}
    OBVIOUS
  <1>2. <<e>> \in Seq({d \in {e} : Good(d)})
    BY <1>1
  <1> QED BY <1>2 DEF AllGood

LEMMA AllGoodWhen ==
    ASSUME NEW condition, NEW e, condition => Good(e)
    PROVE  AllGood(When(condition, e))
  <1>1. condition => e \in {d \in {e} : Good(d)}
    OBVIOUS
  <1>2. When(condition, e) \in Seq({d \in {e} : Good(d)})
    BY <1>1, WhenSeq
  <1> QED BY <1>2 DEF AllGood

LEMMA AllGoodConcat ==
    ASSUME NEW s, NEW t, AllGood(s), AllGood(t)
    PROVE  AllGood(s \o t)
  <1>1. PICK S : s \in Seq({e \in S : Good(e)})
    BY DEF AllGood
  <1>2. PICK T : t \in Seq({e \in T : Good(e)})
    BY DEF AllGood
  <1> DEFINE both == {e \in S \cup T : Good(e)}
  <1>3. s \in Seq(both)
    <2>1. {e \in S : Good(e)} \subseteq both
      OBVIOUS
    <2> HIDE DEF both
    <2> QED BY <1>1, <2>1
  <1>4. t \in Seq(both)
    <2>1. {e \in T : Good(e)} \subseteq both
      OBVIOUS
    <2> HIDE DEF both
    <2> QED BY <1>2, <2>1
  <1>5. s \o t \in Seq(both)
    BY <1>3, <1>4, ConcatSeq
  <1> QED BY <1>5 DEF AllGood

LEMMA AllGoodFlatten ==
    ASSUME NEW n \in Nat \ {0}, NEW seqs, seqs = [i \in 1 .. n |-> seqs[i]],
           \A i \in 1 .. n : AllGood(seqs[i])
    PROVE  AllGood(FlattenSeq(seqs))
  <1> DEFINE U == UNION {{seqs[i][j] : j \in DOMAIN seqs[i]} : i \in 1 .. n}
             S == {e \in U : Good(e)}
  <1>1. ASSUME NEW i \in 1 .. n PROVE seqs[i] \in Seq(S)
    <2>1. PICK R : seqs[i] \in Seq({e \in R : Good(e)})
      BY <1>1 DEF AllGood
    <2>2. \A j \in DOMAIN seqs[i] : seqs[i][j] \in S
      BY <1>1, AllGoodMembers
    <2>3. /\ Len(seqs[i]) \in Nat /\ DOMAIN seqs[i] = 1 .. Len(seqs[i])
          /\ seqs[i] = [j \in 1 .. Len(seqs[i]) |-> seqs[i][j]]
      BY <2>1, LenProperties
    <2> HIDE DEF S
    <2>4. seqs[i] \in [1 .. Len(seqs[i]) -> S]
      BY <2>2, <2>3
    <2> QED BY <2>3, <2>4
  <1> HIDE DEF S
  <1>2. seqs \in [1 .. n -> Seq(S)]
    BY <1>1
  <1>3. FlattenSeq(seqs) \in Seq(S)
    BY <1>2, FlattenSeqType
  <1> QED BY <1>3 DEF AllGood, S

----------------------------------------------------------------------------
\* A turn of SysTick's loop.

\* The records of a job name it by its number, which is not 0
\* (trace_deadline; _validate_event_payloads).
LEMMA DeadlineGood ==
    ASSUME NEW event \in {"TASK_RELEASE", "TASK_START", "TASK_WAKE",
                          "DEADLINE_MET", "DEADLINE_MISS"},
           NEW id, NEW task, task.job_sequence > 0
    PROVE  Good(trace_deadline(event, id, task))
  BY DEF Good, Decodes, trace_deadline, Event

\* The active job has been counted.
LEMMA ActiveSequence ==
    ASSUME NEW task \in SchedTask, JobsAddUp(task), task.job_active
    PROVE  task.job_sequence > 0
  <1>1. /\ task.job_sequence \in Nat /\ task.completed_job_count \in Nat
        /\ task.job_sequence <= UINT32_MAX
    BY NumberTypes DEF SchedTask
  <1>2. CASE task.job_sequence < UINT32_MAX
    BY <1>1, <1>2 DEF JobsAddUp, ActiveJobs
  <1>3. CASE ~(task.job_sequence < UINT32_MAX)
    BY <1>1, <1>3, NumberTypes
  <1> QED BY <1>2, <1>3

\* A counter that has been incremented is not 0, saturated or not.
LEMMA IncrementPositive ==
    ASSUME NEW n \in Counts
    PROVE  increment_saturating(n) > 0
  BY NumberTypes DEF increment_saturating

\* What the turn's records show: the miss and the wake-up of an active job,
\* the skipped release counted, the released job counted.
LEMMA TickRecords ==
    ASSUME NEW id \in UserTasks, schedules[id] \in SchedTask,
           JobMatches(schedules[id]), JobsAddUp(schedules[id]),
           monotonic_ticks' \in Nat
    PROVE  AllGood(TaskTickEvents(id))
  <1> DEFINE now == monotonic_ticks'
             task == schedules[id]
             charged == os_sched_account_running_tick(task)
             missed == os_sched_record_deadline_miss(charged, now)
             counted == os_sched_record_active_release(missed, now)
             released == ReleasedTick(task, now)
             after == TickTask(task, now)
  <1>1. /\ charged \in SchedTask /\ missed \in SchedTask
        /\ counted \in SchedTask /\ released \in SchedTask
        /\ after \in SchedTask
    BY AccountType, MissType, TickType DEF CountedTick
  <1>2. /\ charged.job_sequence = task.job_sequence
        /\ charged.job_active = task.job_active
        /\ charged.state = task.state
        /\ charged.deadline_miss_latched = task.deadline_miss_latched
    BY DEF os_sched_account_running_tick, SchedTask
  <1>3. task.job_active => task.job_sequence > 0
    BY ActiveSequence
  <1>4. released = os_sched_release_due(counted, now)
    BY DEF ReleasedTick, CountedTick
  <1>5. after = os_sched_wake_due(released, now)
    BY DEF TickTask
  <1> HIDE DEF charged
  <1>6. /\ missed.job_sequence = task.job_sequence
        /\ missed.job_active = task.job_active
        /\ missed.deadline_miss_latched # task.deadline_miss_latched
             => task.job_active
    BY <1>1, <1>2 DEF os_sched_record_deadline_miss, SchedTask
  <1> HIDE DEF missed
  <1>7. /\ counted.job_sequence = task.job_sequence
        /\ counted.job_active = task.job_active
        /\ counted.next_release_order # missed.next_release_order
             => counted.missed_release_count
                  = increment_saturating(missed.missed_release_count)
    BY <1>1, <1>6 DEF os_sched_record_active_release, SchedTask
  <1>8. increment_saturating(missed.missed_release_count) > 0
    BY <1>1, IncrementPositive DEF SchedTask
  <1> HIDE DEF counted
  <1>9. /\ ReleaseIsDue(counted, now) /\ ~released.time_range_exhausted
             => released.job_sequence
                  = increment_saturating(counted.job_sequence)
        /\ released.state = "SLEEPING" => released = counted
    BY <1>1, <1>4
    DEF os_sched_release_due, activate_job, ReleaseIsDue, SchedTask
  <1>10. increment_saturating(counted.job_sequence) > 0
    BY <1>1, IncrementPositive DEF SchedTask
  <1> HIDE DEF released
  <1>11. /\ after.job_sequence = released.job_sequence
         /\ WakeIsDue(released, now) =>
              released.state = "SLEEPING" /\ released.job_active
    BY <1>1, <1>5 DEF os_sched_wake_due, WakeIsDue, SchedTask
  <1> HIDE DEF after
  <1>12. WakeIsDue(released, now) => after.job_sequence > 0
    BY <1>3, <1>7, <1>9, <1>11
  <1>13. AllGood(When(missed.deadline_miss_latched
                        # task.deadline_miss_latched,
                      trace_deadline("DEADLINE_MISS", id, missed)))
    <2>1. ASSUME missed.deadline_miss_latched # task.deadline_miss_latched
          PROVE  Good(trace_deadline("DEADLINE_MISS", id, missed))
      BY <2>1, <1>3, <1>6, DeadlineGood
    <2> QED BY <2>1, AllGoodWhen
  <1>14. AllGood(When(counted.next_release_order # missed.next_release_order,
                      Event("TASK_RELEASE_SKIPPED", id, OS_TASK_ID_INVALID,
                            <<counted.next_release_order
                                - counted.period_ticks,
                              counted.missed_release_count>>)))
    <2>1. ASSUME counted.next_release_order # missed.next_release_order
          PROVE  Good(Event("TASK_RELEASE_SKIPPED", id, OS_TASK_ID_INVALID,
                            <<counted.next_release_order
                                - counted.period_ticks,
                              counted.missed_release_count>>))
      <3>1. counted.missed_release_count > 0
        BY <2>1, <1>7, <1>8
      <3> QED BY <3>1 DEF Good, Decodes, Event
    <2> QED BY <2>1, AllGoodWhen
  <1>15. AllGood(When(ReleaseIsDue(counted, now)
                        /\ ~released.time_range_exhausted,
                      trace_deadline("TASK_RELEASE", id, released)))
    <2>1. ASSUME ReleaseIsDue(counted, now), ~released.time_range_exhausted
          PROVE  Good(trace_deadline("TASK_RELEASE", id, released))
      BY <2>1, <1>9, <1>10, DeadlineGood
    <2> QED BY <2>1, AllGoodWhen
  <1>16. AllGood(When(WakeIsDue(released, now),
                      trace_deadline("TASK_WAKE", id, after)))
    <2>1. ASSUME WakeIsDue(released, now)
          PROVE  Good(trace_deadline("TASK_WAKE", id, after))
      BY <2>1, <1>12, DeadlineGood
    <2> QED BY <2>1, AllGoodWhen
  <1> QED
    BY <1>13, <1>14, <1>15, <1>16, AllGoodConcat
    DEF TaskTickEvents, after, released, counted, missed, charged

\* The table once SysTick's loop is through, before a preemption.
Ticked == [id \in TaskIds |->
             IF id = OS_TASK_ID_IDLE THEN schedules[id]
             ELSE TickTask(schedules[id], monotonic_ticks + 1)]

TickCandidate == os_sched_select(Ticked, OS_TASK_ID_INVALID)

\* What a tick that counts does, in these terms (os_kernel_tick).
LEMMA TickShape ==
    ASSUME KernelInv, SysTick, monotonic_ticks' # monotonic_ticks
    PROVE  /\ panics = {} /\ monotonic_ticks \in Nat
           /\ monotonic_ticks' = monotonic_ticks + 1
           /\ UNCHANGED current_task /\ current_task \in TaskIdsOrInvalid
           /\ Ticked \in [TaskIds -> SchedTask]
           /\ \A id \in UserTasks :
                 /\ JobMatches(Ticked[id])
                 /\ \/ Ticked[id].state = schedules[id].state
                    \/ /\ schedules[id].state \in {"WAITING_RELEASE",
                                                   "SLEEPING"}
                       /\ Ticked[id].state = "READY"
           /\ Ticked[OS_TASK_ID_IDLE] = schedules[OS_TASK_ID_IDLE]
           /\ \/ schedules' = Ticked
              \/ /\ current_task # OS_TASK_ID_INVALID
                 /\ Ticked[current_task].state = "RUNNING"
                 /\ TickCandidate \in UserTasks
                 /\ os_sched_outranks(Ticked, TickCandidate, current_task)
                 /\ schedules' = [Ticked EXCEPT
                                    ![current_task].state = "READY"]
                 /\ "SYSTICK" \in pending_preempt_sources'
  <1>1. /\ StructureInv /\ TimeInv /\ panics = {}
        /\ monotonic_ticks # UINT64_MAX
    BY DEF KernelInv, SysTick
  <1>2. /\ monotonic_ticks' = monotonic_ticks + 1
        /\ UNCHANGED current_task /\ current_task \in TaskIdsOrInvalid
    BY <1>1 DEF SysTick, identity, StructureInv, TypeOK
  <1>3. /\ monotonic_ticks \in Nat /\ schedules \in [TaskIds -> SchedTask]
        /\ \A id \in UserTasks : JobMatches(schedules[id])
    BY <1>1, TimeBefore
  <1>4. monotonic_ticks + 1 \in Nat
    BY <1>3
  <1>5. \A id \in UserTasks :
           /\ Ticked[id] = TickTask(schedules[id], monotonic_ticks + 1)
           /\ schedules[id] \in SchedTask
    BY <1>3, IdTypes DEF Ticked
  <1>6. \A id \in UserTasks :
           /\ Ticked[id] \in SchedTask
           /\ JobMatches(Ticked[id])
           /\ \/ Ticked[id].state = schedules[id].state
              \/ /\ schedules[id].state \in {"WAITING_RELEASE", "SLEEPING"}
                 /\ Ticked[id].state = "READY"
    BY <1>3, <1>4, <1>5, TickEffect, TickType
  <1>7. Ticked[OS_TASK_ID_IDLE] = schedules[OS_TASK_ID_IDLE]
    BY IdTypes DEF Ticked
  <1>8. \A id \in TaskIds : Ticked[id] \in SchedTask
    BY <1>3, <1>6, <1>7, IdTypes
  <1>9. Ticked \in [TaskIds -> SchedTask]
    BY <1>8 DEF Ticked
  <1>10. \/ schedules' = Ticked
         \/ /\ current_task # OS_TASK_ID_INVALID
            /\ Ticked[current_task].state = "RUNNING"
            /\ TickCandidate \in UserTasks
            /\ os_sched_outranks(Ticked, TickCandidate, current_task)
            /\ schedules' = [Ticked EXCEPT ![current_task].state = "READY"]
            /\ "SYSTICK" \in pending_preempt_sources'
    BY <1>1 DEF SysTick, Ticked, TickCandidate, record_preemption_request
  <1> QED BY <1>1, <1>2, <1>3, <1>6, <1>7, <1>9, <1>10

\* A task that runs before the tick and is READY after it has been preempted:
\* the table its probe shows is the one SysTick chose from.
LEMMA TickPreempts ==
    ASSUME KernelInv, SysTick, monotonic_ticks' # monotonic_ticks,
           current_task # OS_TASK_ID_INVALID,
           schedules[current_task].state = "RUNNING",
           schedules'[current_task].state = "READY"
    PROVE  /\ Ticked[current_task].state = "RUNNING"
           /\ TickCandidate \in UserTasks
           /\ os_sched_outranks(Ticked, TickCandidate, current_task)
           /\ [schedules' EXCEPT ![current_task].state = "RUNNING"] = Ticked
  <1>1. current_task \in TaskIds /\ Ticked \in [TaskIds -> SchedTask]
    BY TickShape, IdTypes
  <1>2. Ticked[current_task].state = "RUNNING"
    BY <1>1, TickShape, IdTypes
  <1>3. schedules' # Ticked
    BY <1>2
  <1>4. /\ TickCandidate \in UserTasks
        /\ os_sched_outranks(Ticked, TickCandidate, current_task)
        /\ schedules' = [Ticked EXCEPT ![current_task].state = "READY"]
    BY <1>3, TickShape
  <1>5. Ticked[current_task] \in SchedTask
    BY <1>1
  <1>6. [[Ticked[current_task] EXCEPT !.state = "READY"]
           EXCEPT !.state = "RUNNING"] = Ticked[current_task]
    BY <1>2, <1>5 DEF SchedTask
  <1>7. [schedules' EXCEPT ![current_task].state = "RUNNING"] = Ticked
    BY <1>1, <1>4, <1>6
  <1> QED BY <1>2, <1>4, <1>7

\* The probe that records a preemption.
LEMMA ProbeDecodes ==
    ASSUME KernelInv, SysTick, monotonic_ticks' # monotonic_ticks,
           current_task # OS_TASK_ID_INVALID,
           schedules[current_task].state = "RUNNING",
           schedules'[current_task].state = "READY"
    PROVE  SelectionAccepted(
               os_trace_emit_selection(Ticked, TickCandidate, current_task,
                   OS_TASK_ID_INVALID, "SYSTICK_PROBE"))
  <1> DEFINE chosen == TickCandidate
             shown == Shown(Ticked, current_task, "SYSTICK_PROBE")
  <1>1. /\ current_task \in TaskIds /\ Ticked \in [TaskIds -> SchedTask]
        /\ \A id \in UserTasks : JobMatches(Ticked[id])
    BY TickShape, IdTypes
  <1>2. /\ Ticked[current_task].state = "RUNNING"
        /\ chosen \in UserTasks
        /\ os_sched_outranks(Ticked, chosen, current_task)
    BY TickPreempts
  <1>3. IsReady(Ticked[chosen]) /\ Ticked[chosen].state = "READY"
    BY <1>2 DEF os_sched_outranks, IsReady
  <1>4. /\ Candidates(Ticked, OS_TASK_ID_INVALID) = ReadyUserTasks(Ticked)
        /\ chosen \in ReadyUserTasks(Ticked)
    BY <1>2, <1>3, IdTypes DEF Candidates, ReadyUserTasks
  <1>5. \A d \in ReadyUserTasks(Ticked) \ {chosen} :
           os_sched_outranks(Ticked, chosen, d)
    BY <1>1, <1>4, SelectIsBest DEF TickCandidate
  <1>6. /\ shown \subseteq ReadyUserTasks(Ticked) \cup {current_task}
        /\ shown \subseteq UserTasks
        /\ chosen \in shown
    BY <1>4 DEF Shown, ReadyUserTasks
  <1> HIDE DEF shown, chosen
  <1>7. \A d \in shown \ {chosen} :
           os_sched_outranks(Ticked, chosen, d) /\ d # OS_TASK_ID_IDLE
    BY <1>2, <1>5, <1>6, IdTypes
  <1>8. \A d \in shown \ {chosen} : PrecedesKey(Ticked, chosen, d)
    BY <1>7 DEF os_sched_outranks
  <1>9. shown \ {OS_TASK_ID_INVALID} = shown
    BY <1>6, IdTypes
  <1>10. Best(Ticked, chosen, shown)
    BY <1>6, <1>8 DEF Best
  <1>11. Chosen(Ticked, chosen, shown, OS_TASK_ID_INVALID)
    BY <1>6, <1>9, <1>10 DEF Chosen
  <1>12. current_task \in UserTasks => Ticked[current_task].job_active
    BY <1>1, <1>2 DEF JobMatches, ActiveStates
  <1>13. current_task # chosen
    BY <1>2, <1>3
  <1>14. /\ OS_TASK_ID_INVALID \in TaskIdsOrInvalid
         /\ OS_TASK_ID_INVALID # OS_TASK_ID_IDLE
    BY IdTypes
  <1>15. SelectionAccepted(
             os_trace_emit_selection(Ticked, chosen, current_task,
                 OS_TASK_ID_INVALID, "SYSTICK_PROBE"))
    BY <1>1, <1>2, <1>11, <1>12, <1>13, <1>14, SelectionDecodes DEF shown
  <1> QED BY <1>15 DEF chosen

\* All the records of a tick (os_kernel_tick).
LEMMA SysTickGood ==
    ASSUME KernelInv, SysTick
    PROVE  AllGood(TickEvents)
  <1>1. CASE monotonic_ticks' = monotonic_ticks
    <2>1. << >> \in Seq({e \in {} : Good(e)})
      OBVIOUS
    <2>2. AllGood(<< >>)
      BY <2>1 DEF AllGood
    <2> QED BY <1>1, <2>2 DEF TickEvents
  <1>2. CASE monotonic_ticks' # monotonic_ticks
    <2> DEFINE preempts == /\ current_task # OS_TASK_ID_INVALID
                           /\ schedules[current_task].state = "RUNNING"
                           /\ schedules'[current_task].state = "READY"
               ticked == [schedules' EXCEPT ![current_task].state = "RUNNING"]
               turns == [id \in UserTasks |-> TaskTickEvents(id)]
               probe == os_trace_emit_selection(ticked,
                            os_sched_select(ticked, OS_TASK_ID_INVALID),
                            current_task, OS_TASK_ID_INVALID, "SYSTICK_PROBE")
    <2>1. monotonic_ticks' \in Nat /\ StructureInv /\ TimeInv /\ panics = {}
      BY <1>2, TickShape DEF KernelInv
    <2>2. \A id \in UserTasks : AllGood(TaskTickEvents(id))
      BY <2>1, TimeBefore, TickRecords DEF Timely
    <2>3. AllGood(FlattenSeq(turns))
      <3>1. OS_MAX_USER_TASKS \in Nat \ {0}
        BY SchedulerConstants
      <3>2. turns = [i \in 1 .. OS_MAX_USER_TASKS |-> turns[i]]
        BY DEF UserTasks
      <3>3. \A i \in 1 .. OS_MAX_USER_TASKS : AllGood(turns[i])
        BY <2>2 DEF UserTasks
      <3> HIDE DEF turns
      <3> QED BY <3>1, <3>2, <3>3, AllGoodFlatten
    <2>4. preempts => Good(probe)
      <3> SUFFICES ASSUME preempts PROVE Good(probe)
        OBVIOUS
      <3>1. ticked = Ticked
        BY <1>2, TickPreempts
      <3>2. SelectionAccepted(probe)
        BY <1>2, <3>1, ProbeDecodes DEF TickCandidate
      <3>3. probe.event = "TASK_SELECT"
        BY DEF os_trace_emit_selection, Event
      <3> HIDE DEF probe
      <3> QED BY <3>2, <3>3 DEF Good, Decodes
    <2> HIDE DEF turns, preempts, probe
    <2>5. AllGood(When(preempts, probe))
      BY <2>4, AllGoodWhen
    <2>6. AllGood(FlattenSeq(turns) \o When(preempts, probe))
      BY <2>3, <2>5, AllGoodConcat
    <2> QED BY <1>2, <2>6 DEF TickEvents, turns, preempts, probe
  <1> QED BY <1>1, <1>2

----------------------------------------------------------------------------
\* The other steps' records.

\* The slot a creation fills is the one whose stack it claims.
CreatedSlot == CHOOSE id \in UserTasks :
                  tasks'[id].stack_claimed /\ ~tasks[id].stack_claimed

LEMMA CreateShape ==
    ASSUME KernelInv, NEW config \in Configs, os_task_create(config)
    PROVE  /\ CreatedSlot \in FreeSlots
           /\ schedules' =
                [schedules EXCEPT ![CreatedSlot] =
                    os_sched_task_configure(config, monotonic_ticks)]
           /\ LET after == schedules'[CreatedSlot] IN
              /\ after.state \in {"WAITING_RELEASE", "READY"}
              /\ after.state = "READY" => after.job_sequence > 0
           /\ running => current_task # OS_TASK_ID_IDLE
  <1> DEFINE slot == CHOOSE s \in FreeSlots : \A t \in FreeSlots : s <= t
             after == os_sched_task_configure(config, monotonic_ticks)
  <1>1. StructureInv /\ TypeOK
    BY DEF KernelInv, StructureInv
  <1>2. /\ FreeSlots # {} /\ ConfigureAccepts(config, monotonic_ticks)
        /\ schedules' = [schedules EXCEPT ![slot] = after]
        /\ tasks' = [tasks EXCEPT ![slot].stack_claimed = TRUE]
        /\ cpu = "main" \/ UserTaskExecutes
    BY DEF os_task_create
  <1>3. slot \in FreeSlots
    BY <1>2, LowestFreeSlot
  <1> HIDE DEF slot
  <1>4. slot \in UserTasks /\ slot \in TaskIds /\ ~tasks[slot].stack_claimed
    BY <1>3, IdTypes DEF FreeSlots
  <1>5. tasks \in [TaskIds -> [stack_claimed : BOOLEAN, started : BOOLEAN]]
    BY <1>1 DEF TypeOK
  <1>6. tasks'[slot].stack_claimed
    BY <1>2, <1>4, <1>5
  <1>7. \A id \in UserTasks : id # slot => tasks'[id] = tasks[id]
    BY <1>2, <1>5, IdTypes
  <1>8. CreatedSlot = slot
    BY <1>4, <1>6, <1>7 DEF CreatedSlot
  <1>9. config \in TimingConfig /\ monotonic_ticks \in Orders
    BY <1>1, KernelConstants DEF TypeOK
  <1>10. /\ after.state \in {"WAITING_RELEASE", "READY"} /\ JobMatches(after)
         /\ Timely(after, monotonic_ticks)
    BY <1>2, <1>9, ConfigureEffect, ConfigureTimely
  <1>11. schedules'[slot] = after /\ after \in SchedTask
    <2>1. schedules \in [TaskIds -> SchedTask]
      BY <1>1 DEF TypeOK
    <2>2. schedules' \in [TaskIds -> SchedTask]
      BY <1>1, CreateType DEF TypeOK
    <2> HIDE DEF after
    <2> QED BY <1>2, <1>4, <2>1, <2>2
  <1> HIDE DEF after
  <1>12. after.state = "READY" => after.job_sequence > 0
    BY <1>10, <1>11, ActiveSequence DEF JobMatches, ActiveStates, Timely
  <1>13. running => current_task # OS_TASK_ID_IDLE
    BY <1>1, <1>2 DEF UserTaskExecutes, StructureInv, ContextInv
  <1> QED BY <1>2, <1>3, <1>8, <1>10, <1>11, <1>12, <1>13 DEF after

\* A creation's probe decodes, unless a candidate it shows precedes the new
\* task (os_task_create): the decoder takes the probe for a choice, and the
\* kernel compares the new task with its creator only.
LEMMA CreateProbeGood ==
    ASSUME KernelInv, NEW config \in Configs, os_task_create(config), running,
           os_sched_outranks(schedules', CreatedSlot, current_task)
    PROVE  Good(os_trace_emit_selection(schedules', CreatedSlot, current_task,
                    OS_TASK_ID_INVALID, "RUNTIME_CREATE_PROBE"))
  <1> DEFINE slot == CreatedSlot
             ts == schedules'
             shown == Shown(ts, current_task, "RUNTIME_CREATE_PROBE")
             probe == os_trace_emit_selection(ts, slot, current_task,
                          OS_TASK_ID_INVALID, "RUNTIME_CREATE_PROBE")
  <1>1. /\ StructureInv /\ TypeOK /\ slot \in FreeSlots
        /\ ts = [schedules EXCEPT
                   ![slot] = os_sched_task_configure(config, monotonic_ticks)]
        /\ current_task # OS_TASK_ID_IDLE
    BY CreateShape DEF KernelInv, StructureInv
  <1>2. slot \in UserTasks /\ slot \in TaskIds /\ ~tasks[slot].stack_claimed
    BY <1>1, IdTypes DEF FreeSlots
  <1>3. ts \in [TaskIds -> SchedTask]
    BY <1>1, CreateType DEF TypeOK
  <1>4. caller_is_running_task /\ cpu # "main"
    BY <1>1 DEF os_task_create, StructureInv, ContextInv
  <1>5. /\ current_task \in UserTasks /\ current_task \in TaskIds
        /\ schedules[current_task].state = "RUNNING"
    BY <1>1, <1>4, IdTypes DEF caller_is_running_task, TypeOK, Current
  <1>6. schedules[current_task].job_active /\ current_task # slot
    BY <1>1, <1>2, <1>5 DEF StructureInv, SlotsConsistent, OccupantInv
  <1>7. ts[current_task] = schedules[current_task]
    BY <1>1, <1>2, <1>5, <1>6 DEF TypeOK
  <1>8. slot \in shown /\ shown \in SUBSET UserTasks
    BY <1>1, <1>2 DEF os_sched_outranks, Shown
  <1>9. /\ probe.event = "TASK_SELECT" /\ probe.task = slot
        /\ probe.values.purpose = "RUNTIME_CREATE_PROBE"
        /\ probe.values.candidates = CandidatesOf(ts, shown)
    BY DEF os_trace_emit_selection, Event, CandidatesOf, Candidate
  <1> HIDE DEF slot, ts, shown, probe
  <1>10. CASE \E d \in shown : PrecedesKey(ts, d, slot)
    <2>1. PICK d \in shown : PrecedesKey(ts, d, slot)
      BY <1>10
    <2>2. CandidateBefore(Candidate(ts, d), Candidate(ts, slot))
      BY <1>2, <1>3, <1>8, <2>1, SameOrder
    <2>3. /\ Candidate(ts, d) \in probe.values.candidates
          /\ Candidate(ts, slot) \in probe.values.candidates
          /\ Candidate(ts, slot).task = probe.task
      BY <1>8, <1>9 DEF CandidatesOf, Candidate
    <2> QED BY <1>9, <2>2, <2>3 DEF Good, Disputed, probe, ts, slot
  <1>11. CASE \A d \in shown : ~PrecedesKey(ts, d, slot)
    <2>1. Best(ts, slot, shown)
      <3>1. ASSUME NEW d \in shown \ {slot} PROVE PrecedesKey(ts, slot, d)
        <4>1. d \in UserTasks /\ d \in TaskIds /\ ~PrecedesKey(ts, d, slot)
          BY <1>8, <1>11, <3>1, IdTypes
        <4>2. /\ ts[slot].absolute_deadline_order \in Int
              /\ ts[d].absolute_deadline_order \in Int
              /\ ts[slot].priority \in Int /\ ts[d].priority \in Int
              /\ slot \in Int /\ d \in Int
          BY <1>2, <1>3, <4>1, KeyTypes
        <4> QED BY <3>1, <4>1, <4>2 DEF PrecedesKey
      <3> QED BY <1>8, <3>1 DEF Best
    <2>2. shown \ {OS_TASK_ID_INVALID} = shown /\ shown # {}
      BY <1>8, IdTypes
    <2>3. Chosen(ts, slot, shown, OS_TASK_ID_INVALID)
      BY <2>1, <2>2 DEF Chosen
    <2>4. /\ OS_TASK_ID_INVALID \in TaskIdsOrInvalid
          /\ OS_TASK_ID_INVALID # OS_TASK_ID_IDLE
      BY IdTypes
    <2>5. SelectionAccepted(probe)
      BY <1>2, <1>3, <1>5, <1>6, <1>7, <2>3, <2>4, SelectionDecodes
      DEF shown, probe
    <2> QED BY <1>9, <2>5 DEF Good, Decodes, probe, ts, slot
  <1> QED BY <1>10, <1>11

\* A creation's records (os_task_create).
LEMMA CreateGood ==
    ASSUME KernelInv, NEW config \in Configs, os_task_create(config)
    PROVE  AllGood(CreateEvents(CreatedSlot))
  <1> DEFINE id == CreatedSlot
             task == schedules'[id]
             creator == IF running THEN current_task ELSE OS_TASK_ID_INVALID
             created == Event("TASK_CREATE", id, creator,
                              <<task.kind, task.priority, task.state>>)
             released == trace_deadline("TASK_RELEASE", id, task)
             outranks == os_sched_outranks(schedules', id, current_task)
             probe == os_trace_emit_selection(schedules', id, current_task,
                          OS_TASK_ID_INVALID, "RUNTIME_CREATE_PROBE")
  <1>1. /\ task.state \in {"WAITING_RELEASE", "READY"}
        /\ task.state = "READY" => task.job_sequence > 0
        /\ creator # OS_TASK_ID_IDLE
    BY CreateShape, IdTypes
  <1>2. Good(created)
    <2>1. created.values[3] \in {"WAITING_RELEASE", "READY"}
      BY <1>1 DEF Event
    <2>2. created.event = "TASK_CREATE" /\ created.related = creator
      BY DEF Event
    <2> HIDE DEF created, creator
    <2> QED BY <1>1, <2>1, <2>2 DEF Good, Decodes
  <1>3. task.state = "READY" => Good(released)
    BY <1>1, DeadlineGood
  <1>4. running /\ outranks => Good(probe)
    BY CreateProbeGood
  <1> HIDE DEF created, released, probe, task, outranks
  <1>5. AllGood(<<created>>)
    BY <1>2, AllGoodOne
  <1>6. AllGood(When(task.state = "READY", released))
    BY <1>3, AllGoodWhen
  <1>7. AllGood(When(running /\ outranks, probe))
    BY <1>4, AllGoodWhen
  <1>8. AllGood(<<created>> \o When(task.state = "READY", released)
                \o When(running /\ outranks, probe))
    BY <1>5, <1>6, <1>7, AllGoodConcat
  <1> QED BY <1>8 DEF CreateEvents, created, released, probe, task, outranks

\* os_svc_sleep_c: a sleeper sleeps at least one tick, from now.
LEMMA SleepGood ==
    ASSUME KernelInv, NEW sleep_ticks \in SleepTicks, SvcSleep(sleep_ticks),
           panics' = {}
    PROVE  AllGood(<<CallEvent("TASK_SLEEP",
                               <<schedules'[current_task].wake_order,
                                 sleep_ticks>>)>>)
  <1> DEFINE wake == schedules'[current_task].wake_order
             e == CallEvent("TASK_SLEEP", <<wake, sleep_ticks>>)
  <1>1. StructureInv /\ TypeOK /\ UserTaskExecutes /\ ~primask
    BY DEF KernelInv, StructureInv, SvcSleep, SystemCall
  <1>2. /\ current_task \in UserTasks /\ current_task \in TaskIds
        /\ schedules \in [TaskIds -> SchedTask]
        /\ Caller \in SchedTask
    BY <1>1, QuietThread, IdTypes DEF TypeOK, Caller, Current
  <1>3. /\ sleep_ticks \in Intervals \ {0}
        /\ UNCHANGED monotonic_ticks
        /\ SleepAccepts(Caller, monotonic_ticks, sleep_ticks)
        /\ schedules' = [schedules EXCEPT ![current_task] =
                            os_sched_sleep(Caller, monotonic_ticks,
                                           sleep_ticks)]
    BY DEF SvcSleep, SystemCall, Check
  <1>4. wake = monotonic_ticks + sleep_ticks
    BY <1>2, <1>3 DEF os_sched_sleep, SchedTask
  <1>5. /\ monotonic_ticks \in Nat /\ sleep_ticks \in Nat /\ sleep_ticks > 0
    BY <1>1, <1>3, TickIsNat, NumberTypes
  <1>6. wake >= monotonic_ticks' /\ sleep_ticks > 0
    BY <1>3, <1>4, <1>5
  <1> HIDE DEF wake
  <1>7. Good(e)
    BY <1>6 DEF Good, Decodes, CallEvent, Event
  <1> QED BY <1>7, AllGoodOne DEF wake

\* A completed job is counted, and its outcome names it.
LEMMA OutcomeGood ==
    ASSUME KernelInv, NEW state \in {"EXITING", "WAITING_RELEASE"},
           UserTaskExecutes, ~primask,
           schedules' = [schedules EXCEPT ![current_task] =
                            [os_sched_complete_job(Caller, monotonic_ticks)
                               EXCEPT !.state = state]]
    PROVE  /\ current_task \in UserTasks
           /\ schedules'[current_task].state = state
           /\ schedules'[current_task].completed_job_count > 0
           /\ AllGood(OutcomeEvents(Caller, schedules'[current_task]))
  <1> DEFINE after == schedules'[current_task]
             missed == os_sched_record_deadline_miss(Caller, monotonic_ticks)
  <1>1. StructureInv /\ TypeOK /\ TimeInv /\ panics = {}
    BY DEF KernelInv, StructureInv, UserTaskExecutes, ThreadExecutes
  <1>2. /\ current_task \in UserTasks /\ current_task \in TaskIds
        /\ schedules \in [TaskIds -> SchedTask]
        /\ Caller \in SchedTask /\ Caller.job_active
    BY <1>1, QuietThread, IdTypes DEF TypeOK, Caller, Current
  <1>3. Caller.job_sequence > 0
    BY <1>1, <1>2, ActiveSequence DEF TimeInv, Timely, Caller
  <1>4. monotonic_ticks \in Nat
    BY <1>1, TickIsNat
  <1>5. missed \in SchedTask /\ missed.job_sequence = Caller.job_sequence
    <2>1. missed \in SchedTask
      BY <1>2, <1>4, MissType
    <2> QED BY <1>2, <2>1 DEF os_sched_record_deadline_miss, SchedTask
  <1>6. after = [os_sched_complete_job(Caller, monotonic_ticks)
                   EXCEPT !.state = state]
    BY <1>2
  <1> HIDE DEF missed, after
  <1>7. /\ after.job_sequence = missed.job_sequence
        /\ after.state = state
        /\ after.completed_job_count
             = increment_saturating(missed.completed_job_count)
    BY <1>5, <1>6 DEF os_sched_complete_job, SchedTask, missed
  <1>8. after.completed_job_count > 0 /\ after.job_sequence > 0
    BY <1>3, <1>5, <1>7, IncrementPositive DEF SchedTask
  <1>9. /\ Good(trace_deadline("DEADLINE_MISS", current_task, after))
        /\ Good(trace_deadline("DEADLINE_MET", current_task, after))
    BY <1>8, DeadlineGood
  <1>10. /\ AllGood(When(~Caller.deadline_miss_latched
                           /\ after.deadline_miss_latched,
                         trace_deadline("DEADLINE_MISS", current_task, after)))
         /\ AllGood(When(~after.deadline_miss_latched,
                         trace_deadline("DEADLINE_MET", current_task, after)))
    BY <1>9, AllGoodWhen
  <1>11. AllGood(OutcomeEvents(Caller, after))
    BY <1>10, AllGoodConcat DEF OutcomeEvents
  <1> QED BY <1>2, <1>7, <1>8, <1>11 DEF after

LEMMA AllGoodAppend ==
    ASSUME NEW s, NEW e, AllGood(s), Good(e)
    PROVE  AllGood(Append(s, e))
  <1>1. PICK S : s \in Seq({d \in S : Good(d)})
    BY DEF AllGood
  <1> DEFINE both == {d \in S \cup {e} : Good(d)}
  <1>2. s \in Seq(both) /\ e \in both
    <2>1. {d \in S : Good(d)} \subseteq both /\ e \in both
      OBVIOUS
    <2> HIDE DEF both
    <2> QED BY <1>1, <2>1
  <1> HIDE DEF both
  <1>3. Append(s, e) \in Seq(both)
    BY <1>2
  <1> QED BY <1>3 DEF AllGood, both

\* os_svc_exit_c
LEMMA ExitGood ==
    ASSUME KernelInv, SvcExit, panics' = {}
    PROVE  AllGood(ExitEvents)
  <1>1. /\ UserTaskExecutes /\ ~primask
        /\ schedules' = [schedules EXCEPT ![current_task] =
                            [os_sched_complete_job(Caller, monotonic_ticks)
                               EXCEPT !.state = "EXITING"]]
    BY DEF SvcExit, SystemCall, Check
  <1> DEFINE after == schedules'[current_task]
             e == CallEvent("TASK_EXIT", <<after.completed_job_count,
                                           after.deadline_miss_count>>)
  <1>2. /\ current_task \in UserTasks
        /\ after.completed_job_count > 0
        /\ AllGood(OutcomeEvents(Caller, after))
    BY <1>1, OutcomeGood
  <1> HIDE DEF after
  <1>3. Good(e)
    BY <1>2, IdTypes DEF Good, Decodes, CallEvent, Event
  <1> HIDE DEF e
  <1>4. AllGood(Append(OutcomeEvents(Caller, after), e))
    BY <1>2, <1>3, AllGoodAppend
  <1> QED BY <1>4 DEF ExitEvents, after, e

\* os_svc_wait_next_period_c: the release that is waited for is to come.
LEMMA WaitGood ==
    ASSUME KernelInv, KernelInv', SvcWaitNextPeriod, panics' = {}
    PROVE  AllGood(WaitEvents)
  <1>1. /\ UserTaskExecutes /\ ~primask
        /\ schedules' = [schedules EXCEPT ![current_task] =
                            [os_sched_complete_job(Caller, monotonic_ticks)
                               EXCEPT !.state = "WAITING_RELEASE"]]
    BY DEF SvcWaitNextPeriod, SystemCall, Check, os_sched_wait_next_period
  <1> DEFINE after == schedules'[current_task]
             e == CallEvent("TASK_WAIT_PERIOD", <<after.next_release_order>>)
  <1>2. /\ current_task \in UserTasks
        /\ after.state = "WAITING_RELEASE"
        /\ AllGood(OutcomeEvents(Caller, after))
    BY <1>1, OutcomeGood
  <1>3. OnTime(schedules'[current_task], monotonic_ticks')
    BY <1>2 DEF KernelInv, TimeInv
  <1>4. monotonic_ticks' < after.next_release_order
    BY <1>2, <1>3 DEF OnTime
  <1>5. monotonic_ticks' \in Nat /\ after.next_release_order \in Nat
    <2>1. TypeOK'
      BY DEF KernelInv, StructureInv
    <2>2. monotonic_ticks' \in Orders /\ after \in SchedTask
      BY <1>2, <2>1, IdTypes DEF TypeOK
    <2> HIDE DEF after
    <2> QED BY <2>2, NumberTypes DEF SchedTask
  <1> HIDE DEF after
  <1>6. after.next_release_order > monotonic_ticks'
    BY <1>4, <1>5
  <1>7. Good(e)
    BY <1>6 DEF Good, Decodes, CallEvent, Event
  <1> HIDE DEF e
  <1>8. AllGood(Append(OutcomeEvents(Caller, after), e))
    BY <1>2, <1>7, AllGoodAppend
  <1> QED BY <1>8 DEF WaitEvents, after, e

----------------------------------------------------------------------------
\* A switch's records.

\* Idle never yields.
ExcludedInv == yield_excluded_task # OS_TASK_ID_IDLE

\* The table the record shows is the one os_pendsv_switch chose from.
LEMMA SavedShown ==
    ASSUME KernelInv, os_pendsv_switch
    PROVE  /\ current_task' = Selected /\ Selected \in TaskIds
           /\ Saved \in [TaskIds -> SchedTask]
           /\ schedules' = [Saved EXCEPT ![Selected].state = "RUNNING"]
           /\ [schedules' EXCEPT ![Selected].state = "READY"] = Saved
  <1>1. StructureInv /\ cpu = "pendsv_in"
    BY DEF KernelInv, os_pendsv_switch
  <1>2. /\ Saved \in [TaskIds -> SchedTask]
        /\ Selected \in TaskIds /\ Saved[Selected].state = "READY"
    BY <1>1, ParkedEffect, SelectedIsReady
  <1>3. /\ current_task' = Selected
        /\ schedules' = [Saved EXCEPT ![Selected].state = "RUNNING"]
    BY <1>1, SwitchEffect
  <1>4. [[Saved[Selected] EXCEPT !.state = "RUNNING"]
           EXCEPT !.state = "READY"] = Saved[Selected]
    <2>1. Saved[Selected] \in SchedTask
      BY <1>2
    <2> QED BY <1>2, <2>1 DEF SchedTask
  <1> QED BY <1>2, <1>3, <1>4

\* Whoever was READY before the switch may be chosen at it.
LEMMA ReadyAtSwitch ==
    ASSUME KernelInv, os_pendsv_switch, NEW id \in UserTasks,
           schedules[id].state = "READY"
    PROVE  id \in ReadyUserTasks(Saved)
  <1>1. StructureInv /\ cpu = "pendsv_in"
    BY DEF KernelInv, os_pendsv_switch
  <1>2. Saved[id] = schedules[id]
    BY <1>1, ParkedEffect, IdTypes DEF Current
  <1>3. JobMatches(Saved[id])
    BY <1>1, ParkedEffect
  <1> QED BY <1>2, <1>3 DEF ReadyUserTasks, IsReady, JobMatches, ActiveStates

\* Every dispatch explains itself, that of idle too.
LEMMA DispatchDecodes ==
    ASSUME KernelInv, ExcludedInv, os_pendsv_switch
    PROVE  /\ SelectionAccepted(
                  os_trace_emit_selection(Saved, Selected, current_task,
                      yield_excluded_task, "DISPATCH"))
           /\ ReadyUserTasks(Saved) # {} => Selected \in UserTasks
  <1>1. /\ StructureInv /\ UrgencyInv /\ cpu = "pendsv_in"
        /\ yield_excluded_task \in TaskIdsOrInvalid
        /\ Saved \in [TaskIds -> SchedTask] /\ Selected \in TaskIds
    BY SavedShown DEF KernelInv, os_pendsv_switch, StructureInv, TypeOK
  <1>2. CASE ReadyUserTasks(Saved) # {}
    <2>1. Selected \in ReadyUserTasks(Saved)
      BY <1>1, <1>2, SelectReady DEF Selected
    <2>2. Selected \in UserTasks
      BY <2>1 DEF ReadyUserTasks
    <2>3. Chosen(Saved, Selected, ReadyUserTasks(Saved), yield_excluded_task)
      BY <1>1, <1>2, ReadyChosen DEF Selected
    <2>4. Chosen(Saved, Selected, Shown(Saved, current_task, "DISPATCH"),
                 yield_excluded_task)
      BY <2>3, DispatchShows
    <2>5. SelectionAccepted(
              os_trace_emit_selection(Saved, Selected, current_task,
                  yield_excluded_task, "DISPATCH"))
      BY <1>1, <2>2, <2>4, SelectionDecodes DEF ExcludedInv
    <2> QED BY <2>2, <2>5
  <1>3. CASE ReadyUserTasks(Saved) = {}
    <2>1. yield_excluded_task = OS_TASK_ID_INVALID
      <3> SUFFICES ASSUME yield_excluded_task # OS_TASK_ID_INVALID
                   PROVE  FALSE
        OBVIOUS
      <3>1. yield_excluded_task = current_task /\ Current.state = "READY"
        BY <1>1 DEF UrgencyInv, StructureInv, YieldInv
      <3>2. current_task \in UserTasks
        BY <1>1, <3>1, IdTypes DEF ExcludedInv
      <3> QED BY <1>3, <3>1, <3>2, ReadyAtSwitch DEF Current
    <2>2. Selected = OS_TASK_ID_IDLE
      <3>1. Selected \notin UserTasks
        <4>1. Saved[Selected].state = "READY"
          BY <1>1, SelectedIsReady
        <4>2. Selected \in UserTasks => JobMatches(Saved[Selected])
          BY <1>1, ParkedEffect
        <4> QED
          BY <1>3, <4>1, <4>2
          DEF ReadyUserTasks, IsReady, JobMatches, ActiveStates
      <3> QED BY <1>1, <3>1, IdTypes
    <2> QED BY <1>1, <1>3, <2>1, <2>2, IdleDecodes
  <1> QED BY <1>2, <1>3

\* All the records of a switch (os_pendsv_switch).
LEMMA SwitchGood ==
    ASSUME KernelInv, KernelInv', ExcludedInv, os_pendsv_switch
    PROVE  AllGood(SwitchEvents)
  <1> DEFINE outgoing == current_task
             next == current_task'
             saved == [schedules' EXCEPT ![next].state = "READY"]
             reclaims_memory == last_reclaimed' # last_reclaimed
                                  /\ owned[outgoing] > 0
             release == CallEvent("OWNER_RELEASE", <<owned[outgoing]>>)
             choice == os_trace_emit_selection(saved, next, outgoing,
                           yield_excluded_task, "DISPATCH")
             stop == Event("IDLE_STOP", OS_TASK_ID_IDLE, next, << >>)
             start == Event("IDLE_START", OS_TASK_ID_IDLE, outgoing, << >>)
             preempt == Event("TASK_PREEMPT", outgoing, next,
                              <<pending_preempt_sources>>)
             switch == Event("CONTEXT_SWITCH", outgoing, next,
                             <<pending_switch_cause, StateAtSwitch(outgoing)>>)
             begin == trace_deadline("TASK_START", next, schedules'[next])
  <1>1. /\ StructureInv /\ cpu = "pendsv_in"
        /\ next = Selected /\ Selected \in TaskIds /\ saved = Saved
        /\ schedules' = [Saved EXCEPT ![Selected].state = "RUNNING"]
        /\ Saved \in [TaskIds -> SchedTask]
    BY SavedShown DEF KernelInv, os_pendsv_switch
  <1>2. AllGood(When(reclaims_memory, release))
    <2>1. ASSUME reclaims_memory PROVE Good(release)
      <3>1. Leaving
        BY <2>1 DEF os_pendsv_switch, Leaving, Current
      <3>2. current_task \in UserTasks
        BY <1>1, <3>1, ParkedEffect
      <3> QED BY <2>1, <3>2 DEF Good, Decodes, CallEvent, Event
    <2> HIDE DEF reclaims_memory, release
    <2> QED BY <2>1, AllGoodWhen
  <1>3. AllGood(<<choice>>)
    <2>1. SelectionAccepted(choice)
      BY <1>1, DispatchDecodes
    <2>2. choice.event = "TASK_SELECT"
      BY DEF os_trace_emit_selection, Event
    <2> HIDE DEF choice
    <2>3. Good(choice)
      BY <2>1, <2>2 DEF Good, Decodes
    <2> QED BY <2>3, AllGoodOne
  <1>4. AllGood(When(outgoing = OS_TASK_ID_IDLE /\ next # OS_TASK_ID_IDLE,
                     stop))
    <2>1. Good(stop)
      BY DEF Good, Decodes, Event
    <2> QED BY <2>1, AllGoodWhen
  <1>5. AllGood(When(next = OS_TASK_ID_IDLE /\ outgoing # OS_TASK_ID_IDLE,
                     start))
    <2>1. ASSUME outgoing # OS_TASK_ID_IDLE PROVE Good(start)
      BY <2>1 DEF Good, Decodes, Event
    <2> QED BY <2>1, AllGoodWhen
  <1>6. AllGood(When(pending_preempt_sources # {}, preempt))
    <2>1. ASSUME pending_preempt_sources # {} PROVE Good(preempt)
      <3>1. PICK c \in ReadyTasks : TRUE
        BY <1>1, <2>1 DEF StructureInv, PreemptionJustified
      <3>2. c \in ReadyUserTasks(Saved)
        BY <3>1, ReadyAtSwitch DEF ReadyTasks
      <3>3. next \in UserTasks
        BY <1>1, <3>2, DispatchDecodes
      <3>4. outgoing \in TaskIds
        BY <1>1, <2>1, PreemptionCommits
      <3> HIDE DEF next, outgoing
      <3> QED BY <3>3, <3>4 DEF Good, Decodes, Event
    <2> HIDE DEF preempt
    <2> QED BY <2>1, AllGoodWhen
  <1>7. AllGood(<<switch>>)
    <2>1. switch.event = "CONTEXT_SWITCH"
      BY DEF Event
    <2> HIDE DEF switch
    <2>2. Good(switch)
      BY <2>1 DEF Good, Decodes, Disputed
    <2> QED BY <2>2, AllGoodOne
  <1>8. AllGood(When(next # OS_TASK_ID_IDLE /\ ~tasks[next].started, begin))
    <2>1. ASSUME next # OS_TASK_ID_IDLE PROVE Good(begin)
      <3>1. next \in UserTasks /\ next \in TaskIds
        BY <1>1, <2>1, IdTypes
      <3>2. schedules'[next].state = "RUNNING"
        BY <1>1
      <3> HIDE DEF next
      <3>3. /\ schedules'[next] \in SchedTask
            /\ schedules'[next].job_active
        BY <3>1, <3>2 DEF KernelInv, StructureInv, TypeOK, SlotsConsistent
      <3>4. JobsAddUp(schedules'[next])
        BY <3>1 DEF KernelInv, TimeInv, Timely
      <3>5. schedules'[next].job_sequence > 0
        BY <3>3, <3>4, ActiveSequence
      <3> QED BY <3>5, DeadlineGood
    <2> HIDE DEF begin, next
    <2> QED BY <2>1, AllGoodWhen
  <1> HIDE DEF reclaims_memory, release, choice, stop, start, preempt, switch,
               begin
  <1>9. AllGood(When(reclaims_memory, release)
                \o <<choice>>
                \o When(outgoing = OS_TASK_ID_IDLE /\ next # OS_TASK_ID_IDLE,
                        stop)
                \o When(next = OS_TASK_ID_IDLE /\ outgoing # OS_TASK_ID_IDLE,
                        start)
                \o When(pending_preempt_sources # {}, preempt)
                \o <<switch>>
                \o When(next # OS_TASK_ID_IDLE /\ ~tasks[next].started, begin))
    BY <1>2, <1>3, <1>4, <1>5, <1>6, <1>7, <1>8, AllGoodConcat
  <1> QED
    BY <1>9
    DEF SwitchEvents, reclaims_memory, release, choice, stop, start, preempt,
        switch, begin

----------------------------------------------------------------------------
\* Every step's records.

\* The traced kernel is the kernel.
LEMMA TracedKernel == [TracedNext]_traced_vars => [Next]_vars
  <1>1. TracedNext => Next \/ UNCHANGED vars
    BY DEF TracedNext, Next, os_memory_refused, os_memory_free_null
  <1>2. UNCHANGED traced_vars => UNCHANGED vars
    BY DEF traced_vars
  <1> QED BY <1>1, <1>2

LEMMA ExcludedStep == ExcludedInv /\ [Next]_vars => ExcludedInv'
  <1>1. CASE SvcYield
    BY <1>1 DEF SvcYield, SystemCall, UserTaskExecutes, ExcludedInv
  <1>2. CASE os_pendsv_switch
    BY <1>2, IdTypes DEF os_pendsv_switch, ExcludedInv
  <1>3. ASSUME [Next]_vars, ~SvcYield, ~os_pendsv_switch
        PROVE  UNCHANGED yield_excluded_task
    BY <1>3
    DEF Next, Halted, vars, os_task_create, DisableInterrupts,
        EnableInterrupts, os_memory_alloc, os_memory_free, os_kernel_start,
        SvcStart, SvcExit, SvcWaitNextPeriod, SvcSleep, SysTick, PendsvEnter,
        PendsvReturn
  <1> QED BY <1>1, <1>2, <1>3 DEF ExcludedInv

\* The allocator's records (os_memory_alloc, os_memory_free); allocating
\* nothing and freeing NULL are what the decoder rejects.
LEMMA MemoryGood ==
    /\ \A size \in RequestSizes : Good(AllocEvent(size, "SENTINEL", FALSE))
    /\ \A size \in RequestSizes \ {0} : Good(AllocEvent(size, "OFFSET", TRUE))
    /\ \A pointer : Good(FreeEvent(pointer, FALSE))
    /\ Good(FreeEvent("OFFSET", TRUE))
    /\ Good(FreeEvent("SENTINEL", TRUE))
  <1>1. ASSUME NEW size, NEW pointer, NEW accepted,
               size = 0 \/ (size > 0 /\ (accepted <=> pointer # "SENTINEL"))
        PROVE  Good(AllocEvent(size, pointer, accepted))
    <2>1. /\ AllocEvent(size, pointer, accepted).event = "ALLOC"
          /\ AllocEvent(size, pointer, accepted).values[1] = size
          /\ AllocEvent(size, pointer, accepted).values[2] = pointer
          /\ AllocEvent(size, pointer, accepted).values[3] = accepted
      BY DEF AllocEvent, CallEvent, Event
    <2> QED BY <1>1, <2>1 DEF Good, Decodes, Disputed
  <1>2. ASSUME NEW pointer, NEW accepted,
               (accepted => pointer # "SENTINEL")
                 \/ (accepted = TRUE /\ pointer = "SENTINEL")
        PROVE  Good(FreeEvent(pointer, accepted))
    <2>1. /\ FreeEvent(pointer, accepted).event = "FREE"
          /\ FreeEvent(pointer, accepted).values = <<pointer, accepted>>
          /\ FreeEvent(pointer, accepted).values[1] = pointer
          /\ FreeEvent(pointer, accepted).values[2] = accepted
      BY DEF FreeEvent, CallEvent, Event
    <2> QED BY <1>2, <2>1 DEF Good, Decodes, Disputed
  <1>3. \A size \in RequestSizes : size = 0 \/ size > 0
    BY DEF RequestSizes
  <1>4. \A size \in RequestSizes : Good(AllocEvent(size, "SENTINEL", FALSE))
    BY <1>1, <1>3
  <1>5. \A size \in RequestSizes \ {0} :
           Good(AllocEvent(size, "OFFSET", TRUE))
    BY <1>1, <1>3
  <1> QED BY <1>2, <1>4, <1>5

LEMMA RecordsStep ==
    ASSUME KernelInv, KernelInv', ExcludedInv, TracedNext, panics' = {}
    PROVE  AllGood(emitted')
  <1>1. ASSUME NEW config \in Configs, os_task_create(config),
               emitted' = CreateEvents(CreatedSlot)
        PROVE  AllGood(emitted')
    BY <1>1, CreateGood
  <1>2. ASSUME emitted' = <<Event("KERNEL_START", OS_TASK_ID_INVALID,
                                  OS_TASK_ID_INVALID, << >>)>>
        PROVE  AllGood(emitted')
    <2>1. Good(Event("KERNEL_START", OS_TASK_ID_INVALID,
                     OS_TASK_ID_INVALID, << >>))
      BY DEF Good, Decodes, Event
    <2> QED BY <1>2, <2>1, AllGoodOne
  <1>3. ASSUME \/ \E size \in RequestSizes :
                     emitted' = <<AllocEvent(size, "SENTINEL", FALSE)>>
               \/ \E size \in RequestSizes \ {0} :
                     emitted' = <<AllocEvent(size, "OFFSET", TRUE)>>
               \/ \E pointer : emitted' = <<FreeEvent(pointer, FALSE)>>
               \/ emitted' = <<FreeEvent("OFFSET", TRUE)>>
               \/ emitted' = <<FreeEvent("SENTINEL", TRUE)>>
        PROVE  AllGood(emitted')
    BY <1>3, MemoryGood, AllGoodOne
  <1>4. ASSUME emitted' = <<CallEvent("TASK_YIELD", << >>)>>
        PROVE  AllGood(emitted')
    <2>1. Good(CallEvent("TASK_YIELD", << >>))
      BY DEF Good, Decodes, CallEvent, Event
    <2> QED BY <1>4, <2>1, AllGoodOne
  <1>5. ASSUME NEW sleep_ticks \in SleepTicks, SvcSleep(sleep_ticks),
               emitted' = <<CallEvent("TASK_SLEEP",
                               <<schedules'[current_task].wake_order,
                                 sleep_ticks>>)>>
        PROVE  AllGood(emitted')
    BY <1>5, SleepGood
  <1>6. ASSUME SvcExit, emitted' = ExitEvents PROVE AllGood(emitted')
    BY <1>6, ExitGood
  <1>7. ASSUME SvcWaitNextPeriod, emitted' = WaitEvents
        PROVE  AllGood(emitted')
    BY <1>7, WaitGood
  <1>8. ASSUME SysTick, emitted' = TickEvents PROVE AllGood(emitted')
    BY <1>8, SysTickGood
  <1>9. ASSUME os_pendsv_switch, emitted' = SwitchEvents
        PROVE  AllGood(emitted')
    BY <1>9, SwitchGood
  <1>10. ASSUME emitted' = << >> PROVE AllGood(emitted')
    <2>1. << >> \in Seq({e \in {} : Good(e)})
      OBVIOUS
    <2> QED BY <1>10, <2>1 DEF AllGood
  <1> QED
    BY <1>1, <1>2, <1>3, <1>4, <1>5, <1>6, <1>7, <1>8, <1>9, <1>10
    DEF TracedNext, Emits, os_memory_refused, os_memory_free_null, CreatedSlot

\* What holds of the kernel holds of it while it is traced.
LEMMA TracedSafe == TracedSpec => [](KernelInv /\ ExcludedInv)
  <1>1. TracedInit => KernelInv /\ ExcludedInv
    BY InitInv, InitTime, InitUrgency, IdTypes
    DEF TracedInit, KernelInv, ExcludedInv, Init
  <1>2. KernelInv /\ ExcludedInv /\ [TracedNext]_traced_vars
          => (KernelInv /\ ExcludedInv)'
    BY TracedKernel, StructureStep, TimeStep, UrgencyStep, ExcludedStep
    DEF KernelInv
  <1> QED BY <1>1, <1>2, PTL DEF TracedSpec

\* Every record the kernel writes is one that tools/aymos_lab/trace.py accepts,
\* the four disputed kinds excepted: the selection follows from the candidates
\* it shows, under every interleaving, and each payload is in its range.
THEOREM RecordsDecodeSafe == TracedSpec => []RecordsDecode
  <1>1. TracedInit => RecordsDecode
    BY DEF TracedInit, RecordsDecode
  <1>2. KernelInv /\ ExcludedInv /\ KernelInv' /\ RecordsDecode
          /\ [TracedNext]_traced_vars => RecordsDecode'
    <2> SUFFICES ASSUME KernelInv, ExcludedInv, KernelInv', RecordsDecode,
                        [TracedNext]_traced_vars
                 PROVE  RecordsDecode'
      OBVIOUS
    <2>1. CASE TracedNext
      <3> SUFFICES ASSUME panics' = {}, NEW i \in DOMAIN emitted'
                   PROVE  Decodes(emitted'[i]) \/ Disputed(emitted'[i])
        BY DEF RecordsDecode
      <3>1. AllGood(emitted')
        BY <2>1, RecordsStep
      <3>2. Good(emitted'[i])
        BY <3>1, AllGoodMembers
      <3> QED BY <3>2 DEF Good
    <2>2. CASE UNCHANGED traced_vars
      BY <2>2 DEF traced_vars, vars, RecordsDecode
    <2> QED BY <2>1, <2>2
  <1> QED BY <1>1, <1>2, TracedSafe, PTL DEF TracedSpec

----------------------------------------------------------------------------
\* Reading: a fold over the records, from left to right.

\* The two readers of KernelTrace.
Reads(reader, state, e) ==
    IF reader = "SUMMARY" THEN Read(state, e) ELSE Tell(state, e)

Folded(reader, state, s) ==
    IF reader = "SUMMARY" THEN FoldLeft(Read, state, s)
    ELSE FoldLeft(Tell, state, s)

\* What FoldLeft iterates, over the sets of positions.
Iterated(reader, state, s, k, f) ==
    f = [P \in SUBSET (1 .. k) |->
           IF P = {} THEN state
           ELSE Reads(reader, f[P \ {Max(P)}], s[Max(P)])]

LEMMA MaxIs ==
    ASSUME NEW k \in Nat, NEW P \in SUBSET (1 .. k), k \in P
    PROVE  Max(P) = k
  <1>1. k \in P /\ \A y \in P : k >= y
    OBVIOUS
  <1>2. \A x \in P : (\A y \in P : x >= y) => x = k
    OBVIOUS
  <1>3. Max(P) \in P /\ \A y \in P : Max(P) >= y
    BY <1>1 DEF Max
  <1> QED BY <1>2, <1>3

LEMMA IteratedExists ==
    ASSUME NEW reader, NEW state, NEW s, NEW n \in Nat
    PROVE  \E f : Iterated(reader, state, s, n, f)
  <1> DEFINE Bad == {k \in 0 .. n : ~ \E f : Iterated(reader, state, s, k, f)}
  <1>1. Bad = {}
    <2> SUFFICES ASSUME Bad # {} PROVE FALSE
      OBVIOUS
    <2>1. Bad \in SUBSET Nat
      OBVIOUS
    <2>2. PICK k \in Bad : \A j \in Bad : k <= j
      <3> HIDE DEF Bad
      <3> QED BY <2>1, NatMinimum
    <2>3. CASE k = 0
      <3> DEFINE f == [P \in SUBSET (1 .. 0) |-> state]
      <3>1. \A P \in SUBSET (1 .. 0) : P = {}
        OBVIOUS
      <3>2. f = [P \in SUBSET (1 .. 0) |->
                   IF P = {} THEN state
                   ELSE Reads(reader, f[P \ {Max(P)}], s[Max(P)])]
        BY <3>1
      <3>3. Iterated(reader, state, s, 0, f)
        BY <3>2 DEF Iterated
      <3> QED BY <2>2, <2>3, <3>3
    <2>4. CASE k # 0
      <3>1. k - 1 \in 0 .. n /\ k - 1 \notin Bad /\ k \in 1 .. n
        BY <2>2, <2>4
      <3>2. PICK f : Iterated(reader, state, s, k - 1, f)
        BY <3>1
      <3> DEFINE g == [P \in SUBSET (1 .. k) |->
                         IF k \in P THEN Reads(reader, f[P \ {k}], s[k])
                         ELSE f[P]]
      <3>3. ASSUME NEW P \in SUBSET (1 .. k)
            PROVE  g[P] = IF P = {} THEN state
                          ELSE Reads(reader, g[P \ {Max(P)}], s[Max(P)])
        <4>1. CASE k \in P
          <5>1. Max(P) = k
            BY <3>1, <4>1, MaxIs
          <5>2. P \ {k} \in SUBSET (1 .. k) /\ k \notin P \ {k}
            OBVIOUS
          <5>3. g[P \ {k}] = f[P \ {k}]
            BY <5>2
          <5>4. g[P] = Reads(reader, f[P \ {k}], s[k])
            BY <4>1
          <5> QED BY <4>1, <5>1, <5>3, <5>4
        <4>2. CASE k \notin P
          <5>1. P \in SUBSET (1 .. k - 1) /\ k - 1 \in Nat
            BY <3>1, <4>2
          <5>2. g[P] = f[P]
            BY <4>2
          <5>3. f[P] = IF P = {} THEN state
                       ELSE Reads(reader, f[P \ {Max(P)}], s[Max(P)])
            BY <3>2, <5>1 DEF Iterated
          <5>4. P \ {Max(P)} \in SUBSET (1 .. k) /\ k \notin P \ {Max(P)}
            BY <4>2
          <5>5. g[P \ {Max(P)}] = f[P \ {Max(P)}]
            BY <5>4
          <5> QED BY <5>2, <5>3, <5>5
        <4> QED BY <4>1, <4>2
      <3>4. g = [P \in SUBSET (1 .. k) |-> g[P]]
        OBVIOUS
      <3> HIDE DEF g
      <3>5. g = [P \in SUBSET (1 .. k) |->
                   IF P = {} THEN state
                   ELSE Reads(reader, g[P \ {Max(P)}], s[Max(P)])]
        BY <3>3, <3>4
      <3>6. Iterated(reader, state, s, k, g)
        BY <3>5 DEF Iterated
      <3> QED BY <2>2, <3>6
    <2> QED BY <2>3, <2>4
  <1> QED BY <1>1

\* One reading after another.
Steps(reader, state, s, p) ==
    /\ p[0] = state
    /\ \A i \in DOMAIN s : p[i] = Reads(reader, p[i - 1], s[i])

LEMMA FoldedSteps ==
    ASSUME NEW reader, NEW state, NEW S, NEW s \in Seq(S)
    PROVE  \E p : /\ Steps(reader, state, s, p)
                  /\ Folded(reader, state, s) = p[Len(s)]
  <1> DEFINE n == Len(s)
  <1>1. n \in Nat /\ DOMAIN s = 1 .. n
    BY LenProperties
  <1>2. \E f : Iterated(reader, state, s, n, f)
    BY <1>1, IteratedExists
  <1>3. PICK f : /\ Iterated(reader, state, s, n, f)
                 /\ Folded(reader, state, s) = f[1 .. n]
    <2>1. CASE reader = "SUMMARY"
      <3> DEFINE chosen ==
                   CHOOSE f : f = [P \in SUBSET (1 .. n) |->
                                     IF P = {} THEN state
                                     ELSE Read(f[P \ {Max(P)}], s[Max(P)])]
      <3>1. \E f : f = [P \in SUBSET (1 .. n) |->
                          IF P = {} THEN state
                          ELSE Read(f[P \ {Max(P)}], s[Max(P)])]
        BY <1>2, <2>1 DEF Iterated, Reads
      <3>2. chosen = [P \in SUBSET (1 .. n) |->
                        IF P = {} THEN state
                        ELSE Read(chosen[P \ {Max(P)}], s[Max(P)])]
        BY <3>1
      <3>3. FoldLeft(Read, state, s) = chosen[1 .. n]
        BY <1>1 DEF FoldLeft, MapThenFoldSet
      <3> HIDE DEF chosen
      <3>4. Iterated(reader, state, s, n, chosen)
        BY <2>1, <3>2 DEF Iterated, Reads
      <3> QED BY <2>1, <3>3, <3>4 DEF Folded
    <2>2. CASE reader # "SUMMARY"
      <3> DEFINE chosen ==
                   CHOOSE f : f = [P \in SUBSET (1 .. n) |->
                                     IF P = {} THEN state
                                     ELSE Tell(f[P \ {Max(P)}], s[Max(P)])]
      <3>1. \E f : f = [P \in SUBSET (1 .. n) |->
                          IF P = {} THEN state
                          ELSE Tell(f[P \ {Max(P)}], s[Max(P)])]
        BY <1>2, <2>2 DEF Iterated, Reads
      <3>2. chosen = [P \in SUBSET (1 .. n) |->
                        IF P = {} THEN state
                        ELSE Tell(chosen[P \ {Max(P)}], s[Max(P)])]
        BY <3>1
      <3>3. FoldLeft(Tell, state, s) = chosen[1 .. n]
        BY <1>1 DEF FoldLeft, MapThenFoldSet
      <3> HIDE DEF chosen
      <3>4. Iterated(reader, state, s, n, chosen)
        BY <2>2, <3>2 DEF Iterated, Reads
      <3> QED BY <2>2, <3>3, <3>4 DEF Folded
    <2> QED BY <2>1, <2>2
  <1> DEFINE p == [i \in 0 .. n |-> f[1 .. i]]
  <1> HIDE DEF n
  <1>4. ASSUME NEW i \in 0 .. n
        PROVE  f[1 .. i] = IF i = 0 THEN state
                           ELSE Reads(reader, f[1 .. i - 1], s[i])
    <2>1. 1 .. i \in SUBSET (1 .. n) /\ (1 .. i = {} <=> i = 0)
      BY <1>1
    <2>2. f[1 .. i] = IF 1 .. i = {} THEN state
                      ELSE Reads(reader, f[(1 .. i) \ {Max(1 .. i)}],
                                 s[Max(1 .. i)])
      BY <1>3, <2>1 DEF Iterated
    <2>3. i # 0 => Max(1 .. i) = i /\ (1 .. i) \ {i} = 1 .. i - 1
      <3>1. i # 0 => Max(1 .. i) = i
        BY <1>1, MaxIs
      <3>2. i # 0 => (1 .. i) \ {i} = 1 .. i - 1
        BY <1>1
      <3> QED BY <3>1, <3>2
    <2> QED BY <2>1, <2>2, <2>3
  <1>5. p[0] = state
    BY <1>1, <1>4
  <1>6. \A i \in DOMAIN s : p[i] = Reads(reader, p[i - 1], s[i])
    <2> SUFFICES ASSUME NEW i \in 1 .. n
                 PROVE  p[i] = Reads(reader, p[i - 1], s[i])
      BY <1>1
    <2>1. i \in 0 .. n /\ i - 1 \in 0 .. n /\ i # 0
      BY <1>1
    <2> QED BY <1>4, <2>1
  <1>7. Folded(reader, state, s) = p[n]
    BY <1>1, <1>3
  <1> QED BY <1>5, <1>6, <1>7 DEF Steps, n

\* A sequence of records, whatever they are.
IsSeq(s) == \E S : s \in Seq(S)

LEMMA IsSeqRules ==
    /\ IsSeq(<< >>)
    /\ \A e : IsSeq(<<e>>)
    /\ \A condition, e : IsSeq(When(condition, e))
    /\ \A s, t : IsSeq(s) /\ IsSeq(t) => IsSeq(s \o t)
    /\ \A s, e : IsSeq(s) => IsSeq(Append(s, e))
  <1>1. IsSeq(<< >>)
    <2>1. << >> \in Seq({})
      OBVIOUS
    <2> QED BY <2>1 DEF IsSeq
  <1>2. ASSUME NEW e PROVE IsSeq(<<e>>)
    <2>1. <<e>> \in Seq({e})
      OBVIOUS
    <2> QED BY <2>1 DEF IsSeq
  <1>3. ASSUME NEW condition, NEW e PROVE IsSeq(When(condition, e))
    <2>1. When(condition, e) \in Seq({e})
      BY WhenSeq
    <2> QED BY <2>1 DEF IsSeq
  <1>4. ASSUME NEW s, NEW t, IsSeq(s), IsSeq(t) PROVE IsSeq(s \o t)
    <2>1. PICK S : s \in Seq(S)
      BY <1>4 DEF IsSeq
    <2>2. PICK T : t \in Seq(T)
      BY <1>4 DEF IsSeq
    <2>3. s \in Seq(S \cup T) /\ t \in Seq(S \cup T)
      BY <2>1, <2>2
    <2>4. s \o t \in Seq(S \cup T)
      BY <2>3, ConcatSeq
    <2> QED BY <2>4 DEF IsSeq
  <1>5. ASSUME NEW s, NEW e, IsSeq(s) PROVE IsSeq(Append(s, e))
    <2>1. PICK S : s \in Seq(S)
      BY <1>5 DEF IsSeq
    <2>2. s \in Seq(S \cup {e})
      BY <2>1
    <2>3. Append(s, e) \in Seq(S \cup {e})
      BY <2>2
    <2> QED BY <2>3 DEF IsSeq
  <1> QED BY <1>1, <1>2, <1>3, <1>4, <1>5

\* The readings of one sequence are determined.
LEMMA StepsUnique ==
    ASSUME NEW reader, NEW state, NEW s, IsSeq(s),
           NEW p, Steps(reader, state, s, p),
           NEW q, Steps(reader, state, s, q)
    PROVE  \A i \in 0 .. Len(s) : p[i] = q[i]
  <1>1. Len(s) \in Nat /\ DOMAIN s = 1 .. Len(s)
    BY LenProperties DEF IsSeq
  <1> DEFINE Bad == {i \in 0 .. Len(s) : p[i] # q[i]}
  <1>2. Bad = {}
    <2> SUFFICES ASSUME Bad # {} PROVE FALSE
      OBVIOUS
    <2>1. Bad \in SUBSET Nat
      BY <1>1
    <2>2. PICK i \in Bad : \A j \in Bad : i <= j
      <3> HIDE DEF Bad
      <3> QED BY <2>1, NatMinimum
    <2>3. i # 0
      BY <2>2 DEF Steps
    <2>4. i \in DOMAIN s /\ i - 1 \in 0 .. Len(s) /\ i - 1 \notin Bad
      BY <1>1, <2>2, <2>3
    <2>5. p[i - 1] = q[i - 1]
      BY <2>4
    <2>6. p[i] = q[i]
      BY <2>4, <2>5 DEF Steps
    <2> QED BY <2>2, <2>6
  <1> QED BY <1>2

LEMMA FoldedIs ==
    ASSUME NEW reader, NEW state, NEW s, IsSeq(s),
           NEW p, Steps(reader, state, s, p)
    PROVE  Folded(reader, state, s) = p[Len(s)]
  <1>1. PICK S : s \in Seq(S)
    BY DEF IsSeq
  <1>2. PICK q : /\ Steps(reader, state, s, q)
                 /\ Folded(reader, state, s) = q[Len(s)]
    BY <1>1, FoldedSteps
  <1>3. Len(s) \in 0 .. Len(s)
    BY <1>1, LenProperties
  <1> QED BY <1>2, <1>3, StepsUnique

\* Reading nothing, one record, and one sequence after another.
LEMMA FoldedEmpty ==
    ASSUME NEW reader, NEW state
    PROVE  Folded(reader, state, << >>) = state
  <1> DEFINE p == [i \in 0 .. 0 |-> state]
  <1>1. Steps(reader, state, << >>, p)
    BY DEF Steps
  <1>2. Len(<< >>) = 0 /\ p[0] = state
    OBVIOUS
  <1> QED BY <1>1, <1>2, FoldedIs, IsSeqRules

LEMMA FoldedConcat ==
    ASSUME NEW reader, NEW state, NEW s, NEW t, IsSeq(s), IsSeq(t)
    PROVE  Folded(reader, state, s \o t)
             = Folded(reader, Folded(reader, state, s), t)
  <1> DEFINE m == Len(s)
             n == Len(t)
             between == Folded(reader, state, s)
  <1>1. /\ m \in Nat /\ DOMAIN s = 1 .. m
        /\ n \in Nat /\ DOMAIN t = 1 .. n
    BY LenProperties DEF IsSeq
  <1>2. /\ Len(s \o t) = m + n /\ DOMAIN (s \o t) = 1 .. m + n
        /\ \A i \in 1 .. m + n :
              (s \o t)[i] = IF i <= m THEN s[i] ELSE t[i - m]
    <2>1. PICK S : s \in Seq(S) /\ t \in Seq(S)
      <3>1. PICK A : s \in Seq(A)
        BY DEF IsSeq
      <3>2. PICK B : t \in Seq(B)
        BY DEF IsSeq
      <3>3. s \in Seq(A \cup B) /\ t \in Seq(A \cup B)
        BY <3>1, <3>2
      <3> QED BY <3>3
    <2>2. /\ s \o t \in Seq(S) /\ Len(s \o t) = m + n
          /\ \A i \in 1 .. m + n :
                (s \o t)[i] = IF i <= m THEN s[i] ELSE t[i - m]
      BY <2>1, ConcatProperties
    <2> QED BY <2>2, LenProperties
  <1>3. PICK p : Steps(reader, state, s, p) /\ between = p[m]
    BY FoldedSteps DEF IsSeq
  <1>4. PICK q : /\ Steps(reader, between, t, q)
                 /\ Folded(reader, between, t) = q[n]
    BY FoldedSteps DEF IsSeq
  <1> HIDE DEF m, n, between
  <1> DEFINE r == [i \in 0 .. m + n |-> IF i <= m THEN p[i] ELSE q[i - m]]
  <1>5. r[0] = state
    BY <1>1, <1>3 DEF Steps
  <1>6. ASSUME NEW i \in 1 .. m + n
        PROVE  r[i] = Reads(reader, r[i - 1], (s \o t)[i])
    <2>1. i \in 0 .. m + n /\ i - 1 \in 0 .. m + n
      BY <1>1
    <2>2. CASE i <= m
      <3>1. i \in DOMAIN s /\ i - 1 <= m
        BY <1>1, <2>2
      <3>2. p[i] = Reads(reader, p[i - 1], s[i])
        BY <1>3, <3>1 DEF Steps
      <3> QED BY <1>2, <2>1, <2>2, <3>1, <3>2
    <2>3. CASE i = m + 1
      <3>1. 1 \in DOMAIN t /\ i - m = 1 /\ i - 1 = m /\ ~(i <= m)
        BY <1>1, <2>3
      <3>2. q[1] = Reads(reader, q[0], t[1]) /\ q[0] = p[m]
        BY <1>3, <1>4, <3>1 DEF Steps
      <3>3. r[i - 1] = p[m] /\ r[i] = q[1]
        BY <1>1, <2>1, <3>1
      <3> QED BY <1>2, <3>1, <3>2, <3>3
    <2>4. CASE i > m + 1
      <3>1. /\ i - m \in DOMAIN t /\ ~(i <= m) /\ ~(i - 1 <= m)
            /\ (i - m) - 1 = (i - 1) - m
        BY <1>1, <2>4
      <3>2. q[i - m] = Reads(reader, q[(i - m) - 1], t[i - m])
        BY <1>4, <3>1 DEF Steps
      <3>3. r[i] = q[i - m] /\ r[i - 1] = q[(i - m) - 1]
        BY <2>1, <3>1
      <3> QED BY <1>2, <3>1, <3>2, <3>3
    <2> QED BY <1>1, <2>2, <2>3, <2>4
  <1>7. r[m + n] = q[n]
    <2>1. CASE n = 0
      <3>1. q[0] = p[m] /\ m + n = m
        BY <1>1, <1>3, <1>4, <2>1 DEF Steps
      <3> QED BY <1>1, <2>1, <3>1
    <2>2. CASE n # 0
      <3>1. ~(m + n <= m) /\ (m + n) - m = n /\ m + n \in 0 .. m + n
        BY <1>1, <2>2
      <3> QED BY <3>1
    <2> QED BY <2>1, <2>2
  <1> HIDE DEF r
  <1>8. Steps(reader, state, s \o t, r)
    BY <1>2, <1>5, <1>6 DEF Steps
  <1>9. IsSeq(s \o t)
    BY IsSeqRules
  <1>10. Folded(reader, state, s \o t) = r[m + n]
    <2>1. Folded(reader, state, s \o t) = r[Len(s \o t)]
      <3> DEFINE st == s \o t
      <3>1. Steps(reader, state, st, r) /\ IsSeq(st)
        BY <1>8, <1>9
      <3> HIDE DEF st
      <3>2. Folded(reader, state, st) = r[Len(st)]
        BY <3>1, FoldedIs
      <3> QED BY <3>2 DEF st
    <2> QED BY <1>2, <2>1
  <1> QED BY <1>4, <1>7, <1>10 DEF between

LEMMA FoldedOne ==
    ASSUME NEW reader, NEW state, NEW e
    PROVE  Folded(reader, state, <<e>>) = Reads(reader, state, e)
  <1> DEFINE p == [i \in 0 .. 1 |-> IF i = 0 THEN state
                                    ELSE Reads(reader, state, e)]
  <1>1. p[0] = state /\ p[1] = Reads(reader, state, e)
    OBVIOUS
  <1>2. DOMAIN <<e>> = {1} /\ Len(<<e>>) = 1 /\ <<e>>[1] = e
    OBVIOUS
  <1> HIDE DEF p
  <1>3. Steps(reader, state, <<e>>, p)
    BY <1>1, <1>2 DEF Steps
  <1> QED BY <1>1, <1>2, <1>3, FoldedIs, IsSeqRules

LEMMA FoldedWhen ==
    ASSUME NEW reader, NEW state, NEW condition, NEW e
    PROVE  Folded(reader, state, When(condition, e))
             = IF condition THEN Reads(reader, state, e) ELSE state
  BY FoldedEmpty, FoldedOne DEF When

LEMMA FoldedAppend ==
    ASSUME NEW reader, NEW state, NEW s, NEW e, IsSeq(s)
    PROVE  Folded(reader, state, Append(s, e))
             = Reads(reader, Folded(reader, state, s), e)
  <1>1. Append(s, e) = s \o <<e>>
    BY AppendIsConcat DEF IsSeq
  <1> QED BY <1>1, FoldedConcat, FoldedOne, IsSeqRules

\* g are the readings after each of n sequences, one after another.
FlattenedReadings(reader, state, seqs, n, g) ==
    /\ g[0] = state
    /\ \A i \in 1 .. n : g[i] = Folded(reader, g[i - 1], seqs[i])
    /\ Folded(reader, state, FlattenSeq(seqs)) = g[n]
    /\ IsSeq(FlattenSeq(seqs))

LEMMA FoldedFlatten ==
    ASSUME NEW reader, NEW state, NEW n \in Nat \ {0}, NEW seqs,
           seqs = [i \in 1 .. n |-> seqs[i]],
           \A i \in 1 .. n : IsSeq(seqs[i])
    PROVE  \E g : FlattenedReadings(reader, state, seqs, n, g)
  <1>1. PICK f : Flattened(seqs, n, f) /\ FlattenSeq(seqs) = f[n]
    <2>1. seqs \in [1 .. n -> {seqs[i] : i \in 1 .. n}]
      OBVIOUS
    <2> QED BY <2>1, FlattenIs
  <1>2. \A i \in 1 .. n :
           f[i] = IF i = 1 THEN seqs[i] ELSE f[i - 1] \o seqs[i]
    BY <1>1 DEF Flattened
  <1>3. \A i \in 1 .. n : IsSeq(f[i])
    <2> DEFINE Bad == {i \in 1 .. n : ~IsSeq(f[i])}
    <2> SUFFICES ASSUME Bad # {} PROVE FALSE
      OBVIOUS
    <2>1. Bad \in SUBSET Nat
      OBVIOUS
    <2>2. PICK i \in Bad : \A j \in Bad : i <= j
      <3> HIDE DEF Bad
      <3> QED BY <2>1, NatMinimum
    <2>3. i \in 1 .. n /\ ~IsSeq(f[i]) /\ IsSeq(seqs[i])
      BY <2>2
    <2>4. CASE i = 1
      BY <1>2, <2>3, <2>4
    <2>5. CASE i # 1
      <3>1. i - 1 \in 1 .. n /\ i - 1 \notin Bad
        BY <2>2, <2>5
      <3>2. IsSeq(f[i - 1] \o seqs[i])
        BY <2>3, <3>1, IsSeqRules
      <3> QED BY <1>2, <2>3, <2>5, <3>2
    <2> QED BY <2>4, <2>5
  <1> DEFINE g == [i \in 0 .. n |-> IF i = 0 THEN state
                                    ELSE Folded(reader, state, f[i])]
  <1>4. g[0] = state
    OBVIOUS
  <1>5. ASSUME NEW i \in 1 .. n
        PROVE  g[i] = Folded(reader, g[i - 1], seqs[i])
    <2>1. i \in 0 .. n /\ i # 0 /\ g[i] = Folded(reader, state, f[i])
      OBVIOUS
    <2>2. CASE i = 1
      BY <1>2, <2>1, <2>2
    <2>3. CASE i # 1
      <3>1. i - 1 \in 1 .. n /\ i - 1 \in 0 .. n /\ i - 1 # 0
        BY <2>3
      <3>2. g[i - 1] = Folded(reader, state, f[i - 1])
        BY <3>1
      <3>3. IsSeq(f[i - 1]) /\ IsSeq(seqs[i])
        BY <1>3, <3>1
      <3>4. Folded(reader, state, f[i - 1] \o seqs[i])
              = Folded(reader, Folded(reader, state, f[i - 1]), seqs[i])
        BY <3>3, FoldedConcat
      <3> HIDE DEF g
      <3> QED BY <1>2, <2>1, <2>3, <3>2, <3>4
    <2> QED BY <2>2, <2>3
  <1>6. Folded(reader, state, FlattenSeq(seqs)) = g[n]
    BY <1>1
  <1>7. IsSeq(FlattenSeq(seqs))
    BY <1>1, <1>3
  <1> HIDE DEF g
  <1> QED BY <1>4, <1>5, <1>6, <1>7 DEF FlattenedReadings

----------------------------------------------------------------------------
\* The summary, record by record.

Summaries ==
    [task : TaskIdsOrInvalid, since : Nat, continuous : BOOLEAN,
     running_ticks : [TaskIds -> Nat], released_jobs : [UserTasks -> Nat],
     deadlines_met : [UserTasks -> Nat], deadline_misses : [UserTasks -> Nat]]

\* Only four kinds of records are read into it.
Counted == {"TASK_RELEASE", "DEADLINE_MET", "DEADLINE_MISS", "CONTEXT_SWITCH"}

LEMMA ReadOther ==
    ASSUME NEW s, NEW event, NEW task, NEW related, NEW values,
           event \notin Counted
    PROVE  Reads("SUMMARY", s, Event(event, task, related, values)) = s
  BY DEF Reads, Read, Event, Counted

LEMMA ReadCounted ==
    ASSUME NEW s, NEW task, NEW related, NEW values
    PROVE  /\ Reads("SUMMARY", s, Event("TASK_RELEASE", task, related, values))
                = [s EXCEPT !.released_jobs[task] = @ + 1]
           /\ Reads("SUMMARY", s, Event("DEADLINE_MET", task, related, values))
                = [s EXCEPT !.deadlines_met[task] = @ + 1]
           /\ Reads("SUMMARY", s, Event("DEADLINE_MISS", task, related, values))
                = [s EXCEPT !.deadline_misses[task] = @ + 1]
           /\ LET e == Event("CONTEXT_SWITCH", task, related, values) IN
              Reads("SUMMARY", s, e) = ReadSwitch(s, e)
  BY DEF Reads, Read, Event

LEMMA CountType ==
    ASSUME NEW s \in Summaries, NEW id \in UserTasks
    PROVE  /\ [s EXCEPT !.released_jobs[id] = @ + 1] \in Summaries
           /\ [s EXCEPT !.deadlines_met[id] = @ + 1] \in Summaries
           /\ [s EXCEPT !.deadline_misses[id] = @ + 1] \in Summaries
  <1>1. ASSUME NEW f \in [UserTasks -> Nat]
        PROVE  [f EXCEPT ![id] = @ + 1] \in [UserTasks -> Nat]
    OBVIOUS
  <1>2. /\ s.released_jobs \in [UserTasks -> Nat]
        /\ s.deadlines_met \in [UserTasks -> Nat]
        /\ s.deadline_misses \in [UserTasks -> Nat]
    BY DEF Summaries
  <1>3. ASSUME NEW f \in [UserTasks -> Nat]
        PROVE  /\ [s EXCEPT !.released_jobs = f] \in Summaries
               /\ [s EXCEPT !.deadlines_met = f] \in Summaries
               /\ [s EXCEPT !.deadline_misses = f] \in Summaries
    <2> DEFINE U == UserTasks
               T == TaskIds
               I == TaskIdsOrInvalid
    <2> HIDE DEF U, T, I
    <2> QED BY <1>3 DEF Summaries
  <1> QED BY <1>1, <1>2, <1>3

\* The states, record by record.
Telling == {"TASK_CREATE", "TASK_RELEASE", "TASK_WAKE", "TASK_YIELD",
            "TASK_SLEEP", "TASK_EXIT", "TASK_WAIT_PERIOD", "CONTEXT_SWITCH"}

LEMMA TellOther ==
    ASSUME NEW states, NEW event, NEW task, NEW related, NEW values,
           event \notin Telling
    PROVE  Reads("TOLD", states, Event(event, task, related, values)) = states
  BY DEF Reads, Tell, Event, Telling

LEMMA TellState ==
    ASSUME NEW states, NEW task, NEW related, NEW values
    PROVE  /\ Reads("TOLD", states,
                    Event("TASK_RELEASE", task, related, values))
                = [states EXCEPT ![task] = "READY"]
           /\ Reads("TOLD", states, Event("TASK_WAKE", task, related, values))
                = [states EXCEPT ![task] = "READY"]
           /\ Reads("TOLD", states, Event("TASK_YIELD", task, related, values))
                = [states EXCEPT ![task] = "READY"]
           /\ Reads("TOLD", states, Event("TASK_CREATE", task, related, values))
                = [states EXCEPT ![task] = values[3]]
           /\ Reads("TOLD", states, Event("TASK_SLEEP", task, related, values))
                = [states EXCEPT ![task] = "SLEEPING"]
           /\ Reads("TOLD", states, Event("TASK_EXIT", task, related, values))
                = [states EXCEPT ![task] = "EXITING"]
           /\ Reads("TOLD", states,
                    Event("TASK_WAIT_PERIOD", task, related, values))
                = [states EXCEPT ![task] = "WAITING_RELEASE"]
  BY DEF Reads, Tell, Event

LEMMA EmitsReads ==
    ASSUME NEW events, Emits(events)
    PROVE  /\ summary' = Folded("SUMMARY", summary, events)
           /\ told' = Folded("TOLD", told, events)
  BY DEF Emits, Folded

\* trace_deadline's records, read.
LEMMA DeadlineRead ==
    ASSUME NEW id, NEW task, NEW s
    PROVE  /\ Reads("SUMMARY", s, trace_deadline("TASK_WAKE", id, task)) = s
           /\ Reads("SUMMARY", s, trace_deadline("TASK_START", id, task)) = s
           /\ Reads("SUMMARY", s, trace_deadline("TASK_RELEASE", id, task))
                = [s EXCEPT !.released_jobs[id] = @ + 1]
           /\ Reads("SUMMARY", s, trace_deadline("DEADLINE_MET", id, task))
                = [s EXCEPT !.deadlines_met[id] = @ + 1]
           /\ Reads("SUMMARY", s, trace_deadline("DEADLINE_MISS", id, task))
                = [s EXCEPT !.deadline_misses[id] = @ + 1]
  <1>1. "TASK_WAKE" \notin Counted /\ "TASK_START" \notin Counted
    BY DEF Counted
  <1> QED BY <1>1, ReadOther, ReadCounted DEF trace_deadline

LEMMA DeadlineTold ==
    ASSUME NEW id, NEW task, NEW states
    PROVE  /\ Reads("TOLD", states, trace_deadline("TASK_START", id, task))
                = states
           /\ Reads("TOLD", states, trace_deadline("DEADLINE_MET", id, task))
                = states
           /\ Reads("TOLD", states, trace_deadline("DEADLINE_MISS", id, task))
                = states
           /\ Reads("TOLD", states, trace_deadline("TASK_RELEASE", id, task))
                = [states EXCEPT ![id] = "READY"]
           /\ Reads("TOLD", states, trace_deadline("TASK_WAKE", id, task))
                = [states EXCEPT ![id] = "READY"]
  <1>1. /\ "TASK_START" \notin Telling /\ "DEADLINE_MET" \notin Telling
        /\ "DEADLINE_MISS" \notin Telling
    BY DEF Telling
  <1> QED BY <1>1, TellOther, TellState DEF trace_deadline

LEMMA OneRecord ==
    ASSUME NEW e, Emits(<<e>>)
    PROVE  /\ summary' = Reads("SUMMARY", summary, e)
           /\ told' = Reads("TOLD", told, e)
  BY EmitsReads, FoldedOne

----------------------------------------------------------------------------
\* A turn of SysTick's loop, read.

\* What the summary makes of it.
LEMMA TurnRead ==
    ASSUME NEW id \in UserTasks, NEW s \in Summaries
    PROVE  LET now == monotonic_ticks'
               task == schedules[id]
               missed == os_sched_record_deadline_miss(
                             os_sched_account_running_tick(task), now)
               counted == CountedTick(task, now)
               released == ReleasedTick(task, now)
               t == Folded("SUMMARY", s, TaskTickEvents(id))
           IN
           /\ IsSeq(TaskTickEvents(id))
           /\ t \in Summaries
           /\ t.task = s.task /\ t.since = s.since
           /\ t.continuous = s.continuous
           /\ t.running_ticks = s.running_ticks
           /\ t.deadlines_met = s.deadlines_met
           /\ t.deadline_misses =
                IF missed.deadline_miss_latched # task.deadline_miss_latched
                THEN [s.deadline_misses EXCEPT ![id] = @ + 1]
                ELSE s.deadline_misses
           /\ t.released_jobs =
                IF ReleaseIsDue(counted, now) /\ ~released.time_range_exhausted
                THEN [s.released_jobs EXCEPT ![id] = @ + 1]
                ELSE s.released_jobs
  <1> DEFINE now == monotonic_ticks'
             task == schedules[id]
             missed == os_sched_record_deadline_miss(
                           os_sched_account_running_tick(task), now)
             counted == CountedTick(task, now)
             released == ReleasedTick(task, now)
             miss == trace_deadline("DEADLINE_MISS", id, missed)
             skip == Event("TASK_RELEASE_SKIPPED", id, OS_TASK_ID_INVALID,
                           <<counted.next_release_order
                               - counted.period_ticks,
                             counted.missed_release_count>>)
             release == trace_deadline("TASK_RELEASE", id, released)
             wake == trace_deadline("TASK_WAKE", id, TickTask(task, now))
             missing == missed.deadline_miss_latched
                          # task.deadline_miss_latched
             releasing == /\ ReleaseIsDue(counted, now)
                          /\ ~released.time_range_exhausted
             afterMiss == IF missing
                          THEN [s EXCEPT !.deadline_misses[id] = @ + 1]
                          ELSE s
             afterRelease == IF releasing
                             THEN [afterMiss EXCEPT !.released_jobs[id] = @ + 1]
                             ELSE afterMiss
  <1>1. TaskTickEvents(id)
          = When(missing, miss)
            \o When(counted.next_release_order # missed.next_release_order,
                    skip)
            \o When(releasing, release)
            \o When(WakeIsDue(released, now), wake)
    BY DEF TaskTickEvents, CountedTick
  <1>2. /\ afterMiss \in Summaries /\ afterRelease \in Summaries
    <2>1. afterMiss \in Summaries
      BY CountType
    <2> HIDE DEF afterMiss, releasing
    <2> QED BY <2>1, CountType
  <1>3. /\ Reads("SUMMARY", s, miss) = [s EXCEPT !.deadline_misses[id] = @ + 1]
        /\ Reads("SUMMARY", afterMiss, skip) = afterMiss
        /\ Reads("SUMMARY", afterMiss, release)
             = [afterMiss EXCEPT !.released_jobs[id] = @ + 1]
        /\ Reads("SUMMARY", afterRelease, wake) = afterRelease
    <2>1. Reads("SUMMARY", s, miss) = [s EXCEPT !.deadline_misses[id] = @ + 1]
      BY DeadlineRead
    <2>2. Reads("SUMMARY", afterMiss, skip) = afterMiss
      <3>1. "TASK_RELEASE_SKIPPED" \notin Counted
        BY DEF Counted
      <3> QED BY <3>1, ReadOther
    <2> HIDE DEF afterMiss, afterRelease
    <2>4. Reads("SUMMARY", afterMiss, release)
             = [afterMiss EXCEPT !.released_jobs[id] = @ + 1]
      BY <1>2, DeadlineRead
    <2>5. Reads("SUMMARY", afterRelease, wake) = afterRelease
      BY <1>2, DeadlineRead
    <2> QED BY <2>1, <2>2, <2>4, <2>5
  <1> HIDE DEF miss, skip, release, wake, missing, releasing
  <1>4. Folded("SUMMARY", s, When(missing, miss)) = afterMiss
    BY <1>3, FoldedWhen
  <1>5. Folded("SUMMARY", afterMiss,
               When(counted.next_release_order # missed.next_release_order,
                    skip)) = afterMiss
    BY <1>3, FoldedWhen
  <1>6. Folded("SUMMARY", afterMiss, When(releasing, release)) = afterRelease
    BY <1>3, FoldedWhen
  <1>7. Folded("SUMMARY", afterRelease, When(WakeIsDue(released, now), wake))
          = afterRelease
    BY <1>3, FoldedWhen
  <1>8. IsSeq(TaskTickEvents(id))
    BY <1>1, IsSeqRules
  <1> HIDE DEF missed, counted, released, afterMiss, afterRelease
  <1>9. Folded("SUMMARY", s, TaskTickEvents(id)) = afterRelease
    BY <1>1, <1>4, <1>5, <1>6, <1>7, FoldedConcat, IsSeqRules
  <1>10. /\ afterMiss.task = s.task /\ afterMiss.since = s.since
         /\ afterMiss.continuous = s.continuous
         /\ afterMiss.running_ticks = s.running_ticks
         /\ afterMiss.deadlines_met = s.deadlines_met
         /\ afterMiss.released_jobs = s.released_jobs
         /\ afterMiss.deadline_misses =
              IF missing THEN [s.deadline_misses EXCEPT ![id] = @ + 1]
              ELSE s.deadline_misses
    BY DEF afterMiss, Summaries
  <1>11. /\ afterRelease.task = afterMiss.task
         /\ afterRelease.since = afterMiss.since
         /\ afterRelease.continuous = afterMiss.continuous
         /\ afterRelease.running_ticks = afterMiss.running_ticks
         /\ afterRelease.deadlines_met = afterMiss.deadlines_met
         /\ afterRelease.deadline_misses = afterMiss.deadline_misses
         /\ afterRelease.released_jobs =
              IF releasing THEN [afterMiss.released_jobs EXCEPT ![id] = @ + 1]
              ELSE afterMiss.released_jobs
    BY <1>2 DEF afterRelease, Summaries
  <1> QED
    BY <1>2, <1>8, <1>9, <1>10, <1>11
    DEF missing, releasing, missed, counted, released

\* What it tells of the task's state.
LEMMA TurnTold ==
    ASSUME NEW id \in UserTasks, NEW states
    PROVE  Folded("TOLD", states, TaskTickEvents(id))
             = IF BecomesReady(schedules[id], monotonic_ticks')
               THEN [states EXCEPT ![id] = "READY"] ELSE states
  <1> DEFINE now == monotonic_ticks'
             task == schedules[id]
             missed == os_sched_record_deadline_miss(
                           os_sched_account_running_tick(task), now)
             counted == CountedTick(task, now)
             released == ReleasedTick(task, now)
             miss == trace_deadline("DEADLINE_MISS", id, missed)
             skip == Event("TASK_RELEASE_SKIPPED", id, OS_TASK_ID_INVALID,
                           <<counted.next_release_order
                               - counted.period_ticks,
                             counted.missed_release_count>>)
             release == trace_deadline("TASK_RELEASE", id, released)
             wake == trace_deadline("TASK_WAKE", id, TickTask(task, now))
             missing == missed.deadline_miss_latched
                          # task.deadline_miss_latched
             releasing == /\ ReleaseIsDue(counted, now)
                          /\ ~released.time_range_exhausted
             ready == [states EXCEPT ![id] = "READY"]
             afterRelease == IF releasing THEN ready ELSE states
             afterWake == IF WakeIsDue(released, now)
                          THEN [afterRelease EXCEPT ![id] = "READY"]
                          ELSE afterRelease
  <1>1. TaskTickEvents(id)
          = When(missing, miss)
            \o When(counted.next_release_order # missed.next_release_order,
                    skip)
            \o When(releasing, release)
            \o When(WakeIsDue(released, now), wake)
    BY DEF TaskTickEvents, CountedTick
  <1>2. ASSUME NEW any
        PROVE  /\ Reads("TOLD", any, miss) = any
               /\ Reads("TOLD", any, skip) = any
               /\ Reads("TOLD", any, release) = [any EXCEPT ![id] = "READY"]
               /\ Reads("TOLD", any, wake) = [any EXCEPT ![id] = "READY"]
    <2>1. Reads("TOLD", any, skip) = any
      <3>1. "TASK_RELEASE_SKIPPED" \notin Telling
        BY DEF Telling
      <3> QED BY <3>1, TellOther
    <2>2. Reads("TOLD", any, miss) = any
      BY DeadlineTold
    <2>3. /\ Reads("TOLD", any, release) = [any EXCEPT ![id] = "READY"]
          /\ Reads("TOLD", any, wake) = [any EXCEPT ![id] = "READY"]
      BY DeadlineTold
    <2> QED BY <2>1, <2>2, <2>3
  <1> HIDE DEF miss, skip, release, wake, missing, releasing
  <1>3. Folded("TOLD", states, When(missing, miss)) = states
    BY <1>2, FoldedWhen
  <1>4. Folded("TOLD", states,
               When(counted.next_release_order # missed.next_release_order,
                    skip)) = states
    BY <1>2, FoldedWhen
  <1>5. Folded("TOLD", states, When(releasing, release)) = afterRelease
    <2>1. Reads("TOLD", states, release) = ready
      BY <1>2
    <2> HIDE DEF ready
    <2> QED BY <2>1, FoldedWhen
  <1>6. Folded("TOLD", afterRelease, When(WakeIsDue(released, now), wake))
          = afterWake
    <2> DEFINE woken == [afterRelease EXCEPT ![id] = "READY"]
    <2>1. Reads("TOLD", afterRelease, wake) = woken
      BY <1>2
    <2> HIDE DEF afterRelease, woken
    <2>2. Folded("TOLD", afterRelease, When(WakeIsDue(released, now), wake))
            = IF WakeIsDue(released, now) THEN woken ELSE afterRelease
      BY <2>1, FoldedWhen
    <2> QED BY <2>2 DEF woken
  <1>7. afterWake = IF releasing \/ WakeIsDue(released, now) THEN ready
                    ELSE states
    BY DEF releasing
  <1> HIDE DEF missed, counted, released, afterRelease, afterWake
  <1>8. Folded("TOLD", states, TaskTickEvents(id)) = afterWake
    BY <1>1, <1>3, <1>4, <1>5, <1>6, FoldedConcat, IsSeqRules
  <1> QED BY <1>7, <1>8 DEF BecomesReady, releasing, counted, released

\* The turn of id tells a miss, or a release.
MissTold(id) ==
    os_sched_record_deadline_miss(
        os_sched_account_running_tick(schedules[id]), monotonic_ticks')
      .deadline_miss_latched # schedules[id].deadline_miss_latched

ReleaseTold(id) ==
    /\ ReleaseIsDue(CountedTick(schedules[id], monotonic_ticks'),
                    monotonic_ticks')
    /\ ~ReleasedTick(schedules[id], monotonic_ticks').time_range_exhausted

\* t is the summary s with the turns of the tasks P read.
TurnsRead(s, t, P) ==
    /\ t \in Summaries
    /\ t.task = s.task /\ t.since = s.since /\ t.continuous = s.continuous
    /\ t.running_ticks = s.running_ticks
    /\ t.deadlines_met = s.deadlines_met
    /\ \A id \in UserTasks :
          /\ t.deadline_misses[id] = s.deadline_misses[id]
               + (IF id \in P /\ MissTold(id) THEN 1 ELSE 0)
          /\ t.released_jobs[id] = s.released_jobs[id]
               + (IF id \in P /\ ReleaseTold(id) THEN 1 ELSE 0)

LEMMA TurnsReadOne ==
    ASSUME NEW s \in Summaries, NEW r, NEW P \in SUBSET UserTasks,
           TurnsRead(s, r, P), NEW id \in UserTasks, id \notin P
    PROVE  TurnsRead(s, Folded("SUMMARY", r, TaskTickEvents(id)), P \cup {id})
  <1> DEFINE t == Folded("SUMMARY", r, TaskTickEvents(id))
  <1>1. r \in Summaries
    BY DEF TurnsRead
  <1>2. /\ t \in Summaries
        /\ t.task = r.task /\ t.since = r.since
        /\ t.continuous = r.continuous
        /\ t.running_ticks = r.running_ticks
        /\ t.deadlines_met = r.deadlines_met
        /\ t.deadline_misses = IF MissTold(id)
                               THEN [r.deadline_misses EXCEPT ![id] = @ + 1]
                               ELSE r.deadline_misses
        /\ t.released_jobs = IF ReleaseTold(id)
                             THEN [r.released_jobs EXCEPT ![id] = @ + 1]
                             ELSE r.released_jobs
    BY <1>1, TurnRead DEF MissTold, ReleaseTold
  <1>3. /\ r.deadline_misses \in [UserTasks -> Nat]
        /\ r.released_jobs \in [UserTasks -> Nat]
        /\ s.deadline_misses \in [UserTasks -> Nat]
        /\ s.released_jobs \in [UserTasks -> Nat]
    BY <1>1 DEF Summaries
  <1> HIDE DEF t
  <1>4. ASSUME NEW other \in UserTasks
        PROVE  /\ t.deadline_misses[other] = s.deadline_misses[other]
                    + (IF other \in P \cup {id} /\ MissTold(other)
                       THEN 1 ELSE 0)
               /\ t.released_jobs[other] = s.released_jobs[other]
                    + (IF other \in P \cup {id} /\ ReleaseTold(other)
                       THEN 1 ELSE 0)
    <2>1. /\ r.deadline_misses[other] = s.deadline_misses[other]
               + (IF other \in P /\ MissTold(other) THEN 1 ELSE 0)
          /\ r.released_jobs[other] = s.released_jobs[other]
               + (IF other \in P /\ ReleaseTold(other) THEN 1 ELSE 0)
      BY DEF TurnsRead
    <2>2. CASE other # id
      BY <1>2, <1>3, <2>1, <2>2
    <2>3. CASE other = id
      BY <1>2, <1>3, <2>1, <2>3
    <2> QED BY <2>2, <2>3
  <1> QED BY <1>1, <1>2, <1>4 DEF TurnsRead, t

\* All the turns, read.
LEMMA TurnsAllRead ==
    ASSUME NEW s \in Summaries
    PROVE  LET turns == FlattenSeq([id \in UserTasks |-> TaskTickEvents(id)])
           IN /\ IsSeq(turns)
              /\ TurnsRead(s, Folded("SUMMARY", s, turns), UserTasks)
  <1> DEFINE n == OS_MAX_USER_TASKS
             seqs == [id \in UserTasks |-> TaskTickEvents(id)]
  <1>1. n \in Nat \ {0} /\ UserTasks = 1 .. n
    BY SchedulerConstants DEF UserTasks
  <1>2. seqs = [i \in 1 .. n |-> seqs[i]]
    BY <1>1
  <1>3. \A i \in 1 .. n : seqs[i] = TaskTickEvents(i)
    BY <1>1
  <1> HIDE DEF seqs
  <1>4. \A i \in 1 .. n : IsSeq(seqs[i])
    BY <1>1, <1>3, TurnRead
  <1> HIDE DEF n
  <1>5. PICK g : FlattenedReadings("SUMMARY", s, seqs, n, g)
    BY <1>1, <1>2, <1>4, FoldedFlatten
  <1> DEFINE Bad == {i \in 0 .. n : ~TurnsRead(s, g[i], 1 .. i)}
  <1>6. Bad = {}
    <2> SUFFICES ASSUME Bad # {} PROVE FALSE
      OBVIOUS
    <2>1. Bad \in SUBSET Nat
      BY <1>1
    <2>2. PICK i \in Bad : \A j \in Bad : i <= j
      <3> HIDE DEF Bad
      <3> QED BY <2>1, NatMinimum
    <2>3. i \in 0 .. n /\ ~TurnsRead(s, g[i], 1 .. i)
      BY <2>2
    <2>4. CASE i = 0
      <3>1. 1 .. i = {}
        BY <2>4
      <3>2. s.deadline_misses \in [UserTasks -> Nat]
              /\ s.released_jobs \in [UserTasks -> Nat]
        BY DEF Summaries
      <3>3. TurnsRead(s, s, {})
        BY <3>2 DEF TurnsRead
      <3>4. g[0] = s
        BY <1>5 DEF FlattenedReadings
      <3> QED BY <2>3, <2>4, <3>1, <3>3, <3>4
    <2>5. CASE i # 0
      <3>1. i - 1 \in 0 .. n /\ i - 1 \notin Bad /\ i \in 1 .. n
        <4>1. i - 1 \in 0 .. n /\ i \in 1 .. n /\ ~(i <= i - 1)
          BY <1>1, <2>3, <2>5
        <4> HIDE DEF Bad
        <4> QED BY <2>2, <4>1
      <3>2. TurnsRead(s, g[i - 1], 1 .. i - 1)
        BY <3>1
      <3>3. /\ 1 .. i - 1 \in SUBSET UserTasks /\ i \in UserTasks
            /\ i \notin 1 .. i - 1 /\ (1 .. i - 1) \cup {i} = 1 .. i
        BY <1>1, <3>1
      <3>4. g[i] = Folded("SUMMARY", g[i - 1], TaskTickEvents(i))
        BY <1>3, <1>5, <3>1 DEF FlattenedReadings
      <3> HIDE DEF Bad
      <3>5. TurnsRead(s, g[i], (1 .. i - 1) \cup {i})
        BY <3>2, <3>3, <3>4, TurnsReadOne
      <3> QED BY <2>3, <3>3, <3>5
    <2> QED BY <2>4, <2>5
  <1>7. n \in 0 .. n
    BY <1>1
  <1>8. TurnsRead(s, g[n], UserTasks)
    BY <1>1, <1>6, <1>7
  <1> QED BY <1>5, <1>8 DEF FlattenedReadings, seqs

\* t are the states told with the turns of the tasks P read.
TurnsTold(states, t, P) ==
    t = [id \in TaskIds |->
           IF id \in P /\ BecomesReady(schedules[id], monotonic_ticks')
           THEN "READY" ELSE states[id]]

LEMMA TurnsToldOne ==
    ASSUME NEW states, NEW r, NEW P \in SUBSET UserTasks,
           TurnsTold(states, r, P), NEW id \in UserTasks, id \notin P
    PROVE  TurnsTold(states, Folded("TOLD", r, TaskTickEvents(id)),
                     P \cup {id})
  <1> DEFINE t == Folded("TOLD", r, TaskTickEvents(id))
             Ready(task) == BecomesReady(task, monotonic_ticks')
  <1>1. t = IF Ready(schedules[id]) THEN [r EXCEPT ![id] = "READY"] ELSE r
    BY TurnTold
  <1>2. r = [other \in TaskIds |->
               IF other \in P /\ Ready(schedules[other])
               THEN "READY" ELSE states[other]]
    BY DEF TurnsTold
  <1> HIDE DEF t, Ready
  <1>3. t = [other \in TaskIds |->
               IF other \in P \cup {id} /\ Ready(schedules[other])
               THEN "READY" ELSE states[other]]
    <2>1. CASE Ready(schedules[id])
      BY <1>1, <1>2, <2>1
    <2>2. CASE ~Ready(schedules[id])
      <3>1. \A other \in TaskIds :
               other \in P /\ Ready(schedules[other])
                 <=> other \in P \cup {id} /\ Ready(schedules[other])
        BY <2>2
      <3> QED BY <1>1, <1>2, <2>2, <3>1
    <2> QED BY <2>1, <2>2
  <1> QED BY <1>3 DEF TurnsTold, t, Ready

LEMMA TurnsAllTold ==
    ASSUME NEW states, states = [id \in TaskIds |-> states[id]]
    PROVE  LET turns == FlattenSeq([id \in UserTasks |-> TaskTickEvents(id)])
           IN TurnsTold(states, Folded("TOLD", states, turns), UserTasks)
  <1> DEFINE n == OS_MAX_USER_TASKS
             seqs == [id \in UserTasks |-> TaskTickEvents(id)]
  <1>1. n \in Nat \ {0} /\ UserTasks = 1 .. n
    BY SchedulerConstants DEF UserTasks
  <1>2. seqs = [i \in 1 .. n |-> seqs[i]]
    BY <1>1
  <1>3. \A i \in 1 .. n : seqs[i] = TaskTickEvents(i)
    BY <1>1
  <1> HIDE DEF seqs
  <1>4. \A i \in 1 .. n : IsSeq(seqs[i])
    <2>1. NothingRead \in Summaries
      BY IdTypes DEF NothingRead, Summaries
    <2> QED BY <1>1, <1>3, <2>1, TurnRead
  <1> HIDE DEF n
  <1>5. PICK g : FlattenedReadings("TOLD", states, seqs, n, g)
    BY <1>1, <1>2, <1>4, FoldedFlatten
  <1> DEFINE Bad == {i \in 0 .. n : ~TurnsTold(states, g[i], 1 .. i)}
  <1>6. Bad = {}
    <2> SUFFICES ASSUME Bad # {} PROVE FALSE
      OBVIOUS
    <2>1. Bad \in SUBSET Nat
      BY <1>1
    <2>2. PICK i \in Bad : \A j \in Bad : i <= j
      <3> HIDE DEF Bad
      <3> QED BY <2>1, NatMinimum
    <2>3. i \in 0 .. n /\ ~TurnsTold(states, g[i], 1 .. i)
      BY <2>2
    <2>4. CASE i = 0
      <3>1. 1 .. i = {}
        BY <2>4
      <3>2. TurnsTold(states, states, {})
        BY DEF TurnsTold
      <3>3. g[0] = states
        BY <1>5 DEF FlattenedReadings
      <3> QED BY <2>3, <2>4, <3>1, <3>2, <3>3
    <2>5. CASE i # 0
      <3>1. i - 1 \in 0 .. n /\ i - 1 \notin Bad /\ i \in 1 .. n
        <4>1. i - 1 \in 0 .. n /\ i \in 1 .. n /\ ~(i <= i - 1)
          BY <1>1, <2>3, <2>5
        <4> HIDE DEF Bad
        <4> QED BY <2>2, <4>1
      <3>2. TurnsTold(states, g[i - 1], 1 .. i - 1)
        BY <3>1
      <3>3. /\ 1 .. i - 1 \in SUBSET UserTasks /\ i \in UserTasks
            /\ i \notin 1 .. i - 1 /\ (1 .. i - 1) \cup {i} = 1 .. i
        BY <1>1, <3>1
      <3>4. g[i] = Folded("TOLD", g[i - 1], TaskTickEvents(i))
        BY <1>3, <1>5, <3>1 DEF FlattenedReadings
      <3> HIDE DEF Bad
      <3>5. TurnsTold(states, g[i], (1 .. i - 1) \cup {i})
        BY <3>2, <3>3, <3>4, TurnsToldOne
      <3> QED BY <2>3, <3>3, <3>5
    <2> QED BY <2>4, <2>5
  <1>7. n \in 0 .. n
    BY <1>1
  <1>8. TurnsTold(states, g[n], UserTasks)
    BY <1>1, <1>6, <1>7
  <1> QED BY <1>5, <1>8 DEF FlattenedReadings, seqs

\* A tick that counts, read: its probe adds nothing.
LEMMA TickRead ==
    ASSUME Emits(TickEvents), monotonic_ticks' # monotonic_ticks,
           summary \in Summaries, told = [id \in TaskIds |-> told[id]]
    PROVE  /\ TurnsRead(summary, summary', UserTasks)
           /\ TurnsTold(told, told', UserTasks)
  <1> DEFINE preempts == /\ current_task # OS_TASK_ID_INVALID
                         /\ schedules[current_task].state = "RUNNING"
                         /\ schedules'[current_task].state = "READY"
             ticked == [schedules' EXCEPT ![current_task].state = "RUNNING"]
             turns == FlattenSeq([id \in UserTasks |-> TaskTickEvents(id)])
             probe == os_trace_emit_selection(ticked,
                          os_sched_select(ticked, OS_TASK_ID_INVALID),
                          current_task, OS_TASK_ID_INVALID, "SYSTICK_PROBE")
  <1>1. TickEvents = turns \o When(preempts, probe)
    <2> HIDE DEF turns, preempts, probe
    <2> QED BY DEF TickEvents, turns, preempts, probe
  <1>2. ASSUME NEW s PROVE /\ Reads("SUMMARY", s, probe) = s
                           /\ Reads("TOLD", s, probe) = s
    <2>1. "TASK_SELECT" \notin Counted /\ "TASK_SELECT" \notin Telling
      BY DEF Counted, Telling
    <2> QED BY <2>1, ReadOther, TellOther DEF os_trace_emit_selection
  <1>3. IsSeq(turns) /\ TurnsRead(summary, Folded("SUMMARY", summary, turns),
                                  UserTasks)
    BY TurnsAllRead
  <1>4. TurnsTold(told, Folded("TOLD", told, turns), UserTasks)
    BY TurnsAllTold
  <1> HIDE DEF turns, probe, preempts
  <1>5. \A reader, s : Reads(reader, s, probe) = s =>
           Folded(reader, s, When(preempts, probe)) = s
    BY FoldedWhen
  <1>6. /\ summary' = Folded("SUMMARY", summary, turns \o When(preempts, probe))
        /\ told' = Folded("TOLD", told, turns \o When(preempts, probe))
    BY <1>1, EmitsReads
  <1>7. /\ summary' = Folded("SUMMARY", summary, turns)
        /\ told' = Folded("TOLD", told, turns)
    BY <1>2, <1>3, <1>5, <1>6, FoldedConcat, IsSeqRules
  <1> QED BY <1>3, <1>4, <1>7

----------------------------------------------------------------------------
\* A turn of SysTick's loop, in the task's record.

\* The same turn's effect on a record, and what it counts: a miss of the active
\* job, or the next job (os_kernel_tick).
LEMMA TurnEffect ==
    ASSUME NEW task \in SchedTask, NEW now \in Nat, JobMatches(task),
           ~task.time_range_exhausted
    PROVE  LET missed == os_sched_record_deadline_miss(
                             os_sched_account_running_tick(task), now)
               misses == missed.deadline_miss_latched
                           # task.deadline_miss_latched
               releases == /\ ReleaseIsDue(CountedTick(task, now), now)
                           /\ ~ReleasedTick(task, now).time_range_exhausted
               after == TickTask(task, now)
           IN
           /\ after.total_execution_ticks <= task.total_execution_ticks + 1
           /\ after.completed_job_count = task.completed_job_count
           /\ misses => task.job_active /\ ~task.deadline_miss_latched
           /\ releases => ~task.job_active
           /\ after.job_sequence = IF releases
                                   THEN increment_saturating(task.job_sequence)
                                   ELSE task.job_sequence
           /\ after.deadline_miss_count =
                IF misses THEN increment_saturating(task.deadline_miss_count)
                ELSE task.deadline_miss_count
           /\ after.job_active /\ after.deadline_miss_latched
                <=> misses \/ (task.job_active /\ task.deadline_miss_latched)
           /\ IF releases \/ WakeIsDue(ReleasedTick(task, now), now)
              THEN after.state = "READY" ELSE after.state = task.state
  <1> DEFINE charged == os_sched_account_running_tick(task)
             missed == os_sched_record_deadline_miss(charged, now)
             misses == missed.deadline_miss_latched
                         # task.deadline_miss_latched
             counted == CountedTick(task, now)
             released == ReleasedTick(task, now)
             releases == /\ ReleaseIsDue(counted, now)
                         /\ ~released.time_range_exhausted
             wakes == WakeIsDue(released, now)
             after == TickTask(task, now)
             Same(a, b) == /\ a.state = b.state
                           /\ a.job_active = b.job_active
                           /\ a.completed_job_count = b.completed_job_count
                           /\ a.job_sequence = b.job_sequence
  <1>1. /\ charged \in SchedTask /\ Same(charged, task)
        /\ charged.deadline_miss_latched = task.deadline_miss_latched
        /\ charged.deadline_miss_count = task.deadline_miss_count
        /\ ~charged.time_range_exhausted
        /\ charged.total_execution_ticks <= task.total_execution_ticks + 1
    <2>1. charged \in SchedTask
      BY AccountType
    <2>2. task.total_execution_ticks \in Nat
      BY NumberTypes DEF SchedTask
    <2> QED
      BY <2>1, <2>2
      DEF os_sched_account_running_tick, increment_saturating, SchedTask
  <1>2. /\ missed \in SchedTask /\ Same(missed, task)
        /\ ~missed.time_range_exhausted
        /\ missed.total_execution_ticks = charged.total_execution_ticks
        /\ misses => task.job_active /\ ~task.deadline_miss_latched
                       /\ missed.deadline_miss_latched
        /\ missed.deadline_miss_count =
             IF misses THEN increment_saturating(task.deadline_miss_count)
             ELSE task.deadline_miss_count
    <2>1. missed \in SchedTask
      BY <1>1, MissType
    <2> HIDE DEF charged
    <2> QED
      BY <1>1, <2>1 DEF os_sched_record_deadline_miss, SchedTask
  <1> DEFINE Counts2(a, b) ==
                 /\ a.deadline_miss_latched = b.deadline_miss_latched
                 /\ a.deadline_miss_count = b.deadline_miss_count
                 /\ a.total_execution_ticks = b.total_execution_ticks
  <1>3. /\ counted \in SchedTask /\ Same(counted, missed)
        /\ Counts2(counted, missed)
        /\ ~task.job_active => ~counted.time_range_exhausted
    <2>1. counted = os_sched_record_active_release(missed, now)
      BY DEF CountedTick
    <2>2. counted \in SchedTask
      BY TickType
    <2> HIDE DEF missed, misses, counted
    <2> QED
      BY <1>2, <2>1, <2>2 DEF os_sched_record_active_release, SchedTask
  <1> HIDE DEF charged, missed, misses, counted
  <1>4. /\ released \in SchedTask
        /\ ~releases => Same(released, counted) /\ Counts2(released, counted)
        /\ releases =>
             /\ released.state = "READY" /\ released.job_active
             /\ ~released.deadline_miss_latched
             /\ released.deadline_miss_count = counted.deadline_miss_count
             /\ released.total_execution_ticks = counted.total_execution_ticks
             /\ released.completed_job_count = counted.completed_job_count
             /\ released.job_sequence
                  = increment_saturating(counted.job_sequence)
             /\ ~counted.job_active
    <2> DEFINE moved ==
                 [counted EXCEPT !.release_order = counted.next_release_order]
    <2>1. released = IF ReleaseIsDue(counted, now) THEN activate_job(moved)
                     ELSE counted
      BY DEF ReleasedTick, os_sched_release_due, counted
    <2>2. released \in SchedTask
      BY TickType
    <2> HIDE DEF released
    <2>3. CASE ~ReleaseIsDue(counted, now)
      BY <2>1, <2>2, <2>3
    <2>4. CASE ReleaseIsDue(counted, now)
      <3>1. /\ moved \in SchedTask
            /\ Same(moved, counted) /\ Counts2(moved, counted)
            /\ moved.time_range_exhausted = counted.time_range_exhausted
        BY <1>3, <2>4 DEF ReleaseIsDue, SchedTask
      <3>2. ~counted.job_active /\ ~counted.time_range_exhausted
        BY <1>2, <1>3, <2>4 DEF ReleaseIsDue
      <3> HIDE DEF moved
      <3>3. CASE ActivationFits(moved)
        <4>1. /\ released.state = "READY" /\ released.job_active
              /\ ~released.deadline_miss_latched
              /\ ~released.time_range_exhausted
              /\ released.deadline_miss_count = moved.deadline_miss_count
              /\ released.total_execution_ticks = moved.total_execution_ticks
              /\ released.completed_job_count = moved.completed_job_count
              /\ released.job_sequence
                   = increment_saturating(moved.job_sequence)
          BY <2>1, <2>4, <3>1, <3>2, <3>3 DEF activate_job, SchedTask
        <4> QED BY <2>2, <2>4, <3>1, <3>2, <4>1
      <3>4. CASE ~ActivationFits(moved)
        <4>1. released = [moved EXCEPT !.time_range_exhausted = TRUE]
          BY <2>1, <2>4, <3>4 DEF activate_job
        <4>2. /\ released.time_range_exhausted
              /\ Same(released, moved) /\ Counts2(released, moved)
          BY <3>1, <4>1 DEF SchedTask
        <4> QED BY <2>2, <3>1, <4>2
      <3> QED BY <3>3, <3>4
    <2> QED BY <2>3, <2>4
  <1> HIDE DEF released
  <1>5. /\ after.job_active = released.job_active
        /\ after.completed_job_count = released.completed_job_count
        /\ after.job_sequence = released.job_sequence
        /\ Counts2(after, released)
        /\ after.state = IF wakes THEN "READY" ELSE released.state
    <2>1. after = os_sched_wake_due(released, now)
      BY DEF TickTask, released
    <2> HIDE DEF after
    <2> QED BY <1>4, <2>1 DEF os_sched_wake_due, SchedTask
  <1>6. task.job_active \in BOOLEAN /\ task.deadline_miss_latched \in BOOLEAN
        /\ missed.deadline_miss_latched \in BOOLEAN
    BY <1>2 DEF SchedTask
  <1> HIDE DEF after, wakes
  <1>7. /\ after.total_execution_ticks <= task.total_execution_ticks + 1
        /\ after.completed_job_count = task.completed_job_count
    BY <1>1, <1>2, <1>3, <1>4, <1>5
  <1>8. /\ misses => task.job_active /\ ~task.deadline_miss_latched
        /\ releases => ~task.job_active
        /\ after.job_sequence = IF releases
                                THEN increment_saturating(task.job_sequence)
                                ELSE task.job_sequence
        /\ after.deadline_miss_count =
             IF misses THEN increment_saturating(task.deadline_miss_count)
             ELSE task.deadline_miss_count
    BY <1>2, <1>3, <1>4, <1>5
  <1>9. after.job_active /\ after.deadline_miss_latched
          <=> misses \/ (task.job_active /\ task.deadline_miss_latched)
    <2>1. CASE releases
      <3>1. ~task.job_active /\ ~misses /\ ~after.deadline_miss_latched
        BY <1>2, <1>3, <1>4, <1>5, <2>1
      <3> QED BY <3>1
    <2>2. CASE ~releases
      <3>1. /\ after.job_active = task.job_active
            /\ after.deadline_miss_latched = missed.deadline_miss_latched
        BY <1>2, <1>3, <1>4, <1>5, <2>2
      <3>2. CASE misses
        BY <1>2, <3>1, <3>2 DEF misses
      <3>3. CASE ~misses
        <4>1. missed.deadline_miss_latched = task.deadline_miss_latched
          BY <3>3 DEF misses
        <4> QED BY <3>1, <3>3, <4>1
      <3> QED BY <3>2, <3>3
    <2> QED BY <2>1, <2>2
  <1>10. IF releases \/ wakes THEN after.state = "READY"
         ELSE after.state = task.state
    BY <1>2, <1>3, <1>4, <1>5
  <1> QED
    BY <1>7, <1>8, <1>9, <1>10
    DEF misses, missed, charged, counted, released, after, wakes

\* Only a waiting task is released, only a sleeping one woken.
LEMMA TurnStates ==
    ASSUME NEW task \in SchedTask, NEW now \in Nat, JobMatches(task)
    PROVE  /\ ReleaseIsDue(CountedTick(task, now), now) =>
                task.state = "WAITING_RELEASE"
           /\ WakeIsDue(ReleasedTick(task, now), now) =>
                task.state = "SLEEPING"
  <1> DEFINE charged == os_sched_account_running_tick(task)
             missed == os_sched_record_deadline_miss(charged, now)
             counted == CountedTick(task, now)
             released == ReleasedTick(task, now)
  <1>1. charged \in SchedTask /\ charged.state = task.state
    <2>1. charged \in SchedTask
      BY AccountType
    <2> QED BY <2>1 DEF os_sched_account_running_tick, SchedTask
  <1> HIDE DEF charged
  <1>2. missed \in SchedTask /\ missed.state = task.state
    <2>1. missed \in SchedTask
      BY <1>1, MissType
    <2> QED BY <1>1, <2>1 DEF os_sched_record_deadline_miss, SchedTask
  <1>3. counted = os_sched_record_active_release(missed, now)
    BY DEF CountedTick, missed, charged
  <1>4. counted \in SchedTask /\ released \in SchedTask
    BY TickType
  <1>5. released = os_sched_release_due(counted, now)
    BY DEF ReleasedTick
  <1> HIDE DEF missed, counted, released
  <1>6. counted.state = task.state
    BY <1>2, <1>3, <1>4 DEF os_sched_record_active_release, SchedTask
  <1>7. released.state = "SLEEPING" => counted.state = "SLEEPING"
    BY <1>4, <1>5
    DEF os_sched_release_due, ReleaseIsDue, activate_job, SchedTask
  <1> QED BY <1>6, <1>7 DEF ReleaseIsDue, WakeIsDue, counted, released

----------------------------------------------------------------------------
\* What a reader knows of the kernel after each step.

\* id's state is told, or its preemption by SysTick is to be.
Tells(id) ==
    \/ told[id] = schedules[id].state
    \/ /\ id = current_task /\ "SYSTICK" \in pending_preempt_sources
       /\ told[id] = "RUNNING"
       /\ schedules[id].state = "READY"

\* id's charged ticks lie in the intervals read, the open one included.
OpenInterval(id) ==
    IF summary.task = id THEN monotonic_ticks - summary.since ELSE 0

Covered(id) ==
    Occupied(id) => schedules[id].total_execution_ticks
                      <= summary.running_ticks[id] + OpenInterval(id)

\* The inductive invariant: the open interval is the current task's.
ReaderInv ==
    /\ summary \in Summaries
    /\ told = [id \in TaskIds |-> told[id]]
    /\ summary.task = current_task /\ summary.continuous
    /\ summary.since <= monotonic_ticks
    /\ panics = {} => \A id \in TaskIds : Tells(id)
    /\ \A id \in UserTasks : Covered(id)

LEMMA ReaderImplies ==
    ReaderInv => TraceTellsState /\ IntervalsCoverCharges
  BY DEF ReaderInv, TraceTellsState, IntervalsCoverCharges, Tells, Covered,
         OpenInterval

\* The table after a tick that counts, in the reader's terms.
LEMMA TickStates ==
    ASSUME KernelInv, SysTick, monotonic_ticks' # monotonic_ticks,
           NEW id \in UserTasks
    PROVE  LET task == schedules[id]
               after == schedules'[id]
           IN
           /\ task \in SchedTask /\ after \in SchedTask
           /\ after.total_execution_ticks <= task.total_execution_ticks + 1
           /\ task.state # "RUNNING" =>
                after.total_execution_ticks = task.total_execution_ticks
           /\ after.completed_job_count = task.completed_job_count
           /\ after.job_sequence = IF ReleaseTold(id)
                                   THEN increment_saturating(task.job_sequence)
                                   ELSE task.job_sequence
           /\ after.deadline_miss_count =
                IF MissTold(id)
                THEN increment_saturating(task.deadline_miss_count)
                ELSE task.deadline_miss_count
           /\ MissTold(id) => task.job_active /\ ~task.deadline_miss_latched
           /\ after.job_active /\ after.deadline_miss_latched
                <=> MissTold(id)
                      \/ (task.job_active /\ task.deadline_miss_latched)
           /\ after.state = "DORMANT" <=> task.state = "DORMANT"
           /\ IF BecomesReady(task, monotonic_ticks')
              THEN /\ after.state = "READY"
                   /\ task.state \notin {"RUNNING", "READY"}
              ELSE \/ after.state = task.state
                   \/ /\ id = current_task /\ task.state = "RUNNING"
                      /\ after.state = "READY"
                      /\ "SYSTICK" \in pending_preempt_sources'
  <1> DEFINE now == monotonic_ticks'
             task == schedules[id]
             turned == TickTask(task, now)
             after == schedules'[id]
  <1>1. /\ now \in Nat /\ now = monotonic_ticks + 1
        /\ task \in SchedTask /\ JobMatches(task)
        /\ ~task.time_range_exhausted
    <2>1. StructureInv /\ TimeInv /\ panics = {}
      BY TickShape DEF KernelInv
    <2>2. /\ monotonic_ticks \in Nat /\ task \in SchedTask /\ JobMatches(task)
          /\ OnTime(task, monotonic_ticks)
      BY <2>1, TimeBefore
    <2>3. now = monotonic_ticks + 1
      BY TickShape
    <2> QED BY <2>2, <2>3 DEF OnTime
  <1>2. /\ turned.total_execution_ticks <= task.total_execution_ticks + 1
        /\ turned.completed_job_count = task.completed_job_count
        /\ MissTold(id) => task.job_active /\ ~task.deadline_miss_latched
        /\ turned.job_sequence = IF ReleaseTold(id)
                                 THEN increment_saturating(task.job_sequence)
                                 ELSE task.job_sequence
        /\ turned.deadline_miss_count =
             IF MissTold(id)
             THEN increment_saturating(task.deadline_miss_count)
             ELSE task.deadline_miss_count
        /\ turned.job_active /\ turned.deadline_miss_latched
             <=> MissTold(id)
                   \/ (task.job_active /\ task.deadline_miss_latched)
        /\ IF BecomesReady(task, now)
           THEN turned.state = "READY" ELSE turned.state = task.state
    BY <1>1, TurnEffect DEF MissTold, ReleaseTold, BecomesReady
  <1>3. /\ turned \in SchedTask
        /\ \/ turned.state = task.state
           \/ /\ task.state \in {"WAITING_RELEASE", "SLEEPING"}
              /\ turned.state = "READY"
        /\ task.state # "RUNNING" =>
             turned.total_execution_ticks = task.total_execution_ticks
    BY <1>1, TickEffect, TickType
  <1>4. BecomesReady(task, now) =>
          task.state \in {"WAITING_RELEASE", "SLEEPING"}
    <2>1. ReleaseIsDue(CountedTick(task, now), now) =>
            task.state = "WAITING_RELEASE"
      BY <1>1, TurnStates
    <2>2. WakeIsDue(ReleasedTick(task, now), now) => task.state = "SLEEPING"
      BY <1>1, TurnStates
    <2> QED BY <2>1, <2>2 DEF BecomesReady
  <1>5. turned = Ticked[id]
    BY <1>1, IdTypes DEF Ticked
  <1>6. \/ after = turned
        \/ /\ id = current_task /\ turned.state = "RUNNING"
           /\ after = [turned EXCEPT !.state = "READY"]
           /\ "SYSTICK" \in pending_preempt_sources'
    <2>1. Ticked \in [TaskIds -> SchedTask] /\ id \in TaskIds
      BY TickShape, IdTypes
    <2> HIDE DEF turned
    <2> QED BY <1>5, <2>1, TickShape
  <1> HIDE DEF turned, after, task, now
  <1>7. CASE after = turned
    BY <1>1, <1>2, <1>3, <1>4, <1>7 DEF after, task, now
  <1>8. CASE /\ id = current_task /\ turned.state = "RUNNING"
             /\ after = [turned EXCEPT !.state = "READY"]
             /\ "SYSTICK" \in pending_preempt_sources'
    <2>1. /\ after \in SchedTask /\ after.state = "READY"
          /\ after.total_execution_ticks = turned.total_execution_ticks
          /\ after.completed_job_count = turned.completed_job_count
          /\ after.job_sequence = turned.job_sequence
          /\ after.deadline_miss_count = turned.deadline_miss_count
          /\ after.job_active = turned.job_active
          /\ after.deadline_miss_latched = turned.deadline_miss_latched
      <3>1. after \in SchedTask
        BY <1>3, <1>8, StateType DEF States
      <3> QED BY <1>3, <1>8, <3>1 DEF SchedTask
    <2>2. task.state = "RUNNING" /\ ~BecomesReady(task, now)
      BY <1>2, <1>3, <1>8
    <2> QED BY <1>1, <1>2, <1>3, <1>8, <2>1, <2>2 DEF after, task, now
  <1> QED BY <1>6, <1>7, <1>8

\* SysTick: who becomes ready is told, the interval grows by the tick that is
\* charged, and a preempted task is still told to run.
LEMMA TickReader ==
    ASSUME KernelInv, ReaderInv, SysTick, Emits(TickEvents),
           monotonic_ticks' # monotonic_ticks
    PROVE  ReaderInv'
  <1>1. /\ TurnsRead(summary, summary', UserTasks)
        /\ TurnsTold(told, told', UserTasks)
    BY TickRead DEF ReaderInv
  <1>2. /\ summary' \in Summaries /\ summary'.task = summary.task
        /\ summary'.since = summary.since
        /\ summary'.continuous = summary.continuous
        /\ summary'.running_ticks = summary.running_ticks
    BY <1>1 DEF TurnsRead
  <1>3. /\ UNCHANGED current_task
        /\ monotonic_ticks \in Nat /\ monotonic_ticks' = monotonic_ticks + 1
        /\ panics = {} /\ StructureInv
    BY TickShape DEF KernelInv
  <1>4. /\ summary.since \in Nat /\ summary.running_ticks \in [TaskIds -> Nat]
    BY DEF ReaderInv, Summaries
  <1>5. told' = [id \in TaskIds |-> told'[id]]
    BY <1>1 DEF TurnsTold
  <1>6. summary'.since <= monotonic_ticks'
    BY <1>2, <1>3, <1>4 DEF ReaderInv
  <1>7. ASSUME NEW id \in TaskIds PROVE Tells(id)'
    <2>1. Tells(id)
      BY <1>3 DEF ReaderInv
    <2>2. /\ told'[id] = IF id \in UserTasks
                              /\ BecomesReady(schedules[id], monotonic_ticks')
                         THEN "READY" ELSE told[id]
      BY <1>1 DEF TurnsTold
    <2>3. "SYSTICK" \in pending_preempt_sources =>
            "SYSTICK" \in pending_preempt_sources'
      BY <1>3 DEF SysTick, pending, record_preemption_request
    <2>4. CASE id \in UserTasks
      <3>1. IF BecomesReady(schedules[id], monotonic_ticks')
            THEN /\ schedules'[id].state = "READY"
                 /\ schedules[id].state \notin {"RUNNING", "READY"}
            ELSE \/ schedules'[id].state = schedules[id].state
                 \/ /\ id = current_task /\ schedules[id].state = "RUNNING"
                    /\ schedules'[id].state = "READY"
                    /\ "SYSTICK" \in pending_preempt_sources'
        BY <2>4, TickStates
      <3> QED BY <1>3, <2>1, <2>2, <2>3, <2>4, <3>1 DEF Tells
    <2>5. CASE id = OS_TASK_ID_IDLE
      <3>1. \/ schedules'[id].state = schedules[id].state
            \/ /\ id = current_task /\ schedules[id].state = "RUNNING"
               /\ schedules'[id].state = "READY"
               /\ "SYSTICK" \in pending_preempt_sources'
        <4>1. /\ Ticked[id] = schedules[id]
              /\ Ticked \in [TaskIds -> SchedTask]
              /\ \/ schedules' = Ticked
                 \/ /\ Ticked[current_task].state = "RUNNING"
                    /\ schedules' = [Ticked EXCEPT
                                       ![current_task].state = "READY"]
                    /\ "SYSTICK" \in pending_preempt_sources'
          BY <2>5, TickShape
        <4>2. [Ticked[id] EXCEPT !.state = "READY"].state = "READY"
          BY <4>1 DEF SchedTask
        <4> QED BY <4>1, <4>2
      <3>2. id \notin UserTasks
        BY <2>5, IdTypes
      <3> QED BY <1>3, <2>1, <2>2, <2>3, <3>1, <3>2 DEF Tells
    <2> QED BY <2>4, <2>5, IdTypes
  <1>8. ASSUME NEW id \in UserTasks PROVE Covered(id)'
    <2> SUFFICES ASSUME Occupied(id)'
                 PROVE  schedules'[id].total_execution_ticks
                          <= summary'.running_ticks[id] + OpenInterval(id)'
      BY DEF Covered
    <2>1. /\ schedules[id] \in SchedTask /\ schedules'[id] \in SchedTask
          /\ schedules'[id].total_execution_ticks
               <= schedules[id].total_execution_ticks + 1
          /\ schedules[id].state # "RUNNING" =>
               schedules'[id].total_execution_ticks
                 = schedules[id].total_execution_ticks
          /\ schedules[id].state # "DORMANT"
      BY TickStates DEF Occupied
    <2>2. /\ schedules[id].total_execution_ticks \in Nat
          /\ schedules'[id].total_execution_ticks \in Nat
      BY <2>1, NumberTypes DEF SchedTask
    <2>3. schedules[id].total_execution_ticks
            <= summary.running_ticks[id] + OpenInterval(id)
      BY <2>1 DEF ReaderInv, Covered, Occupied
    <2>4. summary.running_ticks[id] \in Nat
      BY <1>4, IdTypes
    <2>5. schedules[id].state = "RUNNING" => id = current_task
      BY <1>3, IdTypes DEF StructureInv, SwitchPromised
    <2>6. CASE id = current_task
      <3>1. OpenInterval(id) = monotonic_ticks - summary.since
        BY <2>6 DEF OpenInterval, ReaderInv
      <3>2. OpenInterval(id)' = monotonic_ticks + 1 - summary.since
        <4>1. summary'.task = id /\ summary'.since = summary.since
          BY <1>2, <2>6 DEF ReaderInv
        <4>2. OpenInterval(id)' = monotonic_ticks' - summary'.since
          BY <4>1 DEF OpenInterval
        <4> QED BY <1>3, <1>4, <4>1, <4>2
      <3> QED BY <1>2, <1>3, <1>4, <2>1, <2>2, <2>3, <2>4, <3>1, <3>2
    <2>7. CASE id # current_task
      <3>1. OpenInterval(id) = 0 /\ OpenInterval(id)' = 0
        BY <1>2, <2>7 DEF OpenInterval, ReaderInv
      <3> QED BY <1>2, <2>1, <2>2, <2>3, <2>4, <2>5, <2>7, <3>1
    <2> QED BY <2>6, <2>7
  <1> QED BY <1>2, <1>3, <1>5, <1>6, <1>7, <1>8 DEF ReaderInv

\* A step that leaves the tasks, the time and what was read as they are.
LEMMA QuietReader ==
    ASSUME ReaderInv,
           UNCHANGED <<schedules, current_task, monotonic_ticks, summary,
                       told>>,
           pending_preempt_sources \subseteq pending_preempt_sources',
           panics' = {} => panics = {}
    PROVE  ReaderInv'
  <1>1. \A id \in TaskIds : Tells(id) => Tells(id)'
    BY DEF Tells
  <1>2. \A id \in UserTasks : Covered(id) => Covered(id)'
    BY DEF Covered, Occupied, OpenInterval
  <1> QED BY <1>1, <1>2 DEF ReaderInv

\* A step that replaces one task's record, without running it, tells its state
\* and reads nothing into the intervals.
LEMMA RecordReader ==
    ASSUME ReaderInv, schedules \in [TaskIds -> SchedTask], panics = {},
           NEW id \in UserTasks, NEW after,
           schedules' = [schedules EXCEPT ![id] = after],
           \/ after.total_execution_ticks = 0
           \/ /\ Occupied(id)
              /\ after.total_execution_ticks
                   = schedules[id].total_execution_ticks,
           UNCHANGED <<current_task, monotonic_ticks>>,
           monotonic_ticks \in Nat,
           pending_preempt_sources \subseteq pending_preempt_sources',
           summary' \in Summaries, summary'.task = summary.task,
           summary'.since = summary.since,
           summary'.continuous = summary.continuous,
           summary'.running_ticks = summary.running_ticks,
           told' = [id2 \in TaskIds |-> told'[id2]],
           panics' = {} =>
               /\ \A other \in TaskIds \ {id} : told'[other] = told[other]
               /\ told'[id] = after.state
    PROVE  ReaderInv'
  <1>1. id \in TaskIds /\ schedules'[id] = after
    BY IdTypes
  <1>2. \A other \in TaskIds \ {id} : schedules'[other] = schedules[other]
    BY IdTypes
  <1>3. ASSUME NEW other \in TaskIds, panics' = {} PROVE Tells(other)'
    <2>1. CASE other = id
      BY <1>1, <1>3, <2>1 DEF Tells
    <2>2. CASE other # id
      <3>1. Tells(other)
        BY DEF ReaderInv
      <3> QED BY <1>2, <1>3, <2>2, <3>1 DEF Tells
    <2> QED BY <2>1, <2>2
  <1>4. ASSUME NEW other \in UserTasks PROVE Covered(other)'
    <2>1. OpenInterval(other)' = OpenInterval(other)
      BY DEF OpenInterval
    <2>2. other \in TaskIds /\ Covered(other)
      BY IdTypes DEF ReaderInv
    <2>3. summary.running_ticks[other] \in Nat /\ summary.since \in Nat
      BY <2>2 DEF ReaderInv, Summaries
    <2>4. OpenInterval(other) \in Nat
      BY <2>3 DEF OpenInterval, ReaderInv
    <2>5. CASE other # id
      <3>1. schedules'[other] = schedules[other]
        BY <1>2, <2>2, <2>5
      <3> QED BY <2>1, <2>2, <3>1 DEF Covered, Occupied
    <2>6. CASE other = id /\ after.total_execution_ticks = 0
      BY <1>1, <2>1, <2>3, <2>4, <2>6 DEF Covered
    <2>7. CASE /\ other = id /\ Occupied(id)
               /\ after.total_execution_ticks
                    = schedules[id].total_execution_ticks
      BY <1>1, <2>1, <2>2, <2>7 DEF Covered
    <2> QED BY <2>5, <2>6, <2>7
  <1> QED BY <1>3, <1>4 DEF ReaderInv

\* How a job ended, read.
OutcomeReadFrom(before, after, s, t) ==
    /\ t \in Summaries
    /\ t.task = s.task /\ t.since = s.since
    /\ t.continuous = s.continuous
    /\ t.running_ticks = s.running_ticks
    /\ t.released_jobs = s.released_jobs
    /\ t.deadline_misses =
         IF ~before.deadline_miss_latched /\ after.deadline_miss_latched
         THEN [s.deadline_misses EXCEPT ![current_task] = @ + 1]
         ELSE s.deadline_misses
    /\ t.deadlines_met =
         IF ~after.deadline_miss_latched
         THEN [s.deadlines_met EXCEPT ![current_task] = @ + 1]
         ELSE s.deadlines_met

LEMMA OutcomeRead ==
    ASSUME NEW before, NEW after, NEW s \in Summaries,
           current_task \in UserTasks
    PROVE  /\ IsSeq(OutcomeEvents(before, after))
           /\ OutcomeReadFrom(before, after, s,
                  Folded("SUMMARY", s, OutcomeEvents(before, after)))
           /\ \A states :
                 Folded("TOLD", states, OutcomeEvents(before, after)) = states
  <1> DEFINE id == current_task
             misses == /\ ~before.deadline_miss_latched
                       /\ after.deadline_miss_latched
             meets == ~after.deadline_miss_latched
             miss == trace_deadline("DEADLINE_MISS", id, after)
             met == trace_deadline("DEADLINE_MET", id, after)
             r == IF misses THEN [s EXCEPT !.deadline_misses[id] = @ + 1]
                  ELSE s
             t == IF meets THEN [r EXCEPT !.deadlines_met[id] = @ + 1] ELSE r
  <1>1. OutcomeEvents(before, after) = When(misses, miss) \o When(meets, met)
    <2> HIDE DEF misses, meets, miss, met
    <2> QED BY DEF OutcomeEvents, misses, meets, miss, met
  <1>2. /\ Reads("SUMMARY", s, miss) = [s EXCEPT !.deadline_misses[id] = @ + 1]
        /\ Reads("SUMMARY", r, met) = [r EXCEPT !.deadlines_met[id] = @ + 1]
    <2>1. Reads("SUMMARY", s, miss) = [s EXCEPT !.deadline_misses[id] = @ + 1]
      BY DeadlineRead
    <2> HIDE DEF r
    <2>2. Reads("SUMMARY", r, met) = [r EXCEPT !.deadlines_met[id] = @ + 1]
      BY DeadlineRead
    <2> QED BY <2>1, <2>2
  <1>3. ASSUME NEW states
        PROVE  /\ Reads("TOLD", states, miss) = states
               /\ Reads("TOLD", states, met) = states
    BY DeadlineTold
  <1>4. r \in Summaries
    BY CountType
  <1> HIDE DEF miss, met, misses, meets
  <1>5. Folded("SUMMARY", s, When(misses, miss)) = r
    BY <1>2, FoldedWhen
  <1>6. Folded("SUMMARY", r, When(meets, met)) = t
    <2> HIDE DEF r
    <2> QED BY <1>2, FoldedWhen
  <1>7. t \in Summaries
    <2> HIDE DEF r
    <2> QED BY <1>4, CountType
  <1>8. /\ r.task = s.task /\ r.since = s.since /\ r.continuous = s.continuous
        /\ r.running_ticks = s.running_ticks
        /\ r.released_jobs = s.released_jobs
        /\ r.deadlines_met = s.deadlines_met
        /\ r.deadline_misses =
             IF misses THEN [s.deadline_misses EXCEPT ![id] = @ + 1]
             ELSE s.deadline_misses
    BY DEF Summaries
  <1> HIDE DEF r
  <1>9. /\ t.task = r.task /\ t.since = r.since /\ t.continuous = r.continuous
        /\ t.running_ticks = r.running_ticks
        /\ t.released_jobs = r.released_jobs
        /\ t.deadline_misses = r.deadline_misses
        /\ t.deadlines_met =
             IF meets THEN [r.deadlines_met EXCEPT ![id] = @ + 1]
             ELSE r.deadlines_met
    BY <1>4 DEF Summaries
  <1> HIDE DEF t
  <1>10. /\ IsSeq(OutcomeEvents(before, after))
         /\ Folded("SUMMARY", s, OutcomeEvents(before, after)) = t
    BY <1>1, <1>5, <1>6, FoldedConcat, IsSeqRules
  <1>11. ASSUME NEW states
         PROVE  Folded("TOLD", states, OutcomeEvents(before, after)) = states
    <2>1. /\ Folded("TOLD", states, When(misses, miss)) = states
          /\ Folded("TOLD", states, When(meets, met)) = states
      BY <1>3, FoldedWhen
    <2> QED BY <1>1, <2>1, FoldedConcat, IsSeqRules
  <1> QED
    BY <1>7, <1>8, <1>9, <1>10, <1>11 DEF misses, meets, OutcomeReadFrom

----------------------------------------------------------------------------
\* The steps of a reader, beside SysTick's.

\* A record that is neither counted nor tells a state.
LEMMA QuietRecord ==
    ASSUME NEW event, NEW task, NEW related, NEW values,
           event \notin Counted, event \notin Telling,
           Emits(<<Event(event, task, related, values)>>)
    PROVE  UNCHANGED <<summary, told>>
  BY OneRecord, ReadOther, TellOther

LEMMA NoRecords ==
    ASSUME Emits(<< >>)
    PROVE  UNCHANGED <<summary, told>>
  BY EmitsReads, FoldedEmpty

\* What every system call finds and leaves (os_svc_dispatch).
LEMMA CallFinds ==
    ASSUME KernelInv, NEW reason, NEW accepted, NEW task, NEW cause,
           SystemCall(reason, accepted, task, cause)
    PROVE  /\ UserTaskExecutes /\ ~primask
           /\ current_task \in UserTasks /\ current_task \in TaskIds
           /\ schedules \in [TaskIds -> SchedTask]
           /\ Caller \in SchedTask /\ Caller.job_active
           /\ Caller.state = "RUNNING"
           /\ Occupied(current_task)
           /\ Timely(Caller, monotonic_ticks)
           /\ OnTime(Caller, monotonic_ticks)
           /\ panics = {} /\ monotonic_ticks \in Nat
           /\ UNCHANGED <<current_task, monotonic_ticks,
                          pending_preempt_sources>>
           /\ panics' = {} => accepted
           /\ schedules' = IF accepted
                           THEN [schedules EXCEPT ![current_task] = task]
                           ELSE schedules
  <1>1. /\ StructureInv /\ TimeInv /\ UserTaskExecutes /\ ~primask
        /\ panics = {}
    BY DEF KernelInv, SystemCall, UserTaskExecutes, ThreadExecutes
  <1>2. /\ current_task \in UserTasks /\ Current \in SchedTask
        /\ Current.state = "RUNNING" /\ Current.job_active
    BY <1>1, QuietThread
  <1>3. /\ monotonic_ticks \in Nat
        /\ schedules \in [TaskIds -> SchedTask]
        /\ Timely(Caller, monotonic_ticks)
        /\ OnTime(Caller, monotonic_ticks)
    BY <1>1, <1>2, TimeBefore DEF Caller
  <1>4. /\ UNCHANGED <<current_task, monotonic_ticks,
                       pending_preempt_sources>>
        /\ panics' = {} => accepted
        /\ schedules' = IF accepted
                        THEN [schedules EXCEPT ![current_task] = task]
                        ELSE schedules
    BY DEF SystemCall, Check, identity
  <1> QED
    BY <1>1, <1>2, <1>3, <1>4, IdTypes DEF Caller, Current, Occupied

\* A call whose one record tells the caller's new state, and nothing else.
LEMMA CallReader ==
    ASSUME KernelInv, ReaderInv,
           NEW reason, NEW accepted, NEW cause, NEW task,
           SystemCall(reason, accepted, task, cause),
           accepted => task.total_execution_ticks
                         = Caller.total_execution_ticks,
           summary' = summary \/ /\ summary' \in Summaries
                                 /\ summary'.task = summary.task
                                 /\ summary'.since = summary.since
                                 /\ summary'.continuous = summary.continuous
                                 /\ summary'.running_ticks
                                      = summary.running_ticks,
           told' = [told EXCEPT ![current_task] = task.state]
    PROVE  ReaderInv'
  <1> DEFINE id == current_task
             after == IF accepted THEN task ELSE Caller
  <1>1. /\ id \in UserTasks /\ id \in TaskIds
        /\ schedules \in [TaskIds -> SchedTask]
        /\ Occupied(id) /\ panics = {} /\ monotonic_ticks \in Nat
        /\ UNCHANGED <<current_task, monotonic_ticks,
                       pending_preempt_sources>>
        /\ panics' = {} => accepted
        /\ schedules' = IF accepted
                        THEN [schedules EXCEPT ![current_task] = task]
                        ELSE schedules
    BY CallFinds
  <1>2. schedules' = [schedules EXCEPT ![id] = after]
    <2>1. schedules = [schedules EXCEPT ![id] = schedules[id]]
      BY <1>1
    <2> QED BY <1>1, <2>1 DEF Caller
  <1>3. after.total_execution_ticks = schedules[id].total_execution_ticks
    BY DEF Caller
  <1>4. /\ summary' \in Summaries /\ summary'.task = summary.task
        /\ summary'.since = summary.since
        /\ summary'.continuous = summary.continuous
        /\ summary'.running_ticks = summary.running_ticks
    BY DEF ReaderInv
  <1>5. /\ told' = [other \in TaskIds |-> told'[other]]
        /\ \A other \in TaskIds \ {id} : told'[other] = told[other]
        /\ told'[id] = task.state
    <2>1. told = [other \in TaskIds |-> told[other]]
      BY DEF ReaderInv
    <2> QED BY <1>1, <2>1
  <1>6. panics' = {} => told'[id] = after.state
    BY <1>1, <1>5
  <1> HIDE DEF after
  <1> QED BY <1>1, <1>2, <1>3, <1>4, <1>5, <1>6, RecordReader

\* os_svc_yield_c
LEMMA YieldReader ==
    ASSUME KernelInv, ReaderInv, SvcYield,
           Emits(<<CallEvent("TASK_YIELD", << >>)>>)
    PROVE  ReaderInv' /\ summary' = summary
  <1> DEFINE task == [Caller EXCEPT !.state = "READY"]
  <1>1. SystemCall("SVC_YIELD", TRUE, task, "YIELD")
    BY DEF SvcYield
  <1>2. Caller \in SchedTask
    BY <1>1, CallFinds
  <1>3. /\ task.state = "READY"
        /\ task.total_execution_ticks = Caller.total_execution_ticks
    BY <1>2 DEF SchedTask
  <1>4. summary' = summary
    <2>1. "TASK_YIELD" \notin Counted
      BY DEF Counted
    <2> QED BY <2>1, OneRecord, ReadOther DEF CallEvent
  <1>5. told' = [told EXCEPT ![current_task] = "READY"]
    BY OneRecord, TellState DEF CallEvent
  <1> HIDE DEF task
  <1>6. told' = [told EXCEPT ![current_task] = task.state]
    BY <1>3, <1>5
  <1> QED BY <1>1, <1>3, <1>4, <1>6, CallReader

\* os_svc_sleep_c
LEMMA SleepReader ==
    ASSUME KernelInv, ReaderInv, NEW sleep_ticks \in SleepTicks,
           SvcSleep(sleep_ticks),
           Emits(<<CallEvent("TASK_SLEEP",
                             <<schedules'[current_task].wake_order,
                               sleep_ticks>>)>>)
    PROVE  ReaderInv' /\ summary' = summary
  <1> DEFINE task == os_sched_sleep(Caller, monotonic_ticks, sleep_ticks)
             accepted == SleepAccepts(Caller, monotonic_ticks, sleep_ticks)
  <1>1. SystemCall("TASK_SLEEP", accepted, task, "SLEEP")
    BY DEF SvcSleep
  <1> HIDE DEF accepted
  <1>2. Caller \in SchedTask
    BY <1>1, CallFinds
  <1>3. /\ task.state = "SLEEPING"
        /\ task.total_execution_ticks = Caller.total_execution_ticks
    BY <1>2 DEF SchedTask, os_sched_sleep
  <1>4. summary' = summary
    <2>1. "TASK_SLEEP" \notin Counted
      BY DEF Counted
    <2> QED BY <2>1, OneRecord, ReadOther DEF CallEvent
  <1>5. told' = [told EXCEPT ![current_task] = "SLEEPING"]
    BY OneRecord, TellState DEF CallEvent
  <1> HIDE DEF task
  <1>6. told' = [told EXCEPT ![current_task] = task.state]
    BY <1>3, <1>5
  <1> QED BY <1>1, <1>3, <1>4, <1>6, CallReader

\* A job that ends, in its task's record: SysTick has latched its miss in time
\* (os_sched_complete_job).
Ended(task, state) ==
    /\ schedules' = [schedules EXCEPT ![current_task] = task]
    /\ schedules'[current_task] = task
    /\ current_task \in UserTasks
    /\ CompleteAccepts(Caller) /\ Caller \in SchedTask
    /\ Timely(Caller, monotonic_ticks)
    /\ task.state = state
    /\ ~task.job_active
    /\ task.total_execution_ticks = Caller.total_execution_ticks
    /\ task.deadline_miss_latched = Caller.deadline_miss_latched
    /\ task.deadline_miss_count = Caller.deadline_miss_count
    /\ task.job_sequence = Caller.job_sequence
    /\ task.completed_job_count
         = increment_saturating(Caller.completed_job_count)

LEMMA EndEffect ==
    ASSUME KernelInv, NEW reason, NEW cause,
           NEW state \in {"EXITING", "WAITING_RELEASE"}, NEW task,
           task = [os_sched_complete_job(Caller, monotonic_ticks)
                     EXCEPT !.state = state],
           SystemCall(reason, CompleteAccepts(Caller), task, cause)
    PROVE  Ended(task, state)
  <1>1. /\ Caller \in SchedTask /\ Caller.job_active
        /\ Caller.state = "RUNNING" /\ Timely(Caller, monotonic_ticks)
        /\ current_task \in UserTasks /\ current_task \in TaskIds
        /\ schedules \in [TaskIds -> SchedTask]
        /\ schedules' = IF CompleteAccepts(Caller)
                        THEN [schedules EXCEPT ![current_task] = task]
                        ELSE schedules
    BY CallFinds
  <1>2. CompleteAccepts(Caller)
    BY <1>1 DEF CompleteAccepts
  <1>3. os_sched_record_deadline_miss(Caller, monotonic_ticks) = Caller
    BY <1>1 DEF os_sched_record_deadline_miss, os_tick_reached, Timely,
                MissLatched
  <1>4. task = [[Caller EXCEPT !.job_active = FALSE,
                               !.completed_job_count = increment_saturating(@)]
                  EXCEPT !.state = state]
    BY <1>3 DEF os_sched_complete_job
  <1>5. /\ task.state = state /\ ~task.job_active
        /\ task.total_execution_ticks = Caller.total_execution_ticks
        /\ task.deadline_miss_latched = Caller.deadline_miss_latched
        /\ task.deadline_miss_count = Caller.deadline_miss_count
        /\ task.job_sequence = Caller.job_sequence
        /\ task.completed_job_count
             = increment_saturating(Caller.completed_job_count)
    BY <1>1, <1>4 DEF SchedTask
  <1>6. schedules'[current_task] = task
    BY <1>1, <1>2
  <1> QED BY <1>1, <1>2, <1>5, <1>6 DEF Ended

\* Its records: a miss that SysTick has told is not told again.
LEMMA EndReads ==
    ASSUME NEW before, NEW after, NEW event, NEW values,
           event \notin Counted, summary \in Summaries,
           current_task \in UserTasks,
           after.deadline_miss_latched = before.deadline_miss_latched,
           before.deadline_miss_latched \in BOOLEAN,
           Emits(Append(OutcomeEvents(before, after),
                        CallEvent(event, values)))
    PROVE  /\ summary' \in Summaries
           /\ summary'.task = summary.task
           /\ summary'.since = summary.since
           /\ summary'.continuous = summary.continuous
           /\ summary'.running_ticks = summary.running_ticks
           /\ summary'.released_jobs = summary.released_jobs
           /\ summary'.deadline_misses = summary.deadline_misses
           /\ summary'.deadlines_met =
                IF before.deadline_miss_latched THEN summary.deadlines_met
                ELSE [summary.deadlines_met EXCEPT ![current_task] = @ + 1]
           /\ told' = Reads("TOLD", told, CallEvent(event, values))
  <1> DEFINE t == Folded("SUMMARY", summary, OutcomeEvents(before, after))
             e == CallEvent(event, values)
  <1>1. /\ IsSeq(OutcomeEvents(before, after))
        /\ t \in Summaries
        /\ t.task = summary.task /\ t.since = summary.since
        /\ t.continuous = summary.continuous
        /\ t.running_ticks = summary.running_ticks
        /\ t.released_jobs = summary.released_jobs
        /\ t.deadline_misses = summary.deadline_misses
        /\ t.deadlines_met =
             IF before.deadline_miss_latched THEN summary.deadlines_met
             ELSE [summary.deadlines_met EXCEPT ![current_task] = @ + 1]
        /\ Folded("TOLD", told, OutcomeEvents(before, after)) = told
    <2>1. /\ IsSeq(OutcomeEvents(before, after))
          /\ OutcomeReadFrom(before, after, summary, t)
      BY OutcomeRead
    <2>2. Folded("TOLD", told, OutcomeEvents(before, after)) = told
      BY OutcomeRead
    <2> HIDE DEF t
    <2> QED BY <2>1, <2>2 DEF OutcomeReadFrom
  <1>2. Reads("SUMMARY", t, e) = t
    BY ReadOther DEF CallEvent
  <1> HIDE DEF t, e
  <1>3. /\ summary' = Folded("SUMMARY", summary,
                             Append(OutcomeEvents(before, after), e))
        /\ told' = Folded("TOLD", told,
                          Append(OutcomeEvents(before, after), e))
    BY EmitsReads DEF e
  <1>4. summary' = t
    BY <1>1, <1>2, <1>3, FoldedAppend DEF t
  <1>5. told' = Reads("TOLD", told, e)
    BY <1>1, <1>3, FoldedAppend
  <1> QED BY <1>1, <1>4, <1>5 DEF e

\* The end of the caller's job, read.
EndRead ==
    /\ summary'.released_jobs = summary.released_jobs
    /\ summary'.deadline_misses = summary.deadline_misses
    /\ summary'.deadlines_met =
         IF Caller.deadline_miss_latched THEN summary.deadlines_met
         ELSE [summary.deadlines_met EXCEPT ![current_task] = @ + 1]

LEMMA EndReader ==
    ASSUME KernelInv, ReaderInv, NEW reason, NEW cause,
           NEW state \in {"EXITING", "WAITING_RELEASE"}, NEW task,
           task = [os_sched_complete_job(Caller, monotonic_ticks)
                     EXCEPT !.state = state],
           SystemCall(reason, CompleteAccepts(Caller), task, cause),
           NEW event, NEW values, event \notin Counted,
           Reads("TOLD", told, CallEvent(event, values))
             = [told EXCEPT ![current_task] = state],
           Emits(Append(OutcomeEvents(Caller, schedules'[current_task]),
                        CallEvent(event, values)))
    PROVE  ReaderInv' /\ EndRead
  <1>1. /\ schedules'[current_task] = task
        /\ current_task \in UserTasks
        /\ CompleteAccepts(Caller) /\ Caller \in SchedTask
        /\ task.state = state
        /\ task.total_execution_ticks = Caller.total_execution_ticks
        /\ task.deadline_miss_latched = Caller.deadline_miss_latched
    BY EndEffect DEF Ended
  <1>2. Caller.deadline_miss_latched \in BOOLEAN
    BY <1>1 DEF SchedTask
  <1>3. summary \in Summaries
    BY DEF ReaderInv
  <1>4. /\ summary' \in Summaries
        /\ summary'.task = summary.task
        /\ summary'.since = summary.since
        /\ summary'.continuous = summary.continuous
        /\ summary'.running_ticks = summary.running_ticks
        /\ EndRead
        /\ told' = Reads("TOLD", told, CallEvent(event, values))
    <2> DEFINE after == schedules'[current_task]
    <2>1. /\ after.deadline_miss_latched = Caller.deadline_miss_latched
          /\ Emits(Append(OutcomeEvents(Caller, after),
                          CallEvent(event, values)))
      BY <1>1
    <2> HIDE DEF after
    <2> QED BY <1>1, <1>2, <1>3, <2>1, EndReads DEF EndRead
  <1>5. told' = [told EXCEPT ![current_task] = task.state]
    BY <1>1, <1>4
  <1> QED BY <1>1, <1>4, <1>5, CallReader

\* os_svc_exit_c
LEMMA ExitReader ==
    ASSUME KernelInv, ReaderInv, SvcExit, Emits(ExitEvents)
    PROVE  ReaderInv' /\ EndRead
  <1> DEFINE task == [os_sched_complete_job(Caller, monotonic_ticks)
                        EXCEPT !.state = "EXITING"]
             after == schedules'[current_task]
             values == <<after.completed_job_count,
                         after.deadline_miss_count>>
  <1>1. SystemCall("EXIT_COMPLETE", CompleteAccepts(Caller), task, "EXIT")
    BY DEF SvcExit
  <1>2. Emits(Append(OutcomeEvents(Caller, after),
                     CallEvent("TASK_EXIT", values)))
    BY DEF ExitEvents
  <1>3. "TASK_EXIT" \notin Counted
    BY DEF Counted
  <1> HIDE DEF values
  <1>4. Reads("TOLD", told, CallEvent("TASK_EXIT", values))
          = [told EXCEPT ![current_task] = "EXITING"]
    BY TellState DEF CallEvent
  <1> QED BY <1>1, <1>2, <1>3, <1>4, EndReader

\* os_svc_wait_next_period_c
LEMMA WaitReader ==
    ASSUME KernelInv, ReaderInv, SvcWaitNextPeriod, Emits(WaitEvents)
    PROVE  ReaderInv' /\ EndRead
  <1> DEFINE task == [os_sched_complete_job(Caller, monotonic_ticks)
                        EXCEPT !.state = "WAITING_RELEASE"]
             after == schedules'[current_task]
             values == <<after.next_release_order>>
  <1>1. SystemCall("SVC_PERIOD", CompleteAccepts(Caller), task, "WAIT_PERIOD")
    BY DEF SvcWaitNextPeriod, os_sched_wait_next_period
  <1>2. Emits(Append(OutcomeEvents(Caller, after),
                     CallEvent("TASK_WAIT_PERIOD", values)))
    BY DEF WaitEvents
  <1>3. "TASK_WAIT_PERIOD" \notin Counted
    BY DEF Counted
  <1> HIDE DEF values
  <1>4. Reads("TOLD", told, CallEvent("TASK_WAIT_PERIOD", values))
          = [told EXCEPT ![current_task] = "WAITING_RELEASE"]
    BY TellState DEF CallEvent
  <1> QED BY <1>1, <1>2, <1>3, <1>4, EndReader

\* A creation's records: a task that is READY at once has its release told.
CreateRead(id) ==
    /\ summary' \in Summaries
    /\ summary'.task = summary.task /\ summary'.since = summary.since
    /\ summary'.continuous = summary.continuous
    /\ summary'.running_ticks = summary.running_ticks
    /\ summary'.deadlines_met = summary.deadlines_met
    /\ summary'.deadline_misses = summary.deadline_misses
    /\ summary'.released_jobs =
         IF schedules'[id].state = "READY"
         THEN [summary.released_jobs EXCEPT ![id] = @ + 1]
         ELSE summary.released_jobs

LEMMA CreateReads ==
    ASSUME NEW id \in UserTasks, summary \in Summaries,
           told = [other \in TaskIds |-> told[other]],
           Emits(CreateEvents(id))
    PROVE  /\ CreateRead(id)
           /\ told' = [told EXCEPT ![id] = schedules'[id].state]
  <1> DEFINE task == schedules'[id]
             creator == IF running THEN current_task ELSE OS_TASK_ID_INVALID
             values == <<task.kind, task.priority, task.state>>
             created == Event("TASK_CREATE", id, creator, values)
             released == trace_deadline("TASK_RELEASE", id, task)
             outranks == os_sched_outranks(schedules', id, current_task)
             probe == os_trace_emit_selection(schedules', id, current_task,
                          OS_TASK_ID_INVALID, "RUNTIME_CREATE_PROBE")
             ready == task.state = "READY"
             probed == running /\ outranks
             s == IF ready THEN [summary EXCEPT !.released_jobs[id] = @ + 1]
                  ELSE summary
             shown == [told EXCEPT ![id] = task.state]
  <1>1. CreateEvents(id)
          = <<created>> \o When(ready, released) \o When(probed, probe)
    <2> HIDE DEF created, ready, released, probed, probe
    <2> QED BY DEF CreateEvents, created, ready, released, probed, probe,
                   outranks, task, creator, values
  <1>2. Reads("SUMMARY", summary, created) = summary
    <2>1. "TASK_CREATE" \notin Counted
      BY DEF Counted
    <2> QED BY <2>1, ReadOther
  <1>3. Reads("SUMMARY", summary, released)
          = [summary EXCEPT !.released_jobs[id] = @ + 1]
    BY DeadlineRead
  <1>4. ASSUME NEW any PROVE /\ Reads("SUMMARY", any, probe) = any
                             /\ Reads("TOLD", any, probe) = any
    <2>1. "TASK_SELECT" \notin Counted /\ "TASK_SELECT" \notin Telling
      BY DEF Counted, Telling
    <2> QED BY <2>1, ReadOther, TellOther DEF os_trace_emit_selection
  <1>5. Reads("TOLD", told, created) = shown
    <2>1. values[3] = task.state
      OBVIOUS
    <2> HIDE DEF values, task, creator
    <2>2. Reads("TOLD", told, created) = [told EXCEPT ![id] = values[3]]
      BY TellState
    <2> QED BY <2>1, <2>2
  <1>6. ready => Reads("TOLD", shown, released) = shown
    <2>1. Reads("TOLD", shown, released) = [shown EXCEPT ![id] = "READY"]
      <3> HIDE DEF shown, task
      <3> QED BY DeadlineTold
    <2>2. ASSUME NEW state
          PROVE  [[told EXCEPT ![id] = state] EXCEPT ![id] = state]
                   = [told EXCEPT ![id] = state]
      BY IdTypes
    <2>3. ready => [shown EXCEPT ![id] = "READY"] = shown
      BY <2>2
    <2> QED BY <2>1, <2>3
  <1>7. s \in Summaries
    BY CountType
  <1>8. /\ s.task = summary.task /\ s.since = summary.since
        /\ s.continuous = summary.continuous
        /\ s.running_ticks = summary.running_ticks
        /\ s.deadlines_met = summary.deadlines_met
        /\ s.deadline_misses = summary.deadline_misses
        /\ s.released_jobs =
             IF ready THEN [summary.released_jobs EXCEPT ![id] = @ + 1]
             ELSE summary.released_jobs
    BY DEF Summaries
  <1> HIDE DEF created, released, probed, probe, ready, shown
  <1>9. /\ Folded("SUMMARY", summary, <<created>>) = summary
        /\ Folded("TOLD", told, <<created>>) = shown
    BY <1>2, <1>5, FoldedOne
  <1>10. /\ Folded("SUMMARY", summary, When(ready, released)) = s
         /\ Folded("TOLD", shown, When(ready, released)) = shown
    BY <1>3, <1>6, FoldedWhen
  <1> HIDE DEF s
  <1>11. /\ Folded("SUMMARY", s, When(probed, probe)) = s
         /\ Folded("TOLD", shown, When(probed, probe)) = shown
    BY <1>4, FoldedWhen
  <1>12. /\ summary' = Folded("SUMMARY", summary,
                              <<created>> \o When(ready, released)
                                \o When(probed, probe))
         /\ told' = Folded("TOLD", told,
                           <<created>> \o When(ready, released)
                             \o When(probed, probe))
    BY <1>1, EmitsReads
  <1>13. summary' = s
    BY <1>9, <1>10, <1>11, <1>12, FoldedConcat, IsSeqRules
  <1>14. told' = shown
    BY <1>9, <1>10, <1>11, <1>12, FoldedConcat, IsSeqRules
  <1> QED BY <1>7, <1>8, <1>13, <1>14 DEF CreateRead, ready, shown

\* os_task_create
LEMMA CreateReader ==
    ASSUME KernelInv, ReaderInv, NEW config \in Configs,
           os_task_create(config), Emits(CreateEvents(CreatedSlot))
    PROVE  ReaderInv' /\ CreateRead(CreatedSlot)
  <1> DEFINE id == CreatedSlot
             after == os_sched_task_configure(config, monotonic_ticks)
  <1>1. id \in UserTasks /\ id \in TaskIds
    BY CreateShape, IdTypes DEF FreeSlots
  <1>2. schedules' = [schedules EXCEPT ![id] = after]
    BY CreateShape
  <1>3. /\ StructureInv /\ TypeOK
        /\ schedules \in [TaskIds -> SchedTask]
        /\ monotonic_ticks \in Orders /\ monotonic_ticks \in Nat
    BY TickIsNat DEF KernelInv, StructureInv, TypeOK
  <1>4. /\ panics = {} /\ ConfigureAccepts(config, monotonic_ticks)
        /\ UNCHANGED <<current_task, monotonic_ticks>>
        /\ pending_preempt_sources \subseteq pending_preempt_sources'
    BY DEF os_task_create, UserTaskExecutes, ThreadExecutes, identity,
           pending, record_preemption_request
  <1>5. after.total_execution_ticks = 0
    <2>1. config \in TimingConfig
      BY KernelConstants
    <2> QED BY <1>3, <1>4, <2>1, ConfigureEffect
  <1> HIDE DEF id, after
  <1>6. /\ CreateRead(id)
        /\ told' = [told EXCEPT ![id] = schedules'[id].state]
    BY <1>1, CreateReads DEF ReaderInv, id
  <1>7. schedules'[id] = after
    BY <1>1, <1>2, <1>3
  <1>8. /\ told' = [other \in TaskIds |-> told'[other]]
        /\ \A other \in TaskIds \ {id} : told'[other] = told[other]
        /\ told'[id] = after.state
    <2>1. told = [other \in TaskIds |-> told[other]]
      BY DEF ReaderInv
    <2> QED BY <1>1, <1>6, <1>7, <2>1
  <1>9. ReaderInv'
    BY <1>1, <1>2, <1>3, <1>4, <1>5, <1>6, <1>8, RecordReader DEF CreateRead
  <1> QED BY <1>6, <1>9 DEF id

----------------------------------------------------------------------------
\* A switch, read: of its records only the CONTEXT_SWITCH counts.

SwitchRecord ==
    Event("CONTEXT_SWITCH", current_task, current_task',
          <<pending_switch_cause, StateAtSwitch(current_task)>>)

\* A sequence of records that neither reader takes in.
Ignored(s) == IsSeq(s) /\ \A reader, any : Folded(reader, any, s) = any

LEMMA IgnoredOne ==
    ASSUME NEW event, NEW task, NEW related, NEW values,
           event \notin Counted, event \notin Telling
    PROVE  /\ Ignored(<<Event(event, task, related, values)>>)
           /\ \A condition :
                 Ignored(When(condition, Event(event, task, related, values)))
  <1> DEFINE e == Event(event, task, related, values)
  <1>1. ASSUME NEW reader, NEW any PROVE Reads(reader, any, e) = any
    <2>1. CASE reader = "SUMMARY"
      BY <2>1, ReadOther
    <2>2. CASE reader # "SUMMARY"
      <3>1. Reads(reader, any, e) = Reads("TOLD", any, e)
        BY <2>2 DEF Reads
      <3> QED BY <3>1, TellOther
    <2> QED BY <2>1, <2>2
  <1> HIDE DEF e
  <1>2. /\ IsSeq(<<e>>) /\ \A condition : IsSeq(When(condition, e))
    BY IsSeqRules
  <1>3. ASSUME NEW reader, NEW any
        PROVE  /\ Folded(reader, any, <<e>>) = any
               /\ \A condition : Folded(reader, any, When(condition, e)) = any
    BY <1>1, FoldedOne, FoldedWhen
  <1> QED BY <1>2, <1>3 DEF Ignored, e

LEMMA IgnoredConcat ==
    ASSUME NEW s, NEW t, Ignored(s), Ignored(t)
    PROVE  Ignored(s \o t)
  <1>1. IsSeq(s) /\ IsSeq(t) /\ IsSeq(s \o t)
    BY IsSeqRules DEF Ignored
  <1>2. ASSUME NEW reader, NEW any
        PROVE  Folded(reader, any, s \o t) = any
    BY <1>1, FoldedConcat DEF Ignored
  <1> QED BY <1>1, <1>2 DEF Ignored

LEMMA SwitchReads ==
    ASSUME Emits(SwitchEvents)
    PROVE  /\ summary' = ReadSwitch(summary, SwitchRecord)
           /\ told' = Reads("TOLD", told, SwitchRecord)
  <1> DEFINE outgoing == current_task
             next == current_task'
             saved == [schedules' EXCEPT ![next].state = "READY"]
             reclaims_memory == last_reclaimed' # last_reclaimed
                                  /\ owned[outgoing] > 0
             stops == outgoing = OS_TASK_ID_IDLE /\ next # OS_TASK_ID_IDLE
             starts == next = OS_TASK_ID_IDLE /\ outgoing # OS_TASK_ID_IDLE
             preempts == pending_preempt_sources # {}
             begins == next # OS_TASK_ID_IDLE /\ ~tasks[next].started
             release == CallEvent("OWNER_RELEASE", <<owned[outgoing]>>)
             choice == os_trace_emit_selection(saved, next, outgoing,
                           yield_excluded_task, "DISPATCH")
             stop == Event("IDLE_STOP", OS_TASK_ID_IDLE, next, << >>)
             start == Event("IDLE_START", OS_TASK_ID_IDLE, outgoing, << >>)
             preempt == Event("TASK_PREEMPT", outgoing, next,
                              <<pending_preempt_sources>>)
             begin == trace_deadline("TASK_START", next, schedules'[next])
             head == When(reclaims_memory, release) \o <<choice>>
                     \o When(stops, stop) \o When(starts, start)
                     \o When(preempts, preempt)
             tail == When(begins, begin)
  <1>1. /\ Ignored(When(reclaims_memory, release)) /\ Ignored(<<choice>>)
        /\ Ignored(When(stops, stop)) /\ Ignored(When(starts, start))
        /\ Ignored(When(preempts, preempt)) /\ Ignored(tail)
    <2>1. \A event \in {"OWNER_RELEASE", "TASK_SELECT", "IDLE_STOP",
                        "IDLE_START", "TASK_PREEMPT", "TASK_START"} :
             event \notin Counted /\ event \notin Telling
      BY DEF Counted, Telling
    <2> HIDE DEF reclaims_memory, stops, starts, preempts, begins
    <2>2. Ignored(When(reclaims_memory, release))
      BY <2>1, IgnoredOne DEF CallEvent
    <2>3. Ignored(<<choice>>)
      BY <2>1, IgnoredOne DEF os_trace_emit_selection
    <2>4. Ignored(When(stops, stop)) /\ Ignored(When(starts, start))
      BY <2>1, IgnoredOne
    <2>5. Ignored(When(preempts, preempt))
      BY <2>1, IgnoredOne
    <2>6. Ignored(tail)
      BY <2>1, IgnoredOne DEF trace_deadline
    <2> QED BY <2>2, <2>3, <2>4, <2>5, <2>6
  <1>2. SwitchEvents = head \o <<SwitchRecord>> \o tail
    <2> HIDE DEF reclaims_memory, stops, starts, preempts, begins, release,
                 choice, stop, start, preempt, begin
    <2> QED BY DEF SwitchEvents, SwitchRecord, reclaims_memory, stops, starts,
                   preempts, begins, release, choice, stop, start, preempt,
                   begin, outgoing, next, saved
  <1> HIDE DEF reclaims_memory, stops, starts, preempts, begins, release,
               choice, stop, start, preempt, begin, outgoing, next, saved
  <1>3. Ignored(head)
    BY <1>1, IgnoredConcat
  <1> HIDE DEF head, tail
  <1>4. ASSUME NEW reader, NEW state
        PROVE  Folded(reader, state, SwitchEvents)
                 = Reads(reader, state, SwitchRecord)
    <2>1. IsSeq(head) /\ IsSeq(tail)
      BY <1>1, <1>3 DEF Ignored
    <2>2. IsSeq(<<SwitchRecord>>) /\ IsSeq(head \o <<SwitchRecord>>)
      BY <2>1, IsSeqRules
    <2>3. Folded(reader, state, head \o <<SwitchRecord>>)
            = Reads(reader, state, SwitchRecord)
      <3>1. Folded(reader, state, head) = state
        BY <1>3 DEF Ignored
      <3> QED BY <2>1, <2>2, <3>1, FoldedConcat, FoldedOne
    <2>4. Folded(reader, Reads(reader, state, SwitchRecord), tail)
            = Reads(reader, state, SwitchRecord)
      BY <1>1 DEF Ignored
    <2> QED BY <1>2, <2>1, <2>2, <2>3, <2>4, FoldedConcat
  <1>5. Reads("SUMMARY", summary, SwitchRecord)
          = ReadSwitch(summary, SwitchRecord)
    BY ReadCounted DEF SwitchRecord
  <1> QED BY <1>4, <1>5, EmitsReads

\* A switch, in the record of a task that is still there after it.
LEMMA SwitchTask ==
    ASSUME KernelInv, os_pendsv_switch, NEW id \in UserTasks,
           schedules'[id].state # "DORMANT"
    PROVE  /\ Occupied(id)
           /\ schedules[id] \in SchedTask
           /\ schedules'[id].total_execution_ticks
                = schedules[id].total_execution_ticks
           /\ schedules'[id].job_sequence = schedules[id].job_sequence
           /\ schedules'[id].deadline_miss_count
                = schedules[id].deadline_miss_count
           /\ schedules'[id].completed_job_count
                = schedules[id].completed_job_count
           /\ schedules'[id].job_active = schedules[id].job_active
           /\ schedules'[id].deadline_miss_latched
                = schedules[id].deadline_miss_latched
  <1>1. /\ StructureInv /\ cpu = "pendsv_in" /\ id \in TaskIds
        /\ schedules \in [TaskIds -> SchedTask]
    BY IdTypes DEF KernelInv, os_pendsv_switch, StructureInv, TypeOK
  <1>2. /\ Saved \in [TaskIds -> SchedTask] /\ Selected \in TaskIds
        /\ schedules' = [Saved EXCEPT ![Selected].state = "RUNNING"]
        /\ Saved[Selected].state = "READY"
    BY <1>1, SavedShown, SelectedIsReady
  <1>3. /\ schedules[id] \in SchedTask /\ Saved[id] \in SchedTask
        /\ schedules'[id] = IF id = Selected
                            THEN [Saved[id] EXCEPT !.state = "RUNNING"]
                            ELSE Saved[id]
    BY <1>1, <1>2
  <1>4. Saved[id].state # "DORMANT"
    BY <1>2, <1>3
  <1>5. \/ Saved[id] = schedules[id]
        \/ /\ schedules[id].state = "RUNNING"
           /\ Saved[id] = [schedules[id] EXCEPT !.state = "READY"]
    <2>1. CASE id # current_task
      BY <1>1, <2>1, ParkedEffect
    <2>2. CASE id = current_task /\ Current.state = "EXITING"
      <3>1. Leaving
        BY <1>1, <2>2, IdTypes DEF Leaving
      <3>2. Saved[id] = ResetTask
        BY <1>1, <2>2, <3>1, ParkedEffect
      <3> QED BY <1>4, <3>2 DEF ResetTask
    <2>3. CASE id = current_task /\ Current.state = "RUNNING"
      BY <1>1, <2>3, ParkedEffect DEF Current
    <2>4. CASE id = current_task /\ Current.state \notin {"RUNNING", "EXITING"}
      BY <1>1, <2>4, ParkedEffect DEF Current
    <2> QED BY <2>1, <2>2, <2>3, <2>4
  <1>6. /\ Saved[id].state # "DORMANT" => schedules[id].state # "DORMANT"
        /\ Saved[id].total_execution_ticks
             = schedules[id].total_execution_ticks
        /\ Saved[id].job_sequence = schedules[id].job_sequence
        /\ Saved[id].deadline_miss_count = schedules[id].deadline_miss_count
        /\ Saved[id].completed_job_count = schedules[id].completed_job_count
        /\ Saved[id].job_active = schedules[id].job_active
        /\ Saved[id].deadline_miss_latched
             = schedules[id].deadline_miss_latched
    BY <1>3, <1>5 DEF SchedTask
  <1>7. /\ schedules'[id].total_execution_ticks
             = Saved[id].total_execution_ticks
        /\ schedules'[id].job_sequence = Saved[id].job_sequence
        /\ schedules'[id].deadline_miss_count = Saved[id].deadline_miss_count
        /\ schedules'[id].completed_job_count = Saved[id].completed_job_count
        /\ schedules'[id].job_active = Saved[id].job_active
        /\ schedules'[id].deadline_miss_latched
             = Saved[id].deadline_miss_latched
    BY <1>3 DEF SchedTask
  <1> QED BY <1>3, <1>4, <1>6, <1>7 DEF Occupied

\* What the summary makes of a switch: the outgoing task's interval ends, and
\* the jobs counted stay (running_intervals).
LEMMA IntervalRead ==
    ASSUME summary \in Summaries, summary.task = current_task,
           summary.continuous, current_task' \in TaskIds,
           monotonic_ticks \in Nat, UNCHANGED monotonic_ticks,
           summary.since <= monotonic_ticks,
           summary' = ReadSwitch(summary, SwitchRecord)
    PROVE  /\ summary' \in Summaries
           /\ summary'.task = current_task' /\ summary'.continuous
           /\ summary'.since = monotonic_ticks
           /\ \A id \in TaskIds :
                 summary'.running_ticks[id] = summary.running_ticks[id]
                   + (IF id = current_task THEN monotonic_ticks - summary.since
                      ELSE 0)
           /\ summary'.released_jobs = summary.released_jobs
           /\ summary'.deadlines_met = summary.deadlines_met
           /\ summary'.deadline_misses = summary.deadline_misses
  <1> DEFINE e == SwitchRecord
             spent == monotonic_ticks - summary.since
             ticks == IF current_task = OS_TASK_ID_INVALID
                      THEN summary.running_ticks
                      ELSE [summary.running_ticks EXCEPT
                              ![current_task] = @ + spent]
             ended == [summary EXCEPT !.running_ticks = ticks]
  <1>1. /\ e.tick = monotonic_ticks /\ e.task = current_task
        /\ e.related = current_task'
    BY DEF SwitchRecord, Event
  <1> HIDE DEF e
  <1>2. /\ spent \in Nat /\ summary.since \in Nat
        /\ summary.running_ticks \in [TaskIds -> Nat]
        /\ summary.task \in TaskIdsOrInvalid
    BY DEF Summaries
  <1>3. /\ ticks \in [TaskIds -> Nat]
        /\ \A id \in TaskIds :
              ticks[id] = summary.running_ticks[id]
                            + (IF id = current_task THEN spent ELSE 0)
    <2> HIDE DEF spent
    <2>1. CASE current_task = OS_TASK_ID_INVALID
      BY <1>2, <2>1, IdTypes
    <2>2. CASE current_task # OS_TASK_ID_INVALID
      <3>1. current_task \in TaskIds
        BY <1>2, <2>2, IdTypes
      <3> QED BY <1>2, <2>2, <3>1
    <2> QED BY <2>1, <2>2
  <1>4. (IF summary.task = OS_TASK_ID_INVALID THEN summary
         ELSE [summary EXCEPT !.running_ticks[summary.task] =
                                 @ + (e.tick - summary.since)]) = ended
    <2>1. CASE current_task = OS_TASK_ID_INVALID
      <3>1. [summary EXCEPT !.running_ticks = summary.running_ticks] = summary
        BY DEF Summaries
      <3> QED BY <2>1, <3>1
    <2>2. CASE current_task # OS_TASK_ID_INVALID
      BY <1>1, <2>2
    <2> QED BY <2>1, <2>2
  <1> HIDE DEF ticks, ended, spent
  <1>5. summary' = [ended EXCEPT !.task = e.related, !.since = e.tick,
                                 !.continuous = @ /\ e.task = summary.task]
    BY <1>4 DEF ReadSwitch, e
  <1>6. /\ ended \in Summaries /\ ended.running_ticks = ticks
        /\ ended.released_jobs = summary.released_jobs
        /\ ended.deadlines_met = summary.deadlines_met
        /\ ended.deadline_misses = summary.deadline_misses
        /\ ended.continuous = summary.continuous
    BY <1>3 DEF ended, Summaries
  <1>7. (ended.continuous /\ e.task = summary.task) = TRUE
    BY <1>1, <1>6
  <1>8. summary' = [ended EXCEPT !.task = current_task',
                                 !.since = monotonic_ticks,
                                 !.continuous = TRUE]
    BY <1>1, <1>5, <1>7
  <1>9. /\ summary' \in Summaries
        /\ summary'.task = current_task' /\ summary'.continuous
        /\ summary'.since = monotonic_ticks
        /\ summary'.running_ticks = ticks
        /\ summary'.released_jobs = ended.released_jobs
        /\ summary'.deadlines_met = ended.deadlines_met
        /\ summary'.deadline_misses = ended.deadline_misses
    <2> DEFINE U == UserTasks
               T == TaskIds
               I == TaskIdsOrInvalid
    <2>1. current_task' \in I
      BY IdTypes
    <2> HIDE DEF U, T, I
    <2>2. /\ Summaries = [task : I, since : Nat, continuous : BOOLEAN,
                          running_ticks : [T -> Nat],
                          released_jobs : [U -> Nat],
                          deadlines_met : [U -> Nat],
                          deadline_misses : [U -> Nat]]
      BY DEF Summaries, U, T, I
    <2> QED BY <1>6, <1>8, <2>1, <2>2
  <1> QED BY <1>3, <1>6, <1>9 DEF spent

\* os_pendsv_switch
LEMMA SwitchReader ==
    ASSUME KernelInv, ReaderInv, os_pendsv_switch, Emits(SwitchEvents)
    PROVE  /\ ReaderInv'
           /\ summary'.released_jobs = summary.released_jobs
           /\ summary'.deadlines_met = summary.deadlines_met
           /\ summary'.deadline_misses = summary.deadline_misses
  <1>1. /\ StructureInv /\ TypeOK /\ cpu = "pendsv_in" /\ panics = {}
        /\ UNCHANGED monotonic_ticks /\ monotonic_ticks \in Nat
        /\ current_task \in TaskIdsOrInvalid
    BY TickIsNat DEF KernelInv, os_pendsv_switch, StructureInv, TypeOK
  <1>2. /\ Saved \in [TaskIds -> SchedTask] /\ Selected \in TaskIds
        /\ current_task' = Selected
        /\ schedules' = [Saved EXCEPT ![Selected].state = "RUNNING"]
    BY SavedShown
  <1>3. /\ summary' = ReadSwitch(summary, SwitchRecord)
        /\ told' = Reads("TOLD", told, SwitchRecord)
    BY SwitchReads
  <1>4. /\ summary' \in Summaries
        /\ summary'.task = current_task' /\ summary'.continuous
        /\ summary'.since = monotonic_ticks
        /\ \A id \in TaskIds :
              summary'.running_ticks[id] = summary.running_ticks[id]
                + (IF id = current_task THEN monotonic_ticks - summary.since
                   ELSE 0)
        /\ summary'.released_jobs = summary.released_jobs
        /\ summary'.deadlines_met = summary.deadlines_met
        /\ summary'.deadline_misses = summary.deadline_misses
    BY <1>1, <1>2, <1>3, IntervalRead DEF ReaderInv
  <1>5. ASSUME NEW id \in UserTasks PROVE Covered(id)'
    <2> SUFFICES ASSUME schedules'[id].state # "DORMANT"
                 PROVE  schedules'[id].total_execution_ticks
                          <= summary'.running_ticks[id] + OpenInterval(id)'
      BY DEF Covered, Occupied
    <2>1. /\ Occupied(id) /\ schedules[id] \in SchedTask
          /\ schedules'[id].total_execution_ticks
               = schedules[id].total_execution_ticks
      BY SwitchTask
    <2>2. schedules[id].total_execution_ticks
            <= summary.running_ticks[id] + OpenInterval(id)
      BY <2>1 DEF ReaderInv, Covered
    <2>3. OpenInterval(id)' = 0
      BY <1>1, <1>4 DEF OpenInterval
    <2>4. OpenInterval(id) = IF id = current_task
                             THEN monotonic_ticks - summary.since ELSE 0
      BY DEF OpenInterval, ReaderInv
    <2>5. id \in TaskIds /\ summary.running_ticks[id] \in Nat
          /\ summary.since \in Nat
      BY IdTypes DEF ReaderInv, Summaries
    <2> QED BY <1>1, <1>4, <2>1, <2>2, <2>3, <2>4, <2>5
  <1>6. told' = [id \in TaskIds |->
                   CASE id = Selected -> "RUNNING"
                     [] id = current_task /\ id # Selected ->
                          CASE StateAtSwitch(current_task)
                                 \in {"RUNNING", "READY"} -> "READY"
                            [] StateAtSwitch(current_task) = "EXITING" ->
                                 "DORMANT"
                            [] OTHER -> StateAtSwitch(current_task)
                     [] OTHER -> told[id]]
    <2> DEFINE state == StateAtSwitch(current_task)
    <2>1. /\ SwitchRecord.event = "CONTEXT_SWITCH"
          /\ SwitchRecord.task = current_task
          /\ SwitchRecord.related = Selected
          /\ SwitchRecord.values = <<pending_switch_cause, state>>
      BY <1>2 DEF SwitchRecord, Event
    <2>2. SwitchRecord.values[2] = state
      BY <2>1
    <2> HIDE DEF state
    <2>3. told' = Tell(told, SwitchRecord)
      BY <1>3 DEF Reads
    <2> QED BY <2>1, <2>2, <2>3 DEF Tell, state
  <1>7. told' = [id \in TaskIds |-> told'[id]]
    BY <1>6
  <1>8. ASSUME NEW id \in TaskIds PROVE Tells(id)'
    <2>1. /\ schedules'[id] = IF id = Selected
                              THEN [Saved[id] EXCEPT !.state = "RUNNING"]
                              ELSE Saved[id]
          /\ Saved[id] \in SchedTask
      BY <1>2
    <2>2. CASE id = Selected
      <3>1. schedules'[id].state = "RUNNING"
        BY <2>1, <2>2 DEF SchedTask
      <3>2. told'[id] = "RUNNING"
        BY <1>6, <2>2
      <3> QED BY <3>1, <3>2 DEF Tells
    <2>3. CASE id # Selected /\ id # current_task
      <3>1. Saved[id] = schedules[id]
        BY <1>1, <2>3, ParkedEffect
      <3>2. told'[id] = told[id]
        BY <1>6, <2>3
      <3>3. told[id] = schedules[id].state
        BY <1>1, <2>3 DEF ReaderInv, Tells
      <3> QED BY <2>1, <2>3, <3>1, <3>2, <3>3 DEF Tells
    <2>4. CASE id # Selected /\ id = current_task
      <3>1. StateAtSwitch(current_task) = Current.state
        BY <2>4, IdTypes DEF StateAtSwitch, Current
      <3>2. told'[id] = CASE Current.state \in {"RUNNING", "READY"} -> "READY"
                          [] Current.state = "EXITING" -> "DORMANT"
                          [] OTHER -> Current.state
        BY <1>6, <2>4, <3>1
      <3>3. CASE Current.state = "RUNNING"
        <4>1. Saved[id] = [Current EXCEPT !.state = "READY"]
          BY <1>1, <2>4, <3>3, ParkedEffect
        <4>2. Current \in SchedTask
          BY <1>1, <2>4 DEF TypeOK, Current
        <4>3. Saved[id].state = "READY"
          BY <4>1, <4>2 DEF SchedTask
        <4> QED BY <2>1, <2>4, <3>2, <3>3, <4>3 DEF Tells
      <3>4. CASE Current.state = "EXITING"
        <4>1. Leaving
          BY <2>4, <3>4, IdTypes DEF Leaving
        <4>2. Saved[id] = ResetTask
          BY <1>1, <2>4, <4>1, ParkedEffect
        <4>3. Saved[id].state = "DORMANT"
          BY <4>2 DEF ResetTask
        <4> QED BY <2>1, <2>4, <3>2, <3>4, <4>3 DEF Tells
      <3>5. CASE Current.state \notin {"RUNNING", "EXITING"}
        <4>1. Saved[id] = Current
          BY <1>1, <2>4, <3>5, ParkedEffect
        <4> QED BY <2>1, <2>4, <3>2, <3>5, <4>1 DEF Tells
      <3> QED BY <3>3, <3>4, <3>5
    <2> QED BY <2>2, <2>3, <2>4
  <1>9. summary'.since <= monotonic_ticks'
    BY <1>1, <1>4
  <1> QED BY <1>4, <1>5, <1>7, <1>8, <1>9 DEF ReaderInv

\* The last tick of all: nothing is written, and the kernel panics.
LEMMA LastTickReader ==
    ASSUME KernelInv, ReaderInv, SysTick, Emits(TickEvents),
           monotonic_ticks' = monotonic_ticks
    PROVE  ReaderInv' /\ summary' = summary /\ panics' # {}
  <1>1. monotonic_ticks \in Nat
    BY TickIsNat DEF KernelInv, StructureInv
  <1>2. UNCHANGED <<summary, told>>
    <2>1. TickEvents = << >>
      BY DEF TickEvents
    <2>2. /\ summary' = Folded("SUMMARY", summary, TickEvents)
          /\ told' = Folded("TOLD", told, TickEvents)
      BY EmitsReads
    <2> QED BY <2>1, <2>2, FoldedEmpty
  <1>3. monotonic_ticks = UINT64_MAX
    <2>1. monotonic_ticks # UINT64_MAX => monotonic_ticks' = monotonic_ticks + 1
      BY DEF SysTick
    <2> QED BY <1>1, <2>1
  <1>4. /\ UNCHANGED <<schedules, current_task, pending>>
        /\ panics' = {"TICK_RANGE"}
    BY <1>3 DEF SysTick, identity
  <1> QED BY <1>2, <1>4, QuietReader DEF pending

\* A step whose records are quiet, or that writes none.
LEMMA QuietStep ==
    ASSUME KernelInv, ReaderInv,
           UNCHANGED <<schedules, current_task, monotonic_ticks,
                       pending_preempt_sources>>,
           panics' = {} => panics = {},
           \/ Emits(<< >>)
           \/ \E event \in {"KERNEL_START", "ALLOC", "FREE"} :
              \E task, related, values :
                 Emits(<<Event(event, task, related, values)>>)
    PROVE  ReaderInv' /\ summary' = summary
  <1>1. UNCHANGED <<summary, told>>
    <2>1. \A event \in {"KERNEL_START", "ALLOC", "FREE"} :
             event \notin Counted /\ event \notin Telling
      BY DEF Counted, Telling
    <2> QED BY <2>1, NoRecords, QuietRecord
  <1> QED BY <1>1, QuietReader

\* What each step of the traced kernel is, in these terms: one of the handlers
\* that read and replace the table, or a quiet one.
Quiet ==
    /\ UNCHANGED <<schedules, current_task, monotonic_ticks,
                   pending_preempt_sources>>
    /\ panics' = {} => panics = {}
    /\ \/ Emits(<< >>)
       \/ \E event \in {"KERNEL_START", "ALLOC", "FREE"} :
          \E task, related, values :
             Emits(<<Event(event, task, related, values)>>)

LEMMA StepsOfTrace ==
    ASSUME TracedNext
    PROVE  \/ \E config \in Configs :
                 os_task_create(config) /\ Emits(CreateEvents(CreatedSlot))
           \/ SvcYield /\ Emits(<<CallEvent("TASK_YIELD", << >>)>>)
           \/ \E sleep_ticks \in SleepTicks :
                 /\ SvcSleep(sleep_ticks)
                 /\ Emits(<<CallEvent("TASK_SLEEP",
                                      <<schedules'[current_task].wake_order,
                                        sleep_ticks>>)>>)
           \/ SvcExit /\ Emits(ExitEvents)
           \/ SvcWaitNextPeriod /\ Emits(WaitEvents)
           \/ SysTick /\ Emits(TickEvents)
           \/ os_pendsv_switch /\ Emits(SwitchEvents)
           \/ Quiet
  <1>1. ASSUME os_kernel_start,
               Emits(<<Event("KERNEL_START", OS_TASK_ID_INVALID,
                             OS_TASK_ID_INVALID, << >>)>>)
        PROVE  Quiet
    <2>1. /\ UNCHANGED <<schedules, current_task, monotonic_ticks,
                         pending_preempt_sources>>
          /\ panics' = {} => panics = {}
      BY <1>1 DEF os_kernel_start
    <2> QED BY <1>1, <2>1 DEF Quiet
  <1>2. ASSUME NEW event \in {"ALLOC", "FREE"}, NEW values,
               Emits(<<CallEvent(event, values)>>),
               \/ os_memory_alloc \/ os_memory_free
               \/ UNCHANGED vars
        PROVE  Quiet
    <2>1. /\ UNCHANGED <<schedules, current_task, monotonic_ticks,
                         pending_preempt_sources>>
          /\ panics' = {} => panics = {}
      BY <1>2 DEF os_memory_alloc, os_memory_free, vars, identity, pending
    <2> QED BY <1>2, <2>1 DEF Quiet, CallEvent
  <1>3. ASSUME \/ DisableInterrupts \/ EnableInterrupts
               \/ SvcStart \/ PendsvEnter \/ PendsvReturn \/ Halted,
               Emits(<< >>)
        PROVE  Quiet
    <2>1. UNCHANGED <<schedules, current_task, monotonic_ticks,
                      pending_preempt_sources>>
      BY <1>3
      DEF DisableInterrupts, EnableInterrupts, SvcStart, PendsvEnter,
          PendsvReturn, Halted, vars, identity, pending
    <2>2. panics' = {} => panics = {}
      BY <1>3
      DEF DisableInterrupts, EnableInterrupts, SvcStart, PendsvEnter,
          PendsvReturn, Halted, vars
    <2> QED BY <1>3, <2>1, <2>2 DEF Quiet
  <1>4. ASSUME os_memory_alloc, NEW size,
               Emits(<<AllocEvent(size, "OFFSET", TRUE)>>)
        PROVE  Quiet
    BY <1>2, <1>4 DEF AllocEvent
  <1>5. ASSUME os_memory_free, Emits(<<FreeEvent("OFFSET", TRUE)>>)
        PROVE  Quiet
    BY <1>2, <1>5 DEF FreeEvent
  <1>6. ASSUME NEW event \in {"ALLOC", "FREE"}, os_memory_refused(event)
        PROVE  Quiet
    BY <1>2, <1>6 DEF os_memory_refused, AllocEvent, FreeEvent
  <1>7. ASSUME os_memory_free_null PROVE Quiet
    BY <1>2, <1>7 DEF os_memory_free_null, FreeEvent
  <1> QED BY <1>1, <1>3, <1>4, <1>5, <1>6, <1>7 DEF TracedNext, CreatedSlot

\* What is known of the kernel by its records is known after every step.
LEMMA ReaderStep ==
    ASSUME KernelInv, ReaderInv, [TracedNext]_traced_vars
    PROVE  ReaderInv'
  <1>1. CASE TracedNext
    <2>1. ASSUME NEW config \in Configs, os_task_create(config),
                 Emits(CreateEvents(CreatedSlot))
          PROVE  ReaderInv'
      BY <2>1, CreateReader
    <2>2. ASSUME SvcYield, Emits(<<CallEvent("TASK_YIELD", << >>)>>)
          PROVE  ReaderInv'
      BY <2>2, YieldReader
    <2>3. ASSUME NEW sleep_ticks \in SleepTicks, SvcSleep(sleep_ticks),
                 Emits(<<CallEvent("TASK_SLEEP",
                                   <<schedules'[current_task].wake_order,
                                     sleep_ticks>>)>>)
          PROVE  ReaderInv'
      BY <2>3, SleepReader
    <2>4. ASSUME SvcExit, Emits(ExitEvents) PROVE ReaderInv'
      BY <2>4, ExitReader
    <2>5. ASSUME SvcWaitNextPeriod, Emits(WaitEvents) PROVE ReaderInv'
      BY <2>5, WaitReader
    <2>6. ASSUME SysTick, Emits(TickEvents) PROVE ReaderInv'
      BY <2>6, TickReader, LastTickReader
    <2>7. ASSUME os_pendsv_switch, Emits(SwitchEvents) PROVE ReaderInv'
      BY <2>7, SwitchReader
    <2>8. ASSUME Quiet PROVE ReaderInv'
      BY <2>8, QuietStep DEF Quiet
    <2> QED
      BY <1>1, <2>1, <2>2, <2>3, <2>4, <2>5, <2>6, <2>7, <2>8, StepsOfTrace
  <1>2. CASE UNCHANGED traced_vars
    BY <1>2, QuietReader DEF traced_vars, vars, identity, pending
  <1> QED BY <1>1, <1>2

LEMMA ReaderInit == TracedInit => ReaderInv
  <1> SUFFICES ASSUME TracedInit PROVE ReaderInv
    OBVIOUS
  <1>1. /\ Init /\ summary = NothingRead
        /\ told = [id \in TaskIds |-> schedules[id].state]
    BY DEF TracedInit
  <1>2. /\ summary \in Summaries
        /\ summary.task = OS_TASK_ID_INVALID /\ summary.since = 0
        /\ summary.continuous
    BY <1>1, IdTypes DEF NothingRead, Summaries
  <1>3. current_task = OS_TASK_ID_INVALID /\ monotonic_ticks = 0
    BY <1>1 DEF Init
  <1>4. ASSUME NEW id \in UserTasks PROVE Covered(id)
    <2>1. schedules[id] = ResetTask
      BY <1>1, IdTypes DEF Init
    <2> QED BY <2>1 DEF Covered, Occupied, ResetTask
  <1>5. told = [id \in TaskIds |-> told[id]]
        /\ \A id \in TaskIds : Tells(id)
    BY <1>1 DEF Tells
  <1> QED BY <1>2, <1>3, <1>4, <1>5 DEF ReaderInv

LEMMA ReaderSafe == TracedSpec => []ReaderInv
  BY ReaderInit, ReaderStep, TracedSafe, PTL DEF TracedSpec

\* Whoever reads the records knows every task's state and the current task
\* between any two steps of the kernel, a preemption that PendSV is still to
\* commit excepted (the os_trace_emit calls of kernel.c).
THEOREM TraceTellsSafe == TracedSpec => []TraceTellsState
  <1>1. ReaderInv => TraceTellsState
    BY ReaderImplies
  <1> QED BY <1>1, ReaderSafe, PTL

\* The running intervals the laboratory draws from the switches are no shorter
\* than what SysTick has charged to the task (running_intervals,
\* os_sched_account_running_tick).
THEOREM IntervalsSafe == TracedSpec => []IntervalsCoverCharges
  <1>1. ReaderInv => IntervalsCoverCharges
    BY ReaderImplies
  <1> QED BY <1>1, ReaderSafe, PTL

----------------------------------------------------------------------------
\* The jobs that a step counts are the jobs that it tells.

LEMMA JobCounts ==
    ASSUME NEW task \in SchedTask
    PROVE  Released(task) \in Nat /\ Missed(task) \in Nat /\ Resolved(task) \in Nat
  <1>1. /\ task.job_sequence \in Nat /\ task.deadline_miss_count \in Nat
        /\ task.completed_job_count \in Nat
    BY NumberTypes DEF SchedTask
  <1> QED BY <1>1 DEF Released, Missed, Resolved

\* What the summary counts for one task is a number of jobs.
LEMMA SummaryCounts ==
    ASSUME NEW id \in UserTasks, ReaderInv
    PROVE  /\ summary \in Summaries
           /\ summary.released_jobs[id] \in Nat
           /\ summary.deadlines_met[id] \in Nat
           /\ summary.deadline_misses[id] \in Nat
           /\ summary.released_jobs \in [UserTasks -> Nat]
           /\ summary.deadlines_met \in [UserTasks -> Nat]
           /\ summary.deadline_misses \in [UserTasks -> Nat]
  BY DEF ReaderInv, Summaries

\* A step that neither counts nor tells a job of id.
LEMMA NothingTold ==
    ASSUME ReaderInv, NEW id \in UserTasks, schedules[id] \in SchedTask,
           Released(schedules'[id]) = Released(schedules[id]),
           Missed(schedules'[id]) = Missed(schedules[id]),
           Resolved(schedules'[id]) = Resolved(schedules[id]),
           summary'.released_jobs[id] = summary.released_jobs[id],
           summary'.deadlines_met[id] = summary.deadlines_met[id],
           summary'.deadline_misses[id] = summary.deadline_misses[id]
    PROVE  TellsJobsOf(id)
  <1>1. /\ Released(schedules[id]) \in Nat /\ Missed(schedules[id]) \in Nat
        /\ Resolved(schedules[id]) \in Nat
    BY JobCounts
  <1>2. /\ summary.released_jobs[id] \in Nat
        /\ summary.deadlines_met[id] \in Nat
        /\ summary.deadline_misses[id] \in Nat
    BY SummaryCounts
  <1> QED BY <1>1, <1>2 DEF TellsJobsOf

LEMMA SameTold ==
    ASSUME ReaderInv, NEW id \in UserTasks, schedules[id] \in SchedTask,
           schedules'[id] = schedules[id],
           summary'.released_jobs[id] = summary.released_jobs[id],
           summary'.deadlines_met[id] = summary.deadlines_met[id],
           summary'.deadline_misses[id] = summary.deadline_misses[id]
    PROVE  TellsJobsOf(id)
  <1>1. /\ Released(schedules'[id]) = Released(schedules[id])
        /\ Missed(schedules'[id]) = Missed(schedules[id])
        /\ Resolved(schedules'[id]) = Resolved(schedules[id])
    BY DEF Released, Missed, Resolved
  <1> QED BY <1>1, NothingTold

\* SysTick counts a release or a miss exactly when it tells it.
LEMMA TickTellsJobs ==
    ASSUME KernelInv, ReaderInv, SysTick, Emits(TickEvents),
           monotonic_ticks' # monotonic_ticks, NEW id \in UserTasks,
           schedules'[id].state # "DORMANT",
           schedules'[id].job_sequence < UINT32_MAX
    PROVE  TellsJobsOf(id)
  <1> DEFINE task == schedules[id]
             after == schedules'[id]
  <1>1. /\ task \in SchedTask /\ after \in SchedTask
        /\ after.completed_job_count = task.completed_job_count
        /\ after.job_sequence = IF ReleaseTold(id)
                                THEN increment_saturating(task.job_sequence)
                                ELSE task.job_sequence
        /\ after.deadline_miss_count =
             IF MissTold(id)
             THEN increment_saturating(task.deadline_miss_count)
             ELSE task.deadline_miss_count
        /\ MissTold(id) => task.job_active /\ ~task.deadline_miss_latched
        /\ (after.job_active /\ after.deadline_miss_latched)
             <=> (MissTold(id)
                   \/ (task.job_active /\ task.deadline_miss_latched))
        /\ task.state # "DORMANT"
    BY TickStates
  <1>2. /\ summary'.deadlines_met = summary.deadlines_met
        /\ summary'.deadline_misses[id] = summary.deadline_misses[id]
             + (IF MissTold(id) THEN 1 ELSE 0)
        /\ summary'.released_jobs[id] = summary.released_jobs[id]
             + (IF ReleaseTold(id) THEN 1 ELSE 0)
    BY TickRead DEF ReaderInv, TurnsRead
  <1>3. JobsAddUp(task)
    BY DEF KernelInv, TimeInv, Timely
  <1>4. /\ task.job_sequence \in Nat /\ task.deadline_miss_count \in Nat
        /\ task.completed_job_count \in Nat /\ UINT32_MAX \in Nat
    BY <1>1, NumberTypes DEF SchedTask
  <1>5. /\ summary.released_jobs[id] \in Nat
        /\ summary.deadlines_met[id] \in Nat
        /\ summary.deadline_misses[id] \in Nat
    BY SummaryCounts
  <1>6. after.job_sequence < UINT32_MAX /\ after.state # "DORMANT"
    OBVIOUS
  <1> HIDE DEF task, after
  <1>7. /\ task.job_sequence < UINT32_MAX
        /\ after.job_sequence
             = task.job_sequence + (IF ReleaseTold(id) THEN 1 ELSE 0)
    BY <1>1, <1>4, <1>6 DEF increment_saturating
  <1>8. after.deadline_miss_count
          = task.deadline_miss_count + (IF MissTold(id) THEN 1 ELSE 0)
    <2>1. CASE MissTold(id)
      <3>1. /\ ActiveJobs(task) = 1 /\ LateJobs(task) = 0
        BY <1>1, <2>1 DEF ActiveJobs, LateJobs
      <3>2. task.deadline_miss_count # UINT32_MAX
        BY <1>3, <1>4, <1>7, <3>1 DEF JobsAddUp
      <3> QED BY <1>1, <2>1, <3>2 DEF increment_saturating
    <2>2. CASE ~MissTold(id)
      BY <1>1, <1>4, <2>2
    <2> QED BY <2>1, <2>2
  <1>9. Resolved(after) = Resolved(task) + (IF MissTold(id) THEN 1 ELSE 0)
    <2>1. Resolved(after) = after.completed_job_count
                              + (IF after.job_active
                                      /\ after.deadline_miss_latched
                                 THEN 1 ELSE 0)
      BY <1>6 DEF Resolved
    <2>2. Resolved(task) = task.completed_job_count
                             + (IF task.job_active
                                     /\ task.deadline_miss_latched
                                THEN 1 ELSE 0)
      BY <1>1 DEF Resolved
    <2>3. CASE MissTold(id)
      BY <1>1, <1>4, <2>1, <2>2, <2>3
    <2>4. CASE ~MissTold(id)
      BY <1>1, <1>4, <2>1, <2>2, <2>4
    <2> QED BY <2>3, <2>4
  <1>10. /\ Released(after) = after.job_sequence
         /\ Released(task) = task.job_sequence
         /\ Missed(after) = after.deadline_miss_count
         /\ Missed(task) = task.deadline_miss_count
         /\ Resolved(task) \in Nat
    BY <1>1, <1>6, JobCounts DEF Released, Missed
  <1>11. /\ summary'.released_jobs[id] - summary.released_jobs[id]
              = Released(after) - Released(task)
         /\ summary'.deadline_misses[id] - summary.deadline_misses[id]
              = Missed(after) - Missed(task)
         /\ (summary'.deadlines_met[id] + summary'.deadline_misses[id])
              - (summary.deadlines_met[id] + summary.deadline_misses[id])
              = Resolved(after) - Resolved(task)
    <2> HIDE DEF Released, Missed, Resolved, MissTold, ReleaseTold
    <2> QED BY <1>2, <1>4, <1>5, <1>7, <1>8, <1>9, <1>10
  <1> QED BY <1>11 DEF TellsJobsOf, task, after

\* The end of a job is counted, and its outcome is told, once.
LEMMA EndTellsJobs ==
    ASSUME KernelInv, ReaderInv,
           NEW state \in {"EXITING", "WAITING_RELEASE"}, NEW task,
           Ended(task, state), EndRead, NEW id \in UserTasks,
           schedules'[id].job_sequence < UINT32_MAX
    PROVE  TellsJobsOf(id)
  <1>1. /\ schedules' = [schedules EXCEPT ![current_task] = task]
        /\ schedules'[current_task] = task
        /\ current_task \in UserTasks
        /\ CompleteAccepts(Caller) /\ Caller \in SchedTask
        /\ Timely(Caller, monotonic_ticks)
        /\ task.state = state
        /\ ~task.job_active
        /\ task.deadline_miss_latched = Caller.deadline_miss_latched
        /\ task.deadline_miss_count = Caller.deadline_miss_count
        /\ task.job_sequence = Caller.job_sequence
        /\ task.completed_job_count
             = increment_saturating(Caller.completed_job_count)
    BY DEF Ended
  <1>2. /\ schedules \in [TaskIds -> SchedTask] /\ id \in TaskIds
        /\ schedules[id] \in SchedTask
    BY IdTypes DEF KernelInv, StructureInv, TypeOK
  <1>3. /\ summary.released_jobs[id] \in Nat
        /\ summary.deadlines_met[id] \in Nat
        /\ summary.deadline_misses[id] \in Nat
        /\ summary.deadlines_met \in [UserTasks -> Nat]
    BY SummaryCounts
  <1>4. CASE id # current_task
    <2>1. schedules'[id] = schedules[id]
      BY <1>1, <1>2, <1>4
    <2>2. summary'.deadlines_met[id] = summary.deadlines_met[id]
      BY <1>1, <1>3, <1>4 DEF EndRead
    <2> QED BY <1>2, <2>1, <2>2, SameTold DEF EndRead
  <1>5. CASE id = current_task
    <2>1. schedules'[id] = task /\ schedules[id] = Caller
      BY <1>1, <1>5 DEF Caller
    <2>2. /\ Caller.state = "RUNNING" /\ Caller.job_active
          /\ Caller.job_sequence < UINT32_MAX
      BY <1>1, <2>1 DEF CompleteAccepts
    <2>3. /\ Caller.completed_job_count \in Nat /\ UINT32_MAX \in Nat
          /\ Caller.job_sequence \in Nat /\ Caller.deadline_miss_count \in Nat
      BY <1>1, NumberTypes DEF SchedTask
    <2>4. task.completed_job_count = Caller.completed_job_count + 1
      <3>1. Caller.completed_job_count # UINT32_MAX
        BY <1>1, <2>2, <2>3 DEF Timely, JobsAddUp, ActiveJobs
      <3> QED BY <1>1, <3>1 DEF increment_saturating
    <2>5. /\ Released(task) = Caller.job_sequence
          /\ Released(Caller) = Caller.job_sequence
          /\ Missed(task) = Caller.deadline_miss_count
          /\ Missed(Caller) = Caller.deadline_miss_count
      BY <1>1, <2>2 DEF Released, Missed
    <2>6. /\ Resolved(task) = Caller.completed_job_count + 1
          /\ Resolved(Caller) = Caller.completed_job_count
               + (IF Caller.deadline_miss_latched THEN 1 ELSE 0)
      BY <1>1, <2>2, <2>3, <2>4 DEF Resolved
    <2>7. summary'.deadlines_met[id] = summary.deadlines_met[id]
            + (IF Caller.deadline_miss_latched THEN 0 ELSE 1)
      BY <1>1, <1>3, <1>5 DEF EndRead
    <2> QED BY <1>3, <2>1, <2>3, <2>5, <2>6, <2>7 DEF TellsJobsOf, EndRead
  <1> QED BY <1>4, <1>5

\* A new task has at most the job that is told, and no outcome yet.
LEMMA ConfigureCounts ==
    ASSUME NEW config \in TimingConfig, NEW now \in Orders,
           ConfigureAccepts(config, now)
    PROVE  LET after == os_sched_task_configure(config, now) IN
           /\ after.deadline_miss_count = 0
           /\ after.deadline_miss_latched = FALSE
  BY DEF os_sched_task_configure, activate_job, ResetTask

LEMMA CreateTellsJobs ==
    ASSUME KernelInv, ReaderInv, NEW config \in Configs,
           os_task_create(config), CreateRead(CreatedSlot),
           NEW id \in UserTasks,
           schedules'[id].job_sequence < UINT32_MAX
    PROVE  TellsJobsOf(id)
  <1> DEFINE slot == CreatedSlot
             after == os_sched_task_configure(config, monotonic_ticks)
  <1>1. /\ StructureInv /\ TypeOK
        /\ schedules \in [TaskIds -> SchedTask] /\ id \in TaskIds
        /\ schedules[id] \in SchedTask
        /\ monotonic_ticks \in Orders /\ config \in TimingConfig
    BY KernelConstants, IdTypes DEF KernelInv, StructureInv, TypeOK
  <1>2. /\ slot \in UserTasks /\ schedules[slot].state = "DORMANT"
        /\ schedules' = [schedules EXCEPT ![slot] = after]
    BY CreateShape DEF FreeSlots
  <1>3. ConfigureAccepts(config, monotonic_ticks)
    BY DEF os_task_create
  <1>4. /\ after.state \in {"WAITING_RELEASE", "READY"}
        /\ JobMatches(after) /\ after.completed_job_count = 0
        /\ JobsAddUp(after)
        /\ after.deadline_miss_count = 0
        /\ after.deadline_miss_latched = FALSE
    <2>1. /\ after.state \in {"WAITING_RELEASE", "READY"}
          /\ JobMatches(after) /\ after.completed_job_count = 0
      BY <1>1, <1>3, ConfigureEffect
    <2>2. JobsAddUp(after)
      BY <1>1, <1>3, ConfigureTimely DEF Timely
    <2>3. after.deadline_miss_count = 0 /\ after.deadline_miss_latched = FALSE
      BY <1>1, <1>3, ConfigureCounts
    <2> QED BY <2>1, <2>2, <2>3
  <1>5. /\ summary.released_jobs[id] \in Nat
        /\ summary.deadlines_met[id] \in Nat
        /\ summary.deadline_misses[id] \in Nat
        /\ summary.released_jobs \in [UserTasks -> Nat]
    BY SummaryCounts
  <1> HIDE DEF after, slot
  <1>6. /\ summary'.deadlines_met = summary.deadlines_met
        /\ summary'.deadline_misses = summary.deadline_misses
        /\ summary'.released_jobs =
             IF schedules'[slot].state = "READY"
             THEN [summary.released_jobs EXCEPT ![slot] = @ + 1]
             ELSE summary.released_jobs
    BY DEF CreateRead, slot
  <1>7. CASE id # slot
    <2>1. schedules'[id] = schedules[id]
      BY <1>1, <1>2, <1>7
    <2>2. summary'.released_jobs[id] = summary.released_jobs[id]
      BY <1>5, <1>6, <1>7
    <2> QED BY <1>1, <1>6, <2>1, <2>2, SameTold
  <1>8. CASE id = slot
    <2>1. schedules'[id] = after
      BY <1>1, <1>2, <1>8
    <2>2. /\ Released(schedules[id]) = 0 /\ Missed(schedules[id]) = 0
          /\ Resolved(schedules[id]) = 0
      BY <1>2, <1>8 DEF Released, Missed, Resolved
    <2>3. after.job_active <=> after.state = "READY"
      BY <1>4 DEF JobMatches, ActiveStates
    <2>4. after.job_sequence = IF after.state = "READY" THEN 1 ELSE 0
      BY <1>4, <2>1, <2>3 DEF JobsAddUp, ActiveJobs
    <2>5. /\ Released(after) = IF after.state = "READY" THEN 1 ELSE 0
          /\ Missed(after) = 0 /\ Resolved(after) = 0
      BY <1>4, <2>4 DEF Released, Missed, Resolved
    <2>6. summary'.released_jobs[id] = summary.released_jobs[id]
            + (IF after.state = "READY" THEN 1 ELSE 0)
      BY <1>5, <1>6, <1>8, <2>1
    <2> QED BY <1>5, <1>6, <2>1, <2>2, <2>5, <2>6 DEF TellsJobsOf
  <1> QED BY <1>7, <1>8

LEMMA SwitchTellsJobs ==
    ASSUME KernelInv, ReaderInv, os_pendsv_switch, Emits(SwitchEvents),
           NEW id \in UserTasks, schedules'[id].state # "DORMANT"
    PROVE  TellsJobsOf(id)
  <1>1. /\ Occupied(id)
        /\ schedules[id] \in SchedTask
        /\ schedules'[id].job_sequence = schedules[id].job_sequence
        /\ schedules'[id].deadline_miss_count
             = schedules[id].deadline_miss_count
        /\ schedules'[id].completed_job_count
             = schedules[id].completed_job_count
        /\ schedules'[id].job_active = schedules[id].job_active
        /\ schedules'[id].deadline_miss_latched
             = schedules[id].deadline_miss_latched
    BY SwitchTask
  <1>2. /\ Released(schedules'[id]) = Released(schedules[id])
        /\ Missed(schedules'[id]) = Missed(schedules[id])
        /\ Resolved(schedules'[id]) = Resolved(schedules[id])
    BY <1>1 DEF Released, Missed, Resolved, Occupied
  <1>3. /\ summary'.released_jobs = summary.released_jobs
        /\ summary'.deadlines_met = summary.deadlines_met
        /\ summary'.deadline_misses = summary.deadline_misses
    BY SwitchReader
  <1> QED BY <1>1, <1>2, <1>3, NothingTold

\* A call that neither completes nor starts a job: it replaces its caller's
\* record by this one.
KeepsJobs(task) ==
    /\ schedules' = [schedules EXCEPT ![current_task] = task]
    /\ current_task \in UserTasks /\ Caller \in SchedTask
    /\ Caller.state = "RUNNING" /\ task.state # "DORMANT"
    /\ task.job_sequence = Caller.job_sequence
    /\ task.deadline_miss_count = Caller.deadline_miss_count
    /\ task.completed_job_count = Caller.completed_job_count
    /\ task.job_active = Caller.job_active
    /\ task.deadline_miss_latched = Caller.deadline_miss_latched

LEMMA CallTellsJobs ==
    ASSUME KernelInv, ReaderInv, summary' = summary,
           \/ SvcYield
           \/ \E sleep_ticks \in SleepTicks : SvcSleep(sleep_ticks),
           panics' = {}, NEW id \in UserTasks
    PROVE  TellsJobsOf(id)
  <1>1. /\ schedules \in [TaskIds -> SchedTask] /\ id \in TaskIds
        /\ schedules[id] \in SchedTask
    BY IdTypes DEF KernelInv, StructureInv, TypeOK
  <1>2. PICK task : KeepsJobs(task)
    <2>1. ASSUME SvcYield PROVE \E task : KeepsJobs(task)
      <3> DEFINE task == [Caller EXCEPT !.state = "READY"]
      <3>1. SystemCall("SVC_YIELD", TRUE, task, "YIELD")
        BY <2>1 DEF SvcYield
      <3> HIDE DEF task
      <3>2. /\ schedules' = [schedules EXCEPT ![current_task] = task]
            /\ current_task \in UserTasks /\ Caller \in SchedTask
            /\ Caller.state = "RUNNING"
        BY <3>1, CallFinds
      <3>3. /\ task.state # "DORMANT"
            /\ task.job_sequence = Caller.job_sequence
            /\ task.deadline_miss_count = Caller.deadline_miss_count
            /\ task.completed_job_count = Caller.completed_job_count
            /\ task.job_active = Caller.job_active
            /\ task.deadline_miss_latched = Caller.deadline_miss_latched
        BY <3>2 DEF task, SchedTask
      <3> QED BY <3>2, <3>3 DEF KeepsJobs
    <2>2. ASSUME NEW sleep_ticks \in SleepTicks, SvcSleep(sleep_ticks)
          PROVE  \E task : KeepsJobs(task)
      <3> DEFINE task == os_sched_sleep(Caller, monotonic_ticks, sleep_ticks)
                 accepted == SleepAccepts(Caller, monotonic_ticks, sleep_ticks)
      <3>1. SystemCall("TASK_SLEEP", accepted, task, "SLEEP")
        BY <2>2 DEF SvcSleep
      <3> HIDE DEF task, accepted
      <3>2. /\ schedules' = [schedules EXCEPT ![current_task] = task]
            /\ current_task \in UserTasks /\ Caller \in SchedTask
            /\ Caller.state = "RUNNING"
        BY <3>1, CallFinds
      <3>3. /\ task.state # "DORMANT"
            /\ task.job_sequence = Caller.job_sequence
            /\ task.deadline_miss_count = Caller.deadline_miss_count
            /\ task.completed_job_count = Caller.completed_job_count
            /\ task.job_active = Caller.job_active
            /\ task.deadline_miss_latched = Caller.deadline_miss_latched
        BY <3>2 DEF task, os_sched_sleep, SchedTask
      <3> QED BY <3>2, <3>3 DEF KeepsJobs
    <2> QED BY <2>1, <2>2
  <1>3. CASE id # current_task
    <2>1. schedules'[id] = schedules[id]
      BY <1>1, <1>2, <1>3 DEF KeepsJobs
    <2> QED BY <1>1, <2>1, SameTold
  <1>4. CASE id = current_task
    <2>1. schedules'[id] = task /\ schedules[id] = Caller
      BY <1>1, <1>2, <1>4 DEF Caller, KeepsJobs
    <2>2. /\ Released(task) = Released(Caller) /\ Missed(task) = Missed(Caller)
          /\ Resolved(task) = Resolved(Caller)
      BY <1>2 DEF Released, Missed, Resolved, KeepsJobs
    <2> QED BY <1>1, <2>1, <2>2, NothingTold
  <1> QED BY <1>3, <1>4

LEMMA JobsStep ==
    ASSUME KernelInv, ReaderInv, TracedNext, panics' = {},
           NEW id \in UserTasks,
           schedules'[id].state # "DORMANT",
           schedules'[id].job_sequence < UINT32_MAX
    PROVE  TellsJobsOf(id)
  <1>1. ASSUME NEW config \in Configs, os_task_create(config),
               Emits(CreateEvents(CreatedSlot))
        PROVE  TellsJobsOf(id)
    BY <1>1, CreateReader, CreateTellsJobs
  <1>2. ASSUME SvcYield, Emits(<<CallEvent("TASK_YIELD", << >>)>>)
        PROVE  TellsJobsOf(id)
    BY <1>2, YieldReader, CallTellsJobs
  <1>3. ASSUME NEW sleep_ticks \in SleepTicks, SvcSleep(sleep_ticks),
               Emits(<<CallEvent("TASK_SLEEP",
                                 <<schedules'[current_task].wake_order,
                                   sleep_ticks>>)>>)
        PROVE  TellsJobsOf(id)
    BY <1>3, SleepReader, CallTellsJobs
  <1>4. ASSUME SvcExit, Emits(ExitEvents) PROVE TellsJobsOf(id)
    <2> DEFINE task == [os_sched_complete_job(Caller, monotonic_ticks)
                          EXCEPT !.state = "EXITING"]
    <2>1. EndRead
      BY <1>4, ExitReader
    <2>2. SystemCall("EXIT_COMPLETE", CompleteAccepts(Caller), task, "EXIT")
      BY <1>4 DEF SvcExit
    <2>3. Ended(task, "EXITING")
      BY <2>2, EndEffect
    <2> HIDE DEF task
    <2> QED BY <2>1, <2>3, EndTellsJobs
  <1>5. ASSUME SvcWaitNextPeriod, Emits(WaitEvents) PROVE TellsJobsOf(id)
    <2> DEFINE task == [os_sched_complete_job(Caller, monotonic_ticks)
                          EXCEPT !.state = "WAITING_RELEASE"]
    <2>1. EndRead
      BY <1>5, WaitReader
    <2>2. SystemCall("SVC_PERIOD", CompleteAccepts(Caller), task, "WAIT_PERIOD")
      BY <1>5 DEF SvcWaitNextPeriod, os_sched_wait_next_period
    <2>3. Ended(task, "WAITING_RELEASE")
      BY <2>2, EndEffect
    <2> HIDE DEF task
    <2> QED BY <2>1, <2>3, EndTellsJobs
  <1>6. ASSUME SysTick, Emits(TickEvents) PROVE TellsJobsOf(id)
    BY <1>6, LastTickReader, TickTellsJobs
  <1>7. ASSUME os_pendsv_switch, Emits(SwitchEvents) PROVE TellsJobsOf(id)
    BY <1>7, SwitchTellsJobs
  <1>8. ASSUME Quiet PROVE TellsJobsOf(id)
    <2>1. summary' = summary /\ schedules' = schedules
      BY <1>8, QuietStep DEF Quiet
    <2>2. schedules[id] \in SchedTask
      BY IdTypes DEF KernelInv, StructureInv, TypeOK
    <2> QED BY <2>1, <2>2, SameTold
  <1> QED
    BY <1>1, <1>2, <1>3, <1>4, <1>5, <1>6, <1>7, <1>8, StepsOfTrace

\* Each job's release is told once, and so is its one outcome: what a step adds
\* to the kernel's counts of a task it adds to the laboratory's, whichever of
\* SysTick and the end of the job records the miss (trace_deadline's callers,
\* build_summary).
THEOREM JobsToldSafe == TracedSpec => JobsTold
  <1>1. KernelInv /\ ReaderInv /\ [TracedNext]_traced_vars
          => [panics' = {} =>
                \A id \in UserTasks :
                   /\ schedules'[id].state # "DORMANT"
                   /\ schedules'[id].job_sequence < UINT32_MAX
                   => TellsJobsOf(id)]_traced_vars
    BY JobsStep
  <1> QED BY <1>1, TracedSafe, ReaderSafe, PTL DEF TracedSpec, JobsTold

----------------------------------------------------------------------------
\* The clock and the ticks charged.

\* The sum that MapThenSumSet computes over the sets of at most k elements.
Taken(P) == CHOOSE x \in P : TRUE

UpTo(S, k) == {P \in SUBSET S : Cardinality(P) <= k}

Sums(charges, domain, f) ==
    f = [P \in domain |->
           IF P = {} THEN 0 ELSE charges[Taken(P)] + f[P \ {Taken(P)}]]

LEMMA OneLess ==
    ASSUME NEW S, IsFiniteSet(S), NEW P \in SUBSET S, P # {}
    PROVE  /\ Taken(P) \in P
           /\ P \ {Taken(P)} \in SUBSET S
           /\ Cardinality(P) \in Nat
           /\ Cardinality(P \ {Taken(P)}) \in Nat
           /\ Cardinality(P \ {Taken(P)}) = Cardinality(P) - 1
  <1>1. Taken(P) \in P
    BY DEF Taken
  <1>2. IsFiniteSet(P) /\ IsFiniteSet(P \ {Taken(P)})
    BY FS_Subset, FS_RemoveElement
  <1> QED BY <1>1, <1>2, FS_RemoveElement, FS_CardinalityType

LEMMA SumsExist ==
    ASSUME NEW charges, NEW S, IsFiniteSet(S), NEW n \in Nat
    PROVE  \E f : Sums(charges, UpTo(S, n), f)
  <1> DEFINE Bad == {k \in 0 .. n : ~ \E f : Sums(charges, UpTo(S, k), f)}
  <1>1. Bad = {}
    <2> SUFFICES ASSUME Bad # {} PROVE FALSE
      OBVIOUS
    <2>1. Bad \in SUBSET Nat
      OBVIOUS
    <2>2. PICK k \in Bad : \A j \in Bad : k <= j
      <3> HIDE DEF Bad
      <3> QED BY <2>1, NatMinimum
    <2>3. CASE k = 0
      <3> DEFINE f == [P \in UpTo(S, 0) |-> 0]
      <3>1. ASSUME NEW P \in UpTo(S, 0) PROVE P = {}
        <4>1. P \in SUBSET S /\ Cardinality(P) <= 0
          BY <3>1 DEF UpTo
        <4>2. SUFFICES ASSUME P # {} PROVE FALSE
          OBVIOUS
        <4>3. /\ Cardinality(P) \in Nat
              /\ Cardinality(P \ {Taken(P)}) \in Nat
              /\ Cardinality(P \ {Taken(P)}) = Cardinality(P) - 1
          BY <4>1, <4>2, OneLess
        <4> QED BY <4>1, <4>3
      <3>2. f = [P \in UpTo(S, 0) |->
                   IF P = {} THEN 0
                   ELSE charges[Taken(P)] + f[P \ {Taken(P)}]]
        BY <3>1
      <3>3. Sums(charges, UpTo(S, 0), f)
        BY <3>2 DEF Sums
      <3> QED BY <2>2, <2>3, <3>3
    <2>4. CASE k # 0
      <3>1. k - 1 \in 0 .. n /\ k - 1 \notin Bad /\ k \in 1 .. n
        BY <2>2, <2>4
      <3>2. PICK f : Sums(charges, UpTo(S, k - 1), f)
        BY <3>1
      <3> DEFINE g == [P \in UpTo(S, k) |->
                         IF P = {} THEN 0
                         ELSE charges[Taken(P)] + f[P \ {Taken(P)}]]
      <3>3. ASSUME NEW P \in UpTo(S, k), P # {}
            PROVE  /\ P \ {Taken(P)} \in UpTo(S, k - 1)
                   /\ P \ {Taken(P)} \in UpTo(S, k)
        <4>1. P \in SUBSET S /\ Cardinality(P) <= k
          BY <3>3 DEF UpTo
        <4>2. /\ P \ {Taken(P)} \in SUBSET S
              /\ Cardinality(P) \in Nat
              /\ Cardinality(P \ {Taken(P)}) \in Nat
              /\ Cardinality(P \ {Taken(P)}) = Cardinality(P) - 1
          BY <3>3, <4>1, OneLess
        <4>3. /\ Cardinality(P \ {Taken(P)}) <= k - 1
              /\ Cardinality(P \ {Taken(P)}) <= k
          BY <3>1, <4>1, <4>2
        <4> QED BY <4>2, <4>3 DEF UpTo
      <3>4. ASSUME NEW P \in UpTo(S, k - 1) PROVE P \in UpTo(S, k) /\ g[P] = f[P]
        <4>1. P \in SUBSET S /\ Cardinality(P) <= k - 1
          BY <3>4 DEF UpTo
        <4>2. Cardinality(P) \in Nat
          BY <4>1, FS_Subset, FS_CardinalityType
        <4>3. Cardinality(P) <= k
          BY <3>1, <4>1, <4>2
        <4>4. P \in UpTo(S, k)
          BY <4>1, <4>3 DEF UpTo
        <4>5. f[P] = IF P = {} THEN 0
                     ELSE charges[Taken(P)] + f[P \ {Taken(P)}]
          BY <3>2, <3>4 DEF Sums
        <4> QED BY <4>4, <4>5
      <3>5. ASSUME NEW P \in UpTo(S, k)
            PROVE  g[P] = IF P = {} THEN 0
                          ELSE charges[Taken(P)] + g[P \ {Taken(P)}]
        <4>1. CASE P = {}
          BY <4>1
        <4>2. CASE P # {}
          <5>1. g[P \ {Taken(P)}] = f[P \ {Taken(P)}]
            BY <3>3, <3>4, <4>2
          <5> QED BY <4>2, <5>1
        <4> QED BY <4>1, <4>2
      <3>6. g = [P \in UpTo(S, k) |-> g[P]]
        OBVIOUS
      <3> HIDE DEF g
      <3>7. g = [P \in UpTo(S, k) |->
                   IF P = {} THEN 0
                   ELSE charges[Taken(P)] + g[P \ {Taken(P)}]]
        BY <3>5, <3>6
      <3>8. Sums(charges, UpTo(S, k), g)
        BY <3>7 DEF Sums
      <3> QED BY <2>2, <3>8
    <2> QED BY <2>3, <2>4
  <1> QED BY <1>1

\* A sum grows by no more than its parts.
LEMMA SumsCompare ==
    ASSUME NEW S, IsFiniteSet(S), NEW c \in [S -> Nat], NEW d \in [S -> Nat],
           NEW t, NEW b \in Nat,
           \A i \in S : d[i] <= c[i] + (IF i = t THEN b ELSE 0),
           NEW f, Sums(c, SUBSET S, f), NEW g, Sums(d, SUBSET S, g)
    PROVE  f[S] \in Nat /\ g[S] \in Nat /\ g[S] <= f[S] + b
  <1> DEFINE Fits(P) == /\ f[P] \in Nat /\ g[P] \in Nat
                        /\ g[P] <= f[P] + (IF t \in P THEN b ELSE 0)
             Bad == {Cardinality(P) : P \in {Q \in SUBSET S : ~Fits(Q)}}
  <1>1. Bad \in SUBSET Nat
    BY FS_Subset, FS_CardinalityType
  <1>2. ASSUME NEW P \in SUBSET S,
               \A Q \in SUBSET S : ~Fits(Q) => Cardinality(P) <= Cardinality(Q)
        PROVE  Fits(P)
    <2>1. CASE P = {}
      <3>1. f[P] = 0 /\ g[P] = 0
        BY <2>1 DEF Sums
      <3> QED BY <2>1, <3>1
    <2>2. CASE P # {}
      <3> DEFINE x == Taken(P)
                 R == P \ {x}
      <3>1. f[P] = c[x] + f[R] /\ g[P] = d[x] + g[R]
        BY <2>2 DEF Sums
      <3>2. /\ x \in P /\ x \in S /\ R \in SUBSET S /\ x \notin R
            /\ Cardinality(P) \in Nat /\ Cardinality(R) = Cardinality(P) - 1
        BY <2>2, OneLess
      <3>3. t \in P <=> t = x \/ t \in R
        BY <3>2
      <3> HIDE DEF x, R
      <3>4. Fits(R)
        <4>1. ~(Cardinality(P) <= Cardinality(R))
          BY <3>2
        <4> HIDE DEF Fits
        <4> QED BY <1>2, <3>2, <4>1
      <3>5. c[x] \in Nat /\ d[x] \in Nat /\ d[x] <= c[x] + (IF x = t THEN b ELSE 0)
        BY <3>2
      <3> QED BY <3>1, <3>2, <3>3, <3>4, <3>5
    <2> QED BY <2>1, <2>2
  <1> HIDE DEF Fits
  <1>3. Bad = {}
    <2> SUFFICES ASSUME Bad # {} PROVE FALSE
      OBVIOUS
    <2>1. PICK k \in Bad : \A j \in Bad : k <= j
      <3> HIDE DEF Bad
      <3> QED BY <1>1, NatMinimum
    <2>2. PICK P \in SUBSET S : ~Fits(P) /\ Cardinality(P) = k
      BY <2>1
    <2>3. ASSUME NEW Q \in SUBSET S, ~Fits(Q)
          PROVE  Cardinality(P) <= Cardinality(Q)
      <3>1. Cardinality(Q) \in Bad
        BY <2>3
      <3> QED BY <2>1, <2>2, <3>1
    <2> QED BY <1>2, <2>2, <2>3
  <1>4. ASSUME NEW P \in SUBSET S PROVE Fits(P)
    <2>1. ~Fits(P) => Cardinality(P) \in Bad
      OBVIOUS
    <2> QED BY <1>3, <2>1
  <1>5. Fits(S)
    BY <1>4
  <1> QED BY <1>5 DEF Fits

LEMMA SumsOfZeros ==
    ASSUME NEW S, IsFiniteSet(S), NEW c, \A i \in S : c[i] = 0,
           NEW f, Sums(c, SUBSET S, f)
    PROVE  f[S] = 0
  <1> DEFINE Bad == {Cardinality(P) : P \in {Q \in SUBSET S : f[Q] # 0}}
  <1>1. Bad \in SUBSET Nat
    BY FS_Subset, FS_CardinalityType
  <1>2. Bad = {}
    <2> SUFFICES ASSUME Bad # {} PROVE FALSE
      OBVIOUS
    <2>1. PICK k \in Bad : \A j \in Bad : k <= j
      <3> HIDE DEF Bad
      <3> QED BY <1>1, NatMinimum
    <2>2. PICK P \in SUBSET S : f[P] # 0 /\ Cardinality(P) = k
      BY <2>1
    <2>3. f[P] = IF P = {} THEN 0 ELSE c[Taken(P)] + f[P \ {Taken(P)}]
      BY DEF Sums
    <2>4. P # {}
      BY <2>2, <2>3
    <2>5. /\ Taken(P) \in S
          /\ P \ {Taken(P)} \in SUBSET S
          /\ Cardinality(P) \in Nat
          /\ Cardinality(P \ {Taken(P)}) = Cardinality(P) - 1
      BY <2>4, OneLess
    <2>6. f[P \ {Taken(P)}] = 0
      <3>1. f[P \ {Taken(P)}] # 0 => Cardinality(P \ {Taken(P)}) \in Bad
        BY <2>5
      <3> HIDE DEF Bad
      <3> QED BY <2>1, <2>2, <2>5, <3>1
    <2>7. c[Taken(P)] = 0
      BY <2>5
    <2> QED BY <2>2, <2>3, <2>4, <2>6, <2>7
  <1>3. f[S] # 0 => Cardinality(S) \in Bad
    OBVIOUS
  <1> QED BY <1>2, <1>3

\* What a table charges to the user tasks.
Charges(table) == [id \in UserTasks |-> table[id].total_execution_ticks]

Charged(table) == MapThenSumSet(LAMBDA id : table[id].total_execution_ticks,
                                UserTasks)

LEMMA UserTasksFinite == IsFiniteSet(UserTasks)
  BY FS_Interval, SchedulerConstants DEF UserTasks

LEMMA ChargedSums ==
    ASSUME NEW table
    PROVE  \E f : /\ Sums(Charges(table), SUBSET UserTasks, f)
                  /\ Charged(table) = f[UserTasks]
  <1> DEFINE n == Cardinality(UserTasks)
             Sum(f) ==
               f = [P \in SUBSET UserTasks |->
                      IF P = {} THEN 0
                      ELSE table[CHOOSE x \in P : TRUE].total_execution_ticks
                             + f[P \ {CHOOSE x \in P : TRUE}]]
             chosen == CHOOSE f : Sum(f)
  <1>1. n \in Nat
    BY UserTasksFinite, FS_CardinalityType
  <1>2. UpTo(UserTasks, n) = SUBSET UserTasks
    BY UserTasksFinite, FS_Subset DEF UpTo
  <1>3. \E f : Sums(Charges(table), SUBSET UserTasks, f)
    <2>1. \E f : Sums(Charges(table), UpTo(UserTasks, n), f)
      BY <1>1, UserTasksFinite, SumsExist
    <2> HIDE DEF n
    <2> QED BY <1>2, <2>1
  <1>4. ASSUME NEW P \in SUBSET UserTasks, P # {}
        PROVE  Charges(table)[Taken(P)]
                 = table[Taken(P)].total_execution_ticks
    <2>1. Taken(P) \in UserTasks
      BY <1>4, OneLess, UserTasksFinite
    <2> QED BY <2>1 DEF Charges
  <1>5. ASSUME NEW f
        PROVE  Sum(f) <=> Sums(Charges(table), SUBSET UserTasks, f)
    <2>1. [P \in SUBSET UserTasks |->
             IF P = {} THEN 0
             ELSE table[Taken(P)].total_execution_ticks
                    + f[P \ {Taken(P)}]]
          = [P \in SUBSET UserTasks |->
               IF P = {} THEN 0
               ELSE Charges(table)[Taken(P)] + f[P \ {Taken(P)}]]
      BY <1>4
    <2> QED BY <2>1 DEF Sums, Taken
  <1>6. Charged(table) = chosen[UserTasks]
    BY DEF Charged, MapThenSumSet, MapThenFoldSet
  <1> HIDE DEF Sum
  <1>7. \E f : Sum(f)
    BY <1>3, <1>5
  <1>8. Sum(chosen)
    BY <1>7
  <1> HIDE DEF chosen
  <1> QED BY <1>5, <1>6, <1>8

\* If each task is charged no more than before, but one, so are all together.
LEMMA ChargedMore ==
    ASSUME NEW before \in [TaskIds -> SchedTask],
           NEW after \in [TaskIds -> SchedTask],
           NEW t, NEW b \in Nat,
           \A id \in UserTasks :
              after[id].total_execution_ticks
                <= before[id].total_execution_ticks + (IF id = t THEN b ELSE 0)
    PROVE  /\ Charged(before) \in Nat /\ Charged(after) \in Nat
           /\ Charged(after) <= Charged(before) + b
  <1>1. PICK f : /\ Sums(Charges(before), SUBSET UserTasks, f)
                 /\ Charged(before) = f[UserTasks]
    BY ChargedSums
  <1>2. PICK g : /\ Sums(Charges(after), SUBSET UserTasks, g)
                 /\ Charged(after) = g[UserTasks]
    BY ChargedSums
  <1>3. ASSUME NEW id \in UserTasks
        PROVE  /\ before[id].total_execution_ticks \in Nat
               /\ after[id].total_execution_ticks \in Nat
    BY IdTypes, NumberTypes DEF SchedTask
  <1>4. /\ Charges(before) \in [UserTasks -> Nat]
        /\ Charges(after) \in [UserTasks -> Nat]
        /\ \A id \in UserTasks :
              Charges(after)[id]
                <= Charges(before)[id] + (IF id = t THEN b ELSE 0)
    BY <1>3 DEF Charges
  <1>5. /\ f[UserTasks] \in Nat /\ g[UserTasks] \in Nat
        /\ g[UserTasks] <= f[UserTasks] + b
    BY <1>1, <1>2, <1>4, UserTasksFinite, SumsCompare
  <1> QED BY <1>1, <1>2, <1>5

\* Only a tick that counts charges anything, to one task.
LEMMA ChargesOfStep ==
    ASSUME KernelInv, KernelInv', [Next]_vars
    PROVE  /\ monotonic_ticks \in Nat /\ monotonic_ticks' \in Nat
           /\ monotonic_ticks <= monotonic_ticks'
           /\ \E t : \A id \in UserTasks :
                 schedules'[id].total_execution_ticks
                   <= schedules[id].total_execution_ticks
                        + (IF id = t THEN monotonic_ticks' - monotonic_ticks
                           ELSE 0)
  <1> DEFINE NoMore ==
        /\ monotonic_ticks' = monotonic_ticks
        /\ \A id \in UserTasks : schedules'[id].total_execution_ticks
                                   <= schedules[id].total_execution_ticks
  <1>1. ASSUME NEW id \in UserTasks
        PROVE  /\ schedules[id] \in SchedTask
               /\ schedules[id].total_execution_ticks \in Nat
               /\ schedules'[id].total_execution_ticks \in Nat
    BY IdTypes, NumberTypes DEF KernelInv, StructureInv, TypeOK, SchedTask
  <1>2. monotonic_ticks \in Nat
    BY TickIsNat DEF KernelInv, StructureInv
  <1>3. ASSUME NoMore
        PROVE  /\ monotonic_ticks' = monotonic_ticks
               /\ \A id \in UserTasks :
                     schedules'[id].total_execution_ticks
                       <= schedules[id].total_execution_ticks
                            + (IF id = 0
                               THEN monotonic_ticks' - monotonic_ticks ELSE 0)
    BY <1>1, <1>2, <1>3
  <1>4. ASSUME UNCHANGED <<schedules, monotonic_ticks>> PROVE NoMore
    BY <1>1, <1>4
  <1>5. ASSUME NEW config \in Configs, os_task_create(config) PROVE NoMore
    <2> DEFINE after == os_sched_task_configure(config, monotonic_ticks)
    <2>1. /\ schedules' = [schedules EXCEPT ![CreatedSlot] = after]
          /\ monotonic_ticks' = monotonic_ticks
      BY <1>5, CreateShape DEF os_task_create
    <2>2. after.total_execution_ticks = 0
      <3>1. config \in TimingConfig /\ monotonic_ticks \in Orders
            /\ ConfigureAccepts(config, monotonic_ticks)
        BY <1>5, KernelConstants
        DEF os_task_create, KernelInv, StructureInv, TypeOK
      <3> QED BY <3>1, ConfigureEffect
    <2> HIDE DEF after
    <2>3. ASSUME NEW id \in UserTasks
          PROVE  schedules'[id] = after \/ schedules'[id] = schedules[id]
      <3>1. schedules \in [TaskIds -> SchedTask]
        BY DEF KernelInv, StructureInv, TypeOK
      <3> QED BY <2>1, <3>1, IdTypes
    <2> QED BY <1>1, <2>1, <2>2, <2>3
  <1>6. ASSUME NEW reason, NEW accepted, NEW task, NEW cause,
               SystemCall(reason, accepted, task, cause),
               task.total_execution_ticks = Caller.total_execution_ticks
        PROVE  NoMore
    <2>1. /\ schedules \in [TaskIds -> SchedTask]
          /\ monotonic_ticks' = monotonic_ticks
          /\ \/ schedules' = [schedules EXCEPT ![current_task] = task]
             \/ schedules' = schedules
      BY <1>6 DEF SystemCall, KernelInv, StructureInv, TypeOK
    <2>2. ASSUME NEW id \in UserTasks
          PROVE  \/ schedules'[id] = schedules[id]
                 \/ id = current_task /\ schedules'[id] = task
      BY <2>1, IdTypes
    <2> QED BY <1>1, <1>6, <2>1, <2>2 DEF Caller
  <1>7. ASSUME SvcYield PROVE NoMore
    <2>1. SystemCall("SVC_YIELD", TRUE, [Caller EXCEPT !.state = "READY"],
                     "YIELD")
      BY <1>7 DEF SvcYield
    <2>2. Caller \in SchedTask
      BY <2>1, CallFinds
    <2>3. [Caller EXCEPT !.state = "READY"].total_execution_ticks
            = Caller.total_execution_ticks
      BY <2>2 DEF SchedTask
    <2> QED BY <1>6, <2>1, <2>3
  <1>8. ASSUME NEW sleep_ticks \in SleepTicks, SvcSleep(sleep_ticks)
        PROVE  NoMore
    <2> DEFINE task == os_sched_sleep(Caller, monotonic_ticks, sleep_ticks)
               accepted == SleepAccepts(Caller, monotonic_ticks, sleep_ticks)
    <2>1. SystemCall("TASK_SLEEP", accepted, task, "SLEEP")
      BY <1>8 DEF SvcSleep
    <2> HIDE DEF accepted
    <2>2. Caller \in SchedTask
      BY <2>1, CallFinds
    <2>3. task.total_execution_ticks = Caller.total_execution_ticks
      BY <2>2 DEF SchedTask, os_sched_sleep
    <2> HIDE DEF task
    <2> QED BY <1>6, <2>1, <2>3
  <1>9. ASSUME SvcExit PROVE NoMore
    <2> DEFINE task == [os_sched_complete_job(Caller, monotonic_ticks)
                          EXCEPT !.state = "EXITING"]
    <2>1. SystemCall("EXIT_COMPLETE", CompleteAccepts(Caller), task, "EXIT")
      BY <1>9 DEF SvcExit
    <2>2. task.total_execution_ticks = Caller.total_execution_ticks
      BY <2>1, EndEffect DEF Ended
    <2> HIDE DEF task
    <2> QED BY <1>6, <2>1, <2>2
  <1>10. ASSUME SvcWaitNextPeriod PROVE NoMore
    <2> DEFINE task == [os_sched_complete_job(Caller, monotonic_ticks)
                          EXCEPT !.state = "WAITING_RELEASE"]
    <2>1. SystemCall("SVC_PERIOD", CompleteAccepts(Caller), task,
                     "WAIT_PERIOD")
      BY <1>10 DEF SvcWaitNextPeriod, os_sched_wait_next_period
    <2>2. task.total_execution_ticks = Caller.total_execution_ticks
      BY <2>1, EndEffect DEF Ended
    <2> HIDE DEF task
    <2> QED BY <1>6, <2>1, <2>2
  <1>11. ASSUME os_pendsv_switch PROVE NoMore
    <2>1. monotonic_ticks' = monotonic_ticks
      BY <1>11 DEF os_pendsv_switch
    <2>2. ASSUME NEW id \in UserTasks
          PROVE  schedules'[id].total_execution_ticks
                   <= schedules[id].total_execution_ticks
      <3>1. CASE schedules'[id].state = "DORMANT"
        <4>1. StructureInv'
          BY DEF KernelInv
        <4>2. StructureInv' => schedules'[id].total_execution_ticks = 0
          BY <3>1 DEF StructureInv, SlotsConsistent, OccupantInv
        <4> QED BY <1>1, <4>1, <4>2
      <3>2. CASE schedules'[id].state # "DORMANT"
        BY <1>1, <1>11, <3>2, SwitchTask
      <3> QED BY <3>1, <3>2
    <2> QED BY <2>1, <2>2
  <1>12. ASSUME SysTick, monotonic_ticks' # monotonic_ticks
         PROVE  /\ monotonic_ticks' = monotonic_ticks + 1
                /\ \A id \in UserTasks :
                      schedules'[id].total_execution_ticks
                        <= schedules[id].total_execution_ticks
                             + (IF id = current_task
                                THEN monotonic_ticks' - monotonic_ticks
                                ELSE 0)
    <2>1. /\ monotonic_ticks' = monotonic_ticks + 1
          /\ monotonic_ticks' - monotonic_ticks = 1
      BY <1>2, <1>12, TickShape
    <2>2. ASSUME NEW id \in UserTasks
          PROVE  /\ schedules'[id].total_execution_ticks
                      <= schedules[id].total_execution_ticks + 1
                 /\ id # current_task =>
                      schedules'[id].total_execution_ticks
                        = schedules[id].total_execution_ticks
      <3>1. schedules[id].state = "RUNNING" => id = current_task
        BY IdTypes DEF KernelInv, StructureInv, SwitchPromised
      <3> QED BY <1>12, <3>1, TickStates
    <2> QED BY <1>1, <2>1, <2>2
  <1>13. ASSUME SysTick, monotonic_ticks' = monotonic_ticks PROVE NoMore
    <2>1. monotonic_ticks = UINT64_MAX
      <3>1. monotonic_ticks # UINT64_MAX
              => monotonic_ticks' = monotonic_ticks + 1
        BY <1>13 DEF SysTick
      <3> QED BY <1>2, <1>13, <3>1
    <2>2. schedules' = schedules
      BY <1>13, <2>1 DEF SysTick
    <2> QED BY <1>4, <1>13, <2>2
  <1>14. ASSUME \/ DisableInterrupts \/ EnableInterrupts
                \/ os_memory_alloc \/ os_memory_free
                \/ os_kernel_start \/ SvcStart \/ PendsvEnter \/ PendsvReturn
                \/ Halted \/ UNCHANGED vars
         PROVE  NoMore
    <2>1. UNCHANGED <<schedules, monotonic_ticks>>
      BY <1>14
      DEF DisableInterrupts, EnableInterrupts, os_memory_alloc,
          os_memory_free, os_kernel_start, SvcStart, PendsvEnter,
          PendsvReturn, Halted, vars
    <2> QED BY <1>4, <2>1
  <1> DEFINE Some(t) ==
        \A id \in UserTasks :
           schedules'[id].total_execution_ticks
             <= schedules[id].total_execution_ticks
                  + (IF id = t THEN monotonic_ticks' - monotonic_ticks ELSE 0)
  <1>15. NoMore => monotonic_ticks' = monotonic_ticks /\ Some(0)
    BY <1>3
  <1>16. SysTick /\ monotonic_ticks' # monotonic_ticks
           => monotonic_ticks' = monotonic_ticks + 1 /\ Some(current_task)
    BY <1>12
  <1> HIDE DEF NoMore, Some
  <1>17. NoMore \/ (SysTick /\ monotonic_ticks' # monotonic_ticks)
    BY <1>5, <1>7, <1>8, <1>9, <1>10, <1>11, <1>13, <1>14 DEF Next
  <1>18. /\ monotonic_ticks' \in Nat /\ monotonic_ticks <= monotonic_ticks'
         /\ \E t : Some(t)
    BY <1>2, <1>15, <1>16, <1>17
  <1> QED BY <1>2, <1>18 DEF Some

\* Each tick of the clock is charged to at most one task, across preemption,
\* exit and the reuse of a slot (os_sched_account_running_tick): the charges
\* of all slots together never exceed the time.
THEOREM TicksSafe == Spec => []TicksChargedOnce
  <1>1. TicksChargedOnce <=> Charged(schedules) <= monotonic_ticks
    BY DEF TicksChargedOnce, Charged, MapThenSumSet, MapThenFoldSet
  <1>2. TicksChargedOnce' <=> Charged(schedules') <= monotonic_ticks'
    BY DEF TicksChargedOnce, Charged, MapThenSumSet, MapThenFoldSet
  <1>3. Init => TicksChargedOnce
    <2> SUFFICES ASSUME Init PROVE Charged(schedules) <= monotonic_ticks
      BY <1>1
    <2>1. PICK f : /\ Sums(Charges(schedules), SUBSET UserTasks, f)
                   /\ Charged(schedules) = f[UserTasks]
      BY ChargedSums
    <2>2. \A id \in UserTasks : Charges(schedules)[id] = 0
      BY IdTypes DEF Charges, Init, ResetTask
    <2>3. Charged(schedules) = 0
      BY <2>1, <2>2, UserTasksFinite, SumsOfZeros
    <2> QED BY <2>3 DEF Init
  <1>4. KernelInv /\ KernelInv' /\ TicksChargedOnce /\ [Next]_vars
          => TicksChargedOnce'
    <2> SUFFICES ASSUME KernelInv, KernelInv', [Next]_vars,
                        Charged(schedules) <= monotonic_ticks
                 PROVE  Charged(schedules') <= monotonic_ticks'
      BY <1>1, <1>2
    <2> DEFINE passed == monotonic_ticks' - monotonic_ticks
    <2>1. /\ monotonic_ticks \in Nat /\ monotonic_ticks' \in Nat
          /\ passed \in Nat
      BY ChargesOfStep
    <2>2. PICK t : \A id \in UserTasks :
                      schedules'[id].total_execution_ticks
                        <= schedules[id].total_execution_ticks
                             + (IF id = t THEN passed ELSE 0)
      BY ChargesOfStep
    <2>3. /\ schedules \in [TaskIds -> SchedTask]
          /\ schedules' \in [TaskIds -> SchedTask]
      BY DEF KernelInv, StructureInv, TypeOK
    <2> HIDE DEF passed
    <2>4. /\ Charged(schedules) \in Nat /\ Charged(schedules') \in Nat
          /\ Charged(schedules') <= Charged(schedules) + passed
      BY <2>1, <2>2, <2>3, ChargedMore
    <2> QED BY <2>1, <2>4 DEF passed
  <1> QED BY <1>3, <1>4, KernelSafe, PTL DEF Spec
=============================================================================
