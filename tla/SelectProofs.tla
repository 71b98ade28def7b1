----------------------------- MODULE SelectProofs -----------------------------
(***************************************************************************)
(* The scan of os_sched_select finds, for any number of tasks and whatever *)
(* the table holds, the task the kernel model selects.                     *)
(***************************************************************************)
EXTENDS SchedulerSelect, SchedulerProofs

SelectInv == TypeOK /\ BestSoFar /\ ScanIsSelect

\* The documented key and the comparison in os_sched_outranks are one order.
LEMMA LexIsPrecedes ==
    ASSUME NEW c, NEW d
    PROVE  LexLess(c, d) <=> PrecedesKey(table, c, d)
  <1> DEFINE key(t) == <<table[t].absolute_deadline_order, table[t].priority,
                         t>>
             less(k) == /\ key(c)[k] < key(d)[k]
                        /\ \A j \in 1 .. k - 1 : key(c)[j] = key(d)[j]
  <1>1. LexLess(c, d) <=> less(1) \/ less(2) \/ less(3)
    <2>1. LexLess(c, d) <=> \E k \in 1 .. 3 : less(k)
      BY DEF LexLess
    <2>2. 1 .. 3 = {1, 2, 3}
      OBVIOUS
    <2> HIDE DEF less
    <2> QED BY <2>1, <2>2
  <1>2. \A t : /\ key(t)[1] = table[t].absolute_deadline_order
               /\ key(t)[2] = table[t].priority
               /\ key(t)[3] = t
    OBVIOUS
  <1>3. 1 .. 1 - 1 = {} /\ 1 .. 2 - 1 = {1} /\ 1 .. 3 - 1 = {1, 2}
    OBVIOUS
  <1> HIDE DEF key
  <1> QED BY <1>1, <1>2, <1>3 DEF PrecedesKey

\* Between two ready user tasks os_sched_outranks is the order of their keys.
LEMMA OutranksIsPrecedes ==
    ASSUME NEW ts, NEW c \in UserTasks, NEW d \in UserTasks,
           IsReady(ts[c]), IsReady(ts[d])
    PROVE  os_sched_outranks(ts, c, d) <=> PrecedesKey(ts, c, d)
  BY SchedulerConstants
  DEF os_sched_outranks, IsReady, UserTasks, OS_TASK_ID_IDLE

\* Of two different tasks one precedes the other.
LEMMA PrecedesTotal ==
    ASSUME NEW ts \in [TaskIds -> SchedTask],
           NEW a \in TaskIds, NEW b \in TaskIds, a # b
    PROVE  PrecedesKey(ts, a, b) \/ PrecedesKey(ts, b, a)
  BY KeyTypes DEF PrecedesKey

\* Before the first look the scan has found nothing yet.
LEMMA InitSelect == Init => SelectInv
  <1> SUFFICES ASSUME Init PROVE SelectInv
    OBVIOUS
  <1>1. TypeOK
    BY SchedulerConstants, TablesAssumption
    DEF Init, TypeOK, TaskIdsOrInvalid
  <1>2. ScannedReady = {}
    BY DEF Init, ScannedReady, UserTasks
  <1> QED
    BY <1>1, <1>2, SchedulerConstants
    DEF Init, SelectInv, BestSoFar, ScanIsSelect

\* A turn of the loop keeps best the least of the ready tasks passed.
LEMMA ScanStep == SelectInv /\ ScanTask => SelectInv'
  <1> SUFFICES ASSUME SelectInv, ScanTask PROVE SelectInv'
    OBVIOUS
  <1>1. /\ table \in [TaskIds -> SchedTask]
        /\ index \in UserTasks /\ index' = index + 1
        /\ UNCHANGED <<table, excluded>>
        /\ best' = IF ~Skipped /\ ReplacesBest THEN index ELSE best
    BY DEF SelectInv, TypeOK, ScanTask
  <1>2. /\ UserTasks \subseteq TaskIds /\ UserTasks \subseteq Nat
        /\ OS_TASK_ID_INVALID \notin UserTasks
        /\ index \in Nat /\ OS_MAX_USER_TASKS \in Nat
        /\ index <= OS_MAX_USER_TASKS /\ index <= OS_MAX_USER_TASKS + 1
    BY <1>1, SchedulerConstants DEF UserTasks, TaskIds, OS_TASK_ID_INVALID
  <1>3. TypeOK'
    BY <1>1, <1>2
    DEF SelectInv, TypeOK, UserTasks, TaskIds, TaskIdsOrInvalid
  <1>4. ScanIsSelect'
    BY <1>1, <1>2 DEF ScanIsSelect
  <1>5. IF ScannedReady = {} THEN best = OS_TASK_ID_INVALID
        ELSE /\ best \in ScannedReady
             /\ \A c \in ScannedReady \ {best} : PrecedesKey(table, best, c)
    BY <1>1, <1>2, LexIsPrecedes DEF SelectInv, BestSoFar
  <1>6. ScannedReady' = IF Skipped THEN ScannedReady
                        ELSE ScannedReady \cup {index}
    <2>1. \A c \in UserTasks : c < index' <=> c < index \/ c = index
      BY <1>1, <1>2
    <2> QED BY <1>1, <2>1 DEF ScannedReady, Skipped
  <1>7. /\ index \notin ScannedReady
        /\ \A c \in ScannedReady : c \in UserTasks /\ IsReady(table[c])
    BY <1>2 DEF ScannedReady
  <1>8. IF ScannedReady' = {} THEN best' = OS_TASK_ID_INVALID
        ELSE /\ best' \in ScannedReady'
             /\ \A c \in ScannedReady' \ {best'} : PrecedesKey(table, best', c)
    <2>1. CASE Skipped
      BY <1>1, <1>5, <1>6, <2>1
    <2>2. CASE ~Skipped /\ ScannedReady = {}
      BY <1>1, <1>5, <1>6, <2>2 DEF ReplacesBest
    <2>3. CASE ~Skipped /\ ScannedReady # {}
      <3>1. /\ best \in UserTasks /\ IsReady(table[best])
            /\ best # OS_TASK_ID_INVALID /\ best # index
        BY <1>2, <1>5, <1>7, <2>3
      <3>2. IsReady(table[index])
        BY <2>3 DEF Skipped
      <3>3. ReplacesBest <=> PrecedesKey(table, index, best)
        BY <1>1, <3>1, <3>2, OutranksIsPrecedes DEF ReplacesBest
      <3>4. CASE ReplacesBest
        <4>1. \A c \in ScannedReady : PrecedesKey(table, index, c)
          BY <1>1, <1>2, <1>5, <1>7, <2>3, <3>1, <3>3, <3>4,
             PrecedesTransitive
        <4> QED BY <1>1, <1>6, <2>3, <3>4, <4>1
      <3>5. CASE ~ReplacesBest
        <4>1. PrecedesKey(table, best, index)
          BY <1>1, <1>2, <3>1, <3>3, <3>5, PrecedesTotal
        <4> QED BY <1>1, <1>5, <1>6, <2>3, <3>5, <4>1
      <3> QED BY <3>4, <3>5
    <2> QED BY <2>1, <2>2, <2>3
  <1>9. \A c : LexLess(best, c)' <=> PrecedesKey(table, best', c)
    <2>1. \A c : LexLess(best, c)' <=> LexLess(best', c)
      BY <1>1 DEF LexLess
    <2> QED BY <2>1, LexIsPrecedes
  <1>10. BestSoFar'
    BY <1>8, <1>9 DEF BestSoFar
  <1> QED BY <1>3, <1>4, <1>10 DEF SelectInv

\* After the loop best, or the fallback, is what the definition chooses.
LEMMA FallBackStep == SelectInv /\ FallBack => SelectInv'
  <1> SUFFICES ASSUME SelectInv, FallBack PROVE SelectInv'
    OBVIOUS
  <1> DEFINE C == Candidates(table, excluded)
             least == {c \in C : \A d \in C \ {c} :
                                    os_sched_outranks(table, c, d)}
  <1>1. /\ table \in [TaskIds -> SchedTask]
        /\ excluded \in TaskIdsOrInvalid
        /\ index = OS_MAX_USER_TASKS + 1 /\ index' = OS_MAX_USER_TASKS + 2
        /\ OS_MAX_USER_TASKS \in Nat
        /\ UNCHANGED <<table, excluded>>
    BY SchedulerConstants DEF SelectInv, TypeOK, FallBack
  <1>2. /\ UserTasks \subseteq TaskIds /\ UserTasks \subseteq Nat
        /\ OS_TASK_ID_INVALID \notin UserTasks
        /\ OS_TASK_ID_IDLE \in TaskIds
        /\ OS_TASK_ID_IDLE # OS_TASK_ID_INVALID
    BY SchedulerConstants
    DEF UserTasks, TaskIds, OS_TASK_ID_INVALID, OS_TASK_ID_IDLE
  <1>3. ScannedReady = C
    BY <1>1 DEF ScannedReady, Candidates, ReadyUserTasks, UserTasks
  <1>4. \A c \in C : c \in UserTasks /\ IsReady(table[c])
    BY DEF Candidates, ReadyUserTasks
  <1>5. IF C = {} THEN best = OS_TASK_ID_INVALID
        ELSE /\ best \in C
             /\ \A c \in C \ {best} : PrecedesKey(table, best, c)
    BY <1>1, <1>3, LexIsPrecedes DEF SelectInv, BestSoFar
  <1> HIDE DEF C
  <1>6. best' = os_sched_select(table, excluded)
    <2>1. CASE C # {}
      <3>1. best \in least
        BY <1>4, <1>5, <2>1, OutranksIsPrecedes
      <3>2. ASSUME NEW c \in least PROVE c = best
        <4> SUFFICES ASSUME c # best PROVE FALSE
          OBVIOUS
        <4>1. os_sched_outranks(table, c, best)
          BY <3>1
        <4>2. PrecedesKey(table, c, best)
          BY <1>4, <1>5, <2>1, <4>1, OutranksIsPrecedes
        <4>3. PrecedesKey(table, best, c)
          BY <1>5, <2>1
        <4> QED BY <1>1, <1>2, <1>4, <4>2, <4>3, <3>1, PrecedesAsymmetric
      <3>3. least = {best}
        BY <3>1, <3>2
      <3>4. os_sched_select(table, excluded) = best
        <4> HIDE DEF least
        <4>1. (CHOOSE c \in least : TRUE) = best
          BY <3>3
        <4>2. least = {c \in Candidates(table, excluded) :
                         \A d \in Candidates(table, excluded) \ {c} :
                            os_sched_outranks(table, c, d)}
          BY DEF least, C
        <4> QED BY <3>3, <4>1, <4>2 DEF os_sched_select
      <3>5. best # OS_TASK_ID_INVALID
        BY <1>2, <1>4, <1>5, <2>1
      <3> QED BY <3>4, <3>5 DEF FallBack
    <2>2. CASE C = {}
      <3>1. best' = IF excluded \in ReadyUserTasks(table) THEN excluded
                    ELSE IF table[OS_TASK_ID_IDLE].state = "READY"
                    THEN OS_TASK_ID_IDLE ELSE OS_TASK_ID_INVALID
        BY <1>5, <2>2 DEF FallBack, ReadyUserTasks
      <3>2. os_sched_select(table, excluded)
              = IF excluded \in ReadyUserTasks(table) THEN excluded
                ELSE IF table[OS_TASK_ID_IDLE].state = "READY"
                THEN OS_TASK_ID_IDLE ELSE OS_TASK_ID_INVALID
        BY <2>2 DEF os_sched_select, C
      <3> QED BY <3>1, <3>2
    <2> QED BY <2>1, <2>2
  <1>7. best' \in TaskIdsOrInvalid
    BY <1>1, <1>2
    DEF SelectInv, TypeOK, FallBack, TaskIdsOrInvalid
  <1>8. TypeOK'
    BY <1>1, <1>7 DEF TypeOK
  <1>9. BestSoFar' /\ ScanIsSelect'
    BY <1>1, <1>6 DEF BestSoFar, ScanIsSelect
  <1> QED BY <1>8, <1>9 DEF SelectInv

\* The invariant of the scan.
THEOREM SelectSafe == Spec => []SelectInv
  <1>1. Init => SelectInv
    BY InitSelect
  <1>2. SelectInv /\ [Next]_vars => SelectInv'
    <2>1. SelectInv /\ UNCHANGED vars => SelectInv'
      BY DEF SelectInv, TypeOK, BestSoFar, ScanIsSelect, ScannedReady,
             LexLess, vars
    <2> QED BY <2>1, ScanStep, FallBackStep DEF Next, Returned
  <1> QED BY <1>1, <1>2, PTL DEF Spec

\* At each turn best is the ready task with the least key among those passed.
THEOREM BestSoFarSafe == Spec => []BestSoFar
  <1>1. SelectInv => BestSoFar
    BY DEF SelectInv
  <1> QED BY <1>1, SelectSafe, PTL

\* What the scan returns is what the kernel model selects.
THEOREM ScanImplementsSelect == Spec => []ScanIsSelect
  <1>1. SelectInv => ScanIsSelect
    BY DEF SelectInv
  <1> QED BY <1>1, SelectSafe, PTL
=============================================================================
