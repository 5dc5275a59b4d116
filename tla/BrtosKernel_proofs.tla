------------------------- MODULE BrtosKernel_proofs -------------------------
(***************************************************************************)
(* Proofs about BrtosKernel, for any number of tasks, any priorities and   *)
(* any wrap of the tick counter.                                           *)
(***************************************************************************)
EXTENDS BrtosKernel, WellFoundedInduction, TLAPS

-----------------------------------------------------------------------------
\* The scheduler.

\* A non-empty set of numbers with a bound has a greatest element.
LEMMA Greatest ==
    ASSUME NEW n \in Nat, NEW S, S \subseteq 0 .. n, S # {}
    PROVE  \E p \in S : \A q \in S : q <= p
<1> DEFINE Less == OpToRel(<, Nat)
           T    == {n - p : p \in S}
<1>1. T \subseteq Nat /\ T # {}
  <2>1. \A p \in S : p \in Nat /\ n - p \in Nat
    OBVIOUS
  <2>2. PICK p \in S : TRUE
    OBVIOUS
  <2>3. n - p \in T
    OBVIOUS
  <2>4. T \subseteq Nat
    BY <2>1
  <2> QED  BY <2>3, <2>4
<1>2. \E x \in T : \A y \in T : ~ (<<y, x>> \in Less)
  <2> HIDE DEF T, Less
  <2> QED  BY <1>1, NatLessThanWellFounded, WFMin DEF Less
<1>3. PICK x \in T : \A y \in T : ~ (<<y, x>> \in Less)
  BY <1>2
<1>4. PICK p \in S : x = n - p
  OBVIOUS
<1>5. ASSUME NEW q \in S PROVE q <= p
  <2>1. n - q \in T /\ n - q \in Nat /\ x \in Nat
    BY <1>1
  <2>2. ~ (n - q < x)
    BY <1>3, <2>1 DEF OpToRel
  <2> QED  BY <1>4, <2>2
<1> QED  BY <1>5

\* SAScheduler returns the highest priority of a list that is not empty.
LEMMA SchedulerGreatest ==
    ASSUME NEW S \in SUBSET Prio, S # {}
    PROVE  SAScheduler(S) \in S /\ \A q \in S : q <= SAScheduler(S)
<1>1. \E p \in S : \A q \in S : q <= p
  BY Greatest, TaskAssumption DEF Prio
<1> QED  BY <1>1 DEF SAScheduler

\* Taking other priorities out of a list does not change what is selected.
LEMMA SchedulerSame ==
    ASSUME NEW S \in SUBSET Prio, NEW T \in SUBSET S, SAScheduler(S) \in T
    PROVE  SAScheduler(T) = SAScheduler(S)
<1>1. \A q \in T : q <= SAScheduler(S)
  BY SchedulerGreatest
<1>2. SAScheduler(T) \in T /\ SAScheduler(S) <= SAScheduler(T)
  BY SchedulerGreatest
<1>3. SAScheduler(T) \in Nat /\ SAScheduler(S) \in Nat
  <2>1. SAScheduler(T) \in Prio /\ SAScheduler(S) \in Prio
    BY <1>2
  <2>2. Prio \subseteq Nat
    BY TaskAssumption DEF Prio
  <2> QED  BY <2>1, <2>2
<1> QED  BY <1>1, <1>2, <1>3

\* The priorities some task, or the idle task, is installed with.
UsedPrio == {0} \cup {InstalledPriority[t] : t \in Task}

LEMMA UsedIsPrio == UsedPrio \subseteq Prio
BY TaskAssumption DEF UsedPrio, Prio

\* The scheduler selects the task whose ready priority is the highest.
LEMMA Selection ==
    ASSUME NEW vector, vector[0] = IdleTask,
           \A t \in Task : vector[InstalledPriority[t]] = t,
           NEW S \in SUBSET UsedPrio
    PROVE  LET c == vector[SAScheduler(S)] IN
           /\ c \in Task \cup {IdleTask}
           /\ c \in Task => InstalledPriority[c] = SAScheduler(S) /\ SAScheduler(S) \in S
           /\ \A t \in Task : InstalledPriority[t] \in S =>
                c \in Task /\ InstalledPriority[t] <= InstalledPriority[c]
<1>1. IdleTask \notin Task
  BY TaskAssumption DEF IdleTask, Task
<1>2. \A t \in Task : InstalledPriority[t] \in Nat /\ InstalledPriority[t] > 0
  BY TaskAssumption
<1>3. CASE S = {}
  BY <1>1, <1>3 DEF SAScheduler
<1>4. CASE S # {}
  <2>1. SAScheduler(S) \in S /\ \A q \in S : q <= SAScheduler(S)
    BY <1>4, SchedulerGreatest, UsedIsPrio
  <2>2. CASE SAScheduler(S) = 0
    BY <1>1, <1>2, <2>1, <2>2
  <2>3. CASE SAScheduler(S) # 0
    <3>1. PICK t \in Task : SAScheduler(S) = InstalledPriority[t]
      BY <2>1, <2>3 DEF UsedPrio
    <3> QED  BY <2>1, <3>1
  <2> QED  BY <2>2, <2>3
<1> QED  BY <1>3, <1>4

-----------------------------------------------------------------------------
\* Type correctness and scheduling.

\* The kernel alone changes no priority: every task is found at the one it was
\* installed with, and only installed priorities are ever ready.
Installed ==
    /\ Priority = InstalledPriority
    /\ PriorityVector[0] = IdleTask
    /\ \A t \in Task : PriorityVector[InstalledPriority[t]] = t
    /\ OSReadyList \subseteq UsedPrio

\* Outside interrupts the task that the scheduler would select is running.
Scheduled == iNesting = 0 => currentTask = OSSchedule

SchedInv == TypeOK /\ Installed /\ Scheduled

LEMMA SchedInit == Init => SchedInv
<1> SUFFICES ASSUME Init PROVE SchedInv
  OBVIOUS
<1> USE DEF Init
<1>1. PriorityVector[0] = IdleTask
  BY TaskAssumption DEF InstalledVector, Prio
<1>2. ASSUME NEW t \in Task PROVE PriorityVector[InstalledPriority[t]] = t
  <2>1. InstalledPriority[t] \in Prio /\ InstalledPriority[t] # 0
    BY TaskAssumption DEF Prio
  <2>2. (CHOOSE u \in Task : InstalledPriority[u] = InstalledPriority[t]) = t
    BY TaskAssumption
  <2> QED  BY <2>1, <2>2 DEF InstalledVector
<1>3. OSReadyList = UsedPrio /\ OSReadyList \subseteq Prio
  BY UsedIsPrio DEF UsedPrio
<1>4. currentTask \in Task \cup {IdleTask}
  <2>1. OSReadyList \cap OSBlockedList \in SUBSET UsedPrio
    BY <1>3
  <2> QED  BY <1>1, <1>2, <2>1, Selection DEF OSSchedule
<1>5. PriorityVector \in [Prio -> Task \cup {IdleTask, MUTEX_PRIO, EMPTY_PRIO}]
  <2>1. ASSUME NEW p \in Prio
        PROVE  InstalledVector[p] \in Task \cup {IdleTask, MUTEX_PRIO, EMPTY_PRIO}
    <3>1. CASE \E t \in Task : InstalledPriority[t] = p
      <4>1. (CHOOSE t \in Task : InstalledPriority[t] = p) \in Task
        BY <3>1
      <4> QED  BY <4>1 DEF InstalledVector
    <3>2. CASE ~ \E t \in Task : InstalledPriority[t] = p
      BY <3>2 DEF InstalledVector
    <3> QED  BY <3>1, <3>2
  <2> QED  BY <2>1 DEF InstalledVector
<1>6. TypeOK
  BY <1>3, <1>4, <1>5, TaskAssumption, TimeAssumption DEF TypeOK
<1> QED  BY <1>1, <1>2, <1>3, <1>6 DEF SchedInv, Installed, Scheduled

\* The part of the invariant that concerns who runs, from what the step keeps.
LEMMA Rescheduled ==
    ASSUME Installed, UNCHANGED prios, OSReadyList' \subseteq UsedPrio,
           currentTask' = OSSchedule'
    PROVE  currentTask' \in Task \cup {IdleTask} /\ Installed' /\ Scheduled'
<1>1. Installed'
  BY DEF Installed, prios
<1>2. (OSReadyList \cap OSBlockedList)' \in SUBSET UsedPrio
  OBVIOUS
<1>3. OSSchedule' \in Task \cup {IdleTask}
  BY <1>1, <1>2, Selection DEF OSSchedule, Installed
<1> QED  BY <1>1, <1>3 DEF Scheduled

\* A list that loses priorities other than the running task's keeps it running.
LEMMA StillScheduled ==
    ASSUME SchedInv, iNesting = 0, currentTask \in Task,
           UNCHANGED <<prios, OSReadyList, currentTask, iNesting>>,
           OSBlockedList' \subseteq OSBlockedList,
           InstalledPriority[currentTask] \in OSBlockedList
              => InstalledPriority[currentTask] \in OSBlockedList'
    PROVE  currentTask' \in Task \cup {IdleTask} /\ Installed' /\ Scheduled'
<1> DEFINE S == OSReadyList \cap OSBlockedList
           T == OSReadyList \cap OSBlockedList'
<1>1. S \in SUBSET UsedPrio /\ S \in SUBSET Prio /\ T \in SUBSET S
  BY UsedIsPrio DEF SchedInv, Installed
<1>2. currentTask = PriorityVector[SAScheduler(S)]
  BY DEF SchedInv, Scheduled, OSSchedule
<1>3. InstalledPriority[currentTask] = SAScheduler(S) /\ SAScheduler(S) \in S
  <2> HIDE DEF S
  <2> QED  BY <1>1, <1>2, Selection DEF SchedInv, Installed
<1>4. SAScheduler(S) \in T
  BY <1>3
<1>5. SAScheduler(T) = SAScheduler(S)
  <2> HIDE DEF S, T
  <2> QED  BY <1>1, <1>4, SchedulerSame
<1>6. OSSchedule' = currentTask'
  BY <1>2, <1>5 DEF OSSchedule, prios
<1>7. Installed'
  BY DEF SchedInv, Installed, prios
<1> QED  BY <1>6, <1>7 DEF Scheduled

\* Every step of the kernel keeps the scheduling invariant.
LEMMA SchedStep == SchedInv /\ [Next]_kvars => SchedInv'
<1> SUFFICES ASSUME SchedInv, [Next]_kvars PROVE SchedInv'
  OBVIOUS
<1> USE TaskAssumption, TimeAssumption
<1>0. \A t \in Task : Priority[t] \in UsedPrio /\ Priority[t] \in Prio
  BY UsedIsPrio DEF SchedInv, Installed, UsedPrio
<1>1. ASSUME NEW w \in 1 .. MaxWait, DelayTask(w) PROVE SchedInv'
  <2>1. OSReadyList' \subseteq UsedPrio /\ UNCHANGED prios
    BY <1>1 DEF DelayTask, SchedInv, Installed
  <2>2. Deadline(w) \in Nat
    BY DEF Deadline, SchedInv, TypeOK
  <2>3. TypeOK' \/ ~ (currentTask' \in Task \cup {IdleTask})
    BY <1>1, <2>2 DEF DelayTask, InTask, StartWait, SchedInv, TypeOK, prios
  <2> QED  BY <1>1, <2>1, <2>3, Rescheduled DEF DelayTask, ChangeContext, SchedInv
<1>2. ASSUME NEW t \in Task, DelayReturn(t) PROVE SchedInv'
  BY <1>2 DEF DelayReturn, SchedInv, TypeOK, Installed, Scheduled, OSSchedule,
              lists, prios, timing
<1>3. CASE TickTimer
  <2> USE <1>3 DEF TickTimer, OS_TICK_HANDLER
  <2>1. OSReadyList' \subseteq UsedPrio /\ OSReadyList' \subseteq Prio
    BY <1>0, UsedIsPrio DEF Expired, SchedInv, Installed, TypeOK
  <2>2. OSTickCounter' \in 0 .. TICK_COUNT_OVERFLOW - 1
    BY DEF OSIncCounter, SchedInv, TypeOK
  <2>3. TimeToWait' \in [Task -> Nat] /\ remaining' \in [Task -> Nat]
    BY DEF SchedInv, TypeOK
  <2>4. TypeOK' \/ ~ (currentTask' \in Task \cup {IdleTask})
    BY <2>1, <2>2, <2>3 DEF SchedInv, TypeOK, prios
  <2>5. CASE iNesting' = 0
    BY <2>1, <2>4, <2>5, Rescheduled DEF IntExit, ChangeContext, SchedInv
  <2>6. CASE iNesting' # 0
    BY <2>1, <2>4, <2>6 DEF IntExit, SchedInv, TypeOK, Installed, Scheduled, prios
  <2> QED  BY <2>5, <2>6
<1>4. CASE IsrEnter
  BY <1>4 DEF IsrEnter, SchedInv, TypeOK, Installed, Scheduled, lists, prios, timing
<1>5. CASE IsrExit
  <2> USE <1>5 DEF IsrExit
  <2>1. OSReadyList' \subseteq UsedPrio
    BY DEF SchedInv, Installed, lists
  <2>2. TypeOK' \/ ~ (currentTask' \in Task \cup {IdleTask})
    BY DEF SchedInv, TypeOK, lists, prios, timing
  <2>3. CASE iNesting' = 0
    BY <2>1, <2>2, <2>3, Rescheduled DEF IntExit, ChangeContext, SchedInv
  <2>4. CASE iNesting' # 0
    BY <2>1, <2>2, <2>4 DEF IntExit, SchedInv, TypeOK, Installed, Scheduled, prios
  <2> QED  BY <2>3, <2>4
<1>6. ASSUME NEW p \in Prio, BlockPriority(p) PROVE SchedInv'
  <2> USE <1>6 DEF BlockPriority
  <2>1. TypeOK' \/ ~ (currentTask' \in Task \cup {IdleTask})
    BY DEF SchedInv, TypeOK, prios, timing
  <2>2. CASE currentTask = PriorityVector[p]
    BY <2>1, <2>2, Rescheduled DEF ChangeContext, SchedInv, Installed
  <2>3. CASE currentTask # PriorityVector[p]
    <3>1. InstalledPriority[currentTask] # p
      BY <2>3 DEF InTask, SchedInv, Installed
    <3> QED  BY <2>1, <2>3, <3>1, StillScheduled DEF InTask, SchedInv
  <2> QED  BY <2>2, <2>3
<1>7. ASSUME NEW p \in Prio, UnBlockPriority(p) PROVE SchedInv'
  <2> USE <1>7 DEF UnBlockPriority
  <2>1. TypeOK' \/ ~ (currentTask' \in Task \cup {IdleTask})
    BY DEF SchedInv, TypeOK, prios, timing
  <2>2. CASE iNesting = 0
    BY <2>1, <2>2, Rescheduled DEF Reschedule, ChangeContext, SchedInv, Installed
  <2>3. CASE iNesting # 0
    BY <2>1, <2>3 DEF Reschedule, SchedInv, TypeOK, Installed, Scheduled, prios
  <2> QED  BY <2>2, <2>3
<1>8. ASSUME NEW t \in Task, BlockTask(t) PROVE SchedInv'
  <2> USE <1>8 DEF BlockTask
  <2>1. TypeOK' \/ ~ (currentTask' \in Task \cup {IdleTask})
    BY DEF SchedInv, TypeOK, prios, timing
  <2>2. CASE currentTask = t
    BY <2>1, <2>2, Rescheduled DEF ChangeContext, SchedInv, Installed
  <2>3. CASE currentTask # t
    <3>1. InstalledPriority[currentTask] # Priority[t]
      BY <2>3 DEF InTask, SchedInv, Installed
    <3> QED  BY <2>1, <2>3, <3>1, StillScheduled DEF InTask, SchedInv
  <2> QED  BY <2>2, <2>3
<1>9. ASSUME NEW t \in Task, UnBlockTask(t) PROVE SchedInv'
  BY <1>0, <1>7, <1>9 DEF UnBlockTask
<1>10. ASSUME NEW first \in Task, NEW last \in Task \cup {IdleTask},
              BlockMultipleTask(first, last)
       PROVE  SchedInv'
  <2> USE <1>10 DEF BlockMultipleTask
  <2>1. TypeOK'
    BY DEF SchedInv, TypeOK, prios, timing
  <2>2. InstalledPriority[currentTask] \notin {Priority[t] : t \in OtherTasks(first, last)}
    BY DEF InTask, OtherTasks, SchedInv, Installed
  <2> QED  BY <2>1, <2>2, StillScheduled DEF InTask, SchedInv
<1>11. ASSUME NEW first \in Task, NEW last \in Task \cup {IdleTask},
              UnBlockMultipleTask(first, last)
       PROVE  SchedInv'
  <2> USE <1>11 DEF UnBlockMultipleTask
  <2>1. OSBlockedList' \subseteq Prio
    BY <1>0 DEF OtherTasks, SchedInv, TypeOK
  <2>2. TypeOK' \/ ~ (currentTask' \in Task \cup {IdleTask})
    BY <2>1 DEF SchedInv, TypeOK, prios, timing
  <2> QED  BY <2>2, Rescheduled DEF ChangeContext, SchedInv, Installed
<1>12. CASE UNCHANGED kvars
  BY <1>12 DEF kvars, SchedInv, TypeOK, Installed, Scheduled, OSSchedule,
               lists, prios, timing
<1> QED
  BY <1>1, <1>2, <1>3, <1>4, <1>5, <1>6, <1>7, <1>8, <1>9, <1>10, <1>11, <1>12
  DEF Next, Interrupt, Block

LEMMA SchedAlways == Spec => []SchedInv
<1>1. QED  BY SchedInit, SchedStep, PTL DEF Spec

\* Every variable keeps its type: in particular OSSchedule always selects an
\* existing context, and iNesting and the tick counter stay in their ranges.
THEOREM TypeCorrect == Spec => []TypeOK
<1>1. SchedInv => TypeOK
  BY DEF SchedInv
<1> QED  BY <1>1, SchedAlways, PTL

LEMMA SchedRuns == Installed /\ Scheduled => RunsHighest
<1> SUFFICES ASSUME Installed, Scheduled, iNesting = 0
             PROVE  /\ currentTask \in Task => Runnable(currentTask)
                    /\ \A t \in Task : Runnable(t) =>
                         currentTask \in Task /\ Priority[t] <= Priority[currentTask]
  BY DEF RunsHighest
<1> DEFINE S == OSReadyList \cap OSBlockedList
<1>1. S \in SUBSET UsedPrio /\ currentTask = PriorityVector[SAScheduler(S)]
  BY DEF Installed, Scheduled, OSSchedule
<1>2. /\ currentTask \in Task => InstalledPriority[currentTask] \in S
      /\ \A t \in Task : InstalledPriority[t] \in S =>
           /\ currentTask \in Task
           /\ InstalledPriority[t] <= InstalledPriority[currentTask]
  <2> HIDE DEF S
  <2> QED  BY <1>1, Selection DEF Installed
<1> QED  BY <1>2 DEF Runnable, Installed

\* Outside interrupts the highest-priority runnable task runs, whatever the
\* number of tasks, the order of calls and the nesting of interrupts.
THEOREM HighestRuns == Spec => []RunsHighest
<1>1. SchedInv => RunsHighest
  BY SchedRuns DEF SchedInv
<1> QED  BY <1>1, SchedAlways, PTL

-----------------------------------------------------------------------------
\* Delays.

\* A task is on the delay list while ticks of its wait are left, and its
\* deadline lies that many ticks ahead.
TimeLeft ==
    /\ \A t \in Task : t \in delayList <=> remaining[t] > 0
    /\ DeadlineAhead

TimeTypes ==
    /\ OSTickCounter \in 0 .. TICK_COUNT_OVERFLOW - 1
    /\ TimeToWait \in [Task -> Nat]
    /\ delayList \subseteq Task
    /\ remaining \in [Task -> Nat]

\* The running task starts a wait no longer than the wrap.
LEMMA WaitStarts ==
    ASSUME MaxWait <= TICK_COUNT_OVERFLOW, TimeTypes, TimeLeft, currentTask \in Task,
           NEW w \in 1 .. MaxWait, StartWait(w), UNCHANGED OSTickCounter
    PROVE  TimeTypes' /\ TimeLeft'
<1> USE TimeAssumption DEF StartWait, TimeTypes
<1>1. /\ Deadline(w) \in 0 .. TICK_COUNT_OVERFLOW - 1
      /\ OSTickCounter + w \in {Deadline(w), Deadline(w) + TICK_COUNT_OVERFLOW}
  BY DEF Deadline
<1>2. TimeTypes'
  BY <1>1
<1>3. \A t \in Task : t \in delayList' <=> remaining'[t] > 0
  BY DEF TimeLeft
<1>4. DeadlineAhead'
  BY <1>1 DEF TimeLeft, DeadlineAhead
<1> QED  BY <1>2, <1>3, <1>4 DEF TimeLeft

\* The tick compares deadlines for equality: it takes a task off the delay list
\* exactly when its last tick passes.
LEMMA TimePasses ==
    ASSUME TimeTypes, TimeLeft, OSTickCounter' = OSIncCounter, OS_TICK_HANDLER
    PROVE  TimeTypes' /\ TimeLeft'
<1> USE TimeAssumption DEF OS_TICK_HANDLER, TimeTypes
<1>0. OSIncCounter = IF OSTickCounter + 1 = TICK_COUNT_OVERFLOW
                     THEN 0 ELSE OSTickCounter + 1
  BY DEF OSIncCounter
<1>1. ASSUME NEW t \in delayList PROVE t \in Expired <=> remaining[t] = 1
  <2>1. TimeToWait[t] \in Nat /\ remaining[t] \in Nat /\ remaining[t] > 0
    BY DEF TimeLeft
  <2> QED  BY <1>0, <2>1 DEF Expired, TimeLeft, DeadlineAhead
<1>2. TimeTypes'
  BY <1>0 DEF Expired
<1>3. \A t \in Task : t \in delayList' <=> remaining'[t] > 0
  BY <1>1 DEF Expired, TimeLeft
<1>4. ASSUME NEW t \in delayList' PROVE
        /\ TimeToWait'[t] < TICK_COUNT_OVERFLOW
        /\ remaining'[t] <= TICK_COUNT_OVERFLOW
        /\ OSTickCounter' + remaining'[t] \in
             {TimeToWait'[t], TimeToWait'[t] + TICK_COUNT_OVERFLOW}
  <2>1. t \in delayList /\ t \notin Expired /\ t \in Task
    OBVIOUS
  <2>2. TimeToWait[t] \in Nat /\ remaining[t] \in Nat /\ remaining[t] > 1
    BY <1>1, <2>1 DEF TimeLeft
  <2>3. TimeToWait'[t] = TimeToWait[t] /\ remaining'[t] = remaining[t] - 1
    BY <2>1, <2>2
  <2> QED  BY <1>0, <2>1, <2>2, <2>3 DEF TimeLeft, DeadlineAhead
<1> QED  BY <1>2, <1>3, <1>4 DEF TimeLeft, DeadlineAhead

DelayInv == SchedInv /\ DelayExact /\ DeadlineAhead

LEMMA DelayInit == Init => DelayInv
<1> SUFFICES ASSUME Init PROVE DelayInv
  OBVIOUS
<1> QED  BY SchedInit DEF Init, DelayInv, DelayExact, DeadlineAhead

\* Every step keeps delays exact, as long as no wait is longer than the wrap.
LEMMA DelayStep ==
    ASSUME MaxWait <= TICK_COUNT_OVERFLOW, DelayInv, [Next]_kvars
    PROVE  DelayInv'
<1> USE TimeAssumption
<1>0. SchedInv' /\ SchedInv /\ TypeOK
  BY SchedStep DEF DelayInv, SchedInv
<1> SUFFICES DelayExact' /\ DeadlineAhead'
  BY <1>0 DEF DelayInv
<1>1. /\ Priority' = Priority
      /\ \A t, u \in Task : Priority[t] = Priority[u] => t = u
  BY <1>0, TaskAssumption DEF SchedInv, Installed
<1>t. TimeTypes /\ TimeLeft
  BY <1>0 DEF TimeTypes, TypeOK, TimeLeft, DelayInv, DelayExact
<1>2. ASSUME NEW w \in 1 .. MaxWait, DelayTask(w) PROVE DelayExact' /\ DeadlineAhead'
  <2>1. TimeLeft'
    BY <1>t, <1>2, WaitStarts DEF DelayTask, InTask
  <2>2. DelayExact'
    BY <1>0, <1>1, <1>2, <2>1
       DEF DelayTask, InTask, StartWait, TimeLeft, DelayInv, DelayExact, TypeOK
  <2> QED  BY <2>1, <2>2 DEF TimeLeft
<1>3. ASSUME NEW t \in Task, DelayReturn(t) PROVE DelayExact' /\ DeadlineAhead'
  <2> USE <1>3 DEF DelayReturn, Resumed, timing, lists
  <2>1. t \notin delayList
    BY <1>0, SchedRuns DEF RunsHighest, Runnable, SchedInv, DelayInv, DelayExact
  <2> QED  BY <1>0, <1>1, <2>1 DEF DelayInv, DelayExact, DeadlineAhead, TypeOK
<1>4. CASE TickTimer
  <2>1. TimeLeft'
    BY <1>t, <1>4, TimePasses DEF TickTimer
  <2>2. DelayExact'
    BY <1>0, <1>1, <1>4, <2>1
       DEF TickTimer, OS_TICK_HANDLER, Expired, TimeLeft, DelayInv, DelayExact, TypeOK
  <2> QED  BY <2>1, <2>2 DEF TimeLeft
<1>5. ASSUME UNCHANGED <<OSTickCounter, OSReadyList, Priority, timing, at>>
      PROVE  DelayExact' /\ DeadlineAhead'
  BY <1>5 DEF DelayInv, DelayExact, DeadlineAhead, timing
<1>6. CASE IsrEnter \/ IsrExit
  BY <1>5, <1>6 DEF IsrEnter, IsrExit, lists, prios
<1>7. CASE Block
  <2>1. UNCHANGED <<OSTickCounter, OSReadyList, prios, timing, at>>
    BY <1>7 DEF Block, BlockPriority, UnBlockPriority, BlockTask, UnBlockTask,
                BlockMultipleTask, UnBlockMultipleTask
  <2> QED  BY <1>5, <2>1 DEF prios
<1>8. CASE UNCHANGED kvars
  BY <1>5, <1>8 DEF kvars, lists, prios
<1> QED
  BY <1>2, <1>3, <1>4, <1>6, <1>7, <1>8 DEF Next, Interrupt

LEMMA DelayAlways ==
    ASSUME MaxWait <= TICK_COUNT_OVERFLOW
    PROVE  Spec => []DelayInv
<1>1. DelayInv /\ [Next]_kvars => DelayInv'
  BY DelayStep
<1> QED  BY DelayInit, <1>1, PTL DEF Spec

\* DelayTask returns after exactly the ticks asked for, for every wait up to
\* TICK_COUNT_OVERFLOW, and no delayed task is ever forgotten.
THEOREM DelaysAreExact ==
    ASSUME MaxWait <= TICK_COUNT_OVERFLOW
    PROVE  Spec => []DelayExact
<1>1. DelayInv => DelayExact
  BY DEF DelayInv
<1> QED  BY <1>1, DelayAlways, PTL

\* The deadline of every delayed task lies ahead of the tick counter by exactly
\* the ticks that are left, however often the counter has wrapped.
THEOREM DeadlinesAhead ==
    ASSUME MaxWait <= TICK_COUNT_OVERFLOW
    PROVE  Spec => []DeadlineAhead
<1>1. DelayInv => DeadlineAhead
  BY DEF DelayInv
<1> QED  BY <1>1, DelayAlways, PTL
=============================================================================
