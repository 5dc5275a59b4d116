------------------------- MODULE BrtosMutex_proofs -------------------------
(***************************************************************************)
(* Mutexes, for any number of tasks, mutexes, priorities and nesting of    *)
(* interrupts, when every task releases the last mutex it acquired first.  *)
(***************************************************************************)
EXTENDS BrtosMutex, BrtosKernel_proofs, FiniteSetTheorems, SequenceTheorems

-----------------------------------------------------------------------------
\* The inductive invariant.

MutexTypes ==
    /\ iNesting \in Nat
    /\ OSReadyList \subseteq Prio /\ OSBlockedList = Prio
    /\ Priority \in [Task -> 1 .. MaxPriority]
    /\ PriorityVector \in [Prio -> Task \cup {IdleTask, MUTEX_PRIO, EMPTY_PRIO}]
    /\ currentTask \in Task \cup {IdleTask}
    /\ delayList \subseteq Task
    /\ at \in [Task -> {"run", "delay", "mutex"}]
    /\ event \in [Task -> Mutex \cup {NoMutex}]
    /\ held \in [Task -> Seq(Mutex)]
    /\ OSEventAllocated \subseteq Mutex
    /\ OSEventState \in [Mutex -> {"cleared", "available", "busy"}]
    /\ OSEventOwner \in [Mutex -> Task \cup {NoOwner}]
    /\ OSMaxPriority \in [Mutex -> Prio]
    /\ OSOriginalPriority \in [Mutex -> Prio]
    /\ OSEventWait \in [Mutex -> Nat]
    /\ OSEventWaitList \in [Mutex -> SUBSET Prio]

\* The highest of task t's own priority and the ceilings c of the first n mutexes of s.
Top(t, s, c, n) == SAScheduler({InstalledPriority[t]} \cup {c[s[j]] : j \in 1 .. n})

\* A task runs at the highest ceiling it holds; the priority saved by each mutex
\* is the one of the mutexes acquired before it, and the vector knows all of them.
Stacked(t, s, p, vector, original, c) ==
    /\ \A i, j \in 1 .. Len(s) : s[i] = s[j] => i = j
    /\ \A i \in 1 .. Len(s) : original[s[i]] = Top(t, s, c, i - 1)
    /\ \A n \in 0 .. Len(s) : vector[Top(t, s, c, n)] = t
    /\ p = Top(t, s, c, Len(s))

Stacks ==
    \A t \in Task :
      Stacked(t, held[t], Priority[t], PriorityVector, OSOriginalPriority, OSMaxPriority)

\* Ceilings differ from each other and from the priorities of the tasks.
CeilingsApart ==
    /\ PriorityVector[0] = IdleTask
    /\ \A m \in OSEventAllocated :
         /\ OSMaxPriority[m] \in 1 .. MaxPriority
         /\ PriorityVector[OSMaxPriority[m]] # EMPTY_PRIO
         /\ \A t \in Task : OSMaxPriority[m] # InstalledPriority[t]
         /\ \A n \in OSEventAllocated : OSMaxPriority[n] = OSMaxPriority[m] => n = m

\* Every ready priority is a task's; the running task is ready, a delayed is not.
ReadyTasks ==
    /\ OSReadyList \subseteq {0} \cup {Priority[t] : t \in Task}
    /\ iNesting = 0 /\ currentTask \in Task => Priority[currentTask] \in OSReadyList
    /\ \A t \in delayList : at[t] = "delay" /\ Priority[t] \notin OSReadyList

\* A bit in a wait list is the priority of a task that waits for that mutex.
Waiters ==
    /\ \A t \in Task : at[t] = "mutex" =>
         event[t] \in Mutex /\ OSEventState[event[t]] = "busy"
    /\ \A m \in Mutex : \A p \in OSEventWaitList[m] :
         /\ p \notin OSReadyList
         /\ \E t \in Task : at[t] = "mutex" /\ event[t] = m /\ Priority[t] = p
    /\ \A m \in Mutex : OSEventWait[m] = Cardinality(OSEventWaitList[m])

\* Task t holds m, or a release has handed m to it.
InHands(t, m) == Holds(t, m) \/ (Chosen(t) /\ event[t] = m)

Users ==
    /\ \A m \in Mutex : OSEventState[m] = "cleared" <=> m \notin OSEventAllocated
    /\ \A m \in Mutex : \A t \in Task : OSEventOwner[m] = t <=> Holds(t, m)
    /\ \A t \in Task : at[t] = "mutex" => ~ Holds(t, event[t])
    /\ \A m \in Mutex : \A t, u \in Task : InHands(t, m) /\ InHands(u, m) => t = u
    /\ \A m \in Mutex : OSEventState[m] = "busy" <=> \E t \in Task : InHands(t, m)

MutexInv ==
    /\ MutexTypes /\ Stacks /\ CeilingsApart
    /\ ReadyTasks /\ Waiters /\ Users /\ NoTaskLost

-----------------------------------------------------------------------------
\* The scheduler and the ceilings.

LEMMA PrioNat == Prio \subseteq Nat /\ 0 \in Prio /\ \A t \in Task : InstalledPriority[t] \in Prio
BY TaskAssumption DEF Prio

\* The scheduler selects a ready task, or the idle task.
LEMMA Selects ==
    ASSUME NEW vector, NEW prio, NEW S \in SUBSET Prio,
           vector[0] = IdleTask, \A t \in Task : vector[prio[t]] = t,
           S \subseteq {0} \cup {prio[t] : t \in Task}
    PROVE  LET c == vector[SAScheduler(S)] IN
           c \in Task \cup {IdleTask} /\ (c \in Task => prio[c] \in S)
<1>1. IdleTask \notin Task
  BY TaskAssumption DEF IdleTask, Task
<1>2. CASE S = {}
  BY <1>1, <1>2 DEF SAScheduler
<1>3. CASE S # {}
  <2>1. SAScheduler(S) \in S
    BY <1>3, SchedulerGreatest
  <2>2. CASE SAScheduler(S) = 0
    BY <1>1, <2>2
  <2>3. CASE SAScheduler(S) # 0
    <3>1. PICK t \in Task : SAScheduler(S) = prio[t]
      BY <2>1, <2>3
    <3> QED  BY <2>1, <3>1
  <2> QED  BY <2>2, <2>3
<1> QED  BY <1>2, <1>3

\* The greatest of a set that gets one more element.
LEMMA SchedulerAdds ==
    ASSUME NEW S \in SUBSET Prio, S # {}, NEW c \in Prio
    PROVE  SAScheduler(S \cup {c}) = IF c > SAScheduler(S) THEN c ELSE SAScheduler(S)
<1> DEFINE T == S \cup {c}
<1>1. T \in SUBSET Prio /\ T # {}
  OBVIOUS
<1>2. SAScheduler(S) \in S /\ \A q \in S : q <= SAScheduler(S)
  BY SchedulerGreatest
<1>3. SAScheduler(T) \in T /\ \A q \in T : q <= SAScheduler(T)
  <2> HIDE DEF T
  <2> QED  BY <1>1, SchedulerGreatest
<1>4. SAScheduler(S) \in Nat /\ SAScheduler(T) \in Nat /\ c \in Nat
  BY <1>1, <1>2, <1>3, PrioNat
<1>5. SAScheduler(S) \in T /\ c \in T
  BY <1>2
<1>6. c <= SAScheduler(T) /\ SAScheduler(S) <= SAScheduler(T)
  BY <1>3, <1>5
<1>7. SAScheduler(T) = c \/ SAScheduler(T) <= SAScheduler(S)
  BY <1>2, <1>3
<1> HIDE DEF T
<1>8. SAScheduler(T) = IF c > SAScheduler(S) THEN c ELSE SAScheduler(S)
  BY <1>4, <1>6, <1>7
<1> QED  BY <1>8 DEF T

LEMMA TopSet ==
    ASSUME NEW t \in Task, NEW s \in Seq(Mutex), NEW c \in [Mutex -> Prio],
           NEW n \in 0 .. Len(s)
    PROVE  {InstalledPriority[t]} \cup {c[s[j]] : j \in 1 .. n} \in SUBSET Prio
<1>1. ASSUME NEW j \in 1 .. n PROVE c[s[j]] \in Prio
  <2>1. j \in 1 .. Len(s)
    OBVIOUS
  <2> QED  BY <2>1
<1> QED  BY <1>1, PrioNat

\* Where the highest priority comes from.
LEMMA TopIn ==
    ASSUME NEW t \in Task, NEW s \in Seq(Mutex), NEW c \in [Mutex -> Prio],
           NEW n \in 0 .. Len(s)
    PROVE  /\ Top(t, s, c, n) \in Prio
           /\ \/ Top(t, s, c, n) = InstalledPriority[t]
              \/ \E j \in 1 .. n : Top(t, s, c, n) = c[s[j]]
<1> DEFINE S == {InstalledPriority[t]} \cup {c[s[j]] : j \in 1 .. n}
<1>1. S \in SUBSET Prio /\ S # {}
  BY TopSet
<1>2. SAScheduler(S) \in S
  <2> HIDE DEF S
  <2> QED  BY <1>1, SchedulerGreatest
<1> QED  BY <1>1, <1>2 DEF Top

LEMMA TopZero ==
    ASSUME NEW t \in Task, NEW s, NEW c
    PROVE  Top(t, s, c, 0) = InstalledPriority[t]
<1> DEFINE S == {InstalledPriority[t]} \cup {c[s[j]] : j \in 1 .. 0}
<1>1. S = {InstalledPriority[t]}
  OBVIOUS
<1>2. SAScheduler({InstalledPriority[t]}) = InstalledPriority[t]
  BY SchedulerGreatest, PrioNat
<1> QED  BY <1>1, <1>2 DEF Top

\* One mutex more.
LEMMA TopNext ==
    ASSUME NEW t \in Task, NEW s \in Seq(Mutex), NEW c \in [Mutex -> Prio],
           NEW n \in 1 .. Len(s)
    PROVE  Top(t, s, c, n) = IF c[s[n]] > Top(t, s, c, n - 1)
                             THEN c[s[n]] ELSE Top(t, s, c, n - 1)
<1> DEFINE S == {InstalledPriority[t]} \cup {c[s[j]] : j \in 1 .. n - 1}
           T == {InstalledPriority[t]} \cup {c[s[j]] : j \in 1 .. n}
<1>1. n - 1 \in 0 .. Len(s)
  OBVIOUS
<1>2. S \in SUBSET Prio /\ S # {} /\ c[s[n]] \in Prio
  BY <1>1, TopSet
<1>3. T = S \cup {c[s[n]]}
  OBVIOUS
<1>4. SAScheduler(T) = IF c[s[n]] > SAScheduler(S) THEN c[s[n]] ELSE SAScheduler(S)
  <2> HIDE DEF S, T
  <2> QED  BY <1>2, <1>3, SchedulerAdds
<1> QED  BY <1>4 DEF Top

\* It depends on the mutexes counted only.
LEMMA TopSame ==
    ASSUME NEW t \in Task, NEW s, NEW c, NEW r, NEW d, NEW n,
           \A j \in 1 .. n : c[s[j]] = d[r[j]]
    PROVE  Top(t, s, c, n) = Top(t, r, d, n)
<1>1. {c[s[j]] : j \in 1 .. n} = {d[r[j]] : j \in 1 .. n}
  OBVIOUS
<1> QED  BY <1>1 DEF Top

\* Dropping the last mutex of a stack.
LEMMA DropLast ==
    ASSUME NEW s \in Seq(Mutex), Len(s) # 0,
           \A i, j \in 1 .. Len(s) : s[i] = s[j] => i = j
    PROVE  /\ Drop(s, Last(s)) \in Seq(Mutex)
           /\ Len(Drop(s, Last(s))) = Len(s) - 1
           /\ \A i \in 1 .. Len(s) - 1 : Drop(s, Last(s))[i] = s[i]
<1> DEFINE k == CHOOSE i \in 1 .. Len(s) : s[i] = Last(s)
           r == [i \in 1 .. Len(s) - 1 |-> s[IF i < k THEN i ELSE i + 1]]
<1>1. Len(s) \in 1 .. Len(s) /\ Len(s) \in Nat
  OBVIOUS
<1>2. k \in 1 .. Len(s) /\ s[k] = Last(s)
  BY <1>1 DEF Last
<1>3. k = Len(s)
  <2> HIDE DEF k
  <2> QED  BY <1>1, <1>2 DEF Last
<1> HIDE DEF k
<1>4. \A i \in 1 .. Len(s) - 1 : r[i] = s[i] /\ s[i] \in Mutex
  BY <1>1, <1>3
<1>5. r \in [1 .. Len(s) - 1 -> Mutex]
  BY <1>4
<1>6. r \in Seq(Mutex) /\ Len(r) = Len(s) - 1
  <2> HIDE DEF r
  <2>1. Len(s) - 1 \in Nat
    BY <1>1
  <2>2. r \in Seq(Mutex)
    BY <1>5, <2>1, IsASeq
  <2>3. DOMAIN r = 1 .. Len(s) - 1
    BY <1>5
  <2> QED  BY <2>1, <2>2, <2>3, LenProperties
<1>7. Drop(s, Last(s)) = r
  BY DEF Drop, k
<1> QED  BY <1>4, <1>6, <1>7

-----------------------------------------------------------------------------
\* What the invariant says of the scheduler.

\* A task is found at its priority.
LEMMA OnVector ==
    ASSUME NEW t, NEW s \in Seq(Mutex), NEW p, NEW vector, NEW o, NEW c,
           Stacked(t, s, p, vector, o, c)
    PROVE  vector[p] = t
<1>1. Len(s) \in 0 .. Len(s)
  OBVIOUS
<1> QED  BY <1>1 DEF Stacked

\* Hence no two tasks have the same priority.
LEMMA Distinct ==
    ASSUME MutexInv
    PROVE  /\ \A t \in Task : PriorityVector[Priority[t]] = t
           /\ \A t, u \in Task : Priority[t] = Priority[u] => t = u
           /\ \A t \in Task : Priority[t] \in Prio /\ Priority[t] # 0
<1>1. \A t \in Task : held[t] \in Seq(Mutex)
  BY DEF MutexInv, MutexTypes
<1>2. \A t \in Task : PriorityVector[Priority[t]] = t
  BY <1>1, OnVector DEF MutexInv, Stacks
<1>3. \A t \in Task : Priority[t] \in 1 .. MaxPriority
  BY DEF MutexInv, MutexTypes
<1> QED  BY <1>2, <1>3 DEF Prio

LEMMA DistinctNext ==
    ASSUME Stacks', held' \in [Task -> Seq(Mutex)]
    PROVE  \A t, u \in Task : Priority'[t] = Priority'[u] => t = u
<1>1. \A t \in Task : PriorityVector'[Priority'[t]] = t
  BY OnVector DEF Stacks
<1> QED  BY <1>1

\* The context switch selects a ready task, or the idle task.
LEMMA Switched ==
    ASSUME Stacks', held' \in [Task -> Seq(Mutex)], CeilingsApart',
           OSReadyList' \subseteq Prio, OSBlockedList' = Prio,
           OSReadyList' \subseteq {0} \cup {Priority'[t] : t \in Task},
           ChangeContext
    PROVE  /\ currentTask' \in Task \cup {IdleTask}
           /\ currentTask' \in Task => Priority'[currentTask'] \in OSReadyList'
<1>1. \A t \in Task : PriorityVector'[Priority'[t]] = t
  BY OnVector DEF Stacks
<1>2. PriorityVector'[0] = IdleTask
  BY DEF CeilingsApart
<1>3. OSReadyList' \cap OSBlockedList' = OSReadyList'
  OBVIOUS
<1>4. currentTask' = PriorityVector'[SAScheduler(OSReadyList')]
  BY <1>3 DEF ChangeContext, OSSchedule
<1> QED  BY <1>1, <1>2, <1>4, Selects

\* A task that runs is ready.
LEMMA RunnerReady ==
    ASSUME MutexInv, iNesting = 0, currentTask \in Task
    PROVE  /\ Priority[currentTask] \in OSReadyList
           /\ currentTask \notin delayList
           /\ \A m \in Mutex : Priority[currentTask] \notin OSEventWaitList[m]
BY DEF MutexInv, ReadyTasks, Waiters

-----------------------------------------------------------------------------
\* The kernel's own steps.

\* Steps that change neither priorities nor mutexes, nor wake a waiter.
LEMMA MutexesKept ==
    ASSUME MutexInv, UNCHANGED <<prios, blocks, event, held>>,
           \A t \in Task : at'[t] = "mutex" <=> at[t] = "mutex",
           \A m \in Mutex : \A p \in OSEventWaitList[m] : p \notin OSReadyList'
    PROVE  /\ Stacks' /\ CeilingsApart' /\ Waiters' /\ Users'
           /\ \A t \in Task : Chosen(t)' <=> Chosen(t)
<1>1. Stacks' /\ CeilingsApart'
  BY DEF MutexInv, Stacks, CeilingsApart, prios, blocks
<1>2. Waiters'
  BY DEF MutexInv, Waiters, prios, blocks
<1>3. \A t \in Task : Chosen(t)' <=> Chosen(t)
  BY DEF Chosen, prios, blocks
<1>4. \A t \in Task : \A m : InHands(t, m)' <=> InHands(t, m)
  BY <1>3 DEF InHands, Holds
<1>5. Users'
  BY <1>4 DEF MutexInv, Users, Holds, blocks
<1> QED  BY <1>1, <1>2, <1>3, <1>5

LEMMA DelayTaskStep ==
    ASSUME MutexInv, NEW w, DelayTask(w), UNCHANGED <<blocks, event, held>>
    PROVE  MutexInv'
<1>1. /\ iNesting = 0 /\ currentTask \in Task /\ at[currentTask] = "run"
      /\ delayList' = delayList \cup {currentTask}
      /\ OSReadyList' = OSReadyList \ {Priority[currentTask]}
      /\ at' = [at EXCEPT ![currentTask] = "delay"]
      /\ UNCHANGED <<iNesting, OSBlockedList, prios>>
      /\ ChangeContext
  BY DEF DelayTask, InTask, StartWait
<1>2. /\ at' \in [Task -> {"run", "delay", "mutex"}]
      /\ \A t \in Task : at'[t] = IF t = currentTask THEN "delay" ELSE at[t]
  BY <1>1 DEF MutexInv, MutexTypes
<1>3. /\ Stacks' /\ CeilingsApart' /\ Waiters' /\ Users'
      /\ \A t \in Task : Chosen(t)' <=> Chosen(t)
  BY <1>1, <1>2, MutexesKept DEF MutexInv, Waiters
<1>4. /\ currentTask' \in Task \cup {IdleTask}
      /\ currentTask' \in Task => Priority'[currentTask'] \in OSReadyList'
  <2>1. held' \in [Task -> Seq(Mutex)] /\ OSReadyList' \subseteq Prio /\ OSBlockedList' = Prio
    BY <1>1 DEF MutexInv, MutexTypes
  <2>2. OSReadyList' \subseteq {0} \cup {Priority'[t] : t \in Task}
    BY <1>1 DEF MutexInv, ReadyTasks, prios
  <2> QED  BY <1>1, <1>3, <2>1, <2>2, Switched
<1>5. MutexTypes'
  BY <1>1, <1>2, <1>4 DEF MutexInv, MutexTypes, prios, blocks
<1>6. ReadyTasks'
  <2>1. OSReadyList' \subseteq {0} \cup {Priority'[t] : t \in Task}
    BY <1>1 DEF MutexInv, ReadyTasks, prios
  <2>2. \A t \in delayList' : at'[t] = "delay" /\ Priority'[t] \notin OSReadyList'
    BY <1>1, <1>2 DEF MutexInv, MutexTypes, ReadyTasks, prios
  <2> QED  BY <1>4, <2>1, <2>2 DEF ReadyTasks
<1>7. NoTaskLost'
  <2>1. ASSUME NEW t \in Task, Priority'[t] \notin OSReadyList'
        PROVE  t \in delayList' \/ (at'[t] = "mutex" /\ ~ Chosen(t)')
    <3>1. CASE t = currentTask
      BY <1>1, <3>1
    <3>2. CASE t # currentTask
      <4>1. Priority[t] \notin OSReadyList
        BY <1>1, <2>1, <3>2, Distinct DEF prios
      <4> QED  BY <1>1, <1>2, <1>3, <3>2, <4>1 DEF MutexInv, NoTaskLost
    <3> QED  BY <3>1, <3>2
  <2> QED  BY <2>1 DEF NoTaskLost
<1> QED  BY <1>3, <1>5, <1>6, <1>7 DEF MutexInv

LEMMA DelayReturnStep ==
    ASSUME MutexInv, NEW t \in Task, DelayReturn(t), UNCHANGED <<blocks, event, held>>
    PROVE  MutexInv'
<1>1. /\ iNesting = 0 /\ currentTask = t /\ at[t] = "delay"
      /\ at' = [at EXCEPT ![t] = "run"]
      /\ UNCHANGED <<currentTask, iNesting, lists, prios, timing>>
  BY DEF DelayReturn, Resumed
<1>2. /\ at' \in [Task -> {"run", "delay", "mutex"}]
      /\ \A u \in Task : at'[u] = IF u = t THEN "run" ELSE at[u]
  BY <1>1 DEF MutexInv, MutexTypes
<1>3. /\ Stacks' /\ CeilingsApart' /\ Waiters' /\ Users'
      /\ \A u \in Task : Chosen(u)' <=> Chosen(u)
  BY <1>1, <1>2, MutexesKept DEF MutexInv, Waiters, lists
<1>4. MutexTypes'
  BY <1>1, <1>2 DEF MutexInv, MutexTypes, prios, blocks, lists, timing
<1>5. t \notin delayList
  BY <1>1, RunnerReady
<1>6. ReadyTasks'
  BY <1>1, <1>2, <1>5 DEF MutexInv, MutexTypes, ReadyTasks, prios, lists, timing
<1>7. NoTaskLost'
  BY <1>1, <1>2, <1>3 DEF MutexInv, NoTaskLost, prios, lists, timing
<1> QED  BY <1>3, <1>4, <1>6, <1>7 DEF MutexInv

\* The tick wakes delayed tasks only.
LEMMA TickStep ==
    ASSUME MutexInv, TickTimer, UNCHANGED <<blocks, event, held>>
    PROVE  MutexInv'
<1>1. /\ OSReadyList' = OSReadyList \cup {Priority[t] : t \in Expired}
      /\ delayList' = delayList \ Expired
      /\ UNCHANGED <<iNesting, OSBlockedList, prios, at>>
      /\ Expired \subseteq delayList /\ Expired \subseteq Task
      /\ IntExit
  BY DEF TickTimer, OS_TICK_HANDLER, Expired, MutexInv, MutexTypes
<1>2. \A t \in Expired : at[t] = "delay"
  BY <1>1 DEF MutexInv, ReadyTasks
<1>3. \A m \in Mutex : \A p \in OSEventWaitList[m] : p \notin OSReadyList'
  <2>1. SUFFICES ASSUME NEW m \in Mutex, NEW p \in OSEventWaitList[m],
                        NEW t \in Expired, Priority[t] = p
                 PROVE  FALSE
    BY <1>1 DEF MutexInv, Waiters
  <2>2. PICK u \in Task : at[u] = "mutex" /\ Priority[u] = p
    BY DEF MutexInv, Waiters
  <2>3. u = t
    BY <1>1, <2>1, <2>2, Distinct
  <2> QED  BY <1>2, <2>2, <2>3
<1>4. /\ Stacks' /\ CeilingsApart' /\ Waiters' /\ Users'
      /\ \A t \in Task : Chosen(t)' <=> Chosen(t)
  BY <1>1, <1>3, MutexesKept
<1>5. /\ OSReadyList' \subseteq {0} \cup {Priority'[t] : t \in Task}
      /\ OSReadyList' \subseteq Prio
  <2>1. Priority' = Priority /\ \A t \in Expired : t \in Task /\ Priority[t] \in Prio
    BY <1>1, Distinct DEF prios
  <2>2. OSReadyList \subseteq Prio /\ OSReadyList \subseteq {0} \cup {Priority[t] : t \in Task}
    BY DEF MutexInv, MutexTypes, ReadyTasks
  <2> QED  BY <1>1, <2>1, <2>2
<1>6. /\ currentTask' \in Task \cup {IdleTask}
      /\ iNesting' = 0 /\ currentTask' \in Task => Priority'[currentTask'] \in OSReadyList'
  <2>1. CASE iNesting' = 0
    BY <1>1, <1>4, <1>5, <2>1, Switched DEF IntExit, MutexInv, MutexTypes
  <2>2. CASE iNesting' # 0
    BY <1>1, <2>2 DEF IntExit, MutexInv, MutexTypes
  <2> QED  BY <2>1, <2>2
<1>7. MutexTypes'
  BY <1>1, <1>5, <1>6 DEF MutexInv, MutexTypes, prios, blocks
<1>8. ReadyTasks'
  <2>1. ASSUME NEW t \in delayList' PROVE at'[t] = "delay" /\ Priority'[t] \notin OSReadyList'
    <3>1. t \in delayList /\ t \notin Expired /\ t \in Task
      BY <1>1 DEF MutexInv, MutexTypes
    <3>2. Priority[t] \notin {Priority[u] : u \in Expired}
      BY <1>1, <3>1, Distinct
    <3> QED  BY <1>1, <3>1, <3>2 DEF MutexInv, ReadyTasks, prios
  <2> QED  BY <1>5, <1>6, <2>1 DEF ReadyTasks
<1>9. NoTaskLost'
  BY <1>1, <1>4 DEF MutexInv, NoTaskLost, prios
<1> QED  BY <1>4, <1>7, <1>8, <1>9 DEF MutexInv

LEMMA IsrStep ==
    ASSUME MutexInv, IsrEnter \/ IsrExit, UNCHANGED <<blocks, event, held>>
    PROVE  MutexInv'
<1>1. /\ UNCHANGED <<lists, prios, timing, at>>
      /\ \/ iNesting' = 0 /\ ChangeContext
         \/ iNesting' # 0 /\ UNCHANGED currentTask
      /\ iNesting' \in Nat
  BY DEF IsrEnter, IsrExit, IntExit, MutexInv, MutexTypes
<1>2. /\ Stacks' /\ CeilingsApart' /\ Waiters' /\ Users'
      /\ \A t \in Task : Chosen(t)' <=> Chosen(t)
  BY <1>1, MutexesKept DEF MutexInv, Waiters, lists
<1>3. /\ currentTask' \in Task \cup {IdleTask}
      /\ iNesting' = 0 /\ currentTask' \in Task => Priority'[currentTask'] \in OSReadyList'
  <2>1. CASE ChangeContext
    BY <1>1, <1>2, <2>1, Switched DEF MutexInv, MutexTypes, ReadyTasks, lists, prios
  <2>2. CASE UNCHANGED currentTask /\ iNesting' # 0
    BY <2>2 DEF MutexInv, MutexTypes
  <2> QED  BY <1>1, <2>1, <2>2
<1>4. MutexTypes'
  BY <1>1, <1>3 DEF MutexInv, MutexTypes, lists, prios, timing, blocks
<1>5. ReadyTasks'
  BY <1>1, <1>3 DEF MutexInv, ReadyTasks, lists, prios, timing
<1>6. NoTaskLost'
  BY <1>1, <1>2 DEF MutexInv, NoTaskLost, lists, prios, timing
<1> QED  BY <1>2, <1>4, <1>5, <1>6 DEF MutexInv

-----------------------------------------------------------------------------
\* Creating and deleting.

\* Only mutexes in use are held.
LEMMA HeldInUse ==
    ASSUME MutexInv, NEW t \in Task, NEW j \in 1 .. Len(held[t])
    PROVE  /\ held[t][j] \in Mutex /\ held[t][j] \in OSEventAllocated
           /\ OSEventState[held[t][j]] = "busy"
<1>1. held[t] \in Seq(Mutex)
  BY DEF MutexInv, MutexTypes
<1>2. held[t][j] \in Mutex /\ Holds(t, held[t][j])
  BY <1>1 DEF Holds
<1>3. OSEventState[held[t][j]] = "busy"
  BY <1>2 DEF MutexInv, Users, InHands
<1> QED  BY <1>2, <1>3 DEF MutexInv, Users

\* No priority of a task is the ceiling of a mutex it does not hold.
LEMMA TopApart ==
    ASSUME MutexInv, NEW m \in OSEventAllocated, NEW u \in Task,
           NEW n \in 0 .. Len(held[u]), \A j \in 1 .. n : held[u][j] # m
    PROVE  Top(u, held[u], OSMaxPriority, n) # OSMaxPriority[m]
<1>1. held[u] \in Seq(Mutex) /\ OSMaxPriority \in [Mutex -> Prio] /\ Len(held[u]) \in Nat
  BY DEF MutexInv, MutexTypes
<1>2. CASE Top(u, held[u], OSMaxPriority, n) = InstalledPriority[u]
  BY <1>2 DEF MutexInv, CeilingsApart
<1>3. CASE \E j \in 1 .. n : Top(u, held[u], OSMaxPriority, n) = OSMaxPriority[held[u][j]]
  <2>1. PICK j \in 1 .. n : Top(u, held[u], OSMaxPriority, n) = OSMaxPriority[held[u][j]]
    BY <1>3
  <2>2. held[u][j] \in OSEventAllocated
    BY <1>1, HeldInUse
  <2> QED  BY <2>1, <2>2 DEF MutexInv, CeilingsApart
<1> QED  BY <1>1, <1>2, <1>3, TopIn

\* Changes to mutexes the task does not hold do not concern it.
LEMMA StackedSame ==
    ASSUME NEW t \in Task, NEW s \in Seq(Mutex), NEW p, NEW v, NEW w, NEW o, NEW q,
           NEW c, NEW d, Stacked(t, s, p, v, o, c),
           \A j \in 1 .. Len(s) : c[s[j]] = d[s[j]] /\ o[s[j]] = q[s[j]],
           \A n \in 0 .. Len(s) : w[Top(t, s, c, n)] = t
    PROVE  Stacked(t, s, p, w, q, d)
<1>1. Len(s) \in Nat
  OBVIOUS
<1>2. \A n \in 0 .. Len(s) : Top(t, s, c, n) = Top(t, s, d, n)
  <2>1. ASSUME NEW n \in 0 .. Len(s) PROVE Top(t, s, c, n) = Top(t, s, d, n)
    <3>1. \A j \in 1 .. n : c[s[j]] = d[s[j]]
      BY <1>1
    <3> QED  BY <3>1, TopSame
  <2> QED  BY <2>1
<1>3. \A i \in 1 .. Len(s) : q[s[i]] = Top(t, s, d, i - 1)
  <2>1. ASSUME NEW i \in 1 .. Len(s) PROVE q[s[i]] = Top(t, s, d, i - 1)
    <3>1. i - 1 \in 0 .. Len(s)
      BY <1>1
    <3> QED  BY <1>2, <3>1 DEF Stacked
  <2> QED  BY <2>1
<1>4. \A n \in 0 .. Len(s) : w[Top(t, s, d, n)] = t
  BY <1>2
<1>5. p = Top(t, s, d, Len(s))
  BY <1>1, <1>2 DEF Stacked
<1> QED  BY <1>3, <1>4, <1>5 DEF Stacked

\* A non-empty set of mutexes has a least one.
LEMMA LeastMutex ==
    ASSUME NEW S, S \subseteq Mutex, S # {}
    PROVE  (CHOOSE m \in S : \A n \in S : m <= n) \in S
<1> DEFINE Less == OpToRel(<, Nat)
<1>1. S \subseteq Nat
  BY DEF Mutex
<1>2. \E x \in S : \A y \in S : ~ (<<y, x>> \in Less)
  <2> HIDE DEF Less
  <2> QED  BY <1>1, NatLessThanWellFounded, WFMin DEF Less
<1>3. PICK x \in S : \A y \in S : ~ (<<y, x>> \in Less)
  BY <1>2
<1>4. \A y \in S : ~ (y < x)
  BY <1>1, <1>3 DEF OpToRel
<1>5. \A y \in S : x <= y
  BY <1>1, <1>4
<1> QED  BY <1>5

\* A new mutex was in nobody's hands, and its ceiling was nobody's priority.
LEMMA CreateStep ==
    ASSUME MutexInv, NEW h \in Ceilings, OSMutexCreate(h)
    PROVE  MutexInv'
<1>1. /\ PriorityVector[h] = EMPTY_PRIO
      /\ PriorityVector' = [PriorityVector EXCEPT ![h] = MUTEX_PRIO]
      /\ UNCHANGED <<OSTickCounter, currentTask, iNesting, lists, Priority, timing,
                     at, OSEventOwner, OSOriginalPriority, event, held>>
      /\ h \in 1 .. MaxPriority /\ h \in Prio /\ h # 0
  BY MutexAssumption, TaskAssumption DEF OSMutexCreate, Prio
<1>2. \A t \in Task : t # EMPTY_PRIO /\ t # MUTEX_PRIO
  BY TaskAssumption DEF Task, EMPTY_PRIO, MUTEX_PRIO
<1>3. \A t \in Task : \A n \in 0 .. Len(held[t]) :
        /\ Top(t, held[t], OSMaxPriority, n) # h
        /\ Top(t, held[t], OSMaxPriority, n) \in Prio
        /\ PriorityVector[Top(t, held[t], OSMaxPriority, n)] = t
  BY <1>1, <1>2, TopIn DEF MutexInv, MutexTypes, Stacks, Stacked
<1>4. \A t \in Task : \A n \in 0 .. Len(held[t]) :
        PriorityVector'[Top(t, held[t], OSMaxPriority, n)] = t
  BY <1>1, <1>3 DEF MutexInv, MutexTypes
<1>5. PICK m :
        \/ OSEventAllocated' = OSEventAllocated
           /\ UNCHANGED <<OSEventState, OSMaxPriority, OSEventWait, OSEventWaitList>>
        \/ /\ m \in Mutex \ OSEventAllocated
           /\ OSEventAllocated' = OSEventAllocated \cup {m}
           /\ OSEventState' = [OSEventState EXCEPT ![m] = "available"]
           /\ OSMaxPriority' = [OSMaxPriority EXCEPT ![m] = h]
           /\ OSEventWait' = [OSEventWait EXCEPT ![m] = 0]
           /\ OSEventWaitList' = [OSEventWaitList EXCEPT ![m] = {}]
  <2>1. CASE OSEventAllocated = Mutex
    BY <2>1 DEF OSMutexCreate
  <2>2. CASE OSEventAllocated # Mutex
    <3> DEFINE k == CHOOSE k \in Mutex \ OSEventAllocated :
                      \A n \in Mutex \ OSEventAllocated : k <= n
    <3>1. Mutex \ OSEventAllocated # {}
      BY <2>2 DEF MutexInv, MutexTypes
    <3>2. k \in Mutex \ OSEventAllocated
      BY <3>1, LeastMutex
    <3> QED  BY <2>2, <3>2 DEF OSMutexCreate
  <2> QED  BY <2>1, <2>2
<1>6. \A n \in Mutex : n \notin OSEventAllocated =>
        /\ OSEventState[n] = "cleared"
        /\ \A t \in Task : ~ InHands(t, n) /\ (at[t] = "mutex" => event[t] # n)
  BY DEF MutexInv, Users, Waiters
<1>7. MutexTypes'
  <2>1. PriorityVector' \in [Prio -> Task \cup {IdleTask, MUTEX_PRIO, EMPTY_PRIO}]
    BY <1>1 DEF MutexInv, MutexTypes
  <2>2. /\ OSEventAllocated \subseteq Mutex /\ OSMaxPriority \in [Mutex -> Prio]
        /\ OSEventState \in [Mutex -> {"cleared", "available", "busy"}]
        /\ OSEventWait \in [Mutex -> Nat] /\ OSEventWaitList \in [Mutex -> SUBSET Prio]
    BY DEF MutexInv, MutexTypes
  <2>3. OSEventAllocated' \subseteq Mutex
    BY <1>5, <2>2
  <2>4. OSEventState' \in [Mutex -> {"cleared", "available", "busy"}]
    BY <1>5, <2>2
  <2>5. OSMaxPriority' \in [Mutex -> Prio]
    BY <1>1, <1>5, <2>2
  <2>6. OSEventWait' \in [Mutex -> Nat]
    BY <1>5, <2>2
  <2>7. OSEventWaitList' \in [Mutex -> SUBSET Prio]
    BY <1>5, <2>2
  <2> QED  BY <1>1, <2>1, <2>3, <2>4, <2>5, <2>6, <2>7
          DEF MutexInv, MutexTypes, lists, timing
<1>8. Stacks'
  <2>1. ASSUME NEW t \in Task
        PROVE  Stacked(t, held[t], Priority[t], PriorityVector', OSOriginalPriority, OSMaxPriority')
    <3>1. \A j \in 1 .. Len(held[t]) : OSMaxPriority[held[t][j]] = OSMaxPriority'[held[t][j]]
      BY <1>5, HeldInUse DEF MutexInv, MutexTypes
    <3>2. Stacked(t, held[t], Priority[t], PriorityVector, OSOriginalPriority, OSMaxPriority)
          /\ held[t] \in Seq(Mutex)
      BY DEF MutexInv, Stacks, MutexTypes
    <3> QED  BY <1>4, <3>1, <3>2, StackedSame
  <2> QED  BY <1>1, <2>1 DEF Stacks
<1>9. CeilingsApart'
  <2>1. \A p \in Prio : PriorityVector[p] # EMPTY_PRIO => PriorityVector'[p] = PriorityVector[p]
    BY <1>1 DEF MutexInv, MutexTypes
  <2>2. PriorityVector'[0] = IdleTask /\ PriorityVector'[h] = MUTEX_PRIO /\ MUTEX_PRIO # EMPTY_PRIO
    BY <1>1, PrioNat DEF MutexInv, MutexTypes, CeilingsApart, MUTEX_PRIO, EMPTY_PRIO
  <2>3. \A t \in Task : h # InstalledPriority[t]
    <3>1. \A t \in Task : Top(t, held[t], OSMaxPriority, 0) # h
      BY <1>3 DEF MutexInv, MutexTypes
    <3> QED  BY <3>1, TopZero
  <2>4. \A n \in OSEventAllocated : OSMaxPriority[n] # h /\ OSMaxPriority[n] \in Prio
    BY <1>1 DEF MutexInv, MutexTypes, CeilingsApart
  <2>5. \A n \in OSEventAllocated' :
          \/ n \in OSEventAllocated /\ OSMaxPriority'[n] = OSMaxPriority[n]
          \/ n = m /\ m \notin OSEventAllocated /\ OSMaxPriority'[n] = h
    BY <1>5 DEF MutexInv, MutexTypes
  <2>6. \A n \in OSEventAllocated' :
          /\ OSMaxPriority'[n] \in 1 .. MaxPriority
          /\ PriorityVector'[OSMaxPriority'[n]] # EMPTY_PRIO
          /\ \A t \in Task : OSMaxPriority'[n] # InstalledPriority[t]
    BY <1>1, <2>1, <2>2, <2>3, <2>4, <2>5 DEF MutexInv, CeilingsApart
  <2>7. \A k, n \in OSEventAllocated' : OSMaxPriority'[n] = OSMaxPriority'[k] => n = k
    BY <2>4, <2>5 DEF MutexInv, CeilingsApart
  <2> QED  BY <2>2, <2>6, <2>7 DEF CeilingsApart
<1>10. ReadyTasks'
  BY <1>1 DEF MutexInv, ReadyTasks, lists, timing
<1>11. Waiters'
  <2>1. CASE UNCHANGED <<OSEventState, OSEventWait, OSEventWaitList>>
    BY <1>1, <2>1 DEF MutexInv, Waiters, lists
  <2>2. CASE m \in Mutex \ OSEventAllocated /\ ~ UNCHANGED <<OSEventState, OSEventWait, OSEventWaitList>>
    <3>1. /\ OSEventState' = [OSEventState EXCEPT ![m] = "available"]
          /\ OSEventWait' = [OSEventWait EXCEPT ![m] = 0]
          /\ OSEventWaitList' = [OSEventWaitList EXCEPT ![m] = {}]
      BY <1>5, <2>2
    <3>2. \A n \in Mutex \ {m} : /\ OSEventState'[n] = OSEventState[n]
                                 /\ OSEventWait'[n] = OSEventWait[n]
                                 /\ OSEventWaitList'[n] = OSEventWaitList[n]
      BY <3>1 DEF MutexInv, MutexTypes
    <3>3. OSEventWait'[m] = 0 /\ OSEventWaitList'[m] = {} /\ Cardinality({}) = 0
      BY <2>2, <3>1, FS_EmptySet DEF MutexInv, MutexTypes
    <3>4. \A t \in Task : at[t] = "mutex" => event[t] # m
      BY <1>6, <2>2
    <3>5. \A t \in Task : at[t] = "mutex" =>
            event[t] \in Mutex /\ OSEventState'[event[t]] = "busy"
      BY <3>2, <3>4 DEF MutexInv, Waiters
    <3>6. \A n \in Mutex : \A p \in OSEventWaitList'[n] : p \in OSEventWaitList[n]
      BY <3>2, <3>3
    <3>7. \A n \in Mutex : OSEventWait'[n] = Cardinality(OSEventWaitList'[n])
      BY <3>2, <3>3 DEF MutexInv, Waiters
    <3> QED  BY <1>1, <3>5, <3>6, <3>7 DEF MutexInv, Waiters, lists
  <2> QED  BY <1>5, <2>1, <2>2
<1>12. \A t \in Task : Chosen(t)' <=> Chosen(t)
  <2>1. \A t \in Task : at[t] = "mutex" => OSEventWaitList'[event[t]] = OSEventWaitList[event[t]]
    BY <1>5, <1>6 DEF MutexInv, MutexTypes, Waiters
  <2> QED  BY <1>1, <2>1 DEF Chosen
<1>13. \A t \in Task : \A n : InHands(t, n)' <=> InHands(t, n)
  BY <1>1, <1>12 DEF InHands, Holds
<1>14. Users'
  <2>1. \A n \in Mutex : OSEventState'[n] = "cleared" <=> n \notin OSEventAllocated'
    BY <1>5 DEF MutexInv, MutexTypes, Users
  <2>2. \A n \in Mutex : OSEventState'[n] = "busy" <=> OSEventState[n] = "busy"
    BY <1>5, <1>6 DEF MutexInv, MutexTypes
  <2>3. \A n \in Mutex : \A t \in Task : OSEventOwner'[n] = t <=> Holds(t, n)'
    BY <1>1 DEF MutexInv, Users, Holds
  <2>4. \A t \in Task : at'[t] = "mutex" => ~ Holds(t, event[t])'
    BY <1>1 DEF MutexInv, Users, Holds
  <2> QED  BY <1>13, <2>1, <2>2, <2>3, <2>4 DEF MutexInv, Users
<1>15. NoTaskLost'
  BY <1>1, <1>12 DEF MutexInv, NoTaskLost, lists, timing
<1> QED  BY <1>7, <1>8, <1>9, <1>10, <1>11, <1>14, <1>15 DEF MutexInv

\* A mutex that is available is in nobody's hands.
LEMMA DeleteStep ==
    ASSUME MutexInv, NEW m \in Mutex, OSMutexDelete(m)
    PROVE  MutexInv'
<1>1. /\ m \in OSEventAllocated /\ OSEventState[m] = "available"
      /\ OSEventAllocated' = OSEventAllocated \ {m}
      /\ OSEventState' = [OSEventState EXCEPT ![m] = "cleared"]
      /\ OSMaxPriority' = [OSMaxPriority EXCEPT ![m] = 0]
      /\ OSOriginalPriority' = [OSOriginalPriority EXCEPT ![m] = 0]
      /\ UNCHANGED <<currentTask, iNesting, lists, prios, timing, at,
                     OSEventOwner, OSEventWait, OSEventWaitList, event, held>>
  BY DEF OSMutexDelete, kvars
<1>2. MutexTypes'
  BY <1>1, PrioNat DEF MutexInv, MutexTypes, lists, prios, timing
<1>3. Stacks'
  <2>1. ASSUME NEW t \in Task
        PROVE  Stacked(t, held[t], Priority[t], PriorityVector, OSOriginalPriority', OSMaxPriority')
    <3>1. \A j \in 1 .. Len(held[t]) :
             /\ OSMaxPriority[held[t][j]] = OSMaxPriority'[held[t][j]]
             /\ OSOriginalPriority[held[t][j]] = OSOriginalPriority'[held[t][j]]
      BY <1>1, HeldInUse DEF MutexInv, MutexTypes
    <3>2. Stacked(t, held[t], Priority[t], PriorityVector, OSOriginalPriority, OSMaxPriority)
          /\ held[t] \in Seq(Mutex)
      BY DEF MutexInv, Stacks, MutexTypes
    <3>3. \A n \in 0 .. Len(held[t]) : PriorityVector[Top(t, held[t], OSMaxPriority, n)] = t
      BY <3>2 DEF Stacked
    <3> QED  BY <3>1, <3>2, <3>3, StackedSame
  <2> QED  BY <1>1, <2>1 DEF Stacks, prios
<1>4. CeilingsApart'
  BY <1>1 DEF MutexInv, MutexTypes, CeilingsApart, prios
<1>5. ReadyTasks'
  BY <1>1 DEF MutexInv, ReadyTasks, lists, timing, prios
<1>6. Waiters'
  BY <1>1 DEF MutexInv, MutexTypes, Waiters, lists, prios
<1>7. \A t \in Task : Chosen(t)' <=> Chosen(t)
  BY <1>1 DEF Chosen, prios
<1>8. \A t \in Task : \A n : InHands(t, n)' <=> InHands(t, n)
  BY <1>1, <1>7 DEF InHands, Holds
<1>9. Users'
  BY <1>1, <1>8 DEF MutexInv, MutexTypes, Users, Holds
<1>10. NoTaskLost'
  BY <1>1, <1>7 DEF MutexInv, NoTaskLost, lists, timing, prios
<1> QED  BY <1>2, <1>3, <1>4, <1>5, <1>6, <1>9, <1>10 DEF MutexInv

-----------------------------------------------------------------------------
\* A change of the running task's priority.

\* R is a ready list in which the running task's new priority replaces the old.
Repricing(R) ==
    /\ MutexInv
    /\ iNesting = 0 /\ currentTask \in Task
    /\ Priority' \in [Task -> 1 .. MaxPriority]
    /\ \A u \in Task : u # currentTask => Priority'[u] = Priority[u]
    /\ R = (OSReadyList \ {Priority[currentTask]}) \cup {Priority'[currentTask]}
    /\ \A t, u \in Task : Priority'[t] = Priority'[u] => t = u

\* Nobody else becomes ready, or stops being ready.
LEMMA Repriced ==
    ASSUME NEW R, Repricing(R)
    PROVE  /\ R \subseteq Prio /\ R \subseteq {0} \cup {Priority'[u] : u \in Task}
           /\ \A u \in Task : u # currentTask => (Priority'[u] \in R <=> Priority[u] \in OSReadyList)
           /\ \A n \in Mutex : \A x \in OSEventWaitList[n] :
                /\ x \notin R
                /\ \E u \in Task : /\ u # currentTask /\ at[u] = "mutex" /\ event[u] = n
                                   /\ Priority[u] = x /\ Priority'[u] = x
           /\ \A u \in delayList : /\ u \in Task /\ u # currentTask /\ at[u] = "delay"
                                   /\ Priority'[u] \notin R
<1> USE DEF Repricing
<1>1. /\ \A t, u \in Task : Priority[t] = Priority[u] => t = u
      /\ \A t \in Task : Priority[t] \in Prio
  BY Distinct
<1>2. R \subseteq Prio
  <2>1. Priority'[currentTask] \in Prio
    BY TaskAssumption DEF Prio
  <2> QED  BY <2>1 DEF MutexInv, MutexTypes
<1>3. R \subseteq {0} \cup {Priority'[u] : u \in Task}
  <2>1. ASSUME NEW x \in R, x # 0 PROVE \E u \in Task : x = Priority'[u]
    <3>1. CASE x = Priority'[currentTask]
      BY <3>1
    <3>2. CASE x \in OSReadyList /\ x # Priority[currentTask]
      <4>1. PICK u \in Task : x = Priority[u]
        BY <2>1, <3>2 DEF MutexInv, ReadyTasks
      <4> QED  BY <3>2, <4>1
    <3> QED  BY <3>1, <3>2
  <2> QED  BY <2>1
<1>4. \A u \in Task : u # currentTask => (Priority'[u] \in R <=> Priority[u] \in OSReadyList)
  BY <1>1
<1>5. ASSUME NEW n \in Mutex, NEW x \in OSEventWaitList[n]
      PROVE  /\ x \notin R
             /\ \E u \in Task : /\ u # currentTask /\ at[u] = "mutex" /\ event[u] = n
                                /\ Priority[u] = x /\ Priority'[u] = x
  <2>1. PICK u \in Task : at[u] = "mutex" /\ event[u] = n /\ Priority[u] = x
    BY DEF MutexInv, Waiters
  <2>2. u # currentTask /\ x \notin OSReadyList
    BY <2>1, RunnerReady DEF MutexInv, Waiters
  <2> QED  BY <1>4, <2>1, <2>2
<1>6. ASSUME NEW u \in delayList
      PROVE  /\ u \in Task /\ u # currentTask /\ at[u] = "delay"
             /\ Priority'[u] \notin R
  <2>1. u \in Task /\ u # currentTask /\ at[u] = "delay" /\ Priority[u] \notin OSReadyList
    BY RunnerReady DEF MutexInv, MutexTypes, ReadyTasks
  <2> QED  BY <1>4, <2>1
<1> HIDE DEF Repricing
<1> QED  BY <1>2, <1>3, <1>4, <1>5, <1>6

-----------------------------------------------------------------------------
\* Acquiring.

\* A mutex on top of a stack.
LEMMA StackPush ==
    ASSUME NEW t \in Task, NEW s \in Seq(Mutex), NEW c \in [Mutex -> Prio], NEW m \in Mutex,
           NEW p, NEW h, NEW v, NEW w, NEW o, NEW q,
           \A i \in 1 .. Len(s) : s[i] # m,
           Stacked(t, s, p, v, o, c),
           \A i \in 1 .. Len(s) : q[s[i]] = o[s[i]], q[m] = p,
           h = IF c[m] > p THEN c[m] ELSE p,
           \A n \in 0 .. Len(s) : w[Top(t, s, c, n)] = t, w[h] = t
    PROVE  Stacked(t, Append(s, m), h, w, q, c)
<1> DEFINE r == Append(s, m)
<1>1. /\ r \in Seq(Mutex) /\ Len(r) = Len(s) + 1 /\ Len(s) \in Nat
      /\ \A i \in 1 .. Len(s) : r[i] = s[i]
      /\ r[Len(s) + 1] = m
  OBVIOUS
<1> HIDE DEF r
<1>2. ASSUME NEW n \in 0 .. Len(s) PROVE Top(t, r, c, n) = Top(t, s, c, n)
  <2>1. \A j \in 1 .. n : c[r[j]] = c[s[j]]
    BY <1>1
  <2> QED  BY <2>1, TopSame
<1>3. p = Top(t, s, c, Len(s)) /\ Top(t, r, c, Len(s)) = p
  BY <1>1, <1>2 DEF Stacked
<1>4. Top(t, r, c, Len(s) + 1) = h
  <2>1. Len(s) + 1 \in 1 .. Len(r) /\ Len(s) + 1 - 1 = Len(s)
    BY <1>1
  <2>2. Top(t, r, c, Len(s) + 1) = IF c[r[Len(s) + 1]] > Top(t, r, c, Len(s) + 1 - 1)
                                   THEN c[r[Len(s) + 1]] ELSE Top(t, r, c, Len(s) + 1 - 1)
    BY <1>1, <2>1, TopNext
  <2> QED  BY <1>1, <1>3, <2>1, <2>2
<1>5. \A i, j \in 1 .. Len(r) : r[i] = r[j] => i = j
  <2>1. \A i, j \in 1 .. Len(s) : s[i] = s[j] => i = j
    BY DEF Stacked
  <2>2. \A i \in 1 .. Len(r) : i \in 1 .. Len(s) \/ i = Len(s) + 1
    BY <1>1
  <2> QED  BY <1>1, <2>1, <2>2
<1>6. \A i \in 1 .. Len(r) : q[r[i]] = Top(t, r, c, i - 1)
  <2>1. ASSUME NEW i \in 1 .. Len(s) PROVE q[r[i]] = Top(t, r, c, i - 1)
    <3>1. i - 1 \in 0 .. Len(s) /\ o[s[i]] = Top(t, s, c, i - 1)
      BY <1>1 DEF Stacked
    <3> QED  BY <1>1, <1>2, <3>1
  <2>2. q[r[Len(s) + 1]] = Top(t, r, c, Len(s) + 1 - 1)
    BY <1>1, <1>3
  <2>3. \A i \in 1 .. Len(r) : i \in 1 .. Len(s) \/ i = Len(s) + 1
    BY <1>1
  <2> QED  BY <2>1, <2>2, <2>3
<1>7. \A n \in 0 .. Len(r) : w[Top(t, r, c, n)] = t
  <2>1. \A n \in 0 .. Len(r) : n \in 0 .. Len(s) \/ n = Len(s) + 1
    BY <1>1
  <2> QED  BY <1>2, <1>4, <2>1
<1>8. h = Top(t, r, c, Len(r))
  BY <1>1, <1>4
<1>9. Stacked(t, r, h, w, q, c)
  BY <1>5, <1>6, <1>7, <1>8 DEF Stacked
<1> QED  BY <1>9 DEF r

\* The new owner runs at the ceiling, and the priority it had is saved.
LEMMA NewOwner ==
    ASSUME MutexInv, NEW t \in Task, t = currentTask, iNesting = 0,
           NEW m \in OSEventAllocated, \A u \in Task : ~ Holds(u, m),
           BecomeOwner(t, m, Priority[t]), UNCHANGED <<OSMaxPriority, OSEventAllocated>>
    PROVE  /\ Stacks' /\ CeilingsApart'
           /\ Repricing(OSReadyList')
           /\ PriorityVector' \in [Prio -> Task \cup {IdleTask, MUTEX_PRIO, EMPTY_PRIO}]
           /\ OSEventOwner' = [OSEventOwner EXCEPT ![m] = t]
           /\ OSOriginalPriority' \in [Mutex -> Prio]
           /\ held' \in [Task -> Seq(Mutex)]
           /\ \A u \in Task : \A n \in Mutex : Holds(u, n)' <=> Holds(u, n) \/ (u = t /\ n = m)
<1> DEFINE p == Priority[t]
           c == OSMaxPriority[m]
           h == IF c > p THEN c ELSE p
<1>1. /\ m \in Mutex /\ c \in 1 .. MaxPriority /\ c \in Prio /\ p \in 1 .. MaxPriority /\ p \in Prio
      /\ c # 0 /\ MaxPriority \in Nat
  BY TaskAssumption DEF MutexInv, MutexTypes, CeilingsApart, Prio
<1>2. /\ OSEventOwner' = [OSEventOwner EXCEPT ![m] = t]
      /\ OSOriginalPriority' = [OSOriginalPriority EXCEPT ![m] = p]
      /\ held' = [held EXCEPT ![t] = Append(held[t], m)]
  BY DEF BecomeOwner, MutexInv, MutexTypes
<1>3. \/ /\ c > p
         /\ Priority' = [Priority EXCEPT ![t] = c]
         /\ PriorityVector' = [PriorityVector EXCEPT ![c] = t]
         /\ OSReadyList' = (OSReadyList \ {p}) \cup {c}
      \/ ~ (c > p) /\ UNCHANGED <<Priority, PriorityVector, OSReadyList>>
  BY DEF BecomeOwner, Promote, prios
<1>4. p \in OSReadyList /\ PriorityVector[p] = t
  BY RunnerReady, Distinct
<1>5. /\ Priority' \in [Task -> 1 .. MaxPriority]
      /\ Priority'[t] = h
      /\ \A u \in Task : u # t => Priority'[u] = Priority[u]
  <2>1. Priority \in [Task -> 1 .. MaxPriority]
    BY DEF MutexInv, MutexTypes
  <2> QED  BY <1>1, <1>3, <2>1
<1>6. OSReadyList' = (OSReadyList \ {p}) \cup {h}
  BY <1>3, <1>4
<1>7. /\ PriorityVector' \in [Prio -> Task \cup {IdleTask, MUTEX_PRIO, EMPTY_PRIO}]
      /\ PriorityVector'[h] = t
      /\ \A x \in Prio : x # c => PriorityVector'[x] = PriorityVector[x]
      /\ \A x \in Prio : PriorityVector'[x] = PriorityVector[x] \/ PriorityVector'[x] = t
  <2>1. PriorityVector \in [Prio -> Task \cup {IdleTask, MUTEX_PRIO, EMPTY_PRIO}]
    BY DEF MutexInv, MutexTypes
  <2> QED  BY <1>1, <1>3, <1>4, <2>1
<1>8. OSOriginalPriority' \in [Mutex -> Prio] /\ OSOriginalPriority'[m] = p
      /\ \A n \in Mutex : n # m => OSOriginalPriority'[n] = OSOriginalPriority[n]
  BY <1>1, <1>2 DEF MutexInv, MutexTypes
<1>9. /\ held' \in [Task -> Seq(Mutex)] /\ held'[t] = Append(held[t], m)
      /\ \A u \in Task : held[u] \in Seq(Mutex) /\ (u # t => held'[u] = held[u])
  <2>1. held \in [Task -> Seq(Mutex)]
    BY DEF MutexInv, MutexTypes
  <2>2. Append(held[t], m) \in Seq(Mutex)
    BY <1>1, <2>1
  <2> QED  BY <1>2, <2>1, <2>2
<1>10. ASSUME NEW u \in Task PROVE \A i \in 1 .. Len(held[u]) : held[u][i] # m
  BY DEF Holds
<1> HIDE DEF h, c, p
<1>11. ASSUME NEW u \in Task, NEW n \in 0 .. Len(held[u])
       PROVE  PriorityVector'[Top(u, held[u], OSMaxPriority, n)] = u
  <2>1. Top(u, held[u], OSMaxPriority, n) \in Prio
    BY <1>9, TopIn DEF MutexInv, MutexTypes
  <2>2. \A j \in 1 .. n : held[u][j] # m
    BY <1>9, <1>10
  <2>3. Top(u, held[u], OSMaxPriority, n) # c
    BY <2>2, TopApart DEF c
  <2>4. PriorityVector[Top(u, held[u], OSMaxPriority, n)] = u
    BY DEF MutexInv, Stacks, Stacked
  <2> QED  BY <1>7, <2>1, <2>3, <2>4
<1>12. ASSUME NEW u \in Task
       PROVE  Stacked(u, held[u], Priority[u], PriorityVector, OSOriginalPriority, OSMaxPriority)
              /\ \A i \in 1 .. Len(held[u]) : OSOriginalPriority'[held[u][i]] = OSOriginalPriority[held[u][i]]
  BY <1>8, <1>9, <1>10, HeldInUse DEF MutexInv, Stacks
<1>13. Stacked(t, held'[t], Priority'[t], PriorityVector', OSOriginalPriority', OSMaxPriority)
  <2>1. OSMaxPriority \in [Mutex -> Prio] /\ h = IF OSMaxPriority[m] > Priority[t] THEN OSMaxPriority[m] ELSE Priority[t]
    BY DEF MutexInv, MutexTypes, h, c, p
  <2>2. OSOriginalPriority'[m] = Priority[t]
    BY <1>8 DEF p
  <2>3. Stacked(t, Append(held[t], m), h, PriorityVector', OSOriginalPriority', OSMaxPriority)
    <3>1. /\ held[t] \in Seq(Mutex) /\ \A i \in 1 .. Len(held[t]) : held[t][i] # m
          /\ Stacked(t, held[t], Priority[t], PriorityVector, OSOriginalPriority, OSMaxPriority)
          /\ \A i \in 1 .. Len(held[t]) : OSOriginalPriority'[held[t][i]] = OSOriginalPriority[held[t][i]]
          /\ \A n \in 0 .. Len(held[t]) : PriorityVector'[Top(t, held[t], OSMaxPriority, n)] = t
          /\ PriorityVector'[h] = t /\ m \in Mutex
      BY <1>1, <1>7, <1>9, <1>10, <1>11, <1>12
    <3>2. t \in Task
      OBVIOUS
    <3> QED  BY ONLY <2>1, <2>2, <3>1, <3>2, StackPush, ZenonT(30)
  <2> QED  BY <1>5, <1>9, <2>3
<1>14. ASSUME NEW u \in Task, u # t
       PROVE  Stacked(u, held'[u], Priority'[u], PriorityVector', OSOriginalPriority', OSMaxPriority)
  <2>1. /\ held[u] \in Seq(Mutex) /\ held'[u] = held[u] /\ Priority'[u] = Priority[u]
        /\ Stacked(u, held[u], Priority[u], PriorityVector, OSOriginalPriority, OSMaxPriority)
        /\ \A i \in 1 .. Len(held[u]) : OSOriginalPriority[held[u][i]] = OSOriginalPriority'[held[u][i]]
        /\ \A n \in 0 .. Len(held[u]) : PriorityVector'[Top(u, held[u], OSMaxPriority, n)] = u
    BY <1>5, <1>9, <1>11, <1>12, <1>14
  <2>2. Stacked(u, held[u], Priority[u], PriorityVector', OSOriginalPriority', OSMaxPriority)
    BY <2>1, StackedSame
  <2> QED  BY <2>1, <2>2
<1>15. Stacks'
  <2>1. \A u \in Task : Stacked(u, held'[u], Priority'[u], PriorityVector', OSOriginalPriority', OSMaxPriority)
    BY <1>13, <1>14
  <2> QED  BY <2>1 DEF Stacks
<1>16. CeilingsApart'
  <2>1. PriorityVector'[0] = IdleTask
    BY <1>1, <1>7, PrioNat DEF MutexInv, CeilingsApart
  <2>2. \A u \in Task : u # EMPTY_PRIO
    BY TaskAssumption DEF Task, EMPTY_PRIO, MUTEX_PRIO
  <2>3. \A n \in OSEventAllocated : PriorityVector'[OSMaxPriority[n]] # EMPTY_PRIO
    BY <1>7, <2>2 DEF MutexInv, MutexTypes, CeilingsApart
  <2> QED  BY <2>1, <2>3 DEF MutexInv, CeilingsApart
<1>17. Repricing(OSReadyList')
  <2>1. \A u, v \in Task : Priority'[u] = Priority'[v] => u = v
    BY <1>9, <1>15, DistinctNext
  <2> QED  BY <1>5, <1>6, <2>1 DEF Repricing, p
<1>18. ASSUME NEW u \in Task, NEW n \in Mutex
       PROVE  Holds(u, n)' <=> Holds(u, n) \/ (u = t /\ n = m)
  <2>1. CASE u # t
    BY <1>9, <2>1 DEF Holds
  <2>2. CASE u = t
    <3> DEFINE s == held[t]
               r == Append(s, m)
    <3>1. /\ r \in Seq(Mutex) /\ Len(r) = Len(s) + 1 /\ Len(s) \in Nat
          /\ \A i \in 1 .. Len(s) : r[i] = s[i]
          /\ r[Len(s) + 1] = m
      BY <1>1, <1>9
    <3>2. held'[t] = r /\ Len(s) + 1 \in 1 .. Len(r)
      BY <1>9, <3>1
    <3>3. \A i \in 1 .. Len(r) : i \in 1 .. Len(s) \/ i = Len(s) + 1
      BY <3>1
    <3>4. \A i \in 1 .. Len(s) : i \in 1 .. Len(r)
      BY <3>1
    <3> HIDE DEF r
    <3>5. (\E i \in 1 .. Len(r) : r[i] = n) <=> (\E i \in 1 .. Len(s) : s[i] = n) \/ n = m
      BY <3>1, <3>2, <3>3, <3>4
    <3> QED  BY <2>2, <3>2, <3>5 DEF Holds
  <2> QED  BY <2>1, <2>2
<1> QED  BY <1>2, <1>5, <1>7, <1>8, <1>9, <1>15, <1>16, <1>17, <1>18

\* A task takes a mutex that is in nobody else's hands.
LEMMA AcquireStep ==
    ASSUME MutexInv, NEW t \in Task, t = currentTask, iNesting = 0,
           NEW m \in OSEventAllocated, \A u \in Task : ~ Holds(u, m),
           \A u \in Task : u # t => ~ InHands(u, m),
           Chosen(t) => event[t] = m,
           BecomeOwner(t, m, Priority[t]),
           OSEventState' = [OSEventState EXCEPT ![m] = "busy"],
           at' \in [Task -> {"run", "delay", "mutex"}], at'[t] = "run",
           event' \in [Task -> Mutex \cup {NoMutex}],
           \A u \in Task : u # t => at'[u] = at[u] /\ event'[u] = event[u],
           UNCHANGED <<currentTask, iNesting, OSBlockedList, delayList, OSEventAllocated,
                       OSMaxPriority, OSEventWait, OSEventWaitList>>
    PROVE  MutexInv'
<1>1. /\ Stacks' /\ CeilingsApart'
      /\ Repricing(OSReadyList')
      /\ PriorityVector' \in [Prio -> Task \cup {IdleTask, MUTEX_PRIO, EMPTY_PRIO}]
      /\ OSEventOwner' = [OSEventOwner EXCEPT ![m] = t]
      /\ OSOriginalPriority' \in [Mutex -> Prio]
      /\ held' \in [Task -> Seq(Mutex)]
      /\ \A u \in Task : \A n \in Mutex : Holds(u, n)' <=> Holds(u, n) \/ (u = t /\ n = m)
  BY NewOwner
<1>2. /\ OSReadyList' \subseteq Prio /\ OSReadyList' \subseteq {0} \cup {Priority'[u] : u \in Task}
      /\ \A u \in Task : u # t => (Priority'[u] \in OSReadyList' <=> Priority[u] \in OSReadyList)
      /\ \A n \in Mutex : \A x \in OSEventWaitList[n] :
           /\ x \notin OSReadyList'
           /\ \E u \in Task : /\ u # t /\ at[u] = "mutex" /\ event[u] = n
                              /\ Priority[u] = x /\ Priority'[u] = x
      /\ \A u \in delayList : /\ u \in Task /\ u # t /\ at[u] = "delay"
                              /\ Priority'[u] \notin OSReadyList'
  BY <1>1, Repriced
<1>3. /\ Priority' \in [Task -> 1 .. MaxPriority]
      /\ \A u \in Task : u # t => Priority'[u] = Priority[u]
      /\ Priority'[t] \in OSReadyList'
  BY <1>1 DEF Repricing
<1>4. /\ m \in Mutex
      /\ OSEventState' \in [Mutex -> {"cleared", "available", "busy"}]
      /\ OSEventState'[m] = "busy"
      /\ \A n \in Mutex : n # m => OSEventState'[n] = OSEventState[n]
      /\ OSEventOwner' \in [Mutex -> Task \cup {NoOwner}] /\ OSEventOwner'[m] = t
      /\ \A n \in Mutex : n # m => OSEventOwner'[n] = OSEventOwner[n]
  BY <1>1 DEF MutexInv, MutexTypes
<1>5. MutexTypes'
  BY <1>1, <1>2, <1>3, <1>4 DEF MutexInv, MutexTypes
<1>6. ReadyTasks'
  BY <1>2, <1>3 DEF ReadyTasks
<1>7. Waiters'
  <2>1. \A u \in Task : at'[u] = "mutex" => event'[u] \in Mutex /\ OSEventState'[event'[u]] = "busy"
    BY <1>4 DEF MutexInv, Waiters
  <2>2. \A n \in Mutex : \A x \in OSEventWaitList'[n] :
          /\ x \notin OSReadyList'
          /\ \E u \in Task : at'[u] = "mutex" /\ event'[u] = n /\ Priority'[u] = x
    BY <1>2
  <2>3. \A n \in Mutex : OSEventWait'[n] = Cardinality(OSEventWaitList'[n])
    BY DEF MutexInv, Waiters
  <2> QED  BY <2>1, <2>2, <2>3 DEF Waiters
<1>8. \A u \in Task : u # t => (Chosen(u)' <=> Chosen(u))
  BY <1>3 DEF Chosen
<1>9. ~ Chosen(t)'
  BY DEF Chosen
<1>10. \A u \in Task : \A n \in Mutex : InHands(u, n)' <=> InHands(u, n) \/ (u = t /\ n = m)
  <2>1. ASSUME NEW u \in Task, u # t, NEW n \in Mutex PROVE InHands(u, n)' <=> InHands(u, n)
    BY <1>1, <1>8, <2>1 DEF InHands
  <2>2. ASSUME NEW n \in Mutex PROVE InHands(t, n)' <=> InHands(t, n) \/ n = m
    BY <1>1, <1>9 DEF InHands
  <2> QED  BY <2>1, <2>2
<1>11. Users'
  <2>1. \A n \in Mutex : OSEventState'[n] = "cleared" <=> n \notin OSEventAllocated'
    BY <1>4 DEF MutexInv, Users
  <2>2. \A n \in Mutex : \A u \in Task : OSEventOwner'[n] = u <=> Holds(u, n)'
    BY <1>1, <1>4 DEF MutexInv, Users
  <2>3. \A u \in Task : at'[u] = "mutex" => ~ Holds(u, event[u])'
    <3>1. ASSUME NEW u \in Task, at'[u] = "mutex" PROVE ~ Holds(u, event[u])'
      <4>1. u # t /\ at[u] = "mutex" /\ event'[u] = event[u]
        BY <3>1
      <4>2. event[u] \in Mutex /\ ~ Holds(u, event[u])
        BY <4>1 DEF MutexInv, Waiters, Users
      <4>3. held'[u] = held[u]
        BY <4>1 DEF BecomeOwner, MutexInv, MutexTypes
      <4> QED  BY <4>1, <4>2, <4>3 DEF Holds
    <3> QED  BY <3>1
  <2>4. \A n \in Mutex : \A u, v \in Task : InHands(u, n)' /\ InHands(v, n)' => u = v
    BY <1>10 DEF MutexInv, Users
  <2>5. \A n \in Mutex : OSEventState'[n] = "busy" <=> \E u \in Task : InHands(u, n)'
    <3>1. ASSUME NEW n \in Mutex, n # m
          PROVE  OSEventState'[n] = "busy" <=> \E u \in Task : InHands(u, n)'
      BY <1>4, <1>10, <3>1 DEF MutexInv, Users
    <3>2. InHands(t, m)'
      BY <1>4, <1>10
    <3> QED  BY <1>4, <3>1, <3>2
  <2> QED  BY <2>1, <2>2, <2>3, <2>4, <2>5 DEF Users
<1>12. NoTaskLost'
  BY <1>2, <1>3, <1>8 DEF MutexInv, NoTaskLost
<1> QED  BY <1>1, <1>5, <1>6, <1>7, <1>11, <1>12 DEF MutexInv

LEMMA AcquireFreeStep ==
    ASSUME MutexInv, NEW m \in Mutex, OSMutexAcquireFree(m)
    PROVE  MutexInv'
<1>1. /\ iNesting = 0 /\ currentTask \in Task /\ at[currentTask] = "run"
      /\ m \in OSEventAllocated /\ OSEventState[m] = "available"
      /\ OSEventState' = [OSEventState EXCEPT ![m] = "busy"]
      /\ BecomeOwner(currentTask, m, Priority[currentTask])
      /\ UNCHANGED <<currentTask, iNesting, OSBlockedList, timing, at, OSEventAllocated,
                     OSMaxPriority, OSEventWait, OSEventWaitList, event>>
  BY DEF OSMutexAcquireFree, InTask
<1>2. \A u \in Task : ~ InHands(u, m) /\ ~ Holds(u, m)
  BY <1>1 DEF MutexInv, Users, InHands
<1>3. ~ Chosen(currentTask)
  BY <1>1 DEF Chosen
<1>4. /\ at' \in [Task -> {"run", "delay", "mutex"}] /\ at'[currentTask] = "run"
      /\ event' \in [Task -> Mutex \cup {NoMutex}]
      /\ \A u \in Task : at'[u] = at[u] /\ event'[u] = event[u]
      /\ UNCHANGED delayList
  BY <1>1 DEF MutexInv, MutexTypes, timing
<1> QED  BY <1>1, <1>2, <1>3, <1>4, AcquireStep

\* A waiter that runs again was chosen: its mutex is in its hands only.
LEMMA AcquiredStep ==
    ASSUME MutexInv, NEW t \in Task, OSMutexAcquired(t)
    PROVE  MutexInv'
<1> DEFINE m == event[t]
<1>1. /\ iNesting = 0 /\ currentTask = t /\ at[t] = "mutex"
      /\ BecomeOwner(t, m, Priority[t])
      /\ at' = [at EXCEPT ![t] = "run"]
      /\ event' = [event EXCEPT ![t] = NoMutex]
      /\ UNCHANGED <<currentTask, iNesting, OSBlockedList, timing, OSEventAllocated,
                     OSEventState, OSMaxPriority, OSEventWait, OSEventWaitList>>
  BY DEF OSMutexAcquired, Resumed
<1>2. m \in Mutex /\ OSEventState[m] = "busy" /\ m \in OSEventAllocated
  BY <1>1 DEF MutexInv, Waiters, Users
<1>3. Chosen(t)
  BY <1>1, <1>2, RunnerReady DEF Chosen
<1>4. \A u \in Task : u # t => ~ InHands(u, m)
  BY <1>2, <1>3 DEF MutexInv, Users, InHands
<1>5. \A u \in Task : ~ Holds(u, m)
  BY <1>1, <1>4 DEF MutexInv, Users, InHands
<1>6. OSEventState' = [OSEventState EXCEPT ![m] = "busy"]
  BY <1>1, <1>2 DEF MutexInv, MutexTypes
<1>7. /\ at' \in [Task -> {"run", "delay", "mutex"}] /\ at'[t] = "run"
      /\ event' \in [Task -> Mutex \cup {NoMutex}]
      /\ \A u \in Task : u # t => at'[u] = at[u] /\ event'[u] = event[u]
      /\ UNCHANGED delayList
  BY <1>1 DEF MutexInv, MutexTypes, timing
<1> HIDE DEF m
<1>8. Chosen(t) => event[t] = m
  BY DEF m
<1> QED  BY <1>1, <1>2, <1>4, <1>5, <1>6, <1>7, <1>8, AcquireStep

\* Sets of priorities are finite.
LEMMA PrioFinite ==
    ASSUME NEW S \in SUBSET Prio
    PROVE  IsFiniteSet(S)
<1>1. IsFiniteSet(0 .. MaxPriority)
  BY TaskAssumption, FS_Interval
<1> QED  BY <1>1, FS_Subset DEF Prio

\* The mutex is in somebody's hands: the task becomes one of its waiters.
LEMMA AcquireWaitStep ==
    ASSUME MutexInv, NEW m \in Mutex, OSMutexAcquireWait(m)
    PROVE  MutexInv'
<1>0. PICK t \in Task : t = currentTask
  BY DEF OSMutexAcquireWait, InTask
<1> DEFINE p == Priority[t]
<1>1. /\ iNesting = 0 /\ t = currentTask /\ at[t] = "run"
      /\ m \in OSEventAllocated /\ OSEventOwner[m] # t /\ OSEventState[m] = "busy"
      /\ OSEventWait' = [OSEventWait EXCEPT ![m] = OSEventWait[m] + 1]
      /\ OSEventWaitList' = [OSEventWaitList EXCEPT ![m] = OSEventWaitList[m] \cup {p}]
      /\ OSReadyList' = OSReadyList \ {p}
      /\ at' = [at EXCEPT ![t] = "mutex"]
      /\ event' = [event EXCEPT ![t] = m]
      /\ UNCHANGED <<iNesting, OSBlockedList, prios, timing, OSEventAllocated, OSEventState,
                     OSEventOwner, OSMaxPriority, OSOriginalPriority, held>>
      /\ ChangeContext
  BY <1>0 DEF OSMutexAcquireWait, InTask
<1>2. /\ \A n \in Mutex : p \notin OSEventWaitList[n]
      /\ t \notin delayList /\ p \in Prio /\ p \in 1 .. MaxPriority
      /\ \A u \in Task : u # t => Priority[u] # p
  BY <1>1, RunnerReady, Distinct DEF MutexInv, MutexTypes
<1>3. /\ at' \in [Task -> {"run", "delay", "mutex"}]
      /\ \A u \in Task : at'[u] = IF u = t THEN "mutex" ELSE at[u]
  BY <1>1 DEF MutexInv, MutexTypes
<1>4. /\ event' \in [Task -> Mutex \cup {NoMutex}]
      /\ \A u \in Task : event'[u] = IF u = t THEN m ELSE event[u]
  BY <1>1 DEF MutexInv, MutexTypes
<1>5. /\ OSEventWait' \in [Mutex -> Nat]
      /\ \A n \in Mutex : OSEventWait'[n] = IF n = m THEN OSEventWait[m] + 1 ELSE OSEventWait[n]
  BY <1>1 DEF MutexInv, MutexTypes
<1>6. /\ OSEventWaitList' \in [Mutex -> SUBSET Prio]
      /\ \A n \in Mutex : OSEventWaitList'[n] =
           IF n = m THEN OSEventWaitList[m] \cup {p} ELSE OSEventWaitList[n]
  BY <1>1, <1>2 DEF MutexInv, MutexTypes
<1>7. Stacks' /\ CeilingsApart'
  BY <1>1 DEF MutexInv, Stacks, CeilingsApart, prios
<1>8. held' \in [Task -> Seq(Mutex)] /\ OSReadyList' \subseteq Prio /\ OSBlockedList' = Prio
  BY <1>1 DEF MutexInv, MutexTypes
<1>9. OSReadyList' \subseteq {0} \cup {Priority'[u] : u \in Task}
  BY <1>1 DEF MutexInv, ReadyTasks, prios
<1>10. /\ currentTask' \in Task \cup {IdleTask}
       /\ currentTask' \in Task => Priority'[currentTask'] \in OSReadyList'
  BY <1>1, <1>7, <1>8, <1>9, Switched
<1>11. MutexTypes'
  BY <1>1, <1>3, <1>4, <1>5, <1>6, <1>8, <1>10 DEF MutexInv, MutexTypes, prios, timing
<1>12. ReadyTasks'
  <2>1. \A u \in delayList' : at'[u] = "delay" /\ Priority'[u] \notin OSReadyList'
    BY <1>1, <1>2, <1>3 DEF MutexInv, MutexTypes, ReadyTasks, prios, timing
  <2> QED  BY <1>9, <1>10, <2>1 DEF ReadyTasks
<1>13. Waiters'
  <2>1. \A u \in Task : at'[u] = "mutex" => event'[u] \in Mutex /\ OSEventState'[event'[u]] = "busy"
    BY <1>1, <1>3, <1>4 DEF MutexInv, Waiters
  <2>2. ASSUME NEW n \in Mutex, NEW x \in OSEventWaitList'[n]
        PROVE  /\ x \notin OSReadyList'
               /\ \E u \in Task : at'[u] = "mutex" /\ event'[u] = n /\ Priority'[u] = x
    <3>1. CASE n = m /\ x = p
      BY <1>1, <1>3, <1>4, <3>1 DEF prios
    <3>2. CASE x \in OSEventWaitList[n]
      <4>1. PICK u \in Task : at[u] = "mutex" /\ event[u] = n /\ Priority[u] = x
        BY <3>2 DEF MutexInv, Waiters
      <4>2. x \notin OSReadyList /\ u # t
        BY <1>1, <3>2, <4>1 DEF MutexInv, Waiters
      <4> QED  BY <1>1, <1>3, <1>4, <4>1, <4>2 DEF prios
    <3> QED  BY <1>6, <2>2, <3>1, <3>2
  <2>3. ASSUME NEW n \in Mutex PROVE OSEventWait'[n] = Cardinality(OSEventWaitList'[n])
    <3> DEFINE W == OSEventWaitList[m]
    <3>1. W \in SUBSET Prio /\ p \notin W
      BY <1>2 DEF MutexInv, MutexTypes
    <3>2. Cardinality(W \cup {p}) = Cardinality(W) + 1
      <4> HIDE DEF W, p
      <4> QED  BY <3>1, PrioFinite, FS_AddElement
    <3> QED  BY <1>5, <1>6, <3>2 DEF MutexInv, Waiters
  <2> QED  BY <2>1, <2>2, <2>3 DEF Waiters
<1>14. \A u \in Task : u # t => (Chosen(u)' <=> Chosen(u))
  <2>1. ASSUME NEW u \in Task, u # t, at[u] = "mutex"
        PROVE  Priority[u] \in OSEventWaitList'[event[u]] <=> Priority[u] \in OSEventWaitList[event[u]]
    <3>1. event[u] \in Mutex
      BY <2>1 DEF MutexInv, Waiters
    <3> QED  BY <1>2, <1>6, <2>1, <3>1
  <2> QED  BY <1>1, <1>3, <1>4, <2>1 DEF Chosen, prios
<1>15. ~ Chosen(t)' /\ ~ Chosen(t)
  BY <1>1, <1>4, <1>6 DEF Chosen, prios
<1>16. \A u \in Task : \A n \in Mutex : (Holds(u, n)' <=> Holds(u, n)) /\ (InHands(u, n)' <=> InHands(u, n))
  BY <1>1, <1>4, <1>14, <1>15 DEF InHands, Holds
<1>17. Users'
  <2>1. \A u \in Task : at'[u] = "mutex" => ~ Holds(u, event'[u])
    BY <1>1, <1>3, <1>4 DEF MutexInv, Users
  <2>2. \A u \in Task : at'[u] = "mutex" => ~ Holds(u, event[u])'
    BY <1>1, <2>1 DEF Holds
  <2> QED  BY <1>1, <1>16, <2>2 DEF MutexInv, Users
<1>18. NoTaskLost'
  <2>1. ASSUME NEW u \in Task, Priority'[u] \notin OSReadyList'
        PROVE  u \in delayList' \/ (at'[u] = "mutex" /\ ~ Chosen(u)')
    BY <1>1, <1>2, <1>3, <1>14, <1>15, <2>1 DEF MutexInv, NoTaskLost, prios, timing
  <2> QED  BY <2>1 DEF NoTaskLost
<1> QED  BY <1>7, <1>11, <1>12, <1>13, <1>17, <1>18 DEF MutexInv

-----------------------------------------------------------------------------
\* Releasing.

\* A stack without its last mutex.
LEMMA StackPop ==
    ASSUME NEW t \in Task, NEW s \in Seq(Mutex), NEW r \in Seq(Mutex), NEW c \in [Mutex -> Prio],
           Len(s) # 0, Len(r) = Len(s) - 1, \A i \in 1 .. Len(s) - 1 : r[i] = s[i],
           NEW p, NEW v, NEW w, NEW o, Stacked(t, s, p, v, o, c),
           \A n \in 0 .. Len(r) : w[Top(t, s, c, n)] = t
    PROVE  Stacked(t, r, o[s[Len(s)]], w, o, c)
<1>1. Len(s) \in Nat /\ Len(r) \in Nat /\ Len(s) \in 1 .. Len(s)
  OBVIOUS
<1>2. ASSUME NEW n \in 0 .. Len(r) PROVE Top(t, r, c, n) = Top(t, s, c, n)
  <2>1. \A j \in 1 .. n : c[r[j]] = c[s[j]]
    BY <1>1
  <2> QED  BY <2>1, TopSame
<1>3. \A i, j \in 1 .. Len(r) : r[i] = r[j] => i = j
  <2>1. \A i, j \in 1 .. Len(s) : s[i] = s[j] => i = j
    BY DEF Stacked
  <2> QED  BY <1>1, <2>1
<1>4. ASSUME NEW i \in 1 .. Len(r) PROVE o[r[i]] = Top(t, r, c, i - 1)
  <2>1. i \in 1 .. Len(s) /\ i - 1 \in 0 .. Len(r) /\ r[i] = s[i]
    BY <1>1
  <2>2. o[s[i]] = Top(t, s, c, i - 1)
    BY <2>1 DEF Stacked
  <2> QED  BY <1>2, <2>1, <2>2
<1>5. o[s[Len(s)]] = Top(t, r, c, Len(r))
  <2>1. o[s[Len(s)]] = Top(t, s, c, Len(s) - 1)
    BY <1>1 DEF Stacked
  <2> QED  BY <1>1, <1>2, <2>1
<1>6. \A n \in 0 .. Len(r) : w[Top(t, r, c, n)] = t
  BY <1>2
<1> QED  BY <1>3, <1>4, <1>5, <1>6 DEF Stacked

\* The releaser is back at the priority it had before it acquired m.
LEMMA Given ==
    ASSUME MutexInv, LifoRelease, NEW t \in Task, t = currentTask, NEW m \in Mutex, GiveUp(m)
    PROVE  /\ iNesting = 0 /\ at[t] = "run"
           /\ m \in OSEventAllocated /\ OSEventState[m] = "busy" /\ Holds(t, m)
           /\ Priority' \in [Task -> 1 .. MaxPriority]
           /\ \A u \in Task : u # t => Priority'[u] = Priority[u]
           /\ Restored(m) = (OSReadyList \ {Priority[t]}) \cup {Priority'[t]}
           /\ OSEventOwner' \in [Mutex -> Task \cup {NoOwner}] /\ OSEventOwner'[m] = NoOwner
           /\ \A n \in Mutex : n # m => OSEventOwner'[n] = OSEventOwner[n]
           /\ held' \in [Task -> Seq(Mutex)]
           /\ \A u \in Task : \A n \in Mutex : Holds(u, n)' <=> Holds(u, n) /\ n # m
           /\ \A w : (\A u \in Task : \A n \in 0 .. Len(held'[u]) :
                        w[Top(u, held[u], OSMaxPriority, n)] = u) =>
                     \A u \in Task : Stacked(u, held'[u], Priority'[u], w,
                                             OSOriginalPriority, OSMaxPriority)
           /\ \A u \in Task : /\ Len(held'[u]) \in 0 .. Len(held[u])
                              /\ \A j \in 1 .. Len(held'[u]) : held[u][j] # m
<1> DEFINE s == held[t]
           r == Drop(held[t], m)
           q == OSOriginalPriority[m]
<1>1. /\ iNesting = 0 /\ at[t] = "run"
      /\ m \in OSEventAllocated /\ OSEventOwner[m] = t /\ m = Last(s)
      /\ Priority' = [Priority EXCEPT ![t] = q]
      /\ OSEventOwner' = [OSEventOwner EXCEPT ![m] = NoOwner]
      /\ held' = [held EXCEPT ![t] = r]
  BY DEF GiveUp, InTask
<1>2. Holds(t, m) /\ OSEventState[m] = "busy"
  BY <1>1 DEF MutexInv, Users, InHands
<1>3. /\ held \in [Task -> Seq(Mutex)] /\ s \in Seq(Mutex) /\ Len(s) \in Nat /\ Len(s) # 0
      /\ OSMaxPriority \in [Mutex -> Prio] /\ OSOriginalPriority \in [Mutex -> Prio]
      /\ Priority \in [Task -> 1 .. MaxPriority]
      /\ OSEventOwner \in [Mutex -> Task \cup {NoOwner}]
  BY <1>2 DEF MutexInv, MutexTypes, Holds
<1>4. \A u \in Task : Stacked(u, held[u], Priority[u], PriorityVector, OSOriginalPriority, OSMaxPriority)
  BY DEF MutexInv, Stacks
<1>5. \A i, j \in 1 .. Len(s) : s[i] = s[j] => i = j
  BY <1>4 DEF Stacked
<1>6. /\ r \in Seq(Mutex) /\ Len(r) = Len(s) - 1
      /\ \A i \in 1 .. Len(s) - 1 : r[i] = s[i]
  BY <1>1, <1>3, <1>5, DropLast
<1>7. m = s[Len(s)] /\ Len(s) \in 1 .. Len(s)
  BY <1>1, <1>3 DEF Last
<1> HIDE DEF r
<1>8. held' \in [Task -> Seq(Mutex)] /\ held'[t] = r /\ \A u \in Task : u # t => held'[u] = held[u]
  BY <1>1, <1>3, <1>6
<1>9. q \in 1 .. MaxPriority
  <2>1. q = Top(t, s, OSMaxPriority, Len(s) - 1) /\ Len(s) - 1 \in 0 .. Len(s)
    <3>1. \A i \in 1 .. Len(s) : OSOriginalPriority[s[i]] = Top(t, s, OSMaxPriority, i - 1)
      BY <1>4 DEF Stacked
    <3>2. Len(s) - 1 \in 0 .. Len(s)
      BY <1>3
    <3> QED  BY <1>7, <3>1, <3>2
  <2>2. PriorityVector[q] = t
    BY <1>4, <2>1 DEF Stacked
  <2>3. q # 0
    BY <2>2, TaskAssumption DEF MutexInv, CeilingsApart, Task, IdleTask
  <2>4. q \in Prio
    BY <1>3
  <2> QED  BY <2>3, <2>4, TaskAssumption DEF Prio
<1>10. /\ Priority' \in [Task -> 1 .. MaxPriority] /\ Priority'[t] = q
       /\ \A u \in Task : u # t => Priority'[u] = Priority[u]
  BY <1>1, <1>3, <1>9
<1>11. Restored(m) = (OSReadyList \ {Priority[t]}) \cup {Priority'[t]}
  BY <1>1, <1>10, RunnerReady DEF Restored
<1>12. \A u \in Task : Holds(u, m) => u = t
  BY <1>2 DEF MutexInv, Users, InHands
<1>13. /\ \A i \in 1 .. Len(r) : i \in 1 .. Len(s) /\ r[i] = s[i] /\ r[i] # m
       /\ \A i \in 1 .. Len(s) : s[i] # m => i \in 1 .. Len(r) /\ r[i] = s[i]
  <2>1. \A i \in 1 .. Len(r) : i \in 1 .. Len(s) /\ i \in 1 .. Len(s) - 1 /\ i # Len(s)
    BY <1>3, <1>6
  <2>2. \A i \in 1 .. Len(s) : i # Len(s) => i \in 1 .. Len(s) - 1 /\ i \in 1 .. Len(r)
    BY <1>3, <1>6
  <2> QED  BY <1>5, <1>6, <1>7, <2>1, <2>2
<1>14. ASSUME NEW u \in Task, NEW n \in Mutex
       PROVE  Holds(u, n)' <=> Holds(u, n) /\ n # m
  <2>1. CASE u # t
    BY <1>8, <1>12, <2>1 DEF Holds
  <2>2. CASE u = t
    <3>1. (\E i \in 1 .. Len(r) : r[i] = n) <=> (\E i \in 1 .. Len(s) : s[i] = n) /\ n # m
      BY <1>13
    <3> QED  BY <1>8, <2>2, <3>1 DEF Holds
  <2> QED  BY <2>1, <2>2
<1>15. ASSUME NEW w, \A u \in Task : \A n \in 0 .. Len(held'[u]) :
                       w[Top(u, held[u], OSMaxPriority, n)] = u,
              NEW u \in Task
       PROVE  Stacked(u, held'[u], Priority'[u], w, OSOriginalPriority, OSMaxPriority)
  <2>1. CASE u = t
    <3>1. \A n \in 0 .. Len(r) : w[Top(t, s, OSMaxPriority, n)] = t
      BY <1>8, <1>15
    <3>2. Stacked(t, s, Priority[t], PriorityVector, OSOriginalPriority, OSMaxPriority)
      BY <1>4
    <3>3. t \in Task
      OBVIOUS
    <3>4. Stacked(t, r, OSOriginalPriority[s[Len(s)]], w, OSOriginalPriority, OSMaxPriority)
      BY ONLY <1>3, <1>6, <3>1, <3>2, <3>3, StackPop
    <3> QED  BY <1>7, <1>8, <1>10, <2>1, <3>4
  <2>2. CASE u # t
    <3>1. \A n \in 0 .. Len(held[u]) : w[Top(u, held[u], OSMaxPriority, n)] = u
      BY <1>8, <1>15, <2>2
    <3>2. Stacked(u, held[u], Priority[u], PriorityVector, OSOriginalPriority, OSMaxPriority)
      BY <1>4
    <3>3. Stacked(u, held[u], Priority[u], w, OSOriginalPriority, OSMaxPriority)
      BY <1>3, <3>1, <3>2, StackedSame
    <3> QED  BY <1>8, <1>10, <2>2, <3>3
  <2> QED  BY <2>1, <2>2
<1>16. ASSUME NEW u \in Task
       PROVE  /\ Len(held'[u]) \in 0 .. Len(held[u])
              /\ \A j \in 1 .. Len(held'[u]) : held[u][j] # m
  <2>1. CASE u = t
    <3>1. Len(r) \in 0 .. Len(s)
      BY <1>3, <1>6
    <3>2. \A j \in 1 .. Len(r) : s[j] # m
      BY <1>13
    <3> QED  BY <1>8, <2>1, <3>1, <3>2
  <2>2. CASE u # t
    <3>1. held[u] \in Seq(Mutex) /\ Len(held[u]) \in Nat
      BY <1>3
    <3>2. Len(held[u]) \in 0 .. Len(held[u])
      BY <3>1
    <3>3. \A j \in 1 .. Len(held[u]) : held[u][j] # m
      BY <1>12, <2>2 DEF Holds
    <3> QED  BY <1>8, <2>2, <3>2, <3>3
  <2> QED  BY <2>1, <2>2
<1>17. /\ OSEventOwner' \in [Mutex -> Task \cup {NoOwner}] /\ OSEventOwner'[m] = NoOwner
       /\ \A n \in Mutex : n # m => OSEventOwner'[n] = OSEventOwner[n]
  BY <1>1, <1>3
<1>18. \A w : (\A u \in Task : \A n \in 0 .. Len(held'[u]) :
                 w[Top(u, held[u], OSMaxPriority, n)] = u) =>
              \A u \in Task : Stacked(u, held'[u], Priority'[u], w,
                                      OSOriginalPriority, OSMaxPriority)
  BY <1>15
<1> QED  BY <1>1, <1>2, <1>8, <1>10, <1>11, <1>14, <1>16, <1>17, <1>18


\* What both ways of releasing leave behind.
LEMMA Released ==
    ASSUME MutexInv, LifoRelease, NEW t \in Task, t = currentTask, NEW m \in Mutex, GiveUp(m),
           UNCHANGED <<OSEventAllocated, OSMaxPriority, OSOriginalPriority, at, event>>,
           \/ UNCHANGED PriorityVector
           \/ PriorityVector' = [PriorityVector EXCEPT ![OSMaxPriority[m]] = MUTEX_PRIO]
    PROVE  /\ Stacks' /\ CeilingsApart' /\ Repricing(Restored(m))
           /\ PriorityVector' \in [Prio -> Task \cup {IdleTask, MUTEX_PRIO, EMPTY_PRIO}]
           /\ \A n \in Mutex : \A u \in Task : OSEventOwner'[n] = u <=> Holds(u, n)'
           /\ \A u \in Task : at'[u] = "mutex" => ~ Holds(u, event[u])'
<1> DEFINE c == OSMaxPriority[m]
<1>1. /\ iNesting = 0 /\ at[t] = "run"
      /\ m \in OSEventAllocated
      /\ Priority' \in [Task -> 1 .. MaxPriority]
      /\ \A u \in Task : u # t => Priority'[u] = Priority[u]
      /\ Restored(m) = (OSReadyList \ {Priority[t]}) \cup {Priority'[t]}
      /\ OSEventOwner'[m] = NoOwner
      /\ \A n \in Mutex : n # m => OSEventOwner'[n] = OSEventOwner[n]
      /\ held' \in [Task -> Seq(Mutex)]
      /\ \A u \in Task : \A n \in Mutex : Holds(u, n)' <=> Holds(u, n) /\ n # m
      /\ \A u \in Task : /\ Len(held'[u]) \in 0 .. Len(held[u])
                         /\ \A j \in 1 .. Len(held'[u]) : held[u][j] # m
  BY Given
<1>2. \A w : (\A u \in Task : \A n \in 0 .. Len(held'[u]) :
                 w[Top(u, held[u], OSMaxPriority, n)] = u) =>
              \A u \in Task : Stacked(u, held'[u], Priority'[u], w,
                                      OSOriginalPriority, OSMaxPriority)
  BY Given
<1>3. c \in 1 .. MaxPriority /\ c \in Prio /\ c # 0
  BY <1>1, TaskAssumption DEF MutexInv, MutexTypes, CeilingsApart
<1>4. /\ PriorityVector' \in [Prio -> Task \cup {IdleTask, MUTEX_PRIO, EMPTY_PRIO}]
      /\ \A x \in Prio : x # c => PriorityVector'[x] = PriorityVector[x]
      /\ \A x \in Prio : PriorityVector'[x] = PriorityVector[x] \/ PriorityVector'[x] = MUTEX_PRIO
  BY <1>3 DEF MutexInv, MutexTypes
<1>5. ASSUME NEW u \in Task, NEW n \in 0 .. Len(held'[u])
      PROVE  PriorityVector'[Top(u, held[u], OSMaxPriority, n)] = u
  <2>1. /\ held[u] \in Seq(Mutex) /\ OSMaxPriority \in [Mutex -> Prio]
        /\ Len(held[u]) \in Nat /\ Len(held'[u]) \in 0 .. Len(held[u])
    BY <1>1 DEF MutexInv, MutexTypes
  <2>2. n \in 0 .. Len(held[u]) /\ \A j \in 1 .. n : j \in 1 .. Len(held'[u])
    BY <2>1
  <2>3. \A j \in 1 .. n : held[u][j] # m
    BY <1>1, <2>2
  <2>4. Top(u, held[u], OSMaxPriority, n) # c /\ Top(u, held[u], OSMaxPriority, n) \in Prio
    BY <1>1, <2>1, <2>2, <2>3, TopApart, TopIn
  <2>5. PriorityVector[Top(u, held[u], OSMaxPriority, n)] = u
    BY <2>2 DEF MutexInv, Stacks, Stacked
  <2> QED  BY <1>4, <2>4, <2>5
<1> HIDE DEF c
<1>6. Stacks'
  <2>1. \A u \in Task : Stacked(u, held'[u], Priority'[u], PriorityVector', OSOriginalPriority, OSMaxPriority)
    BY <1>2, <1>5
  <2> QED  BY <2>1 DEF Stacks
<1>7. CeilingsApart'
  <2>1. PriorityVector'[0] = IdleTask
    BY <1>3, <1>4, PrioNat DEF MutexInv, CeilingsApart
  <2>2. \A n \in OSEventAllocated : PriorityVector'[OSMaxPriority[n]] # EMPTY_PRIO
    BY <1>4 DEF MutexInv, MutexTypes, CeilingsApart, MUTEX_PRIO, EMPTY_PRIO
  <2> QED  BY <2>1, <2>2 DEF MutexInv, CeilingsApart
<1>8. Repricing(Restored(m))
  <2>1. \A u, v \in Task : Priority'[u] = Priority'[v] => u = v
    BY <1>1, <1>6, DistinctNext
  <2> QED  BY <1>1, <2>1 DEF Repricing
<1>9. \A n \in Mutex : \A u \in Task : OSEventOwner'[n] = u <=> Holds(u, n)'
  <2>1. \A u \in Task : u # NoOwner
    BY TaskAssumption DEF Task, NoOwner
  <2> QED  BY <1>1, <2>1 DEF MutexInv, Users
<1>10. \A u \in Task : at'[u] = "mutex" => ~ Holds(u, event[u])'
  <2>1. ASSUME NEW u \in Task, at[u] = "mutex"
        PROVE  ~ Holds(u, event[u])'
    <3>1. PICK n \in Mutex : n = event[u]
      BY <2>1 DEF MutexInv, Waiters
    <3>2. ~ Holds(u, n)
      BY <2>1, <3>1 DEF MutexInv, Users
    <3>3. ~ Holds(u, n)'
      BY <1>1, <3>2
    <3> QED  BY <3>1, <3>3 DEF Holds
  <2> QED  BY <2>1
<1> QED  BY <1>4, <1>6, <1>7, <1>8, <1>9, <1>10

\* Nobody else had the mutex in hands, and an empty wait list leaves nobody chosen.
LEMMA ReleaseFreeStep ==
    ASSUME MutexInv, LifoRelease, NEW m \in Mutex, OSMutexReleaseFree(m)
    PROVE  MutexInv'
<1>0. PICK t \in Task : t = currentTask
  BY DEF OSMutexReleaseFree, GiveUp, InTask
<1>1. /\ GiveUp(m)
      /\ OSEventWait[m] = 0
      /\ OSReadyList' = Restored(m)
      /\ OSEventState' = [OSEventState EXCEPT ![m] = "available"]
      /\ PriorityVector' = [PriorityVector EXCEPT ![OSMaxPriority[m]] = MUTEX_PRIO]
      /\ UNCHANGED <<currentTask, iNesting, OSBlockedList, delayList, at, OSEventAllocated,
                     OSMaxPriority, OSOriginalPriority, OSEventWait, OSEventWaitList, event>>
  BY DEF OSMutexReleaseFree, timing
<1>2. /\ Stacks' /\ CeilingsApart' /\ Repricing(OSReadyList')
      /\ PriorityVector' \in [Prio -> Task \cup {IdleTask, MUTEX_PRIO, EMPTY_PRIO}]
      /\ \A n \in Mutex : \A u \in Task : OSEventOwner'[n] = u <=> Holds(u, n)'
      /\ \A u \in Task : at'[u] = "mutex" => ~ Holds(u, event[u])'
  BY <1>0, <1>1, Released
<1>3. /\ at[t] = "run" /\ m \in OSEventAllocated /\ Holds(t, m)
      /\ Priority' \in [Task -> 1 .. MaxPriority]
      /\ \A u \in Task : u # t => Priority'[u] = Priority[u]
      /\ OSReadyList' = (OSReadyList \ {Priority[t]}) \cup {Priority'[t]}
      /\ OSEventOwner' \in [Mutex -> Task \cup {NoOwner}]
      /\ held' \in [Task -> Seq(Mutex)]
      /\ \A u \in Task : \A n \in Mutex : Holds(u, n)' <=> Holds(u, n) /\ n # m
  BY <1>0, <1>1, Given
<1>4. /\ OSReadyList' \subseteq Prio /\ OSReadyList' \subseteq {0} \cup {Priority'[u] : u \in Task}
      /\ \A u \in Task : u # t => (Priority'[u] \in OSReadyList' <=> Priority[u] \in OSReadyList)
      /\ \A n \in Mutex : \A x \in OSEventWaitList[n] :
           /\ x \notin OSReadyList'
           /\ \E u \in Task : /\ u # t /\ at[u] = "mutex" /\ event[u] = n
                              /\ Priority[u] = x /\ Priority'[u] = x
      /\ \A u \in delayList : /\ u \in Task /\ u # t /\ at[u] = "delay"
                              /\ Priority'[u] \notin OSReadyList'
  BY <1>0, <1>2, Repriced
<1>5. /\ OSEventState' \in [Mutex -> {"cleared", "available", "busy"}]
      /\ OSEventState'[m] = "available"
      /\ \A n \in Mutex : n # m => OSEventState'[n] = OSEventState[n]
  BY <1>1 DEF MutexInv, MutexTypes
<1>6. OSEventWaitList[m] = {}
  <2>1. OSEventWaitList[m] \in SUBSET Prio /\ Cardinality(OSEventWaitList[m]) = 0
    BY <1>1 DEF MutexInv, MutexTypes, Waiters
  <2> QED  BY <2>1, PrioFinite, FS_EmptySet
<1>7. \A u \in Task : InHands(u, m) => u = t
  BY <1>3 DEF MutexInv, Users, InHands
<1>8. \A u \in Task : at[u] = "mutex" => event[u] # m
  <2>1. ASSUME NEW u \in Task, at[u] = "mutex", event[u] = m PROVE FALSE
    <3>1. Chosen(u)
      BY <1>6, <2>1 DEF Chosen
    <3> QED  BY <1>3, <1>7, <2>1, <3>1 DEF InHands
  <2> QED  BY <2>1
<1>9. MutexTypes'
  BY <1>0, <1>1, <1>2, <1>3, <1>4, <1>5 DEF MutexInv, MutexTypes
<1>10. ReadyTasks'
  BY <1>0, <1>1, <1>3, <1>4 DEF ReadyTasks
<1>11. Waiters'
  <2>1. \A u \in Task : at'[u] = "mutex" => event'[u] \in Mutex /\ OSEventState'[event'[u]] = "busy"
    BY <1>1, <1>5, <1>8 DEF MutexInv, Waiters
  <2>2. \A n \in Mutex : \A x \in OSEventWaitList'[n] :
          /\ x \notin OSReadyList'
          /\ \E u \in Task : at'[u] = "mutex" /\ event'[u] = n /\ Priority'[u] = x
    BY <1>1, <1>4
  <2> QED  BY <1>1, <2>1, <2>2 DEF MutexInv, Waiters
<1>12. \A u \in Task : Chosen(u)' <=> Chosen(u)
  BY <1>1, <1>3 DEF Chosen
<1>13. \A u \in Task : \A n \in Mutex : InHands(u, n)' <=> InHands(u, n) /\ n # m
  <2>1. ASSUME NEW u \in Task, NEW n \in Mutex
        PROVE  InHands(u, n)' <=> InHands(u, n) /\ n # m
    <3>1. Chosen(u) => event[u] # m
      BY <1>8 DEF Chosen
    <3> QED  BY <1>1, <1>3, <1>12, <3>1 DEF InHands
  <2> QED  BY <2>1
<1>14. Users'
  <2>1. \A n \in Mutex : OSEventState'[n] = "cleared" <=> n \notin OSEventAllocated'
    BY <1>1, <1>3, <1>5 DEF MutexInv, Users
  <2>2. \A n \in Mutex : \A u, v \in Task : InHands(u, n)' /\ InHands(v, n)' => u = v
    BY <1>13 DEF MutexInv, Users
  <2>3. \A n \in Mutex : OSEventState'[n] = "busy" <=> \E u \in Task : InHands(u, n)'
    <3>1. ASSUME NEW n \in Mutex, n # m
          PROVE  OSEventState'[n] = "busy" <=> \E u \in Task : InHands(u, n)'
      BY <1>5, <1>13, <3>1 DEF MutexInv, Users
    <3> QED  BY <1>5, <1>13, <3>1
  <2> QED  BY <1>2, <2>1, <2>2, <2>3 DEF Users
<1>15. NoTaskLost'
  BY <1>1, <1>3, <1>4, <1>12 DEF MutexInv, NoTaskLost
<1> QED  BY <1>2, <1>9, <1>10, <1>11, <1>14, <1>15 DEF MutexInv

\* The highest waiter is ready, and has the mutex in its hands.
LEMMA ReleaseToStep ==
    ASSUME MutexInv, LifoRelease, NEW m \in Mutex, OSMutexReleaseTo(m)
    PROVE  MutexInv'
<1>0. PICK t \in Task : t = currentTask
  BY DEF OSMutexReleaseTo, GiveUp, InTask
<1> DEFINE W == OSEventWaitList[m]
           p == SAScheduler(OSEventWaitList[m])
           R == Restored(m)
<1>1. /\ GiveUp(m)
      /\ OSEventWait[m] # 0
      /\ OSReadyList' = R \cup {p}
      /\ OSEventWaitList' = [OSEventWaitList EXCEPT ![m] = W \ {p}]
      /\ OSEventWait' = [OSEventWait EXCEPT ![m] = OSEventWait[m] - 1]
      /\ UNCHANGED <<iNesting, OSBlockedList, delayList, PriorityVector, at, OSEventAllocated,
                     OSEventState, OSMaxPriority, OSOriginalPriority, event>>
      /\ ChangeContext
  BY DEF OSMutexReleaseTo, RemoveWaiter, SetReady, timing
<1>2. /\ Stacks' /\ CeilingsApart' /\ Repricing(R)
      /\ \A n \in Mutex : \A u \in Task : OSEventOwner'[n] = u <=> Holds(u, n)'
      /\ \A u \in Task : at'[u] = "mutex" => ~ Holds(u, event[u])'
  BY <1>0, <1>1, Released
<1>3. /\ iNesting = 0 /\ at[t] = "run" /\ m \in OSEventAllocated
      /\ OSEventState[m] = "busy" /\ Holds(t, m)
      /\ Priority' \in [Task -> 1 .. MaxPriority]
      /\ \A u \in Task : u # t => Priority'[u] = Priority[u]
      /\ R = (OSReadyList \ {Priority[t]}) \cup {Priority'[t]}
      /\ OSEventOwner' \in [Mutex -> Task \cup {NoOwner}]
      /\ held' \in [Task -> Seq(Mutex)]
      /\ \A u \in Task : \A n \in Mutex : Holds(u, n)' <=> Holds(u, n) /\ n # m
  BY <1>0, <1>1, Given
<1> HIDE DEF R
<1>4. /\ R \subseteq Prio /\ R \subseteq {0} \cup {Priority'[u] : u \in Task}
      /\ \A u \in Task : u # t => (Priority'[u] \in R <=> Priority[u] \in OSReadyList)
      /\ \A n \in Mutex : \A x \in OSEventWaitList[n] :
           /\ x \notin R
           /\ \E u \in Task : /\ u # t /\ at[u] = "mutex" /\ event[u] = n
                              /\ Priority[u] = x /\ Priority'[u] = x
      /\ \A u \in delayList : /\ u \in Task /\ u # t /\ at[u] = "delay"
                              /\ Priority'[u] \notin R
  BY <1>0, <1>2, Repriced
<1>5. W \in SUBSET Prio /\ OSEventWait[m] = Cardinality(W) /\ OSEventWait[m] \in Nat
  BY DEF MutexInv, MutexTypes, Waiters
<1>6. W # {} /\ p \in W /\ p \in Prio
  <2>1. W # {}
    <3> HIDE DEF W
    <3> QED  BY <1>1, <1>5, FS_EmptySet
  <2> QED  BY <1>5, <2>1, SchedulerGreatest
<1>7. Cardinality(W \ {p}) = OSEventWait[m] - 1 /\ OSEventWait[m] - 1 \in Nat
  <2> HIDE DEF W, p
  <2>1. IsFiniteSet(W) /\ IsFiniteSet(W \ {p})
    BY <1>5, PrioFinite
  <2>2. Cardinality(W \ {p}) = Cardinality(W) - 1
    BY <1>6, <2>1, FS_RemoveElement
  <2>3. Cardinality(W \ {p}) \in Nat
    BY <2>1, FS_CardinalityType
  <2> QED  BY <1>5, <2>2, <2>3
<1>8. PICK v \in Task : /\ v # t /\ at[v] = "mutex" /\ event[v] = m
                        /\ Priority[v] = p /\ Priority'[v] = p
  BY <1>4, <1>6
<1>9. \A u \in Task : u # v => Priority[u] # p /\ Priority'[u] # p
  BY <1>0, <1>2, <1>8, Distinct DEF Repricing
<1> HIDE DEF p, W
<1>10. /\ OSEventWaitList' \in [Mutex -> SUBSET Prio]
       /\ OSEventWaitList'[m] = W \ {p}
       /\ \A n \in Mutex : n # m => OSEventWaitList'[n] = OSEventWaitList[n]
  BY <1>1, <1>5 DEF MutexInv, MutexTypes
<1>11. /\ OSEventWait' \in [Mutex -> Nat]
       /\ OSEventWait'[m] = OSEventWait[m] - 1
       /\ \A n \in Mutex : n # m => OSEventWait'[n] = OSEventWait[n]
  BY <1>1, <1>7 DEF MutexInv, MutexTypes
<1>12. OSReadyList' \subseteq Prio /\ OSReadyList' \subseteq {0} \cup {Priority'[u] : u \in Task}
  BY <1>1, <1>4, <1>6, <1>8
<1>13. /\ currentTask' \in Task \cup {IdleTask}
       /\ currentTask' \in Task => Priority'[currentTask'] \in OSReadyList'
  <2>1. OSBlockedList' = Prio
    BY <1>1 DEF MutexInv, MutexTypes
  <2> QED  BY <1>1, <1>2, <1>3, <1>12, <2>1, Switched
<1>14. MutexTypes'
  BY <1>1, <1>3, <1>10, <1>11, <1>12, <1>13 DEF MutexInv, MutexTypes
<1>15. ReadyTasks'
  <2>1. \A u \in delayList' : at'[u] = "delay" /\ Priority'[u] \notin OSReadyList'
    BY <1>1, <1>4, <1>8, <1>9
  <2> QED  BY <1>12, <1>13, <2>1 DEF ReadyTasks
<1>16. Waiters'
  <2>1. \A u \in Task : at'[u] = "mutex" => event'[u] \in Mutex /\ OSEventState'[event'[u]] = "busy"
    BY <1>1 DEF MutexInv, Waiters
  <2>2. ASSUME NEW n \in Mutex, NEW x \in OSEventWaitList'[n]
        PROVE  /\ x \notin OSReadyList'
               /\ \E u \in Task : at'[u] = "mutex" /\ event'[u] = n /\ Priority'[u] = x
    <3>1. x \in OSEventWaitList[n] /\ (n = m => x # p)
      BY <1>10, <2>2 DEF W
    <3>2. PICK u \in Task : /\ at[u] = "mutex" /\ event[u] = n
                            /\ Priority[u] = x /\ Priority'[u] = x
      BY <1>4, <3>1
    <3>3. x # p
      BY <1>8, <1>9, <3>1, <3>2
    <3> QED  BY <1>1, <1>4, <3>1, <3>2, <3>3
  <2>3. \A n \in Mutex : OSEventWait'[n] = Cardinality(OSEventWaitList'[n])
    BY <1>7, <1>10, <1>11 DEF MutexInv, Waiters
  <2> QED  BY <2>1, <2>2, <2>3 DEF Waiters
<1>17. \A u \in Task : u # v => (Chosen(u)' <=> Chosen(u))
  <2>1. ASSUME NEW u \in Task, u # v, at[u] = "mutex"
        PROVE  Priority[u] \in OSEventWaitList'[event[u]] <=> Priority[u] \in OSEventWaitList[event[u]]
    <3>1. event[u] \in Mutex
      BY <2>1 DEF MutexInv, Waiters
    <3> QED  BY <1>9, <1>10, <2>1, <3>1 DEF W
  <2>2. \A u \in Task : at[u] = "mutex" => u # t
    BY <1>3
  <2> QED  BY <1>1, <1>3, <2>1, <2>2 DEF Chosen
<1>18. Chosen(v)' /\ ~ Chosen(v)
  BY <1>1, <1>6, <1>8, <1>10 DEF Chosen, W
<1>19. \A u \in Task : InHands(u, m) => u = t
  BY <1>3 DEF MutexInv, Users, InHands
<1>20. ASSUME NEW u \in Task, NEW n \in Mutex
       PROVE  InHands(u, n)' <=> (InHands(u, n) /\ n # m) \/ (u = v /\ n = m)
  <2>1. CASE u = v
    BY <1>1, <1>3, <1>8, <1>18, <2>1 DEF InHands
  <2>2. CASE u # v
    <3>1. Chosen(u) => event[u] # m
      <4>1. ASSUME Chosen(u), event[u] = m PROVE FALSE
        <5>1. u = t
          BY <1>19, <4>1 DEF InHands
        <5> QED  BY <1>3, <4>1, <5>1 DEF Chosen
      <4> QED  BY <4>1
    <3> QED  BY <1>1, <1>3, <1>17, <2>2, <3>1 DEF InHands
  <2> QED  BY <2>1, <2>2
<1>21. Users'
  <2>1. \A n \in Mutex : OSEventState'[n] = "cleared" <=> n \notin OSEventAllocated'
    BY <1>1 DEF MutexInv, Users
  <2>2. \A n \in Mutex : \A u, w \in Task : InHands(u, n)' /\ InHands(w, n)' => u = w
    BY <1>20 DEF MutexInv, Users
  <2>3. \A n \in Mutex : OSEventState'[n] = "busy" <=> \E u \in Task : InHands(u, n)'
    <3>1. ASSUME NEW n \in Mutex, n # m
          PROVE  OSEventState'[n] = "busy" <=> \E u \in Task : InHands(u, n)'
      BY <1>1, <1>20, <3>1 DEF MutexInv, Users
    <3>2. InHands(v, m)'
      BY <1>20
    <3> QED  BY <1>1, <1>3, <3>1, <3>2
  <2> QED  BY <1>2, <2>1, <2>2, <2>3 DEF Users
<1>22. NoTaskLost'
  <2>1. ASSUME NEW u \in Task, Priority'[u] \notin OSReadyList'
        PROVE  u \in delayList' \/ (at'[u] = "mutex" /\ ~ Chosen(u)')
    <3>1. u # t /\ u # v
      BY <1>1, <1>3, <1>8, <2>1
    <3>2. Priority[u] \notin OSReadyList
      BY <1>1, <1>4, <2>1, <3>1
    <3> QED  BY <1>1, <1>17, <3>1, <3>2 DEF MutexInv, NoTaskLost
  <2> QED  BY <2>1 DEF NoTaskLost
<1> QED  BY <1>2, <1>14, <1>15, <1>16, <1>21, <1>22 DEF MutexInv

-----------------------------------------------------------------------------
\* The invariant holds of the specification.

LEMMA MutexStart == MutexInit => MutexInv
<1> SUFFICES ASSUME MutexInit PROVE MutexInv
  OBVIOUS
<1>0. /\ Init
      /\ OSEventAllocated = {}
      /\ OSEventState = [m \in Mutex |-> "cleared"]
      /\ OSEventOwner = [m \in Mutex |-> NoOwner]
      /\ OSMaxPriority = [m \in Mutex |-> 0]
      /\ OSOriginalPriority = [m \in Mutex |-> 0]
      /\ OSEventWait = [m \in Mutex |-> 0]
      /\ OSEventWaitList = [m \in Mutex |-> {}]
      /\ event = [t \in Task |-> NoMutex]
      /\ held = [t \in Task |-> <<>>]
  BY DEF MutexInit
<1>1. TypeOK /\ Installed
  BY <1>0, SchedInit DEF SchedInv
<1>2. /\ PriorityVector[0] = IdleTask
      /\ \A t \in Task : PriorityVector[InstalledPriority[t]] = t
      /\ Priority = InstalledPriority
  BY <1>1 DEF Installed
<1>3. /\ iNesting = 0 /\ OSBlockedList = Prio /\ delayList = {}
      /\ OSReadyList = {0} \cup {Priority[t] : t \in Task}
      /\ currentTask = OSSchedule
      /\ at = [t \in Task |-> "run"]
  BY <1>0 DEF Init
<1>4. OSReadyList \subseteq Prio
  BY <1>1 DEF TypeOK
<1>5. currentTask \in Task \cup {IdleTask} /\ (currentTask \in Task => Priority[currentTask] \in OSReadyList)
  <2>1. OSReadyList \cap OSBlockedList = OSReadyList
    BY <1>3, <1>4
  <2>2. currentTask = PriorityVector[SAScheduler(OSReadyList)]
    BY <1>3, <2>1 DEF OSSchedule
  <2>3. OSReadyList \subseteq {0} \cup {Priority[t] : t \in Task}
    BY <1>3
  <2> QED  BY <1>2, <1>4, <2>2, <2>3, Selects
<1>6. /\ held \in [Task -> Seq(Mutex)]
      /\ \A t \in Task : held[t] = <<>> /\ Len(held[t]) = 0
      /\ \A t \in Task : \A m \in Mutex : ~ Holds(t, m) /\ ~ InHands(t, m)
  <2>1. \A t \in Task : held[t] = <<>> /\ Len(held[t]) = 0 /\ at[t] = "run"
    BY <1>0, <1>3
  <2>2. held \in [Task -> Seq(Mutex)]
    BY <1>0
  <2> QED  BY <2>1, <2>2 DEF Holds, InHands, Chosen
<1>7. MutexTypes
  <2>1. PriorityVector \in [Prio -> Task \cup {IdleTask, MUTEX_PRIO, EMPTY_PRIO}]
    BY <1>1 DEF TypeOK
  <2>2. Priority \in [Task -> 1 .. MaxPriority]
    BY <1>2, TaskAssumption
  <2> QED  BY <1>0, <1>3, <1>4, <1>5, <1>6, <2>1, <2>2, PrioNat DEF MutexTypes
<1>8. Stacks
  <2>1. ASSUME NEW t \in Task
        PROVE  Stacked(t, held[t], Priority[t], PriorityVector, OSOriginalPriority, OSMaxPriority)
    <3>1. Top(t, held[t], OSMaxPriority, 0) = Priority[t]
      BY <1>2, TopZero
    <3>2. \A n \in 0 .. Len(held[t]) : n = 0
      BY <1>6
    <3>3. PriorityVector[Priority[t]] = t
      BY <1>2
    <3> QED  BY <1>6, <3>1, <3>2, <3>3 DEF Stacked
  <2> QED  BY <2>1 DEF Stacks
<1>9. CeilingsApart
  BY <1>0, <1>2 DEF CeilingsApart
<1>10. ReadyTasks
  BY <1>3, <1>5 DEF ReadyTasks
<1>11. Waiters
  BY <1>0, <1>3, FS_EmptySet DEF Waiters
<1>12. Users
  BY <1>0, <1>3, <1>6, TaskAssumption DEF Users, NoOwner, Task
<1>13. NoTaskLost
  BY <1>3 DEF NoTaskLost
<1> QED  BY <1>7, <1>8, <1>9, <1>10, <1>11, <1>12, <1>13 DEF MutexInv

LEMMA MutexStays ==
    ASSUME LifoRelease
    PROVE  MutexInv /\ [MutexNext]_mvars => MutexInv'
<1> SUFFICES ASSUME MutexInv, [MutexNext]_mvars PROVE MutexInv'
  OBVIOUS
<1>1. CASE KernelStep
  <2>1. UNCHANGED <<blocks, event, held>>
    BY <1>1 DEF KernelStep
  <2>2. CASE \E w \in 1 .. MaxWait : DelayTask(w)
    BY <2>1, <2>2, DelayTaskStep
  <2>3. CASE \E t \in Task : DelayReturn(t)
    BY <2>1, <2>3, DelayReturnStep
  <2>4. CASE TickTimer
    BY <2>1, <2>4, TickStep
  <2>5. CASE IsrEnter \/ IsrExit
    BY <2>1, <2>5, IsrStep
  <2> QED  BY <1>1, <2>2, <2>3, <2>4, <2>5 DEF KernelStep, Interrupt
<1>2. CASE MutexStep
  <2>1. CASE \E h \in Ceilings : OSMutexCreate(h)
    BY <2>1, CreateStep
  <2>2. ASSUME NEW m \in Mutex, OSMutexDelete(m) PROVE MutexInv'
    BY <2>2, DeleteStep
  <2>3. ASSUME NEW m \in Mutex, OSMutexAcquireFree(m) PROVE MutexInv'
    BY <2>3, AcquireFreeStep
  <2>4. ASSUME NEW m \in Mutex, OSMutexAcquireWait(m) PROVE MutexInv'
    BY <2>4, AcquireWaitStep
  <2>5. ASSUME NEW m \in Mutex, OSMutexReleaseTo(m) PROVE MutexInv'
    BY <2>5, ReleaseToStep
  <2>6. ASSUME NEW m \in Mutex, OSMutexReleaseFree(m) PROVE MutexInv'
    BY <2>6, ReleaseFreeStep
  <2> QED  BY <1>2, <2>1, <2>2, <2>3, <2>4, <2>5, <2>6 DEF MutexStep
<1>3. CASE \E t \in Task : OSMutexAcquired(t)
  BY <1>3, AcquiredStep
<1>4. CASE UNCHANGED mvars
  <2>1. /\ UNCHANGED <<prios, blocks, event, held>> /\ UNCHANGED at
        /\ UNCHANGED <<iNesting, OSReadyList, OSBlockedList, currentTask, delayList>>
    BY <1>4 DEF mvars, kvars, lists, timing
  <2>2. \A m \in Mutex : \A p \in OSEventWaitList[m] : p \notin OSReadyList
    BY DEF MutexInv, Waiters
  <2>3. /\ Stacks' /\ CeilingsApart' /\ Waiters' /\ Users'
        /\ \A t \in Task : Chosen(t)' <=> Chosen(t)
    BY <2>1, <2>2, MutexesKept
  <2>4. MutexTypes' /\ ReadyTasks'
    BY <2>1 DEF MutexInv, MutexTypes, ReadyTasks, prios, blocks
  <2>5. NoTaskLost'
    BY <2>1, <2>3 DEF MutexInv, NoTaskLost, prios
  <2> QED  BY <2>3, <2>4, <2>5 DEF MutexInv
<1> QED  BY <1>1, <1>2, <1>3, <1>4 DEF MutexNext

LEMMA MutexAlways ==
    ASSUME LifoRelease
    PROVE  MutexSpec => []MutexInv
<1>1. MutexInit => MutexInv
  BY MutexStart
<1>2. MutexInv /\ [MutexNext]_mvars => MutexInv'
  BY MutexStays
<1> QED  BY <1>1, <1>2, PTL DEF MutexSpec

\* A mutex has one owner, the one its block records, with handovers in between.
THEOREM MutexExcludes ==
    ASSUME LifoRelease
    PROVE  MutexSpec => []MutualExclusion
<1>1. MutexInv => MutualExclusion
  BY DEF MutexInv, Users, InHands, MutualExclusion
<1> QED  BY <1>1, MutexAlways, PTL

\* A busy mutex is in one task's hands and an available one in nobody's: a
\* release neither loses the mutex nor gives it to two waiters.
THEOREM BusyIsUsed ==
    ASSUME LifoRelease
    PROVE  MutexSpec => []BusyHasOneUser
<1>1. ASSUME MutexInv, NEW m \in OSEventAllocated
      PROVE  Cardinality({t \in Task : Holds(t, m) \/ (Chosen(t) /\ event[t] = m)}) =
               (IF OSEventState[m] = "busy" THEN 1 ELSE 0)
  <2> DEFINE S == {t \in Task : Holds(t, m) \/ (Chosen(t) /\ event[t] = m)}
  <2>1. m \in Mutex /\ S = {t \in Task : InHands(t, m)}
    BY <1>1 DEF MutexInv, MutexTypes, InHands
  <2> HIDE DEF S
  <2>2. CASE OSEventState[m] = "busy"
    <3>1. PICK t \in Task : InHands(t, m)
      BY <1>1, <2>1, <2>2 DEF MutexInv, Users
    <3>2. S = {t}
      BY <1>1, <2>1, <3>1 DEF MutexInv, Users
    <3>3. Cardinality(S) = 1
      BY <3>2, FS_Singleton
    <3> QED  BY <2>2, <3>3 DEF S
  <2>3. CASE OSEventState[m] # "busy"
    <3>1. S = {}
      BY <1>1, <2>1, <2>3 DEF MutexInv, Users
    <3>2. Cardinality(S) = 0
      BY <3>1, FS_EmptySet
    <3> QED  BY <2>3, <3>2 DEF S
  <2> QED  BY <2>2, <2>3
<1>2. MutexInv => BusyHasOneUser
  BY <1>1 DEF BusyHasOneUser
<1> QED  BY <1>2, MutexAlways, PTL

\* The priority ceiling protocol: whatever it acquires and releases, a task runs
\* at the highest of its own priority and the ceilings it holds.
THEOREM CeilingIsPriority ==
    ASSUME LifoRelease
    PROVE  MutexSpec => []PriorityIsCeiling
<1>1. ASSUME MutexInv, NEW t \in Task
      PROVE  Priority[t] = SAScheduler({InstalledPriority[t]} \cup
                             {OSMaxPriority[m] : m \in {n \in Mutex : Holds(t, n)}})
  <2>1. held[t] \in Seq(Mutex)
    BY <1>1 DEF MutexInv, MutexTypes
  <2>2. {OSMaxPriority[m] : m \in {n \in Mutex : Holds(t, n)}} =
        {OSMaxPriority[held[t][j]] : j \in 1 .. Len(held[t])}
    <3>1. ASSUME NEW j \in 1 .. Len(held[t]) PROVE held[t][j] \in {n \in Mutex : Holds(t, n)}
      BY <2>1 DEF Holds
    <3>2. ASSUME NEW m \in {n \in Mutex : Holds(t, n)} PROVE \E j \in 1 .. Len(held[t]) : held[t][j] = m
      BY DEF Holds
    <3> QED  BY <3>1, <3>2
  <2>3. Priority[t] = Top(t, held[t], OSMaxPriority, Len(held[t]))
    BY <1>1 DEF MutexInv, Stacks, Stacked
  <2> QED  BY <2>2, <2>3 DEF Top
<1>2. MutexInv => PriorityIsCeiling
  BY <1>1 DEF PriorityIsCeiling
<1> QED  BY <1>2, MutexAlways, PTL

\* The scheduler selects a context that exists, never the mark of a ceiling.
THEOREM ATaskIsScheduled ==
    ASSUME LifoRelease
    PROVE  MutexSpec => []SchedulesATask
<1>1. ASSUME MutexInv PROVE SchedulesATask
  <2>1. OSReadyList \cap OSBlockedList = OSReadyList /\ OSReadyList \in SUBSET Prio
    BY <1>1 DEF MutexInv, MutexTypes
  <2>2. OSReadyList \subseteq {0} \cup {Priority[t] : t \in Task} /\ PriorityVector[0] = IdleTask
    BY <1>1 DEF MutexInv, ReadyTasks, CeilingsApart
  <2>3. \A t \in Task : PriorityVector[Priority[t]] = t
    BY <1>1, Distinct
  <2> QED  BY <2>1, <2>2, <2>3, Selects DEF SchedulesATask, OSSchedule
<1> QED  BY <1>1, MutexAlways, PTL

\* No task disappears from the lists while its priority moves.
THEOREM TasksAreKept ==
    ASSUME LifoRelease
    PROVE  MutexSpec => []NoTaskLost
<1>1. MutexInv => NoTaskLost
  BY DEF MutexInv
<1> QED  BY <1>1, MutexAlways, PTL

\* Every variable of the mutexes keeps its type; no block counts more waiters
\* than there are tasks.
THEOREM MutexTypeCorrect ==
    ASSUME LifoRelease
    PROVE  MutexSpec => []MutexTypeOK
<1>1. ASSUME MutexInv, NEW m \in Mutex PROVE OSEventWait[m] \in 0 .. NUMBER_OF_TASKS
  <2> DEFINE W == OSEventWaitList[m]
             U == {Priority[t] : t \in Task}
  <2>1. IsFiniteSet(Task) /\ Cardinality(Task) = NUMBER_OF_TASKS
    BY TaskAssumption, FS_Interval DEF Task
  <2>2. Priority \in [Task -> 1 .. MaxPriority] /\ W \subseteq U
    BY <1>1 DEF MutexInv, MutexTypes, Waiters
  <2>3. IsFiniteSet(U) /\ Cardinality(U) <= Cardinality(Task)
    <3>1. Priority \in Surjection(Task, U)
      BY <2>2 DEF Surjection
    <3> HIDE DEF U
    <3> QED  BY <2>1, <3>1, FS_Surjection
  <2> HIDE DEF U, W
  <2>4. /\ IsFiniteSet(W) /\ Cardinality(W) <= Cardinality(U)
        /\ Cardinality(W) \in Nat /\ Cardinality(U) \in Nat
    BY <2>2, <2>3, FS_Subset, FS_CardinalityType
  <2>5. OSEventWait[m] = Cardinality(W)
    BY <1>1 DEF MutexInv, Waiters, W
  <2>6. NUMBER_OF_TASKS \in Nat
    BY TaskAssumption
  <2> QED  BY <2>1, <2>3, <2>4, <2>5, <2>6
<1>2. ASSUME MutexInv PROVE MutexTypeOK
  <2>1. OSEventWait \in [Mutex -> 0 .. NUMBER_OF_TASKS]
    BY <1>1, <1>2 DEF MutexInv, MutexTypes
  <2> QED  BY <1>2, <2>1 DEF MutexInv, MutexTypes, MutexTypeOK
<1> QED  BY <1>2, MutexAlways, PTL
=============================================================================
