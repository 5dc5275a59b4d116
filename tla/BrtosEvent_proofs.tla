------------------------- MODULE BrtosEvent_proofs --------------------------
(***************************************************************************)
(* Proofs about BrtosEvent, for any number of tasks and events, any order  *)
(* of posts, timeouts and deletions, and whatever the events hold: what is *)
(* proved here of EventSpec holds of every kind of event that implements   *)
(* it.                                                                     *)
(***************************************************************************)
EXTENDS BrtosEvent, BrtosKernel_proofs, FiniteSetTheorems

-----------------------------------------------------------------------------
\* The inductive invariant.

\* Every variable the argument is about has its type.
EventTypes ==
    /\ OSTickCounter \in 0 .. TICK_COUNT_OVERFLOW - 1
    /\ iNesting \in 0 .. MaxNesting
    /\ TimeToWait \in [Task -> Nat]
    /\ delayList \subseteq Task
    /\ at \in [Task -> {"run", "delay"} \cup Call]
    /\ OSEventAllocated \subseteq Event
    /\ OSEventWait \in [Event -> Nat]
    /\ OSEventWaitList \in [Event -> SUBSET Prio]
    /\ event \in [Task -> Event \cup {NoEvent}]
    /\ timed \subseteq Task /\ granted \subseteq Task

\* A task inside a pend is at an event, and only such a task has been given a
\* post.
Calls ==
    /\ \A t \in Task : at[t] \in Call => event[t] \in Event
    /\ \A t \in granted : at[t] \in Call

\* Only tasks inside a pend on e that no post has woken are on its wait list.
ListedPending ==
    \A e \in Event : \A p \in OSEventWaitList[e] :
      \E t \in Task : p = Priority[t] /\ Pending(t, e)

Ready(t) == Priority[t] \in OSReadyList

\* Which list a task is on tells how it was woken: a delayed task is ready when
\* it left the delay list, a waiter that is still listed only by its timeout.
HowWoken ==
    \A t \in Task :
      /\ t \in delayList => TimeToWait[t] < TICK_COUNT_OVERFLOW
      /\ at[t] = "run" => Ready(t)
      /\ at[t] = "delay" => (Ready(t) <=> t \notin delayList)
      /\ at[t] \in Call /\ Waiting(t) /\ Ready(t) => TimedOut(t)

EventInv ==
    /\ Installed /\ Scheduled
    /\ EventTypes /\ Calls
    /\ ListedPending /\ HowWoken /\ ListedWhileTimed
    /\ WaitCountExact

\* No call that waits for an event is confused with running or with a delay.
LEMMA CallNames == "run" \notin Call /\ "delay" \notin Call
BY DEF Call

LEMMA WaitListFinite ==
    ASSUME NEW S \in SUBSET Prio PROVE IsFiniteSet(S) /\ Cardinality(S) \in Nat
<1>1. IsFiniteSet(Prio)
  BY FS_Interval, TaskAssumption DEF Prio
<1> QED  BY <1>1, FS_Subset, FS_CardinalityType

LEMMA EventInitInv == EventInit => EventInv
<1> SUFFICES ASSUME EventInit PROVE EventInv
  OBVIOUS
<1>1. Init /\ Installed /\ Scheduled
  BY SchedInit DEF EventInit, SchedInv
<1>2. EventTypes
  BY TimeAssumption, EventAssumption DEF EventInit, Init, EventTypes, NoEvent
<1>3. Calls /\ ListedPending
  BY CallNames DEF EventInit, Init, Calls, ListedPending
<1>4. HowWoken
  BY CallNames DEF EventInit, Init, HowWoken, Ready
<1>5. ListedWhileTimed
  BY CallNames DEF EventInit, Init, ListedWhileTimed
<1>6. WaitCountExact
  BY FS_EmptySet DEF EventInit, WaitCountExact
<1> QED  BY <1>1, <1>2, <1>3, <1>4, <1>5, <1>6 DEF EventInv

-----------------------------------------------------------------------------
\* Scheduling.

\* A step that reschedules, stays in a handler or changes no list keeps the
\* highest-priority task running.
LEMMA SchedKept ==
    ASSUME Installed, Scheduled, UNCHANGED prios, OSReadyList' \subseteq UsedPrio,
           \/ ChangeContext
           \/ iNesting' # 0
           \/ UNCHANGED <<lists, currentTask, iNesting>>
    PROVE  Installed' /\ Scheduled'
<1>1. Installed'
  BY DEF Installed, prios
<1> QED  BY <1>1 DEF Scheduled, ChangeContext, OSSchedule, lists, prios

\* A task that executes is ready.
LEMMA ResumedReady ==
    ASSUME EventInv, NEW t \in Task, iNesting = 0, currentTask = t
    PROVE  Ready(t)
BY SchedRuns DEF EventInv, RunsHighest, Runnable, Ready

\* The priorities tell the tasks apart, and no call changes them.
LEMMA Distinct ==
    ASSUME Installed
    PROVE  /\ Priority \in [Task -> Prio]
           /\ \A t, u \in Task : Priority[t] = Priority[u] => t = u
           /\ \A t \in Task : Priority[t] \in UsedPrio /\ PriorityVector[Priority[t]] = t
BY TaskAssumption DEF Installed, Prio, UsedPrio

\* The task a post wakes is the highest of the waiters.
LEMMA WakesPending ==
    ASSUME EventInv, NEW e \in Event, OSEventWait[e] # 0
    PROVE  LET p == SAScheduler(OSEventWaitList[e]) IN
           /\ p \in OSEventWaitList[e]
           /\ \E t \in Task : p = Priority[t] /\ PriorityVector[p] = t /\ Pending(t, e)
<1>1. OSEventWaitList[e] \in SUBSET Prio /\ OSEventWaitList[e] # {}
  BY FS_EmptySet DEF EventInv, EventTypes, WaitCountExact
<1>2. SAScheduler(OSEventWaitList[e]) \in OSEventWaitList[e]
  BY <1>1, SchedulerGreatest
<1> QED  BY <1>2, Distinct DEF EventInv, ListedPending

\* What a pend that ends leaves alone.
LEMMA ReturnFrame ==
    ASSUME NEW t \in Task, EventReturn(t)
    PROVE  /\ UNCHANGED <<OSTickCounter, currentTask, iNesting, lists, prios, OSEventAllocated>>
           /\ iNesting = 0 /\ currentTask = t /\ at[t] \in Call
           /\ at' = [at EXCEPT ![t] = "run"]
           /\ event' = [event EXCEPT ![t] = NoEvent]
           /\ timed' = timed \ {t} /\ granted' = granted \ {t}
BY DEF EventReturn, ReturnPosted, ReturnTimeout, ReturnBoth, Return, Resumed

LEMMA EventSchedStep == EventInv /\ [EventNext]_evars => (Installed /\ Scheduled)'
<1> SUFFICES ASSUME EventInv, [EventNext]_evars PROVE (Installed /\ Scheduled)'
  OBVIOUS
<1>0. Installed /\ Scheduled /\ OSReadyList \subseteq UsedPrio
  BY DEF EventInv, Installed
<1>1. ASSUME NEW w \in 1 .. MaxWait, DelayTask(w) PROVE (Installed /\ Scheduled)'
  BY <1>0, <1>1, SchedKept DEF DelayTask
<1>2. CASE TickTimer
  <2>1. OSReadyList' \subseteq UsedPrio
    BY <1>0, <1>2, Distinct DEF TickTimer, OS_TICK_HANDLER, Expired, EventInv, EventTypes
  <2> QED  BY <1>0, <1>2, <2>1, SchedKept DEF TickTimer, IntExit
<1>3. CASE IsrEnter
  BY <1>0, <1>3, SchedKept DEF IsrEnter, lists, EventInv, EventTypes
<1>4. CASE IsrExit
  BY <1>0, <1>4, SchedKept DEF IsrExit, IntExit, lists
<1>5. ASSUME UNCHANGED <<lists, prios, currentTask, iNesting>>
      PROVE  (Installed /\ Scheduled)'
  BY <1>0, <1>5, SchedKept DEF lists
<1>6. ASSUME NEW e \in Event, NEW w \in 0 .. MaxWait, NEW call \in Call,
             JoinWaiters(e, w, call)
      PROVE  (Installed /\ Scheduled)'
  BY <1>0, <1>6, SchedKept DEF JoinWaiters
<1>7. ASSUME NEW e \in Event, WakeWaiter(e) PROVE (Installed /\ Scheduled)'
  <2>1. OSReadyList' \subseteq UsedPrio
    BY <1>0, <1>7, WakesPending, Distinct DEF WakeWaiter, SetReady
  <2> QED  BY <1>0, <1>7, <2>1, SchedKept DEF WakeWaiter, Reschedule, lists
<1>8. ASSUME NEW t \in Task, DelayReturn(t) \/ EventReturn(t)
      PROVE  (Installed /\ Scheduled)'
  BY <1>5, <1>8, ReturnFrame DEF DelayReturn
<1>9. ASSUME NEW e \in Event, NEW table, CreateEvent(e, table) \/ DeleteEvent(e)
      PROVE  (Installed /\ Scheduled)'
  BY <1>5, <1>9 DEF CreateEvent, DeleteEvent, kvars
<1>10. CASE UNCHANGED evars
  BY <1>5, <1>10 DEF evars, kvars
<1> QED
  BY <1>1, <1>2, <1>3, <1>4, <1>6, <1>7, <1>8, <1>9, <1>10
  DEF EventNext, KernelStep, Interrupt

-----------------------------------------------------------------------------
\* Types and the wait lists.

\* A waiter that leaves is taken out of the list and of the count.
LEMMA Removed ==
    ASSUME EventInv, NEW e \in Event, NEW p \in OSEventWaitList[e], RemoveWaiter(e, p)
    PROVE  /\ OSEventWaitList' \in [Event -> SUBSET Prio]
           /\ OSEventWait' \in [Event -> Nat]
           /\ WaitCountExact'
           /\ \A r \in Event : OSEventWaitList'[r] =
                OSEventWaitList[r] \ IF r = e THEN {p} ELSE {}
<1> USE DEF RemoveWaiter, EventInv, EventTypes
<1> DEFINE W == OSEventWaitList[e]
<1>1. IsFiniteSet(W) /\ OSEventWait[e] = Cardinality(W) /\ p \in W
  BY WaitListFinite DEF WaitCountExact
<1>2. Cardinality(W \ {p}) = OSEventWait[e] - 1
  <2> HIDE DEF W
  <2>1. Cardinality(W \ {p}) = Cardinality(W) - 1
    BY <1>1, FS_RemoveElement, Zenon
  <2> QED  BY <1>1, <2>1
<1>3. OSEventWait[e] - 1 \in Nat
  BY <1>2, WaitListFinite
<1>4. WaitCountExact'
  BY <1>2 DEF WaitCountExact
<1> QED  BY <1>3, <1>4

\* A caller that waits is added to both.
LEMMA Joined ==
    ASSUME EventInv, NEW e \in Event, NEW w \in 0 .. MaxWait, NEW call \in Call,
           JoinWaiters(e, w, call)
    PROVE  /\ OSEventWaitList' \in [Event -> SUBSET Prio]
           /\ OSEventWait' \in [Event -> Nat]
           /\ WaitCountExact'
<1> USE DEF JoinWaiters, InTask, EventInv, EventTypes
<1>1. Priority[currentTask] \in Prio
  BY Distinct
<1> DEFINE W == OSEventWaitList[e]
           p == Priority[currentTask]
<1>2. p \notin W
  BY Distinct, CallNames DEF ListedPending, Pending
<1>3. IsFiniteSet(W) /\ OSEventWait[e] = Cardinality(W)
  BY WaitListFinite DEF WaitCountExact
<1>4. Cardinality(W \cup {p}) = OSEventWait[e] + 1
  <2> HIDE DEF W, p
  <2>1. Cardinality(W \cup {p}) = Cardinality(W) + 1
    BY <1>2, <1>3, FS_AddElement, Zenon
  <2> QED  BY <1>3, <2>1
<1>5. WaitCountExact'
  BY <1>4 DEF WaitCountExact
<1> QED  BY <1>1, <1>5

\* The waiter that times out is on the list of the event it waits for.
LEMMA TimeoutListed ==
    ASSUME EventInv, NEW t \in Task, NEW call \in Call, ReturnTimeout(t, call)
    PROVE  event[t] \in Event /\ Priority[t] \in OSEventWaitList[event[t]]
BY DEF ReturnTimeout, Resumed, Waiting, EventInv, Calls

LEMMA EventTypesStep ==
    ASSUME EventInv, [EventNext]_evars
    PROVE  EventTypes'
<1> USE TimeAssumption, EventAssumption DEF EventInv, EventTypes
<1>1. ASSUME NEW w \in 1 .. MaxWait, DelayTask(w), UNCHANGED <<blocks, callers>>
      PROVE  EventTypes'
  <2>1. Deadline(w) \in Nat
    BY DEF Deadline
  <2> QED
    BY <1>1, <2>1 DEF DelayTask, InTask, StartWait, blocks, callers
<1>2. CASE TickTimer /\ UNCHANGED <<blocks, callers>>
  <2>1. OSTickCounter' \in 0 .. TICK_COUNT_OVERFLOW - 1
    BY <1>2 DEF TickTimer, OSIncCounter
  <2> QED
    BY <1>2, <2>1 DEF TickTimer, OS_TICK_HANDLER, blocks, callers
<1>3. CASE (IsrEnter \/ IsrExit \/ \E t \in Task : DelayReturn(t))
           /\ UNCHANGED <<blocks, callers>>
  BY <1>3 DEF IsrEnter, IsrExit, DelayReturn, timing, blocks, callers
<1>4. ASSUME NEW e \in Event, NEW table, CreateEvent(e, table) \/ DeleteEvent(e)
      PROVE  EventTypes'
  BY <1>4 DEF CreateEvent, DeleteEvent, ClearWaiters, kvars, timing, callers
<1>5. ASSUME NEW e \in Event, NEW w \in 0 .. MaxWait, NEW call \in Call,
             JoinWaiters(e, w, call)
      PROVE  EventTypes'
  <2>1. w > 0 => Deadline(w) \in Nat
    BY DEF Deadline
  <2>2. TimeToWait' \in [Task -> Nat] /\ delayList' \subseteq Task /\ timed' \subseteq Task
    BY <1>5, <2>1 DEF JoinWaiters, InTask, SetTimeout, StartWait
  <2> QED  BY <1>5, <2>2, Joined DEF JoinWaiters, InTask
<1>6. ASSUME NEW t \in Task, NEW call \in Call, ReturnPosted(t, call) PROVE EventTypes'
  <2>1. TimeToWait' \in [Task -> Nat] /\ delayList' \subseteq Task
    BY <1>6 DEF ReturnPosted, CancelTimeout, timing
  <2> QED  BY <1>6, <2>1 DEF ReturnPosted, Return
<1>7. ASSUME NEW t \in Task, NEW call \in Call, ReturnTimeout(t, call) PROVE EventTypes'
  <2>1. OSEventWaitList' \in [Event -> SUBSET Prio] /\ OSEventWait' \in [Event -> Nat]
    BY <1>7, TimeoutListed, Removed DEF ReturnTimeout
  <2> QED  BY <1>7, <2>1 DEF ReturnTimeout, Return, timing
<1>8. ASSUME NEW t \in Task, NEW call \in Call, ReturnBoth(t, call) PROVE EventTypes'
  BY <1>8 DEF ReturnBoth, Return, timing
<1>9. ASSUME NEW e \in Event, WakeWaiter(e) PROVE EventTypes'
  <2>1. /\ OSEventWaitList' \in [Event -> SUBSET Prio] /\ OSEventWait' \in [Event -> Nat]
        /\ granted' \subseteq Task
    BY <1>9, WakesPending, Removed DEF WakeWaiter
  <2> QED  BY <1>9, <2>1 DEF WakeWaiter, timing
<1>10. CASE UNCHANGED evars
  BY <1>10 DEF evars, kvars, timing, blocks, callers
<1> QED
  BY <1>1, <1>2, <1>3, <1>4, <1>5, <1>6, <1>7, <1>8, <1>9, <1>10
  DEF EventNext, KernelStep, Interrupt, EventReturn

-----------------------------------------------------------------------------
\* How a task was woken.

\* A deadline is a value of the tick counter, as long as no wait is longer than
\* its wrap.
LEMMA DeadlineInRange ==
    ASSUME MaxWait <= TICK_COUNT_OVERFLOW, EventTypes, NEW w \in 1 .. MaxWait
    PROVE  Deadline(w) \in 0 .. TICK_COUNT_OVERFLOW - 1
BY TimeAssumption DEF Deadline, EventTypes

\* A task that returns by a post is off the wait list.
LEMMA PostedUnlisted ==
    ASSUME EventInv, NEW t \in Task, NEW call \in Call, ReturnPosted(t, call)
    PROVE  ~ Waiting(t)
<1>1. at[t] \in Call /\ Ready(t)
  BY ResumedReady DEF ReturnPosted, Resumed
<1> QED  BY <1>1 DEF ReturnPosted, EventInv, HowWoken

LEMMA EventWokenStep ==
    ASSUME MaxWait <= TICK_COUNT_OVERFLOW, EventInv, [EventNext]_evars
    PROVE  HowWoken' /\ ListedWhileTimed'
<1> USE TimeAssumption, CallNames DEF EventTypes
<1>0. /\ Installed /\ EventTypes /\ HowWoken /\ ListedWhileTimed /\ Calls
      /\ \A t, u \in Task : Priority[t] = Priority[u] => t = u
      /\ Priority \in [Task -> Prio]
      /\ TICK_COUNT_OVERFLOW <= EXIT_BY_TIMEOUT
  BY Distinct DEF EventInv
<1>1. ASSUME NEW w \in 1 .. MaxWait, DelayTask(w), UNCHANGED <<blocks, callers>>
      PROVE  HowWoken' /\ ListedWhileTimed'
  <2>1. Deadline(w) \in 0 .. TICK_COUNT_OVERFLOW - 1
    BY <1>0, DeadlineInRange
  <2>2. \A t \in Task : Ready(t)' <=> Ready(t) /\ t # currentTask
    BY <1>0, <1>1 DEF DelayTask, InTask, Ready, prios
  <2>3. \A t \in Task : Waiting(t)' <=> Waiting(t)
    BY <1>1 DEF DelayTask, Waiting, prios, blocks, callers
  <2>4. HowWoken'
    BY <1>0, <1>1, <2>1, <2>2, <2>3
       DEF DelayTask, InTask, StartWait, HowWoken, TimedOut, blocks, callers
  <2>5. ListedWhileTimed'
    BY <1>0, <1>1, <2>1 DEF DelayTask, InTask, StartWait, ListedWhileTimed, callers
  <2> QED  BY <2>4, <2>5
<1>2. CASE TickTimer /\ UNCHANGED <<blocks, callers>>
  <2> USE <1>2 DEF TickTimer, OS_TICK_HANDLER
  <2>1. Expired \subseteq delayList
    BY DEF Expired
  <2>2. \A t \in Task : Ready(t)' <=> Ready(t) \/ t \in Expired
    BY <1>0, <2>1 DEF Ready, prios
  <2>3. \A t \in Task : Waiting(t)' <=> Waiting(t)
    BY DEF Waiting, prios, blocks, callers
  <2>4. HowWoken'
    BY <1>0, <2>1, <2>2, <2>3 DEF HowWoken, TimedOut, ListedWhileTimed, callers
  <2>5. ListedWhileTimed'
    BY <1>0, <2>1 DEF ListedWhileTimed, callers
  <2> QED  BY <2>4, <2>5
<1>3. ASSUME NEW t \in Task, DelayReturn(t), UNCHANGED <<blocks, callers>>
      PROVE  HowWoken' /\ ListedWhileTimed'
  <2> USE <1>3 DEF DelayReturn, Resumed, timing, lists, prios, callers, blocks
  <2>1. Ready(t) /\ at[t] = "delay"
    BY ResumedReady
  <2>2. HowWoken'
    BY <1>0, <2>1 DEF HowWoken, TimedOut, Ready, Waiting
  <2>3. ListedWhileTimed'
    BY <1>0, <2>1 DEF HowWoken, ListedWhileTimed
  <2> QED  BY <2>2, <2>3
<1>4. ASSUME UNCHANGED <<OSReadyList, prios, TimeToWait, delayList, at, event, timed>>,
             \A e \in Event : OSEventWaitList'[e] \subseteq OSEventWaitList[e]
      PROVE  HowWoken' /\ ListedWhileTimed'
  <2>1. \A t \in Task : Ready(t)' <=> Ready(t)
    BY <1>4 DEF Ready, prios
  <2>2. \A t \in Task : at[t] \in Call /\ Waiting(t)' => Waiting(t)
    BY <1>0, <1>4 DEF Waiting, prios, Calls
  <2>3. HowWoken'
    BY <1>0, <1>4, <2>1, <2>2 DEF HowWoken, TimedOut
  <2> QED  BY <1>0, <1>4, <2>3 DEF ListedWhileTimed
<1>5. CASE (IsrEnter \/ IsrExit) /\ UNCHANGED <<blocks, callers>>
  BY <1>4, <1>5 DEF IsrEnter, IsrExit, lists, timing, blocks, callers
<1>6. ASSUME NEW e \in Event, NEW table, CreateEvent(e, table) \/ DeleteEvent(e)
      PROVE  HowWoken' /\ ListedWhileTimed'
  <2>1. \A r \in Event : OSEventWaitList'[r] \subseteq OSEventWaitList[r]
    BY <1>0, <1>6 DEF CreateEvent, DeleteEvent, ClearWaiters
  <2> QED
    BY <1>4, <1>6, <2>1 DEF CreateEvent, DeleteEvent, kvars, lists, timing, callers
<1>7. ASSUME NEW e \in Event, NEW w \in 0 .. MaxWait, NEW call \in Call,
             JoinWaiters(e, w, call)
      PROVE  HowWoken' /\ ListedWhileTimed'
  <2> USE <1>7 DEF JoinWaiters, InTask
  <2>1. w > 0 => Deadline(w) \in 0 .. TICK_COUNT_OVERFLOW - 1
    BY <1>0, DeadlineInRange
  <2>2. \A t \in Task : Ready(t)' <=> Ready(t) /\ t # currentTask
    BY <1>0 DEF Ready, prios
  <2>3. \A t \in Task \ {currentTask} : at[t] \in Call => (Waiting(t)' <=> Waiting(t))
    BY <1>0 DEF Waiting, prios, Calls
  <2>4. /\ at' = [at EXCEPT ![currentTask] = call]
        /\ currentTask \notin delayList /\ at[currentTask] = "run"
    BY <1>0 DEF ListedWhileTimed
  <2>5. CASE w > 0
    <3> USE <2>5 DEF SetTimeout, StartWait
    <3>1. HowWoken'
      BY <1>0, <2>1, <2>2, <2>3 DEF HowWoken, TimedOut
    <3>2. ListedWhileTimed'
      BY <1>0, <2>1 DEF ListedWhileTimed
    <3> QED  BY <3>1, <3>2
  <2>6. CASE ~ (w > 0)
    <3> USE <2>6 DEF SetTimeout
    <3>1. HowWoken'
      BY <1>0, <2>2, <2>3, <2>4 DEF HowWoken, TimedOut
    <3>2. ListedWhileTimed'
      BY <1>0, <2>4 DEF ListedWhileTimed
    <3> QED  BY <3>1, <3>2
  <2> QED  BY <2>5, <2>6
<1>8. ASSUME NEW t \in Task, NEW call \in Call,
             ReturnPosted(t, call) \/ ReturnTimeout(t, call) \/ ReturnBoth(t, call)
      PROVE  HowWoken' /\ ListedWhileTimed'
  <2>0. EventReturn(t)
    BY <1>8 DEF EventReturn
  <2>1. Ready(t) /\ at[t] \in Call
    BY <2>0, ReturnFrame, ResumedReady
  <2>2. /\ at' = [at EXCEPT ![t] = "run"] /\ timed' = timed \ {t}
        /\ event' = [event EXCEPT ![t] = NoEvent]
        /\ UNCHANGED <<OSReadyList, Priority>>
        /\ \A u \in Task \ {t} : TimeToWait'[u] = TimeToWait[u]
        /\ delayList' \ {t} = delayList \ {t}
    BY <1>0, <1>8, <2>0, ReturnFrame DEF ReturnPosted, ReturnTimeout,
       ReturnBoth, CancelTimeout, timing, lists, prios
  <2>3. t \notin delayList'
    BY <1>0, <1>8, <2>1 DEF ReturnPosted, ReturnTimeout, ReturnBoth, TimedOut,
       CancelTimeout, timing, ListedWhileTimed
  <2>4. \A e \in Event : OSEventWaitList'[e] \subseteq OSEventWaitList[e]
    BY <1>0, <1>8 DEF ReturnPosted, ReturnTimeout, ReturnBoth, RemoveWaiter
  <2>5. \A u \in Task \ {t} :
          /\ at'[u] = at[u] /\ (Ready(u)' <=> Ready(u))
          /\ u \in delayList' <=> u \in delayList
          /\ u \in timed' <=> u \in timed
          /\ at[u] \in Call /\ Waiting(u)' => Waiting(u)
    BY <1>0, <2>2, <2>4 DEF Ready, Waiting, Calls
  <2>6. at'[t] = "run" /\ Ready(t)'
    BY <1>0, <2>1, <2>2 DEF Ready
  <2>7. HowWoken'
    BY <1>0, <2>2, <2>3, <2>5, <2>6 DEF HowWoken, TimedOut
  <2>8. ListedWhileTimed'
    BY <1>0, <2>2, <2>3, <2>5, <2>6 DEF ListedWhileTimed
  <2> QED  BY <2>7, <2>8
<1>9. ASSUME NEW e \in Event, WakeWaiter(e) PROVE HowWoken' /\ ListedWhileTimed'
  <2> DEFINE p == SAScheduler(OSEventWaitList[e])
  <2>1. PICK t \in Task : p = Priority[t] /\ Pending(t, e)
    BY <1>9, WakesPending DEF WakeWaiter
  <2>2. /\ UNCHANGED <<Priority, TimeToWait, delayList, at, event, timed>>
        /\ OSReadyList' = OSReadyList \cup {p}
        /\ OSEventWaitList' = [OSEventWaitList EXCEPT ![e] = @ \ {p}]
    BY <1>9 DEF WakeWaiter, SetReady, RemoveWaiter, prios, timing
  <2> HIDE DEF p
  <2>3. \A u \in Task : Ready(u)' <=> Ready(u) \/ u = t
    BY <1>0, <2>1, <2>2 DEF Ready
  <2>4. \A u \in Task : at[u] \in Call /\ Waiting(u)' => Waiting(u) /\ u # t
    BY <1>0, <2>1, <2>2 DEF Waiting, Calls, Pending
  <2>5. HowWoken'
    BY <1>0, <2>1, <2>2, <2>3, <2>4 DEF HowWoken, TimedOut, Pending
  <2> QED  BY <1>0, <2>2, <2>5 DEF ListedWhileTimed
<1>10. CASE UNCHANGED evars
  BY <1>0, <1>4, <1>10 DEF evars, kvars, lists, timing, blocks, callers
<1> QED
  BY <1>1, <1>2, <1>3, <1>5, <1>6, <1>7, <1>8, <1>9, <1>10
  DEF EventNext, KernelStep, Interrupt, EventReturn

-----------------------------------------------------------------------------
\* Who is on a wait list.

\* The kernel's own steps neither enter nor leave a pend.
LEMMA KernelCalls ==
    ASSUME EventInv, KernelStep
    PROVE  /\ UNCHANGED <<prios, blocks, callers>>
           /\ \A t \in Task : at[t] \in Call <=> at'[t] \in Call
<1>1. UNCHANGED <<prios, blocks, callers>>
  BY DEF KernelStep, Interrupt, DelayTask, DelayReturn, TickTimer, IsrEnter, IsrExit
<1>2. \A t \in Task : at[t] \in Call <=> at'[t] \in Call
  BY CallNames
  DEF KernelStep, Interrupt, DelayTask, InTask, DelayReturn, Resumed, TickTimer,
      IsrEnter, IsrExit, EventInv, EventTypes
<1> QED  BY <1>1, <1>2

LEMMA EventListStep ==
    ASSUME EventInv, [EventNext]_evars
    PROVE  Calls' /\ ListedPending' /\ WaitCountExact'
<1> USE CallNames DEF EventTypes
<1>0. /\ Installed /\ EventTypes /\ Calls /\ ListedPending /\ WaitCountExact
      /\ \A t, u \in Task : Priority[t] = Priority[u] => t = u
      /\ Priority \in [Task -> Prio]
  BY Distinct DEF EventInv
<1>1. ASSUME UNCHANGED <<prios, blocks, callers>>,
             \A t \in Task : at[t] \in Call <=> at'[t] \in Call
      PROVE  Calls' /\ ListedPending' /\ WaitCountExact'
  <2>1. Calls'
    BY <1>0, <1>1 DEF Calls, callers
  <2>2. ListedPending'
    BY <1>0, <1>1 DEF ListedPending, Pending, blocks, callers, prios
  <2> QED  BY <1>0, <1>1, <2>1, <2>2 DEF WaitCountExact, blocks
<1>2. CASE KernelStep
  BY <1>1, <1>2, KernelCalls
<1>3. ASSUME NEW e \in Event, NEW table, CreateEvent(e, table) \/ DeleteEvent(e)
      PROVE  Calls' /\ ListedPending' /\ WaitCountExact'
  <2>1. /\ UNCHANGED <<Priority, at, event, granted>>
        /\ OSEventWait' = [OSEventWait EXCEPT ![e] = 0]
        /\ OSEventWaitList' = [OSEventWaitList EXCEPT ![e] = {}]
    BY <1>3 DEF CreateEvent, DeleteEvent, ClearWaiters, kvars, prios, callers
  <2>2. Calls'
    BY <1>0, <2>1 DEF Calls
  <2>3. ListedPending'
    BY <1>0, <2>1 DEF ListedPending, Pending
  <2>4. WaitCountExact'
    BY <1>0, <2>1, FS_EmptySet DEF WaitCountExact
  <2> QED  BY <2>2, <2>3, <2>4
<1>4. ASSUME NEW e \in Event, NEW w \in 0 .. MaxWait, NEW call \in Call,
             JoinWaiters(e, w, call)
      PROVE  Calls' /\ ListedPending' /\ WaitCountExact'
  <2> USE <1>4 DEF JoinWaiters, InTask, prios
  <2>1. currentTask \notin granted /\ UNCHANGED granted
    BY <1>0 DEF Calls
  <2>2. Calls'
    BY <1>0, <2>1 DEF Calls
  <2>3. \A t \in Task : \A r \in Event : Pending(t, r) => Pending(t, r)'
    BY <1>0 DEF Pending
  <2>4. PICK c \in Task : c = currentTask
    OBVIOUS
  <2>5. ListedPending'
    <3>1. Pending(c, e)'
      BY <1>0, <2>1, <2>4 DEF Pending
    <3>2. \A r \in Event : OSEventWaitList'[r] =
            OSEventWaitList[r] \cup IF r = e THEN {Priority[c]} ELSE {}
      BY <1>0, <2>4
    <3>3. ASSUME NEW r \in Event, NEW q \in OSEventWaitList'[r]
          PROVE  \E t \in Task : q = Priority'[t] /\ Pending(t, r)'
      <4>1. CASE q \in OSEventWaitList[r]
        BY <1>0, <2>3, <4>1 DEF ListedPending
      <4>2. CASE q \notin OSEventWaitList[r]
        BY <3>1, <3>2, <4>2
      <4> QED  BY <4>1, <4>2
    <3> QED  BY <3>3 DEF ListedPending
  <2> QED  BY <2>2, <2>5, Joined
<1>5. ASSUME NEW t \in Task, NEW call \in Call,
             ReturnPosted(t, call) \/ ReturnTimeout(t, call) \/ ReturnBoth(t, call)
      PROVE  Calls' /\ ListedPending' /\ WaitCountExact'
  <2>0. EventReturn(t)
    BY <1>5 DEF EventReturn
  <2>1. /\ event[t] \in Event
        /\ at' = [at EXCEPT ![t] = "run"] /\ event' = [event EXCEPT ![t] = NoEvent]
        /\ granted' = granted \ {t}
        /\ UNCHANGED <<Priority, OSEventAllocated>>
    BY <1>0, <2>0, ReturnFrame DEF Calls, prios
  <2>2. /\ \A e \in Event : OSEventWaitList'[e] \subseteq OSEventWaitList[e]
        /\ Priority[t] \notin OSEventWaitList'[event[t]]
        /\ WaitCountExact'
    <3>1. CASE ReturnPosted(t, call)
      BY <1>0, <3>1, PostedUnlisted DEF ReturnPosted, Waiting, WaitCountExact
    <3>2. CASE ReturnTimeout(t, call)
      BY <1>0, <2>1, <3>2, TimeoutListed, Removed DEF ReturnTimeout
    <3>3. CASE ReturnBoth(t, call)
      BY <1>0, <3>3 DEF ReturnBoth, Waiting, WaitCountExact
    <3> QED  BY <1>5, <3>1, <3>2, <3>3
  <2>3. Calls'
    BY <1>0, <2>1 DEF Calls
  <2>4. \A u \in Task \ {t} : \A e \in Event : Pending(u, e) => Pending(u, e)'
    BY <1>0, <2>1 DEF Pending
  <2>5. ASSUME NEW e \in Event, NEW p \in OSEventWaitList'[e]
        PROVE  \E u \in Task : p = Priority'[u] /\ Pending(u, e)'
    <3>1. PICK u \in Task : p = Priority[u] /\ Pending(u, e)
      BY <1>0, <2>2 DEF ListedPending
    <3>2. u # t
      BY <2>2, <3>1 DEF Pending
    <3> QED  BY <2>1, <2>4, <3>1, <3>2
  <2> QED  BY <2>2, <2>3, <2>5 DEF ListedPending
<1>6. ASSUME NEW e \in Event, WakeWaiter(e)
      PROVE  Calls' /\ ListedPending' /\ WaitCountExact'
  <2> DEFINE p == SAScheduler(OSEventWaitList[e])
  <2>1. /\ p \in OSEventWaitList[e]
        /\ \E t \in Task : p = Priority[t] /\ PriorityVector[p] = t /\ Pending(t, e)
    BY <1>6, WakesPending DEF WakeWaiter
  <2>2. PICK t \in Task : p = Priority[t] /\ PriorityVector[p] = t /\ Pending(t, e)
    BY <2>1
  <2>3. /\ UNCHANGED <<Priority, at, event, OSEventAllocated>>
        /\ granted' = granted \cup {t} /\ RemoveWaiter(e, p)
    BY <1>6, <2>2 DEF WakeWaiter, prios
  <2> HIDE DEF p
  <2>4. /\ WaitCountExact'
        /\ \A r \in Event : OSEventWaitList'[r] =
             OSEventWaitList[r] \ IF r = e THEN {p} ELSE {}
    BY <2>1, <2>3, Removed
  <2>5. Calls'
    BY <1>0, <2>2, <2>3 DEF Calls, Pending
  <2>6. ASSUME NEW r \in Event, NEW q \in OSEventWaitList'[r]
        PROVE  \E u \in Task : q = Priority'[u] /\ Pending(u, r)'
    <3>1. PICK u \in Task : q = Priority[u] /\ Pending(u, r)
      BY <1>0, <2>4 DEF ListedPending
    <3>2. u # t
      BY <2>2, <2>4, <3>1 DEF Pending
    <3> QED  BY <2>3, <3>1, <3>2 DEF Pending
  <2> QED  BY <2>4, <2>5, <2>6 DEF ListedPending
<1>7. CASE UNCHANGED evars
  BY <1>1, <1>7 DEF evars, kvars
<1> QED
  BY <1>2, <1>3, <1>4, <1>5, <1>6, <1>7 DEF EventNext, EventReturn

-----------------------------------------------------------------------------
\* The invariant, and what follows from it.

LEMMA EventAlways ==
    ASSUME MaxWait <= TICK_COUNT_OVERFLOW
    PROVE  EventSpec => []EventInv
<1>1. EventInv /\ [EventNext]_evars => EventInv'
  BY EventSchedStep, EventTypesStep, EventWokenStep, EventListStep DEF EventInv
<1> QED  BY EventInitInv, <1>1, PTL DEF EventSpec

\* OSEventWait, which decides whether a post wakes a task, is the number of
\* waiters, whatever the order of posts, timeouts, deletions and new creations.
THEOREM WaitersCounted ==
    ASSUME MaxWait <= TICK_COUNT_OVERFLOW
    PROVE  EventSpec => []WaitCountExact
<1>1. EventInv => WaitCountExact
  BY DEF EventInv
<1> QED  BY <1>1, EventAlways, PTL

\* The delay list holds exactly the tasks with a deadline ahead of them: what a
\* resumed waiter takes out of the list is in it.
THEOREM DelayListExact ==
    ASSUME MaxWait <= TICK_COUNT_OVERFLOW
    PROVE  EventSpec => []ListedWhileTimed
<1>1. EventInv => ListedWhileTimed
  BY DEF EventInv
<1> QED  BY <1>1, EventAlways, PTL

\* The highest-priority runnable task runs, also after every pend and post.
THEOREM EventHighestRuns ==
    ASSUME MaxWait <= TICK_COUNT_OVERFLOW
    PROVE  EventSpec => []RunsHighest
<1>1. EventInv => RunsHighest
  BY SchedRuns DEF EventInv
<1> QED  BY <1>1, EventAlways, PTL

-----------------------------------------------------------------------------
\* Time, and who is running.

\* The rest of the kernel's state has its type, and deadlines are exact.
TimeInv ==
    /\ EventInv
    /\ OSBlockedList \subseteq Prio
    /\ currentTask \in Task \cup {IdleTask}
    /\ TimeTypes /\ TimeLeft

\* No event call blocks a priority, and the processor changes hands only to the
\* task the scheduler selects.
LEMMA EventSwitches ==
    ASSUME [EventNext]_evars
    PROVE  UNCHANGED OSBlockedList /\ (ChangeContext \/ UNCHANGED currentTask)
<1>1. ASSUME NEW w \in 1 .. MaxWait, DelayTask(w)
      PROVE  UNCHANGED OSBlockedList /\ ChangeContext
  BY <1>1 DEF DelayTask
<1>2. CASE Interrupt
  BY <1>2 DEF Interrupt, TickTimer, OS_TICK_HANDLER, IsrEnter, IsrExit, IntExit, lists
<1>3. ASSUME NEW t \in Task, DelayReturn(t)
      PROVE  UNCHANGED OSBlockedList /\ UNCHANGED currentTask
  BY <1>3 DEF DelayReturn, lists
<1>4. ASSUME NEW e, NEW table, CreateEvent(e, table) \/ DeleteEvent(e)
      PROVE  UNCHANGED OSBlockedList /\ UNCHANGED currentTask
  BY <1>4 DEF CreateEvent, DeleteEvent, kvars, lists
<1>5. ASSUME NEW e, NEW w, NEW call, JoinWaiters(e, w, call)
      PROVE  UNCHANGED OSBlockedList /\ ChangeContext
  BY <1>5 DEF JoinWaiters
<1>6. ASSUME NEW e, WakeWaiter(e)
      PROVE  UNCHANGED OSBlockedList /\ (ChangeContext \/ UNCHANGED currentTask)
  BY <1>6 DEF WakeWaiter, Reschedule
<1>7. ASSUME NEW t \in Task, EventReturn(t)
      PROVE  UNCHANGED OSBlockedList /\ UNCHANGED currentTask
  BY <1>7, ReturnFrame DEF lists
<1>8. CASE UNCHANGED evars
  BY <1>8 DEF evars, kvars, lists
<1> QED
  BY <1>1, <1>2, <1>3, <1>4, <1>5, <1>6, <1>7, <1>8 DEF EventNext, KernelStep

LEMMA TimeStep ==
    ASSUME MaxWait <= TICK_COUNT_OVERFLOW, TimeInv, [EventNext]_evars
    PROVE  TimeTypes' /\ TimeLeft'
<1>0. EventInv /\ EventTypes /\ ListedWhileTimed /\ TimeTypes /\ TimeLeft
  BY DEF TimeInv, EventInv
<1>1. ASSUME UNCHANGED OSTickCounter, UNCHANGED timing PROVE TimeTypes' /\ TimeLeft'
  BY <1>0, <1>1 DEF timing, TimeTypes, TimeLeft, DeadlineAhead
<1>2. ASSUME NEW w \in 1 .. MaxWait, DelayTask(w) PROVE TimeTypes' /\ TimeLeft'
  BY <1>0, <1>2, WaitStarts DEF DelayTask, InTask
<1>3. CASE TickTimer
  BY <1>0, <1>3, TimePasses DEF TickTimer
<1>4. ASSUME NEW e \in Event, NEW w \in 0 .. MaxWait, NEW call \in Call,
             JoinWaiters(e, w, call)
      PROVE  TimeTypes' /\ TimeLeft'
  <2>1. currentTask \in Task /\ at[currentTask] = "run" /\ UNCHANGED OSTickCounter
    BY <1>4 DEF JoinWaiters, InTask
  <2>2. CASE w > 0
    <3>1. w \in 1 .. MaxWait /\ StartWait(w)
      BY <1>4, <2>2, TimeAssumption DEF JoinWaiters, SetTimeout
    <3> QED  BY <1>0, <2>1, <3>1, WaitStarts
\* A task that waits without a deadline leaves the delay list as it is: it is
\* running, so it is not on the list itself.
  <2>3. CASE ~ (w > 0)
    <3>1. currentTask \notin delayList
      BY <1>0, <2>1, CallNames DEF ListedWhileTimed
    <3>2. /\ TimeToWait' = [TimeToWait EXCEPT ![currentTask] = NO_TIMEOUT]
          /\ UNCHANGED <<delayList, remaining>>
      BY <1>4, <2>3 DEF JoinWaiters, SetTimeout
    <3> QED
      BY <1>0, <2>1, <3>1, <3>2, TimeAssumption DEF TimeTypes, TimeLeft, DeadlineAhead
  <2> QED  BY <2>2, <2>3
<1>5. ASSUME NEW t \in Task, EventReturn(t) PROVE TimeTypes' /\ TimeLeft'
  <2>1. UNCHANGED OSTickCounter /\ (UNCHANGED timing \/ CancelTimeout(t))
    BY <1>5, ReturnFrame DEF EventReturn, ReturnPosted, ReturnTimeout, ReturnBoth
  <2>2. CASE CancelTimeout(t)
    BY <1>0, <2>1, <2>2, TimeAssumption
       DEF CancelTimeout, TimeTypes, TimeLeft, DeadlineAhead
  <2> QED  BY <1>1, <2>1, <2>2
<1>6. CASE IsrEnter \/ IsrExit \/ \E t \in Task : DelayReturn(t)
  BY <1>1, <1>6 DEF IsrEnter, IsrExit, DelayReturn
<1>7. ASSUME NEW e \in Event, NEW table,
             CreateEvent(e, table) \/ DeleteEvent(e) \/ WakeWaiter(e)
      PROVE  TimeTypes' /\ TimeLeft'
  BY <1>1, <1>7 DEF CreateEvent, DeleteEvent, WakeWaiter, kvars
<1>8. CASE UNCHANGED evars
  BY <1>1, <1>8 DEF evars, kvars
<1> QED
  BY <1>2, <1>3, <1>4, <1>5, <1>6, <1>7, <1>8 DEF EventNext, KernelStep, Interrupt

LEMMA TimeAlways ==
    ASSUME MaxWait <= TICK_COUNT_OVERFLOW
    PROVE  EventSpec => []TimeInv
<1>1. EventInit => TimeInv
  <2> SUFFICES ASSUME EventInit PROVE TimeInv
    OBVIOUS
  <2>1. EventInv /\ TypeOK
    BY EventInitInv, SchedInit DEF EventInit, SchedInv
  <2>2. TimeTypes /\ TimeLeft
    BY <2>1 DEF EventInit, Init, TypeOK, TimeTypes, TimeLeft, DeadlineAhead
  <2> QED  BY <2>1, <2>2 DEF TypeOK, TimeInv
<1>2. TimeInv /\ EventInv' /\ [EventNext]_evars => TimeInv'
  <2> SUFFICES ASSUME TimeInv, EventInv', [EventNext]_evars PROVE TimeInv'
    OBVIOUS
  <2>1. TimeTypes' /\ TimeLeft'
    BY TimeStep
  <2>2. OSSchedule' \in Task \cup {IdleTask}
    <3>1. (OSReadyList \cap OSBlockedList)' \in SUBSET UsedPrio
      BY DEF EventInv, Installed
    <3> QED  BY <3>1, Selection DEF OSSchedule, EventInv, Installed
  <2>3. OSBlockedList' \subseteq Prio /\ currentTask' \in Task \cup {IdleTask}
    BY <2>2, EventSwitches DEF TimeInv, ChangeContext
  <2> QED  BY <2>1, <2>3 DEF TimeInv
<1> QED  BY <1>1, <1>2, EventAlways, PTL DEF EventSpec

\* A wait list holds tasks, so its counter is never above their number.
LEMMA WaitersBounded ==
    ASSUME EventInv
    PROVE  OSEventWait \in [Event -> 0 .. NUMBER_OF_TASKS]
<1>1. ASSUME NEW e \in Event PROVE OSEventWait[e] \in 0 .. NUMBER_OF_TASKS
  <2> DEFINE W == OSEventWaitList[e]
             U == {Priority[t] : t \in Task}
  <2>1. IsFiniteSet(Task) /\ Cardinality(Task) = NUMBER_OF_TASKS
    BY TaskAssumption, FS_Interval DEF Task
  <2>2. Priority \in [Task -> Prio] /\ W \subseteq U
    BY Distinct DEF EventInv, ListedPending
  <2>3. IsFiniteSet(U) /\ Cardinality(U) <= Cardinality(Task)
    <3>1. Priority \in Surjection(Task, U)
      BY <2>2 DEF Surjection
    <3> HIDE DEF U
    <3> QED  BY <2>1, <3>1, FS_Surjection
  <2> HIDE DEF U, W
  <2>4. /\ IsFiniteSet(W) /\ Cardinality(W) <= Cardinality(U)
        /\ Cardinality(W) \in Nat /\ Cardinality(U) \in Nat
    BY <2>2, <2>3, FS_Subset, FS_CardinalityType
  <2>5. OSEventWait[e] = Cardinality(W)
    BY DEF EventInv, WaitCountExact, W
  <2>6. NUMBER_OF_TASKS \in Nat
    BY TaskAssumption
  <2> QED  BY <2>1, <2>3, <2>4, <2>5, <2>6
<1> QED  BY <1>1 DEF EventInv, EventTypes

-----------------------------------------------------------------------------
\* Events that are not deleted in use.

\* Nobody is left inside a pend on a block that was given back or cleared, and a
\* task a post has woken is ready.
CarefulInv ==
    /\ EventInv
    /\ \A t \in Task : at[t] \in Call => event[t] \in OSEventAllocated
    /\ \A t \in Task : \A e \in Event : Pending(t, e) => Priority[t] \in OSEventWaitList[e]
    /\ \A t \in granted : Ready(t)

LEMMA CarefulStep ==
    ASSUME ~ DeleteInUse, CarefulInv, EventInv', [EventNext]_evars
    PROVE  CarefulInv'
<1> DEFINE Inside1 == \A t \in Task : at[t] \in Call => event[t] \in OSEventAllocated
           Listed  == \A t \in Task : \A e \in Event :
                        Pending(t, e) => Priority[t] \in OSEventWaitList[e]
           Awake   == \A t \in granted : Ready(t)
<1> USE CallNames
<1> SUFFICES Inside1' /\ Listed' /\ Awake'
  BY DEF CarefulInv
<1>0. /\ EventInv /\ EventTypes /\ Calls /\ ListedPending /\ Inside1 /\ Listed /\ Awake
      /\ \A t, u \in Task : Priority[t] = Priority[u] => t = u
      /\ Priority \in [Task -> Prio]
      /\ \A t \in granted : t \in Task /\ at[t] \in Call
  BY Distinct DEF CarefulInv, EventInv, Calls, EventTypes
<1>1. ASSUME UNCHANGED <<Priority, event, granted, OSEventWaitList>>,
             OSEventAllocated \subseteq OSEventAllocated',
             \A t \in Task : at[t] \in Call <=> at'[t] \in Call,
             \A t \in granted : Ready(t) => Ready(t)'
      PROVE  Inside1' /\ Listed' /\ Awake'
  <2>1. Inside1'
    BY <1>0, <1>1
  <2>2. Listed'
    BY <1>0, <1>1 DEF Pending
  <2> QED  BY <1>0, <1>1, <2>1, <2>2
<1>2. CASE KernelStep
  <2>1. \A t \in granted : Ready(t) => Ready(t)'
    <3>1. ASSUME NEW w \in 1 .. MaxWait, DelayTask(w)
          PROVE  \A t \in granted : Ready(t) => Ready(t)'
      BY <1>0, <3>1 DEF DelayTask, InTask, Ready, prios
    <3>2. CASE TickTimer \/ IsrEnter \/ IsrExit \/ \E t \in Task : DelayReturn(t)
      BY <3>2 DEF TickTimer, OS_TICK_HANDLER, IsrEnter, IsrExit, DelayReturn,
                  Ready, prios, lists
    <3> QED  BY <1>2, <3>1, <3>2 DEF KernelStep, Interrupt
  <2>2. UNCHANGED <<Priority, event, granted, OSEventWaitList, OSEventAllocated>>
    BY <1>0, <1>2, KernelCalls DEF prios, blocks, callers
  <2>3. \A t \in Task : at[t] \in Call <=> at'[t] \in Call
    BY <1>0, <1>2, KernelCalls
  <2> HIDE DEF Inside1, Listed, Awake
  <2> QED  BY <1>1, <2>1, <2>2, <2>3
\* Creation takes, and deletion gives back, a block that no task is inside.
<1>3. ASSUME NEW e \in Event, NEW table, CreateEvent(e, table) \/ DeleteEvent(e)
      PROVE  Inside1' /\ Listed' /\ Awake'
  <2>1. /\ UNCHANGED <<Priority, OSReadyList, at, event, granted>>
        /\ OSEventWaitList' = [OSEventWaitList EXCEPT ![e] = {}]
        /\ OSEventAllocated \ {e} \subseteq OSEventAllocated'
    BY <1>3 DEF CreateEvent, DeleteEvent, ClearWaiters, kvars, lists, prios, callers
  <2>2. \A t \in Task : at[t] \in Call => event[t] # e
    BY <1>0, <1>3 DEF CreateEvent, FreeBlock, DeleteEvent, Inside
  <2>3. Inside1'
    BY <1>0, <2>1, <2>2
  <2>4. Listed'
    BY <1>0, <2>1, <2>2 DEF Pending, EventTypes
  <2> QED  BY <1>0, <2>1, <2>3, <2>4 DEF Ready
<1>4. ASSUME NEW e \in Event, NEW w \in 0 .. MaxWait, NEW call \in Call,
             JoinWaiters(e, w, call)
      PROVE  Inside1' /\ Listed' /\ Awake'
  <2> USE <1>4 DEF JoinWaiters, InTask, prios
  <2>1. currentTask \in Task /\ currentTask \notin granted
    BY <1>0
  <2>2. Inside1'
    BY <1>0, <2>1 DEF EventTypes
  <2>3. Listed'
    <3>1. ASSUME NEW t \in Task, NEW r \in Event, Pending(t, r)'
          PROVE  Priority'[t] \in OSEventWaitList'[r]
      <4>1. CASE t = currentTask
        BY <1>0, <3>1, <4>1 DEF Pending, EventTypes
      <4>2. CASE t # currentTask
        <5>1. Pending(t, r)
          BY <1>0, <3>1, <4>2 DEF Pending, EventTypes
        <5> QED  BY <1>0, <5>1 DEF EventTypes
      <4> QED  BY <4>1, <4>2
    <3> QED  BY <3>1
  <2>4. Awake'
    BY <1>0, <2>1 DEF Ready
  <2> QED  BY <2>2, <2>3, <2>4
<1>5. ASSUME NEW t \in Task, NEW call \in Call,
             ReturnPosted(t, call) \/ ReturnTimeout(t, call) \/ ReturnBoth(t, call)
      PROVE  Inside1' /\ Listed' /\ Awake'
  <2>0. EventReturn(t)
    BY <1>5 DEF EventReturn
  <2>1. /\ event[t] \in Event
        /\ at' = [at EXCEPT ![t] = "run"] /\ event' = [event EXCEPT ![t] = NoEvent]
        /\ granted' = granted \ {t}
        /\ UNCHANGED <<Priority, OSReadyList, OSEventAllocated>>
    BY <1>0, <2>0, ReturnFrame DEF Calls, prios, lists
  <2>2. \A e \in Event : OSEventWaitList[e] \ {Priority[t]} \subseteq OSEventWaitList'[e]
    BY <1>0, <1>5, <2>1 DEF ReturnPosted, ReturnTimeout, ReturnBoth, RemoveWaiter,
       EventTypes
  <2>3. Inside1'
    BY <1>0, <2>1 DEF EventTypes
  <2>4. ASSUME NEW u \in Task, NEW e \in Event, Pending(u, e)'
        PROVE  Priority'[u] \in OSEventWaitList'[e]
    <3>1. u # t /\ Pending(u, e)
      BY <1>0, <2>1, <2>4 DEF Pending, EventTypes
    <3> QED  BY <1>0, <2>1, <2>2, <3>1
  <2>5. Awake'
    BY <1>0, <2>1 DEF Ready
  <2> QED  BY <2>3, <2>4, <2>5
<1>6. ASSUME NEW e \in Event, WakeWaiter(e)
      PROVE  Inside1' /\ Listed' /\ Awake'
  <2> DEFINE p == SAScheduler(OSEventWaitList[e])
  <2>1. PICK t \in Task : p = Priority[t] /\ PriorityVector[p] = t /\ Pending(t, e)
    BY <1>0, <1>6, WakesPending DEF WakeWaiter
  <2>2. /\ UNCHANGED <<Priority, at, event, OSEventAllocated>>
        /\ granted' = granted \cup {t} /\ OSReadyList' = OSReadyList \cup {p}
        /\ OSEventWaitList' = [OSEventWaitList EXCEPT ![e] = @ \ {p}]
    BY <1>6, <2>1 DEF WakeWaiter, RemoveWaiter, SetReady, prios
  <2> HIDE DEF p
  <2>3. Inside1'
    BY <1>0, <2>2
  <2>4. ASSUME NEW u \in Task, NEW r \in Event, Pending(u, r)'
        PROVE  Priority'[u] \in OSEventWaitList'[r]
    <3>1. u # t /\ Pending(u, r)
      BY <2>2, <2>4 DEF Pending
    <3>2. Priority[u] # p
      BY <1>0, <2>1, <3>1
    <3> QED  BY <1>0, <2>2, <3>1, <3>2 DEF EventTypes
  <2>5. Awake'
    BY <1>0, <2>1, <2>2 DEF Ready
  <2> QED  BY <2>3, <2>4, <2>5
<1>7. CASE UNCHANGED evars
  <2>1. UNCHANGED <<Priority, OSReadyList, at, event, granted, OSEventWaitList,
                    OSEventAllocated>>
    BY <1>7 DEF evars, kvars, lists, prios, blocks, callers
  <2> HIDE DEF Inside1, Listed, Awake
  <2> QED  BY <1>1, <2>1 DEF Ready
<1> QED
  BY <1>2, <1>3, <1>4, <1>5, <1>6, <1>7 DEF EventNext, EventReturn

LEMMA CarefulAlways ==
    ASSUME MaxWait <= TICK_COUNT_OVERFLOW, ~ DeleteInUse
    PROVE  EventSpec => []CarefulInv
<1>1. EventInit => CarefulInv
  BY EventInitInv, CallNames DEF EventInit, Init, CarefulInv, Pending
<1>2. CarefulInv /\ EventInv' /\ [EventNext]_evars => CarefulInv'
  BY CarefulStep
<1> QED  BY <1>1, <1>2, EventAlways, PTL DEF EventSpec

\* A task that resumes is on the wait list still exactly when no post woke it.
LEMMA WaitingUngranted ==
    ASSUME CarefulInv, NEW t \in Task, at[t] \in Call
    PROVE  Waiting(t) <=> t \notin granted
<1>1. EventInv /\ event[t] \in Event
  BY DEF CarefulInv, EventInv, Calls
<1>2. ASSUME Waiting(t) PROVE t \notin granted
  <2>1. PICK u \in Task : Priority[u] = Priority[t] /\ Pending(u, event[t])
    BY <1>1, <1>2 DEF EventInv, ListedPending, Waiting
  <2> QED  BY <1>1, <2>1, Distinct DEF EventInv, Pending
<1>3. ASSUME t \notin granted PROVE Waiting(t)
  BY <1>1, <1>3 DEF CarefulInv, Pending, Waiting
<1> QED  BY <1>2, <1>3

\* A wait list holds exactly the tasks inside a pend that no post has woken,
\* unless events are deleted in use.
THEOREM WaitListsExact ==
    ASSUME MaxWait <= TICK_COUNT_OVERFLOW, ~ DeleteInUse
    PROVE  EventSpec => []WaitListExact
<1>1. CarefulInv => WaitListExact
  <2> SUFFICES ASSUME CarefulInv, NEW e \in Event
               PROVE  OSEventWaitList[e] =
                        {Priority[t] : t \in {u \in Task : Pending(u, e)}}
    BY DEF WaitListExact
  <2> QED  BY DEF CarefulInv, EventInv, ListedPending
<1> QED  BY <1>1, CarefulAlways, PTL

\* A task that is not ready is on the delay list or on the wait list of the
\* event it pends on: the tick or a post can bring it back.
THEOREM TasksNotLost ==
    ASSUME MaxWait <= TICK_COUNT_OVERFLOW, ~ DeleteInUse
    PROVE  EventSpec => []NoTaskLost
<1>1. CarefulInv => NoTaskLost
  <2> SUFFICES ASSUME CarefulInv, NEW t \in Task, ~ Ready(t) PROVE Reachable(t)
    BY DEF NoTaskLost, Ready
  <2>1. at[t] = "delay" \/ at[t] \in Call
    BY DEF CarefulInv, EventInv, EventTypes, HowWoken
  <2>2. CASE at[t] = "delay"
    BY <2>2 DEF CarefulInv, EventInv, HowWoken, Reachable
  <2>3. CASE at[t] \in Call
    BY <2>3, WaitingUngranted DEF CarefulInv, Reachable
  <2> QED  BY <2>1, <2>2, <2>3
<1> QED  BY <1>1, CarefulAlways, PTL
=============================================================================
