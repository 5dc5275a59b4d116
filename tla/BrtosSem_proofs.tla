-------------------------- MODULE BrtosSem_proofs --------------------------
(***************************************************************************)
(* Proofs about BrtosSem, for any number of tasks and semaphores, any      *)
(* initial counts and any order of posts, timeouts and deletions.          *)
(* BrtosSem implements BrtosEvent, so what is proved of EventSpec holds of *)
(* SemSpec; the proofs here are about permits.                             *)
(***************************************************************************)
EXTENDS BrtosSem, BrtosEvent_proofs

-----------------------------------------------------------------------------
\* Semaphores are events.

LEMMA SemStepIsEventStep == [SemNext]_svars => [EventNext]_evars
<1> SUFFICES ASSUME [SemNext]_svars PROVE [EventNext]_evars
  OBVIOUS
<1>1. ASSUME NEW s \in Sem,
             \/ \E cnt \in 0 .. MaxCreateCount : OSSemCreate(s, cnt)
             \/ \E bit \in 0 .. 2 : OSSemBinaryCreate(s, bit)
      PROVE  EventNext
  <2>1. CreateEvent(s, Sem) /\ s \in Event /\ Sem \in SUBSET Event
    BY <1>1 DEF OSSemCreate, OSSemBinaryCreate, Allocate, Sem
  <2> QED  BY <2>1 DEF EventNext
<1>2. ASSUME NEW s \in Sem,
             \/ OSSemDelete(s) \/ OSSemPostWake(s)
             \/ \E w \in 0 .. MaxWait : OSSemPendWait(s, w)
      PROVE  EventNext
  BY <1>2 DEF OSSemDelete, OSSemPostWake, OSSemPendWait, EventNext, Sem, Call
<1>3. ASSUME NEW s \in Sem, OSSemPendTake(s) \/ OSSemPostCount(s)
      PROVE  UNCHANGED evars
  BY <1>3 DEF OSSemPendTake, OSSemPostCount
<1>4. ASSUME NEW t \in Task, OSSemPendReturn(t) PROVE EventNext
  BY <1>4 DEF OSSemPendReturn, OSSemPendPosted, OSSemPendTimeout, OSSemPendBoth,
     EventNext, EventReturn, Call
<1>5. CASE KernelStep
  BY <1>5 DEF EventNext
<1>6. CASE UNCHANGED svars
  BY <1>6 DEF svars
<1> QED  BY <1>1, <1>2, <1>3, <1>4, <1>5, <1>6 DEF SemNext, SemStep

\* A semaphore is an event: each of its steps is one of the steps every event
\* takes, or leaves the wait lists alone.
THEOREM SemImplementsEvents == SemSpec => EventSpec
<1>1. SemInit => EventInit
  BY DEF SemInit
<1> QED  BY <1>1, SemStepIsEventStep, PTL DEF SemSpec, EventSpec

-----------------------------------------------------------------------------
\* Counts and waiters.

\* The types of counts and results; a free control block holds no permits.
Counts ==
    /\ result \in [Task -> {"none", "OK", "TIMEOUT"}]
    /\ OSEventCount \in [Sem -> 0 .. MaxSemCount]
    /\ \A s \in Sem : s \notin OSEventAllocated => OSEventCount[s] = 0

SemInv == EventInv /\ Counts /\ NoWaitWithPermits

LEMMA SemInitInv == SemInit => SemInv
BY EventInitInv, SemAssumption DEF SemInit, SemInv, Counts, NoWaitWithPermits

LEMMA SemInvStep ==
    ASSUME SemInv, EventInv', [SemNext]_svars
    PROVE  Counts' /\ NoWaitWithPermits'
<1> USE SemAssumption DEF Counts, NoWaitWithPermits
<1>0. SemInv /\ EventInv /\ EventTypes /\ Counts /\ NoWaitWithPermits
  BY DEF SemInv, EventInv
<1>1. ASSUME UNCHANGED <<OSEventCount, OSEventAllocated>>,
             result' \in [Task -> {"none", "OK", "TIMEOUT"}],
             \A s \in Sem : OSEventWaitList'[s] \subseteq OSEventWaitList[s]
      PROVE  Counts' /\ NoWaitWithPermits'
  BY <1>0, <1>1
<1>2. CASE (KernelStep /\ UNCHANGED permits) \/ UNCHANGED svars
  BY <1>0, <1>1, <1>2 DEF KernelStep, svars, evars, blocks, permits
<1>3. ASSUME NEW s \in Sem, NEW cnt \in 0 .. MaxSemCount, Allocate(s, cnt)
      PROVE  Counts' /\ NoWaitWithPermits'
  BY <1>0, <1>3 DEF Allocate, CreateEvent, ClearWaiters, EventTypes, Sem
<1>4. ASSUME NEW s \in Sem,
             \/ \E cnt \in 0 .. MaxCreateCount : OSSemCreate(s, cnt)
             \/ \E bit \in 0 .. 2 : OSSemBinaryCreate(s, bit)
      PROVE  Counts' /\ NoWaitWithPermits'
  BY <1>3, <1>4 DEF OSSemCreate, OSSemBinaryCreate, InitialBit
<1>5. ASSUME NEW s \in Sem, OSSemDelete(s) PROVE Counts' /\ NoWaitWithPermits'
  BY <1>0, <1>5 DEF OSSemDelete, DeleteEvent, ClearWaiters, EventTypes
<1>6. ASSUME NEW s \in Sem, OSSemPendTake(s) PROVE Counts' /\ NoWaitWithPermits'
  BY <1>0, <1>6 DEF OSSemPendTake, InTask, evars, blocks
<1>7. ASSUME NEW s \in Sem, NEW w \in 0 .. MaxWait, OSSemPendWait(s, w)
      PROVE  Counts' /\ NoWaitWithPermits'
  BY <1>0, <1>7 DEF OSSemPendWait, JoinWaiters, permits, EventTypes, Sem
<1>8. ASSUME NEW s \in Sem, OSSemPostWake(s) PROVE Counts' /\ NoWaitWithPermits'
  <2>1. \A r \in Sem : OSEventWaitList'[r] \subseteq OSEventWaitList[r]
    BY <1>0, <1>8 DEF OSSemPostWake, WakeWaiter, RemoveWaiter, EventTypes, Sem
  <2> QED  BY <1>0, <1>1, <1>8, <2>1 DEF OSSemPostWake, WakeWaiter
\* Nobody waits at a semaphore that counts a post.
<1>9. ASSUME NEW s \in Sem, OSSemPostCount(s) PROVE Counts' /\ NoWaitWithPermits'
  <2>1. Posted(s) \in 0 .. MaxSemCount
    BY <1>0, <1>9 DEF OSSemPostCount, NotFull, Posted
  <2>2. OSEventWaitList[s] \in SUBSET Prio /\ Cardinality(OSEventWaitList[s]) = 0
    BY <1>0, <1>9 DEF OSSemPostCount, EventInv, EventTypes, WaitCountExact, Sem
  <2>3. OSEventWaitList[s] = {}
    BY <2>2, WaitListFinite, FS_EmptySet
  <2> QED
    BY <1>0, <1>9, <2>1, <2>3 DEF OSSemPostCount, Posting, evars, blocks
<1>10. ASSUME NEW t \in Task, OSSemPendReturn(t) PROVE Counts' /\ NoWaitWithPermits'
  <2>1. /\ UNCHANGED <<OSEventCount, OSEventAllocated>>
        /\ result' \in [Task -> {"none", "OK", "TIMEOUT"}]
    BY <1>0, <1>10 DEF OSSemPendReturn, OSSemPendPosted, OSSemPendTimeout, OSSemPendBoth,
       ReturnOK, ReturnTIMEOUT, ReturnPosted, ReturnTimeout, ReturnBoth, Return
  <2>2. \A s \in Sem : OSEventWaitList'[s] \subseteq OSEventWaitList[s]
    BY <1>0, <1>10 DEF OSSemPendReturn, OSSemPendPosted, OSSemPendTimeout,
       OSSemPendBoth, ReturnPosted, ReturnTimeout, ReturnBoth, RemoveWaiter,
       EventTypes, Sem
  <2> QED  BY <1>1, <2>1, <2>2
<1> QED
  BY <1>2, <1>4, <1>5, <1>6, <1>7, <1>8, <1>9, <1>10 DEF SemNext, SemStep

LEMMA SemAlways ==
    ASSUME MaxWait <= TICK_COUNT_OVERFLOW
    PROVE  SemSpec => []SemInv
<1>1. SemInv /\ EventInv' /\ [SemNext]_svars => SemInv'
  BY SemInvStep DEF SemInv
<1> QED  BY SemInitInv, <1>1, SemImplementsEvents, EventAlways, PTL DEF SemSpec

\* No task waits while a permit is available, whatever the order of posts,
\* timeouts, deletions and new creations.
THEOREM NoPermitMissed ==
    ASSUME MaxWait <= TICK_COUNT_OVERFLOW
    PROVE  SemSpec => []NoWaitWithPermits
<1>1. SemInv => NoWaitWithPermits
  BY DEF SemInv
<1> QED  BY <1>1, SemAlways, PTL

-----------------------------------------------------------------------------
\* Permits.

Holders(s) == {t \in granted : event[t] = s}

PermitInv == SemInv /\ owed \in [Sem -> Nat] /\ PermitsConserved

LEMMA HoldersFinite ==
    ASSUME SemInv, NEW s \in Sem
    PROVE  IsFiniteSet(Holders(s)) /\ Cardinality(Holders(s)) \in Nat
<1>1. IsFiniteSet(Task)
  BY FS_Interval, TaskAssumption DEF Task
<1>2. Holders(s) \in SUBSET Task
  BY DEF Holders, SemInv, EventInv, EventTypes
<1> QED  BY <1>1, <1>2, FS_Subset, FS_CardinalityType

LEMMA PermitStep ==
    ASSUME PermitInv, SemInv', [SemNext]_svars
    PROVE  owed' \in [Sem -> Nat] /\ PermitsConserved'
<1> USE SemAssumption
<1>0. /\ SemInv /\ EventInv /\ EventTypes /\ EventTypes' /\ Counts /\ Counts' /\ Calls /\ owed \in [Sem -> Nat]
      /\ \A s \in Sem : /\ owed[s] = OSEventCount[s] + Cardinality(Holders(s))
                        /\ OSEventCount[s] \in Nat
                        /\ Cardinality(Holders(s)) \in Nat
      /\ \A s \in Sem : OSEventCount'[s] \in Nat
  <2>1. /\ SemInv /\ EventInv /\ EventTypes /\ EventTypes' /\ Counts /\ Counts' /\ Calls /\ owed \in [Sem -> Nat]
        /\ \A s \in Sem : OSEventCount[s] \in Nat /\ OSEventCount'[s] \in Nat
    BY DEF PermitInv, SemInv, EventInv, Counts
  <2>2. \A s \in Sem : Cardinality(Holders(s)) \in Nat
    BY <2>1, HoldersFinite
  <2>3. \A s \in Sem : owed[s] = OSEventCount[s] + Cardinality(Holders(s))
    BY DEF PermitInv, PermitsConserved, Holders
  <2> QED  BY <2>1, <2>2, <2>3
\* It is enough that what is owed follows the count and the holders.
<1>1. ASSUME owed' \in [Sem -> Int],
             \A s \in Sem : owed'[s] = OSEventCount'[s] + Cardinality(Holders(s)')
      PROVE  owed' \in [Sem -> Nat] /\ PermitsConserved'
  <2>1. \A s \in Sem : Cardinality(Holders(s)') \in Nat
    <3>1. IsFiniteSet(Task)
      BY FS_Interval, TaskAssumption DEF Task
    <3>2. \A s \in Sem : Holders(s)' \in SUBSET Task
      BY <1>0 DEF Holders, EventTypes
    <3> QED  BY <3>1, <3>2, FS_Subset, FS_CardinalityType
  <2>2. \A s \in Sem : owed'[s] \in Nat
    BY <1>0, <1>1, <2>1
  <2> QED  BY <1>1, <2>2 DEF PermitsConserved, Holders
<1>2. CASE (KernelStep /\ UNCHANGED permits) \/ UNCHANGED svars
  <2>1. UNCHANGED <<OSEventCount, event, granted, owed>>
    BY <1>0, <1>2, KernelCalls DEF svars, evars, callers, permits
  <2>2. \A s \in Sem : Holders(s)' = Holders(s)
    BY <2>1 DEF Holders
  <2> QED  BY <1>0, <1>1, <2>1, <2>2
<1>3. ASSUME NEW s \in Sem, NEW n \in Nat,
             OSEventCount' = [OSEventCount EXCEPT ![s] = n],
             owed' = [owed EXCEPT ![s] = owed[s] + n - OSEventCount[s]],
             UNCHANGED <<event, granted>>
      PROVE  owed' \in [Sem -> Nat] /\ PermitsConserved'
  <2>1. \A r \in Sem : Holders(r)' = Holders(r)
    BY <1>3 DEF Holders
  <2>2. owed[s] + n - OSEventCount[s] \in Int
    BY <1>0
  <2>3. owed' \in [Sem -> Int]
    BY <1>0, <1>3, <2>2
  <2>4. ASSUME NEW r \in Sem
        PROVE  owed'[r] = OSEventCount'[r] + Cardinality(Holders(r)')
    <3>1. CASE r = s
      <4>1. owed'[s] = owed[s] + n - OSEventCount[s] /\ OSEventCount'[s] = n
        BY <1>0, <1>3 DEF Counts
      <4> QED  BY <1>0, <2>1, <3>1, <4>1
    <3>2. CASE r # s
      <4>1. owed'[r] = owed[r] /\ OSEventCount'[r] = OSEventCount[r]
        BY <1>0, <1>3, <3>2 DEF Counts
      <4> QED  BY <1>0, <2>1, <4>1
    <3> QED  BY <3>1, <3>2
  <2> QED  BY <1>1, <2>3, <2>4
<1>4. ASSUME NEW s \in Sem, NEW cnt \in Nat, Allocate(s, cnt)
      PROVE  owed' \in [Sem -> Nat] /\ PermitsConserved'
  <2>1. OSEventCount[s] = 0
    BY <1>0, <1>4 DEF Allocate, CreateEvent, FreeBlock, Counts
  <2>2. owed[s] + cnt = owed[s] + cnt - OSEventCount[s]
    BY <1>0, <2>1
  <2>3. owed' = [owed EXCEPT ![s] = owed[s] + cnt - OSEventCount[s]]
    BY <1>4, <2>2 DEF Allocate
  <2> QED  BY <1>3, <1>4, <2>3 DEF Allocate, CreateEvent, callers
<1>5. ASSUME NEW s \in Sem,
             \/ \E cnt \in 0 .. MaxCreateCount : OSSemCreate(s, cnt)
             \/ \E bit \in 0 .. 2 : OSSemBinaryCreate(s, bit)
      PROVE  owed' \in [Sem -> Nat] /\ PermitsConserved'
  BY <1>4, <1>5 DEF OSSemCreate, OSSemBinaryCreate, InitialBit
<1>6. ASSUME NEW s \in Sem, OSSemDelete(s)
      PROVE  owed' \in [Sem -> Nat] /\ PermitsConserved'
  <2>1. owed[s] - OSEventCount[s] = owed[s] + 0 - OSEventCount[s]
    BY <1>0
  <2>2. owed' = [owed EXCEPT ![s] = owed[s] + 0 - OSEventCount[s]]
    BY <1>6, <2>1 DEF OSSemDelete
  <2> QED  BY <1>3, <1>6, <2>2 DEF OSSemDelete, DeleteEvent, callers
<1>7. ASSUME NEW s \in Sem, OSSemPendTake(s)
      PROVE  owed' \in [Sem -> Nat] /\ PermitsConserved'
  <2>1. OSEventCount[s] - 1 \in Nat
    BY <1>0, <1>7 DEF OSSemPendTake
  <2>2. owed[s] - 1 = owed[s] + (OSEventCount[s] - 1) - OSEventCount[s]
    BY <1>0
  <2>3. owed' = [owed EXCEPT ![s] = owed[s] + (OSEventCount[s] - 1) - OSEventCount[s]]
    BY <1>7, <2>2 DEF OSSemPendTake
  <2> QED  BY <1>3, <1>7, <2>1, <2>3 DEF OSSemPendTake, evars, callers
<1>8. ASSUME NEW s \in Sem, OSSemPostCount(s)
      PROVE  owed' \in [Sem -> Nat] /\ PermitsConserved'
  <2>1. Posted(s) \in Nat
    BY <1>0 DEF Posted
  <2> QED  BY <1>3, <1>8, <2>1 DEF OSSemPostCount, evars, callers
<1>9. ASSUME NEW s \in Sem, NEW w \in 0 .. MaxWait, OSSemPendWait(s, w)
      PROVE  owed' \in [Sem -> Nat] /\ PermitsConserved'
  <2>1. currentTask \notin granted
    BY <1>0, <1>9, CallNames DEF OSSemPendWait, JoinWaiters, InTask, Calls
  <2>2. \A r \in Sem : Holders(r)' = Holders(r)
    BY <1>0, <1>9, <2>1 DEF OSSemPendWait, JoinWaiters, InTask, Holders, EventTypes
  <2> QED  BY <1>0, <1>1, <1>9, <2>2 DEF OSSemPendWait, permits
<1>10. ASSUME NEW t \in Task, OSSemPendReturn(t)
       PROVE  owed' \in [Sem -> Nat] /\ PermitsConserved'
  <2>0. EventReturn(t)
    BY <1>10 DEF OSSemPendReturn, OSSemPendPosted, OSSemPendTimeout, OSSemPendBoth,
       EventReturn, Call
  <2>1. /\ event[t] \in Sem
        /\ event' = [event EXCEPT ![t] = NoEvent] /\ granted' = granted \ {t}
        /\ UNCHANGED OSEventCount
    BY <1>0, <1>10, <2>0, ReturnFrame DEF OSSemPendReturn, OSSemPendPosted,
       OSSemPendTimeout, OSSemPendBoth, ReturnOK, ReturnTIMEOUT, Calls, Sem
  <2>2. owed' = [owed EXCEPT ![event[t]] = IF t \in granted THEN @ - 1 ELSE @]
    <3>1. CASE OSSemPendTimeout(t)
      <4>1. t \notin granted
        BY <1>0, <2>1, <3>1, TimeoutListed, Distinct DEF OSSemPendTimeout, EventInv,
           ListedPending, Pending, Call
      <4> QED  BY <1>0, <3>1, <4>1 DEF OSSemPendTimeout, ReturnTIMEOUT
    <3> QED  BY <1>10, <3>1 DEF OSSemPendReturn, OSSemPendPosted, OSSemPendBoth,
         ReturnOK
  <2>3. \A s \in Sem : Holders(s)' = Holders(s) \ IF s = event[t] THEN {t} ELSE {}
    BY <1>0, <2>1 DEF Holders, EventTypes, Sem
  <2>4. CASE t \notin granted
    <3>1. \A s \in Sem : Holders(s)' = Holders(s)
      BY <2>3, <2>4 DEF Holders
    <3>2. owed' = owed
      BY <1>0, <2>1, <2>2, <2>4
    <3> QED  BY <1>0, <1>1, <2>1, <3>1, <3>2
  <2>5. CASE t \in granted
    <3>1. PICK e \in Sem : e = event[t]
      BY <2>1
    <3>2. /\ owed' = [owed EXCEPT ![e] = owed[e] - 1]
          /\ \A s \in Sem \ {e} : Holders(s)' = Holders(s)
          /\ Holders(e)' = Holders(e) \ {t}
      BY <2>2, <2>3, <2>5, <3>1
    <3>3. IsFiniteSet(Holders(e)) /\ t \in Holders(e)
      BY <1>0, <2>5, <3>1, HoldersFinite DEF Holders
    <3>4. Cardinality(Holders(e) \ {t}) = Cardinality(Holders(e)) - 1
      BY <3>3, FS_RemoveElement, Zenon
    <3>5. owed' \in [Sem -> Int]
      BY <1>0, <3>2
    <3>6. ASSUME NEW s \in Sem
          PROVE  owed'[s] = OSEventCount'[s] + Cardinality(Holders(s)')
      <4>1. CASE s = e
        <5>1. owed'[e] = owed[e] - 1
          BY <1>0, <3>2
        <5>2. Cardinality(Holders(e)') = Cardinality(Holders(e)) - 1
          BY <3>2, <3>4, Zenon
        <5>3. owed'[e] = OSEventCount'[e] + Cardinality(Holders(e)')
          BY <1>0, <2>1, <5>1, <5>2
        <5> QED  BY <4>1, <5>3
      <4>2. CASE s # e
        <5>1. owed'[s] = owed[s] /\ Holders(s)' = Holders(s)
          BY <1>0, <3>2, <4>2
        <5> QED  BY <1>0, <2>1, <5>1
      <4> QED  BY <4>1, <4>2
    <3> QED  BY <1>1, <3>5, <3>6
  <2> QED  BY <2>4, <2>5
<1>11. ASSUME NEW s \in Sem, OSSemPostWake(s)
       PROVE  owed' \in [Sem -> Nat] /\ PermitsConserved'
  <2>1. PICK t \in Task : /\ PriorityVector[SAScheduler(OSEventWaitList[s])] = t
                          /\ Pending(t, s)
    BY <1>0, <1>11, WakesPending DEF OSSemPostWake, WakeWaiter, Sem
  <2>2. /\ granted' = granted \cup {t} /\ UNCHANGED <<event, OSEventCount>>
        /\ owed' = [owed EXCEPT ![s] = owed[s] + 1]
    BY <1>11, <2>1 DEF OSSemPostWake, WakeWaiter
  <2>3. /\ \A r \in Sem \ {s} : Holders(r)' = Holders(r)
        /\ Holders(s)' = Holders(s) \cup {t} /\ t \notin Holders(s)
    BY <2>1, <2>2 DEF Holders, Pending
  <2>4. Cardinality(Holders(s) \cup {t}) = Cardinality(Holders(s)) + 1
    BY <1>0, <2>3, HoldersFinite, FS_AddElement, Zenon
  <2>5. owed' \in [Sem -> Int]
    BY <1>0, <2>2
  <2>6. ASSUME NEW r \in Sem
        PROVE  owed'[r] = OSEventCount'[r] + Cardinality(Holders(r)')
    <3>1. CASE r = s
      <4>1. owed'[s] = owed[s] + 1
        BY <1>0, <2>2
      <4>2. Cardinality(Holders(s)') = Cardinality(Holders(s)) + 1
        BY <2>3, <2>4, Zenon
      <4>3. owed'[s] = OSEventCount'[s] + Cardinality(Holders(s)')
        BY <1>0, <2>2, <4>1, <4>2
      <4> QED  BY <3>1, <4>3
    <3>2. CASE r # s
      <4>1. owed'[r] = owed[r] /\ Holders(r)' = Holders(r)
        BY <1>0, <2>2, <2>3, <3>2
      <4> QED  BY <1>0, <2>2, <4>1
    <3> QED  BY <3>1, <3>2
  <2> QED  BY <1>1, <2>5, <2>6
<1> QED
  BY <1>2, <1>5, <1>6, <1>7, <1>8, <1>9, <1>10, <1>11 DEF SemNext, SemStep

LEMMA PermitAlways ==
    ASSUME MaxWait <= TICK_COUNT_OVERFLOW
    PROVE  SemSpec => []PermitInv
<1>1. SemInit => owed \in [Sem -> Nat] /\ PermitsConserved
  <2>1. SemInit => owed \in [Sem -> Nat]
    BY DEF SemInit
  <2>2. ASSUME SemInit, NEW s \in Sem PROVE {t \in granted : event[t] = s} = {}
    BY <2>2 DEF SemInit, EventInit
  <2> QED  BY <2>1, <2>2, FS_EmptySet DEF SemInit, PermitsConserved
<1>2. PermitInv /\ SemInv' /\ [SemNext]_svars => PermitInv'
  BY PermitStep DEF PermitInv
<1>3. SemInit => PermitInv
  BY <1>1, SemInitInv DEF PermitInv
<1> QED  BY <1>2, <1>3, SemAlways, PTL DEF SemSpec

\* Posts accepted and not yet taken are in the count or in the hands of a waiter
\* that has not run yet: a post that races a timeout neither disappears nor
\* serves twice, also when semaphores are deleted under their waiters.
THEOREM PermitsKept ==
    ASSUME MaxWait <= TICK_COUNT_OVERFLOW
    PROVE  SemSpec => []PermitsConserved
<1>1. PermitInv => PermitsConserved
  BY DEF PermitInv
<1> QED  BY <1>1, PermitAlways, PTL

-----------------------------------------------------------------------------
\* What a pend returns.

LEMMA ReturnResult ==
    ASSUME EventInv, Counts, NEW t \in Task, OSSemPendReturn(t)
    PROVE  result'[t] = "OK" <=> ~ OSSemPendTimeout(t)
<1>1. CASE OSSemPendPosted(t)
  <2>1. ~ Waiting(t)
    BY <1>1, PostedUnlisted DEF OSSemPendPosted, Call
  <2> QED
    BY <1>1, <2>1 DEF OSSemPendPosted, OSSemPendTimeout, ReturnTimeout, ReturnOK, Counts
<1>2. CASE OSSemPendTimeout(t)
  BY <1>2 DEF OSSemPendTimeout, ReturnTIMEOUT, Counts
<1>3. CASE OSSemPendBoth(t)
  BY <1>3 DEF OSSemPendBoth, OSSemPendTimeout, ReturnTimeout, ReturnBoth, ReturnOK, Counts
<1> QED  BY <1>1, <1>2, <1>3 DEF OSSemPendReturn

\* A step in which a task leaves OSSemPend is its own return.
LEMMA OwnReturn ==
    ASSUME SemInv, [SemNext]_svars, NEW t \in Task, at[t] = "sem", at'[t] = "run"
    PROVE  OSSemPendReturn(t)
<1>1. at[t] \in Call /\ "run" # "sem" /\ EventInv /\ EventTypes
  BY DEF Call, SemInv, EventInv
<1>2. PICK u \in Task : OSSemPendReturn(u)
  <2>1. CASE KernelStep
    BY <1>1, <2>1, KernelCalls, CallNames
  <2>2. CASE SemStep
    <3>1. at'[t] = at[t]
      BY <1>1, <2>2 DEF SemStep, OSSemCreate, OSSemBinaryCreate, Allocate,
         CreateEvent, OSSemDelete, DeleteEvent, OSSemPendTake, OSSemPendWait,
         JoinWaiters, InTask, OSSemPostWake, WakeWaiter, OSSemPostCount,
         EventTypes, evars, kvars
    <3> QED  BY <1>1, <3>1
  <2>3. CASE UNCHANGED svars
    BY <1>1, <2>3 DEF svars, evars, kvars
  <2> QED  BY <2>1, <2>2, <2>3 DEF SemNext
<1>3. EventReturn(u)
  BY <1>2 DEF OSSemPendReturn, OSSemPendPosted, OSSemPendTimeout, OSSemPendBoth,
     EventReturn, Call
<1>4. u = t
  BY <1>1, <1>3, ReturnFrame DEF EventTypes
<1> QED  BY <1>2, <1>4

\* OSSemPend returns OK to a task that waited exactly when a post woke it.
THEOREM OkIsPost ==
    ASSUME MaxWait <= TICK_COUNT_OVERFLOW, ~ DeleteInUse
    PROVE  SemSpec => OkMeansPost
<1>1. ASSUME CarefulInv, SemInv, [SemNext]_svars, NEW t \in Task,
             at[t] = "sem", at'[t] = "run"
      PROVE  result'[t] = "OK" <=> t \in granted
  <2>1. at[t] \in Call /\ EventInv /\ Counts /\ OSSemPendReturn(t)
    BY <1>1, OwnReturn DEF Call, SemInv
  <2>2. Waiting(t) <=> t \notin granted
    BY <1>1, <2>1, WaitingUngranted
  <2>3. OSSemPendTimeout(t) <=> Waiting(t)
    BY <2>1, PostedUnlisted DEF OSSemPendReturn, OSSemPendPosted, OSSemPendTimeout,
       ReturnTimeout, OSSemPendBoth, ReturnBoth, Call
  <2> QED  BY <2>1, <2>2, <2>3, ReturnResult
<1>2. CarefulInv /\ SemInv /\ [SemNext]_svars =>
        [\A t \in Task : at[t] = "sem" /\ at'[t] = "run" =>
           (result'[t] = "OK" <=> t \in granted)]_svars
  BY <1>1
<1> QED
  BY <1>2, CarefulAlways, SemAlways, SemImplementsEvents, PTL DEF SemSpec, OkMeansPost

\* OSSemPend reports TIMEOUT only to a task whose whole wait has passed, also
\* when the semaphore was deleted or created anew while it waited.
THEOREM TimeoutIsLate ==
    ASSUME MaxWait <= TICK_COUNT_OVERFLOW
    PROVE  SemSpec => NoEarlyTimeout
<1>1. ASSUME TimeInv, SemInv, [SemNext]_svars, NEW t \in Task,
             at[t] = "sem", at'[t] = "run", result'[t] = "TIMEOUT"
      PROVE  remaining[t] = 0
  <2>1. EventInv /\ Counts /\ OSSemPendReturn(t)
    BY <1>1, OwnReturn DEF SemInv
  <2>2. TimedOut(t)
    BY <1>1, <2>1, ReturnResult DEF OSSemPendTimeout, ReturnTimeout
  <2>3. t \notin delayList
    BY <2>1, <2>2 DEF EventInv, ListedWhileTimed, TimedOut
  <2> QED  BY <1>1, <2>3 DEF TimeInv, TimeTypes, TimeLeft
<1>2. TimeInv /\ SemInv /\ [SemNext]_svars =>
        [\A t \in Task : at[t] = "sem" /\ at'[t] = "run" /\ result'[t] = "TIMEOUT"
           => remaining[t] = 0]_svars
  BY <1>1
<1> QED
  BY <1>2, TimeAlways, SemAlways, SemImplementsEvents, PTL DEF SemSpec, NoEarlyTimeout

-----------------------------------------------------------------------------
\* Type correctness.

\* Nobody waits for a kind of event this module does not have.
SemKinds ==
    /\ at \in [Task -> {"run", "delay", "sem"}]
    /\ Binary \subseteq Sem

LEMMA SemKindsStep ==
    ASSUME SemKinds, [SemNext]_svars
    PROVE  SemKinds'
<1> USE DEF SemKinds
<1>1. CASE KernelStep /\ UNCHANGED permits
  BY <1>1 DEF KernelStep, DelayTask, InTask, DelayReturn, Interrupt, TickTimer, IsrEnter,
     IsrExit, permits
<1>2. ASSUME NEW s \in Sem,
             \/ \E cnt \in 0 .. MaxCreateCount : OSSemCreate(s, cnt)
             \/ \E bit \in 0 .. 2 : OSSemBinaryCreate(s, bit)
             \/ OSSemDelete(s) \/ OSSemPendTake(s)
             \/ OSSemPostWake(s) \/ OSSemPostCount(s)
      PROVE  SemKinds'
  BY <1>2 DEF OSSemCreate, OSSemBinaryCreate, Allocate, CreateEvent, OSSemDelete,
     DeleteEvent, OSSemPendTake, OSSemPostWake, WakeWaiter, OSSemPostCount, evars, kvars
<1>3. ASSUME NEW s \in Sem, NEW w \in 0 .. MaxWait, OSSemPendWait(s, w)
      PROVE  SemKinds'
  BY <1>3 DEF OSSemPendWait, JoinWaiters, InTask, permits
<1>4. ASSUME NEW t \in Task, OSSemPendReturn(t) PROVE SemKinds'
  BY <1>4 DEF OSSemPendReturn, OSSemPendPosted, OSSemPendTimeout, OSSemPendBoth,
     ReturnPosted, ReturnTimeout, ReturnBoth, Return, ReturnOK, ReturnTIMEOUT
<1>5. CASE UNCHANGED svars
  BY <1>5 DEF svars, evars, kvars, permits
<1> QED  BY <1>1, <1>2, <1>3, <1>4, <1>5 DEF SemNext, SemStep

\* Every variable keeps its type: a count never passes MaxSemCount, however posts
\* and creations follow each other, no wait counter passes the number of tasks,
\* and a post owed is never counted down below zero.
THEOREM SemTypeCorrect ==
    ASSUME MaxWait <= TICK_COUNT_OVERFLOW
    PROVE  SemSpec => []SemTypeOK
<1>1. SemInit => SemKinds
  BY DEF SemInit, EventInit, Init, SemKinds
<1>2. SemKinds /\ [SemNext]_svars => SemKinds'
  BY SemKindsStep
<1>3. TimeInv /\ PermitInv /\ SemKinds => SemTypeOK
  <2> SUFFICES ASSUME TimeInv, PermitInv, SemKinds PROVE SemTypeOK
    OBVIOUS
  <2>1. /\ EventInv /\ EventTypes /\ Counts /\ owed \in [Sem -> Nat]
        /\ remaining \in [Task -> Nat]
    BY DEF TimeInv, TimeTypes, EventInv, PermitInv, SemInv
  <2>2. OSReadyList \subseteq Prio /\ OSEventWait \in [Sem -> 0 .. NUMBER_OF_TASKS]
    BY <2>1, UsedIsPrio, WaitersBounded DEF EventInv, Installed, Sem
  <2> QED
    BY <2>1, <2>2 DEF TimeInv, SemKinds, EventTypes, Counts, Sem, SemTypeOK
<1> QED
  BY <1>1, <1>2, <1>3, TimeAlways, PermitAlways, SemImplementsEvents, PTL DEF SemSpec
=============================================================================
