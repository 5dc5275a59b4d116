------------------------------ MODULE BrtosSem ------------------------------
(***************************************************************************)
(* BRTOS semaphores (brtos/semaphore.c) on the events of BrtosEvent:       *)
(* counting and binary semaphores, pend with and without a timeout, post   *)
(* from tasks and from interrupt handlers, creation and deletion.          *)
(***************************************************************************)
EXTENDS BrtosEvent

CONSTANTS
    MaxSemCount,     \* largest OSEventCount (255)
    MaxCreateCount   \* largest initial count the application asks for

Sem == Event

ASSUME SemAssumption ==
    MaxSemCount \in Nat \ {0} /\ MaxCreateCount \in 0 .. MaxSemCount

VARIABLES
    OSEventCount,      \* permits
    Binary,            \* binary semaphores
    owed               \* history: posts accepted less pends that returned OK

permits == <<OSEventCount, Binary, result, owed>>
svars   == <<evars, permits>>

SemInit ==
    /\ EventInit
    /\ OSEventCount = [s \in Sem |-> 0]
    /\ Binary = {}
    /\ result = [t \in Task |-> "none"]
    /\ owed = [s \in Sem |-> 0]

-----------------------------------------------------------------------------
\* Creating and deleting.

Allocate(s, cnt) ==
    /\ CreateEvent(s, Sem)
    /\ OSEventCount' = [OSEventCount EXCEPT ![s] = cnt]
    /\ owed' = [owed EXCEPT ![s] = @ + cnt]
    /\ UNCHANGED result

OSSemCreate(s, cnt) ==
    /\ Allocate(s, cnt)
    /\ Binary' = Binary \ {s}

\* The initial bit is TRUE only for an argument above 1.
InitialBit(bit) == IF bit > 1 THEN 1 ELSE 0

OSSemBinaryCreate(s, bit) ==
    /\ Allocate(s, InitialBit(bit))
    /\ Binary' = Binary \cup {s}

OSSemDelete(s) ==
    /\ DeleteEvent(s)
    /\ OSEventCount' = [OSEventCount EXCEPT ![s] = 0]
    /\ owed' = [owed EXCEPT ![s] = @ - OSEventCount[s]]
    /\ UNCHANGED <<Binary, result>>

-----------------------------------------------------------------------------
\* Pending.

\* A permit is there: the caller takes it and goes on.
OSSemPendTake(s) ==
    /\ InTask
    /\ s \in OSEventAllocated
    /\ OSEventCount[s] > 0
    /\ OSEventCount' = [OSEventCount EXCEPT ![s] = @ - 1]
    /\ result' = [result EXCEPT ![currentTask] = "OK"]
    /\ owed' = [owed EXCEPT ![s] = @ - 1]
    /\ UNCHANGED <<evars, Binary>>

\* There is none: the caller joins the wait list and is switched out.
OSSemPendWait(s, w) ==
    /\ OSEventCount[s] = 0
    /\ JoinWaiters(s, w, "sem")
    /\ UNCHANGED permits

\* The permit a waiter was given is taken with the return.
ReturnOK(t) ==
    /\ result' = [result EXCEPT ![t] = "OK"]
    /\ owed' = [owed EXCEPT ![event[t]] = IF t \in granted THEN @ - 1 ELSE @]
    /\ UNCHANGED <<OSEventCount, Binary>>

ReturnTIMEOUT(t) ==
    /\ result' = [result EXCEPT ![t] = "TIMEOUT"]
    /\ UNCHANGED <<OSEventCount, Binary, owed>>

OSSemPendPosted(t) == ReturnPosted(t, "sem") /\ ReturnOK(t)

OSSemPendTimeout(t) == ReturnTimeout(t, "sem") /\ ReturnTIMEOUT(t)

\* Mutant: a task woken by the tick reports a timeout even if it was posted.
OSSemPendBothTimeout(t) == ReturnBoth(t, "sem") /\ ReturnTIMEOUT(t)

OSSemPendBoth(t) == ReturnBoth(t, "sem") /\ ReturnOK(t)

OSSemPendReturn(t) ==
    OSSemPendPosted(t) \/ OSSemPendTimeout(t) \/ OSSemPendBoth(t)

-----------------------------------------------------------------------------
\* Posting, from a task or from an interrupt handler.

OSSemPostWake(s) ==
    /\ WakeWaiter(s)
    /\ owed' = [owed EXCEPT ![s] = @ + 1]
    /\ UNCHANGED <<OSEventCount, Binary, result>>

\* Mutant: one post too many is accepted.
NotFullLate(s) == OSEventCount[s] <= MaxSemCount

NotFull(s) == OSEventCount[s] < MaxSemCount

Posted(s) == IF s \in Binary THEN 1 ELSE OSEventCount[s] + 1

\* Nobody waits: the permit is counted.  At MaxSemCount the post is refused.
OSSemPostCount(s) ==
    /\ Posting(s)
    /\ OSEventWait[s] = 0
    /\ NotFull(s)
    /\ OSEventCount' = [OSEventCount EXCEPT ![s] = Posted(s)]
    /\ owed' = [owed EXCEPT ![s] = @ + Posted(s) - OSEventCount[s]]
    /\ UNCHANGED <<evars, Binary, result>>

-----------------------------------------------------------------------------
SemStep ==
    \E s \in Sem :
      \/ \E cnt \in 0 .. MaxCreateCount : OSSemCreate(s, cnt)
      \/ \E bit \in 0 .. 2 : OSSemBinaryCreate(s, bit)
      \/ OSSemDelete(s)
      \/ OSSemPendTake(s)
      \/ \E w \in 0 .. MaxWait : OSSemPendWait(s, w)
      \/ OSSemPostWake(s)
      \/ OSSemPostCount(s)

SemNext ==
    \/ KernelStep /\ UNCHANGED permits
    \/ SemStep
    \/ \E t \in Task : OSSemPendReturn(t)

SemSpec == SemInit /\ [][SemNext]_svars

-----------------------------------------------------------------------------
\* Properties.

\* Every variable has its type; SemTypeOK is TypeOK with the calls of this module.
SemTypeOK ==
    /\ OSTickCounter \in 0 .. TICK_COUNT_OVERFLOW - 1
    /\ iNesting \in 0 .. MaxNesting
    /\ OSReadyList \subseteq Prio /\ OSBlockedList \subseteq Prio
    /\ currentTask \in Task \cup {IdleTask}
    /\ TimeToWait \in [Task -> Nat]
    /\ delayList \subseteq Task
    /\ at \in [Task -> {"run", "delay", "sem"}]
    /\ remaining \in [Task -> Nat]
    /\ OSEventAllocated \subseteq Sem /\ Binary \subseteq Sem
    /\ OSEventCount \in [Sem -> 0 .. MaxSemCount]
    /\ OSEventWait \in [Sem -> 0 .. NUMBER_OF_TASKS]
    /\ OSEventWaitList \in [Sem -> SUBSET Prio]
    /\ event \in [Task -> Sem \cup {NoEvent}]
    /\ timed \subseteq Task /\ granted \subseteq Task
    /\ result \in [Task -> {"none", "OK", "TIMEOUT"}]
    /\ owed \in [Sem -> Nat]

\* No task waits while a permit is available: no wakeup is lost.
NoWaitWithPermits ==
    \A s \in Sem : OSEventCount[s] > 0 => OSEventWaitList[s] = {}

\* Permits are conserved: what was posted and not yet taken is in the count or
\* in the hands of a waiter that has not run yet.  A post that races a timeout
\* neither disappears nor serves twice.
PermitsConserved ==
    \A s \in Sem : owed[s] =
      OSEventCount[s] + Cardinality({t \in granted : event[t] = s})

\* OSSemPend returns OK to a task that waited exactly when a post woke it, and
\* TIMEOUT otherwise.
OkMeansPost ==
    [][\A t \in Task : at[t] = "sem" /\ at'[t] = "run" =>
         (result'[t] = "OK" <=> t \in granted)]_svars

\* TIMEOUT is returned only after the whole wait has passed.
NoEarlyTimeout ==
    [][\A t \in Task : at[t] = "sem" /\ at'[t] = "run" /\ result'[t] = "TIMEOUT"
         => remaining[t] = 0]_svars
=============================================================================
