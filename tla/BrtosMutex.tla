----------------------------- MODULE BrtosMutex -----------------------------
(***************************************************************************)
(* BRTOS mutexes (brtos/mutex.c) on the kernel of BrtosKernel: each mutex  *)
(* has a priority of its own, its ceiling, which the owner runs at; a      *)
(* release hands the mutex to the highest-priority waiter without making   *)
(* it available in between.                                                *)
(*                                                                         *)
(* Acquire is split at its ChangeContext: a waiter chosen by a release     *)
(* becomes the owner only when it executes again.                          *)
(***************************************************************************)
EXTENDS BrtosKernel, Sequences

CONSTANTS
    BRTOS_MAX_MUTEX,   \* mutex control blocks
    Ceilings,          \* priorities the application creates mutexes with
    LifoRelease        \* whether tasks release the last mutex acquired first

Mutex   == 1 .. BRTOS_MAX_MUTEX
NoMutex == 0
NoOwner == 0

ASSUME MutexAssumption ==
    /\ BRTOS_MAX_MUTEX \in Nat
    /\ Ceilings \subseteq 1 .. MaxPriority /\ LifoRelease \in BOOLEAN

VARIABLES
    OSEventAllocated,    \* control blocks in use
    OSEventState,        \* AVAILABLE_RESOURCE, BUSY_RESOURCE, or 0 when cleared
    OSEventOwner,        \* the owner, or 0
    OSMaxPriority,       \* the ceiling
    OSOriginalPriority,  \* the priority the owner had when it acquired
    OSEventWait,         \* number of waiters
    OSEventWaitList,     \* priorities of the waiters
    event,               \* the mutex a task is waiting for in OSMutexAcquire
    held                 \* history: the mutexes a task holds, in the order acquired

blocks == <<OSEventAllocated, OSEventState, OSEventOwner, OSMaxPriority,
            OSOriginalPriority, OSEventWait, OSEventWaitList>>
mvars  == <<kvars, blocks, event, held>>

MutexInit ==
    /\ Init
    /\ OSEventAllocated = {}
    /\ OSEventState = [m \in Mutex |-> "cleared"]
    /\ OSEventOwner = [m \in Mutex |-> NoOwner]
    /\ OSMaxPriority = [m \in Mutex |-> 0]
    /\ OSOriginalPriority = [m \in Mutex |-> 0]
    /\ OSEventWait = [m \in Mutex |-> 0]
    /\ OSEventWaitList = [m \in Mutex |-> {}]
    /\ event = [t \in Task |-> NoMutex]
    /\ held = [t \in Task |-> <<>>]

-----------------------------------------------------------------------------
\* Creating and deleting.

\* The ceiling is taken before the table is searched for a free block, so a
\* create that finds none keeps it.
OSMutexCreate(h) ==
    /\ InTask
    /\ PriorityVector[h] = EMPTY_PRIO
    /\ PriorityVector' = [PriorityVector EXCEPT ![h] = MUTEX_PRIO]
    /\ IF OSEventAllocated = Mutex
       THEN UNCHANGED <<OSEventAllocated, OSEventState, OSMaxPriority,
                        OSEventWait, OSEventWaitList>>
       ELSE LET m == CHOOSE m \in Mutex \ OSEventAllocated :
                       \A n \in Mutex \ OSEventAllocated : m <= n IN
            /\ OSEventAllocated' = OSEventAllocated \cup {m}
            /\ OSEventState' = [OSEventState EXCEPT ![m] = "available"]
            /\ OSMaxPriority' = [OSMaxPriority EXCEPT ![m] = h]
            /\ OSEventWait' = [OSEventWait EXCEPT ![m] = 0]
            /\ OSEventWaitList' = [OSEventWaitList EXCEPT ![m] = {}]
    /\ UNCHANGED <<OSTickCounter, currentTask, iNesting, lists, Priority, timing,
                   at, OSEventOwner, OSOriginalPriority, event, held>>

\* Deleting a mutex clears its block; its ceiling stays taken.  The code does
\* not ask whether somebody uses the mutex; here nobody does.
OSMutexDelete(m) ==
    /\ InTask
    /\ m \in OSEventAllocated /\ OSEventState[m] = "available"
    /\ OSEventAllocated' = OSEventAllocated \ {m}
    /\ OSEventState' = [OSEventState EXCEPT ![m] = "cleared"]
    /\ OSMaxPriority' = [OSMaxPriority EXCEPT ![m] = 0]
    /\ OSOriginalPriority' = [OSOriginalPriority EXCEPT ![m] = 0]
    /\ UNCHANGED <<kvars, OSEventOwner, OSEventWait,
                   OSEventWaitList, event, held>>

-----------------------------------------------------------------------------
\* Acquiring.

\* Mutant: the comparison with the ceiling is forgotten.
PromoteAlways(t, p, ceiling) ==
    /\ Priority' = [Priority EXCEPT ![t] = ceiling]
    /\ PriorityVector' = [PriorityVector EXCEPT ![ceiling] = t]
    /\ OSReadyList' = (OSReadyList \ {p}) \cup {ceiling}

\* Task t, of priority p, runs at the ceiling when that is higher.
Promote(t, p, ceiling) ==
    IF ceiling > p
    THEN /\ Priority' = [Priority EXCEPT ![t] = ceiling]
         /\ PriorityVector' = [PriorityVector EXCEPT ![ceiling] = t]
         /\ OSReadyList' = (OSReadyList \ {p}) \cup {ceiling}
    ELSE UNCHANGED <<prios, OSReadyList>>

\* Task t, of priority p, owns m from now on.
BecomeOwner(t, m, p) ==
    /\ OSEventOwner' = [OSEventOwner EXCEPT ![m] = t]
    /\ OSOriginalPriority' = [OSOriginalPriority EXCEPT ![m] = p]
    /\ Promote(t, p, OSMaxPriority[m])
    /\ held' = [held EXCEPT ![t] = Append(@, m)]

\* An owner that acquires again returns at once, with no change.
OSMutexAcquireFree(m) ==
    /\ InTask
    /\ m \in OSEventAllocated
    /\ OSEventOwner[m] # currentTask
    /\ OSEventState[m] = "available"
    /\ OSEventState' = [OSEventState EXCEPT ![m] = "busy"]
    /\ BecomeOwner(currentTask, m, Priority[currentTask])
    /\ UNCHANGED <<OSTickCounter, currentTask, iNesting, OSBlockedList, timing, at,
                   OSEventAllocated, OSMaxPriority, OSEventWait, OSEventWaitList,
                   event>>

OSMutexAcquireWait(m) ==
    /\ InTask
    /\ m \in OSEventAllocated
    /\ OSEventOwner[m] # currentTask
    /\ OSEventState[m] = "busy"
    /\ OSEventWait' = [OSEventWait EXCEPT ![m] = @ + 1]
    /\ OSEventWaitList' =
         [OSEventWaitList EXCEPT ![m] = @ \cup {Priority[currentTask]}]
    /\ OSReadyList' = OSReadyList \ {Priority[currentTask]}
    /\ at' = [at EXCEPT ![currentTask] = "mutex"]
    /\ event' = [event EXCEPT ![currentTask] = m]
    /\ UNCHANGED <<OSTickCounter, iNesting, OSBlockedList, prios, timing,
                   OSEventAllocated, OSEventState, OSEventOwner, OSMaxPriority,
                   OSOriginalPriority, held>>
    /\ ChangeContext

\* The second half: chosen by a release, the waiter runs and becomes the owner.
OSMutexAcquired(t) ==
    /\ Resumed(t, "mutex")
    /\ BecomeOwner(t, event[t], Priority[t])
    /\ at' = [at EXCEPT ![t] = "run"]
    /\ event' = [event EXCEPT ![t] = NoMutex]
    /\ UNCHANGED <<OSTickCounter, currentTask, iNesting, OSBlockedList, timing,
                   OSEventAllocated, OSEventState, OSMaxPriority, OSEventWait,
                   OSEventWaitList>>

-----------------------------------------------------------------------------
\* Releasing.

Last(s) == s[Len(s)]
Drop(s, m) ==
    LET k == CHOOSE i \in 1 .. Len(s) : s[i] = m IN
    [i \in 1 .. Len(s) - 1 |-> s[IF i < k THEN i ELSE i + 1]]

\* Mutant: the bit of the ceiling is left set.
RestoredBoth(m) == OSReadyList \cup {OSOriginalPriority[m]}

\* The ready list once the releaser is back at the priority m had saved.
Restored(m) ==
    IF Priority[currentTask] # OSOriginalPriority[m]
    THEN (OSReadyList \ {Priority[currentTask]}) \cup {OSOriginalPriority[m]}
    ELSE OSReadyList

GiveUp(m) ==
    /\ InTask
    /\ m \in OSEventAllocated
    /\ OSEventOwner[m] = currentTask
    /\ LifoRelease => m = Last(held[currentTask])
    /\ Priority' = [Priority EXCEPT ![currentTask] = OSOriginalPriority[m]]
    /\ OSEventOwner' = [OSEventOwner EXCEPT ![m] = NoOwner]
    /\ held' = [held EXCEPT ![currentTask] = Drop(@, m)]

\* Mutant: a waiter that leaves is still counted.
RemoveWaiterCounted(m, p) ==
    /\ OSEventWaitList' = [OSEventWaitList EXCEPT ![m] = @ \ {p}]
    /\ UNCHANGED OSEventWait

\* The waiter of priority p leaves the wait list of m.
RemoveWaiter(m, p) ==
    /\ OSEventWaitList' = [OSEventWaitList EXCEPT ![m] = @ \ {p}]
    /\ OSEventWait' = [OSEventWait EXCEPT ![m] = @ - 1]

\* Mutant: the mutex is available until the waiter runs.
OSMutexReleaseToAll(m) ==
    LET p == SAScheduler(OSEventWaitList[m]) IN
    /\ GiveUp(m)
    /\ OSEventWait[m] # 0
    /\ RemoveWaiter(m, p)
    /\ OSEventState' = [OSEventState EXCEPT ![m] = "available"]
    /\ OSReadyList' = SetReady(Restored(m), p)
    /\ UNCHANGED <<OSTickCounter, iNesting, OSBlockedList, PriorityVector, timing,
                   at, OSEventAllocated, OSMaxPriority, OSOriginalPriority, event>>
    /\ ChangeContext

\* Somebody waits: the mutex stays busy and goes to the highest waiter.
OSMutexReleaseTo(m) ==
    LET p == SAScheduler(OSEventWaitList[m]) IN
    /\ GiveUp(m)
    /\ OSEventWait[m] # 0
    /\ RemoveWaiter(m, p)
    /\ OSReadyList' = SetReady(Restored(m), p)
    /\ UNCHANGED <<OSTickCounter, iNesting, OSBlockedList, PriorityVector, timing,
                   at, OSEventAllocated, OSEventState, OSMaxPriority,
                   OSOriginalPriority, event>>
    /\ ChangeContext

\* Nobody waits: the mutex is available, and the releaser keeps the processor.
OSMutexReleaseFree(m) ==
    /\ GiveUp(m)
    /\ OSEventWait[m] = 0
    /\ OSReadyList' = Restored(m)
    /\ OSEventState' = [OSEventState EXCEPT ![m] = "available"]
    /\ PriorityVector' = [PriorityVector EXCEPT ![OSMaxPriority[m]] = MUTEX_PRIO]
    /\ UNCHANGED <<OSTickCounter, currentTask, iNesting, OSBlockedList, timing,
                   at, OSEventAllocated, OSMaxPriority, OSOriginalPriority,
                   OSEventWait, OSEventWaitList, event>>

-----------------------------------------------------------------------------
KernelStep ==
    /\ \/ \E w \in 1 .. MaxWait : DelayTask(w)
       \/ \E t \in Task : DelayReturn(t)
       \/ Interrupt
    /\ UNCHANGED <<blocks, event, held>>

MutexStep ==
    \/ \E h \in Ceilings : OSMutexCreate(h)
    \/ \E m \in Mutex :
         \/ OSMutexDelete(m)
         \/ OSMutexAcquireFree(m)
         \/ OSMutexAcquireWait(m)
         \/ OSMutexReleaseTo(m)
         \/ OSMutexReleaseFree(m)

MutexNext ==
    \/ KernelStep
    \/ MutexStep
    \/ \E t \in Task : OSMutexAcquired(t)

MutexSpec == MutexInit /\ [][MutexNext]_mvars

-----------------------------------------------------------------------------
\* Properties.

Holds(t, m) == \E i \in 1 .. Len(held[t]) : held[t][i] = m

\* Every variable of this module has its type.
MutexTypeOK ==
    /\ OSEventAllocated \subseteq Mutex
    /\ OSEventState \in [Mutex -> {"cleared", "available", "busy"}]
    /\ OSEventOwner \in [Mutex -> Task \cup {NoOwner}]
    /\ OSMaxPriority \in [Mutex -> Prio]
    /\ OSOriginalPriority \in [Mutex -> Prio]
    /\ OSEventWait \in [Mutex -> 0 .. NUMBER_OF_TASKS]
    /\ OSEventWaitList \in [Mutex -> SUBSET Prio]
    /\ at \in [Task -> {"run", "delay", "mutex"}]
    /\ event \in [Task -> Mutex \cup {NoMutex}]
    /\ held \in [Task -> Seq(Mutex)]

\* Two tasks never hold the same mutex, and the one that does is the recorded
\* owner, through handovers in which the mutex has no owner at all.
MutualExclusion ==
    \A m \in Mutex : \A t, u \in Task :
      Holds(t, m) => /\ OSEventOwner[m] = t
                     /\ Holds(u, m) => u = t

\* A waiter that a release has chosen and that has not run yet.
Chosen(t) == at[t] = "mutex" /\ Priority[t] \notin OSEventWaitList[event[t]]

\* A busy mutex is in exactly one task's hands: held, or handed to a chosen
\* waiter; an available one has neither, and no waiters.  None is ever stuck.
BusyHasOneUser ==
    \A m \in OSEventAllocated :
      Cardinality({t \in Task : Holds(t, m) \/ (Chosen(t) /\ event[t] = m)}) =
        (IF OSEventState[m] = "busy" THEN 1 ELSE 0)

\* With every mutex released, a task is back at the priority it was installed
\* with; while it holds some, it runs at the highest of that and their ceilings.
PriorityIsCeiling ==
    \A t \in Task :
      Priority[t] = SAScheduler({InstalledPriority[t]} \cup
                                {OSMaxPriority[m] : m \in {n \in Mutex : Holds(t, n)}})

\* Whatever bits are set, the scheduler selects an existing context.
SchedulesATask == OSSchedule \in Task \cup {IdleTask}

\* A suspended task is on the delay list or on a mutex's wait list.
NoTaskLost ==
    \A t \in Task : Priority[t] \notin OSReadyList =>
      \/ t \in delayList
      \/ at[t] = "mutex" /\ ~Chosen(t)
=============================================================================
