----------------------------- MODULE BrtosEvent -----------------------------
(***************************************************************************)
(* What the BRTOS events (semaphores, queues, mailboxes) have in common:   *)
(* control blocks with a wait counter and a wait list of priorities, and a *)
(* pend that is split at its ChangeContext.  Between the two halves of a   *)
(* pend the waiter may be posted, timed out by the tick, or both, in       *)
(* either order.  semaphore.c, queue.c and mbox.c each repeat these steps; *)
(* the definitions are read from semaphore.c, and BrtosSem and             *)
(* BrtosMessages add what each kind of event holds.                        *)
(***************************************************************************)
EXTENDS BrtosKernel

CONSTANTS
    MaxEvents,       \* control blocks of the tables (BRTOS_MAX_SEM, ...)
    DeleteInUse      \* whether tasks delete events others are waiting on

Event   == 1 .. MaxEvents
NoEvent == 0
Call    == {"sem", "queue", "mbox"}      \* the calls that wait for an event

ASSUME EventAssumption == MaxEvents \in Nat /\ DeleteInUse \in BOOLEAN

VARIABLES
    OSEventAllocated,  \* control blocks in use
    OSEventWait,       \* number of waiters
    OSEventWaitList,   \* priorities of the waiters
    event,             \* the event a task is inside a pend on
    timed,             \* the tasks that passed a non-zero time_wait
    granted,           \* history: waiters that have been given a post
    result             \* what a task's last pend returned: set by each kind

blocks  == <<OSEventAllocated, OSEventWait, OSEventWaitList>>
callers == <<event, timed, granted>>
evars   == <<kvars, blocks, callers>>

EventInit ==
    /\ Init
    /\ OSEventAllocated = {}
    /\ OSEventWait = [e \in Event |-> 0]
    /\ OSEventWaitList = [e \in Event |-> {}]
    /\ event = [t \in Task |-> NoEvent]
    /\ timed = {}
    /\ granted = {}

-----------------------------------------------------------------------------
\* Creating and deleting.

\* The control block the search of a table stops at.
FreeBlock(e, table) ==
    /\ e \in table \ OSEventAllocated
    /\ \A r \in table \ OSEventAllocated : e <= r

ClearWaiters(e) ==
    /\ OSEventWait' = [OSEventWait EXCEPT ![e] = 0]
    /\ OSEventWaitList' = [OSEventWaitList EXCEPT ![e] = {}]

\* The first free control block is taken, with an empty wait list.
CreateEvent(e, table) ==
    /\ InTask
    /\ FreeBlock(e, table)
    /\ OSEventAllocated' = OSEventAllocated \cup {e}
    /\ ClearWaiters(e)
    /\ UNCHANGED <<kvars, callers>>

Inside(e) == {t \in Task : at[t] \in Call /\ event[t] = e}

\* The control block is given back; its wait list is cleared unread.
DeleteEvent(e) ==
    /\ InTask
    /\ e \in OSEventAllocated
    /\ DeleteInUse \/ Inside(e) = {}
    /\ OSEventAllocated' = OSEventAllocated \ {e}
    /\ ClearWaiters(e)
    /\ UNCHANGED <<kvars, callers>>

-----------------------------------------------------------------------------
\* Pending.

\* The deadline of a waiter, or none for a time_wait of 0.
SetTimeout(w) ==
    IF w > 0
    THEN /\ StartWait(w)
         /\ timed' = timed \cup {currentTask}
    ELSE /\ TimeToWait' = [TimeToWait EXCEPT ![currentTask] = NO_TIMEOUT]
         /\ timed' = timed \ {currentTask}
         /\ UNCHANGED <<delayList, remaining>>

\* The caller joins the wait list of e and is switched out inside the call.
JoinWaiters(e, w, call) ==
    /\ InTask
    /\ e \in OSEventAllocated
    /\ OSEventWait' = [OSEventWait EXCEPT ![e] = @ + 1]
    /\ OSEventWaitList' =
         [OSEventWaitList EXCEPT ![e] = @ \cup {Priority[currentTask]}]
    /\ OSReadyList' = OSReadyList \ {Priority[currentTask]}
    /\ SetTimeout(w)
    /\ at' = [at EXCEPT ![currentTask] = call]
    /\ event' = [event EXCEPT ![currentTask] = e]
    /\ UNCHANGED <<OSTickCounter, iNesting, OSBlockedList, prios,
                   OSEventAllocated, granted>>
    /\ ChangeContext

\* Mutants: a waiter that leaves is still counted, or still listed.
RemoveWaiterCounted(e, p) ==
    /\ OSEventWaitList' = [OSEventWaitList EXCEPT ![e] = @ \ {p}]
    /\ UNCHANGED OSEventWait
RemoveWaiterListed(e, p) ==
    /\ OSEventWait' = [OSEventWait EXCEPT ![e] = @ - 1]
    /\ UNCHANGED OSEventWaitList

\* The waiter of priority p leaves the wait list of e.
RemoveWaiter(e, p) ==
    /\ OSEventWaitList' = [OSEventWaitList EXCEPT ![e] = @ \ {p}]
    /\ OSEventWait' = [OSEventWait EXCEPT ![e] = @ - 1]

\* Mutant: the task stays on the delay list.
CancelTimeoutListed(t) ==
    /\ TimeToWait' = [TimeToWait EXCEPT ![t] = NO_TIMEOUT]
    /\ remaining' = [remaining EXCEPT ![t] = 0]
    /\ UNCHANGED delayList

\* The deadline is withdrawn and the task taken off the delay list.
CancelTimeout(t) ==
    /\ TimeToWait' = [TimeToWait EXCEPT ![t] = NO_TIMEOUT]
    /\ delayList' = delayList \ {t}
    /\ remaining' = [remaining EXCEPT ![t] = 0]

Waiting(t) == Priority[t] \in OSEventWaitList[event[t]]

\* Task t was woken by the tick.
TimedOut(t) == t \in timed /\ TimeToWait[t] = EXIT_BY_TIMEOUT

Return(t) ==
    /\ at' = [at EXCEPT ![t] = "run"]
    /\ event' = [event EXCEPT ![t] = NoEvent]
    /\ timed' = timed \ {t}
    /\ granted' = granted \ {t}
    /\ UNCHANGED <<OSTickCounter, currentTask, iNesting, lists, prios,
                   OSEventAllocated>>

\* Woken with no deadline set, or by a post before the deadline: the task
\* takes itself off the delay list.
ReturnPosted(t, call) ==
    /\ Resumed(t, call)
    /\ ~ TimedOut(t)
    /\ IF t \in timed THEN CancelTimeout(t) ELSE UNCHANGED timing
    /\ Return(t)
    /\ UNCHANGED <<OSEventWait, OSEventWaitList>>

\* Woken by the tick, and nobody has posted meanwhile.
ReturnTimeout(t, call) ==
    /\ Resumed(t, call)
    /\ TimedOut(t)
    /\ Waiting(t)
    /\ RemoveWaiter(event[t], Priority[t])
    /\ Return(t)
    /\ UNCHANGED timing

\* Both the tick and a post came before the task ran again: the post counts.
ReturnBoth(t, call) ==
    /\ Resumed(t, call)
    /\ TimedOut(t)
    /\ ~ Waiting(t)
    /\ Return(t)
    /\ UNCHANGED <<timing, OSEventWait, OSEventWaitList>>

-----------------------------------------------------------------------------
\* Posting, from a task or from an interrupt handler.

Posting(e) == (InTask \/ iNesting > 0) /\ e \in OSEventAllocated

\* The highest-priority waiter leaves the wait list and becomes ready.
WakeWaiter(e) ==
    LET p == SAScheduler(OSEventWaitList[e]) IN
    /\ Posting(e)
    /\ OSEventWait[e] # 0
    /\ RemoveWaiter(e, p)
    /\ OSReadyList' = SetReady(OSReadyList, p)
    /\ granted' = granted \cup {PriorityVector[p]}
    /\ UNCHANGED <<OSTickCounter, iNesting, OSBlockedList, prios, timing, at,
                   OSEventAllocated, event, timed>>
    /\ Reschedule

-----------------------------------------------------------------------------
\* The steps of the events, whatever they hold.

KernelStep ==
    /\ \/ \E w \in 1 .. MaxWait : DelayTask(w)
       \/ \E t \in Task : DelayReturn(t)
       \/ Interrupt
    /\ UNCHANGED <<blocks, callers>>

EventReturn(t) ==
    \E call \in Call :
      ReturnPosted(t, call) \/ ReturnTimeout(t, call) \/ ReturnBoth(t, call)

EventNext ==
    \/ KernelStep
    \/ \E e \in Event :
         \/ \E table \in SUBSET Event : CreateEvent(e, table)
         \/ DeleteEvent(e)
         \/ \E w \in 0 .. MaxWait, call \in Call : JoinWaiters(e, w, call)
         \/ WakeWaiter(e)
    \/ \E t \in Task : EventReturn(t)

EventSpec == EventInit /\ [][EventNext]_evars

-----------------------------------------------------------------------------
\* Properties of every kind of event.

\* The wait counter, which decides whether a post wakes a task, is the number
\* of bits in the wait list, through every order of post and timeout.
WaitCountExact ==
    \A e \in Event : OSEventWait[e] = Cardinality(OSEventWaitList[e])

\* Inside a pend on e, and not woken by a post.
Pending(t, e) == at[t] \in Call /\ event[t] = e /\ t \notin granted

\* A wait list holds exactly the tasks inside a pend that no post has woken.
WaitListExact ==
    \A e \in Event :
      OSEventWaitList[e] = {Priority[t] : t \in {u \in Task : Pending(u, e)}}

\* A task is off the ready list only while something will put it back: the
\* tick (it is on the delay list) or a post (it is on a wait list).
Reachable(t) ==
    t \in delayList \/ (at[t] \in Call /\ Waiting(t))
NoTaskLost ==
    \A t \in Task : Priority[t] \notin OSReadyList => Reachable(t)

\* The delay list links are written only for tasks where that is safe: a task
\* that resumes with its deadline ahead is on the list, any other is not.
ListedWhileTimed ==
    \A t \in Task : t \in delayList <=>
      /\ at[t] = "delay" \/ (at[t] \in Call /\ t \in timed)
      /\ TimeToWait[t] # EXIT_BY_TIMEOUT
=============================================================================
