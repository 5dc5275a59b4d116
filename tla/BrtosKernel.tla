---------------------------- MODULE BrtosKernel ----------------------------
(***************************************************************************)
(* The BRTOS kernel of the energy monitor: the priority-preemptive         *)
(* scheduler, the tick interrupt with its delay list, DelayTask, and the   *)
(* Block/UnBlock services (brtos/BRTOS.c, brtos/includes/BRTOS.h).         *)
(*                                                                         *)
(* A kernel call is one action: the code runs it between OSEnterCritical   *)
(* and OSExitCritical, and a call that suspends its caller is split at     *)
(* ChangeContext, where other tasks and interrupts run.  The bit lists     *)
(* OSReadyList and OSBlockedList are sets of priorities (OSBlockedList     *)
(* holds, as in the code, the priorities that are NOT blocked).  The delay *)
(* list is a set: the tick visits every node, so its order is not          *)
(* observable; DelayList shows that the linked list implements the set.    *)
(***************************************************************************)
EXTENDS Naturals, FiniteSets

CONSTANTS
    NUMBER_OF_TASKS,      \* installed application tasks
    MaxPriority,          \* the highest priority, configMAX_TASK_PRIORITY
    InstalledPriority,    \* iPriority given to InstallTask for each task
    TICK_COUNT_OVERFLOW,  \* where the tick counter wraps (64000)
    NO_TIMEOUT,           \* TimeToWait of a task with no deadline (65000)
    EXIT_BY_TIMEOUT,      \* TimeToWait of a task woken by the tick (65001)
    MaxWait,              \* longest time_wait a task passes
    MaxNesting            \* bound: deepest nesting of interrupts

Task      == 1 .. NUMBER_OF_TASKS        \* ContextTask[0] is not used
IdleTask  == NUMBER_OF_TASKS + 1         \* the last context is the idle task
Prio      == 0 .. MaxPriority
MUTEX_PRIO == 254
EMPTY_PRIO == 255

ASSUME TaskAssumption ==
    /\ NUMBER_OF_TASKS \in Nat /\ NUMBER_OF_TASKS < MUTEX_PRIO - 1
    /\ MaxPriority \in Nat
    /\ InstalledPriority \in [Task -> 1 .. MaxPriority]
    /\ \A t, u \in Task : InstalledPriority[t] = InstalledPriority[u] => t = u

ASSUME TimeAssumption ==
    /\ TICK_COUNT_OVERFLOW \in Nat \ {0}
    /\ NO_TIMEOUT \in Nat /\ EXIT_BY_TIMEOUT \in Nat
    /\ TICK_COUNT_OVERFLOW <= NO_TIMEOUT /\ NO_TIMEOUT < EXIT_BY_TIMEOUT
    /\ MaxWait \in Nat /\ MaxNesting \in Nat

VARIABLES
    OSTickCounter,   \* the tick counter
    currentTask,     \* the running task
    iNesting,        \* interrupts in progress
    OSReadyList,     \* priorities ready to run
    OSBlockedList,   \* priorities that are not blocked
    Priority,        \* ContextTask[].Priority
    PriorityVector,  \* the task that runs at each priority
    TimeToWait,      \* ContextTask[].TimeToWait
    delayList,       \* tasks linked between Head and Tail
    at,              \* the call a task is suspended in, or "run"
    remaining        \* history: ticks left of the wait a task asked for

lists  == <<OSReadyList, OSBlockedList>>
prios  == <<Priority, PriorityVector>>
timing == <<TimeToWait, delayList, remaining>>
kvars  == <<OSTickCounter, currentTask, iNesting, lists, prios, timing, at>>

-----------------------------------------------------------------------------
\* The scheduler.

\* The highest bit of a list; an empty list selects priority 0, the idle task.
SAScheduler(list) ==
    IF list = {} THEN 0 ELSE CHOOSE p \in list : \A q \in list : q <= p

\* Mutant: the bit of the woken task is not set.
SetReadyNot(list, p) == list

\* The ready list with the bit of a woken task set.
SetReady(list, p) == list \cup {p}

OSSchedule == PriorityVector[SAScheduler(OSReadyList \cap OSBlockedList)]

\* The trap that switches to the task the scheduler selects from the new lists.
ChangeContext == currentTask' = OSSchedule'

\* A task, and not an interrupt handler, is executing its own code.
InTask == iNesting = 0 /\ currentTask \in Task /\ at[currentTask] = "run"

\* Task t is executing again inside the call it was suspended in.
Resumed(t, call) == iNesting = 0 /\ currentTask = t /\ at[t] = call

\* The task InstallTask, or InstallIdle, put at each priority.
InstalledVector ==
    [p \in Prio |-> IF p = 0 THEN IdleTask
                   ELSE IF \E t \in Task : InstalledPriority[t] = p
                        THEN CHOOSE t \in Task : InstalledPriority[t] = p
                        ELSE EMPTY_PRIO]

Init ==
    /\ OSTickCounter = 0
    /\ iNesting = 0
    /\ OSReadyList = {0} \cup {InstalledPriority[t] : t \in Task}
    /\ OSBlockedList = Prio
    /\ Priority = InstalledPriority
    /\ PriorityVector = InstalledVector
    /\ currentTask = OSSchedule
    /\ TimeToWait = [t \in Task |-> NO_TIMEOUT]
    /\ delayList = {}
    /\ at = [t \in Task |-> "run"]
    /\ remaining = [t \in Task |-> 0]

-----------------------------------------------------------------------------
\* Waiting for time.

\* Mutant: the wrap is taken off one tick late.
DeadlineLate(w) ==
    IF OSTickCounter + w > TICK_COUNT_OVERFLOW
    THEN OSTickCounter + w - TICK_COUNT_OVERFLOW
    ELSE OSTickCounter + w
\* Mutant: the tick in progress is counted as waited.
DeadlineEarly(w) == (OSTickCounter + w - 1) % TICK_COUNT_OVERFLOW

\* The tick at which a wait of w ticks ends: 32-bit sum, one wrap taken off.
Deadline(w) ==
    IF OSTickCounter + w >= TICK_COUNT_OVERFLOW
    THEN OSTickCounter + w - TICK_COUNT_OVERFLOW
    ELSE OSTickCounter + w

\* The running task puts itself on the delay list until Deadline(w).
StartWait(w) ==
    /\ TimeToWait' = [TimeToWait EXCEPT ![currentTask] = Deadline(w)]
    /\ delayList' = delayList \cup {currentTask}
    /\ remaining' = [remaining EXCEPT ![currentTask] = w]

DelayTask(w) ==
    /\ InTask
    /\ StartWait(w)
    /\ OSReadyList' = OSReadyList \ {Priority[currentTask]}
    /\ at' = [at EXCEPT ![currentTask] = "delay"]
    /\ UNCHANGED <<OSTickCounter, iNesting, OSBlockedList, prios>>
    /\ ChangeContext

DelayReturn(t) ==
    /\ Resumed(t, "delay")
    /\ at' = [at EXCEPT ![t] = "run"]
    /\ UNCHANGED <<OSTickCounter, currentTask, iNesting, lists, prios, timing>>

-----------------------------------------------------------------------------
\* Interrupts.

\* Mutant: the counter is not wrapped.
OSIncCounterFree == OSTickCounter + 1

OSIncCounter == (OSTickCounter + 1) % TICK_COUNT_OVERFLOW

\* OS_INT_EXIT: only the outermost handler reschedules.
IntExit == IF iNesting' = 0 THEN ChangeContext ELSE UNCHANGED currentTask

\* The nodes of the delay list whose deadline is the new tick.
Expired == {t \in delayList : TimeToWait[t] = OSIncCounter}

OS_TICK_HANDLER ==
    /\ OSReadyList' = OSReadyList \cup {Priority[t] : t \in Expired}
    /\ TimeToWait' = [t \in Task |->
                        IF t \in Expired THEN EXIT_BY_TIMEOUT ELSE TimeToWait[t]]
    /\ delayList' = delayList \ Expired
    /\ remaining' = [t \in Task |->
                        IF remaining[t] > 0 THEN remaining[t] - 1 ELSE 0]

\* The whole tick interrupt.  It may itself interrupt another handler; what a
\* handler that interrupts it does commutes with the walk of the delay list.
TickTimer ==
    /\ OSTickCounter' = OSIncCounter
    /\ OS_TICK_HANDLER
    /\ UNCHANGED <<iNesting, OSBlockedList, prios, at>>
    /\ IntExit

\* Another interrupt (serial port, USB) begins and ends.
IsrEnter ==
    /\ iNesting < MaxNesting
    /\ iNesting' = iNesting + 1
    /\ UNCHANGED <<OSTickCounter, currentTask, lists, prios, timing, at>>

IsrExit ==
    /\ iNesting > 0
    /\ iNesting' = iNesting - 1
    /\ UNCHANGED <<OSTickCounter, lists, prios, timing, at>>
    /\ IntExit

-----------------------------------------------------------------------------
\* Blocking and unblocking.

\* Mutant: the call returns to its caller.
RescheduleNot == UNCHANGED currentTask

\* The context switch a call makes when a task, not a handler, is its caller.
Reschedule == IF iNesting = 0 THEN ChangeContext ELSE UNCHANGED currentTask

BlockPriority(p) ==
    /\ InTask
    /\ OSBlockedList' = OSBlockedList \ {p}
    /\ UNCHANGED <<OSTickCounter, iNesting, OSReadyList, prios, timing, at>>
    /\ IF currentTask = PriorityVector[p]
       THEN ChangeContext ELSE UNCHANGED currentTask

UnBlockPriority(p) ==
    /\ InTask \/ iNesting > 0
    /\ OSBlockedList' = OSBlockedList \cup {p}
    /\ UNCHANGED <<OSTickCounter, iNesting, OSReadyList, prios, timing, at>>
    /\ Reschedule

BlockTask(t) ==
    /\ InTask
    /\ OSBlockedList' = OSBlockedList \ {Priority[t]}
    /\ UNCHANGED <<OSTickCounter, iNesting, OSReadyList, prios, timing, at>>
    /\ IF currentTask = t THEN ChangeContext ELSE UNCHANGED currentTask

UnBlockTask(t) == UnBlockPriority(Priority[t])

\* Tasks first .. last-1, but never the caller.
OtherTasks(first, last) == {t \in Task : first <= t /\ t < last} \ {currentTask}

BlockMultipleTask(first, last) ==
    /\ InTask
    /\ OSBlockedList' =
         OSBlockedList \ {Priority[t] : t \in OtherTasks(first, last)}
    /\ UNCHANGED <<OSTickCounter, iNesting, OSReadyList, prios, timing, at,
                   currentTask>>

UnBlockMultipleTask(first, last) ==
    /\ InTask
    /\ OSBlockedList' =
         OSBlockedList \cup {Priority[t] : t \in OtherTasks(first, last)}
    /\ UNCHANGED <<OSTickCounter, iNesting, OSReadyList, prios, timing, at>>
    /\ ChangeContext

-----------------------------------------------------------------------------
Block ==
    \/ \E p \in Prio : BlockPriority(p) \/ UnBlockPriority(p)
    \/ \E t \in Task : BlockTask(t) \/ UnBlockTask(t)
    \/ \E first \in Task, last \in Task \cup {IdleTask} :
         BlockMultipleTask(first, last) \/ UnBlockMultipleTask(first, last)

Interrupt == TickTimer \/ IsrEnter \/ IsrExit

Next ==
    \/ \E w \in 1 .. MaxWait : DelayTask(w)
    \/ \E t \in Task : DelayReturn(t)
    \/ Interrupt
    \/ Block

Spec == Init /\ [][Next]_kvars

\* The tick keeps coming, handlers end, and handlers do not take all the
\* processor: a task that is scheduled again and again gets to execute.
Fairness ==
    /\ WF_kvars(TickTimer)
    /\ \A n \in 1 .. MaxNesting : SF_kvars(IsrExit /\ iNesting = n)
    /\ \A t \in Task : SF_kvars(DelayReturn(t))

FairSpec == Spec /\ Fairness

-----------------------------------------------------------------------------
\* Properties.

\* Every variable has its type (kernel alone: a task is running or delayed).
TypeOK ==
    /\ OSTickCounter \in 0 .. TICK_COUNT_OVERFLOW - 1
    /\ iNesting \in 0 .. MaxNesting
    /\ OSReadyList \subseteq Prio /\ OSBlockedList \subseteq Prio
    /\ Priority \in [Task -> 1 .. MaxPriority]
    /\ PriorityVector \in [Prio -> Task \cup {IdleTask, MUTEX_PRIO, EMPTY_PRIO}]
    /\ currentTask \in Task \cup {IdleTask}
    /\ TimeToWait \in [Task -> Nat]
    /\ delayList \subseteq Task
    /\ at \in [Task -> {"run", "delay"}]
    /\ remaining \in [Task -> Nat]

Runnable(t) == Priority[t] \in OSReadyList \cap OSBlockedList

\* Outside interrupts the processor runs a runnable task, and no runnable task
\* has a higher priority; the idle task runs only when nothing else can.
RunsHighest ==
    iNesting = 0 =>
      /\ currentTask \in Task => Runnable(currentTask)
      /\ \A t \in Task : Runnable(t) =>
           currentTask \in Task /\ Priority[t] <= Priority[currentTask]

\* A task in DelayTask is on the delay list, and off the ready list, exactly
\* while ticks of the wait it asked for remain: it wakes on time, and is never
\* forgotten by the tick that walks the list.
DelayExact ==
    \A t \in Task :
      /\ t \in delayList <=> remaining[t] > 0
      /\ t \in delayList => at[t] = "delay"
      /\ Priority[t] \in OSReadyList <=> t \notin delayList

\* The deadline of a delayed task lies exactly its remaining ticks ahead of the
\* tick counter, across the wrap: the tick, which compares for equality, can
\* neither miss it nor meet it a wrap too early.
DeadlineAhead ==
    \A t \in delayList :
      /\ TimeToWait[t] < TICK_COUNT_OVERFLOW
      /\ remaining[t] <= TICK_COUNT_OVERFLOW
      /\ OSTickCounter + remaining[t] \in
           {TimeToWait[t], TimeToWait[t] + TICK_COUNT_OVERFLOW}

\* Unless another task blocks it, the highest-priority task returns from
\* every DelayTask.
Highest == CHOOSE t \in Task : \A u \in Task :
             InstalledPriority[u] <= InstalledPriority[t]
DelayEnds ==
    at[Highest] = "delay" ~>
      at[Highest] = "run" \/ InstalledPriority[Highest] \notin OSBlockedList
=============================================================================
