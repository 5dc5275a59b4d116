# Verification of the energy monitor

TLA+ models, model-checking runs and proofs for the firmware of an energy
monitor: a small board that reads MODBUS meters, keeps their readings in files
on an SD card and uploads them to a server. The firmware runs on BRTOS, a
priority-preemptive real-time kernel whose source is part of the repository.
The modules follow the C code; `PROJECT.json` maps each definition to its lines.

## The system

| Component | State | Operations | How it interacts |
|---|---|---|---|
| Kernel (`brtos/BRTOS.c`, `brtos/includes/BRTOS.h`, `hal/`) | ready and blocked bit lists, priority vector, contexts, tick counter, nesting counter | `OSSchedule`, tick interrupt, `DelayTask`, `Block*`/`UnBlock*`, `InstallTask` | every blocking service removes its caller's bit and calls `ChangeContext`; interrupts reschedule when the outermost one ends |
| Delay list (macros in `BRTOS.h`) | `Head`, `Tail`, links in the contexts | include at the tail, remove a node, walk by the tick | `DelayTask` and every pend with a timeout add to it; the tick and a pend that was posted remove from it |
| Semaphores (`brtos/semaphore.c`) | count, waiters as a counter and a bit list | create, delete, pend, post | posted from serial and USB interrupts, pended by tasks |
| Queues (`brtos/queue.c`) | a ring of cells, its count and two pointers, waiters | create, delete, pend, read, write, clean, post | the serial interrupts post bytes; MODBUS, modem and terminal tasks read them |
| Mailboxes (`brtos/mbox.c`) | one message and whether it is there, waiters | create, delete, pend, post | like a queue of one cell that a post overwrites |
| Mutexes (`brtos/mutex.c`) | state, owner, ceiling, saved priority, waiters | create, delete, acquire, release | change task priorities and the priority vector |
| MODBUS master (`app/MBMaster.c`, `modbus_master/`, `devices/rs485.c`) | one static query, the answer collected so far, the receive queue, the mutex of the line | `Modbus_GetData`: lock, make and send a query, collect and check the answer, flush, unlock | called by the meter drivers, in the monitor's task and in the terminal's |
| Meter drivers (`modbus_slaves/`) | a static list of registers per kind of meter, a count of retries | read every register in turn, copy the list out | the monitor's writer calls one per meter, the terminal on command |
| Monitor (`monitor/monitor.c`, `monitor_main.c`) | per meter: a write timer, names of the files written and read, a header with two indexes in every file, `metafile.txt`; the batch being uploaded | initialise, wait for the interval, append, date and rename, roll over, read a batch, confirm | one task runs the writers and the reader; `simon-api` sends and tells the time |
| Server protocol (`simon-api`) | the clock, and whether it was set | send a batch, get the time | over a modem driver that may be slow, fail or lose the answer |
| Modem and device drivers, terminal, FatFS, minINI, USB | - | - | used by the tasks above |

What is hard to get right, and to test:

* a task that waits with a timeout may be posted, timed out, or both before it
  executes again; counters, wait lists, messages and the delay list must agree
  after every order (`semaphore.c:374-418` and the same in `queue.c`, `mbox.c`);
* a reader that was woken reads without looking again, some time later
  (`queue.c:477-488`), while interrupts go on posting and cleaning;
* the tick removes nodes from the linked list it is walking, and the links of a
  node that left are never cleared (`BRTOS.c:509-542`);
* deadlines are compared for equality with a counter that wraps at 64000;
* a mutex that is handed over has no owner until the new one executes, and
  priorities are saved and restored per mutex (`mutex.c:307-458`);
* an answer may come damaged, in part, late or not at all, and nothing in it
  says which query it answers but the address and the function;
* power may fail between any two file operations: header, rename, and
  `metafile.txt`, which is truncated before it is written;
* the server may store a batch whose confirmation is lost; the batch is repeated;
* the time of an entry is never stored: it follows from its place in the file,
  so entries must be taken at a regular pace however slow the uploads are.

`PROJECT.json` lists these hazards line by line with the properties that watch them.

## Modules

| Module | Models | Checked by |
|---|---|---|
| `BrtosKernel` | scheduler, tick, `DelayTask`, block and unblock, interrupts | `kernel`, proofs |
| `BrtosEvent` | the waiting that semaphores, queues and mailboxes share; extends `BrtosKernel` | `sem`, `messages`, proofs |
| `BrtosSem` | semaphores; extends `BrtosEvent` | `sem`, proofs |
| `BrtosQueue`, `BrtosMbox` | queues and mailboxes; extend `BrtosEvent` | through `BrtosMessages` |
| `BrtosMessages` | both together on one kernel | `messages`, `queue_overflow`, proofs |
| `Mailslots` | what queues and mailboxes promise | abstract specification |
| `BrtosMutex` | mutexes; extends `BrtosKernel` | `mutex`, proofs |
| `DelaySet` | what the kernel needs of its delay list: a set | abstract specification |
| `DelayList` | the doubly linked list and the walk of the tick | `delay_list` |
| `ModbusMaster` | the MODBUS master, the line, the meters and the drivers' loops | `modbus`, `modbus_late`, proofs |
| `MonitorLog` | the write timers, the log files, the writer, the reader, power failures | `monitor*`, proofs |
| `BrtosKernel_proofs`, `BrtosEvent_proofs`, `BrtosSem_proofs`, `BrtosMessages_proofs`, `BrtosMutex_proofs`, `DelayList_proofs`, `ModbusMaster_proofs`, `MonitorLog_proofs` | theorems | TLAPS |
| `MCKernel`, `MCSem`, `MCMessages`, `MCMutex`, `MCDelayList`, `MCModbus`, `MCMonitor` | constant functions for the runs | |

### The kernel modules

A kernel service runs in a critical section, so a call is one action. A call
that suspends its caller (`DelayTask`, `OSSemPend`, `OSQueuePend`,
`OSMboxPend`, `OSMutexAcquire`) is split at `ChangeContext`: one action up to
it, another when the task executes again (`at[t]` says which call it is in).
Between the two, the tick, other interrupts and other tasks take any number of
steps. The critical section that a pend leaves and enters again
(`semaphore.c:380-382`) gives no further split: nothing is read between the
wakeup and that point, and the second action is taken some time after the task
was selected.

`OSReadyList` and `OSBlockedList` are sets of priorities instead of bit masks;
as in the code, `OSBlockedList` holds the priorities that are *not* blocked.
`PriorityVector`, `Priority`, `TimeToWait` and `OSTickCounter` are those of the
code; `delayList` is the set of the nodes of the linked list, which `DelayList`
justifies. `iNesting` counts interrupts; `IntExit` reschedules when it falls to
0. The tick is one action, also while another handler is interrupted: with
nested interrupts the walk of the list leaves its critical section between
nodes, but what a handler may then do (post, unblock) adds bits to the ready
list and touches no deadline, so it commutes with the rest of the walk.
Interrupt handlers are `IsrEnter`, any number of posts, `IsrExit`.
`OSSchedule'` is evaluated on the new lists, as the software interrupt that
`ChangeContext` raises does at once, interrupts being what the critical section
holds back, not traps.

`semaphore.c`, `queue.c` and `mbox.c` repeat the same steps of waiting and
waking on tables of their own. `BrtosEvent` has them once: `JoinWaiters`, the
three returns `ReturnPosted`, `ReturnTimeout` and `ReturnBoth`, and
`WakeWaiter`. Each kind of event adds what it holds, in the same action:
`OSQueuePost` is `Put` and `WakeWaiter`, the second half of `OSQueuePend` a
return and `Take`. Every step of `BrtosSem` and `BrtosMessages` is a step of
`BrtosEvent` (proved), so what is proved there holds of all of them.

A ring is its cells and two offsets that wrap lazily, as the pointers of the code do:
`Cell` is the wrap before an access. `OSQEntries` is 16 bits wide
(`EntriesModulus`), since one path decrements it unchecked. `uart_rx_overflow`
is what the receive interrupt does when `OSQueuePost` refuses its byte.
The size of a static queue is rounded up to whole words of the processor (`Rounded`,
`OS_CPU_BYTES`); sizes whose rounding wraps 16 bits are excluded by
`QueueAssumption`. `OSWQueue` wakes nobody and is used only on queues nobody waits on.

History variables (`remaining`, `granted`, `owed`, `held`) record what was asked
for and given; no guard of an operation depends on them, except the usage
switches below.

Usage switches say what the code needs of its callers:

* `DeleteInUse`: whether tasks delete events others wait on.
* `LifoRelease`: whether a task releases its mutexes in the reverse order.
* `ReaderKeepsUp`: whether a woken reader of a queue runs before the receive
  interrupt finds the queue full.
* `Reader`, `MboxReader`: each queue and mailbox is read by one task. It is so
  in the drivers; two readers of one queue could each be promised the same
  message, as the second half of the pend does not look at the count.

`OSMutexDelete` is modelled only for a mutex nobody holds or waits for; the code
clears the block unconditionally.

### `ModbusMaster`

The tasks interleave: each call of `Modbus_GetData` is the actions `MakeQuery`
(lock, open, build), `TxData`, then one action per received token; `QueryError` is the
way out of a query that cannot be built, which the terminal may ask for. An answer is
three tokens, address, function, and the rest with its CRC, each carrying the
query it answers; a token may be lost, or damaged into `noise`, and the CRC is
right when the tokens collected make up one undamaged answer. A meter may miss a
query, answer, answer with an exception, or be silent. `asked`, `retries` and
`err` are local variables of the calling task; `s_query`, `s_answ` and `IRList`
are static, as in the code. The way out of `Modbus_GetData` (`Exit`) closes the
query, flushes the receive queue and releases the line; it is one action with the
receipt that causes it, because in between the task holds the line's mutex and
reads nothing that others change.

`Quick` says that an answer is in the receive queue as a whole when the wait of
10 ms after the query is over, or never comes. At 19200 baud (`rs485.c:41`) an
answer of one register takes 4 ms, so a meter that starts within 6 ms meets it.

### `MonitorLog`

One task runs all writers and the reader in turn, so their steps never
interleave; every action is one operation on the card or the modem because power
may fail between any two. `pc` and `mon` are the place in the task. A file is a
record of its header fields and the times its entries were read at (`lines`,
which stands for the values). A file is named by an hour, `Hour(t)`, as
`strftime("%y%m%d%H.txt")` does; `99123123.txt` is `LOG_FILENAME_START`.
`metafile` is the name in `metafile.txt`; opening it for writing leaves
`NoName` until it is written. `Crash` keeps `fs`, `metafile` and the server's
entries, loses the rest, and may take no time or an hour.

A pass of the main loop serves the writers in order and then the reader: `mon` is,
between operations, the last writer this pass has served, and a writer that becomes
due when the pass is past it waits for the next one (`Turn`, `ReadersTurn`).

What can fail on the card is said by three constants. With `OpenFailures` a meter
gives no data or a file cannot be opened, and the entry is left out (`SampleLost`).
With `WriteFailures` a line is refused after the file was opened: the code throws
the result away and counts the entry (`LineRefused`, `monitor.c:460-467`), and a
reader that gets there reads no line (`NoEntry`) and sends what it has. With
`CardErrors` headers cannot be read or written: a writer makes its file anew
(`recreate`), a count or a date stays in memory (`StoreHeader`), a new file is left
without its date or header (`HeaderFails`), a file is not dated (`SyncUnread`), and
a date that was not taken is written again when the rename is retried (`DateAgain`).
A line or a header is written as a whole or not at all; files can be created,
opened for reading and renamed, and a start that finds no header writes one (in the
code a start that cannot write it ends with an error, `monitor.c:874-881`).

`write_timer` is the tick a writer's timer expires at; `Remaining` is what the
write thread sets it to: the interval less the lateness, which is known modulo
16 bits (`LateRange`), or a tenth of the interval. A request to the server, for
the time or to upload, answered or not, may keep the task busy for `MaxBusy` ticks
(`Busy`), and the writers are served late then.
`clock` is `simon_clock`: ticks since boot until the server was asked.
`Received` is what the server makes of a batch: the first entry's time and
16-bit offsets, `int16` being the conversion at width `2 * OffsetRange`.

## Runs

| Run | Configuration and bounds | Shows |
|---|---|---|
| `kernel` | 3 tasks at priorities 1, 2, 4 of 4; the counter wraps at 3, waits of 1 to 3 ticks, interrupts nested twice | types; the highest runnable task runs; delays are exact; the highest task comes back |
| `sem` | 3 tasks, 1 semaphore, at most 2 permits, wrap 3, waits 0 to 2, one interrupt level | the counters, the wait list, the permits and the results agree in every order of post and timeout |
| `mutex` | 3 tasks, 2 mutexes with ceilings between and above the tasks', released in reverse order | exclusion, handover, priorities, no task lost |
| `delay_list` | 4 tasks: every list of up to 4 nodes with every set of expiring ones | the linked list implements `DelaySet` |
| `messages` | 2 tasks, a queue of 2 cells in the static heap (asked for as 1, with words of 2) or of 1 in allocated memory, and a mailbox, 2 messages, waits 0 and 1, one interrupt level | rings stay intact; no message goes unnoticed; a woken reader finds one; `Mailslots` is implemented; a timed read ends |
| `modbus` | 2 tasks that read a PM210 and a T500 of 2 registers, an address above 247, `Quick` | a successful read is the register asked for; an entry is the meter's; a read ends |
| `monitor` | 2 monitors at intervals of 5 and 10 ticks, files of 3 entries, requests of up to 2 ticks that fail or not, dating included, no card faults | order; files read are read to the end; stamps lie at one end of the intervals but for the requests of a pass |
| `monitor_crash` | 1 monitor, files of 4 entries named by hours of 2 ticks so that names collide, requests of 1 tick, 2 power failures, entries left out | no entry confirmed that the server lacks, none erased; restarts find consistent files |
| `monitor_faults` | 2 power failures, lines refused, headers that cannot be read or written | names in memory and on the card stay those of existing files, although entries may be lost |
| `queue_overflow` | `messages` without `ReaderKeepsUp` | a counterexample, see below |
| `modbus_late` | `modbus` without `Quick` | a counterexample, see below |
| `monitor_stranded` | 1 monitor, files of 3 entries, no faults | a counterexample, see below |

Why the bounds are enough. The tick counter is compared only for equality and
reduced once, so a wrap a few ticks wide with waits from 1 up to the wrap itself
has all the cases of 64000; the theorems remove the bound. Three tasks give a
running task, one that is posted and one that times out; two mutexes give every
nesting. Priorities with a gap exercise empty slots of the vector. Two permits
reach the limit of the counter with one to spare. Four list nodes give a
head, a tail and two inner neighbours that expire together. A ring of two cells
is empty, partly full and full at every position of its pointers, and wraps in
between; with one reader per event, a reader and a task that preempts it or is
preempted are the two tasks there are. Two registers have a first and a last,
and four failures to give up after. Files of three entries reach the rollover
within the bound on time while the reader is still in the first file, and later the
reader leaves that one. Stamps need intervals longer than the requests of a pass, one
for each monitor: two requests of two ticks fit an interval of five. A writer is then
late by the failed and the answered request of the other one and by the reader's.

Sets of model values are not declared symmetric: tasks are ordered by priority,
and callers and meters are told apart by their kind.

Deadlock is checked in every run. The kernel runs stop nowhere because the tick is
always possible; the monitor runs end nowhere because the reader keeps polling.

### Fairness

* The tick comes again and again (`WF` on `TickTimer`): it is a hardware timer.
* Handlers end (`SF` on `IsrExit` at each depth): they are short and do not
  block. Strong, because ticks and nested handlers come and go around it.
* A task that is selected again and again executes (`SF` on the second half of
  its call): handlers do not take the whole processor. Nothing is assumed of
  tasks of lower priority beyond that, so the liveness properties speak of the
  highest-priority task only.
* `ModbusMaster`: each task goes on inside a call (`WF`), meters and the line
  take finite time (`WF`), and a task that wants the line gets it (`SF` on
  `MakeQuery`): a release hands the mutex to the task that waits for it. No
  fairness is assumed of whether an answer is right, or comes.
* `MonitorLog`: the main loop goes on (`WF`), enters the reader and the writers
  again and again, and the server answers again and again (`SF` on `SendOk`):
  without it nothing is ever confirmed.

### Abstract specifications

`DelaySet` says what a delay list is for: a set, to which waits are added, from
which a task woken early is removed, and from which a tick removes exactly the
tasks that expire, all of them eventually. `DelayList!ImplementsSet` is that
specification with the nodes reachable from `Head` as the set. `last`, the last
change asked for, is part of the abstract state so that a lost removal is not a
stutter.

`Mailslots` says what queues and mailboxes are for: messages in the order they
were sent, at most as many as the slot was opened for, each received once; a
mailbox keeps the latest. `BrtosMessages!ImplementsMailslots` maps a ring to the
sequence of the cells from `OSQOut` on, and a mailbox to the message in it, if
its state says there is one. What a reader got is part of the abstract state. The refinement is both model-checked and proved.

## Proofs

TLAPS checks them for every value of the constants that the assumptions in the
modules admit.

**`BrtosKernel_proofs`**, for every number of tasks, priorities, wrap of the counter
and nesting depth (distinct priorities above 0, the special values of `TimeToWait`
not below the wrap):

* `TypeCorrect`: `Spec => []TypeOK`. It contains that `OSSchedule` never selects
  a slot of the vector that holds no task.
* `HighestRuns`: `Spec => []RunsHighest`.
* `DelaysAreExact` and `DeadlinesAhead`: if `MaxWait <= TICK_COUNT_OVERFLOW`, then
  `Spec => []DelayExact` and `Spec => []DeadlineAhead`. The premise is needed, see
  `DelayTask` below.

`SAScheduler` is a `CHOOSE` of the greatest element; that it exists
is `Greatest`, by the well-foundedness of the numbers. `Selection` says what the
vector then returns, and `SchedulerSame` that removing other priorities does not
change it. The inductive invariant `SchedInv` is `TypeOK`, `Installed` (in the
kernel alone no priority changes, and only installed priorities are ever ready)
and `Scheduled` (outside interrupts the running task is what the scheduler would
select). `RunsHighest` is not inductive: it does not say that an empty list runs
the idle task, or that the vector agrees with the priorities. `DelayInv` adds
`DelayExact` and `DeadlineAhead`: equality of a deadline with the counter means
that one tick is left only because the deadline is the counter plus what is
left, with at most one wrap taken off. The return from `DelayTask` uses
`RunsHighest`: a task that executes is ready, hence not delayed. The steps of time
(`WaitStarts`, `TimePasses`) are stated without the calls that take them, and the
events use them again.

**`DelayList_proofs`**, for every number of tasks:

* `ListBothWays`: `Spec => []BothWays`.
* `ListIsSet`: `Spec => Set!Init /\ [][Set!Next]_(Set!dvars)`, that is
  `ImplementsSet` but for the fairness of `DelaySet`.

What a walk along a linked list meets is defined by recursion, and no induction
over it is available. The invariant avoids it by naming the list: there are a number
`n` and a sequence `s` of `n` distinct tasks such that `Next` leads from `Head`
through `s` upwards, and `Previous` from `Tail` through `s` downwards (`Linked`);
pointers of tasks outside `s` are stale and nothing is said of them. A walk is a
chain, and a chain is determined by where it begins and its link (`OneChain`, by
the least place at which two chains differ), so the walk that the module defines
is `s`, and its nodes are the elements of `s` (`Met`). Each macro then makes another
`s`: an include appends (`Appended`), a removal leaves one out (`Removed`), in
each of the four cases of head and tail. In the middle of a tick the tasks still to
be removed stand in the part of `s` the walk has not reached (`Ahead`), and the
removed node's own `Next` still leads there, which is what lets the code cut the
list under its walk.

**`BrtosEvent_proofs`**, of `EventSpec`, for every number of tasks and events, if no
wait is longer than the wrap of the counter:

* `WaitersCounted` (`[]WaitCountExact`), `DelayListExact` (`[]ListedWhileTimed`)
  and `EventHighestRuns` (`[]RunsHighest`);
* with `~DeleteInUse` also `WaitListsExact` (`[]WaitListExact`) and
  `TasksNotLost` (`[]NoTaskLost`).

The difficulty is the race of post and timeout: after both, the waiter is off
the wait list but its `TimeToWait` says it timed out. The invariant therefore
says, for a task inside a pend, which list it is on and why (`HowWoken`): a
waiter that is ready and still on the wait list was woken by the tick, so a
return by a post always finds its bit gone (`PostedUnlisted`) and the counter
decremented already. `ListedPending` (a bit in a wait list is the priority of a
task that pends there and has no post) makes the counters exact: every addition
is of a new bit, every removal of one that is there. It holds also when events
are deleted in use, because deleting only clears bits; its converse, in
`CarefulInv`, does not, and is what the last two theorems need. `TimeInv` adds
what the kernel's proof says of time, for tasks that pend with a timeout too.

**`BrtosSem_proofs`**: `SemImplementsEvents` (`SemSpec => EventSpec`), so the
theorems above hold of semaphores; `NoPermitMissed` (`[]NoWaitWithPermits`: a post
counts only when `OSEventWait` is 0, and that is exact), `PermitsKept`
(`[]PermitsConserved`, with the history variable `owed`), and with `~DeleteInUse`
`OkIsPost` (`SemSpec => OkMeansPost`). For waits not longer than the wrap also
`TimeoutIsLate` (`SemSpec => NoEarlyTimeout`: the result is a timeout only if the
tick found the deadline, and by `TimeInv` a deadline is found when all its ticks
have passed) and `SemTypeCorrect` (`[]SemTypeOK`: a wait counter is the size of a
set of tasks, and `owed` never goes below zero because who takes a permit is owed
one).

**`BrtosMessages_proofs`**, if no wait is longer than the wrap, `~DeleteInUse` and
`ReaderKeepsUp`:

* `MessagesImplementEvents` (`MessagesSpec => EventSpec`, without premises);
* `RingsExact` (`[]RingExact`), `MessagesReach` (`[]WokenFindsMessage`) and
  `NobodyWaitsForData` (`[]NoWaitWithData`);
* `MessagesTypeCorrect` (`[]MessagesTypeOK`);
* `MessagesImplementMailslots` (`MessagesSpec => ImplementsMailslots`).

The rings (`RingInv`) and the waiters (`DataInv`) need each other: a ring stays
intact because the unchecked decrement of a woken reader finds a message, and
it finds one because between the post and its read nobody else took it: the
only reader is asleep or woken (`Callers`), and the interrupt cleans a full queue
only when nobody is woken. `PutRing`, `TakeRing`, `EmptyRing` and `NewRingRing`
say what each operation does to the cells across the lazy wrap; `PutSends`,
`TakeReceives`, `EmptyDiscards` and `NewRingOpens` turn that into steps of
`Mailslots`. Each action of the queue or the mailbox is one abstract step or a
stutter, and the kernel's steps are stutters.

**`BrtosMutex_proofs`**, for every number of tasks and mutexes, any priorities,
ceilings and nesting of interrupts, and any depth of mutexes held, if every task
releases the last mutex it acquired first (`LifoRelease`; without it
`SchedulesATask` fails, see the divergences below):

* `MutexExcludes` (`[]MutualExclusion`) and `BusyIsUsed` (`[]BusyHasOneUser`);
* `CeilingIsPriority` (`[]PriorityIsCeiling`) and `ATaskIsScheduled`
  (`[]SchedulesATask`);
* `TasksAreKept` (`[]NoTaskLost`) and `MutexTypeCorrect` (`[]MutexTypeOK`, with
  the bound on the number of waiters).

`PriorityIsCeiling` is not inductive: it does not say what a release restores.
`Stacked` does. It sees the mutexes of a task as a stack: the priority saved with each
mutex is the highest of the task's own and the ceilings below it (`Top`), and
the vector names the task at every one of these levels. `StackPush` and
`StackPop` show that acquiring and releasing keep that, and `TopApart` that no
other task stands at the ceiling a release gives back to the vector, because
ceilings in use differ from each other and from the installed priorities
(`CeilingsApart`). Distinct priorities follow (`Distinct`), and with them the
rest: a bit in a wait list is the bit of one waiter only (`Waiters`), so the
waiter a release wakes is the one that becomes the user (`Users`), and
changing the running task's priority wakes or loses nobody (`Repriced`).

**`ModbusMaster_proofs`**, for every number of tasks, meters and registers:

* `ReadsAreTrue`: if `Quick`, `Spec => []AnswersTheQuestion`.
* `EntriesAreTrue`: if also no two tasks read the same kind of meter
  (`OwnKinds`), `Spec => []EntryIsTheMeters`.
* `ModbusTypeCorrect`: `Spec => []ModbusTypeOK`, without a premise on the meters'
  speed. An answer is one to a query that was made (`TypedInv`: inside
  `Modbus_GetData` the query has been made).

The invariant is that whatever is under way belongs to the query in course
(`OnlyThisQuery`): what was collected, the receive queue, the line, and what the
meters have still to answer; and that nothing is left when no task receives
(`Quiet`). `Quick` is what makes `Quiet` inductive: an exchange ends only when the line is
silent. For the entries, `ListSoFar` says that the registers below the one being
asked are the meter's and the others zero; `Untouched` that other callers do not
write this caller's list.

**`MonitorLog_proofs`**, for every number of monitors, intervals, file sizes, lengths
of hours and of requests:

* `NamesAreFiles`: `Spec => []NamesOnDisk`, without a premise: headers may be
  unreadable, lines refused and power may fail anywhere.
* `LogIndexes`: if the card takes lines and headers (`~CardErrors`, `~WriteFailures`),
  `Spec /\ [](Spacious \/ RollsAway) => []IndexesInFile`.
* `LogConfirmed`: likewise
  `Spec /\ [](Spacious \/ RollsAway) => []ConfirmedWasReceived`.
* `LogKeepsEntries`: if also `Spacious`, `Spec => NothingErased`.

That the card takes what it is given is needed: with `WriteFailures` the first two are
false (see the divergences below), and with `CardErrors` a file is made anew with the
entries in it. So is a condition on rollovers, which truncate a file that has their
name (`monitor.c:482-486`); no guard in the code prevents it. `Spacious` is one on the
configuration: the power does not fail, and the entries of a file, but for the last
interval, take longer than an hour and a request. In the code a file takes 2879 entries
(`MAX_NUM_OF_ENTRIES`, `monitor.h:222`), so intervals of two seconds do. Without it,
when power failures are allowed, `RollsAway` is a premise on the behaviour: a rollover
does not take the name of the file an entry of which is being uploaded.

Under `Spacious` a rollover or a rename takes a free name, which is proved, not
assumed. `FreeInv` counts for every file how much time has passed since the hour it is
named by began: hour `n` had begun when the first entry of the file written now was
taken, but for a request, and its entries so far have had their intervals (`Room`). When
the file is full, more than an hour has passed by the clock, and the new name is later
than all of them (`FreshHour`). The clock that names files may be the ticks since boot
or the true time; it only ever jumps ahead, and `Shown` is the next due time as it
shows it. A rename meets only the file that is renamed, since the first file is dated
before there is another (`RenameFree`), or never.

The invariant `LogInv` relates the batch to the files at every `pc`:
the entry of each monitor in `sending` is the next one of the file its reader is
in, and is in the batch or, between the confirmation and the update of the header,
at the server (`NextToSend`). What keeps it true is that a reader changes its file
only while its monitor has no entry in the batch (`Uploading`), that the file
being written only grows (`Grown`), and that a rename moves the file and the name
of the reader together. `NothingErased` follows step by step: each step keeps the
lines of every file as the beginning of a file of the next state (`Survives`),
except the rollover, which by `FreeInv` finds no file of its name (`RollsFree`).

`NamesInv`, for the names, says at which `pc` a monitor has a file to write, one to
read and a `metafile.txt` that names it (`HasLog`, `HasReader`, `Recorded`):
during a start, those the start has passed; later, all, but for the monitor in
the middle of a rollover, a rename or a change of file.

* `MonitorTypeCorrect`: `Spec /\ []OffsetsFit => []MonitorTypeOK`, whatever fails.
  The premise says that the times of the entries of a batch are within 16 bits of
  each other; it is needed, since a time that is further off reaches the server
  wrapped around, and can then be negative.

That a file is never dated before the system was first switched on is the part of
the types that is not obvious: `monitor_settimestamp` goes back by one interval for
every entry counted. `TimesInv` says why there is always that much time to go
back: with `k` entries in the file being written, the next one is due no earlier
than `StartTime + (k + 1) * interval` (`Timely`), and the lines of every file have
had their intervals by now (`FitsIn`). However late a writer is, `Remaining` puts its
next due time at least an interval after the last one; a power failure or an
entry left out only leaves more time, and a refused line, which is counted, had its
interval too (`Counted`).

* `StampsAreExact`: if the card takes what it is given, the power holds, and the
  requests of one pass together, one of each monitor (`Late`), take less than an
  interval and less than the 16 bits of a timer (`Punctual`),
  `Spec /\ []OffsetsFit => []StampsExact`.

`StampsExact` says that all stamps of a monitor lie at the same end of the intervals its
entries close, the beginning or the end, give or take `Late`; which end is not said,
because the code and the example of `monitor.h` differ on it (see below). It is the
beginning that is proved. Each part of `Punctual` is needed: power failures, entries
left out and long requests violate `StampsExact`, see the divergences below. The
invariant `DatesInv` follows each monitor's entries from the timer to the server. With
`d` the time its next entry is due and `k` entries in the file being written, the file
began at `d - (k + 1) * interval`, and each of its entries, and its date if it has one,
is late by at most `Late` counting from there (`OnPace`): `Remaining` takes a writer's
lateness off its next interval (`TimerKeepsPace`), so it never adds up. How late a
writer can be is counted in requests (`Requests`, `OnTime`): those of the writers served
since it was, each to date its file while the clock is not set, failed or not, and the
reader's once it is; the writer that dates its file adds its own, and nothing is asked
after that (`JustTaken`). The case without a date is the first file when it
fills up before the clock is set: the new file is dated by a clock that counts from
the start, and its entries could be wrong by years; they are never sent, since the
reader stays for good in the first file, which nothing dates any more
(`LeftBehind`, see the divergences below): the times at the server are right then only
because there are none.

* `EntriesInOrder`: if the card takes lines and headers, `Spacious`, and intervals are of
  ten ticks or more, `Spec => InOrder`, with entries left out, lost answers and requests
  of any length.

With ten ticks or more a writer that is due is never due again at once
(`TenthAdvances`, `Advancing`); in the code an interval is whole seconds in a timer of
milliseconds (`monitor_main.c:226`), so a tenth of it is never 0. Without it one monitor
could have two entries of the same time. `Monitor.cfg`, where no writer is late by a
whole interval, has one of five ticks. After power failures the order can be lost (see the
divergences below), and what `FreeInv` says of rollovers is what keeps the entry being
uploaded the next one of its file. The invariant
`OrderInv` orders, for each monitor, all that exists of its entries (`Ordered`): the
lines of a file rise; what the server has is before what the reader's file has still
to send (`Unsent`), and both are before the file being written if that is another
one; and all of it is before the next entry's time (`NextTime`). The one exception is
the entry being uploaded: once a request has arrived whose answer was lost
(`Delivered`), the server has it and the reader's index does not say so. A retry then
sends what the server has already, so the step adds nothing to it; otherwise
everything in the batch is new, and later (`ReceivedLater`).

Only model-checked: liveness (`DelayEnds`, `TimedReceiveEnds`, `ReadEnds`,
`EntriesReachServer`, and the fairness in `ImplementsSet`), since fairness and `ENABLED`
are outside the prover.

## Divergences found

Shown by a run that ends in a counterexample:

* `queue_overflow`: a reader woken by a post reads and decrements `OSQEntries`
  unchecked (`queue.c:477-488`). If before it runs the receive interrupt finds the
  queue full, it empties it (`UART.c:498-501`), and the count goes from 0 to
  65535: more than the queue holds, where `BRTOS.h:378` calls it the "size of data
  inside the queue". The queue then refuses every post, the interrupt empties it
  at the next byte, and what is read in between was never posted.
* `modbus_late`: a damaged first byte ends an exchange, which flushes only what
  has arrived (`MBMaster.c:260`). The rest of the answer comes during the wait
  before the next send (`MBMaster.c:69-80`), makes that exchange fail on its first
  byte, and leaves its answer pending, which the query after it takes as its own:
  CRC, address and function are right, the register is another.
* `monitor_stranded`: when its file is finished the reader goes to the file being
  written; a file filled in between is never uploaded (`monitor.c:771-790`).

Seen while modelling, and reproduced by changing a constant or a property of a listed run:

* When the card refuses a line, `monitor_writeentry` throws the result away and counts
  the entry (`monitor.c:460-467`). The header then says one line more than there are
  (`monitor.h:59`: "contador de entradas (linhas)"). The reader goes to the count, sends
  what it reads past the last line, and `last_idx`, the "indice da última linha enviada"
  of `monitor.h:58`, passes a line that does not exist; lines added later are each taken
  for the one before it. `MonitorCrash.cfg` with `WriteFailures = TRUE` violates
  `IndexesInFile` and `ConfirmedWasReceived`.
* A file is dated back by one interval for every entry in it (`monitor.c:357`), so its
  last entry is stamped one interval before the synchronisation. In the example of
  `monitor.h:100-110` the last entry, `02`, has the time of the synchronisation.
  `StampsExact` accepts either reading; with `d = 0` only, the one of the example,
  `Monitor.cfg` violates it.
* Deleting a semaphore with waiters clears its wait list (`semaphore.c:234-259`);
  one with a timeout then returns `OK` without a post, where `BRTOS.h:780`
  promises `TIMEOUT`: `Sem.cfg` with `DeleteInUse = TRUE` violates `OkMeansPost`.
* A task that releases two mutexes in the order it acquired them ends at the first
  one's ceiling, whose vector entry is already `MUTEX_PRIO`, and the scheduler
  selects context 254 (`mutex.c:412-425`, `462`; `brtos/README.txt:37` says
  several mutexes may be held): `Mutex.cfg` with `LifoRelease = FALSE` violates
  `SchedulesATask`.
* `DelayTask` with a wait above `TICK_COUNT_OVERFLOW` ends early or never
  (`BRTOS.c:391-400`): `Kernel.cfg` with `MaxWait` above the wrap violates
  `DelayExact`.
* A release without waiters lowers the caller's priority and does not reschedule
  (`mutex.c:460-467`): `Mutex.cfg` with the invariant `RunsHighest`. For that
  reason the mutex run does not claim it.
* Two tasks that read the same kind of meter share its static register list, which
  no mutex protects (`modbus_pm210.c:207`, `247`; the terminal's command is
  `terminal_commands.c:1073-1085`): `Modbus.cfg` with one kind in `const_DeviceOf`
  violates `EntryIsTheMeters`.
* An address above 247 makes `ModbusMaster_open` return `MODBUS_OK` without
  opening the query (`modbus.c:463-466`), so the previous meter is asked and its
  value returned for the address that is none: `AnswersTheQuestion` without its
  condition on the address is violated. Before the first query the pointer to it
  is null; the model leaves that case out.
* A request to the server that takes longer than an interval makes the writer miss
  intervals. It then takes one entry after a tenth of the interval
  (`monitor_main.c:242-248`), the missed ones are never made up for, and all later
  entries of the file are dated too early, where `monitor.h:50-52` has stamps
  follow from a constant interval: `Monitor.cfg` with one monitor of interval 3 and
  `MaxBusy = 7` violates `StampsExact`. As the
  lateness is cut to 16 bits (`monitor_main.c:147`, `239`), one of more than 65.5
  s counts as 65.5 s less even if the interval is longer.
* An entry that is left out because the meter gave no data or its file could not be
  opened is never made up for, with the same effect (`monitor.c:520-523`, `970-975`,
  `663-668`): `Monitor.cfg` with `OpenFailures = TRUE` violates `StampsExact`.
* A header that cannot be read once makes the writer create the file anew
  (`monitor.c:533`): `MonitorFaults.cfg` violates `ConfirmedWasReceived` and
  `IndexesInFile`, with `WriteFailures = FALSE` as well. For that reason the run claims
  `NamesOnDisk` only.
* A file that fills up within the hour it is named by is truncated by its own
  rollover, which opens the new name with `CREATE_ALWAYS` (`monitor.c:482-486`).
  The passing runs therefore keep a file longer than an hour, and the theorems assume
  it (`Spacious`), as 2879 entries are at intervals of two seconds or more.
* A file whose name was taken is named an hour or more ahead (`monitor.c:407-425`).
  If it fills up before that hour is over, its rollover truncates it:
  `MonitorCrash.cfg` with `MAX_NUM_OF_ENTRIES = 4` violates `NothingErased`.
* A file that fills up before the clock was ever set is left undated, as only the
  file being written is dated, and the reader waits for a date in it
  (`monitor.c:646`): nothing is uploaded until a restart. The new file is named
  and dated by the time since boot, and marked as synchronised
  (`monitor.c:479-504`).
* Entries an undated `99123123.txt` holds from before a power failure are dated as
  if no time had passed in between: `MonitorCrash.cfg` violates `StampsExact`,
  which is therefore claimed only without power failures.
* The offset between two monitors' entries is cut to 16 bits (`monitor.c:1119`):
  a small `OffsetRange` with the two rates violates `StampsExact`.
* `OSSemBinaryCreate` with bit 1 makes a semaphore at 0 (`semaphore.c:198-204`,
  `InitialBit`).
* Power failing between the dated header and the rename (`monitor.c:392-404`)
  leaves a synchronised `99123123.txt` that no restart renames; later entries
  are added to it with the old start. Entries may then reach the server out of
  order after three power failures, so `InOrder` is claimed only without any.
* A failed `OSMutexCreate` keeps its ceiling (`mutex.c:97`).

## Not modelled

* Bodies of services the kernel runs around: stacks, context frames, tracing,
  system load, `VERBOSE` fields; `InstallTask` at run time; the search by halves
  in `SAScheduler`.
* Calls with invalid arguments, of unallocated blocks, or from interrupts where
  the code returns an error without a change.
* Software timers (`brtos/timers.c`): compiled only with `BRTOS_TMR_EN`, which no
  configuration of the repository defines.
* In MODBUS: writing registers, which nothing calls, the test task that is
  compiled out, the bits of the CRC (it is taken to detect every damage), the
  null slave, which invents its values.
* In the monitor: the configuration file, the text of headers and entries
  (`build_entry_to_send` can refuse an entry whose values are large, and that
  monitor then sends nothing), failures to create a file, the single-monitor
  reader that is compiled out, stopping and starting by the terminal.
* OS_RTC and OSInfo, which only read the kernel; modem, display, EEPROM and bus
  drivers, which are text dialogues or register accesses (a slow, failed or
  unconfirmed request is what `MonitorLog` keeps of the modem's); the terminal but
  for its MODBUS command; the libraries of formatting and calendar; USB, FatFS
  and minINI, which are third-party.

Most lines of the repository are of that last kind: processor headers, code
pages and the file system, and the USB stack. The modules cover the logic of the program
itself.

## Possible extensions

1. `MonitorLog`: an abstract log that it implements, with power failures.
2. The encoding of entries, to say when an entry fits a batch.
3. `InstallTask` and the binary search of `SAScheduler` as functions checked
   against the greatest element; the calendar of `time_lib.c`.
