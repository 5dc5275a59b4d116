----------------------------- MODULE BrtosQueue -----------------------------
(***************************************************************************)
(* BRTOS queues (brtos/queue.c) on the events of BrtosEvent: ring buffers  *)
(* of bytes (OSQueue...) in the static queue heap, and of items of any     *)
(* size (OSDQueue...) in allocated memory.  Tasks and interrupt handlers   *)
(* post; a task that pends on an empty queue waits.                        *)
(*                                                                         *)
(* The pointers OSQIn and OSQOut are offsets from OSQStart; OSQEnd is the  *)
(* offset OSQSize.  As in the code they stay there when an item fills or   *)
(* leaves the last cell, and wrap before the next one.  The 16- and 32-bit *)
(* queues are OSWQueue, OSRQueue and OSCleanQueue on wider cells.          *)
(*                                                                         *)
(* Usage, as in the drivers: each queue is read by one task.               *)
(***************************************************************************)
EXTENDS BrtosEvent, Sequences

CONSTANTS
    BRTOS_MAX_QUEUE,   \* control blocks of queues; they are the first events
    QUEUE_HEAP_SIZE,   \* cells of the static queue heap
    QueueSizes,        \* sizes the application asks for
    OS_CPU_BYTES,      \* sizeof(OS_CPU_TYPE): static queues are whole words
    Message,           \* what is posted
    Blank,             \* a cell, or mail, that holds no message
    EntriesModulus,    \* OSQEntries is an INT16U (65536)
    Reader,            \* the task that reads each queue
    ReaderKeepsUp      \* a woken reader runs before its queue overflows

Queue == 1 .. BRTOS_MAX_QUEUE

\* The size of a static queue: the size asked for, in whole words.
Rounded(n) ==
    LET over == n % OS_CPU_BYTES IN
    IF over = 0 THEN n ELSE n + (OS_CPU_BYTES - over)

\* The sizes that queues can have.
RingSizes == QueueSizes \cup {Rounded(n) : n \in QueueSizes} \cup {1}

\* No size wraps the INT16U, not even when it is rounded.
ASSUME QueueAssumption ==
    /\ BRTOS_MAX_QUEUE \in 0 .. MaxEvents /\ QUEUE_HEAP_SIZE \in Nat
    /\ EntriesModulus \in Nat \ {0, 1} /\ OS_CPU_BYTES \in Nat \ {0}
    /\ \A n \in QueueSizes : n \in Nat \ {0} /\ Rounded(n) < EntriesModulus
    /\ Blank \notin Message /\ ReaderKeepsUp \in BOOLEAN
    /\ Reader \in [Queue -> Task]

VARIABLES
    OSQSize,        \* cells of each queue
    OSQEntries,     \* messages in the queue
    OSQIn,          \* where the next message is put
    OSQOut,         \* where the next message is read
    OSQCells,       \* the cells between OSQStart and OSQEnd
    Dynamic,        \* queues created by OSDQueueCreate
    iQueueAddress   \* cells of the static heap in use

ring  == <<OSQEntries, OSQIn, OSQOut, OSQCells>>
qvars == <<ring, OSQSize, Dynamic, iQueueAddress>>

QueueInit ==
    /\ OSQSize = [q \in Queue |-> 1]
    /\ OSQEntries = [q \in Queue |-> 0]
    /\ OSQIn = [q \in Queue |-> 0]
    /\ OSQOut = [q \in Queue |-> 0]
    /\ OSQCells = [q \in Queue |-> <<Blank>>]
    /\ Dynamic = {}
    /\ iQueueAddress = 0

-----------------------------------------------------------------------------
\* The ring.

\* Mutant: a pointer is not taken back.
CellUnwrapped(q, pointer) == pointer

\* The cell a pointer means: at OSQEnd it goes back to OSQStart.
Cell(q, pointer) == IF pointer = OSQSize[q] THEN 0 ELSE pointer

NotFull(q) == OSQEntries[q] < OSQSize[q]

Put(q, m) ==
    LET c == Cell(q, OSQIn[q]) IN
    /\ OSQEntries' = [OSQEntries EXCEPT ![q] = @ + 1]
    /\ OSQCells' = [OSQCells EXCEPT ![q][c + 1] = m]
    /\ OSQIn' = [OSQIn EXCEPT ![q] = c + 1]
    /\ UNCHANGED <<OSQOut, OSQSize, Dynamic, iQueueAddress>>

\* The next message of q, for task t: OSQEntries is decremented unchecked.
Take(q, t) ==
    LET c == Cell(q, OSQOut[q]) IN
    /\ result' = [result EXCEPT ![t] = OSQCells[q][c + 1]]
    /\ OSQOut' = [OSQOut EXCEPT ![q] = c + 1]
    /\ OSQEntries' = [OSQEntries EXCEPT ![q] = (@ + EntriesModulus - 1) % EntriesModulus]
    /\ UNCHANGED <<OSQIn, OSQCells, OSQSize, Dynamic, iQueueAddress>>

\* Mutant: the queue is emptied, its output pointer left where it was.
EmptyKeepsOut(q) ==
    /\ OSQEntries' = [OSQEntries EXCEPT ![q] = 0]
    /\ OSQIn' = [OSQIn EXCEPT ![q] = 0]
    /\ UNCHANGED <<OSQOut, OSQCells, OSQSize, Dynamic, iQueueAddress>>

Empty(q) ==
    /\ OSQEntries' = [OSQEntries EXCEPT ![q] = 0]
    /\ OSQIn' = [OSQIn EXCEPT ![q] = 0]
    /\ OSQOut' = [OSQOut EXCEPT ![q] = 0]
    /\ UNCHANGED <<OSQCells, OSQSize, Dynamic, iQueueAddress>>

-----------------------------------------------------------------------------
\* Creating and deleting.

\* A new queue of n cells, empty.
NewRing(q, n) ==
    /\ OSQSize' = [OSQSize EXCEPT ![q] = n]
    /\ OSQEntries' = [OSQEntries EXCEPT ![q] = 0]
    /\ OSQIn' = [OSQIn EXCEPT ![q] = 0]
    /\ OSQOut' = [OSQOut EXCEPT ![q] = 0]
    /\ OSQCells' = [OSQCells EXCEPT ![q] = [c \in 1 .. n |-> Blank]]
    /\ UNCHANGED result

\* The static heap only grows: the queue is refused when it does not fit.
OSQueueCreate(q, n) ==
    /\ iQueueAddress + Rounded(n) <= QUEUE_HEAP_SIZE
    /\ CreateEvent(q, Queue)
    /\ NewRing(q, Rounded(n))
    /\ iQueueAddress' = iQueueAddress + Rounded(n)
    /\ Dynamic' = Dynamic \ {q}

\* BRTOS_ALLOC found the memory; when it does not, nothing changes.
OSDQueueCreate(q, n) ==
    /\ CreateEvent(q, Queue)
    /\ NewRing(q, n)
    /\ Dynamic' = Dynamic \cup {q}
    /\ UNCHANGED iQueueAddress

\* The ring is freed with the control block.
OSDQueueDelete(q) ==
    /\ q \in Dynamic
    /\ DeleteEvent(q)
    /\ NewRing(q, 1)
    /\ Dynamic' = Dynamic \ {q}
    /\ UNCHANGED iQueueAddress

-----------------------------------------------------------------------------
\* Reading.

Reading(q) == InTask /\ q \in OSEventAllocated /\ currentTask = Reader[q]

\* Tasks a post has woken that have not read yet.
WokenReaders(q) == Inside(q) \cap granted

\* A message is there: the caller reads it and goes on.
PendTake(q) ==
    /\ Reading(q)
    /\ OSQEntries[q] > 0
    /\ Take(q, currentTask)
    /\ UNCHANGED evars

\* There is none: the caller waits.
PendWait(q, w) ==
    /\ Reading(q)
    /\ OSQEntries[q] = 0
    /\ JoinWaiters(q, w, "queue")
    /\ UNCHANGED <<qvars, result>>

\* A waiter resumes: posted, it reads without looking at OSQEntries again.
PendPosted(t)  == ReturnPosted(t, "queue") /\ Take(event[t], t)
PendBoth(t)    == ReturnBoth(t, "queue") /\ Take(event[t], t)
PendTimeout(t) ==
    /\ ReturnTimeout(t, "queue")
    /\ result' = [result EXCEPT ![t] = "none"]
    /\ UNCHANGED qvars

PendReturn(t) == PendPosted(t) \/ PendBoth(t) \/ PendTimeout(t)

\* The pend of a byte queue, and of a queue of items.
OSQueuePend(q, w)  == q \notin Dynamic /\ (PendTake(q) \/ PendWait(q, w))
OSDQueuePend(q, w) == q \in Dynamic /\ (PendTake(q) \/ PendWait(q, w))
OSQueuePendReturn(t)  == event[t] \in Queue \ Dynamic /\ PendReturn(t)
OSDQueuePendReturn(t) == event[t] \in Dynamic /\ PendReturn(t)

\* A read that does not wait; from an empty queue it reads nothing.
OSRQueue(q) == q \notin Dynamic /\ PendTake(q)

\* Emptied by its reader (rs485_flush, the modem drivers).
OSCleanQueue(q) ==
    /\ Reading(q) /\ q \notin Dynamic
    /\ Empty(q)
    /\ UNCHANGED <<evars, result>>

OSDQueueClean(q) ==
    /\ Reading(q) /\ q \in Dynamic
    /\ Empty(q)
    /\ UNCHANGED <<evars, result>>

-----------------------------------------------------------------------------
\* Posting, from a task or from an interrupt handler.  A full queue refuses.

\* Mutant: a waiter is not looked for.
PostKeepUnchecked(q, m) ==
    /\ Posting(q)
    /\ NotFull(q)
    /\ Put(q, m)
    /\ UNCHANGED <<evars, result>>

\* Nobody waits.
PostKeep(q, m) ==
    /\ Posting(q)
    /\ NotFull(q)
    /\ OSEventWait[q] = 0
    /\ Put(q, m)
    /\ UNCHANGED <<evars, result>>

\* The waiter is woken; it will read when it runs.
PostWake(q, m) ==
    /\ NotFull(q)
    /\ Put(q, m)
    /\ WakeWaiter(q)
    /\ UNCHANGED result

OSQueuePost(q, m)  == q \notin Dynamic /\ (PostKeep(q, m) \/ PostWake(q, m))
OSDQueuePost(q, m) == q \in Dynamic /\ (PostKeep(q, m) \/ PostWake(q, m))

\* A write that wakes nobody.  Usage: only while nobody waits.
OSWQueue(q, m) ==
    /\ Posting(q) /\ q \notin Dynamic /\ Inside(q) = {}
    /\ NotFull(q)
    /\ Put(q, m)
    /\ UNCHANGED <<evars, result>>

\* The serial receive interrupt: a byte the queue refuses empties it, whether or
\* not a woken reader has still to read.
uart_rx_overflow(q) ==
    /\ iNesting > 0
    /\ q \in OSEventAllocated \ Dynamic
    /\ ~ NotFull(q)
    /\ ReaderKeepsUp => WokenReaders(q) = {}
    /\ Empty(q)
    /\ UNCHANGED <<evars, result>>

-----------------------------------------------------------------------------
QueueStep ==
    \/ \E q \in Queue :
         \/ \E n \in QueueSizes : OSQueueCreate(q, n) \/ OSDQueueCreate(q, n)
         \/ \E w \in 0 .. MaxWait : OSQueuePend(q, w) \/ OSDQueuePend(q, w)
         \/ \E m \in Message :
              OSQueuePost(q, m) \/ OSDQueuePost(q, m) \/ OSWQueue(q, m)
         \/ OSDQueueDelete(q) \/ OSRQueue(q)
         \/ OSCleanQueue(q) \/ OSDQueueClean(q) \/ uart_rx_overflow(q)
    \/ \E t \in Task : OSQueuePendReturn(t) \/ OSDQueuePendReturn(t)

\* The messages in q, the oldest first.
Wrap(n, size) == IF n < size THEN n ELSE n - size
Contents(q) ==
    [i \in 1 .. OSQEntries[q] |-> OSQCells[q][Wrap(OSQOut[q] + i - 1, OSQSize[q]) + 1]]

-----------------------------------------------------------------------------
\* Properties.

\* "Size of data inside the queue" (BRTOS.h): never more than the queue holds.
EntriesFit == \A q \in Queue : OSQEntries[q] <= OSQSize[q]

\* OSQEntries counts the cells between OSQOut and OSQIn, across the lazy wrap of
\* the two pointers, and none of them is blank: a reader never gets a cell that
\* was not written, and a post never writes over a message.
RingExact ==
    \A q \in Queue :
      /\ OSQEntries[q] <= OSQSize[q]
      /\ OSQOut[q] + OSQEntries[q] \in {OSQIn[q], OSQIn[q] + OSQSize[q]}
      /\ \A i \in 1 .. OSQEntries[q] : Contents(q)[i] # Blank
=============================================================================
