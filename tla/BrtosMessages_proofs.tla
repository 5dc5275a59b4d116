------------------------ MODULE BrtosMessages_proofs ------------------------
(***************************************************************************)
(* Proofs about BrtosMessages, for any number of tasks, queues, mailboxes  *)
(* and messages, any sizes, and any order of posts, timeouts, interrupts   *)
(* and deletions.  Queues and mailboxes implement BrtosEvent, so what is   *)
(* proved of EventSpec holds; the proofs here are about messages.          *)
(***************************************************************************)
EXTENDS BrtosMessages, BrtosEvent_proofs, SequenceTheorems

Slot == Queue \cup Mbox

LEMMA SlotsAreEvents == Queue \subseteq Event /\ Mbox \subseteq Event /\ Slot \subseteq Event
BY QueueAssumption, MboxAssumption, EventAssumption DEF Queue, Event, Slot

LEMMA RingSizesFit ==
    /\ RingSizes \subseteq 1 .. EntriesModulus - 1
    /\ 1 \in RingSizes
    /\ \A n \in QueueSizes : n \in RingSizes /\ Rounded(n) \in RingSizes
<1>1. ASSUME NEW n \in QueueSizes PROVE {n, Rounded(n)} \subseteq 1 .. EntriesModulus - 1
  <2>1. /\ n \in Nat \ {0} /\ OS_CPU_BYTES \in Nat \ {0} /\ EntriesModulus \in Nat
        /\ Rounded(n) < EntriesModulus
    BY QueueAssumption
  <2>2. n % OS_CPU_BYTES \in 0 .. OS_CPU_BYTES - 1
    BY <2>1
  <2>3. Rounded(n) \in Nat /\ n <= Rounded(n)
    BY <2>1, <2>2 DEF Rounded
  <2> QED  BY <2>1, <2>3
<1> QED  BY <1>1, QueueAssumption DEF RingSizes

-----------------------------------------------------------------------------
\* Queues and mailboxes are events.

LEMMA QueueStepIsEventStep == QueueStep => [EventNext]_evars
<1> SUFFICES ASSUME QueueStep PROVE [EventNext]_evars
  OBVIOUS
<1> USE SlotsAreEvents
<1>1. ASSUME NEW q \in Queue, NEW n \in QueueSizes,
             OSQueueCreate(q, n) \/ OSDQueueCreate(q, n)
      PROVE  EventNext
  <2>1. CreateEvent(q, Queue) /\ q \in Event /\ Queue \in SUBSET Event
    BY <1>1 DEF OSQueueCreate, OSDQueueCreate
  <2> QED  BY <2>1 DEF EventNext
<1>2. ASSUME NEW q \in Queue, OSDQueueDelete(q) PROVE EventNext
  BY <1>2 DEF OSDQueueDelete, EventNext
<1>3. ASSUME NEW q \in Queue,
             \/ PendTake(q) \/ OSRQueue(q)
             \/ OSCleanQueue(q) \/ OSDQueueClean(q) \/ uart_rx_overflow(q)
      PROVE  UNCHANGED evars
  BY <1>3 DEF PendTake, OSRQueue, OSCleanQueue, OSDQueueClean, uart_rx_overflow
<1>4. ASSUME NEW q \in Queue, NEW w \in 0 .. MaxWait,
             OSQueuePend(q, w) \/ OSDQueuePend(q, w)
      PROVE  [EventNext]_evars
  <2>1. PendTake(q) \/ PendWait(q, w)
    BY <1>4 DEF OSQueuePend, OSDQueuePend
  <2>2. CASE PendWait(q, w)
    BY <2>2 DEF PendWait, EventNext, Call
  <2> QED  BY <1>3, <2>1, <2>2
<1>5. ASSUME NEW q \in Queue, NEW m \in Message,
             OSQueuePost(q, m) \/ OSDQueuePost(q, m) \/ OSWQueue(q, m)
      PROVE  [EventNext]_evars
  <2>1. PostKeep(q, m) \/ PostWake(q, m) \/ OSWQueue(q, m)
    BY <1>5 DEF OSQueuePost, OSDQueuePost
  <2>2. CASE PostWake(q, m)
    BY <2>2 DEF PostWake, EventNext
  <2> QED  BY <2>1, <2>2 DEF PostKeep, OSWQueue
<1>6. ASSUME NEW t \in Task, OSQueuePendReturn(t) \/ OSDQueuePendReturn(t)
      PROVE  EventNext
  BY <1>6 DEF OSQueuePendReturn, OSDQueuePendReturn, PendReturn, PendPosted, PendBoth,
     PendTimeout, EventNext, EventReturn, Call
<1> QED  BY <1>1, <1>2, <1>3, <1>4, <1>5, <1>6 DEF QueueStep

LEMMA MboxStepIsEventStep == MboxStep => [EventNext]_evars
<1> SUFFICES ASSUME MboxStep PROVE [EventNext]_evars
  OBVIOUS
<1> USE SlotsAreEvents
<1>1. ASSUME NEW b \in Mbox, NEW m, OSMboxCreate(b, m) PROVE EventNext
  <2>1. CreateEvent(b, Mbox) /\ b \in Event /\ Mbox \in SUBSET Event
    BY <1>1 DEF OSMboxCreate
  <2> QED  BY <2>1 DEF EventNext
<1>2. ASSUME NEW b \in Mbox, OSMboxDelete(b) PROVE EventNext
  BY <1>2 DEF OSMboxDelete, EventNext
<1>3. ASSUME NEW b \in Mbox, NEW m, OSMboxPendTake(b) \/ OSMboxPostKeep(b, m)
      PROVE  UNCHANGED evars
  BY <1>3 DEF OSMboxPendTake, OSMboxPostKeep
<1>4. ASSUME NEW b \in Mbox, NEW w \in 0 .. MaxWait, OSMboxPendWait(b, w)
      PROVE  EventNext
  BY <1>4 DEF OSMboxPendWait, EventNext, Call
<1>5. ASSUME NEW b \in Mbox, NEW m, OSMboxPostWake(b, m) PROVE EventNext
  BY <1>5 DEF OSMboxPostWake, EventNext
<1>6. ASSUME NEW t \in Task, OSMboxPendReturn(t) PROVE EventNext
  BY <1>6 DEF OSMboxPendReturn, OSMboxPendPosted, OSMboxPendBoth, OSMboxPendTimeout,
     EventNext, EventReturn, Call
<1> QED  BY <1>1, <1>2, <1>3, <1>4, <1>5, <1>6 DEF MboxStep

\* Queues and mailboxes are events: each of their steps is one of the steps every
\* event takes, or leaves the wait lists alone.
THEOREM MessagesImplementEvents == MessagesSpec => EventSpec
<1>1. MessagesInit => EventInit
  BY DEF MessagesInit
<1>2. [MessagesNext]_xvars => [EventNext]_evars
  BY QueueStepIsEventStep, MboxStepIsEventStep DEF MessagesNext, EventNext, xvars
<1> QED  BY <1>1, <1>2, PTL DEF MessagesSpec, EventSpec

-----------------------------------------------------------------------------
\* Rings.

\* One ring: the cells from OSQOut on, as many as OSQEntries, hold messages.
RingShape(q) ==
    /\ OSQSize[q] \in 1 .. EntriesModulus - 1
    /\ OSQEntries[q] \in 0 .. OSQSize[q]
    /\ OSQIn[q] \in 0 .. OSQSize[q] /\ OSQOut[q] \in 0 .. OSQSize[q]
    /\ OSQOut[q] + OSQEntries[q] \in {OSQIn[q], OSQIn[q] + OSQSize[q]}
    /\ OSQCells[q] \in [1 .. OSQSize[q] -> Message \cup {Blank}]

Written(q) ==
    \A i \in 1 .. OSQEntries[q] :
      OSQCells[q][Wrap(OSQOut[q] + i - 1, OSQSize[q]) + 1] \in Message

RingInv ==
    /\ OSQSize \in [Queue -> Nat] /\ OSQEntries \in [Queue -> Nat]
    /\ OSQIn \in [Queue -> Nat] /\ OSQOut \in [Queue -> Nat]
    /\ OSQCells = [q \in Queue |-> OSQCells[q]]
    /\ \A q \in Queue : RingShape(q) /\ Written(q)

LEMMA RingExactFromInv == RingInv => RingExact
BY QueueAssumption DEF RingInv, RingShape, Written, RingExact, Contents

\* A step that writes the fields of one ring leaves the others as they were.
LEMMA OtherRings ==
    ASSUME RingInv, NEW q \in Queue, RingShape(q)', Written(q)',
           NEW s, NEW n, NEW i, NEW o, NEW c,
           OSQSize' = [OSQSize EXCEPT ![q] = s],
           OSQEntries' = [OSQEntries EXCEPT ![q] = n],
           OSQIn' = [OSQIn EXCEPT ![q] = i],
           OSQOut' = [OSQOut EXCEPT ![q] = o],
           OSQCells' = [OSQCells EXCEPT ![q] = c]
    PROVE  RingInv'
<1> USE QueueAssumption
<1>1. \A r \in Queue \ {q} :
        /\ OSQSize'[r] = OSQSize[r] /\ OSQEntries'[r] = OSQEntries[r]
        /\ OSQIn'[r] = OSQIn[r] /\ OSQOut'[r] = OSQOut[r] /\ OSQCells'[r] = OSQCells[r]
  BY DEF RingInv
<1>2. ASSUME NEW r \in Queue PROVE RingShape(r)' /\ Written(r)'
  <2>1. CASE r = q
    BY <2>1
  <2>2. CASE r # q
    <3>1. RingShape(r)'
      BY <1>1, <2>2 DEF RingInv, RingShape
    <3>2. Written(r)'
      BY <1>1, <2>2 DEF RingInv, Written
    <3> QED  BY <3>1, <3>2
  <2> QED  BY <2>1, <2>2
<1>3. /\ OSQSize'[q] \in Nat /\ OSQEntries'[q] \in Nat
      /\ OSQIn'[q] \in Nat /\ OSQOut'[q] \in Nat
  BY DEF RingShape
<1>4. /\ OSQSize' \in [Queue -> Nat] /\ OSQEntries' \in [Queue -> Nat]
      /\ OSQIn' \in [Queue -> Nat] /\ OSQOut' \in [Queue -> Nat]
      /\ OSQCells' = [r \in Queue |-> OSQCells'[r]]
  BY <1>3 DEF RingInv
<1> QED  BY <1>2, <1>4 DEF RingInv

\* The numbers of a ring, for the arithmetic.
LEMMA RingNumbers ==
    ASSUME RingInv, NEW q \in Queue
    PROVE  /\ OSQSize[q] \in Nat /\ OSQEntries[q] \in Nat
           /\ OSQIn[q] \in Nat /\ OSQOut[q] \in Nat
           /\ 1 <= OSQSize[q] /\ OSQEntries[q] <= OSQSize[q]
           /\ OSQIn[q] <= OSQSize[q] /\ OSQOut[q] <= OSQSize[q]
           /\ \/ OSQOut[q] + OSQEntries[q] = OSQIn[q]
              \/ OSQOut[q] + OSQEntries[q] = OSQIn[q] + OSQSize[q]
           /\ OSQSize[q] < EntriesModulus
           /\ OSQCells[q] \in [1 .. OSQSize[q] -> Message \cup {Blank}]
BY QueueAssumption DEF RingInv, RingShape

\* What a post does to a ring that is not full.
LEMMA PutRing ==
    ASSUME RingInv, NEW q \in Queue, NEW m \in Message, NotFull(q), Put(q, m)
    PROVE  /\ RingInv'
           /\ UNCHANGED <<OSQSize, OSQOut>>
           /\ OSQEntries' = [OSQEntries EXCEPT ![q] = OSQEntries[q] + 1]
           /\ OSQCells' = [OSQCells EXCEPT ![q] = OSQCells'[q]]
           /\ \A i \in 1 .. OSQEntries[q] :
                OSQCells'[q][Wrap(OSQOut[q] + i - 1, OSQSize[q]) + 1] =
                OSQCells[q][Wrap(OSQOut[q] + i - 1, OSQSize[q]) + 1]
           /\ OSQCells'[q][Wrap(OSQOut[q] + OSQEntries[q], OSQSize[q]) + 1] = m
<1> DEFINE S == OSQSize[q]
           E == OSQEntries[q]
           I == OSQIn[q]
           O == OSQOut[q]
           c == Cell(q, OSQIn[q])
           C == OSQCells[q]
<1>1. /\ OSQSize' = OSQSize /\ OSQOut' = OSQOut
      /\ OSQEntries' = [OSQEntries EXCEPT ![q] = E + 1]
      /\ OSQIn' = [OSQIn EXCEPT ![q] = c + 1]
      /\ OSQCells' = [OSQCells EXCEPT ![q] = [C EXCEPT ![c + 1] = m]]
  BY DEF Put
<1>2. /\ S \in Nat /\ E \in Nat /\ I \in Nat /\ O \in Nat
      /\ 1 <= S /\ E < S /\ I <= S /\ O <= S
      /\ O + E = I \/ O + E = I + S
      /\ S < EntriesModulus /\ C \in [1 .. S -> Message \cup {Blank}]
  BY RingNumbers DEF NotFull
<1>3. c = IF I = S THEN 0 ELSE I
  BY DEF Cell
<1>4. /\ OSQSize'[q] = S /\ OSQEntries'[q] = E + 1 /\ OSQIn'[q] = c + 1
      /\ OSQOut'[q] = O /\ OSQCells'[q] = [C EXCEPT ![c + 1] = m]
  BY <1>1 DEF RingInv
<1>5. \A i \in 1 .. E : C[Wrap(O + i - 1, S) + 1] \in Message
  BY DEF RingInv, Written
<1>6. /\ OSQSize' = [OSQSize EXCEPT ![q] = S] /\ OSQOut' = [OSQOut EXCEPT ![q] = O]
      /\ OSQCells' = [OSQCells EXCEPT ![q] = OSQCells'[q]]
  BY <1>1, <1>4 DEF RingInv
<1> HIDE DEF S, E, I, O, c, C
<1>7. /\ c \in 0 .. S - 1 /\ c + 1 \in 1 .. S /\ E + 1 \in 0 .. S
      /\ O + (E + 1) \in {c + 1, c + 1 + S}
      /\ Wrap(O + E, S) = c
      /\ O + (E + 1) - 1 = O + E
  BY <1>2, <1>3 DEF Wrap
<1>8. ASSUME NEW i \in 1 .. E
      PROVE  Wrap(O + i - 1, S) + 1 \in 1 .. S /\ Wrap(O + i - 1, S) # c
  BY <1>2, <1>3 DEF Wrap
<1>9. \A i \in 1 .. E :
        [C EXCEPT ![c + 1] = m][Wrap(O + i - 1, S) + 1] = C[Wrap(O + i - 1, S) + 1]
  <2>1. ASSUME NEW i \in 1 .. E, NEW k \in 1 .. S, k = Wrap(O + i - 1, S) + 1, k # c + 1
        PROVE  [C EXCEPT ![c + 1] = m][k] = C[k]
    BY <1>2, <1>7, <2>1
  <2>2. ASSUME NEW i \in 1 .. E
        PROVE  Wrap(O + i - 1, S) + 1 \in 1 .. S /\ Wrap(O + i - 1, S) + 1 # c + 1
    BY <1>2, <1>7, <1>8 DEF Wrap
  <2> QED  BY <2>1, <2>2
<1>10. [C EXCEPT ![c + 1] = m][Wrap(O + E, S) + 1] = m
  BY <1>2, <1>7
<1>11. RingShape(q)'
  <2>1. [C EXCEPT ![c + 1] = m] \in [1 .. S -> Message \cup {Blank}]
    BY <1>2
  <2>2. S \in 1 .. EntriesModulus - 1
    BY <1>2, QueueAssumption
  <2>3. O \in 0 .. S
    BY <1>2
  <2> QED  BY <1>4, <1>7, <2>1, <2>2, <2>3 DEF RingShape
<1>12. Written(q)'
  <2>1. ASSUME NEW i \in 1 .. E + 1
        PROVE  [C EXCEPT ![c + 1] = m][Wrap(O + i - 1, S) + 1] \in Message
    <3>1. CASE i = E + 1
      BY <1>7, <1>10, <3>1
    <3>2. CASE i # E + 1
      <4>1. i \in 1 .. E
        BY <1>2, <3>2
      <4> QED  BY <1>5, <1>9, <4>1
    <3> QED  BY <3>1, <3>2
  <2> QED  BY <1>4, <2>1 DEF Written
<1>13. RingInv'
  BY <1>1, <1>6, <1>11, <1>12, OtherRings, ZenonT(40)
<1> QED  BY <1>1, <1>4, <1>6, <1>9, <1>10, <1>13 DEF S, E, O, C

\* What a read does to a ring that is not empty.
LEMMA TakeRing ==
    ASSUME RingInv, NEW q \in Queue, NEW t, OSQEntries[q] > 0, Take(q, t)
    PROVE  /\ RingInv'
           /\ UNCHANGED <<OSQSize, OSQCells>>
           /\ OSQEntries' = [OSQEntries EXCEPT ![q] = OSQEntries[q] - 1]
           /\ OSQOut' = [OSQOut EXCEPT ![q] = OSQOut'[q]]
           /\ \A i \in 1 .. OSQEntries[q] - 1 :
                Wrap(OSQOut'[q] + i - 1, OSQSize[q]) = Wrap(OSQOut[q] + i, OSQSize[q])
           /\ result' = [result EXCEPT ![t] =
                           OSQCells[q][Wrap(OSQOut[q] + 1 - 1, OSQSize[q]) + 1]]
<1> DEFINE S == OSQSize[q]
           E == OSQEntries[q]
           I == OSQIn[q]
           O == OSQOut[q]
           c == Cell(q, OSQOut[q])
           C == OSQCells[q]
           W == EntriesModulus
<1>2. /\ S \in Nat /\ E \in Nat /\ I \in Nat /\ O \in Nat
      /\ 1 <= S /\ E <= S /\ 0 < E /\ I <= S /\ O <= S
      /\ O + E = I \/ O + E = I + S
      /\ S < W /\ W \in Nat /\ C \in [1 .. S -> Message \cup {Blank}]
  BY RingNumbers, QueueAssumption
<1>1. /\ OSQSize' = OSQSize /\ OSQIn' = OSQIn /\ OSQCells' = OSQCells
      /\ OSQEntries' = [OSQEntries EXCEPT ![q] = (E + W - 1) % W]
      /\ OSQOut' = [OSQOut EXCEPT ![q] = c + 1]
      /\ result' = [result EXCEPT ![t] = C[c + 1]]
  BY DEF Take
<1>3. c = IF O = S THEN 0 ELSE O
  BY DEF Cell
<1>4. (E + W - 1) % W = E - 1
  <2> HIDE DEF E, W, S, C, O, I
  <2>1. E - 1 \in Nat /\ E - 1 < W /\ E + W - 1 = (E - 1) + W
    BY <1>2
  <2> QED  BY <1>2, <2>1
<1>5. /\ OSQSize'[q] = S /\ OSQEntries'[q] = E - 1 /\ OSQIn'[q] = I
      /\ OSQOut'[q] = c + 1 /\ OSQCells'[q] = C
  BY <1>1, <1>4 DEF RingInv
<1>6. \A i \in 1 .. E : C[Wrap(O + i - 1, S) + 1] \in Message
  BY DEF RingInv, Written
<1>7. /\ OSQSize' = [OSQSize EXCEPT ![q] = S] /\ OSQIn' = [OSQIn EXCEPT ![q] = I]
      /\ OSQCells' = [OSQCells EXCEPT ![q] = C]
      /\ OSQOut' = [OSQOut EXCEPT ![q] = OSQOut'[q]]
  BY <1>1, <1>5 DEF RingInv
<1>8. OSQEntries' = [OSQEntries EXCEPT ![q] = E - 1]
  BY <1>1, <1>4
<1> HIDE DEF S, E, I, O, c, C, W
<1>9. /\ c + 1 \in 0 .. S /\ E - 1 \in 0 .. S /\ (c + 1) + (E - 1) \in {I, I + S}
      /\ Wrap(O + 1 - 1, S) = c
  BY <1>2, <1>3 DEF Wrap
<1>10. \A i \in 1 .. E - 1 :
         Wrap((c + 1) + i - 1, S) = Wrap(O + i, S) /\ O + i = O + (i + 1) - 1
         /\ i + 1 \in 1 .. E
  BY <1>2, <1>3 DEF Wrap
<1>11. RingShape(q)'
  BY <1>2, <1>5, <1>9 DEF RingShape, W
<1>12. Written(q)'
  <2>1. ASSUME NEW i \in 1 .. E - 1
        PROVE  C[Wrap((c + 1) + i - 1, S) + 1] \in Message
    <3>1. C[Wrap(O + (i + 1) - 1, S) + 1] \in Message
      BY <1>6, <1>10
    <3>2. O + (i + 1) - 1 = O + i /\ Wrap((c + 1) + i - 1, S) = Wrap(O + i, S)
      BY <1>10
    <3> QED  BY <3>1, <3>2
  <2> QED  BY <1>5, <2>1 DEF Written
<1>13. RingInv'
  BY <1>7, <1>8, <1>11, <1>12, OtherRings, Zenon
<1> QED
  BY <1>1, <1>5, <1>7, <1>8, <1>9, <1>10, <1>13 DEF S, E, O, C

\* An emptied and a new ring.
LEMMA EmptyRing ==
    ASSUME RingInv, NEW q \in Queue, Empty(q)
    PROVE  RingInv' /\ OSQEntries' = [OSQEntries EXCEPT ![q] = 0] /\ OSQSize' = OSQSize
<1>1. /\ OSQSize'[q] = OSQSize[q] /\ OSQEntries'[q] = 0 /\ OSQIn'[q] = 0
      /\ OSQOut'[q] = 0 /\ OSQCells'[q] = OSQCells[q]
      /\ OSQSize' = [OSQSize EXCEPT ![q] = OSQSize[q]]
      /\ OSQCells' = [OSQCells EXCEPT ![q] = OSQCells[q]]
  BY DEF Empty, RingInv
<1>2. RingShape(q)' /\ Written(q)'
  BY <1>1, RingNumbers, QueueAssumption DEF RingShape, Written
<1>3. /\ OSQEntries' = [OSQEntries EXCEPT ![q] = 0] /\ OSQIn' = [OSQIn EXCEPT ![q] = 0]
      /\ OSQOut' = [OSQOut EXCEPT ![q] = 0] /\ OSQSize' = OSQSize
  BY DEF Empty
<1>4. RingInv'
  BY <1>1, <1>2, <1>3, OtherRings, Zenon
<1> QED  BY <1>3, <1>4

LEMMA NewRingRing ==
    ASSUME RingInv, NEW q \in Queue, NEW n \in RingSizes, NewRing(q, n)
    PROVE  /\ RingInv' /\ OSQEntries' = [OSQEntries EXCEPT ![q] = 0]
           /\ OSQSize' = [OSQSize EXCEPT ![q] = n]
<1>1. /\ OSQSize'[q] = n /\ OSQEntries'[q] = 0 /\ OSQIn'[q] = 0
      /\ OSQOut'[q] = 0 /\ OSQCells'[q] = [c \in 1 .. n |-> Blank]
  BY DEF NewRing, RingInv
<1>2. RingShape(q)' /\ Written(q)'
  BY <1>1, RingSizesFit, QueueAssumption DEF RingShape, Written
<1> QED  BY <1>1, <1>2, OtherRings DEF NewRing

-----------------------------------------------------------------------------
\* Waiters and messages.

ReaderOf(e) == IF e \in Queue THEN Reader[e] ELSE MboxReader[e]

\* A task inside a pend waits for a slot of the kind it called, as its reader.
Callers ==
    \A t \in Task : at[t] \in Call =>
      /\ event[t] \in Slot /\ ReaderOf(event[t]) = t
      /\ at[t] = "queue" => event[t] \in Queue
      /\ at[t] = "mbox" => event[t] \in Mbox
      /\ at[t] # "sem"

DataInv == CarefulInv /\ Callers /\ NoWaitWithData /\ WokenFindsMessage

\* Only the messages of slot e change.
Only(e) == \A f \in Slot \ {e} : HasMessage(f)' = HasMessage(f)

\* The reader of e executes its own code: it is not waiting for e.
LEMMA ReaderRuns ==
    ASSUME DataInv, NEW e \in Slot, InTask, currentTask = ReaderOf(e)
    PROVE  \A t \in Task : at[t] \in Call => event[t] # e
BY CallNames DEF DataInv, Callers, InTask

LEMMA DataFacts ==
    ASSUME DataInv
    PROVE  /\ CarefulInv /\ EventInv /\ EventTypes /\ Calls /\ ListedPending /\ Callers
           /\ \A t \in granted : t \in Task /\ at[t] \in Call /\ event[t] \in Slot
           /\ \A t, u \in Task : Priority[t] = Priority[u] => t = u
BY Distinct DEF DataInv, CarefulInv, EventInv, EventTypes, Calls, Callers

\* The two invariants, slot by slot.
Served == \A e \in Slot : HasMessage(e) => OSEventWaitList[e] = {}
Found ==
    /\ \A e \in Slot : \A t \in granted : event[t] = e => HasMessage(e)
    /\ \A t \in granted : event[t] \in Slot

LEMMA MessagesServed ==
    /\ Served' => NoWaitWithData'
    /\ Found' => WokenFindsMessage'
<1>1. Served' => NoWaitWithData'
  BY DEF Served, NoWaitWithData, Slot
<1>2. Found' => WokenFindsMessage'
  BY DEF Found, WokenFindsMessage, HasMessage
<1> QED  BY <1>1, <1>2

\* A block created or deleted has nobody inside; its wait list is empty.
LEMMA DataCleared ==
    ASSUME ~ DeleteInUse, DataInv, NEW e \in Slot, NEW table,
           CreateEvent(e, table) \/ DeleteEvent(e), Only(e)
    PROVE  Callers' /\ NoWaitWithData' /\ WokenFindsMessage'
<1> USE SlotsAreEvents
<1>1. /\ UNCHANGED <<at, event, granted>>
      /\ OSEventWaitList' = [OSEventWaitList EXCEPT ![e] = {}]
  BY DEF CreateEvent, DeleteEvent, ClearWaiters, kvars, callers
<1>2. \A t \in Task : at[t] \in Call => event[t] # e
  BY DataFacts DEF CreateEvent, FreeBlock, DeleteEvent, Inside, CarefulInv
<1>3. Callers'
  BY <1>1 DEF DataInv, Callers, ReaderOf
<1>4. ASSUME NEW f \in Slot, HasMessage(f)' PROVE OSEventWaitList'[f] = {}
  BY <1>1, <1>4, DataFacts DEF Only, DataInv, NoWaitWithData, EventTypes, Slot
<1>5. ASSUME NEW f \in Slot, NEW t \in granted', event'[t] = f PROVE HasMessage(f)'
  <2>1. f # e /\ HasMessage(f)
    BY <1>1, <1>2, <1>5, DataFacts DEF DataInv, WokenFindsMessage
  <2> QED  BY <2>1 DEF Only
<1>6. \A t \in granted' : event'[t] \in Slot
  BY <1>1, DataFacts
<1> QED  BY <1>3, <1>4, <1>5, <1>6, MessagesServed DEF Served, Found

\* A message that nobody waits for, or that its reader takes out.
LEMMA DataFetched ==
    ASSUME DataInv, NEW e \in Slot, UNCHANGED evars, Only(e),
           \/ HasMessage(e)' /\ OSEventWaitList[e] = {}
           \/ ~ HasMessage(e)' /\ \A t \in granted : event[t] # e
           \/ HasMessage(e) /\ \A t \in granted : event[t] # e
    PROVE  Callers' /\ NoWaitWithData' /\ WokenFindsMessage'
<1>1. UNCHANGED <<at, event, granted, OSEventWaitList>>
  BY DEF evars, kvars, blocks, callers
<1>2. Callers'
  BY <1>1 DEF DataInv, Callers, ReaderOf
<1>3. ASSUME NEW f \in Slot, HasMessage(f)' PROVE OSEventWaitList'[f] = {}
  BY <1>1, <1>3 DEF Only, DataInv, NoWaitWithData, Slot
<1>4. ASSUME NEW f \in Slot, NEW t \in granted', event'[t] = f PROVE HasMessage(f)'
  BY <1>1, <1>4 DEF Only, DataInv, WokenFindsMessage
<1>5. \A t \in granted' : event'[t] \in Slot
  BY <1>1, DataFacts
<1> QED  BY <1>2, <1>3, <1>4, <1>5, MessagesServed DEF Served, Found

\* The reader of an empty slot begins to wait.
LEMMA DataWaits ==
    ASSUME DataInv, NEW e \in Slot, NEW w \in 0 .. MaxWait, NEW call \in Call,
           JoinWaiters(e, w, call), currentTask = ReaderOf(e), ~ HasMessage(e),
           \A f \in Slot : HasMessage(f)' = HasMessage(f),
           call = IF e \in Queue THEN "queue" ELSE "mbox"
    PROVE  Callers' /\ NoWaitWithData' /\ WokenFindsMessage'
<1> USE DEF JoinWaiters, InTask
<1> USE SlotsAreEvents
<1>1. PICK c \in Task : c = currentTask /\ c \notin granted
  BY DataFacts, CallNames
<1>2. /\ at' = [at EXCEPT ![c] = call] /\ event' = [event EXCEPT ![c] = e]
      /\ UNCHANGED granted
      /\ \A f \in Event \ {e} : OSEventWaitList'[f] = OSEventWaitList[f]
  BY <1>1, DataFacts DEF EventTypes
<1>3. Callers'
  BY <1>1, <1>2, DataFacts DEF Callers, ReaderOf, EventTypes, Slot
<1>4. ASSUME NEW f \in Slot, HasMessage(f)' PROVE OSEventWaitList'[f] = {}
  BY <1>2, <1>4 DEF DataInv, NoWaitWithData, Slot
<1>5. ASSUME NEW f \in Slot, NEW t \in granted', event'[t] = f PROVE HasMessage(f)'
  BY <1>1, <1>2, <1>5, DataFacts DEF DataInv, WokenFindsMessage, EventTypes
<1>6. \A t \in granted' : event'[t] \in Slot
  BY <1>1, <1>2, DataFacts DEF EventTypes
<1> QED  BY <1>3, <1>4, <1>5, <1>6, MessagesServed DEF Served, Found

\* The one waiter of e is woken for a new message.
LEMMA DataWoken ==
    ASSUME DataInv, NEW e \in Slot, WakeWaiter(e), HasMessage(e)', Only(e)
    PROVE  Callers' /\ NoWaitWithData' /\ WokenFindsMessage'
<1> USE SlotsAreEvents
<1> DEFINE p == SAScheduler(OSEventWaitList[e])
<1>1. PICK c \in Task : p = Priority[c] /\ PriorityVector[p] = c /\ Pending(c, e)
  BY WakesPending, DataFacts DEF WakeWaiter
<1>2. /\ UNCHANGED <<at, event>> /\ granted' = granted \cup {c}
      /\ OSEventWaitList' = [OSEventWaitList EXCEPT ![e] = @ \ {p}]
  BY <1>1 DEF WakeWaiter, RemoveWaiter
<1> HIDE DEF p
<1>3. Callers'
  BY <1>2, DataFacts DEF Callers, ReaderOf
<1>4. OSEventWaitList'[e] = {}
  <2>1. OSEventWaitList'[e] = OSEventWaitList[e] \ {p}
    BY <1>2, DataFacts DEF EventTypes
  <2>2. ASSUME NEW r \in OSEventWaitList[e] PROVE r = p
    <3>1. PICK u \in Task : r = Priority[u] /\ Pending(u, e)
      BY DataFacts DEF ListedPending
    <3> QED  BY <1>1, <3>1, DataFacts DEF Pending, Callers
  <2> QED  BY <2>1, <2>2
<1>5. ASSUME NEW f \in Slot, HasMessage(f)' PROVE OSEventWaitList'[f] = {}
  BY <1>2, <1>4, <1>5, DataFacts DEF Only, DataInv, NoWaitWithData, Slot, EventTypes
<1>6. ASSUME NEW f \in Slot, NEW t \in granted', event'[t] = f PROVE HasMessage(f)'
  <2>1. CASE f = e
    BY <2>1
  <2>2. CASE f # e
    <3>1. t \in granted /\ event[t] = f
      BY <1>1, <1>2, <1>6, <2>2 DEF Pending
    <3> QED  BY <2>2, <3>1 DEF Only, DataInv, WokenFindsMessage
  <2> QED  BY <2>1, <2>2
<1>7. \A t \in granted' : event'[t] \in Slot
  BY <1>1, <1>2, DataFacts DEF Pending
<1> QED  BY <1>3, <1>5, <1>6, <1>7, MessagesServed DEF Served, Found

\* A pend ends, with the message or without.
LEMMA DataReturned ==
    ASSUME DataInv, NEW t \in Task, EventReturn(t), NEW e \in Slot, event[t] = e, Only(e),
           HasMessage(e)' => HasMessage(e)
    PROVE  Callers' /\ NoWaitWithData' /\ WokenFindsMessage'
<1> USE SlotsAreEvents
<1>1. /\ at' = [at EXCEPT ![t] = "run"] /\ event' = [event EXCEPT ![t] = NoEvent]
      /\ granted' = granted \ {t} /\ at[t] \in Call
  BY ReturnFrame
<1>2. \A f \in Event : OSEventWaitList'[f] \subseteq OSEventWaitList[f]
  BY DataFacts DEF EventReturn, ReturnPosted, ReturnTimeout, ReturnBoth, RemoveWaiter,
     EventTypes
<1>3. Callers'
  BY <1>1, DataFacts, CallNames DEF Callers, ReaderOf, EventTypes
<1>4. ASSUME NEW f \in Slot, HasMessage(f)' PROVE OSEventWaitList'[f] = {}
  BY <1>2, <1>4 DEF Only, DataInv, NoWaitWithData, Slot
\* Another task is not inside a pend on e: it would be its reader.
<1>5. ASSUME NEW f \in Slot, NEW u \in granted', event'[u] = f PROVE HasMessage(f)'
  <2>1. u # t /\ u \in granted /\ event[u] = f /\ at[u] \in Call /\ u \in Task
    BY <1>1, <1>5, DataFacts DEF EventTypes
  <2>2. f # e
    BY <1>1, <2>1, DataFacts DEF Callers
  <2> QED  BY <2>1, <2>2 DEF Only, DataInv, WokenFindsMessage
<1>6. \A u \in granted' : event'[u] \in Slot
  BY <1>1, DataFacts DEF EventTypes
<1> QED  BY <1>3, <1>4, <1>5, <1>6, MessagesServed DEF Served, Found

-----------------------------------------------------------------------------
\* The invariant.

MsgInv == DataInv /\ RingInv

LEMMA QueueOnly ==
    ASSUME RingInv, NEW q \in Queue, NEW n,
           OSQEntries' = [OSQEntries EXCEPT ![q] = n], UNCHANGED mvars
    PROVE  Only(q) /\ (HasMessage(q)' <=> n > 0)
BY DEF RingInv, Only, HasMessage, mvars

LEMMA MboxOnly ==
    ASSUME NEW b \in Mbox, OSEventState' \ {b} = OSEventState \ {b}, UNCHANGED qvars
    PROVE  /\ Only(b)
           /\ HasMessage(b)' <=> b \in OSEventState'
           /\ HasMessage(b) <=> b \in OSEventState
BY TablesAssumption DEF Only, HasMessage, qvars, ring

LEMMA RingUnchanged == RingInv /\ UNCHANGED qvars => RingInv'
BY DEF RingInv, RingShape, Written, qvars, ring

\* A slot whose wait counter is 0, or that no task is inside, has no waiters.
LEMMA NobodyListed ==
    ASSUME DataInv, NEW e \in Slot, OSEventWait[e] = 0 \/ Inside(e) = {}
    PROVE  OSEventWaitList[e] = {}
<1> USE SlotsAreEvents
<1>1. CASE OSEventWait[e] = 0
  <2>1. OSEventWaitList[e] \in SUBSET Prio /\ Cardinality(OSEventWaitList[e]) = 0
    BY <1>1, DataFacts DEF EventInv, EventTypes, WaitCountExact
  <2> QED  BY <2>1, WaitListFinite, FS_EmptySet
<1>2. CASE Inside(e) = {}
  BY <1>2, DataFacts DEF Inside, ListedPending, Pending
<1> QED  BY <1>1, <1>2

\* The reader that runs after a post finds a message.
LEMMA GrantedFinds ==
    ASSUME DataInv, NEW t \in Task, NEW call \in Call,
           ReturnPosted(t, call) \/ ReturnBoth(t, call)
    PROVE  t \in granted /\ HasMessage(event[t])
<1>1. at[t] \in Call /\ ~ Waiting(t)
  BY PostedUnlisted, DataFacts DEF ReturnPosted, ReturnBoth, Resumed
<1>2. t \in granted
  BY <1>1, WaitingUngranted, DataFacts
<1> QED  BY <1>2 DEF DataInv, WokenFindsMessage

LEMMA QueueInvStep ==
    ASSUME ~ DeleteInUse, ReaderKeepsUp, MsgInv, QueueStep, UNCHANGED mvars
    PROVE  RingInv' /\ Callers' /\ NoWaitWithData' /\ WokenFindsMessage'
<1> DEFINE Goal == RingInv' /\ Callers' /\ NoWaitWithData' /\ WokenFindsMessage'
<1> SUFFICES Goal
  OBVIOUS
<1>0. DataInv /\ RingInv /\ Queue \subseteq Slot
  BY DEF MsgInv, Slot
<1>1. ASSUME NEW q \in Queue, NEW n \in RingSizes, NEW table,
             CreateEvent(q, table) \/ DeleteEvent(q), NewRing(q, n)
      PROVE  Goal
  BY <1>0, <1>1, NewRingRing, QueueOnly, DataCleared
<1>2. ASSUME NEW q \in Queue, PendTake(q) PROVE Goal
  <2>1. UNCHANGED evars /\ InTask /\ currentTask = ReaderOf(q) /\ OSQEntries[q] > 0
    BY <1>2 DEF PendTake, Reading, ReaderOf
  <2>2. RingInv' /\ OSQEntries' = [OSQEntries EXCEPT ![q] = OSQEntries[q] - 1]
    BY <1>0, <1>2, <2>1, TakeRing DEF PendTake
  <2>3. HasMessage(q)
    BY <2>1 DEF HasMessage
  <2>4. \A t \in granted : event[t] # q
    BY <1>0, <2>1, ReaderRuns, DataFacts
  <2> QED  BY <1>0, <2>1, <2>2, <2>3, <2>4, QueueOnly, DataFetched
<1>3. ASSUME NEW q \in Queue, NEW w \in 0 .. MaxWait, PendWait(q, w) PROVE Goal
  <2>1. /\ JoinWaiters(q, w, "queue") /\ currentTask = ReaderOf(q)
        /\ OSQEntries[q] = 0 /\ UNCHANGED qvars
    BY <1>3 DEF PendWait, Reading, ReaderOf
  <2>2. ~ HasMessage(q) /\ \A f \in Slot : HasMessage(f)' = HasMessage(f)
    BY <2>1 DEF HasMessage, qvars, ring, mvars
  <2>3. RingInv'
    BY <1>0, <2>1, RingUnchanged
  <2> QED  BY <1>0, <2>1, <2>2, <2>3, DataWaits DEF Call
<1>4. ASSUME NEW q \in Queue, Empty(q), UNCHANGED evars, \A t \in granted : event[t] # q
      PROVE  Goal
  <2>1. RingInv' /\ OSQEntries' = [OSQEntries EXCEPT ![q] = 0]
    BY <1>0, <1>4, EmptyRing
  <2>2. Only(q) /\ (HasMessage(q)' <=> 0 > 0)
    BY <1>0, <2>1, QueueOnly, Zenon
  <2> QED  BY <1>0, <1>4, <2>1, <2>2, DataFetched
<1>5. ASSUME NEW q \in Queue, OSCleanQueue(q) \/ OSDQueueClean(q) PROVE Goal
  <2>1. /\ Empty(q) /\ UNCHANGED evars /\ InTask /\ currentTask = ReaderOf(q)
    BY <1>5 DEF OSCleanQueue, OSDQueueClean, Reading, ReaderOf
  <2> QED  BY <1>0, <1>4, <2>1, ReaderRuns, DataFacts
<1>6. ASSUME NEW q \in Queue, uart_rx_overflow(q) PROVE Goal
  <2>1. Empty(q) /\ UNCHANGED evars /\ WokenReaders(q) = {}
    BY <1>6 DEF uart_rx_overflow
  <2>2. \A t \in granted : event[t] # q
    BY <1>0, <2>1, DataFacts DEF WokenReaders, Inside
  <2> QED  BY <1>4, <2>1, <2>2
<1>7. ASSUME NEW q \in Queue, NEW m \in Message, NotFull(q), Put(q, m), UNCHANGED evars,
             OSEventWait[q] = 0 \/ Inside(q) = {}
      PROVE  Goal
  <2>1. RingInv' /\ OSQEntries' = [OSQEntries EXCEPT ![q] = OSQEntries[q] + 1]
    BY <1>0, <1>7, PutRing
  <2>2. Only(q) /\ (HasMessage(q)' <=> OSQEntries[q] + 1 > 0)
    BY <1>0, <2>1, QueueOnly, Zenon
  <2>3. OSQEntries[q] + 1 > 0
    BY <1>0, RingNumbers
  <2> QED  BY <1>0, <1>7, <2>1, <2>2, <2>3, NobodyListed, DataFetched
<1>8. ASSUME NEW q \in Queue, NEW m \in Message, PostWake(q, m) PROVE Goal
  <2>1. RingInv' /\ OSQEntries' = [OSQEntries EXCEPT ![q] = OSQEntries[q] + 1]
    BY <1>0, <1>8, PutRing DEF PostWake
  <2>2. Only(q) /\ (HasMessage(q)' <=> OSQEntries[q] + 1 > 0)
    BY <1>0, <2>1, QueueOnly, Zenon
  <2>3. OSQEntries[q] + 1 > 0
    BY <1>0, RingNumbers
  <2> QED  BY <1>0, <1>8, <2>1, <2>2, <2>3, DataWoken DEF PostWake
<1>9. ASSUME NEW t \in Task, PendReturn(t) PROVE Goal
  <2>1. EventReturn(t) /\ at[t] = "queue"
    BY <1>9 DEF PendReturn, PendPosted, PendBoth, PendTimeout, EventReturn, Call,
       ReturnPosted, ReturnBoth, ReturnTimeout, Resumed
  <2>2. PICK e \in Queue : e = event[t]
    BY <1>0, <2>1, DataFacts DEF Callers, Call
  <2>3. CASE PendTimeout(t)
    <3>1. RingInv' /\ \A f \in Slot : HasMessage(f)' = HasMessage(f)
      BY <1>0, <2>3, RingUnchanged DEF PendTimeout, HasMessage, qvars, ring, mvars
    <3> QED  BY <1>0, <2>1, <2>2, <3>1, DataReturned DEF Only
  <2>4. CASE PendPosted(t) \/ PendBoth(t)
    <3>1. HasMessage(event[t]) /\ Take(e, t)
      BY <1>0, <2>2, <2>4, GrantedFinds DEF PendPosted, PendBoth, Call
    <3>2. HasMessage(e) /\ OSQEntries[e] > 0
      BY <2>2, <3>1 DEF HasMessage
    <3>3. RingInv' /\ OSQEntries' = [OSQEntries EXCEPT ![e] = OSQEntries[e] - 1]
      BY <1>0, <3>1, <3>2, TakeRing
    <3>4. Only(e)
      BY <1>0, <3>3, QueueOnly
    <3> QED  BY <1>0, <2>1, <2>2, <3>2, <3>3, <3>4, DataReturned
  <2> QED  BY <1>9, <2>3, <2>4 DEF PendReturn
<1>10. ASSUME NEW q \in Queue, NEW n \in QueueSizes,
              OSQueueCreate(q, n) \/ OSDQueueCreate(q, n)
       PROVE  Goal
  BY <1>1, <1>10, RingSizesFit DEF OSQueueCreate, OSDQueueCreate
<1>11. ASSUME NEW q \in Queue, OSDQueueDelete(q) PROVE Goal
  BY <1>1, <1>11, RingSizesFit DEF OSDQueueDelete
<1>12. ASSUME NEW q \in Queue, NEW m \in Message,
              OSQueuePost(q, m) \/ OSDQueuePost(q, m) \/ OSWQueue(q, m)
       PROVE  Goal
  BY <1>7, <1>8, <1>12 DEF OSQueuePost, OSDQueuePost, OSWQueue, PostKeep
<1>13. ASSUME NEW q \in Queue, NEW w \in 0 .. MaxWait,
              OSQueuePend(q, w) \/ OSDQueuePend(q, w)
       PROVE  Goal
  BY <1>2, <1>3, <1>13 DEF OSQueuePend, OSDQueuePend
<1>14. ASSUME NEW q \in Queue, OSRQueue(q) PROVE Goal
  BY <1>2, <1>14 DEF OSRQueue
<1>15. ASSUME NEW t \in Task, OSQueuePendReturn(t) \/ OSDQueuePendReturn(t) PROVE Goal
  BY <1>9, <1>15 DEF OSQueuePendReturn, OSDQueuePendReturn
<1> HIDE DEF Goal
<1> QED  BY <1>5, <1>6, <1>10, <1>11, <1>12, <1>13, <1>14, <1>15 DEF QueueStep

LEMMA MboxInvStep ==
    ASSUME ~ DeleteInUse, MsgInv, MboxStep, UNCHANGED qvars
    PROVE  RingInv' /\ Callers' /\ NoWaitWithData' /\ WokenFindsMessage'
<1> DEFINE Goal == RingInv' /\ Callers' /\ NoWaitWithData' /\ WokenFindsMessage'
<1>0. /\ DataInv /\ RingInv /\ RingInv' /\ Mbox \subseteq Slot
      /\ \A b \in Mbox : b \notin Queue
  BY RingUnchanged, TablesAssumption DEF MsgInv, Slot
<1>1. ASSUME NEW b \in Mbox, NEW m, OSMboxCreate(b, m) \/ OSMboxDelete(b) PROVE Goal
  <2>1. OSEventState' \ {b} = OSEventState \ {b}
    BY <1>1 DEF OSMboxCreate, OSMboxDelete
  <2>2. Only(b)
    BY <2>1, MboxOnly
  <2> QED  BY <1>0, <1>1, <2>2, DataCleared DEF OSMboxCreate, OSMboxDelete
<1>2. ASSUME NEW b \in Mbox, OSMboxPendTake(b) PROVE Goal
  <2>1. /\ UNCHANGED evars /\ InTask /\ currentTask = ReaderOf(b)
        /\ b \in OSEventState /\ OSEventState' \ {b} = OSEventState \ {b}
    BY <1>0, <1>2 DEF OSMboxPendTake, Fetching, CopyMail, ReaderOf
  <2>2. Only(b) /\ HasMessage(b)
    BY <2>1, MboxOnly
  <2>3. \A t \in granted : event[t] # b
    BY <1>0, <2>1, ReaderRuns, DataFacts
  <2> QED  BY <1>0, <2>1, <2>2, <2>3, DataFetched
<1>3. ASSUME NEW b \in Mbox, NEW w \in 0 .. MaxWait, OSMboxPendWait(b, w) PROVE Goal
  <2>1. /\ JoinWaiters(b, w, "mbox") /\ currentTask = ReaderOf(b)
        /\ b \notin OSEventState /\ UNCHANGED <<mvars, qvars>>
    BY <1>0, <1>3 DEF OSMboxPendWait, Fetching, ReaderOf
  <2>2. ~ HasMessage(b) /\ \A f \in Slot : HasMessage(f)' = HasMessage(f)
    BY <1>0, <2>1 DEF HasMessage, qvars, ring, mvars
  <2> QED  BY <1>0, <2>1, <2>2, DataWaits DEF Call
<1>4. ASSUME NEW b \in Mbox, NEW m, OSMboxPostWake(b, m) PROVE Goal
  <2>1. OSEventState' \ {b} = OSEventState \ {b} /\ b \in OSEventState'
    BY <1>4 DEF OSMboxPostWake, Fill
  <2>2. Only(b) /\ HasMessage(b)'
    BY <2>1, MboxOnly
  <2> QED  BY <1>0, <1>4, <2>2, DataWoken DEF OSMboxPostWake
<1>5. ASSUME NEW b \in Mbox, NEW m, OSMboxPostKeep(b, m) PROVE Goal
  <2>1. OSEventState' \ {b} = OSEventState \ {b} /\ b \in OSEventState'
    BY <1>5 DEF OSMboxPostKeep, Fill
  <2>2. Only(b) /\ HasMessage(b)'
    BY <2>1, MboxOnly
  <2> QED  BY <1>0, <1>5, <2>2, NobodyListed, DataFetched DEF OSMboxPostKeep
<1>6. ASSUME NEW t \in Task, OSMboxPendReturn(t) PROVE Goal
  <2>1. EventReturn(t) /\ at[t] = "mbox"
    BY <1>6 DEF OSMboxPendReturn, OSMboxPendPosted, OSMboxPendBoth, OSMboxPendTimeout,
       EventReturn, Call, ReturnPosted, ReturnBoth, ReturnTimeout, Resumed
  <2>2. PICK e \in Mbox : e = event[t]
    BY <1>0, <2>1, DataFacts DEF Callers, Call
  <2>3. OSEventState' \ {e} = OSEventState \ {e} /\ OSEventState' \subseteq OSEventState
    BY <1>6, <2>2 DEF OSMboxPendReturn, OSMboxPendPosted, OSMboxPendBoth,
       OSMboxPendTimeout, CopyMail, mvars
  <2>4. Only(e) /\ (HasMessage(e)' => HasMessage(e))
    BY <2>3, MboxOnly
  <2> QED  BY <1>0, <2>1, <2>2, <2>4, DataReturned
<1> QED  BY <1>1, <1>2, <1>3, <1>4, <1>5, <1>6 DEF MboxStep

LEMMA MsgInitInv == MessagesInit => MsgInv
<1> SUFFICES ASSUME MessagesInit PROVE MsgInv
  OBVIOUS
<1>1. EventInv /\ CarefulInv
  BY EventInitInv, CallNames DEF MessagesInit, EventInit, Init, CarefulInv, Pending
<1>2. Callers /\ WokenFindsMessage
  BY CallNames DEF MessagesInit, EventInit, Init, Callers, WokenFindsMessage
<1>3. NoWaitWithData
  BY SlotsAreEvents DEF MessagesInit, EventInit, NoWaitWithData
<1>4. RingInv
  BY QueueAssumption DEF MessagesInit, QueueInit, RingInv, RingShape, Written
<1> QED  BY <1>1, <1>2, <1>3, <1>4 DEF MsgInv, DataInv

LEMMA MsgInvStep ==
    ASSUME ~ DeleteInUse, ReaderKeepsUp, MsgInv, CarefulInv', [MessagesNext]_xvars
    PROVE  MsgInv'
<1>1. CASE (KernelStep /\ UNCHANGED messages) \/ UNCHANGED xvars
  <2>1. /\ UNCHANGED <<event, granted, OSEventWaitList, mvars, qvars>>
        /\ \A t \in Task : at[t] \in Call <=> at'[t] \in Call
    BY <1>1, DataFacts, KernelCalls DEF MsgInv, xvars, messages, evars, kvars, blocks, callers
  <2>2. \A t \in Task : at'[t] \in Call => at'[t] = at[t]
    BY <1>1, CallNames, DataFacts DEF MsgInv, KernelStep, Interrupt, DelayTask, InTask,
       DelayReturn, Resumed, TickTimer, IsrEnter, IsrExit, xvars, evars, kvars, EventTypes
  <2>3. Callers'
    BY <2>1, <2>2 DEF MsgInv, DataInv, Callers, ReaderOf
  <2>4. \A f : HasMessage(f)' = HasMessage(f)
    BY <2>1 DEF HasMessage, mvars, qvars, ring
  <2>5. NoWaitWithData' /\ Found'
    BY <2>1, <2>4, DataFacts DEF MsgInv, DataInv, NoWaitWithData, WokenFindsMessage, Found
  <2>6. RingInv'
    BY <2>1, RingUnchanged DEF MsgInv
  <2> QED  BY <2>3, <2>5, <2>6, MessagesServed DEF MsgInv, DataInv
<1>2. CASE QueueStep /\ UNCHANGED mvars
  BY <1>2, QueueInvStep DEF MsgInv, DataInv
<1>3. CASE MboxStep /\ UNCHANGED qvars
  BY <1>3, MboxInvStep DEF MsgInv, DataInv
<1> QED  BY <1>1, <1>2, <1>3 DEF MessagesNext

LEMMA MsgAlways ==
    ASSUME MaxWait <= TICK_COUNT_OVERFLOW, ~ DeleteInUse, ReaderKeepsUp
    PROVE  MessagesSpec => []MsgInv
<1>1. MsgInv /\ CarefulInv' /\ [MessagesNext]_xvars => MsgInv'
  BY MsgInvStep
<1> QED
  BY MsgInitInv, <1>1, MessagesImplementEvents, CarefulAlways, PTL DEF MessagesSpec

\* The pointers of every ring agree with OSQEntries across their wrap, and the
\* cells between them hold messages, whatever is posted, read, flushed, deleted.
THEOREM RingsExact ==
    ASSUME MaxWait <= TICK_COUNT_OVERFLOW, ~ DeleteInUse, ReaderKeepsUp
    PROVE  MessagesSpec => []RingExact
<1>1. MsgInv => RingExact
  BY RingExactFromInv DEF MsgInv
<1> QED  BY <1>1, MsgAlways, PTL

\* A task woken by a post, which reads without looking, finds a message, however
\* late it runs.
THEOREM MessagesReach ==
    ASSUME MaxWait <= TICK_COUNT_OVERFLOW, ~ DeleteInUse, ReaderKeepsUp
    PROVE  MessagesSpec => []WokenFindsMessage
<1>1. MsgInv => WokenFindsMessage
  BY DEF MsgInv, DataInv
<1> QED  BY <1>1, MsgAlways, PTL

\* No task waits for a message that is there, on a queue or on a mailbox.
THEOREM NobodyWaitsForData ==
    ASSUME MaxWait <= TICK_COUNT_OVERFLOW, ~ DeleteInUse, ReaderKeepsUp
    PROVE  MessagesSpec => []NoWaitWithData
<1>1. MsgInv => NoWaitWithData
  BY DEF MsgInv, DataInv
<1> QED  BY <1>1, MsgAlways, PTL

-----------------------------------------------------------------------------
\* Queues and mailboxes implement Mailslots.

ContentsOf(e) ==
    IF e \in Queue THEN Contents(e)
    ELSE IF e \in OSEventState THEN <<OSEventPointer[e]>> ELSE <<>>

CapacityOf(e) == IF e \in Queue THEN OSQSize[e] ELSE 1

LEMMA ContentsIsSeq ==
    ASSUME RingInv, NEW q \in Queue
    PROVE  /\ Contents(q) \in Seq(Message) /\ Len(Contents(q)) = OSQEntries[q]
           /\ \A i \in 1 .. OSQEntries[q] : Contents(q)[i] =
                OSQCells[q][Wrap(OSQOut[q] + i - 1, OSQSize[q]) + 1]
           /\ Contents(q) = <<>> <=> OSQEntries[q] = 0
<1>1. OSQEntries[q] \in Nat
  BY RingNumbers
<1>2. Contents(q) \in [1 .. OSQEntries[q] -> Message]
  BY DEF Contents, RingInv, Written
<1>3. Contents(q) \in Seq(Message) /\ Len(Contents(q)) = OSQEntries[q]
  BY <1>1, <1>2
<1>4. Contents(q) = <<>> <=> OSQEntries[q] = 0
  BY <1>3, EmptySeq
<1> QED  BY <1>3, <1>4 DEF Contents

\* The contents after a step, when the ring stays a ring.
LEMMA ContentsIsSeqPrime ==
    ASSUME RingInv', NEW q \in Queue
    PROVE  /\ Contents(q)' \in Seq(Message) /\ Len(Contents(q)') = OSQEntries'[q]
           /\ \A i \in 1 .. OSQEntries'[q] : Contents(q)'[i] =
                OSQCells'[q][Wrap(OSQOut'[q] + i - 1, OSQSize'[q]) + 1]
<1>1. OSQEntries'[q] \in Nat
  BY DEF RingInv
<1>2. Contents(q)' \in [1 .. OSQEntries'[q] -> Message]
  BY DEF Contents, RingInv, Written
<1>3. Contents(q)' \in Seq(Message) /\ Len(Contents(q)') = OSQEntries'[q]
  BY <1>1, <1>2
<1> QED  BY <1>3 DEF Contents

\* A step on slot e writes one entry of the mapping.
LEMMA SlotWritten ==
    ASSUME NEW e \in Slot, NEW c, NEW n, ContentsOf(e)' = c, CapacityOf(e)' = n,
           \A f \in Slot \ {e} :
             ContentsOf(f)' = ContentsOf(f) /\ CapacityOf(f)' = CapacityOf(f)
    PROVE  /\ slotContents' = [slotContents EXCEPT ![e] = c]
           /\ slotCapacity' = [slotCapacity EXCEPT ![e] = n]
           /\ slotContents[e] = ContentsOf(e) /\ slotCapacity[e] = CapacityOf(e)
<1>1. slotContents = [f \in Slot |-> ContentsOf(f)]
  BY DEF slotContents, ContentsOf, Slot
<1>2. slotContents' = [f \in Slot |-> ContentsOf(f)']
  BY DEF slotContents, ContentsOf, Slot
<1>3. slotCapacity = [f \in Slot |-> CapacityOf(f)]
  BY DEF slotCapacity, CapacityOf, Slot
<1>4. slotCapacity' = [f \in Slot |-> CapacityOf(f)']
  BY DEF slotCapacity, CapacityOf, Slot
<1>5. slotContents' = [slotContents EXCEPT ![e] = c] /\ slotContents[e] = ContentsOf(e)
  BY <1>1, <1>2
<1>6. slotCapacity' = [slotCapacity EXCEPT ![e] = n] /\ slotCapacity[e] = CapacityOf(e)
  BY <1>3, <1>4
<1> QED  BY <1>5, <1>6

\* The other slots, when a step writes the fields of ring q.
LEMMA OtherContents ==
    ASSUME RingInv, NEW q \in Queue, UNCHANGED mvars,
           NEW s, NEW n, NEW o, NEW c,
           OSQSize' = [OSQSize EXCEPT ![q] = s],
           OSQEntries' = [OSQEntries EXCEPT ![q] = n],
           OSQOut' = [OSQOut EXCEPT ![q] = o],
           OSQCells' = [OSQCells EXCEPT ![q] = c]
    PROVE  \A f \in Slot \ {q} :
             ContentsOf(f)' = ContentsOf(f) /\ CapacityOf(f)' = CapacityOf(f)
<1> SUFFICES ASSUME NEW f \in Slot \ {q}
             PROVE  ContentsOf(f)' = ContentsOf(f) /\ CapacityOf(f)' = CapacityOf(f)
  OBVIOUS
<1>1. CASE f \in Queue
  <2>1. /\ OSQSize'[f] = OSQSize[f] /\ OSQEntries'[f] = OSQEntries[f]
        /\ OSQOut'[f] = OSQOut[f] /\ OSQCells'[f] = OSQCells[f]
    BY <1>1 DEF RingInv
  <2> QED  BY <1>1, <2>1 DEF ContentsOf, CapacityOf, Contents
<1>2. CASE f \notin Queue
  BY <1>2 DEF ContentsOf, CapacityOf, mvars
<1> QED  BY <1>1, <1>2

LEMMA PutSends ==
    ASSUME RingInv, NEW q \in Queue, NEW m \in Message, NotFull(q), Put(q, m),
           UNCHANGED <<mvars, result>>
    PROVE  Slots!Send(q, m)
<1>1. q \in Slot /\ RingInv'
  BY PutRing DEF Slot
<1>2. /\ UNCHANGED <<OSQSize, OSQOut>>
      /\ OSQEntries' = [OSQEntries EXCEPT ![q] = OSQEntries[q] + 1]
      /\ OSQCells' = [OSQCells EXCEPT ![q] = OSQCells'[q]]
  BY PutRing
<1>3. /\ OSQSize' = [OSQSize EXCEPT ![q] = OSQSize[q]]
      /\ OSQOut' = [OSQOut EXCEPT ![q] = OSQOut[q]]
      /\ OSQEntries'[q] = OSQEntries[q] + 1
  BY <1>2 DEF RingInv
<1>4. Contents(q)' = Append(Contents(q), m)
  <2> DEFINE c == Contents(q)
             a == Append(Contents(q), m)
             n == OSQEntries[q]
             O == OSQOut[q]
  <2>1. n \in Nat /\ O \in Nat /\ O + (n + 1) - 1 = O + n
    BY RingNumbers
  <2>2. c \in Seq(Message) /\ Len(c) = n
    BY ContentsIsSeq
  <2>3. /\ a \in Seq(Message) /\ Len(a) = n + 1 /\ a[n + 1] = m
        /\ \A i \in 1 .. n : a[i] = c[i]
    BY <2>1, <2>2
  <2>4. Contents(q)' \in Seq(Message) /\ Len(Contents(q)') = n + 1
    BY <1>1, <1>3, ContentsIsSeqPrime
  <2>5. \A i \in 1 .. n + 1 :
          Contents(q)'[i] = OSQCells'[q][Wrap(O + i - 1, OSQSize[q]) + 1]
    BY <1>1, <1>2, <1>3, ContentsIsSeqPrime
  <2>6. Contents(q)'[n + 1] = m
    <3>1. Contents(q)'[n + 1] = OSQCells'[q][Wrap(O + (n + 1) - 1, OSQSize[q]) + 1]
      BY <2>1, <2>5
    <3>2. OSQCells'[q][Wrap(O + n, OSQSize[q]) + 1] = m
      BY PutRing
    <3> QED  BY <2>1, <3>1, <3>2
  <2>7. \A i \in 1 .. n : Contents(q)'[i] = c[i]
    <3>1. \A i \in 1 .. n : OSQCells'[q][Wrap(O + i - 1, OSQSize[q]) + 1] =
            OSQCells[q][Wrap(O + i - 1, OSQSize[q]) + 1]
      BY PutRing
    <3>2. \A i \in 1 .. n : c[i] = OSQCells[q][Wrap(O + i - 1, OSQSize[q]) + 1]
      BY ContentsIsSeq
    <3>3. \A i \in 1 .. n : i \in 1 .. n + 1
      BY <2>1
    <3> QED  BY <2>5, <3>1, <3>2, <3>3
  <2> HIDE DEF c, a, n, O
  <2>8. \A i \in 1 .. n + 1 : Contents(q)'[i] = a[i]
    BY <2>1, <2>3, <2>6, <2>7
  <2> QED  BY <2>3, <2>4, <2>8, SeqEqual DEF a
<1>5. \A f \in Slot \ {q} :
        ContentsOf(f)' = ContentsOf(f) /\ CapacityOf(f)' = CapacityOf(f)
  BY <1>2, <1>3, OtherContents
<1>6. ContentsOf(q)' = Append(Contents(q), m) /\ CapacityOf(q)' = OSQSize[q]
  BY <1>2, <1>4 DEF ContentsOf, CapacityOf
<1>7. /\ slotContents' = [slotContents EXCEPT ![q] = Append(Contents(q), m)]
      /\ slotCapacity' = [slotCapacity EXCEPT ![q] = OSQSize[q]]
      /\ slotContents[q] = Contents(q) /\ slotCapacity[q] = OSQSize[q]
  BY <1>1, <1>5, <1>6, SlotWritten DEF ContentsOf, CapacityOf
<1>8. slotCapacity' = slotCapacity
  BY <1>7 DEF slotCapacity
<1>9. Len(Contents(q)) < OSQSize[q]
  BY ContentsIsSeq DEF NotFull
<1> QED  BY <1>7, <1>8, <1>9 DEF Slots!Send

LEMMA TakeReceives ==
    ASSUME RingInv, NEW q \in Queue, NEW t \in Task, OSQEntries[q] > 0, Take(q, t),
           UNCHANGED mvars
    PROVE  Slots!Receive(t, q)
<1>1. q \in Slot /\ RingInv'
  BY TakeRing DEF Slot
<1>2. /\ UNCHANGED <<OSQSize, OSQCells>>
      /\ OSQEntries' = [OSQEntries EXCEPT ![q] = OSQEntries[q] - 1]
      /\ OSQOut' = [OSQOut EXCEPT ![q] = OSQOut'[q]]
  BY TakeRing
<1>3. /\ OSQSize' = [OSQSize EXCEPT ![q] = OSQSize[q]]
      /\ OSQCells' = [OSQCells EXCEPT ![q] = OSQCells[q]]
      /\ OSQEntries'[q] = OSQEntries[q] - 1
  BY <1>2 DEF RingInv
<1>4. Contents(q) # <<>>
  BY ContentsIsSeq, RingNumbers
<1>5. Contents(q)' = Tail(Contents(q))
  <2> DEFINE c == Contents(q)
             a == Tail(Contents(q))
             n == OSQEntries[q]
             O == OSQOut[q]
  <2>1. n \in Nat /\ n > 0
    BY RingNumbers
  <2>2. c \in Seq(Message) /\ Len(c) = n
    BY ContentsIsSeq
  <2>3. a \in Seq(Message) /\ Len(a) = n - 1 /\ \A i \in 1 .. n - 1 : a[i] = c[i + 1]
    BY <1>4, <2>2, HeadTailProperties
  <2>4. Contents(q)' \in Seq(Message) /\ Len(Contents(q)') = n - 1
    BY <1>1, <1>3, ContentsIsSeqPrime
  <2>5. \A i \in 1 .. n - 1 :
          Contents(q)'[i] = OSQCells[q][Wrap(OSQOut'[q] + i - 1, OSQSize[q]) + 1]
    BY <1>1, <1>2, <1>3, ContentsIsSeqPrime
  <2>6. \A i \in 1 .. n - 1 :
          c[i + 1] = OSQCells[q][Wrap(O + (i + 1) - 1, OSQSize[q]) + 1]
    <3>1. \A i \in 1 .. n - 1 : i + 1 \in 1 .. n
      BY <2>1
    <3> QED  BY <3>1, ContentsIsSeq
  <2>7. \A i \in 1 .. n - 1 : Wrap(OSQOut'[q] + i - 1, OSQSize[q]) = Wrap(O + i, OSQSize[q])
    BY TakeRing
  <2>8. \A i \in 1 .. n - 1 : O + (i + 1) - 1 = O + i
    BY <2>1, RingNumbers
  <2> HIDE DEF c, a, n, O
  <2>9. \A i \in 1 .. n - 1 : Contents(q)'[i] = a[i]
    BY <2>3, <2>5, <2>6, <2>7, <2>8
  <2> QED  BY <2>3, <2>4, <2>9, SeqEqual DEF a
<1>6. \A f \in Slot \ {q} :
        ContentsOf(f)' = ContentsOf(f) /\ CapacityOf(f)' = CapacityOf(f)
  BY <1>2, <1>3, OtherContents
<1>7. ContentsOf(q)' = Tail(Contents(q)) /\ CapacityOf(q)' = OSQSize[q]
  BY <1>2, <1>5 DEF ContentsOf, CapacityOf
<1>8. /\ slotContents' = [slotContents EXCEPT ![q] = Tail(Contents(q))]
      /\ slotCapacity' = [slotCapacity EXCEPT ![q] = OSQSize[q]]
      /\ slotContents[q] = Contents(q) /\ slotCapacity[q] = OSQSize[q]
  BY <1>1, <1>6, <1>7, SlotWritten DEF ContentsOf, CapacityOf
<1>9. slotCapacity' = slotCapacity
  BY <1>8 DEF slotCapacity
<1>10. result' = [result EXCEPT ![t] = Head(Contents(q))]
  <2>1. result' = [result EXCEPT ![t] =
                     OSQCells[q][Wrap(OSQOut[q] + 1 - 1, OSQSize[q]) + 1]]
    BY TakeRing
  <2>2. 1 \in 1 .. OSQEntries[q]
    BY RingNumbers
  <2>3. Contents(q)[1] = OSQCells[q][Wrap(OSQOut[q] + 1 - 1, OSQSize[q]) + 1]
    BY <2>2, ContentsIsSeq
  <2>4. Head(Contents(q)) = Contents(q)[1]
    BY <1>4, ContentsIsSeq
  <2> QED  BY <2>1, <2>3, <2>4
<1> QED  BY <1>4, <1>8, <1>9, <1>10 DEF Slots!Receive

LEMMA EmptyDiscards ==
    ASSUME RingInv, NEW q \in Queue, Empty(q), UNCHANGED <<mvars, result>>
    PROVE  Slots!Discard(q)
<1>1. q \in Slot /\ RingInv' /\ OSQSize' = OSQSize
      /\ OSQEntries' = [OSQEntries EXCEPT ![q] = 0] /\ OSQEntries'[q] = 0
      /\ OSQOut' = [OSQOut EXCEPT ![q] = 0] /\ OSQCells' = OSQCells
  BY EmptyRing DEF Slot, Empty, RingInv
<1>2. /\ OSQSize' = [OSQSize EXCEPT ![q] = OSQSize[q]]
      /\ OSQCells' = [OSQCells EXCEPT ![q] = OSQCells[q]]
  BY <1>1 DEF RingInv
<1>3. ContentsOf(q)' = <<>> /\ CapacityOf(q)' = OSQSize[q]
  <2>1. Contents(q)' \in Seq(Message) /\ Len(Contents(q)') = 0
    BY <1>1, ContentsIsSeqPrime
  <2> QED  BY <1>1, <2>1, EmptySeq DEF ContentsOf, CapacityOf
<1>4. \A f \in Slot \ {q} :
        ContentsOf(f)' = ContentsOf(f) /\ CapacityOf(f)' = CapacityOf(f)
  BY <1>1, <1>2, OtherContents
<1>5. /\ slotContents' = [slotContents EXCEPT ![q] = <<>>]
      /\ slotCapacity' = [slotCapacity EXCEPT ![q] = OSQSize[q]]
      /\ slotCapacity[q] = OSQSize[q]
  BY <1>1, <1>3, <1>4, SlotWritten DEF CapacityOf
<1>6. slotCapacity' = slotCapacity
  BY <1>5 DEF slotCapacity
<1> QED  BY <1>5, <1>6 DEF Slots!Discard

LEMMA NewRingOpens ==
    ASSUME RingInv, NEW q \in Queue, NEW n \in RingSizes, NewRing(q, n),
           UNCHANGED mvars
    PROVE  Slots!Open(q, n, <<>>)
<1>1. q \in Slot /\ RingInv'
      /\ OSQEntries' = [OSQEntries EXCEPT ![q] = 0] /\ OSQEntries'[q] = 0
      /\ OSQSize' = [OSQSize EXCEPT ![q] = n] /\ OSQSize'[q] = n
  BY NewRingRing DEF Slot, RingInv
<1>2. ContentsOf(q)' = <<>> /\ CapacityOf(q)' = n
  <2>1. Contents(q)' \in Seq(Message) /\ Len(Contents(q)') = 0
    BY <1>1, ContentsIsSeqPrime
  <2> QED  BY <1>1, <2>1, EmptySeq DEF ContentsOf, CapacityOf
<1>3. \A f \in Slot \ {q} :
        ContentsOf(f)' = ContentsOf(f) /\ CapacityOf(f)' = CapacityOf(f)
  BY <1>1, OtherContents DEF NewRing
<1>4. /\ slotContents' = [slotContents EXCEPT ![q] = <<>>]
      /\ slotCapacity' = [slotCapacity EXCEPT ![q] = n]
  BY <1>1, <1>2, <1>3, SlotWritten
<1>5. Len(<<>>) <= n
  BY RingSizesFit, QueueAssumption
<1> QED  BY <1>4, <1>5 DEF Slots!Open, NewRing

-----------------------------------------------------------------------------
\* Mailboxes.

LEMMA MailWritten ==
    ASSUME NEW b \in Mbox, UNCHANGED qvars,
           OSEventState' \ {b} = OSEventState \ {b},
           \A f \in Mbox \ {b} : OSEventPointer'[f] = OSEventPointer[f]
    PROVE  /\ b \in Slot
           /\ slotContents[b] = IF b \in OSEventState THEN <<OSEventPointer[b]>> ELSE <<>>
           /\ slotContents' = [slotContents EXCEPT ![b] =
                IF b \in OSEventState' THEN <<OSEventPointer'[b]>> ELSE <<>>]
           /\ slotCapacity' = slotCapacity
           /\ slotCapacity' = [slotCapacity EXCEPT ![b] = 1]
<1> USE TablesAssumption
<1>1. b \in Slot /\ b \notin Queue
  BY DEF Slot
<1>2. \A f \in Slot \ {b} : ContentsOf(f)' = ContentsOf(f) /\ CapacityOf(f)' = CapacityOf(f)
  BY DEF Slot, ContentsOf, CapacityOf, Contents, qvars, ring
<1>3. /\ ContentsOf(b)' = (IF b \in OSEventState' THEN <<OSEventPointer'[b]>> ELSE <<>>)
      /\ CapacityOf(b)' = 1
  BY <1>1 DEF ContentsOf, CapacityOf
<1>4. /\ slotContents' = [slotContents EXCEPT ![b] =
           IF b \in OSEventState' THEN <<OSEventPointer'[b]>> ELSE <<>>]
      /\ slotCapacity' = [slotCapacity EXCEPT ![b] = 1]
      /\ slotContents[b] = ContentsOf(b)
  BY <1>1, <1>2, <1>3, SlotWritten
<1>5. slotCapacity' = slotCapacity
  BY DEF slotCapacity, qvars
<1> QED  BY <1>1, <1>4, <1>5 DEF ContentsOf

\* The pointers are one per mailbox, and full slots are mailboxes.
MailTypes == OSEventPointer \in [Mbox -> Mail \cup {NoMail}]

LEMMA FillReplaces ==
    ASSUME MailTypes, NEW b \in Mbox, NEW m \in Mail, Fill(b, m),
           UNCHANGED <<qvars, result>>
    PROVE  Slots!Replace(b, m)
<1>1. /\ OSEventState' \ {b} = OSEventState \ {b} /\ b \in OSEventState'
      /\ \A f \in Mbox \ {b} : OSEventPointer'[f] = OSEventPointer[f]
      /\ OSEventPointer'[b] = m
  BY DEF Fill, MailTypes
<1>2. slotContents' = [slotContents EXCEPT ![b] = <<m>>] /\ slotCapacity' = slotCapacity
  BY <1>1, MailWritten
<1> QED  BY <1>2 DEF Slots!Replace

LEMMA CopyReceives ==
    ASSUME MailTypes, NEW b \in Mbox, b \in OSEventState, NEW t \in Task, CopyMail(b, t),
           UNCHANGED qvars
    PROVE  Slots!Receive(t, b)
<1>1. /\ OSEventState' \ {b} = OSEventState \ {b} /\ b \notin OSEventState'
      /\ \A f \in Mbox \ {b} : OSEventPointer'[f] = OSEventPointer[f]
      /\ result' = [result EXCEPT ![t] = OSEventPointer[b]]
  BY DEF CopyMail
<1>2. /\ slotContents' = [slotContents EXCEPT ![b] = <<>>] /\ slotCapacity' = slotCapacity
      /\ slotContents[b] = <<OSEventPointer[b]>>
  BY <1>1, MailWritten
<1>3. /\ <<OSEventPointer[b]>> # <<>> /\ Head(<<OSEventPointer[b]>>) = OSEventPointer[b]
      /\ Tail(<<OSEventPointer[b]>>) = <<>>
  OBVIOUS
<1> QED  BY <1>1, <1>2, <1>3 DEF Slots!Receive

LEMMA MboxCreateOpens ==
    ASSUME MailTypes, NEW b \in Mbox, NEW m \in Mail \cup {NoMail}, OSMboxCreate(b, m),
           UNCHANGED qvars
    PROVE  \E first \in {<<>>} \cup {<<x>> : x \in Message \cup Mail} : Slots!Open(b, 1, first)
<1>1. /\ OSEventState' \ {b} = OSEventState \ {b}
      /\ b \in OSEventState' <=> m # NoMail
      /\ \A f \in Mbox \ {b} : OSEventPointer'[f] = OSEventPointer[f]
      /\ OSEventPointer'[b] = m /\ UNCHANGED result
  BY DEF OSMboxCreate, MailTypes
<1> DEFINE first == IF m = NoMail THEN <<>> ELSE <<m>>
<1>2. /\ slotContents' = [slotContents EXCEPT ![b] = first]
      /\ slotCapacity' = [slotCapacity EXCEPT ![b] = 1]
  BY <1>1, MailWritten
<1>3. first \in {<<>>} \cup {<<x>> : x \in Message \cup Mail}
  OBVIOUS
<1>4. Len(first) <= 1
  OBVIOUS
<1> QED  BY <1>1, <1>2, <1>3, <1>4 DEF Slots!Open

LEMMA MboxDeleteDiscards ==
    ASSUME MailTypes, NEW b \in Mbox, OSMboxDelete(b), UNCHANGED qvars
    PROVE  Slots!Discard(b)
<1>1. /\ OSEventState' \ {b} = OSEventState \ {b} /\ b \notin OSEventState'
      /\ \A f \in Mbox \ {b} : OSEventPointer'[f] = OSEventPointer[f]
      /\ UNCHANGED result
  BY DEF OSMboxDelete, MailTypes
<1>2. slotContents' = [slotContents EXCEPT ![b] = <<>>] /\ slotCapacity' = slotCapacity
  BY <1>1, MailWritten
<1> QED  BY <1>1, <1>2 DEF Slots!Discard

-----------------------------------------------------------------------------
\* Every step.

LEMMA MailTypesStep ==
    ASSUME MailTypes, [MessagesNext]_xvars PROVE MailTypes'
<1>1. CASE UNCHANGED OSEventPointer
  BY <1>1 DEF MailTypes
<1>2. CASE MboxStep
  BY <1>2 DEF MboxStep, OSMboxCreate, OSMboxDelete, OSMboxPendTake, OSMboxPendWait,
     OSMboxPostWake, OSMboxPostKeep, Fill, OSMboxPendReturn, OSMboxPendPosted,
     OSMboxPendBoth, OSMboxPendTimeout, CopyMail, mvars, MailTypes
<1> QED  BY <1>1, <1>2 DEF MessagesNext, xvars, messages, mvars

LEMMA SlotsUnchanged ==
    UNCHANGED <<qvars, mvars, result>> => UNCHANGED Slots!slots
BY DEF Slots!slots, slotContents, slotCapacity, Contents, qvars, ring, mvars

LEMMA GiveUpSlots ==
    ASSUME UNCHANGED <<qvars, mvars>>, NEW t \in Task,
           result' = [result EXCEPT ![t] = "none"]
    PROVE  Slots!GiveUp(t)
BY DEF Slots!GiveUp, slotContents, slotCapacity, Contents, qvars, ring, mvars

LEMMA QueueSlots ==
    ASSUME MsgInv, QueueStep, UNCHANGED mvars PROVE [Slots!Next]_Slots!slots
<1> DEFINE Goal == [Slots!Next]_Slots!slots
<1> SUFFICES Goal
  OBVIOUS
<1>0. DataInv /\ RingInv /\ Queue \subseteq Slot
  BY DEF MsgInv, Slot
<1>1. ASSUME NEW q \in Queue, NEW n \in RingSizes, NewRing(q, n) PROVE Goal
  <2>1. Slots!Open(q, n, <<>>)
    BY <1>0, <1>1, NewRingOpens
  <2> QED  BY <2>1 DEF Slots!Next
<1>2. ASSUME NEW q \in Queue, NEW t \in Task, OSQEntries[q] > 0, Take(q, t) PROVE Goal
  <2>1. Slots!Receive(t, q)
    BY <1>0, <1>2, TakeReceives
  <2> QED  BY <2>1 DEF Slots!Next
<1>3. ASSUME NEW q \in Queue, Empty(q), UNCHANGED result PROVE Goal
  <2>1. Slots!Discard(q)
    BY <1>0, <1>3, EmptyDiscards
  <2> QED  BY <2>1 DEF Slots!Next
<1>4. ASSUME NEW q \in Queue, NEW m \in Message, NotFull(q), Put(q, m), UNCHANGED result
      PROVE  Goal
  <2>1. Slots!Send(q, m)
    BY <1>0, <1>4, PutSends
  <2> QED  BY <2>1 DEF Slots!Next
<1>5. ASSUME NEW q \in Queue, PendTake(q) PROVE Goal
  BY <1>2, <1>5 DEF PendTake, Reading, InTask
<1>6. ASSUME NEW q \in Queue, NEW w, PendWait(q, w) PROVE Goal
  BY <1>6, SlotsUnchanged DEF PendWait
<1>7. ASSUME NEW t \in Task, PendReturn(t) PROVE Goal
  <2>1. at[t] = "queue" /\ "queue" \in Call
    BY <1>7 DEF PendReturn, PendPosted, PendBoth, PendTimeout, ReturnPosted, ReturnBoth,
       ReturnTimeout, Resumed, Call
  <2>2. PICK e \in Queue : e = event[t]
    BY <1>0, <2>1, DataFacts DEF Callers
  <2>3. CASE PendTimeout(t)
    <3>1. Slots!GiveUp(t)
      BY <2>3, GiveUpSlots DEF PendTimeout
    <3> QED  BY <3>1 DEF Slots!Next
  <2>4. CASE PendPosted(t) \/ PendBoth(t)
    <3>1. HasMessage(event[t]) /\ Take(e, t)
      BY <1>0, <2>1, <2>2, <2>4, GrantedFinds DEF PendPosted, PendBoth
    <3>2. OSQEntries[e] > 0
      BY <2>2, <3>1 DEF HasMessage
    <3> QED  BY <1>2, <3>1, <3>2
  <2> QED  BY <1>7, <2>3, <2>4 DEF PendReturn
<1> HIDE DEF Goal
<1>8. ASSUME NEW q \in Queue, NEW n \in QueueSizes,
             OSQueueCreate(q, n) \/ OSDQueueCreate(q, n)
      PROVE  Goal
  BY <1>1, <1>8, RingSizesFit DEF OSQueueCreate, OSDQueueCreate
<1>9. ASSUME NEW q \in Queue,
             \/ OSDQueueDelete(q) \/ OSRQueue(q)
             \/ OSCleanQueue(q) \/ OSDQueueClean(q) \/ uart_rx_overflow(q)
      PROVE  Goal
  BY <1>1, <1>3, <1>5, <1>9, RingSizesFit
  DEF OSDQueueDelete, OSRQueue, OSCleanQueue, OSDQueueClean, uart_rx_overflow
<1>10. ASSUME NEW q \in Queue, NEW m \in Message,
              OSQueuePost(q, m) \/ OSDQueuePost(q, m) \/ OSWQueue(q, m)
       PROVE  Goal
  BY <1>4, <1>10 DEF OSQueuePost, OSDQueuePost, OSWQueue, PostKeep, PostWake
<1>11. ASSUME NEW q \in Queue, NEW w \in 0 .. MaxWait,
              OSQueuePend(q, w) \/ OSDQueuePend(q, w)
       PROVE  Goal
  BY <1>5, <1>6, <1>11 DEF OSQueuePend, OSDQueuePend
<1>12. ASSUME NEW t \in Task, OSQueuePendReturn(t) \/ OSDQueuePendReturn(t) PROVE Goal
  BY <1>7, <1>12 DEF OSQueuePendReturn, OSDQueuePendReturn
<1> QED  BY <1>8, <1>9, <1>10, <1>11, <1>12 DEF QueueStep

LEMMA MboxSlots ==
    ASSUME MsgInv, MailTypes, MboxStep, UNCHANGED qvars PROVE [Slots!Next]_Slots!slots
<1> DEFINE Goal == [Slots!Next]_Slots!slots
<1>0. DataInv /\ RingInv /\ Mbox \subseteq Slot /\ \A b \in Mbox : b \notin Queue
  BY TablesAssumption DEF MsgInv, Slot
<1>1. ASSUME NEW b \in Mbox, NEW m \in Mail \cup {NoMail}, OSMboxCreate(b, m) PROVE Goal
  BY <1>1, MboxCreateOpens, RingSizesFit DEF Slots!Next
<1>2. ASSUME NEW b \in Mbox, OSMboxDelete(b) PROVE Goal
  BY <1>2, MboxDeleteDiscards DEF Slots!Next
<1>3. ASSUME NEW b \in Mbox, NEW t \in Task, b \in OSEventState, CopyMail(b, t) PROVE Goal
  BY <1>3, CopyReceives DEF Slots!Next
<1>4. ASSUME NEW b \in Mbox, NEW m \in Mail, Fill(b, m), UNCHANGED result PROVE Goal
  BY <1>4, FillReplaces DEF Slots!Next
<1>5. ASSUME NEW b \in Mbox, NEW w, OSMboxPendWait(b, w) PROVE Goal
  BY <1>5, SlotsUnchanged DEF OSMboxPendWait
<1>6. ASSUME NEW t \in Task, OSMboxPendReturn(t) PROVE Goal
  <2>1. at[t] = "mbox" /\ "mbox" \in Call
    BY <1>6 DEF OSMboxPendReturn, OSMboxPendPosted, OSMboxPendBoth, OSMboxPendTimeout,
       ReturnPosted, ReturnBoth, ReturnTimeout, Resumed, Call
  <2>2. PICK e \in Mbox : e = event[t]
    BY <1>0, <2>1, DataFacts DEF Callers
  <2>3. CASE OSMboxPendTimeout(t)
    <3>1. Slots!GiveUp(t)
      BY <2>3, GiveUpSlots DEF OSMboxPendTimeout
    <3> QED  BY <3>1 DEF Slots!Next
  <2>4. CASE OSMboxPendPosted(t) \/ OSMboxPendBoth(t)
    <3>1. HasMessage(event[t]) /\ CopyMail(e, t)
      BY <1>0, <2>1, <2>2, <2>4, GrantedFinds DEF OSMboxPendPosted, OSMboxPendBoth
    <3>2. e \in OSEventState
      BY <1>0, <2>2, <3>1 DEF HasMessage
    <3> QED  BY <1>3, <3>1, <3>2
  <2> QED  BY <1>6, <2>3, <2>4 DEF OSMboxPendReturn
<1> HIDE DEF Goal
<1>7. ASSUME NEW b \in Mbox, OSMboxPendTake(b) PROVE Goal
  BY <1>3, <1>7 DEF OSMboxPendTake, Fetching, InTask
<1>8. ASSUME NEW b \in Mbox, NEW m \in Mail, OSMboxPostWake(b, m) \/ OSMboxPostKeep(b, m)
      PROVE  Goal
  BY <1>4, <1>8 DEF OSMboxPostWake, OSMboxPostKeep
<1>9. Goal
  BY <1>1, <1>2, <1>5, <1>6, <1>7, <1>8 DEF MboxStep
<1> QED  BY <1>9 DEF Goal

\* Queues and mailboxes implement Mailslots: messages come out once, in order,
\* whatever the interleaving of tasks, handlers and timeouts.
THEOREM MessagesImplementMailslots ==
    ASSUME MaxWait <= TICK_COUNT_OVERFLOW, ~ DeleteInUse, ReaderKeepsUp
    PROVE  MessagesSpec => ImplementsMailslots
<1>1. MessagesInit => Slots!Init /\ MailTypes
  <2> SUFFICES ASSUME MessagesInit PROVE Slots!Init /\ MailTypes
    OBVIOUS
  <2>1. RingInv
    BY MsgInitInv DEF MsgInv
  <2>2. \A q \in Queue : Contents(q) = <<>>
    BY <2>1, ContentsIsSeq DEF MessagesInit, QueueInit
  <2>3. slotContents = [e \in Queue \cup Mbox |-> <<>>]
    BY <2>2 DEF slotContents, MessagesInit, MboxInit
  <2>4. slotCapacity = [e \in Queue \cup Mbox |-> 1]
    BY DEF slotCapacity, MessagesInit, QueueInit
  <2> QED  BY <2>3, <2>4 DEF Slots!Init, MailTypes, MessagesInit, MboxInit
<1>2. MailTypes /\ [MessagesNext]_xvars => MailTypes'
  BY MailTypesStep
<1>3. MsgInv /\ MailTypes /\ [MessagesNext]_xvars => [Slots!Next]_Slots!slots
  BY QueueSlots, MboxSlots, SlotsUnchanged DEF MessagesNext, xvars, messages
<1> QED
  BY <1>1, <1>2, <1>3, MsgAlways, PTL DEF MessagesSpec, ImplementsMailslots, Slots!Spec

-----------------------------------------------------------------------------
\* Type correctness.

\* What the types of the messages rest on, beside the rings: only full mailboxes
\* are read, and they hold mail.
Mailed ==
    /\ OSEventState \subseteq Mbox
    /\ MailTypes
    /\ \A b \in OSEventState : OSEventPointer[b] # NoMail

Sized ==
    /\ \A q \in Queue : OSQSize[q] \in RingSizes
    /\ Dynamic \subseteq Queue
    /\ iQueueAddress \in 0 .. QUEUE_HEAP_SIZE

Received == result \in [Task -> Message \cup Mail \cup {"none"}]

Stored == OSEventAllocated \subseteq Slot /\ Mailed /\ Sized /\ Received

\* The cell a reader takes from a queue that is not empty was written.
LEMMA FirstWritten ==
    ASSUME RingInv, NEW q \in Queue, OSQEntries[q] > 0
    PROVE  OSQCells[q][Cell(q, OSQOut[q]) + 1] \in Message
<1>1. OSQSize[q] \in Nat /\ OSQEntries[q] \in Nat /\ OSQOut[q] \in Nat /\ OSQOut[q] <= OSQSize[q]
  BY RingNumbers
<1>2. Cell(q, OSQOut[q]) = Wrap(OSQOut[q] + 1 - 1, OSQSize[q])
  BY <1>1 DEF Cell, Wrap
<1>3. \A i \in 1 .. OSQEntries[q] :
        OSQCells[q][Wrap(OSQOut[q] + i - 1, OSQSize[q]) + 1] \in Message
  BY DEF RingInv, Written
<1>4. 1 \in 1 .. OSQEntries[q]
  BY <1>1
<1> QED  BY <1>2, <1>3, <1>4

LEMMA TakeReceived ==
    ASSUME RingInv, Received, NEW q \in Queue, NEW t \in Task, Take(q, t), OSQEntries[q] > 0
    PROVE  Received'
BY FirstWritten DEF Take, Received

LEMMA QueueStored ==
    ASSUME MsgInv, Stored, QueueStep, UNCHANGED mvars
    PROVE  Stored'
<1> USE QueueAssumption DEF Stored
<1>0. RingInv /\ DataInv /\ Mailed'
  BY DEF MsgInv, Mailed, MailTypes, mvars
<1>1. ASSUME UNCHANGED <<OSQSize, Dynamic, iQueueAddress>> PROVE Sized'
  BY <1>1 DEF Sized
<1>2. ASSUME NEW q \in Queue, NEW n \in RingSizes, NewRing(q, n)
      PROVE  Received' /\ \A r \in Queue : OSQSize'[r] \in RingSizes
  BY <1>0, <1>2 DEF NewRing, Sized, Received, RingInv
<1>3. ASSUME NEW q \in Queue, NEW n \in QueueSizes,
             OSQueueCreate(q, n) \/ OSDQueueCreate(q, n)
      PROVE  Stored'
  <2>1. CreateEvent(q, Queue) /\ \E m \in RingSizes : NewRing(q, m)
    BY <1>3, RingSizesFit DEF OSQueueCreate, OSDQueueCreate
  <2>2. OSEventAllocated' \subseteq Slot
    BY <2>1 DEF CreateEvent, Slot
  <2>3. iQueueAddress' \in 0 .. QUEUE_HEAP_SIZE /\ Dynamic' \subseteq Queue
    <3>1. Rounded(n) \in Nat /\ iQueueAddress \in Nat /\ Dynamic \subseteq Queue
      <4>1. Rounded(n) \in 1 .. EntriesModulus - 1
        BY RingSizesFit
      <4> QED  BY <4>1 DEF Sized
    <3>2. CASE OSQueueCreate(q, n)
      BY <3>1, <3>2 DEF OSQueueCreate
    <3>3. CASE OSDQueueCreate(q, n)
      BY <3>1, <3>3 DEF OSDQueueCreate, Sized
    <3> QED  BY <1>3, <3>2, <3>3
  <2> QED  BY <1>0, <1>2, <2>1, <2>2, <2>3 DEF Sized
<1>4. ASSUME NEW q \in Queue, OSDQueueDelete(q) PROVE Stored'
  <2>1. DeleteEvent(q) /\ NewRing(q, 1)
    BY <1>4 DEF OSDQueueDelete
  <2>2. OSEventAllocated' \subseteq Slot
    BY <2>1 DEF DeleteEvent
  <2>3. iQueueAddress' \in 0 .. QUEUE_HEAP_SIZE /\ Dynamic' \subseteq Queue
    BY <1>4 DEF OSDQueueDelete, Sized
  <2> QED  BY <1>0, <1>2, <2>1, <2>2, <2>3, RingSizesFit DEF Sized
<1>5. ASSUME NEW q \in Queue, PendTake(q) PROVE Stored'
  <2>1. Received'
    BY <1>0, <1>5, TakeReceived DEF PendTake, Reading, InTask
  <2> QED  BY <1>0, <1>1, <1>5, <2>1 DEF PendTake, Take, evars, blocks
<1>6. ASSUME NEW q \in Queue, NEW w, PendWait(q, w) PROVE Stored'
  BY <1>0, <1>1, <1>6 DEF PendWait, JoinWaiters, qvars, Received
<1>7. ASSUME NEW q \in Queue,
             OSCleanQueue(q) \/ OSDQueueClean(q) \/ uart_rx_overflow(q)
      PROVE  Stored'
  BY <1>0, <1>1, <1>7
     DEF OSCleanQueue, OSDQueueClean, uart_rx_overflow, Empty, evars, blocks, Received
<1>8. ASSUME NEW q \in Queue, NEW m \in Message,
             PostKeep(q, m) \/ PostWake(q, m) \/ OSWQueue(q, m)
      PROVE  Stored'
  BY <1>0, <1>1, <1>8
     DEF PostKeep, PostWake, OSWQueue, WakeWaiter, Put, evars, blocks, Received
<1>9. ASSUME NEW t \in Task, PendReturn(t) PROVE Stored'
  <2>1. UNCHANGED OSEventAllocated
    BY <1>9 DEF PendReturn, PendPosted, PendBoth, PendTimeout, ReturnPosted, ReturnBoth,
       ReturnTimeout, Return
  <2>2. UNCHANGED <<OSQSize, Dynamic, iQueueAddress>>
    BY <1>9 DEF PendReturn, PendPosted, PendBoth, PendTimeout, Take, qvars
  <2>3. Received'
    <3>1. CASE PendTimeout(t)
      BY <3>1 DEF PendTimeout, Received
    <3>2. CASE PendPosted(t) \/ PendBoth(t)
      <4>1. Take(event[t], t) /\ HasMessage(event[t])
        BY <1>0, <3>2, GrantedFinds DEF PendPosted, PendBoth, Call
      <4>2. at[t] = "queue"
        BY <3>2 DEF PendPosted, PendBoth, ReturnPosted, ReturnBoth, Resumed
      <4>3. event[t] \in Queue
        BY <1>0, <4>2, DataFacts DEF Callers, Call
      <4> QED  BY <1>0, <4>1, <4>3, TakeReceived DEF HasMessage
    <3> QED  BY <1>9, <3>1, <3>2 DEF PendReturn
  <2> QED  BY <1>0, <1>1, <2>1, <2>2, <2>3
<1> QED
  BY <1>3, <1>4, <1>5, <1>6, <1>7, <1>8, <1>9
  DEF QueueStep, OSQueuePend, OSDQueuePend, OSQueuePost, OSDQueuePost, OSRQueue,
      OSQueuePendReturn, OSDQueuePendReturn

LEMMA MboxStored ==
    ASSUME MsgInv, Stored, MboxStep, UNCHANGED qvars
    PROVE  Stored'
<1> USE DEF Stored
<1>0. DataInv /\ Sized'
  BY DEF MsgInv, Sized, qvars
<1>1. ASSUME NEW b \in Mbox, NEW m \in Mail \cup {NoMail}, OSMboxCreate(b, m)
      PROVE  Stored'
  <2>1. OSEventAllocated' \subseteq Slot
    BY <1>1 DEF OSMboxCreate, CreateEvent, Slot
  <2> QED  BY <1>0, <1>1, <2>1 DEF OSMboxCreate, Mailed, MailTypes, Received
<1>2. ASSUME NEW b \in Mbox, OSMboxDelete(b) PROVE Stored'
  <2>1. OSEventAllocated' \subseteq Slot
    BY <1>2 DEF OSMboxDelete, DeleteEvent
  <2> QED  BY <1>0, <1>2, <2>1 DEF OSMboxDelete, Mailed, MailTypes, Received
<1>3. ASSUME NEW b \in Mbox, NEW t \in Task, b \in OSEventState, CopyMail(b, t)
      PROVE  Mailed' /\ Received'
  BY <1>3 DEF CopyMail, Mailed, MailTypes, Received
<1>4. ASSUME NEW b \in Mbox, OSMboxPendTake(b) PROVE Stored'
  BY <1>0, <1>3, <1>4 DEF OSMboxPendTake, Fetching, InTask, evars, blocks
<1>5. ASSUME NEW b \in Mbox, NEW w, OSMboxPendWait(b, w) PROVE Stored'
  BY <1>0, <1>5 DEF OSMboxPendWait, JoinWaiters, Mailed, MailTypes, Received, mvars
<1>6. ASSUME NEW b \in Mbox, NEW m \in Mail, Fill(b, m) PROVE Mailed'
  BY <1>6, MboxAssumption DEF Fill, Mailed, MailTypes
<1>7. ASSUME NEW b \in Mbox, NEW m \in Mail, OSMboxPostWake(b, m) \/ OSMboxPostKeep(b, m)
      PROVE  Stored'
  BY <1>0, <1>6, <1>7
     DEF OSMboxPostWake, OSMboxPostKeep, WakeWaiter, evars, blocks, Received
<1>8. ASSUME NEW t \in Task, OSMboxPendReturn(t) PROVE Stored'
  <2>1. UNCHANGED OSEventAllocated
    BY <1>8 DEF OSMboxPendReturn, OSMboxPendPosted, OSMboxPendBoth, OSMboxPendTimeout,
       ReturnPosted, ReturnBoth, ReturnTimeout, Return
  <2>2. CASE OSMboxPendTimeout(t)
    BY <1>0, <2>1, <2>2 DEF OSMboxPendTimeout, Mailed, MailTypes, Received, mvars
  <2>3. CASE OSMboxPendPosted(t) \/ OSMboxPendBoth(t)
    <3>1. CopyMail(event[t], t) /\ HasMessage(event[t])
      BY <1>0, <2>3, GrantedFinds DEF OSMboxPendPosted, OSMboxPendBoth, Call
    <3>2. at[t] = "mbox"
      BY <2>3 DEF OSMboxPendPosted, OSMboxPendBoth, ReturnPosted, ReturnBoth, Resumed
    <3>3. event[t] \in Mbox /\ event[t] \notin Queue
      BY <1>0, <3>2, DataFacts, TablesAssumption DEF Callers, Call
    <3>4. event[t] \in OSEventState
      BY <3>1, <3>3 DEF HasMessage
    <3> QED  BY <1>0, <1>3, <2>1, <3>1, <3>3, <3>4
  <2> QED  BY <1>8, <2>2, <2>3 DEF OSMboxPendReturn
<1> QED  BY <1>1, <1>2, <1>4, <1>5, <1>7, <1>8 DEF MboxStep

\* Every variable keeps its type.  A reader is never handed a blank cell or an
\* empty mailbox, a ring's pointers never leave it, and the static heap never
\* grows beyond its size.
THEOREM MessagesTypeCorrect ==
    ASSUME MaxWait <= TICK_COUNT_OVERFLOW, ~ DeleteInUse, ReaderKeepsUp
    PROVE  MessagesSpec => []MessagesTypeOK
<1>1. MessagesInit => Stored
  BY QueueAssumption, RingSizesFit DEF MessagesInit, EventInit, QueueInit, MboxInit, Stored, Mailed,
     MailTypes, Sized, Received
<1>2. ASSUME MsgInv, Stored, [MessagesNext]_xvars PROVE Stored'
  <2>1. CASE (KernelStep /\ UNCHANGED messages) \/ UNCHANGED xvars
    <3>1. UNCHANGED <<OSEventAllocated, messages>>
      BY <2>1 DEF KernelStep, blocks, xvars, evars
    <3> QED
      BY <1>2, <3>1 DEF messages, qvars, mvars, Stored, Mailed, MailTypes, Sized, Received
  <2>2. CASE QueueStep /\ UNCHANGED mvars
    BY <1>2, <2>2, QueueStored
  <2>3. CASE MboxStep /\ UNCHANGED qvars
    BY <1>2, <2>3, MboxStored
  <2> QED  BY <1>2, <2>1, <2>2, <2>3 DEF MessagesNext
<1>3. ASSUME MsgInv, Stored PROVE MessagesTypeOK
  <2>1. DataInv /\ EventInv /\ EventTypes /\ Callers /\ RingInv
    BY <1>3, DataFacts DEF MsgInv
  <2>2. ASSUME NEW t \in Task
        PROVE  /\ at[t] = "queue" => event[t] \in Queue
               /\ at[t] = "mbox" => event[t] \in Mbox
               /\ at[t] \in {"run", "delay", "queue", "mbox"}
    BY <2>1 DEF EventTypes, Callers, Call
  <2>3. ASSUME NEW q \in Queue
        PROVE  /\ OSQSize[q] \in RingSizes
               /\ OSQEntries[q] \in 0 .. EntriesModulus - 1
               /\ OSQIn[q] \in 0 .. OSQSize[q] /\ OSQOut[q] \in 0 .. OSQSize[q]
               /\ OSQCells[q] \in [1 .. OSQSize[q] -> Message \cup {Blank}]
    BY <1>3, <2>1, QueueAssumption, RingSizesFit DEF RingInv, RingShape, Stored, Sized
  <2> QED
    BY <1>3, <2>1, <2>2, <2>3, WaitersBounded
    DEF MessagesTypeOK, Stored, Mailed, MailTypes, Sized, Received, Slot
<1>4. Stored /\ MsgInv /\ [MessagesNext]_xvars => Stored'
  BY <1>2
<1>5. MsgInv /\ Stored => MessagesTypeOK
  BY <1>3
<1> QED  BY <1>1, <1>4, <1>5, MsgAlways, PTL DEF MessagesSpec
=============================================================================
