--------------------------- MODULE BrtosMessages ----------------------------
(***************************************************************************)
(* Tasks that use queues and mailboxes together, on the kernel, with       *)
(* posts from interrupt handlers: BrtosQueue and BrtosMbox composed, and   *)
(* shown to implement Mailslots.                                           *)
(***************************************************************************)
EXTENDS BrtosQueue, BrtosMbox

\* The two kinds have tables of their own.
ASSUME TablesAssumption == Queue \cap Mbox = {}

messages == <<qvars, mvars, result>>
xvars    == <<evars, messages>>

MessagesInit ==
    /\ EventInit
    /\ QueueInit
    /\ MboxInit
    /\ result = [t \in Task |-> "none"]

MessagesNext ==
    \/ KernelStep /\ UNCHANGED messages
    \/ QueueStep /\ UNCHANGED mvars
    \/ MboxStep /\ UNCHANGED qvars

MessagesSpec == MessagesInit /\ [][MessagesNext]_xvars

Returns(t) ==
    \/ (OSQueuePendReturn(t) \/ OSDQueuePendReturn(t)) /\ UNCHANGED mvars
    \/ OSMboxPendReturn(t) /\ UNCHANGED qvars

\* The tick keeps coming, handlers end, and the highest-priority task, when it is
\* scheduled again and again, gets to execute.
MessagesFairSpec ==
    /\ MessagesSpec
    /\ WF_xvars(TickTimer /\ UNCHANGED <<blocks, callers, messages>>)
    /\ \A n \in 1 .. MaxNesting :
         SF_xvars(IsrExit /\ iNesting = n /\ UNCHANGED <<blocks, callers, messages>>)
    /\ SF_xvars(Returns(Highest))

-----------------------------------------------------------------------------
\* Properties.

\* Every variable has its type, and a task waits for the kind of event it called.
MessagesTypeOK ==
    /\ OSEventAllocated \subseteq Queue \cup Mbox
    /\ \A t \in Task :
         /\ at[t] = "queue" => event[t] \in Queue
         /\ at[t] = "mbox" => event[t] \in Mbox
         /\ at[t] \in {"run", "delay", "queue", "mbox"}
    /\ OSEventWait \in [Event -> 0 .. NUMBER_OF_TASKS]
    /\ result \in [Task -> Message \cup Mail \cup {"none"}]
    /\ \A q \in Queue :
         /\ OSQSize[q] \in RingSizes /\ OSQEntries[q] \in 0 .. EntriesModulus - 1
         /\ OSQIn[q] \in 0 .. OSQSize[q] /\ OSQOut[q] \in 0 .. OSQSize[q]
         /\ OSQCells[q] \in [1 .. OSQSize[q] -> Message \cup {Blank}]
    /\ Dynamic \subseteq Queue /\ iQueueAddress \in 0 .. QUEUE_HEAP_SIZE
    /\ OSEventState \subseteq Mbox
    /\ OSEventPointer \in [Mbox -> Mail \cup {NoMail}]

HasMessage(e) ==
    IF e \in Queue THEN OSQEntries[e] > 0 ELSE e \in OSEventState

\* No task waits for a message that is there: no post goes unnoticed.
NoWaitWithData ==
    \A e \in Queue \cup Mbox : HasMessage(e) => OSEventWaitList[e] = {}

\* A task that a post has woken, and that will read without looking, finds a
\* message when it runs, however late that is.
WokenFindsMessage == \A t \in granted : HasMessage(event[t])

\* What a slot of Mailslots is here.
slotContents ==
    [e \in Queue \cup Mbox |->
       IF e \in Queue THEN Contents(e)
       ELSE IF e \in OSEventState THEN <<OSEventPointer[e]>> ELSE <<>>]
slotCapacity ==
    [e \in Queue \cup Mbox |-> IF e \in Queue THEN OSQSize[e] ELSE 1]

\* Queues and mailboxes are the slots of Mailslots: order kept, nothing lost,
\* duplicated or read before it was sent, through waits, races of post and
\* timeout, and posts from handlers.
Slots == INSTANCE Mailslots WITH
    Slot     <- Queue \cup Mbox,
    Latest   <- Mbox,
    Reader   <- Task,
    Message  <- Message \cup Mail,
    Capacity <- RingSizes,
    Failure  <- {"none"},
    contents <- slotContents,
    capacity <- slotCapacity,
    got      <- result
ImplementsMailslots == Slots!Spec

\* A reader with a timeout gets the processor back, with a message or without,
\* when its priority is the highest.
TimedReceiveEnds ==
    at[Highest] \in {"queue", "mbox"} /\ Highest \in timed ~> at[Highest] = "run"
=============================================================================
