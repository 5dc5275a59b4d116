----------------------------- MODULE BrtosMbox ------------------------------
(***************************************************************************)
(* BRTOS mailboxes (brtos/mbox.c) on the events of BrtosEvent: a slot for  *)
(* one message, which a later post overwrites.  Usage: each mailbox is     *)
(* read by one task.                                                       *)
(***************************************************************************)
EXTENDS BrtosEvent

CONSTANTS
    Mbox,        \* control blocks of mailboxes
    MboxReader,  \* the task that reads each mailbox
    Mail,        \* the messages posted
    NoMail       \* the NULL message

ASSUME MboxAssumption ==
    Mbox \subseteq Event /\ NoMail \notin Mail /\ MboxReader \in [Mbox -> Task]

VARIABLES
    OSEventState,    \* mailboxes with AVAILABLE_MESSAGE
    OSEventPointer   \* the message in the slot

mvars == <<OSEventState, OSEventPointer>>

MboxInit ==
    /\ OSEventState = {}
    /\ OSEventPointer = [b \in Mbox |-> NoMail]

-----------------------------------------------------------------------------
Fill(b, m) ==
    /\ OSEventPointer' = [OSEventPointer EXCEPT ![b] = m]
    /\ OSEventState' = OSEventState \cup {b}

\* Created empty, or with a first message.
OSMboxCreate(b, m) ==
    /\ CreateEvent(b, Mbox)
    /\ OSEventPointer' = [OSEventPointer EXCEPT ![b] = m]
    /\ OSEventState' = IF m = NoMail THEN OSEventState \ {b} ELSE OSEventState \cup {b}
    /\ UNCHANGED result

OSMboxDelete(b) ==
    /\ DeleteEvent(b)
    /\ OSEventPointer' = [OSEventPointer EXCEPT ![b] = NoMail]
    /\ OSEventState' = OSEventState \ {b}
    /\ UNCHANGED result

-----------------------------------------------------------------------------
\* Pending.

\* Mutant: the slot is not freed.
CopyMailKept(b, t) ==
    /\ result' = [result EXCEPT ![t] = OSEventPointer[b]]
    /\ UNCHANGED mvars

\* The message is copied and the slot freed, whatever its state.
CopyMail(b, t) ==
    /\ result' = [result EXCEPT ![t] = OSEventPointer[b]]
    /\ OSEventState' = OSEventState \ {b}
    /\ UNCHANGED OSEventPointer

Fetching(b) == InTask /\ b \in OSEventAllocated /\ currentTask = MboxReader[b]

OSMboxPendTake(b) ==
    /\ Fetching(b)
    /\ b \in OSEventState
    /\ CopyMail(b, currentTask)
    /\ UNCHANGED evars

OSMboxPendWait(b, w) ==
    /\ Fetching(b)
    /\ b \notin OSEventState
    /\ JoinWaiters(b, w, "mbox")
    /\ UNCHANGED <<mvars, result>>

OSMboxPendPosted(t)  == ReturnPosted(t, "mbox") /\ CopyMail(event[t], t)
OSMboxPendBoth(t)    == ReturnBoth(t, "mbox") /\ CopyMail(event[t], t)
OSMboxPendTimeout(t) ==
    /\ ReturnTimeout(t, "mbox")
    /\ result' = [result EXCEPT ![t] = "none"]
    /\ UNCHANGED mvars

OSMboxPendReturn(t) ==
    OSMboxPendPosted(t) \/ OSMboxPendBoth(t) \/ OSMboxPendTimeout(t)

-----------------------------------------------------------------------------
\* Posting.

\* Mutant: the slot is not marked when a waiter is woken.
OSMboxPostWakeUnmarked(b, m) ==
    /\ WakeWaiter(b)
    /\ OSEventPointer' = [OSEventPointer EXCEPT ![b] = m]
    /\ UNCHANGED <<OSEventState, result>>

OSMboxPostWake(b, m) ==
    /\ WakeWaiter(b)
    /\ Fill(b, m)
    /\ UNCHANGED result

\* Nobody waits: a message still in the slot is overwritten.
OSMboxPostKeep(b, m) ==
    /\ Posting(b)
    /\ OSEventWait[b] = 0
    /\ Fill(b, m)
    /\ UNCHANGED <<evars, result>>

-----------------------------------------------------------------------------
MboxStep ==
    \/ \E b \in Mbox :
         \/ \E m \in Mail \cup {NoMail} : OSMboxCreate(b, m)
         \/ OSMboxDelete(b)
         \/ OSMboxPendTake(b)
         \/ \E w \in 0 .. MaxWait : OSMboxPendWait(b, w)
         \/ \E m \in Mail : OSMboxPostWake(b, m) \/ OSMboxPostKeep(b, m)
    \/ \E t \in Task : OSMboxPendReturn(t)
=============================================================================
