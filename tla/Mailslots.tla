----------------------------- MODULE Mailslots ------------------------------
(***************************************************************************)
(* What queues and mailboxes promise their users: a slot holds messages in *)
(* the order they were sent, at most its capacity of them; a message goes  *)
(* to one reader, once; a mailbox holds the latest message only.           *)
(***************************************************************************)
EXTENDS Naturals, Sequences

CONSTANTS
    Slot,        \* all slots
    Latest,      \* the slots that hold only the latest message
    Reader,
    Message,
    Capacity,    \* how many messages a slot may be opened for
    Failure      \* what a read that gets no message returns

VARIABLES
    contents,   \* the messages in each slot
    capacity,   \* the messages each slot holds
    got         \* what each reader's last read returned

slots == <<contents, capacity, got>>

Init ==
    /\ contents = [c \in Slot |-> <<>>]
    /\ capacity = [c \in Slot |-> 1]
    /\ got \in [Reader -> Failure]

Open(c, n, first) ==
    /\ Len(first) <= n
    /\ contents' = [contents EXCEPT ![c] = first]
    /\ capacity' = [capacity EXCEPT ![c] = n]
    /\ UNCHANGED got

Send(c, m) ==
    /\ Len(contents[c]) < capacity[c]
    /\ contents' = [contents EXCEPT ![c] = Append(@, m)]
    /\ UNCHANGED <<capacity, got>>

Replace(c, m) ==
    /\ c \in Latest
    /\ contents' = [contents EXCEPT ![c] = <<m>>]
    /\ UNCHANGED <<capacity, got>>

Receive(r, c) ==
    /\ contents[c] # <<>>
    /\ got' = [got EXCEPT ![r] = Head(contents[c])]
    /\ contents' = [contents EXCEPT ![c] = Tail(@)]
    /\ UNCHANGED capacity

GiveUp(r) ==
    /\ \E f \in Failure : got' = [got EXCEPT ![r] = f]
    /\ UNCHANGED <<contents, capacity>>

Discard(c) ==
    /\ contents' = [contents EXCEPT ![c] = <<>>]
    /\ UNCHANGED <<capacity, got>>

Next ==
    \/ \E c \in Slot :
         \/ \E n \in Capacity, first \in {<<>>} \cup {<<m>> : m \in Message} :
              Open(c, n, first)
         \/ \E m \in Message : Send(c, m) \/ Replace(c, m)
         \/ \E r \in Reader : Receive(r, c)
         \/ Discard(c)
    \/ \E r \in Reader : GiveUp(r)

Spec == Init /\ [][Next]_slots
=============================================================================
