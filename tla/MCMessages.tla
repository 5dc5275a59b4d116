----------------------------- MODULE MCMessages -----------------------------
\* Model-checking instance of BrtosMessages: the first control blocks are
\* queues, the last one is a mailbox.
EXTENDS BrtosMessages, TLC

const_Reader == [q \in 1 .. BRTOS_MAX_QUEUE |-> 2]
const_MboxReader == [b \in Mbox |-> 1]
const_Priority == [t \in 1 .. NUMBER_OF_TASKS |-> t]
=============================================================================
