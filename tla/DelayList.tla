------------------------------ MODULE DelayList ------------------------------
(***************************************************************************)
(* The delay list as the kernel links it (brtos/includes/BRTOS.h and the   *)
(* walk in OS_TICK_HANDLER): tasks doubly linked between Head and Tail     *)
(* (HeadTask and TailTask here) through pointers kept in their contexts,   *)
(* pointers that are never cleared when a task leaves.  The tick removes   *)
(* nodes while it walks, so it follows the Next pointer of a node it has   *)
(* just unlinked.                                                          *)
(*                                                                         *)
(* The list implements DelaySet.                                           *)
(***************************************************************************)
EXTENDS Naturals, FiniteSets

CONSTANT NUMBER_OF_TASKS

Task == 1 .. NUMBER_OF_TASKS
NULL == 0

ASSUME TaskAssumption == NUMBER_OF_TASKS \in Nat

VARIABLES
    HeadTask, TailTask,  \* the ends of the list, or NULL
    Next,        \* ContextTask[].Next
    Previous,    \* ContextTask[].Previous
    walk,        \* the node the tick is at; NULL when it has passed the last
    ticking,     \* the tick is walking the list
    expired,     \* tasks whose TimeToWait is the tick's
    last         \* history: the last change asked for

links == <<HeadTask, TailTask, Next, Previous>>
lvars == <<links, walk, ticking, expired, last>>

Init ==
    /\ HeadTask = NULL /\ TailTask = NULL
    /\ Next = [t \in Task |-> NULL] /\ Previous = [t \in Task |-> NULL]
    /\ walk = NULL /\ ticking = FALSE /\ expired = {} /\ last = <<>>

\* The first NUMBER_OF_TASKS + 1 nodes met from one on, along a link.
Chain(first, link) ==
    LET node[i \in 0 .. NUMBER_OF_TASKS] ==
          IF i = 0 THEN first
          ELSE IF node[i - 1] = NULL THEN NULL ELSE link[node[i - 1]]
    IN  node
Forward  == Chain(HeadTask, Next)
Backward == Chain(TailTask, Previous)

Nodes == {Forward[i] : i \in 0 .. NUMBER_OF_TASKS} \ {NULL}

-----------------------------------------------------------------------------
IncludeTaskIntoDelayList(t) ==
    IF TailTask # NULL
    THEN /\ Next' = [Next EXCEPT ![TailTask] = t, ![t] = NULL]
         /\ Previous' = [Previous EXCEPT ![t] = TailTask]
         /\ TailTask' = t
         /\ UNCHANGED HeadTask
    ELSE /\ HeadTask' = t /\ TailTask' = t
         /\ Next' = [Next EXCEPT ![t] = NULL]
         /\ Previous' = [Previous EXCEPT ![t] = NULL]

\* Mutants: the node after the one removed keeps its Previous pointer; Tail
\* still names it.
RemoveFromDelayListForward(t) ==
    /\ HeadTask' = IF t = HeadTask THEN Next[t] ELSE HeadTask
    /\ TailTask' = IF t = TailTask THEN Previous[t] ELSE TailTask
    /\ Next' = [Next EXCEPT ![Previous[t]] = Next[t]]
    /\ UNCHANGED Previous
RemoveFromDelayListTail(t) ==
    /\ HeadTask' = IF t = HeadTask THEN Next[t] ELSE HeadTask
    /\ Next' = [Next EXCEPT ![Previous[t]] = Next[t]]
    /\ Previous' = [Previous EXCEPT ![Next[t]] = Previous[t]]
    /\ UNCHANGED TailTask

RemoveFromDelayList(t) ==
    \/ /\ t = HeadTask /\ t = TailTask
       /\ HeadTask' = NULL /\ TailTask' = NULL
       /\ UNCHANGED <<Next, Previous>>
    \/ /\ t = HeadTask /\ t # TailTask
       /\ HeadTask' = Next[t]
       /\ Previous' = [Previous EXCEPT ![Next[t]] = NULL]
       /\ UNCHANGED <<TailTask, Next>>
    \/ /\ t # HeadTask /\ t = TailTask
       /\ TailTask' = Previous[t]
       /\ Next' = [Next EXCEPT ![Previous[t]] = NULL]
       /\ UNCHANGED <<HeadTask, Previous>>
    \/ /\ t # HeadTask /\ t # TailTask
       /\ Previous' = [Previous EXCEPT ![Next[t]] = Previous[t]]
       /\ Next' = [Next EXCEPT ![Previous[t]] = Next[t]]
       /\ UNCHANGED <<HeadTask, TailTask>>

\* A running task is not on the list when it starts a wait; one that was
\* posted before its deadline is, and takes itself off.
StartWait(t) ==
    /\ ~ticking /\ t \notin Nodes
    /\ IncludeTaskIntoDelayList(t)
    /\ last' = <<"include", t>>
    /\ UNCHANGED <<walk, ticking, expired>>

CancelWait(t) ==
    /\ ~ticking /\ t \in Nodes
    /\ RemoveFromDelayList(t)
    /\ last' = <<"remove", t>>
    /\ UNCHANGED <<walk, ticking, expired>>

TickBegin(S) ==
    /\ ~ticking /\ S \subseteq Nodes
    /\ ticking' = TRUE
    /\ walk' = HeadTask
    /\ expired' = S
    /\ UNCHANGED <<links, last>>

\* One turn of the loop: Task->Next is read after the node is unlinked.
TickVisit ==
    /\ ticking /\ walk # NULL
    /\ IF walk \in expired
       THEN RemoveFromDelayList(walk) /\ last' = <<"remove", walk>>
       ELSE UNCHANGED <<links, last>>
    /\ expired' = expired \ {walk}
    /\ walk' = Next'[walk]
    /\ UNCHANGED ticking

TickEnd ==
    /\ ticking /\ walk = NULL
    /\ ticking' = FALSE
    /\ expired' = {}
    /\ UNCHANGED <<links, walk, last>>

Step ==
    \/ \E t \in Task : StartWait(t) \/ CancelWait(t)
    \/ \E S \in SUBSET Task : TickBegin(S)
    \/ TickVisit \/ TickEnd

Spec == Init /\ [][Step]_lvars /\ WF_lvars(TickVisit)

-----------------------------------------------------------------------------
\* Properties.

\* Both directions see the same nodes in opposite orders, and end: no cycle,
\* no node reached through a stale pointer.
Length == Cardinality(Nodes)
BothWays ==
    /\ Forward[NUMBER_OF_TASKS] = NULL /\ Backward[NUMBER_OF_TASKS] = NULL
    /\ \A i \in 0 .. Length - 1 : Forward[i] = Backward[Length - 1 - i]

\* The list implements the set: no change asked for is lost, whatever the
\* stale pointers say, and a tick removes all that expires: no node is skipped
\* because the one before it was unlinked under the walk.
Set == INSTANCE DelaySet WITH delayed <- Nodes, expiring <- expired
ImplementsSet == Set!Spec
=============================================================================
