------------------------------ MODULE DelaySet ------------------------------
(***************************************************************************)
(* What the kernel needs of its delay list: a set of tasks, to which a     *)
(* task that starts a timed wait is added, from which one that is woken    *)
(* before its deadline is removed, and from which the tick removes the     *)
(* tasks whose deadline it is, all of them and no others.                  *)
(***************************************************************************)
CONSTANT Task

VARIABLES delayed,   \* the tasks in the set
          expiring,  \* the tasks the tick in progress has yet to remove
          last       \* the last change asked for: no request is lost

dvars == <<delayed, expiring, last>>

Init == delayed = {} /\ expiring = {} /\ last = <<>>

Include(t) ==
    /\ expiring = {} /\ t \notin delayed
    /\ delayed' = delayed \cup {t}
    /\ last' = <<"include", t>>
    /\ UNCHANGED expiring

Remove(t) ==
    /\ expiring = {} /\ t \in delayed
    /\ delayed' = delayed \ {t}
    /\ last' = <<"remove", t>>
    /\ UNCHANGED expiring

TickBegin(S) ==
    /\ expiring = {} /\ S \subseteq delayed
    /\ expiring' = S
    /\ UNCHANGED <<delayed, last>>

Expire(t) ==
    /\ t \in expiring
    /\ delayed' = delayed \ {t}
    /\ last' = <<"remove", t>>
    /\ expiring' = expiring \ {t}

Next ==
    \/ \E t \in Task : Include(t) \/ Remove(t) \/ Expire(t)
    \/ \E S \in SUBSET Task : TickBegin(S)

Spec == Init /\ [][Next]_dvars /\ WF_dvars(\E t \in Task : Expire(t))
=============================================================================
