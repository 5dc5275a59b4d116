------------------------------ MODULE MCKernel ------------------------------
\* Model-checking instance of BrtosKernel: the three tasks of the firmware in
\* the order of their priorities (Terminal, Monitors, System_Time), with a
\* free priority between them as in tasks.h.
EXTENDS BrtosKernel, TLC

const_Priority == 1 :> 1 @@ 2 :> 2 @@ 3 :> 4
=============================================================================
