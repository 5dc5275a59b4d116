-------------------------------- MODULE MCSem --------------------------------
\* Model-checking instance of BrtosSem.
EXTENDS BrtosSem, TLC

const_Priority == [t \in 1 .. NUMBER_OF_TASKS |-> t]
=============================================================================
