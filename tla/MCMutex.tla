------------------------------- MODULE MCMutex -------------------------------
\* Model-checking instance of BrtosMutex: as in the firmware, one ceiling lies
\* between the priorities of the tasks (the serial port's) and one above them
\* all (the SD card's).
EXTENDS BrtosMutex, TLC

const_Priority == 1 :> 1 @@ 2 :> 2 @@ 3 :> 4
=============================================================================
