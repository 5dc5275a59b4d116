------------------------------ MODULE MCMonitor ------------------------------
\* Model-checking instance of MonitorLog: a monitor sampled every tick, or two of
\* which one is sampled half as often as the other.
EXTENDS MonitorLog, TLC

const_Every    == 1 :> 1
const_TwoRates == 1 :> 5 @@ 2 :> 10
=============================================================================
