----------------------------- MODULE MCDelayList -----------------------------
\* Model-checking instance of DelayList.
EXTENDS DelayList
=============================================================================
