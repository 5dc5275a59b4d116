------------------------------ MODULE MCModbus ------------------------------
\* Two tasks, two meters on the line, one address that is none.
EXTENDS ModbusMaster

const_AddressesOf == [monitor |-> {1}, terminal |-> {2, 250}]
const_DeviceOf == [monitor |-> "PM210", terminal |-> "T500"]
=============================================================================
