SPECIFICATION FairSpec
CONSTANTS
    Caller = {"monitor", "terminal"}
    Terminal = {"terminal"}
    AddressesOf <- const_AddressesOf
    DeviceOf <- const_DeviceOf
    Wiping = {"T500"}
    Slave = {1, 2}
    BadSlave = {250}
    NREGS = 2
    Quick = TRUE
    NoOne = NoOne
    Zero = Zero
    Failed = Failed
    Silent = Silent
INVARIANTS ModbusTypeOK AnswersTheQuestion EntryIsTheMeters
PROPERTY ReadEnds
