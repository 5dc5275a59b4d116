SPECIFICATION Spec
CONSTANTS
    Caller = {"monitor", "terminal"}
    Terminal = {"terminal"}
    AddressesOf <- const_AddressesOf
    DeviceOf <- const_DeviceOf
    Wiping = {"T500"}
    Slave = {1, 2}
    BadSlave = {250}
    NREGS = 2
    Quick = FALSE
    NoOne = NoOne
    Zero = Zero
    Failed = Failed
    Silent = Silent
INVARIANT AnswersTheQuestion
