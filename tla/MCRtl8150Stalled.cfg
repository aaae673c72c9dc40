SPECIFICATION Spec
CONSTANTS
    MTU = 5
    MAX_PACKET = 2
    STATUS_LEN = 1
    URB_LEN = 5
    RxSizes <- Fitting
    TxSizes <- None
    MaxRx = 3
    MaxTx = 0
CHECK_DEADLOCK FALSE
INVARIANT StoppedOnlyWhileBusy
