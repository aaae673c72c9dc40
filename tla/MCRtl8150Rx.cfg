SPECIFICATION FairSpec
CONSTANTS
    MTU = 5
    MAX_PACKET = 2
    STATUS_LEN = 1
    URB_LEN = 5
    RxSizes <- FittingAndTooLong
    TxSizes = {1}
    MaxRx = 3
    MaxTx = 1
CHECK_DEADLOCK FALSE
INVARIANTS
    OneFramePerUrb
PROPERTIES
    ImplementsLink
    EveryFrameArrives
