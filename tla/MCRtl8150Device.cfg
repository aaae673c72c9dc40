SPECIFICATION DeviceSpec
CONSTANTS
    MTU = 5
    MAX_PACKET = 2
    STATUS_LEN = 1
    URB_LEN = 5
    RxSizes = {2}
    TxSizes <- Odd
    MaxRx = 1
    MaxTx = 3
    PhyRegs = {0, 1}
    PhyWord <- SomeWords
    Words = {0, 30765}
INVARIANTS
    TypeOK
    SentWhole
    WordIsTheOneAsked
    CarrierStays
PROPERTY PollsEnd
