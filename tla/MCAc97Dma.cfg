SPECIFICATION DmaFairSpec
CONSTANTS
    FIFO_FRAMES = 7
    FIFO_REFILL_THRESHOLD = 4
    BatteryMv = 4000
    GcrWrites <- UpAndDown
    GsrWrites <- None
    CodecWrites <- None
    OpenMayFail = FALSE
    Burst = 2
    MaxWork = 6
INVARIANTS
    NoOverrun
    RoomIsRequested
    RequestsHoldGood
    TimerFollowsLink
PROPERTY StreamIsServed
