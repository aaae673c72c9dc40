SPECIFICATION SnapshotSpec
CONSTANTS
    FIFO_FRAMES = 1
    BatteryMv = 4000
    GcrWrites <- OneBringUp
    GsrWrites <- None
    CodecWrites <- RateWrites
    OpenMayFail = TRUE
INVARIANTS
    HostTracksFlag
    RestoredIsAudible
    RestoredRateIsPlayed
PROPERTY RestoredIdlesOnceEarly
