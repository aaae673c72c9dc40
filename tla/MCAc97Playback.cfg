SPECIFICATION Spec
CONSTANTS
    FIFO_FRAMES = 3
    BatteryMv = 4095
    GcrWrites <- LinkGcrWrites
    GsrWrites <- AllStatus
    CodecWrites <- PlaybackWrites
    OpenMayFail = FALSE
INVARIANTS
    TypeOK
    QueuedIsAudible
    IrqTracksStatus
    SilenceReleasesHost
    ProgrammedRateIsPlayed
    BatteryReadsAsSet
PROPERTY IdlesAfterTwoQuietCallbacks
