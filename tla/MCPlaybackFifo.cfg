SPECIFICATION Spec
CONSTANTS
    FIFO_FRAMES = 4
    Frame <- MCFrame
    Silence <- MCSilence
INVARIANTS
    RingShape
PROPERTY ImplementsQueue
