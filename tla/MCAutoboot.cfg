SPECIFICATION FairSpec
CONSTANTS
    Scripts <- MixedScripts
    Statuses = {0, 2}
    MaxKernel = 1
CHECK_DEADLOCK FALSE
INVARIANTS
    StatusIsItsOwn
    OrderIsKept
    OutputIsItsOwn
    AnswerIsSeen
    SuccessIsReal
PROPERTY ScriptEnds
