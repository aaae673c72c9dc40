SPECIFICATION Spec
CONSTANTS
    Scripts <- Unterminated
    Statuses = {0}
    MaxKernel = 0
CHECK_DEADLOCK FALSE
INVARIANT RestIsKept
