SPECIFICATION Spec
CONSTANTS
    Closers = {k1, k2}
    FirstSignals <- MCFirstSignals
    MaxChunks = 1
    MaxSignals = 1
INVARIANTS
    ExitIsFinal
    ClosersResolveAfterClosed
PROPERTIES
    CloseCompletes
    PullSeesAppends
CHECK_DEADLOCK FALSE
