SPECIFICATION Spec
CONSTANTS
    Budgets <- MCBudgets
    ReadSizes <- MCReadSizes
    ChunkDivisor = 2
    ChunkMax = 2
    CtlCost = 2
    Consumers = {c1}
    MaxPush = 3
    MaxEnd = 6
    MaxCtls = 3
INVARIANTS
    RingShape
    BudgetRespected
    ReadNeverSkips
PROPERTY
    ImplementsLog
