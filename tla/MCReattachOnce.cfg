SPECIFICATION Spec
CONSTANTS
    MaxBytes = 2
    MaxLegs = 4
    MaxAttempts = 2
    MaxAxes = 3
    UnackedMax = 2
INVARIANTS
    InputAppliedOnce
CHECK_DEADLOCK FALSE
