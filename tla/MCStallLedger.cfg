CONSTANTS
  StreamWindow = 1
  ConnectionWindow = 3
  StallAge = 2
  EvaluateInterval = 1
  DataBlockedMemory = 4
  MaxStreams = 3
  MaxTime = 6
  Never = Never
SPECIFICATION Spec
INVARIANTS StuckWithinLimit RiseIsHeard
PROPERTY SlowIsSpared
