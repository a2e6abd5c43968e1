CONSTANTS
  ProbeInterval = 1
  IdleProbeInterval = 2
  ActiveWindow = 1
  MinDeadAfter = 2
  RttMultiple = 1
  Strikes = 2
  Rtts = {1, 3}
  MaxLate = 2
  Horizon = 8
  Never = Never
SPECIFICATION WatchSpec
INVARIANTS DetectedInTime VerdictIsEarned
