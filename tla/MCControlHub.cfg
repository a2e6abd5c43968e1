CONSTANTS
  Conduits = {c1, c2}
  Sessions = {s1}
  Forwards = {f1}
  Claims = {k1}
  InboxCapacity = 1
  MaxInflight = 2
  MaxLongPoll = 1
  MaxTunnels = 2
  MaxParked = 1
  MaxPerConduit = 1
  MaxRequests = 2
  None = None
SPECIFICATION Spec
SYMMETRY Symmetry
CHECK_DEADLOCK FALSE
INVARIANTS ForwardsHaveOwners NoMisdelivery NoLostWakeup LongPollBudget ClaimPoolExact DeadIsHeard MuxBooksAgree
