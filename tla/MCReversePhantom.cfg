CONSTANTS
  Peers = {p1, p2}
  Names = {n1}
  Conns = {c1, c2, c3}
  MayUse <- EveryPeerMayUseEveryName
  None = None
SPECIFICATION Spec
CHECK_DEADLOCK FALSE
INVARIANT NoPhantomHost
