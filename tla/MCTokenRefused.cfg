CONSTANTS
  Procs = {p1, p2}
  Sessions = {s1}
  MaxToken = 3
  Nobody = Nobody
SPECIFICATION Spec
CHECK_DEADLOCK FALSE
PROPERTY RefusedIsDeadWeight
