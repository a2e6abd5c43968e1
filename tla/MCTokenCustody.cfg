CONSTANTS
  Procs = {p1, p2}
  Sessions = {s1, s2}
  MaxToken = 4
  Nobody = Nobody
SPECIFICATION Spec
SYMMETRY Symmetry
CHECK_DEADLOCK FALSE
INVARIANTS Custody OneHeir
PROPERTY NeverRewound
