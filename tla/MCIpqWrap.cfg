SPECIFICATION Spec
CONSTANTS
  pu = pu
  pv = pv
  pw = pw
  p1 = p1
  p2 = p2
  p3 = p3
  q1 = q1
  q2 = q2
  q3 = q3
  NULL = NULL
  Puns = {pu, pv, pw}
  Procs = {p1, p2, p3}
  Place <- PlaceOne
  QSIZE = 2
  MaxSignals = 3
INVARIANT NoneLost
CHECK_DEADLOCK FALSE
