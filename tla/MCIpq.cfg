SPECIFICATION LiveSpec
CONSTANTS
  pu = pu
  pv = pv
  pw = pw
  p1 = p1
  p2 = p2
  p3 = p3
  q1 = q1
  q2 = q2
  q3 = q3
  NULL = NULL
  Puns = {pu, pv}
  Procs = {p1, p2, p3, q1, q2, q3}
  Place <- PlaceTwo
  QSIZE = 3
  MaxSignals = 3
INVARIANTS
  NoneLost
  Announced
PROPERTIES
  BoxSpec
  AddEnds
