SPECIFICATION LiveSpec
CONSTANTS
  pu = pu
  pv = pv
  pw = pw
  p1 = p1
  p2 = p2
  p3 = p3
  q1 = q1
  q2 = q2
  q3 = q3
  NULL = NULL
  Puns = {pu, pv, pw}
  Procs = {p1, p2, q1, q2}
  Place <- PlaceThree
  QSIZE = 2
  MaxSignals = 2
PROPERTY AddEnds
CHECK_DEADLOCK FALSE
