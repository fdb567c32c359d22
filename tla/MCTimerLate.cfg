SPECIFICATION TimerLiveSpec
CONSTANTS
  p = p
  q = q
  r = r
  Nil = Nil
  Procs = {p, q}
  Guards <- GuardsAfter
  MaxTime = 3
  MaxBlocks = 1
PROPERTY Wakes
CHECK_DEADLOCK FALSE
