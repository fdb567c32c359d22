SPECIFICATION TimerSpec
CONSTANTS
  p = p
  q = q
  r = r
  Nil = Nil
  Procs = {p}
  Guards <- GuardsTwo
  MaxTime = 4
  MaxBlocks = 4
INVARIANT NoDangling
CHECK_DEADLOCK FALSE
