SPECIFICATION TimerLiveSpec
CONSTANTS
  p = p
  q = q
  r = r
  Nil = Nil
  Procs = {p, q}
  Guards <- GuardsBoth
  MaxTime = 4
  MaxBlocks = 3
CONSTRAINT Own
PROPERTIES StaysArmed NeverDangling NeverEarly AllWake
CHECK_DEADLOCK FALSE
