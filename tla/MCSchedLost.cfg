SPECIFICATION Spec
CONSTANTS
  pu = pu  pv = pv  a1 = a1  a2 = a2  a3 = a3  b = b  idleU = idleU  idleV = idleV
  NULL = NULL
  Puns = {pu, pv}
  Procs = {a1, a2, b}
  Idle <- IdleTwo
  Place <- PlaceTwo
  Pri <- PriTwo
  Created <- CreatedTwo
  IntrPuns = {pu}
  QCap = 4
  MaxIpi = 2
INVARIANT NeverLost
