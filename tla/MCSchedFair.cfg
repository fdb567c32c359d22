SPECIFICATION LiveSpec
CONSTANTS
  pu = pu  pv = pv  a1 = a1  a2 = a2  a3 = a3  b = b  idleU = idleU  idleV = idleV
  NULL = NULL
  Puns = {pu}
  Procs = {a1, a2, a3}
  Idle <- IdleOne
  Place <- PlaceOne
  Pri <- PriFlat
  Created <- CreatedOne
  IntrPuns = {pu}
  QCap = 4
  MaxIpi = 2
PROPERTY ReadyRuns
