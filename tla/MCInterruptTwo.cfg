SPECIFICATION InterruptSpec
CONSTANTS
  pu = pu  pv = pv  a1 = a1  a2 = a2  b = b  idleU = idleU  idleV = idleV
  user0 = user0
  NULL = NULL
  Puns = {pu}
  Procs = {a1, a2}
  Idle <- IdleOne
  Place <- PlaceOne
  Pri <- PriFlat
  Created <- CreatedOne
  IntrPuns = {pu}
  QCap = 1
  MaxIpi = 1
  Users = {user0}
  Listens <- ListensBoth
  MaxRaised = 1
INVARIANT ReceiverKept
