SPECIFICATION ParSpec
CONSTANTS
  pu = pu  pv = pv  parent = parent  k1 = k1  k2 = k2  k3 = k3  high = high  peer = peer
  idleU = idleU  idleV = idleV
  NULL = NULL
  Puns = {pu, pv}
  Procs = {parent, k1}
  Idle <- IdleTwo
  Place <- PlaceReuse
  Pri <- PriReuse
  Created <- CreatedReuse
  IntrPuns = {}
  QCap = 2
  MaxIpi = 2
  Parent = parent
  Roles <- RolesReuse
  Living0 <- LivingLive
  MaxPars = 2
CHECK_DEADLOCK FALSE
INVARIANTS ReleasedUnused
