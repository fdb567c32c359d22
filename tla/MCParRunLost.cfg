SPECIFICATION ParSpec
CONSTANTS
  pu = pu  pv = pv  parent = parent  k1 = k1  k2 = k2  k3 = k3  high = high  peer = peer
  idleU = idleU  idleV = idleV
  NULL = NULL
  Puns = {pu}
  Procs = {high, parent, peer, k1}
  Idle <- IdleOne
  Place <- PlaceLost
  Pri <- PriLost
  Created <- CreatedLost
  IntrPuns = {pu}
  QCap = 1
  MaxIpi = 0
  Parent = parent
  Roles <- RolesReuse
  Living0 <- LivingLost
  MaxPars = 1
CHECK_DEADLOCK FALSE
INVARIANTS OthersKept
