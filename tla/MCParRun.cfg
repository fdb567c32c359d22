SPECIFICATION ParSpec
CONSTANTS
  pu = pu  pv = pv  parent = parent  k1 = k1  k2 = k2  k3 = k3  high = high  peer = peer
  idleU = idleU  idleV = idleV
  NULL = NULL
  Puns = {pu, pv}
  Procs = {high, parent, k1, k2, k3}
  Idle <- IdleTwo
  Place <- PlaceBoth
  Pri <- PriBoth
  Created <- CreatedBoth
  IntrPuns = {pu}
  QCap = 1
  MaxIpi = 1
  Parent = parent
  Roles <- RolesBoth
  Living0 <- LivingBoth
  MaxPars = 1
INVARIANTS Joined ParentKept OneTerminating OthersKept
