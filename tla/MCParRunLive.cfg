SPECIFICATION ParLiveSpec
CONSTANTS
  pu = pu  pv = pv  parent = parent  k1 = k1  k2 = k2  k3 = k3  high = high  peer = peer
  idleU = idleU  idleV = idleV
  NULL = NULL
  Puns = {pu, pv}
  Procs = {parent, k1, k2, k3}
  Idle <- IdleTwo
  Place <- PlaceLive
  Pri <- PriLive
  Created <- CreatedLive
  IntrPuns = {}
  QCap = 2
  MaxIpi = 3
  Parent = parent
  Roles <- RolesBoth
  Living0 <- LivingLive
  MaxPars = 1
CHECK_DEADLOCK FALSE
PROPERTIES ParReturns
