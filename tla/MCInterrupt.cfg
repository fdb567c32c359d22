SPECIFICATION InterruptSpec
CONSTANTS
  pu = pu  pv = pv  a1 = a1  a2 = a2  b = b  idleU = idleU  idleV = idleV
  user0 = user0
  NULL = NULL
  Puns = {pu, pv}
  Procs = {a1, a2, b}
  Idle <- IdleTwo
  Place <- PlaceTwo
  Pri <- PriFlat
  Created <- CreatedTwo
  IntrPuns = {pu}
  QCap = 1
  MaxIpi = 2
  Users = {user0}
  Listens <- ListensOne
  MaxRaised = 1
INVARIANTS TypeOK NeverLost ReadyOnce ReceiverKept
