SPECIFICATION MemoryLiveSpec
CONSTANTS
  pu = pu  a1 = a1  a2 = a2  a3 = a3  idleU = idleU  user0 = user0
  NULL = NULL
  Puns = {pu}
  Procs = {a1, a2, a3}
  Idle <- IdleOne
  Place <- PlaceOne
  Pri <- PriThree
  Created <- CreatedThree
  IntrPuns = {pu}
  QCap = 1
  MaxIpi = 1
  Users = {user0}
  Listens <- ListensOne
  MaxRaised = 1
  procmemlen <- Lengths
  Total = 6
  Trials = 1
  Wants <- WantsThree
  MaxHeld = 1
PROPERTY SpinEnds
