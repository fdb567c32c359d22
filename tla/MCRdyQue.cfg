SPECIFICATION Spec
CONSTANTS
  a1 = a1
  a2 = a2
  a3 = a3
  b = b
  idle = idle
  NULL = NULL
  Records <- RecordsMC
  Pri <- PriMC
INVARIANTS
  Linked
  Ordered
