SPECIFICATION LiveSpec
CONSTANTS
  p1 = p1
  p2 = p2
  p3 = p3
  c1 = c1
  c2 = c2
  c3 = c3
  NULL = NULL
  SKIP = SKIP
  Values = {0, 1}
  Channels = {c1, c2}
  Procs = {p1, p2}
  Writer <- WriterPair
  Reader <- ReaderPair
  Guards <- GuardsPair
  Fair = {}
  Polled = {c1}
PROPERTY WriterResumes
CHECK_DEADLOCK FALSE
