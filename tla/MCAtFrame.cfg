CONSTANTS
  Client = {c1, c2}
  Recv = recv
  NoOne = none
  SemCountMax = 1
  QueueLen = 1
  MaxIndications = 1
  MaxAllocFailures = 1
SPECIFICATION FairSpec
INVARIANTS OneCommandAtATime
PROPERTIES CommandReturns
