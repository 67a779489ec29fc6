CONSTANTS
  a = a
  b = b
  m1 = m1
  m2 = m2
  x = x
  y = y
  f = f
  f1 = f1
  Task = {a, b}
  NoTask = NoTask
  MountPoint = {m1, m2}
  FD = {f1}
  MountPath <- Mounts
  Path <- Paths
  None = None
  MaxKept = 1
  UnmountRaces = FALSE
SPECIFICATION FairSpec
INVARIANTS OpenKeepsMount FileStaysAttached
PROPERTIES CallReturns
