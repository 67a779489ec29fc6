CONSTANTS
  a = a
  b = b
  s1 = s1
  p1 = p1
  m1 = m1
  m2 = m2
  Task = {a, b}
  Idle = Idle
  Dummy = Dummy
  NoTask = NoTask
  NoBlock = NoBlock
  Sem = {s1}
  MemList = p1
  WaitList = {s1, p1}
  MailBlock = {m1, m2}
  SemMax = {1, 2}
  Timeouts = {0, 1}
  Lowest = 2
  TimeSlice = 1
  BootQueue <- TwoTasks
  TaskCalls = {"SemCreate", "SemDelete", "SemPend", "SemPost", "MailAlloc", "MailFree", "Suspend", "Lock"}
  IsrCalls = {"SemPost", "SemPend", "MailAlloc", "MailFree", "Resume", "Delete"}
  Delays = {1}
  MaxLock = 1
  IsrRaces = FALSE
SPECIFICATION MailFairSpec
INVARIANTS MailTypeOK NoIdleToken TimeoutFlagOwned MailBlocksSound
PROPERTIES ImplementsSemaphore PendEnds
CHECK_DEADLOCK FALSE
