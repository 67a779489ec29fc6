CONSTANTS
  a = a
  b = b
  s1 = s1
  Task = {a, b}
  Idle = Idle
  Dummy = Dummy
  NoTask = NoTask
  Sem = {s1}
  WaitList = {s1}
  SemMax = {1}
  Timeouts = {0, 1}
  Lowest = 2
  TimeSlice = 1
  BootQueue <- TwoTasks
  TaskCalls = {"SemCreate", "SemPend", "Delete", "Delay"}
  IsrCalls = {"Delete"}
  Delays = {1}
  MaxLock = 1
  IsrRaces = FALSE
SPECIFICATION SemSpec
INVARIANT NoFault
