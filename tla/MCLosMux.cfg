CONSTANTS
  a = a
  b = b
  c = c
  m1 = m1
  Task = {a, b, c}
  Idle = Idle
  Dummy = Dummy
  NoTask = NoTask
  Mux = {m1}
  WaitList = {m1}
  Timeouts = {0, 1}
  MaxNest = 2
  Lowest = 3
  TimeSlice = 1
  BootQueue <- ThreeLevels
  TaskCalls = {"MuxCreate", "MuxDelete", "MuxPend", "MuxPost", "Suspend", "Delay"}
  IsrCalls = {"Resume"}
  Delays = {1}
  MaxLock = 1
  IsrRaces = FALSE
SPECIFICATION MuxSpec
INVARIANTS KernelConsistent MutualExclusion WaitersHaveOwner PriorityRestored
