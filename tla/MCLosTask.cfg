CONSTANTS
  a = a
  b = b
  Task = {a, b}
  Idle = Idle
  Dummy = Dummy
  NoTask = NoTask
  WaitList = {}
  Lowest = 2
  TimeSlice = 2
  BootQueue <- TwoLevels
  TaskCalls = {"CreateOnly", "Create", "Resume", "Suspend", "Delete", "Delay", "Yield", "PriSet", "Lock", "Exit"}
  IsrCalls = {"Resume", "Suspend", "Delete"}
  Delays = {1}
  MaxLock = 2
  IsrRaces = FALSE
SPECIFICATION FairSpec
INVARIANTS TypeOK KernelConsistent NoFault HighestRuns RunningReady
PROPERTIES DispatchReady NoSwitchUnderLock RoundRobin
