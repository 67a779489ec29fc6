CONSTANTS
  a = a
  b = b
  e1 = e1
  b1 = b1
  b2 = b2
  Task = {a, b}
  Idle = Idle
  Dummy = Dummy
  NoTask = NoTask
  WaitList = {e1}
  Event = {e1}
  Bit = {b1, b2}
  Masks <- OneOrBoth
  Modes <- SomeModes
  ReadTimeouts = {0, 1}
  Lowest = 2
  TimeSlice = 1
  BootQueue <- TwoTasks
  TaskCalls = {"EventInit", "EventDestory", "EventRead", "EventWrite", "EventClear", "Suspend"}
  IsrCalls = {"EventWrite", "EventPoll", "Resume"}
  Delays = {1}
  MaxLock = 1
  IsrRaces = FALSE
  DestroyRaces = FALSE
SPECIFICATION EventSpec
INVARIANTS NoMissedEvent WokenFindsEvent
