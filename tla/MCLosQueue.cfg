CONSTANTS
  a = a
  b = b
  q1 = q1
  r1 = r1
  w1 = w1
  m1 = m1
  m2 = m2
  Task = {a, b}
  Idle = Idle
  Dummy = Dummy
  NoTask = NoTask
  WaitList = {r1, w1}
  Queue = {q1}
  ReadList <- Readers
  WriteList <- Writers
  Message = {m1, m2}
  Lengths = {2}
  CallTimeouts = {0, 1}
  Lowest = 2
  TimeSlice = 1
  BootQueue <- TwoTasks
  TaskCalls = {"QueueCreate", "QueueDelete", "ReadHead", "WriteHead", "WriteTail", "Suspend"}
  IsrCalls = {"ReadHead", "WriteTail", "Resume"}
  Delays = {1}
  MaxLock = 1
  IsrRaces = FALSE
SPECIFICATION QueueSpec
INVARIANTS NobodyWaitsInVain CreditsConserved
PROPERTIES ImplementsBoundedQueue
