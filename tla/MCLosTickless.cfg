CONSTANTS
  a = a
  b = b
  Task = {a, b}
  SortLinkLen = 2
  Timeouts = {1, 2, 4}
  Intervals = {2}
  CyclesPerTick = 3
  MaxSleep = 3
  Word = 64
  MaxNest = 2
  Races = FALSE
SPECIFICATION TicklessFairSpec
INVARIANTS TicksTrackTime NobodyOverdue
PROPERTIES ImplementsCountdown WaitEnds
