CONSTANTS
  a = a
  b = b
  Client = {a, b}
  Limit = 2
  Generations = 2
  Intervals = {1, 2}
  NoTimer = NoTimer
SYMMETRY Sym
SPECIFICATION Spec
INVARIANTS BlocksAccounted ExpiredIdRefused
PROPERTIES CallbackQueued ImplementsCountdown
