CONSTANTS
  Clients = {c1, c2}
  Keys = {k1}
  None = None
  BacklogSize = 2
  QueueSize = 1
  Events = {"lose", "loseload", "expire", "expireLocal", "local", "promote"}
  MaxCmds = 3
  MaxLosses = 2
SPECIFICATION Spec
INVARIANT NoGapInStream
CHECK_DEADLOCK FALSE
