CONSTANTS
  Clients = {c1, c2}
  Keys = {k1, k2}
  None = None
  BacklogSize = 2
  QueueSize = 1
  Events = {"lose"}
  MaxCmds = 3
  MaxLosses = 2
SPECIFICATION Spec
INVARIANT CaughtUpHasAll
PROPERTY EventuallyCaughtUp
CHECK_DEADLOCK FALSE
