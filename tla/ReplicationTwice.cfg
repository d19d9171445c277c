CONSTANTS
  Clients = {c1}
  Keys = {k1}
  None = None
  BacklogSize = 2
  QueueSize = 2
  Events = {}
  MaxCmds = 2
  MaxLosses = 0
SPECIFICATION Spec
INVARIANT AppliedOnce
CHECK_DEADLOCK FALSE
