CONSTANTS
  Clients = {c1, c2}
  Keys = {k1}
  None = None
  BigCmds = {}
  Policies = {"always", "everysec"}
  BufSize = 1
  Events = {"exec", "rewrite", "ioerror", "expire", "torn", "close"}
  MaxCmds = 2
  MaxCrashes = 2
SPECIFICATION Spec
INVARIANTS NeverTwice RewriteKeeps
SYMMETRY Symmetry
CHECK_DEADLOCK FALSE
