CONSTANTS
  Clients = {c1, c2}
  Keys = {k1}
  None = None
  Ops <- EveryOp
  MaxOps = 2
  MaxQueue = 1
SPECIFICATION Spec
SYMMETRY Symmetry
PROPERTY ExecIsolated
