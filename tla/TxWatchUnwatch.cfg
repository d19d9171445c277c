CONSTANTS
  Clients = {c1, c2, c3}
  Keys = {k1}
  None = None
  Ops <- UnwatchOps
  MaxOps = 3
  MaxQueue = 1
SPECIFICATION Spec
SYMMETRY Symmetry
PROPERTY NoLostUpdate
