CONSTANTS
  Clients = {c1, c2}
  Keys = {k1, k2}
  None = None
  Ops <- SomeTrackedOps
  MaxOps = 2
  MaxQueue = 1
SPECIFICATION Spec
SYMMETRY Symmetry
INVARIANTS WatchInv VersionsReclaimed
PROPERTIES NoLostUpdate PoisonedNeverRuns
