SPECIFICATION Spec
CONSTANTS
  Clients = {c1, c2}
  None = None
  s1 = s1
  s2 = s2
  Keys = {s1, s2}
  ReadLists <- BothStreams
  Counts = {1}
  Blocks = {"forever", "timed"}
  Bodies = {"plain"}
  MaxId = 2
INVARIANTS OpLockSound ParkedHoldsNoLock
PROPERTIES ReaderServed WaitsEnd
