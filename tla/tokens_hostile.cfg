CONSTANTS
  NoName = NoName
  None = None
  Ids = {i1, i2}
  Users = {u1, u2}
  Syncs = {s1, s2}
  Operations = {"NT", "ST", "DT", "??"}
  MaxRequests = 3
  MaxTicks = 1
  MaxCrashes = 1
  ReuseIds = TRUE
  WriteFileCreates = TRUE
  StorageFaults = TRUE
SPECIFICATION Spec
CHECK_DEADLOCK FALSE
SYMMETRY Symmetry
INVARIANT TypeOK
INVARIANT SynchronizingHasSync
INVARIANT RequestsTracked
PROPERTY OvertakenOnlyByWaking
