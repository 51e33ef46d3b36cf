CONSTANTS
  NoName = NoName
  None = None
  Ids = {i1, i2}
  Users = {u1}
  Syncs = {s1, s2}
  Operations = {"NT", "ST", "DT"}
  MaxRequests = 3
  MaxTicks = 1
  MaxCrashes = 1
  ReuseIds = TRUE
  WriteFileCreates = FALSE
  StorageFaults = FALSE
SPECIFICATION SpecSyncsEnd
CHECK_DEADLOCK FALSE
INVARIANT NonExistIsAbsent
INVARIANT DeletedIsAbsent
 
PROPERTY Answered
PROPERTY SynchronizingEnds
