CONSTANTS
  NoName = NoName
  None = None
  Ids = {i1}
  Users = {u1, u2}
  Syncs = {s1}
  Operations = {"NT", "ST", "DT"}
  MaxRequests = 4
  MaxTicks = 0
  MaxCrashes = 0
  ReuseIds = TRUE
  WriteFileCreates = FALSE
  StorageFaults = FALSE
SPECIFICATION Spec
CHECK_DEADLOCK FALSE
INVARIANT StoredIsCurrent
