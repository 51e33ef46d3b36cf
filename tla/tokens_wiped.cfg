CONSTANTS
  NoName = NoName
  None = None
  Ids = {i1, i2}
  Users = {u1}
  Syncs = {s1}
  Operations = {"NT", "DT"}
  MaxRequests = 3
  MaxTicks = 1
  MaxCrashes = 0
  ReuseIds = FALSE
  WriteFileCreates = FALSE
  StorageFaults = FALSE
SPECIFICATION Spec
CHECK_DEADLOCK FALSE
PROPERTY NeverCleansExisting
