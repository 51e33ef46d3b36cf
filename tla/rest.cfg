CONSTANTS
  Ids = {i1, i2}
  Users = {u1}
  BadUsers = {b1}
  None = None
  MaxCalls = 3
  MaxListings = 1
  Handlers = {h1, h2}
  Nobody = Nobody
  MaxTenantCalls = 3
  MaxReboots = 1
  MaxRefusals = 1
  Memory = "memory"
  Disk = "disk"
  Limited = {"memory"}
  MaxHealthCalls = 2
SPECIFICATION MCSpec
CHECK_DEADLOCK FALSE
INVARIANT PartsTypeOK
 
 
 
INVARIANT AgreedIsSo
SYMMETRY Symmetry
INVARIANT HealthIsRecent
