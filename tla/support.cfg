CONSTANTS
  Calls <- Three
  ServiceOf <- ThreeServices
  ItemOf <- ThreeItems
  MinWait = 2
  MaxWait = 3
  Overflow = 8
  RetryAfters <- SomeWaits
  MaxFaults = 3
  Lifetime = 2
  SsidLifetime = 3
  Margin = 1
  MaxTime = 6
  MaxTroubles = 2
  MaxQueries = 3
  OneShots = {"actors", "server"}
  Scheduled = {"monitor"}
  MayFail = {"server"}
  MaxEarly = 1
  Counters = {"transactions", "transfers"}
  Amounts = {1, 2}
  MaxEvents = 3
  Months = 4
  Begin <- FourMonths
  Day = 2
  Names <- SomeNames
  Prefix <- SomePrefixes
  Short = "short"
  Dates <- SomeDates
  Currencies = {"CZK", "EUR"}
  MaxSaves = 2
SPECIFICATION MCSpec
CHECK_DEADLOCK FALSE
INVARIANT PartsTypeOK
INVARIANT PostedOnce
INVARIANT NeverMalformed
INVARIANT WaitBounded
INVARIANT NeverResendsRefused
 
INVARIANT LateOnce
INVARIANT Conserved
INVARIANT MonthsSearchedOnce
INVARIANT KeptAsSent
INVARIANT CursorKept
PROPERTY HttpImplements
PROPERTY RefusedForCause
PROPERTY QueriesEnd
PROPERTY HttpEnds
PROPERTY ProgramEventuallyEnds
