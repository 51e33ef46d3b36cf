CONSTANTS
  None = None
  Currencies = {"CZK"}
  Main = {"CZK", "EUR"}
  Statements <- ThreeStatements
  Types = {"DEPOSIT", "INTEREST"}
  Runs = {w1}
  Horizon = 3
  DaysPerMonth = 2
  BatchSize = 1
  Failures = TRUE
  MaxCrashes = 0
SPECIFICATION Spec
CHECK_DEADLOCK FALSE
INVARIANT AckedIsPosted
INVARIANT AckedHasAccounts
INVARIANT CursorCoversPast
PROPERTY CursorMonotone
