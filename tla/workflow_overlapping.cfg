CONSTANTS
  None = None
  Currencies = {"CZK"}
  Main = {"CZK", "EUR"}
  Statements <- TwoStatements
  Types = {"DEPOSIT", "INTEREST"}
  Runs = {w1, w2}
  Horizon = 2
  DaysPerMonth = 2
  BatchSize = 1
  Failures = FALSE
  MaxCrashes = 1
SPECIFICATION Spec
CHECK_DEADLOCK FALSE
INVARIANT TypeOK
 
