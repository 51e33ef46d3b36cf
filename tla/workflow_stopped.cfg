CONSTANTS
  None = None
  Currencies = {"CZK", "EUR"}
  Main = {"CZK", "EUR"}
  Statements <- MixedStatements
  Types = {"DEPOSIT", "INTEREST"}
  Runs = {w1}
  Horizon = 2
  DaysPerMonth = 2
  BatchSize = 2
  Failures = FALSE
  MaxCrashes = 0
SPECIFICATION FairSpec
CHECK_DEADLOCK FALSE
PROPERTY Downloaded
