CONSTANTS
  None = None
  Currencies = {"CZK", "USD"}
  Main = {"CZK", "EUR"}
  Statements <- ForeignStatements
  Types = {"DEPOSIT", "INTEREST"}
  Runs = {w1}
  Horizon = 2
  DaysPerMonth = 2
  BatchSize = 2
  Failures = FALSE
  MaxCrashes = 1
SPECIFICATION FairSpec
CHECK_DEADLOCK FALSE
 
PROPERTY Imported
