SPECIFICATION Spec
CHECK_DEADLOCK FALSE
CONSTANTS
  Runs = {r1, r2}
  Trees = {t1}
  Files <- MCFiles
  Asks <- MCAsks
  PIPE = 2
INVARIANTS
  GreenMeansGood
  ShardsAddUp
PROPERTIES
  DeadlineReports
