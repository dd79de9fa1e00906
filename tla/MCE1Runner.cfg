CONSTANTS
  WrapLots <- MCWrapLots
  LotSizes <- MCLotSizes
  Seeds = 2
  Circuits <- MCCircuits
  JobNumbers = {0, 1, 2}
  Strict = TRUE
  MaxRuns = 2
SPECIFICATION RunnerSpec
INVARIANTS OnePrefixOfGrid SuccessIsWhole CoversAll HookRestored
CHECK_DEADLOCK FALSE
