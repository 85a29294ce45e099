CONSTANTS
  Options <- MCOptions
  Writers <- MCWriters
SPECIFICATION ResultSpec
INVARIANTS OkIsEarned HaltStops AlwaysAResult
PROPERTY KeepsContract
CHECK_DEADLOCK FALSE
