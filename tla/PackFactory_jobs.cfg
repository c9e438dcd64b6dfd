SPECIFICATION Spec
CONSTANTS
  NumProblems = 2
  Builtin = {1}
  Reviewed = {2}
  AutoVersion <- SecondVersions
  Workers = {w1, w2}
  Name <- OwnNames
  Limit = 2
  Activators = {a1}
  Seeders = {s1}
  MaxLapses = 1
  MaxLost = 1
  None = none
  w1 = w1
  w2 = w2
SYMMETRY Symmetry
INVARIANTS PackInv OneActive FailClosed
CHECK_DEADLOCK FALSE
