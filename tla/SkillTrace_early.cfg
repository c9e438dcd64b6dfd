SPECIFICATION Spec
CONSTANTS
  Calls = {c1, c2}
  Loop = loop
  Reconcilers = {r1}
  MaxTests = 2
  MaxRuns = 2
  Sessions <- MixedSessions
  MaxFailures = 0
  None = None
  c1 = c1
  c2 = c2
INVARIANTS NoBadgeWhenTestsFail
CHECK_DEADLOCK FALSE
