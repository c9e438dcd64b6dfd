SPECIFICATION Spec
CONSTANTS
  RequestIds = {r1, r2}
  Calls = {c1, c2, c3}
  Payloads <- MCPayloads
  Problems <- MCThreeProblems
  ProblemOf <- MCProblemOf
  Clock <- MCClock
  None = None
  s1 = s1
  s2 = s2
  pA = pA
  pB = pB
  pC = pC
SYMMETRY Symmetry
INVARIANTS OneAnswer HonestAnswer QueueFresh PracticeInv
PROPERTIES CompletionTimesGrow ImplementsContract
CHECK_DEADLOCK FALSE
