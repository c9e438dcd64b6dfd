SPECIFICATION FairSpec
CONSTANTS
  RequestIds = {r1}
  Calls = {c1, c2, c3}
  Payloads <- MCPayloads
  Problems <- MCProblems
  ProblemOf <- MCProblemOfSame
  Clock <- MCClock
  None = None
  s1 = s1
  s2 = s2
  pA = pA
  pB = pB
  pC = pC
PROPERTIES EveryCallEnds
CHECK_DEADLOCK FALSE
