SPECIFICATION FairSpec
CONSTANTS
  Users <- TwoUsers
  Creator = a
  Threads = {t1, t2}
  Ops <- MatchOps
  HintsMax = 1
  WaitingLife = 1
  Countdown = 1
  Duration = 1
  MaxWrong <- MatchWrong
  MaxCrashes = 1
  RestartAt <- MatchRestart
  None = None
  a = a
  b = b
  c = c
INVARIANTS DuelInv ToldOnce HintsBounded
PROPERTIES ImplementsContract DuelEnds
CHECK_DEADLOCK FALSE
