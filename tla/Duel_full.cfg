SPECIFICATION Spec
CONSTANTS
  Users <- ThreeUsers
  Creator = a
  Threads = {t1, t2}
  Ops <- RoomOps
  HintsMax = 1
  WaitingLife = 1
  Countdown = 1
  Duration = 1
  MaxWrong <- NoneWrong
  MaxCrashes = 0
  RestartAt = {}
  None = None
  a = a
  b = b
  c = c
INVARIANTS TwoSeats
CHECK_DEADLOCK FALSE
