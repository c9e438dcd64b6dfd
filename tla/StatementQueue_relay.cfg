SPECIFICATION FairSpec
CONSTANTS
  NumProblems = 1
  Relays = {r1}
  Embedded = {embedded}
  Admins = {admin}
  MaxAttempts = 2
  None = none
INVARIANTS QueueInv StuckOnlyIfDropped
PROPERTIES DoneWhenStored StoredAtLast
CHECK_DEADLOCK FALSE
