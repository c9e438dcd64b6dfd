SPECIFICATION FairPipelineSpec
CONSTANTS
  Contests = {c1}
  Watchers = {v1, v2}
  Syncers = {p1}
  BatchLimit = 2
  MaxFaults = 1
  Nil = nil
INVARIANTS PipelineInv
PROPERTIES Processed CaughtUp
CHECK_DEADLOCK FALSE
