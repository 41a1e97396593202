\* Two instances race for two runs with one client key; a fair scheduler.
SPECIFICATION FairSpec
CONSTANTS
  Runs = {r1, r2}
  Instances = {i1, i2}
  Tasks = {t1, t2}
  Capacity = 1
  ReplayLimit = 1
  Leased = {}
  SameKey = TRUE
  None = None
  Kinds = {"start", "finish", "detach", "cancel"}
  MaxCalls = 4
PROPERTIES CallsReturn SlotsFreed
CHECK_DEADLOCK FALSE
