\* One run under every fault, to its end.
SPECIFICATION FairSpec
CONSTANTS
  Runs = {r1}
  Instances = {i1}
  Capacity = 1
  Room = 1
  MaxSteps = 2
  None = None
  Faults = {"lapse", "drop", "cancel", "error", "crash", "restore"}
  Exposed = {r1}
  MaxBeats = 1
  OpSteps = {1, 2}
INVARIANTS LogInv ToldConsistent OpsCommitted
PROPERTIES RunsEnd TasksEnd
