\* A thread moves between two instances; leases lapse and processes die.
SPECIFICATION Spec
CONSTANTS
  Runs = {r1, r2}
  Instances = {i1, i2}
  Capacity = 1
  Room = 1
  MaxSteps = 1
  None = None
  Faults = {"lapse", "crash"}
  Exposed = {r1, r2}
  MaxBeats = 0
  OpSteps = {}
SYMMETRY RunSymmetry
INVARIANTS CommitBeforeForward CheckpointCoversLog
PROPERTIES NoLostUpdate
