SPECIFICATION Spec
CONSTANTS
  Runs = {r1, r2}
  Instances = {i1}
  Capacity = 2
  Room = 1
  MaxSteps = 1
  None = None
  Faults = {"lapse"}
  Exposed = {r1, r2}
  MaxBeats = 0
  OpSteps = {}
SYMMETRY RunSymmetry
INVARIANTS LeasedRunCommits
