\* Transitions may hang for ever; every fault may strike r1, and r2 runs before, after or
\* behind it, waiting for the thread lock.
SPECIFICATION HangingSpec
CONSTANTS
  Runs = {r1, r2}
  Instances = {i1}
  Capacity = 2
  Room = 1
  MaxSteps = 1
  None = None
  Faults = {"lapse", "drop", "cancel"}
  Exposed = {r1}
  MaxBeats = 0
  OpSteps = {}
PROPERTIES StopRequestsWork
