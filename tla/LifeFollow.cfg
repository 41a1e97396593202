\* Two instances write to and follow two runs, one of them with a lease, which
\* the reaper or the peer may end.
SPECIFICATION Spec
CONSTANTS
  Runs = {r1, r2}
  Instances = {i1, i2}
  Tasks = {t1, t2, t3}
  Capacity = 1
  ReplayLimit = 1
  Leased = {r2}
  SameKey = TRUE
  None = None
  Kinds = {"start", "append", "detach", "commit", "commitFinish", "subscribe"}
  MaxCalls = 4
SYMMETRY LoneSymmetry
INVARIANTS EventLockInv TailsFaithful SeqAhead
