\* Leases, checkpoints, logs and keys: two runs race for one thread or take two.
CONSTANTS
  None = None
  Runs = {r1, r2}
  Threads = {t1, t2}
  Scopes = {s1}
  Keys = {k1}
  Workers = {w1}
  LeaseIds = {l1, l2}
  EffectKeys = {}
  ItemKeys = {}
  EntryKeys = {}
  Requests = {}
  Payloads = {}
  Outcomes = {"completed"}
  Ttl = 1
  ReapLimit = 1
  MaxSeq = 2
  MaxBatch = 2
  MaxWrites = 0
  MaxClock = 2
SPECIFICATION Spec
SYMMETRY Symmetry
INVARIANTS LeaseInv LogInv KeysUnique
PROPERTIES LapsedFenced LiveLeaseKept ImplementsFence
