\* Effects, items and entries of two runs in one scope: two bodies, batches of two.
CONSTANTS
  None = None
  Runs = {r1, r2}
  Threads = {t1, t2}
  Scopes = {s1}
  Keys = {}
  Workers = {}
  LeaseIds = {}
  EffectKeys = {e1}
  ItemKeys = {i1}
  EntryKeys = {n1, n2}
  Requests = {q1}
  Payloads = {p1, p2}
  Outcomes = {}
  Ttl = 1
  ReapLimit = 1
  MaxSeq = 0
  MaxBatch = 0
  MaxWrites = 2
  MaxClock = 0
SPECIFICATION Spec
SYMMETRY OpsSymmetry
INVARIANTS EntriesDense
PROPERTIES EffectsSettle WritesPermanent
