\* Three clients race on two connections over two runs, two threads, one key and one session.
SPECIFICATION Spec
CONSTANTS
  r1 = r1  r2 = r2  t1 = t1  t2 = t2  k1 = k1  l1 = l1  l2 = l2  e1 = e1  e2 = e2  b1 = b1
  Clients = {p1, p2, p3}
  Requests <- Races
  Runs = {r1, r2}
  Threads = {t1, t2}
  Keys = {k1}
  Leases = {l1, l2}
  EntryKeys = {e1, e2}
  Payloads = {b1}
  Ttl = 2
  ReapLimit = 2
  PoolSize = 2
  None = None
  MaxClock = 3
  MaxCalls = 4
INVARIANTS LeaseInv OpsInv ChecksHold OnlyPoolStalls
PROPERTIES EndsLog ImplementsFence
SYMMETRY Symmetry
CHECK_DEADLOCK FALSE
