\* Two connections and a reaper share two runs while the clock moves both ways.
SPECIFICATION FairSpec
CONSTANTS
  r1 = r1  r2 = r2  t1 = t1  t2 = t2  k1 = k1  l1 = l1  l2 = l2  e1 = e1  b1 = b1  b2 = b2
  Clients = {p1, p2}
  Requests <- Upkeep
  Runs = {r1, r2}
  Threads = {t1, t2}
  Keys = {k1}
  Leases = {l1, l2}
  EntryKeys = {e1}
  Payloads = {b1, b2}
  Ttl = 2
  ReapLimit = 1
  None = None
  MaxClock = 3
  MaxCalls = 4
INVARIANTS LeaseInv
PROPERTIES ReapedLapsed LapsedReaped ImplementsFence
