----------------------------- MODULE MCPgStore ------------------------------
(* Small instances of PgStore for TLC.                                     *)
EXTENDS PgStore, TLC

CONSTANTS r1, r2, t1, t2, k1, l1, l2, e1, e2, b1

Entry1 == [key |-> e1, body |-> b1]
Entry2 == [key |-> e2, body |-> b1]

StartCall(r, t, k, l, e) == [op |-> "start", run |-> r, thread |-> t, key |-> k, lease |-> l, entry |-> e]
LeaseCall(op, r, l) == [op |-> op, run |-> r, lease |-> l]

\* Two runs that compete for a thread, a key or only the session, their commits, the one
\* effect of r1, the upkeep of its lease and a reaper.
Races ==
  {StartCall(r1, t1, k1, l1, Entry1), StartCall(r2, t1, None, l2, None),
   StartCall(r2, t2, None, l2, Entry2), StartCall(r2, t2, k1, None, None),
   CommitCall(r1, l1, 2, FALSE, TRUE, "failed", None),
   CommitCall(r1, l1, 1, FALSE, FALSE, None, None),
   CommitCall(r1, l1, 2, TRUE, TRUE, None, Entry2),
   RecordCall(r1, 2), FinishCall(r2, 1, None),
   LeaseCall("renew", r1, l1), LeaseCall("release", r1, l1),
   LeaseCall("reserve_effect", r1, l1), LeaseCall("start_effect", r1, l1),
   [op |-> "mark_cancelled", run |-> r1], [op |-> "reap_stale"]}

Symmetry == Permutations(Clients)
=============================================================================
