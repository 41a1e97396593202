--------------------------- MODULE MCSqliteStore ---------------------------
(* A small instance of SqliteStore for TLC.                                *)
EXTENDS SqliteStore

CONSTANTS r1, r2, t1, t2, k1, l1, l2, e1, b1, b2

StartCall(r, t, k, l, e) == [op |-> "start", run |-> r, thread |-> t, key |-> k, lease |-> l, entry |-> e]
LeaseCall(op, r, l) == [op |-> op, run |-> r, lease |-> l]

\* Two runs on one thread or on two, and everything that may happen to the first.
Upkeep ==
  {StartCall(r1, t1, k1, l1, [key |-> e1, body |-> b1]), StartCall(r2, t1, None, l2, None),
   StartCall(r2, t2, None, l2, None), StartCall(r2, t2, k1, None, [key |-> e1, body |-> b2]),
   CommitCall(r1, l1, 1, FALSE, TRUE, "done", None), CommitCall(r1, l1, 2, TRUE, TRUE, None, None),
   CommitCall(r2, l2, 1, FALSE, TRUE, None, [key |-> e1, body |-> b2]),
   RecordCall(r1, 2), FinishCall(r2, 1, None),
   LeaseCall("renew", r1, l1), LeaseCall("release", r1, l1),
   LeaseCall("reserve_effect", r1, l1), LeaseCall("start_effect", r1, l1),
   [op |-> "mark_cancelled", run |-> r1]}
=============================================================================
