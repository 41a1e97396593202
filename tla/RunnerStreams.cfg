\* Two streams of two runs of one thread and a canceller; transitions may hang.
SPECIFICATION FairSpec
CONSTANTS
  t1 = t1
  Runs = {r1, r2}
  Threads = {t1}
  ThreadOf <- OneThread
  Invocations = {v1, v2}
  Cancellers = {c1}
  LastStep = 2
  None = None
  Kinds = {"stream"}
  Commands = {"Start", "Resume"}
  MaxSteps = 2
INVARIANTS MarkerInv
PROPERTIES Continues CancelEnds
