SPECIFICATION Spec
CONSTANTS
  Callers = {c1, c2}
  MaxActive = 2
  CtxErr = {"canceled", "deadline"}
INVARIANTS
  ServeIsOver
  FailureReported
  StaysDrained
  CrashNeedsOverlap
PROPERTIES
  StopEndsRun
