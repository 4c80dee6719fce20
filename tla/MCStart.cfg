SPECIFICATION StartSpec
CONSTANTS
  MaxRuns = 1
  Callers = {c1, c2}
  SigBuf = 1
  CtxErr = {"canceled", "deadline"}
INVARIANTS
  FailureReported
  AbandonedOnlyOnCancel
PROPERTIES
  StopRequestEndsProcess
