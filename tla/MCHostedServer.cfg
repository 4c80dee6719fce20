SPECIFICATION HostedSpec
CONSTANTS
  MaxRuns = 1
  Callers = {}
  SigBuf = 1
  CtxErr = {"canceled", "deadline"}
  Closers = {d1}
  MaxActive = 1
INVARIANTS
  HostedTypeOK
  ZeroMeansAsked
  AnswerMeansClosed
  FailureNeedsCancel
