SPECIFICATION PatientSpec
CONSTANTS
  MaxRuns = 1
  Callers = {}
  SigBuf = 1
  CtxErr = {"canceled"}
  Closers = {}
  MaxActive = 1
PROPERTIES
  ServerNeedsNoTimer
