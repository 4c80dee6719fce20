SPECIFICATION Spec
CONSTANTS
  MaxRuns = 2
  Callers = {c1}
  SigBuf = 1
  CtxErr = {"canceled"}
INVARIANTS
  ReturnIsClean
  NeverForcedUnasked
  FirstSignalCaught
  CrashNeedsRace
  ShutdownNotLost
