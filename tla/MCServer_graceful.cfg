SPECIFICATION Spec
CONSTANTS
  Callers = {}
  MaxActive = 1
  CtxErr = {"canceled"}
INVARIANTS
  GracefulShutdown
