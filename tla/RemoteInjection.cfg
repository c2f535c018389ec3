\* One injection; the target has up to two threads, suspended once or not at all.
SPECIFICATION Spec
CONSTANTS
  Threads = {t1, t2}
  Main = t1
  MaxSuspend = 1
  MaxWork = 1
  NULL = NULL
INVARIANTS SuccessIsLoaded RemoteThreadIsSafe NoProcessIsStranded ImportedHandleIsOpen
  ActiveContextIsKept
PROPERTY InjectionEnds
CHECK_DEADLOCK FALSE
