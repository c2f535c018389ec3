\* Two threads in one host, one in another, two attempts to install either helper.
SPECIFICATION Spec
CONSTANTS
  h1 = h1
  h2 = h2
  t1 = t1
  t2 = t2
  t3 = t3
  Hosts = {h1, h2}
  Threads = {t1, t2, t3}
  HostOf <- MCHostOf
  MaxAttempts = 2
  NOBODY = NOBODY
INVARIANTS
  InterfaceIsServed
  OneService
PROPERTY HelperEnds
CHECK_DEADLOCK FALSE
