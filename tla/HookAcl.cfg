\* One thread sets both lists three times while another negotiates.
SPECIFICATION Spec
CONSTANTS
  c = c
  t = t
  ThreadIds = {c, t}
  Setters = {c}
  Readers = {t}
  ZERO = ZERO
  MAX_ACE_COUNT = 2
  Requests <- MCRequests
  MaxCalls = 3
CHECK_DEADLOCK FALSE
INVARIANTS
  NegotiationIsConjunction
  SuspendedUntilSet
  ListIsInForce
  MirrorShowsTheList
