\* Three calls for one or two processes.
CONSTANTS
  Calls = {i1, i2, i3}
  Processes = {p1, p2}
  NULL = NULL
SPECIFICATION Spec
SYMMETRY Symmetry
INVARIANTS AloneIsAnswered TwoTakeTurns ListIsCleared LockWillBeReleased
CHECK_DEADLOCK FALSE
