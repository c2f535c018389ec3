\* Two injections into a process.
SPECIFICATION Spec
CONSTANTS
  i1 = i1
  i2 = i2
  Injections = {i1, i2}
  NOBODY = NOBODY
INVARIANTS
  DomainOutlivesLoad
  
PROPERTY HostIsAnswered
CHECK_DEADLOCK FALSE
