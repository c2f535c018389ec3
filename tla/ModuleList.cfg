\* Two threads, up to three modules of two addresses each, one of them loaded or unloaded meanwhile.
\* Pointers: NULL, the first address of the second module, the second one of the third.
SPECIFICATION Spec
CONSTANTS
  Threads = {t1, t2}
  ModuleLimit = 3
  ImageSize = 2
  Pointers = {0, 4, 7}
  MaxChanges = 1
  MaxCalls = 1
 
PROPERTY CallReturns
CHECK_DEADLOCK FALSE
