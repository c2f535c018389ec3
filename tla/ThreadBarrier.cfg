\* Three threads for two storage entries, two hooks for two slots, handlers nested three deep.
SPECIFICATION Spec
CONSTANTS
  Threads = {t1, t2, t3}
  Hooks = {h1, h2}
  MAX_HOOK_COUNT = 2
  MAX_THREAD_COUNT = 2
  MaxDepth = 3
  MaxActive = 2
  NULL = NULL
SYMMETRY Interchangeable
CONSTRAINT FewCalls
CHECK_DEADLOCK FALSE
INVARIANTS
  ReturnsToItsCaller
  CallbackIsOwn
  AssertionsHold
  BarrierReopens
  EntriesAreOwned
  ProtectionIsPaired
