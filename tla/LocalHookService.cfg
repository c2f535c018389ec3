\* Both threads call the API and the function, also from inside handlers, through the 32-bit
\* trampoline; waits are scheduled fairly.
SPECIFICATION FairSpec
CONSTANTS
  Hooks = {h1, h2}
  Targets = {f1}
  Handles = {k1, k2}
  Threads = {c1, t1}
  Controllers = {c1, t1}
  MAX_HOOK_COUNT = 1
  MaxDepth = 2
  WaitRounds = 1
  Arch = "x86"
  Original = Original
  NULL = NULL
CHECK_DEADLOCK FALSE
INVARIANTS
  HandlerPinsHook
  HandlerPinsSlot
  ArmedHookHasHandle
PROPERTIES
  ImplementsService
  WaitDoesNotHang
