\* One control thread, which also calls the function, stacks hooks on two functions.
SPECIFICATION Spec
CONSTANTS
  Hooks = {h1, h2, h3}
  Targets = {f1, f2}
  Handles = {k1, k2, k3}
  Threads = {c1, t1}
  Controllers = {c1}
  MAX_HOOK_COUNT = 2
  MaxDepth = 1
  WaitRounds = 1
  Arch = "x64"
  Original = Original
  NULL = NULL
CHECK_DEADLOCK FALSE
SYMMETRY InterchangeableHooks
INVARIANTS
  EntriesReachLivePages
  ApiReachesLivePages
  LeaksAreJustified
