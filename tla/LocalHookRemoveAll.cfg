\* Expected to fail: an older hook is uninstalled first, and all of them would be next.
SPECIFICATION Spec
CONSTANTS
  Hooks = {h1, h2}
  Targets = {f1}
  Handles = {k1, k2}
  Threads = {c1, t1}
  Controllers = {c1}
  MAX_HOOK_COUNT = 2
  MaxDepth = 1
  WaitRounds = 1
  Arch = "x64"
  Original = Original
  NULL = NULL
CHECK_DEADLOCK FALSE
INVARIANT UninstallAllRemovesAll
