---------------------------- MODULE MCLocalHook ----------------------------
(* Small instances of LocalHook for TLC. *)
EXTENDS LocalHook, TLC

\* Hooks, handles and targets are interchangeable.
InterchangeableHooks == Permutations(Hooks) \cup Permutations(Handles) \cup Permutations(Targets)

============================================================================
