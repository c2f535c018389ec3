-------------------------- MODULE MCThreadBarrier --------------------------
(* Small instances of ThreadBarrier for TLC. *)
EXTENDS ThreadBarrier, TLC

CONSTANT MaxActive  \* bound: hooked calls in progress while several threads are in one

\* Threads are interchangeable, and so are hooks.
Interchangeable == Permutations(Threads) \cup Permutations(Hooks)

\* A thread nests to the full depth while the others are between calls.
ActiveCalls == {c \in Threads \X Levels : frame[c[1]][c[2]].pc # "idle"}
FewCalls == Cardinality(ActiveCalls) <= MaxActive \/ \E t \in Threads : ActiveCalls \subseteq {t} \X Levels

============================================================================
