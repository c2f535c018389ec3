-------------------------- MODULE MCInjectionWait --------------------------
(* Instances of InjectionWait for TLC. *)
EXTENDS InjectionWait, TLC

\* The calls are alike, and so are the processes.
Symmetry == Permutations(Calls) \cup Permutations(Processes)

============================================================================
