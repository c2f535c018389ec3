---------------------------- MODULE HookService ----------------------------
(***************************************************************************)
(* What the hooking core promises of every hook, without saying how: an    *)
(* abstract specification that LocalHook is shown to implement.            *)
(*                                                                         *)
(* A hook is prepared, armed, removed and released, in this order and      *)
(* once.  Threads only get behind an armed hook's check of its handler;    *)
(* removing a hook does not wait for them, releasing it does.              *)
(***************************************************************************)
CONSTANTS
  Hooks,       \* hooks that may be installed
  Activations  \* places from which a handler may be called: a thread at a nesting depth

VARIABLES
  status, \* "absent", "prepared", "armed", "removed" or "released", for each hook
  inside, \* the activations that are behind the check of each hook
  up      \* the library is loaded

svars == <<status, inside, up>>

Init ==
  /\ status = [h \in Hooks |-> "absent"]
  /\ inside = [h \in Hooks |-> {}]
  /\ up = TRUE

\* An install gets its page; one that fails at once gives it back in the same step.
Prepare(h) ==
  /\ status[h] = "absent"
  /\ \E s \in {"prepared", "released"} : status' = [status EXCEPT ![h] = s]
  /\ UNCHANGED <<inside, up>>

\* A prepared hook that nobody can have reached is given up.
Abandon(h) ==
  /\ status[h] = "prepared"
  /\ status' = [status EXCEPT ![h] = "released"]
  /\ UNCHANGED <<inside, up>>

Arm(h) ==
  /\ status[h] = "prepared"
  /\ status' = [status EXCEPT ![h] = "armed"]
  /\ UNCHANGED <<inside, up>>

\* One hook or several are removed at once; threads may still be inside of them.
Disarm(S) ==
  /\ \A h \in S : status[h] = "armed"
  /\ status' = [h \in Hooks |-> IF h \in S THEN "removed" ELSE status[h]]
  /\ UNCHANGED <<inside, up>>

\* A thread is only admitted by an armed hook, and by one hook at a time.
Enter(h, a) ==
  /\ status[h] = "armed"
  /\ \A g \in Hooks : a \notin inside[g]
  /\ inside' = [inside EXCEPT ![h] = @ \cup {a}]
  /\ UNCHANGED <<status, up>>

Leave(h, a) ==
  /\ a \in inside[h]
  /\ inside' = [inside EXCEPT ![h] = @ \ {a}]
  /\ UNCHANGED <<status, up>>

\* Only a removed hook that nobody is inside of is released.
Free(h) ==
  /\ status[h] = "removed" /\ inside[h] = {}
  /\ status' = [status EXCEPT ![h] = "released"]
  /\ UNCHANGED <<inside, up>>

\* The library is unloaded, or was: it promises nothing any more.
Unload == up' = FALSE

Next ==
  \/ \E h \in Hooks : Prepare(h) \/ Abandon(h) \/ Arm(h) \/ Free(h)
  \/ \E S \in SUBSET Hooks : Disarm(S)
  \/ \E h \in Hooks, a \in Activations : Enter(h, a) \/ Leave(h, a)
  \/ Unload

Spec == Init /\ [][Next]_svars

============================================================================
