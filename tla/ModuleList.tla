----------------------------- MODULE ModuleList -----------------------------
(***************************************************************************)
(* The cache of module information (DriverShared/LocalHook/caller.c, user  *)
(* mode): LhBarrierPointerToModule and LhBarrierGetCallingModule look a    *)
(* pointer up in the cached list and refresh the list when it is not       *)
(* there, LhEnumModules copies it.  Each block under GlobalHookLock is one *)
(* step; the refresh works between two of them without the lock, on        *)
(* the static array ProcessModules that all threads share.                 *)
(*                                                                         *)
(* Modules are numbers: module m covers the addresses Base(m) up to, but   *)
(* without, Base(m + 1), so that neighbours touch.                         *)
(***************************************************************************)
EXTENDS Naturals, Sequences, FiniteSets, SequencesExt

CONSTANTS
  Threads,     \* threads that query module information
  ModuleLimit, \* modules are numbered from 1 to ModuleLimit
  ImageSize,   \* addresses of a module
  Pointers,    \* addresses that are looked up
  MaxChanges,  \* bound on loads and unloads
  MaxCalls     \* bound on calls per thread

ASSUME SizesArePositive == {ModuleLimit, ImageSize} \subseteq Nat \ {0}

Modules == 1..ModuleLimit
Program == 1 \* the executable itself, which is never unloaded
Blank == 0   \* a record the refresh did not fill: base address NULL, size 0

Base(m) == IF m = Blank THEN 0 ELSE m * ImageSize
Size(m) == IF m = Blank THEN 0 ELSE ImageSize

Addresses == 0..((ModuleLimit + 1) * ImageSize)
ASSUME PointersAreAddresses == Pointers \subseteq Addresses

Invalid == {0, (ModuleLimit + 1) * ImageSize}  \* NULL and ~0

\* The module an address lies in.
Owner(p) == {m \in Modules : p >= Base(m) /\ p < Base(m) + Size(m)}

VARIABLES
  loaded,         \* modules of the process, in the order the loader lists them
  changes,        \* loads and unloads so far
  ProcessModules, \* the shared array EnumProcessModules fills
  LhModuleArray,  \* the chain of records reachable from the published array
  LhModuleCount,  \* the published count
  call            \* per thread: pc, pointer, refresh at hand, whether its last error is set and
                  \* made a refresh skip a module, result, what it may rely on

vars == <<loaded, changes, ProcessModules, LhModuleArray, LhModuleCount, call>>

IdleCall == [pc |-> "idle", calls |-> 0, pointer |-> 0, again |-> TRUE, index |-> 0,
             count |-> 0, list |-> <<>>, error |-> FALSE, skipped |-> FALSE,
             result |-> Blank, status |-> "none", alone |-> TRUE, stable |-> {}]

Init ==
  /\ \E s \in SUBSET Modules : Program \in s /\ loaded = SetToSeq(s)
  /\ changes = 0
  /\ ProcessModules = <<>>
  /\ LhModuleArray = <<>> /\ LhModuleCount = 0
  /\ call = [t \in Threads |-> IdleCall]

At(t, p) == call[t].pc = p

\* Threads between the two locked blocks of LhUpdateModuleInformation.
Refreshing == {t \in Threads : call[t].pc \in {"collect", "publish"}}

----------------------------------------------------------------------------
(* The process loads and unloads modules. *)

LoadModule(m) ==
  /\ changes < MaxChanges /\ m \notin ToSet(loaded)
  /\ loaded' = Append(loaded, m)
  /\ changes' = changes + 1
  /\ UNCHANGED <<ProcessModules, LhModuleArray, LhModuleCount, call>>

\* A module that is gone is no longer one the running calls may rely on.
UnloadModule(m) ==
  /\ changes < MaxChanges /\ m # Program
  /\ \E i \in DOMAIN loaded : loaded[i] = m /\ loaded' = RemoveAt(loaded, i)
  /\ changes' = changes + 1
  /\ call' = [t \in Threads |-> [call[t] EXCEPT !.stable = @ \ {m}]]
  /\ UNCHANGED <<ProcessModules, LhModuleArray, LhModuleCount>>

----------------------------------------------------------------------------
(* LhBarrierPointerToModule. *)

\* The call begins; LhBarrierGetCallingModule comes here with the return address.
LhBarrierPointerToModule(t, p) ==
  /\ At(t, "idle") /\ call[t].calls < MaxCalls
  /\ call' = [call EXCEPT ![t] = [IdleCall EXCEPT !.pc = "lookup", !.calls = call[t].calls + 1,
                                                  !.pointer = p, !.stable = ToSet(loaded)]]
  /\ UNCHANGED <<loaded, changes, ProcessModules, LhModuleArray, LhModuleCount>>

\* Back, with no more of a refresh at hand.
Returned(c, status, m) ==
  [c EXCEPT !.pc = "idle", !.status = status, !.result = m,
            !.index = 0, !.count = 0, !.list = <<>>, !.error = FALSE]

Returns(t, status, m) == call' = [call EXCEPT ![t] = Returned(@, status, m)]

\* The positions of records whose range, both ends included, holds the pointer.
Hits(p) == {i \in DOMAIN LhModuleArray :
              p >= Base(LhModuleArray[i]) /\ p <= Base(LhModuleArray[i]) + Size(LhModuleArray[i])}

\* The locked walk returns the first record that holds the pointer.
Lookup(t) ==
  LET hits == Hits(call[t].pointer) IN
  /\ At(t, "lookup")
  /\ IF hits # {}
     THEN Returns(t, "success", LhModuleArray[CHOOSE i \in hits : \A j \in hits : i <= j])
     ELSE IF call[t].pointer \in Invalid
     THEN Returns(t, "not found", Blank)
     ELSE call' = [call EXCEPT ![t].pc = "enumerate"]
  /\ UNCHANGED <<loaded, changes, ProcessModules, LhModuleArray, LhModuleCount>>

\* The first locked block of LhUpdateModuleInformation.  Its success clears no error that an
\* earlier call of the thread left behind.
Enumerate(t) ==
  /\ At(t, "enumerate")
  /\ ProcessModules' = [i \in 1..Cardinality(DOMAIN loaded \cup DOMAIN ProcessModules) |->
                          IF i \in DOMAIN loaded THEN loaded[i] ELSE ProcessModules[i]]
  /\ \E error \in BOOLEAN :
       call' = [u \in Threads |->
                  IF u = t
                  THEN [call[t] EXCEPT !.pc = "collect", !.index = 1,
                                       !.count = Len(loaded), !.list = <<>>,
                                       !.error = error,
                                       !.alone = @ /\ Refreshing = {}]
                  ELSE [call[u] EXCEPT !.alone = @ /\ u \notin Refreshing]]
  /\ UNCHANGED <<loaded, changes, LhModuleArray, LhModuleCount>>

\* Variant: the loop is left with the first module that is gone.
Collect_StopsAtGap(t) ==
  LET m == ProcessModules[call[t].index] IN
  /\ At(t, "collect")
  /\ call' = [call EXCEPT
       ![t].list = IF m \in ToSet(loaded) THEN Append(@, m) ELSE @,
       ![t].index = @ + 1,
       ![t].pc = IF call[t].index = call[t].count \/ m \notin ToSet(loaded) THEN "publish" ELSE @]
  /\ UNCHANGED <<loaded, changes, ProcessModules, LhModuleArray, LhModuleCount>>

\* One turn of the loop, without the lock.  GetModuleInformation fails for a module that is gone
\* and leaves an error behind.  GetModuleFileNameA reads the path of one that is there; where it
\* does not clear the error some earlier call left behind, the module is skipped as well.
Collect(t) ==
  LET m == ProcessModules[call[t].index]
      gone == m \notin ToSet(loaded) IN
  /\ At(t, "collect")
  /\ \E cleared \in BOOLEAN :
       LET error == gone \/ (call[t].error /\ ~cleared) IN
       call' = [call EXCEPT
         ![t].list = IF error THEN @ ELSE Append(@, m),
         ![t].error = error,
         ![t].skipped = @ \/ (error /\ ~gone),
         ![t].index = @ + 1,
         ![t].pc = IF call[t].index = call[t].count THEN "publish" ELSE @]
  /\ UNCHANGED <<loaded, changes, ProcessModules, LhModuleArray, LhModuleCount>>

\* Variant: every miss is tried again.
Publish_TriesForever(t) ==
  LET list == call[t].list IN
  /\ At(t, "publish")
  /\ LhModuleArray' = IF Len(list) < call[t].count THEN Append(list, Blank) ELSE list
  /\ LhModuleCount' = Len(list)
  /\ call' = [u \in Threads |->
                IF u # t THEN [call[u] EXCEPT !.alone = @ /\ call[u].pc = "idle"]
                ELSE [call[t] EXCEPT !.pc = "lookup"]]
  /\ UNCHANGED <<loaded, changes, ProcessModules>>

\* The second locked block frees the published arrays and replaces them.  When modules were
\* skipped, the Next of the last one filled leads to a blank record.
Publish(t) ==
  LET list == call[t].list IN
  /\ At(t, "publish")
  /\ LhModuleArray' = IF Len(list) < call[t].count THEN Append(list, Blank) ELSE list
  /\ LhModuleCount' = Len(list)
  /\ call' = [u \in Threads |->
                IF u # t THEN [call[u] EXCEPT !.alone = @ /\ call[u].pc = "idle"]
                ELSE IF call[t].again
                THEN [call[t] EXCEPT !.pc = "lookup", !.again = FALSE]
                ELSE Returned(call[t], "not found", Blank)]
  /\ UNCHANGED <<loaded, changes, ProcessModules>>

\* Not enough memory, or no enumeration: the refresh throws.
RefreshFails(t) ==
  /\ call[t].pc \in {"enumerate", "collect"}
  /\ Returns(t, "error", Blank)
  /\ UNCHANGED <<loaded, changes, ProcessModules, LhModuleArray, LhModuleCount>>

----------------------------------------------------------------------------
(* LhEnumModules. *)

\* For a buffer of max entries, 0 for none at all.  The list is walked in one locked block; it is
\* given up when the buffer was exceeded by an entry ("ModIndex > InMaxModuleCount").
LhEnumModules(t, max) ==
  LET written == IF Len(LhModuleArray) > max + 1 THEN max + 1 ELSE Len(LhModuleArray) IN
  /\ At(t, "idle") /\ call[t].calls < MaxCalls
  /\ call' = [call EXCEPT ![t] =
       [IdleCall EXCEPT !.calls = call[t].calls + 1,
                        !.count = LhModuleCount,
                        !.list = IF max = 0 THEN <<>> ELSE SubSeq(LhModuleArray, 1, written),
                        !.status = IF max > 0 /\ Len(LhModuleArray) > max + 1
                                   THEN "too small" ELSE "listed"]]
  /\ UNCHANGED <<loaded, changes, ProcessModules, LhModuleArray, LhModuleCount>>

----------------------------------------------------------------------------

Step(t) == Lookup(t) \/ Enumerate(t) \/ Collect(t) \/ Publish(t) \/ RefreshFails(t)

Next ==
  \/ \E t \in Threads : \E p \in Pointers : LhBarrierPointerToModule(t, p)
  \/ \E t \in Threads : \E max \in 0..ModuleLimit : LhEnumModules(t, max)
  \/ \E t \in Threads : Step(t)
  \/ \E m \in Modules : LoadModule(m) \/ UnloadModule(m)

\* A thread inside a call goes on; nothing makes a thread call or a module load.
Spec == Init /\ [][Next]_vars /\ \A t \in Threads : WF_vars(Step(t))

----------------------------------------------------------------------------
(* Properties. *)

\* A call that is back, with no other refresh during it, and the module its pointer lies in,
\* loaded from the beginning of the call to its end.
Answers(t, m) ==
  At(t, "idle") /\ call[t].alone /\ m \in Owner(call[t].pointer) \cap call[t].stable

\* Such a call finds a module, for what the cache does not know is looked up again after a refresh,
\* unless an old error made a refresh skip one; and it finds that module, unless the pointer is
\* its first address, which is also the last of the range of its neighbour (caller.c 230-249,
\* 430-486).
AloneFindsModule ==
  \A t \in Threads : \A m \in Modules : Answers(t, m) =>
    /\ call[t].status = "not found" => call[t].skipped
    /\ call[t].status = "success" => call[t].result = m \/ call[t].pointer = Base(m)

\* Every call returns, however often modules come and go and whoever else refreshes.
CallReturns == \A t \in Threads : call[t].pc # "idle" ~> At(t, "idle")

\* "STATUS_NOT_FOUND: No matching module could be found" (caller.c 415-417).
NotFoundHasNoModule ==
  \A t \in Threads : \A m \in Modules : Answers(t, m) => call[t].status # "not found"

\* "Receives the owner of a given method" (caller.c 411).
FoundIsOwner ==
  \A t \in Threads : \A m \in Modules :
    Answers(t, m) /\ call[t].status = "success" => call[t].result = m

=============================================================================
