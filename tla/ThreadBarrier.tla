---------------------------- MODULE ThreadBarrier ----------------------------
(***************************************************************************)
(* The thread deadlock barrier (DriverShared/LocalHook/barrier.c): the     *)
(* home-made thread local storage, self protection, LhBarrierIntro,        *)
(* LhBarrierOutro, the handler utilities and LhBarrierThreadDetach.        *)
(*                                                                         *)
(* A thread only touches its own storage entry; threads meet in IdList     *)
(* (under the ThreadSafe lock) and in the slots of GlobalSlotList, which   *)
(* hooks take and give back.  What LocalHook guarantees of the latter is   *)
(* assumed here: a slot is given back only when IsExecuted is zero.  The   *)
(* verdict of the access control lists is left open (HookAcl models it).   *)
(***************************************************************************)
EXTENDS Integers, FiniteSets

CONSTANTS
  Threads,          \* threads of the process
  Hooks,            \* hooks by their unique HLSIdent; each also stands for its Callback
  MAX_HOOK_COUNT,   \* slots, and length of each thread's table
  MAX_THREAD_COUNT, \* entries of the thread local storage
  MaxDepth,         \* bound: nesting of hooked calls on one thread
  NULL

ASSUME HookCount == MAX_HOOK_COUNT \in Nat \ {0}
ASSUME ThreadCount == MAX_THREAD_COUNT \in Nat \ {0}
ASSUME DepthBound == MaxDepth \in Nat \ {0}
ASSUME NullIsNothing == NULL \notin Threads \cup Hooks \cup Nat

VARIABLES
  IdList,     \* which thread owns each storage entry
  tls,        \* THREAD_RUNTIME_INFO of each storage entry
  slotOf,     \* HLSIndex of each installed hook, NULL if it is not installed
  removed,    \* hooks that were installed once and are gone
  pinned,     \* hooks whose IsExecuted was left raised for good
  frame,      \* the trampoline activations of each thread, outermost first
  fault,      \* why the process crashed, or "none"
  skipped     \* history: <<t, h>> if a handler of h on t returned past its outro

vars == <<IdList, tls, slotOf, removed, pinned, frame, fault, skipped>>

Slots   == 0 .. MAX_HOOK_COUNT - 1
Entries == 0 .. MAX_THREAD_COUNT - 1
Levels  == 1 .. MaxDepth

hookState == <<slotOf, removed, pinned>>

\* RUNTIME_INFO; the return address is named by the nesting level of its call.
RuntimeInfo  == [HLSIdent : Hooks \cup {NULL}, IsExecuting : BOOLEAN, RetAddress : Levels \cup {NULL}]
\* The table a thread allocates is no null pointer.
ASSUME NullIsNoTable == NULL \notin [Slots -> RuntimeInfo]

ZeroRuntime  == [HLSIdent |-> NULL, IsExecuting |-> FALSE, RetAddress |-> NULL]
ZeroEntry    == [Entries |-> NULL, Current |-> NULL, Callback |-> NULL, IsProtected |-> FALSE]
IdleFrame    == [pc |-> "idle", hook |-> NULL, trace |-> "none"]

Init ==
  /\ IdList = [i \in Entries |-> NULL]
  /\ tls = [i \in Entries |-> ZeroEntry]
  /\ slotOf = [h \in Hooks |-> NULL]
  /\ removed = {}
  /\ pinned = {}
  /\ frame = [t \in Threads |-> [d \in Levels |-> IdleFrame]]
  /\ fault = "none"
  /\ skipped = {}

----------------------------------------------------------------------------
(* The thread local storage. *)

\* TlsGetCurrentValue: the scan of IdList.
Registered(t) == \E i \in Entries : IdList[i] = t
EntryOf(t)    == CHOOSE i \in Entries : IdList[i] = t
Info(t)       == tls[EntryOf(t)]

\* TlsAddCurrentThread takes the first free entry and zeroes it; the caller goes on to
\* AcquireSelfProtection.
TlsAddCurrentThread(t) ==
  \E i \in Entries :
    /\ IdList[i] = NULL /\ \A j \in Entries : j < i => IdList[j] # NULL
    /\ IdList' = [IdList EXCEPT ![i] = t]
    /\ tls' = [tls EXCEPT ![i] = [ZeroEntry EXCEPT !.IsProtected = TRUE]]

----------------------------------------------------------------------------
(* The trampoline around the barrier. *)

\* The innermost activation of t is at level d and stands at p.
At(t, d, p) ==
  /\ fault = "none"
  /\ frame[t][d].pc = p
  /\ \A e \in Levels : e > d => frame[t][e].pc = "idle"

Goto(t, d, p) == frame' = [frame EXCEPT ![t][d].pc = p]

\* The trampoline continues in the original function instead of the handler.
RunOriginal(t, d) == frame' = [frame EXCEPT ![t][d] = IdleFrame]

Crash(why) ==
  /\ fault' = why
  /\ UNCHANGED <<IdList, tls, hookState, frame, skipped>>

\* A hooked function is called from ordinary code, from a handler, or by the heap while
\* LhBarrierIntro allocates the thread's table.
CallHooked(t, d, h) ==
  /\ fault = "none" /\ slotOf[h] # NULL
  /\ frame[t][d].pc = "idle"
  /\ d > 1 => \/ At(t, d - 1, "handler") \/ At(t, d - 1, "alloc")
  /\ d = 1 => \A e \in Levels : frame[t][e].pc = "idle"
  /\ frame' = [frame EXCEPT ![t][d] = [pc |-> "intro", hook |-> h, trace |-> "none"]]
  /\ UNCHANGED <<IdList, tls, hookState, fault, skipped>>

----------------------------------------------------------------------------
(* LhBarrierIntro. *)

\* The loader lock is held, the storage is full or the thread is already inside
\* LhBarrierIntro: FALSE, and the thread's entry is left alone.
IntroTurnsAway(t, d) ==
  /\ At(t, d, "intro")
  /\ RunOriginal(t, d)
  /\ UNCHANGED <<IdList, tls, hookState, fault, skipped>>

\* No loader lock: register the thread if it is new, and AcquireSelfProtection.
IntroProtects(t, d) ==
  /\ At(t, d, "intro")
  /\ \/ /\ Registered(t) /\ ~Info(t).IsProtected
        /\ tls' = [tls EXCEPT ![EntryOf(t)].IsProtected = TRUE]
        /\ Goto(t, d, "negotiate")
        /\ UNCHANGED IdList
     \/ /\ ~Registered(t)
        /\ TlsAddCurrentThread(t)
        /\ Goto(t, d, "alloc")
  /\ UNCHANGED <<hookState, fault, skipped>>

\* DONT_INTERCEPT: leave the handler context and ReleaseSelfProtection.
Unprotected(info) == [info EXCEPT !.Current = NULL, !.Callback = NULL, !.IsProtected = FALSE]

IntroAllocates_StaysProtected(t, d) ==
  /\ At(t, d, "alloc")
  /\ \/ /\ tls' = [tls EXCEPT ![EntryOf(t)].Entries = [i \in Slots |-> ZeroRuntime]]
        /\ Goto(t, d, "negotiate")
     \/ /\ UNCHANGED tls
        /\ RunOriginal(t, d)
  /\ UNCHANGED <<IdList, hookState, fault, skipped>>

\* RtlAllocateMemory for the table of a new thread; on failure the thread stays
\* registered without one.
IntroAllocates(t, d) ==
  /\ At(t, d, "alloc")
  /\ \/ /\ tls' = [tls EXCEPT ![EntryOf(t)].Entries = [i \in Slots |-> ZeroRuntime]]
        /\ Goto(t, d, "negotiate")
     \/ /\ tls' = [tls EXCEPT ![EntryOf(t)] = Unprotected(@)]
        /\ RunOriginal(t, d)
  /\ UNCHANGED <<IdList, hookState, fault, skipped>>

\* Runtime of hook h on thread t, after the reset of an entry left by an earlier hook.
RuntimeOf(t, h) ==
  LET r == Info(t).Entries[slotOf[h]] IN
  IF r.HLSIdent = h THEN r ELSE [r EXCEPT !.HLSIdent = h, !.IsExecuting = FALSE]

IntroNegotiates_NoBarrier(t, d) ==
  LET h == frame[t][d].hook
      i == slotOf[h]
      r == RuntimeOf(t, h) IN
  /\ At(t, d, "negotiate") /\ Info(t).Entries # NULL
  /\ tls' = [tls EXCEPT ![EntryOf(t)] =
               [Entries |-> [@.Entries EXCEPT ![i] = [r EXCEPT !.IsExecuting = TRUE, !.RetAddress = d]],
                Current |-> i, Callback |-> h, IsProtected |-> FALSE]]
  /\ Goto(t, d, "handler")
  /\ UNCHANGED <<IdList, hookState, fault, skipped>>

IntroNegotiates_KeepsContext(t, d) ==
  LET h == frame[t][d].hook
      i == slotOf[h]
      r == RuntimeOf(t, h) IN
  /\ At(t, d, "negotiate") /\ Info(t).Entries # NULL
  /\ \E intercepted \in BOOLEAN :
       IF intercepted /\ ~r.IsExecuting
       THEN /\ tls' = [tls EXCEPT ![EntryOf(t)] =
                         [Entries |-> [@.Entries EXCEPT ![i] =
                                         [r EXCEPT !.IsExecuting = TRUE, !.RetAddress = d]],
                          Current |-> i, Callback |-> h, IsProtected |-> FALSE]]
            /\ Goto(t, d, "handler")
       ELSE /\ tls' = [tls EXCEPT ![EntryOf(t)] =
                         [@ EXCEPT !.Current = i, !.Callback = h, !.IsProtected = FALSE]]
            /\ RunOriginal(t, d)
  /\ UNCHANGED <<IdList, hookState, fault, skipped>>

\* The rest of LhBarrierIntro.  A handler that is already executing on this thread is not
\* entered again; otherwise the access control lists decide.
IntroNegotiates(t, d) ==
  LET h == frame[t][d].hook
      i == slotOf[h]
      r == RuntimeOf(t, h) IN
  /\ At(t, d, "negotiate") /\ Info(t).Entries # NULL
  /\ \E intercepted \in BOOLEAN :
       IF intercepted /\ ~r.IsExecuting
       THEN /\ tls' = [tls EXCEPT ![EntryOf(t)] =
                         [Entries |-> [@.Entries EXCEPT ![i] =
                                         [r EXCEPT !.IsExecuting = TRUE, !.RetAddress = d]],
                          Current |-> i, Callback |-> h, IsProtected |-> FALSE]]
            /\ Goto(t, d, "handler")
       ELSE /\ tls' = [tls EXCEPT ![EntryOf(t)] =
                         [Unprotected(Info(t)) EXCEPT !.Entries[i] = r]]
            /\ RunOriginal(t, d)
  /\ UNCHANGED <<IdList, hookState, fault, skipped>>

\* A registered thread without a table: Entries is indexed all the same.
IntroFindsNoTable(t, d) ==
  /\ At(t, d, "negotiate") /\ Info(t).Entries = NULL
  /\ Crash("null table")

----------------------------------------------------------------------------
(* Inside a handler. *)

\* LhBarrierGetCallback, GetReturnAddress and GetAddressOfReturnAddress succeed.
InHandlerContext(t) == Registered(t) /\ Info(t).Current # NULL

\* LhBarrierBeginStackTrace puts the caller's return address back on the stack.
LhBarrierBeginStackTrace(t, d) ==
  /\ At(t, d, "handler") /\ frame[t][d].trace = "none"
  /\ InHandlerContext(t)
  /\ frame' = [frame EXCEPT ![t][d].trace = "open"]
  /\ UNCHANGED <<IdList, tls, hookState, fault, skipped>>

\* LhBarrierEndStackTrace undoes that, or fails with STATUS_NOT_SUPPORTED.
LhBarrierEndStackTrace(t, d) ==
  /\ At(t, d, "handler") /\ frame[t][d].trace = "open"
  /\ frame' = [frame EXCEPT ![t][d].trace = IF InHandlerContext(t) THEN "none" ELSE "failed"]
  /\ UNCHANGED <<IdList, tls, hookState, fault, skipped>>

\* The handler returns, after ending a stack trace it began: into the outro, or past it to
\* the caller when the return address was never replaced again.  IsExecuted then stays up.
HandlerReturns(t, d) ==
  LET h == frame[t][d].hook IN
  /\ At(t, d, "handler") /\ frame[t][d].trace # "open"
  /\ IF frame[t][d].trace = "none"
     THEN /\ Goto(t, d, "outro")
          /\ UNCHANGED <<pinned, skipped>>
     ELSE /\ frame' = [frame EXCEPT ![t][d] = IdleFrame]
          /\ skipped' = skipped \cup {<<t, h>>}
          /\ pinned' = pinned \cup {h}
  /\ UNCHANGED <<IdList, tls, slotOf, removed, fault>>

LhBarrierOutro_KeepsExecuting(t, d) ==
  /\ At(t, d, "outro")
  /\ tls' = [tls EXCEPT ![EntryOf(t)] = Unprotected(@)]
  /\ RunOriginal(t, d)
  /\ UNCHANGED <<IdList, hookState, fault, skipped>>

\* LhBarrierOutro with its assertions; afterwards the trampoline returns to the caller.
OutroAssertions(t, d) ==
  /\ Registered(t) /\ ~Info(t).IsProtected
  /\ Info(t).Entries # NULL /\ Info(t).Entries[slotOf[frame[t][d].hook]].IsExecuting

LhBarrierOutro(t, d) ==
  LET i == slotOf[frame[t][d].hook] IN
  /\ At(t, d, "outro")
  /\ IF ~OutroAssertions(t, d)
     THEN Crash("assertion")
     ELSE /\ tls' = [tls EXCEPT ![EntryOf(t)] =
                       [Unprotected(Info(t)) EXCEPT !.Entries[i].IsExecuting = FALSE]]
          /\ RunOriginal(t, d)
          /\ UNCHANGED <<IdList, hookState, fault, skipped>>

----------------------------------------------------------------------------
(* Threads and hooks come and go. *)

\* The hooks whose trampoline t is inside of.
Inside(t) == {frame[t][d].hook : d \in Levels} \ {NULL}

\* The thread exits, perhaps from inside a handler.
ThreadGone(t) ==
  /\ fault = "none"
  /\ \A d \in Levels : frame[t][d].pc \in {"idle", "handler"}
  /\ frame' = [frame EXCEPT ![t] = [d \in Levels |-> IdleFrame]]
  /\ pinned' = pinned \cup Inside(t)
  /\ skipped' = {s \in skipped : s[1] # t}
  /\ UNCHANGED <<slotOf, removed, fault>>

LhBarrierThreadDetach_KeepsTable(t) ==
  /\ ThreadGone(t)
  /\ IdList' = [i \in Entries |-> IF IdList[i] = t THEN NULL ELSE IdList[i]]
  /\ UNCHANGED tls

\* DLL_THREAD_DETACH releases the thread's entry; a new thread may then get the same id.
LhBarrierThreadDetach(t) ==
  /\ ThreadGone(t)
  /\ IdList' = [i \in Entries |-> IF IdList[i] = t THEN NULL ELSE IdList[i]]
  /\ tls' = [i \in Entries |-> IF IdList[i] = t THEN ZeroEntry ELSE tls[i]]

\* LhInstallHook gives a new hook, with a new HLSIdent, a free slot.
HookAppears(h) ==
  /\ fault = "none" /\ slotOf[h] = NULL /\ h \notin removed
  /\ \E i \in Slots : (\A g \in Hooks : slotOf[g] # i) /\ slotOf' = [slotOf EXCEPT ![h] = i]
  /\ UNCHANGED <<IdList, tls, removed, pinned, frame, fault, skipped>>

\* LhWaitForPendingRemovals releases the slot of a removed hook whose IsExecuted is zero.
HookDisappears(h) ==
  /\ fault = "none" /\ slotOf[h] # NULL
  /\ h \notin pinned /\ \A t \in Threads : h \notin Inside(t)
  /\ slotOf' = [slotOf EXCEPT ![h] = NULL]
  /\ removed' = removed \cup {h}
  /\ UNCHANGED <<IdList, tls, pinned, frame, fault, skipped>>

----------------------------------------------------------------------------

Intro(t, d) ==
  \/ IntroTurnsAway(t, d) \/ IntroProtects(t, d) \/ IntroAllocates(t, d)
  \/ IntroNegotiates(t, d) \/ IntroFindsNoTable(t, d)

Handler(t, d) ==
  \/ LhBarrierBeginStackTrace(t, d) \/ LhBarrierEndStackTrace(t, d) \/ HandlerReturns(t, d)

Next ==
  \/ \E t \in Threads :
       \/ LhBarrierThreadDetach(t)
       \/ \E d \in Levels :
            \/ \E h \in Hooks : CallHooked(t, d, h)
            \/ Intro(t, d) \/ Handler(t, d) \/ LhBarrierOutro(t, d)
  \/ \E h \in Hooks : HookAppears(h) \/ HookDisappears(h)

Spec == Init /\ [][Next]_vars

----------------------------------------------------------------------------
(* Properties. *)

Executing(t, d, h) == frame[t][d].hook = h /\ frame[t][d].pc \in {"handler", "outro"}

\* The assertions of LhBarrierOutro never fail, although handlers nest, slots are reused by
\* later hooks and threads detach and come back with the same id.
AssertionsHold == fault # "assertion"

\* TlsAddCurrentThread asserts that the thread is not registered yet, and
\* TlsGetCurrentValue returns the first match: no thread owns two entries, and a free entry
\* holds no table that the next owner would inherit.
EntriesAreOwned ==
  /\ \A i, j \in Entries : IdList[i] = IdList[j] /\ IdList[i] # NULL => i = j
  /\ \A i \in Entries : IdList[i] = NULL => tls[i].Entries = NULL

\* A handler's outro returns to the call it was entered by: the return address saved by the
\* intro is still the one of this activation.  Two activations of one handler on one thread
\* would share that record: so the barrier keeps a handler from being entered again, directly
\* or through other handlers, by a thread that is already executing it.
ReturnsToItsCaller ==
  \A t \in Threads, d \in Levels, h \in Hooks :
    Executing(t, d, h) =>
      Registered(t) /\ Info(t).Entries # NULL
      /\ Info(t).Entries[slotOf[h]] = [HLSIdent |-> h, IsExecuting |-> TRUE, RetAddress |-> d]

\* LhBarrierGetCallback never hands a handler the callback of another hook: if it succeeds,
\* the callback belongs to the innermost handler of the calling thread.
CallbackIsOwn ==
  \A t \in Threads, d \in Levels :
    At(t, d, "handler") /\ InHandlerContext(t) =>
      Info(t).Callback = frame[t][d].hook /\ Info(t).Current = slotOf[frame[t][d].hook]

\* AcquireSelfProtection disables all hooks for the current thread until
\* ReleaseSelfProtection: exactly while one of its activations is inside LhBarrierIntro.
ProtectionIsPaired ==
  \A t \in Threads :
    (Registered(t) /\ Info(t).IsProtected)
      <=> \E d \in Levels : frame[t][d].pc \in {"alloc", "negotiate"}

\* A thread that left a handler through the outro can be intercepted by it again.
BarrierReopens ==
  \A t \in Threads, h \in Hooks :
    /\ slotOf[h] # NULL /\ Registered(t) /\ Info(t).Entries # NULL
    /\ RuntimeOf(t, h).IsExecuting
    => <<t, h>> \in skipped \/ \E d \in Levels : Executing(t, d, h)

============================================================================
