------------------------------ MODULE LocalHook ------------------------------
(***************************************************************************)
(* The local hooking core: LhInstallHook, LhUninstallHook,                 *)
(* LhUninstallAllHooks, LhWaitForPendingRemovals and LhCriticalFinalize    *)
(* (DriverShared/LocalHook/install.c, uninstall.c, alloc.c), interleaved   *)
(* with threads that call hooked functions and run through the assembler   *)
(* trampoline (DriverShared/ASM/HookSpecific_x64.asm, _x86.asm).           *)
(*                                                                         *)
(* Granularity: everything between RtlAcquireLock and RtlReleaseLock of    *)
(* GlobalHookLock is one step; everything the code does outside the lock   *)
(* is one step per access to state that other threads read or write.  The  *)
(* verdict of LhBarrierIntro is left open here (ThreadBarrier models it).  *)
(***************************************************************************)
EXTENDS Integers, Sequences, FiniteSets, SequencesExt

CONSTANTS
  Hooks,          \* LOCAL_HOOK_INFO pages, one per call of LhAllocateHook; the address
                  \* of a freed page is assumed not to be handed out again
  Targets,        \* functions that may be hooked
  Handles,        \* HOOK_TRACE_INFO structures owned by the API's callers
  Threads,        \* threads that call hooked functions
  Controllers,    \* those of them that call the Lh* API
  MAX_HOOK_COUNT, \* length of GlobalSlotList
  MaxDepth,       \* bound: nesting of hooked calls on one thread
  WaitRounds,     \* Timeout / 25 of LhWaitForPendingRemovals (40 in the code)
  Arch,           \* "x64" or "x86": which trampoline is copied
  Original,       \* the unpatched code of a function
  NULL            \* the null pointer

ASSUME HookCount == MAX_HOOK_COUNT \in Nat \ {0}
ASSUME DepthBound == MaxDepth \in Nat \ {0}
ASSUME RoundBound == WaitRounds \in Nat
ASSUME ControllersRun == Controllers \subseteq Threads
ASSUME ThreadsFinite == IsFiniteSet(Threads)
ASSUME ArchKnown == Arch \in {"x64", "x86"}
ASSUME Distinct == Original \notin Hooks /\ NULL \notin Hooks \cup Handles

VARIABLES
  hook,        \* the LOCAL_HOOK_INFO in each page, and whether the page is mapped
  entry,       \* first bytes of each target: Original or a jump into a hook's page
  link,        \* HOOK_TRACE_INFO.Link of each handle
  slotList,    \* GlobalSlotList; a hook stands for its unique HLSIdent
  hookList,    \* GlobalHookListHead, newest first
  removalList, \* GlobalRemovalListHead, last pushed first
  op,          \* the API call each thread is in
  frame,       \* the trampoline activations of each thread, outermost first
  dll,         \* "loaded", "detaching" (DLL_PROCESS_DETACH) or "unloaded"
  fault,       \* why the process crashed, or "none"
  timedOut     \* history: hooks given up by LhWaitForPendingRemovals on timeout

vars == <<hook, entry, link, slotList, hookList, removalList, op, frame, dll, fault,
          timedOut>>

Slots  == 0 .. MAX_HOOK_COUNT - 1
Levels == 1 .. MaxDepth

InstallPcs == {"backup", "register", "unwind", "patch", "publish", "track"}
WaitPcs    == {"pop", "compare", "restore", "drain", "release", "free"}

\* Positions in the trampoline.  "handler" to the end of the outro lie behind a
\* successful check of HookProc; the execution counter covers these, "counted"
\* and "reject"; "entered", "leave" and "return" run in the page uncounted.
HandlerPcs == {"intro", "jump", "handler", "outro", "uncount"}
CountedPcs == HandlerPcs \cup {"counted", "reject"}
FramePcs   == CountedPcs \cup {"idle", "entered", "leave", "return"}

BlankHook == [page |-> "unused", TargetProc |-> NULL, OldProc |-> Original,
              TargetBackup |-> Original, HookProc |-> FALSE, HLSIndex |-> 0,
              IsExecuted |-> 0, Tracking |-> NULL]
IdleOp    == [pc |-> "idle", hook |-> NULL, handle |-> NULL, budget |-> 0]
WaitOp    == [pc |-> "pop", hook |-> NULL, handle |-> NULL, budget |-> WaitRounds]
IdleFrame == [pc |-> "idle", hook |-> NULL]

Init ==
  /\ hook = [h \in Hooks |-> BlankHook]
  /\ entry = [f \in Targets |-> Original]
  /\ link = [k \in Handles |-> NULL]
  /\ slotList = [i \in Slots |-> NULL]
  /\ hookList = <<>>
  /\ removalList = <<>>
  /\ op = [t \in Threads |-> IdleOp]
  /\ frame = [t \in Threads |-> [d \in Levels |-> IdleFrame]]
  /\ dll = "loaded"
  /\ fault = "none"
  /\ timedOut = {}

----------------------------------------------------------------------------
(* Threads, frames and pages. *)

Live(h)  == hook[h].page = "live"
Freed(h) == hook[h].page = "freed"

\* LhFreeMemory: the page is unmapped.  The other fields keep their last values as a
\* record of what the hook was; no step reads them again.
Release(h) == [hook[h] EXCEPT !.page = "freed", !.HookProc = FALSE]

\* A thread may start an API call from ordinary code or from inside a handler.
MayCallApi(t) ==
  /\ fault = "none" /\ dll = "loaded"
  /\ t \in Controllers
  /\ op[t].pc = "idle"
  /\ \A d \in Levels : frame[t][d].pc \in {"idle", "handler"}

AtOp(t, p) == fault = "none" /\ op[t].pc = p

\* The innermost activation of thread t is at level d and stands at p.
At(t, d, p) ==
  /\ fault = "none" /\ op[t].pc = "idle"
  /\ frame[t][d].pc = p
  /\ \A e \in Levels : e > d => frame[t][e].pc = "idle"

\* The same, with the trampoline's page still mapped.
InPage(t, d, p) == At(t, d, p) /\ ~Freed(frame[t][d].hook)

Goto(t, d, p) == frame' = [frame EXCEPT ![t][d].pc = p]

Crash(why) ==
  /\ fault' = why
  /\ UNCHANGED <<hook, entry, link, slotList, hookList, removalList, op, frame, dll,
                 timedOut>>

apiState  == <<link, slotList, hookList, removalList, op, dll, timedOut>>
callState == <<frame, fault>>

----------------------------------------------------------------------------
(* LhInstallHook. *)

\* Parameter checks and LhAllocateHook up to the relocated entry point: relocating
\* an entry that jumps into another hook keeps that jump as OldProc.  If relocating or
\* reaching the entry point fails, its outro frees the page that *OutHook still names.
LhAllocateHook(t, f, k, succeeds) ==
  /\ MayCallApi(t)
  /\ link[k] = NULL /\ \A u \in Threads : op[u].handle # k
  /\ \E h \in Hooks :
       /\ hook[h].page = "unused"
       /\ hook' = [hook EXCEPT ![h] =
                     [BlankHook EXCEPT !.page = IF succeeds THEN "live" ELSE "freed",
                                       !.TargetProc = f, !.HookProc = succeeds,
                                       !.OldProc = entry[f]]]
       /\ op' = [op EXCEPT ![t] = [pc |-> IF succeeds THEN "backup" ELSE "unwind",
                                   hook |-> h, handle |-> k, budget |-> 0]]
  /\ UNCHANGED <<entry, link, slotList, hookList, removalList, dll, timedOut, callState>>

\* The last statement of LhAllocateHook: TargetBackup = *TargetProc.
BackupEntry(t) ==
  LET h == op[t].hook IN
  /\ AtOp(t, "backup")
  /\ hook' = [hook EXCEPT ![h].TargetBackup = entry[hook[h].TargetProc]]
  /\ op' = [op EXCEPT ![t].pc = "register"]
  /\ UNCHANGED <<entry, link, slotList, hookList, removalList, dll, timedOut, callState>>

\* A THROW of LhInstallHook: unreachable jump, RtlProtectMemory, no free slot.
InstallFails(t) ==
  /\ AtOp(t, "register")
  /\ op' = [op EXCEPT ![t].pc = "unwind"]
  /\ UNCHANGED <<hook, entry, link, slotList, hookList, removalList, dll, timedOut, callState>>

\* THROW_OUTRO of LhInstallHook frees the hook.  If LhAllocateHook freed it already, the
\* 64-bit VirtualFree refuses and the 32-bit heap may crash.
UnwindInstall(t) ==
  LET h == op[t].hook IN
  /\ AtOp(t, "unwind")
  /\ \/ /\ hook' = [hook EXCEPT ![h] = Release(h)]
        /\ op' = [op EXCEPT ![t] = IdleOp]
        /\ UNCHANGED <<entry, link, slotList, hookList, removalList, dll, timedOut, callState>>
     \/ Freed(h) /\ Arch = "x86" /\ Crash("freed page")

RegisterSlot_Occupied(t) ==
  LET h == op[t].hook IN
  /\ AtOp(t, "register")
  /\ slotList' = [slotList EXCEPT ![0] = h]
  /\ hook' = [hook EXCEPT ![h].HLSIndex = 0]
  /\ op' = [op EXCEPT ![t].pc = "patch"]
  /\ UNCHANGED <<entry, link, hookList, removalList, dll, timedOut, callState>>

\* First critical section: take the first free slot of GlobalSlotList.
RegisterSlot(t) ==
  LET h == op[t].hook IN
  /\ AtOp(t, "register")
  /\ \E i \in Slots :
       /\ slotList[i] = NULL /\ \A j \in Slots : j < i => slotList[j] # NULL
       /\ slotList' = [slotList EXCEPT ![i] = h]
       /\ hook' = [hook EXCEPT ![h].HLSIndex = i]
  /\ op' = [op EXCEPT ![t].pc = "patch"]
  /\ UNCHANGED <<entry, link, hookList, removalList, dll, timedOut, callState>>

\* Overwrite the entry point with the jumper; HookCopy is "jump into this page".
PatchEntry(t) ==
  LET h == op[t].hook IN
  /\ AtOp(t, "patch")
  /\ entry' = [entry EXCEPT ![hook[h].TargetProc] = h]
  /\ op' = [op EXCEPT ![t].pc = "publish"]
  /\ UNCHANGED <<hook, link, slotList, hookList, removalList, dll, timedOut, callState>>

\* Second critical section: push on the global list.
PublishHook(t) ==
  /\ AtOp(t, "publish")
  /\ hookList' = <<op[t].hook>> \o hookList
  /\ op' = [op EXCEPT ![t].pc = "track"]
  /\ UNCHANGED <<hook, entry, link, slotList, removalList, dll, timedOut, callState>>

\* Signature, Tracking and OutHandle->Link, outside of the lock.
TrackHook(t) ==
  LET h == op[t].hook IN
  /\ AtOp(t, "track")
  /\ IF Freed(h)
     THEN Crash("freed page")
     ELSE /\ hook' = [hook EXCEPT ![h].Tracking = op[t].handle]
          /\ link' = [link EXCEPT ![op[t].handle] = h]
          /\ op' = [op EXCEPT ![t] = IdleOp]
          /\ UNCHANGED <<entry, slotList, hookList, removalList, dll, timedOut, callState>>

----------------------------------------------------------------------------
(* LhUninstallHook, LhUninstallAllHooks. *)

\* LhIsValidHandle for a handle whose Link is not NULL and points to a mapped page.
LhIsValidHandle(k) == link[k] # NULL /\ Live(link[k]) /\ hook[link[k]].HookProc

\* Unlinking h: Prev is never advanced, so the list's head is set to h's successor
\* and every hook newer than h drops out of the list together with h.
Unlink(list, h) ==
  IF h \in Range(list)
  THEN SubSeq(list, 1 + CHOOSE i \in DOMAIN list : list[i] = h, Len(list))
  ELSE list

LhUninstallHook_NotQueued(t, k) ==
  LET h == link[k] IN
  /\ MayCallApi(t)
  /\ LhIsValidHandle(k)
  /\ link' = [link EXCEPT ![k] = NULL]
  /\ hook' = [hook EXCEPT ![h].HookProc = FALSE]
  /\ hookList' = Unlink(hookList, h)
  /\ UNCHANGED <<entry, slotList, removalList, op, dll, timedOut, callState>>

LhUninstallHook_StillArmed(t, k) ==
  LET h == link[k] IN
  /\ MayCallApi(t)
  /\ LhIsValidHandle(k)
  /\ link' = [link EXCEPT ![k] = NULL]
  /\ hookList' = Unlink(hookList, h)
  /\ removalList' = <<h>> \o removalList
  /\ UNCHANGED <<hook, entry, slotList, op, dll, timedOut, callState>>

LhUninstallHook(t, k) ==
  LET h == link[k] IN
  /\ MayCallApi(t)
  /\ LhIsValidHandle(k)
  /\ link' = [link EXCEPT ![k] = NULL]
  /\ hook' = [hook EXCEPT ![h].HookProc = FALSE]
  /\ hookList' = Unlink(hookList, h)
  /\ removalList' = <<h>> \o removalList
  /\ UNCHANGED <<entry, slotList, op, dll, timedOut, callState>>

\* A handle whose Link points to a freed page is dereferenced by LhIsValidHandle.
UseDanglingHandle(t, k) ==
  /\ MayCallApi(t)
  /\ link[k] # NULL /\ Freed(link[k])
  /\ Crash("freed page")

UninstallAll_KeepsLinks ==
  /\ hook' = [h \in Hooks |-> IF h \in Range(hookList) THEN [hook[h] EXCEPT !.HookProc = FALSE]
                                                      ELSE hook[h]]
  /\ removalList' = Reverse(hookList) \o removalList
  /\ hookList' = <<>>
  /\ UNCHANGED link

\* The body of LhUninstallAllHooks, also run by LhCriticalFinalize.
UninstallAll ==
  LET all == Range(hookList) IN
  /\ link' = [k \in Handles |->
                IF LhIsValidHandle(k) /\ \E h \in all : hook[h].Tracking = k
                THEN NULL ELSE link[k]]
  /\ hook' = [h \in Hooks |-> IF h \in all THEN [hook[h] EXCEPT !.HookProc = FALSE]
                                           ELSE hook[h]]
  /\ removalList' = Reverse(hookList) \o removalList
  /\ hookList' = <<>>

LhUninstallAllHooks(t) ==
  /\ MayCallApi(t)
  /\ UninstallAll
  /\ UNCHANGED <<entry, slotList, op, dll, timedOut, callState>>

----------------------------------------------------------------------------
(* LhWaitForPendingRemovals, LhCriticalFinalize. *)

LhWaitForPendingRemovals(t) ==
  /\ MayCallApi(t)
  /\ op' = [op EXCEPT ![t] = WaitOp]
  /\ UNCHANGED <<hook, entry, link, slotList, hookList, removalList, dll, timedOut, callState>>

\* DLL_PROCESS_DETACH of a FreeLibrary: no other thread is inside the API.
LhCriticalFinalize(t) ==
  /\ MayCallApi(t) /\ \A u \in Threads : op[u].pc = "idle"
  /\ UninstallAll
  /\ dll' = "detaching"
  /\ op' = [op EXCEPT ![t] = WaitOp]
  /\ UNCHANGED <<entry, slotList, timedOut, callState>>

PopRemoval(t) ==
  /\ AtOp(t, "pop") /\ removalList # <<>>
  /\ removalList' = Tail(removalList)
  /\ op' = [op EXCEPT ![t].pc = "compare", ![t].hook = Head(removalList)]
  /\ UNCHANGED <<hook, entry, link, slotList, hookList, dll, timedOut, callState>>

\* The removal list is empty: return, and with a detaching DLL unmap it.  The 32-bit
\* build destroys the heap that holds the hook pages as well (dllmain.c).
WaitReturns(t) ==
  /\ AtOp(t, "pop") /\ removalList = <<>>
  /\ op' = [op EXCEPT ![t] = IdleOp]
  /\ dll' = IF dll = "detaching" THEN "unloaded" ELSE dll
  /\ hook' = IF dll = "detaching" /\ Arch = "x86"
             THEN [h \in Hooks |-> IF Live(h) THEN Release(h) ELSE hook[h]]
             ELSE hook
  /\ UNCHANGED <<entry, link, slotList, hookList, removalList, timedOut, callState>>

\* HookCopy against the entry point: an entry changed since is left alone, and with it
\* the hook's page and slot.
CompareEntry(t) ==
  LET h == op[t].hook IN
  /\ AtOp(t, "compare")
  /\ op' = [op EXCEPT ![t].pc = IF entry[hook[h].TargetProc] = h THEN "restore" ELSE "pop",
                      ![t].hook = IF entry[hook[h].TargetProc] = h THEN h ELSE NULL]
  /\ UNCHANGED <<hook, entry, link, slotList, hookList, removalList, dll, timedOut, callState>>

RestoreEntry_Forgotten(t) ==
  /\ AtOp(t, "restore")
  /\ op' = [op EXCEPT ![t].pc = "drain"]
  /\ UNCHANGED <<hook, entry, link, slotList, hookList, removalList, dll, timedOut, callState>>

RestoreEntry(t) ==
  LET h == op[t].hook IN
  /\ AtOp(t, "restore")
  /\ entry' = [entry EXCEPT ![hook[h].TargetProc] = hook[h].TargetBackup]
  /\ op' = [op EXCEPT ![t].pc = "drain"]
  /\ UNCHANGED <<hook, link, slotList, hookList, removalList, dll, timedOut, callState>>

Drain_NeverGivesUp(t) ==
  LET h == op[t].hook IN
  /\ AtOp(t, "drain")
  /\ \/ hook[h].IsExecuted <= 0 /\ op' = [op EXCEPT ![t].pc = "release"]
     \/ hook[h].IsExecuted > 0 /\ op[t].budget > 0 /\ op' = [op EXCEPT ![t].budget = @ - 1]
  /\ UNCHANGED <<hook, entry, link, slotList, hookList, removalList, dll, timedOut, callState>>

Drain_IgnoresCounter(t) ==
  /\ AtOp(t, "drain")
  /\ op' = [op EXCEPT ![t].pc = "release"]
  /\ UNCHANGED <<hook, entry, link, slotList, hookList, removalList, dll, timedOut, callState>>

\* One turn of the wait loop: done, given up, or a sleep of 25 ms.  The budget is
\* shared by all the hooks of the call.
Drain(t) ==
  LET h == op[t].hook IN
  /\ AtOp(t, "drain")
  /\ \/ /\ hook[h].IsExecuted <= 0
        /\ op' = [op EXCEPT ![t].pc = "release"]
        /\ UNCHANGED timedOut
     \/ /\ hook[h].IsExecuted > 0 /\ op[t].budget <= 0
        /\ op' = [op EXCEPT ![t].pc = "pop", ![t].hook = NULL]
        /\ timedOut' = timedOut \cup {h}
     \/ /\ hook[h].IsExecuted > 0 /\ op[t].budget > 0
        /\ op' = [op EXCEPT ![t].budget = @ - 1]
        /\ UNCHANGED timedOut
  /\ UNCHANGED <<hook, entry, link, slotList, hookList, removalList, dll, callState>>

\* GlobalSlotList is written here without the lock.
ReleaseSlot(t) ==
  LET h == op[t].hook
      i == hook[h].HLSIndex IN
  /\ AtOp(t, "release")
  /\ slotList' = [slotList EXCEPT ![i] = IF @ = h THEN NULL ELSE @]
  /\ op' = [op EXCEPT ![t].pc = "free"]
  /\ UNCHANGED <<hook, entry, link, hookList, removalList, dll, timedOut, callState>>

FreeHook(t) ==
  /\ AtOp(t, "free")
  /\ hook' = [hook EXCEPT ![op[t].hook] = Release(op[t].hook)]
  /\ op' = [op EXCEPT ![t].pc = "pop", ![t].hook = NULL]
  /\ UNCHANGED <<entry, link, slotList, hookList, removalList, dll, timedOut, callState>>

----------------------------------------------------------------------------
(* A thread calls a hooked function and runs through the trampoline. *)

\* Call f at nesting level d; a call of an unpatched function changes nothing here.
CallTarget(t, d, f) ==
  /\ fault = "none" /\ op[t].pc = "idle"
  /\ frame[t][d].pc = "idle" /\ \A e \in Levels : e < d => frame[t][e].pc = "handler"
  /\ entry[f] # Original
  /\ frame' = [frame EXCEPT ![t][d] = [pc |-> "entered", hook |-> entry[f]]]
  /\ UNCHANGED <<hook, entry, fault, apiState>>

CountIn_NotAdded(t, d) ==
  /\ InPage(t, d, "entered")
  /\ hook' = [hook EXCEPT ![frame[t][d].hook].IsExecuted = 1]
  /\ Goto(t, d, "counted")
  /\ UNCHANGED <<entry, fault, apiState>>

\* Interlocked increment of IsExecuted.
CountIn(t, d) ==
  /\ InPage(t, d, "entered")
  /\ hook' = [hook EXCEPT ![frame[t][d].hook].IsExecuted = @ + 1]
  /\ Goto(t, d, "counted")
  /\ UNCHANGED <<entry, fault, apiState>>

\* cmp NewProc, 0: is a user handler available?
CheckHookProc(t, d) ==
  /\ InPage(t, d, "counted")
  /\ Goto(t, d, IF hook[frame[t][d].hook].HookProc THEN "intro" ELSE "reject")
  /\ UNCHANGED <<hook, entry, fault, apiState>>

\* call LhBarrierIntro, and branch on its verdict.
BarrierIntro(t, d, verdict) ==
  /\ InPage(t, d, "intro")
  /\ IF dll = "unloaded"
     THEN Crash("unloaded dll")
     ELSE /\ Goto(t, d, IF verdict THEN "jump" ELSE "reject")
          /\ UNCHANGED <<hook, entry, fault, apiState>>

\* The jump to the handler: x64 reads HookProc again, x86 jumps to a constant.
JumpToHandler(t, d) ==
  /\ InPage(t, d, "jump")
  /\ IF Arch = "x64" /\ ~hook[frame[t][d].hook].HookProc
     THEN Crash("null handler")
     ELSE /\ Goto(t, d, "handler")
          /\ UNCHANGED <<hook, entry, fault, apiState>>

\* The handler returns to CALL_NET_OUTRO of the trampoline.
HandlerReturns(t, d) ==
  /\ InPage(t, d, "handler")
  /\ Goto(t, d, "outro")
  /\ UNCHANGED <<hook, entry, fault, apiState>>

BarrierOutro(t, d) ==
  /\ InPage(t, d, "outro")
  /\ IF dll = "unloaded"
     THEN Crash("unloaded dll")
     ELSE /\ Goto(t, d, "uncount")
          /\ UNCHANGED <<hook, entry, fault, apiState>>

\* Interlocked decrement of IsExecuted, after the outro or before OldProc.
CountOut(t, d) ==
  /\ \/ InPage(t, d, "uncount") /\ Goto(t, d, "return")
     \/ InPage(t, d, "reject")  /\ Goto(t, d, "leave")
  /\ hook' = [hook EXCEPT ![frame[t][d].hook].IsExecuted = @ - 1]
  /\ UNCHANGED <<entry, fault, apiState>>

\* The last instructions of the page: ret, or the relocated entry point (OldProc) that
\* continues in the original function or in the hook that was there before.
LeavePage(t, d) ==
  LET next == hook[frame[t][d].hook].OldProc IN
  /\ \/ /\ InPage(t, d, "return")
        /\ frame' = [frame EXCEPT ![t][d] = IdleFrame]
     \/ /\ InPage(t, d, "leave")
        /\ frame' = [frame EXCEPT ![t][d] =
                       IF next = Original THEN IdleFrame ELSE [pc |-> "entered", hook |-> next]]
  /\ UNCHANGED <<hook, entry, fault, apiState>>

\* Any instruction of a trampoline whose page was freed.
RunFreedPage(t, d) ==
  /\ \E p \in FramePcs \ {"idle"} : At(t, d, p)
  /\ Freed(frame[t][d].hook)
  /\ Crash("freed page")

----------------------------------------------------------------------------

Install(t) ==
  \/ \E f \in Targets, k \in Handles, succeeds \in BOOLEAN : LhAllocateHook(t, f, k, succeeds)
  \/ BackupEntry(t) \/ InstallFails(t) \/ UnwindInstall(t) \/ RegisterSlot(t)
  \/ PatchEntry(t) \/ PublishHook(t) \/ TrackHook(t)

Uninstall(t) ==
  \/ \E k \in Handles : LhUninstallHook(t, k) \/ UseDanglingHandle(t, k)
  \/ LhUninstallAllHooks(t)

WaitStep(t) ==
  \/ PopRemoval(t) \/ WaitReturns(t) \/ CompareEntry(t) \/ RestoreEntry(t)
  \/ Drain(t) \/ ReleaseSlot(t) \/ FreeHook(t)

Wait(t) == LhWaitForPendingRemovals(t) \/ LhCriticalFinalize(t) \/ WaitStep(t)

Trampoline(t, d) ==
  \/ \E f \in Targets : CallTarget(t, d, f)
  \/ CountIn(t, d) \/ CheckHookProc(t, d)
  \/ \E verdict \in BOOLEAN : BarrierIntro(t, d, verdict)
  \/ JumpToHandler(t, d) \/ HandlerReturns(t, d) \/ BarrierOutro(t, d)
  \/ CountOut(t, d) \/ LeavePage(t, d) \/ RunFreedPage(t, d)

Next ==
  \E t \in Threads :
    \/ Install(t) \/ Uninstall(t) \/ Wait(t)
    \/ \E d \in Levels : Trampoline(t, d)

Spec == Init /\ [][Next]_vars

\* The operating system schedules a thread inside LhWaitForPendingRemovals; nothing
\* forces a handler to return.
FairSpec == Spec /\ \A t \in Controllers : WF_vars(WaitStep(t))

----------------------------------------------------------------------------
(* Properties. *)

HookRecord ==
  [page : {"unused", "live", "freed"}, TargetProc : Targets \cup {NULL},
   OldProc : Hooks \cup {Original}, TargetBackup : Hooks \cup {Original},
   HookProc : BOOLEAN, HLSIndex : Slots, IsExecuted : Int,
   Tracking : Handles \cup {NULL}]

OpRecord ==
  [pc : {"idle"} \cup InstallPcs \cup WaitPcs, hook : Hooks \cup {NULL},
   handle : Handles \cup {NULL}, budget : 0 .. WaitRounds]

FrameRecord == [pc : FramePcs, hook : Hooks \cup {NULL}]

\* Every variable has its type.
TypeOK ==
  /\ hook \in [Hooks -> HookRecord]
  /\ entry \in [Targets -> Hooks \cup {Original}]
  /\ link \in [Handles -> Hooks \cup {NULL}]
  /\ slotList \in [Slots -> Hooks \cup {NULL}]
  /\ hookList \in Seq(Hooks) /\ removalList \in Seq(Hooks)
  /\ op \in [Threads -> OpRecord]
  /\ frame \in [Threads -> [Levels -> FrameRecord]]
  /\ dll \in {"loaded", "detaching", "unloaded"}
  /\ fault \in {"none", "freed page", "null handler", "unloaded dll"}
  /\ timedOut \subseteq Hooks

InHandler(h, t, d) == frame[t][d].hook = h /\ frame[t][d].pc \in HandlerPcs

\* "All resources associated with a hook have to be released if no thread is currently
\* executing the handler" (LhWaitForPendingRemovals): a thread behind the HookProc check
\* keeps the hook's page mapped, whatever installs, removals and waits run meanwhile,
\* although LhWaitForPendingRemovals reads the counter once and frees three steps later.
HandlerPinsHook ==
  \A h \in Hooks, t \in Threads, d \in Levels :
    InHandler(h, t, d) /\ dll # "unloaded" => Live(h)

\* LhBarrierIntro and LhBarrierOutro index their per-thread table with HLSIndex: while a
\* handler of h may run, no other hook gets h's slot.
HandlerPinsSlot ==
  \A h \in Hooks, t \in Threads, d \in Levels :
    InHandler(h, t, d) /\ dll # "unloaded" => slotList[hook[h].HLSIndex] = h

\* The hooks a call of some function may run through: the least set that holds what the
\* entry points jump to and, with a hook, what its OldProc jumps to.
Reachable ==
  LET IsClosed(S) == /\ Range(entry) \subseteq S \cup {Original}
                     /\ \A h \in S : hook[h].OldProc \in S \cup {Original}
  IN {h \in Hooks : \A S \in SUBSET Hooks : IsClosed(S) => h \in S}

\* A call of any function never reaches a page that was already freed, in whatever order
\* hooks stacked on one function are removed: the waiter compares the entry point with
\* HookCopy and gives up the page of a hook that was hooked in turn.
EntriesReachLivePages == dll # "unloaded" => \A h \in Reachable : Live(h)

\* Handles and API calls in progress only refer to mapped pages: no use after free in
\* LhUninstallHook, LhUninstallAllHooks or the end of LhInstallHook.  An install that fails
\* is left out: its outro may free a page that LhAllocateHook freed before.
ApiReachesLivePages ==
  /\ \A k \in Handles : link[k] # NULL /\ dll # "unloaded" => Live(link[k])
  /\ \A t \in Threads : op[t].hook # NULL /\ op[t].pc # "unwind" => Live(op[t].hook)

InInstall(h) == \E t \in Threads : op[t].hook = h /\ op[t].pc \in InstallPcs
InWait(h)    == \E t \in Threads : op[t].hook = h /\ op[t].pc \in WaitPcs

\* A hook that left the global list through the removal of an older one can still be
\* uninstalled by hand: every armed hook is the Link of its own handle.
ArmedHookHasHandle ==
  \A h \in Hooks : hook[h].HookProc /\ ~InInstall(h) =>
    hook[h].Tracking # NULL /\ link[hook[h].Tracking] = h

\* A removed hook's page and slot are given up only if a wait ran out of time for it, or
\* another hook was stacked upon it.
LeaksAreJustified ==
  \A h \in Hooks :
    Live(h) /\ ~hook[h].HookProc /\ h \notin Range(removalList) /\ ~InWait(h) =>
      \/ h \in timedOut
      \/ \E g \in Hooks \ {h} : hook[g].OldProc = h

\* "We will leak the memory, but not hang forever": LhWaitForPendingRemovals returns even
\* if handlers never do and other threads keep calling.
WaitDoesNotHang ==
  \A t \in Controllers : op[t].pc = "pop" ~> (op[t].pc = "idle" \/ fault # "none")

\* How far a hook is in its life.  "From now on the unrecoverable code section starts"
\* (install.c) once it has its slot; it is removed when it loses its handler.
LifeStage(h) ==
  IF hook[h].page = "unused" THEN "absent"
  ELSE IF Freed(h) THEN "released"
  ELSE IF ~hook[h].HookProc THEN "removed"
  ELSE IF \E t \in Threads : op[t].hook = h /\ op[t].pc \in {"backup", "register", "unwind"}
  THEN "prepared"
  ELSE "armed"

Stages      == [h \in Hooks |-> LifeStage(h)]
Activations == Threads \X Levels
Insiders    == [h \in Hooks |-> {a \in Activations : InHandler(h, a[1], a[2])}]

Service == INSTANCE HookService WITH status <- Stages, inside <- Insiders, up <- dll # "unloaded"

\* The core implements HookService: through every interleaving a hook passes its stages
\* in order and once, threads get behind the check of an armed hook only, and a hook is
\* released only when it was removed and no thread is behind its check.
ImplementsService == Service!Spec

\* LhUninstallAllHooks "will remove ALL hooks" (uninstall.c 115): the loop takes HookProc from the
\* hooks of the global list, so every hook that is armed is to be found there.
UninstallAllRemovesAll ==
  \A h \in Hooks : hook[h].HookProc /\ ~InInstall(h) => h \in Range(hookList)

============================================================================
