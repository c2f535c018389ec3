--------------------------- MODULE LocalHook_proofs ---------------------------
(***************************************************************************)
(* Proofs about LocalHook, for every number of hooks, functions, handles,  *)
(* threads, slots and nesting levels and for both architectures:           *)
(*   - every variable keeps its type (TypeCorrect);                        *)
(*   - a thread behind the HookProc check of a trampoline keeps the hook's *)
(*     page mapped (HandlerPinsHookAlways) and its slot taken              *)
(*     (HandlerPinsSlotAlways);                                            *)
(*   - an armed hook can be uninstalled through its own handle             *)
(*     (ArmedHookHasHandleAlways);                                         *)
(*   - if one thread installs and removes hooks, neither the API nor a     *)
(*     call reaches an unmapped page (ApiReachesLivePagesAlways,           *)
(*     EntriesReachLivePagesAlways), and a page is left behind for a       *)
(*     reason only (LeaksAreJustifiedAlways);                              *)
(*   - LocalHook implements HookService (CoreImplementsService).           *)
(*                                                                         *)
(* HandlerPinsHook is not inductive.  A page is freed because its counter  *)
(* was read as zero some steps earlier, so the strengthening says what the *)
(* counter counts (CounterCounts), that a hook in the hands of a waiter    *)
(* has lost its handler for good (RemovedIsDisarmed), that a page whose    *)
(* counter was found zero is left by every handler (ReleasedIsLeft), and   *)
(* that the page of an unfinished install, which may fail and free it, is  *)
(* still unknown to everybody else (UnpublishedIsPrivate).                 *)
(***************************************************************************)
EXTENDS LocalHook, SequenceTheorems, FiniteSetTheorems, TLAPS

----------------------------------------------------------------------------
(* The lists. *)

\* Reversing a list, as the loop of LhUninstallAllHooks does, keeps its elements.
LEMMA ReverseRange ==
  ASSUME NEW S, NEW s \in Seq(S)
  PROVE  Reverse(s) \in Seq(S) /\ Range(Reverse(s)) = Range(s)
<1>1. Reverse(s) \in Seq(S)
  BY DEF Reverse
<1>2. Range(Reverse(s)) \subseteq Range(s)
  BY DEF Range, Reverse
<1>3. Range(s) \subseteq Range(Reverse(s))
  <2> SUFFICES ASSUME NEW i \in 1 .. Len(s) PROVE s[i] \in Range(Reverse(s))
    BY DEF Range
  <2>1. Len(s) - i + 1 \in DOMAIN Reverse(s) /\ Reverse(s)[Len(s) - i + 1] = s[i]
    BY DEF Reverse
  <2> QED BY <2>1 DEF Range
<1> QED BY <1>1, <1>2, <1>3

\* LhUninstallHook's unlinking yields a list and adds no element to it.
LEMMA UnlinkRange ==
  ASSUME NEW S, NEW s \in Seq(S), NEW h
  PROVE  Unlink(s, h) \in Seq(S) /\ Range(Unlink(s, h)) \subseteq Range(s)
<1>1. CASE h \in Range(s)
  <2> DEFINE k == CHOOSE i \in DOMAIN s : s[i] = h
             u == SubSeq(s, 1 + k, Len(s))
  <2>1. k \in 1 .. Len(s)
    BY <1>1 DEF Range
  <2>2. Unlink(s, h) = u
    BY <1>1 DEF Unlink
  <2> HIDE DEF k
  <2>3. \A i \in 1 + k .. Len(s) : s[i] \in S
    BY <2>1
  <2>4. /\ u \in Seq(S)
        /\ Len(u) = IF 1 + k <= Len(s) THEN Len(s) - (1 + k) + 1 ELSE 0
        /\ \A i \in 1 .. Len(s) - (1 + k) + 1 : u[i] = s[1 + k + i - 1]
    BY <2>1, <2>3, SubSeqProperties
  <2> HIDE DEF u
  <2>5. Range(u) \subseteq Range(s)
    <3> SUFFICES ASSUME NEW j \in 1 .. Len(u) PROVE u[j] \in Range(s)
      BY <2>4 DEF Range
    <3>1. u[j] = s[1 + k + j - 1] /\ 1 + k + j - 1 \in 1 .. Len(s)
      BY <2>1, <2>4
    <3> QED BY <3>1 DEF Range
  <2> QED BY <2>2, <2>4, <2>5
<1>2. CASE h \notin Range(s)
  BY <1>2 DEF Unlink
<1> QED BY <1>1, <1>2

\* The first element and the rest of a list are part of it.
LEMMA HeadTailRange ==
  ASSUME NEW S, NEW s \in Seq(S), s # <<>>
  PROVE  /\ Head(s) \in Range(s) /\ Head(s) \in S
         /\ Tail(s) \in Seq(S) /\ Range(Tail(s)) \subseteq Range(s)
  BY DEF Range

\* Pushing a hook on a list adds just that hook.
LEMMA PushRange ==
  ASSUME NEW S, NEW s \in Seq(S), NEW h \in S
  PROVE  <<h>> \o s \in Seq(S) /\ Range(<<h>> \o s) = {h} \cup Range(s)
<1> DEFINE one == <<h>>
<1>1. one \in Seq(S) /\ Range(one) = {h}
  BY DEF Range
<1> HIDE DEF one
<1>2. one \o s \in Seq(S) /\ Range(one \o s) = {h} \cup Range(s)
  BY <1>1, RangeConcatenation, ConcatProperties
<1> QED BY <1>2 DEF one

----------------------------------------------------------------------------
(* Types. *)

NeedsHook == InstallPcs \cup (WaitPcs \ {"pop"})

\* A call in progress works on a hook, an install on one whose function is known.
OpsHaveHooks ==
  \A t \in Threads :
    /\ op[t].pc \in NeedsHook => op[t].hook \in Hooks
    /\ op[t].pc \in InstallPcs => /\ op[t].handle \in Handles
                                  /\ hook[op[t].hook].TargetProc \in Targets

\* A thread inside a trampoline is inside the trampoline of a hook.
FramesHaveHooks ==
  \A t \in Threads, d \in Levels : frame[t][d].pc # "idle" => frame[t][d].hook \in Hooks

TypeInv == TypeOK /\ OpsHaveHooks /\ FramesHaveHooks

\* The initial state is well typed.
LEMMA InitTypeInv == Init => TypeInv
<1> SUFFICES ASSUME Init PROVE TypeInv
  OBVIOUS
<1> USE HookCount, RoundBound DEF Init
<1>1. 0 \in Slots /\ 0 \in 0 .. WaitRounds
  BY DEF Slots
<1>2. TypeOK
  BY <1>1 DEF TypeOK, BlankHook, IdleOp, IdleFrame, HookRecord, FramePcs,
                    OpRecord, FrameRecord
<1>3. OpsHaveHooks /\ FramesHaveHooks
  BY DEF OpsHaveHooks, FramesHaveHooks, NeedsHook, InstallPcs, WaitPcs, IdleOp, IdleFrame
<1> QED BY <1>2, <1>3 DEF TypeInv

OpPcs == {"idle"} \cup InstallPcs \cup WaitPcs

\* The variables that are neither a hook's page nor a thread's position.
ListsTyped ==
  /\ entry \in [Targets -> Hooks \cup {Original}]
  /\ link \in [Handles -> Hooks \cup {NULL}]
  /\ slotList \in [Slots -> Hooks \cup {NULL}]
  /\ hookList \in Seq(Hooks) /\ removalList \in Seq(Hooks)
  /\ dll \in {"loaded", "detaching", "unloaded"}
  /\ timedOut \subseteq Hooks

\* The hook pages after a step: typed, and no hook has lost its function.
HooksKept ==
  /\ hook' \in [Hooks -> HookRecord]
  /\ \A h \in Hooks : hook[h].TargetProc \in Targets => hook'[h].TargetProc \in Targets

\* The calls in progress after a step of thread t in its call.
OpOf(t) ==
  /\ op' \in [Threads -> OpRecord]
  /\ \A u \in Threads \ {t} : op'[u] = op[u]
  /\ op'[t].pc \in NeedsHook => op'[t].hook \in Hooks
  /\ op'[t].pc \in InstallPcs => /\ op'[t].handle \in Handles
                                 /\ hook'[op'[t].hook].TargetProc \in Targets

\* The activations after a step of thread t at level d.
FrameOf(t, d) ==
  /\ frame' \in [Threads -> [Levels -> FrameRecord]]
  /\ \A u \in Threads, e \in Levels : <<u, e>> # <<t, d>> => frame'[u][e] = frame[u][e]
  /\ frame'[t][d].pc # "idle" => frame'[t][d].hook \in Hooks

\* A step inside the API keeps the types if it keeps those of its parts.
LEMMA ApiStepTypes ==
  ASSUME TypeInv, NEW t \in Threads, OpOf(t), HooksKept, ListsTyped', UNCHANGED callState
  PROVE  TypeInv'
<1>1. TypeOK'
  BY DEF TypeInv, TypeOK, OpOf, HooksKept, ListsTyped, callState
<1>2. OpsHaveHooks'
  BY DEF TypeInv, OpsHaveHooks, OpOf, HooksKept, NeedsHook
<1>3. FramesHaveHooks'
  BY DEF TypeInv, FramesHaveHooks, callState
<1> QED BY <1>1, <1>2, <1>3 DEF TypeInv

\* The same for a step of a thread inside a trampoline.
LEMMA FrameStepTypes ==
  ASSUME TypeInv, NEW t \in Threads, NEW d \in Levels,
         FrameOf(t, d), HooksKept, UNCHANGED <<entry, fault, apiState>>
  PROVE  TypeInv'
<1>1. TypeOK'
  BY DEF TypeInv, TypeOK, FrameOf, HooksKept, apiState
<1>2. OpsHaveHooks'
  BY DEF TypeInv, OpsHaveHooks, HooksKept, NeedsHook, apiState
<1>3. FramesHaveHooks'
  BY DEF TypeInv, FramesHaveHooks, FrameOf
<1> QED BY <1>1, <1>2, <1>3 DEF TypeInv

\* A crash changes nothing but fault.
LEMMA CrashTypes ==
  ASSUME TypeInv, NEW why \in {"freed page", "null handler", "unloaded dll"}, Crash(why)
  PROVE  TypeInv'
  BY DEF TypeInv, TypeOK, OpsHaveHooks, FramesHaveHooks, Crash

\* Moving a call to its next position.
LEMMA OpGoto ==
  ASSUME TypeInv, NEW t \in Threads, NEW p \in OpPcs,
         op' = [op EXCEPT ![t].pc = p]
  PROVE  /\ op' \in [Threads -> OpRecord]
         /\ \A u \in Threads \ {t} : op'[u] = op[u]
         /\ op'[t].pc = p /\ op'[t].hook = op[t].hook /\ op'[t].handle = op[t].handle
<1>1. op \in [Threads -> OpRecord]
  BY DEF TypeInv, TypeOK
<1> QED BY <1>1 DEF OpRecord, OpPcs

\* Moving a call to a position with another hook.
LEMMA OpGotoHook ==
  ASSUME TypeInv, NEW t \in Threads, NEW p \in OpPcs, NEW g \in Hooks \cup {NULL},
         op' = [op EXCEPT ![t].pc = p, ![t].hook = g]
  PROVE  /\ op' \in [Threads -> OpRecord]
         /\ \A u \in Threads \ {t} : op'[u] = op[u]
         /\ op'[t].pc = p /\ op'[t].hook = g
<1>1. op \in [Threads -> OpRecord]
  BY DEF TypeInv, TypeOK
<1> QED BY <1>1 DEF OpRecord, OpPcs

\* Starting a call, or finishing one.
LEMMA OpBecomes ==
  ASSUME TypeInv, NEW t \in Threads, NEW o \in OpRecord, op' = [op EXCEPT ![t] = o]
  PROVE  /\ op' \in [Threads -> OpRecord]
         /\ \A u \in Threads \ {t} : op'[u] = op[u]
         /\ op'[t] = o
<1>1. op \in [Threads -> OpRecord]
  BY DEF TypeInv, TypeOK
<1> QED BY <1>1

\* Moving an activation to its next position.
LEMMA FrameGoto ==
  ASSUME TypeInv, NEW t \in Threads, NEW d \in Levels, NEW p \in FramePcs, Goto(t, d, p),
         frame[t][d].hook \in Hooks
  PROVE  /\ FrameOf(t, d)
         /\ frame'[t][d].pc = p /\ frame'[t][d].hook = frame[t][d].hook
<1>1. frame \in [Threads -> [Levels -> FrameRecord]]
  BY DEF TypeInv, TypeOK
<1> QED BY <1>1 DEF FrameRecord, Goto, FrameOf

\* Replacing an activation.
LEMMA FrameBecomes ==
  ASSUME TypeInv, NEW t \in Threads, NEW d \in Levels, NEW fr \in FrameRecord,
         frame' = [frame EXCEPT ![t][d] = fr], fr.pc # "idle" => fr.hook \in Hooks
  PROVE  FrameOf(t, d) /\ frame'[t][d] = fr
<1>1. frame \in [Threads -> [Levels -> FrameRecord]]
  BY DEF TypeInv, TypeOK
<1> QED BY <1>1 DEF FrameOf

\* The page of one hook is overwritten.
LEMMA HookBecomes ==
  ASSUME TypeInv, NEW h \in Hooks, NEW r \in HookRecord, hook' = [hook EXCEPT ![h] = r],
         hook[h].TargetProc \in Targets => r.TargetProc \in Targets
  PROVE  HooksKept /\ hook'[h] = r /\ \A g \in Hooks \ {h} : hook'[g] = hook[g]
<1>1. hook \in [Hooks -> HookRecord]
  BY DEF TypeInv, TypeOK
<1> QED BY <1>1 DEF HooksKept

\* No page is written.
LEMMA HooksUnchanged == ASSUME TypeInv, UNCHANGED hook PROVE HooksKept
  BY DEF TypeInv, TypeOK, HooksKept

\* LhFreeMemory of a hook's page.
LEMMA ReleaseTyped ==
  ASSUME TypeInv, NEW h \in Hooks
  PROVE  /\ Release(h) \in HookRecord /\ Release(h).TargetProc = hook[h].TargetProc
         /\ Release(h).page = "freed" /\ ~Release(h).HookProc
         /\ Release(h).IsExecuted = hook[h].IsExecuted
         /\ Release(h).OldProc = hook[h].OldProc
         /\ Release(h).TargetBackup = hook[h].TargetBackup
<1>1. hook[h] \in HookRecord
  BY DEF TypeInv, TypeOK
<1> QED BY <1>1 DEF Release, HookRecord

\* What a call in progress works on.
LEMMA OpHook ==
  ASSUME TypeInv, NEW t \in Threads, op[t].pc \in NeedsHook
  PROVE  /\ op[t].hook \in Hooks /\ hook[op[t].hook] \in HookRecord
         /\ op[t].pc \in InstallPcs => /\ op[t].handle \in Handles
                                       /\ hook[op[t].hook].TargetProc \in Targets
  BY DEF TypeInv, TypeOK, OpsHaveHooks

\* What a thread in a trampoline works on.
LEMMA FrameHook ==
  ASSUME TypeInv, NEW t \in Threads, NEW d \in Levels, frame[t][d].pc # "idle"
  PROVE  /\ frame[t][d].hook \in Hooks /\ hook[frame[t][d].hook] \in HookRecord
         /\ frame[t][d] \in FrameRecord
  BY DEF TypeInv, TypeOK, FramesHaveHooks

\* No position of LhWaitForPendingRemovals is one of LhInstallHook.
LEMMA WaitPositions ==
  /\ "pop" \in OpPcs /\ "pop" \notin NeedsHook /\ "pop" \notin InstallPcs
  /\ \A p \in WaitPcs : p \in OpPcs /\ p \notin InstallPcs
  BY DEF OpPcs, WaitPcs, InstallPcs, NeedsHook

LEMMA IdleTyped == IdleOp \in OpRecord /\ IdleFrame \in FrameRecord
  BY RoundBound DEF IdleOp, OpRecord, IdleFrame, FrameRecord, FramePcs

\* Every hook on a list is removed: the pages and handles that changes.
LEMMA UninstallAllTypes ==
  ASSUME TypeInv, UninstallAll
  PROVE  /\ HooksKept
         /\ link' \in [Handles -> Hooks \cup {NULL}]
         /\ hookList' \in Seq(Hooks) /\ removalList' \in Seq(Hooks)
<1>1. hook \in [Hooks -> HookRecord] /\ link \in [Handles -> Hooks \cup {NULL}]
      /\ hookList \in Seq(Hooks) /\ removalList \in Seq(Hooks)
  BY DEF TypeInv, TypeOK
<1>2. \A h \in Hooks : [hook[h] EXCEPT !.HookProc = FALSE] \in HookRecord
  BY <1>1 DEF HookRecord
<1>3. hook' = [h \in Hooks |-> IF h \in Range(hookList)
                               THEN [hook[h] EXCEPT !.HookProc = FALSE] ELSE hook[h]]
  BY DEF UninstallAll
<1>4. HooksKept
  BY <1>1, <1>2, <1>3 DEF HooksKept, HookRecord
<1>5. link' \in [Handles -> Hooks \cup {NULL}] /\ hookList' \in Seq(Hooks)
  BY <1>1 DEF UninstallAll
<1>6. removalList' \in Seq(Hooks)
  BY <1>1, ReverseRange, ConcatProperties DEF UninstallAll
<1> QED BY <1>4, <1>5, <1>6

\* Every step keeps the types.
LEMMA TypeInvStep == TypeInv /\ [Next]_vars => TypeInv'
<1> SUFFICES ASSUME TypeInv, [Next]_vars PROVE TypeInv'
  OBVIOUS
<1>0. ListsTyped /\ hook \in [Hooks -> HookRecord] /\ op \in [Threads -> OpRecord]
  BY DEF TypeInv, TypeOK, ListsTyped
<1>1. ASSUME NEW t \in Threads, NEW f \in Targets, NEW k \in Handles,
             NEW succeeds \in BOOLEAN, LhAllocateHook(t, f, k, succeeds)
      PROVE  TypeInv'
  <2>1. PICK h \in Hooks :
          /\ hook[h].page = "unused"
          /\ hook' = [hook EXCEPT ![h] =
                        [BlankHook EXCEPT !.page = IF succeeds THEN "live" ELSE "freed",
                                          !.TargetProc = f, !.HookProc = succeeds,
                                          !.OldProc = entry[f]]]
          /\ op' = [op EXCEPT ![t] = [pc |-> IF succeeds THEN "backup" ELSE "unwind",
                                      hook |-> h, handle |-> k, budget |-> 0]]
    BY <1>1 DEF LhAllocateHook
  <2> DEFINE r == [BlankHook EXCEPT !.page = IF succeeds THEN "live" ELSE "freed",
                                    !.TargetProc = f, !.HookProc = succeeds,
                                    !.OldProc = entry[f]]
             o == [pc |-> IF succeeds THEN "backup" ELSE "unwind",
                   hook |-> h, handle |-> k, budget |-> 0]
  <2>2. r \in HookRecord /\ r.TargetProc = f
    <3>1. BlankHook \in HookRecord
      BY HookCount DEF HookRecord, BlankHook, Slots
    <3>2. entry[f] \in Hooks \cup {Original}
      BY <1>0 DEF ListsTyped
    <3> QED BY <3>1, <3>2 DEF HookRecord
  <2>3. o \in OpRecord /\ o.hook = h /\ o.handle = k
    BY RoundBound DEF OpRecord, InstallPcs
  <2>3a. hook' = [hook EXCEPT ![h] = r] /\ op' = [op EXCEPT ![t] = o]
    BY <2>1
  <2> HIDE DEF r, o
  <2>4. HooksKept /\ hook'[h] = r
    BY <2>2, <2>3a, HookBecomes
  <2>5. OpOf(t)
    BY <2>2, <2>3, <2>4, <2>3a, OpBecomes DEF OpOf
  <2>6. ListsTyped' /\ UNCHANGED callState
    BY <1>0, <1>1 DEF LhAllocateHook, ListsTyped, callState
  <2> QED BY <2>4, <2>5, <2>6, ApiStepTypes
<1>2. ASSUME NEW t \in Threads, BackupEntry(t) PROVE TypeInv'
  <2> DEFINE h == op[t].hook
             r == [hook[h] EXCEPT !.TargetBackup = entry[hook[h].TargetProc]]
  <2>1. /\ h \in Hooks /\ hook[h] \in HookRecord
        /\ op[t].handle \in Handles /\ hook[h].TargetProc \in Targets
    BY <1>2, OpHook DEF BackupEntry, AtOp, NeedsHook, InstallPcs
  <2>2. r \in HookRecord /\ r.TargetProc = hook[h].TargetProc
    BY <1>0, <2>1 DEF ListsTyped, HookRecord
  <2>3. hook' = [hook EXCEPT ![h] = r] /\ op' = [op EXCEPT ![t].pc = "register"]
    BY <1>2 DEF BackupEntry
  <2> HIDE DEF r
  <2>4. HooksKept
    BY <2>1, <2>2, <2>3, HookBecomes
  <2>5. OpOf(t)
    BY <2>1, <2>3, <2>4, OpGoto DEF OpOf, OpPcs, InstallPcs, HooksKept
  <2>6. ListsTyped' /\ UNCHANGED callState
    BY <1>0, <1>2 DEF BackupEntry, ListsTyped, callState
  <2> QED BY <2>4, <2>5, <2>6, ApiStepTypes
<1>3. ASSUME NEW t \in Threads, InstallFails(t) PROVE TypeInv'
  <2> DEFINE h == op[t].hook
  <2>1. h \in Hooks /\ op[t].handle \in Handles /\ hook[h].TargetProc \in Targets
    BY <1>3, OpHook DEF InstallFails, AtOp, NeedsHook, InstallPcs
  <2>2. HooksKept /\ UNCHANGED hook
    BY <1>3, HooksUnchanged DEF InstallFails
  <2>3. op' = [op EXCEPT ![t].pc = "unwind"]
    BY <1>3 DEF InstallFails
  <2>4. OpOf(t)
    BY <2>1, <2>2, <2>3, OpGoto DEF OpOf, OpPcs, InstallPcs
  <2>5. ListsTyped' /\ UNCHANGED callState
    BY <1>0, <1>3 DEF InstallFails, ListsTyped, callState
  <2> QED BY <2>2, <2>4, <2>5, ApiStepTypes
<1>33. ASSUME NEW t \in Threads, UnwindInstall(t) PROVE TypeInv'
  <2> DEFINE h == op[t].hook
  <2>1. h \in Hooks
    BY <1>33, OpHook DEF UnwindInstall, AtOp, NeedsHook, InstallPcs, WaitPcs
  <2>2. CASE Crash("freed page")
    BY <2>2, CrashTypes
  <2>3. CASE ~Crash("freed page")
    <3>1. hook' = [hook EXCEPT ![h] = Release(h)] /\ op' = [op EXCEPT ![t] = IdleOp]
      BY <2>3, <1>33 DEF UnwindInstall
    <3>2. HooksKept
      BY <2>1, <3>1, ReleaseTyped, HookBecomes
    <3>3. OpOf(t)
      BY <3>1, IdleTyped, OpBecomes DEF OpOf, IdleOp, NeedsHook, InstallPcs, WaitPcs
    <3>4. ListsTyped' /\ UNCHANGED callState
      BY <2>3, <1>0, <1>33 DEF UnwindInstall, ListsTyped, callState
    <3> QED BY <3>2, <3>3, <3>4, ApiStepTypes
  <2> QED BY <2>2, <2>3
<1>4. ASSUME NEW t \in Threads, RegisterSlot(t) PROVE TypeInv'
  <2> DEFINE h == op[t].hook
  <2>1. /\ h \in Hooks /\ hook[h] \in HookRecord
        /\ op[t].handle \in Handles /\ hook[h].TargetProc \in Targets
    BY <1>4, OpHook DEF RegisterSlot, AtOp, NeedsHook, InstallPcs
  <2>2. PICK i \in Slots : /\ slotList' = [slotList EXCEPT ![i] = h]
                           /\ hook' = [hook EXCEPT ![h].HLSIndex = i]
    BY <1>4 DEF RegisterSlot
  <2> DEFINE r == [hook[h] EXCEPT !.HLSIndex = i]
  <2>3. r \in HookRecord /\ r.TargetProc = hook[h].TargetProc
    BY <2>1 DEF HookRecord
  <2>4. hook' = [hook EXCEPT ![h] = r]
    BY <2>2
  <2> HIDE DEF r
  <2>5. HooksKept
    BY <2>1, <2>3, <2>4, HookBecomes
  <2>6. op' = [op EXCEPT ![t].pc = "patch"]
    BY <1>4 DEF RegisterSlot
  <2>7. OpOf(t)
    BY <2>1, <2>5, <2>6, OpGoto DEF OpOf, OpPcs, InstallPcs, HooksKept
  <2>8. slotList' \in [Slots -> Hooks \cup {NULL}]
    BY <1>0, <2>1, <2>2 DEF ListsTyped
  <2>9. ListsTyped' /\ UNCHANGED callState
    BY <1>0, <2>8, <1>4 DEF RegisterSlot, ListsTyped, callState
  <2> QED BY <2>5, <2>7, <2>9, ApiStepTypes
<1>5. ASSUME NEW t \in Threads, PatchEntry(t) PROVE TypeInv'
  <2> DEFINE h == op[t].hook
  <2>1. h \in Hooks /\ op[t].handle \in Handles /\ hook[h].TargetProc \in Targets
    BY <1>5, OpHook DEF PatchEntry, AtOp, NeedsHook, InstallPcs
  <2>2. HooksKept /\ UNCHANGED hook
    BY <1>5, HooksUnchanged DEF PatchEntry
  <2>3. op' = [op EXCEPT ![t].pc = "publish"]
    BY <1>5 DEF PatchEntry
  <2>4. OpOf(t)
    BY <2>1, <2>2, <2>3, OpGoto DEF OpOf, OpPcs, InstallPcs
  <2>5. ListsTyped' /\ UNCHANGED callState
    BY <1>0, <2>1, <1>5 DEF PatchEntry, ListsTyped, callState
  <2> QED BY <2>2, <2>4, <2>5, ApiStepTypes
<1>6. ASSUME NEW t \in Threads, PublishHook(t) PROVE TypeInv'
  <2> DEFINE h == op[t].hook
  <2>1. h \in Hooks /\ op[t].handle \in Handles /\ hook[h].TargetProc \in Targets
    BY <1>6, OpHook DEF PublishHook, AtOp, NeedsHook, InstallPcs
  <2>2. HooksKept /\ UNCHANGED hook
    BY <1>6, HooksUnchanged DEF PublishHook
  <2>3. op' = [op EXCEPT ![t].pc = "track"]
    BY <1>6 DEF PublishHook
  <2>4. OpOf(t)
    BY <2>1, <2>2, <2>3, OpGoto DEF OpOf, OpPcs, InstallPcs
  <2>5. hookList' \in Seq(Hooks)
    BY <1>0, <2>1, <1>6, PushRange DEF PublishHook, ListsTyped
  <2>6. ListsTyped' /\ UNCHANGED callState
    BY <1>0, <2>5, <1>6 DEF PublishHook, ListsTyped, callState
  <2> QED BY <2>2, <2>4, <2>6, ApiStepTypes
<1>7. ASSUME NEW t \in Threads, TrackHook(t) PROVE TypeInv'
  <2> DEFINE h == op[t].hook
  <2>1. h \in Hooks /\ hook[h] \in HookRecord /\ op[t].handle \in Handles
    BY <1>7, OpHook DEF TrackHook, AtOp, NeedsHook, InstallPcs
  <2>2. CASE Freed(h)
    BY <2>2, <1>7, CrashTypes DEF TrackHook
  <2>3. CASE ~Freed(h)
    <3> DEFINE r == [hook[h] EXCEPT !.Tracking = op[t].handle]
    <3>1. r \in HookRecord /\ r.TargetProc = hook[h].TargetProc
      BY <2>1 DEF HookRecord
    <3>2. hook' = [hook EXCEPT ![h] = r] /\ op' = [op EXCEPT ![t] = IdleOp]
      BY <2>3, <1>7 DEF TrackHook
    <3> HIDE DEF r
    <3>3. HooksKept
      BY <2>1, <3>1, <3>2, HookBecomes
    <3>4. OpOf(t)
      BY <3>2, IdleTyped, OpBecomes DEF OpOf, IdleOp, NeedsHook, InstallPcs, WaitPcs
    <3>5. ListsTyped' /\ UNCHANGED callState
      BY <1>0, <2>1, <2>3, <1>7 DEF TrackHook, ListsTyped, callState
    <3> QED BY <3>3, <3>4, <3>5, ApiStepTypes
  <2> QED BY <2>2, <2>3
<1>20. ASSUME NEW t \in Threads, UNCHANGED op, HooksKept PROVE OpOf(t)
  BY <1>0, <1>20 DEF TypeInv, OpsHaveHooks, OpOf, HooksKept, NeedsHook
<1>8. ASSUME NEW t \in Threads, NEW k \in Handles, LhUninstallHook(t, k) PROVE TypeInv'
  <2> DEFINE h == link[k]
             r == [hook[h] EXCEPT !.HookProc = FALSE]
  <2>1. h \in Hooks /\ hook[h] \in HookRecord
    BY <1>0, <1>8 DEF LhUninstallHook, LhIsValidHandle, ListsTyped
  <2>2. r \in HookRecord /\ r.TargetProc = hook[h].TargetProc
    BY <2>1 DEF HookRecord
  <2>3. hook' = [hook EXCEPT ![h] = r]
    BY <1>8 DEF LhUninstallHook
  <2> HIDE DEF r
  <2>4. HooksKept
    BY <2>1, <2>2, <2>3, HookBecomes
  <2>5. hookList' \in Seq(Hooks) /\ removalList' \in Seq(Hooks)
    BY <1>0, <2>1, <1>8, PushRange, UnlinkRange DEF LhUninstallHook, ListsTyped
  <2>6. ListsTyped' /\ UNCHANGED callState
    BY <1>0, <2>5, <1>8 DEF LhUninstallHook, ListsTyped, callState
  <2> QED BY <1>20, <2>4, <2>6, <1>8, ApiStepTypes DEF LhUninstallHook
<1>9. ASSUME NEW t \in Threads, NEW k \in Handles, UseDanglingHandle(t, k) PROVE TypeInv'
  BY <1>9, CrashTypes DEF UseDanglingHandle
<1>10. ASSUME NEW t \in Threads, LhUninstallAllHooks(t) PROVE TypeInv'
  <2>1. HooksKept
    BY <1>10, UninstallAllTypes DEF LhUninstallAllHooks
  <2>2. ListsTyped' /\ UNCHANGED callState
    BY <1>0, <1>10, UninstallAllTypes DEF LhUninstallAllHooks, ListsTyped, callState
  <2> QED BY <1>20, <2>1, <2>2, <1>10, ApiStepTypes DEF LhUninstallAllHooks
<1>21. WaitOp \in OpRecord /\ WaitOp.pc = "pop"
  BY RoundBound, WaitPositions DEF OpRecord, OpPcs, WaitOp
<1>11. ASSUME NEW t \in Threads, LhWaitForPendingRemovals(t) PROVE TypeInv'
  <2>1. HooksKept
    BY <1>11, HooksUnchanged DEF LhWaitForPendingRemovals
  <2>2. OpOf(t)
    BY <1>11, <1>21, OpBecomes DEF LhWaitForPendingRemovals, OpOf, NeedsHook, InstallPcs
  <2>3. ListsTyped' /\ UNCHANGED callState
    BY <1>0, <1>11 DEF LhWaitForPendingRemovals, ListsTyped, callState
  <2> QED BY <2>1, <2>2, <2>3, ApiStepTypes
<1>12. ASSUME NEW t \in Threads, LhCriticalFinalize(t) PROVE TypeInv'
  <2>1. HooksKept
    BY <1>12, UninstallAllTypes DEF LhCriticalFinalize
  <2>2. OpOf(t)
    BY <1>12, <1>21, OpBecomes DEF LhCriticalFinalize, OpOf, NeedsHook, InstallPcs
  <2>3. ListsTyped' /\ UNCHANGED callState
    BY <1>0, <1>12, UninstallAllTypes DEF LhCriticalFinalize, ListsTyped, callState
  <2> QED BY <2>1, <2>2, <2>3, ApiStepTypes
<1>13. ASSUME NEW t \in Threads, PopRemoval(t) PROVE TypeInv'
  <2> DEFINE h == Head(removalList)
  <2>1. /\ h \in Hooks
        /\ op' = [op EXCEPT ![t].pc = "compare", ![t].hook = h]
        /\ removalList' \in Seq(Hooks)
    BY <1>0, <1>13, HeadTailRange DEF PopRemoval, ListsTyped
  <2>2. HooksKept
    BY <1>13, HooksUnchanged DEF PopRemoval
  <2> HIDE DEF h
  <2>3. OpOf(t)
    <3>1. "compare" \in OpPcs /\ "compare" \notin InstallPcs
      BY WaitPositions DEF WaitPcs
    <3>2. /\ op' \in [Threads -> OpRecord] /\ \A u \in Threads \ {t} : op'[u] = op[u]
          /\ op'[t].pc = "compare" /\ op'[t].hook = h
      BY ZenonT(60), <2>1, <3>1, OpGotoHook
    <3> QED BY <2>1, <3>1, <3>2 DEF OpOf
  <2>4. ListsTyped' /\ UNCHANGED callState
    BY <1>0, <2>1, <1>13 DEF PopRemoval, ListsTyped, callState
  <2> QED BY <2>2, <2>3, <2>4, ApiStepTypes
<1>14. ASSUME NEW t \in Threads, WaitReturns(t) PROVE TypeInv'
  <2>1. HooksKept
    BY <1>0, <1>14, ReleaseTyped DEF WaitReturns, HooksKept
  <2>2. OpOf(t)
    BY <1>14, IdleTyped, OpBecomes DEF WaitReturns, OpOf, IdleOp, NeedsHook, InstallPcs, WaitPcs
  <2>3. ListsTyped' /\ UNCHANGED callState
    BY <1>0, <1>14 DEF WaitReturns, ListsTyped, callState
  <2> QED BY <2>1, <2>2, <2>3, ApiStepTypes
<1>15. ASSUME NEW t \in Threads, CompareEntry(t) PROVE TypeInv'
  <2> DEFINE h == op[t].hook
             same == entry[hook[h].TargetProc] = h
  <2>1. h \in Hooks
    BY <1>15, OpHook DEF CompareEntry, AtOp, NeedsHook, InstallPcs, WaitPcs
  <2>2. HooksKept
    BY <1>15, HooksUnchanged DEF CompareEntry
  <2>3. op' = [op EXCEPT ![t].pc = IF same THEN "restore" ELSE "pop",
                         ![t].hook = IF same THEN h ELSE NULL]
    BY <1>15 DEF CompareEntry
  <2>4. OpOf(t)
    <3>1. CASE op' = [op EXCEPT ![t].pc = "restore", ![t].hook = h]
      <4>1. "restore" \in OpPcs /\ "restore" \notin InstallPcs
        BY WaitPositions DEF WaitPcs
      <4>2. /\ op' \in [Threads -> OpRecord] /\ \A u \in Threads \ {t} : op'[u] = op[u]
            /\ op'[t].pc = "restore" /\ op'[t].hook = h
        BY ZenonT(60), <2>1, <3>1, <4>1, OpGotoHook
      <4> QED BY <2>1, <4>1, <4>2 DEF OpOf
    <3>2. CASE op' = [op EXCEPT ![t].pc = "pop", ![t].hook = NULL]
      BY ZenonT(60), <3>2, OpGotoHook, WaitPositions DEF OpOf
    <3> QED BY <2>3, <3>1, <3>2
  <2>5. ListsTyped' /\ UNCHANGED callState
    BY <1>0, <1>15 DEF CompareEntry, ListsTyped, callState
  <2> QED BY <2>2, <2>4, <2>5, ApiStepTypes
<1>16. ASSUME NEW t \in Threads, RestoreEntry(t) PROVE TypeInv'
  <2> DEFINE h == op[t].hook
  <2>1. h \in Hooks /\ hook[h].TargetBackup \in Hooks \cup {Original}
    BY <1>16, OpHook DEF RestoreEntry, AtOp, NeedsHook, InstallPcs, WaitPcs, HookRecord
  <2>2. HooksKept
    BY <1>16, HooksUnchanged DEF RestoreEntry
  <2>3. op' = [op EXCEPT ![t].pc = "drain"]
    BY <1>16 DEF RestoreEntry
  <2>4. OpOf(t)
    BY <2>1, <2>3, OpGoto, WaitPositions DEF OpOf, WaitPcs
  <2>5. ListsTyped' /\ UNCHANGED callState
    BY <1>0, <2>1, <1>16 DEF RestoreEntry, ListsTyped, callState
  <2> QED BY <2>2, <2>4, <2>5, ApiStepTypes
<1>17. ASSUME NEW t \in Threads, Drain(t) PROVE TypeInv'
  <2> DEFINE h == op[t].hook
  <2>1. h \in Hooks /\ op[t] \in OpRecord
    BY <1>0, <1>17, OpHook DEF Drain, AtOp, NeedsHook, InstallPcs, WaitPcs
  <2>2. HooksKept
    BY <1>17, HooksUnchanged DEF Drain
  <2>3. OpOf(t)
    <3>1. CASE op' = [op EXCEPT ![t].pc = "release"]
      BY <2>1, <3>1, OpGoto, WaitPositions DEF OpOf, WaitPcs
    <3>2. CASE op' = [op EXCEPT ![t].pc = "pop", ![t].hook = NULL]
      BY <3>2, OpGotoHook, WaitPositions DEF OpOf, WaitPcs
    <3>3. CASE op[t].budget > 0 /\ op' = [op EXCEPT ![t].budget = @ - 1]
      <4> DEFINE o == [op[t] EXCEPT !.budget = @ - 1]
      <4>1. o \in OpRecord /\ o.pc = op[t].pc /\ o.hook = h
        BY <2>1, <3>3, RoundBound DEF OpRecord
      <4>2. op' = [op EXCEPT ![t] = o]
        BY <3>3
      <4>3. op[t].pc = "drain"
        BY <1>17 DEF Drain, AtOp
      <4> HIDE DEF o
      <4> QED BY ZenonT(60), <2>1, <4>1, <4>2, <4>3, OpBecomes, WaitPositions DEF OpOf, WaitPcs
    <3> QED BY <3>1, <3>2, <3>3, <1>17 DEF Drain
  <2>4. timedOut' \subseteq Hooks
    BY <1>0, <2>1, <1>17 DEF Drain, ListsTyped
  <2>5. ListsTyped' /\ UNCHANGED callState
    BY <1>0, <2>4, <1>17 DEF Drain, ListsTyped, callState
  <2> QED BY <2>2, <2>3, <2>5, ApiStepTypes
<1>18. ASSUME NEW t \in Threads, ReleaseSlot(t) PROVE TypeInv'
  <2>1. op[t].hook \in Hooks
    BY <1>18, OpHook DEF ReleaseSlot, AtOp, NeedsHook, InstallPcs, WaitPcs
  <2>2. HooksKept
    BY <1>18, HooksUnchanged DEF ReleaseSlot
  <2>3. op' = [op EXCEPT ![t].pc = "free"]
    BY <1>18 DEF ReleaseSlot
  <2>4. OpOf(t)
    BY <2>1, <2>3, OpGoto, WaitPositions DEF OpOf, WaitPcs
  <2>5. ListsTyped' /\ UNCHANGED callState
    BY <1>0, <1>18 DEF ReleaseSlot, ListsTyped, callState
  <2> QED BY <2>2, <2>4, <2>5, ApiStepTypes
<1>19. ASSUME NEW t \in Threads, FreeHook(t) PROVE TypeInv'
  <2> DEFINE h == op[t].hook
  <2>1. h \in Hooks
    BY <1>19, OpHook DEF FreeHook, AtOp, NeedsHook, InstallPcs, WaitPcs
  <2>2. hook' = [hook EXCEPT ![h] = Release(h)]
    BY <1>19 DEF FreeHook
  <2>3. HooksKept
    BY <2>1, <2>2, ReleaseTyped, HookBecomes
  <2>4. op' = [op EXCEPT ![t].pc = "pop", ![t].hook = NULL]
    BY <1>19 DEF FreeHook
  <2>5. OpOf(t)
    BY <2>4, OpGotoHook, WaitPositions DEF OpOf, WaitPcs
  <2>6. ListsTyped' /\ UNCHANGED callState
    BY <1>0, <1>19 DEF FreeHook, ListsTyped, callState
  <2> QED BY <2>3, <2>5, <2>6, ApiStepTypes

<1>22. ASSUME NEW t \in Threads, NEW d \in Levels, NEW f \in Targets, CallTarget(t, d, f) PROVE TypeInv'
  <2> DEFINE fr == [pc |-> "entered", hook |-> entry[f]]
  <2>1. fr \in FrameRecord /\ fr.hook \in Hooks
    BY <1>0, <1>22 DEF CallTarget, ListsTyped, FrameRecord, FramePcs
  <2>2. frame' = [frame EXCEPT ![t][d] = fr] /\ UNCHANGED <<hook, entry, fault, apiState>>
    BY <1>22 DEF CallTarget
  <2> HIDE DEF fr
  <2> QED BY <2>1, <2>2, FrameBecomes, HooksUnchanged, FrameStepTypes
<1>23. ASSUME NEW t \in Threads, NEW d \in Levels, CountIn(t, d) PROVE TypeInv'
  <2> DEFINE h == frame[t][d].hook
             r == [hook[h] EXCEPT !.IsExecuted = @ + 1]
  <2>1. h \in Hooks /\ hook[h] \in HookRecord
    BY <1>23, FrameHook DEF CountIn, InPage, At
  <2>2. r \in HookRecord /\ r.TargetProc = hook[h].TargetProc
    BY <2>1 DEF HookRecord
  <2>3. hook' = [hook EXCEPT ![h] = r] /\ UNCHANGED <<entry, fault, apiState>>
    BY <1>23 DEF CountIn
  <2> HIDE DEF r
  <2>4. HooksKept
    BY <2>1, <2>2, <2>3, HookBecomes
  <2>5. FrameOf(t, d)
    BY <2>1, <1>23, FrameGoto DEF CountIn, FramePcs, CountedPcs
  <2> QED BY <2>3, <2>4, <2>5, FrameStepTypes
<1>24. ASSUME NEW t \in Threads, NEW d \in Levels, CheckHookProc(t, d) PROVE TypeInv'
  <2>1. frame[t][d].hook \in Hooks
    BY <1>24, FrameHook DEF CheckHookProc, InPage, At
  <2>2. FrameOf(t, d)
    BY <2>1, <1>24, FrameGoto DEF CheckHookProc, FramePcs, CountedPcs, HandlerPcs
  <2> QED BY <2>2, <1>24, HooksUnchanged, FrameStepTypes DEF CheckHookProc
<1>25. ASSUME NEW t \in Threads, NEW d \in Levels, NEW verdict \in BOOLEAN, BarrierIntro(t, d, verdict) PROVE TypeInv'
  <2>1. frame[t][d].hook \in Hooks
    BY <1>25, FrameHook DEF BarrierIntro, InPage, At
  <2>2. CASE dll = "unloaded"
    BY <2>2, <1>25, CrashTypes DEF BarrierIntro
  <2>3. CASE ~(dll = "unloaded")
    <3>1. FrameOf(t, d)
      BY <2>1, <2>3, <1>25, FrameGoto DEF BarrierIntro, FramePcs, CountedPcs, HandlerPcs
    <3> QED BY <2>3, <3>1, <1>25, HooksUnchanged, FrameStepTypes DEF BarrierIntro
  <2> QED BY <2>2, <2>3
<1>26. ASSUME NEW t \in Threads, NEW d \in Levels, JumpToHandler(t, d) PROVE TypeInv'
  <2>1. frame[t][d].hook \in Hooks
    BY <1>26, FrameHook DEF JumpToHandler, InPage, At
  <2>2. CASE Arch = "x64" /\ ~hook[frame[t][d].hook].HookProc
    BY <2>2, <1>26, CrashTypes DEF JumpToHandler
  <2>3. CASE ~(Arch = "x64" /\ ~hook[frame[t][d].hook].HookProc)
    <3>1. FrameOf(t, d)
      BY <2>1, <2>3, <1>26, FrameGoto DEF JumpToHandler, FramePcs, CountedPcs, HandlerPcs
    <3> QED BY <2>3, <3>1, <1>26, HooksUnchanged, FrameStepTypes DEF JumpToHandler
  <2> QED BY <2>2, <2>3
<1>27. ASSUME NEW t \in Threads, NEW d \in Levels, HandlerReturns(t, d) PROVE TypeInv'
  <2>1. frame[t][d].hook \in Hooks
    BY <1>27, FrameHook DEF HandlerReturns, InPage, At
  <2>2. FrameOf(t, d)
    BY <2>1, <1>27, FrameGoto DEF HandlerReturns, FramePcs, CountedPcs, HandlerPcs
  <2> QED BY <2>2, <1>27, HooksUnchanged, FrameStepTypes DEF HandlerReturns
<1>28. ASSUME NEW t \in Threads, NEW d \in Levels, BarrierOutro(t, d) PROVE TypeInv'
  <2>1. frame[t][d].hook \in Hooks
    BY <1>28, FrameHook DEF BarrierOutro, InPage, At
  <2>2. CASE dll = "unloaded"
    BY <2>2, <1>28, CrashTypes DEF BarrierOutro
  <2>3. CASE ~(dll = "unloaded")
    <3>1. FrameOf(t, d)
      BY <2>1, <2>3, <1>28, FrameGoto DEF BarrierOutro, FramePcs, CountedPcs, HandlerPcs
    <3> QED BY <2>3, <3>1, <1>28, HooksUnchanged, FrameStepTypes DEF BarrierOutro
  <2> QED BY <2>2, <2>3
<1>29. ASSUME NEW t \in Threads, NEW d \in Levels, CountOut(t, d) PROVE TypeInv'
  <2> DEFINE h == frame[t][d].hook
             r == [hook[h] EXCEPT !.IsExecuted = @ - 1]
  <2>1. h \in Hooks /\ hook[h] \in HookRecord
    BY <1>29, FrameHook DEF CountOut, InPage, At
  <2>2. r \in HookRecord /\ r.TargetProc = hook[h].TargetProc
    BY <2>1 DEF HookRecord
  <2>3. hook' = [hook EXCEPT ![h] = r] /\ UNCHANGED <<entry, fault, apiState>>
    BY <1>29 DEF CountOut
  <2> HIDE DEF r
  <2>4. HooksKept
    BY <2>1, <2>2, <2>3, HookBecomes
  <2>5. FrameOf(t, d)
    BY <2>1, <1>29, FrameGoto DEF CountOut, FramePcs
  <2> QED BY <2>3, <2>4, <2>5, FrameStepTypes
<1>30. ASSUME NEW t \in Threads, NEW d \in Levels, LeavePage(t, d) PROVE TypeInv'
  <2> DEFINE next == hook[frame[t][d].hook].OldProc
             on == [pc |-> "entered", hook |-> next]
  <2>1. next \in Hooks \cup {Original}
    BY <1>30, FrameHook DEF LeavePage, InPage, At, HookRecord
  <2>2. next # Original => on \in FrameRecord /\ on.hook \in Hooks
    BY <2>1 DEF FrameRecord, FramePcs
  <2>3. \/ frame' = [frame EXCEPT ![t][d] = IdleFrame]
        \/ next # Original /\ frame' = [frame EXCEPT ![t][d] = on]
    BY <1>30 DEF LeavePage
  <2> HIDE DEF on, next
  <2>4. FrameOf(t, d)
    <3>1. CASE frame' = [frame EXCEPT ![t][d] = IdleFrame]
      <4>1. IdleFrame.pc = "idle"
        BY DEF IdleFrame
      <4> QED BY <3>1, <4>1, IdleTyped, FrameBecomes
    <3>2. CASE next # Original /\ frame' = [frame EXCEPT ![t][d] = on]
      BY <2>2, <3>2, FrameBecomes
    <3> QED BY <2>3, <3>1, <3>2
  <2> QED BY <2>4, <1>30, HooksUnchanged, FrameStepTypes DEF LeavePage
<1>31. ASSUME NEW t \in Threads, NEW d \in Levels, RunFreedPage(t, d) PROVE TypeInv'
  BY <1>31, CrashTypes DEF RunFreedPage
<1>32. CASE UNCHANGED vars
  BY <1>32 DEF vars, TypeInv, TypeOK, OpsHaveHooks, FramesHaveHooks
<1> QED
  BY <1>1, <1>2, <1>3, <1>33, <1>4, <1>5, <1>6, <1>7, <1>8, <1>9, <1>10, <1>11, <1>12,
     <1>13, <1>14, <1>15, <1>16, <1>17, <1>18, <1>19, <1>22, <1>23, <1>24,
     <1>25, <1>26, <1>27, <1>28, <1>29, <1>30, <1>31, <1>32
     DEF Next, Install, Uninstall, Wait, WaitStep, Trampoline

\* Every variable has its type in every reachable state.
THEOREM TypeCorrect == Spec => []TypeOK
<1>1. Spec => []TypeInv
  BY InitTypeInv, TypeInvStep, PTL DEF Spec
<1>2. TypeInv => TypeOK
  BY DEF TypeInv
<1> QED BY <1>1, <1>2, PTL

----------------------------------------------------------------------------
(* A thread behind the HookProc check keeps the page mapped. *)

\* The page of h is not used yet, or its install may still fail and free it.
PrivatePcs == {"backup", "register", "unwind"}
Private(h) ==
  \/ hook[h].page = "unused"
  \/ \E t \in Threads : op[t].hook = h /\ op[t].pc \in PrivatePcs

\* Nothing leads to h but the install in progress.
Unknown(h) ==
  /\ h \notin Range(hookList) /\ h \notin Range(removalList)
  /\ \A k \in Handles : link[k] # h
  /\ \A f \in Targets : entry[f] # h
  /\ \A g \in Hooks : hook[g].OldProc # h /\ hook[g].TargetBackup # h
  /\ \A t \in Threads, d \in Levels : frame[t][d].hook # h

UnpublishedIsPrivate ==
  /\ \A h \in Hooks : Private(h) => Unknown(h)
  /\ \A h \in Hooks, t \in Threads : hook[h].page = "unused" => op[t].hook # h
  /\ \A t, u \in Threads : op[t].pc \in PrivatePcs /\ t # u => op[u].hook # op[t].hook

\* A hook that waits for its release, or is being released, has no handler any more.
RemovedIsDisarmed ==
  \A h \in Hooks :
    h \in Range(removalList) \/ (\E t \in Threads : op[t].hook = h /\ op[t].pc \in WaitPcs)
    => ~hook[h].HookProc

\* IsExecuted is the number of activations between its increment and its decrement.
Counted(h) ==
  {x \in Threads \X Levels : /\ frame[x[1]][x[2]].hook = h
                             /\ frame[x[1]][x[2]].pc \in CountedPcs}
CounterCounts == \A h \in Hooks : hook[h].IsExecuted = Cardinality(Counted(h))

\* A page that was found unused, or was freed, is executed by no handler.
ReleasePcs == {"release", "free"}
ReleasedIsLeft ==
  \A h \in Hooks, t \in Threads, d \in Levels : InHandler(h, t, d) =>
    /\ hook[h].page = "freed" => dll = "unloaded"
    /\ \A u \in Threads : op[u].hook = h => op[u].pc \notin ReleasePcs

PinInv == UnpublishedIsPrivate /\ RemovedIsDisarmed /\ CounterCounts /\ ReleasedIsLeft

\* Initially nobody knows any hook.
LEMMA InitPinInv == Init => PinInv
<1> SUFFICES ASSUME Init PROVE PinInv
  OBVIOUS
<1>0. \A h \in Hooks : /\ hook[h].page = "unused" /\ hook[h].HookProc = FALSE
                       /\ hook[h].IsExecuted = 0
                       /\ hook[h].OldProc = Original /\ hook[h].TargetBackup = Original
  BY DEF Init, BlankHook
<1>1. \A t \in Threads : /\ op[t].pc = "idle" /\ op[t].hook = NULL
                         /\ \A d \in Levels : frame[t][d].pc = "idle" /\ frame[t][d].hook = NULL
  BY DEF Init, IdleOp, IdleFrame
<1>2. Range(hookList) = {} /\ Range(removalList) = {}
  BY DEF Init, Range
<1>3. UnpublishedIsPrivate
  BY <1>0, <1>1, <1>2, Distinct DEF UnpublishedIsPrivate, Unknown, Init, PrivatePcs
<1>4. RemovedIsDisarmed
  BY <1>0 DEF RemovedIsDisarmed
<1>5. \A h \in Hooks : Counted(h) = {}
  BY <1>1, Distinct DEF Counted
<1>6. CounterCounts
  BY <1>0, <1>5, FS_EmptySet DEF CounterCounts
<1>7. ReleasedIsLeft
  BY <1>1, Distinct DEF ReleasedIsLeft, InHandler
<1> QED BY <1>3, <1>4, <1>6, <1>7 DEF PinInv

\* The positions that can be counted are finitely many.
LEMMA CountedFinite == ASSUME NEW h PROVE IsFiniteSet(Counted(h))
<1>1. IsFiniteSet(Levels)
  BY FS_Interval, DepthBound DEF Levels
<1>2. IsFiniteSet(Threads \X Levels)
  BY <1>1, FS_Product, ThreadsFinite
<1>3. Counted(h) \subseteq Threads \X Levels
  BY DEF Counted
<1> QED BY <1>2, <1>3, FS_Subset

\* What a step of t inside the API may do to its call ...
OpMoves(t) ==
  /\ \A u \in Threads \ {t} : op'[u] = op[u]
  /\ op'[t].pc \in PrivatePcs => op'[t].hook = op[t].hook /\ op[t].pc \in PrivatePcs
  /\ op'[t].hook = op[t].hook \/ op'[t].hook = NULL \/ op'[t].hook \in Range(removalList)
  /\ op'[t].pc \in WaitPcs /\ op'[t].hook # NULL =>
       \/ op'[t].hook \in Range(removalList)
       \/ op[t].pc \in WaitPcs /\ op[t].hook = op'[t].hook
  /\ op'[t].pc \in ReleasePcs =>
       /\ op'[t].hook = op[t].hook
       /\ op[t].pc \in ReleasePcs \/ hook[op[t].hook].IsExecuted <= 0

\* ... to the pages ...
PagesMove(t) ==
  /\ \A h \in Hooks :
       /\ hook'[h].page = "unused" <=> hook[h].page = "unused"
       /\ hook'[h].IsExecuted = hook[h].IsExecuted
       /\ hook[h].HookProc = FALSE => hook'[h].HookProc = FALSE
       /\ hook'[h].page = "freed" => \/ hook[h].page = "freed" \/ dll' = "unloaded"
                                     \/ op[t].hook = h /\ op[t].pc \in {"unwind", "free"}
  /\ dll = "unloaded" => dll' = "unloaded"

\* ... and to what refers to them.
ReferencesMove ==
  /\ \A h \in Hooks : Private(h) => Unknown(h)'
  /\ \A h \in Range(removalList') : h \in Range(removalList) \/ hook'[h].HookProc = FALSE

\* Every step inside the API that moves only so keeps PinInv.
LEMMA ApiStepPins ==
  ASSUME TypeInv, TypeInv', PinInv, NEW t \in Threads, UNCHANGED frame,
         OpMoves(t), PagesMove(t), ReferencesMove
  PROVE  PinInv'
<1>1. UnpublishedIsPrivate'
  <2>1. \A h \in Hooks : Private(h)' => Private(h)
    BY DEF Private, OpMoves, PagesMove
  <2>2. \A h \in Hooks : Private(h)' => Unknown(h)'
    BY <2>1 DEF ReferencesMove
  <2>3. \A h \in Hooks : h \in Range(removalList) => ~Private(h)
    BY DEF PinInv, UnpublishedIsPrivate, Unknown
  <2>4. \A h \in Hooks, u \in Threads : hook'[h].page = "unused" => op'[u].hook # h
    BY <2>3, Distinct DEF PinInv, UnpublishedIsPrivate, OpMoves, PagesMove, Private
  <2>5. ASSUME NEW v \in Threads, NEW u \in Threads, op'[v].pc \in PrivatePcs, v # u
        PROVE  op'[u].hook # op'[v].hook
    <3>1. op[v].pc \in PrivatePcs /\ op'[v].hook = op[v].hook
      BY <2>5 DEF OpMoves
    <3>2. op[v].hook \in Hooks /\ Private(op[v].hook)
      BY <3>1, OpHook DEF PrivatePcs, NeedsHook, InstallPcs, Private
    <3>3. op[u].hook # op[v].hook
      BY <2>5, <3>1 DEF PinInv, UnpublishedIsPrivate
    <3> QED BY <2>3, <2>5, <3>1, <3>2, <3>3, Distinct DEF OpMoves
  <2> QED BY <2>2, <2>4, <2>5 DEF UnpublishedIsPrivate
<1>2. RemovedIsDisarmed'
  <2> SUFFICES ASSUME NEW h \in Hooks,
                      \/ h \in Range(removalList')
                      \/ \E u \in Threads : op'[u].hook = h /\ op'[u].pc \in WaitPcs
               PROVE  hook'[h].HookProc = FALSE
    BY DEF RemovedIsDisarmed
  <2>1. hook[h].HookProc \in BOOLEAN
    BY DEF TypeInv, TypeOK, HookRecord
  <2>2. CASE h \in Range(removalList) \/ \E u \in Threads : op[u].hook = h /\ op[u].pc \in WaitPcs
    BY <2>1, <2>2 DEF PinInv, RemovedIsDisarmed, PagesMove
  <2>3. CASE h \in Range(removalList')
    BY <2>2, <2>3 DEF ReferencesMove
  <2>4. ASSUME NEW u \in Threads, op'[u].hook = h, op'[u].pc \in WaitPcs
        PROVE  h \in Range(removalList) \/ \E v \in Threads : op[v].hook = h /\ op[v].pc \in WaitPcs
    BY <2>4, Distinct DEF OpMoves
  <2> QED BY <2>2, <2>3, <2>4
<1>3. CounterCounts'
  BY DEF PinInv, CounterCounts, Counted, PagesMove
<1>4. ReleasedIsLeft'
  <2> SUFFICES ASSUME NEW h \in Hooks, NEW u \in Threads, NEW d \in Levels, InHandler(h, u, d)
               PROVE  /\ hook'[h].page = "freed" => dll' = "unloaded"
                      /\ \A v \in Threads : op'[v].hook = h => op'[v].pc \notin ReleasePcs
    BY DEF ReleasedIsLeft, InHandler
  <2>1. /\ hook[h].page = "freed" => dll = "unloaded"
        /\ \A v \in Threads : op[v].hook = h => op[v].pc \notin ReleasePcs
    BY DEF PinInv, ReleasedIsLeft
  <2>2. hook[h].IsExecuted > 0
    <3>1. <<u, d>> \in Counted(h)
      BY DEF Counted, InHandler, CountedPcs
    <3>2. Cardinality(Counted(h)) \in Nat /\ Cardinality(Counted(h)) # 0
      BY <3>1, CountedFinite, FS_CardinalityType, FS_EmptySet
    <3> QED BY <3>2 DEF PinInv, CounterCounts
  <2>3. ~Private(h)
    BY DEF PinInv, UnpublishedIsPrivate, Unknown, InHandler
  <2>4. ~(op[t].hook = h /\ op[t].pc \in {"unwind", "free"})
    BY <2>1, <2>3 DEF Private, PrivatePcs, ReleasePcs
  <2>5. hook'[h].page = "freed" => dll' = "unloaded"
    BY <2>1, <2>4 DEF PagesMove
  <2>6. \A v \in Threads \ {t} : op'[v].hook = h => op'[v].pc \notin ReleasePcs
    BY <2>1 DEF OpMoves
  <2>7. op'[t].hook = h => op'[t].pc \notin ReleasePcs
    <3> SUFFICES ASSUME op'[t].hook = h, op'[t].pc \in ReleasePcs PROVE FALSE
      OBVIOUS
    <3>1. op[t].hook = h /\ (op[t].pc \in ReleasePcs \/ hook[h].IsExecuted <= 0)
      BY DEF OpMoves
    <3>2. hook[h] \in HookRecord
      BY DEF TypeInv, TypeOK
    <3>3. ~(hook[h].IsExecuted <= 0)
      BY <2>2, <3>2 DEF HookRecord
    <3> QED BY <2>1, <3>1, <3>3
  <2> QED BY <2>5, <2>6, <2>7
<1> QED BY <1>1, <1>2, <1>3, <1>4 DEF PinInv

\* Every step inside a trampoline that counts right and enters no disarmed hook does, too.
LEMMA FrameStepPins ==
  ASSUME TypeInv, TypeInv', PinInv, NEW t \in Threads, NEW d \in Levels, FrameOf(t, d),
         UNCHANGED apiState, UNCHANGED entry,
         \A h \in Hooks : /\ hook'[h].page = hook[h].page /\ hook'[h].HookProc = hook[h].HookProc
                          /\ hook'[h].OldProc = hook[h].OldProc
                          /\ hook'[h].TargetBackup = hook[h].TargetBackup,
         \A h \in Hooks : Private(h) => frame'[t][d].hook # h,
         frame'[t][d].pc \in HandlerPcs =>
           /\ frame'[t][d].hook = frame[t][d].hook
           /\ \/ frame[t][d].pc \in HandlerPcs
              \/ ~Freed(frame[t][d].hook) /\ hook[frame[t][d].hook].HookProc,
         CounterCounts'
  PROVE  PinInv'
<1>1. UnpublishedIsPrivate'
  <2>1. \A h \in Hooks : Private(h)' <=> Private(h)
    BY DEF Private, apiState
  <2>2. ASSUME NEW h \in Hooks, Private(h) PROVE Unknown(h)'
    <3>1. Unknown(h)
      BY <2>2 DEF PinInv, UnpublishedIsPrivate
    <3>2. \A u \in Threads, e \in Levels : frame'[u][e].hook # h
      BY <2>2, <3>1 DEF Unknown, FrameOf
    <3> QED BY <3>1, <3>2 DEF Unknown, apiState
  <2> QED BY <2>1, <2>2 DEF PinInv, UnpublishedIsPrivate, apiState
<1>2. RemovedIsDisarmed'
  BY DEF PinInv, RemovedIsDisarmed, apiState
<1>3. ReleasedIsLeft'
  <2> SUFFICES ASSUME NEW h \in Hooks, NEW u \in Threads, NEW e \in Levels, InHandler(h, u, e)'
               PROVE  /\ hook[h].page = "freed" => dll = "unloaded"
                      /\ \A v \in Threads : op[v].hook = h => op[v].pc \notin ReleasePcs
    BY DEF ReleasedIsLeft, apiState
  <2>1. CASE InHandler(h, u, e)
    BY <2>1 DEF PinInv, ReleasedIsLeft
  <2>2. CASE ~InHandler(h, u, e)
    <3>1. u = t /\ e = d
      BY <2>2 DEF FrameOf, InHandler
    <3>2. hook[h].page # "freed" /\ hook[h].HookProc
      BY <2>2, <3>1 DEF InHandler, Freed
    <3>3. \A v \in Threads : op[v].hook = h => op[v].pc \notin WaitPcs
      BY <3>2 DEF PinInv, RemovedIsDisarmed
    <3> QED BY <3>2, <3>3 DEF ReleasePcs, WaitPcs
  <2> QED BY <2>1, <2>2
<1> QED BY <1>1, <1>2, <1>3 DEF PinInv

\* One activation more is counted, or one less, or the same ones.
LEMMA CountUp ==
  ASSUME TypeInv, CounterCounts, NEW t \in Threads, NEW d \in Levels, FrameOf(t, d),
         frame[t][d].pc \notin CountedPcs, frame'[t][d].pc \in CountedPcs,
         NEW g \in Hooks, frame'[t][d].hook = g,
         hook'[g].IsExecuted = hook[g].IsExecuted + 1,
         \A h \in Hooks \ {g} : hook'[h].IsExecuted = hook[h].IsExecuted
  PROVE  CounterCounts'
<1>1. Counted(g)' = Counted(g) \cup {<<t, d>>} /\ <<t, d>> \notin Counted(g)
  BY DEF Counted, FrameOf
<1>2. Cardinality(Counted(g)') = Cardinality(Counted(g)) + 1
  BY ZenonT(60), <1>1, CountedFinite, FS_AddElement
<1>3. \A h \in Hooks \ {g} : Counted(h)' = Counted(h)
  BY DEF Counted, FrameOf
<1> QED BY <1>2, <1>3 DEF CounterCounts

LEMMA CountDown ==
  ASSUME TypeInv, CounterCounts, NEW t \in Threads, NEW d \in Levels, FrameOf(t, d),
         frame[t][d].pc \in CountedPcs, frame'[t][d].pc \notin CountedPcs,
         NEW g \in Hooks, frame[t][d].hook = g,
         hook'[g].IsExecuted = hook[g].IsExecuted - 1,
         \A h \in Hooks \ {g} : hook'[h].IsExecuted = hook[h].IsExecuted
  PROVE  CounterCounts'
<1>1. Counted(g)' = Counted(g) \ {<<t, d>>} /\ <<t, d>> \in Counted(g)
  BY DEF Counted, FrameOf
<1>2. Cardinality(Counted(g)') = Cardinality(Counted(g)) - 1
  BY ZenonT(60), <1>1, CountedFinite, FS_RemoveElement
<1>3. \A h \in Hooks \ {g} : Counted(h)' = Counted(h)
  BY DEF Counted, FrameOf
<1> QED BY <1>2, <1>3 DEF CounterCounts

LEMMA CountSame ==
  ASSUME TypeInv, CounterCounts, NEW t \in Threads, NEW d \in Levels, FrameOf(t, d),
         \/ frame[t][d].pc \notin CountedPcs /\ frame'[t][d].pc \notin CountedPcs
         \/ /\ frame[t][d].pc \in CountedPcs /\ frame'[t][d].pc \in CountedPcs
            /\ frame'[t][d].hook = frame[t][d].hook,
         UNCHANGED hook
  PROVE  CounterCounts'
<1>1. \A h \in Hooks : Counted(h)' = Counted(h)
  BY DEF Counted, FrameOf
<1> QED BY <1>1 DEF CounterCounts


\* The hooks somebody may know, and the references to hooks that lead to them only.
Seen == {g \in Hooks : ~Private(g)}
LeadsTo(active, removed, links, entries, pages, S) ==
  /\ Range(active) \subseteq S /\ Range(removed) \subseteq S
  /\ \A k \in Handles : links[k] \in S \cup {NULL}
  /\ \A f \in Targets : entries[f] \in S \cup {Original}
  /\ \A g \in Hooks : /\ pages[g].OldProc \in S \cup {Original}
                      /\ pages[g].TargetBackup \in S \cup {Original}

LEMMA ReferencesAreSeen ==
  ASSUME TypeInv, PinInv
  PROVE  LeadsTo(hookList, removalList, link, entry, hook, Seen)
<1>1. \A h \in Hooks : Private(h) => Unknown(h)
  BY DEF PinInv, UnpublishedIsPrivate
<1>2. /\ Range(hookList) \subseteq Hooks /\ Range(removalList) \subseteq Hooks
      /\ \A k \in Handles : link[k] \in Hooks \cup {NULL}
      /\ \A f \in Targets : entry[f] \in Hooks \cup {Original}
      /\ \A g \in Hooks : /\ hook[g].OldProc \in Hooks \cup {Original}
                          /\ hook[g].TargetBackup \in Hooks \cup {Original}
  <2>0. hookList \in Seq(Hooks) /\ removalList \in Seq(Hooks)
    BY DEF TypeInv, TypeOK
  <2>1. Range(hookList) \subseteq Hooks /\ Range(removalList) \subseteq Hooks
    BY <2>0 DEF Range
  <2>2. \A g \in Hooks : hook[g] \in HookRecord
    BY DEF TypeInv, TypeOK
  <2> QED BY <2>1, <2>2 DEF TypeInv, TypeOK, HookRecord
<1> HIDE DEF Unknown
<1>3. \A h \in Hooks : h \notin Seen => Unknown(h)
  BY <1>1 DEF Seen
<1> QED BY <1>2, <1>3 DEF Unknown, LeadsTo

\* The hook of a call that is past its registration may be known.
LEMMA WorkedOnIsSeen ==
  ASSUME PinInv, NEW t \in Threads, op[t].hook \in Hooks, op[t].pc \notin PrivatePcs
  PROVE  op[t].hook \in Seen
  BY DEF PinInv, UnpublishedIsPrivate, Private, Seen

\* New references lead to hooks that were seen before.
LEMMA MovesReferences ==
  ASSUME TypeInv, PinInv, UNCHANGED frame,
         LeadsTo(hookList', removalList', link', entry', hook', Seen),
         \A h \in Range(removalList') : h \in Range(removalList) \/ hook'[h].HookProc = FALSE
  PROVE  ReferencesMove
<1> SUFFICES ASSUME NEW h \in Hooks, Private(h) PROVE Unknown(h)'
  BY DEF ReferencesMove
<1>1. h \notin Seen
  BY DEF Seen
<1>2. \A t \in Threads, d \in Levels : frame'[t][d].hook # h
  BY DEF PinInv, UnpublishedIsPrivate, Unknown
<1>3. h # NULL /\ h # Original
  BY Distinct
<1> QED BY <1>1, <1>2, <1>3 DEF Unknown, LeadsTo

\* A step that writes no page, and one that writes no call.
LEMMA PagesStay == ASSUME NEW t, UNCHANGED <<hook, dll>> PROVE PagesMove(t)
  BY DEF PagesMove
LEMMA OpsStay == ASSUME NEW t \in Threads, UNCHANGED op PROVE OpMoves(t)
  BY DEF OpMoves

\* A call moves on with its hook.
LEMMA OpAdvances ==
  ASSUME NEW t \in Threads, \A u \in Threads \ {t} : op'[u] = op[u],
         op'[t].hook = op[t].hook, op'[t].pc \notin PrivatePcs \cup ReleasePcs,
         op'[t].pc \in WaitPcs => op[t].pc \in WaitPcs
  PROVE  OpMoves(t)
  BY DEF OpMoves

\* A call is done with its hook, or starts with none.
LEMMA OpDrops ==
  ASSUME NEW t \in Threads, \A u \in Threads \ {t} : op'[u] = op[u],
         op'[t].hook = NULL, op'[t].pc \in {"idle", "pop"}
  PROVE  OpMoves(t)
  BY DEF OpMoves, PrivatePcs, ReleasePcs

\* A waiter takes a hook from the list of removed hooks.
LEMMA OpTakes ==
  ASSUME TypeInv, NEW t \in Threads, NEW h \in Hooks, h \in Range(removalList),
         op' = [op EXCEPT ![t].pc = "compare", ![t].hook = h]
  PROVE  OpMoves(t)
<1>1. op \in [Threads -> OpRecord]
  BY DEF TypeInv, TypeOK
<1>2. /\ \A u \in Threads \ {t} : op'[u] = op[u]
      /\ op'[t].pc = "compare" /\ op'[t].hook = h
  BY <1>1 DEF OpRecord
<1> QED BY <1>2 DEF OpMoves, PrivatePcs, ReleasePcs

\* One page is written, but not unmapped, nor is its hook armed.
LEMMA PageWritten ==
  ASSUME NEW t, NEW h \in Hooks, UNCHANGED dll,
         \A g \in Hooks \ {h} : hook'[g] = hook[g],
         hook'[h].page = hook[h].page, hook'[h].IsExecuted = hook[h].IsExecuted,
         hook[h].HookProc = FALSE => hook'[h].HookProc = FALSE
  PROVE  PagesMove(t)
  BY DEF PagesMove

\* The page of the call's hook is unmapped.
LEMMA PageReleased ==
  ASSUME TypeInv, PinInv, NEW t \in Threads, op[t].pc \in {"unwind", "free"}, UNCHANGED dll,
         hook' = [hook EXCEPT ![op[t].hook] = Release(op[t].hook)]
  PROVE  /\ PagesMove(t)
         /\ \A g \in Hooks : /\ hook'[g].OldProc = hook[g].OldProc
                             /\ hook'[g].TargetBackup = hook[g].TargetBackup
<1> DEFINE h == op[t].hook
<1>1. h \in Hooks
  BY OpHook DEF NeedsHook, InstallPcs, WaitPcs
<1>2. hook[h].page # "unused"
  BY <1>1 DEF PinInv, UnpublishedIsPrivate
<1>3. hook'[h] = Release(h) /\ \A g \in Hooks \ {h} : hook'[g] = hook[g]
  BY <1>1, ReleaseTyped, HookBecomes
<1> HIDE DEF h
<1>4. PagesMove(t)
  <2>1. \A g \in Hooks \ {h} : hook'[g] = hook[g]
    BY <1>3
  <2>2. hook'[h].page = "freed" /\ ~hook'[h].HookProc /\ hook'[h].IsExecuted = hook[h].IsExecuted
        /\ hook'[h].HookProc \in BOOLEAN
    BY <1>1, <1>3, ReleaseTyped DEF HookRecord
  <2>3. op[t].hook = h
    BY DEF h
  <2> QED BY <1>1, <1>2, <2>1, <2>2, <2>3 DEF PagesMove
<1>5. hook'[h].OldProc = hook[h].OldProc /\ hook'[h].TargetBackup = hook[h].TargetBackup
  BY <1>1, <1>3, ReleaseTyped
<1> QED BY <1>3, <1>4, <1>5

\* Every listed hook loses its handler.
LEMMA UninstallAllMoves ==
  ASSUME TypeInv, PinInv, NEW t \in Threads, UninstallAll, UNCHANGED entry,
         UNCHANGED frame, dll = "unloaded" => dll' = "unloaded"
  PROVE  PagesMove(t) /\ ReferencesMove
<1>0. hookList \in Seq(Hooks) /\ removalList \in Seq(Hooks)
      /\ hook \in [Hooks -> HookRecord]
  BY DEF TypeInv, TypeOK
<1>1. \A h \in Hooks :
        /\ hook'[h].page = hook[h].page /\ hook'[h].IsExecuted = hook[h].IsExecuted
        /\ hook'[h].OldProc = hook[h].OldProc /\ hook'[h].TargetBackup = hook[h].TargetBackup
        /\ hook[h].HookProc = FALSE => hook'[h].HookProc = FALSE
        /\ h \in Range(hookList) => hook'[h].HookProc = FALSE
  BY <1>0 DEF UninstallAll, HookRecord
<1>2. Range(removalList') = Range(hookList) \cup Range(removalList)
      /\ Range(removalList') \subseteq Hooks
  <2>1. Reverse(hookList) \in Seq(Hooks) /\ Range(Reverse(hookList)) = Range(hookList)
    BY <1>0, ReverseRange
  <2>2. Range(Reverse(hookList) \o removalList) = Range(Reverse(hookList)) \cup Range(removalList)
    BY <1>0, <2>1, RangeConcatenation
  <2>3. Range(hookList) \subseteq Hooks /\ Range(removalList) \subseteq Hooks
    BY <1>0 DEF Range
  <2> QED BY <2>1, <2>2, <2>3 DEF UninstallAll
<1>3. Range(hookList') = {} /\ \A k \in Handles : link'[k] \in {link[k], NULL}
  BY DEF UninstallAll, Range
<1>4. LeadsTo(hookList', removalList', link', entry', hook', Seen)
  BY <1>1, <1>2, <1>3, ReferencesAreSeen DEF LeadsTo
<1>5. ReferencesMove
  BY <1>1, <1>2, <1>4, MovesReferences
<1>6. PagesMove(t)
  BY <1>1 DEF PagesMove
<1> QED BY <1>5, <1>6

\* LhAllocateHook takes a page that nothing refers to.
LEMMA AllocatePins ==
  ASSUME TypeInv, TypeInv', PinInv, NEW t \in Threads, NEW f \in Targets, NEW k \in Handles,
         NEW succeeds \in BOOLEAN, LhAllocateHook(t, f, k, succeeds)
  PROVE  PinInv'
<1> DEFINE r(h) == [BlankHook EXCEPT !.page = IF succeeds THEN "live" ELSE "freed",
                                     !.TargetProc = f, !.HookProc = succeeds,
                                     !.OldProc = entry[f]]
           o(h) == [pc |-> IF succeeds THEN "backup" ELSE "unwind",
                    hook |-> h, handle |-> k, budget |-> 0]
<1>1. PICK h \in Hooks : /\ hook[h].page = "unused"
                         /\ hook' = [hook EXCEPT ![h] = r(h)]
                         /\ op' = [op EXCEPT ![t] = o(h)]
  BY DEF LhAllocateHook
<1>2. /\ UNCHANGED <<entry, link, slotList, hookList, removalList, dll, frame>>
      /\ op[t].pc = "idle"
  BY DEF LhAllocateHook, callState, MayCallApi
<1>3. /\ hook'[h] = r(h) /\ \A g \in Hooks \ {h} : hook'[g] = hook[g]
      /\ op'[t] = o(h) /\ \A u \in Threads \ {t} : op'[u] = op[u]
  BY <1>1 DEF TypeInv, TypeOK
<1>4. /\ hook'[h].page \in {"live", "freed"} /\ hook'[h].IsExecuted = 0
      /\ hook'[h].OldProc = entry[f] /\ hook'[h].TargetBackup = Original
      /\ op'[t].pc \in {"backup", "unwind"} /\ op'[t].hook = h
  BY <1>3 DEF BlankHook
<1> HIDE DEF r, o
<1>5. Private(h) /\ Unknown(h) /\ \A u \in Threads : op[u].hook # h
  BY <1>1 DEF PinInv, UnpublishedIsPrivate, Private
<1>6. \A g \in Hooks \ {h} : Private(g)' => Private(g)
  BY <1>3, <1>4 DEF Private
<1>7. \A g \in Hooks : Private(g) => Unknown(g)'
  <2> SUFFICES ASSUME NEW g \in Hooks, Private(g) PROVE Unknown(g)'
    OBVIOUS
  <2>1. Unknown(g)
    BY DEF PinInv, UnpublishedIsPrivate
  <2>2. entry[f] # g /\ Original # g
    BY <2>1, Distinct DEF Unknown
  <2>3. \A x \in Hooks : hook'[x].OldProc # g /\ hook'[x].TargetBackup # g
    BY <1>3, <1>4, <2>1, <2>2 DEF Unknown
  <2> QED BY <1>2, <2>1, <2>3 DEF Unknown
<1>8. UnpublishedIsPrivate'
  <2>1. \A g \in Hooks : Private(g)' => Unknown(g)'
    BY <1>5, <1>6, <1>7
  <2>2. \A g \in Hooks, u \in Threads : hook'[g].page = "unused" => op'[u].hook # g
    BY <1>3, <1>4 DEF PinInv, UnpublishedIsPrivate
  <2>3. \A v, u \in Threads : op'[v].pc \in PrivatePcs /\ v # u => op'[u].hook # op'[v].hook
    BY <1>3, <1>4, <1>5 DEF PinInv, UnpublishedIsPrivate
  <2> QED BY <2>1, <2>2, <2>3 DEF UnpublishedIsPrivate
<1>9. RemovedIsDisarmed'
  <2>1. h \notin Range(removalList) /\ \A u \in Threads : op'[u].hook = h => op'[u].pc \notin WaitPcs
    BY <1>3, <1>4, <1>5 DEF Unknown, WaitPcs
  <2>2. \A g \in Hooks \ {h}, u \in Threads : op'[u].hook = g => op[u].hook = g /\ op'[u] = op[u]
    BY <1>3, <1>4
  <2> QED BY <1>2, <1>3, <2>1, <2>2 DEF PinInv, RemovedIsDisarmed
<1>10. CounterCounts'
  <2>1. Counted(h) = {}
    BY <1>5 DEF Unknown, Counted
  <2>2. \A g \in Hooks : Counted(g)' = Counted(g)
    BY <1>2 DEF Counted
  <2> QED BY <1>3, <1>4, <2>1, <2>2, FS_EmptySet DEF PinInv, CounterCounts
<1>11. ReleasedIsLeft'
  <2> SUFFICES ASSUME NEW g \in Hooks, NEW u \in Threads, NEW d \in Levels, InHandler(g, u, d)
               PROVE  /\ hook'[g].page = "freed" => dll' = "unloaded"
                      /\ \A v \in Threads : op'[v].hook = g => op'[v].pc \notin ReleasePcs
    BY <1>2 DEF ReleasedIsLeft, InHandler
  <2>1. g # h
    BY <1>5 DEF Unknown, InHandler
  <2>2. /\ hook[g].page = "freed" => dll = "unloaded"
        /\ \A v \in Threads : op[v].hook = g => op[v].pc \notin ReleasePcs
    BY DEF PinInv, ReleasedIsLeft
  <2> QED BY <1>2, <1>3, <1>4, <2>1, <2>2
<1> QED BY <1>8, <1>9, <1>10, <1>11 DEF PinInv

\* A crash leaves the pages as they are.
LEMMA CrashPins == ASSUME PinInv, NEW why, Crash(why) PROVE PinInv'
<1> USE DEF Crash
<1>1. UnpublishedIsPrivate'
  BY DEF PinInv, UnpublishedIsPrivate, Private, Unknown
<1>2. RemovedIsDisarmed'
  BY DEF PinInv, RemovedIsDisarmed
<1>3. CounterCounts'
  BY DEF PinInv, CounterCounts, Counted
<1>4. ReleasedIsLeft'
  BY DEF PinInv, ReleasedIsLeft, InHandler
<1> QED BY <1>1, <1>2, <1>3, <1>4 DEF PinInv

\* A step inside a trampoline that writes no page and enters no handler.
LEMMA PassesOn ==
  ASSUME TypeInv, TypeInv', PinInv, NEW t \in Threads, NEW d \in Levels, FrameOf(t, d),
         UNCHANGED apiState, UNCHANGED entry, UNCHANGED hook,
         frame'[t][d].hook = frame[t][d].hook,
         frame[t][d].pc \in CountedPcs <=> frame'[t][d].pc \in CountedPcs,
         frame'[t][d].pc \in HandlerPcs => frame[t][d].pc \in HandlerPcs
  PROVE  PinInv'
<1>1. CounterCounts'
  BY CountSame DEF PinInv
<1>2. \A h \in Hooks : Private(h) => frame'[t][d].hook # h
  BY DEF PinInv, UnpublishedIsPrivate, Unknown
<1> QED BY <1>1, <1>2, FrameStepPins

\* Every step keeps PinInv.
LEMMA PinInvStep == TypeInv /\ PinInv /\ [Next]_vars => PinInv'
<1> SUFFICES ASSUME TypeInv, PinInv, [Next]_vars PROVE PinInv'
  OBVIOUS
<1>0. /\ TypeInv' /\ hook \in [Hooks -> HookRecord] /\ ListsTyped
      /\ LeadsTo(hookList, removalList, link, entry, hook, Seen)
  BY TypeInvStep, ReferencesAreSeen DEF TypeInv, TypeOK, ListsTyped
<1>1. ASSUME NEW t \in Threads, NEW f \in Targets, NEW k \in Handles,
             NEW succeeds \in BOOLEAN, LhAllocateHook(t, f, k, succeeds)
      PROVE  PinInv'
  BY <1>0, <1>1, AllocatePins
<1>2. ASSUME NEW t \in Threads, BackupEntry(t) PROVE PinInv'
  <2> DEFINE h == op[t].hook
             r == [hook[h] EXCEPT !.TargetBackup = entry[hook[h].TargetProc]]
  <2>1. h \in Hooks /\ hook[h] \in HookRecord /\ hook[h].TargetProc \in Targets /\ op[t].pc = "backup"
    BY <1>2, OpHook DEF BackupEntry, AtOp, NeedsHook, InstallPcs
  <2>2. /\ op' = [op EXCEPT ![t].pc = "register"] /\ hook' = [hook EXCEPT ![h] = r]
        /\ UNCHANGED <<entry, link, hookList, removalList, dll, frame>>
    BY <1>2 DEF BackupEntry, callState
  <2>3. /\ r.page = hook[h].page /\ r.IsExecuted = hook[h].IsExecuted
        /\ r.HookProc = hook[h].HookProc /\ r.OldProc = hook[h].OldProc
        /\ r.TargetBackup = entry[hook[h].TargetProc]
    BY <2>1 DEF HookRecord
  <2> HIDE DEF r
  <2>4. hook'[h] = r /\ \A g \in Hooks \ {h} : hook'[g] = hook[g]
    BY <1>0, <2>1, <2>2
  <2>5. PagesMove(t)
    BY <2>1, <2>2, <2>3, <2>4, PageWritten
  <2>6. OpMoves(t)
    <3>1. /\ \A u \in Threads \ {t} : op'[u] = op[u]
          /\ op'[t].pc = "register" /\ op'[t].hook = h
      BY <2>2, OpGoto DEF OpPcs, InstallPcs
    <3> QED BY <2>1, <3>1 DEF OpMoves, PrivatePcs, WaitPcs, ReleasePcs
  <2>7. ReferencesMove
    <3>1. LeadsTo(hookList', removalList', link', entry', hook', Seen)
      BY <1>0, <2>1, <2>2, <2>3, <2>4 DEF LeadsTo
    <3> QED BY <2>2, <3>1, MovesReferences
  <2> QED BY <1>0, <2>2, <2>5, <2>6, <2>7, ApiStepPins
<1>3. ASSUME NEW t \in Threads, InstallFails(t) PROVE PinInv'
  <2>1. /\ op[t].pc = "register" /\ op' = [op EXCEPT ![t].pc = "unwind"]
        /\ UNCHANGED <<hook, entry, link, hookList, removalList, dll, frame>>
    BY <1>3 DEF InstallFails, AtOp, callState
  <2>2. PagesMove(t)
    BY <2>1, PagesStay
  <2>3. OpMoves(t)
    <3>1. /\ \A u \in Threads \ {t} : op'[u] = op[u]
          /\ op'[t].pc = "unwind" /\ op'[t].hook = op[t].hook
      BY <2>1, OpGoto DEF OpPcs, InstallPcs
    <3> QED BY <2>1, <3>1 DEF OpMoves, PrivatePcs, WaitPcs, ReleasePcs
  <2>4. ReferencesMove
    BY <1>0, <2>1, MovesReferences DEF LeadsTo
  <2> QED BY <1>0, <2>1, <2>2, <2>3, <2>4, ApiStepPins
<1>33. ASSUME NEW t \in Threads, UnwindInstall(t) PROVE PinInv'
  <2>1. CASE Crash("freed page")
    BY <2>1, CrashPins
  <2>2. CASE ~Crash("freed page")
    <3>1. /\ op[t].pc = "unwind" /\ op' = [op EXCEPT ![t] = IdleOp]
          /\ hook' = [hook EXCEPT ![op[t].hook] = Release(op[t].hook)]
          /\ UNCHANGED <<entry, link, hookList, removalList, dll, frame>>
      BY <2>2, <1>33 DEF UnwindInstall, AtOp, callState
    <3>2. PagesMove(t)
      BY <3>1, PageReleased
    <3>3. OpMoves(t)
      BY <3>1, IdleTyped, OpBecomes, OpDrops DEF IdleOp
    <3>4. LeadsTo(hookList', removalList', link', entry', hook', Seen)
      BY <1>0, <3>1, PageReleased DEF LeadsTo
    <3>5. ReferencesMove
      BY <3>1, <3>4, MovesReferences
    <3> QED BY <1>0, <3>1, <3>2, <3>3, <3>5, ApiStepPins
  <2> QED BY <2>1, <2>2
<1>4. ASSUME NEW t \in Threads, RegisterSlot(t) PROVE PinInv'
  <2> DEFINE h == op[t].hook
  <2>1. h \in Hooks /\ hook[h] \in HookRecord /\ op[t].pc = "register"
    BY <1>4, OpHook DEF RegisterSlot, AtOp, NeedsHook, InstallPcs
  <2>2. /\ op' = [op EXCEPT ![t].pc = "patch"]
        /\ UNCHANGED <<entry, link, hookList, removalList, dll, frame>>
    BY <1>4 DEF RegisterSlot, callState
  <2>3. PICK i \in Slots : hook' = [hook EXCEPT ![h].HLSIndex = i]
    BY <1>4 DEF RegisterSlot
  <2> DEFINE r == [hook[h] EXCEPT !.HLSIndex = i]
  <2>4. /\ r.page = hook[h].page /\ r.IsExecuted = hook[h].IsExecuted
        /\ r.HookProc = hook[h].HookProc /\ r.OldProc = hook[h].OldProc
        /\ r.TargetBackup = hook[h].TargetBackup
    BY <2>1 DEF HookRecord
  <2>5. hook' = [hook EXCEPT ![h] = r]
    BY <2>3
  <2> HIDE DEF r
  <2>6. hook'[h] = r /\ \A g \in Hooks \ {h} : hook'[g] = hook[g]
    BY <1>0, <2>1, <2>5
  <2>7. PagesMove(t)
    BY <2>1, <2>2, <2>4, <2>6, PageWritten
  <2>8. OpMoves(t)
    <3>1. /\ \A u \in Threads \ {t} : op'[u] = op[u]
          /\ op'[t].pc = "patch" /\ op'[t].hook = h
      BY <2>2, OpGoto DEF OpPcs, InstallPcs
    <3> QED BY <3>1, OpAdvances DEF PrivatePcs, WaitPcs, ReleasePcs
  <2>9. ReferencesMove
    <3>1. LeadsTo(hookList', removalList', link', entry', hook', Seen)
      BY <1>0, <2>1, <2>2, <2>4, <2>6 DEF LeadsTo
    <3> QED BY <2>2, <3>1, MovesReferences
  <2> QED BY <1>0, <2>2, <2>7, <2>8, <2>9, ApiStepPins
<1>5. ASSUME NEW t \in Threads, PatchEntry(t) PROVE PinInv'
  <2> DEFINE h == op[t].hook
  <2>1. h \in Hooks /\ hook[h].TargetProc \in Targets /\ op[t].pc = "patch"
    BY <1>5, OpHook DEF PatchEntry, AtOp, NeedsHook, InstallPcs
  <2>2. /\ op' = [op EXCEPT ![t].pc = "publish"]
        /\ entry' = [entry EXCEPT ![hook[h].TargetProc] = h]
        /\ UNCHANGED <<hook, link, hookList, removalList, dll, frame>>
    BY <1>5 DEF PatchEntry, callState
  <2>3. h \in Seen
    BY <2>1, WorkedOnIsSeen DEF PrivatePcs
  <2>4. \A f \in Targets : entry'[f] \in {entry[f], h}
    BY <1>0, <2>2 DEF ListsTyped
  <2> HIDE DEF h
  <2>5. LeadsTo(hookList', removalList', link', entry', hook', Seen)
    BY <1>0, <2>2, <2>3, <2>4 DEF LeadsTo
  <2>6. ReferencesMove
    BY <2>2, <2>5, MovesReferences
  <2>7. OpMoves(t)
    <3>1. /\ \A u \in Threads \ {t} : op'[u] = op[u]
          /\ op'[t].pc = "publish" /\ op'[t].hook = op[t].hook
      BY <2>2, OpGoto DEF OpPcs, InstallPcs
    <3> QED BY <3>1, OpAdvances DEF PrivatePcs, WaitPcs, ReleasePcs
  <2> QED BY <1>0, <2>2, <2>6, <2>7, PagesStay, ApiStepPins
<1>6. ASSUME NEW t \in Threads, PublishHook(t) PROVE PinInv'
  <2> DEFINE h == op[t].hook
  <2>1. h \in Hooks /\ op[t].pc = "publish"
    BY <1>6, OpHook DEF PublishHook, AtOp, NeedsHook, InstallPcs
  <2>2. /\ op' = [op EXCEPT ![t].pc = "track"] /\ hookList' = <<h>> \o hookList
        /\ UNCHANGED <<hook, entry, link, removalList, dll, frame>>
    BY <1>6 DEF PublishHook, callState
  <2>3. h \in Seen
    BY <2>1, WorkedOnIsSeen DEF PrivatePcs
  <2>4. Range(hookList') = {h} \cup Range(hookList)
    BY <1>0, <2>1, <2>2, PushRange DEF ListsTyped
  <2> HIDE DEF h
  <2>5. LeadsTo(hookList', removalList', link', entry', hook', Seen)
    BY <1>0, <2>2, <2>3, <2>4 DEF LeadsTo
  <2>6. ReferencesMove
    BY <2>2, <2>5, MovesReferences
  <2>7. OpMoves(t)
    <3>1. /\ \A u \in Threads \ {t} : op'[u] = op[u]
          /\ op'[t].pc = "track" /\ op'[t].hook = op[t].hook
      BY <2>2, OpGoto DEF OpPcs, InstallPcs
    <3> QED BY <3>1, OpAdvances DEF PrivatePcs, WaitPcs, ReleasePcs
  <2> QED BY <1>0, <2>2, <2>6, <2>7, PagesStay, ApiStepPins
<1>7. ASSUME NEW t \in Threads, TrackHook(t) PROVE PinInv'
  <2> DEFINE h == op[t].hook
             r == [hook[h] EXCEPT !.Tracking = op[t].handle]
  <2>1. h \in Hooks /\ hook[h] \in HookRecord /\ op[t].pc = "track"
    BY <1>7, OpHook DEF TrackHook, AtOp, NeedsHook, InstallPcs
  <2>2. CASE Freed(h)
    BY <1>7, <2>2, CrashPins DEF TrackHook
  <2>3. CASE ~Freed(h)
    <3>1. /\ op' = [op EXCEPT ![t] = IdleOp] /\ hook' = [hook EXCEPT ![h] = r]
          /\ link' = [link EXCEPT ![op[t].handle] = h]
          /\ UNCHANGED <<entry, hookList, removalList, dll, frame>>
      BY <1>7, <2>3 DEF TrackHook, callState
    <3>2. /\ r.page = hook[h].page /\ r.IsExecuted = hook[h].IsExecuted
          /\ r.HookProc = hook[h].HookProc /\ r.OldProc = hook[h].OldProc
          /\ r.TargetBackup = hook[h].TargetBackup
      BY <2>1 DEF HookRecord
    <3> HIDE DEF r
    <3>3. hook'[h] = r /\ \A g \in Hooks \ {h} : hook'[g] = hook[g]
      BY <1>0, <2>1, <3>1
    <3>4. PagesMove(t)
      BY <2>1, <3>1, <3>2, <3>3, PageWritten
    <3>5. OpMoves(t)
      BY <3>1, IdleTyped, OpBecomes, OpDrops DEF IdleOp
    <3>6. h \in Seen
      BY <2>1, WorkedOnIsSeen DEF PrivatePcs
    <3>7. \A k \in Handles : link'[k] \in {link[k], h}
      BY <1>0, <3>1 DEF ListsTyped
    <3>8. LeadsTo(hookList', removalList', link', entry', hook', Seen)
      BY <1>0, <2>1, <3>1, <3>2, <3>3, <3>6, <3>7 DEF LeadsTo
    <3>9. ReferencesMove
      BY <3>1, <3>8, MovesReferences
    <3> QED BY <1>0, <3>1, <3>4, <3>5, <3>9, ApiStepPins
  <2> QED BY <2>2, <2>3
<1>8. ASSUME NEW t \in Threads, NEW k \in Handles, LhUninstallHook(t, k) PROVE PinInv'
  <2> DEFINE h == link[k]
             r == [hook[h] EXCEPT !.HookProc = FALSE]
  <2>1. h \in Hooks /\ hook[h] \in HookRecord
    BY <1>0, <1>8 DEF LhUninstallHook, LhIsValidHandle, ListsTyped
  <2>2. /\ hook' = [hook EXCEPT ![h] = r] /\ link' = [link EXCEPT ![k] = NULL]
        /\ hookList' = Unlink(hookList, h) /\ removalList' = <<h>> \o removalList
        /\ UNCHANGED <<entry, op, dll, frame>>
    BY <1>8 DEF LhUninstallHook, callState
  <2>3. /\ r.page = hook[h].page /\ r.IsExecuted = hook[h].IsExecuted
        /\ r.HookProc = FALSE /\ r.OldProc = hook[h].OldProc
        /\ r.TargetBackup = hook[h].TargetBackup
    BY <2>1 DEF HookRecord
  <2> HIDE DEF r
  <2>4. hook'[h] = r /\ \A g \in Hooks \ {h} : hook'[g] = hook[g]
    BY <1>0, <2>1, <2>2
  <2>5. PagesMove(t)
    BY <2>1, <2>2, <2>3, <2>4, PageWritten
  <2>6. Range(hookList') \subseteq Range(hookList) /\ Range(removalList') = {h} \cup Range(removalList)
    BY <1>0, <2>1, <2>2, PushRange, UnlinkRange DEF ListsTyped
  <2>7. h \in Seen
    BY <1>0, <2>1, Distinct DEF LeadsTo
  <2>8. \A x \in Handles : link'[x] \in {link[x], NULL}
    BY <1>0, <2>2 DEF ListsTyped
  <2>9. LeadsTo(hookList', removalList', link', entry', hook', Seen)
    BY <1>0, <2>1, <2>2, <2>3, <2>4, <2>6, <2>7, <2>8 DEF LeadsTo
  <2>10. ReferencesMove
    BY <2>2, <2>3, <2>4, <2>6, <2>9, MovesReferences
  <2> QED BY <1>0, <2>2, <2>5, <2>10, OpsStay, ApiStepPins
<1>9. ASSUME NEW t \in Threads, NEW k \in Handles, UseDanglingHandle(t, k) PROVE PinInv'
  BY <1>9, CrashPins DEF UseDanglingHandle
<1>10. ASSUME NEW t \in Threads, LhUninstallAllHooks(t) PROVE PinInv'
  <2>1. UninstallAll /\ UNCHANGED <<entry, op, dll, frame>>
    BY <1>10 DEF LhUninstallAllHooks, callState
  <2> QED BY <1>0, <2>1, UninstallAllMoves, OpsStay, ApiStepPins
<1>20. WaitOp \in OpRecord /\ WaitOp.pc = "pop" /\ WaitOp.hook = NULL
  BY RoundBound, WaitPositions DEF OpRecord, OpPcs, WaitOp
<1>21. ASSUME NEW t \in Threads, UNCHANGED <<hook, entry, link, hookList, removalList, dll, frame>>,
              OpMoves(t)
       PROVE  PinInv'
  <2>1. LeadsTo(hookList', removalList', link', entry', hook', Seen)
    BY <1>0, <1>21 DEF LeadsTo
  <2>2. ReferencesMove
    BY <1>21, <2>1, MovesReferences
  <2> QED BY <1>0, <1>21, <2>2, PagesStay, ApiStepPins
<1>11. ASSUME NEW t \in Threads, LhWaitForPendingRemovals(t) PROVE PinInv'
  <2>1. OpMoves(t)
    BY <1>11, <1>20, OpBecomes, OpDrops DEF LhWaitForPendingRemovals
  <2> QED BY <1>11, <1>21, <2>1 DEF LhWaitForPendingRemovals, callState
<1>12. ASSUME NEW t \in Threads, LhCriticalFinalize(t) PROVE PinInv'
  <2>1. UninstallAll /\ UNCHANGED <<entry, frame>> /\ dll = "loaded"
    BY <1>12 DEF LhCriticalFinalize, callState, MayCallApi
  <2>2. OpMoves(t)
    BY <1>12, <1>20, OpBecomes, OpDrops DEF LhCriticalFinalize
  <2> QED BY <1>0, <2>1, <2>2, UninstallAllMoves, ApiStepPins
<1>13. ASSUME NEW t \in Threads, PopRemoval(t) PROVE PinInv'
  <2> DEFINE h == Head(removalList)
  <2>1. /\ op' = [op EXCEPT ![t].pc = "compare", ![t].hook = h]
        /\ removalList' = Tail(removalList)
        /\ UNCHANGED <<hook, entry, link, hookList, dll, frame>>
    BY <1>13 DEF PopRemoval, callState
  <2>2. h \in Hooks /\ h \in Range(removalList) /\ Range(removalList') \subseteq Range(removalList)
    BY <1>0, <1>13, HeadTailRange DEF PopRemoval, ListsTyped
  <2> HIDE DEF h
  <2>3. OpMoves(t)
    BY <2>1, <2>2, OpTakes
  <2>4. LeadsTo(hookList', removalList', link', entry', hook', Seen)
    BY <1>0, <2>1, <2>2 DEF LeadsTo
  <2>5. ReferencesMove
    BY <2>1, <2>2, <2>4, MovesReferences
  <2> QED BY <1>0, <2>1, <2>3, <2>5, PagesStay, ApiStepPins
<1>14. ASSUME NEW t \in Threads, WaitReturns(t) PROVE PinInv'
  <2>1. /\ op' = [op EXCEPT ![t] = IdleOp]
        /\ UNCHANGED <<entry, link, hookList, removalList, frame>>
        /\ dll' = IF dll = "detaching" THEN "unloaded" ELSE dll
        /\ hook' = IF dll = "detaching" /\ Arch = "x86"
                   THEN [h \in Hooks |-> IF Live(h) THEN Release(h) ELSE hook[h]]
                   ELSE hook
    BY <1>14 DEF WaitReturns, callState
  <2>2. OpMoves(t)
    BY <2>1, IdleTyped, OpBecomes, OpDrops DEF IdleOp
  <2>3. \A h \in Hooks : \/ hook'[h] = hook[h]
                         \/ Live(h) /\ hook'[h] = Release(h) /\ dll' = "unloaded"
    BY <2>1
  <2>4. \A h \in Hooks :
          /\ hook'[h].page = "unused" <=> hook[h].page = "unused"
          /\ hook'[h].IsExecuted = hook[h].IsExecuted
          /\ hook[h].HookProc = FALSE => hook'[h].HookProc = FALSE
          /\ hook'[h].page = "freed" => hook[h].page = "freed" \/ dll' = "unloaded"
          /\ hook'[h].OldProc = hook[h].OldProc /\ hook'[h].TargetBackup = hook[h].TargetBackup
    <3> SUFFICES ASSUME NEW h \in Hooks
                 PROVE  /\ hook'[h].page = "unused" <=> hook[h].page = "unused"
                        /\ hook'[h].IsExecuted = hook[h].IsExecuted
                        /\ hook[h].HookProc = FALSE => hook'[h].HookProc = FALSE
                        /\ hook'[h].page = "freed" => hook[h].page = "freed" \/ dll' = "unloaded"
                        /\ hook'[h].OldProc = hook[h].OldProc
                        /\ hook'[h].TargetBackup = hook[h].TargetBackup
      OBVIOUS
    <3>1. CASE hook'[h] = hook[h]
      BY <3>1
    <3>2. CASE Live(h) /\ hook'[h] = Release(h) /\ dll' = "unloaded"
      BY <3>2, ReleaseTyped DEF Live, HookRecord
    <3> QED BY <2>3, <3>1, <3>2
  <2>5. PagesMove(t)
    BY <2>1, <2>4 DEF PagesMove
  <2>6. LeadsTo(hookList', removalList', link', entry', hook', Seen)
    BY <1>0, <2>1, <2>4 DEF LeadsTo
  <2>7. ReferencesMove
    BY <2>1, <2>6, MovesReferences
  <2> QED BY <1>0, <2>1, <2>2, <2>5, <2>7, ApiStepPins
<1>15. ASSUME NEW t \in Threads, CompareEntry(t) PROVE PinInv'
  <2> DEFINE h == op[t].hook
             same == entry[hook[h].TargetProc] = h
  <2>1. h \in Hooks /\ op[t].pc = "compare"
    BY <1>15, OpHook DEF CompareEntry, AtOp, NeedsHook, InstallPcs, WaitPcs
  <2>2. op' = [op EXCEPT ![t].pc = IF same THEN "restore" ELSE "pop",
                         ![t].hook = IF same THEN h ELSE NULL]
    BY <1>15 DEF CompareEntry
  <2>3. OpMoves(t)
    <3>1. CASE op' = [op EXCEPT ![t].pc = "restore", ![t].hook = h]
      <4>1. "restore" \in OpPcs
        BY WaitPositions DEF WaitPcs
      <4>2. /\ \A u \in Threads \ {t} : op'[u] = op[u]
            /\ op'[t].pc = "restore" /\ op'[t].hook = h
        BY ZenonT(60), <2>1, <3>1, <4>1, OpGotoHook
      <4> QED BY <2>1, <4>2, OpAdvances DEF PrivatePcs, ReleasePcs, WaitPcs
    <3>2. CASE op' = [op EXCEPT ![t].pc = "pop", ![t].hook = NULL]
      BY <3>2, OpGotoHook, WaitPositions, OpDrops
    <3> QED BY <2>2, <3>1, <3>2
  <2> QED BY <1>15, <1>21, <2>3 DEF CompareEntry, callState
<1>16. ASSUME NEW t \in Threads, RestoreEntry(t) PROVE PinInv'
  <2> DEFINE h == op[t].hook
  <2>1. h \in Hooks /\ op[t].pc = "restore"
    BY <1>16, OpHook DEF RestoreEntry, AtOp, NeedsHook, InstallPcs, WaitPcs
  <2>2. /\ op' = [op EXCEPT ![t].pc = "drain"]
        /\ entry' = [entry EXCEPT ![hook[h].TargetProc] = hook[h].TargetBackup]
        /\ UNCHANGED <<hook, link, hookList, removalList, dll, frame>>
    BY <1>16 DEF RestoreEntry, callState
  <2>3. \A f \in Targets : entry'[f] \in {entry[f], hook[h].TargetBackup}
    BY <1>0, <2>2 DEF ListsTyped
  <2>4. LeadsTo(hookList', removalList', link', entry', hook', Seen)
    BY <1>0, <2>1, <2>2, <2>3 DEF LeadsTo
  <2>5. ReferencesMove
    BY <2>2, <2>4, MovesReferences
  <2>6. OpMoves(t)
    <3>1. /\ \A u \in Threads \ {t} : op'[u] = op[u]
          /\ op'[t].pc = "drain" /\ op'[t].hook = op[t].hook
      BY <2>2, OpGoto, WaitPositions DEF WaitPcs
    <3> QED BY <2>1, <3>1, OpAdvances DEF PrivatePcs, WaitPcs, ReleasePcs
  <2> QED BY <1>0, <2>2, <2>5, <2>6, PagesStay, ApiStepPins
<1>17. ASSUME NEW t \in Threads, Drain(t) PROVE PinInv'
  <2> DEFINE h == op[t].hook
  <2>1. h \in Hooks /\ op[t].pc = "drain" /\ op[t] \in OpRecord
    BY <1>17, OpHook DEF Drain, AtOp, NeedsHook, InstallPcs, WaitPcs, TypeInv, TypeOK
  <2>2. OpMoves(t)
    <3>1. CASE hook[h].IsExecuted <= 0 /\ op' = [op EXCEPT ![t].pc = "release"]
      <4>1. /\ \A u \in Threads \ {t} : op'[u] = op[u]
            /\ op'[t].pc = "release" /\ op'[t].hook = h
        BY <3>1, OpGoto, WaitPositions DEF WaitPcs
      <4> QED BY <2>1, <3>1, <4>1 DEF OpMoves, PrivatePcs, WaitPcs
    <3>2. CASE op' = [op EXCEPT ![t].pc = "pop", ![t].hook = NULL]
      BY <3>2, OpGotoHook, WaitPositions, OpDrops
    <3>3. CASE op[t].budget > 0 /\ op' = [op EXCEPT ![t].budget = @ - 1]
      <4> DEFINE o == [op[t] EXCEPT !.budget = @ - 1]
      <4>1. o \in OpRecord /\ o.pc = "drain" /\ o.hook = h
        BY <2>1, <3>3, RoundBound DEF OpRecord
      <4>2. op' = [op EXCEPT ![t] = o]
        BY <3>3
      <4> HIDE DEF o
      <4>3. op'[t] = o /\ \A u \in Threads \ {t} : op'[u] = op[u]
        BY <4>1, <4>2, OpBecomes
      <4> QED BY <2>1, <4>1, <4>3, OpAdvances DEF PrivatePcs, WaitPcs, ReleasePcs
    <3> QED BY <3>1, <3>2, <3>3, <1>17 DEF Drain
  <2> QED BY <1>17, <1>21, <2>2 DEF Drain, callState
<1>18. ASSUME NEW t \in Threads, ReleaseSlot(t) PROVE PinInv'
  <2>1. op[t].pc = "release" /\ op' = [op EXCEPT ![t].pc = "free"]
    BY <1>18 DEF ReleaseSlot, AtOp
  <2>2. /\ \A u \in Threads \ {t} : op'[u] = op[u]
        /\ op'[t].pc = "free" /\ op'[t].hook = op[t].hook
    BY <2>1, OpGoto, WaitPositions DEF WaitPcs
  <2>3. OpMoves(t)
    BY <2>1, <2>2 DEF OpMoves, PrivatePcs, ReleasePcs, WaitPcs
  <2> QED BY <1>18, <1>21, <2>3 DEF ReleaseSlot, callState
<1>19. ASSUME NEW t \in Threads, FreeHook(t) PROVE PinInv'
  <2>1. /\ op[t].pc = "free" /\ op' = [op EXCEPT ![t].pc = "pop", ![t].hook = NULL]
        /\ hook' = [hook EXCEPT ![op[t].hook] = Release(op[t].hook)]
        /\ UNCHANGED <<entry, link, hookList, removalList, dll, frame>>
    BY <1>19 DEF FreeHook, AtOp, callState
  <2>2. PagesMove(t)
    BY <2>1, PageReleased
  <2>3. OpMoves(t)
    BY <2>1, OpGotoHook, WaitPositions, OpDrops
  <2>4. LeadsTo(hookList', removalList', link', entry', hook', Seen)
    BY <1>0, <2>1, PageReleased DEF LeadsTo
  <2>5. ReferencesMove
    BY <2>1, <2>4, MovesReferences
  <2> QED BY <1>0, <2>1, <2>2, <2>3, <2>5, ApiStepPins

<1>22. ASSUME NEW t \in Threads, NEW d \in Levels, NEW f \in Targets, CallTarget(t, d, f) PROVE PinInv'
  <2> DEFINE fr == [pc |-> "entered", hook |-> entry[f]]
  <2>1. /\ frame' = [frame EXCEPT ![t][d] = fr] /\ UNCHANGED <<hook, entry, fault, apiState>>
        /\ frame[t][d].pc = "idle" /\ entry[f] # Original
    BY <1>22 DEF CallTarget
  <2>2. fr \in FrameRecord /\ fr.hook \in Hooks /\ fr.pc = "entered" /\ fr.hook = entry[f]
    BY <1>0, <2>1 DEF ListsTyped, FrameRecord, FramePcs
  <2> HIDE DEF fr
  <2>3. FrameOf(t, d) /\ frame'[t][d] = fr
    BY <2>1, <2>2, FrameBecomes
  <2>4. \A h \in Hooks : Private(h) => frame'[t][d].hook # h
    BY <2>2, <2>3 DEF PinInv, UnpublishedIsPrivate, Unknown
  <2>5. CounterCounts'
    BY <2>1, <2>2, <2>3, CountSame DEF PinInv, CountedPcs, HandlerPcs
  <2> QED BY <1>0, <2>1, <2>2, <2>3, <2>4, <2>5, FrameStepPins DEF HandlerPcs
<1>23. ASSUME NEW t \in Threads, NEW d \in Levels, CountIn(t, d) PROVE PinInv'
  <2> DEFINE h == frame[t][d].hook
             r == [hook[h] EXCEPT !.IsExecuted = @ + 1]
  <2>1. h \in Hooks /\ hook[h] \in HookRecord /\ frame[t][d].pc = "entered"
    BY <1>23, FrameHook DEF CountIn, InPage, At
  <2>2. hook' = [hook EXCEPT ![h] = r] /\ UNCHANGED <<entry, fault, apiState>>
    BY <1>23 DEF CountIn
  <2>3. /\ r.page = hook[h].page /\ r.HookProc = hook[h].HookProc
        /\ r.OldProc = hook[h].OldProc /\ r.TargetBackup = hook[h].TargetBackup
        /\ r.IsExecuted = hook[h].IsExecuted + 1
    BY <2>1 DEF HookRecord
  <2> HIDE DEF r
  <2>4. hook'[h] = r /\ \A g \in Hooks \ {h} : hook'[g] = hook[g]
    BY <1>0, <2>1, <2>2
  <2>5. FrameOf(t, d) /\ frame'[t][d].pc = "counted" /\ frame'[t][d].hook = h
    BY <1>23, <2>1, FrameGoto DEF CountIn, FramePcs, CountedPcs
  <2>6. CounterCounts'
    BY <2>1, <2>3, <2>4, <2>5, CountUp DEF PinInv, CountedPcs, HandlerPcs
  <2>7. \A g \in Hooks : Private(g) => frame'[t][d].hook # g
    BY <2>5 DEF PinInv, UnpublishedIsPrivate, Unknown
  <2>8. frame'[t][d].pc \notin HandlerPcs
    BY <2>5 DEF HandlerPcs
  <2>9. \A g \in Hooks : /\ hook'[g].page = hook[g].page /\ hook'[g].HookProc = hook[g].HookProc
                         /\ hook'[g].OldProc = hook[g].OldProc
                         /\ hook'[g].TargetBackup = hook[g].TargetBackup
    BY <2>3, <2>4
  <2> QED BY <1>0, <2>2, <2>5, <2>6, <2>7, <2>8, <2>9, FrameStepPins
<1>24. ASSUME NEW t \in Threads, NEW d \in Levels, CheckHookProc(t, d) PROVE PinInv'
  <2> DEFINE h == frame[t][d].hook
             p == IF hook[h].HookProc THEN "intro" ELSE "reject"
  <2>1. h \in Hooks /\ frame[t][d].pc = "counted" /\ ~Freed(h)
    BY <1>24, FrameHook DEF CheckHookProc, InPage, At
  <2>2. Goto(t, d, p) /\ UNCHANGED <<hook, entry, fault, apiState>>
    BY <1>24 DEF CheckHookProc
  <2>3. p \in FramePcs /\ p \in CountedPcs /\ (p \in HandlerPcs => hook[h].HookProc)
    BY DEF FramePcs, CountedPcs, HandlerPcs
  <2> HIDE DEF p
  <2>4. FrameOf(t, d) /\ frame'[t][d].pc = p /\ frame'[t][d].hook = h
    BY <2>1, <2>2, <2>3, FrameGoto
  <2>5. CounterCounts'
    BY <2>1, <2>2, <2>3, <2>4, CountSame DEF PinInv, CountedPcs
  <2>6. \A g \in Hooks : Private(g) => frame'[t][d].hook # g
    BY <2>4 DEF PinInv, UnpublishedIsPrivate, Unknown
  <2> QED BY <1>0, <2>1, <2>2, <2>3, <2>4, <2>5, <2>6, FrameStepPins
<1>25. ASSUME NEW t \in Threads, NEW d \in Levels, NEW verdict \in BOOLEAN, BarrierIntro(t, d, verdict) PROVE PinInv'
  <2> DEFINE p == IF verdict THEN "jump" ELSE "reject"
  <2>1. frame[t][d].hook \in Hooks /\ frame[t][d].pc = "intro"
    BY <1>25, FrameHook DEF BarrierIntro, InPage, At
  <2>2. CASE dll = "unloaded"
    BY <1>25, <2>2, CrashPins DEF BarrierIntro
  <2>3. CASE dll # "unloaded"
    <3>1. Goto(t, d, p) /\ UNCHANGED <<hook, entry, fault, apiState>>
      BY <1>25, <2>3 DEF BarrierIntro
    <3>2. p \in FramePcs /\ p \in CountedPcs
      BY DEF FramePcs, CountedPcs, HandlerPcs
    <3> HIDE DEF p
    <3>3. FrameOf(t, d) /\ frame'[t][d].pc = p /\ frame'[t][d].hook = frame[t][d].hook
      BY <2>1, <3>1, <3>2, FrameGoto
    <3> QED BY <1>0, <2>1, <3>1, <3>2, <3>3, PassesOn DEF CountedPcs, HandlerPcs
  <2> QED BY <2>2, <2>3
<1>26. ASSUME NEW t \in Threads, NEW d \in Levels, JumpToHandler(t, d) PROVE PinInv'
  <2>1. frame[t][d].hook \in Hooks /\ frame[t][d].pc = "jump"
    BY <1>26, FrameHook DEF JumpToHandler, InPage, At
  <2>2. CASE Arch = "x64" /\ ~hook[frame[t][d].hook].HookProc
    BY <1>26, <2>2, CrashPins DEF JumpToHandler
  <2>3. CASE ~(Arch = "x64" /\ ~hook[frame[t][d].hook].HookProc)
    <3>1. Goto(t, d, "handler") /\ UNCHANGED <<hook, entry, fault, apiState>>
      BY <1>26, <2>3 DEF JumpToHandler
    <3>2. FrameOf(t, d) /\ frame'[t][d].pc = "handler" /\ frame'[t][d].hook = frame[t][d].hook
      BY <2>1, <3>1, FrameGoto DEF FramePcs, CountedPcs, HandlerPcs
    <3> QED BY <1>0, <2>1, <3>1, <3>2, PassesOn DEF CountedPcs, HandlerPcs
  <2> QED BY <2>2, <2>3
<1>27. ASSUME NEW t \in Threads, NEW d \in Levels, HandlerReturns(t, d) PROVE PinInv'
  <2>1. frame[t][d].hook \in Hooks /\ frame[t][d].pc = "handler"
    BY <1>27, FrameHook DEF HandlerReturns, InPage, At
  <2>2. Goto(t, d, "outro") /\ UNCHANGED <<hook, entry, fault, apiState>>
    BY <1>27 DEF HandlerReturns
  <2>3. FrameOf(t, d) /\ frame'[t][d].pc = "outro" /\ frame'[t][d].hook = frame[t][d].hook
    BY <2>1, <2>2, FrameGoto DEF FramePcs, CountedPcs, HandlerPcs
  <2> QED BY <1>0, <2>1, <2>2, <2>3, PassesOn DEF CountedPcs, HandlerPcs
<1>28. ASSUME NEW t \in Threads, NEW d \in Levels, BarrierOutro(t, d) PROVE PinInv'
  <2>1. frame[t][d].hook \in Hooks /\ frame[t][d].pc = "outro"
    BY <1>28, FrameHook DEF BarrierOutro, InPage, At
  <2>2. CASE dll = "unloaded"
    BY <1>28, <2>2, CrashPins DEF BarrierOutro
  <2>3. CASE dll # "unloaded"
    <3>1. Goto(t, d, "uncount") /\ UNCHANGED <<hook, entry, fault, apiState>>
      BY <1>28, <2>3 DEF BarrierOutro
    <3>2. FrameOf(t, d) /\ frame'[t][d].pc = "uncount" /\ frame'[t][d].hook = frame[t][d].hook
      BY <2>1, <3>1, FrameGoto DEF FramePcs, CountedPcs, HandlerPcs
    <3> QED BY <1>0, <2>1, <3>1, <3>2, PassesOn DEF CountedPcs, HandlerPcs
  <2> QED BY <2>2, <2>3
<1>29. ASSUME NEW t \in Threads, NEW d \in Levels, CountOut(t, d) PROVE PinInv'
  <2> DEFINE h == frame[t][d].hook
             r == [hook[h] EXCEPT !.IsExecuted = @ - 1]
  <2>1. h \in Hooks /\ hook[h] \in HookRecord /\ frame[t][d].pc \in {"uncount", "reject"}
    BY <1>29, FrameHook DEF CountOut, InPage, At
  <2>2. hook' = [hook EXCEPT ![h] = r] /\ UNCHANGED <<entry, fault, apiState>>
    BY <1>29 DEF CountOut
  <2>3. /\ r.page = hook[h].page /\ r.HookProc = hook[h].HookProc
        /\ r.OldProc = hook[h].OldProc /\ r.TargetBackup = hook[h].TargetBackup
        /\ r.IsExecuted = hook[h].IsExecuted - 1
    BY <2>1 DEF HookRecord
  <2> HIDE DEF r
  <2>4. hook'[h] = r /\ \A g \in Hooks \ {h} : hook'[g] = hook[g]
    BY <1>0, <2>1, <2>2
  <2>5. FrameOf(t, d) /\ frame'[t][d].pc \in {"return", "leave"} /\ frame'[t][d].hook = h
    BY <1>29, <2>1, FrameGoto DEF CountOut, FramePcs
  <2>6. CounterCounts'
    BY <2>1, <2>3, <2>4, <2>5, CountDown DEF PinInv, CountedPcs, HandlerPcs
  <2>7. \A g \in Hooks : Private(g) => frame'[t][d].hook # g
    BY <2>5 DEF PinInv, UnpublishedIsPrivate, Unknown
  <2>8. frame'[t][d].pc \notin HandlerPcs
    BY <2>5 DEF HandlerPcs
  <2>9. \A g \in Hooks : /\ hook'[g].page = hook[g].page /\ hook'[g].HookProc = hook[g].HookProc
                         /\ hook'[g].OldProc = hook[g].OldProc
                         /\ hook'[g].TargetBackup = hook[g].TargetBackup
    BY <2>3, <2>4
  <2> QED BY <1>0, <2>2, <2>5, <2>6, <2>7, <2>8, <2>9, FrameStepPins
<1>30. ASSUME NEW t \in Threads, NEW d \in Levels, LeavePage(t, d) PROVE PinInv'
  <2> DEFINE next == hook[frame[t][d].hook].OldProc
             on == [pc |-> "entered", hook |-> next]
  <2>1. next \in Hooks \cup {Original} /\ frame[t][d].pc \in {"return", "leave"}
    BY <1>30, FrameHook DEF LeavePage, InPage, At, HookRecord
  <2>2. next # Original => on \in FrameRecord /\ on.hook \in Hooks
    BY <2>1 DEF FrameRecord, FramePcs
  <2>3. /\ \/ frame' = [frame EXCEPT ![t][d] = IdleFrame]
           \/ next # Original /\ frame' = [frame EXCEPT ![t][d] = on]
        /\ UNCHANGED <<hook, entry, fault, apiState>>
    BY <1>30 DEF LeavePage
  <2>4. \A g \in Hooks : Private(g) => next # g
    BY <1>30, FrameHook DEF PinInv, UnpublishedIsPrivate, Unknown, LeavePage, InPage, At
  <2>5. on.pc = "entered" /\ on.hook = next /\ IdleFrame.pc = "idle" /\ IdleFrame.hook = NULL
    BY DEF IdleFrame
  <2> HIDE DEF on, next
  <2>6. /\ FrameOf(t, d)
        /\ frame'[t][d].pc \in {"idle", "entered"}
        /\ frame'[t][d].hook \in {NULL, next}
    <3>1. CASE frame' = [frame EXCEPT ![t][d] = IdleFrame]
      BY <2>5, <3>1, IdleTyped, FrameBecomes
    <3>2. CASE next # Original /\ frame' = [frame EXCEPT ![t][d] = on]
      BY <2>2, <2>5, <3>2, FrameBecomes
    <3> QED BY <2>3, <3>1, <3>2
  <2>7. \A g \in Hooks : Private(g) => frame'[t][d].hook # g
    BY <2>4, <2>6, Distinct
  <2>8. CounterCounts'
    BY <2>1, <2>3, <2>6, CountSame DEF PinInv, CountedPcs, HandlerPcs
  <2> QED BY <1>0, <2>3, <2>6, <2>7, <2>8, FrameStepPins DEF HandlerPcs
<1>31. ASSUME NEW t \in Threads, NEW d \in Levels, RunFreedPage(t, d) PROVE PinInv'
  BY <1>31, CrashPins DEF RunFreedPage
<1>32. CASE UNCHANGED vars
  BY <1>32 DEF vars, PinInv, UnpublishedIsPrivate, Private, Unknown, RemovedIsDisarmed,
               CounterCounts, Counted, ReleasedIsLeft, InHandler
<1> QED
  BY <1>1, <1>2, <1>3, <1>33, <1>4, <1>5, <1>6, <1>7, <1>8, <1>9, <1>10, <1>11, <1>12,
     <1>13, <1>14, <1>15, <1>16, <1>17, <1>18, <1>19, <1>22, <1>23, <1>24,
     <1>25, <1>26, <1>27, <1>28, <1>29, <1>30, <1>31, <1>32
     DEF Next, Install, Uninstall, Wait, WaitStep, Trampoline

\* The page of a handler that may run is neither unused nor freed.
LEMMA PinInvPins == TypeInv /\ PinInv => HandlerPinsHook
<1> SUFFICES ASSUME TypeInv, PinInv, NEW h \in Hooks, NEW t \in Threads, NEW d \in Levels,
                    InHandler(h, t, d), dll # "unloaded"
             PROVE  Live(h)
  BY DEF HandlerPinsHook
<1>1. hook[h].page # "unused"
  BY DEF PinInv, UnpublishedIsPrivate, Private, Unknown, InHandler
<1>2. hook[h].page # "freed"
  BY DEF PinInv, ReleasedIsLeft
<1>3. hook[h].page \in {"unused", "live", "freed"}
  BY DEF TypeInv, TypeOK, HookRecord
<1> QED BY <1>1, <1>2, <1>3 DEF Live

\* A thread behind the HookProc check of a trampoline keeps the hook's page mapped until
\* the DLL itself is gone, whatever the API's callers do meanwhile.
THEOREM HandlerPinsHookAlways == Spec => []HandlerPinsHook
<1>1. TypeInv /\ PinInv /\ [Next]_vars => (TypeInv /\ PinInv)'
  BY TypeInvStep, PinInvStep
<1>2. Init => TypeInv /\ PinInv
  BY InitTypeInv, InitPinInv
<1>3. Spec => [](TypeInv /\ PinInv)
  BY <1>1, <1>2, PTL DEF Spec
<1> QED BY <1>3, PinInvPins, PTL

----------------------------------------------------------------------------
(* A thread behind the HookProc check keeps the hook's slot, too. *)

\* A hook has its slot from its registration until a waiter gives it back.
SlotKept ==
  \A h \in Hooks :
    Live(h) /\ ~Private(h) /\ (\A t \in Threads : op[t].hook = h => op[t].pc # "free")
      => slotList[hook[h].HLSIndex] = h

LEMMA InitSlotKept == Init => SlotKept
  BY DEF Init, SlotKept, Live, BlankHook

\* A step that leaves the slots alone, keeps the hooks of an install private and of a release lost.
LEMMA SlotsStay ==
  ASSUME SlotKept, NEW t \in Threads, \A u \in Threads \ {t} : op'[u] = op[u], UNCHANGED slotList,
         \A h \in Hooks : Live(h)' =>
           \/ op'[t].hook = h /\ op'[t].pc \in PrivatePcs
           \/ Live(h) /\ hook'[h].HLSIndex = hook[h].HLSIndex,
         op[t].pc \in PrivatePcs \cup {"free"} =>
           \/ hook'[op[t].hook].page # "live"
           \/ op'[t].hook = op[t].hook /\ op'[t].pc \in PrivatePcs \cup {"free"}
  PROVE  SlotKept'
<1> SUFFICES ASSUME NEW h \in Hooks, Live(h)', ~ Private(h)',
                    \A u \in Threads : op'[u].hook = h => op'[u].pc # "free"
             PROVE  slotList[hook'[h].HLSIndex] = h
  BY DEF SlotKept
<1>1. Live(h) /\ hook'[h].HLSIndex = hook[h].HLSIndex
  BY DEF Private, Live
<1>2. \A u \in Threads : op[u].hook = h => op[u].pc \notin PrivatePcs \cup {"free"}
  BY DEF Private, Live
<1>3. ~ Private(h)
  BY <1>1, <1>2 DEF Private, Live
<1> QED
  BY <1>1, <1>2, <1>3 DEF SlotKept

\* A step of a thread in a trampoline.
LEMMA FramesKeepSlots ==
  ASSUME SlotKept, UNCHANGED <<op, slotList>>,
         \A h \in Hooks : hook'[h].page = hook[h].page /\ hook'[h].HLSIndex = hook[h].HLSIndex
  PROVE  SlotKept'
  BY DEF SlotKept, Live, Private

\* A page that is written keeps its slot, one that is unmapped is not live any more.
LEMMA FieldsKept ==
  ASSUME TypeInv, NEW h \in Hooks
  PROVE  /\ \A v \in BOOLEAN : [hook[h] EXCEPT !.HookProc = v].HLSIndex = hook[h].HLSIndex
         /\ \A v \in BOOLEAN : [hook[h] EXCEPT !.HookProc = v].page = hook[h].page
         /\ Release(h).page = "freed" /\ Release(h).HookProc = FALSE
         /\ Release(h).Tracking = hook[h].Tracking
<1>1. hook[h] \in HookRecord
  BY DEF TypeInv, TypeOK
<1> QED
  BY <1>1 DEF HookRecord, Release

\* Installing: the slot is taken when it is free, and no page but the new one is written.
LEMMA InstallKeepsSlots ==
  ASSUME TypeInv, TypeInv', PinInv, SlotKept, NEW t \in Threads, Install(t)
  PROVE  SlotKept'
<1>0. op \in [Threads -> OpRecord] /\ hook \in [Hooks -> HookRecord] /\ slotList \in [Slots -> Hooks \cup {NULL}]
  BY DEF TypeInv, TypeOK
<1> USE DEF PrivatePcs
<1>1. ASSUME NEW f \in Targets, NEW k \in Handles, NEW succeeds \in BOOLEAN, LhAllocateHook(t, f, k, succeeds)
      PROVE  SlotKept'
  <2>1. PICK h \in Hooks :
          /\ hook' = [hook EXCEPT ![h] =
                        [BlankHook EXCEPT !.page = IF succeeds THEN "live" ELSE "freed",
                                          !.TargetProc = f, !.HookProc = succeeds,
                                          !.OldProc = entry[f]]]
          /\ op' = [op EXCEPT ![t] = [pc |-> IF succeeds THEN "backup" ELSE "unwind",
                                      hook |-> h, handle |-> k, budget |-> 0]]
    BY <1>1 DEF LhAllocateHook
  <2>2. /\ \A g \in Hooks \ {h} : hook'[g] = hook[g]
        /\ \A u \in Threads \ {t} : op'[u] = op[u]
        /\ op'[t].hook = h /\ op'[t].pc \in {"backup", "unwind"}
    BY <1>0, <2>1
  <2>3. op[t].pc = "idle" /\ UNCHANGED slotList
    BY <1>1 DEF LhAllocateHook, MayCallApi
  <2> QED
    BY <2>2, <2>3, SlotsStay DEF Live
<1>2. CASE BackupEntry(t)
  <2>1. /\ op[t].pc = "backup" /\ UNCHANGED slotList
        /\ op' = [op EXCEPT ![t].pc = "register"]
        /\ hook' = [hook EXCEPT ![op[t].hook].TargetBackup = entry[hook[op[t].hook].TargetProc]]
    BY <1>2 DEF BackupEntry, AtOp
  <2>2. \A h \in Hooks : hook'[h].page = hook[h].page /\ hook'[h].HLSIndex = hook[h].HLSIndex
    BY <1>0, <2>1 DEF HookRecord
  <2>3. /\ \A u \in Threads \ {t} : op'[u] = op[u]
        /\ op'[t].hook = op[t].hook /\ op'[t].pc = "register"
    BY <2>1, OpGoto DEF OpPcs, InstallPcs
  <2> QED
    BY <2>1, <2>2, <2>3, SlotsStay DEF Live
<1>3. CASE InstallFails(t)
  <2>1. /\ op[t].pc = "register" /\ UNCHANGED <<slotList, hook>> /\ op' = [op EXCEPT ![t].pc = "unwind"]
    BY <1>3 DEF InstallFails, AtOp
  <2>2. /\ \A u \in Threads \ {t} : op'[u] = op[u]
        /\ op'[t].hook = op[t].hook /\ op'[t].pc = "unwind"
    BY <2>1, OpGoto DEF OpPcs, InstallPcs
  <2> QED
    BY <2>1, <2>2, SlotsStay DEF Live
<1>4. CASE UnwindInstall(t)
  <2>1. CASE UNCHANGED <<hook, slotList, op>>
    BY <2>1, FramesKeepSlots
  <2>2. CASE /\ hook' = [hook EXCEPT ![op[t].hook] = Release(op[t].hook)]
             /\ op' = [op EXCEPT ![t] = IdleOp] /\ UNCHANGED slotList
    <3>1. op[t].hook \in Hooks
      BY <1>4, OpHook DEF UnwindInstall, AtOp, NeedsHook, InstallPcs
    <3>2. /\ \A g \in Hooks \ {op[t].hook} : hook'[g] = hook[g]
          /\ hook'[op[t].hook].page = "freed"
          /\ \A u \in Threads \ {t} : op'[u] = op[u]
      BY <1>0, <2>2, <3>1, FieldsKept
    <3>3. \A h \in Hooks : Live(h)' => Live(h) /\ hook'[h].HLSIndex = hook[h].HLSIndex
      BY <3>1, <3>2 DEF Live
    <3>4. hook'[op[t].hook].page # "live"
      BY <3>1, <3>2 DEF Live
    <3> QED
      BY <2>2, <3>2, <3>3, <3>4, SlotsStay
  <2> QED
    BY <1>4, <2>1, <2>2 DEF UnwindInstall, Crash
<1>5. CASE RegisterSlot(t)
  <2>1. PICK i \in Slots : /\ slotList[i] = NULL
                           /\ slotList' = [slotList EXCEPT ![i] = op[t].hook]
                           /\ hook' = [hook EXCEPT ![op[t].hook].HLSIndex = i]
    BY <1>5 DEF RegisterSlot
  <2>2. op[t].pc = "register" /\ op' = [op EXCEPT ![t].pc = "patch"]
    BY <1>5 DEF RegisterSlot, AtOp
  <2>3. op[t].hook \in Hooks
    BY <2>2, OpHook DEF NeedsHook, InstallPcs
  <2>4. /\ slotList'[i] = op[t].hook /\ \A j \in Slots \ {i} : slotList'[j] = slotList[j]
        /\ hook'[op[t].hook].HLSIndex = i
        /\ \A g \in Hooks \ {op[t].hook} : hook'[g] = hook[g]
        /\ \A u \in Threads \ {t} : op'[u] = op[u]
    BY <1>0, <2>1, <2>2, <2>3 DEF HookRecord
  <2> SUFFICES ASSUME NEW h \in Hooks, h # op[t].hook, Live(h)', ~ Private(h)',
                      \A u \in Threads : op'[u].hook = h => op'[u].pc # "free"
               PROVE  slotList'[hook'[h].HLSIndex] = h
    BY <2>4 DEF SlotKept
  <2>5. Live(h) /\ ~ Private(h) /\ \A u \in Threads : op[u].hook = h => op[u].pc # "free"
    BY <2>4 DEF Live, Private
  <2>6. slotList[hook[h].HLSIndex] = h /\ hook[h].HLSIndex \in Slots
    BY <1>0, <2>5 DEF SlotKept, HookRecord
  <2> QED
    BY <2>1, <2>4, <2>6, Distinct
<1>6. CASE PatchEntry(t) \/ PublishHook(t)
  <2>1. op[t].pc \in {"patch", "publish"} /\ UNCHANGED <<slotList, hook>>
    BY <1>6 DEF PatchEntry, PublishHook, AtOp
  <2>2. \A u \in Threads \ {t} : op'[u] = op[u]
    BY <1>0, <1>6 DEF PatchEntry, PublishHook
  <2> QED
    BY <2>1, <2>2, SlotsStay DEF Live
<1>7. CASE TrackHook(t)
  <2>1. CASE UNCHANGED <<hook, slotList, op>>
    BY <2>1, FramesKeepSlots
  <2>2. CASE /\ hook' = [hook EXCEPT ![op[t].hook].Tracking = op[t].handle]
             /\ op' = [op EXCEPT ![t] = IdleOp] /\ UNCHANGED slotList
    <3>1. /\ \A h \in Hooks : hook'[h].page = hook[h].page /\ hook'[h].HLSIndex = hook[h].HLSIndex
          /\ \A u \in Threads \ {t} : op'[u] = op[u]
      BY <1>0, <2>2 DEF HookRecord
    <3>2. op[t].pc = "track"
      BY <1>7 DEF TrackHook, AtOp
    <3> QED
      BY <2>2, <3>1, <3>2, SlotsStay DEF Live
  <2> QED
    BY <1>7, <2>1, <2>2 DEF TrackHook, Crash
<1> QED
  BY <1>1, <1>2, <1>3, <1>4, <1>5, <1>6, <1>7 DEF Install

\* Uninstalling and the beginning of a wait touch no slot and unmap no page.
LEMMA UninstallKeepsSlots ==
  ASSUME TypeInv, SlotKept, NEW t \in Threads,
         Uninstall(t) \/ LhWaitForPendingRemovals(t) \/ LhCriticalFinalize(t)
  PROVE  SlotKept'
<1>0. op \in [Threads -> OpRecord] /\ hook \in [Hooks -> HookRecord]
  BY DEF TypeInv, TypeOK
<1>1. ASSUME NEW k \in Handles, LhUninstallHook(t, k) PROVE SlotKept'
  <2>1. UNCHANGED <<op, slotList>> /\ hook' = [hook EXCEPT ![link[k]].HookProc = FALSE]
    BY <1>1 DEF LhUninstallHook
  <2>2. \A h \in Hooks : hook'[h].page = hook[h].page /\ hook'[h].HLSIndex = hook[h].HLSIndex
    BY <1>0, <2>1 DEF HookRecord
  <2> QED
    BY <2>1, <2>2, FramesKeepSlots
<1>2. ASSUME NEW k \in Handles, UseDanglingHandle(t, k) PROVE SlotKept'
  BY <1>2, FramesKeepSlots DEF UseDanglingHandle, Crash
<1>3. ASSUME UninstallAll
      PROVE  \A h \in Hooks : hook'[h].page = hook[h].page /\ hook'[h].HLSIndex = hook[h].HLSIndex
  BY <1>0, <1>3, FieldsKept DEF UninstallAll
<1>4. CASE LhUninstallAllHooks(t)
  BY <1>3, <1>4, FramesKeepSlots DEF LhUninstallAllHooks
<1>5. CASE LhWaitForPendingRemovals(t)
  <2>1. op[t].pc = "idle" /\ UNCHANGED <<hook, slotList>> /\ \A u \in Threads \ {t} : op'[u] = op[u]
    BY <1>5 DEF LhWaitForPendingRemovals, MayCallApi
  <2> QED
    BY <2>1, SlotsStay DEF Live, PrivatePcs
<1>6. CASE LhCriticalFinalize(t)
  <2>1. op[t].pc = "idle" /\ UNCHANGED slotList /\ \A u \in Threads \ {t} : op'[u] = op[u]
    BY <1>6 DEF LhCriticalFinalize, MayCallApi
  <2>2. \A h \in Hooks : hook'[h].page = hook[h].page /\ hook'[h].HLSIndex = hook[h].HLSIndex
    BY <1>3, <1>6 DEF LhCriticalFinalize
  <2> QED
    BY <2>1, <2>2, SlotsStay DEF Live, PrivatePcs
<1> QED
  BY <1>1, <1>2, <1>4, <1>5, <1>6 DEF Uninstall

\* A waiter gives back the slot of its own hook only, which it is about to unmap.
LEMMA WaitKeepsSlots ==
  ASSUME TypeInv, SlotKept, NEW t \in Threads, WaitStep(t)
  PROVE  SlotKept'
<1>0. op \in [Threads -> OpRecord] /\ hook \in [Hooks -> HookRecord] /\ slotList \in [Slots -> Hooks \cup {NULL}]
  BY DEF TypeInv, TypeOK
<1> USE DEF PrivatePcs
<1>1. CASE PopRemoval(t) \/ CompareEntry(t) \/ RestoreEntry(t) \/ Drain(t)
  <2>1. /\ op[t].pc \in {"pop", "compare", "restore", "drain"} /\ UNCHANGED <<hook, slotList>>
        /\ \A u \in Threads \ {t} : op'[u] = op[u]
    BY <1>0, <1>1 DEF PopRemoval, CompareEntry, RestoreEntry, Drain, AtOp
  <2> QED
    BY <2>1, SlotsStay DEF Live
<1>2. CASE WaitReturns(t)
  <2>1. op[t].pc = "pop" /\ UNCHANGED slotList /\ \A u \in Threads \ {t} : op'[u] = op[u]
    BY <1>2 DEF WaitReturns, AtOp
  <2>2. \A h \in Hooks : hook'[h] = hook[h] \/ hook'[h].page = "freed"
    BY <1>0, <1>2, FieldsKept DEF WaitReturns
  <2> QED
    BY <2>1, <2>2, SlotsStay DEF Live
<1>3. CASE ReleaseSlot(t)
  <2> DEFINE g == op[t].hook
             i == hook[g].HLSIndex
  <2>1. /\ op[t].pc = "release" /\ op' = [op EXCEPT ![t].pc = "free"] /\ UNCHANGED hook
        /\ slotList' = [slotList EXCEPT ![i] = IF slotList[i] = g THEN NULL ELSE slotList[i]]
    BY <1>3 DEF ReleaseSlot, AtOp
  <2>2. /\ \A u \in Threads \ {t} : op'[u] = op[u]
        /\ op'[t].hook = g /\ op'[t].pc = "free"
    BY <2>1, OpGoto, WaitPositions DEF WaitPcs
  <2> SUFFICES ASSUME NEW h \in Hooks, Live(h)', ~ Private(h)',
                      \A u \in Threads : op'[u].hook = h => op'[u].pc # "free"
               PROVE  slotList'[hook'[h].HLSIndex] = h
    BY DEF SlotKept
  <2>3. h # g
    BY <2>2
  <2>4. Live(h) /\ ~ Private(h) /\ \A u \in Threads : op[u].hook = h => op[u].pc # "free"
    BY <2>1, <2>2, <2>3 DEF Live, Private
  <2>5. slotList[hook[h].HLSIndex] = h /\ hook[h].HLSIndex \in Slots
    BY <1>0, <2>4 DEF SlotKept, HookRecord
  <2> QED
    BY <1>0, <2>1, <2>3, <2>5
<1>4. CASE FreeHook(t)
  <2>1. /\ op[t].pc = "free" /\ UNCHANGED slotList
        /\ hook' = [hook EXCEPT ![op[t].hook] = Release(op[t].hook)]
        /\ \A u \in Threads \ {t} : op'[u] = op[u]
    BY <1>0, <1>4 DEF FreeHook, AtOp
  <2>2. op[t].hook \in Hooks
    BY <2>1, OpHook DEF NeedsHook, WaitPcs
  <2>3. /\ \A h \in Hooks \ {op[t].hook} : hook'[h] = hook[h]
        /\ hook'[op[t].hook].page = "freed"
    BY <1>0, <2>1, <2>2, FieldsKept
  <2>4. \A h \in Hooks : Live(h)' => Live(h) /\ hook'[h].HLSIndex = hook[h].HLSIndex
    BY <2>2, <2>3 DEF Live
  <2>5. hook'[op[t].hook].page # "live"
    BY <2>2, <2>3 DEF Live
  <2> QED
    BY <2>1, <2>4, <2>5, SlotsStay
<1> QED
  BY <1>1, <1>2, <1>3, <1>4 DEF WaitStep

\* A thread in a trampoline writes nothing but the counter.
LEMMA TrampolineWrites ==
  ASSUME TypeInv, NEW t \in Threads, NEW d \in Levels, Trampoline(t, d)
  PROVE  /\ UNCHANGED <<link, slotList, hookList, removalList, op, entry, dll, timedOut>>
         /\ \A h \in Hooks : /\ hook'[h].page = hook[h].page /\ hook'[h].HLSIndex = hook[h].HLSIndex
                             /\ hook'[h].HookProc = hook[h].HookProc /\ hook'[h].Tracking = hook[h].Tracking
                             /\ hook'[h].TargetProc = hook[h].TargetProc
                             /\ hook'[h].OldProc = hook[h].OldProc
                             /\ hook'[h].TargetBackup = hook[h].TargetBackup
<1>0. hook \in [Hooks -> HookRecord]
  BY DEF TypeInv, TypeOK
<1>1. CASE CountIn(t, d) \/ CountOut(t, d)
  <2>1. \E v \in Int : hook' = [hook EXCEPT ![frame[t][d].hook].IsExecuted = v]
    <3>1. frame[t][d].hook \in Hooks /\ hook[frame[t][d].hook] \in HookRecord
      BY <1>1, FrameHook DEF CountIn, CountOut, InPage, At
    <3>2. hook[frame[t][d].hook].IsExecuted \in Int
      BY <3>1 DEF HookRecord
    <3>3. CASE CountIn(t, d)
      <4>1. hook[frame[t][d].hook].IsExecuted + 1 \in Int
        BY <3>2
      <4>2. hook' = [hook EXCEPT ![frame[t][d].hook].IsExecuted = hook[frame[t][d].hook].IsExecuted + 1]
        BY <3>3 DEF CountIn
      <4> QED
        BY <4>1, <4>2
    <3>4. CASE CountOut(t, d)
      <4>1. hook[frame[t][d].hook].IsExecuted - 1 \in Int
        BY <3>2
      <4>2. hook' = [hook EXCEPT ![frame[t][d].hook].IsExecuted = hook[frame[t][d].hook].IsExecuted - 1]
        BY <3>4 DEF CountOut
      <4> QED
        BY <4>1, <4>2
    <3> QED
      BY <1>1, <3>3, <3>4
  <2>2. PICK v \in Int : hook' = [hook EXCEPT ![frame[t][d].hook].IsExecuted = v]
    BY <2>1
  <2>3. UNCHANGED <<link, slotList, hookList, removalList, op, entry, dll, timedOut>>
    BY <1>1 DEF CountIn, CountOut, apiState
  <2>4. ASSUME NEW h \in Hooks
        PROVE  /\ hook'[h].page = hook[h].page /\ hook'[h].HLSIndex = hook[h].HLSIndex
               /\ hook'[h].HookProc = hook[h].HookProc /\ hook'[h].Tracking = hook[h].Tracking
               /\ hook'[h].TargetProc = hook[h].TargetProc
               /\ hook'[h].OldProc = hook[h].OldProc
               /\ hook'[h].TargetBackup = hook[h].TargetBackup
    <3>1. hook'[h] \in {hook[h], [hook[h] EXCEPT !.IsExecuted = v]}
      BY <1>0, <2>2
    <3>2. hook[h] \in HookRecord
      BY <1>0
    <3> QED
      BY <3>1, <3>2 DEF HookRecord
  <2> QED
    BY <2>3, <2>4
<1>2. CASE ~ (CountIn(t, d) \/ CountOut(t, d))
  <2>1. /\ UNCHANGED <<link, slotList, hookList, removalList, op, entry, dll, timedOut>>
        /\ hook' = hook
    BY <1>2 DEF Trampoline, CallTarget, CheckHookProc, BarrierIntro, JumpToHandler, HandlerReturns,
                BarrierOutro, LeavePage, RunFreedPage, Crash, apiState
  <2> QED
    BY <2>1
<1> QED
  BY <1>1, <1>2

\* Every step keeps it.
LEMMA SlotKeptStep == TypeInv /\ PinInv /\ SlotKept /\ [Next]_vars => SlotKept'
<1> SUFFICES ASSUME TypeInv, PinInv, SlotKept, [Next]_vars PROVE SlotKept'
  OBVIOUS
<1>1. TypeInv'
  BY TypeInvStep
<1>2. ASSUME NEW t \in Threads, Install(t) PROVE SlotKept'
  BY <1>1, <1>2, InstallKeepsSlots
<1>3. ASSUME NEW t \in Threads, Uninstall(t) \/ Wait(t) PROVE SlotKept'
  BY <1>3, UninstallKeepsSlots, WaitKeepsSlots DEF Wait
<1>4. ASSUME NEW t \in Threads, NEW d \in Levels, Trampoline(t, d) PROVE SlotKept'
  BY <1>4, TrampolineWrites, FramesKeepSlots
<1>5. CASE UNCHANGED vars
  BY <1>5, FramesKeepSlots DEF vars
<1> QED
  BY <1>2, <1>3, <1>4, <1>5 DEF Next

\* LhBarrierIntro and LhBarrierOutro index their per-thread table with HLSIndex: the slot of a hook
\* is its own while any thread is behind its HookProc check, for every length of GlobalSlotList,
\* although a waiter clears the slot without the lock (uninstall.c, alloc.c).
THEOREM HandlerPinsSlotAlways == Spec => []HandlerPinsSlot
<1>1. TypeInv /\ PinInv /\ SlotKept /\ [Next]_vars => (TypeInv /\ PinInv /\ SlotKept)'
  BY TypeInvStep, PinInvStep, SlotKeptStep
<1>2. Init => TypeInv /\ PinInv /\ SlotKept
  BY InitTypeInv, InitPinInv, InitSlotKept
<1>3. Spec => [](TypeInv /\ PinInv /\ SlotKept)
  BY <1>1, <1>2, PTL DEF Spec
<1>4. TypeInv /\ PinInv /\ SlotKept => HandlerPinsSlot
  <2> SUFFICES ASSUME TypeInv, PinInv, SlotKept, NEW h \in Hooks, NEW t \in Threads, NEW d \in Levels,
                      InHandler(h, t, d), dll # "unloaded"
               PROVE  slotList[hook[h].HLSIndex] = h
    BY DEF HandlerPinsSlot
  <2>1. Live(h)
    BY PinInvPins DEF HandlerPinsHook
  <2>2. ~ Private(h)
    BY DEF PinInv, UnpublishedIsPrivate, Unknown, InHandler
  <2>3. \A u \in Threads : op[u].hook = h => op[u].pc # "free"
    BY DEF PinInv, ReleasedIsLeft, ReleasePcs
  <2> QED
    BY <2>1, <2>2, <2>3 DEF SlotKept
<1> QED
  BY <1>3, <1>4, PTL

----------------------------------------------------------------------------
(* Every armed hook can be uninstalled through its own handle. *)

\* The hook of an install is armed and has no handle yet, and no other hook has its handle.
InstallsAreApart ==
  /\ \A t \in Threads : op[t].pc \in InstallPcs =>
       /\ hook[op[t].hook].Tracking = NULL /\ link[op[t].handle] = NULL
       /\ op[t].pc # "track" => op[t].hook \notin Range(hookList)
       /\ op[t].pc \notin {"unwind", "track"} => hook[op[t].hook].HookProc
  /\ \A t, u \in Threads : t # u /\ op[t].pc \in InstallPcs /\ op[u].pc \in InstallPcs =>
       op[t].hook # op[u].hook /\ op[t].handle # op[u].handle

\* A listed hook is armed and listed once.
ListedAreArmed ==
  /\ \A h \in Range(hookList) : hook[h].HookProc
  /\ IsInjective(hookList)

\* A hook knows the handle that leads to it.
LinksAreTracked ==
  \A k \in Handles : link[k] # NULL => hook[link[k]].Tracking = k

\* When the DLL goes nothing is installed any more.
DetachedIsEmpty ==
  dll # "loaded" => hookList = <<>> /\ \A t \in Threads : op[t].pc \notin InstallPcs

HandleInv == InstallsAreApart /\ ListedAreArmed /\ LinksAreTracked /\ DetachedIsEmpty /\ ArmedHookHasHandle

\* Unlinking a hook leaves no trace of it in a list it was on once, and the others on it once.
LEMMA UnlinkOnce ==
  ASSUME NEW S, NEW s \in Seq(S), IsInjective(s), NEW h
  PROVE  IsInjective(Unlink(s, h)) /\ h \notin Range(Unlink(s, h))
<1>1. CASE h \in Range(s)
  <2> DEFINE k == CHOOSE i \in DOMAIN s : s[i] = h
             u == SubSeq(s, 1 + k, Len(s))
  <2>1. k \in 1 .. Len(s) /\ s[k] = h
    BY <1>1 DEF Range
  <2>2. Unlink(s, h) = u
    BY <1>1 DEF Unlink
  <2> HIDE DEF k
  <2>3. \A i \in 1 + k .. Len(s) : s[i] \in S
    BY <2>1
  <2>4. /\ u \in Seq(S)
        /\ Len(u) = IF 1 + k <= Len(s) THEN Len(s) - (1 + k) + 1 ELSE 0
        /\ \A i \in 1 .. Len(s) - (1 + k) + 1 : u[i] = s[1 + k + i - 1]
    BY <2>1, <2>3, SubSeqProperties
  <2> HIDE DEF u
  <2>5. \A i \in DOMAIN u : i \in Nat /\ u[i] = s[k + i] /\ k + i \in DOMAIN s /\ k + i # k
    <3>1. \A i \in DOMAIN u : i \in Nat /\ i > 0 /\ i \in 1 .. Len(s) - (1 + k) + 1
      BY <2>1, <2>4
    <3>2. \A i \in Nat : 1 + k + i - 1 = k + i
      BY <2>1
    <3>3. \A i \in DOMAIN u : u[i] = s[k + i]
      BY <2>4, <3>1, <3>2
    <3>4. \A i \in DOMAIN u : k + i \in 1 .. Len(s) /\ k + i # k
      BY <2>1, <3>1
    <3> QED
      BY <3>1, <3>3, <3>4
  <2>6. \A i, j \in DOMAIN s : s[i] = s[j] => i = j
    BY DEF IsInjective
  <2>7. ASSUME NEW i \in DOMAIN u, NEW j \in DOMAIN u, u[i] = u[j] PROVE i = j
    <3>1. k + i = k + j
      BY <2>5, <2>6, <2>7
    <3> QED
      BY <2>1, <2>5, <3>1
  <2>8. \A i \in DOMAIN u : u[i] # h
    BY <2>1, <2>5, <2>6
  <2> QED
    BY <2>2, <2>7, <2>8 DEF IsInjective, Range
<1>2. CASE h \notin Range(s)
  BY <1>2 DEF Unlink
<1> QED
  BY <1>1, <1>2

\* A hook pushed on a list it is not on is on it once.
LEMMA PushOnce ==
  ASSUME NEW S, NEW s \in Seq(S), IsInjective(s), NEW h \in S, h \notin Range(s)
  PROVE  IsInjective(<<h>> \o s)
<1> DEFINE u == <<h>> \o s
<1>1. /\ Len(u) = Len(s) + 1 /\ u \in Seq(S) /\ u[1] = h
      /\ \A i \in 1 .. Len(u) : i # 1 => u[i] = s[i - 1]
  OBVIOUS
<1> HIDE DEF u
<1>2. \A i \in DOMAIN u : i # 1 => i - 1 \in DOMAIN s /\ u[i] = s[i - 1] /\ u[i] # h
  BY <1>1 DEF Range
<1>3. \A i, j \in DOMAIN s : s[i] = s[j] => i = j
  BY DEF IsInjective
<1>4. ASSUME NEW i \in DOMAIN u, NEW j \in DOMAIN u, u[i] = u[j] PROVE i = j
  <2>1. i \in Nat /\ j \in Nat
    BY <1>1
  <2>2. CASE i = 1 \/ j = 1
    BY <1>1, <1>2, <1>4, <2>2
  <2>3. CASE i # 1 /\ j # 1
    <3>1. i - 1 = j - 1
      BY <1>2, <1>3, <1>4, <2>3
    <3> QED
      BY <2>1, <3>1
  <2> QED
    BY <2>2, <2>3
<1>5. IsInjective(u)
  BY <1>4 DEF IsInjective
<1> QED
  BY <1>5 DEF u

\* Initially there are no hooks, handles or installs.
LEMMA InitHandleInv == Init => HandleInv
<1> SUFFICES ASSUME Init PROVE HandleInv
  OBVIOUS
<1>1. InstallsAreApart /\ DetachedIsEmpty
  BY DEF Init, IdleOp, InstallPcs, InstallsAreApart, DetachedIsEmpty
<1>2. ListedAreArmed /\ LinksAreTracked
  BY DEF Init, ListedAreArmed, LinksAreTracked, Range, IsInjective
<1>3. ArmedHookHasHandle
  BY DEF Init, BlankHook, ArmedHookHasHandle
<1> QED
  BY <1>1, <1>2, <1>3 DEF HandleInv

\* A step that disarms no listed hook, and moves no install, link or list.
LEMMA OthersKeepHandles ==
  ASSUME HandleInv, UNCHANGED <<link, hookList>>, dll' # "loaded" => dll # "loaded",
         \A u \in Threads : op[u].pc \in InstallPcs \/ op'[u].pc \in InstallPcs => op'[u] = op[u],
         \A h \in Hooks :
           /\ hook'[h].Tracking = hook[h].Tracking
           /\ \/ hook'[h].HookProc = hook[h].HookProc
              \/ ~ hook'[h].HookProc /\ h \notin Range(hookList) /\ ~ InInstall(h),
         Range(hookList) \subseteq Hooks, \A k \in Handles : link[k] \in Hooks \cup {NULL},
         \A u \in Threads : op[u].pc \in InstallPcs => op[u].hook \in Hooks
  PROVE  HandleInv'
<1>1. InstallsAreApart'
  BY DEF HandleInv, InstallsAreApart, InInstall
<1>2. ListedAreArmed' /\ LinksAreTracked' /\ DetachedIsEmpty'
  BY DEF HandleInv, ListedAreArmed, LinksAreTracked, DetachedIsEmpty
<1>3. \A h \in Hooks : InInstall(h)' <=> InInstall(h)
  BY DEF InInstall
<1>4. ArmedHookHasHandle'
  BY <1>3 DEF HandleInv, ArmedHookHasHandle
<1> QED
  BY <1>1, <1>2, <1>4 DEF HandleInv

\* What the invariant speaks of has its type.
LEMMA HandlesTyped ==
  ASSUME TypeInv
  PROVE  /\ hookList \in Seq(Hooks) /\ Range(hookList) \subseteq Hooks
         /\ link \in [Handles -> Hooks \cup {NULL}] /\ hook \in [Hooks -> HookRecord]
         /\ op \in [Threads -> OpRecord]
         /\ \A u \in Threads : op[u].pc \in InstallPcs =>
              op[u].hook \in Hooks /\ op[u].handle \in Handles
         /\ NULL \notin Hooks \cup Handles
<1>1. hookList \in Seq(Hooks)
  BY DEF TypeInv, TypeOK
<1>2. Range(hookList) \subseteq Hooks
  BY <1>1 DEF Range
<1> QED
  BY <1>1, <1>2, Distinct DEF TypeInv, TypeOK, OpsHaveHooks, NeedsHook

\* Uninstalling takes a hook's handler, its handle's link and its place in the list together.
LEMMA UninstallKeepsHandles ==
  ASSUME TypeInv, HandleInv, NEW t \in Threads, NEW k \in Handles, LhUninstallHook(t, k)
  PROVE  HandleInv'
<1> DEFINE h == link[k]
<1>1. /\ link' = [link EXCEPT ![k] = NULL] /\ UNCHANGED <<op, dll>>
      /\ hook' = [hook EXCEPT ![h].HookProc = FALSE]
      /\ hookList' = Unlink(hookList, h) /\ h # NULL /\ dll = "loaded"
  BY DEF LhUninstallHook, LhIsValidHandle, MayCallApi
<1>2. /\ h \in Hooks /\ link'[k] = NULL /\ \A j \in Handles \ {k} : link'[j] = link[j]
      /\ ~ hook'[h].HookProc
      /\ \A g \in Hooks : hook'[g].Tracking = hook[g].Tracking
      /\ \A g \in Hooks \ {h} : hook'[g] = hook[g]
  BY <1>1, HandlesTyped DEF HookRecord
<1>3. /\ Range(hookList') \subseteq Range(hookList) /\ h \notin Range(hookList')
      /\ IsInjective(hookList')
  BY <1>1, HandlesTyped, UnlinkRange, UnlinkOnce DEF HandleInv, ListedAreArmed
<1>4. hook[h].Tracking = k
  BY <1>1 DEF HandleInv, LinksAreTracked
<1> HIDE DEF h
<1>5. \A u \in Threads : op[u].pc \in InstallPcs => op[u].hook \in Hooks \ {h} /\ op[u].handle \in Handles
  BY <1>4, HandlesTyped DEF HandleInv, InstallsAreApart
<1>6. InstallsAreApart'
  BY <1>1, <1>2, <1>3, <1>5 DEF HandleInv, InstallsAreApart
<1>7. ListedAreArmed'
  BY <1>2, <1>3, HandlesTyped DEF HandleInv, ListedAreArmed
<1>8. LinksAreTracked'
  BY <1>2, HandlesTyped DEF HandleInv, LinksAreTracked
<1>9. DetachedIsEmpty'
  BY <1>1 DEF DetachedIsEmpty
<1>10. ArmedHookHasHandle'
  <2> SUFFICES ASSUME NEW g \in Hooks, hook'[g].HookProc, ~ InInstall(g)'
               PROVE  hook'[g].Tracking # NULL /\ link'[hook'[g].Tracking] = g
    BY DEF ArmedHookHasHandle
  <2>1. g # h /\ hook[g].HookProc /\ ~ InInstall(g)
    BY <1>1, <1>2 DEF InInstall
  <2>2. hook[g].Tracking # NULL /\ link[hook[g].Tracking] = g /\ hook[g].Tracking \in Handles
    BY <2>1, HandlesTyped DEF HandleInv, ArmedHookHasHandle, HookRecord
  <2>3. hook[g].Tracking # k
    BY <2>1, <2>2 DEF h
  <2> QED
    BY <1>2, <2>2, <2>3
<1> QED
  BY <1>6, <1>7, <1>8, <1>9, <1>10 DEF HandleInv

\* Uninstalling all of them clears the links of the listed hooks only: those that are armed and
\* not listed keep theirs.
LEMMA UninstallAllKeepsHandles ==
  ASSUME TypeInv, HandleInv, UninstallAll,
         \A u \in Threads : op[u].pc \in InstallPcs \/ op'[u].pc \in InstallPcs => op'[u] = op[u],
         dll' # "loaded" => \A u \in Threads : op[u].pc \notin InstallPcs
  PROVE  HandleInv'
<1>1. /\ \A g \in Hooks : hook'[g].Tracking = hook[g].Tracking
      /\ \A g \in Hooks : hook'[g].HookProc => hook[g].HookProc /\ g \notin Range(hookList)
      /\ \A g \in Hooks \ Range(hookList) : hook'[g] = hook[g]
      /\ hookList' = <<>>
  BY HandlesTyped DEF UninstallAll, HookRecord
<1>2. /\ \A j \in Handles : link'[j] \in {link[j], NULL}
      /\ \A j \in Handles : link'[j] # link[j] => \E g \in Range(hookList) : hook[g].Tracking = j
  BY DEF UninstallAll
<1>3. InstallsAreApart'
  <2>1. \A u \in Threads : op'[u].pc \in InstallPcs => op[u].pc \in InstallPcs /\ op'[u] = op[u]
    OBVIOUS
  <2>2. Range(hookList') = {}
    BY <1>1 DEF Range
  <2> QED
    BY <1>1, <1>2, <2>1, <2>2, HandlesTyped DEF HandleInv, InstallsAreApart
<1>4. ListedAreArmed'
  BY <1>1 DEF ListedAreArmed, Range, IsInjective
<1>5. LinksAreTracked'
  BY <1>1, <1>2, HandlesTyped DEF HandleInv, LinksAreTracked
<1>6. DetachedIsEmpty'
  BY <1>1 DEF DetachedIsEmpty
<1>7. ArmedHookHasHandle'
  <2> SUFFICES ASSUME NEW g \in Hooks, hook'[g].HookProc, ~ InInstall(g)'
               PROVE  hook'[g].Tracking # NULL /\ link'[hook'[g].Tracking] = g
    BY DEF ArmedHookHasHandle
  <2>1. hook[g].HookProc /\ ~ InInstall(g) /\ g \notin Range(hookList)
    BY <1>1 DEF InInstall
  <2>2. hook[g].Tracking # NULL /\ link[hook[g].Tracking] = g /\ hook[g].Tracking \in Handles
    BY <2>1, HandlesTyped DEF HandleInv, ArmedHookHasHandle, HookRecord
  <2>3. ASSUME NEW f \in Range(hookList), hook[f].Tracking = hook[g].Tracking PROVE FALSE
    <3>1. f \in Hooks /\ hook[f].HookProc
      BY HandlesTyped DEF HandleInv, ListedAreArmed
    <3>2. ~ InInstall(f)
      BY <2>2, <2>3 DEF HandleInv, InstallsAreApart, InInstall
    <3>3. link[hook[f].Tracking] = f
      BY <3>1, <3>2 DEF HandleInv, ArmedHookHasHandle
    <3> QED
      BY <2>1, <2>2, <2>3, <3>3
  <2> QED
    BY <1>1, <1>2, <2>2, <2>3
<1> QED
  BY <1>3, <1>4, <1>5, <1>6, <1>7 DEF HandleInv

\* A waiter works on hooks that were disarmed before; the 32-bit DLL unmaps the rest when it goes.
LEMMA WaitKeepsHandles ==
  ASSUME TypeInv, PinInv, HandleInv, NEW t \in Threads, WaitStep(t) \/ LhWaitForPendingRemovals(t)
  PROVE  HandleInv'
<1>0. \A u \in Threads : op[u].pc \in WaitPcs \cup {"idle"} => op[u].pc \notin InstallPcs
  BY DEF WaitPcs, InstallPcs
<1>1. CASE LhWaitForPendingRemovals(t)
  <2>1. /\ op[t].pc = "idle" /\ op'[t].pc = "pop" /\ \A u \in Threads \ {t} : op'[u] = op[u]
        /\ UNCHANGED <<hook, link, hookList, dll>>
    BY <1>1, HandlesTyped DEF LhWaitForPendingRemovals, MayCallApi, WaitOp
  <2> QED
    BY <2>1, HandlesTyped, OthersKeepHandles DEF InstallPcs
<1>2. CASE PopRemoval(t) \/ CompareEntry(t) \/ RestoreEntry(t) \/ Drain(t) \/ ReleaseSlot(t)
  <2>1. /\ op[t].pc \in {"pop", "compare", "restore", "drain", "release"}
        /\ \A u \in Threads \ {t} : op'[u] = op[u]
        /\ UNCHANGED <<hook, link, hookList, dll>>
    BY <1>2, HandlesTyped DEF PopRemoval, CompareEntry, RestoreEntry, Drain, ReleaseSlot, AtOp
  <2>2. op'[t].pc \in WaitPcs
    <3>1. CASE PopRemoval(t)
      BY <3>1, HandlesTyped DEF PopRemoval, OpRecord, WaitPcs
    <3>2. CASE CompareEntry(t)
      BY <3>2, HandlesTyped DEF CompareEntry, OpRecord, WaitPcs
    <3>3. CASE RestoreEntry(t)
      BY <3>3, HandlesTyped DEF RestoreEntry, OpRecord, WaitPcs
    <3>4. CASE Drain(t)
      BY <3>4, HandlesTyped DEF Drain, OpRecord, WaitPcs, AtOp
    <3>5. CASE ReleaseSlot(t)
      BY <3>5, HandlesTyped DEF ReleaseSlot, OpRecord, WaitPcs
    <3> QED
      BY <1>2, <3>1, <3>2, <3>3, <3>4, <3>5
  <2> QED
    BY <2>1, <2>2, HandlesTyped, OthersKeepHandles DEF InstallPcs, WaitPcs
<1>3. CASE WaitReturns(t)
  <2>1. /\ op[t].pc = "pop" /\ op'[t].pc = "idle" /\ \A u \in Threads \ {t} : op'[u] = op[u]
        /\ UNCHANGED <<link, hookList>>
        /\ dll' # "loaded" => dll # "loaded"
        /\ dll = "loaded" => UNCHANGED hook
    BY <1>3, HandlesTyped DEF WaitReturns, AtOp, IdleOp
  <2>2. \A h \in Hooks : /\ hook'[h].Tracking = hook[h].Tracking
                         /\ hook'[h].HookProc = hook[h].HookProc \/ ~ hook'[h].HookProc
    <3>1. \A h \in Hooks : hook'[h] \in {hook[h], Release(h)}
      BY <1>3, HandlesTyped DEF WaitReturns
    <3> QED
      BY <3>1, FieldsKept
  <2>3. dll # "loaded" => \A h \in Hooks : h \notin Range(hookList) /\ ~ InInstall(h)
    BY DEF HandleInv, DetachedIsEmpty, InInstall, Range
  <2> QED
    BY <2>1, <2>2, <2>3, HandlesTyped, OthersKeepHandles DEF InstallPcs
<1>4. CASE FreeHook(t)
  <2>1. /\ op[t].pc = "free" /\ op'[t].pc = "pop" /\ \A u \in Threads \ {t} : op'[u] = op[u]
        /\ UNCHANGED <<link, hookList, dll>>
        /\ hook' = [hook EXCEPT ![op[t].hook] = Release(op[t].hook)]
    BY <1>4, HandlesTyped DEF FreeHook, AtOp, OpRecord
  <2>2. op[t].hook \in Hooks /\ ~ hook[op[t].hook].HookProc
    BY <2>1, OpHook DEF NeedsHook, WaitPcs, PinInv, RemovedIsDisarmed
  <2>3. \A h \in Hooks : hook'[h].Tracking = hook[h].Tracking /\ hook'[h].HookProc = hook[h].HookProc
    <3>1. /\ hook'[op[t].hook] = Release(op[t].hook)
          /\ \A h \in Hooks : h # op[t].hook => hook'[h] = hook[h]
      BY <2>1, <2>2, HandlesTyped
    <3>2. hook[op[t].hook].HookProc = FALSE
      BY <2>2, HandlesTyped DEF HookRecord
    <3> QED
      BY ZenonT(60), <2>2, <3>1, <3>2, FieldsKept
  <2> QED
    BY <2>1, <2>3, HandlesTyped, OthersKeepHandles DEF InstallPcs
<1> QED
  BY <1>1, <1>2, <1>3, <1>4 DEF WaitStep

\* An install goes on with the hook and the handle it began with.
LEMMA InstallAdvances ==
  ASSUME TypeInv, HandleInv, NEW t \in Threads,
         op[t].pc \in InstallPcs \ {"unwind", "track"}, op'[t].pc \in InstallPcs \ {"track"},
         op'[t].hook = op[t].hook, op'[t].handle = op[t].handle,
         \A u \in Threads \ {t} : op'[u] = op[u], UNCHANGED <<link, hookList, dll>>,
         \A h \in Hooks : hook'[h].Tracking = hook[h].Tracking /\ hook'[h].HookProc = hook[h].HookProc
  PROVE  HandleInv'
<1>1. \A u \in Threads : /\ op'[u].hook = op[u].hook /\ op'[u].handle = op[u].handle
                         /\ op'[u].pc \in InstallPcs <=> op[u].pc \in InstallPcs
                         /\ op'[u].pc \in InstallPcs /\ op'[u].pc \notin {"unwind", "track"} =>
                              op[u].pc \notin {"unwind", "track"}
                         /\ op'[u].pc = "track" <=> op[u].pc = "track"
  OBVIOUS
<1>2. InstallsAreApart'
  <2>1. \A u \in Threads : op[u].pc \in InstallPcs => op[u].hook \in Hooks
    BY HandlesTyped
  <2>2. \A u \in Threads : op'[u].pc \in InstallPcs =>
          /\ hook'[op'[u].hook].Tracking = NULL /\ link'[op'[u].handle] = NULL
          /\ op'[u].pc # "track" => op'[u].hook \notin Range(hookList')
          /\ op'[u].pc \notin {"unwind", "track"} => hook'[op'[u].hook].HookProc
    BY <1>1, <2>1 DEF HandleInv, InstallsAreApart
  <2>3. \A u, v \in Threads : u # v /\ op'[u].pc \in InstallPcs /\ op'[v].pc \in InstallPcs =>
          op'[u].hook # op'[v].hook /\ op'[u].handle # op'[v].handle
    BY <1>1 DEF HandleInv, InstallsAreApart
  <2> QED
    BY <2>2, <2>3 DEF InstallsAreApart
<1>3. ListedAreArmed' /\ LinksAreTracked' /\ DetachedIsEmpty'
  BY <1>1, HandlesTyped DEF HandleInv, ListedAreArmed, LinksAreTracked, DetachedIsEmpty
<1>4. ArmedHookHasHandle'
  BY <1>1 DEF HandleInv, ArmedHookHasHandle, InInstall
<1> QED
  BY <1>2, <1>3, <1>4 DEF HandleInv

\* The new hook is known to nobody, and its handle is in no other use.
LEMMA AllocateKeepsHandles ==
  ASSUME TypeInv, PinInv, HandleInv, NEW t \in Threads, NEW f \in Targets, NEW k \in Handles,
         NEW succeeds \in BOOLEAN, LhAllocateHook(t, f, k, succeeds)
  PROVE  HandleInv'
<1>1. PICK h \in Hooks :
        /\ hook[h].page = "unused"
        /\ hook' = [hook EXCEPT ![h] =
                      [BlankHook EXCEPT !.page = IF succeeds THEN "live" ELSE "freed",
                                        !.TargetProc = f, !.HookProc = succeeds,
                                        !.OldProc = entry[f]]]
        /\ op' = [op EXCEPT ![t] = [pc |-> IF succeeds THEN "backup" ELSE "unwind",
                                    hook |-> h, handle |-> k, budget |-> 0]]
  BY DEF LhAllocateHook
<1>2. /\ \A g \in Hooks \ {h} : hook'[g] = hook[g]
      /\ hook'[h].Tracking = NULL /\ hook'[h].HookProc = succeeds
      /\ \A u \in Threads \ {t} : op'[u] = op[u]
      /\ op'[t].hook = h /\ op'[t].handle = k
      /\ op'[t].pc = IF succeeds THEN "backup" ELSE "unwind"
  BY <1>1, HandlesTyped DEF BlankHook
<1>3. /\ op[t].pc = "idle" /\ dll = "loaded" /\ link[k] = NULL
      /\ \A u \in Threads : op[u].handle # k
      /\ UNCHANGED <<link, hookList, dll>>
  BY DEF LhAllocateHook, MayCallApi
<1>4. /\ h \notin Range(hookList) /\ \A j \in Handles : link[j] # h
      /\ \A u \in Threads : op[u].hook # h
  BY <1>1 DEF PinInv, UnpublishedIsPrivate, Private, Unknown
<1>5. InstallsAreApart'
  <2>1. \A u \in Threads \ {t} : op'[u].pc \in InstallPcs => op[u].pc \in InstallPcs
                                   /\ op[u].hook \in Hooks \ {h} /\ op[u].handle # k
    BY <1>2, <1>3, <1>4, HandlesTyped
  <2> QED
    BY <1>2, <1>3, <1>4, <2>1 DEF HandleInv, InstallsAreApart
<1>6. ListedAreArmed' /\ LinksAreTracked' /\ DetachedIsEmpty'
  BY <1>2, <1>3, <1>4, HandlesTyped DEF HandleInv, ListedAreArmed, LinksAreTracked, DetachedIsEmpty
<1>7. ArmedHookHasHandle'
  <2> SUFFICES ASSUME NEW g \in Hooks, hook'[g].HookProc, ~ InInstall(g)'
               PROVE  hook'[g].Tracking # NULL /\ link'[hook'[g].Tracking] = g
    BY DEF ArmedHookHasHandle
  <2>1. g # h
    BY <1>2 DEF InInstall, InstallPcs
  <2>2. ~ InInstall(g)
    BY <1>2, <1>3, <2>1 DEF InInstall, InstallPcs
  <2> QED
    BY <1>2, <1>3, <2>1, <2>2 DEF HandleInv, ArmedHookHasHandle
<1> QED
  BY <1>5, <1>6, <1>7 DEF HandleInv

\* The install that fails unmaps a hook that was never listed.
LEMMA UnwindKeepsHandles ==
  ASSUME TypeInv, HandleInv, NEW t \in Threads, op[t].pc = "unwind",
         hook' = [hook EXCEPT ![op[t].hook] = Release(op[t].hook)],
         op' = [op EXCEPT ![t] = IdleOp], UNCHANGED <<link, hookList, dll>>
  PROVE  HandleInv'
<1> DEFINE h == op[t].hook
<1>1. h \in Hooks /\ h \notin Range(hookList) /\ hook[h].Tracking = NULL
  BY HandlesTyped DEF HandleInv, InstallsAreApart, InstallPcs
<1>2. /\ \A g \in Hooks \ {h} : hook'[g] = hook[g]
      /\ ~ hook'[h].HookProc /\ hook'[h].Tracking = NULL
      /\ \A u \in Threads \ {t} : op'[u] = op[u]
      /\ op'[t].pc = "idle"
  BY <1>1, HandlesTyped DEF Release, HookRecord, IdleOp
<1>3. \A u \in Threads \ {t} : op[u].pc \in InstallPcs => op[u].hook # h
  BY DEF HandleInv, InstallsAreApart, InstallPcs
<1> HIDE DEF h
<1>4. InstallsAreApart'
  BY <1>2, <1>3, HandlesTyped DEF HandleInv, InstallsAreApart, InstallPcs
<1>5. ListedAreArmed' /\ LinksAreTracked' /\ DetachedIsEmpty'
  BY <1>1, <1>2, HandlesTyped DEF HandleInv, ListedAreArmed, LinksAreTracked, DetachedIsEmpty, InstallPcs
<1>6. ArmedHookHasHandle'
  <2>1. \A g \in Hooks \ {h} : InInstall(g) => InInstall(g)'
    BY <1>2 DEF InInstall, h
  <2> QED
    BY <1>2, <2>1 DEF HandleInv, ArmedHookHasHandle
<1> QED
  BY <1>4, <1>5, <1>6 DEF HandleInv

\* A hook is pushed on the list while it is armed, and by its own install only.
LEMMA PublishKeepsHandles ==
  ASSUME TypeInv, HandleInv, NEW t \in Threads, PublishHook(t)
  PROVE  HandleInv'
<1> DEFINE h == op[t].hook
<1>1. /\ op[t].pc = "publish" /\ hookList' = <<h>> \o hookList
      /\ op' = [op EXCEPT ![t].pc = "track"] /\ UNCHANGED <<hook, link, dll>>
  BY DEF PublishHook, AtOp
<1>2. /\ \A u \in Threads : op'[u].hook = op[u].hook /\ op'[u].handle = op[u].handle
      /\ \A u \in Threads \ {t} : op'[u] = op[u]
      /\ op'[t].pc = "track"
  BY <1>1, OpGoto DEF OpPcs, InstallPcs
<1>3. h \in Hooks /\ h \notin Range(hookList) /\ hook[h].HookProc
  BY <1>1, HandlesTyped DEF HandleInv, InstallsAreApart, InstallPcs
<1>4. Range(hookList') = {h} \cup Range(hookList) /\ IsInjective(hookList')
  BY <1>1, <1>3, HandlesTyped, PushRange, PushOnce DEF HandleInv, ListedAreArmed
<1>5. \A u \in Threads \ {t} : op[u].pc \in InstallPcs => op[u].hook # h
  BY <1>1 DEF HandleInv, InstallsAreApart, InstallPcs
<1> HIDE DEF h
<1>6. \A u \in Threads : op'[u].pc \in InstallPcs <=> op[u].pc \in InstallPcs
  BY <1>1, <1>2 DEF InstallPcs
<1>7. InstallsAreApart'
  BY <1>1, <1>2, <1>4, <1>5, <1>6 DEF HandleInv, InstallsAreApart
<1>8. ListedAreArmed' /\ LinksAreTracked'
  BY <1>1, <1>3, <1>4 DEF HandleInv, ListedAreArmed, LinksAreTracked
<1>9. DetachedIsEmpty'
  BY <1>1 DEF HandleInv, DetachedIsEmpty, InstallPcs
<1>10. ArmedHookHasHandle'
  BY <1>1, <1>2, <1>6 DEF HandleInv, ArmedHookHasHandle, InInstall
<1> QED
  BY <1>7, <1>8, <1>9, <1>10 DEF HandleInv

\* At the end the hook and its handle know each other.
LEMMA TrackKeepsHandles ==
  ASSUME TypeInv, HandleInv, NEW t \in Threads, op[t].pc = "track",
         hook' = [hook EXCEPT ![op[t].hook].Tracking = op[t].handle],
         link' = [link EXCEPT ![op[t].handle] = op[t].hook],
         op' = [op EXCEPT ![t] = IdleOp], UNCHANGED <<hookList, dll>>
  PROVE  HandleInv'
<1> DEFINE h == op[t].hook
           k == op[t].handle
<1>1. h \in Hooks /\ k \in Handles /\ hook[h].Tracking = NULL /\ link[k] = NULL
  BY HandlesTyped DEF HandleInv, InstallsAreApart, InstallPcs
<1>2. /\ \A g \in Hooks \ {h} : hook'[g] = hook[g]
      /\ hook'[h].HookProc = hook[h].HookProc /\ hook'[h].Tracking = k
      /\ link'[k] = h /\ \A j \in Handles \ {k} : link'[j] = link[j]
      /\ \A u \in Threads \ {t} : op'[u] = op[u]
      /\ op'[t].pc = "idle"
  BY <1>1, HandlesTyped DEF HookRecord, IdleOp
<1>3. \A u \in Threads \ {t} : op[u].pc \in InstallPcs => op[u].hook # h /\ op[u].handle # k
  BY DEF HandleInv, InstallsAreApart, InstallPcs
<1>4. \A j \in Handles : link[j] # h
  BY <1>1, HandlesTyped DEF HandleInv, LinksAreTracked
<1> HIDE DEF h, k
<1>5. InstallsAreApart'
  BY <1>2, <1>3, HandlesTyped DEF HandleInv, InstallsAreApart, InstallPcs
<1>6. ListedAreArmed' /\ LinksAreTracked' /\ DetachedIsEmpty'
  <2>1. LinksAreTracked'
    <3>1. \A j \in Handles \ {k} : link'[j] # NULL => link'[j] \in Hooks \ {h} /\ hook[link'[j]].Tracking = j
      BY <1>2, <1>4, HandlesTyped DEF HandleInv, LinksAreTracked
    <3>2. \A j \in Handles \ {k} : link'[j] # NULL => hook'[link'[j]].Tracking = j
      BY ZenonT(60), <1>2, <3>1
    <3> QED
      BY <1>2, <3>2 DEF LinksAreTracked
  <2>2. ListedAreArmed'
    BY <1>2, HandlesTyped DEF HandleInv, ListedAreArmed
  <2>3. DetachedIsEmpty'
    BY <1>2 DEF HandleInv, DetachedIsEmpty, InstallPcs
  <2> QED
    BY <2>1, <2>2, <2>3
<1>7. ArmedHookHasHandle'
  <2> SUFFICES ASSUME NEW g \in Hooks, hook'[g].HookProc, ~ InInstall(g)', g # h
               PROVE  hook'[g].Tracking # NULL /\ link'[hook'[g].Tracking] = g
    BY <1>1, <1>2, HandlesTyped DEF ArmedHookHasHandle
  <2>1. hook[g].HookProc /\ ~ InInstall(g)
    BY <1>2 DEF InInstall, h
  <2>2. hook[g].Tracking # NULL /\ link[hook[g].Tracking] = g /\ hook[g].Tracking \in Handles
    BY <2>1, HandlesTyped DEF HandleInv, ArmedHookHasHandle, HookRecord
  <2>3. hook[g].Tracking # k
    BY <1>1, <2>2, HandlesTyped
  <2>4. hook'[g] = hook[g] /\ link'[hook[g].Tracking] = link[hook[g].Tracking]
    BY <1>2, <2>2, <2>3
  <2> QED
    BY <2>2, <2>4
<1> QED
  BY <1>5, <1>6, <1>7 DEF HandleInv

\* Every step of an install keeps it.
LEMMA InstallKeepsHandles ==
  ASSUME TypeInv, PinInv, HandleInv, NEW t \in Threads, Install(t)
  PROVE  HandleInv'
<1>1. CASE BackupEntry(t)
  <2>1. /\ op[t].pc = "backup" /\ op' = [op EXCEPT ![t].pc = "register"]
        /\ hook' = [hook EXCEPT ![op[t].hook].TargetBackup = entry[hook[op[t].hook].TargetProc]]
        /\ UNCHANGED <<link, hookList, dll>>
    BY <1>1 DEF BackupEntry, AtOp
  <2>2. \A h \in Hooks : hook'[h].Tracking = hook[h].Tracking /\ hook'[h].HookProc = hook[h].HookProc
    BY <2>1, HandlesTyped DEF HookRecord
  <2>3. /\ op'[t].pc = "register" /\ op'[t].hook = op[t].hook /\ op'[t].handle = op[t].handle
        /\ \A u \in Threads \ {t} : op'[u] = op[u]
    BY <2>1, OpGoto DEF OpPcs, InstallPcs
  <2> QED
    BY <2>1, <2>2, <2>3, InstallAdvances DEF InstallPcs
<1>2. CASE InstallFails(t)
  <2>1. /\ op[t].pc = "register" /\ op' = [op EXCEPT ![t].pc = "unwind"]
        /\ UNCHANGED <<hook, link, hookList, dll>>
    BY <1>2 DEF InstallFails, AtOp
  <2>2. /\ op'[t].pc = "unwind" /\ op'[t].hook = op[t].hook /\ op'[t].handle = op[t].handle
        /\ \A u \in Threads \ {t} : op'[u] = op[u]
    BY <2>1, OpGoto DEF OpPcs, InstallPcs
  <2> QED
    BY <2>1, <2>2, InstallAdvances DEF InstallPcs
<1>3. CASE RegisterSlot(t)
  <2>1. PICK i \in Slots : hook' = [hook EXCEPT ![op[t].hook].HLSIndex = i]
    BY <1>3 DEF RegisterSlot
  <2>2. /\ op[t].pc = "register" /\ op' = [op EXCEPT ![t].pc = "patch"]
        /\ UNCHANGED <<link, hookList, dll>>
    BY <1>3 DEF RegisterSlot, AtOp
  <2>3. \A h \in Hooks : hook'[h].Tracking = hook[h].Tracking /\ hook'[h].HookProc = hook[h].HookProc
    BY <2>1, HandlesTyped DEF HookRecord
  <2>4. /\ op'[t].pc = "patch" /\ op'[t].hook = op[t].hook /\ op'[t].handle = op[t].handle
        /\ \A u \in Threads \ {t} : op'[u] = op[u]
    BY <2>2, OpGoto DEF OpPcs, InstallPcs
  <2> QED
    BY <2>2, <2>3, <2>4, InstallAdvances DEF InstallPcs
<1>4. CASE PatchEntry(t)
  <2>1. /\ op[t].pc = "patch" /\ op' = [op EXCEPT ![t].pc = "publish"]
        /\ UNCHANGED <<hook, link, hookList, dll>>
    BY <1>4 DEF PatchEntry, AtOp
  <2>2. /\ op'[t].pc = "publish" /\ op'[t].hook = op[t].hook /\ op'[t].handle = op[t].handle
        /\ \A u \in Threads \ {t} : op'[u] = op[u]
    BY <2>1, OpGoto DEF OpPcs, InstallPcs
  <2> QED
    BY <2>1, <2>2, InstallAdvances DEF InstallPcs
<1>5. CASE UnwindInstall(t) \/ TrackHook(t)
  <2>1. ASSUME UNCHANGED <<hook, link, hookList, op, dll>> PROVE HandleInv'
    BY <2>1, HandlesTyped, OthersKeepHandles
  <2> QED
    BY <1>5, <2>1, UnwindKeepsHandles, TrackKeepsHandles DEF UnwindInstall, TrackHook, Crash, AtOp
<1>6. CASE \E f \in Targets, k \in Handles, succeeds \in BOOLEAN : LhAllocateHook(t, f, k, succeeds)
  BY <1>6, AllocateKeepsHandles
<1> QED
  BY <1>1, <1>2, <1>3, <1>4, <1>5, <1>6, PublishKeepsHandles DEF Install

\* Every step keeps it.
LEMMA HandleInvStep == TypeInv /\ PinInv /\ HandleInv /\ [Next]_vars => HandleInv'
<1> SUFFICES ASSUME TypeInv, PinInv, HandleInv, [Next]_vars PROVE HandleInv'
  OBVIOUS
<1>1. ASSUME NEW t \in Threads, Install(t) PROVE HandleInv'
  BY <1>1, InstallKeepsHandles
<1>2. ASSUME NEW t \in Threads, Uninstall(t) PROVE HandleInv'
  <2>1. ASSUME NEW k \in Handles, LhUninstallHook(t, k) PROVE HandleInv'
    BY <2>1, UninstallKeepsHandles
  <2>2. ASSUME NEW k \in Handles, UseDanglingHandle(t, k) PROVE HandleInv'
    BY <2>2, HandlesTyped, OthersKeepHandles DEF UseDanglingHandle, Crash
  <2>3. CASE LhUninstallAllHooks(t)
    BY <2>3, UninstallAllKeepsHandles DEF LhUninstallAllHooks, MayCallApi
  <2> QED
    BY <1>2, <2>1, <2>2, <2>3 DEF Uninstall
<1>3. ASSUME NEW t \in Threads, Wait(t) PROVE HandleInv'
  <2>1. CASE LhCriticalFinalize(t)
    <3>1. /\ UninstallAll /\ \A u \in Threads : op[u].pc = "idle"
          /\ \A u \in Threads : op'[u].pc \in {"idle", "pop"}
      BY <2>1, HandlesTyped DEF LhCriticalFinalize, WaitOp
    <3> QED
      BY <3>1, UninstallAllKeepsHandles DEF InstallPcs
  <2> QED
    BY <1>3, <2>1, WaitKeepsHandles DEF Wait
<1>4. ASSUME NEW t \in Threads, NEW d \in Levels, Trampoline(t, d) PROVE HandleInv'
  BY <1>4, TrampolineWrites, HandlesTyped, OthersKeepHandles
<1>5. CASE UNCHANGED vars
  BY <1>5, HandlesTyped, OthersKeepHandles DEF vars
<1> QED
  BY <1>1, <1>2, <1>3, <1>4, <1>5 DEF Next

\* Every armed hook can be uninstalled by hand: whatever removals cut out of the global list
\* (uninstall.c never advances Prev), its own handle still leads to it.
THEOREM ArmedHookHasHandleAlways == Spec => []ArmedHookHasHandle
<1>1. TypeInv /\ PinInv /\ HandleInv /\ [Next]_vars => (TypeInv /\ PinInv /\ HandleInv)'
  BY TypeInvStep, PinInvStep, HandleInvStep
<1>2. Init => TypeInv /\ PinInv /\ HandleInv
  BY InitTypeInv, InitPinInv, InitHandleInv
<1>3. HandleInv => ArmedHookHasHandle
  BY DEF HandleInv
<1> QED
  BY <1>1, <1>2, <1>3, PTL DEF Spec

----------------------------------------------------------------------------
(* One control thread: pages are unmapped when nothing leads to them. *)

\* Two threads that install and remove at once may interfere between the unlocked read of an entry
\* point and its patch; the rest is about programs that use the API from one thread.
OneController == \A c, d \in Controllers : c = d

\* The calls of the API follow one another; a call that works on no hook names none.
CallsAreSequential ==
  /\ \A t \in Threads : op[t].pc # "idle" => t \in Controllers
  /\ \A t \in Threads : op[t].pc \in {"idle", "pop"} => op[t].hook = NULL

\* Only a mapped page has a handler; a hook is armed until its install is over ...
ArmedAreLive ==
  /\ \A h \in Hooks : hook[h].HookProc => Live(h)
  /\ \A t \in Threads : op[t].pc = "track" => hook[op[t].hook].HookProc

\* ... and as long as a handle leads to it.
LinkedAreArmed ==
  dll # "unloaded" => \A k \in Handles : link[k] # NULL => hook[link[k]].HookProc

WorkPcs == WaitPcs \ {"pop"}

\* A removed hook is mapped, and listed for removal once: not again while a waiter works on it.
RemovedAreLive ==
  /\ \A h \in Range(removalList) : Live(h)
  /\ IsInjective(removalList)
  /\ \A t \in Threads : op[t].pc \in WorkPcs =>
       Live(op[t].hook) /\ op[t].hook \notin Range(removalList)

SequenceInv == CallsAreSequential /\ ArmedAreLive /\ LinkedAreArmed /\ RemovedAreLive

\* What the invariants speak of has its type.
LEMMA CoreTyped ==
  ASSUME TypeInv
  PROVE  /\ hook \in [Hooks -> HookRecord] /\ op \in [Threads -> OpRecord]
         /\ entry \in [Targets -> Hooks \cup {Original}]
         /\ link \in [Handles -> Hooks \cup {NULL}]
         /\ hookList \in Seq(Hooks) /\ Range(hookList) \subseteq Hooks
         /\ removalList \in Seq(Hooks) /\ Range(removalList) \subseteq Hooks
         /\ timedOut \subseteq Hooks
         /\ \A t \in Threads : op[t].pc \in InstallPcs \cup WorkPcs => op[t].hook \in Hooks
         /\ \A t \in Threads : op[t].pc \in InstallPcs =>
              op[t].handle \in Handles /\ hook[op[t].hook].TargetProc \in Targets
         /\ Original \notin Hooks /\ NULL \notin Hooks /\ NULL \notin Handles
<1>1. removalList \in Seq(Hooks) /\ hookList \in Seq(Hooks)
  BY DEF TypeInv, TypeOK
<1>2. Range(removalList) \subseteq Hooks /\ Range(hookList) \subseteq Hooks
  BY <1>1 DEF Range
<1> QED
  BY <1>1, <1>2, Distinct DEF TypeInv, TypeOK, OpsHaveHooks, NeedsHook, WorkPcs

\* Beside a control thread everybody is outside of the API.
LEMMA OthersIdle ==
  ASSUME OneController, CallsAreSequential, NEW t \in Threads, t \in Controllers \/ op[t].pc # "idle"
  PROVE  t \in Controllers /\ \A u \in Threads \ {t} : op[u].pc = "idle" /\ op[u].hook = NULL
<1>1. t \in Controllers
  BY DEF CallsAreSequential
<1>2. \A u \in Threads \ {t} : op[u].pc = "idle"
  BY <1>1 DEF CallsAreSequential, OneController
<1> QED
  BY <1>1, <1>2 DEF CallsAreSequential

\* A step that maps, arms, links and lists nothing, and unmaps nothing either.
LEMMA SequenceStays ==
  ASSUME TypeInv, SequenceInv, NEW t \in Threads, \A u \in Threads \ {t} : op'[u] = op[u],
         UNCHANGED <<link, removalList, dll>>,
         \A h \in Hooks : hook'[h].page = hook[h].page /\ hook'[h].HookProc = hook[h].HookProc,
         op'[t].pc # "idle" => t \in Controllers,
         op'[t].pc \in {"idle", "pop"} => op'[t].hook = NULL,
         op'[t].pc = "track" => op'[t].hook \in Hooks /\ hook[op'[t].hook].HookProc,
         op'[t].pc \in WorkPcs => op[t].pc \in WorkPcs /\ op'[t].hook = op[t].hook
  PROVE  SequenceInv'
<1>1. CallsAreSequential'
  BY DEF SequenceInv, CallsAreSequential
<1>2. ArmedAreLive'
  BY CoreTyped DEF SequenceInv, ArmedAreLive, Live, InstallPcs
<1>3. LinkedAreArmed'
  BY CoreTyped DEF SequenceInv, LinkedAreArmed
<1>4. RemovedAreLive'
  <2>1. \A h \in Range(removalList) : hook'[h].page = "live"
    BY CoreTyped DEF SequenceInv, RemovedAreLive, Live
  <2>2. ASSUME NEW u \in Threads, op'[u].pc \in WorkPcs
        PROVE  hook'[op'[u].hook].page = "live" /\ op'[u].hook \notin Range(removalList)
    <3>1. op[u].pc \in WorkPcs /\ op'[u].hook = op[u].hook
      BY <2>2
    <3>2. op[u].hook \in Hooks /\ Live(op[u].hook) /\ op[u].hook \notin Range(removalList)
      BY <3>1, CoreTyped DEF SequenceInv, RemovedAreLive
    <3> QED
      BY <3>1, <3>2 DEF Live
  <2> QED
    BY <2>1, <2>2 DEF SequenceInv, RemovedAreLive, Live
<1> QED
  BY <1>1, <1>2, <1>3, <1>4 DEF SequenceInv

\* A step that leaves the calls alone, too.
LEMMA SequenceRests ==
  ASSUME TypeInv, SequenceInv, UNCHANGED <<op, link, removalList, dll>>,
         \A h \in Hooks : hook'[h].page = hook[h].page /\ hook'[h].HookProc = hook[h].HookProc
  PROVE  SequenceInv'
<1>1. CallsAreSequential'
  BY DEF SequenceInv, CallsAreSequential
<1>2. ArmedAreLive'
  BY CoreTyped DEF SequenceInv, ArmedAreLive, Live, InstallPcs
<1>3. LinkedAreArmed'
  BY CoreTyped DEF SequenceInv, LinkedAreArmed
<1>4. RemovedAreLive'
  <2>1. \A h \in Range(removalList) : hook'[h].page = "live"
    BY CoreTyped DEF SequenceInv, RemovedAreLive, Live
  <2>2. \A u \in Threads : op[u].pc \in WorkPcs =>
          hook'[op[u].hook].page = "live" /\ op[u].hook \notin Range(removalList)
    BY CoreTyped DEF SequenceInv, RemovedAreLive, Live
  <2> QED
    BY <2>1, <2>2 DEF SequenceInv, RemovedAreLive, Live
<1> QED
  BY <1>1, <1>2, <1>3, <1>4 DEF SequenceInv

\* Initially there are no calls, pages and handles.
LEMMA InitSequenceInv == Init => SequenceInv
<1> SUFFICES ASSUME Init PROVE SequenceInv
  OBVIOUS
<1>1. CallsAreSequential /\ ArmedAreLive /\ LinkedAreArmed
  BY DEF Init, IdleOp, BlankHook, CallsAreSequential, ArmedAreLive, LinkedAreArmed
<1>2. RemovedAreLive
  BY DEF Init, IdleOp, WaitPcs, WorkPcs, RemovedAreLive, Range, IsInjective
<1> QED
  BY <1>1, <1>2 DEF SequenceInv

\* Reversing a list keeps its elements apart.
LEMMA ReverseOnce ==
  ASSUME NEW S, NEW s \in Seq(S), IsInjective(s)
  PROVE  IsInjective(Reverse(s))
<1> DEFINE r == Reverse(s)
<1>1. /\ DOMAIN r = 1 .. Len(s)
      /\ \A i \in 1 .. Len(s) : r[i] = s[Len(s) - i + 1] /\ Len(s) - i + 1 \in DOMAIN s
  BY DEF Reverse
<1>2. \A i, j \in DOMAIN s : s[i] = s[j] => i = j
  BY DEF IsInjective
<1> HIDE DEF r
<1>3. ASSUME NEW i \in DOMAIN r, NEW j \in DOMAIN r, r[i] = r[j] PROVE i = j
  <2>1. Len(s) - i + 1 = Len(s) - j + 1
    BY <1>1, <1>2, <1>3
  <2>2. i \in Nat /\ j \in Nat /\ Len(s) \in Nat
    BY <1>1
  <2> QED
    BY <2>1, <2>2
<1> QED
  BY <1>3 DEF r, IsInjective

\* So does appending a list that has none of them.
LEMMA AppendOnce ==
  ASSUME NEW S, NEW r \in Seq(S), NEW s \in Seq(S), IsInjective(r), IsInjective(s),
         Range(r) \cap Range(s) = {}
  PROVE  IsInjective(r \o s)
<1> DEFINE u == r \o s
           n == Len(r)
<1>1. /\ Len(u) = n + Len(s) /\ u \in Seq(S) /\ n \in Nat
      /\ \A i \in 1 .. n : u[i] = r[i]
      /\ \A i \in n + 1 .. n + Len(s) : u[i] = s[i - n]
  BY ConcatProperties
<1> HIDE DEF u, n
<1>2. \A i \in DOMAIN u : \/ i \in DOMAIN r /\ u[i] = r[i]
                          \/ i - n \in DOMAIN s /\ u[i] = s[i - n]
  <2>1. DOMAIN r = 1 .. n /\ DOMAIN s = 1 .. Len(s) /\ DOMAIN u = 1 .. n + Len(s) /\ Len(s) \in Nat
    BY <1>1 DEF n
  <2>2. \A i \in DOMAIN u : i \in 1 .. n \/ (i \in n + 1 .. n + Len(s) /\ i - n \in 1 .. Len(s))
    BY <1>1, <2>1
  <2> QED
    BY <1>1, <2>1, <2>2
<1>3. /\ \A i, j \in DOMAIN s : s[i] = s[j] => i = j
      /\ \A i, j \in DOMAIN r : r[i] = r[j] => i = j
      /\ \A i \in DOMAIN r, j \in DOMAIN s : r[i] # s[j]
  BY DEF IsInjective, Range
<1>4. ASSUME NEW i \in DOMAIN u, NEW j \in DOMAIN u, u[i] = u[j] PROVE i = j
  <2>1. CASE i \in DOMAIN r /\ u[i] = r[i]
    BY <1>2, <1>3, <1>4, <2>1
  <2>2. CASE i - n \in DOMAIN s /\ u[i] = s[i - n]
    <3>1. i - n = j - n
      BY <1>2, <1>3, <1>4, <2>2
    <3>2. i \in Nat /\ j \in Nat
      BY <1>1
    <3> QED
      BY <1>1, <3>1, <3>2
  <2> QED
    BY <1>2, <2>1, <2>2
<1> QED
  BY <1>4 DEF u, IsInjective

\* What was taken off such a list is not on it any more.
LEMMA TailOnce ==
  ASSUME NEW S, NEW s \in Seq(S), IsInjective(s), s # <<>>
  PROVE  IsInjective(Tail(s)) /\ Head(s) \notin Range(Tail(s))
<1> DEFINE r == Tail(s)
<1>1. /\ Len(s) \in Nat \ {0} /\ Head(s) = s[1] /\ 1 \in DOMAIN s
      /\ \A i \in DOMAIN r : i \in Nat \ {0} /\ i + 1 \in DOMAIN s /\ r[i] = s[i + 1]
  OBVIOUS
<1>2. \A i, j \in DOMAIN s : s[i] = s[j] => i = j
  BY DEF IsInjective
<1> HIDE DEF r
<1>3. ASSUME NEW i \in DOMAIN r, NEW j \in DOMAIN r, r[i] = r[j] PROVE i = j
  <2>1. i + 1 = j + 1
    BY <1>1, <1>2, <1>3
  <2> QED
    BY <1>1, <2>1
<1>4. \A i \in DOMAIN r : r[i] # Head(s)
  <2> SUFFICES ASSUME NEW i \in DOMAIN r, r[i] = Head(s) PROVE FALSE
    OBVIOUS
  <2>1. i + 1 = 1
    BY <1>1, <1>2
  <2> QED
    BY <1>1, <2>1
<1> QED
  BY <1>3, <1>4 DEF r, IsInjective, Range

\* What the steps do to the page of a hook.

SamePlace(h) ==
  /\ hook'[h].TargetProc = hook[h].TargetProc /\ hook'[h].OldProc = hook[h].OldProc
  /\ hook'[h].TargetBackup = hook[h].TargetBackup

SamePage(h) ==
  /\ SamePlace(h)
  /\ hook'[h].page = hook[h].page /\ hook'[h].HookProc = hook[h].HookProc
  /\ hook'[h].Tracking = hook[h].Tracking

Unmaps(h) ==
  /\ SamePlace(h) /\ hook'[h].page = "freed" /\ hook'[h].HookProc = FALSE
  /\ hook'[h].Tracking = hook[h].Tracking
  /\ \A g \in Hooks \ {h} : hook'[g] = hook[g]

Allocates(t, f, h, succeeds) ==
  /\ t \in Controllers /\ op[t].pc = "idle" /\ dll = "loaded" /\ hook[h].page = "unused"
  /\ \A g \in Hooks \ {h} : hook'[g] = hook[g]
  /\ hook'[h].page = IF succeeds THEN "live" ELSE "freed"
  /\ hook'[h].TargetProc = f /\ hook'[h].HookProc = succeeds /\ hook'[h].OldProc = entry[f]
  /\ \A u \in Threads \ {t} : op'[u] = op[u]
  /\ op'[t].pc = (IF succeeds THEN "backup" ELSE "unwind") /\ op'[t].hook = h
  /\ UNCHANGED <<entry, link, hookList, removalList, dll, timedOut>>

LEMMA ReleaseUnmaps ==
  ASSUME TypeInv, NEW h \in Hooks, hook' = [hook EXCEPT ![h] = Release(h)]
  PROVE  Unmaps(h)
<1>1. hook[h] \in HookRecord /\ hook'[h] = Release(h) /\ \A g \in Hooks \ {h} : hook'[g] = hook[g]
  BY CoreTyped
<1>2. Release(h).HookProc = FALSE /\ Release(h).page = "freed" /\ Release(h).Tracking = hook[h].Tracking
  BY FieldsKept
<1> QED
  BY <1>1, <1>2, ReleaseTyped DEF Unmaps, SamePlace

LEMMA AllocateAllocates ==
  ASSUME TypeInv, NEW t \in Threads, NEW f \in Targets, NEW k \in Handles,
         NEW succeeds \in BOOLEAN, LhAllocateHook(t, f, k, succeeds)
  PROVE  \E h \in Hooks : Allocates(t, f, h, succeeds)
<1>1. PICK h \in Hooks :
        /\ hook[h].page = "unused"
        /\ hook' = [hook EXCEPT ![h] =
                      [BlankHook EXCEPT !.page = IF succeeds THEN "live" ELSE "freed",
                                        !.TargetProc = f, !.HookProc = succeeds,
                                        !.OldProc = entry[f]]]
        /\ op' = [op EXCEPT ![t] = [pc |-> IF succeeds THEN "backup" ELSE "unwind",
                                    hook |-> h, handle |-> k, budget |-> 0]]
  BY DEF LhAllocateHook
<1>2. /\ \A g \in Hooks \ {h} : hook'[g] = hook[g]
      /\ hook'[h].page = IF succeeds THEN "live" ELSE "freed"
      /\ hook'[h].TargetProc = f /\ hook'[h].HookProc = succeeds /\ hook'[h].OldProc = entry[f]
  BY <1>1, CoreTyped DEF BlankHook
<1>3. /\ \A u \in Threads \ {t} : op'[u] = op[u]
      /\ op'[t].hook = h /\ op'[t].pc = IF succeeds THEN "backup" ELSE "unwind"
  BY <1>1, CoreTyped
<1> QED
  BY <1>1, <1>2, <1>3 DEF Allocates, LhAllocateHook, MayCallApi

\* LhUninstallHook disarms and queues one hook ...
Removes(h) ==
  /\ h \in Hooks /\ hook[h].HookProc /\ ~ hook'[h].HookProc
  /\ \A g \in Hooks \ {h} : hook'[g] = hook[g]
  /\ SamePlace(h) /\ hook'[h].page = hook[h].page
  /\ removalList' = <<h>> \o removalList
  /\ UNCHANGED <<entry, op, dll, timedOut>>

LEMMA UninstallRemoves ==
  ASSUME TypeInv, NEW t \in Threads, NEW k \in Handles, LhUninstallHook(t, k)
  PROVE  /\ Removes(link[k]) /\ link'[k] = NULL
         /\ \A j \in Handles \ {k} : link'[j] = link[j]
<1>1. /\ link' = [link EXCEPT ![k] = NULL] /\ hook' = [hook EXCEPT ![link[k]].HookProc = FALSE]
      /\ removalList' = <<link[k]>> \o removalList /\ link[k] # NULL /\ hook[link[k]].HookProc
      /\ UNCHANGED <<entry, op, dll, timedOut>>
  BY DEF LhUninstallHook, LhIsValidHandle
<1>2. link[k] \in Hooks
  BY <1>1, CoreTyped
<1> QED
  BY <1>1, <1>2, CoreTyped DEF Removes, SamePlace, HookRecord

\* ... LhUninstallAllHooks all those on the list.
RemovesAll ==
  /\ \A g \in Hooks : /\ SamePlace(g) /\ hook'[g].page = hook[g].page
                      /\ hook'[g].HookProc => hook[g].HookProc /\ g \notin Range(hookList)
                      /\ g \notin Range(hookList) => hook'[g] = hook[g]
  /\ removalList' = Reverse(hookList) \o removalList
  /\ Range(removalList') = Range(hookList) \cup Range(removalList)

LEMMA UninstallAllRemoves == ASSUME TypeInv, UninstallAll PROVE RemovesAll
<1>1. /\ hook' = [h \in Hooks |-> IF h \in Range(hookList) THEN [hook[h] EXCEPT !.HookProc = FALSE]
                                                           ELSE hook[h]]
      /\ removalList' = Reverse(hookList) \o removalList
  BY DEF UninstallAll
<1>2. Range(removalList') = Range(hookList) \cup Range(removalList)
  <2>1. Reverse(hookList) \in Seq(Hooks) /\ Range(Reverse(hookList)) = Range(hookList)
    BY CoreTyped, ReverseRange
  <2> QED
    BY <1>1, <2>1, CoreTyped, RangeConcatenation
<1>3. \A g \in Hooks : /\ SamePlace(g) /\ hook'[g].page = hook[g].page
                       /\ hook'[g].HookProc => hook[g].HookProc /\ g \notin Range(hookList)
                       /\ g \notin Range(hookList) => hook'[g] = hook[g]
  BY <1>1, CoreTyped DEF HookRecord, SamePlace
<1> QED
  BY <1>1, <1>2, <1>3 DEF RemovesAll

\* The steps of a call that write no page but the slot's number.
Moves ==
  {<<"register", "unwind">>, <<"register", "patch">>, <<"patch", "publish">>, <<"publish", "track">>,
   <<"compare", "restore">>, <<"restore", "drain">>, <<"drain", "drain">>, <<"drain", "release">>,
   <<"release", "free">>}

Quietly(t) ==
  \/ InstallFails(t) \/ RegisterSlot(t) \/ PatchEntry(t) \/ PublishHook(t)
  \/ LhWaitForPendingRemovals(t) \/ CompareEntry(t) \/ RestoreEntry(t) \/ Drain(t) \/ ReleaseSlot(t)

Advances(t) ==
  /\ \A h \in Hooks : SamePage(h)
  /\ \A u \in Threads \ {t} : op'[u] = op[u]
  /\ UNCHANGED <<link, removalList, dll>>
  /\ t \in Controllers \/ op[t].pc # "idle"
  /\ \/ op'[t].hook = op[t].hook /\ <<op[t].pc, op'[t].pc>> \in Moves
     \/ op'[t].hook = NULL /\ op'[t].pc = "pop" /\ op[t].pc \in {"idle", "compare", "drain"}

LEMMA QuietAdvances == ASSUME TypeInv, NEW t \in Threads, Quietly(t) PROVE Advances(t)
<1>0. UNCHANGED hook => \A h \in Hooks : SamePage(h)
  BY DEF SamePage, SamePlace
<1>1. CASE InstallFails(t) \/ PatchEntry(t) \/ PublishHook(t) \/ RestoreEntry(t) \/ ReleaseSlot(t)
  <2>1. PICK p \in {"unwind", "publish", "track", "drain", "free"} :
          op' = [op EXCEPT ![t].pc = p] /\ <<op[t].pc, p>> \in Moves
    BY <1>1 DEF InstallFails, PatchEntry, PublishHook, RestoreEntry, ReleaseSlot, AtOp, Moves
  <2>2. /\ \A u \in Threads \ {t} : op'[u] = op[u]
        /\ op'[t].pc = p /\ op'[t].hook = op[t].hook
    BY <2>1, OpGoto DEF OpPcs, InstallPcs, WaitPcs
  <2>3. UNCHANGED <<hook, link, removalList, dll>> /\ op[t].pc # "idle"
    BY <1>1 DEF InstallFails, PatchEntry, PublishHook, RestoreEntry, ReleaseSlot, AtOp
  <2> QED
    BY <1>0, <2>1, <2>2, <2>3 DEF Advances
<1>2. CASE RegisterSlot(t)
  <2>1. PICK i \in Slots : hook' = [hook EXCEPT ![op[t].hook].HLSIndex = i]
    BY <1>2 DEF RegisterSlot
  <2>2. op[t].pc = "register" /\ op' = [op EXCEPT ![t].pc = "patch"] /\ UNCHANGED <<link, removalList, dll>>
    BY <1>2 DEF RegisterSlot, AtOp
  <2>3. /\ \A u \in Threads \ {t} : op'[u] = op[u]
        /\ op'[t].pc = "patch" /\ op'[t].hook = op[t].hook
    BY <2>2, OpGoto DEF OpPcs, InstallPcs
  <2>4. \A h \in Hooks : SamePage(h)
    BY <2>1, CoreTyped DEF HookRecord, SamePage, SamePlace
  <2> QED
    BY <2>2, <2>3, <2>4 DEF Advances, Moves
<1>3. CASE LhWaitForPendingRemovals(t)
  <2>1. op' = [op EXCEPT ![t] = WaitOp] /\ op[t].pc = "idle" /\ t \in Controllers
        /\ UNCHANGED <<hook, link, removalList, dll>>
    BY <1>3 DEF LhWaitForPendingRemovals, MayCallApi
  <2>2. (\A u \in Threads \ {t} : op'[u] = op[u]) /\ op'[t].pc = "pop" /\ op'[t].hook = NULL
    BY <2>1, CoreTyped DEF WaitOp
  <2> QED
    BY <1>0, <2>1, <2>2 DEF Advances
<1>4. CASE CompareEntry(t)
  <2>1. /\ op[t].pc = "compare" /\ UNCHANGED <<hook, link, removalList, dll>>
        /\ \/ op' = [op EXCEPT ![t].pc = "restore", ![t].hook = op[t].hook]
           \/ op' = [op EXCEPT ![t].pc = "pop", ![t].hook = NULL]
    BY <1>4 DEF CompareEntry, AtOp
  <2>2. /\ \A u \in Threads \ {t} : op'[u] = op[u]
        /\ \/ op'[t].pc = "restore" /\ op'[t].hook = op[t].hook
           \/ op'[t].pc = "pop" /\ op'[t].hook = NULL
    BY <2>1, CoreTyped DEF OpRecord
  <2> QED
    BY <1>0, <2>1, <2>2 DEF Advances, Moves
<1>5. CASE Drain(t)
  <2>1. /\ op[t].pc = "drain" /\ UNCHANGED <<hook, link, removalList, dll>>
        /\ \/ op' = [op EXCEPT ![t].pc = "release"]
           \/ op' = [op EXCEPT ![t].pc = "pop", ![t].hook = NULL]
           \/ op' = [op EXCEPT ![t].budget = op[t].budget - 1]
    BY <1>5 DEF Drain, AtOp
  <2>2. /\ \A u \in Threads \ {t} : op'[u] = op[u]
        /\ \/ op'[t].pc \in {"release", "drain"} /\ op'[t].hook = op[t].hook
           \/ op'[t].pc = "pop" /\ op'[t].hook = NULL
    BY <2>1, CoreTyped DEF OpRecord
  <2> QED
    BY <1>0, <2>1, <2>2 DEF Advances, Moves
<1> QED
  BY <1>1, <1>2, <1>3, <1>4, <1>5 DEF Quietly

LEMMA QuietKeepsSequence ==
  ASSUME TypeInv, HandleInv, SequenceInv, NEW t \in Threads, Advances(t)
  PROVE  SequenceInv'
<1>1. \A h \in Hooks : hook'[h].page = hook[h].page /\ hook'[h].HookProc = hook[h].HookProc
  BY DEF Advances, SamePage
<1>2. t \in Controllers
  BY DEF Advances, SequenceInv, CallsAreSequential
<1>3. op'[t].pc \notin {"idle"} /\ (op'[t].pc = "pop" => op'[t].hook = NULL)
  BY DEF Advances, Moves
<1>4. op'[t].pc = "track" => op'[t].hook \in Hooks /\ hook[op'[t].hook].HookProc
  <2> SUFFICES ASSUME op'[t].pc = "track" PROVE op'[t].hook \in Hooks /\ hook[op'[t].hook].HookProc
    OBVIOUS
  <2>1. op[t].pc = "publish" /\ op'[t].hook = op[t].hook
    BY DEF Advances, Moves
  <2> QED
    BY <2>1, CoreTyped DEF HandleInv, InstallsAreApart, InstallPcs
<1>5. op'[t].pc \in WorkPcs => op[t].pc \in WorkPcs /\ op'[t].hook = op[t].hook
  BY DEF Advances, Moves, WorkPcs, WaitPcs
<1> QED
  BY <1>1, <1>2, <1>3, <1>4, <1>5, SequenceStays DEF Advances

\* What was read of the entry point is kept in the new page.
LEMMA BackupAdvances ==
  ASSUME TypeInv, NEW t \in Threads, BackupEntry(t)
  PROVE  /\ \A u \in Threads \ {t} : op'[u] = op[u]
         /\ op[t].pc = "backup" /\ op'[t].pc = "register" /\ op'[t].hook = op[t].hook
         /\ op[t].hook \in Hooks
         /\ \A g \in Hooks : /\ hook'[g].page = hook[g].page /\ hook'[g].HookProc = hook[g].HookProc
                             /\ hook'[g].OldProc = hook[g].OldProc
                             /\ hook'[g].TargetProc = hook[g].TargetProc
                             /\ hook'[g].TargetBackup =
                                  IF g = op[t].hook THEN entry[hook[g].TargetProc] ELSE hook[g].TargetBackup
         /\ UNCHANGED <<entry, link, removalList, dll, timedOut>>
<1>1. /\ op[t].pc = "backup" /\ op' = [op EXCEPT ![t].pc = "register"]
      /\ hook' = [hook EXCEPT ![op[t].hook].TargetBackup = entry[hook[op[t].hook].TargetProc]]
      /\ UNCHANGED <<entry, link, removalList, dll, timedOut>>
  BY DEF BackupEntry, AtOp
<1>2. op[t].hook \in Hooks
  BY <1>1, CoreTyped DEF InstallPcs
<1>3. /\ \A u \in Threads \ {t} : op'[u] = op[u]
      /\ op'[t].pc = "register" /\ op'[t].hook = op[t].hook
  BY <1>1, OpGoto DEF OpPcs, InstallPcs
<1>4. \A g \in Hooks : /\ hook'[g].page = hook[g].page /\ hook'[g].HookProc = hook[g].HookProc
                       /\ hook'[g].OldProc = hook[g].OldProc /\ hook'[g].TargetProc = hook[g].TargetProc
                       /\ hook'[g].TargetBackup =
                            IF g = op[t].hook THEN entry[hook[g].TargetProc] ELSE hook[g].TargetBackup
  BY <1>1, <1>2, CoreTyped DEF HookRecord
<1> QED
  BY <1>1, <1>2, <1>3, <1>4

LEMMA BackupKeepsSequence ==
  ASSUME TypeInv, SequenceInv, NEW t \in Threads, BackupEntry(t)
  PROVE  SequenceInv'
  BY BackupAdvances, SequenceStays DEF SequenceInv, CallsAreSequential, WorkPcs, WaitPcs

\* A page is unmapped at the end of a failed install, or of a removal.
Frees(t) ==
  /\ op[t].hook \in Hooks /\ Unmaps(op[t].hook)
  /\ op[t].pc \in {"unwind", "free"}
  /\ op'[t].pc \in {"idle", "pop"} /\ op'[t].hook = NULL
  /\ \A u \in Threads \ {t} : op'[u] = op[u]
  /\ UNCHANGED <<entry, link, removalList, dll, timedOut>>

LEMMA StepFrees ==
  ASSUME TypeInv, NEW t \in Threads, UnwindInstall(t) \/ FreeHook(t)
  PROVE  Frees(t) \/ Crash("freed page")
<1>1. CASE FreeHook(t)
  <2>1. /\ op[t].pc = "free" /\ hook' = [hook EXCEPT ![op[t].hook] = Release(op[t].hook)]
        /\ op' = [op EXCEPT ![t].pc = "pop", ![t].hook = NULL]
        /\ UNCHANGED <<entry, link, removalList, dll, timedOut>>
    BY <1>1 DEF FreeHook, AtOp
  <2>2. op[t].hook \in Hooks
    BY <2>1, CoreTyped DEF WorkPcs, WaitPcs
  <2>3. (\A u \in Threads \ {t} : op'[u] = op[u]) /\ op'[t].pc = "pop" /\ op'[t].hook = NULL
    BY <2>1, CoreTyped DEF OpRecord
  <2> QED
    BY <2>1, <2>2, <2>3, ReleaseUnmaps DEF Frees
<1>2. CASE UnwindInstall(t) /\ ~ Crash("freed page")
  <2>1. /\ op[t].pc = "unwind" /\ hook' = [hook EXCEPT ![op[t].hook] = Release(op[t].hook)]
        /\ op' = [op EXCEPT ![t] = IdleOp]
        /\ UNCHANGED <<entry, link, removalList, dll, timedOut>>
    BY <1>2 DEF UnwindInstall, AtOp
  <2>2. op[t].hook \in Hooks
    BY <2>1, CoreTyped DEF InstallPcs
  <2>3. (\A u \in Threads \ {t} : op'[u] = op[u]) /\ op'[t].pc = "idle" /\ op'[t].hook = NULL
    BY <2>1, CoreTyped DEF IdleOp
  <2> QED
    BY <2>1, <2>2, <2>3, ReleaseUnmaps DEF Frees
<1> QED
  BY <1>1, <1>2

LEMMA FreeKeepsSequence ==
  ASSUME OneController, TypeInv, PinInv, SequenceInv, NEW t \in Threads, Frees(t)
  PROVE  SequenceInv'
<1> DEFINE h == op[t].hook
<1>1. \A u \in Threads \ {t} : op'[u].pc = "idle" /\ op'[u].hook = NULL
  BY OthersIdle DEF Frees, SequenceInv
<1>2. /\ \A g \in Hooks \ {h} : hook'[g] = hook[g]
      /\ hook'[h].HookProc = FALSE
      /\ op'[t].pc \in {"idle", "pop"} /\ op'[t].hook = NULL
      /\ UNCHANGED <<link, removalList, dll>> /\ h \in Hooks
  BY DEF Frees, Unmaps
<1>3. h \notin Range(removalList) /\ \A k \in Handles : link[k] = h => dll = "unloaded"
  <2>1. CASE op[t].pc = "unwind"
    <3>1. Private(h)
      BY <2>1 DEF Private, PrivatePcs
    <3> QED
      BY <1>2, <3>1 DEF PinInv, UnpublishedIsPrivate, Unknown
  <2>2. CASE op[t].pc = "free"
    <3>1. h \notin Range(removalList)
      BY <2>2 DEF SequenceInv, RemovedAreLive, WorkPcs, WaitPcs
    <3>2. ~ hook[h].HookProc
      BY <1>2, <2>2 DEF PinInv, RemovedIsDisarmed, WaitPcs
    <3> QED
      BY <1>2, <3>1, <3>2, CoreTyped DEF SequenceInv, LinkedAreArmed
  <2> QED
    BY <2>1, <2>2 DEF Frees
<1> HIDE DEF h
<1>4. CallsAreSequential'
  BY <1>1, <1>2, OthersIdle DEF CallsAreSequential, SequenceInv, Frees
<1>5. ArmedAreLive'
  BY <1>1, <1>2 DEF SequenceInv, ArmedAreLive, Live
<1>6. LinkedAreArmed'
  BY <1>2, <1>3, CoreTyped DEF SequenceInv, LinkedAreArmed
<1>7. RemovedAreLive'
  BY <1>1, <1>2, <1>3, CoreTyped DEF SequenceInv, RemovedAreLive, Live, WorkPcs, WaitPcs
<1> QED
  BY <1>4, <1>5, <1>6, <1>7 DEF SequenceInv

LEMMA AllocateKeepsSequence ==
  ASSUME OneController, TypeInv, PinInv, SequenceInv, NEW t \in Threads, NEW f, NEW h \in Hooks,
         NEW succeeds \in BOOLEAN, Allocates(t, f, h, succeeds)
  PROVE  SequenceInv'
<1>1. \A u \in Threads \ {t} : op'[u].pc = "idle" /\ op'[u].hook = NULL
  BY OthersIdle DEF Allocates, SequenceInv
<1>2. /\ h \notin Range(removalList) /\ \A k \in Handles : link[k] # h
  BY DEF Allocates, PinInv, UnpublishedIsPrivate, Private, Unknown
<1>3. CallsAreSequential'
  BY <1>1 DEF CallsAreSequential, SequenceInv, Allocates
<1>4. ArmedAreLive'
  BY <1>1 DEF SequenceInv, ArmedAreLive, Live, Allocates
<1>5. LinkedAreArmed'
  BY <1>2, CoreTyped DEF SequenceInv, LinkedAreArmed, Allocates
<1>6. RemovedAreLive'
  BY <1>1, <1>2, CoreTyped DEF SequenceInv, RemovedAreLive, Live, WorkPcs, WaitPcs, Allocates
<1> QED
  BY <1>3, <1>4, <1>5, <1>6 DEF SequenceInv

\* The handle is given to the caller.
Tracks(t) ==
  /\ op[t].pc = "track" /\ op[t].hook \in Hooks /\ op[t].handle \in Handles
  /\ \A h \in Hooks : /\ SamePlace(h) /\ hook'[h].page = hook[h].page
                      /\ hook'[h].HookProc = hook[h].HookProc
  /\ link'[op[t].handle] = op[t].hook
  /\ \A k \in Handles \ {op[t].handle} : link'[k] = link[k]
  /\ op'[t].pc = "idle" /\ op'[t].hook = NULL
  /\ \A u \in Threads \ {t} : op'[u] = op[u]
  /\ UNCHANGED <<entry, removalList, dll, timedOut>>

LEMMA TrackTracks ==
  ASSUME TypeInv, NEW t \in Threads, TrackHook(t), ~ Crash("freed page")
  PROVE  Tracks(t)
<1>1. /\ op[t].pc = "track"
      /\ hook' = [hook EXCEPT ![op[t].hook].Tracking = op[t].handle]
      /\ link' = [link EXCEPT ![op[t].handle] = op[t].hook]
      /\ op' = [op EXCEPT ![t] = IdleOp]
      /\ UNCHANGED <<entry, removalList, dll, timedOut>>
  BY DEF TrackHook, AtOp
<1>2. op[t].hook \in Hooks /\ op[t].handle \in Handles
  BY <1>1, CoreTyped DEF InstallPcs
<1>3. \A h \in Hooks : /\ SamePlace(h) /\ hook'[h].page = hook[h].page
                       /\ hook'[h].HookProc = hook[h].HookProc
  <2> SUFFICES ASSUME NEW h \in Hooks
               PROVE  /\ SamePlace(h) /\ hook'[h].page = hook[h].page
                      /\ hook'[h].HookProc = hook[h].HookProc
    OBVIOUS
  <2>1. hook[h] \in HookRecord
    BY CoreTyped
  <2>2. hook'[h] \in {hook[h], [hook[h] EXCEPT !.Tracking = op[t].handle]}
    BY <1>1, <1>2, CoreTyped
  <2> QED
    BY <2>1, <2>2 DEF HookRecord, SamePlace
<1>4. /\ op'[t].pc = "idle" /\ op'[t].hook = NULL
      /\ \A u \in Threads \ {t} : op'[u] = op[u]
      /\ link'[op[t].handle] = op[t].hook
      /\ \A k \in Handles \ {op[t].handle} : link'[k] = link[k]
  BY <1>1, <1>2, CoreTyped DEF IdleOp
<1> QED
  BY <1>1, <1>2, <1>3, <1>4 DEF Tracks

LEMMA TrackKeepsSequence ==
  ASSUME TypeInv, SequenceInv, NEW t \in Threads, Tracks(t)
  PROVE  SequenceInv'
<1>1. hook[op[t].hook].HookProc
  BY DEF SequenceInv, ArmedAreLive, Tracks
<1>2. CallsAreSequential'
  BY DEF CallsAreSequential, SequenceInv, Tracks
<1>3. ArmedAreLive'
  <2>1. \A h \in Hooks : hook'[h].HookProc => hook'[h].page = "live"
    BY DEF SequenceInv, ArmedAreLive, Live, Tracks
  <2>2. \A u \in Threads : op'[u].pc = "track" => hook'[op'[u].hook].HookProc
    <3> SUFFICES ASSUME NEW u \in Threads, op'[u].pc = "track" PROVE hook'[op'[u].hook].HookProc
      OBVIOUS
    <3>1. op'[u] = op[u] /\ op[u].pc = "track"
      BY DEF Tracks
    <3>2. op[u].hook \in Hooks /\ hook[op[u].hook].HookProc
      BY <3>1, CoreTyped DEF SequenceInv, ArmedAreLive, InstallPcs
    <3> QED
      BY <3>1, <3>2 DEF Tracks
  <2> QED
    BY <2>1, <2>2 DEF ArmedAreLive, Live
<1>4. LinkedAreArmed'
  <2> SUFFICES ASSUME dll # "unloaded", NEW k \in Handles, link'[k] # NULL PROVE hook'[link'[k]].HookProc
    BY DEF LinkedAreArmed, Tracks
  <2>1. link'[k] \in Hooks /\ hook[link'[k]].HookProc
    BY <1>1, CoreTyped DEF SequenceInv, LinkedAreArmed, Tracks
  <2> QED
    BY <2>1 DEF Tracks
<1>5. RemovedAreLive'
  BY CoreTyped DEF SequenceInv, RemovedAreLive, Live, WorkPcs, WaitPcs, Tracks
<1> QED
  BY <1>2, <1>3, <1>4, <1>5 DEF SequenceInv

\* A removed hook joins those that wait for their pages to be unmapped.
LEMMA UninstallKeepsSequence ==
  ASSUME OneController, TypeInv, PinInv, HandleInv, SequenceInv,
         NEW t \in Threads, NEW k \in Handles, LhUninstallHook(t, k)
  PROVE  SequenceInv'
<1> DEFINE h == link[k]
<1>1. Removes(h) /\ link'[k] = NULL /\ \A j \in Handles \ {k} : link'[j] = link[j]
  BY UninstallRemoves
<1>2. \A u \in Threads : op'[u] = op[u] /\ op[u].pc = "idle" /\ op[u].hook = NULL
  <2>1. t \in Controllers /\ op[t].pc = "idle"
    BY DEF LhUninstallHook, MayCallApi
  <2> QED
    BY <1>1, <2>1, OthersIdle DEF SequenceInv, CallsAreSequential, Removes
<1>3. /\ h \in Hooks /\ Live(h) /\ h \notin Range(removalList)
      /\ \A j \in Handles \ {k} : link[j] # h
      /\ link[k] = h /\ h # NULL
  <2>1. h \in Hooks /\ hook[h].HookProc /\ h # NULL
    BY <1>1, CoreTyped DEF Removes
  <2>2. \A j \in Handles : link[j] = h => hook[h].Tracking = j
    BY <2>1 DEF HandleInv, LinksAreTracked
  <2> QED
    BY <2>1, <2>2 DEF SequenceInv, ArmedAreLive, PinInv, RemovedIsDisarmed
<1>4. /\ removalList' \in Seq(Hooks) /\ IsInjective(removalList')
      /\ Range(removalList') = {h} \cup Range(removalList)
  BY <1>1, <1>3, CoreTyped, PushRange, PushOnce DEF Removes, SequenceInv, RemovedAreLive
<1> HIDE DEF h
<1>5. CallsAreSequential'
  BY <1>2 DEF CallsAreSequential
<1>6. ArmedAreLive'
  BY <1>1, <1>2 DEF SequenceInv, ArmedAreLive, Live, Removes
<1>7. LinkedAreArmed'
  <2> SUFFICES ASSUME dll # "unloaded", NEW j \in Handles, link'[j] # NULL PROVE hook'[link'[j]].HookProc
    BY <1>1 DEF LinkedAreArmed, Removes
  <2>1. j # k /\ link'[j] = link[j] /\ link[j] \in Hooks \ {h}
    BY <1>1, <1>3, CoreTyped
  <2> QED
    BY <1>1, <2>1 DEF SequenceInv, LinkedAreArmed, Removes
<1>8. RemovedAreLive'
  <2>1. \A g \in Hooks : hook'[g].page = hook[g].page
    BY <1>1 DEF Removes
  <2>2. \A g \in Range(removalList') : g \in Hooks /\ Live(g)
    BY <1>3, <1>4, CoreTyped DEF SequenceInv, RemovedAreLive
  <2>3. \A g \in Range(removalList') : hook'[g].page = "live"
    BY <2>1, <2>2 DEF Live
  <2>4. \A u \in Threads : op'[u].pc \notin WorkPcs
    BY <1>2 DEF WorkPcs, WaitPcs
  <2> QED
    BY <1>4, <2>3, <2>4 DEF RemovedAreLive, Live
<1> QED
  BY <1>5, <1>6, <1>7, <1>8 DEF SequenceInv

\* So do all the hooks of the list, and none of them keeps its handle.
LEMMA UninstallAllKeepsSequence ==
  ASSUME TypeInv, PinInv, HandleInv, SequenceInv, UninstallAll,
         dll # "unloaded",
         \A u \in Threads : /\ op'[u].pc \in {"idle", "pop"} /\ op'[u].hook = NULL
                            /\ op'[u].pc # "idle" => u \in Controllers
  PROVE  SequenceInv'
<1>1. RemovesAll
  BY UninstallAllRemoves
<1>2. /\ IsInjective(hookList) /\ IsInjective(removalList)
      /\ Range(hookList) \cap Range(removalList) = {}
      /\ \A h \in Range(hookList) : hook[h].HookProc /\ Live(h)
  BY CoreTyped DEF HandleInv, ListedAreArmed, SequenceInv, ArmedAreLive, RemovedAreLive,
                   PinInv, RemovedIsDisarmed
<1>3. IsInjective(removalList')
  <2>1. /\ Reverse(hookList) \in Seq(Hooks) /\ Range(Reverse(hookList)) = Range(hookList)
        /\ IsInjective(Reverse(hookList))
    BY <1>2, CoreTyped, ReverseRange, ReverseOnce
  <2> QED
    BY <1>1, <1>2, <2>1, CoreTyped, AppendOnce DEF RemovesAll
<1>4. \A k \in Handles : link'[k] # NULL =>
        link'[k] = link[k] /\ link[k] \in Hooks /\ link[k] \notin Range(hookList)
  <2> SUFFICES ASSUME NEW k \in Handles, link'[k] # NULL
               PROVE  link'[k] = link[k] /\ link[k] \in Hooks /\ link[k] \notin Range(hookList)
    OBVIOUS
  <2>1. /\ link'[k] = link[k]
        /\ ~ (LhIsValidHandle(k) /\ \E h \in Range(hookList) : hook[h].Tracking = k)
    BY DEF UninstallAll
  <2>2. link[k] \in Hooks /\ hook[link[k]].HookProc /\ Live(link[k]) /\ hook[link[k]].Tracking = k
    BY <2>1, CoreTyped DEF SequenceInv, LinkedAreArmed, ArmedAreLive, HandleInv, LinksAreTracked
  <2> QED
    BY <2>1, <2>2 DEF LhIsValidHandle
<1>5. CallsAreSequential'
  BY DEF CallsAreSequential
<1>6. ArmedAreLive'
  BY <1>1 DEF SequenceInv, ArmedAreLive, Live, RemovesAll
<1>7. LinkedAreArmed'
  <2> SUFFICES ASSUME NEW k \in Handles, link'[k] # NULL PROVE hook'[link'[k]].HookProc
    BY DEF LinkedAreArmed
  <2>1. hook'[link[k]] = hook[link[k]] /\ hook[link[k]].HookProc
    BY <1>1, <1>4 DEF SequenceInv, LinkedAreArmed, RemovesAll
  <2> QED
    BY <1>4, <2>1
<1>8. RemovedAreLive'
  BY <1>1, <1>2, <1>3, CoreTyped DEF SequenceInv, RemovedAreLive, Live, WorkPcs, WaitPcs, RemovesAll
<1> QED
  BY <1>5, <1>6, <1>7, <1>8 DEF SequenceInv

\* The waiter takes a removed hook from the list ...
Pops(t) ==
  /\ op[t].pc = "pop" /\ removalList # <<>> /\ removalList' = Tail(removalList)
  /\ op'[t].pc = "compare" /\ op'[t].hook = Head(removalList)
  /\ \A u \in Threads \ {t} : op'[u] = op[u]
  /\ UNCHANGED <<hook, entry, link, hookList, dll, timedOut>>

LEMMA PopPops == ASSUME TypeInv, NEW t \in Threads, PopRemoval(t) PROVE Pops(t)
<1>1. op' = [op EXCEPT ![t].pc = "compare", ![t].hook = Head(removalList)]
  BY DEF PopRemoval
<1>2. removalList # <<>> /\ op[t].pc = "pop"
  BY DEF PopRemoval, AtOp
<1>3. Head(removalList) \in Hooks
  BY <1>2, CoreTyped
<1>4. /\ \A u \in Threads \ {t} : op'[u] = op[u]
      /\ op'[t].pc = "compare" /\ op'[t].hook = Head(removalList)
  BY <1>1, <1>3, CoreTyped DEF OpRecord
<1> QED
  BY <1>2, <1>4 DEF PopRemoval, Pops

LEMMA PopKeepsSequence ==
  ASSUME OneController, TypeInv, SequenceInv, NEW t \in Threads, Pops(t)
  PROVE  SequenceInv'
<1>1. /\ IsInjective(removalList') /\ Head(removalList) \notin Range(removalList')
      /\ Head(removalList) \in Range(removalList)
      /\ Range(removalList') \subseteq Range(removalList)
  <2>1. removalList \in Seq(Hooks) /\ removalList # <<>> /\ removalList' = Tail(removalList)
    BY CoreTyped DEF Pops
  <2>2. IsInjective(removalList)
    BY DEF SequenceInv, RemovedAreLive
  <2>3. Head(removalList) = removalList[1] /\ 1 \in DOMAIN removalList
    BY <2>1
  <2>4. \A i \in DOMAIN Tail(removalList) :
          i + 1 \in DOMAIN removalList /\ Tail(removalList)[i] = removalList[i + 1]
    BY <2>1
  <2> QED
    BY <2>1, <2>2, <2>3, <2>4, TailOnce DEF Range
<1>2. t \in Controllers /\ \A u \in Threads \ {t} : op'[u].pc = "idle" /\ op'[u].hook = NULL
  BY OthersIdle DEF Pops, SequenceInv
<1>3. CallsAreSequential'
  BY <1>2 DEF CallsAreSequential, Pops
<1>4. ArmedAreLive'
  BY <1>2 DEF SequenceInv, ArmedAreLive, Live, Pops
<1>5. LinkedAreArmed'
  BY DEF SequenceInv, LinkedAreArmed, Pops
<1>6. RemovedAreLive'
  BY <1>1, <1>2, CoreTyped DEF SequenceInv, RemovedAreLive, Live, WorkPcs, WaitPcs, Pops
<1> QED
  BY <1>3, <1>4, <1>5, <1>6 DEF SequenceInv

\* ... until none is left; with a DLL that goes, the heap and its pages may go.
Ends(t) ==
  /\ op[t].pc = "pop" /\ removalList = <<>>
  /\ op'[t].pc = "idle" /\ op'[t].hook = NULL
  /\ \A u \in Threads \ {t} : op'[u] = op[u]
  /\ dll' = IF dll = "detaching" THEN "unloaded" ELSE dll
  /\ \/ UNCHANGED hook
     \/ dll' = "unloaded" /\ \A h \in Hooks : hook'[h] = IF Live(h) THEN Release(h) ELSE hook[h]
  /\ UNCHANGED <<entry, link, hookList, removalList, timedOut>>

LEMMA ReturnEnds == ASSUME TypeInv, NEW t \in Threads, WaitReturns(t) PROVE Ends(t)
<1>1. op' = [op EXCEPT ![t] = IdleOp]
  BY DEF WaitReturns
<1>2. op'[t].pc = "idle" /\ op'[t].hook = NULL /\ \A u \in Threads \ {t} : op'[u] = op[u]
  BY <1>1, CoreTyped DEF IdleOp
<1> QED
  BY <1>2 DEF WaitReturns, Ends, AtOp

LEMMA EndKeepsSequence ==
  ASSUME OneController, TypeInv, SequenceInv, NEW t \in Threads, Ends(t)
  PROVE  SequenceInv'
<1>1. \A u \in Threads : op'[u].pc = "idle" /\ op'[u].hook = NULL
  <2>1. \A u \in Threads \ {t} : op'[u].pc = "idle" /\ op'[u].hook = NULL
    BY OthersIdle DEF Ends, SequenceInv
  <2> QED
    BY <2>1 DEF Ends
<1>2. \A h \in Hooks : hook'[h] = hook[h] \/ ~ hook'[h].HookProc
  BY FieldsKept DEF Ends
<1>3. CallsAreSequential'
  BY <1>1 DEF CallsAreSequential
<1>4. ArmedAreLive'
  BY <1>1, <1>2 DEF SequenceInv, ArmedAreLive, Live
<1>5. LinkedAreArmed'
  BY DEF SequenceInv, LinkedAreArmed, Ends
<1>6. RemovedAreLive'
  <2>1. Range(removalList') = {} /\ IsInjective(removalList')
    BY DEF Ends, Range, IsInjective
  <2> QED
    BY <1>1, <2>1 DEF RemovedAreLive, WorkPcs, WaitPcs
<1> QED
  BY <1>3, <1>4, <1>5, <1>6 DEF SequenceInv

\* Every step keeps it.
LEMMA SequenceInvStep ==
  ASSUME OneController
  PROVE  TypeInv /\ PinInv /\ HandleInv /\ SequenceInv /\ [Next]_vars => SequenceInv'
<1> SUFFICES ASSUME TypeInv, PinInv, HandleInv, SequenceInv, [Next]_vars PROVE SequenceInv'
  OBVIOUS
<1>1. ASSUME UNCHANGED <<op, link, removalList, dll, hook>> PROVE SequenceInv'
  BY <1>1, SequenceRests
<1>2. ASSUME NEW t \in Threads, Install(t) PROVE SequenceInv'
  <2>1. CASE \E f \in Targets, k \in Handles, succeeds \in BOOLEAN : LhAllocateHook(t, f, k, succeeds)
    BY <2>1, AllocateAllocates, AllocateKeepsSequence
  <2>2. CASE BackupEntry(t)
    BY <2>2, BackupKeepsSequence
  <2>3. CASE InstallFails(t) \/ RegisterSlot(t) \/ PatchEntry(t) \/ PublishHook(t)
    <3>1. Quietly(t)
      BY <2>3 DEF Quietly
    <3> QED
      BY <3>1, QuietAdvances, QuietKeepsSequence
  <2>4. CASE UnwindInstall(t)
    BY <1>1, <2>4, StepFrees, FreeKeepsSequence DEF Crash
  <2>5. CASE TrackHook(t)
    BY <1>1, <2>5, TrackTracks, TrackKeepsSequence DEF Crash
  <2> QED
    BY <1>2, <2>1, <2>2, <2>3, <2>4, <2>5 DEF Install
<1>3. ASSUME NEW t \in Threads, Uninstall(t) PROVE SequenceInv'
  <2>1. CASE \E k \in Handles : LhUninstallHook(t, k)
    BY <2>1, UninstallKeepsSequence
  <2>2. CASE \E k \in Handles : UseDanglingHandle(t, k)
    BY <1>1, <2>2 DEF UseDanglingHandle, Crash
  <2>3. CASE LhUninstallAllHooks(t)
    <3>1. /\ t \in Controllers /\ op[t].pc = "idle" /\ UninstallAll /\ op' = op /\ dll # "unloaded"
      BY <2>3 DEF LhUninstallAllHooks, MayCallApi
    <3>2. \A u \in Threads : op'[u].pc = "idle" /\ op'[u].hook = NULL
      BY <3>1, OthersIdle DEF SequenceInv, CallsAreSequential
    <3> QED
      BY <3>1, <3>2, UninstallAllKeepsSequence
  <2> QED
    BY <1>3, <2>1, <2>2, <2>3 DEF Uninstall
<1>4. ASSUME NEW t \in Threads, Wait(t) PROVE SequenceInv'
  <2>1. CASE LhCriticalFinalize(t)
    <3>1. /\ t \in Controllers /\ UninstallAll /\ op' = [op EXCEPT ![t] = WaitOp] /\ dll # "unloaded"
          /\ op[t].pc = "idle"
      BY <2>1 DEF LhCriticalFinalize, MayCallApi
    <3>2. \A u \in Threads : IF u = t THEN op'[u].pc = "pop" /\ op'[u].hook = NULL
                                      ELSE op'[u].pc = "idle" /\ op'[u].hook = NULL
      BY <3>1, CoreTyped, OthersIdle DEF SequenceInv, WaitOp
    <3> QED
      BY <3>1, <3>2, UninstallAllKeepsSequence
  <2>2. CASE PopRemoval(t)
    BY <2>2, PopPops, PopKeepsSequence
  <2>3. CASE WaitReturns(t)
    BY <2>3, ReturnEnds, EndKeepsSequence
  <2>4. CASE LhWaitForPendingRemovals(t) \/ CompareEntry(t) \/ RestoreEntry(t) \/ Drain(t) \/ ReleaseSlot(t)
    <3>1. Quietly(t)
      BY <2>4 DEF Quietly
    <3> QED
      BY <3>1, QuietAdvances, QuietKeepsSequence
  <2>5. CASE FreeHook(t)
    BY <1>1, <2>5, StepFrees, FreeKeepsSequence DEF Crash
  <2> QED
    BY <1>4, <2>1, <2>2, <2>3, <2>4, <2>5 DEF Wait, WaitStep
<1>5. ASSUME NEW t \in Threads, NEW d \in Levels, Trampoline(t, d) PROVE SequenceInv'
  BY <1>5, TrampolineWrites, SequenceRests
<1>6. CASE UNCHANGED vars
  BY <1>1, <1>6 DEF vars
<1> QED
  BY <1>2, <1>3, <1>4, <1>5, <1>6 DEF Next

\* What the API works on is mapped.
LEMMA SequenceReachesLivePages ==
  TypeInv /\ HandleInv /\ SequenceInv => ApiReachesLivePages
<1> SUFFICES ASSUME TypeInv, HandleInv, SequenceInv PROVE ApiReachesLivePages
  OBVIOUS
<1>1. ASSUME NEW k \in Handles, link[k] # NULL, dll # "unloaded" PROVE Live(link[k])
  BY <1>1, CoreTyped DEF SequenceInv, LinkedAreArmed, ArmedAreLive
<1>2. ASSUME NEW t \in Threads, op[t].hook # NULL, op[t].pc # "unwind" PROVE Live(op[t].hook)
  <2>1. op[t].pc \in WorkPcs \/ op[t].pc \in InstallPcs \ {"unwind"}
    <3>1. op[t].pc \in {"idle"} \cup InstallPcs \cup WaitPcs
      BY CoreTyped DEF OpRecord
    <3> QED
      BY <1>2, <3>1 DEF SequenceInv, CallsAreSequential, WorkPcs, WaitPcs
  <2>2. CASE op[t].pc \in WorkPcs
    BY <2>2 DEF SequenceInv, RemovedAreLive
  <2>3. CASE op[t].pc \in InstallPcs \ {"unwind"}
    <3>1. hook[op[t].hook].HookProc /\ op[t].hook \in Hooks
      BY <2>3, CoreTyped DEF SequenceInv, ArmedAreLive, HandleInv, InstallsAreApart
    <3> QED
      BY <3>1 DEF SequenceInv, ArmedAreLive
  <2> QED
    BY <2>1, <2>2, <2>3
<1> QED
  BY <1>1, <1>2 DEF ApiReachesLivePages

----------------------------------------------------------------------------
(* One control thread: entry points lead to mapped pages. *)

\* A hook is not entered in these positions: not yet at its entry point, or not any more.
UnchainedPcs == {"backup", "register", "unwind", "patch", "drain", "release", "free"}

\* The hooks behind the entry points: each is entered from one place, an entry point or the hook
\* that was stacked upon it, and the last one leads back to the function.
Chains(S) ==
  /\ \A h \in S : /\ Live(h) /\ hook[h].OldProc \in S \cup {Original}
                  /\ hook[h].TargetBackup = hook[h].OldProc
  /\ \A f \in Targets : entry[f] \in S \cup {Original}
  /\ \A f \in Targets, h \in S : hook[h].OldProc = entry[f] => entry[f] = Original
  /\ \A f, g \in Targets : entry[f] = entry[g] /\ f # g => entry[f] = Original
  /\ \A g, h \in S : hook[g].OldProc = hook[h].OldProc /\ g # h => hook[g].OldProc = Original
  /\ \A t \in Threads : op[t].pc \in UnchainedPcs => op[t].hook \notin S

\* What an install has read of the entry point is still there when it patches it, and what a wait
\* has compared when it restores it.
StandsStill(t) ==
  /\ op[t].pc \in {"backup", "register", "patch"} =>
       hook[op[t].hook].OldProc = entry[hook[op[t].hook].TargetProc]
  /\ op[t].pc \in {"register", "patch"} =>
       hook[op[t].hook].TargetBackup = entry[hook[op[t].hook].TargetProc]
  /\ op[t].pc = "restore" => entry[hook[op[t].hook].TargetProc] = op[t].hook

ChainInv ==
  /\ \A t \in Threads : StandsStill(t)
  /\ \E S \in SUBSET Hooks : dll # "unloaded" => Chains(S)

\* Initially nothing is patched.
LEMMA InitChainInv == Init => ChainInv
<1> SUFFICES ASSUME Init PROVE ChainInv
  OBVIOUS
<1>1. \A t \in Threads : StandsStill(t)
  BY DEF Init, IdleOp, StandsStill
<1>2. Chains({})
  BY DEF Init, IdleOp, Chains, UnchainedPcs
<1> QED
  BY <1>1, <1>2 DEF ChainInv

\* A step that leaves the entry points and the chained hooks as they are.
ChainsStay(t) ==
  /\ UNCHANGED entry
  /\ \A u \in Threads \ {t} : op'[u].pc = "idle"
  /\ dll' # "unloaded" =>
       /\ dll # "unloaded"
       /\ \A h \in Hooks : Live(h) /\ ~ (op[t].hook = h /\ op[t].pc \in UnchainedPcs) =>
            hook'[h].page = "live" /\ SamePlace(h)
  /\ op'[t].pc \in UnchainedPcs =>
       \/ op[t].pc \in UnchainedPcs /\ op'[t].hook = op[t].hook
       \/ hook[op'[t].hook].page # "live"

LEMMA ChainsKept ==
  ASSUME TypeInv, ChainInv, NEW t \in Threads, ChainsStay(t), StandsStill(t)'
  PROVE  ChainInv'
<1>1. \A u \in Threads : StandsStill(u)'
  BY DEF ChainsStay, StandsStill
<1>2. ASSUME dll' # "unloaded" PROVE \E S \in SUBSET Hooks : Chains(S)'
  <2>1. PICK S \in SUBSET Hooks : Chains(S)
    BY <1>2 DEF ChainInv, ChainsStay
  <2>2. \A h \in S : hook'[h].page = "live" /\ SamePlace(h)
    BY <1>2, <2>1 DEF Chains, ChainsStay
  <2>3. /\ \A h \in S : /\ Live(h)' /\ hook'[h].OldProc \in S \cup {Original}
                        /\ hook'[h].TargetBackup = hook'[h].OldProc
        /\ \A f \in Targets : entry'[f] \in S \cup {Original}
    BY <2>1, <2>2 DEF Chains, ChainsStay, Live, SamePlace
  <2>4. /\ \A f \in Targets, h \in S : hook'[h].OldProc = entry'[f] => entry'[f] = Original
        /\ \A f, g \in Targets : entry'[f] = entry'[g] /\ f # g => entry'[f] = Original
    BY <2>1, <2>2 DEF Chains, ChainsStay, SamePlace
  <2>5. \A g, h \in S : hook'[g].OldProc = hook'[h].OldProc /\ g # h => hook'[g].OldProc = Original
    BY <2>1, <2>2 DEF Chains, SamePlace
  <2>6. \A u \in Threads : op'[u].pc \in UnchainedPcs => op'[u].hook \notin S
    <3>1. op'[t].pc \in UnchainedPcs => op'[t].hook \notin S
      BY <2>1 DEF Chains, ChainsStay, Live
    <3>2. \A u \in Threads \ {t} : op'[u].pc \notin UnchainedPcs
      BY DEF ChainsStay, UnchainedPcs
    <3> QED
      BY <3>1, <3>2
  <2> QED
    BY <2>3, <2>4, <2>5, <2>6 DEF Chains
<1> QED
  BY <1>1, <1>2 DEF ChainInv

\* What the quiet steps do to the entry points, and which waits give a page up.
Stills(t) ==
  /\ UNCHANGED entry /\ op[t].pc \notin {"patch", "restore"}
  /\ op'[t].pc = "restore" => entry[hook[op[t].hook].TargetProc] = op[t].hook
  /\ op[t].pc = "compare" /\ op'[t].pc = "pop" => entry[hook[op[t].hook].TargetProc] # op[t].hook
  /\ op[t].pc = "drain" /\ op'[t].pc = "pop" => op[t].hook \in timedOut'
  /\ timedOut \subseteq timedOut'

Patches(t) ==
  /\ op[t].pc = "patch" /\ op'[t].pc = "publish" /\ timedOut' = timedOut
  /\ entry'[hook[op[t].hook].TargetProc] = op[t].hook
  /\ \A f \in Targets \ {hook[op[t].hook].TargetProc} : entry'[f] = entry[f]

Restores(t) ==
  /\ op[t].pc = "restore" /\ op'[t].pc = "drain" /\ timedOut' = timedOut
  /\ hook[op[t].hook].TargetProc \in Targets =>
       entry'[hook[op[t].hook].TargetProc] = hook[op[t].hook].TargetBackup
  /\ \A f \in Targets \ {hook[op[t].hook].TargetProc} : entry'[f] = entry[f]

LEMMA QuietEntries ==
  ASSUME TypeInv, NEW t \in Threads, Quietly(t)
  PROVE  Stills(t) \/ Patches(t) \/ Restores(t)
<1>1. CASE PatchEntry(t)
  <2>1. /\ op[t].pc = "patch" /\ op' = [op EXCEPT ![t].pc = "publish"] /\ timedOut' = timedOut
        /\ entry' = [entry EXCEPT ![hook[op[t].hook].TargetProc] = op[t].hook]
    BY <1>1 DEF PatchEntry, AtOp
  <2>2. hook[op[t].hook].TargetProc \in Targets
    BY <2>1, CoreTyped DEF InstallPcs
  <2>3. op'[t].pc = "publish"
    BY <2>1, CoreTyped DEF OpRecord
  <2> QED
    BY <2>1, <2>2, <2>3, CoreTyped DEF Patches
<1>2. CASE RestoreEntry(t)
  <2>1. /\ op[t].pc = "restore" /\ op' = [op EXCEPT ![t].pc = "drain"] /\ timedOut' = timedOut
        /\ entry' = [entry EXCEPT ![hook[op[t].hook].TargetProc] = hook[op[t].hook].TargetBackup]
    BY <1>2 DEF RestoreEntry, AtOp
  <2>2. op'[t].pc = "drain"
    BY <2>1, CoreTyped DEF OpRecord
  <2> QED
    BY <2>1, <2>2, CoreTyped DEF Restores
<1>3. CASE InstallFails(t) \/ RegisterSlot(t) \/ PublishHook(t) \/ LhWaitForPendingRemovals(t) \/ ReleaseSlot(t)
  <2>1. UNCHANGED <<entry, timedOut>> /\ op[t].pc \in {"register", "publish", "idle", "release"}
    BY <1>3 DEF InstallFails, RegisterSlot, PublishHook, LhWaitForPendingRemovals, ReleaseSlot, AtOp, MayCallApi
  <2>2. <<op[t].pc, op'[t].pc>> \in Moves \/ op'[t].pc = "pop"
    BY QuietAdvances DEF Advances
  <2> QED
    BY <2>1, <2>2 DEF Stills, Moves
<1>4. CASE CompareEntry(t)
  <2>1. /\ op[t].pc = "compare" /\ UNCHANGED <<entry, timedOut>>
        /\ op' = [op EXCEPT ![t].pc = IF entry[hook[op[t].hook].TargetProc] = op[t].hook THEN "restore" ELSE "pop",
                            ![t].hook = IF entry[hook[op[t].hook].TargetProc] = op[t].hook THEN op[t].hook ELSE NULL]
    BY <1>4 DEF CompareEntry, AtOp
  <2>2. op'[t].pc = IF entry[hook[op[t].hook].TargetProc] = op[t].hook THEN "restore" ELSE "pop"
    BY <2>1, CoreTyped DEF OpRecord
  <2> QED
    BY <2>1, <2>2 DEF Stills
<1>5. CASE Drain(t)
  <2>1. /\ op[t].pc = "drain" /\ UNCHANGED entry
        /\ \/ op' = [op EXCEPT ![t].pc = "release"] /\ UNCHANGED timedOut
           \/ op' = [op EXCEPT ![t].pc = "pop", ![t].hook = NULL] /\ timedOut' = timedOut \cup {op[t].hook}
           \/ op' = [op EXCEPT ![t].budget = op[t].budget - 1] /\ UNCHANGED timedOut
    BY <1>5 DEF Drain, AtOp
  <2>2. \/ op'[t].pc \in {"release", "drain"} /\ UNCHANGED timedOut
        \/ op'[t].pc = "pop" /\ timedOut' = timedOut \cup {op[t].hook}
    BY <2>1, CoreTyped DEF OpRecord
  <2> QED
    BY <2>1, <2>2 DEF Stills
<1> QED
  BY <1>1, <1>2, <1>3, <1>4, <1>5 DEF Quietly

\* All the steps by what they do to pages, calls and entry points.
Rests ==
  /\ UNCHANGED <<op, entry, removalList, dll, timedOut>>
  /\ \A h \in Hooks : SamePage(h)

Clears(t) ==
  /\ t \in Controllers /\ op[t].pc = "idle" /\ dll = "loaded" /\ dll' # "unloaded"
  /\ RemovesAll /\ UNCHANGED <<entry, timedOut>>
  /\ \/ UNCHANGED op
     \/ op'[t].pc = "pop" /\ op'[t].hook = NULL /\ \A u \in Threads \ {t} : op'[u] = op[u]

Acts(t) ==
  \/ \E f \in Targets, h \in Hooks, succeeds \in BOOLEAN : Allocates(t, f, h, succeeds)
  \/ BackupEntry(t)
  \/ Quietly(t) /\ Advances(t) /\ (Stills(t) \/ Patches(t) \/ Restores(t))
  \/ Frees(t)
  \/ Tracks(t)
  \/ \E k \in Handles : Removes(link[k])
  \/ Clears(t)
  \/ Pops(t)
  \/ Ends(t)

LEMMA StepActs ==
  ASSUME TypeInv, [Next]_vars
  PROVE  Rests \/ \E t \in Threads : Acts(t)
<1>1. ASSUME UNCHANGED <<hook, op, entry, removalList, dll, timedOut>> PROVE Rests
  BY <1>1 DEF Rests, SamePage, SamePlace
<1>2. ASSUME NEW t \in Threads, Quietly(t) PROVE Acts(t)
  BY <1>2, QuietAdvances, QuietEntries DEF Acts
<1>3. ASSUME NEW t \in Threads, Install(t) PROVE Rests \/ Acts(t)
  <2>1. CASE \E f \in Targets, k \in Handles, succeeds \in BOOLEAN : LhAllocateHook(t, f, k, succeeds)
    BY <2>1, AllocateAllocates DEF Acts
  <2>2. CASE InstallFails(t) \/ RegisterSlot(t) \/ PatchEntry(t) \/ PublishHook(t)
    BY <1>2, <2>2 DEF Quietly
  <2>3. CASE UnwindInstall(t)
    BY <1>1, <2>3, StepFrees DEF Crash, Acts
  <2>4. CASE TrackHook(t)
    BY <1>1, <2>4, TrackTracks DEF Crash, Acts
  <2>5. CASE BackupEntry(t)
    BY <2>5 DEF Acts
  <2> QED
    BY <1>3, <2>1, <2>2, <2>3, <2>4, <2>5 DEF Install
<1>4. ASSUME NEW t \in Threads, Uninstall(t) PROVE Rests \/ Acts(t)
  <2>1. CASE \E k \in Handles : LhUninstallHook(t, k)
    BY <2>1, UninstallRemoves DEF Acts
  <2>2. CASE \E k \in Handles : UseDanglingHandle(t, k)
    BY <1>1, <2>2 DEF UseDanglingHandle, Crash
  <2>3. CASE LhUninstallAllHooks(t)
    <3>1. Clears(t)
      BY <2>3, UninstallAllRemoves DEF LhUninstallAllHooks, MayCallApi, Clears
    <3> QED
      BY <3>1 DEF Acts
  <2> QED
    BY <1>4, <2>1, <2>2, <2>3 DEF Uninstall
<1>5. ASSUME NEW t \in Threads, Wait(t) PROVE Rests \/ Acts(t)
  <2>1. CASE LhCriticalFinalize(t)
    <3>1. /\ t \in Controllers /\ UninstallAll /\ op' = [op EXCEPT ![t] = WaitOp]
          /\ dll = "loaded" /\ dll' = "detaching" /\ op[t].pc = "idle" /\ UNCHANGED <<entry, timedOut>>
      BY <2>1 DEF LhCriticalFinalize, MayCallApi
    <3>2. op'[t].pc = "pop" /\ op'[t].hook = NULL /\ \A u \in Threads \ {t} : op'[u] = op[u]
      BY <3>1, CoreTyped DEF WaitOp
    <3>3. Clears(t)
      BY <3>1, <3>2, UninstallAllRemoves DEF Clears
    <3> QED
      BY <3>3 DEF Acts
  <2>2. CASE PopRemoval(t)
    BY <2>2, PopPops DEF Acts
  <2>3. CASE WaitReturns(t)
    BY <2>3, ReturnEnds DEF Acts
  <2>4. CASE LhWaitForPendingRemovals(t) \/ CompareEntry(t) \/ RestoreEntry(t) \/ Drain(t) \/ ReleaseSlot(t)
    BY <1>2, <2>4 DEF Quietly
  <2>5. CASE FreeHook(t)
    BY <1>1, <2>5, StepFrees DEF Crash, Acts
  <2> QED
    BY <1>5, <2>1, <2>2, <2>3, <2>4, <2>5 DEF Wait, WaitStep
<1>6. ASSUME NEW t \in Threads, NEW d \in Levels, Trampoline(t, d) PROVE Rests
  BY <1>6, TrampolineWrites DEF Rests, SamePage, SamePlace
<1>7. CASE UNCHANGED vars
  BY <1>1, <1>7 DEF vars
<1> QED
  BY <1>3, <1>4, <1>5, <1>6, <1>7 DEF Next

\* A page that was never used leads nowhere, and a mapped one is for a function.
PageInv ==
  \A h \in Hooks : /\ hook[h].page = "unused" => hook[h].OldProc = Original
                   /\ Live(h) => hook[h].TargetProc \in Targets

LEMMA InitPageInv == Init => PageInv
  BY DEF Init, BlankHook, PageInv, Live

\* The fields that say where a hook is are written while it is installed, and pages are unmapped once.
PagesGoOn ==
  \A h \in Hooks : /\ hook'[h].page \in {hook[h].page, "freed"}
                   /\ hook'[h].OldProc = hook[h].OldProc
                   /\ hook'[h].TargetProc = hook[h].TargetProc

LEMMA PagesKept == ASSUME PageInv, PagesGoOn PROVE PageInv'
  BY DEF PageInv, PagesGoOn, Live

LEMMA ActsGoOn ==
  ASSUME TypeInv, NEW t \in Threads, Acts(t)
  PROVE  PagesGoOn \/ \E f \in Targets, h \in Hooks, succeeds \in BOOLEAN : Allocates(t, f, h, succeeds)
<1>1. CASE BackupEntry(t)
  BY <1>1, BackupAdvances DEF PagesGoOn
<1>2. CASE Advances(t)
  BY <1>2 DEF Advances, SamePage, SamePlace, PagesGoOn
<1>3. CASE Frees(t)
  BY <1>3 DEF Frees, Unmaps, SamePlace, PagesGoOn
<1>4. CASE Tracks(t)
  BY <1>4 DEF Tracks, SamePlace, PagesGoOn
<1>5. CASE \E k \in Handles : Removes(link[k])
  BY <1>5 DEF Removes, SamePlace, PagesGoOn
<1>6. CASE Clears(t)
  BY <1>6 DEF Clears, RemovesAll, SamePlace, PagesGoOn
<1>7. CASE Pops(t)
  BY <1>7 DEF Pops, PagesGoOn
<1>8. CASE Ends(t)
  <2>1. \A h \in Hooks : hook'[h] \in {hook[h], Release(h)}
    BY <1>8 DEF Ends
  <2> QED
    BY <2>1, ReleaseTyped, FieldsKept DEF PagesGoOn
<1> QED
  BY <1>1, <1>2, <1>3, <1>4, <1>5, <1>6, <1>7, <1>8 DEF Acts

LEMMA PageInvStep == ASSUME TypeInv, PageInv, [Next]_vars PROVE PageInv'
<1>1. CASE Rests
  BY <1>1, PagesKept DEF Rests, SamePage, SamePlace, PagesGoOn
<1>2. ASSUME NEW t \in Threads, Acts(t) PROVE PageInv'
  <2>1. CASE \E f \in Targets, h \in Hooks, succeeds \in BOOLEAN : Allocates(t, f, h, succeeds)
    BY <2>1 DEF Allocates, PageInv, Live
  <2> QED
    BY <1>2, <2>1, ActsGoOn, PagesKept
<1> QED
  BY <1>1, <1>2, StepActs

\* Nothing changes while the calls rest.
LEMMA ChainsRest ==
  ASSUME TypeInv, ChainInv, UNCHANGED <<entry, op>>, dll' # "unloaded" => dll # "unloaded",
         \A h \in Hooks : SamePlace(h) /\ hook'[h].page = hook[h].page
  PROVE  ChainInv'
<1>1. \A u \in Threads : StandsStill(u)'
  <2> SUFFICES ASSUME NEW u \in Threads PROVE StandsStill(u)'
    OBVIOUS
  <2>1. StandsStill(u)
    BY DEF ChainInv
  <2>2. op[u].pc \in {"backup", "register", "patch", "restore"} => op[u].hook \in Hooks
    BY CoreTyped DEF InstallPcs, WorkPcs, WaitPcs
  <2> QED
    BY <2>1, <2>2 DEF StandsStill, SamePlace
<1>2. ASSUME dll' # "unloaded", NEW S \in SUBSET Hooks, Chains(S) PROVE Chains(S)'
  BY <1>2 DEF Chains, SamePlace, Live
<1> QED
  BY <1>1, <1>2 DEF ChainInv

\* The jump to the new hook is put before the chain of its function.
LEMMA PatchKeepsChains ==
  ASSUME OneController, TypeInv, PageInv, HandleInv, SequenceInv, ChainInv,
         NEW t \in Threads, Advances(t), Patches(t)
  PROVE  ChainInv'
<1> DEFINE h == op[t].hook
           f == hook[h].TargetProc
<1>1. /\ h \in Hooks /\ f \in Targets /\ Live(h) /\ h # Original
      /\ hook[h].OldProc = entry[f] /\ hook[h].TargetBackup = entry[f]
  <2>1. h \in Hooks /\ f \in Targets /\ h # Original /\ hook[h].HookProc
    BY CoreTyped DEF Patches, InstallPcs, HandleInv, InstallsAreApart
  <2>2. hook[h].OldProc = entry[f] /\ hook[h].TargetBackup = entry[f]
    BY DEF Patches, ChainInv, StandsStill
  <2> QED
    BY <2>1, <2>2 DEF SequenceInv, ArmedAreLive
<1>2. /\ \A g \in Hooks : SamePlace(g) /\ hook'[g].page = hook[g].page
      /\ op[t].pc = "patch" /\ op'[t].pc = "publish"
      /\ \A u \in Threads \ {t} : op'[u].pc = "idle"
      /\ entry'[f] = h /\ \A g \in Targets \ {f} : entry'[g] = entry[g]
      /\ dll' = dll
  BY OthersIdle DEF Advances, SamePage, Patches, SequenceInv
<1> HIDE DEF h, f
<1>3. \A u \in Threads : StandsStill(u)' /\ op'[u].pc \notin UnchainedPcs
  BY <1>2 DEF StandsStill, UnchainedPcs
<1>4. ASSUME dll # "unloaded" PROVE \E S \in SUBSET Hooks : Chains(S)'
  <2>1. PICK S \in SUBSET Hooks : Chains(S)
    BY <1>4 DEF ChainInv
  <2>2. /\ \A g \in S : /\ Live(g) /\ hook[g].OldProc \in S \cup {Original}
                        /\ hook[g].TargetBackup = hook[g].OldProc
        /\ \A e \in Targets : entry[e] \in S \cup {Original}
        /\ \A e \in Targets, g \in S : hook[g].OldProc = entry[e] => entry[e] = Original
        /\ \A d, e \in Targets : entry[d] = entry[e] /\ d # e => entry[d] = Original
        /\ \A d, g \in S : hook[d].OldProc = hook[g].OldProc /\ d # g => hook[d].OldProc = Original
        /\ h \notin S
    BY <1>2, <2>1 DEF Chains, UnchainedPcs, h
  <2>r. PICK R \in SUBSET Hooks : R = S \cup {h}
    BY <1>1, <2>1
  <2>3. \A g \in R : /\ Live(g)' /\ hook'[g].OldProc \in R \cup {Original}
                     /\ hook'[g].TargetBackup = hook'[g].OldProc
    BY <2>r, <1>1, <1>2, <2>2 DEF SamePlace, Live
  <2>4. \A e \in Targets : entry'[e] \in R \cup {Original}
    BY <2>r, <1>2, <2>2
  <2>5. \A e \in Targets, g \in R : hook'[g].OldProc = entry'[e] => entry'[e] = Original
    <3> SUFFICES ASSUME NEW e \in Targets, NEW g \in R, hook'[g].OldProc = entry'[e]
                 PROVE  entry'[e] = Original
      OBVIOUS
    <3>1. hook'[g].OldProc = hook[g].OldProc /\ hook[g].OldProc \in S \cup {Original}
      BY <2>r, <1>1, <1>2, <2>2 DEF SamePlace
    <3>2. e # f /\ entry'[e] = entry[e]
      BY <2>r, <1>1, <1>2, <2>2, <3>1
    <3>3. CASE g = h
      BY <2>r, <1>1, <2>2, <3>1, <3>2, <3>3
    <3>4. CASE g \in S
      BY <2>r, <2>2, <3>1, <3>2, <3>4
    <3> QED
      BY <2>r, <3>3, <3>4
  <2>6. \A d, e \in Targets : entry'[d] = entry'[e] /\ d # e => entry'[d] = Original
    BY <2>r, <1>1, <1>2, <2>2
  <2>7. \A d, g \in R : hook'[d].OldProc = hook'[g].OldProc /\ d # g => hook'[d].OldProc = Original
    BY <2>r, <1>1, <1>2, <2>2 DEF SamePlace
  <2>8. Chains(R)'
    BY <2>r, <1>1, <1>3, <2>3, <2>4, <2>5, <2>6, <2>7 DEF Chains
  <2> QED
    BY <2>8
<1> QED
  BY <1>2, <1>3, <1>4 DEF ChainInv

\* The first hook of a chain is taken away.
LEMMA RestoreKeepsChains ==
  ASSUME OneController, TypeInv, PageInv, HandleInv, SequenceInv, ChainInv,
         NEW t \in Threads, Advances(t), Restores(t)
  PROVE  ChainInv'
<1> DEFINE h == op[t].hook
           f == hook[h].TargetProc
<1>1. h \in Hooks /\ f \in Targets /\ h # Original /\ entry[f] = h
  <2>1. h \in Hooks /\ Live(h) /\ h # Original
    BY CoreTyped DEF Restores, WorkPcs, WaitPcs, SequenceInv, RemovedAreLive
  <2> QED
    BY <2>1 DEF Restores, ChainInv, StandsStill, PageInv
<1>2. /\ \A g \in Hooks : SamePlace(g) /\ hook'[g].page = hook[g].page
      /\ op'[t].pc = "drain" /\ op'[t].hook = h
      /\ \A u \in Threads \ {t} : op'[u].pc = "idle"
      /\ entry'[f] = hook[h].TargetBackup /\ \A g \in Targets \ {f} : entry'[g] = entry[g]
      /\ dll' = dll
  BY <1>1, OthersIdle DEF Advances, SamePage, Restores, SequenceInv, Moves
<1> HIDE DEF h, f
<1>3. \A u \in Threads : StandsStill(u)' /\ (u # t => op'[u].pc \notin UnchainedPcs)
  BY <1>2 DEF StandsStill, UnchainedPcs
<1>4. ASSUME dll # "unloaded" PROVE \E S \in SUBSET Hooks : Chains(S)'
  <2>1. PICK S \in SUBSET Hooks : Chains(S)
    BY <1>4 DEF ChainInv
  <2>2. /\ \A g \in S : /\ Live(g) /\ hook[g].OldProc \in S \cup {Original}
                        /\ hook[g].TargetBackup = hook[g].OldProc
        /\ \A e \in Targets : entry[e] \in S \cup {Original}
        /\ \A e \in Targets, g \in S : hook[g].OldProc = entry[e] => entry[e] = Original
        /\ \A d, e \in Targets : entry[d] = entry[e] /\ d # e => entry[d] = Original
        /\ \A d, g \in S : hook[d].OldProc = hook[g].OldProc /\ d # g => hook[d].OldProc = Original
    BY <2>1 DEF Chains
  <2>3. /\ h \in S /\ \A g \in S : hook[g].OldProc # h
        /\ entry'[f] = hook[h].OldProc
    BY <1>1, <1>2, <2>2
  <2>r. PICK R \in SUBSET Hooks : R = S \ {h}
    BY <1>1, <2>1
  <2>4. \A g \in R : /\ Live(g)' /\ hook'[g].OldProc \in R \cup {Original}
                     /\ hook'[g].TargetBackup = hook'[g].OldProc
    BY <2>r, <1>2, <2>2, <2>3 DEF SamePlace, Live
  <2>5. \A e \in Targets : entry'[e] \in R \cup {Original}
    BY <2>r, <1>1, <1>2, <2>2, <2>3
  <2>6. \A e \in Targets, g \in R : hook'[g].OldProc = entry'[e] => entry'[e] = Original
    <3> SUFFICES ASSUME NEW e \in Targets, NEW g \in R, hook'[g].OldProc = entry'[e]
                 PROVE  entry'[e] = Original
      OBVIOUS
    <3>1. hook'[g].OldProc = hook[g].OldProc
      BY <2>r, <1>2 DEF SamePlace
    <3>2. CASE e = f
      BY <2>r, <2>2, <2>3, <3>1, <3>2
    <3>3. CASE e # f
      <4>1. entry'[e] = entry[e] /\ hook[g].OldProc = entry[e] /\ g \in S
        BY <2>r, <1>2, <3>1, <3>3
      <4> QED
        BY <2>2, <4>1
    <3> QED
      BY <2>r, <3>2, <3>3
  <2>7. \A d, e \in Targets : entry'[d] = entry'[e] /\ d # e => entry'[d] = Original
    BY <2>r, <1>2, <2>2, <2>3
  <2>8. \A d, g \in R : hook'[d].OldProc = hook'[g].OldProc /\ d # g => hook'[d].OldProc = Original
    BY <2>r, <1>2, <2>2 DEF SamePlace
  <2>9. \A u \in Threads : op'[u].pc \in UnchainedPcs => op'[u].hook \notin R
    BY <2>r, <1>2, <1>3
  <2>10. Chains(R)'
    BY <2>r, <2>4, <2>5, <2>6, <2>7, <2>8, <2>9 DEF Chains
  <2> QED
    BY <2>10
<1> QED
  BY <1>2, <1>3, <1>4 DEF ChainInv

\* Every other step leaves the chains alone.
LEMMA ChainInvStep ==
  ASSUME OneController, TypeInv, PageInv, HandleInv, SequenceInv, ChainInv, [Next]_vars
  PROVE  ChainInv'
<1>1. CASE Rests
  BY <1>1, ChainsRest DEF Rests, SamePage
<1>2. ASSUME NEW t \in Threads, Acts(t), t \in Controllers \/ op[t].pc # "idle",
             \A u \in Threads \ {t} : op'[u] = op[u]
      PROVE  ChainInv'
  <2>0. \A u \in Threads \ {t} : op'[u].pc = "idle"
    BY <1>2, OthersIdle DEF SequenceInv
  <2>1. CASE \E f \in Targets, h \in Hooks, succeeds \in BOOLEAN : Allocates(t, f, h, succeeds)
    <3>1. PICK f \in Targets, h \in Hooks, succeeds \in BOOLEAN : Allocates(t, f, h, succeeds)
      BY <2>1
    <3>2. ChainsStay(t)
      BY <2>0, <3>1 DEF Allocates, ChainsStay, Live, SamePlace
    <3>3. StandsStill(t)'
      BY <3>1 DEF Allocates, StandsStill
    <3> QED
      BY <3>2, <3>3, ChainsKept
  <2>2. CASE BackupEntry(t)
    <3>1. ChainsStay(t)
      BY <2>0, <2>2, BackupAdvances DEF ChainsStay, UnchainedPcs, SamePlace, Live
    <3>2. StandsStill(t)'
      BY <2>2, BackupAdvances DEF StandsStill, ChainInv
    <3> QED
      BY <3>1, <3>2, ChainsKept
  <2>3. CASE Advances(t) /\ Stills(t)
    <3>1. ChainsStay(t)
      BY <2>0, <2>3 DEF Advances, Stills, Moves, ChainsStay, UnchainedPcs, SamePage, Live
    <3>2. StandsStill(t)'
      <4>1. op'[t].pc \notin {"backup", "register"}
        BY <2>3 DEF Advances, Moves
      <4>2. CASE op'[t].pc = "patch"
        <5>1. op[t].pc = "register" /\ op'[t].hook = op[t].hook /\ op[t].hook \in Hooks
          BY <2>3, <4>2, CoreTyped DEF Advances, Moves, InstallPcs
        <5>2. SamePlace(op[t].hook)
          BY <2>3, <5>1 DEF Advances, SamePage
        <5> QED
          BY <2>3, <4>2, <5>1, <5>2 DEF ChainInv, StandsStill, SamePlace, Stills
      <4>3. CASE op'[t].pc = "restore"
        <5>1. op[t].pc = "compare" /\ op'[t].hook = op[t].hook /\ op[t].hook \in Hooks
          BY <2>3, <4>3, CoreTyped DEF Advances, Moves, WorkPcs, WaitPcs
        <5>2. SamePlace(op[t].hook)
          BY <2>3, <5>1 DEF Advances, SamePage
        <5> QED
          BY <2>3, <4>3, <5>1, <5>2 DEF StandsStill, SamePlace, Stills
      <4> QED
        BY <4>1, <4>2, <4>3 DEF StandsStill
    <3> QED
      BY <3>1, <3>2, ChainsKept
  <2>4. CASE Frees(t)
    <3>1. ChainsStay(t)
      BY <2>0, <2>4 DEF Frees, Unmaps, ChainsStay, UnchainedPcs, SamePlace, Live
    <3>2. StandsStill(t)'
      BY <2>4 DEF Frees, StandsStill
    <3> QED
      BY <3>1, <3>2, ChainsKept
  <2>5. CASE Tracks(t)
    <3>1. ChainsStay(t)
      BY <2>0, <2>5 DEF Tracks, ChainsStay, UnchainedPcs, Live
    <3>2. StandsStill(t)'
      BY <2>5 DEF Tracks, StandsStill
    <3> QED
      BY <3>1, <3>2, ChainsKept
  <2>6. CASE Pops(t)
    <3>1. ChainsStay(t)
      BY <2>0, <2>6 DEF Pops, ChainsStay, UnchainedPcs, SamePlace, Live
    <3>2. StandsStill(t)'
      BY <2>6 DEF Pops, StandsStill
    <3> QED
      BY <3>1, <3>2, ChainsKept
  <2>7. CASE Ends(t)
    <3>1. ChainsStay(t)
      BY <2>0, <2>7 DEF Ends, ChainsStay, UnchainedPcs, SamePlace, Live
    <3>2. StandsStill(t)'
      BY <2>7 DEF Ends, StandsStill
    <3> QED
      BY <3>1, <3>2, ChainsKept
  <2>8. CASE \E k \in Handles : Removes(link[k])
    BY <2>8, ChainsRest DEF Removes, SamePlace
  <2>9. CASE Clears(t)
    <3>1. CASE UNCHANGED op
      BY <2>9, <3>1, ChainsRest DEF Clears, RemovesAll
    <3>2. CASE op'[t].pc = "pop"
      <4>1. ChainsStay(t)
        BY <2>0, <2>9, <3>2 DEF Clears, RemovesAll, ChainsStay, UnchainedPcs, Live
      <4>2. StandsStill(t)'
        BY <3>2 DEF StandsStill
      <4> QED
        BY <4>1, <4>2, ChainsKept
    <3> QED
      BY <2>9, <3>1, <3>2 DEF Clears
  <2> QED
    BY <1>2, <2>1, <2>2, <2>3, <2>4, <2>5, <2>6, <2>7, <2>8, <2>9,
       PatchKeepsChains, RestoreKeepsChains DEF Acts
<1>3. ASSUME NEW t \in Threads, Acts(t)
      PROVE  \/ \E k \in Handles : Removes(link[k])
             \/ /\ t \in Controllers \/ op[t].pc # "idle"
                /\ \A u \in Threads \ {t} : op'[u] = op[u]
  BY <1>3, BackupAdvances DEF Acts, Allocates, Advances, Frees, Tracks, Clears, Pops, Ends
<1>4. CASE \E k \in Handles : Removes(link[k])
  BY <1>4, ChainsRest DEF Removes, SamePlace
<1> QED
  BY <1>1, <1>2, <1>3, <1>4, StepActs

\* The chains are closed: what a call may run through is one of their hooks.
LEMMA ChainsReachLivePages == TypeInv /\ ChainInv => EntriesReachLivePages
<1> SUFFICES ASSUME TypeInv, ChainInv, dll # "unloaded" PROVE \A h \in Reachable : Live(h)
  BY DEF EntriesReachLivePages
<1>1. PICK S \in SUBSET Hooks : Chains(S)
  BY DEF ChainInv
<1>2. /\ Range(entry) \subseteq S \cup {Original}
      /\ \A h \in S : Live(h) /\ hook[h].OldProc \in S \cup {Original}
  BY <1>1, CoreTyped DEF Chains, Range
<1> QED
  BY <1>2 DEF Reachable

----------------------------------------------------------------------------
(* One control thread: pages and slots are given up for a reason. *)

\* A patched hook is at its entry point until it is restored, or another is stacked upon it.
Patched(h) ==
  /\ Live(h) /\ h \notin timedOut
  /\ \A t \in Threads : op[t].hook = h => op[t].pc \notin UnchainedPcs

Stacked(h) == \E g \in Hooks \ {h} : hook[g].OldProc = h

PatchedAreFound ==
  \A h \in Hooks : Patched(h) => entry[hook[h].TargetProc] = h \/ Stacked(h)

\* A page that nobody is going to unmap.
GivenUp(h) == Live(h) /\ ~ hook[h].HookProc /\ h \notin Range(removalList) /\ ~ InWait(h)

LeakInv == PatchedAreFound /\ \A h \in Hooks : GivenUp(h) => h \in timedOut \/ Stacked(h)

LEMMA InitLeakInv == Init => LeakInv
  BY DEF Init, BlankHook, Live, Patched, PatchedAreFound, GivenUp, LeakInv

\* What another hook was stacked upon stays below it.
LEMMA StackedStays ==
  ASSUME TypeInv, PageInv, Rests \/ \E t \in Threads : Acts(t), NEW h \in Hooks, Stacked(h)
  PROVE  Stacked(h)'
<1>1. PICK g \in Hooks \ {h} : hook[g].OldProc = h
  BY DEF Stacked
<1>2. hook'[g].OldProc = h
  <2>1. CASE Rests
    BY <1>1, <2>1 DEF Rests, SamePage, SamePlace
  <2>2. CASE PagesGoOn
    BY <1>1, <2>2 DEF PagesGoOn
  <2>3. CASE \E t \in Threads, f \in Targets, e \in Hooks, succeeds \in BOOLEAN : Allocates(t, f, e, succeeds)
    <3>1. hook[g].page # "unused"
      BY <1>1, CoreTyped DEF PageInv
    <3> QED
      BY <1>1, <2>3, <3>1 DEF Allocates
  <2> QED
    BY <2>1, <2>2, <2>3, ActsGoOn
<1> QED
  BY <1>1, <1>2 DEF Stacked

\* A step that puts no hook at an entry point, and takes none from it ...
FindsNoOther(t) ==
  /\ UNCHANGED entry /\ timedOut \subseteq timedOut'
  /\ \A u \in Threads \ {t} : op'[u] = op[u]
  /\ \A h \in Hooks : Live(h)' => \/ Live(h) /\ hook'[h].TargetProc = hook[h].TargetProc
                                  \/ op'[t].hook = h /\ op'[t].pc \in UnchainedPcs
  /\ op[t].pc \in UnchainedPcs =>
       \/ op'[t].pc \in UnchainedPcs /\ op'[t].hook = op[t].hook
       \/ hook'[op[t].hook].page # "live" \/ op[t].hook \in timedOut'

LEMMA FoundStay ==
  ASSUME TypeInv, PatchedAreFound, NEW t \in Threads, FindsNoOther(t),
         \A h \in Hooks : Stacked(h) => Stacked(h)'
  PROVE  PatchedAreFound'
<1> SUFFICES ASSUME NEW h \in Hooks, Patched(h)'
             PROVE  entry'[hook'[h].TargetProc] = h \/ Stacked(h)'
  BY DEF PatchedAreFound
<1>1. /\ Live(h)' /\ h \notin timedOut'
      /\ \A u \in Threads : op'[u].hook = h => op'[u].pc \notin UnchainedPcs
  BY DEF Patched
<1>2. Live(h) /\ hook'[h].TargetProc = hook[h].TargetProc /\ h \notin timedOut
  BY <1>1 DEF FindsNoOther
<1>3. \A u \in Threads : op[u].hook = h => op[u].pc \notin UnchainedPcs
  <2>1. \A u \in Threads \ {t} : op[u].hook = h => op[u].pc \notin UnchainedPcs
    BY <1>1 DEF FindsNoOther
  <2>2. op[t].hook = h => op[t].pc \notin UnchainedPcs
    BY <1>1 DEF FindsNoOther, Live
  <2> QED
    BY <2>1, <2>2
<1> QED
  BY <1>2, <1>3 DEF Patched, PatchedAreFound, FindsNoOther

\* ... while the calls rest ...
LEMMA FoundRest ==
  ASSUME TypeInv, PatchedAreFound, UNCHANGED <<entry, op, timedOut>>,
         \A h \in Hooks : SamePlace(h) /\ hook'[h].page = hook[h].page,
         \A h \in Hooks : Stacked(h) => Stacked(h)'
  PROVE  PatchedAreFound'
  BY DEF PatchedAreFound, Patched, SamePlace, Live

\* ... the one that puts a hook there, upon the one it found ...
LEMMA PatchFinds ==
  ASSUME OneController, TypeInv, PageInv, SequenceInv, ChainInv, PatchedAreFound,
         NEW t \in Threads, Advances(t), Patches(t),
         \A h \in Hooks : Stacked(h) => Stacked(h)'
  PROVE  PatchedAreFound'
<1> DEFINE h == op[t].hook
           f == hook[h].TargetProc
<1>1. h \in Hooks /\ f \in Targets /\ hook[h].OldProc = entry[f]
  BY CoreTyped DEF Patches, InstallPcs, ChainInv, StandsStill
<1>2. /\ \A g \in Hooks : SamePlace(g) /\ hook'[g].page = hook[g].page
      /\ \A u \in Threads \ {t} : op'[u] = op[u]
      /\ entry'[f] = h /\ \A g \in Targets \ {f} : entry'[g] = entry[g]
      /\ timedOut' = timedOut /\ op[t].pc = "patch"
  BY DEF Advances, SamePage, Patches
<1> HIDE DEF f
<1> SUFFICES ASSUME NEW g \in Hooks, Patched(g)'
             PROVE  entry'[hook'[g].TargetProc] = g \/ Stacked(g)'
  BY DEF PatchedAreFound
<1>3. CASE g = h
  BY <1>1, <1>2, <1>3 DEF SamePlace, f
<1>4. CASE g # h
  <2>1. Live(g) /\ g \notin timedOut
    BY <1>2 DEF Patched, Live
  <2>2. \A u \in Threads : op[u].hook = g => op[u].pc \notin UnchainedPcs
    BY <1>2, <1>4 DEF Patched
  <2>3. entry[hook[g].TargetProc] = g \/ Stacked(g)
    BY <2>1, <2>2 DEF Patched, PatchedAreFound
  <2>4. hook[g].TargetProc \in Targets /\ hook'[g].TargetProc = hook[g].TargetProc
    BY <1>2, <2>1 DEF PageInv, SamePlace
  <2>5. CASE entry[hook[g].TargetProc] = g /\ hook[g].TargetProc = f
    <3>1. hook'[h].OldProc = g
      BY <1>1, <1>2, <2>5 DEF SamePlace
    <3>2. PICK x \in Hooks : x = h
      BY <1>1
    <3> QED
      BY <1>4, <3>1, <3>2 DEF Stacked
  <2> QED
    BY <1>2, <2>3, <2>4, <2>5
<1> QED
  BY <1>3, <1>4

\* ... and the one that takes the first away.
LEMMA RestoreFinds ==
  ASSUME OneController, TypeInv, PageInv, SequenceInv, ChainInv, PatchedAreFound,
         NEW t \in Threads, Advances(t), Restores(t),
         \A h \in Hooks : Stacked(h) => Stacked(h)'
  PROVE  PatchedAreFound'
<1> DEFINE h == op[t].hook
           f == hook[h].TargetProc
<1>1. entry[f] = h
  BY DEF Restores, ChainInv, StandsStill
<1>2. /\ \A g \in Hooks : SamePlace(g) /\ hook'[g].page = hook[g].page
      /\ \A u \in Threads \ {t} : op'[u] = op[u]
      /\ \A g \in Targets \ {f} : entry'[g] = entry[g]
      /\ timedOut' = timedOut /\ op[t].pc = "restore" /\ op'[t].pc = "drain" /\ op'[t].hook = h
  BY DEF Advances, SamePage, Restores, Moves
<1> HIDE DEF f
<1> SUFFICES ASSUME NEW g \in Hooks, Patched(g)'
             PROVE  entry'[hook'[g].TargetProc] = g \/ Stacked(g)'
  BY DEF PatchedAreFound
<1>3. g # h
  BY <1>2 DEF Patched, UnchainedPcs
<1>4. Live(g) /\ g \notin timedOut
  BY <1>2 DEF Patched, Live
<1>5. \A u \in Threads : op[u].hook = g => op[u].pc \notin UnchainedPcs
  BY <1>2, <1>3 DEF Patched
<1>6. entry[hook[g].TargetProc] = g \/ Stacked(g)
  BY <1>4, <1>5 DEF Patched, PatchedAreFound
<1>7. hook[g].TargetProc \in Targets /\ hook'[g].TargetProc = hook[g].TargetProc
  BY <1>2, <1>4 DEF PageInv, SamePlace
<1> QED
  BY <1>1, <1>2, <1>3, <1>6, <1>7

LEMMA PatchedAreFoundStep ==
  ASSUME OneController, TypeInv, PageInv, SequenceInv, ChainInv, PatchedAreFound, [Next]_vars
  PROVE  PatchedAreFound'
<1>0. (\A h \in Hooks : Stacked(h) => Stacked(h)') /\ (Rests \/ \E t \in Threads : Acts(t))
  BY StepActs, StackedStays
<1>1. CASE Rests
  BY <1>0, <1>1, FoundRest DEF Rests, SamePage
<1>2. ASSUME NEW t \in Threads, Acts(t) PROVE PatchedAreFound'
  <2>1. CASE \E f \in Targets, h \in Hooks, succeeds \in BOOLEAN : Allocates(t, f, h, succeeds)
    <3>1. FindsNoOther(t)
      BY <2>1 DEF Allocates, FindsNoOther, UnchainedPcs, Live
    <3> QED
      BY <1>0, <3>1, FoundStay
  <2>2. CASE BackupEntry(t)
    <3>1. FindsNoOther(t)
      BY <2>2, BackupAdvances DEF FindsNoOther, UnchainedPcs, Live
    <3> QED
      BY <1>0, <3>1, FoundStay
  <2>3. CASE Advances(t) /\ Stills(t)
    <3>1. \A h \in Hooks : Live(h)' => Live(h) /\ hook'[h].TargetProc = hook[h].TargetProc
      BY <2>3 DEF Advances, SamePage, SamePlace, Live
    <3>2. op[t].pc \in UnchainedPcs =>
            \/ op'[t].pc \in UnchainedPcs /\ op'[t].hook = op[t].hook
            \/ op[t].hook \in timedOut'
      BY <2>3 DEF Advances, Stills, Moves, UnchainedPcs
    <3>3. FindsNoOther(t)
      BY <2>3, <3>1, <3>2 DEF FindsNoOther, Advances, Stills
    <3> QED
      BY <1>0, <3>3, FoundStay
  <2>4. CASE Frees(t)
    <3>1. FindsNoOther(t)
      BY <2>4 DEF Frees, Unmaps, SamePlace, FindsNoOther, Live
    <3> QED
      BY <1>0, <3>1, FoundStay
  <2>5. CASE Tracks(t)
    <3>1. FindsNoOther(t)
      BY <2>5 DEF Tracks, SamePlace, FindsNoOther, UnchainedPcs, Live
    <3> QED
      BY <1>0, <3>1, FoundStay
  <2>6. CASE Pops(t)
    <3>1. FindsNoOther(t)
      BY <2>6 DEF Pops, FindsNoOther, UnchainedPcs, Live
    <3> QED
      BY <1>0, <3>1, FoundStay
  <2>7. CASE Ends(t)
    <3>1. \A h \in Hooks : Live(h)' => Live(h) /\ hook'[h].TargetProc = hook[h].TargetProc
      <4>1. \A h \in Hooks : hook'[h] \in {hook[h], Release(h)}
        BY <2>7 DEF Ends
      <4> QED
        BY <4>1, ReleaseTyped DEF Live
    <3>2. FindsNoOther(t)
      BY <2>7, <3>1 DEF Ends, FindsNoOther, UnchainedPcs
    <3> QED
      BY <1>0, <3>2, FoundStay
  <2>8. CASE \E k \in Handles : Removes(link[k])
    BY <1>0, <2>8, FoundRest DEF Removes, SamePlace
  <2>9. CASE Clears(t)
    <3>1. FindsNoOther(t)
      BY <2>9 DEF Clears, RemovesAll, SamePlace, FindsNoOther, UnchainedPcs, Live
    <3> QED
      BY <1>0, <3>1, FoundStay
  <2> QED
    BY <1>0, <1>2, <2>1, <2>2, <2>3, <2>4, <2>5, <2>6, <2>7, <2>8, <2>9, PatchFinds, RestoreFinds DEF Acts
<1> QED
  BY <1>0, <1>1, <1>2

\* A step after which nothing more is given up.
GivesUpNoOther(h) == GivenUp(h)' => GivenUp(h) \/ h \in timedOut' \/ Stacked(h)'

\* Calls in progress do not lose their hooks.
HoldsHook(t, h) == op[t].hook = h /\ op[t].pc \in WaitPcs

LEMMA WaitStays ==
  ASSUME NEW t \in Threads, NEW h \in Hooks, \A u \in Threads \ {t} : op'[u] = op[u], InWait(h),
         HoldsHook(t, h) => op'[t].hook = h /\ op'[t].pc \in WaitPcs
  PROVE  InWait(h)'
  BY DEF InWait, HoldsHook

\* A wait leaves a page behind when the entry point was hooked again, or when its time is up.
LEMMA QuietGivesUp ==
  ASSUME OneController, TypeInv, SequenceInv, PatchedAreFound, NEW t \in Threads,
         Advances(t), Stills(t) \/ Patches(t) \/ Restores(t), NEW h \in Hooks, Stacked(h) => Stacked(h)'
  PROVE  GivesUpNoOther(h)
<1> SUFFICES ASSUME GivenUp(h)', ~ GivenUp(h) PROVE h \in timedOut' \/ Stacked(h)'
  BY DEF GivesUpNoOther
<1>1. Live(h) /\ ~ hook[h].HookProc /\ h \notin Range(removalList)
  BY DEF GivenUp, Advances, SamePage, Live
<1>2. \A u \in Threads \ {t} : op'[u] = op[u] /\ op[u].hook # h
  BY OthersIdle, CoreTyped DEF Advances, SequenceInv
<1>3. InWait(h) /\ ~ InWait(h)'
  BY <1>1 DEF GivenUp
<1>4. HoldsHook(t, h) /\ op[t].pc \in WorkPcs
  <2>1. HoldsHook(t, h)
    BY <1>2, <1>3 DEF InWait, HoldsHook
  <2>2. op[t].pc # "pop"
    BY <2>1, CoreTyped DEF HoldsHook, SequenceInv, CallsAreSequential
  <2> QED
    BY <2>1, <2>2 DEF HoldsHook, WorkPcs
<1>5. ~ (op'[t].hook = h /\ op'[t].pc \in WaitPcs)
  BY <1>3 DEF InWait
<1>6. op'[t].pc = "pop" /\ op[t].pc \in {"compare", "drain"}
  BY <1>4, <1>5 DEF Advances, Moves, HoldsHook, WorkPcs, WaitPcs
<1>7. Stills(t)
  BY <1>6 DEF Patches, Restores
<1>8. CASE op[t].pc = "drain"
  BY <1>4, <1>6, <1>7, <1>8 DEF Stills, HoldsHook
<1>9. CASE op[t].pc = "compare"
  <2>1. entry[hook[h].TargetProc] # h
    BY <1>4, <1>6, <1>7, <1>9 DEF Stills, HoldsHook
  <2>2. \A u \in Threads : op[u].hook = h => op[u].pc \notin UnchainedPcs
    BY <1>2, <1>9 DEF UnchainedPcs
  <2>3. h \in timedOut \/ Stacked(h)
    BY <1>1, <2>1, <2>2 DEF PatchedAreFound, Patched
  <2> QED
    BY <1>7, <2>3 DEF Stills
<1> QED
  BY <1>6, <1>8, <1>9

LEMMA ActGivesUp ==
  ASSUME OneController, TypeInv, SequenceInv, PatchedAreFound, NEW t \in Threads, Acts(t),
         NEW h \in Hooks, Stacked(h) => Stacked(h)'
  PROVE  GivesUpNoOther(h)
<1>0. SUFFICES ASSUME GivenUp(h)', ~ (Advances(t) /\ (Stills(t) \/ Patches(t) \/ Restores(t)))
               PROVE  GivenUp(h)
  BY QuietGivesUp DEF GivesUpNoOther
<1>1. Live(h)' /\ ~ hook'[h].HookProc /\ h \notin Range(removalList)' /\ ~ InWait(h)'
  BY <1>0 DEF GivenUp
<1>2. CASE \E f \in Targets, g \in Hooks, succeeds \in BOOLEAN : Allocates(t, f, g, succeeds)
  <2>1. /\ hook'[h] = hook[h] /\ removalList' = removalList /\ op[t].pc = "idle"
        /\ \A u \in Threads \ {t} : op'[u] = op[u]
    BY <1>1, <1>2 DEF Allocates, Live
  <2>2. ~ InWait(h)
    BY <1>1, <2>1, WaitStays DEF HoldsHook, WaitPcs
  <2> QED
    BY <1>1, <2>1, <2>2 DEF GivenUp, Live
<1>3. CASE BackupEntry(t)
  <2>1. ~ InWait(h)
    BY <1>1, <1>3, BackupAdvances, WaitStays DEF HoldsHook, WaitPcs
  <2> QED
    BY <1>1, <1>3, <2>1, BackupAdvances DEF GivenUp, Live
<1>4. CASE Frees(t)
  <2>1. op[t].hook # h /\ hook'[h] = hook[h]
    BY <1>1, <1>4 DEF Frees, Unmaps, Live
  <2>2. ~ InWait(h)
    BY <1>1, <1>4, <2>1, WaitStays DEF HoldsHook, Frees
  <2> QED
    BY <1>1, <1>4, <2>1, <2>2 DEF GivenUp, Live, Frees
<1>5. CASE Tracks(t)
  <2>1. ~ InWait(h)
    BY <1>1, <1>5, WaitStays DEF HoldsHook, WaitPcs, Tracks
  <2> QED
    BY <1>1, <1>5, <2>1 DEF GivenUp, Live, Tracks
<1>6. CASE Pops(t)
  <2>1. Head(removalList) # h
    BY <1>1, <1>6 DEF Pops, InWait, WaitPcs
  <2>2. h \notin Range(removalList)
    <3>1. removalList \in Seq(Hooks) /\ removalList # <<>> /\ removalList' = Tail(removalList)
      BY <1>6, CoreTyped DEF Pops
    <3>2. ASSUME NEW i \in DOMAIN removalList, removalList[i] = h PROVE h \in Range(Tail(removalList))
      <4>1. i # 1 /\ i - 1 \in DOMAIN Tail(removalList) /\ Tail(removalList)[i - 1] = h
        BY <2>1, <3>1, <3>2
      <4> QED
        BY <4>1 DEF Range
    <3> QED
      BY <1>1, <3>1, <3>2 DEF Range
  <2>3. \A u \in Threads : HoldsHook(u, h) => u # t
    BY <1>6, CoreTyped DEF Pops, HoldsHook, SequenceInv, CallsAreSequential
  <2>4. ~ InWait(h)
    BY <1>1, <1>6, <2>3, WaitStays DEF Pops
  <2> QED
    BY <1>1, <1>6, <2>2, <2>4 DEF GivenUp, Live, Pops
<1>7. CASE Ends(t)
  <2>1. hook'[h] = hook[h]
    BY <1>1, <1>7, ReleaseTyped DEF Ends, Live
  <2>2. ~ HoldsHook(t, h)
    BY <1>7, CoreTyped DEF Ends, HoldsHook, SequenceInv, CallsAreSequential
  <2>3. ~ InWait(h)
    BY <1>1, <1>7, <2>2, WaitStays DEF Ends
  <2> QED
    BY <1>1, <1>7, <2>1, <2>3 DEF GivenUp, Live, Ends
<1>8. CASE \E k \in Handles : Removes(link[k])
  <2>1. PICK g \in Hooks : Removes(g)
    BY <1>8 DEF Removes
  <2>2. Range(removalList') = {g} \cup Range(removalList)
    BY <2>1, CoreTyped, PushRange DEF Removes
  <2>3. hook'[h] = hook[h] /\ h \notin Range(removalList)
    BY <1>1, <2>1, <2>2 DEF Removes
  <2>4. ~ InWait(h)
    BY <1>1, <2>1 DEF Removes, InWait
  <2> QED
    BY <1>1, <2>3, <2>4 DEF GivenUp, Live
<1>9. CASE Clears(t)
  <2>1. hook'[h] = hook[h] /\ h \notin Range(removalList)
    BY <1>1, <1>9 DEF Clears, RemovesAll
  <2>2. ~ InWait(h)
    BY <1>1, <1>9, WaitStays DEF Clears, HoldsHook, WaitPcs
  <2> QED
    BY <1>1, <2>1, <2>2 DEF GivenUp, Live
<1> QED
  BY <1>0, <1>2, <1>3, <1>4, <1>5, <1>6, <1>7, <1>8, <1>9 DEF Acts

\* Every step keeps it.
LEMMA LeakInvStep ==
  ASSUME OneController, TypeInv, PageInv, SequenceInv, ChainInv, LeakInv, [Next]_vars
  PROVE  LeakInv'
<1>1. PatchedAreFound'
  BY PatchedAreFoundStep DEF LeakInv
<1>2. (\A h \in Hooks : Stacked(h) => Stacked(h)') /\ (Rests \/ \E t \in Threads : Acts(t))
  BY StepActs, StackedStays
<1>3. timedOut \subseteq timedOut'
  <2>1. CASE Rests
    BY <2>1 DEF Rests
  <2>2. ASSUME NEW t \in Threads, Stills(t) \/ Patches(t) \/ Restores(t) PROVE timedOut \subseteq timedOut'
    BY <2>2 DEF Stills, Patches, Restores
  <2>3. ASSUME NEW t \in Threads, Acts(t), ~ Quietly(t) PROVE timedOut' = timedOut
    BY <2>3, BackupAdvances DEF Acts, Allocates, Frees, Tracks, Removes, Clears, Pops, Ends
  <2> QED
    BY <1>2, <2>1, <2>2, <2>3, QuietEntries
<1>4. ASSUME NEW h \in Hooks PROVE GivesUpNoOther(h)
  <2>1. CASE Rests
    BY <2>1 DEF Rests, SamePage, GivesUpNoOther, GivenUp, InWait, Live
  <2> QED
    BY <1>2, <2>1, ActGivesUp DEF LeakInv
<1>5. \A h \in Hooks : GivenUp(h)' => h \in timedOut' \/ Stacked(h)'
  BY <1>2, <1>3, <1>4 DEF GivesUpNoOther, LeakInv
<1> QED
  BY <1>1, <1>5 DEF LeakInv

\* The state of one control thread's calls, the chains behind the entry points and the pages given up.
ControlInv == TypeInv /\ PinInv /\ HandleInv /\ SequenceInv /\ PageInv /\ ChainInv /\ LeakInv

LEMMA ControlInvAlways == ASSUME OneController PROVE Spec => []ControlInv
<1>1. ControlInv /\ [Next]_vars => ControlInv'
  BY TypeInvStep, PinInvStep, HandleInvStep, SequenceInvStep, PageInvStep, ChainInvStep, LeakInvStep
  DEF ControlInv
<1>2. Init => ControlInv
  BY InitTypeInv, InitPinInv, InitHandleInv, InitSequenceInv, InitPageInv, InitChainInv, InitLeakInv
  DEF ControlInv
<1> QED
  BY <1>1, <1>2, PTL DEF Spec

\* Handles and calls in progress refer to mapped pages only (ApiReachesLivePages) when one thread
\* installs and removes hooks, whatever the other threads run meanwhile: LhUninstallHook clears its
\* handle and queues the hook once, so that nothing leads to a page that the wait gives up.
THEOREM ApiReachesLivePagesAlways == ASSUME OneController PROVE Spec => []ApiReachesLivePages
<1>1. ControlInv => ApiReachesLivePages
  BY SequenceReachesLivePages DEF ControlInv
<1> QED
  BY <1>1, ControlInvAlways, PTL

\* With one such thread a call of a hooked function runs through mapped pages only
\* (EntriesReachLivePages), in whatever order hooks that are stacked on one function are removed:
\* the wait unmaps a hook only after it found the hook's own jump at the entry point and replaced it.
THEOREM EntriesReachLivePagesAlways == ASSUME OneController PROVE Spec => []EntriesReachLivePages
<1>1. ControlInv => EntriesReachLivePages
  BY ChainsReachLivePages DEF ControlInv
<1> QED
  BY <1>1, ControlInvAlways, PTL

\* And the wait leaves a removed hook's page and slot behind only if its time was up or another hook
\* was stacked upon it (LeaksAreJustified).
THEOREM LeaksAreJustifiedAlways == ASSUME OneController PROVE Spec => []LeaksAreJustified
<1>1. ControlInv => LeaksAreJustified
  BY DEF ControlInv, LeakInv, GivenUp, Stacked, LeaksAreJustified
<1> QED
  BY <1>1, ControlInvAlways, PTL

----------------------------------------------------------------------------
(* LocalHook implements HookService: each of its steps is a step of HookService or leaves the hooks'
   stages and the threads behind their checks alone.  It stands on TypeInv /\ PinInv. *)

InPreparation(h) == \E t \in Threads : op[t].hook = h /\ op[t].pc \in PrivatePcs

\* The stage of a hook, as a list of cases.
LEMMA StageCases ==
  ASSUME TypeInv, NEW h \in Hooks
  PROVE  /\ hook[h].page \in {"unused", "freed", "live"} /\ hook[h].HookProc \in BOOLEAN
         /\ hook[h].page = "unused" => Stages[h] = "absent"
         /\ hook[h].page = "freed" => Stages[h] = "released"
         /\ hook[h].page = "live" /\ ~hook[h].HookProc => Stages[h] = "removed"
         /\ hook[h].page = "live" /\ hook[h].HookProc /\ InPreparation(h) =>
              Stages[h] = "prepared"
         /\ hook[h].page = "live" /\ hook[h].HookProc /\ ~InPreparation(h) =>
              Stages[h] = "armed"
<1>1. hook[h].page \in {"unused", "freed", "live"} /\ hook[h].HookProc \in BOOLEAN
  BY DEF TypeInv, TypeOK, HookRecord
<1>2. Stages[h] = LifeStage(h)
  BY DEF Stages
<1> QED BY <1>1, <1>2 DEF LifeStage, Freed, Live, InPreparation, PrivatePcs

\* The same after a step.
LEMMA StageCasesNext ==
  ASSUME TypeInv', NEW h \in Hooks
  PROVE  /\ hook'[h].page \in {"unused", "freed", "live"} /\ hook'[h].HookProc \in BOOLEAN
         /\ hook'[h].page = "unused" => Stages'[h] = "absent"
         /\ hook'[h].page = "freed" => Stages'[h] = "released"
         /\ hook'[h].page = "live" /\ ~hook'[h].HookProc => Stages'[h] = "removed"
         /\ hook'[h].page = "live" /\ hook'[h].HookProc /\ InPreparation(h)' =>
              Stages'[h] = "prepared"
         /\ hook'[h].page = "live" /\ hook'[h].HookProc /\ ~InPreparation(h)' =>
              Stages'[h] = "armed"
<1>1. hook'[h].page \in {"unused", "freed", "live"} /\ hook'[h].HookProc \in BOOLEAN
  BY DEF TypeInv, TypeOK, HookRecord
<1>2. Stages'[h] = LifeStage(h)'
  BY DEF Stages
<1> QED BY <1>1, <1>2 DEF LifeStage, Freed, Live, InPreparation, PrivatePcs

StageIsKept(h) ==
  /\ hook'[h].page = hook[h].page /\ hook'[h].HookProc = hook[h].HookProc
  /\ InPreparation(h)' <=> InPreparation(h)

\* A hook whose page, handler and install are left alone keeps its stage.
LEMMA StageKept ==
  ASSUME TypeInv, TypeInv', NEW h \in Hooks, StageIsKept(h)
  PROVE  Stages'[h] = Stages[h]
  BY StageCases, StageCasesNext DEF StageIsKept

\* The stages and the insiders of all hooks are functions on Hooks.
LEMMA StagesEqual ==
  ASSUME NEW F, F = [h \in Hooks |-> F[h]], \A h \in Hooks : Stages'[h] = F[h]
  PROVE  Stages' = F
<1>1. Stages' = [h \in Hooks |-> Stages'[h]]
  BY DEF Stages
<1> QED BY <1>1

\* A step that moves no thread in a trampoline keeps the insiders.
LEMMA InsidersKept == UNCHANGED frame => UNCHANGED Insiders
  BY DEF Insiders, InHandler

\* Steps that change no stage and no insiders stutter.
LEMMA Stutters ==
  ASSUME TypeInv, TypeInv', UNCHANGED frame, UNCHANGED dll, \A h \in Hooks : StageIsKept(h)
  PROVE  UNCHANGED Service!svars
<1>1. Stages = [h \in Hooks |-> Stages[h]]
  BY DEF Stages
<1>2. UNCHANGED Stages
  BY <1>1, StageKept, StagesEqual
<1> QED BY <1>2, InsidersKept DEF Service!svars

\* A step inside the API that only moves the call on, and only outside the part of an
\* install that may fail or inside of it.
LEMMA ApiStutters ==
  ASSUME TypeInv, TypeInv', NEW t \in Threads, UNCHANGED frame, UNCHANGED dll,
         \A h \in Hooks : hook'[h].page = hook[h].page /\ hook'[h].HookProc = hook[h].HookProc,
         \A u \in Threads \ {t} : op'[u] = op[u],
         \/ op[t].pc \notin PrivatePcs /\ op'[t].pc \notin PrivatePcs
         \/ op[t].pc \in PrivatePcs /\ op'[t].pc \in PrivatePcs /\ op'[t].hook = op[t].hook
  PROVE  UNCHANGED Service!svars
<1>1. \A h \in Hooks : InPreparation(h)' <=> InPreparation(h)
  BY DEF InPreparation
<1> QED BY <1>1, Stutters DEF StageIsKept

\* A step that moves one hook to another stage.
LEMMA OneStage ==
  ASSUME TypeInv, TypeInv', NEW h \in Hooks, \A g \in Hooks \ {h} : StageIsKept(g)
  PROVE  Stages' = [Stages EXCEPT ![h] = Stages'[h]]
<1> DEFINE F == [Stages EXCEPT ![h] = Stages'[h]]
<1>1. F = [g \in Hooks |-> F[g]] /\ F[h] = Stages'[h] /\ \A g \in Hooks \ {h} : F[g] = Stages[g]
  BY DEF Stages
<1>2. \A g \in Hooks \ {h} : Stages'[g] = Stages[g]
  BY StageKept
<1> HIDE DEF F
<1>3. Stages' = F
  BY <1>1, <1>2, StagesEqual
<1> QED BY <1>3 DEF F

\* Who is inside of a hook after a step of one activation.
LEMMA OneInsider ==
  ASSUME NEW t \in Threads, NEW d \in Levels, FrameOf(t, d), NEW h \in Hooks,
         \A g \in Hooks \ {h} : ~InHandler(g, t, d) /\ ~InHandler(g, t, d)'
  PROVE  /\ <<t, d>> \in Activations
         /\ InHandler(h, t, d)  => <<t, d>> \in Insiders[h]
         /\ ~InHandler(h, t, d) => \A g \in Hooks : <<t, d>> \notin Insiders[g]
         /\ InHandler(h, t, d)' =>
              Insiders' = [Insiders EXCEPT ![h] = @ \cup {<<t, d>>}]
         /\ ~InHandler(h, t, d)' =>
              Insiders' = [Insiders EXCEPT ![h] = @ \ {<<t, d>>}]
         /\ (InHandler(h, t, d)' <=> InHandler(h, t, d)) => Insiders' = Insiders
<1> DEFINE a == <<t, d>>
<1>1. a \in Activations /\ a[1] = t /\ a[2] = d
  BY DEF Activations
<1>2. \A b \in Activations : b # a => b[1] \in Threads /\ b[2] \in Levels /\ <<b[1], b[2]>> # a
  BY DEF Activations
<1>3. \A g \in Hooks, b \in Activations : b # a => (InHandler(g, b[1], b[2])' <=> InHandler(g, b[1], b[2]))
  BY <1>2 DEF FrameOf, InHandler
<1>4. /\ \A g \in Hooks, b \in Activations : b \in Insiders[g] <=> InHandler(g, b[1], b[2])
      /\ \A g \in Hooks, b \in Activations : b \in Insiders'[g] <=> InHandler(g, b[1], b[2])'
      /\ \A g \in Hooks : Insiders[g] \subseteq Activations /\ Insiders'[g] \subseteq Activations
      /\ Insiders = [g \in Hooks |-> Insiders[g]] /\ Insiders' = [g \in Hooks |-> Insiders'[g]]
  BY DEF Insiders
<1> HIDE DEF a, Insiders
<1>5. ASSUME NEW g \in Hooks \ {h} PROVE Insiders'[g] = Insiders[g]
  <2>1. \A b \in Activations : b \in Insiders'[g] <=> b \in Insiders[g]
    BY <1>1, <1>3, <1>4
  <2> QED BY <1>4, <2>1
<1>6. ASSUME InHandler(h, t, d)' PROVE Insiders'[h] = Insiders[h] \cup {a}
  <2>1. \A b \in Activations : b \in Insiders'[h] <=> b \in Insiders[h] \/ b = a
    BY <1>1, <1>3, <1>4, <1>6
  <2> QED BY <1>1, <1>4, <2>1
<1>7. ASSUME ~InHandler(h, t, d)' PROVE Insiders'[h] = Insiders[h] \ {a}
  <2>1. \A b \in Activations : b \in Insiders'[h] <=> b \in Insiders[h] /\ b # a
    BY <1>1, <1>3, <1>4, <1>7
  <2> QED BY <1>1, <1>4, <2>1
<1>8. ASSUME InHandler(h, t, d)' <=> InHandler(h, t, d) PROVE Insiders'[h] = Insiders[h]
  <2>1. \A b \in Activations : b \in Insiders'[h] <=> b \in Insiders[h]
    BY <1>1, <1>3, <1>4, <1>8
  <2> QED BY <1>4, <2>1
<1>9. InHandler(h, t, d) => a \in Insiders[h]
  BY <1>1, <1>4
<1>10. ~InHandler(h, t, d) => \A g \in Hooks : a \notin Insiders[g]
  BY <1>1, <1>4
<1> QED BY <1>1, <1>4, <1>5, <1>6, <1>7, <1>8, <1>9, <1>10 DEF a

\* Nobody is inside of a hook whose page is unused or private, and who is inside at a
\* position is inside of one hook.
LEMMA ReachedIsArmed ==
  ASSUME TypeInv, PinInv, NEW t \in Threads, NEW d \in Levels, NEW h \in Hooks,
         frame[t][d].hook = h, ~Freed(h), hook[h].HookProc
  PROVE  Stages[h] = "armed"
<1>1. ~Private(h)
  BY DEF PinInv, UnpublishedIsPrivate, Unknown
<1> QED BY <1>1, StageCases DEF Private, InPreparation, Freed

\* A step inside a trampoline enters an armed hook, leaves one or stutters.
LEMMA FrameStepRefines ==
  ASSUME TypeInv, TypeInv', PinInv, NEW t \in Threads, NEW d \in Levels, FrameOf(t, d),
         UNCHANGED apiState,
         \A h \in Hooks : hook'[h].page = hook[h].page /\ hook'[h].HookProc = hook[h].HookProc,
         frame'[t][d].pc \in HandlerPcs =>
           /\ frame'[t][d].hook = frame[t][d].hook
           /\ \/ frame[t][d].pc \in HandlerPcs
              \/ ~Freed(frame[t][d].hook) /\ hook[frame[t][d].hook].HookProc,
         frame[t][d].pc # "idle"
  PROVE  [Service!Next]_(Service!svars)
<1>1. PICK h \in Hooks : frame[t][d].hook = h
  BY FrameHook
<1>2. UNCHANGED Stages
  <2>1. \A g \in Hooks : StageIsKept(g)
    BY DEF StageIsKept, InPreparation, apiState
  <2>2. Stages = [g \in Hooks |-> Stages[g]]
    BY DEF Stages
  <2> QED BY <2>1, <2>2, StageKept, StagesEqual
<1>3. UNCHANGED dll
  BY DEF apiState
<1>4. \A g \in Hooks \ {h} : ~InHandler(g, t, d) /\ ~InHandler(g, t, d)'
  BY <1>1 DEF InHandler
<1>5. CASE InHandler(h, t, d)' <=> InHandler(h, t, d)
  BY ZenonT(60), <1>1, <1>2, <1>3, <1>4, <1>5, OneInsider DEF Service!svars
<1>6. CASE InHandler(h, t, d)' /\ ~InHandler(h, t, d)
  <2>1. Stages[h] = "armed"
    BY <1>1, <1>6, ReachedIsArmed DEF InHandler
  <2>2. /\ <<t, d>> \in Activations /\ \A g \in Hooks : <<t, d>> \notin Insiders[g]
        /\ Insiders' = [Insiders EXCEPT ![h] = @ \cup {<<t, d>>}]
    BY <1>1, <1>4, <1>6, OneInsider
  <2>3. Service!Enter(h, <<t, d>>)
    BY <1>2, <1>3, <2>1, <2>2 DEF Service!Enter
  <2> QED BY <1>1, <2>2, <2>3 DEF Service!Next
<1>7. CASE ~InHandler(h, t, d)' /\ InHandler(h, t, d)
  <2>1. /\ <<t, d>> \in Activations /\ <<t, d>> \in Insiders[h]
        /\ Insiders' = [Insiders EXCEPT ![h] = @ \ {<<t, d>>}]
    BY <1>1, <1>4, <1>7, OneInsider
  <2>2. Service!Leave(h, <<t, d>>)
    BY <1>2, <1>3, <2>1 DEF Service!Leave
  <2> QED BY <1>1, <2>1, <2>2 DEF Service!Next
<1> QED BY <1>5, <1>6, <1>7

\* A step in the trampoline's page before the check or behind the counter stutters.
LEMMA OutsideStutters ==
  ASSUME TypeInv, TypeInv', NEW t \in Threads, NEW d \in Levels, FrameOf(t, d),
         UNCHANGED apiState,
         \A h \in Hooks : hook'[h].page = hook[h].page /\ hook'[h].HookProc = hook[h].HookProc,
         frame[t][d].pc \notin HandlerPcs, frame'[t][d].pc \notin HandlerPcs
  PROVE  UNCHANGED Service!svars
<1>1. \A g \in Hooks : StageIsKept(g)
  BY DEF StageIsKept, InPreparation, apiState
<1>2. Stages = [g \in Hooks |-> Stages[g]]
  BY DEF Stages
<1>3. UNCHANGED Stages
  BY <1>1, <1>2, StageKept, StagesEqual
<1>4. \A g \in Hooks, u \in Threads, e \in Levels : InHandler(g, u, e)' <=> InHandler(g, u, e)
  BY DEF FrameOf, InHandler
<1>5. \A a \in Activations : a[1] \in Threads /\ a[2] \in Levels
  BY DEF Activations
<1>6. UNCHANGED Insiders
  BY <1>4, <1>5 DEF Insiders
<1> QED BY <1>3, <1>6 DEF Service!svars, apiState

\* Freeing the page of the call's hook: an install is abandoned, a removed hook without
\* anybody inside is released, or the page was freed before.
LEMMA ReleaseRefines ==
  ASSUME TypeInv, TypeInv', PinInv, NEW t \in Threads, UNCHANGED frame, UNCHANGED dll,
         op[t].pc \in {"unwind", "free"}, op'[t].pc \notin PrivatePcs,
         \A u \in Threads \ {t} : op'[u] = op[u],
         hook' = [hook EXCEPT ![op[t].hook] = Release(op[t].hook)],
         dll # "unloaded"
  PROVE  [Service!Next]_(Service!svars)
<1> DEFINE h == op[t].hook
<1>1. h \in Hooks /\ hook[h].page # "unused"
  <2>1. h \in Hooks
    BY OpHook DEF NeedsHook, InstallPcs, WaitPcs
  <2> QED BY <2>1 DEF PinInv, UnpublishedIsPrivate
<1>2. hook'[h].page = "freed" /\ \A g \in Hooks \ {h} : hook'[g] = hook[g]
  BY <1>1, ReleaseTyped, HookBecomes
<1>3. \A g \in Hooks \ {h} : InPreparation(g)' <=> InPreparation(g)
  BY DEF InPreparation
<1>4. Stages' = [Stages EXCEPT ![h] = "released"]
  <2>1. Stages'[h] = "released"
    BY <1>1, <1>2, StageCasesNext
  <2>2. \A g \in Hooks \ {h} : StageIsKept(g)
    BY <1>2, <1>3 DEF StageIsKept
  <2> QED BY <1>1, <2>1, <2>2, OneStage
<1>5. UNCHANGED Insiders
  BY InsidersKept
<1>6. Insiders[h] = {}
  <2> SUFFICES ASSUME NEW u \in Threads, NEW e \in Levels, InHandler(h, u, e) PROVE FALSE
    BY <1>1 DEF Insiders, Activations
  <2>1. CASE op[t].pc = "unwind"
    BY <1>1, <2>1 DEF PinInv, UnpublishedIsPrivate, Private, PrivatePcs, Unknown, InHandler
  <2>2. CASE op[t].pc = "free"
    BY <1>1, <2>2 DEF PinInv, ReleasedIsLeft, ReleasePcs
  <2> QED BY <2>1, <2>2
<1>7. Stages[h] \in {"prepared", "removed", "released"}
  <2>1. CASE op[t].pc = "unwind"
    BY <1>1, <2>1, StageCases DEF InPreparation, PrivatePcs
  <2>2. CASE op[t].pc = "free"
    <3>1. ~hook[h].HookProc
      BY <1>1, <2>2 DEF PinInv, RemovedIsDisarmed, WaitPcs
    <3> QED BY <1>1, <3>1, StageCases
  <2> QED BY <2>1, <2>2
<1>8. CASE Stages[h] = "prepared"
  <2>1. Service!Abandon(h)
    BY <1>4, <1>5, <1>8 DEF Service!Abandon
  <2> QED BY <1>1, <2>1 DEF Service!Next
<1>9. CASE Stages[h] = "removed"
  <2>1. Service!Free(h)
    BY <1>4, <1>5, <1>6, <1>9 DEF Service!Free
  <2> QED BY <1>1, <2>1 DEF Service!Next
<1>10. CASE Stages[h] = "released"
  <2>1. UNCHANGED Stages
    BY <1>1, <1>4, <1>10 DEF Stages
  <2> QED BY <1>5, <2>1 DEF Service!svars
<1> QED BY <1>7, <1>8, <1>9, <1>10

\* Hooks that somebody knows lose their handlers: those that were armed are removed.
LEMMA DisarmRefines ==
  ASSUME TypeInv, TypeInv', PinInv, NEW S \in SUBSET Hooks,
         UNCHANGED frame, dll \in {"loaded", "detaching"}, dll' \in {"loaded", "detaching"},
         \A h \in Hooks : InPreparation(h)' <=> InPreparation(h),
         \A h \in S : ~Private(h),
         \A h \in Hooks : hook'[h].page = hook[h].page,
         \A h \in S : hook'[h].HookProc = FALSE,
         \A h \in Hooks \ S : hook'[h].HookProc = hook[h].HookProc
  PROVE  [Service!Next]_(Service!svars)
<1> DEFINE A == {h \in S : Stages[h] = "armed"}
           F == [h \in Hooks |-> IF h \in A THEN "removed" ELSE Stages[h]]
<1>1. \A h \in A : Stages'[h] = "removed"
  BY StageCases, StageCasesNext
<1>2. \A h \in Hooks \ S : Stages'[h] = Stages[h]
  BY StageKept DEF StageIsKept
<1>3. ASSUME NEW h \in S \ A PROVE Stages'[h] = Stages[h]
  <2>1. hook[h].page # "unused" /\ ~InPreparation(h)
    BY DEF Private, InPreparation
  <2>2. ~(hook[h].page = "live" /\ hook[h].HookProc)
    BY <2>1, StageCases
  <2> QED BY <2>1, <2>2, StageCases, StageCasesNext
<1>4. \A h \in Hooks : Stages'[h] = F[h]
  BY <1>1, <1>2, <1>3
<1>5. F = [h \in Hooks |-> F[h]]
  OBVIOUS
<1> HIDE DEF F
<1>6. Stages' = F
  BY <1>4, <1>5, StagesEqual
<1>7. Service!Disarm(A)
  BY <1>6, InsidersKept DEF Service!Disarm, F
<1> QED BY <1>7 DEF Service!Next

\* A crash changes no hook and moves no thread.
LEMMA CrashStutters ==
  ASSUME TypeInv, TypeInv', NEW why, Crash(why) PROVE UNCHANGED Service!svars
<1>1. \A h \in Hooks : StageIsKept(h)
  BY DEF StageIsKept, InPreparation, Crash
<1> QED BY <1>1, Stutters DEF Crash

\* An install gets a page that no hook was in before.
LEMMA AllocateRefines ==
  ASSUME TypeInv, TypeInv', PinInv, NEW t \in Threads, NEW f \in Targets, NEW k \in Handles,
         NEW succeeds \in BOOLEAN, LhAllocateHook(t, f, k, succeeds)
  PROVE  [Service!Next]_(Service!svars)
<1> DEFINE r == [BlankHook EXCEPT !.page = IF succeeds THEN "live" ELSE "freed",
                                  !.TargetProc = f, !.HookProc = succeeds,
                                  !.OldProc = entry[f]]
           o(h) == [pc |-> IF succeeds THEN "backup" ELSE "unwind",
                    hook |-> h, handle |-> k, budget |-> 0]
<1>1. PICK h \in Hooks : /\ hook[h].page = "unused" /\ hook' = [hook EXCEPT ![h] = r]
                         /\ op' = [op EXCEPT ![t] = o(h)]
  BY DEF LhAllocateHook
<1>2. UNCHANGED frame /\ UNCHANGED dll /\ op[t].pc = "idle"
  BY DEF LhAllocateHook, callState, MayCallApi
<1>3. r.page = (IF succeeds THEN "live" ELSE "freed") /\ r.HookProc = succeeds
  BY DEF BlankHook
<1>4. /\ hook'[h] = r /\ \A g \in Hooks \ {h} : hook'[g] = hook[g]
      /\ op'[t] = o(h) /\ \A u \in Threads \ {t} : op'[u] = op[u]
  BY <1>1 DEF TypeInv, TypeOK
<1>5. op'[t].hook = h /\ op'[t].pc \in PrivatePcs
  BY <1>4 DEF PrivatePcs
<1> HIDE DEF r, o
<1>6. \A g \in Hooks \ {h} : StageIsKept(g)
  BY <1>2, <1>4, <1>5 DEF StageIsKept, InPreparation, PrivatePcs
<1>7. InPreparation(h)'
  BY <1>5 DEF InPreparation
<1>8. Stages[h] = "absent" /\ Stages'[h] \in {"prepared", "released"}
  BY <1>1, <1>3, <1>4, <1>7, StageCases, StageCasesNext
<1>9. Stages' = [Stages EXCEPT ![h] = Stages'[h]]
  BY <1>6, OneStage
<1>10. Service!Prepare(h)
  BY <1>2, <1>8, <1>9, InsidersKept DEF Service!Prepare
<1> QED BY <1>10 DEF Service!Next

\* The install that got its slot is past its last failure.
LEMMA RegisterRefines ==
  ASSUME TypeInv, TypeInv', PinInv, NEW t \in Threads, RegisterSlot(t)
  PROVE  [Service!Next]_(Service!svars)
<1>1. PICK h \in Hooks : op[t].hook = h /\ hook[h] \in HookRecord
  BY OpHook DEF RegisterSlot, AtOp, NeedsHook, InstallPcs
<1>2. PICK i \in Slots : hook' = [hook EXCEPT ![h].HLSIndex = i]
  BY <1>1 DEF RegisterSlot
<1>3. /\ op[t].pc = "register" /\ op' = [op EXCEPT ![t].pc = "patch"]
      /\ UNCHANGED frame /\ UNCHANGED dll
  BY DEF RegisterSlot, AtOp, callState
<1>4. /\ \A u \in Threads \ {t} : op'[u] = op[u]
      /\ op'[t].pc = "patch"
  BY <1>3, OpGoto DEF OpPcs, InstallPcs
<1>5. \A g \in Hooks : hook'[g].page = hook[g].page /\ hook'[g].HookProc = hook[g].HookProc
  BY <1>1, <1>2 DEF TypeInv, TypeOK, HookRecord
<1>6. \A g \in Hooks \ {h} : StageIsKept(g)
  BY <1>1, <1>4, <1>5 DEF StageIsKept, InPreparation, PrivatePcs
<1>7. InPreparation(h) /\ ~InPreparation(h)'
  <2>1. \A u \in Threads \ {t} : op[u].hook # h
    BY <1>1, <1>3 DEF PinInv, UnpublishedIsPrivate, PrivatePcs
  <2> QED BY <1>1, <1>3, <1>4, <2>1 DEF InPreparation, PrivatePcs
<1>8. Stages' = [Stages EXCEPT ![h] = Stages'[h]] /\ UNCHANGED Insiders
  BY <1>3, <1>6, OneStage, InsidersKept
<1>9. CASE Stages[h] = "prepared"
  <2>1. Stages'[h] = "armed"
    BY <1>5, <1>7, <1>9, StageCases, StageCasesNext
  <2>2. Service!Arm(h)
    BY <1>3, <1>8, <1>9, <2>1 DEF Service!Arm
  <2> QED BY <2>2 DEF Service!Next
<1>10. CASE Stages[h] # "prepared"
  <2>1. Stages'[h] = Stages[h]
    BY <1>5, <1>7, <1>10, StageCases, StageCasesNext
  <2>2. UNCHANGED Stages
    BY <1>8, <2>1 DEF Stages
  <2> QED BY <1>3, <1>8, <2>2 DEF Service!svars
<1> QED BY <1>9, <1>10

\* Every step of LocalHook is a step of HookService or a stutter.
LEMMA StepRefines ==
  TypeInv /\ TypeInv' /\ PinInv /\ [Next]_vars => [Service!Next]_(Service!svars)
<1> SUFFICES ASSUME TypeInv, TypeInv', PinInv, [Next]_vars
             PROVE  [Service!Next]_(Service!svars)
  OBVIOUS
<1>0. CASE dll' = "unloaded"
  BY <1>0 DEF Service!Next, Service!Unload
<1> SUFFICES ASSUME dll' # "unloaded" PROVE [Service!Next]_(Service!svars)
  BY <1>0
<1>01. /\ hook \in [Hooks -> HookRecord] /\ hookList \in Seq(Hooks)
       /\ link \in [Handles -> Hooks \cup {NULL}]
  BY DEF TypeInv, TypeOK
<1>1. ASSUME NEW t \in Threads, NEW f \in Targets, NEW k \in Handles,
             NEW succeeds \in BOOLEAN, LhAllocateHook(t, f, k, succeeds)
      PROVE  [Service!Next]_(Service!svars)
  BY <1>1, AllocateRefines
<1>2. ASSUME NEW t \in Threads, BackupEntry(t) PROVE [Service!Next]_(Service!svars)
  <2>1. /\ op[t].pc = "backup" /\ op' = [op EXCEPT ![t].pc = "register"]
        /\ hook' = [hook EXCEPT ![op[t].hook].TargetBackup = entry[hook[op[t].hook].TargetProc]]
        /\ UNCHANGED frame /\ UNCHANGED dll
    BY <1>2 DEF BackupEntry, AtOp, callState
  <2>2. \A h \in Hooks : hook'[h].page = hook[h].page /\ hook'[h].HookProc = hook[h].HookProc
    BY <1>01, <2>1 DEF HookRecord
  <2>3. /\ \A u \in Threads \ {t} : op'[u] = op[u]
        /\ op'[t].pc = "register" /\ op'[t].hook = op[t].hook
    BY <2>1, OpGoto DEF OpPcs, InstallPcs
  <2> QED BY <2>1, <2>2, <2>3, ApiStutters DEF PrivatePcs
<1>3. ASSUME NEW t \in Threads, InstallFails(t) PROVE [Service!Next]_(Service!svars)
  <2>1. /\ op[t].pc = "register" /\ op' = [op EXCEPT ![t].pc = "unwind"]
        /\ UNCHANGED <<hook, frame, dll>>
    BY <1>3 DEF InstallFails, AtOp, callState
  <2>2. /\ \A u \in Threads \ {t} : op'[u] = op[u]
        /\ op'[t].pc = "unwind" /\ op'[t].hook = op[t].hook
    BY <2>1, OpGoto DEF OpPcs, InstallPcs
  <2> QED BY <2>1, <2>2, ApiStutters DEF PrivatePcs
<1>4. ASSUME NEW t \in Threads, UnwindInstall(t) PROVE [Service!Next]_(Service!svars)
  <2>1. CASE Crash("freed page")
    BY <2>1, CrashStutters
  <2>2. CASE ~Crash("freed page")
    <3>1. /\ op[t].pc = "unwind" /\ op' = [op EXCEPT ![t] = IdleOp]
          /\ hook' = [hook EXCEPT ![op[t].hook] = Release(op[t].hook)]
          /\ UNCHANGED frame /\ UNCHANGED dll
      BY <2>2, <1>4 DEF UnwindInstall, AtOp, callState
    <3>2. \A u \in Threads \ {t} : op'[u] = op[u]
      BY <3>1, IdleTyped, OpBecomes
    <3>3. op'[t].pc = "idle"
      BY <3>1, IdleTyped, OpBecomes DEF IdleOp
    <3> QED BY <3>1, <3>2, <3>3, ReleaseRefines DEF PrivatePcs
  <2> QED BY <2>1, <2>2
<1>5. ASSUME NEW t \in Threads, RegisterSlot(t) PROVE [Service!Next]_(Service!svars)
  BY <1>5, RegisterRefines
\* The steps of the API that change no page and prepare no hook.
<1>6. ASSUME NEW t \in Threads, UNCHANGED <<hook, frame, dll>>, op[t].pc \notin PrivatePcs,
             NEW o \in OpRecord, op' = [op EXCEPT ![t] = o], o.pc \notin PrivatePcs
      PROVE  [Service!Next]_(Service!svars)
  <2>1. op'[t] = o /\ \A u \in Threads \ {t} : op'[u] = op[u]
    BY <1>6, OpBecomes
  <2> QED BY <1>6, <2>1, ApiStutters
<1>7. ASSUME NEW t \in Threads, UNCHANGED <<hook, frame, dll>>, op[t].pc \notin PrivatePcs,
             NEW p \in OpPcs \ PrivatePcs, NEW g \in Hooks \cup {NULL},
             op' = [op EXCEPT ![t].pc = p, ![t].hook = g] \/ op' = [op EXCEPT ![t].pc = p]
      PROVE  [Service!Next]_(Service!svars)
  <2>1. op'[t].pc = p /\ \A u \in Threads \ {t} : op'[u] = op[u]
    BY <1>7, OpGotoHook, OpGoto
  <2> QED BY <1>7, <2>1, ApiStutters
<1>8. ASSUME NEW t \in Threads, PatchEntry(t) PROVE [Service!Next]_(Service!svars)
  BY <1>7, <1>8 DEF PatchEntry, AtOp, callState, PrivatePcs, OpPcs, InstallPcs
<1>9. ASSUME NEW t \in Threads, PublishHook(t) PROVE [Service!Next]_(Service!svars)
  BY <1>7, <1>9 DEF PublishHook, AtOp, callState, PrivatePcs, OpPcs, InstallPcs
<1>10. ASSUME NEW t \in Threads, TrackHook(t) PROVE [Service!Next]_(Service!svars)
  <2>1. CASE Freed(op[t].hook)
    BY <1>10, <2>1, CrashStutters DEF TrackHook
  <2>2. CASE ~Freed(op[t].hook)
    <3>1. /\ op[t].pc = "track" /\ op' = [op EXCEPT ![t] = IdleOp]
          /\ hook' = [hook EXCEPT ![op[t].hook].Tracking = op[t].handle]
          /\ UNCHANGED frame /\ UNCHANGED dll
      BY <1>10, <2>2 DEF TrackHook, AtOp, callState
    <3>2. \A h \in Hooks : hook'[h].page = hook[h].page /\ hook'[h].HookProc = hook[h].HookProc
      BY <1>01, <3>1 DEF HookRecord
    <3>3. op'[t].pc = "idle" /\ \A u \in Threads \ {t} : op'[u] = op[u]
      BY <3>1, IdleTyped, OpBecomes DEF IdleOp
    <3> QED BY <3>1, <3>2, <3>3, ApiStutters DEF PrivatePcs
  <2> QED BY <2>1, <2>2
<1>11. ASSUME NEW t \in Threads, NEW k \in Handles, LhUninstallHook(t, k)
       PROVE  [Service!Next]_(Service!svars)
  <2>1. PICK h \in Hooks : link[k] = h
    BY <1>01, <1>11 DEF LhUninstallHook, LhIsValidHandle
  <2>2. /\ hook' = [hook EXCEPT ![h].HookProc = FALSE]
        /\ UNCHANGED op /\ UNCHANGED frame /\ dll = "loaded" /\ dll' = "loaded"
    BY <1>11, <2>1 DEF LhUninstallHook, MayCallApi, callState
  <2>3. ~Private(h)
    BY <2>1 DEF PinInv, UnpublishedIsPrivate, Unknown
  <2>4. /\ \A g \in Hooks : hook'[g].page = hook[g].page
        /\ hook'[h].HookProc = FALSE
        /\ \A g \in Hooks \ {h} : hook'[g].HookProc = hook[g].HookProc
    BY <1>01, <2>2 DEF HookRecord
  <2>5. \A g \in Hooks : InPreparation(g)' <=> InPreparation(g)
    BY <2>2 DEF InPreparation
  <2> DEFINE S == {h}
  <2>6. /\ S \in SUBSET Hooks
        /\ \A g \in S : ~Private(g) /\ hook'[g].HookProc = FALSE
        /\ \A g \in Hooks \ S : hook'[g].HookProc = hook[g].HookProc
    BY <2>3, <2>4
  <2> HIDE DEF S
  <2> QED BY <2>2, <2>4, <2>5, <2>6, DisarmRefines
<1>12. ASSUME NEW t \in Threads, NEW k \in Handles, UseDanglingHandle(t, k)
       PROVE  [Service!Next]_(Service!svars)
  BY <1>12, CrashStutters DEF UseDanglingHandle
<1>13. ASSUME NEW t \in Threads, UninstallAll, UNCHANGED frame, dll = "loaded",
              dll' \in {"loaded", "detaching"},
              \A g \in Hooks : InPreparation(g)' <=> InPreparation(g)
       PROVE  [Service!Next]_(Service!svars)
  <2> DEFINE S == Range(hookList)
  <2>1. S \in SUBSET Hooks
    BY <1>01 DEF Range
  <2>2. \A g \in S : ~Private(g)
    BY <2>1 DEF PinInv, UnpublishedIsPrivate, Unknown
  <2>3. \A g \in Hooks : hook'[g] = IF g \in S THEN [hook[g] EXCEPT !.HookProc = FALSE] ELSE hook[g]
    BY <1>13 DEF UninstallAll
  <2> HIDE DEF S
  <2>4. /\ \A g \in Hooks : hook'[g].page = hook[g].page
        /\ \A g \in S : hook'[g].HookProc = FALSE
        /\ \A g \in Hooks \ S : hook'[g].HookProc = hook[g].HookProc
    BY <1>01, <2>1, <2>3 DEF HookRecord
  <2> QED BY <1>13, <2>1, <2>2, <2>4, DisarmRefines
<1>14. ASSUME NEW t \in Threads, LhUninstallAllHooks(t) PROVE [Service!Next]_(Service!svars)
  BY <1>13, <1>14 DEF LhUninstallAllHooks, MayCallApi, callState, InPreparation
<1>15. WaitOp \in OpRecord /\ WaitOp.pc = "pop"
  BY RoundBound, WaitPositions DEF OpRecord, OpPcs, WaitOp
<1>16. ASSUME NEW t \in Threads, LhWaitForPendingRemovals(t) PROVE [Service!Next]_(Service!svars)
  BY <1>6, <1>15, <1>16 DEF LhWaitForPendingRemovals, MayCallApi, callState, PrivatePcs
<1>17. ASSUME NEW t \in Threads, LhCriticalFinalize(t) PROVE [Service!Next]_(Service!svars)
  <2>1. /\ dll' = "detaching" /\ dll = "loaded" /\ op[t].pc = "idle"
        /\ UninstallAll /\ UNCHANGED frame /\ op' = [op EXCEPT ![t] = WaitOp]
    BY <1>17 DEF LhCriticalFinalize, MayCallApi, callState
  <2>2. op'[t].pc = "pop" /\ \A u \in Threads \ {t} : op'[u] = op[u]
    BY <1>15, <2>1, OpBecomes
  <2>3. \A g \in Hooks : InPreparation(g)' <=> InPreparation(g)
    BY <2>1, <2>2 DEF InPreparation, PrivatePcs
  <2> QED BY <1>13, <2>1, <2>3
<1>18. \A p \in WaitPcs : p \in OpPcs \ PrivatePcs
  BY WaitPositions DEF InstallPcs, PrivatePcs
<1>19. ASSUME NEW t \in Threads, PopRemoval(t) PROVE [Service!Next]_(Service!svars)
  <2>1. /\ op[t].pc = "pop" /\ UNCHANGED <<hook, frame, dll>>
        /\ op' = [op EXCEPT ![t].pc = "compare", ![t].hook = Head(removalList)]
    BY <1>19 DEF PopRemoval, AtOp, callState
  <2>2. Head(removalList) \in Hooks
    BY <1>19, HeadTailRange DEF PopRemoval, TypeInv, TypeOK
  <2> QED BY <1>7, <1>18, <2>1, <2>2 DEF WaitPcs
<1>20. ASSUME NEW t \in Threads, WaitReturns(t) PROVE [Service!Next]_(Service!svars)
  <2>1. /\ op[t].pc = "pop" /\ op' = [op EXCEPT ![t] = IdleOp]
        /\ UNCHANGED <<hook, frame, dll>>
    BY <1>20 DEF WaitReturns, AtOp, callState
  <2>2. IdleOp \in OpRecord /\ IdleOp.pc = "idle"
    BY IdleTyped DEF IdleOp
  <2> QED BY <1>6, <2>1, <2>2 DEF PrivatePcs
<1>21. ASSUME NEW t \in Threads, CompareEntry(t) PROVE [Service!Next]_(Service!svars)
  <2>1. /\ op[t].pc = "compare" /\ UNCHANGED <<hook, frame, dll>>
        /\ \/ op' = [op EXCEPT ![t].pc = "restore", ![t].hook = op[t].hook]
           \/ op' = [op EXCEPT ![t].pc = "pop", ![t].hook = NULL]
    BY <1>21 DEF CompareEntry, AtOp, callState
  <2>2. op[t].hook \in Hooks
    BY <2>1, OpHook DEF NeedsHook, InstallPcs, WaitPcs
  <2> QED BY <1>7, <1>18, <2>1, <2>2 DEF WaitPcs
<1>22. ASSUME NEW t \in Threads, RestoreEntry(t) PROVE [Service!Next]_(Service!svars)
  BY <1>7, <1>18, <1>22 DEF RestoreEntry, AtOp, callState, WaitPcs
<1>23. ASSUME NEW t \in Threads, Drain(t) PROVE [Service!Next]_(Service!svars)
  <2>1. op[t].pc = "drain" /\ UNCHANGED <<hook, frame, dll>> /\ op[t] \in OpRecord
    BY <1>23 DEF Drain, AtOp, callState, TypeInv, TypeOK
  <2>2. CASE op' = [op EXCEPT ![t].pc = "release"]
    BY <1>7, <1>18, <2>1, <2>2 DEF WaitPcs
  <2>3. CASE op' = [op EXCEPT ![t].pc = "pop", ![t].hook = NULL]
    BY <1>7, <1>18, <2>1, <2>3 DEF WaitPcs
  <2>4. CASE op[t].budget > 0 /\ op' = [op EXCEPT ![t].budget = @ - 1]
    <3> DEFINE o == [op[t] EXCEPT !.budget = @ - 1]
    <3>1. o \in OpRecord /\ o.pc = "drain"
      BY <2>1, <2>4, RoundBound DEF OpRecord
    <3>2. op' = [op EXCEPT ![t] = o]
      BY <2>4
    <3> HIDE DEF o
    <3> QED BY <1>6, <2>1, <3>1, <3>2 DEF PrivatePcs
  <2> QED BY <1>23, <2>2, <2>3, <2>4 DEF Drain
<1>24. ASSUME NEW t \in Threads, ReleaseSlot(t) PROVE [Service!Next]_(Service!svars)
  BY <1>7, <1>18, <1>24 DEF ReleaseSlot, AtOp, callState, WaitPcs
<1>25. ASSUME NEW t \in Threads, FreeHook(t) PROVE [Service!Next]_(Service!svars)
  <2>1. /\ op[t].pc = "free" /\ op' = [op EXCEPT ![t].pc = "pop", ![t].hook = NULL]
        /\ hook' = [hook EXCEPT ![op[t].hook] = Release(op[t].hook)]
        /\ UNCHANGED frame /\ UNCHANGED dll
    BY <1>25 DEF FreeHook, AtOp, callState
  <2>2. op'[t].pc = "pop" /\ \A u \in Threads \ {t} : op'[u] = op[u]
    BY <2>1, OpGotoHook, WaitPositions
  <2> QED BY <2>1, <2>2, ReleaseRefines DEF PrivatePcs
<1>26. ASSUME NEW t \in Threads, NEW d \in Levels, NEW f \in Targets, CallTarget(t, d, f)
       PROVE  [Service!Next]_(Service!svars)
  <2> DEFINE fr == [pc |-> "entered", hook |-> entry[f]]
  <2>1. /\ frame' = [frame EXCEPT ![t][d] = fr] /\ UNCHANGED <<hook, entry, fault, apiState>>
        /\ frame[t][d].pc = "idle" /\ entry[f] # Original
    BY <1>26 DEF CallTarget
  <2>2. fr \in FrameRecord /\ fr.hook \in Hooks /\ fr.pc = "entered"
    BY <2>1 DEF TypeInv, TypeOK, FrameRecord, FramePcs
  <2> HIDE DEF fr
  <2>3. FrameOf(t, d) /\ frame'[t][d] = fr
    BY <2>1, <2>2, FrameBecomes
  <2> QED BY <2>1, <2>2, <2>3, OutsideStutters DEF HandlerPcs
<1>27. ASSUME NEW t \in Threads, NEW d \in Levels, CountIn(t, d)
       PROVE  [Service!Next]_(Service!svars)
  <2>1. PICK h \in Hooks : frame[t][d].hook = h
    BY <1>27, FrameHook DEF CountIn, InPage, At
  <2>2. /\ hook' = [hook EXCEPT ![h].IsExecuted = @ + 1] /\ Goto(t, d, "counted")
        /\ UNCHANGED apiState /\ frame[t][d].pc = "entered"
    BY <1>27, <2>1 DEF CountIn, InPage, At
  <2>3. \A g \in Hooks : hook'[g].page = hook[g].page /\ hook'[g].HookProc = hook[g].HookProc
    BY <1>01, <2>2 DEF HookRecord
  <2>4. FrameOf(t, d) /\ frame'[t][d].pc = "counted"
    BY <2>1, <2>2, FrameGoto DEF FramePcs, CountedPcs
  <2> QED BY <2>2, <2>3, <2>4, OutsideStutters DEF HandlerPcs
<1>28. ASSUME NEW t \in Threads, NEW d \in Levels, CheckHookProc(t, d)
       PROVE  [Service!Next]_(Service!svars)
  <2>1. PICK h \in Hooks : frame[t][d].hook = h
    BY <1>28, FrameHook DEF CheckHookProc, InPage, At
  <2> DEFINE p == IF hook[h].HookProc THEN "intro" ELSE "reject"
  <2>2. /\ Goto(t, d, p) /\ UNCHANGED <<hook, apiState>>
        /\ frame[t][d].pc = "counted" /\ ~Freed(h)
    BY <1>28, <2>1 DEF CheckHookProc, InPage, At
  <2>3. p \in FramePcs /\ (p \in HandlerPcs => hook[h].HookProc)
    BY DEF FramePcs, CountedPcs, HandlerPcs
  <2> HIDE DEF p
  <2>4. FrameOf(t, d) /\ frame'[t][d].pc = p /\ frame'[t][d].hook = h
    BY <2>1, <2>2, <2>3, FrameGoto
  <2> QED BY <2>1, <2>2, <2>3, <2>4, FrameStepRefines
<1>29. ASSUME NEW t \in Threads, NEW d \in Levels, UNCHANGED <<hook, apiState>>,
              frame[t][d].pc \in HandlerPcs, NEW p \in FramePcs, Goto(t, d, p)
       PROVE  [Service!Next]_(Service!svars)
  <2>1. frame[t][d].pc # "idle" /\ frame[t][d].hook \in Hooks
    BY <1>29, FrameHook DEF HandlerPcs
  <2>2. FrameOf(t, d) /\ frame'[t][d].pc = p /\ frame'[t][d].hook = frame[t][d].hook
    BY <1>29, <2>1, FrameGoto
  <2> QED BY <1>29, <2>1, <2>2, FrameStepRefines
<1>30. {"jump", "reject", "handler", "outro", "uncount", "return", "leave"} \subseteq FramePcs
  BY DEF FramePcs, CountedPcs, HandlerPcs
<1>31. ASSUME NEW t \in Threads, NEW d \in Levels, NEW verdict \in BOOLEAN,
              BarrierIntro(t, d, verdict)
       PROVE  [Service!Next]_(Service!svars)
  <2>1. CASE dll = "unloaded"
    BY <1>31, <2>1, CrashStutters DEF BarrierIntro
  <2>2. CASE dll # "unloaded"
    <3>1. /\ Goto(t, d, "jump") \/ Goto(t, d, "reject")
          /\ UNCHANGED <<hook, apiState>> /\ frame[t][d].pc \in HandlerPcs
      BY <1>31, <2>2 DEF BarrierIntro, InPage, At, HandlerPcs
    <3> QED BY <1>29, <1>30, <3>1
  <2> QED BY <2>1, <2>2
<1>32. ASSUME NEW t \in Threads, NEW d \in Levels, JumpToHandler(t, d)
       PROVE  [Service!Next]_(Service!svars)
  <2>1. CASE Crash("null handler")
    BY <2>1, CrashStutters
  <2>2. CASE ~Crash("null handler")
    <3>1. /\ Goto(t, d, "handler") /\ UNCHANGED <<hook, apiState>>
          /\ frame[t][d].pc \in HandlerPcs
      BY <1>32, <2>2 DEF JumpToHandler, InPage, At, HandlerPcs
    <3> QED BY <1>29, <1>30, <3>1
  <2> QED BY <2>1, <2>2
<1>33. ASSUME NEW t \in Threads, NEW d \in Levels, HandlerReturns(t, d) \/ BarrierOutro(t, d)
       PROVE  [Service!Next]_(Service!svars)
  <2>1. CASE Crash("unloaded dll")
    BY <2>1, CrashStutters
  <2>2. CASE ~Crash("unloaded dll")
    <3>1. /\ Goto(t, d, "outro") \/ Goto(t, d, "uncount")
          /\ UNCHANGED <<hook, apiState>> /\ frame[t][d].pc \in HandlerPcs
      BY <1>33, <2>2 DEF HandlerReturns, BarrierOutro, InPage, At, HandlerPcs
    <3> QED BY <1>29, <1>30, <3>1
  <2> QED BY <2>1, <2>2
<1>34. ASSUME NEW t \in Threads, NEW d \in Levels, CountOut(t, d)
       PROVE  [Service!Next]_(Service!svars)
  <2>1. PICK h \in Hooks : frame[t][d].hook = h
    BY <1>34, FrameHook DEF CountOut, InPage, At
  <2>2. /\ hook' = [hook EXCEPT ![h].IsExecuted = @ - 1]
        /\ Goto(t, d, "return") \/ Goto(t, d, "leave")
        /\ UNCHANGED apiState /\ frame[t][d].pc \in {"uncount", "reject"}
    BY <1>34, <2>1 DEF CountOut, InPage, At
  <2>3. \A g \in Hooks : hook'[g].page = hook[g].page /\ hook'[g].HookProc = hook[g].HookProc
    BY <1>01, <2>2 DEF HookRecord
  <2>4. FrameOf(t, d) /\ frame'[t][d].pc \in {"return", "leave"}
    BY <1>30, <2>1, <2>2, FrameGoto
  <2> QED BY <2>2, <2>3, <2>4, FrameStepRefines DEF HandlerPcs
<1>35. ASSUME NEW t \in Threads, NEW d \in Levels, LeavePage(t, d)
       PROVE  [Service!Next]_(Service!svars)
  <2> DEFINE next == hook[frame[t][d].hook].OldProc
             on == [pc |-> "entered", hook |-> next]
  <2>1. next \in Hooks \cup {Original} /\ frame[t][d].pc \in {"return", "leave"}
    BY <1>35, FrameHook DEF LeavePage, InPage, At, HookRecord
  <2>2. next # Original => on \in FrameRecord /\ on.hook \in Hooks
    BY <2>1 DEF FrameRecord, FramePcs
  <2>3. /\ \/ frame' = [frame EXCEPT ![t][d] = IdleFrame]
           \/ next # Original /\ frame' = [frame EXCEPT ![t][d] = on]
        /\ UNCHANGED <<hook, apiState>>
    BY <1>35 DEF LeavePage
  <2>4. on.pc = "entered" /\ IdleFrame.pc = "idle"
    BY DEF IdleFrame
  <2> HIDE DEF on, next
  <2>5. FrameOf(t, d) /\ frame'[t][d].pc \in {"idle", "entered"}
    BY <2>2, <2>3, <2>4, IdleTyped, FrameBecomes
  <2> QED BY <2>1, <2>3, <2>5, OutsideStutters DEF HandlerPcs
<1>37. ASSUME NEW t \in Threads, NEW d \in Levels, RunFreedPage(t, d)
       PROVE  [Service!Next]_(Service!svars)
  BY <1>37, CrashStutters DEF RunFreedPage
<1>36. CASE UNCHANGED vars
  <2>1. \A h \in Hooks : StageIsKept(h)
    BY <1>36 DEF StageIsKept, InPreparation, vars
  <2> QED BY <1>36, <2>1, Stutters DEF vars
<1> QED
  BY <1>1, <1>2, <1>3, <1>4, <1>5, <1>8, <1>9, <1>10, <1>11, <1>12, <1>14, <1>16, <1>17,
     <1>19, <1>20, <1>21, <1>22, <1>23, <1>24, <1>25, <1>26, <1>27, <1>28, <1>31, <1>32,
     <1>33, <1>34, <1>35, <1>36, <1>37
     DEF Next, Install, Uninstall, Wait, WaitStep, Trampoline

\* Before the first install no hook is prepared and no thread is behind a check.
LEMMA InitRefines == Init => Service!Init
<1> SUFFICES ASSUME Init PROVE Service!Init
  OBVIOUS
<1>1. Stages = [h \in Hooks |-> "absent"]
  BY DEF Init, Stages, LifeStage, BlankHook
<1>2. \A t \in Threads, d \in Levels : frame[t][d].pc = "idle"
  BY DEF Init, IdleFrame
<1>3. \A a \in Activations : a[1] \in Threads /\ a[2] \in Levels
  BY DEF Activations
<1>4. Insiders = [h \in Hooks |-> {}]
  BY <1>2, <1>3 DEF Insiders, InHandler, HandlerPcs
<1>5. dll # "unloaded"
  BY DEF Init
<1> QED BY <1>1, <1>4, <1>5 DEF Service!Init

\* A hook of the core passes its stages in order and once, only an armed one lets a thread
\* behind its check, and only a removed one that no thread is behind is released, for every
\* number of threads, hooks, functions and slots.
THEOREM CoreImplementsService == Spec => ImplementsService
<1>1. TypeInv /\ PinInv /\ [Next]_vars => (TypeInv /\ PinInv)'
  BY TypeInvStep, PinInvStep
<1>2. Init => TypeInv /\ PinInv
  BY InitTypeInv, InitPinInv
<1>3. TypeInv /\ TypeInv' /\ PinInv /\ [Next]_vars => [Service!Next]_(Service!svars)
  BY StepRefines
<1> QED BY <1>1, <1>2, <1>3, InitRefines, PTL DEF Spec, Service!Spec, ImplementsService

=============================================================================
