------------------------ MODULE ThreadBarrier_proofs ------------------------
(***************************************************************************)
(* The thread deadlock barrier keeps its promises for any number of        *)
(* threads, hooks, slots and storage entries and for every depth of        *)
(* nesting.                                                                *)
(***************************************************************************)
EXTENDS ThreadBarrier, TLAPS

Pcs == {"idle", "intro", "alloc", "negotiate", "handler", "outro"}

Frames == [pc : Pcs, hook : Hooks \cup {NULL}, trace : {"none", "open", "failed"}]

Table == [Slots -> RuntimeInfo]

ThreadInfo == [Entries : Table \cup {NULL}, Current : Slots \cup {NULL},
               Callback : Hooks \cup {NULL}, IsProtected : BOOLEAN]

TypeInv ==
  /\ IdList \in [Entries -> Threads \cup {NULL}]
  /\ tls \in [Entries -> ThreadInfo]
  /\ slotOf \in [Hooks -> Slots \cup {NULL}]
  /\ frame \in [Threads -> [Levels -> Frames]]

\* A slot belongs to one hook.
SlotsAreOwned ==
  \A g, h \in Hooks : slotOf[g] = slotOf[h] /\ slotOf[g] # NULL => g = h

Entering == {"alloc", "negotiate"}
Within   == {"handler", "outro"}

\* Calls come from handlers, or from the heap while a table is allocated.
Stacked(t) ==
  \A d, e \in Levels :
    d < e /\ frame[t][e].pc # "idle" => frame[t][d].pc \in {"handler", "alloc"}

\* The hook of an activation keeps its slot, and a handler is entered without a stack trace.
HooksStay(t) ==
  \A d \in Levels :
    /\ frame[t][d].pc # "idle" => frame[t][d].hook \in Hooks /\ slotOf[frame[t][d].hook] # NULL
    /\ frame[t][d].pc \in {"intro", "alloc", "negotiate"} => frame[t][d].trace = "none"

\* A thread past the protection is registered; one that allocates its table was new.
Registers(t) ==
  /\ \A d \in Levels : frame[t][d].pc \in Entering \cup Within => \E i \in Entries : IdList[i] = t
  /\ \A d, e \in Levels : frame[t][d].pc = "alloc" /\ e # d => frame[t][e].pc \in {"idle", "intro"}

ThreadInv(t) == Stacked(t) /\ HooksStay(t) /\ Registers(t)

Paired(t, i) ==
  tls[i].IsProtected <=> \E d \in Levels : frame[t][d].pc \in Entering

\* The record of a handler in progress.
Recorded(t, i) ==
  \A d \in Levels :
    frame[t][d].pc \in Within =>
      /\ tls[i].Entries # NULL
      /\ tls[i].Entries[slotOf[frame[t][d].hook]] =
           [HLSIdent |-> frame[t][d].hook, IsExecuting |-> TRUE, RetAddress |-> d]

\* The handler context is that of the innermost handler, or none; and none once the end of a
\* stack trace failed.
InContext(t, i) ==
  \A d \in Levels :
    /\ tls[i].Current # NULL /\ frame[t][d].pc \in Within
    /\ \A e \in Levels : e > d => frame[t][e].pc \notin Within
    => /\ tls[i].Callback = frame[t][d].hook
       /\ tls[i].Current = slotOf[frame[t][d].hook]
       /\ frame[t][d].trace # "failed"

\* What is marked as executing is, or was left past the outro; marks are of hooks that were
\* installed once.
Marked(t, i) ==
  tls[i].Entries # NULL =>
    \A s \in Slots, h \in Hooks :
      tls[i].Entries[s].HLSIdent = h =>
        /\ slotOf[h] # NULL \/ h \in removed
        /\ tls[i].Entries[s].IsExecuting /\ slotOf[h] = s =>
             <<t, h>> \in skipped \/ \E d \in Levels : frame[t][d].hook = h /\ frame[t][d].pc \in Within

EntryInv(t, i) == Paired(t, i) /\ Recorded(t, i) /\ InContext(t, i) /\ Marked(t, i)

Inv ==
  /\ TypeInv /\ EntriesAreOwned /\ SlotsAreOwned /\ AssertionsHold
  /\ \A t \in Threads : ThreadInv(t)
  /\ \A t \in Threads, i \in Entries : IdList[i] = t => EntryInv(t, i)

----------------------------------------------------------------------------
(* What the steps have in common. *)

LEMMA Numbers ==
  /\ Levels \subseteq Nat /\ Slots \subseteq Nat /\ Entries \subseteq Nat
  /\ NULL \notin Threads /\ NULL \notin Hooks /\ NULL \notin Slots /\ NULL \notin Levels
  /\ NULL \notin Table
  BY HookCount, ThreadCount, DepthBound, NullIsNothing, NullIsNoTable DEF Levels, Slots, Entries, Table

\* The scan of IdList finds the entry the thread owns.
LEMMA OwnEntry ==
  ASSUME Inv, NEW t \in Threads, Registered(t)
  PROVE  \E i \in Entries : IdList[i] = t /\ EntryOf(t) = i /\ Info(t) = tls[i] /\ EntryInv(t, i)
<1>1. EntryOf(t) \in Entries /\ IdList[EntryOf(t)] = t
  BY DEF Registered, EntryOf
<1>2. EntryInv(t, EntryOf(t))
  BY <1>1 DEF Inv
<1> QED
  BY <1>1, <1>2 DEF Info

\* One activation moves on; the others stay where they are.
Moved(t, d, p, h, trace) ==
  /\ frame' \in [Threads -> [Levels -> Frames]]
  /\ \A u \in Threads, e \in Levels : u # t \/ e # d => frame'[u][e] = frame[u][e]
  /\ frame'[t][d].pc = p /\ frame'[t][d].hook = h /\ frame'[t][d].trace = trace

LEMMA Goes ==
  ASSUME TypeInv, NEW t \in Threads, NEW d \in Levels, NEW p \in Pcs, Goto(t, d, p)
  PROVE  Moved(t, d, p, frame[t][d].hook, frame[t][d].trace)
<1>1. frame[t][d] \in Frames
  BY DEF TypeInv
<1>2. [frame[t][d] EXCEPT !.pc = p] \in Frames
  BY <1>1 DEF Frames
<1>3. frame' = [frame EXCEPT ![t] = [frame[t] EXCEPT ![d] = [frame[t][d] EXCEPT !.pc = p]]]
  BY DEF Goto, TypeInv
<1>4. frame' \in [Threads -> [Levels -> Frames]]
  BY <1>2, <1>3 DEF TypeInv
<1>5. frame'[t][d] = [frame[t][d] EXCEPT !.pc = p]
  BY <1>3 DEF TypeInv
<1>6. \A u \in Threads, e \in Levels : u # t \/ e # d => frame'[u][e] = frame[u][e]
  BY <1>3 DEF TypeInv
<1> QED
  BY <1>1, <1>4, <1>5, <1>6 DEF Moved, Frames

LEMMA Leaves ==
  ASSUME TypeInv, NEW t \in Threads, NEW d \in Levels, RunOriginal(t, d)
  PROVE  Moved(t, d, "idle", NULL, "none")
  BY DEF TypeInv, RunOriginal, IdleFrame, Moved, Frames, Pcs

\* A step of one thread keeps what holds of the others.
LEMMA StepOf ==
  ASSUME Inv, NEW t \in Threads, TypeInv', EntriesAreOwned',
         UNCHANGED <<slotOf, removed>>, fault' # "assertion",
         \A u \in Threads, e \in Levels : u # t => frame'[u][e] = frame[u][e],
         \A i \in Entries : IdList[i] \notin {t, NULL} => IdList'[i] = IdList[i] /\ tls'[i] = tls[i],
         \A i \in Entries : IdList[i] \in {t, NULL} => IdList'[i] \in {t, NULL},
         \A u \in Threads, h \in Hooks : u # t => (<<u, h>> \in skipped <=> <<u, h>> \in skipped'),
         ThreadInv(t)', \A i \in Entries : IdList'[i] = t => EntryInv(t, i)'
  PROVE  Inv'
<1>1. ASSUME NEW u \in Threads, u # t
      PROVE  ThreadInv(u)'
  <2>1. Stacked(u)'
    BY <1>1 DEF Inv, ThreadInv, Stacked
  <2>2. HooksStay(u)'
    BY <1>1 DEF Inv, ThreadInv, HooksStay
  <2>3. Registers(u)'
    <3>1. \A i \in Entries : IdList[i] = u => IdList'[i] = u
      BY <1>1, Numbers
    <3> QED
      BY <1>1, <3>1 DEF Inv, ThreadInv, Registers
  <2> QED
    BY <2>1, <2>2, <2>3 DEF ThreadInv
<1>2. ASSUME NEW u \in Threads, u # t, NEW i \in Entries, IdList'[i] = u
      PROVE  EntryInv(u, i)'
  <2>1. IdList[i] = u /\ tls'[i] = tls[i]
    BY <1>2, Numbers DEF Inv, TypeInv
  <2>2. EntryInv(u, i)
    BY <2>1 DEF Inv
  <2>3. Paired(u, i)'
    BY <1>2, <2>1, <2>2 DEF EntryInv, Paired
  <2>4. Recorded(u, i)'
    BY ZenonT(60), <1>2, <2>1, <2>2 DEF EntryInv, Recorded
  <2>5. InContext(u, i)'
    BY <1>2, <2>1, <2>2 DEF EntryInv, InContext
  <2>6. Marked(u, i)'
    BY <1>2, <2>1, <2>2 DEF EntryInv, Marked
  <2> QED
    BY <2>3, <2>4, <2>5, <2>6 DEF EntryInv
<1> QED
  BY <1>1, <1>2 DEF Inv, SlotsAreOwned, AssertionsHold

----------------------------------------------------------------------------
(* Steps that move an activation and leave the storage alone. *)

\* Nothing but the activation changes: what it must show of itself.
LEMMA StepOfFrame ==
  ASSUME Inv, NEW t \in Threads, NEW d \in Levels, NEW p \in Pcs,
         NEW h \in Hooks \cup {NULL}, NEW trace \in {"none", "open", "failed"},
         Moved(t, d, p, h, trace), UNCHANGED <<IdList, tls, slotOf, removed>>, fault' # "assertion",
         \A u \in Threads, g \in Hooks : u # t => (<<u, g>> \in skipped <=> <<u, g>> \in skipped'),
         ThreadInv(t)', \A i \in Entries : IdList[i] = t => EntryInv(t, i)'
  PROVE  Inv'
<1>1. TypeInv' /\ EntriesAreOwned'
  BY DEF Inv, TypeInv, EntriesAreOwned, Moved
<1>2. \A u \in Threads, e \in Levels : u # t => frame'[u][e] = frame[u][e]
  BY DEF Moved
<1> QED
  BY <1>1, <1>2, StepOf

\* An activation that is in front of the barrier, or gone, does not touch what holds of the entry.
LEMMA MovesOutside ==
  ASSUME Inv, NEW t \in Threads, NEW d \in Levels, NEW p, NEW h, NEW trace, Moved(t, d, p, h, trace),
         frame[t][d].pc \notin Entering \cup Within, p \notin Entering \cup Within,
         UNCHANGED <<tls, slotOf, removed, skipped>>, NEW i \in Entries, IdList[i] = t
  PROVE  EntryInv(t, i)'
<1>1. EntryInv(t, i)
  BY DEF Inv
<1>2. \A e \in Levels : frame'[t][e].pc \in Within \cup Entering => e # d /\ frame'[t][e] = frame[t][e]
  BY DEF Moved
<1>3. \A e \in Levels : frame[t][e].pc \in Within \cup Entering => e # d /\ frame'[t][e] = frame[t][e]
  BY DEF Moved
<1>4. Paired(t, i)' /\ Recorded(t, i)'
  BY <1>1, <1>2, <1>3 DEF EntryInv, Paired, Recorded
<1>5. InContext(t, i)'
  BY <1>1, <1>2, <1>3 DEF EntryInv, InContext
<1>6. Marked(t, i)'
  BY <1>1, <1>2, <1>3 DEF EntryInv, Marked
<1> QED
  BY <1>4, <1>5, <1>6 DEF EntryInv

LEMMA CallHookedInv ==
  ASSUME Inv, NEW t \in Threads, NEW d \in Levels, NEW h \in Hooks, CallHooked(t, d, h)
  PROVE  Inv'
<1>1. Moved(t, d, "intro", h, "none")
  <2>1. [pc |-> "intro", hook |-> h, trace |-> "none"] \in Frames
    BY DEF Frames, Pcs
  <2> QED
    BY <2>1 DEF Inv, TypeInv, CallHooked, Moved
<1>2. frame[t][d].pc = "idle" /\ slotOf[h] # NULL /\ UNCHANGED <<IdList, tls, slotOf, removed, fault, skipped>>
  BY DEF CallHooked, hookState
<1>3. \A e \in Levels : e > d => frame[t][e].pc = "idle"
  BY <1>2, Numbers DEF Inv, ThreadInv, Stacked
<1>4. \A e \in Levels : e < d => frame[t][e].pc \in {"handler", "alloc"}
  <2>1. CASE d = 1
    BY <2>1 DEF Levels
  <2>2. CASE d > 1
    <3>1. d - 1 \in Levels /\ frame[t][d - 1].pc \in {"handler", "alloc"}
      BY <2>2, DepthBound DEF CallHooked, At, Levels
    <3>2. \A e \in Levels : e < d - 1 => frame[t][e].pc \in {"handler", "alloc"}
      BY <3>1 DEF Inv, ThreadInv, Stacked
    <3> QED
      BY <3>1, <3>2 DEF Levels
  <2> QED
    BY <2>1, <2>2 DEF Levels
<1>5. ThreadInv(t)'
  <2>1. Stacked(t)'
    BY <1>1, <1>3, <1>4, Numbers DEF Stacked, Moved
  <2>2. HooksStay(t)'
    BY <1>1, <1>2 DEF Inv, ThreadInv, HooksStay, Moved
  <2>3. Registers(t)'
    BY <1>1, <1>2 DEF Inv, ThreadInv, Registers, Moved, Entering, Within
  <2> QED
    BY <2>1, <2>2, <2>3 DEF ThreadInv
<1>6. \A i \in Entries : IdList[i] = t => EntryInv(t, i)'
  BY <1>1, <1>2, MovesOutside DEF Inv, Entering, Within
<1>7. fault' # "assertion"
  BY <1>2 DEF Inv, AssertionsHold
<1> QED
  BY <1>1, <1>2, <1>5, <1>6, <1>7, StepOfFrame DEF Pcs

LEMMA IntroTurnsAwayInv ==
  ASSUME Inv, NEW t \in Threads, NEW d \in Levels, IntroTurnsAway(t, d)
  PROVE  Inv'
<1>1. Moved(t, d, "idle", NULL, "none")
  BY Leaves DEF Inv, IntroTurnsAway
<1>2. /\ frame[t][d].pc = "intro" /\ UNCHANGED <<IdList, tls, slotOf, removed, fault, skipped>>
      /\ \A e \in Levels : e > d => frame[t][e].pc = "idle"
  BY DEF IntroTurnsAway, At, hookState
<1>5. ThreadInv(t)'
  <2>1. Stacked(t)'
    BY <1>1, <1>2, Numbers DEF Inv, ThreadInv, Stacked, Moved
  <2>2. HooksStay(t)'
    BY <1>1, <1>2 DEF Inv, ThreadInv, HooksStay, Moved
  <2>3. Registers(t)'
    BY <1>1, <1>2 DEF Inv, ThreadInv, Registers, Moved, Entering, Within
  <2> QED
    BY <2>1, <2>2, <2>3 DEF ThreadInv
<1>6. \A i \in Entries : IdList[i] = t => EntryInv(t, i)'
  BY <1>1, <1>2, MovesOutside DEF Inv, Entering, Within
<1>7. fault' # "assertion"
  BY <1>2 DEF Inv, AssertionsHold
<1> QED
  BY <1>1, <1>2, <1>5, <1>6, <1>7, StepOfFrame DEF Pcs

----------------------------------------------------------------------------
(* Steps that write the thread's own entry. *)

\* One entry is written, by the thread that owns it before and after.
LEMMA StepOfEntry ==
  ASSUME Inv, NEW t \in Threads, NEW d \in Levels, NEW p, NEW h, NEW trace, Moved(t, d, p, h, trace),
         NEW i \in Entries, IdList[i] = t, NEW info \in ThreadInfo, tls' = [tls EXCEPT ![i] = info],
         UNCHANGED <<IdList, slotOf, removed, fault, skipped>>,
         ThreadInv(t)', EntryInv(t, i)'
  PROVE  Inv'
<1>1. \A j \in Entries : IdList[j] = t => j = i
  BY Numbers DEF Inv, EntriesAreOwned
<1>2. TypeInv'
  BY DEF Inv, TypeInv, Moved
<1>3. \A j \in Entries : j # i => tls'[j] = tls[j]
  BY DEF Inv, TypeInv
<1>4. EntriesAreOwned'
  BY <1>1, <1>3, Numbers DEF Inv, EntriesAreOwned
<1>5. \A j \in Entries : IdList[j] \notin {t, NULL} => IdList'[j] = IdList[j] /\ tls'[j] = tls[j]
  BY <1>1, <1>3
<1>6. \A j \in Entries : IdList'[j] = t => EntryInv(t, j)'
  BY <1>1
<1>7. fault' # "assertion"
  BY DEF Inv, AssertionsHold
<1>8. \A u \in Threads, e \in Levels : u # t => frame'[u][e] = frame[u][e]
  BY DEF Moved
<1> QED
  BY <1>2, <1>4, <1>5, <1>6, <1>7, <1>8, StepOf

\* While a thread is in front of the barrier nothing above it is in progress, and below are handlers.
LEMMA InFront ==
  ASSUME Inv, NEW t \in Threads, NEW d \in Levels, NEW p \in Pcs \ {"idle"}, At(t, d, p)
  PROVE  /\ frame[t][d].pc = p
         /\ \A e \in Levels : e > d => frame[t][e].pc = "idle"
         /\ \A e \in Levels : e < d => frame[t][e].pc \in {"handler", "alloc"}
         /\ p # "intro" => \A e \in Levels : e < d => frame[t][e].pc = "handler"
         /\ p # "intro" => Registered(t)
<1>1. /\ frame[t][d].pc = p
      /\ \A e \in Levels : e > d => frame[t][e].pc = "idle"
  BY DEF At
<1>2. \A e \in Levels : e < d => frame[t][e].pc \in {"handler", "alloc"}
  BY <1>1 DEF Inv, ThreadInv, Stacked
<1>3. p # "intro" => \A e \in Levels : e < d => frame[t][e].pc = "handler"
  BY <1>1, <1>2, Numbers DEF Inv, ThreadInv, Registers
<1>4. p # "intro" => Registered(t)
  BY <1>1 DEF Inv, ThreadInv, Registers, Registered, Entering, Within, Pcs
<1> QED
  BY <1>1, <1>2, <1>3, <1>4

\* AcquireSelfProtection of a registered thread.
LEMMA ProtectsInv ==
  ASSUME Inv, NEW t \in Threads, NEW d \in Levels, IntroProtects(t, d), Registered(t)
  PROVE  Inv'
<1>0. PICK i \in Entries : IdList[i] = t /\ EntryOf(t) = i /\ Info(t) = tls[i] /\ EntryInv(t, i)
  BY OwnEntry
<1> DEFINE info == [tls[i] EXCEPT !.IsProtected = TRUE]
<1>1. /\ ~ tls[i].IsProtected /\ tls' = [tls EXCEPT ![i].IsProtected = TRUE]
      /\ Goto(t, d, "negotiate") /\ At(t, d, "intro")
      /\ UNCHANGED <<IdList, slotOf, removed, fault, skipped>>
  BY <1>0 DEF IntroProtects, hookState
<1>2. tls[i] \in ThreadInfo
  BY DEF Inv, TypeInv
<1>3. info \in ThreadInfo /\ tls' = [tls EXCEPT ![i] = info]
  BY <1>1, <1>2 DEF Inv, TypeInv, ThreadInfo
<1>4. Moved(t, d, "negotiate", frame[t][d].hook, frame[t][d].trace)
  BY <1>1, Goes DEF Inv, Pcs
<1>5. /\ frame[t][d].pc = "intro"
      /\ \A e \in Levels : e > d => frame[t][e].pc = "idle"
      /\ \A e \in Levels : e < d => frame[t][e].pc = "handler"
  <2>1. \A e \in Levels : frame[t][e].pc # "alloc"
    BY <1>0, <1>1 DEF EntryInv, Paired, Entering
  <2> QED
    BY <1>1, <2>1, InFront DEF Pcs
<1>6. ThreadInv(t)'
  <2>1. Stacked(t)'
    BY <1>4, <1>5, Numbers DEF Inv, ThreadInv, Stacked, Moved
  <2>2. HooksStay(t)'
    BY <1>1, <1>4, <1>5 DEF Inv, ThreadInv, HooksStay, Moved
  <2>3. Registers(t)'
    BY SMTT(30), <1>0, <1>1, <1>4, <1>5, Numbers DEF Inv, ThreadInv, Registers, Moved
  <2> QED
    BY <2>1, <2>2, <2>3 DEF ThreadInv
<1>7. EntryInv(t, i)'
  <2>1. /\ tls'[i].IsProtected /\ tls'[i].Entries = tls[i].Entries
        /\ tls'[i].Current = tls[i].Current /\ tls'[i].Callback = tls[i].Callback
    BY <1>2, <1>3 DEF Inv, TypeInv, ThreadInfo
  <2>2. \A e \in Levels : (frame'[t][e].pc \in Within <=> frame[t][e].pc \in Within)
                          /\ (frame[t][e].pc \in Within => frame'[t][e] = frame[t][e])
    BY <1>4, <1>5 DEF Moved, Within
  <2>3. Paired(t, i)'
    BY <1>4, <2>1 DEF Paired, Moved, Entering
  <2>4. Recorded(t, i)'
    BY <1>0, <1>1, <2>1, <2>2 DEF EntryInv, Recorded
  <2>5. InContext(t, i)'
    BY <1>0, <1>1, <2>1, <2>2 DEF EntryInv, InContext
  <2>6. Marked(t, i)'
    BY <1>0, <1>1, <2>1, <2>2 DEF EntryInv, Marked
  <2> QED
    BY <2>3, <2>4, <2>5, <2>6 DEF EntryInv
<1> QED
  BY <1>0, <1>1, <1>3, <1>4, <1>6, <1>7, StepOfEntry

\* TlsAddCurrentThread: a new thread is nowhere behind the barrier, and takes a clean entry.
LEMMA AddThreadInv ==
  ASSUME Inv, NEW t \in Threads, NEW d \in Levels, IntroProtects(t, d), ~ Registered(t)
  PROVE  Inv'
<1>1. PICK i \in Entries :
        /\ IdList[i] = NULL /\ IdList' = [IdList EXCEPT ![i] = t]
        /\ tls' = [tls EXCEPT ![i] = [ZeroEntry EXCEPT !.IsProtected = TRUE]]
  BY DEF IntroProtects, TlsAddCurrentThread
<1> DEFINE info == [ZeroEntry EXCEPT !.IsProtected = TRUE]
<1>2. /\ info \in ThreadInfo /\ info.Entries = NULL /\ info.Current = NULL /\ info.IsProtected
      /\ tls' = [tls EXCEPT ![i] = info]
  BY <1>1 DEF ThreadInfo, ZeroEntry
<1> HIDE DEF info
<1>3. Moved(t, d, "alloc", frame[t][d].hook, frame[t][d].trace) /\ At(t, d, "intro")
  BY Goes DEF Inv, Pcs, IntroProtects
<1>4. UNCHANGED <<slotOf, removed, fault, skipped>>
  BY DEF IntroProtects, hookState
<1>5. \A e \in Levels : frame[t][e].pc \in {"idle", "intro"}
  BY Numbers DEF Inv, ThreadInv, Registers, Registered, Entering, Within, TypeInv, Frames, Pcs
<1>6. /\ frame[t][d].pc = "intro"
      /\ \A e \in Levels : e # d => frame[t][e].pc = "idle" /\ e > d
  <2>1. \A e \in Levels : ~ (e < d)
    BY <1>3, <1>5, InFront DEF Pcs
  <2> QED
    BY <1>3, <2>1, InFront, Numbers DEF Pcs
<1>7. /\ IdList'[i] = t /\ tls'[i] = info
      /\ \A j \in Entries : j # i => IdList'[j] = IdList[j] /\ tls'[j] = tls[j] /\ IdList[j] # t
  BY <1>1, <1>2 DEF Inv, TypeInv, Registered
<1>8. TypeInv'
  BY <1>1, <1>2, <1>3, <1>4 DEF Inv, TypeInv, Moved
<1>9. EntriesAreOwned'
  BY <1>7, Numbers DEF Inv, EntriesAreOwned
<1>10. ThreadInv(t)'
  <2>1. Stacked(t)'
    BY <1>3, <1>6, Numbers DEF Stacked, Moved
  <2>2. HooksStay(t)'
    BY <1>3, <1>4, <1>6 DEF Inv, ThreadInv, HooksStay, Moved
  <2>3. Registers(t)'
    BY <1>3, <1>6, <1>7 DEF Registers, Moved
  <2> QED
    BY <2>1, <2>2, <2>3 DEF ThreadInv
<1>11. EntryInv(t, i)'
  <2>1. \A e \in Levels : frame'[t][e].pc \notin Within
    BY <1>3, <1>6 DEF Moved, Within
  <2>2. Paired(t, i)'
    BY <1>2, <1>3, <1>7 DEF Paired, Moved, Entering
  <2>3. Recorded(t, i)' /\ InContext(t, i)' /\ Marked(t, i)'
    BY <1>2, <1>7, <2>1 DEF Recorded, InContext, Marked
  <2> QED
    BY <2>2, <2>3 DEF EntryInv
<1>12. \A j \in Entries : IdList'[j] = t => EntryInv(t, j)'
  BY <1>7, <1>11
<1>13. \A u \in Threads, e \in Levels : u # t => frame'[u][e] = frame[u][e]
  BY <1>3 DEF Moved
<1>14. fault' # "assertion"
  BY <1>4 DEF Inv, AssertionsHold
<1>15. \A j \in Entries : /\ IdList[j] \notin {t, NULL} => IdList'[j] = IdList[j] /\ tls'[j] = tls[j]
                          /\ IdList[j] \in {t, NULL} => IdList'[j] \in {t, NULL}
  BY <1>1, <1>7
<1> QED
  BY <1>4, <1>8, <1>9, <1>10, <1>12, <1>13, <1>14, <1>15, StepOf

\* The table of a new thread, or none: nothing is marked in either.
LEMMA IntroAllocatesInv ==
  ASSUME Inv, NEW t \in Threads, NEW d \in Levels, IntroAllocates(t, d)
  PROVE  Inv'
<1>1. /\ frame[t][d].pc = "alloc" /\ Registered(t)
      /\ \A e \in Levels : e # d => frame[t][e].pc = "idle"
      /\ \A e \in Levels : e > d => frame[t][e].pc = "idle"
      /\ \A e \in Levels : ~ (e < d)
  <2>1. /\ frame[t][d].pc = "alloc" /\ Registered(t)
        /\ \A e \in Levels : e > d => frame[t][e].pc = "idle"
        /\ \A e \in Levels : e < d => frame[t][e].pc = "handler"
    BY InFront DEF IntroAllocates, Pcs
  <2>2. \A e \in Levels : e # d => frame[t][e].pc \in {"idle", "intro"}
    BY <2>1 DEF Inv, ThreadInv, Registers
  <2> QED
    BY <2>1, <2>2, Numbers
<1>2. PICK i \in Entries : IdList[i] = t /\ EntryOf(t) = i /\ Info(t) = tls[i] /\ EntryInv(t, i)
  BY <1>1, OwnEntry
<1>3. UNCHANGED <<IdList, slotOf, removed, fault, skipped>>
  BY DEF IntroAllocates, hookState
<1>4. tls[i] \in ThreadInfo
  BY DEF Inv, TypeInv
<1>5. CASE tls' = [tls EXCEPT ![i].Entries = [s \in Slots |-> ZeroRuntime]] /\ Goto(t, d, "negotiate")
  <2> DEFINE info == [tls[i] EXCEPT !.Entries = [s \in Slots |-> ZeroRuntime]]
  <2>1. [s \in Slots |-> ZeroRuntime] \in Table
    BY DEF Table, RuntimeInfo, ZeroRuntime
  <2>2. info \in ThreadInfo /\ tls' = [tls EXCEPT ![i] = info]
    BY <1>4, <1>5, <2>1 DEF Inv, TypeInv, ThreadInfo
  <2>3. Moved(t, d, "negotiate", frame[t][d].hook, frame[t][d].trace)
    BY <1>5, Goes DEF Inv, Pcs
  <2>4. ThreadInv(t)'
    <3>1. Stacked(t)'
      BY <1>1, <2>3, Numbers DEF Stacked, Moved
    <3>2. HooksStay(t)'
      BY <1>1, <1>3, <2>3 DEF Inv, ThreadInv, HooksStay, Moved
    <3>3. Registers(t)'
      BY <1>1, <1>2, <1>3, <2>3 DEF Registers, Moved
    <3> QED
      BY <3>1, <3>2, <3>3 DEF ThreadInv
  <2>5. EntryInv(t, i)'
    <3>1. /\ tls'[i].IsProtected = tls[i].IsProtected
          /\ tls'[i].Entries = [s \in Slots |-> ZeroRuntime]
      BY <1>4, <2>2 DEF Inv, TypeInv, ThreadInfo
    <3>2. \A e \in Levels : frame'[t][e].pc \notin Within
      BY <1>1, <2>3 DEF Moved, Within
    <3>3. Paired(t, i)'
      BY <1>1, <1>2, <2>3, <3>1 DEF EntryInv, Paired, Moved, Entering
    <3>4. Recorded(t, i)' /\ InContext(t, i)'
      BY <3>2 DEF Recorded, InContext
    <3>5. Marked(t, i)'
      BY <3>1, Numbers DEF Marked, ZeroRuntime
    <3> QED
      BY <3>3, <3>4, <3>5 DEF EntryInv
  <2> QED
    BY <1>2, <1>3, <2>2, <2>3, <2>4, <2>5, StepOfEntry
<1>6. CASE tls' = [tls EXCEPT ![i] = Unprotected(@)] /\ RunOriginal(t, d)
  <2>1. Unprotected(tls[i]) \in ThreadInfo /\ tls' = [tls EXCEPT ![i] = Unprotected(tls[i])]
    BY <1>4, <1>6 DEF ThreadInfo, Unprotected, Inv, TypeInv
  <2>2. Moved(t, d, "idle", NULL, "none")
    BY <1>6, Leaves DEF Inv
  <2>3. ThreadInv(t)'
    BY <1>1, <2>2 DEF ThreadInv, Stacked, HooksStay, Registers, Moved, Entering, Within
  <2>4. EntryInv(t, i)'
    <3>1. ~ tls'[i].IsProtected /\ tls'[i].Entries = tls[i].Entries
      BY <1>4, <2>1 DEF ThreadInfo, Unprotected, Inv, TypeInv
    <3>2. \A e \in Levels : frame'[t][e].pc \notin Within \cup Entering
      BY <1>1, <2>2 DEF Moved, Within, Entering
    <3>3. Paired(t, i)' /\ Recorded(t, i)' /\ InContext(t, i)'
      BY <3>1, <3>2 DEF Paired, Recorded, InContext
    <3>4. \A e \in Levels : frame[t][e].pc \notin Within
      BY <1>1 DEF Within
    <3>5. Marked(t, i)'
      BY <1>2, <1>3, <3>1, <3>4 DEF EntryInv, Marked
    <3> QED
      BY <3>3, <3>5 DEF EntryInv
  <2> QED
    BY <1>2, <1>3, <2>1, <2>2, <2>3, <2>4, StepOfEntry
<1> QED
  BY <1>2, <1>5, <1>6 DEF IntroAllocates

\* The barrier stays closed, or opens for a handler that this thread is not executing.
LEMMA IntroNegotiatesInv ==
  ASSUME Inv, NEW t \in Threads, NEW d \in Levels, IntroNegotiates(t, d)
  PROVE  Inv'
<1> DEFINE h == frame[t][d].hook
           s == slotOf[h]
           r == RuntimeOf(t, h)
<1>1. /\ frame[t][d].pc = "negotiate" /\ Registered(t)
      /\ \A e \in Levels : e > d => frame[t][e].pc = "idle"
      /\ \A e \in Levels : e < d => frame[t][e].pc = "handler"
  BY InFront DEF IntroNegotiates, Pcs
<1>2. PICK i \in Entries : IdList[i] = t /\ EntryOf(t) = i /\ Info(t) = tls[i] /\ EntryInv(t, i)
  BY <1>1, OwnEntry
<1>3. UNCHANGED <<IdList, slotOf, removed, fault, skipped>> /\ tls[i].Entries # NULL
  BY <1>2 DEF IntroNegotiates, hookState
<1>4. tls[i] \in ThreadInfo /\ tls[i].Entries \in Table
  BY <1>3 DEF Inv, TypeInv, ThreadInfo
<1>5. h \in Hooks /\ s \in Slots
  BY <1>1 DEF Inv, ThreadInv, HooksStay, TypeInv
<1>6. /\ r \in RuntimeInfo /\ r.HLSIdent = h
      /\ tls[i].Entries[s].HLSIdent = h => r = tls[i].Entries[s]
      /\ tls[i].Entries[s].HLSIdent # h => ~ r.IsExecuting
  <2>1. tls[i].Entries[s] \in RuntimeInfo
    BY <1>4, <1>5 DEF Table
  <2>2. r = IF tls[i].Entries[s].HLSIdent = h THEN tls[i].Entries[s]
            ELSE [tls[i].Entries[s] EXCEPT !.HLSIdent = h, !.IsExecuting = FALSE]
    BY <1>2 DEF RuntimeOf
  <2> HIDE DEF r, h, s
  <2> DEFINE left == tls[i].Entries[s]
  <2>3. CASE left.HLSIdent = h
    BY <2>1, <2>2, <2>3
  <2>4. CASE left.HLSIdent # h
    <3>1. r = [left EXCEPT !.HLSIdent = h, !.IsExecuting = FALSE]
      BY <2>2, <2>4
    <3>2. left \in RuntimeInfo
      BY <2>1
    <3> HIDE DEF left
    <3>3. r \in RuntimeInfo /\ r.HLSIdent = h /\ ~ r.IsExecuting
      BY <1>5, <3>1, <3>2 DEF RuntimeInfo
    <3> QED
      BY <2>4, <3>3 DEF left
  <2> QED
    BY <2>3, <2>4
<1>7. \A e \in Levels : e # d /\ frame[t][e].pc \in Within =>
        e < d /\ frame[t][e].hook \in Hooks /\ slotOf[frame[t][e].hook] \in Slots
        /\ tls[i].Entries[slotOf[frame[t][e].hook]] =
             [HLSIdent |-> frame[t][e].hook, IsExecuting |-> TRUE, RetAddress |-> e]
        /\ (slotOf[frame[t][e].hook] = s => frame[t][e].hook = h)
  BY <1>1, <1>2, <1>5, Numbers DEF Inv, ThreadInv, HooksStay, TypeInv, EntryInv, Recorded, SlotsAreOwned, Within
<1>8. PICK intercepted \in BOOLEAN :
        IF intercepted /\ ~r.IsExecuting
        THEN /\ tls' = [tls EXCEPT ![i] =
                         [Entries |-> [@.Entries EXCEPT ![s] = [r EXCEPT !.IsExecuting = TRUE, !.RetAddress = d]],
                          Current |-> s, Callback |-> h, IsProtected |-> FALSE]]
             /\ Goto(t, d, "handler")
        ELSE /\ tls' = [tls EXCEPT ![i] = [Unprotected(tls[i]) EXCEPT !.Entries[s] = r]]
             /\ RunOriginal(t, d)
  BY <1>2 DEF IntroNegotiates
<1> HIDE DEF h, s, r
<1>9. CASE intercepted /\ ~ r.IsExecuting
  <2> DEFINE opened == [r EXCEPT !.IsExecuting = TRUE, !.RetAddress = d]
             table == [tls[i].Entries EXCEPT ![s] = opened]
             info == [Entries |-> table, Current |-> s, Callback |-> h, IsProtected |-> FALSE]
  <2>0. /\ opened \in RuntimeInfo
        /\ opened.HLSIdent = h /\ opened.IsExecuting = TRUE /\ opened.RetAddress = d
    BY <1>6 DEF RuntimeInfo
  <2> HIDE DEF opened
  <2>1. opened = [HLSIdent |-> h, IsExecuting |-> TRUE, RetAddress |-> d]
    BY <2>0 DEF RuntimeInfo
  <2>2. opened \in RuntimeInfo /\ table \in Table
    BY <1>4, <1>5, <2>0 DEF Table
  <2>3. info \in ThreadInfo /\ tls' = [tls EXCEPT ![i] = info]
    BY <1>5, <1>8, <1>9, <2>2 DEF Inv, TypeInv, ThreadInfo, opened
  <2>4. Moved(t, d, "handler", h, frame[t][d].trace)
    BY <1>8, <1>9, Goes DEF Inv, Pcs, h
  <2>5. tls'[i] = info
    BY <2>3 DEF Inv, TypeInv
  <2>6. table[s] = opened /\ \A x \in Slots : x # s => table[x] = tls[i].Entries[x]
    BY <1>4, <1>5 DEF Table
  <2>7. ThreadInv(t)'
    <3>1. Stacked(t)'
      BY <1>1, <2>4, Numbers DEF Stacked, Moved
    <3>2. HooksStay(t)'
      BY <1>1, <1>3, <2>4 DEF Inv, ThreadInv, HooksStay, Moved, h
    <3>3. Registers(t)'
      BY <1>1, <1>2, <1>3, <2>4, Numbers DEF Registers, Moved
    <3> QED
      BY <3>1, <3>2, <3>3 DEF ThreadInv
  <2>8. EntryInv(t, i)'
    <3> HIDE DEF table, opened
    <3>1. Paired(t, i)'
      BY <1>1, <2>4, <2>5, Numbers DEF Paired, Moved, Entering
    <3>2. \A e \in Levels : e # d /\ frame'[t][e].pc \in Within => slotOf[frame[t][e].hook] # s
      <4> SUFFICES ASSUME NEW e \in Levels, e # d, frame'[t][e].pc \in Within, slotOf[frame[t][e].hook] = s
                   PROVE  FALSE
        OBVIOUS
      <4>1. tls[i].Entries[s] = [HLSIdent |-> h, IsExecuting |-> TRUE, RetAddress |-> e]
        BY <1>7, <2>4 DEF Moved
      <4> QED
        BY <1>6, <1>9, <4>1
    <3>3. Recorded(t, i)'
      <4> SUFFICES ASSUME NEW e \in Levels, frame'[t][e].pc \in Within
                   PROVE  table # NULL /\ table[slotOf[frame'[t][e].hook]] =
                            [HLSIdent |-> frame'[t][e].hook, IsExecuting |-> TRUE, RetAddress |-> e]
        BY <1>3, <2>5 DEF Recorded
      <4>1. table # NULL
        BY <2>2, Numbers
      <4>2. CASE e = d
        BY <2>1, <2>4, <2>6, <4>1, <4>2 DEF Moved, s
      <4>3. CASE e # d
        BY <1>7, <2>4, <2>6, <3>2, <4>1, <4>3 DEF Moved
      <4> QED
        BY <4>2, <4>3
    <3>4. InContext(t, i)'
      <4> SUFFICES ASSUME NEW e \in Levels, frame'[t][e].pc \in Within,
                          \A f \in Levels : f > e => frame'[t][f].pc \notin Within
                   PROVE  h = frame'[t][e].hook /\ s = slotOf[frame'[t][e].hook] /\ frame'[t][e].trace # "failed"
        BY <1>3, <2>5 DEF InContext
      <4>1. e = d
        BY <1>1, <2>4, Numbers DEF Moved, Within
      <4>2. frame[t][d].trace # "failed"
        BY <1>1 DEF Inv, ThreadInv, HooksStay
      <4> QED
        BY <2>4, <4>1, <4>2 DEF Moved, s
    <3>5. Marked(t, i)'
      <4> SUFFICES ASSUME NEW x \in Slots, NEW g \in Hooks, table[x].HLSIdent = g
                   PROVE  /\ slotOf[g] # NULL \/ g \in removed
                          /\ table[x].IsExecuting /\ slotOf[g] = x =>
                               <<t, g>> \in skipped \/ \E e \in Levels : frame'[t][e].hook = g /\ frame'[t][e].pc \in Within
        BY <1>3, <2>5 DEF Marked
      <4>1. CASE x = s
        BY <1>5, <2>1, <2>4, <2>6, <4>1, Numbers DEF Moved, Within, s
      <4>2. CASE x # s
        <5>1. tls[i].Entries[x].HLSIdent = g /\ table[x] = tls[i].Entries[x]
          BY <2>6, <4>2
        <5> QED
          BY <1>1, <1>2, <1>3, <2>4, <5>1 DEF EntryInv, Marked, Moved, Within
      <4> QED
        BY <4>1, <4>2
    <3> QED
      BY <3>1, <3>3, <3>4, <3>5 DEF EntryInv
  <2> QED
    BY <1>2, <1>3, <2>3, <2>4, <2>7, <2>8, StepOfEntry
<1>10. CASE ~ (intercepted /\ ~ r.IsExecuting)
  <2> DEFINE table == [tls[i].Entries EXCEPT ![s] = r]
             info == [Unprotected(tls[i]) EXCEPT !.Entries = table]
  <2>1. table \in Table
    BY <1>4, <1>5, <1>6 DEF Table
  <2>2. Unprotected(tls[i]).Entries = tls[i].Entries
    BY <1>4 DEF Unprotected, ThreadInfo
  <2>3. tls' = [tls EXCEPT ![i] = [Unprotected(tls[i]) EXCEPT !.Entries[s] = r]] /\ RunOriginal(t, d)
    BY <1>8, <1>10
  <2>4. tls' = [tls EXCEPT ![i] = info]
    <3>1. Unprotected(tls[i]) \in ThreadInfo
      BY <1>4 DEF Unprotected, ThreadInfo
    <3>2. [Unprotected(tls[i]) EXCEPT !.Entries[s] = r] = info
      BY <2>2, <3>1 DEF ThreadInfo
    <3> QED
      BY <2>3, <3>2
  <2> HIDE DEF table
  <2>5. info \in ThreadInfo /\ info.Entries = table /\ info.Current = NULL /\ ~ info.IsProtected
    BY <1>4, <2>1 DEF ThreadInfo, Unprotected
  <2> HIDE DEF info
  <2>6. Moved(t, d, "idle", NULL, "none")
    BY <2>3, Leaves DEF Inv
  <2>7. tls'[i] = info
    BY <2>4 DEF Inv, TypeInv
  <2>8. table[s] = r /\ \A x \in Slots : x # s => table[x] = tls[i].Entries[x]
    BY <1>4, <1>5 DEF Table, table
  <2>9. ThreadInv(t)'
    <3>1. Stacked(t)'
      BY <1>1, <2>6, Numbers DEF Stacked, Moved
    <3>2. HooksStay(t)'
      BY <1>3, <2>6 DEF Inv, ThreadInv, HooksStay, Moved
    <3>3. Registers(t)'
      BY <1>1, <1>2, <1>3, <2>6, Numbers DEF Registers, Moved, Entering, Within
    <3> QED
      BY <3>1, <3>2, <3>3 DEF ThreadInv
  <2>10. EntryInv(t, i)'
    <3>0. \A e \in Levels : frame'[t][e].pc \in Within =>
            e # d /\ frame[t][e].pc \in Within /\ frame'[t][e] = frame[t][e]
      BY <2>6 DEF Moved, Within
    <3>1. Paired(t, i)'
      <4>1. \A e \in Levels : frame'[t][e].pc \notin Entering
        <5> SUFFICES ASSUME NEW e \in Levels, frame'[t][e].pc \in Entering PROVE FALSE
          OBVIOUS
        <5>1. e # d /\ frame[t][e].pc \in Entering
          BY <2>6 DEF Moved, Entering
        <5> QED
          BY <1>1, <5>1, Numbers DEF Entering
      <4> QED
        BY <2>5, <2>7, <4>1 DEF Paired
    <3>2. Recorded(t, i)'
      <4> SUFFICES ASSUME NEW e \in Levels, frame'[t][e].pc \in Within
                   PROVE  table # NULL /\ table[slotOf[frame'[t][e].hook]] =
                            [HLSIdent |-> frame'[t][e].hook, IsExecuting |-> TRUE, RetAddress |-> e]
        BY <1>3, <2>5, <2>7 DEF Recorded
      <4> DEFINE g == frame[t][e].hook
                 record == [HLSIdent |-> g, IsExecuting |-> TRUE, RetAddress |-> e]
      <4>1. table # NULL
        BY <2>1, Numbers
      <4>2. /\ frame'[t][e].hook = g /\ slotOf[g] \in Slots /\ tls[i].Entries[slotOf[g]] = record
            /\ slotOf[g] = s => g = h
        BY <1>7, <3>0
      <4>3. table[slotOf[g]] = record
        <5>1. CASE slotOf[g] = s
          <6>1. tls[i].Entries[s] = record /\ g = h
            BY <4>2, <5>1
          <6>2. r = tls[i].Entries[s]
            BY <1>6, <6>1
          <6> QED
            BY <2>8, <5>1, <6>1, <6>2
        <5>2. CASE slotOf[g] # s
          BY <2>8, <4>2, <5>2
        <5> QED
          BY <5>1, <5>2
      <4> QED
        BY <4>1, <4>2, <4>3
    <3>3. InContext(t, i)'
      BY <2>5, <2>7 DEF InContext
    <3>4. Marked(t, i)'
      <4> SUFFICES ASSUME NEW x \in Slots, NEW g \in Hooks, table[x].HLSIdent = g
                   PROVE  /\ slotOf[g] # NULL \/ g \in removed
                          /\ table[x].IsExecuting /\ slotOf[g] = x =>
                               <<t, g>> \in skipped \/ \E e \in Levels : frame'[t][e].hook = g /\ frame'[t][e].pc \in Within
        BY <1>3, <2>5, <2>7 DEF Marked
      <4>0. \A e \in Levels : frame[t][e].pc \in Within => frame'[t][e] = frame[t][e]
        BY <1>1, <2>6 DEF Moved, Within
      <4>1. CASE tls[i].Entries[x].HLSIdent = g /\ table[x] = tls[i].Entries[x]
        BY <1>2, <1>3, <4>0, <4>1 DEF EntryInv, Marked
      <4>2. CASE table[x] # tls[i].Entries[x] \/ tls[i].Entries[x].HLSIdent # g
        <5>1. x = s /\ g = h
          BY <1>6, <2>8, <4>2
        <5>2. ~ r.IsExecuting
          BY <1>6, <2>8, <4>2, <5>1
        <5>3. slotOf[g] # NULL
          BY <1>5, <5>1, Numbers DEF s
        <5> QED
          BY <2>8, <5>1, <5>2, <5>3
      <4> QED
        BY <4>1, <4>2
    <3> QED
      BY <3>1, <3>2, <3>3, <3>4 DEF EntryInv
  <2> QED
    BY <1>2, <1>3, <2>4, <2>5, <2>6, <2>9, <2>10, StepOfEntry
<1> QED
  BY <1>9, <1>10

----------------------------------------------------------------------------
(* Inside a handler, and out of it. *)

\* Nothing the invariant speaks of changes, except perhaps that the process crashed otherwise.
LEMMA NothingMoves ==
  ASSUME Inv, UNCHANGED <<IdList, tls, slotOf, removed, frame, skipped>>, fault' # "assertion"
  PROVE  Inv'
<1>1. ASSUME NEW t \in Threads PROVE ThreadInv(t)'
  BY DEF Inv, ThreadInv, Stacked, HooksStay, Registers
<1>2. ASSUME NEW t \in Threads, NEW i \in Entries, IdList'[i] = t PROVE EntryInv(t, i)'
  BY <1>2 DEF Inv, EntryInv, Paired, Recorded, InContext, Marked
<1> QED
  BY <1>1, <1>2 DEF Inv, TypeInv, EntriesAreOwned, SlotsAreOwned, AssertionsHold

\* The crash of a thread without a table is no failed assertion.
LEMMA IntroFindsNoTableInv ==
  ASSUME Inv, NEW t \in Threads, NEW d \in Levels, IntroFindsNoTable(t, d)
  PROVE  Inv'
  BY NothingMoves DEF IntroFindsNoTable, Crash, hookState

LEMMA Traces ==
  ASSUME TypeInv, NEW t \in Threads, NEW d \in Levels, NEW x \in {"none", "open", "failed"},
         frame' = [frame EXCEPT ![t][d].trace = x]
  PROVE  Moved(t, d, frame[t][d].pc, frame[t][d].hook, x)
<1>1. frame[t][d] \in Frames
  BY DEF TypeInv
<1>2. [frame[t][d] EXCEPT !.trace = x] \in Frames
  BY <1>1 DEF Frames
<1>3. frame' = [frame EXCEPT ![t] = [frame[t] EXCEPT ![d] = [frame[t][d] EXCEPT !.trace = x]]]
  BY DEF TypeInv
<1>4. frame' \in [Threads -> [Levels -> Frames]]
  BY <1>2, <1>3 DEF TypeInv
<1>5. frame'[t][d] = [frame[t][d] EXCEPT !.trace = x]
  BY <1>3 DEF TypeInv
<1>6. \A u \in Threads, e \in Levels : u # t \/ e # d => frame'[u][e] = frame[u][e]
  BY <1>3 DEF TypeInv
<1> QED
  BY <1>1, <1>4, <1>5, <1>6 DEF Moved, Frames

\* The innermost handler goes on; its stack trace fails only without a handler context.
LEMMA MovesWithin ==
  ASSUME Inv, NEW t \in Threads, NEW d \in Levels, NEW p \in Within, NEW trace \in {"none", "open", "failed"},
         Moved(t, d, p, frame[t][d].hook, trace), At(t, d, "handler"),
         \A i \in Entries : IdList[i] = t => trace # "failed" \/ tls[i].Current = NULL,
         UNCHANGED <<IdList, tls, slotOf, removed, fault, skipped>>
  PROVE  Inv'
<1>1. /\ frame[t][d].pc = "handler"
      /\ \A e \in Levels : e > d => frame[t][e].pc = "idle"
  BY DEF At
<1>2. \A e \in Levels : /\ frame'[t][e].pc \in Within <=> frame[t][e].pc \in Within
                        /\ frame'[t][e].pc \in Entering <=> frame[t][e].pc \in Entering
                        /\ frame'[t][e].hook = frame[t][e].hook
  BY <1>1 DEF Moved, Within, Entering
<1>3. ThreadInv(t)'
  <2>1. Stacked(t)'
    BY <1>1, Numbers DEF Inv, ThreadInv, Stacked, Moved
  <2>2. HooksStay(t)'
    BY <1>1 DEF Inv, ThreadInv, HooksStay, Moved, Within
  <2>3. Registers(t)'
    BY <1>1, <1>2 DEF Inv, ThreadInv, Registers, Moved, Within
  <2> QED
    BY <2>1, <2>2, <2>3 DEF ThreadInv
<1>4. ASSUME NEW i \in Entries, IdList[i] = t
      PROVE  EntryInv(t, i)'
  <2>1. EntryInv(t, i)
    BY <1>4 DEF Inv
  <2>2. Paired(t, i)' /\ Recorded(t, i)'
    BY <1>2, <2>1 DEF EntryInv, Paired, Recorded
  <2>3. InContext(t, i)'
    BY <1>2, <1>4, <2>1 DEF EntryInv, InContext, Moved
  <2>4. Marked(t, i)'
    BY <1>2, <2>1 DEF EntryInv, Marked
  <2> QED
    BY <2>2, <2>3, <2>4 DEF EntryInv
<1>5. frame[t][d].hook \in Hooks /\ p \in Pcs
  BY <1>1 DEF Inv, ThreadInv, HooksStay, Within, Pcs
<1>6. fault' # "assertion"
  BY DEF Inv, AssertionsHold
<1> QED
  BY <1>3, <1>4, <1>5, <1>6, StepOfFrame

LEMMA BeginStackTraceInv ==
  ASSUME Inv, NEW t \in Threads, NEW d \in Levels, LhBarrierBeginStackTrace(t, d)
  PROVE  Inv'
<1>1. Moved(t, d, "handler", frame[t][d].hook, "open")
  BY Traces DEF Inv, LhBarrierBeginStackTrace, At
<1> QED
  BY <1>1, MovesWithin DEF LhBarrierBeginStackTrace, hookState, Within

LEMMA EndStackTraceInv ==
  ASSUME Inv, NEW t \in Threads, NEW d \in Levels, LhBarrierEndStackTrace(t, d)
  PROVE  Inv'
<1> DEFINE x == IF InHandlerContext(t) THEN "none" ELSE "failed"
<1>1. Moved(t, d, "handler", frame[t][d].hook, x)
  BY Traces DEF Inv, LhBarrierEndStackTrace, At
<1>2. PICK i \in Entries : IdList[i] = t /\ Info(t) = tls[i]
  BY InFront, OwnEntry DEF LhBarrierEndStackTrace, Pcs
<1>3. \A j \in Entries : IdList[j] = t => x # "failed" \/ tls[j].Current = NULL
  BY <1>2, Numbers DEF InHandlerContext, Registered, Inv, EntriesAreOwned
<1>4. x \in {"none", "open", "failed"}
  OBVIOUS
<1> HIDE DEF x
<1> QED
  BY <1>1, <1>3, <1>4, MovesWithin DEF LhBarrierEndStackTrace, hookState, Within

\* A handler whose stack trace was not ended has no handler context; what it marked stays.
LEMMA HandlerSkipsInv ==
  ASSUME Inv, NEW t \in Threads, NEW d \in Levels, HandlerReturns(t, d), frame[t][d].trace # "none"
  PROVE  Inv'
<1>1. /\ frame[t][d].pc = "handler" /\ Registered(t)
      /\ \A e \in Levels : e > d => frame[t][e].pc = "idle"
      /\ \A e \in Levels : e < d => frame[t][e].pc = "handler"
  BY InFront DEF HandlerReturns, Pcs
<1>2. frame[t][d].trace = "failed"
  BY DEF HandlerReturns, Inv, TypeInv, Frames
<1>3. RunOriginal(t, d) /\ skipped' = skipped \cup {<<t, frame[t][d].hook>>}
  BY DEF HandlerReturns, RunOriginal
<1>4. Moved(t, d, "idle", NULL, "none") /\ UNCHANGED <<IdList, tls, slotOf, removed, fault>>
  BY <1>3, Leaves DEF Inv, HandlerReturns
<1>5. ThreadInv(t)'
  <2>1. Stacked(t)'
    BY <1>1, <1>4, Numbers DEF Stacked, Moved
  <2>2. HooksStay(t)'
    BY <1>4 DEF Inv, ThreadInv, HooksStay, Moved
  <2>3. Registers(t)'
    BY <1>1, <1>4 DEF Inv, ThreadInv, Registers, Moved, Entering, Within
  <2> QED
    BY <2>1, <2>2, <2>3 DEF ThreadInv
<1>6. ASSUME NEW i \in Entries, IdList[i] = t
      PROVE  EntryInv(t, i)'
  <2>1. EntryInv(t, i)
    BY <1>6 DEF Inv
  <2>2. \A e \in Levels : frame'[t][e].pc \in Within \cup Entering => frame'[t][e] = frame[t][e]
    BY <1>4 DEF Moved, Within, Entering
  <2>3. \A e \in Levels : e # d => frame'[t][e] = frame[t][e]
    BY <1>4 DEF Moved
  <2>4. Paired(t, i)'
    BY <1>1, <1>4, <2>1, <2>2, <2>3 DEF EntryInv, Paired, Entering
  <2>5. Recorded(t, i)'
    BY <1>4, <2>1, <2>2 DEF EntryInv, Recorded
  <2>6. tls[i].Current = NULL
    BY <1>1, <1>2, <2>1 DEF EntryInv, InContext, Within
  <2>7. InContext(t, i)'
    BY <1>4, <2>6 DEF InContext
  <2>8. Marked(t, i)'
    BY <1>3, <1>4, <2>1, <2>3 DEF EntryInv, Marked
  <2> QED
    BY <2>4, <2>5, <2>7, <2>8 DEF EntryInv
<1>7. \A u \in Threads, g \in Hooks : u # t => (<<u, g>> \in skipped <=> <<u, g>> \in skipped')
  BY <1>3
<1>8. fault' # "assertion"
  BY <1>4 DEF Inv, AssertionsHold
<1> QED
  BY <1>4, <1>5, <1>6, <1>7, <1>8, StepOfFrame DEF Pcs

LEMMA HandlerReturnsInv ==
  ASSUME Inv, NEW t \in Threads, NEW d \in Levels, HandlerReturns(t, d)
  PROVE  Inv'
<1>1. CASE frame[t][d].trace = "none"
  <2>1. Moved(t, d, "outro", frame[t][d].hook, "none")
    BY <1>1, Goes DEF Inv, HandlerReturns, Pcs
  <2>2. At(t, d, "handler") /\ UNCHANGED <<IdList, tls, slotOf, removed, fault, skipped>>
    BY <1>1 DEF HandlerReturns
  <2> QED
    BY <2>1, <2>2, MovesWithin DEF Within
<1> QED
  BY <1>1, HandlerSkipsInv

\* LhBarrierOutro finds what its intro recorded, and takes back that record only.
LEMMA LhBarrierOutroInv ==
  ASSUME Inv, NEW t \in Threads, NEW d \in Levels, LhBarrierOutro(t, d)
  PROVE  Inv'
<1> DEFINE h == frame[t][d].hook
           s == slotOf[h]
<1>1. /\ frame[t][d].pc = "outro" /\ Registered(t)
      /\ \A e \in Levels : e > d => frame[t][e].pc = "idle"
      /\ \A e \in Levels : e < d => frame[t][e].pc = "handler"
  <2>1. At(t, d, "outro")
    BY DEF LhBarrierOutro
  <2> QED
    BY <2>1, InFront DEF Pcs
<1>2. PICK i \in Entries : IdList[i] = t /\ EntryOf(t) = i /\ Info(t) = tls[i] /\ EntryInv(t, i)
  BY <1>1, OwnEntry
<1>3. h \in Hooks /\ s \in Slots
  BY <1>1 DEF Inv, ThreadInv, HooksStay, TypeInv
<1>4. \A e \in Levels : frame[t][e].pc \in Within =>
        /\ frame[t][e].hook \in Hooks /\ slotOf[frame[t][e].hook] \in Slots
        /\ tls[i].Entries # NULL
        /\ tls[i].Entries[slotOf[frame[t][e].hook]] =
             [HLSIdent |-> frame[t][e].hook, IsExecuting |-> TRUE, RetAddress |-> e]
  BY <1>2 DEF Inv, ThreadInv, HooksStay, TypeInv, EntryInv, Recorded, Within
<1>5. tls[i].Entries # NULL /\ tls[i].Entries[s] = [HLSIdent |-> h, IsExecuting |-> TRUE, RetAddress |-> d]
  BY <1>1, <1>4 DEF Within
<1>6. tls[i] \in ThreadInfo /\ tls[i].Entries \in Table
  BY <1>5 DEF Inv, TypeInv, ThreadInfo
<1>7. OutroAssertions(t, d)
  <2>1. ~ tls[i].IsProtected
    BY <1>1, <1>2, Numbers DEF EntryInv, Paired, Entering
  <2> QED
    BY <1>1, <1>2, <1>5, <2>1 DEF OutroAssertions
<1>8. /\ tls' = [tls EXCEPT ![i] = [Unprotected(tls[i]) EXCEPT !.Entries[s].IsExecuting = FALSE]]
      /\ RunOriginal(t, d)
      /\ UNCHANGED <<IdList, slotOf, removed, fault, skipped>>
  BY <1>2, <1>7 DEF LhBarrierOutro, hookState
<1> DEFINE record == [tls[i].Entries[s] EXCEPT !.IsExecuting = FALSE]
           table  == [tls[i].Entries EXCEPT ![s] = record]
           info   == [Unprotected(tls[i]) EXCEPT !.Entries = table]
<1>9. record \in RuntimeInfo /\ record.HLSIdent = h /\ ~ record.IsExecuting
  <2>1. tls[i].Entries[s] \in RuntimeInfo
    BY <1>3, <1>6 DEF Table
  <2>2. tls[i].Entries[s].HLSIdent = h
    BY <1>5
  <2> QED
    BY <2>1, <2>2 DEF RuntimeInfo
<1>10. table \in Table
  <2> HIDE DEF record
  <2> QED
    BY <1>3, <1>6, <1>9 DEF Table
<1>11. tls' = [tls EXCEPT ![i] = info]
  <2>1. Unprotected(tls[i]) \in ThreadInfo /\ Unprotected(tls[i]).Entries = tls[i].Entries
    BY <1>6 DEF Unprotected, ThreadInfo
  <2> HIDE DEF h, s
  <2>2. [Unprotected(tls[i]) EXCEPT !.Entries[s].IsExecuting = FALSE] = info
    BY <2>1 DEF ThreadInfo
  <2> QED
    BY <1>8, <2>2
<1> HIDE DEF record, table
<1>12. info \in ThreadInfo /\ info.Entries = table /\ info.Current = NULL /\ ~ info.IsProtected
  BY <1>6, <1>10 DEF ThreadInfo, Unprotected
<1>13. table[s] = record /\ \A x \in Slots : x # s => table[x] = tls[i].Entries[x]
  BY <1>3, <1>6 DEF Table, table
<1> HIDE DEF info
<1>14. tls'[i] = info
  BY <1>11 DEF Inv, TypeInv
<1>15. Moved(t, d, "idle", NULL, "none")
  BY <1>8, Leaves DEF Inv
<1> HIDE DEF h, s
<1>16. ThreadInv(t)'
  <2>1. Stacked(t)'
    BY <1>1, <1>15, Numbers DEF Stacked, Moved
  <2>2. HooksStay(t)'
    BY <1>8, <1>15 DEF Inv, ThreadInv, HooksStay, Moved
  <2>3. Registers(t)'
    BY SMTT(30), <1>1, <1>2, <1>8, <1>15, Numbers DEF Registers, Moved, Entering, Within
  <2> QED
    BY <2>1, <2>2, <2>3 DEF ThreadInv
<1>17. EntryInv(t, i)'
  <2>1. \A e \in Levels : frame'[t][e].pc \in Within =>
          e # d /\ frame[t][e].pc \in Within /\ frame'[t][e] = frame[t][e]
    BY <1>15 DEF Moved, Within
  <2>2. Paired(t, i)'
    <3>1. \A e \in Levels : frame'[t][e].pc \notin Entering
      BY <1>1, <1>15, Numbers DEF Moved, Entering
    <3> QED
      BY <1>12, <1>14, <3>1 DEF Paired
  <2>3. Recorded(t, i)'
    <3> SUFFICES ASSUME NEW e \in Levels, frame'[t][e].pc \in Within
                 PROVE  table # NULL /\ table[slotOf[frame'[t][e].hook]] =
                          [HLSIdent |-> frame'[t][e].hook, IsExecuting |-> TRUE, RetAddress |-> e]
      BY <1>8, <1>12, <1>14 DEF Recorded
    <3>1. slotOf[frame[t][e].hook] # s
      <4> SUFFICES ASSUME slotOf[frame[t][e].hook] = s
                   PROVE  FALSE
        OBVIOUS
      <4>1. tls[i].Entries[slotOf[frame[t][e].hook]] =
              [HLSIdent |-> frame[t][e].hook, IsExecuting |-> TRUE, RetAddress |-> e]
        BY <1>4, <2>1
      <4>2. tls[i].Entries[slotOf[frame[t][e].hook]].RetAddress = e
        BY <4>1
      <4> QED
        BY <1>5, <2>1, <4>2
    <3>2. table # NULL
      BY <1>10, Numbers
    <3> QED
      BY <1>4, <1>13, <2>1, <3>1, <3>2
  <2>4. InContext(t, i)'
    BY <1>12, <1>14 DEF InContext
  <2>5. Marked(t, i)'
    <3> SUFFICES ASSUME NEW x \in Slots, NEW g \in Hooks, table[x].HLSIdent = g
                 PROVE  /\ slotOf[g] # NULL \/ g \in removed
                        /\ table[x].IsExecuting /\ slotOf[g] = x =>
                             <<t, g>> \in skipped \/ \E e \in Levels : frame'[t][e].hook = g /\ frame'[t][e].pc \in Within
      BY <1>8, <1>12, <1>14 DEF Marked
    <3>1. CASE x = s
      BY <1>3, <1>9, <1>13, <3>1, Numbers DEF s
    <3>2. CASE x # s
      <4>1. tls[i].Entries[x].HLSIdent = g /\ table[x] = tls[i].Entries[x]
        BY <1>13, <3>2
      <4>2. \A e \in Levels : frame[t][e].hook = g /\ slotOf[g] = x => e # d
        BY <3>2 DEF h, s
      <4>3. \A e \in Levels : e # d => frame'[t][e] = frame[t][e]
        BY <1>15 DEF Moved
      <4> QED
        BY <1>2, <1>5, <4>1, <4>2, <4>3 DEF EntryInv, Marked
    <3> QED
      BY <3>1, <3>2
  <2> QED
    BY <2>2, <2>3, <2>4, <2>5 DEF EntryInv
<1> QED
  BY <1>2, <1>8, <1>11, <1>12, <1>15, <1>16, <1>17, StepOfEntry

----------------------------------------------------------------------------
(* Threads and hooks come and go. *)

\* A thread that exits leaves nothing behind in the storage.
LEMMA ThreadDetachInv ==
  ASSUME Inv, NEW t \in Threads, LhBarrierThreadDetach(t)
  PROVE  Inv'
<1>1. /\ UNCHANGED <<slotOf, removed, fault>>
      /\ frame' = [frame EXCEPT ![t] = [d \in Levels |-> IdleFrame]]
      /\ skipped' = {x \in skipped : x[1] # t}
      /\ IdList' = [i \in Entries |-> IF IdList[i] = t THEN NULL ELSE IdList[i]]
      /\ tls' = [i \in Entries |-> IF IdList[i] = t THEN ZeroEntry ELSE tls[i]]
  BY DEF LhBarrierThreadDetach, ThreadGone
<1>2. IdleFrame \in Frames /\ ZeroEntry \in ThreadInfo
  BY DEF IdleFrame, Frames, Pcs, ZeroEntry, ThreadInfo
<1>3. TypeInv'
  BY <1>1, <1>2 DEF Inv, TypeInv
<1>4. EntriesAreOwned'
  <2>1. ZeroEntry.Entries = NULL
    BY DEF ZeroEntry
  <2> QED
    BY <1>1, <2>1 DEF Inv, EntriesAreOwned
<1>5. \A e \in Levels : frame'[t][e].pc = "idle" /\ frame'[t][e].hook = NULL
  BY <1>1 DEF Inv, TypeInv, IdleFrame
<1>6. ThreadInv(t)'
  BY <1>5 DEF ThreadInv, Stacked, HooksStay, Registers, Entering, Within
<1>7. \A i \in Entries : IdList'[i] # t
  BY <1>1, Numbers
<1>8. \A u \in Threads, e \in Levels : u # t => frame'[u][e] = frame[u][e]
  BY <1>1 DEF Inv, TypeInv
<1>9. \A i \in Entries : /\ IdList[i] \notin {t, NULL} => IdList'[i] = IdList[i] /\ tls'[i] = tls[i]
                         /\ IdList[i] \in {t, NULL} => IdList'[i] \in {t, NULL}
  BY <1>1
<1>10. \A u \in Threads, g \in Hooks : u # t => (<<u, g>> \in skipped <=> <<u, g>> \in skipped')
  BY <1>1
<1>11. fault' # "assertion"
  BY <1>1 DEF Inv, AssertionsHold
<1> QED
  BY <1>1, <1>3, <1>4, <1>6, <1>7, <1>8, <1>9, <1>10, <1>11, StepOf

\* A hook that no activation is of changes its slot.
LEMMA StepOfHook ==
  ASSUME Inv, NEW h \in Hooks, UNCHANGED <<IdList, tls, frame, fault, skipped>>,
         slotOf' \in [Hooks -> Slots \cup {NULL}], \A g \in Hooks : g # h => slotOf'[g] = slotOf[g],
         \A t \in Threads, d \in Levels : frame[t][d].pc # "idle" => frame[t][d].hook # h,
         SlotsAreOwned', \A t \in Threads, i \in Entries : IdList[i] = t => Marked(t, i)'
  PROVE  Inv'
<1>1. ASSUME NEW t \in Threads
      PROVE  ThreadInv(t)'
  <2>1. Stacked(t)' /\ Registers(t)'
    BY DEF Inv, ThreadInv, Stacked, Registers
  <2>2. HooksStay(t)'
    BY DEF Inv, ThreadInv, HooksStay
  <2> QED
    BY <2>1, <2>2 DEF ThreadInv
<1>2. ASSUME NEW t \in Threads, NEW i \in Entries, IdList'[i] = t
      PROVE  EntryInv(t, i)'
  <2>1. EntryInv(t, i)
    BY <1>2 DEF Inv
  <2>2. \A d \in Levels : frame[t][d].pc \in Within => slotOf'[frame[t][d].hook] = slotOf[frame[t][d].hook]
    BY DEF Inv, ThreadInv, HooksStay, Within
  <2>3. Paired(t, i)' /\ Recorded(t, i)'
    BY <2>1, <2>2 DEF EntryInv, Paired, Recorded
  <2>4. InContext(t, i)'
    BY <2>1, <2>2 DEF EntryInv, InContext
  <2> QED
    BY <1>2, <2>3, <2>4 DEF EntryInv
<1> QED
  BY <1>1, <1>2 DEF Inv, TypeInv, EntriesAreOwned, AssertionsHold

\* A new hook takes a slot of its own, and nothing in the tables is its record.
LEMMA HookAppearsInv ==
  ASSUME Inv, NEW h \in Hooks, HookAppears(h)
  PROVE  Inv'
<1>1. PICK s \in Slots : (\A g \in Hooks : slotOf[g] # s) /\ slotOf' = [slotOf EXCEPT ![h] = s]
  BY DEF HookAppears
<1>2. slotOf[h] = NULL /\ h \notin removed /\ UNCHANGED <<IdList, tls, removed, frame, fault, skipped>>
  BY DEF HookAppears
<1>3. /\ slotOf' \in [Hooks -> Slots \cup {NULL}] /\ slotOf'[h] = s
      /\ \A g \in Hooks : g # h => slotOf'[g] = slotOf[g]
  BY <1>1 DEF Inv, TypeInv
<1>4. \A t \in Threads, d \in Levels : frame[t][d].pc # "idle" => frame[t][d].hook # h
  BY <1>2 DEF Inv, ThreadInv, HooksStay
<1>5. SlotsAreOwned'
  BY <1>1, <1>3 DEF Inv, SlotsAreOwned
<1>6. ASSUME NEW t \in Threads, NEW i \in Entries, IdList[i] = t
      PROVE  Marked(t, i)'
  <2>1. Marked(t, i)
    BY <1>6 DEF Inv, EntryInv
  <2>2. tls[i].Entries # NULL => \A x \in Slots : tls[i].Entries[x].HLSIdent # h
    BY <1>2, <2>1 DEF Marked
  <2> QED
    BY <1>2, <1>3, <2>1, <2>2 DEF Marked
<1> QED
  BY <1>2, <1>3, <1>4, <1>5, <1>6, StepOfHook

\* The slot of a removed hook is given back when no thread is inside its trampoline.
LEMMA HookDisappearsInv ==
  ASSUME Inv, NEW h \in Hooks, HookDisappears(h)
  PROVE  Inv'
<1>1. /\ slotOf' = [slotOf EXCEPT ![h] = NULL] /\ removed' = removed \cup {h}
      /\ UNCHANGED <<IdList, tls, frame, fault, skipped>>
      /\ \A t \in Threads, d \in Levels : frame[t][d].hook # h
  BY Numbers DEF HookDisappears, Inside
<1>2. /\ slotOf' \in [Hooks -> Slots \cup {NULL}] /\ slotOf'[h] = NULL
      /\ \A g \in Hooks : g # h => slotOf'[g] = slotOf[g]
  BY <1>1 DEF Inv, TypeInv
<1>3. SlotsAreOwned'
  BY <1>2 DEF Inv, SlotsAreOwned
<1>4. ASSUME NEW t \in Threads, NEW i \in Entries, IdList[i] = t
      PROVE  Marked(t, i)'
  <2>1. Marked(t, i)
    BY <1>4 DEF Inv, EntryInv
  <2> QED
    BY <1>1, <1>2, <2>1, Numbers DEF Marked
<1> QED
  BY <1>1, <1>2, <1>3, <1>4, StepOfHook

----------------------------------------------------------------------------
(* The invariant, and what follows from it. *)

LEMMA InitInv == Init => Inv
<1> SUFFICES ASSUME Init
             PROVE  Inv
  OBVIOUS
<1>1. IdleFrame \in Frames /\ ZeroEntry \in ThreadInfo
  BY DEF IdleFrame, Frames, Pcs, ZeroEntry, ThreadInfo
<1>2. TypeInv
  BY <1>1 DEF Init, TypeInv
<1>3. EntriesAreOwned /\ SlotsAreOwned /\ AssertionsHold
  BY DEF Init, EntriesAreOwned, SlotsAreOwned, AssertionsHold, ZeroEntry
<1>4. \A t \in Threads, d \in Levels : frame[t][d].pc = "idle"
  BY DEF Init, IdleFrame
<1>5. \A t \in Threads : ThreadInv(t)
  BY <1>4 DEF ThreadInv, Stacked, HooksStay, Registers, Entering, Within
<1>6. \A t \in Threads, i \in Entries : IdList[i] # t
  BY Numbers DEF Init
<1> QED
  BY <1>2, <1>3, <1>5, <1>6 DEF Inv

LEMMA StepInv == Inv /\ [Next]_vars => Inv'
<1> SUFFICES ASSUME Inv, [Next]_vars
             PROVE  Inv'
  OBVIOUS
<1>1. ASSUME NEW t \in Threads, LhBarrierThreadDetach(t)
      PROVE  Inv'
  BY <1>1, ThreadDetachInv
<1>2. ASSUME NEW t \in Threads, NEW d \in Levels, NEW h \in Hooks, CallHooked(t, d, h)
      PROVE  Inv'
  BY <1>2, CallHookedInv
<1>3. ASSUME NEW t \in Threads, NEW d \in Levels, Intro(t, d)
      PROVE  Inv'
  BY <1>3, IntroTurnsAwayInv, ProtectsInv, AddThreadInv, IntroAllocatesInv, IntroNegotiatesInv,
     IntroFindsNoTableInv DEF Intro
<1>4. ASSUME NEW t \in Threads, NEW d \in Levels, Handler(t, d)
      PROVE  Inv'
  BY <1>4, BeginStackTraceInv, EndStackTraceInv, HandlerReturnsInv DEF Handler
<1>5. ASSUME NEW t \in Threads, NEW d \in Levels, LhBarrierOutro(t, d)
      PROVE  Inv'
  BY <1>5, LhBarrierOutroInv
<1>6. ASSUME NEW h \in Hooks, HookAppears(h) \/ HookDisappears(h)
      PROVE  Inv'
  BY <1>6, HookAppearsInv, HookDisappearsInv
<1>7. CASE UNCHANGED vars
  BY <1>7, NothingMoves DEF vars, hookState, Inv, AssertionsHold
<1> QED
  BY <1>1, <1>2, <1>3, <1>4, <1>5, <1>6, <1>7 DEF Next

LEMMA InvHolds == Spec => []Inv
  BY InitInv, StepInv, PTL DEF Spec

\* The assertions of LhBarrierOutro never fail, however deep handlers nest, whatever hook
\* takes over a slot and whichever thread an entry.
THEOREM NoAssertionFails == Spec => []AssertionsHold
<1>1. Inv => AssertionsHold
  BY DEF Inv
<1> QED
  BY <1>1, InvHolds, PTL

\* The assertion of TlsAddCurrentThread and the scan of TlsGetCurrentValue: one entry for a
\* thread, and a clean one for the next.
THEOREM StorageIsOwned == Spec => []EntriesAreOwned
<1>1. Inv => EntriesAreOwned
  BY DEF Inv
<1> QED
  BY <1>1, InvHolds, PTL

\* AcquireSelfProtection and ReleaseSelfProtection enclose LhBarrierIntro on every path.
THEOREM SelfProtectionIsPaired == Spec => []ProtectionIsPaired
<1>1. Inv => ProtectionIsPaired
  <2> SUFFICES ASSUME Inv, NEW t \in Threads
               PROVE  (Registered(t) /\ Info(t).IsProtected)
                        <=> \E d \in Levels : frame[t][d].pc \in {"alloc", "negotiate"}
    BY DEF ProtectionIsPaired
  <2>1. CASE Registered(t)
    <3>1. PICK i \in Entries : Info(t) = tls[i] /\ EntryInv(t, i)
      BY <2>1, OwnEntry
    <3> QED
      BY <2>1, <3>1 DEF EntryInv, Paired, Entering
  <2>2. CASE ~ Registered(t)
    BY <2>2 DEF Inv, ThreadInv, Registers, Registered, Entering
  <2> QED
    BY <2>1, <2>2
<1> QED
  BY <1>1, InvHolds, PTL

\* The return address an outro takes is the one its own intro saved.
THEOREM HandlersReturn == Spec => []ReturnsToItsCaller
<1>1. Inv => ReturnsToItsCaller
  <2> SUFFICES ASSUME Inv, NEW t \in Threads, NEW d \in Levels, NEW h \in Hooks, Executing(t, d, h)
               PROVE  /\ Registered(t) /\ Info(t).Entries # NULL
                      /\ Info(t).Entries[slotOf[h]] = [HLSIdent |-> h, IsExecuting |-> TRUE, RetAddress |-> d]
    BY DEF ReturnsToItsCaller
  <2>1. frame[t][d].hook = h /\ frame[t][d].pc \in Within
    BY DEF Executing, Within
  <2>2. Registered(t)
    BY <2>1 DEF Inv, ThreadInv, Registers, Registered
  <2>3. PICK i \in Entries : Info(t) = tls[i] /\ EntryInv(t, i)
    BY <2>2, OwnEntry
  <2> QED
    BY <2>1, <2>2, <2>3 DEF EntryInv, Recorded
<1> QED
  BY <1>1, InvHolds, PTL

\* LhBarrierGetCallback answers with the innermost handler's own callback or not at all.
THEOREM HandlersSeeTheirCallback == Spec => []CallbackIsOwn
<1>1. Inv => CallbackIsOwn
  <2> SUFFICES ASSUME Inv, NEW t \in Threads, NEW d \in Levels, At(t, d, "handler"), InHandlerContext(t)
               PROVE  Info(t).Callback = frame[t][d].hook /\ Info(t).Current = slotOf[frame[t][d].hook]
    BY DEF CallbackIsOwn
  <2>1. PICK i \in Entries : Info(t) = tls[i] /\ EntryInv(t, i)
    BY OwnEntry DEF InHandlerContext
  <2>2. frame[t][d].pc \in Within /\ \A e \in Levels : e > d => frame[t][e].pc \notin Within
    BY DEF At, Within
  <2> QED
    BY <2>1, <2>2 DEF InHandlerContext, EntryInv, InContext
<1> QED
  BY <1>1, InvHolds, PTL

\* The barrier is open again for a thread that left the handler through its outro.
THEOREM BarrierOpensAgain == Spec => []BarrierReopens
<1>1. Inv => BarrierReopens
  <2> SUFFICES ASSUME Inv, NEW t \in Threads, NEW h \in Hooks, slotOf[h] # NULL,
                      Registered(t), Info(t).Entries # NULL, RuntimeOf(t, h).IsExecuting
               PROVE  <<t, h>> \in skipped \/ \E d \in Levels : Executing(t, d, h)
    BY DEF BarrierReopens
  <2>1. PICK i \in Entries : Info(t) = tls[i] /\ EntryInv(t, i)
    BY OwnEntry
  <2>2. slotOf[h] \in Slots /\ tls[i].Entries \in Table
    BY <2>1 DEF Inv, TypeInv, ThreadInfo
  <2>3. tls[i].Entries[slotOf[h]] \in RuntimeInfo
    BY <2>2 DEF Table
  <2>4. tls[i].Entries[slotOf[h]].HLSIdent = h /\ tls[i].Entries[slotOf[h]].IsExecuting
    BY <2>1, <2>3 DEF RuntimeOf, RuntimeInfo
  <2> QED
    BY <2>1, <2>2, <2>4 DEF EntryInv, Marked, Executing, Within
<1> QED
  BY <1>1, InvHolds, PTL

=============================================================================
