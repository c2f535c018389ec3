------------------------------- MODULE HookAcl -------------------------------
(***************************************************************************)
(* The access control lists that decide which threads a hook intercepts:   *)
(* LhSetACL and its four exports (EasyHookDll/LocalHook/acl.c), the        *)
(* negotiation IsThreadIntercepted (DriverShared/LocalHook/barrier.c) and  *)
(* the managed mirror HookAccessControl (EasyHook/LocalHook.cs).           *)
(*                                                                         *)
(* Nothing locks a list: LhSetACL writes IsExclusive, Count and then the   *)
(* entries while other threads scan them.  Every write of a word and every *)
(* turn of a scan is a step, in program order.                             *)
(***************************************************************************)
EXTENDS Integers, Sequences, SequencesExt

CONSTANTS
  ThreadIds,     \* ids of the process's threads
  Setters,       \* threads that change the lists
  Readers,       \* threads that call a hooked function or LhIsThreadIntercepted
  ZERO,          \* the id 0: "the calling thread"
  MAX_ACE_COUNT, \* capacity of a list
  Requests,      \* id lists that are passed to the API
  MaxCalls       \* bound: calls that try to set a list

ASSUME AceCount == MAX_ACE_COUNT \in Nat \ {0}
ASSUME ThreadsHaveIds == Setters \cup Readers \subseteq ThreadIds
ASSUME ZeroIsNoThread == ZERO \notin ThreadIds
ASSUME RequestsAreLists == \A list \in Requests : list \in Seq(ThreadIds \cup {ZERO})
ASSUME CallBound == MaxCalls \in Nat

VARIABLES
  acl,       \* HOOK_ACL: Unit.GlobalACL and the LocalACL of one hook
  mirror,    \* HookAccessControl: m_IsExclusive and m_ACL of both
  setter,    \* progress of each LhSetACL
  reader,    \* progress of each IsThreadIntercepted
  installed, \* LhIsValidHandle of the hook's handle
  requested, \* history: the last accepted request for each list, whether there was one,
             \* and whether the last call was refused
  calls      \* number of calls that tried to set a list

vars == <<acl, mirror, setter, reader, installed, requested, calls>>

Lists   == {"global", "local"}
Indices == 0 .. MAX_ACE_COUNT - 1
Ids     == ThreadIds \cup {ZERO}

IdleSetter == [pc |-> "idle", which |-> "local", exclusive |-> FALSE, list |-> <<>>, Index |-> 0]
IdleReader == [pc |-> "idle", id |-> ZERO, Index |-> 0, inGlobal |-> FALSE, inLocal |-> FALSE,
               verdict |-> FALSE, undisturbed |-> TRUE]

\* LhBarrierProcessAttach: "globally accept all threads".  LhAllocateHook zeroes a new
\* hook, whose list is then inclusive and empty.
Init ==
  /\ acl = [w \in Lists |-> [IsExclusive |-> w = "global", Count |-> 0,
                             Entries |-> [i \in Indices |-> ZERO]]]
  /\ mirror = [w \in Lists |-> [IsExclusive |-> w = "global", ACL |-> <<>>]]
  /\ setter = [t \in Setters |-> IdleSetter]
  /\ reader = [t \in Readers |-> IdleReader]
  /\ installed = TRUE
  /\ requested = [w \in Lists |-> [IsExclusive |-> w = "global", ids |-> {}, made |-> FALSE,
                               refused |-> FALSE]]
  /\ calls = 0

----------------------------------------------------------------------------
(* Changing a list. *)

\* HookAccessControl remembers the list before it calls LhSet[Global][In|Ex]clusiveACL,
\* which refuses a handle that was disposed and a list that is too long.
RefuseACL(t, w, exclusive, list) ==
  /\ setter[t].pc = "idle" /\ calls < MaxCalls
  /\ Len(list) > MAX_ACE_COUNT \/ (w = "local" /\ ~installed)
  /\ mirror' = [mirror EXCEPT ![w] = [IsExclusive |-> exclusive, ACL |-> list]]
  /\ requested' = [requested EXCEPT ![w].refused = TRUE]
  /\ calls' = calls + 1
  /\ UNCHANGED <<acl, setter, reader, installed>>

\* A zero stands for the calling thread; it is replaced in the caller's own array.
Resolve(t, list) == [i \in DOMAIN list |-> IF list[i] = ZERO THEN t ELSE list[i]]

LhSetACL_OwnCopy(t, w, exclusive, list) ==
  LET ids == Resolve(t, list) IN
  /\ setter[t].pc = "idle" /\ calls < MaxCalls
  /\ Len(list) <= MAX_ACE_COUNT /\ (w = "local" => installed)
  /\ mirror' = [mirror EXCEPT ![w] = [IsExclusive |-> exclusive, ACL |-> list]]
  /\ setter' = [setter EXCEPT ![t] = [pc |-> "exclusive", which |-> w, exclusive |-> exclusive,
                                      list |-> ids, Index |-> 0]]
  /\ requested' = [requested EXCEPT ![w] = [IsExclusive |-> exclusive, ids |-> Range(ids),
                                            made |-> TRUE, refused |-> FALSE]]
  /\ calls' = calls + 1
  /\ UNCHANGED <<acl, reader, installed>>

\* The list was accepted: a zero in it is replaced, then it is written.
LhSetACL(t, w, exclusive, list) ==
  LET ids == Resolve(t, list) IN
  /\ setter[t].pc = "idle" /\ calls < MaxCalls
  /\ Len(list) <= MAX_ACE_COUNT /\ (w = "local" => installed)
  /\ mirror' = [mirror EXCEPT ![w] = [IsExclusive |-> exclusive, ACL |-> ids]]
  /\ setter' = [setter EXCEPT ![t] = [pc |-> "exclusive", which |-> w, exclusive |-> exclusive,
                                      list |-> ids, Index |-> 0]]
  /\ requested' = [requested EXCEPT ![w] =
       [IsExclusive |-> exclusive,
        ids |-> {IF list[i] = ZERO THEN t ELSE list[i] : i \in DOMAIN list}, made |-> TRUE,
        refused |-> FALSE]]
  /\ calls' = calls + 1
  /\ UNCHANGED <<acl, reader, installed>>

\* Every write disturbs the negotiations in progress.
Disturb == reader' = [r \in Readers |-> [reader[r] EXCEPT !.undisturbed = FALSE]]

WriteIsExclusive(t) ==
  /\ setter[t].pc = "exclusive"
  /\ acl' = [acl EXCEPT ![setter[t].which].IsExclusive = setter[t].exclusive]
  /\ setter' = [setter EXCEPT ![t].pc = "count"]
  /\ Disturb
  /\ UNCHANGED <<mirror, installed, requested, calls>>

WriteCount_OnlyGrows(t) ==
  /\ setter[t].pc = "count"
  /\ acl' = [acl EXCEPT ![setter[t].which].Count =
               IF Len(setter[t].list) > @ THEN Len(setter[t].list) ELSE @]
  /\ setter' = [setter EXCEPT ![t].pc = "copy"]
  /\ Disturb
  /\ UNCHANGED <<mirror, installed, requested, calls>>

WriteCount(t) ==
  /\ setter[t].pc = "count"
  /\ acl' = [acl EXCEPT ![setter[t].which].Count = Len(setter[t].list)]
  /\ setter' = [setter EXCEPT ![t].pc = "copy"]
  /\ Disturb
  /\ UNCHANGED <<mirror, installed, requested, calls>>

\* RtlCopyMemory, one id after the other.
CopyEntry(t) ==
  LET i == setter[t].Index IN
  /\ setter[t].pc = "copy" /\ i < Len(setter[t].list)
  /\ acl' = [acl EXCEPT ![setter[t].which].Entries[i] = setter[t].list[i + 1]]
  /\ setter' = [setter EXCEPT ![t].Index = i + 1]
  /\ Disturb
  /\ UNCHANGED <<mirror, installed, requested, calls>>

SetReturns(t) ==
  /\ setter[t].pc = "copy" /\ setter[t].Index = Len(setter[t].list)
  /\ setter' = [setter EXCEPT ![t] = IdleSetter]
  /\ UNCHANGED <<acl, mirror, reader, installed, requested, calls>>

\* LhUninstallHook: the handle is invalid from now on, the trampoline still negotiates.
LhUninstallHook ==
  /\ installed
  /\ installed' = FALSE
  /\ UNCHANGED <<acl, mirror, setter, reader, requested, calls>>

----------------------------------------------------------------------------
(* Negotiating. *)

\* IsThreadIntercepted for the calling thread, or another one in LhIsThreadIntercepted.
IsThreadIntercepted(t, id) ==
  /\ reader[t].pc = "idle"
  /\ id # t => installed
  /\ reader' = [reader EXCEPT ![t] = [IdleReader EXCEPT !.pc = "scan_global", !.id = id]]
  /\ UNCHANGED <<acl, mirror, setter, installed, requested, calls>>

\* One turn of the loop of ACLContains: Count and the entry are read again each time.
Found(t, w) ==
  reader[t].Index < acl[w].Count /\ acl[w].Entries[reader[t].Index] = reader[t].id
Exhausted(t, w) == reader[t].Index >= acl[w].Count

ScanOn(t) ==
  /\ \/ reader[t].pc = "scan_global" /\ ~Found(t, "global") /\ ~Exhausted(t, "global")
     \/ reader[t].pc = "scan_local" /\ ~Found(t, "local") /\ ~Exhausted(t, "local")
  /\ reader' = [reader EXCEPT ![t].Index = @ + 1]
  /\ UNCHANGED <<acl, mirror, setter, installed, requested, calls>>

ScannedGlobal(t) ==
  /\ reader[t].pc = "scan_global"
  /\ Found(t, "global") \/ Exhausted(t, "global")
  /\ reader' = [reader EXCEPT ![t].pc = "scan_local", ![t].Index = 0,
                              ![t].inGlobal = Found(t, "global")]
  /\ UNCHANGED <<acl, mirror, setter, installed, requested, calls>>

ScannedLocal(t) ==
  /\ reader[t].pc = "scan_local"
  /\ Found(t, "local") \/ Exhausted(t, "local")
  /\ reader' = [reader EXCEPT ![t].pc = "ask_local", ![t].inLocal = Found(t, "local")]
  /\ UNCHANGED <<acl, mirror, setter, installed, requested, calls>>

AskLocal_OnlyExclusive(t) ==
  /\ reader[t].pc = "ask_local"
  /\ reader' = [reader EXCEPT ![t].pc = IF reader[t].inLocal /\ acl["local"].IsExclusive
                                        THEN "done" ELSE "ask_global"]
  /\ UNCHANGED <<acl, mirror, setter, installed, requested, calls>>

\* The local list refuses the thread: return FALSE.
AskLocal(t) ==
  /\ reader[t].pc = "ask_local"
  /\ reader' = [reader EXCEPT ![t].pc = IF reader[t].inLocal = acl["local"].IsExclusive
                                        THEN "done" ELSE "ask_global"]
  /\ UNCHANGED <<acl, mirror, setter, installed, requested, calls>>

AskGlobal_Ignored(t) ==
  /\ reader[t].pc = "ask_global"
  /\ reader' = [reader EXCEPT ![t].pc = "done", ![t].verdict = TRUE]
  /\ UNCHANGED <<acl, mirror, setter, installed, requested, calls>>

AskGlobal(t) ==
  /\ reader[t].pc = "ask_global"
  /\ reader' = [reader EXCEPT ![t].pc = "done",
                              ![t].verdict = reader[t].inGlobal # acl["global"].IsExclusive]
  /\ UNCHANGED <<acl, mirror, setter, installed, requested, calls>>

Forget(t) ==
  /\ reader[t].pc = "done"
  /\ reader' = [reader EXCEPT ![t] = IdleReader]
  /\ UNCHANGED <<acl, mirror, setter, installed, requested, calls>>

----------------------------------------------------------------------------

Set(t) ==
  \/ \E w \in Lists, exclusive \in BOOLEAN, list \in Requests :
       LhSetACL(t, w, exclusive, list) \/ RefuseACL(t, w, exclusive, list)
  \/ WriteIsExclusive(t) \/ WriteCount(t) \/ CopyEntry(t) \/ SetReturns(t)

Negotiate(t) ==
  \/ \E id \in ThreadIds : IsThreadIntercepted(t, id)
  \/ ScanOn(t) \/ ScannedGlobal(t) \/ ScannedLocal(t) \/ AskLocal(t) \/ AskGlobal(t) \/ Forget(t)

Next ==
  \/ \E t \in Setters : Set(t)
  \/ \E t \in Readers : Negotiate(t)
  \/ LhUninstallHook

Spec == Init /\ [][Next]_vars

----------------------------------------------------------------------------
(* Properties. *)

Listed(w) == {acl[w].Entries[i] : i \in 0 .. acl[w].Count - 1}
Accepts(w, id) == (id \in Listed(w)) # acl[w].IsExclusive
Decided(t) == reader[t].pc = "done" /\ reader[t].undisturbed

\* "TRUE if the given thread is intercepted by the global AND local ACL, FALSE otherwise"
\* (barrier.c:349), for a negotiation during which no list was written: the early returns
\* and the scans amount to the conjunction of the two lists read as sets.  Of a negotiation
\* that a write disturbs only SuspendedUntilSet says anything: its scans may see a mixture
\* of two lists, and its verdict may be that of neither.
NegotiationIsConjunction ==
  \A t \in Readers : Decided(t) =>
    reader[t].verdict = (Accepts("global", reader[t].id) /\ Accepts("local", reader[t].id))

\* The pseudo code of the managed IsThreadIntercepted, "how this method is implemented"
\* (LocalHook.cs:536-575): a listed id is refused by an exclusive local list only, and one
\* that is not on the local list needs the global list to be inclusive if it is on that
\* list, exclusive if not, and the local list to be exclusive.  So would "local ACLs will overwrite
\* the global ACL" (LocalHook.cs:69-70) have it for an id that the local list holds.
NegotiationIsAsDocumented ==
  \A t \in Readers : Decided(t) =>
    LET id == reader[t].id
        exclusive == acl["local"].IsExclusive
    IN  reader[t].verdict = IF id \in Listed("local") THEN ~exclusive
                            ELSE Accepts("global", id) /\ exclusive

\* "If the global ACL also is inclusive, then all threads stated there are intercepted too."
\* (LhSetInclusiveACL, acl.c:92-94.)
InclusiveListsAdd ==
  \A t \in Readers :
    Decided(t) /\ ~acl["local"].IsExclusive /\ ~acl["global"].IsExclusive
               /\ reader[t].id \in Listed("global")
      => reader[t].verdict

\* "Every hook starts suspended" (easyhook.h): until somebody writes the local list no thread
\* is intercepted, whatever happens to the global one in the middle of a negotiation.
SuspendedUntilSet ==
  \A t \in Readers : reader[t].verdict => requested["local"].made

\* Once LhSetACL returned its list is in force, whatever longer or shorter lists, of either
\* kind, were set before, and lists that were refused left no trace.
ListIsInForce ==
  (\A s \in Setters : setter[s].pc = "idle") =>
    \A w \in Lists : acl[w].IsExclusive = requested[w].IsExclusive /\ Listed(w) = requested[w].ids

\* HookAccessControl.GetEntries "Creates a copy of the internal thread list associated with
\* this ACL": unless the last call for a list was refused, the managed mirror shows the list
\* in force, with every zero replaced by the id of the thread that set it.
MirrorShowsTheList ==
  (\A s \in Setters : setter[s].pc = "idle") =>
    \A w \in Lists : requested[w].refused
                     \/ /\ mirror[w].IsExclusive = acl[w].IsExclusive
                        /\ Range(mirror[w].ACL) = Listed(w)

============================================================================
