--------------------------- MODULE InjectionWait ---------------------------
(***************************************************************************)
(* How a managed injection learns what became of it.  RemoteHooking.Inject *)
(* (EasyHook/RemoteHook.cs) brackets each injection with BeginInjection    *)
(* and EndInjection and waits in WaitForInjection, all of them in          *)
(* EasyHook/HelperServiceInterface.cs; the loader in the target process    *)
(* (EasyHook/InjectionLoader.cs) reports through InjectionCompleted or     *)
(* InjectionException, which find the waiting call by the process id.      *)
(*                                                                         *)
(* Every lock(InjectionList) block is one step, and so is each access to   *)
(* an InjectionWait outside of the lock.  Calls are made by threads of     *)
(* their own that live on; the target process may die, and with it its     *)
(* loader, at any time, so no step of a loader needs to come.              *)
(***************************************************************************)
EXTENDS Naturals, FiniteSets

CONSTANTS
  Calls,      \* calls of InjectEx; an InjectionWait is named by the call that created it
  Processes,  \* target process ids
  NULL        \* no process, no InjectionWait, nobody, no exception

ASSUME NullIsNone == NULL \notin Calls \cup Processes
ASSUME CallsAreFinite == IsFiniteSet(Calls)

VARIABLES
  InjectionList, \* the InjectionWait under each process id
  ThreadLock,    \* of each InjectionWait: the call whose thread owns the mutex
  Completion,    \* of each InjectionWait: the event is set
  Error,         \* of each InjectionWait: the call whose loader's exception it holds
  call,          \* where each call is, its target, the InjectionWait at hand, its verdict
  loader         \* what each call's loader in the target does, and the InjectionWait at hand

vars == <<InjectionList, ThreadLock, Completion, Error, call, loader>>

waits == <<ThreadLock, Completion, Error>>

IdleCall   == [pc |-> "idle", target |-> NULL, wait |-> NULL, verdict |-> "none"]
IdleLoader == [pc |-> "none", wait |-> NULL, good |-> TRUE]

Init ==
  /\ InjectionList = [p \in Processes |-> NULL]
  /\ ThreadLock = [w \in Calls |-> NULL]
  /\ Completion = [w \in Calls |-> FALSE]
  /\ Error = [w \in Calls |-> NULL]
  /\ call = [c \in Calls |-> IdleCall]
  /\ loader = [c \in Calls |-> IdleLoader]

Goto(c, p) == call' = [call EXCEPT ![c].pc = p]

\* The call fails or succeeds; the finally block of InjectEx is next.
Ends(c, v) == call' = [call EXCEPT ![c].pc = "end", ![c].verdict = v]

----------------------------------------------------------------------------
(* BeginInjection. *)

\* First locked block: find the process's InjectionWait or add a new one.
BeginInjection(c, p) ==
  LET w == IF InjectionList[p] = NULL THEN c ELSE InjectionList[p] IN
  /\ call[c].pc = "idle"
  /\ InjectionList' = [InjectionList EXCEPT ![p] = w]
  /\ call' = [call EXCEPT ![c] = [IdleCall EXCEPT !.pc = "lock", !.target = p, !.wait = w]]
  /\ UNCHANGED <<waits, loader>>

\* ThreadLock.WaitOne, without a timeout.
TakeLock(c) ==
  /\ call[c].pc = "lock" /\ ThreadLock[call[c].wait] = NULL
  /\ ThreadLock' = [ThreadLock EXCEPT ![call[c].wait] = c]
  /\ Goto(c, "clear")
  /\ UNCHANGED <<InjectionList, Completion, Error, loader>>

ClearError(c) ==
  /\ call[c].pc = "clear"
  /\ Error' = [Error EXCEPT ![call[c].wait] = NULL]
  /\ Goto(c, "reset")
  /\ UNCHANGED <<InjectionList, ThreadLock, Completion, loader>>

ResetCompletion(c) ==
  /\ call[c].pc = "reset"
  /\ Completion' = [Completion EXCEPT ![call[c].wait] = FALSE]
  /\ Goto(c, "relist")
  /\ UNCHANGED <<InjectionList, ThreadLock, Error, loader>>

Relist_Skipped(c) ==
  /\ call[c].pc = "relist"
  /\ Goto(c, "inject")
  /\ UNCHANGED <<InjectionList, waits, loader>>

\* Second locked block: the call that owned the InjectionWait before took it off the list.
\* If another call has listed a new one by now, that one stays.
Relist(c) ==
  LET p == call[c].target IN
  /\ call[c].pc = "relist"
  /\ InjectionList' = [InjectionList EXCEPT ![p] = IF @ = NULL THEN call[c].wait ELSE @]
  /\ Goto(c, "inject")
  /\ UNCHANGED <<waits, loader>>

----------------------------------------------------------------------------
(* InjectEx between BeginInjection and EndInjection. *)

\* PrepareInjection or RhInjectLibraryEx fails, or the injection is left to the WOW64
\* bypass or the service, whose process waits in a list of its own.
InjectsNothing(c) ==
  /\ call[c].pc = "inject"
  /\ \E v \in {"refused", "delegated"} : Ends(c, v)
  /\ UNCHANGED <<InjectionList, waits, loader>>

\* RhInjectLibraryEx succeeds: a loader runs in the target.  Whether the user library has
\* an entry point whose constructor returns is decided there.
RhInjectLibraryEx(c) ==
  /\ call[c].pc = "inject"
  /\ \E good \in BOOLEAN :
       loader' = [loader EXCEPT ![c] = [pc |-> IF good THEN "completed" ELSE "exception",
                                        wait |-> NULL, good |-> good]]
  /\ Goto(c, "find")
  /\ UNCHANGED <<InjectionList, waits>>

\* WaitForInjection looks the InjectionWait up again; the list's indexer throws if there is none.
FindWait(c) ==
  LET w == InjectionList[call[c].target] IN
  /\ call[c].pc = "find"
  /\ IF w = NULL THEN Ends(c, "broken")
     ELSE call' = [call EXCEPT ![c].pc = "wait", ![c].wait = w]
  /\ UNCHANGED <<InjectionList, waits, loader>>

\* Completion.WaitOne(20000): set in time, or a TimeoutException.
WaitOne(c) ==
  /\ call[c].pc = "wait"
  /\ \/ Completion[call[c].wait] /\ Goto(c, "judge")
     \/ ~Completion[call[c].wait] /\ Ends(c, "timeout")
  /\ UNCHANGED <<InjectionList, waits, loader>>

\* if (WaitInfo.Error != null) throw WaitInfo.Error.
Judge(c) ==
  /\ call[c].pc = "judge"
  /\ Ends(c, IF Error[call[c].wait] = NULL THEN "success" ELSE "error")
  /\ UNCHANGED <<InjectionList, waits, loader>>

EndInjection_StaysListed(c) ==
  LET w == InjectionList[call[c].target] IN
  /\ call[c].pc = "end"
  /\ ThreadLock' = [ThreadLock EXCEPT ![w] = NULL]
  /\ Goto(c, "done")
  /\ UNCHANGED <<InjectionList, Completion, Error, loader>>

EndInjection_KeepsLock(c) ==
  /\ call[c].pc = "end"
  /\ InjectionList' = [InjectionList EXCEPT ![call[c].target] = NULL]
  /\ Goto(c, "done")
  /\ UNCHANGED <<waits, loader>>

\* EndInjection in the finally block.  ReleaseMutex throws for a mutex of another thread and
\* the indexer for a missing entry; either exception replaces the call's own outcome.
EndInjection(c) ==
  LET p == call[c].target
      w == InjectionList[p] IN
  /\ call[c].pc = "end"
  /\ IF w # NULL /\ ThreadLock[w] = c
     THEN /\ ThreadLock' = [ThreadLock EXCEPT ![w] = NULL]
          /\ InjectionList' = [InjectionList EXCEPT ![p] = NULL]
          /\ Goto(c, "done")
     ELSE /\ call' = [call EXCEPT ![c].pc = "done", ![c].verdict = "broken"]
          /\ UNCHANGED <<InjectionList, ThreadLock>>
  /\ UNCHANGED <<Completion, Error, loader>>

----------------------------------------------------------------------------
(* The loader of call c: LoadUserLibrary. *)

At(c, p) == loader[c].pc = p

Report(c, p, w) == loader' = [loader EXCEPT ![c].pc = p, ![c].wait = w]

\* InjectionCompleted finds the InjectionWait of its process; if there is none its exception
\* is caught and reported in turn, and the library is not run.
InjectionCompleted(c) ==
  LET w == InjectionList[call[c].target] IN
  /\ At(c, "completed")
  /\ IF w = NULL THEN loader' = [loader EXCEPT ![c].pc = "exception", ![c].good = FALSE]
     ELSE Report(c, "success", w)
  /\ UNCHANGED <<InjectionList, waits, call>>

\* InjectionException finds it; if there is none the report is lost.
InjectionException(c) ==
  LET w == InjectionList[call[c].target] IN
  /\ At(c, "exception")
  /\ Report(c, IF w = NULL THEN "over" ELSE "failure", w)
  /\ UNCHANGED <<InjectionList, waits, call>>

ReportError_Forgotten(c) ==
  /\ At(c, "success") \/ At(c, "failure")
  /\ loader' = [loader EXCEPT ![c].pc = "set"]
  /\ UNCHANGED <<InjectionList, waits, call>>

\* Error of the InjectionWait that was found, whatever call it belongs to by now.
ReportError(c) ==
  /\ \/ At(c, "success") /\ Error' = [Error EXCEPT ![loader[c].wait] = NULL]
     \/ At(c, "failure") /\ Error' = [Error EXCEPT ![loader[c].wait] = c]
  /\ loader' = [loader EXCEPT ![c].pc = "set"]
  /\ UNCHANGED <<InjectionList, ThreadLock, Completion, call>>

SetCompletion(c) ==
  /\ At(c, "set")
  /\ Completion' = [Completion EXCEPT ![loader[c].wait] = TRUE]
  /\ loader' = [loader EXCEPT ![c].pc = "over"]
  /\ UNCHANGED <<InjectionList, ThreadLock, Error, call>>

----------------------------------------------------------------------------

CallStep(c) ==
  \/ TakeLock(c) \/ ClearError(c) \/ ResetCompletion(c) \/ Relist(c)
  \/ InjectsNothing(c) \/ RhInjectLibraryEx(c)
  \/ FindWait(c) \/ WaitOne(c) \/ Judge(c) \/ EndInjection(c)

LoaderStep(c) ==
  InjectionCompleted(c) \/ InjectionException(c) \/ ReportError(c) \/ SetCompletion(c)

Next ==
  \E c \in Calls :
    \/ \E p \in Processes : BeginInjection(c, p)
    \/ CallStep(c)
    \/ LoaderStep(c)

Spec == Init /\ [][Next]_vars

----------------------------------------------------------------------------
(* Properties. *)

CallPcs == {"idle", "lock", "clear", "reset", "relist", "inject", "find", "wait", "judge",
            "end", "done"}

\* The calls for process p, and those past BeginInjection that have not ended.
CallsFor(p)  == {c \in Calls : call[c].target = p}
Injecting(p) == {c \in CallsFor(p) :
                   call[c].pc \in CallPcs \ {"idle", "lock", "done"}}

\* Calls for different processes do not disturb each other: a call that nobody else makes for
\* its process succeeds or throws the loader's exception as its own library decided, and
\* EndInjection works, whatever the calls for other processes do.
AloneIsAnswered ==
  \A c \in Calls :
    CallsFor(call[c].target) = {c} =>
      /\ call[c].verdict = "success" => loader[c].pc = "over" /\ loader[c].good
      /\ call[c].verdict = "error" => ~loader[c].good
      /\ call[c].verdict # "broken"

\* ThreadLock: two calls for one process take turns and neither breaks, whether the second
\* finds the first one's entry, waits for it and lists it again, or comes too late for it.
TwoTakeTurns ==
  \A p \in Processes :
    Cardinality(CallsFor(p)) <= 2 =>
      Cardinality(Injecting(p)) <= 1 /\ \A c \in CallsFor(p) : call[c].verdict # "broken"

\* EndInjection leaves nothing behind: when every call has ended, also those whose
\* EndInjection threw before it came to remove an entry, the list is empty.
ListIsCleared ==
  (\A c \in Calls : call[c].pc \in {"idle", "done"}) =>
    \A p \in Processes : InjectionList[p] = NULL

\* Nobody waits in BeginInjection for a lock that is never released: its owner is a call on
\* its way to EndInjection, unless that call's EndInjection threw before ReleaseMutex.
LockWillBeReleased ==
  \A c \in Calls :
    call[c].pc = "lock" /\ ThreadLock[call[c].wait] # NULL =>
      LET owner == call[ThreadLock[call[c].wait]] IN
      owner.verdict = "broken" \/ owner.pc \in CallPcs \ {"idle", "lock", "done"}

============================================================================
