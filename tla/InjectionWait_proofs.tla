----------------------- MODULE InjectionWait_proofs -----------------------
(***************************************************************************)
(* Theorems about InjectionWait for every number of calls and processes.   *)
(* What the four properties rest on is that an InjectionWait belongs to    *)
(* one process for ever, that a mutex has an owner on its way to           *)
(* EndInjection, and that each listed InjectionWait has somebody who will  *)
(* take it off the list.  For calls that are few, that they share one.     *)
(***************************************************************************)
EXTENDS InjectionWait, FiniteSetTheorems, TLAPS

----------------------------------------------------------------------------
(* The inductive invariant. *)

Verdicts  == {"none", "refused", "delegated", "timeout", "error", "success", "broken"}
LoaderPcs == {"none", "completed", "exception", "success", "failure", "set", "over"}

Waiting   == {"lock", "clear", "reset", "relist", "inject", "find", "wait", "judge", "end"}
Within    == {"clear", "reset", "relist", "inject", "find", "wait", "judge", "end"}
Listing   == {"inject", "find", "wait", "judge", "end"}
Preparing == {"idle", "lock", "clear", "reset", "relist", "inject"}

\* A call that began has a target and an InjectionWait at hand.
CallTyped(c) ==
  /\ call[c].pc = "idle" => call[c].target = NULL /\ call[c].wait = NULL /\ ~Completion[c]
  /\ call[c].pc # "idle" => call[c].target \in Processes /\ call[c].wait \in Calls

\* Only a call that injected has a loader.
LoaderTyped(c) ==
  /\ call[c].pc \in Preparing => loader[c].pc = "none"
  /\ loader[c].pc = "none" => loader[c].wait = NULL
  /\ loader[c].pc \in {"success", "failure", "set"} => loader[c].wait # NULL

CallRecords   == [pc : CallPcs, target : Processes \cup {NULL}, wait : Calls \cup {NULL},
                  verdict : Verdicts]
LoaderRecords == [pc : LoaderPcs, wait : Calls \cup {NULL}, good : BOOLEAN]

TypeInv ==
  /\ InjectionList \in [Processes -> Calls \cup {NULL}]
  /\ ThreadLock \in [Calls -> Calls \cup {NULL}]
  /\ Completion \in [Calls -> BOOLEAN]
  /\ Error \in [Calls -> Calls \cup {NULL}]
  /\ call \in [Calls -> CallRecords]
  /\ loader \in [Calls -> LoaderRecords]
  /\ \A c \in Calls : CallTyped(c) /\ LoaderTyped(c)

\* An InjectionWait belongs to one process: whoever has it at hand is there for that process.
OfOneProcess ==
  /\ \A c \in Calls : call[c].pc # "idle" => call[call[c].wait].target = call[c].target
  /\ \A p \in Processes : InjectionList[p] # NULL => call[InjectionList[p]].target = p
  /\ \A c \in Calls : loader[c].wait # NULL => call[loader[c].wait].target = call[c].target

\* A mutex is owned by a call within its injection, or by one whose EndInjection threw.
OwnerEnds(w) ==
  ThreadLock[w] # NULL =>
    /\ call[ThreadLock[w]].pc \in Within \cup {"done"}
    /\ call[ThreadLock[w]].pc = "done" => call[ThreadLock[w]].verdict = "broken"
    /\ call[ThreadLock[w]].target = call[w].target

Owned ==
  /\ \A w \in Calls : OwnerEnds(w)
  /\ \A v, w \in Calls : ThreadLock[w] # NULL /\ ThreadLock[v] = ThreadLock[w] => v = w
  /\ \A c \in Calls : call[c].pc \in {"clear", "reset", "relist"} => ThreadLock[call[c].wait] = c

\* c will take the InjectionWait w off the list: it owns its mutex, or it is free and c is
\* about to take it.
WillUnlist(c, w) ==
  \/ ThreadLock[w] = c /\ call[c].pc \in Within
  \/ ThreadLock[w] = NULL /\ call[c].pc = "lock" /\ call[c].wait = w

Listed ==
  \A p \in Processes :
    InjectionList[p] # NULL =>
      \E c \in Calls : call[c].target = p /\ WillUnlist(c, InjectionList[p])

\* Three calls were made for process p; nobody but c made one for its process.
Crowded(p) ==
  \E a, b, c \in Calls : /\ a # b /\ a # c /\ b # c
                         /\ call[a].target = p /\ call[b].target = p /\ call[c].target = p

Alone(c) == \A d \in Calls : call[d].target = call[c].target => d = c

\* Unless a third call comes, those for one process share one InjectionWait.
TakesTurn(c) ==
  call[c].pc # "idle" =>
    \/ Crowded(call[c].target)
    \/ /\ call[c].verdict # "broken"
       /\ call[c].pc \in Waiting => InjectionList[call[c].target] \in {NULL, call[c].wait}
       /\ call[c].pc \in Within => ThreadLock[call[c].wait] = c
       /\ call[c].pc \in Listing => InjectionList[call[c].target] = call[c].wait
       /\ call[c].pc \in Waiting /\ Alone(c) => InjectionList[call[c].target] = call[c].wait

Share(c, d) ==
  call[c].pc \in Waiting /\ call[d].pc \in Waiting /\ call[c].target = call[d].target =>
    Crowded(call[c].target) \/ call[c].wait = call[d].wait

Turns ==
  /\ \A c \in Calls : TakesTurn(c)
  /\ \A c, d \in Calls : Share(c, d)

\* What the loader of a call knows of its library, and what it told.
LoaderTells(c) ==
  /\ call[c].pc \in Preparing => call[c].verdict = "none"
  /\ loader[c].pc \in {"completed", "success"} => loader[c].good
  /\ loader[c].pc \in {"exception", "failure"} => ~loader[c].good
  /\ Alone(c) /\ call[c].pc # "idle" =>
       /\ loader[c].pc \in {"set", "over"} /\ loader[c].wait # NULL =>
            (Error[c] = NULL <=> loader[c].good)
       /\ Completion[c] => loader[c].pc = "over" /\ loader[c].wait # NULL
       /\ call[c].pc = "judge" => loader[c].pc = "over" /\ loader[c].wait # NULL
       /\ call[c].verdict = "success" => loader[c].pc = "over" /\ loader[c].good
       /\ call[c].verdict = "error" => ~loader[c].good

Told == \A c \in Calls : LoaderTells(c)

Inv == TypeInv /\ OfOneProcess /\ Owned /\ Listed /\ Turns /\ Told

----------------------------------------------------------------------------
(* What a step does to the record of call c, field by field. *)

Sets(c, q, w, v) ==
  /\ call' \in [Calls -> CallRecords]
  /\ \A d \in Calls : d # c => call'[d] = call[d]
  /\ call'[c].pc = q
  /\ call'[c].target = call[c].target
  /\ call'[c].wait = w
  /\ call'[c].verdict = v

LEMMA GotoSets ==
  ASSUME call \in [Calls -> CallRecords], NEW c \in Calls, NEW q \in CallPcs, Goto(c, q)
  PROVE  Sets(c, q, call[c].wait, call[c].verdict)
  BY DEF Goto, Sets, CallRecords

LEMMA EndsSets ==
  ASSUME call \in [Calls -> CallRecords], NEW c \in Calls, NEW v \in Verdicts, Ends(c, v)
  PROVE  Sets(c, "end", call[c].wait, v)
  BY DEF Ends, Sets, CallRecords, CallPcs

LEMMA FindSets ==
  ASSUME call \in [Calls -> CallRecords], NEW c \in Calls, NEW w \in Calls,
         call' = [call EXCEPT ![c].pc = "wait", ![c].wait = w]
  PROVE  Sets(c, "wait", w, call[c].verdict)
  BY DEF Sets, CallRecords, CallPcs

LEMMA BrokenSets ==
  ASSUME call \in [Calls -> CallRecords], NEW c \in Calls,
         call' = [call EXCEPT ![c].pc = "done", ![c].verdict = "broken"]
  PROVE  Sets(c, "done", call[c].wait, "broken")
  BY DEF Sets, CallRecords, CallPcs, Verdicts

\* Where a call goes from where, whose InjectionWait it has then and what verdict.
Moves(c, q, w, v) ==
  /\ Sets(c, q, w, v)
  /\ q \in CallPcs /\ v \in Verdicts
  /\ call[c].pc \in Waiting
  /\ q \in Within \cup {"done"}
  /\ call[c].pc = "inject" => q \in {"find", "end"}
  /\ q \in {"clear", "reset", "relist", "inject"} =>
       call[c].pc \in {"lock", "clear", "reset", "relist"}
  /\ w \in Calls

\* Each step of a call moves it.
LEMMA CallMoves ==
  ASSUME TypeInv, NEW c \in Calls, CallStep(c)
  PROVE  \E q, w, v : Moves(c, q, w, v)
  <1>1. /\ call \in [Calls -> CallRecords]
        /\ call[c].pc # "idle" => call[c].wait \in Calls
        /\ call[c].verdict \in Verdicts
        /\ \A p \in Processes : InjectionList[p] \in Calls \cup {NULL}
        /\ call[c].pc # "idle" => call[c].target \in Processes
        BY DEF TypeInv, CallTyped, CallRecords
  <1> HIDE DEF TypeInv
  <1>2. CASE \/ TakeLock(c) \/ ClearError(c) \/ ResetCompletion(c) \/ Relist(c)
             \/ RhInjectLibraryEx(c)
             \/ WaitOne(c) /\ Goto(c, "judge")
             \/ EndInjection(c) /\ Goto(c, "done")
    <2>1. PICK q \in {"clear", "reset", "relist", "inject", "find", "judge", "done"} :
            /\ Goto(c, q) 
            /\ call[c].pc = CASE q = "clear" -> "lock" [] q = "reset" -> "clear"
                              [] q = "relist" -> "reset" [] q = "inject" -> "relist"
                              [] q = "find" -> "inject" [] q = "judge" -> "wait"
                              [] OTHER -> "end"
          BY <1>2 DEF TakeLock, ClearError, ResetCompletion, Relist, RhInjectLibraryEx, WaitOne,
             EndInjection
    <2>2. Sets(c, q, call[c].wait, call[c].verdict)
          BY <1>1, <2>1, GotoSets DEF CallPcs
    <2>3. Moves(c, q, call[c].wait, call[c].verdict)
          BY <1>1, <2>1, <2>2 DEF Moves, CallPcs, Waiting, Within
    <2> QED BY <2>3
  <1>3. CASE \E v \in Verdicts : Ends(c, v) /\ call[c].pc \in {"inject", "find", "wait", "judge"}
    <2>1. PICK v \in Verdicts : Ends(c, v) /\ call[c].pc \in {"inject", "find", "wait", "judge"}
          BY <1>3
    <2>2. Sets(c, "end", call[c].wait, v) BY <1>1, <2>1, EndsSets
    <2>3. Moves(c, "end", call[c].wait, v)
          BY <1>1, <2>1, <2>2 DEF Moves, CallPcs, Waiting, Within
    <2> QED BY <2>3
  <1>4. CASE FindWait(c)
    <2>1. CASE InjectionList[call[c].target] = NULL
          BY <1>3, <1>4, <2>1 DEF FindWait, Verdicts
    <2>2. CASE InjectionList[call[c].target] # NULL
      <3>1. PICK w \in Calls : call' = [call EXCEPT ![c].pc = "wait", ![c].wait = w]
            BY <1>1, <1>4, <2>2 DEF FindWait
      <3>2. Sets(c, "wait", w, call[c].verdict) BY <1>1, <3>1, FindSets
      <3>3. Moves(c, "wait", w, call[c].verdict)
            BY <1>1, <1>4, <3>2 DEF FindWait, Moves, CallPcs, Waiting, Within
      <3> QED BY <3>3
    <2> QED BY <2>1, <2>2
  <1>5. CASE EndInjection(c) /\ ~Goto(c, "done")
    <2>1. Sets(c, "done", call[c].wait, "broken")
          BY <1>1, <1>5, BrokenSets DEF EndInjection
    <2>2. Moves(c, "done", call[c].wait, "broken")
          BY <1>1, <1>5, <2>1 DEF EndInjection, Moves, CallPcs, Waiting, Within, Verdicts
    <2> QED BY <2>2
  <1>6. CASE InjectsNothing(c) BY <1>3, <1>6 DEF InjectsNothing, Verdicts
  <1>7. CASE WaitOne(c) /\ ~Goto(c, "judge") BY <1>3, <1>7 DEF WaitOne, Verdicts
  <1>8. CASE Judge(c) BY <1>3, <1>8 DEF Judge, Verdicts
  <1> QED BY <1>2, <1>4, <1>5, <1>6, <1>7, <1>8 DEF CallStep

----------------------------------------------------------------------------
(* Types. *)

LEMMA InitTyped == ASSUME Init PROVE TypeInv
  BY NullIsNone DEF Init, TypeInv, CallTyped, LoaderTyped, IdleCall, IdleLoader, CallPcs, Verdicts,
     LoaderPcs, Preparing, CallRecords, LoaderRecords

\* What the list, the InjectionWaits and the loaders are.
StoreTyped ==
  /\ InjectionList \in [Processes -> Calls \cup {NULL}]
  /\ ThreadLock \in [Calls -> Calls \cup {NULL}]
  /\ Completion \in [Calls -> BOOLEAN]
  /\ Error \in [Calls -> Calls \cup {NULL}]
  /\ loader \in [Calls -> LoaderRecords]

\* The record of a call that begins.
Begins(c, p, w) ==
  /\ call' \in [Calls -> CallRecords]
  /\ \A d \in Calls : d # c => call'[d] = call[d]
  /\ call'[c].pc = "lock" /\ call'[c].target = p /\ call'[c].wait = w
  /\ call'[c].verdict = "none"

LEMMA BeginSets ==
  ASSUME TypeInv, NEW c \in Calls, NEW p \in Processes, BeginInjection(c, p)
  PROVE  \E w \in Calls : /\ w = IF InjectionList[p] = NULL THEN c ELSE InjectionList[p]
                          /\ Begins(c, p, w)
  <1> DEFINE v == IF InjectionList[p] = NULL THEN c ELSE InjectionList[p]
             r == [IdleCall EXCEPT !.pc = "lock", !.target = p, !.wait = v]
  <1>1. IdleCall \in CallRecords /\ v \in Calls
        BY DEF IdleCall, CallRecords, CallPcs, Verdicts, TypeInv
  <1>2. IdleCall.verdict = "none" BY DEF IdleCall
  <1>3. /\ r \in CallRecords
        /\ r.pc = "lock" /\ r.target = p /\ r.wait = v /\ r.verdict = "none"
        BY <1>1, <1>2 DEF CallRecords, CallPcs
  <1>4. call' = [call EXCEPT ![c] = r] BY DEF BeginInjection
  <1>5. call \in [Calls -> CallRecords] BY DEF TypeInv
  <1> HIDE DEF r
  <1>6. Begins(c, p, v) BY <1>3, <1>4, <1>5 DEF Begins
  <1> QED BY <1>1, <1>6

LEMMA BeginTypes ==
  ASSUME TypeInv, NEW c \in Calls, NEW p \in Processes, BeginInjection(c, p)
  PROVE  TypeInv'
  <1>1. PICK w \in Calls : Begins(c, p, w) BY BeginSets
  <1>2. /\ StoreTyped'
        /\ UNCHANGED <<Completion, loader>>
        BY DEF StoreTyped, TypeInv, BeginInjection, waits
  <1>3. ASSUME NEW d \in Calls PROVE (CallTyped(d) /\ LoaderTyped(d))'
    <2>0. CallTyped(d) /\ LoaderTyped(d) /\ call[c].pc = "idle"
          BY DEF TypeInv, BeginInjection
    <2>1. CASE d = c BY <1>1, <1>2, <2>0, <2>1, NullIsNone DEF Begins, CallTyped, LoaderTyped, Preparing
    <2>2. CASE d # c BY <1>1, <1>2, <2>0, <2>2 DEF Begins, CallTyped, LoaderTyped
    <2> QED BY <2>1, <2>2
  <1> QED BY <1>1, <1>2, <1>3 DEF Begins, StoreTyped, TypeInv

\* What a step of a call leaves of the rest: it completes nobody, and only injecting starts a loader.
LEMMA CallKeeps ==
  ASSUME TypeInv, NEW c \in Calls, CallStep(c)
  PROVE  /\ StoreTyped'
         /\ \A d \in Calls : Completion'[d] => Completion[d]
         /\ \A d \in Calls : d # c => loader'[d] = loader[d]
         /\ \/ loader'[c] = loader[c] /\ ~RhInjectLibraryEx(c)
            \/ /\ RhInjectLibraryEx(c)
               /\ loader'[c].wait = NULL
               /\ loader'[c].pc \in {"completed", "exception"}
               /\ loader'[c].pc = "completed" <=> loader'[c].good
  <1>1. /\ StoreTyped
        /\ call[c].pc # "idle" => call[c].target \in Processes /\ call[c].wait \in Calls
        BY DEF TypeInv, StoreTyped, CallTyped
  <1>2. StoreTyped'
    <2>1. CASE UNCHANGED <<InjectionList, waits, loader>>
          BY <1>1, <2>1 DEF StoreTyped, waits
    <2>2. CASE TakeLock(c) BY <1>1, <2>2 DEF StoreTyped, TakeLock
    <2>3. CASE ClearError(c) BY <1>1, <2>3 DEF StoreTyped, ClearError
    <2>4. CASE ResetCompletion(c) BY <1>1, <2>4 DEF StoreTyped, ResetCompletion
    <2>5. CASE Relist(c) BY <1>1, <2>5 DEF StoreTyped, Relist, waits
    <2>6. CASE RhInjectLibraryEx(c)
          BY <1>1, <2>6 DEF StoreTyped, RhInjectLibraryEx, waits, LoaderRecords, LoaderPcs
    <2>7. CASE EndInjection(c) BY <1>1, <2>7 DEF StoreTyped, EndInjection
    <2> QED BY <2>1, <2>2, <2>3, <2>4, <2>5, <2>6, <2>7
        DEF CallStep, InjectsNothing, FindWait, WaitOne, Judge
  <1>3. ASSUME NEW d \in Calls, Completion'[d] PROVE Completion[d]
    <2>1. CASE ResetCompletion(c) BY <1>1, <1>3, <2>1 DEF StoreTyped, ResetCompletion
    <2>2. CASE Completion' = Completion BY <1>3, <2>2
    <2> QED BY <2>1, <2>2
        DEF CallStep, TakeLock, ClearError, Relist, InjectsNothing, RhInjectLibraryEx, FindWait,
            WaitOne, Judge, EndInjection, waits
  <1>4. CASE RhInjectLibraryEx(c)
    <2>1. PICK good \in BOOLEAN :
            loader' = [loader EXCEPT ![c] = [pc |-> IF good THEN "completed" ELSE "exception",
                                             wait |-> NULL, good |-> good]]
          BY <1>4 DEF RhInjectLibraryEx
    <2>2. /\ \A d \in Calls : d # c => loader'[d] = loader[d]
          /\ loader'[c].wait = NULL
          /\ loader'[c].pc = IF good THEN "completed" ELSE "exception"
          /\ loader'[c].good = good
          BY <1>1, <2>1 DEF StoreTyped
    <2> QED BY <1>2, <1>3, <1>4, <2>2
  <1>5. CASE ~RhInjectLibraryEx(c)
    <2>1. loader' = loader
          BY <1>5 DEF CallStep, TakeLock, ClearError, ResetCompletion, Relist, InjectsNothing,
             FindWait, WaitOne, Judge, EndInjection
    <2> QED BY <1>2, <1>3, <1>5, <2>1
  <1> QED BY <1>4, <1>5

\* Types are kept by each step of a call.
LEMMA CallTypes ==
  ASSUME TypeInv, NEW c \in Calls, CallStep(c)
  PROVE  TypeInv'
  <1>1. PICK q, w, v : Moves(c, q, w, v) BY CallMoves
  <1>2. /\ StoreTyped'
        /\ \A d \in Calls : Completion'[d] => Completion[d]
        /\ \A d \in Calls : d # c => loader'[d] = loader[d]
        /\ \/ loader'[c] = loader[c]
           \/ /\ loader'[c].pc \in {"completed", "exception"}
              /\ q \in {"find", "end"}
        BY <1>1, CallKeeps DEF RhInjectLibraryEx, Moves
  <1>3. ASSUME NEW d \in Calls PROVE (CallTyped(d) /\ LoaderTyped(d))'
    <2>0. CallTyped(d) /\ LoaderTyped(d) BY DEF TypeInv
    <2>1. CASE d = c
      <3>1. CallTyped(c)'
            BY <1>1, <2>0, <2>1 DEF CallTyped, Moves, Sets, Waiting, Within
      <3>2. loader[c].pc = "none" \/ q \notin Preparing
            BY <1>1, <2>0, <2>1 DEF LoaderTyped, Moves, Preparing, Waiting, Within, CallPcs
      <3>3. LoaderTyped(c)'
            BY <1>1, <1>2, <2>0, <2>1, <3>2 DEF LoaderTyped, Moves, Sets, Preparing
      <3> QED BY <2>1, <3>1, <3>3
    <2>2. CASE d # c BY <1>1, <1>2, <2>0, <2>2 DEF CallTyped, LoaderTyped, Moves, Sets
    <2> QED BY <2>1, <2>2
  <1> QED BY <1>1, <1>2, <1>3 DEF TypeInv, StoreTyped, Moves, Sets

\* What a loader's step does to its record.
Tells(c, q, w, good) ==
  /\ loader' \in [Calls -> LoaderRecords]
  /\ \A d \in Calls : d # c => loader'[d] = loader[d]
  /\ loader'[c].pc = q
  /\ loader'[c].wait = w
  /\ loader'[c].good = good

LEMMA ReportTells ==
  ASSUME loader \in [Calls -> LoaderRecords], NEW c \in Calls, NEW q \in LoaderPcs,
         NEW w \in Calls \cup {NULL}, Report(c, q, w)
  PROVE  Tells(c, q, w, loader[c].good)
  BY DEF Report, Tells, LoaderRecords

LEMMA GoesOnTells ==
  ASSUME loader \in [Calls -> LoaderRecords], NEW c \in Calls, NEW q \in LoaderPcs,
         loader' = [loader EXCEPT ![c].pc = q]
  PROVE  Tells(c, q, loader[c].wait, loader[c].good)
  BY DEF Tells, LoaderRecords

LEMMA FailsTells ==
  ASSUME loader \in [Calls -> LoaderRecords], NEW c \in Calls,
         loader' = [loader EXCEPT ![c].pc = "exception", ![c].good = FALSE]
  PROVE  Tells(c, "exception", loader[c].wait, FALSE)
  BY DEF Tells, LoaderRecords, LoaderPcs

\* The steps of a loader, with the InjectionWait that its report is for.
LEMMA LoaderMoves ==
  ASSUME TypeInv, NEW c \in Calls, LoaderStep(c)
  PROVE  /\ UNCHANGED <<InjectionList, ThreadLock, call>>
         /\ call[c].pc \notin Preparing
         /\ call[c].target \in Processes
         /\ \/ /\ InjectionCompleted(c)
               /\ InjectionList[call[c].target] = NULL
               /\ Tells(c, "exception", loader[c].wait, FALSE)
               /\ UNCHANGED waits
            \/ /\ InjectionCompleted(c)
               /\ InjectionList[call[c].target] \in Calls
               /\ Tells(c, "success", InjectionList[call[c].target], loader[c].good)
               /\ UNCHANGED waits
            \/ /\ InjectionException(c)
               /\ InjectionList[call[c].target] = NULL
               /\ Tells(c, "over", NULL, loader[c].good)
               /\ UNCHANGED waits
            \/ /\ InjectionException(c)
               /\ InjectionList[call[c].target] \in Calls
               /\ Tells(c, "failure", InjectionList[call[c].target], loader[c].good)
               /\ UNCHANGED waits
            \/ /\ ReportError(c)
               /\ loader[c].wait \in Calls
               /\ Tells(c, "set", loader[c].wait, loader[c].good)
               /\ Completion' = Completion
            \/ /\ SetCompletion(c)
               /\ loader[c].wait \in Calls
               /\ Tells(c, "over", loader[c].wait, loader[c].good)
               /\ Error' = Error
  <1>1. /\ loader \in [Calls -> LoaderRecords]
        /\ loader[c].wait \in Calls \cup {NULL}
        /\ loader[c].pc # "none" => call[c].pc \notin Preparing
        /\ loader[c].pc \in {"success", "failure", "set"} => loader[c].wait \in Calls
        /\ call[c].pc # "idle" => call[c].target \in Processes
        /\ \A p \in Processes : InjectionList[p] \in Calls \cup {NULL}
        BY DEF TypeInv, LoaderTyped, CallTyped, LoaderRecords
  <1>2. loader[c].pc # "none" /\ UNCHANGED <<InjectionList, ThreadLock, call>>
        BY DEF LoaderStep, InjectionCompleted, InjectionException, ReportError, SetCompletion, waits, At
  <1>3. call[c].pc \notin Preparing /\ call[c].target \in Processes
        BY <1>1, <1>2 DEF Preparing
  <1>4. CASE InjectionCompleted(c)
    <2>1. CASE InjectionList[call[c].target] = NULL
          BY <1>1, <1>2, <1>3, <1>4, <2>1, FailsTells DEF InjectionCompleted
    <2>2. CASE InjectionList[call[c].target] # NULL
          BY <1>1, <1>2, <1>3, <1>4, <2>2, ReportTells DEF InjectionCompleted, LoaderPcs
    <2> QED BY <2>1, <2>2
  <1>5. CASE InjectionException(c)
    <2>1. CASE InjectionList[call[c].target] = NULL
          BY <1>1, <1>2, <1>3, <1>5, <2>1, ReportTells DEF InjectionException, LoaderPcs
    <2>2. CASE InjectionList[call[c].target] # NULL
          BY <1>1, <1>2, <1>3, <1>5, <2>2, ReportTells DEF InjectionException, LoaderPcs
    <2> QED BY <2>1, <2>2
  <1>6. CASE ReportError(c)
        BY <1>1, <1>2, <1>3, <1>6, GoesOnTells DEF ReportError, LoaderPcs, At
  <1>7. CASE SetCompletion(c)
        BY <1>1, <1>2, <1>3, <1>7, GoesOnTells DEF SetCompletion, LoaderPcs, At
  <1> QED BY <1>4, <1>5, <1>6, <1>7 DEF LoaderStep

\* Types are kept by each step of a loader.
LEMMA LoaderTypes ==
  ASSUME TypeInv, OfOneProcess, NEW c \in Calls, LoaderStep(c)
  PROVE  TypeInv'
  <1>1. /\ StoreTyped
        /\ loader[c].wait # NULL => call[loader[c].wait].pc # "idle"
    <2>1. StoreTyped BY DEF TypeInv, StoreTyped
    <2>2. ASSUME loader[c].wait # NULL PROVE call[loader[c].wait].pc # "idle"
      <3>1. loader[c].wait \in Calls /\ call[c].target \in Processes
            BY <2>1, <2>2, LoaderMoves DEF StoreTyped, LoaderRecords
      <3>2. call[loader[c].wait].target = call[c].target BY <2>2 DEF OfOneProcess
      <3> QED BY <3>1, <3>2, NullIsNone DEF TypeInv, CallTyped
    <2> QED BY <2>1, <2>2
  <1>2. /\ UNCHANGED <<InjectionList, ThreadLock, call>>
        /\ call[c].pc \notin Preparing
        /\ loader' \in [Calls -> LoaderRecords]
        /\ \A d \in Calls : d # c => loader'[d] = loader[d]
        /\ loader'[c].pc # "none"
        /\ loader'[c].pc \in {"success", "failure", "set"} => loader'[c].wait # NULL
        BY ZenonT(60), LoaderMoves, NullIsNone DEF Tells
  <1>3. /\ Error' \in [Calls -> Calls \cup {NULL}]
        /\ Completion' \in [Calls -> BOOLEAN]
        /\ \A d \in Calls : Completion'[d] => Completion[d] \/ d = loader[c].wait
    <2>1. CASE ReportError(c) BY <1>1, <2>1 DEF ReportError, StoreTyped
    <2>2. CASE SetCompletion(c) BY <1>1, <2>2 DEF SetCompletion, StoreTyped
    <2>3. CASE InjectionCompleted(c) \/ InjectionException(c)
          BY <1>1, <2>3 DEF InjectionCompleted, InjectionException, waits, StoreTyped
    <2> QED BY <2>1, <2>2, <2>3 DEF LoaderStep
  <1>4. ASSUME NEW d \in Calls PROVE (CallTyped(d) /\ LoaderTyped(d))'
    <2>1. CallTyped(d) /\ LoaderTyped(d) BY DEF TypeInv
    <2>2. CallTyped(d)' BY <1>1, <1>2, <1>3, <2>1, NullIsNone DEF CallTyped
    <2>3. LoaderTyped(d)' BY <1>2, <2>1 DEF LoaderTyped
    <2> QED BY <2>2, <2>3
  <1> QED BY <1>1, <1>2, <1>3, <1>4 DEF TypeInv, StoreTyped

----------------------------------------------------------------------------
(* The list and the mutexes: five sorts of steps. *)

\* A call goes on; it has another InjectionWait only if that is the listed one.
Advances(c, q, w, v) ==
  /\ Sets(c, q, w, v)
  /\ UNCHANGED <<InjectionList, ThreadLock>>
  /\ \/ /\ call[c].pc \in {"clear", "reset"} /\ q \in {"reset", "relist"}
        /\ w = call[c].wait /\ v = call[c].verdict
     \/ /\ call[c].pc \in Listing /\ q \in Listing \ {"inject"}
        /\ w = call[c].wait \/ (w = InjectionList[call[c].target] /\ w # NULL)
        /\ v = "broken" => call[c].verdict = "broken" \/ InjectionList[call[c].target] = NULL

Takes(c) ==
  /\ Sets(c, "clear", call[c].wait, call[c].verdict)
  /\ call[c].pc = "lock" /\ ThreadLock[call[c].wait] = NULL
  /\ ThreadLock' = [ThreadLock EXCEPT ![call[c].wait] = c]
  /\ UNCHANGED InjectionList

Relists(c) ==
  /\ Sets(c, "inject", call[c].wait, call[c].verdict)
  /\ call[c].pc = "relist"
  /\ \/ UNCHANGED InjectionList /\ InjectionList[call[c].target] # NULL
     \/ /\ InjectionList[call[c].target] = NULL
        /\ InjectionList' = [InjectionList EXCEPT ![call[c].target] = call[c].wait]
  /\ UNCHANGED ThreadLock

Unlists(c) ==
  LET w == InjectionList[call[c].target] IN
  /\ Sets(c, "done", call[c].wait, call[c].verdict)
  /\ call[c].pc = "end" /\ w # NULL /\ ThreadLock[w] = c
  /\ ThreadLock' = [ThreadLock EXCEPT ![w] = NULL]
  /\ InjectionList' = [InjectionList EXCEPT ![call[c].target] = NULL]

Breaks(c) ==
  LET w == InjectionList[call[c].target] IN
  /\ Sets(c, "done", call[c].wait, "broken")
  /\ call[c].pc = "end" /\ (w = NULL \/ ThreadLock[w] # c)
  /\ UNCHANGED <<InjectionList, ThreadLock>>

LEMMA CallSteps ==
  ASSUME TypeInv, NEW c \in Calls, CallStep(c)
  PROVE  Takes(c) \/ Relists(c) \/ Unlists(c) \/ Breaks(c) \/ \E q, w, v : Advances(c, q, w, v)
  <1>1. /\ call \in [Calls -> CallRecords]
        /\ call[c].verdict \in Verdicts
        /\ call[c].pc # "idle" => call[c].target \in Processes
        /\ InjectionList \in [Processes -> Calls \cup {NULL}]
        BY DEF TypeInv, CallTyped, CallRecords
  <1>2. CASE TakeLock(c) BY <1>1, <1>2, GotoSets DEF TakeLock, Takes, CallPcs
  <1>3. CASE Relist(c)
    <2>1. Sets(c, "inject", call[c].wait, call[c].verdict)
          BY <1>1, <1>3, GotoSets DEF Relist, CallPcs
    <2>2. CASE InjectionList[call[c].target] = NULL
          BY <1>1, <1>3, <2>1, <2>2 DEF Relist, Relists, waits
    <2>3. CASE InjectionList[call[c].target] # NULL
          BY <1>1, <1>3, <2>1, <2>3 DEF Relist, Relists, waits
    <2> QED BY <2>2, <2>3
  <1>4. CASE EndInjection(c)
    <2>1. CASE InjectionList[call[c].target] # NULL /\ ThreadLock[InjectionList[call[c].target]] = c
      <3>1. Sets(c, "done", call[c].wait, call[c].verdict)
            BY <1>1, <1>4, <2>1, GotoSets DEF EndInjection, CallPcs
      <3> QED BY <1>4, <2>1, <3>1 DEF EndInjection, Unlists
    <2>2. CASE InjectionList[call[c].target] = NULL \/ ThreadLock[InjectionList[call[c].target]] # c
      <3>1. Sets(c, "done", call[c].wait, "broken")
            BY <1>1, <1>4, <2>2, BrokenSets DEF EndInjection
      <3> QED BY <1>4, <2>2, <3>1 DEF EndInjection, Breaks
    <2> QED BY <2>1, <2>2
  <1>5. CASE ClearError(c)
    <2>1. Sets(c, "reset", call[c].wait, call[c].verdict)
          BY <1>1, <1>5, GotoSets DEF ClearError, CallPcs
    <2>2. Advances(c, "reset", call[c].wait, call[c].verdict)
          BY <1>5, <2>1 DEF ClearError, Advances
    <2> QED BY <2>2
  <1>6. CASE ResetCompletion(c)
    <2>1. Sets(c, "relist", call[c].wait, call[c].verdict)
          BY <1>1, <1>6, GotoSets DEF ResetCompletion, CallPcs
    <2>2. Advances(c, "relist", call[c].wait, call[c].verdict)
          BY <1>6, <2>1 DEF ResetCompletion, Advances
    <2> QED BY <2>2
  <1>7. CASE RhInjectLibraryEx(c)
    <2>1. Sets(c, "find", call[c].wait, call[c].verdict)
          BY <1>1, <1>7, GotoSets DEF RhInjectLibraryEx, CallPcs
    <2>2. Advances(c, "find", call[c].wait, call[c].verdict)
          BY <1>7, <2>1 DEF RhInjectLibraryEx, Advances, Listing, waits
    <2> QED BY <2>2
  <1>8. CASE WaitOne(c) /\ Goto(c, "judge")
    <2>1. Sets(c, "judge", call[c].wait, call[c].verdict)
          BY <1>1, <1>8, GotoSets DEF CallPcs
    <2>2. Advances(c, "judge", call[c].wait, call[c].verdict)
          BY <1>8, <2>1 DEF WaitOne, Advances, Listing, waits
    <2> QED BY <2>2
  <1>9. CASE FindWait(c) /\ InjectionList[call[c].target] # NULL
    <2>1. PICK w \in Calls : /\ w = InjectionList[call[c].target]
                             /\ call' = [call EXCEPT ![c].pc = "wait", ![c].wait = w]
          BY <1>1, <1>9 DEF FindWait
    <2>2. Sets(c, "wait", w, call[c].verdict) BY <1>1, <2>1, FindSets
    <2>3. Advances(c, "wait", w, call[c].verdict)
          BY <1>9, <2>1, <2>2 DEF FindWait, Advances, Listing, waits
    <2> QED BY <2>3
  <1>10. ASSUME NEW v \in Verdicts, Ends(c, v), UNCHANGED <<InjectionList, ThreadLock>>,
                call[c].pc \in {"inject", "find", "wait", "judge"},
                v = "broken" => InjectionList[call[c].target] = NULL
         PROVE  \E q, w : Advances(c, q, w, v)
    <2>1. Sets(c, "end", call[c].wait, v) BY <1>1, <1>10, EndsSets
    <2>2. Advances(c, "end", call[c].wait, v)
          BY <1>10, <2>1 DEF Advances, Listing
    <2> QED BY <2>2
  <1>11. CASE FindWait(c) /\ InjectionList[call[c].target] = NULL
         BY <1>10, <1>11 DEF FindWait, Verdicts, waits
  <1>12. CASE InjectsNothing(c) BY <1>10, <1>12 DEF InjectsNothing, Verdicts, waits
  <1>13. CASE WaitOne(c) /\ ~Goto(c, "judge") BY <1>10, <1>13 DEF WaitOne, Verdicts, waits
  <1>14. CASE Judge(c) BY <1>10, <1>14 DEF Judge, Verdicts, waits
  <1> QED BY <1>2, <1>3, <1>4, <1>5, <1>6, <1>7, <1>8, <1>9, <1>11, <1>12, <1>13, <1>14 DEF CallStep

\* A call that is not idle keeps its target.
LEMMA TargetStays ==
  ASSUME TypeInv, NEW c \in Calls, CallStep(c)
  PROVE  \A d \in Calls : call'[d].target = call[d].target
  BY CallMoves DEF Moves, Sets

----------------------------------------------------------------------------
(* An InjectionWait is of one process. *)

LEMMA BeginOfOneProcess ==
  ASSUME TypeInv, OfOneProcess, NEW c \in Calls, NEW p \in Processes, BeginInjection(c, p)
  PROVE  OfOneProcess'
  <1>1. PICK w \in Calls : /\ w = IF InjectionList[p] = NULL THEN c ELSE InjectionList[p]
                           /\ Begins(c, p, w)
        BY BeginSets
  <1>2. /\ call[c].pc = "idle" /\ call[c].target = NULL
        /\ InjectionList' = [InjectionList EXCEPT ![p] = w]
        /\ loader' = loader
        BY <1>1 DEF BeginInjection, TypeInv, CallTyped
  <1>3. \A d \in Calls : call[d].target \in Processes => call'[d].target = call[d].target
        BY <1>1, <1>2, NullIsNone DEF Begins
  <1>4. call'[w].target = p
        BY <1>1, <1>3 DEF OfOneProcess, Begins
  <1>5. \A d \in Calls : /\ call[d].pc # "idle" => call[d].target \in Processes /\ call[d].wait \in Calls
                         /\ loader[d].pc = "none" => loader[d].wait = NULL
                         /\ loader[d].pc # "none" => call[d].pc # "idle"
                         /\ loader[d].wait \in Calls \cup {NULL}
        BY DEF TypeInv, CallTyped, LoaderTyped, Preparing, LoaderRecords
  <1>6. ASSUME NEW d \in Calls, call'[d].pc # "idle"
        PROVE  call'[call'[d].wait].target = call'[d].target
    <2>1. CASE d = c BY <1>1, <1>4, <2>1 DEF Begins
    <2>2. CASE d # c
          BY <1>1, <1>3, <1>5, <1>6, <2>2 DEF Begins, OfOneProcess
    <2> QED BY <2>1, <2>2
  <1>7. ASSUME NEW r \in Processes, InjectionList'[r] # NULL
        PROVE  call'[InjectionList'[r]].target = r
    <2>1. InjectionList \in [Processes -> Calls \cup {NULL}] BY DEF TypeInv
    <2>2. CASE r = p BY <1>2, <1>4, <2>1, <2>2
    <2>3. CASE r # p
          BY <1>2, <1>3, <1>7, <2>1, <2>3 DEF OfOneProcess
    <2> QED BY <2>2, <2>3
  <1>8. ASSUME NEW d \in Calls, loader'[d].wait # NULL
        PROVE  call'[loader'[d].wait].target = call'[d].target
    <2>1. /\ d # c /\ loader[d].wait \in Calls /\ call[d].target \in Processes
          /\ call[loader[d].wait].target = call[d].target
          BY <1>2, <1>5, <1>8 DEF OfOneProcess
    <2> QED BY <1>2, <1>3, <2>1
  <1> QED BY <1>6, <1>7, <1>8 DEF OfOneProcess

LEMMA CallOfOneProcess ==
  ASSUME TypeInv, OfOneProcess, NEW c \in Calls, CallStep(c)
  PROVE  OfOneProcess'
  <1>1. /\ \A d \in Calls : call'[d].target = call[d].target
        /\ \A d \in Calls : d # c => call'[d] = call[d]
        /\ call[c].pc # "idle"
        BY TargetStays, CallMoves DEF Moves, Sets, Waiting
  <1>2. /\ \A d \in Calls : call[d].pc # "idle" => call[d].target \in Processes /\ call[d].wait \in Calls
        /\ \A d \in Calls : loader[d].wait \in Calls \cup {NULL}
        /\ InjectionList \in [Processes -> Calls \cup {NULL}]
        BY DEF TypeInv, CallTyped, LoaderRecords
  <1>3. call'[c].wait \in {call[c].wait, InjectionList[call[c].target]} \ {NULL}
        BY <1>1, <1>2, CallSteps, NullIsNone
        DEF Takes, Relists, Unlists, Breaks, Advances, Sets
  <1>4. ASSUME NEW d \in Calls, call'[d].pc # "idle"
        PROVE  call'[call'[d].wait].target = call'[d].target
    <2>1. CASE d = c
          BY <1>1, <1>2, <1>3, <2>1, NullIsNone DEF OfOneProcess
    <2>2. CASE d # c BY <1>1, <1>2, <1>4, <2>2 DEF OfOneProcess
    <2> QED BY <2>1, <2>2
  <1>5. ASSUME NEW r \in Processes, InjectionList'[r] # NULL
        PROVE  call'[InjectionList'[r]].target = r
    <2>1. \/ InjectionList'[r] = InjectionList[r]
          \/ InjectionList'[r] = call[c].wait /\ r = call[c].target
          BY <1>1, <1>2, <1>5, CallSteps DEF Takes, Relists, Unlists, Breaks, Advances
    <2> QED BY <1>1, <1>2, <1>5, <2>1, NullIsNone DEF OfOneProcess
  <1>6. ASSUME NEW d \in Calls, loader'[d].wait # NULL
        PROVE  call'[loader'[d].wait].target = call'[d].target
    <2>1. loader'[d] = loader[d] BY <1>6, CallKeeps
    <2> QED BY <1>1, <1>2, <1>6, <2>1 DEF OfOneProcess
  <1> QED BY <1>4, <1>5, <1>6 DEF OfOneProcess

LEMMA LoaderOfOneProcess ==
  ASSUME TypeInv, OfOneProcess, NEW c \in Calls, LoaderStep(c)
  PROVE  OfOneProcess'
  <1>1. /\ UNCHANGED <<InjectionList, call>>
        /\ call[c].target \in Processes
        /\ \A d \in Calls : d # c => loader'[d] = loader[d]
        /\ loader'[c].wait \in {NULL, loader[c].wait, InjectionList[call[c].target]}
        BY LoaderMoves DEF Tells
  <1> QED BY <1>1 DEF OfOneProcess

----------------------------------------------------------------------------
(* Who owns a mutex. *)

LEMMA BeginOwned ==
  ASSUME TypeInv, OfOneProcess, Owned, NEW c \in Calls, NEW p \in Processes, BeginInjection(c, p)
  PROVE  Owned'
  <1>1. PICK w \in Calls : Begins(c, p, w) BY BeginSets
  <1>2. /\ call[c].pc = "idle" /\ call[c].target = NULL
        /\ ThreadLock' = ThreadLock
        /\ ThreadLock \in [Calls -> Calls \cup {NULL}]
        BY DEF BeginInjection, TypeInv, CallTyped, waits
  <1>3. ASSUME NEW v \in Calls, ThreadLock[v] # NULL
        PROVE  v # c /\ ThreadLock[v] # c
    <2>1. /\ call[ThreadLock[v]].pc \in Within \cup {"done"}
          /\ call[ThreadLock[v]].target = call[v].target
          BY <1>3 DEF Owned, OwnerEnds
    <2>2. call[ThreadLock[v]].target \in Processes
          BY <1>2, <1>3, <2>1 DEF TypeInv, CallTyped, Within
    <2> QED BY <1>2, <2>1, <2>2, NullIsNone DEF Within
  <1>4. ASSUME NEW v \in Calls PROVE OwnerEnds(v)'
    <2>1. OwnerEnds(v) BY DEF Owned
    <2> QED BY <1>1, <1>2, <1>3, <2>1 DEF OwnerEnds, Begins
  <1>5. ASSUME NEW d \in Calls, call'[d].pc \in {"clear", "reset", "relist"}
        PROVE  ThreadLock'[call'[d].wait] = d
        BY <1>1, <1>2, <1>5 DEF Begins, Owned
  <1> QED BY <1>2, <1>4, <1>5 DEF Owned

LEMMA CallOwned ==
  ASSUME TypeInv, OfOneProcess, Owned, NEW c \in Calls, CallStep(c)
  PROVE  Owned'
  <1>1. /\ \A d \in Calls : call'[d].target = call[d].target
        /\ \A d \in Calls : d # c => call'[d] = call[d]
        BY TargetStays, CallMoves DEF Moves, Sets
  <1>2. /\ ThreadLock \in [Calls -> Calls \cup {NULL}]
        /\ InjectionList \in [Processes -> Calls \cup {NULL}]
        /\ call[c].pc # "idle" => call[c].wait \in Calls /\ call[c].target \in Processes
        BY DEF TypeInv, CallTyped
  <1>3. /\ \A v \in Calls : OwnerEnds(v)
        /\ \A v, w \in Calls : ThreadLock[w] # NULL /\ ThreadLock[v] = ThreadLock[w] => v = w
        /\ \A d \in Calls : call[d].pc \in {"clear", "reset", "relist"} =>
                              ThreadLock[call[d].wait] = d
        BY DEF Owned
  <1>4. CASE Takes(c)
    <2>1. /\ call[c].wait \in Calls
          /\ call[call[c].wait].target = call[c].target
          BY <1>2, <1>4 DEF Takes, OfOneProcess
    <2>2. \A v \in Calls : ThreadLock[v] # c
          BY <1>3, <1>4, NullIsNone DEF Takes, OwnerEnds, Within
    <2>3. ASSUME NEW v \in Calls PROVE OwnerEnds(v)'
          BY <1>1, <1>2, <1>3, <1>4, <2>1, <2>2 DEF Takes, OwnerEnds, Sets, Within
    <2>4. ASSUME NEW v \in Calls, NEW w \in Calls, ThreadLock'[w] # NULL,
                 ThreadLock'[v] = ThreadLock'[w]
          PROVE  v = w
          BY <1>2, <1>3, <1>4, <2>2, <2>4 DEF Takes
    <2>5. ASSUME NEW d \in Calls, call'[d].pc \in {"clear", "reset", "relist"}
          PROVE  ThreadLock'[call'[d].wait] = d
      <3>1. CASE d = c BY <1>2, <1>4, <2>1, <3>1 DEF Takes, Sets
      <3>2. CASE d # c
        <4>1. call'[d] = call[d] /\ ThreadLock[call[d].wait] = d
              BY <1>1, <1>3, <2>5, <3>2
        <4>2. call[d].wait \in Calls
              BY <2>5, <4>1 DEF TypeInv, CallTyped
        <4> QED BY <1>2, <1>4, <4>1, <4>2, NullIsNone DEF Takes
      <3> QED BY <3>1, <3>2
    <2> QED BY <2>3, <2>4, <2>5 DEF Owned
  <1>5. CASE Relists(c) \/ \E q, w, v : Advances(c, q, w, v)
    <2>1. /\ ThreadLock' = ThreadLock
          /\ call[c].pc \in Within /\ call'[c].pc \in Within
          /\ call'[c].pc \in {"clear", "reset", "relist"} =>
               call[c].pc \in {"clear", "reset", "relist"} /\ call'[c].wait = call[c].wait
          BY <1>5 DEF Relists, Advances, Sets, Listing, Within
    <2>2. ASSUME NEW v \in Calls PROVE OwnerEnds(v)'
          BY <1>1, <1>2, <1>3, <2>1 DEF OwnerEnds, Within
    <2>3. ASSUME NEW d \in Calls, call'[d].pc \in {"clear", "reset", "relist"}
          PROVE  ThreadLock'[call'[d].wait] = d
          BY <1>1, <1>3, <2>1, <2>3
    <2> QED BY <1>3, <2>1, <2>2, <2>3 DEF Owned
  <1>6. CASE Unlists(c)
    <2>1. PICK w \in Calls : /\ w = InjectionList[call[c].target]
                             /\ ThreadLock[w] = c
                             /\ ThreadLock' = [ThreadLock EXCEPT ![w] = NULL]
          BY <1>2, <1>6 DEF Unlists
    <2>2. ASSUME NEW v \in Calls PROVE OwnerEnds(v)'
          BY <1>1, <1>2, <1>3, <2>1, NullIsNone DEF OwnerEnds
    <2>3. ASSUME NEW u \in Calls, NEW v \in Calls, ThreadLock'[v] # NULL,
                 ThreadLock'[u] = ThreadLock'[v]
          PROVE  u = v
          BY <1>2, <1>3, <2>1, <2>3
    <2>4. ASSUME NEW d \in Calls, call'[d].pc \in {"clear", "reset", "relist"}
          PROVE  ThreadLock'[call'[d].wait] = d
      <3>1. d # c BY <1>6, <2>4 DEF Unlists, Sets
      <3>2. call'[d] = call[d] /\ ThreadLock[call[d].wait] = d BY <1>1, <1>3, <2>4, <3>1
      <3>3. call[d].wait \in Calls BY <2>4, <3>2 DEF TypeInv, CallTyped
      <3> QED BY <1>2, <2>1, <3>1, <3>2, <3>3
    <2> QED BY <2>2, <2>3, <2>4 DEF Owned
  <1>7. CASE Breaks(c)
    <2>1. /\ ThreadLock' = ThreadLock
          /\ call'[c].pc = "done" /\ call'[c].verdict = "broken"
          BY <1>7 DEF Breaks, Sets
    <2>2. ASSUME NEW v \in Calls PROVE OwnerEnds(v)'
          BY <1>1, <1>2, <1>3, <2>1 DEF OwnerEnds
    <2>3. ASSUME NEW d \in Calls, call'[d].pc \in {"clear", "reset", "relist"}
          PROVE  ThreadLock'[call'[d].wait] = d
          BY <1>1, <1>3, <2>1, <2>3
    <2> QED BY <1>3, <2>1, <2>2, <2>3 DEF Owned
  <1> QED BY CallSteps, <1>4, <1>5, <1>6, <1>7

----------------------------------------------------------------------------
(* Who takes an InjectionWait off the list. *)

LEMMA BeginListed ==
  ASSUME TypeInv, OfOneProcess, Owned, Listed,
         NEW c \in Calls, NEW p \in Processes, BeginInjection(c, p)
  PROVE  Listed'
  <1>1. PICK w \in Calls : /\ w = IF InjectionList[p] = NULL THEN c ELSE InjectionList[p]
                           /\ Begins(c, p, w)
        BY BeginSets
  <1>2. /\ call[c].pc = "idle" /\ call[c].target = NULL
        /\ ThreadLock' = ThreadLock
        /\ ThreadLock \in [Calls -> Calls \cup {NULL}]
        /\ InjectionList \in [Processes -> Calls \cup {NULL}]
        /\ InjectionList' = [InjectionList EXCEPT ![p] = w]
        BY <1>1 DEF BeginInjection, TypeInv, CallTyped, waits
  <1>3. ThreadLock[c] = NULL
    <2>1. SUFFICES ASSUME ThreadLock[c] # NULL PROVE FALSE OBVIOUS
    <2>2. /\ call[ThreadLock[c]].pc \in Within \cup {"done"}
          /\ call[ThreadLock[c]].target = NULL
          BY <1>2, <2>1 DEF Owned, OwnerEnds
    <2> QED BY <1>2, <2>1, <2>2, NullIsNone DEF TypeInv, CallTyped, Within
  <1>4. ASSUME NEW r \in Processes, InjectionList[r] # NULL
        PROVE  \E d \in Calls : call'[d].target = r /\ WillUnlist(d, InjectionList[r])'
                                /\ InjectionList'[r] = InjectionList[r]
    <2>1. PICK d \in Calls : call[d].target = r /\ WillUnlist(d, InjectionList[r])
          BY <1>4 DEF Listed
    <2>2. d # c BY <1>2, <2>1, NullIsNone
    <2>3. InjectionList'[r] = InjectionList[r] BY <1>1, <1>2, <1>4
    <2> QED BY <1>1, <1>2, <2>1, <2>2, <2>3 DEF Begins, WillUnlist
  <1>5. CASE InjectionList[p] = NULL
    <2>1. call'[c].target = p /\ WillUnlist(c, InjectionList[p])'
          BY <1>1, <1>2, <1>3, <1>5 DEF Begins, WillUnlist
    <2>2. ASSUME NEW r \in Processes, InjectionList'[r] # NULL
          PROVE  \E d \in Calls : call'[d].target = r /\ WillUnlist(d, InjectionList[r])'
      <3>1. CASE r = p BY <2>1, <3>1
      <3>2. CASE r # p
        <4>1. InjectionList[r] # NULL BY <1>2, <2>2, <3>2
        <4> QED BY <1>4, <4>1 DEF WillUnlist
      <3> QED BY <3>1, <3>2
    <2> QED BY <2>2 DEF Listed
  <1>6. CASE InjectionList[p] # NULL
    <2>1. ASSUME NEW r \in Processes, InjectionList'[r] # NULL
          PROVE  \E d \in Calls : call'[d].target = r /\ WillUnlist(d, InjectionList[r])'
      <3>1. InjectionList[r] # NULL BY <1>2, <1>6, <2>1
      <3> QED BY <1>4, <3>1 DEF WillUnlist
    <2> QED BY <2>1 DEF Listed
  <1> QED BY <1>5, <1>6

\* Whoever will unlist an InjectionWait still will, unless it is done so.
LEMMA UnlisterStays ==
  ASSUME TypeInv, OfOneProcess, Owned, NEW c \in Calls, CallStep(c),
         NEW d \in Calls, NEW p \in Processes, InjectionList[p] # NULL,
         call[d].target = p, WillUnlist(d, InjectionList[p])
  PROVE  \/ InjectionList'[p] = NULL
         \/ /\ InjectionList'[p] = InjectionList[p]
            /\ \E e \in Calls : call'[e].target = p /\ WillUnlist(e, InjectionList[p])'
  <1>1. /\ \A e \in Calls : call'[e].target = call[e].target
        /\ \A e \in Calls : e # c => call'[e] = call[e]
        BY TargetStays, CallMoves DEF Moves, Sets
  <1>2. /\ ThreadLock \in [Calls -> Calls \cup {NULL}]
        /\ InjectionList \in [Processes -> Calls \cup {NULL}]
        /\ call[c].pc # "idle" => call[c].wait \in Calls /\ call[c].target \in Processes
        BY DEF TypeInv, CallTyped
  <1>3. PICK w \in Calls : w = InjectionList[p] BY <1>2
  <1>4. call[w].target = p BY <1>3 DEF OfOneProcess
  <1>5. CASE Takes(c)
    <2>1. /\ call[c].wait \in Calls /\ call[call[c].wait].target = call[c].target
          /\ InjectionList' = InjectionList
          BY <1>2, <1>5 DEF Takes, OfOneProcess
    <2>2. CASE call[c].wait = w
      <3>1. call'[c].target = p /\ ThreadLock'[w] = c /\ call'[c].pc \in Within
            BY <1>1, <1>2, <1>4, <1>5, <2>1, <2>2 DEF Takes, Sets, Within
      <3> QED BY <1>3, <2>1, <3>1 DEF WillUnlist
    <2>3. CASE call[c].wait # w
      <3>1. ThreadLock'[w] = ThreadLock[w] BY <1>2, <1>5, <2>1, <2>3 DEF Takes
      <3>2. d # c BY <1>3, <1>5, <2>3 DEF Takes, WillUnlist, Within
      <3> QED BY <1>1, <1>3, <2>1, <3>1, <3>2 DEF WillUnlist
    <2> QED BY <2>2, <2>3
  <1>6. CASE Relists(c) \/ \E q, v, u : Advances(c, q, v, u)
    <2>1. /\ ThreadLock' = ThreadLock
          /\ call[c].pc \in Within /\ call'[c].pc \in Within
          BY <1>6 DEF Relists, Advances, Sets, Listing, Within
    <2>2. InjectionList'[p] = InjectionList[p]
          BY <1>2, <1>3, <1>6 DEF Relists, Advances
    <2> QED BY <1>1, <1>3, <2>1, <2>2 DEF WillUnlist, Within
  <1>7. CASE Unlists(c)
    <2>1. PICK v \in Calls : /\ v = InjectionList[call[c].target]
                             /\ ThreadLock[v] = c
                             /\ call[c].target \in Processes
                             /\ call[c].pc = "end"
                             /\ ThreadLock' = [ThreadLock EXCEPT ![v] = NULL]
                             /\ InjectionList' = [InjectionList EXCEPT ![call[c].target] = NULL]
          BY <1>2, <1>7 DEF Unlists
    <2>2. CASE p = call[c].target BY <1>2, <2>1, <2>2
    <2>3. CASE p # call[c].target
      <3>1. d # c /\ v # w
            BY <1>4, <2>1, <2>3, NullIsNone DEF OfOneProcess
      <3> QED BY <1>1, <1>2, <1>3, <2>1, <2>3, <3>1 DEF WillUnlist
    <2> QED BY <2>2, <2>3
  <1>8. CASE Breaks(c)
    <2>1. UNCHANGED <<InjectionList, ThreadLock>> /\ call[c].pc = "end"
          BY <1>8 DEF Breaks
    <2>2. d # c BY <1>3, <1>8 DEF Breaks, WillUnlist
    <2> QED BY <1>1, <1>3, <2>1, <2>2 DEF WillUnlist
  <1> QED BY CallSteps, <1>5, <1>6, <1>7, <1>8

LEMMA CallListed ==
  ASSUME TypeInv, OfOneProcess, Owned, Listed, NEW c \in Calls, CallStep(c)
  PROVE  Listed'
  <1> SUFFICES ASSUME NEW p \in Processes, InjectionList'[p] # NULL
               PROVE  \E d \in Calls : call'[d].target = p /\ WillUnlist(d, InjectionList[p])'
      BY DEF Listed
  <1>1. CASE InjectionList[p] # NULL
    <2>1. PICK d \in Calls : call[d].target = p /\ WillUnlist(d, InjectionList[p])
          BY <1>1 DEF Listed
    <2> QED BY <1>1, <2>1, UnlisterStays
  <1>2. CASE InjectionList[p] = NULL
    <2>1. /\ Relists(c) /\ p = call[c].target /\ InjectionList'[p] = call[c].wait
      <3>1. /\ InjectionList \in [Processes -> Calls \cup {NULL}]
            /\ call[c].pc # "idle" => call[c].target \in Processes
            BY DEF TypeInv, CallTyped
      <3> QED BY <1>2, <3>1, CallSteps DEF Takes, Relists, Unlists, Breaks, Advances
    <2>2. ThreadLock'[call[c].wait] = c /\ call'[c].pc \in Within /\ call'[c].target = p
          BY <2>1 DEF Relists, Owned, Sets, Within
    <2> QED BY <2>1, <2>2 DEF WillUnlist
  <1> QED BY <1>1, <1>2

----------------------------------------------------------------------------
(* Two calls for one process. *)

\* What a call that is there knows of the listed InjectionWait, unless three are there.
LEMMA UseTurn ==
  ASSUME Turns, TypeInv, NEW c \in Calls, call[c].pc # "idle", ~Crowded(call[c].target)
  PROVE  /\ call[c].verdict # "broken"
         /\ call[c].pc \in Waiting => InjectionList[call[c].target] \in {NULL, call[c].wait}
         /\ call[c].pc \in Within => ThreadLock[call[c].wait] = c
         /\ call[c].pc \in Listing => InjectionList[call[c].target] = call[c].wait
         /\ call[c].pc \in Waiting /\ Alone(c) => InjectionList[call[c].target] = call[c].wait
         /\ \A d \in Calls :
              call[c].pc \in Waiting /\ call[d].pc \in Waiting /\ call[d].target = call[c].target =>
                call[d].wait = call[c].wait
  <1>1. TakesTurn(c) BY DEF Turns
  <1>2. \A d \in Calls : Share(c, d) BY DEF Turns
  <1> QED BY <1>1, <1>2 DEF TakesTurn, Share

\* Calls keep their targets, so that there are no fewer for a process.
LEMMA CallStaysCrowded ==
  ASSUME TypeInv, NEW c \in Calls, CallStep(c)
  PROVE  /\ \A p : Crowded(p) <=> Crowded(p)'
         /\ \A d \in Calls : Alone(d) <=> Alone(d)'
  <1>1. \A d \in Calls : call'[d].target = call[d].target BY TargetStays
  <1> QED BY <1>1 DEF Crowded, Alone

LEMMA BeginTurns ==
  ASSUME TypeInv, OfOneProcess, Listed, Turns,
         NEW c \in Calls, NEW p \in Processes, BeginInjection(c, p)
  PROVE  Turns'
  <1>1. PICK w \in Calls : /\ w = IF InjectionList[p] = NULL THEN c ELSE InjectionList[p]
                           /\ Begins(c, p, w)
        BY BeginSets
  <1>2. /\ call[c].pc = "idle" /\ call[c].target = NULL
        /\ ThreadLock' = ThreadLock
        /\ InjectionList \in [Processes -> Calls \cup {NULL}]
        /\ InjectionList' = [InjectionList EXCEPT ![p] = w]
        BY <1>1 DEF BeginInjection, TypeInv, CallTyped, waits
  <1>3. \A d \in Calls : /\ call[d].pc # "idle" <=> call[d].target \in Processes
                         /\ d # c => call'[d] = call[d]
        BY <1>1, NullIsNone DEF TypeInv, CallTyped, Begins
  <1>4. \A r \in Processes : Crowded(r) => Crowded(r)'
    <2> SUFFICES ASSUME NEW r \in Processes, Crowded(r) PROVE Crowded(r)' OBVIOUS
    <2>1. PICK x, y, z \in Calls : /\ x # y /\ x # z /\ y # z
                                   /\ call[x].target = r /\ call[y].target = r /\ call[z].target = r
          BY DEF Crowded
    <2>2. call'[x].target = r /\ call'[y].target = r /\ call'[z].target = r
          BY <1>2, <1>3, <2>1, NullIsNone
    <2> QED BY <2>1, <2>2 DEF Crowded
  \* If somebody else is there for p and the process is not crowded, it is only one.
  <1>5. ASSUME NEW d \in Calls, d # c, call[d].target = p, ~Crowded(p)'
        PROVE  Alone(d)
    <2>1. \A e \in Calls : call[e].target = p => e # c /\ call'[e].target = p
          BY <1>2, <1>3, NullIsNone
    <2>2. call'[c].target = p /\ call'[d].target = p BY <1>1, <1>5, <2>1 DEF Begins
    <2>3. \A e \in Calls : call[e].target = p => e = d
          BY <1>5, <2>1, <2>2 DEF Crowded
    <2> QED BY <1>5, <2>3 DEF Alone
  <1>6. ASSUME NEW d \in Calls, d # c, call[d].target = p, ~Crowded(p)', call[d].pc \in Waiting
        PROVE  InjectionList[p] = call[d].wait /\ w = call[d].wait
    <2>1. InjectionList[p] = call[d].wait
          BY <1>4, <1>5, <1>6, UseTurn DEF Waiting
    <2>2. call[d].wait \in Calls BY <1>6 DEF TypeInv, CallTyped, Waiting
    <2> QED BY <1>1, <2>1, <2>2, NullIsNone
  <1>7. ASSUME NEW d \in Calls PROVE TakesTurn(d)'
    <2>1. CASE d = c
      <3>1. InjectionList'[p] = w BY <1>2
      <3> QED BY <1>1, <2>1, <3>1 DEF TakesTurn, Begins, Within, Listing
    <2>2. CASE d # c /\ call[d].target # p
      <3>1. call[d].pc # "idle" => InjectionList'[call[d].target] = InjectionList[call[d].target]
            BY <1>2, <1>3, <2>2
      <3>2. Alone(d)' /\ call[d].pc # "idle" => Alone(d)
            BY <1>2, <1>3, <2>2, NullIsNone DEF Alone
      <3>3. TakesTurn(d) BY DEF Turns
      <3> QED BY <1>2, <1>3, <1>4, <2>2, <3>1, <3>2, <3>3 DEF TakesTurn
    <2>3. CASE d # c /\ call[d].target = p /\ ~Crowded(p)'
      <3>1. TakesTurn(d) BY DEF Turns
      <3>2. call[d].pc \in Waiting => InjectionList'[p] = call[d].wait
            BY <1>2, <1>6, <2>3
      <3> QED BY <1>2, <1>3, <1>4, <2>3, <3>1, <3>2 DEF TakesTurn, Waiting, Listing
    <2>4. CASE d # c /\ call[d].target = p /\ Crowded(p)'
          BY <1>3, <2>4 DEF TakesTurn
    <2> QED BY <2>1, <2>2, <2>3, <2>4
  <1>8. ASSUME NEW d \in Calls, NEW e \in Calls PROVE Share(d, e)'
    <2>1. CASE d = c /\ e = c BY <2>1 DEF Share
    <2>2. CASE d = c /\ e # c
          BY <1>1, <1>3, <1>6, <2>2 DEF Share, Begins
    <2>3. CASE d # c /\ e = c
          BY <1>1, <1>3, <1>6, <2>3 DEF Share, Begins
    <2>4. CASE d # c /\ e # c
      <3>1. Share(d, e) BY DEF Turns
      <3>2. call[d].pc \in Waiting => call[d].target \in Processes BY <1>3 DEF Waiting
      <3> QED BY <1>3, <1>4, <2>4, <3>1, <3>2 DEF Share
    <2> QED BY <2>1, <2>2, <2>3, <2>4
  <1> QED BY <1>7, <1>8 DEF Turns

LEMMA CallTurns ==
  ASSUME TypeInv, OfOneProcess, Owned, Turns, NEW c \in Calls, CallStep(c)
  PROVE  Turns'
  <1>1. /\ \A e \in Calls : call'[e].target = call[e].target
        /\ \A e \in Calls : e # c => call'[e] = call[e]
        /\ call[c].pc \in Waiting
        BY TargetStays, CallMoves DEF Moves, Sets
  <1>2. /\ ThreadLock \in [Calls -> Calls \cup {NULL}]
        /\ InjectionList \in [Processes -> Calls \cup {NULL}]
        /\ \A d \in Calls : call[d].pc # "idle" => call[d].wait \in Calls /\ call[d].target \in Processes
        BY DEF TypeInv, CallTyped
  <1> DEFINE p == call[c].target
             w == call[c].wait
  <1>3. /\ \A q : Crowded(q) <=> Crowded(q)'
        /\ \A d \in Calls : Alone(d) <=> Alone(d)'
        BY CallStaysCrowded
  <1>4. w \in Calls /\ p \in Processes /\ call[c].pc # "idle" BY <1>1, <1>2 DEF Waiting
  \* The rest of the list, and of the mutexes.
  <1>5. /\ \A r \in Processes : r # p => InjectionList'[r] = InjectionList[r]
        /\ \A v \in Calls : call[v].target # p => ThreadLock'[v] = ThreadLock[v]
    <2>1. CASE Takes(c) BY <1>2, <1>4, <2>1 DEF Takes, OfOneProcess
    <2>2. CASE Unlists(c) BY <1>2, <1>4, <2>2, NullIsNone DEF Unlists, OfOneProcess
    <2>3. CASE Relists(c) \/ Breaks(c) \/ \E q, v, u : Advances(c, q, v, u)
          BY <1>2, <1>4, <2>3 DEF Relists, Breaks, Advances
    <2> QED BY <2>1, <2>2, <2>3, CallSteps
  <1>6. ASSUME NEW d \in Calls, call[d].target # p, call[d].pc # "idle"
        PROVE  TakesTurn(d)'
    <2>1. /\ TakesTurn(d) /\ call'[d] = call[d]
          /\ call[call[d].wait].target = call[d].target
          BY <1>1, <1>6 DEF Turns, OfOneProcess
    <2>2. /\ InjectionList'[call[d].target] = InjectionList[call[d].target]
          /\ ThreadLock'[call[d].wait] = ThreadLock[call[d].wait]
          BY <1>2, <1>5, <1>6, <2>1
    <2> QED BY <1>3, <2>1, <2>2 DEF TakesTurn
  \* Now for the process of the call.
  <1>7. ASSUME ~Crowded(p)
        PROVE  /\ \A d \in Calls : call[d].target = p => TakesTurn(d)'
               /\ call'[c].pc \in Waiting => call'[c].wait = w
    <2>1. /\ call[c].verdict # "broken"
          /\ InjectionList[p] \in {NULL, w}
          /\ call[c].pc \in Within => ThreadLock[w] = c
          /\ call[c].pc \in Listing => InjectionList[p] = w
          /\ Alone(c) => InjectionList[p] = w
          BY <1>1, <1>4, <1>7, UseTurn
    <2>2. \A d \in Calls : d # c /\ call[d].target = p =>
            /\ call'[d] = call[d]
            /\ call[d].pc # "idle"
            /\ call[d].verdict # "broken"
            /\ call[d].pc \in Waiting => call[d].wait = w
            /\ call[d].pc \in Within => ThreadLock[w] = d
            /\ ~Alone(d)
      <3> SUFFICES ASSUME NEW d \in Calls, d # c, call[d].target = p
                   PROVE  /\ call'[d] = call[d]
                          /\ call[d].pc # "idle"
                          /\ call[d].verdict # "broken"
                          /\ call[d].pc \in Waiting => call[d].wait = w
                          /\ call[d].pc \in Within => ThreadLock[w] = d
                          /\ ~Alone(d)
          OBVIOUS
      <3>1. call'[d] = call[d] /\ ~Alone(d) BY <1>1 DEF Alone
      <3>2. call[d].pc # "idle" BY <1>4, NullIsNone DEF TypeInv, CallTyped
      <3>3. /\ call[d].verdict # "broken"
            /\ call[d].pc \in Waiting => call[d].wait = w
            /\ call[d].pc \in Within => ThreadLock[call[d].wait] = d
            BY <1>1, <1>7, <3>2, UseTurn
      <3> QED BY <3>1, <3>2, <3>3 DEF Waiting, Within
    <2>3. CASE Takes(c)
      <3>1. /\ ThreadLock'[w] = c /\ InjectionList' = InjectionList /\ ThreadLock[w] = NULL
            /\ call'[c].pc = "clear" /\ call'[c].wait = w /\ call'[c].verdict = call[c].verdict
            BY <1>2, <1>4, <2>3 DEF Takes, Sets
      <3>2. \A d \in Calls : d # c /\ call[d].target = p => call[d].pc \notin Within
            BY <2>2, <3>1, NullIsNone
      <3>3. ASSUME NEW d \in Calls, call[d].target = p PROVE TakesTurn(d)'
        <4>1. CASE d = c
              BY <1>1, <1>3, <2>1, <3>1, <4>1 DEF TakesTurn, Listing
        <4>2. CASE d # c
              BY <1>3, <2>1, <2>2, <3>1, <3>2, <3>3, <4>2 DEF TakesTurn, Listing, Within
        <4> QED BY <4>1, <4>2
      <3> QED BY <3>1, <3>3
    <2>4. CASE Relists(c)
      <3>1. /\ ThreadLock' = ThreadLock /\ InjectionList'[p] = w /\ ThreadLock[w] = c
            /\ call'[c].pc = "inject" /\ call'[c].wait = w /\ call'[c].verdict = call[c].verdict
            BY <1>2, <1>4, <2>1, <2>4 DEF Relists, Sets, Within
      <3>2. ASSUME NEW d \in Calls, call[d].target = p PROVE TakesTurn(d)'
        <4>1. CASE d = c
              BY <1>1, <1>3, <2>1, <3>1, <4>1 DEF TakesTurn
        <4>2. CASE d # c
              BY <1>3, <2>1, <2>2, <3>1, <3>2, <4>2 DEF TakesTurn, Listing, Within, Waiting
        <4> QED BY <4>1, <4>2
      <3> QED BY <3>1, <3>2
    <2>5. CASE \E q, v, u : Advances(c, q, v, u)
      <3>1. /\ ThreadLock' = ThreadLock /\ InjectionList' = InjectionList /\ ThreadLock[w] = c
            /\ call'[c].pc \in Within /\ call'[c].wait = w
            /\ call'[c].pc \in Listing => call[c].pc \in Listing
            /\ call'[c].verdict # "broken"
            BY <1>4, <2>1, <2>5, NullIsNone DEF Advances, Sets, Within, Listing
      <3>2. ASSUME NEW d \in Calls, call[d].target = p PROVE TakesTurn(d)'
        <4>1. CASE d = c
              BY <1>1, <1>3, <2>1, <3>1, <4>1 DEF TakesTurn
        <4>2. CASE d # c
          <5>1. TakesTurn(d) BY DEF Turns
          <5> QED BY <1>1, <1>3, <1>7, <2>2, <3>1, <3>2, <4>2, <5>1 DEF TakesTurn
        <4> QED BY <4>1, <4>2
      <3> QED BY <3>1, <3>2
    <2>6. CASE Unlists(c)
      <3>1. /\ InjectionList[p] = w /\ ThreadLock[w] = c
            /\ ThreadLock'[w] = NULL /\ InjectionList'[p] = NULL
            /\ call'[c].pc = "done" /\ call'[c].verdict = call[c].verdict
            BY <1>2, <1>4, <2>1, <2>6 DEF Unlists, Sets
      <3>2. \A d \in Calls : d # c /\ call[d].target = p => call[d].pc \notin Within
            BY <2>2, <3>1
      <3>3. ASSUME NEW d \in Calls, call[d].target = p PROVE TakesTurn(d)'
        <4>1. CASE d = c
              BY <1>1, <2>1, <3>1, <4>1 DEF TakesTurn, Waiting, Within, Listing
        <4>2. CASE d # c
              BY <1>3, <2>2, <3>1, <3>2, <3>3, <4>2 DEF TakesTurn, Listing, Within
        <4> QED BY <4>1, <4>2
      <3> QED BY <3>1, <3>3 DEF Waiting
    <2>7. CASE Breaks(c)
      <3>1. FALSE
            BY <1>4, <2>1, <2>7, NullIsNone DEF Breaks, Within, Listing
      <3> QED BY <3>1
    <2> QED BY <2>3, <2>4, <2>5, <2>6, <2>7, CallSteps
  <1>8. ASSUME NEW d \in Calls PROVE TakesTurn(d)'
    <2>1. CASE call[d].pc = "idle"
          BY <1>1, <1>4, <2>1 DEF TakesTurn
    <2>2. CASE call[d].pc # "idle" /\ call[d].target # p
          BY <1>6, <2>2
    <2>3. CASE call[d].target = p /\ ~Crowded(p) BY <1>7, <2>3
    <2>4. CASE call[d].target = p /\ Crowded(p)
          BY <1>1, <1>3, <2>4 DEF TakesTurn
    <2> QED BY <2>1, <2>2, <2>3, <2>4
  <1>9. ASSUME NEW d \in Calls, NEW e \in Calls PROVE Share(d, e)'
    <2>1. Share(d, e) BY DEF Turns
    <2>2. \A f \in Calls : call'[f].pc \in Waiting => call[f].pc \in Waiting
          BY <1>1
    <2>3. \A f \in Calls : call'[f].pc \in Waiting /\ call[f].target = p /\ ~Crowded(p) =>
            call'[f].wait = call[f].wait
          BY <1>1, <1>7
    <2>4. \A f \in Calls : call[f].target # p => call'[f] = call[f]
          BY <1>1
    <2> QED BY <1>1, <1>3, <2>1, <2>2, <2>3, <2>4 DEF Share
  <1> QED BY <1>8, <1>9 DEF Turns

LEMMA LoaderKeeps ==
  ASSUME TypeInv, NEW c \in Calls, LoaderStep(c)
  PROVE  (Owned => Owned') /\ (Listed => Listed') /\ (Turns => Turns')
  <1>1. UNCHANGED <<InjectionList, ThreadLock, call>> BY LoaderMoves
  <1>2. \A p : Crowded(p)' <=> Crowded(p) BY <1>1 DEF Crowded
  <1>3. \A d \in Calls : Alone(d)' <=> Alone(d) BY <1>1 DEF Alone
  <1>4. Owned => Owned' BY <1>1 DEF Owned, OwnerEnds
  <1>5. Listed => Listed' BY <1>1 DEF Listed, WillUnlist
  <1>6. \A d \in Calls : TakesTurn(d) => TakesTurn(d)' BY <1>1, <1>2, <1>3 DEF TakesTurn
  <1>7. \A d, e \in Calls : Share(d, e) => Share(d, e)' BY <1>1, <1>2 DEF Share
  <1> QED BY <1>4, <1>5, <1>6, <1>7 DEF Turns

----------------------------------------------------------------------------
(* What a call is told that nobody else disturbs. *)

\* What the invariant says of a call that is alone: the InjectionWait in hand is its own.
LEMMA AloneHasItsOwn ==
  ASSUME TypeInv, OfOneProcess, NEW c \in Calls, Alone(c)
  PROVE  /\ call[c].pc # "idle" => call[c].wait = c
         /\ loader[c].wait # NULL => loader[c].wait = c
  BY DEF TypeInv, OfOneProcess, Alone, CallTyped, LoaderRecords

\* Nobody else has the InjectionWait of a call that is alone in hand.
LEMMA OthersHaveTheirs ==
  ASSUME TypeInv, OfOneProcess, NEW c \in Calls, NEW d \in Calls, c # d, Alone(d)
  PROVE  /\ call[c].pc # "idle" => call[c].wait # d
         /\ loader[c].wait # d
  BY NullIsNone DEF TypeInv, OfOneProcess, Alone, CallTyped

LEMMA BeginTold ==
  ASSUME TypeInv, Told, NEW c \in Calls, NEW p \in Processes, BeginInjection(c, p)
  PROVE  Told'
  <1>1. PICK w \in Calls : Begins(c, p, w) BY BeginSets
  <1>2. /\ call[c].pc = "idle" /\ call[c].target = NULL /\ ~Completion[c]
        /\ loader[c].pc = "none"
        /\ UNCHANGED <<Completion, Error, loader>>
        BY DEF BeginInjection, TypeInv, CallTyped, LoaderTyped, Preparing, waits
  <1>3. ASSUME NEW d \in Calls PROVE LoaderTells(d)'
    <2>1. CASE d = c BY <1>1, <1>2, <2>1 DEF LoaderTells, Begins
    <2>2. CASE d # c
      <3>1. LoaderTells(d) BY DEF Told
      <3>2. call'[d] = call[d] BY <1>1, <2>2 DEF Begins
      <3>3. Alone(d)' /\ call[d].pc # "idle" => Alone(d)
        <4> SUFFICES ASSUME Alone(d)', call[d].pc # "idle", NEW e \in Calls,
                            call[e].target = call[d].target
                     PROVE  e = d
            BY DEF Alone
        <4>1. e # c BY <1>2, NullIsNone DEF TypeInv, CallTyped
        <4> QED BY <1>1, <3>2, <4>1 DEF Begins, Alone
      <3> QED BY <1>2, <3>1, <3>2, <3>3 DEF LoaderTells
    <2> QED BY <2>1, <2>2
  <1> QED BY <1>3 DEF Told

LEMMA CallTold ==
  ASSUME TypeInv, OfOneProcess, Told, NEW c \in Calls, CallStep(c)
  PROVE  Told'
  <1>1. /\ \A e \in Calls : e # c => call'[e] = call[e] /\ loader'[e] = loader[e]
        /\ \A e \in Calls : Completion'[e] => Completion[e]
        /\ \A e \in Calls : Alone(e)' <=> Alone(e)
        /\ call[c].pc # "idle"
        BY CallMoves, CallKeeps, CallStaysCrowded DEF Moves, Sets, Waiting
  <1>2. /\ call \in [Calls -> CallRecords]
        /\ loader \in [Calls -> LoaderRecords]
        /\ Error \in [Calls -> Calls \cup {NULL}]
        /\ call[c].wait \in Calls
        /\ call[c].verdict \in Verdicts
        /\ call[c].pc \in Preparing => loader[c].pc = "none"
        BY <1>1 DEF TypeInv, CallTyped, LoaderTyped, CallRecords
  <1>3. ASSUME NEW d \in Calls, d # c PROVE LoaderTells(d)'
    <2>1. LoaderTells(d) BY DEF Told
    <2>2. Alone(d) => Error'[d] = Error[d]
      <3>1. CASE ClearError(c)
            BY <1>1, <1>2, <1>3, <3>1, OthersHaveTheirs DEF ClearError
      <3>2. CASE ~ClearError(c)
            BY <3>2 DEF CallStep, TakeLock, ResetCompletion, Relist, InjectsNothing,
               RhInjectLibraryEx, FindWait, WaitOne, Judge, EndInjection, waits
      <3> QED BY <3>1, <3>2
    <2> QED BY <1>1, <1>3, <2>1, <2>2 DEF LoaderTells
  <1>4. LoaderTells(c) BY DEF Told
  <1>5. LoaderTells(c)'
    <2>1. CASE TakeLock(c) \/ ClearError(c) \/ ResetCompletion(c) \/ Relist(c)
      <3>1. /\ loader' = loader
            /\ call[c].pc \in Preparing
            /\ \E q \in Preparing : Goto(c, q)
            BY <2>1 DEF TakeLock, ClearError, ResetCompletion, Relist, Preparing
      <3>2. /\ call'[c].pc \in Preparing
            /\ call'[c].verdict = call[c].verdict
            BY <1>2, <3>1, GotoSets DEF Sets, Preparing, CallPcs
      <3> QED BY <1>1, <1>2, <1>4, <3>1, <3>2 DEF LoaderTells, Preparing
    <2>2. CASE RhInjectLibraryEx(c)
      <3>1. /\ loader'[c].pc \in {"completed", "exception"}
            /\ loader'[c].pc = "completed" <=> loader'[c].good
            BY <2>2, CallKeeps
      <3>2. /\ call[c].pc = "inject" /\ Goto(c, "find")
            BY <2>2 DEF RhInjectLibraryEx
      <3>3. /\ call'[c].pc = "find" /\ call'[c].verdict = call[c].verdict
            BY <1>2, <3>2, GotoSets DEF Sets, CallPcs
      <3> QED BY <1>1, <1>2, <1>4, <3>1, <3>2, <3>3 DEF LoaderTells, Preparing
    <2>3. CASE ~RhInjectLibraryEx(c)
      <3>0. loader'[c] = loader[c] BY <2>3, CallKeeps
      <3>1. ASSUME Ends(c, "refused") \/ Ends(c, "delegated") \/ Ends(c, "timeout") \/ Ends(c, "broken"),
                   Error' = Error
            PROVE  LoaderTells(c)'
        <4>1. /\ call'[c].pc = "end" /\ call'[c].verdict \notin {"success", "error"}
              BY <1>2, <3>1, EndsSets DEF Sets, Verdicts
        <4> QED BY <1>1, <1>4, <3>0, <3>1, <4>1 DEF LoaderTells, Preparing
      <3>2. CASE InjectsNothing(c) BY <3>1, <3>2 DEF InjectsNothing, waits
      <3>3. CASE FindWait(c)
        <4>1. CASE InjectionList[call[c].target] = NULL
              BY <3>1, <3>3, <4>1 DEF FindWait, waits
        <4>2. CASE InjectionList[call[c].target] # NULL
          <5>1. PICK w \in Calls : call' = [call EXCEPT ![c].pc = "wait", ![c].wait = w]
                BY <1>1, <3>3, <4>2 DEF FindWait, TypeInv, CallTyped
          <5>2. /\ call'[c].pc = "wait" /\ call'[c].verdict = call[c].verdict
                BY <1>2, <5>1, FindSets DEF Sets
          <5> QED BY <1>1, <1>4, <3>0, <3>3, <5>2 DEF LoaderTells, Preparing, FindWait, waits
        <4> QED BY <4>1, <4>2
      <3>4. CASE WaitOne(c)
        <4>1. CASE Ends(c, "timeout") BY <3>1, <3>4, <4>1 DEF WaitOne, waits
        <4>2. CASE ~Ends(c, "timeout")
          <5>1. Completion[call[c].wait] /\ Goto(c, "judge") /\ Error' = Error
                BY <3>4, <4>2 DEF WaitOne, waits
          <5>2. /\ call'[c].pc = "judge" /\ call'[c].verdict = call[c].verdict
                BY <1>2, <5>1, GotoSets DEF Sets, CallPcs
          <5>3. Alone(c) => Completion[c] BY <1>1, <5>1, AloneHasItsOwn
          <5> QED BY <1>1, <1>4, <3>0, <5>1, <5>2, <5>3 DEF LoaderTells, Preparing
        <4> QED BY <4>1, <4>2
      <3>5. CASE Judge(c)
        <4>1. PICK v \in Verdicts : /\ Ends(c, v)
                                    /\ v = IF Error[call[c].wait] = NULL THEN "success" ELSE "error"
              BY <3>5 DEF Judge, Verdicts
        <4>2. /\ call'[c].pc = "end" /\ call'[c].verdict = v
              BY <1>2, <4>1, EndsSets DEF Sets
        <4>3. /\ call[c].pc = "judge" /\ Error' = Error /\ Completion' = Completion
              BY <3>5 DEF Judge, waits
        <4>4. Alone(c) => v = IF Error[c] = NULL THEN "success" ELSE "error"
              BY <1>1, <4>1, AloneHasItsOwn
        <4> QED BY <1>1, <1>4, <3>0, <4>2, <4>3, <4>4 DEF LoaderTells, Preparing
      <3>6. CASE EndInjection(c)
        <4>1. /\ call'[c].pc = "done"
              /\ call'[c].verdict \in {call[c].verdict, "broken"}
              BY <1>2, <3>6, GotoSets, BrokenSets DEF EndInjection, Sets, CallPcs
        <4> QED BY <1>1, <1>4, <3>0, <3>6, <4>1 DEF LoaderTells, Preparing, EndInjection
      <3> QED BY <2>1, <2>3, <3>2, <3>3, <3>4, <3>5, <3>6 DEF CallStep
    <2> QED BY <2>1, <2>2, <2>3
  <1> QED BY <1>3, <1>5 DEF Told

LEMMA LoaderTold ==
  ASSUME TypeInv, OfOneProcess, Told, NEW c \in Calls, LoaderStep(c)
  PROVE  Told'
  <1>1. /\ call' = call /\ call[c].pc \notin Preparing
        /\ Error \in [Calls -> Calls \cup {NULL}]
        /\ Completion \in [Calls -> BOOLEAN]
        /\ \A d \in Calls : d # c => loader'[d] = loader[d]
        BY LoaderMoves DEF TypeInv, Tells
  <1>2. \A d \in Calls : Alone(d)' <=> Alone(d) BY <1>1 DEF Alone
  <1>3. \A d \in Calls : loader[c].wait # d => Error'[d] = Error[d] /\ Completion'[d] = Completion[d]
    <2> SUFFICES ASSUME NEW d \in Calls, loader[c].wait # d
                 PROVE  Error'[d] = Error[d] /\ Completion'[d] = Completion[d]
        OBVIOUS
    <2>1. CASE ReportError(c) BY <1>1, <2>1 DEF ReportError
    <2>2. CASE SetCompletion(c) BY <1>1, <2>2 DEF SetCompletion
    <2>3. CASE InjectionCompleted(c) \/ InjectionException(c)
          BY <2>3 DEF InjectionCompleted, InjectionException, waits
    <2> QED BY <2>1, <2>2, <2>3 DEF LoaderStep
  <1>4. ASSUME NEW d \in Calls, d # c PROVE LoaderTells(d)'
    <2>1. LoaderTells(d) BY DEF Told
    <2>2. Alone(d) => Error'[d] = Error[d] /\ Completion'[d] = Completion[d]
          BY <1>3, <1>4, OthersHaveTheirs
    <2> QED BY <1>1, <1>2, <1>4, <2>1, <2>2 DEF LoaderTells
  <1>5. LoaderTells(c) BY DEF Told
  <1>6. LoaderTells(c)'
    <2>1. CASE InjectionCompleted(c)
      <3>1. /\ loader[c].pc = "completed" /\ UNCHANGED <<Completion, Error>>
            BY <2>1 DEF InjectionCompleted, At, waits
      <3>2. \/ loader'[c].pc = "exception" /\ ~loader'[c].good
            \/ loader'[c].pc = "success" /\ loader'[c].good = loader[c].good
            BY <2>1, <3>1, LoaderMoves
            DEF InjectionException, ReportError, SetCompletion, At, Tells
      <3> QED BY <1>1, <1>2, <1>5, <3>1, <3>2 DEF LoaderTells
    <2>2. CASE InjectionException(c)
      <3>1. /\ loader[c].pc = "exception" /\ UNCHANGED <<Completion, Error>>
            BY <2>2 DEF InjectionException, At, waits
      <3>2. /\ loader'[c].pc = "failure" \/ (loader'[c].pc = "over" /\ loader'[c].wait = NULL)
            /\ loader'[c].good = loader[c].good
            BY <2>2, <3>1, LoaderMoves
            DEF InjectionCompleted, ReportError, SetCompletion, At, Tells
      <3> QED BY <1>1, <1>2, <1>5, <3>1, <3>2 DEF LoaderTells
    <2>3. CASE ReportError(c)
      <3>1. loader[c].pc \in {"success", "failure"} /\ Completion' = Completion
            BY <2>3 DEF ReportError, At
      <3>2. /\ loader'[c].pc = "set"
            /\ loader'[c].good = loader[c].good
            /\ loader[c].wait \in Calls
            BY <2>3, <3>1, LoaderMoves
            DEF InjectionCompleted, InjectionException, SetCompletion, At, Tells
      <3>3. Error' = [Error EXCEPT ![loader[c].wait] = IF loader[c].pc = "success" THEN NULL ELSE c]
            BY <2>3 DEF ReportError, At
      <3>4. Alone(c) => Error'[c] = IF loader[c].pc = "success" THEN NULL ELSE c
            BY <1>1, <3>2, <3>3, AloneHasItsOwn, NullIsNone
      <3> QED BY <1>1, <1>2, <1>5, <3>1, <3>2, <3>4, NullIsNone DEF LoaderTells
    <2>4. CASE SetCompletion(c)
      <3>1. loader[c].pc = "set" /\ Error' = Error
            BY <2>4 DEF SetCompletion, At
      <3>2. /\ loader'[c].pc = "over" /\ loader'[c].wait = loader[c].wait
            /\ loader'[c].good = loader[c].good
            /\ loader[c].wait \in Calls
            BY <2>4, <3>1, LoaderMoves
            DEF InjectionCompleted, InjectionException, ReportError, At, Tells
      <3> QED BY <1>1, <1>2, <1>5, <3>1, <3>2, NullIsNone DEF LoaderTells
    <2> QED BY <2>1, <2>2, <2>3, <2>4 DEF LoaderStep
  <1> QED BY <1>4, <1>6 DEF Told

----------------------------------------------------------------------------
(* The invariant holds, and with it the properties. *)

LEMMA InitInv == ASSUME Init PROVE Inv
  <1>1. TypeInv BY InitTyped
  <1>2. /\ \A c \in Calls : /\ call[c].pc = "idle" /\ call[c].verdict = "none"
                            /\ loader[c].pc = "none" /\ loader[c].wait = NULL
        /\ \A p \in Processes : InjectionList[p] = NULL
        /\ \A w \in Calls : ThreadLock[w] = NULL
        BY DEF Init, IdleCall, IdleLoader
  <1>3. OfOneProcess BY <1>2 DEF OfOneProcess
  <1>4. Owned BY <1>2 DEF Owned, OwnerEnds
  <1>5. Listed BY <1>2 DEF Listed
  <1>6. Turns BY <1>2 DEF Turns, TakesTurn, Share, Waiting
  <1>7. Told BY <1>2 DEF Told, LoaderTells
  <1> QED BY <1>1, <1>3, <1>4, <1>5, <1>6, <1>7 DEF Inv

LEMMA NextInv == ASSUME Inv, [Next]_vars PROVE Inv'
  <1>1. TypeInv /\ OfOneProcess /\ Owned /\ Listed /\ Turns /\ Told BY DEF Inv
  <1>2. ASSUME NEW c \in Calls, NEW p \in Processes, BeginInjection(c, p) PROVE Inv'
        BY <1>1, <1>2, BeginTypes, BeginOfOneProcess, BeginOwned, BeginListed, BeginTurns, BeginTold
        DEF Inv
  <1>3. ASSUME NEW c \in Calls, CallStep(c) PROVE Inv'
        BY <1>1, <1>3, CallTypes, CallOfOneProcess, CallOwned, CallListed, CallTurns, CallTold
        DEF Inv
  <1>4. ASSUME NEW c \in Calls, LoaderStep(c) PROVE Inv'
        BY <1>1, <1>4, LoaderTypes, LoaderOfOneProcess, LoaderKeeps, LoaderTold DEF Inv
  <1>5. CASE UNCHANGED vars
    <2>1. UNCHANGED <<InjectionList, ThreadLock, Completion, Error, call, loader>>
          BY <1>5 DEF vars, waits
    <2>2. TypeInv' BY <1>1, <2>1 DEF TypeInv, CallTyped, LoaderTyped
    <2>3. OfOneProcess' BY <1>1, <2>1 DEF OfOneProcess
    <2>4. Owned' BY <1>1, <2>1 DEF Owned, OwnerEnds
    <2>5. Listed' BY <1>1, <2>1 DEF Listed, WillUnlist
    <2>6. Turns' BY <1>1, <2>1 DEF Turns, TakesTurn, Share, Crowded, Alone
    <2>7. Told' BY <1>1, <2>1 DEF Told, LoaderTells, Alone
    <2> QED BY <2>2, <2>3, <2>4, <2>5, <2>6, <2>7 DEF Inv
  <1> QED BY <1>2, <1>3, <1>4, <1>5 DEF Next

LEMMA InvHolds == Spec => []Inv
  BY InitInv, NextInv, PTL DEF Spec

\* When every call has ended nothing is left in InjectionList, though an EndInjection that
\* throws removes nothing: each entry has a call that owns its mutex, or is about to, and
\* that is the call whose EndInjection does not throw.
THEOREM ListIsEmptyInTheEnd == Spec => []ListIsCleared
  <1>1. ASSUME Inv, \A c \in Calls : call[c].pc \in {"idle", "done"},
               NEW p \in Processes, InjectionList[p] # NULL
        PROVE  FALSE
    <2>1. PICK c \in Calls : WillUnlist(c, InjectionList[p]) BY <1>1 DEF Inv, Listed
    <2> QED BY <1>1, <2>1 DEF WillUnlist, Within
  <1>2. Inv => ListIsCleared BY <1>1 DEF ListIsCleared
  <1> QED BY <1>2, InvHolds, PTL

\* Nobody waits in BeginInjection for a mutex whose owner is past EndInjection, unless that
\* EndInjection threw.
THEOREM OwnerComesToTheEnd == Spec => []LockWillBeReleased
  <1>1. ASSUME Inv, NEW c \in Calls, call[c].pc = "lock", ThreadLock[call[c].wait] # NULL
        PROVE  \/ call[ThreadLock[call[c].wait]].verdict = "broken"
               \/ call[ThreadLock[call[c].wait]].pc \in CallPcs \ {"idle", "lock", "done"}
    <2>1. call[c].wait \in Calls BY <1>1 DEF Inv, TypeInv, CallTyped
    <2>2. OwnerEnds(call[c].wait) BY <1>1, <2>1 DEF Inv, Owned
    <2> QED BY <1>1, <2>2 DEF OwnerEnds, Within, CallPcs
  <1>2. Inv => LockWillBeReleased BY <1>1 DEF LockWillBeReleased
  <1> QED BY <1>2, InvHolds, PTL

\* Two calls for one process take turns: at most one is between BeginInjection and the end
\* of EndInjection, and no EndInjection throws.
THEOREM TwoCallsTakeTurns == Spec => []TwoTakeTurns
  <1>1. ASSUME NEW p \in Processes, Cardinality(CallsFor(p)) <= 2, Crowded(p) PROVE FALSE
    <2>1. IsFiniteSet(CallsFor(p)) BY CallsAreFinite, FS_Subset DEF CallsFor
    <2>2. PICK a, b, c \in Calls : /\ a # b /\ a # c /\ b # c
                                   /\ call[a].target = p /\ call[b].target = p /\ call[c].target = p
          BY <1>1 DEF Crowded
    <2>3. {a, b, c} \subseteq CallsFor(p) BY <2>2 DEF CallsFor
    <2>4. IsFiniteSet({a, b, c}) /\ Cardinality({a, b, c}) <= Cardinality(CallsFor(p))
          BY <2>1, <2>3, FS_Subset
    <2>5. Cardinality({a}) = 1 /\ IsFiniteSet({a}) BY FS_Singleton
    <2>6. Cardinality({a} \cup {b}) = 2 /\ IsFiniteSet({a} \cup {b})
      <3>1. b \notin {a} BY <2>2
      <3>2. /\ IsFiniteSet({a} \cup {b})
            /\ Cardinality({a} \cup {b}) = Cardinality({a}) + 1
            BY <2>5, <3>1, FS_AddElement
      <3> QED BY <2>5, <3>2
    <2>7. Cardinality(({a} \cup {b}) \cup {c}) = 3
      <3>1. c \notin {a} \cup {b} BY <2>2
      <3>2. Cardinality(({a} \cup {b}) \cup {c}) = Cardinality({a} \cup {b}) + 1
            BY <2>6, <3>1, FS_AddElement
      <3> QED BY <2>6, <3>2
    <2>8. {a, b, c} = ({a} \cup {b}) \cup {c} OBVIOUS
    <2>9. Cardinality(CallsFor(p)) \in Nat BY <2>1, FS_CardinalityType
    <2> QED BY <1>1, <2>4, <2>7, <2>8, <2>9
  <1>2. ASSUME Inv, NEW p \in Processes, Cardinality(CallsFor(p)) <= 2
        PROVE  Cardinality(Injecting(p)) <= 1 /\ \A c \in CallsFor(p) : call[c].verdict # "broken"
    <2>1. ~Crowded(p) BY <1>1, <1>2
    <2>2. Turns /\ TypeInv /\ Owned BY <1>2 DEF Inv
    <2>3. \A c \in CallsFor(p) : c \in Calls /\ call[c].target = p /\ call[c].pc # "idle"
          BY <2>2, NullIsNone DEF CallsFor, TypeInv, CallTyped
    <2>4. \A c \in CallsFor(p) : call[c].verdict # "broken"
          BY <2>1, <2>2, <2>3, UseTurn
    <2>5. ASSUME NEW c \in Injecting(p), NEW d \in Injecting(p) PROVE c = d
      <3>1. /\ c \in CallsFor(p) /\ call[c].pc \in Within
            /\ d \in CallsFor(p) /\ call[d].pc \in Within
            BY DEF Injecting, CallPcs, Within
      <3>2. /\ ThreadLock[call[c].wait] = c /\ ThreadLock[call[d].wait] = d
            /\ call[c].wait = call[d].wait
            BY <2>1, <2>2, <2>3, <3>1, UseTurn DEF Waiting, Within
      <3> QED BY <3>2
    <2>6. CASE Injecting(p) = {} BY <2>4, <2>6, FS_EmptySet
    <2>7. CASE Injecting(p) # {}
      <3>1. PICK c \in Injecting(p) : Injecting(p) = {c} BY <2>5, <2>7
      <3>2. Cardinality({c}) = 1 BY FS_Singleton
      <3> QED BY <2>4, <3>1, <3>2
    <2> QED BY <2>4, <2>6, <2>7
  <1>3. Inv => TwoTakeTurns BY <1>2 DEF TwoTakeTurns
  <1> QED BY <1>3, InvHolds, PTL

\* A call that nobody else makes for its process is answered by its own loader, whatever the
\* calls for other processes do, and its EndInjection works.
THEOREM OwnLoaderAnswers == Spec => []AloneIsAnswered
  <1>1. ASSUME Inv, NEW c \in Calls, CallsFor(call[c].target) = {c}
        PROVE  /\ call[c].verdict = "success" => loader[c].pc = "over" /\ loader[c].good
               /\ call[c].verdict = "error" => ~loader[c].good
               /\ call[c].verdict # "broken"
    <2>1. Alone(c) BY <1>1 DEF CallsFor, Alone
    <2>2. ~Crowded(call[c].target) BY <2>1 DEF Crowded, Alone
    <2>3. LoaderTells(c) /\ Turns /\ TypeInv BY <1>1 DEF Inv, Told
    <2>4. CASE call[c].pc = "idle" BY <2>3, <2>4 DEF LoaderTells, Preparing
    <2>5. CASE call[c].pc # "idle"
          BY <2>1, <2>2, <2>3, <2>5, UseTurn DEF LoaderTells
    <2> QED BY <2>4, <2>5
  <1>2. Inv => AloneIsAnswered BY <1>1 DEF AloneIsAnswered
  <1> QED BY <1>2, InvHolds, PTL

=============================================================================
