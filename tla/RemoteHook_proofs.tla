-------------------------- MODULE RemoteHook_proofs --------------------------
(***************************************************************************)
(* What the two parts of EasyHookDll/RemoteHook promise, for instances of  *)
(* any size.                                                               *)
(*                                                                         *)
(* RemoteInjection (first half): memory, handles and result of an          *)
(* injection.  The injector prepares the page, the signal and REMOTE_INFO  *)
(* before anybody can start the remote thread (NotBegun, HandedOver); from *)
(* then on only that thread touches them, and each of its steps needs what *)
(* an earlier one left (PageInUse, DllInUse, SignalInUse).  A thread       *)
(* started by the stub begins at a time of its own, even after the         *)
(* injector gave up: so what it needs is tied to the hijacking that has    *)
(* begun, not to where the injector is.                                    *)
(*                                                                         *)
(* TestFuncHooks (second half): the call, the relocation of an entry point *)
(* and the redirections it follows.  The results fit the array counted     *)
(* before while the module stayed as it was (RoomIsLeft).  The relocation  *)
(* is described by Relocating: it stands where an instruction of the       *)
(* program begins, or behind its prefix 67 (Underway); what is moved are   *)
(* the instructions before that place (MovedUpTo), each with its meaning   *)
(* (MeaningKept).  What a redirection is followed to is in every chain of  *)
(* the name it began with (Followed).                                      *)
(***************************************************************************)
EXTENDS RemoteInjection, TestFuncHooks, SequenceTheorems, FiniteSetTheorems, TLAPS

HostPcs == {"idle", "select", "capture", "events", "write", "redirect", "resume", "wait",
            "import", "outro", "done"}

Codes == {"own", "stub", "signal", "pause", "restore"}

Contexts == [work : Nat, code : Codes, handle : {NULL, "sync", "thread"}, call : Nat]

HostRecord == [pc : HostPcs, call : Nat, status : {"none", "failed", "success"}, hijacked : Threads \cup {NULL},
               suspended : BOOLEAN, active : BOOLEAN, unseen : SUBSET Threads, local : Contexts]

StealthTypes ==
  /\ host \in HostRecord
  /\ present \subseteq Threads
  /\ code \in [Threads -> Codes]
  /\ work \in [Threads -> Nat]
  /\ remote \in [Threads -> Contexts]

InjectorPcs == {"idle", "open", "thunk", "thunkWait", "code", "signal", "info", "thread",
                "stealth", "wait", "outro", "terminate", "done"}

ThreadPcs == {"none", "load", "find", "complete", "managed", "library", "raise", "drop", "run",
              "close", "free", "protect", "release", "exit", "exited"}

Exits == {"none", "success", "easyhook", "entry", "completion", "release", "stack", "killed"}

Outcomes == {"none", "injected", "not started", "stealth failed", "no EasyHook library",
             "no internal entry point", "library not released", "completion failed",
             "success without event", "unknown"}

InjectorRecord == [pc : InjectorPcs, create : BOOLEAN, managed : BOOLEAN, stealth : BOOLEAN,
                   outcome : Outcomes, holds : BOOLEAN, reopened : BOOLEAN]

ThreadRecord == [pc : ThreadPcs, exit : Exits, loader : {"none", "Load", "Main"}]

InjectionTypes == injector \in InjectorRecord /\ thread \in ThreadRecord

\* Before the first call of RhCreateStealthRemoteThread no thread is hijacked and nothing is made.
NothingHijacked ==
  At("idle") => made = {} /\ \A t \in Threads : code[t] = "own"

\* Nobody has begun to start the remote thread while the injector prepares for it.
Preparing == {"idle", "open", "thunk", "thunkWait", "code", "signal", "info", "thread"}

NotBegun ==
  injector.pc \in Preparing => At("idle") /\ thread.pc = "none"

\* Everything is prepared before the remote thread can begin.
HandedOver ==
  /\ In("info") => remoteSignal = "open"
  /\ thread.pc = "none" /\ (In("thread") \/ In("stealth") \/ ~ At("idle")) =>
       page = "ready" /\ info /\ remoteSignal = "open"

PageInUse ==
  thread.pc \notin {"none", "exit", "exited"} => page = "ready"

DllInUse ==
  /\ thread.pc \in {"none", "load"} => easyHook = 0
  /\ thread.pc \in {"find", "complete", "managed", "library", "raise", "drop", "run", "close", "free"} =>
       easyHook = 1

SignalInUse ==
  /\ thread.pc \in {"load", "find", "complete", "managed", "library", "raise", "drop"} =>
       info /\ remoteSignal = "open"
  /\ thread.pc \in {"run", "close"} /\ info => remoteSignal = "open"

\* Where the remote thread has not come to the user library yet.
BeforeLibrary == {"none", "load", "find", "complete", "managed", "library"}

\* The way of loading is the caller's choice, and what it stands for is done before the signal.
LoadedFirst ==
  /\ injector.managed => thread.pc # "library"
  /\ ~injector.managed => thread.pc # "managed" /\ thread.loader = "none"
  /\ thread.pc \in BeforeLibrary => thread.loader = "none" /\ ~signal
  /\ signal \/ thread.pc \in {"raise", "drop", "run"} =>
       /\ ~injector.managed => userLibrary \in {"loaded", "entered"}
       /\ thread.loader = "Main" => userLibrary \in {"connected", "entered"}
  /\ injector.outcome = "injected" => signal

InUse == PageInUse /\ DllInUse /\ SignalInUse

Inv == StealthTypes /\ InjectionTypes /\ NothingHijacked /\ NotBegun /\ HandedOver /\ InUse /\ LoadedFirst

----------------------------------------------------------------------------
(* The hijacked threads and the call that hijacks them. *)

\* Steps of the call keep the types, and are taken only after it began.
LEMMA HostStepTypes ==
  ASSUME StealthTypes, HostStep
  PROVE  StealthTypes' /\ ~ At("idle") /\ ~ At("idle")'
<1> USE DEF StealthTypes, HostRecord, HostPcs, Contexts, Codes, At, target
<1>1. CASE SelectLast
  <2>1. UNCHANGED target /\ ~ At("idle")
    BY <1>1 DEF SelectLast
  <2>2. \/ host' = [host EXCEPT !.pc = "outro", !.status = "failed"]
        \/ host' = [host EXCEPT !.pc = "capture", !.active = FALSE]
    BY <1>1 DEF SelectLast
  <2> QED
    BY ZenonT(60), <2>1, <2>2
<1>2. CASE Capture
  <2>1. host.hijacked \in Threads
    BY <1>2 DEF Capture, Reaches
  <2>2. PICK c \in Contexts : host' = [host EXCEPT !.pc = "events", !.local = c]
    <3>1. Captured(host.hijacked) \in Nat
      BY <2>1, BoundsAreNaturals DEF Captured, Lost
    <3>2. [work |-> Captured(host.hijacked), code |-> code[host.hijacked], handle |-> NULL, call |-> host.call] \in Contexts
      BY <3>1, <2>1
    <3> QED
      BY <1>2, <3>2 DEF Capture
  <2>3. UNCHANGED target /\ ~ At("idle")
    BY <1>2 DEF Capture, Reaches
  <2> QED
    BY <2>2, <2>3
<1>3. CASE MakeEvents
  BY <1>3 DEF MakeEvents, Reaches
<1>4. CASE WriteStub
  BY <1>4 DEF WriteStub, Reaches
<1>5. CASE Redirect
  BY <1>5 DEF Redirect, Reaches
<1>6. CASE ResumeHijacked
  BY <1>6 DEF ResumeHijacked
<1>7. CASE WaitForSync
  BY <1>7 DEF WaitForSync, Reaches
<1>8. CASE ImportThread
  BY <1>8 DEF ImportThread, Reaches
<1>9. CASE StealthFails
  BY <1>9 DEF StealthFails
<1>10. CASE Outro
  BY <1>10 DEF Outro
<1>11. ASSUME NEW t \in Threads, CannotOpen(t) \/ CannotSuspend(t) \/ SelectSuspended(t) \/ SelectActive(t)
       PROVE  StealthTypes' /\ ~ At("idle") /\ ~ At("idle")'
  <2>1. \/ host' = [host EXCEPT !.unseen = @ \ {t}, !.hijacked = NULL]
        \/ host' = [host EXCEPT !.unseen = @ \ {t}, !.hijacked = t]
        \/ host' = [host EXCEPT !.pc = "capture", !.hijacked = t, !.suspended = TRUE]
    BY <1>11 DEF CannotOpen, CannotSuspend, SelectSuspended, SelectActive
  <2>2. UNCHANGED <<present, code, work, remote>> /\ ~ At("idle")
    BY <1>11 DEF CannotOpen, CannotSuspend, SelectSuspended, SelectActive
  <2>3. host.unseen \ {t} \in SUBSET Threads
    OBVIOUS
  <2>4. host' \in HostRecord /\ ~ At("idle")'
    <3>1. CASE host' = [host EXCEPT !.unseen = @ \ {t}, !.hijacked = NULL]
      BY <3>1, <2>2, <2>3
    <3>2. CASE host' = [host EXCEPT !.unseen = @ \ {t}, !.hijacked = t]
      BY <3>2, <2>2, <2>3
    <3>3. CASE host' = [host EXCEPT !.pc = "capture", !.hijacked = t, !.suspended = TRUE]
      BY <3>3
    <3> QED
      BY <2>1, <3>1, <3>2, <3>3
  <2> QED
    BY <2>2, <2>4
<1> QED
  BY <1>1, <1>2, <1>3, <1>4, <1>5, <1>6, <1>7, <1>8, <1>9, <1>10, <1>11 DEF HostStep

\* Steps of the threads keep the types; without a hijacked thread they change nothing that matters.
LEMMA TargetStepTypes ==
  ASSUME StealthTypes, NothingHijacked, TargetStep \/ \E t \in Threads : OtherResumes(t)
  PROVE  StealthTypes' /\ NothingHijacked' /\ UNCHANGED host
<1> USE DEF StealthTypes, NothingHijacked, HostRecord, Contexts, Codes, At, Runs
<1>1. ASSUME NEW t \in Threads, Work(t)
      PROVE  StealthTypes' /\ NothingHijacked' /\ UNCHANGED host
  BY <1>1 DEF Work
<1>2. ASSUME NEW t \in Threads, StubCreatesThread(t)
      PROVE  StealthTypes' /\ NothingHijacked' /\ UNCHANGED host
  BY <1>2 DEF StubCreatesThread
<1>3. ASSUME NEW t \in Threads, StubSignals(t) \/ StubCloses(t)
      PROVE  StealthTypes' /\ NothingHijacked' /\ UNCHANGED host
  BY <1>3 DEF StubSignals, StubCloses
<1>4. ASSUME NEW t \in Threads, StubRestores(t)
      PROVE  StealthTypes' /\ NothingHijacked' /\ UNCHANGED host
  BY <1>4 DEF StubRestores
<1>5. ASSUME NEW t \in Threads, OtherResumes(t)
      PROVE  StealthTypes' /\ NothingHijacked' /\ UNCHANGED host
  BY <1>5 DEF OtherResumes
<1> QED
  BY <1>1, <1>2, <1>3, <1>4, <1>5 DEF TargetStep, StubStep

----------------------------------------------------------------------------
(* The inductive invariant. *)

\* It holds before the first call.
LEMMA InitInv == Init => Inv
<1> SUFFICES ASSUME Init PROVE Inv
  OBVIOUS
<1>1. StealthTypes
  BY DEF Init, StealthInit, IdleHost, NoContext, StealthTypes, HostRecord, HostPcs, Contexts, Codes
<1>2. InjectionTypes /\ NothingHijacked /\ NotBegun
  BY DEF Init, StealthInit, IdleHost, InjectionTypes, InjectorRecord, ThreadRecord, InjectorPcs,
         ThreadPcs, Exits, Outcomes, NothingHijacked, NotBegun, At
<1>3. HandedOver /\ InUse /\ LoadedFirst
  BY DEF Init, StealthInit, IdleHost, HandedOver, InUse, PageInUse, DllInUse, SignalInUse, LoadedFirst, At, In
<1> QED
  BY <1>1, <1>2, <1>3 DEF Inv

----------------------------------------------------------------------------
(* What a step does to the records of the injector and of the remote thread. *)

LEMMA InjectorGoes ==
  ASSUME InjectionTypes, NEW p \in InjectorPcs, Goto(p)
  PROVE  /\ injector' \in InjectorRecord /\ injector'.pc = p /\ injector'.outcome = injector.outcome
         /\ injector'.managed = injector.managed
  BY DEF InjectionTypes, InjectorRecord, Goto

LEMMA InjectorEnds ==
  ASSUME InjectionTypes, NEW outcome \in Outcomes, Ends(outcome)
  PROVE  /\ injector' \in InjectorRecord /\ injector'.pc = "outro" /\ injector'.outcome = outcome
         /\ injector'.managed = injector.managed
  BY DEF InjectionTypes, InjectorRecord, InjectorPcs, Ends

LEMMA ThreadGoes ==
  ASSUME InjectionTypes, NEW p \in ThreadPcs, ThreadGoto(p)
  PROVE  thread' \in ThreadRecord /\ thread'.pc = p /\ thread'.loader = thread.loader
  BY DEF InjectionTypes, ThreadRecord, ThreadGoto

LEMMA ThreadGivesUp ==
  ASSUME InjectionTypes, NEW p \in ThreadPcs, NEW exit \in Exits, ThreadFails(p, exit)
  PROVE  thread' \in ThreadRecord /\ thread'.pc = p /\ thread'.loader = thread.loader
  BY DEF InjectionTypes, ThreadRecord, ThreadFails

\* What was diagnosed is never success.
LEMMA DiagnosisIsFailure ==
  ASSUME NEW exit \in Exits
  PROVE  Diagnosis(exit) \in Outcomes \ {"injected"}
  BY DEF Diagnosis, Exits, Outcomes

----------------------------------------------------------------------------
(* What a step of each kind must show to keep the invariant. *)

targetCode == <<host, code, work, remote, made>>

LEMMA StealthKept ==
  ASSUME Inv, UNCHANGED targetCode, present' \subseteq Threads
  PROVE  StealthTypes' /\ NothingHijacked'
  BY DEF Inv, targetCode, StealthTypes, NothingHijacked, At

\* The injector prepares: the remote thread does not exist.
LEMMA PreparingInv ==
  ASSUME Inv, injector.pc \in Preparing, injector' \in InjectorRecord,
         injector'.outcome \in {injector.outcome, "not started"}, injector'.pc # "stealth",
         UNCHANGED <<thread, easyHook, userLibrary, signal>>,
         UNCHANGED targetCode, present' \subseteq Threads,
         injector'.pc = "info" => remoteSignal' = "open",
         injector'.pc = "thread" => page' = "ready" /\ info' /\ remoteSignal' = "open"
  PROVE  Inv'
<1>1. StealthTypes' /\ NothingHijacked'
  BY StealthKept
<1>2. thread.pc = "none" /\ At("idle") /\ thread'.pc = "none" /\ At("idle")'
  BY DEF Inv, NotBegun, targetCode, At
<1>3. InjectionTypes' /\ NotBegun'
  BY <1>2 DEF Inv, InjectionTypes, NotBegun
<1>4. HandedOver'
  BY <1>2 DEF HandedOver, In
<1>5. InUse'
  BY <1>2 DEF Inv, InUse, PageInUse, DllInUse, SignalInUse
<1>6. LoadedFirst'
  BY <1>2 DEF Inv, LoadedFirst, BeforeLibrary
<1> QED
  BY <1>1, <1>3, <1>4, <1>5, <1>6 DEF Inv

\* The injector waits for the remote thread, or gives it up: only the injector moves.
LEMMA WaitingInv ==
  ASSUME Inv, injector' \in InjectorRecord,
         UNCHANGED <<targetCode, present, remoteVars>>,
         injector.pc \notin Preparing, injector'.pc \notin Preparing \cup {"stealth"},
         injector'.managed = injector.managed,
         injector'.outcome = "injected" => signal
  PROVE  Inv'
<1>1. StealthTypes' /\ NothingHijacked'
  BY StealthKept DEF Inv, StealthTypes
<1>2. UNCHANGED <<host, page, signal, remoteSignal, info, thread, easyHook, userLibrary>>
  BY DEF targetCode, remoteVars
<1>3. InjectionTypes' /\ NotBegun'
  BY <1>2 DEF Inv, InjectionTypes, NotBegun
<1>4. HandedOver'
  BY <1>2 DEF Inv, HandedOver, In, At, Preparing
<1>5. InUse'
  BY <1>2 DEF Inv, InUse, PageInUse, DllInUse, SignalInUse
<1>6. LoadedFirst'
  BY <1>2 DEF Inv, LoadedFirst
<1> QED
  BY <1>1, <1>3, <1>4, <1>5, <1>6 DEF Inv

\* The target ends, and the remote thread with it if somebody created it.
LEMMA EndInv ==
  ASSUME Inv, UNCHANGED <<targetCode, page, signal, remoteSignal, info, easyHook, userLibrary>>,
         present' \subseteq Threads, thread' \in ThreadRecord,
         thread'.loader = thread.loader,
         \/ thread'.pc = thread.pc
         \/ ~ (thread.pc = "none" /\ made = {}) /\ thread'.pc = "exited",
         injector' \in InjectorRecord, injector'.outcome = injector.outcome,
         injector'.managed = injector.managed,
         injector'.pc = injector.pc \/ injector'.pc = "done"
  PROVE  Inv'
<1>1. StealthTypes' /\ NothingHijacked'
  BY StealthKept
<1>2. UNCHANGED host
  BY DEF targetCode
<1>3. InjectionTypes' /\ NotBegun'
  BY <1>2 DEF Inv, InjectionTypes, NothingHijacked, NotBegun, Preparing, At
<1>4. HandedOver'
  BY <1>2 DEF Inv, HandedOver, In, At
<1>5. InUse'
  BY DEF Inv, InUse, PageInUse, DllInUse, SignalInUse
<1>6. LoadedFirst'
  BY DEF Inv, LoadedFirst, BeforeLibrary
<1> QED
  BY <1>1, <1>3, <1>4, <1>5, <1>6 DEF Inv

\* The remote thread takes a step after its first: nothing is prepared any more.
LEMMA RemoteInv ==
  ASSUME Inv, UNCHANGED targetRest, thread.pc # "none",
         thread' \in ThreadRecord, thread'.pc # "none", InUse', LoadedFirst'
  PROVE  Inv'
<1>1. UNCHANGED <<injector, targetCode, present, host>>
  BY DEF targetRest, stealthVars, targetCode
<1>2. StealthTypes' /\ NothingHijacked'
  BY <1>1, StealthKept DEF Inv, StealthTypes
<1>3. InjectionTypes' /\ NotBegun'
  BY <1>1 DEF Inv, InjectionTypes, NotBegun
<1>4. HandedOver'
  BY <1>1 DEF Inv, HandedOver, NotBegun, Preparing, In
<1> QED
  BY <1>2, <1>3, <1>4 DEF Inv

----------------------------------------------------------------------------
(* The injecting process. *)

\* It is called, prepares, or fails in doing so.
LEMMA PreparationInv ==
  ASSUME Inv,
         \/ \E managed, stealth \in BOOLEAN : InjectLibrary(managed, stealth) \/ CreateAndInject(managed, stealth)
         \/ OpenTarget \/ ForceLdrInitializeThunk \/ AwaitThunk \/ WriteCode \/ ExportSignal
         \/ WriteInfo \/ InjectionFails
  PROVE  Inv'
<1>0. InjectionTypes /\ present \subseteq Threads
  BY DEF Inv, StealthTypes
<1> USE DEF stealthVars, remoteVars, targetCode, In, Preparing
<1>1. ASSUME NEW managed \in BOOLEAN, NEW stealth \in BOOLEAN, InjectLibrary(managed, stealth)
      PROVE  Inv'
  <2>1. injector' \in InjectorRecord /\ injector'.pc = "open" /\ injector'.outcome = injector.outcome
    BY <1>0, <1>1 DEF InjectLibrary, InjectionTypes, InjectorRecord, InjectorPcs
  <2> QED
    BY <1>0, <1>1, <2>1, PreparingInv DEF InjectLibrary
<1>2. ASSUME NEW managed \in BOOLEAN, NEW stealth \in BOOLEAN, CreateAndInject(managed, stealth)
      PROVE  Inv'
  <2>1. injector' \in InjectorRecord /\ injector'.pc = "open" /\ injector'.outcome = injector.outcome
    BY <1>0, <1>2 DEF CreateAndInject, InjectionTypes, InjectorRecord, InjectorPcs
  <2>2. present' \subseteq Threads
    BY <1>2, MainIsAThread DEF CreateAndInject
  <2> QED
    BY <1>2, <2>1, <2>2, PreparingInv DEF CreateAndInject
<1>3. CASE OpenTarget
  <2>1. injector' \in InjectorRecord /\ injector'.pc = "thunk" /\ injector'.outcome = injector.outcome
    BY <1>0, <1>3, InjectorGoes DEF OpenTarget, InjectorPcs
  <2> QED
    BY <1>0, <1>3, <2>1, PreparingInv DEF OpenTarget
<1>4. CASE ForceLdrInitializeThunk
  <2>1. injector' \in InjectorRecord /\ injector'.pc = "thunkWait" /\ injector'.outcome = injector.outcome
    BY <1>0, <1>4, InjectorGoes DEF ForceLdrInitializeThunk, InjectorPcs
  <2> QED
    BY <1>0, <1>4, <2>1, PreparingInv DEF ForceLdrInitializeThunk
<1>5. CASE AwaitThunk
  <2>1. injector' \in InjectorRecord /\ injector'.pc = "code" /\ injector'.outcome = injector.outcome
    BY <1>0, <1>5, InjectorGoes DEF AwaitThunk, InjectorPcs
  <2> QED
    BY <1>0, <1>5, <2>1, PreparingInv DEF AwaitThunk
<1>6. CASE WriteCode
  <2>1. injector' \in InjectorRecord /\ injector'.pc = "signal" /\ injector'.outcome = injector.outcome
    BY <1>0, <1>6, InjectorGoes DEF WriteCode, InjectorPcs
  <2> QED
    BY <1>0, <1>6, <2>1, PreparingInv DEF WriteCode
<1>7. CASE ExportSignal
  <2>1. injector' \in InjectorRecord /\ injector'.pc = "info" /\ injector'.outcome = injector.outcome
    BY <1>0, <1>7, InjectorGoes DEF ExportSignal, InjectorPcs
  <2> QED
    BY <1>0, <1>7, <2>1, PreparingInv DEF ExportSignal
<1>8. CASE WriteInfo
  <2>1. injector' \in InjectorRecord /\ injector'.pc = "thread" /\ injector'.outcome = injector.outcome
    BY <1>0, <1>8, InjectorGoes DEF WriteInfo, InjectorPcs
  <2>2. page' = "ready" /\ info' /\ remoteSignal' = "open"
    BY <1>8 DEF Inv, HandedOver, WriteInfo
  <2> QED
    BY <1>0, <1>8, <2>1, <2>2, PreparingInv DEF WriteInfo
<1>9. CASE InjectionFails
  <2>1. injector' \in InjectorRecord /\ injector'.pc = "outro" /\ injector'.outcome = "not started"
    BY <1>0, <1>9, InjectorEnds DEF InjectionFails, Outcomes
  <2> QED
    BY <1>0, <1>9, <2>1, PreparingInv DEF InjectionFails
<1> QED
  BY <1>1, <1>2, <1>3, <1>4, <1>5, <1>6, <1>7, <1>8, <1>9

\* It creates the remote thread itself: everything the thread needs was handed over.
LEMMA CreateThreadInv ==
  ASSUME Inv, CreateThread
  PROVE  Inv'
<1>1. /\ In("thread") /\ thread.pc = "none" /\ At("idle")
      /\ page = "ready" /\ info /\ remoteSignal = "open"
  BY DEF Inv, CreateThread, NotBegun, Preparing, HandedOver, In
<1>2. UNCHANGED <<targetCode, present, host, page, signal, remoteSignal, info, easyHook, userLibrary>>
  BY DEF CreateThread, stealthVars, targetCode
<1>3. StealthTypes' /\ NothingHijacked'
  BY <1>2, StealthKept DEF Inv, StealthTypes
<1>4. /\ injector' \in InjectorRecord /\ injector'.pc = "wait" /\ injector'.outcome = injector.outcome
      /\ injector'.managed = injector.managed
  BY DEF Inv, InjectionTypes, InjectorRecord, InjectorPcs, CreateThread
<1>5. thread' \in ThreadRecord /\ thread'.pc = "load" /\ thread'.loader = thread.loader
  BY DEF Inv, InjectionTypes, ThreadRecord, ThreadPcs, CreateThread
<1>6. InjectionTypes' /\ NotBegun' /\ HandedOver'
  BY <1>4, <1>5 DEF InjectionTypes, NotBegun, Preparing, HandedOver, In
<1>7. InUse'
  BY <1>1, <1>2, <1>5 DEF Inv, InUse, PageInUse, DllInUse, SignalInUse
<1>8. LoadedFirst'
  BY <1>1, <1>2, <1>4, <1>5 DEF Inv, LoadedFirst, BeforeLibrary, CreateThread
<1> QED
  BY <1>3, <1>6, <1>7, <1>8 DEF Inv

\* It has a hijacked thread create it.
LEMMA CallStealthInv ==
  ASSUME Inv, CallStealth
  PROVE  Inv'
<1>1. /\ In("thread") /\ thread.pc = "none" /\ At("idle")
      /\ page = "ready" /\ info /\ remoteSignal = "open"
  BY DEF Inv, CallStealth, NotBegun, Preparing, HandedOver, In
<1>2. UNCHANGED <<present, code, work, remote, page, signal, remoteSignal, info, thread, easyHook, userLibrary>>
  BY DEF CallStealth, Snapshot, target, remoteVars
<1>3. host' \in HostRecord /\ host'.pc = "select"
  <2>1. host' = [pc |-> "select", call |-> host.call + 1, status |-> "none", hijacked |-> NULL,
                 suspended |-> FALSE, active |-> TRUE, unseen |-> present, local |-> NoContext]
    BY DEF CallStealth, Snapshot, IdleHost
  <2>2. NoContext \in Contexts
    BY DEF NoContext, Contexts, Codes
  <2>3. host.call + 1 \in Nat /\ present \in SUBSET Threads
    BY DEF Inv, StealthTypes, HostRecord
  <2> QED
    BY <2>1, <2>2, <2>3 DEF HostRecord, HostPcs
<1>4. StealthTypes' /\ NothingHijacked'
  BY <1>2, <1>3 DEF Inv, StealthTypes, NothingHijacked, At
<1>5. /\ injector' \in InjectorRecord /\ injector'.pc = "stealth" /\ injector'.outcome = injector.outcome
      /\ injector'.managed = injector.managed
  BY InjectorGoes DEF Inv, CallStealth, InjectorPcs
<1>6. InjectionTypes' /\ NotBegun' /\ HandedOver'
  BY <1>1, <1>2, <1>5 DEF Inv, InjectionTypes, NotBegun, Preparing, HandedOver, In
<1>7. InUse'
  BY <1>2 DEF Inv, InUse, PageInUse, DllInUse, SignalInUse
<1>8. LoadedFirst'
  BY <1>2, <1>5 DEF Inv, LoadedFirst
<1> QED
  BY <1>4, <1>6, <1>7, <1>8 DEF Inv

LEMMA StealthStepInv ==
  ASSUME Inv, StealthStep
  PROVE  Inv'
<1>1. StealthTypes' /\ ~ At("idle") /\ ~ At("idle")'
  BY HostStepTypes DEF Inv, StealthStep
<1>2. UNCHANGED <<injector, page, signal, remoteSignal, info, thread, easyHook, userLibrary>>
  BY DEF StealthStep, remoteVars
<1>3. InjectionTypes' /\ NotBegun' /\ NothingHijacked'
  BY <1>1, <1>2 DEF Inv, InjectionTypes, NotBegun, NothingHijacked
<1>4. HandedOver'
  BY <1>1, <1>2 DEF Inv, HandedOver, In
<1>5. InUse'
  BY <1>2 DEF Inv, InUse, PageInUse, DllInUse, SignalInUse
<1>6. LoadedFirst'
  BY <1>2 DEF Inv, LoadedFirst
<1> QED
  BY <1>1, <1>3, <1>4, <1>5, <1>6 DEF Inv

\* It learns what became of the remote thread.
LEMMA AnswerInv ==
  ASSUME Inv, StealthReturns \/ AwaitThread \/ AwaitSignal
  PROVE  Inv'
<1>1. InjectionTypes /\ injector.outcome = "injected" => signal
  BY DEF Inv, LoadedFirst
<1>2. UNCHANGED <<targetCode, present, remoteVars>> /\ injector.pc \notin Preparing
  BY DEF StealthReturns, AwaitThread, AwaitSignal, stealthVars, targetCode, Preparing, In
<1>3. /\ injector' \in InjectorRecord /\ injector'.pc \in {"wait", "outro"}
      /\ injector'.managed = injector.managed /\ (injector'.outcome = "injected" => signal)
  <2>1. CASE StealthReturns /\ host.status = "success"
    <3>1. injector' = [injector EXCEPT !.pc = "wait", !.holds = TRUE]
      BY <2>1 DEF StealthReturns
    <3> QED
      BY <3>1 DEF Inv, InjectionTypes, LoadedFirst, InjectorRecord, InjectorPcs
  <2>2. CASE StealthReturns /\ host.status # "success"
    BY <2>2, InjectorEnds DEF Inv, StealthReturns, Outcomes
  <2>3. CASE AwaitThread
    <3>1. thread.exit \in Exits
      BY DEF Inv, InjectionTypes, ThreadRecord
    <3> QED
      BY <2>3, <3>1, InjectorEnds, DiagnosisIsFailure DEF Inv, AwaitThread
  <2>4. CASE AwaitSignal
    BY <2>4, InjectorEnds DEF Inv, AwaitSignal, Outcomes
  <2> QED
    BY <2>1, <2>2, <2>3, <2>4
<1> QED
  BY <1>2, <1>3, WaitingInv DEF Preparing

\* It returns, or turns to the process it created ...
LEMMA OutroInv ==
  ASSUME Inv, InjectorOutro \/ CannotReopen \/ TerminateOther
  PROVE  Inv'
<1>1. /\ injector' \in InjectorRecord /\ injector'.pc \in {"terminate", "done"}
      /\ injector'.outcome = injector.outcome /\ injector'.managed = injector.managed
  <2>1. CASE InjectorOutro
    <3>1. PICK p \in {"terminate", "done"} : Goto(p)
      BY <2>1 DEF InjectorOutro
    <3> QED
      BY <3>1, InjectorGoes DEF Inv, InjectorPcs
  <2>2. CASE CannotReopen
    BY <2>2 DEF Inv, CannotReopen, InjectionTypes, InjectorRecord, InjectorPcs
  <2>3. CASE TerminateOther
    BY <2>3, InjectorGoes DEF Inv, TerminateOther, InjectorPcs
  <2> QED
    BY <2>1, <2>2, <2>3
<1>2. UNCHANGED <<targetCode, present, remoteVars>> /\ injector.pc \notin Preparing
  BY DEF InjectorOutro, CannotReopen, TerminateOther, stealthVars, targetCode, Preparing, In
<1>3. injector'.outcome = "injected" => signal
  BY <1>1 DEF Inv, LoadedFirst
<1> QED
  BY <1>1, <1>2, <1>3, WaitingInv DEF Preparing

\* The end of a process is the end of its remote thread.
LEMMA ThreadsEndInv ==
  ASSUME Inv, NEW exit \in Exits, ThreadsEnd(exit),
         UNCHANGED <<targetCode, page, signal, remoteSignal, info, easyHook, userLibrary>>,
         injector' \in InjectorRecord, injector'.outcome = injector.outcome,
         injector'.managed = injector.managed,
         injector'.pc = injector.pc \/ injector'.pc = "done"
  PROVE  Inv'
<1>1. present' \subseteq Threads
  BY DEF ThreadsEnd
<1>2. /\ thread' \in ThreadRecord /\ thread'.loader = thread.loader
      /\ \/ thread'.pc = thread.pc
         \/ ~ (thread.pc = "none" /\ made = {}) /\ thread'.pc = "exited"
  BY DEF Inv, InjectionTypes, ThreadRecord, ThreadPcs, ThreadsEnd
<1> QED
  BY <1>1, <1>2, EndInv

\* ... and terminates it; or the target ends by itself.
LEMMA TerminateCreatedInv ==
  ASSUME Inv, TerminateCreated
  PROVE  Inv'
<1>1. /\ injector' \in InjectorRecord /\ injector'.pc = "done"
      /\ injector'.outcome = injector.outcome /\ injector'.managed = injector.managed
  BY InjectorGoes DEF Inv, TerminateCreated, InjectorPcs
<1>2. UNCHANGED <<targetCode, page, signal, remoteSignal, info, easyHook, userLibrary>>
  BY DEF TerminateCreated, targetKept, targetCode
<1> QED
  BY <1>1, <1>2, ThreadsEndInv DEF TerminateCreated, Exits

LEMMA TargetDiesInv ==
  ASSUME Inv, TargetDies
  PROVE  Inv'
<1>1. UNCHANGED <<targetCode, injector, page, signal, remoteSignal, info, easyHook, userLibrary>>
  BY DEF TargetDies, targetCode
<1> QED
  BY <1>1, ThreadsEndInv DEF Inv, InjectionTypes, TargetDies, Exits

----------------------------------------------------------------------------
(* The remote thread. *)

\* One that a stub creates begins with what was handed over before the first hijacking.
LEMMA StubThreadBeginsInv ==
  ASSUME Inv, StubThreadBegins
  PROVE  Inv'
<1>1. ~ At("idle") /\ thread.pc = "none"
  BY DEF Inv, NothingHijacked, StubThreadBegins, Thread
<1>2. page = "ready" /\ info /\ remoteSignal = "open"
  BY <1>1 DEF Inv, HandedOver
<1>3. UNCHANGED <<injector, targetCode, present, host, page, signal, remoteSignal, info, easyHook, userLibrary>>
  BY DEF StubThreadBegins, targetRest, stealthVars, targetCode
<1>4. StealthTypes' /\ NothingHijacked'
  BY <1>3, StealthKept DEF Inv, StealthTypes
<1>5. thread' \in ThreadRecord /\ thread'.pc = "load" /\ thread'.loader = thread.loader
  BY ThreadGoes DEF Inv, StubThreadBegins, ThreadPcs
<1>6. InjectionTypes' /\ NotBegun'
  BY <1>1, <1>3, <1>5 DEF Inv, InjectionTypes, NotBegun
<1>7. HandedOver'
  BY <1>1, <1>3, <1>5 DEF Inv, NotBegun, Preparing, HandedOver, In
<1>8. InUse'
  BY <1>1, <1>2, <1>3, <1>5 DEF Inv, InUse, PageInUse, DllInUse, SignalInUse
<1>9. LoadedFirst'
  BY <1>1, <1>3, <1>5 DEF Inv, LoadedFirst, BeforeLibrary
<1> QED
  BY <1>4, <1>6, <1>7, <1>8, <1>9 DEF Inv

\* EasyHook's DLL is loaded, used and released ...
LEMMA LibraryStepsInv ==
  ASSUME Inv, LoadEasyHook \/ FindEntry \/ CompleteInjection \/ FreeEasyHook
  PROVE  Inv'
<1>1. CASE LoadEasyHook
  <2>1. /\ thread.pc = "load" /\ UNCHANGED targetRest
        /\ UNCHANGED <<injector, page, signal, remoteSignal, info, userLibrary>>
    BY <1>1 DEF LoadEasyHook, Thread, targetRest
  <2>2. /\ thread' \in ThreadRecord /\ thread'.loader = thread.loader
        /\ \/ thread'.pc = "find" /\ easyHook' = easyHook + 1
           \/ thread'.pc = "protect" /\ UNCHANGED easyHook
    BY <1>1, ThreadGoes, ThreadGivesUp DEF Inv, LoadEasyHook, ThreadPcs, Exits
  <2>3. InUse'
    BY <2>1, <2>2 DEF Inv, InUse, PageInUse, DllInUse, SignalInUse
  <2>4. LoadedFirst'
    BY <2>1, <2>2 DEF Inv, LoadedFirst, BeforeLibrary
  <2> QED
    BY <2>1, <2>2, <2>3, <2>4, RemoteInv
<1>2. CASE FindEntry
  <2>1. /\ thread.pc = "find" /\ UNCHANGED targetRest
        /\ UNCHANGED <<injector, page, signal, remoteSignal, info, easyHook, userLibrary>>
    BY <1>2 DEF FindEntry, Thread, targetRest
  <2>2. /\ thread' \in ThreadRecord /\ thread'.loader = thread.loader
        /\ thread'.pc \in {"complete", "protect"}
    BY <1>2, ThreadGoes, ThreadGivesUp DEF Inv, FindEntry, ThreadPcs, Exits
  <2>3. InUse'
    BY <2>1, <2>2 DEF Inv, InUse, PageInUse, DllInUse, SignalInUse
  <2>4. LoadedFirst'
    BY <2>1, <2>2 DEF Inv, LoadedFirst, BeforeLibrary
  <2> QED
    BY <2>1, <2>2, <2>3, <2>4, RemoteInv
<1>3. CASE CompleteInjection
  <2>1. /\ thread.pc = "complete" /\ UNCHANGED targetRest
        /\ UNCHANGED <<injector, page, signal, remoteSignal, info, easyHook, userLibrary>>
    BY <1>3 DEF CompleteInjection, Thread, targetRest
  <2>2. /\ thread' \in ThreadRecord /\ thread'.loader = thread.loader
        /\ thread'.pc \in {IF injector.managed THEN "managed" ELSE "library", "close"}
    BY <1>3, ThreadGoes, ThreadGivesUp DEF Inv, CompleteInjection, ThreadPcs, Exits
  <2>3. InUse'
    BY <2>1, <2>2 DEF Inv, InUse, PageInUse, DllInUse, SignalInUse
  <2>4. LoadedFirst'
    BY <2>1, <2>2 DEF Inv, LoadedFirst, BeforeLibrary
  <2> QED
    BY <2>1, <2>2, <2>3, <2>4, RemoteInv
<1>4. CASE FreeEasyHook
  <2>1. /\ thread.pc = "free" /\ UNCHANGED targetRest
        /\ UNCHANGED <<injector, page, signal, remoteSignal, info, userLibrary>>
    BY <1>4 DEF FreeEasyHook, Thread, targetRest
  <2>2. /\ thread' \in ThreadRecord /\ thread'.loader = thread.loader
        /\ thread'.pc = "protect"
    BY <1>4, ThreadGoes, ThreadGivesUp DEF Inv, FreeEasyHook, ThreadPcs, Exits
  <2>3. InUse'
    BY <2>1, <2>2 DEF Inv, InUse, PageInUse, DllInUse, SignalInUse
  <2>4. LoadedFirst'
    BY <2>1, <2>2 DEF Inv, LoadedFirst, BeforeLibrary
  <2> QED
    BY <2>1, <2>2, <2>3, <2>4, RemoteInv
<1> QED
  BY <1>1, <1>2, <1>3, <1>4

\* ... the user library is loaded, or its loader connected, before the signal is raised ...
LEMMA UserLibraryInv ==
  ASSUME Inv,
         \/ LoadUserLibrary \/ FirstLoad \/ FirstMain \/ RaiseSignal \/ DropSignal
         \/ EnterUserLibrary \/ SecondCallFails \/ UserCodeReturns
  PROVE  Inv'
<1>1. CASE LoadUserLibrary
  <2>1. /\ thread.pc = "library" /\ UNCHANGED targetRest
        /\ UNCHANGED <<injector, page, signal, remoteSignal, info, easyHook>>
    BY <1>1 DEF LoadUserLibrary, Thread, targetRest
  <2>2. /\ thread' \in ThreadRecord /\ thread'.loader = thread.loader
        /\ \/ thread'.pc = "raise" /\ userLibrary' = "loaded"
           \/ thread'.pc = "close"
    BY <1>1, ThreadGoes, ThreadGivesUp DEF Inv, LoadUserLibrary, ThreadPcs, Exits
  <2>3. InUse'
    BY <2>1, <2>2 DEF Inv, InUse, PageInUse, DllInUse, SignalInUse
  <2>4. LoadedFirst'
    BY <2>1, <2>2 DEF Inv, LoadedFirst, BeforeLibrary
  <2> QED
    BY <2>1, <2>2, <2>3, <2>4, RemoteInv
<1>2. CASE FirstLoad \/ FirstMain
  <2>1. /\ thread.pc = "managed" /\ UNCHANGED targetRest
        /\ UNCHANGED <<injector, page, signal, remoteSignal, info, easyHook>>
    BY <1>2 DEF FirstLoad, FirstMain, Thread, targetRest
  <2>2. /\ thread' \in ThreadRecord
        /\ \/ thread'.pc = "raise" /\ thread'.loader = "Load"
           \/ thread'.pc = "raise" /\ thread'.loader = "Main" /\ userLibrary' = "connected"
           \/ thread'.pc = "close" /\ thread'.loader = thread.loader
    <3>1. CASE \E l \in {"Load", "Main"} : thread' = [thread EXCEPT !.pc = "raise", !.loader = l]
      BY <1>2, <3>1 DEF Inv, InjectionTypes, ThreadRecord, ThreadPcs, FirstLoad, FirstMain, ThreadFails
    <3>2. CASE \E exit \in {"completion", "success"} : ThreadFails("close", exit)
      BY <3>2, ThreadGivesUp DEF Inv, ThreadPcs, Exits
    <3> QED
      BY <1>2, <3>1, <3>2 DEF FirstLoad, FirstMain
  <2>3. InUse'
    BY <2>1, <2>2 DEF Inv, InUse, PageInUse, DllInUse, SignalInUse
  <2>4. LoadedFirst'
    BY <2>1, <2>2 DEF Inv, LoadedFirst, BeforeLibrary
  <2> QED
    BY <2>1, <2>2, <2>3, <2>4, RemoteInv
<1>3. CASE RaiseSignal
  <2>1. /\ thread.pc = "raise" /\ UNCHANGED targetRest
        /\ UNCHANGED <<injector, page, remoteSignal, info, easyHook, userLibrary>>
    BY <1>3 DEF RaiseSignal, Thread, targetRest
  <2>2. /\ thread' \in ThreadRecord /\ thread'.loader = thread.loader
        /\ \/ thread'.pc \in {"drop", "run"} /\ signal'
           \/ thread'.pc = "close" /\ UNCHANGED signal
    BY <1>3, ThreadGoes, ThreadGivesUp DEF Inv, RaiseSignal, ThreadPcs, Exits
  <2>3. InUse'
    BY <2>1, <2>2 DEF Inv, InUse, PageInUse, DllInUse, SignalInUse
  <2>4. LoadedFirst'
    BY <2>1, <2>2 DEF Inv, LoadedFirst, BeforeLibrary
  <2> QED
    BY <2>1, <2>2, <2>3, <2>4, RemoteInv
<1>4. CASE DropSignal
  <2>1. /\ thread.pc = "drop" /\ UNCHANGED targetRest
        /\ UNCHANGED <<injector, page, signal, easyHook, userLibrary>>
    BY <1>4 DEF DropSignal, Thread, targetRest
  <2>2. /\ thread' \in ThreadRecord /\ thread'.loader = thread.loader
        /\ thread'.pc = "run" /\ ~ info'
    BY <1>4, ThreadGoes, ThreadGivesUp DEF Inv, DropSignal, ThreadPcs, Exits
  <2>3. InUse'
    BY <2>1, <2>2 DEF Inv, InUse, PageInUse, DllInUse, SignalInUse
  <2>4. LoadedFirst'
    BY <2>1, <2>2 DEF Inv, LoadedFirst, BeforeLibrary
  <2> QED
    BY <2>1, <2>2, <2>3, <2>4, RemoteInv
<1>5. CASE EnterUserLibrary
  <2>1. /\ thread.pc = "run" /\ UNCHANGED targetRest
        /\ UNCHANGED <<injector, page, signal, remoteSignal, info, easyHook>>
    BY <1>5 DEF EnterUserLibrary, Thread, targetRest
  <2>2. /\ thread' \in ThreadRecord /\ thread'.loader = thread.loader
        /\ thread'.pc = "run" /\ userLibrary' = "entered"
    BY <1>5, ThreadGoes, ThreadGivesUp DEF Inv, EnterUserLibrary, ThreadPcs, Exits, Thread, InjectionTypes
  <2>3. InUse'
    BY <2>1, <2>2 DEF Inv, InUse, PageInUse, DllInUse, SignalInUse
  <2>4. LoadedFirst'
    BY <2>1, <2>2 DEF Inv, LoadedFirst, BeforeLibrary
  <2> QED
    BY <2>1, <2>2, <2>3, <2>4, RemoteInv
<1>6. CASE UserCodeReturns
  <2>1. /\ thread.pc = "run" /\ UNCHANGED targetRest
        /\ UNCHANGED <<injector, page, signal, remoteSignal, info, easyHook, userLibrary>>
    BY <1>6 DEF UserCodeReturns, Thread, targetRest
  <2>2. /\ thread' \in ThreadRecord /\ thread'.loader = thread.loader
        /\ thread'.pc = "close"
    BY <1>6, ThreadGoes, ThreadGivesUp DEF Inv, UserCodeReturns, ThreadPcs, Exits
  <2>3. InUse'
    BY <2>1, <2>2 DEF Inv, InUse, PageInUse, DllInUse, SignalInUse
  <2>4. LoadedFirst'
    BY <2>1, <2>2 DEF Inv, LoadedFirst, BeforeLibrary
  <2> QED
    BY <2>1, <2>2, <2>3, <2>4, RemoteInv
<1>7. CASE SecondCallFails
  <2>1. /\ thread.pc = "run" /\ UNCHANGED targetRest
        /\ UNCHANGED <<injector, page, signal, remoteSignal, info, easyHook>>
        /\ userLibrary \in {"connected", "refused"} /\ userLibrary' \in {userLibrary, "connected"}
    BY <1>7 DEF SecondCallFails, Thread, targetRest
  <2>2. /\ thread' \in ThreadRecord /\ thread'.loader = thread.loader
        /\ thread'.pc = "close"
    BY <1>7, ThreadGivesUp DEF Inv, SecondCallFails, ThreadPcs, Exits
  <2>3. InUse'
    BY <2>1, <2>2 DEF Inv, InUse, PageInUse, DllInUse, SignalInUse
  <2>4. LoadedFirst'
    BY <2>1, <2>2 DEF Inv, LoadedFirst, BeforeLibrary
  <2> QED
    BY <2>1, <2>2, <2>3, <2>4, RemoteInv
<1> QED
  BY <1>1, <1>2, <1>3, <1>4, <1>5, <1>6, <1>7

\* ... the signal is closed, and the page released from the stack.
LEMMA ThreadEndsInv ==
  ASSUME Inv, CloseSignal \/ MakeStackExecutable \/ ReleasePage \/ ExitThread
  PROVE  Inv'
<1>1. CASE CloseSignal
  <2>1. /\ thread.pc = "close" /\ UNCHANGED targetRest
        /\ UNCHANGED <<injector, page, signal, info, easyHook, userLibrary>>
    BY <1>1 DEF CloseSignal, Thread, targetRest
  <2>2. /\ thread' \in ThreadRecord /\ thread'.loader = thread.loader
        /\ thread'.pc = "free"
    BY <1>1, ThreadGoes, ThreadGivesUp DEF Inv, CloseSignal, ThreadPcs, Exits
  <2>3. InUse'
    BY <2>1, <2>2 DEF Inv, InUse, PageInUse, DllInUse, SignalInUse
  <2>4. LoadedFirst'
    BY <2>1, <2>2 DEF Inv, LoadedFirst, BeforeLibrary
  <2> QED
    BY <2>1, <2>2, <2>3, <2>4, RemoteInv
<1>2. CASE MakeStackExecutable
  <2>1. /\ thread.pc = "protect" /\ UNCHANGED targetRest
        /\ UNCHANGED <<injector, page, signal, remoteSignal, info, easyHook, userLibrary>>
    BY <1>2 DEF MakeStackExecutable, Thread, targetRest
  <2>2. /\ thread' \in ThreadRecord /\ thread'.loader = thread.loader
        /\ thread'.pc \in {"release", "exited"}
    BY <1>2, ThreadGoes, ThreadGivesUp DEF Inv, MakeStackExecutable, ThreadPcs, Exits
  <2>3. InUse'
    BY <2>1, <2>2 DEF Inv, InUse, PageInUse, DllInUse, SignalInUse
  <2>4. LoadedFirst'
    BY <2>1, <2>2 DEF Inv, LoadedFirst, BeforeLibrary
  <2> QED
    BY <2>1, <2>2, <2>3, <2>4, RemoteInv
<1>3. CASE ReleasePage
  <2>1. /\ thread.pc = "release" /\ UNCHANGED targetRest
        /\ UNCHANGED <<injector, signal, remoteSignal, info, easyHook, userLibrary>>
    BY <1>3 DEF ReleasePage, Thread, targetRest
  <2>2. /\ thread' \in ThreadRecord /\ thread'.loader = thread.loader
        /\ thread'.pc = "exit"
    BY <1>3, ThreadGoes, ThreadGivesUp DEF Inv, ReleasePage, ThreadPcs, Exits
  <2>3. InUse'
    BY <2>1, <2>2 DEF Inv, InUse, PageInUse, DllInUse, SignalInUse
  <2>4. LoadedFirst'
    BY <2>1, <2>2 DEF Inv, LoadedFirst, BeforeLibrary
  <2> QED
    BY <2>1, <2>2, <2>3, <2>4, RemoteInv
<1>4. CASE ExitThread
  <2>1. /\ thread.pc = "exit" /\ UNCHANGED targetRest
        /\ UNCHANGED <<injector, page, signal, remoteSignal, info, easyHook, userLibrary>>
    BY <1>4 DEF ExitThread, Thread, targetRest
  <2>2. /\ thread' \in ThreadRecord /\ thread'.loader = thread.loader
        /\ thread'.pc = "exited"
    BY <1>4, ThreadGoes, ThreadGivesUp DEF Inv, ExitThread, ThreadPcs, Exits
  <2>3. InUse'
    BY <2>1, <2>2 DEF Inv, InUse, PageInUse, DllInUse, SignalInUse
  <2>4. LoadedFirst'
    BY <2>1, <2>2 DEF Inv, LoadedFirst, BeforeLibrary
  <2> QED
    BY <2>1, <2>2, <2>3, <2>4, RemoteInv
<1> QED
  BY <1>1, <1>2, <1>3, <1>4

----------------------------------------------------------------------------
(* The other threads of the target. *)

LEMMA HijackedInv ==
  ASSUME Inv, Hijacked
  PROVE  Inv'
<1>1. StealthTypes' /\ NothingHijacked' /\ UNCHANGED host
  BY TargetStepTypes DEF Inv, Hijacked
<1>2. UNCHANGED <<injector, page, signal, remoteSignal, info, thread, easyHook, userLibrary>>
  BY DEF Hijacked, remoteVars
<1>3. InjectionTypes' /\ NotBegun' /\ HandedOver'
  BY <1>1, <1>2 DEF Inv, InjectionTypes, NotBegun, HandedOver, In, At
<1>4. InUse'
  BY <1>2 DEF Inv, InUse, PageInUse, DllInUse, SignalInUse
<1>5. LoadedFirst'
  BY <1>2 DEF Inv, LoadedFirst
<1> QED
  BY <1>1, <1>3, <1>4, <1>5 DEF Inv

\* Suspend counts, the loader's thread and what was woken are not part of the invariant.
LEMMA ApartInv ==
  ASSUME Inv, WakeUpProcess \/ ThunkEnds \/ UNCHANGED vars
  PROVE  Inv'
<1>1. UNCHANGED <<targetCode, present, host, injector, page, signal, remoteSignal, info, thread, easyHook, userLibrary>>
  BY DEF WakeUpProcess, ThunkEnds, vars, stealthVars, remoteVars, targetCode
<1>2. StealthTypes' /\ NothingHijacked'
  BY <1>1, StealthKept DEF Inv, StealthTypes
<1>3. InjectionTypes' /\ NotBegun' /\ HandedOver'
  BY <1>1 DEF Inv, InjectionTypes, NotBegun, HandedOver, In, At
<1>4. InUse'
  BY <1>1 DEF Inv, InUse, PageInUse, DllInUse, SignalInUse
<1>5. LoadedFirst'
  BY <1>1 DEF Inv, LoadedFirst
<1> QED
  BY <1>2, <1>3, <1>4, <1>5 DEF Inv

----------------------------------------------------------------------------
(* The hijacked thread. *)

Early == {"idle", "select", "capture", "events", "write", "redirect"}

\* Only the thread that was taken executes the stub, once it was redirected.
StubOfHijacked ==
  /\ \A t \in Threads : code[t] # "own" => host.pc \notin Early /\ t = host.hijacked
  /\ host.pc \in Early => made = {} /\ events = {}
  /\ host.pc \in Early \ {"idle"} => thread.pc = "none"
  /\ host.pc \in {"capture", "events", "write", "redirect", "resume", "wait", "import"} =>
       host.hijacked \in Threads
  /\ host.pc \in {"events", "write"} => host.local.call = host.call
  /\ At("write") => host.local.handle = "sync"
  /\ At("redirect") => remote[host.hijacked].call = host.call

\* The stub can signal, but not go on, before the call sets the event for it: what it stored in
\* the context block is there, and the handle is open.
StubWaits ==
  host.pc \in {"resume", "wait", "import"} =>
    /\ <<host.call, "completion">> \notin events
    /\ remote[host.hijacked].call = host.call
    /\ code[host.hijacked] \in {"own", "stub", "signal", "pause"}
    /\ <<host.call, "sync">> \in events => code[host.hijacked] = "pause"
    /\ code[host.hijacked] \in {"signal", "pause"} /\ remote[host.hijacked].handle # NULL =>
         remote[host.hijacked].handle = "thread" /\ <<host.call, "thread">> \in handles
    /\ At("import") => /\ code[host.hijacked] = "pause" /\ host.local.handle = "thread"
                       /\ <<host.call, "thread">> \in handles

\* Who is suspended by this call stays so until the call resumes it; until then there is no
\* remote thread that could.
Held ==
  /\ suspend \in [Threads -> Nat]
  /\ host.suspended =>
       /\ host.pc \in {"capture", "events", "write", "redirect", "resume", "outro"}
       /\ host.hijacked \in Threads
       /\ suspend[host.hijacked] > 0
       /\ made = {} /\ thread.pc = "none"

\* Of an active thread the captured context is where it is, until it executes its own code again.
Kept ==
  host.active =>
    /\ host.pc \in {"capture", "events", "write", "redirect", "resume"} => host.suspended
    /\ host.pc \in {"events", "write"} =>
         host.local.work = work[host.hijacked] /\ host.local.code = "own"
    /\ host.pc \in {"redirect", "resume"} =>
         remote[host.hijacked].work = work[host.hijacked] /\ remote[host.hijacked].code = "own"
    /\ \A t \in Threads : code[t] # "own" => remote[t].work = work[t] /\ remote[t].code = "own"

StealthInv == StubOfHijacked /\ StubWaits /\ Held /\ Kept

\* Nothing is hijacked, captured or suspended before the first call.
LEMMA InitStealth == Init => StealthInv
<1> SUFFICES ASSUME Init PROVE StealthInv
  OBVIOUS
<1>1. StubOfHijacked /\ StubWaits
  BY DEF Init, StealthInit, IdleHost, NoContext, StubOfHijacked, StubWaits, Early, At
<1>2. Held
  BY BoundsAreNaturals DEF Init, StealthInit, IdleHost, Held
<1>3. Kept
  BY DEF Init, StealthInit, IdleHost, Kept
<1> QED
  BY <1>1, <1>2, <1>3 DEF StealthInv

\* ResumeThread changes the count of one thread.
LEMMA ResumedCounts ==
  ASSUME suspend \in [Threads -> Nat], NEW t, Resumed(t)
  PROVE  suspend' \in [Threads -> Nat] /\ \A u \in Threads \ {t} : suspend'[u] = suspend[u]
<1>1. suspend' = [u \in Threads |-> IF u = t THEN (IF suspend[u] > 0 THEN suspend[u] - 1 ELSE 0) ELSE suspend[u]]
  BY DEF Resumed
<1> QED
  BY <1>1

\* The call itself: it suspends before it looks, and looks again only after the stub signalled.
LEMMA HostStepStealth ==
  ASSUME Inv, StealthInv, HostStep, UNCHANGED thread
  PROVE  StealthInv'
<1>1. CASE SelectLast
  <2>1. /\ host.pc = "select" /\ host'.suspended = host.suspended /\ host'.hijacked = host.hijacked
        /\ \/ host'.pc = "outro"
           \/ host'.pc = "capture" /\ host'.hijacked \in Threads /\ ~ host'.active
        /\ UNCHANGED <<suspend, code, work, remote, events, handles, made>>
    BY <1>1, NullIsNoThread DEF Inv, StealthTypes, HostRecord, SelectLast, At, target
  <2>2. StubOfHijacked'
    BY <2>1 DEF Inv, StealthTypes, HostRecord, StealthInv, StubOfHijacked, StubWaits, Held, Kept, Early, At
  <2>3. StubWaits'
    BY <2>1 DEF Inv, StealthTypes, HostRecord, StealthInv, StubOfHijacked, StubWaits, Held, Kept, Early, At
  <2>4. Held'
    BY <2>1 DEF Inv, StealthTypes, HostRecord, StealthInv, StubOfHijacked, StubWaits, Held, Kept, Early, At
  <2>5. Kept'
    BY <2>1 DEF Inv, StealthTypes, HostRecord, StealthInv, StubOfHijacked, StubWaits, Held, Kept, Early, At
  <2> QED
    BY <2>2, <2>3, <2>4, <2>5 DEF StealthInv
<1>2. CASE Capture
  <2>1. /\ host.pc = "capture" /\ host'.pc = "events"
        /\ host'.call = host.call /\ host'.hijacked = host.hijacked /\ host'.active = host.active
        /\ host'.suspended = host.suspended
        /\ host'.local.call = host.call /\ host'.local.code = code[host.hijacked]
        /\ code[host.hijacked] = "own" /\ suspend[host.hijacked] > 0 => host'.local.work = work[host.hijacked]
        /\ UNCHANGED <<suspend, code, work, remote, events, handles, made>>
    BY <1>2 DEF Inv, StealthTypes, HostRecord, Capture, Captured, Reaches, At, target
  <2>2. StubOfHijacked'
    BY <2>1 DEF Inv, StealthTypes, HostRecord, StealthInv, StubOfHijacked, StubWaits, Held, Kept, Early, At
  <2>3. StubWaits'
    BY <2>1 DEF Inv, StealthTypes, HostRecord, StealthInv, StubOfHijacked, StubWaits, Held, Kept, Early, At
  <2>4. Held'
    BY <2>1 DEF Inv, StealthTypes, HostRecord, StealthInv, StubOfHijacked, StubWaits, Held, Kept, Early, At
  <2>5. Kept'
    BY <2>1 DEF Inv, StealthTypes, HostRecord, StealthInv, StubOfHijacked, StubWaits, Held, Kept, Early, At
  <2> QED
    BY <2>2, <2>3, <2>4, <2>5 DEF StealthInv
<1>3. CASE MakeEvents
  <2>1. /\ host.pc = "events" /\ host'.pc = "write"
        /\ host'.call = host.call /\ host'.hijacked = host.hijacked /\ host'.active = host.active
        /\ host'.suspended = host.suspended
        /\ host'.local.call = host.local.call /\ host'.local.code = host.local.code
        /\ host'.local.work = host.local.work /\ host'.local.handle = "sync"
        /\ UNCHANGED <<suspend, code, work, remote, events, made>>
    BY <1>3 DEF Inv, StealthTypes, HostRecord, MakeEvents, Reaches, At, Contexts
  <2>2. StubOfHijacked'
    BY <2>1 DEF Inv, StealthTypes, HostRecord, StealthInv, StubOfHijacked, StubWaits, Held, Kept, Early, At
  <2>3. StubWaits'
    BY <2>1 DEF Inv, StealthTypes, HostRecord, StealthInv, StubOfHijacked, StubWaits, Held, Kept, Early, At
  <2>4. Held'
    BY <2>1 DEF Inv, StealthTypes, HostRecord, StealthInv, StubOfHijacked, StubWaits, Held, Kept, Early, At
  <2>5. Kept'
    BY <2>1 DEF Inv, StealthTypes, HostRecord, StealthInv, StubOfHijacked, StubWaits, Held, Kept, Early, At
  <2> QED
    BY <2>2, <2>3, <2>4, <2>5 DEF StealthInv
<1>4. CASE WriteStub
  <2>1. /\ host.pc = "write" /\ host'.pc = "redirect"
        /\ host'.call = host.call /\ host'.hijacked = host.hijacked /\ host'.active = host.active
        /\ host'.suspended = host.suspended
        /\ remote'[host.hijacked] = host.local
        /\ UNCHANGED <<suspend, code, work, events, handles, made>>
    BY <1>4 DEF Inv, StealthTypes, HostRecord, WriteStub, Reaches, At, StealthInv, StubOfHijacked
  <2>2. StubOfHijacked'
    BY <2>1 DEF Inv, StealthTypes, HostRecord, StealthInv, StubOfHijacked, StubWaits, Held, Kept, Early, At
  <2>3. StubWaits'
    BY <2>1 DEF Inv, StealthTypes, HostRecord, StealthInv, StubOfHijacked, StubWaits, Held, Kept, Early, At
  <2>4. Held'
    BY <2>1 DEF Inv, StealthTypes, HostRecord, StealthInv, StubOfHijacked, StubWaits, Held, Kept, Early, At
  <2>5. Kept'
    BY <2>1 DEF Inv, StealthTypes, HostRecord, StealthInv, StubOfHijacked, StubWaits, Held, Kept, Early, At
  <2> QED
    BY <2>2, <2>3, <2>4, <2>5 DEF StealthInv
<1>5. CASE Redirect
  <2>1. /\ host.pc = "redirect" /\ host'.pc = "resume"
        /\ host'.call = host.call /\ host'.hijacked = host.hijacked /\ host'.active = host.active
        /\ host'.suspended = host.suspended
        /\ host.hijacked \in Threads
        /\ \/ code'[host.hijacked] = "stub"
           \/ suspend[host.hijacked] = 0 /\ code'[host.hijacked] = code[host.hijacked]
        /\ \A t \in Threads \ {host.hijacked} : code'[t] = code[t]
        /\ UNCHANGED <<suspend, work, remote, events, handles, made>>
    BY <1>5 DEF Inv, StealthTypes, HostRecord, Redirect, Reaches, At, StealthInv, StubOfHijacked
  <2>2. StubOfHijacked'
    BY <2>1 DEF Inv, StealthTypes, HostRecord, StealthInv, StubOfHijacked, StubWaits, Held, Kept, Early, At
  <2>3. StubWaits'
    BY <2>1 DEF Inv, StealthTypes, HostRecord, StealthInv, StubOfHijacked, StubWaits, Held, Kept, Early, At
  <2>4. Held'
    BY <2>1 DEF Inv, StealthTypes, HostRecord, StealthInv, StubOfHijacked, StubWaits, Held, Kept, Early, At
  <2>5. Kept'
    BY <2>1 DEF Inv, StealthTypes, HostRecord, StealthInv, StubOfHijacked, StubWaits, Held, Kept, Early, At
  <2> QED
    BY <2>2, <2>3, <2>4, <2>5 DEF StealthInv
<1>6. CASE ResumeHijacked
  <2>1. /\ host.pc = "resume" /\ host'.pc = "wait" /\ ~ host'.suspended
        /\ host'.call = host.call /\ host'.hijacked = host.hijacked /\ host'.active = host.active
        /\ suspend' \in [Threads -> Nat]
        /\ UNCHANGED <<code, work, remote, events, handles, made>>
    BY <1>6, ResumedCounts DEF Inv, StealthTypes, HostRecord, ResumeHijacked, At, StealthInv, Held
  <2>2. StubOfHijacked'
    BY <2>1, ResumedCounts DEF Inv, StealthTypes, HostRecord, StealthInv, StubOfHijacked, StubWaits, Held, Kept, Early, At
  <2>3. StubWaits'
    BY <2>1, ResumedCounts DEF Inv, StealthTypes, HostRecord, StealthInv, StubOfHijacked, StubWaits, Held, Kept, Early, At
  <2>4. Held'
    BY <2>1, ResumedCounts DEF Inv, StealthTypes, HostRecord, StealthInv, StubOfHijacked, StubWaits, Held, Kept, Early, At
  <2>5. Kept'
    BY <2>1, ResumedCounts DEF Inv, StealthTypes, HostRecord, StealthInv, StubOfHijacked, StubWaits, Held, Kept, Early, At
  <2> QED
    BY <2>2, <2>3, <2>4, <2>5 DEF StealthInv
<1>7. CASE WaitForSync
  <2>1. /\ host.pc = "wait" /\ <<host.call, "sync">> \in events
        /\ host'.call = host.call /\ host'.hijacked = host.hijacked /\ host'.active = host.active
        /\ host'.suspended = host.suspended
        /\ \/ host'.pc = "outro"
           \/ /\ host'.pc = "import" /\ host'.local = remote[host.hijacked]
              /\ remote[host.hijacked].handle # NULL
        /\ UNCHANGED <<suspend, code, work, remote, events, handles, made>>
    BY <1>7 DEF Inv, StealthTypes, HostRecord, WaitForSync, Reaches, At, target
  <2>2. StubOfHijacked'
    BY <2>1 DEF Inv, StealthTypes, HostRecord, StealthInv, StubOfHijacked, StubWaits, Held, Kept, Early, At
  <2>3. StubWaits'
    BY <2>1 DEF Inv, StealthTypes, HostRecord, StealthInv, StubOfHijacked, StubWaits, Held, Kept, Early, At
  <2>4. Held'
    BY <2>1 DEF Inv, StealthTypes, HostRecord, StealthInv, StubOfHijacked, StubWaits, Held, Kept, Early, At
  <2>5. Kept'
    BY <2>1 DEF Inv, StealthTypes, HostRecord, StealthInv, StubOfHijacked, StubWaits, Held, Kept, Early, At
  <2> QED
    BY <2>2, <2>3, <2>4, <2>5 DEF StealthInv
<1>8. CASE ImportThread
  <2>1. /\ host.pc = "import" /\ host'.pc = "outro"
        /\ host'.call = host.call /\ host'.hijacked = host.hijacked /\ host'.active = host.active
        /\ host'.suspended = host.suspended
        /\ UNCHANGED <<suspend, code, work, remote, events, handles, made>>
    BY <1>8 DEF Inv, StealthTypes, HostRecord, ImportThread, Reaches, At, target
  <2>2. StubOfHijacked'
    BY <2>1 DEF Inv, StealthTypes, HostRecord, StealthInv, StubOfHijacked, StubWaits, Held, Kept, Early, At
  <2>3. StubWaits'
    BY <2>1 DEF Inv, StealthTypes, HostRecord, StealthInv, StubOfHijacked, StubWaits, Held, Kept, Early, At
  <2>4. Held'
    BY <2>1 DEF Inv, StealthTypes, HostRecord, StealthInv, StubOfHijacked, StubWaits, Held, Kept, Early, At
  <2>5. Kept'
    BY <2>1 DEF Inv, StealthTypes, HostRecord, StealthInv, StubOfHijacked, StubWaits, Held, Kept, Early, At
  <2> QED
    BY <2>2, <2>3, <2>4, <2>5 DEF StealthInv
<1>9. CASE StealthFails
  <2>1. /\ host.pc # "idle" /\ host'.pc = "outro"
        /\ host.pc \in {"select", "capture", "events", "write", "redirect", "wait", "import"}
        /\ host'.call = host.call /\ host'.hijacked = host.hijacked /\ host'.active = host.active
        /\ host'.suspended = host.suspended
        /\ UNCHANGED <<suspend, code, work, remote, events, handles, made>>
    BY <1>9 DEF Inv, StealthTypes, HostRecord, StealthFails, target
  <2>2. StubOfHijacked'
    BY <2>1 DEF Inv, StealthTypes, HostRecord, StealthInv, StubOfHijacked, StubWaits, Held, Kept, Early, At
  <2>3. StubWaits'
    BY <2>1 DEF Inv, StealthTypes, HostRecord, StealthInv, StubOfHijacked, StubWaits, Held, Kept, Early, At
  <2>4. Held'
    BY <2>1 DEF Inv, StealthTypes, HostRecord, StealthInv, StubOfHijacked, StubWaits, Held, Kept, Early, At
  <2>5. Kept'
    BY <2>1 DEF Inv, StealthTypes, HostRecord, StealthInv, StubOfHijacked, StubWaits, Held, Kept, Early, At
  <2> QED
    BY <2>2, <2>3, <2>4, <2>5 DEF StealthInv
<1>10. CASE Outro
  <2>1. /\ host.pc = "outro" /\ host'.pc = "done" /\ ~ host'.suspended
        /\ host'.call = host.call /\ host'.hijacked = host.hijacked /\ host'.active = host.active
        /\ suspend' \in [Threads -> Nat]
        /\ UNCHANGED <<code, work, remote, handles, made>>
    BY <1>10 DEF Inv, StealthTypes, HostRecord, Outro, Resumed, At, StealthInv, Held
  <2>2. StubOfHijacked'
    BY <2>1 DEF Inv, StealthTypes, HostRecord, StealthInv, StubOfHijacked, StubWaits, Held, Kept, Early, At
  <2>3. StubWaits'
    BY <2>1 DEF Inv, StealthTypes, HostRecord, StealthInv, StubOfHijacked, StubWaits, Held, Kept, Early, At
  <2>4. Held'
    BY <2>1 DEF Inv, StealthTypes, HostRecord, StealthInv, StubOfHijacked, StubWaits, Held, Kept, Early, At
  <2>5. Kept'
    BY <2>1 DEF Inv, StealthTypes, HostRecord, StealthInv, StubOfHijacked, StubWaits, Held, Kept, Early, At
  <2> QED
    BY <2>2, <2>3, <2>4, <2>5 DEF StealthInv
<1>11. ASSUME NEW t \in Threads, CannotOpen(t) \/ CannotSuspend(t) \/ SelectSuspended(t)
       PROVE  StealthInv'
  <2>1. /\ host.pc = "select" /\ host'.pc = "select" /\ host'.suspended = host.suspended
        /\ UNCHANGED <<suspend, code, work, remote, events, handles, made>>
    BY <1>11 DEF Inv, StealthTypes, HostRecord, CannotOpen, CannotSuspend, SelectSuspended, At, target
  <2>2. StubOfHijacked' /\ StubWaits' /\ Held'
    BY <2>1 DEF StealthInv, StubOfHijacked, Held, StubWaits, Early, At
  <2>3. Kept'
    BY <2>1 DEF StealthInv, StubOfHijacked, Kept, Early
  <2> QED
    BY <2>2, <2>3 DEF StealthInv
<1>12. ASSUME NEW t \in Threads, SelectActive(t)
       PROVE  StealthInv'
  <2>1. /\ host.pc = "select" /\ host'.pc = "capture" /\ host'.suspended /\ host'.hijacked = t
        /\ suspend' = [suspend EXCEPT ![t] = 1]
        /\ UNCHANGED <<code, work, remote, events, handles, made>>
    BY <1>12 DEF Inv, StealthTypes, HostRecord, SelectActive, At
  <2>2. suspend' \in [Threads -> Nat] /\ suspend'[t] > 0
    BY <2>1 DEF StealthInv, Held
  <2>3. StubOfHijacked' /\ StubWaits'
    BY <2>1 DEF StealthInv, StubOfHijacked, StubWaits, Early, At
  <2>4. Held'
    BY <2>1, <2>2 DEF StealthInv, StubOfHijacked, Held, Early
  <2>5. Kept'
    BY <2>1 DEF StealthInv, StubOfHijacked, Kept, Early
  <2> QED
    BY <2>3, <2>4, <2>5 DEF StealthInv
<1> QED
  BY <1>1, <1>2, <1>3, <1>4, <1>5, <1>6, <1>7, <1>8, <1>9, <1>10, <1>11, <1>12 DEF HostStep

\* The threads of the target: a thread that executes the stub is the one that was taken and is
\* not suspended any more.
LEMMA TargetStepStealth ==
  ASSUME Inv, StealthInv, TargetStep \/ \E t \in Threads : OtherResumes(t), UNCHANGED thread
  PROVE  StealthInv'
<1>1. ASSUME NEW t \in Threads, Work(t)
      PROVE  StealthInv'
  <2>1. /\ code[t] = "own" /\ suspend[t] = 0
        /\ \A u \in Threads \ {t} : work'[u] = work[u]
        /\ UNCHANGED <<host, suspend, code, remote, events, handles, made>>
    BY <1>1 DEF Inv, StealthTypes, Work, Runs
  <2>2. StubOfHijacked' /\ StubWaits' /\ Held'
    BY <2>1 DEF StealthInv, StubOfHijacked, StubWaits, Held, At
  <2>3. host.active /\ host.pc \in {"events", "write", "redirect", "resume"} =>
          host.hijacked \in Threads \ {t}
    BY <2>1 DEF StealthInv, Held, Kept
  <2>4. Kept'
    BY <2>1, <2>3 DEF StealthInv, Kept
  <2> QED
    BY <2>2, <2>4 DEF StealthInv
<1>2. ASSUME NEW t \in Threads, code[t] # "own", suspend[t] = 0
      PROVE  /\ host.pc \notin Early /\ ~ host.suspended /\ t = host.hijacked
             /\ host.pc \notin {"capture", "events", "write", "redirect"}
             /\ host.active => host.pc # "resume" /\ remote[t].work = work[t] /\ remote[t].code = "own"
  BY <1>2 DEF StealthInv, StubOfHijacked, Held, Kept, Early
<1>3. ASSUME NEW t \in Threads, StubCreatesThread(t)
      PROVE  StealthInv'
  <2>1. /\ code[t] = "stub" /\ suspend[t] = 0
        /\ code' = [code EXCEPT ![t] = "signal"]
        /\ \/ /\ remote' = [remote EXCEPT ![t].handle = "thread"]
              /\ handles' = handles \cup {<<remote[t].call, "thread">>}
           \/ remote' = [remote EXCEPT ![t].handle = NULL] /\ handles' = handles
        /\ UNCHANGED <<host, suspend, work, events>>
    BY <1>3 DEF StubCreatesThread, Runs
  <2>2. /\ remote'[t].call = remote[t].call /\ remote'[t].work = remote[t].work
        /\ remote'[t].code = remote[t].code
        /\ remote'[t].handle # NULL =>
             remote'[t].handle = "thread" /\ <<remote[t].call, "thread">> \in handles'
        /\ \A u \in Threads \ {t} : remote'[u] = remote[u]
    BY <2>1 DEF Inv, StealthTypes, Contexts
  <2>3. /\ code'[t] = "signal" /\ \A u \in Threads \ {t} : code'[u] = code[u]
    BY <2>1 DEF Inv, StealthTypes
  <2>4. StubOfHijacked'
    BY <2>1, <2>3, <1>2 DEF StealthInv, StubOfHijacked, Early, At
  <2>5. StubWaits'
    BY <2>1, <2>2, <2>3, <1>2 DEF StealthInv, StubWaits, At
  <2>6. Held'
    BY <2>1, <1>2 DEF StealthInv, Held
  <2>7. Kept'
    BY <2>1, <2>2, <2>3, <1>2 DEF StealthInv, Kept
  <2> QED
    BY <2>4, <2>5, <2>6, <2>7 DEF StealthInv
<1>4. ASSUME NEW t \in Threads, StubSignals(t)
      PROVE  StealthInv'
  <2>1. /\ code[t] = "signal" /\ suspend[t] = 0
        /\ code' = [code EXCEPT ![t] = "pause"]
        /\ events' = events \cup {<<remote[t].call, "sync">>}
        /\ UNCHANGED <<host, suspend, work, remote, handles, made>>
    BY <1>4 DEF StubSignals, Runs
  <2>2. /\ code'[t] = "pause" /\ \A u \in Threads \ {t} : code'[u] = code[u]
    BY <2>1 DEF Inv, StealthTypes
  <2>3. StubOfHijacked'
    BY <2>1, <2>2, <1>2 DEF StealthInv, StubOfHijacked, Early, At
  <2>4. StubWaits'
    BY <2>1, <2>2, <1>2 DEF StealthInv, StubWaits, At
  <2>5. Held' /\ Kept'
    BY <2>1, <2>2, <1>2 DEF StealthInv, Held, Kept
  <2> QED
    BY <2>3, <2>4, <2>5 DEF StealthInv
<1>5. ASSUME NEW t \in Threads, StubCloses(t)
      PROVE  StealthInv'
  <2>1. /\ code[t] = "pause" /\ suspend[t] = 0 /\ <<remote[t].call, "completion">> \in events
        /\ code' = [code EXCEPT ![t] = "restore"]
        /\ UNCHANGED <<host, suspend, work, remote, events, made>>
    BY <1>5 DEF StubCloses, Runs
  <2>2. /\ code'[t] = "restore" /\ \A u \in Threads \ {t} : code'[u] = code[u]
    BY <2>1 DEF Inv, StealthTypes
  <2>3. host.pc \notin {"resume", "wait", "import"}
    BY <2>1, <1>2 DEF StealthInv, StubWaits
  <2>4. StubOfHijacked' /\ StubWaits'
    BY <2>1, <2>2, <2>3, <1>2 DEF StealthInv, StubOfHijacked, StubWaits, Early, At
  <2>5. Held' /\ Kept'
    BY <2>1, <2>2, <1>2 DEF StealthInv, Held, Kept
  <2> QED
    BY <2>4, <2>5 DEF StealthInv
<1>6. ASSUME NEW t \in Threads, StubRestores(t)
      PROVE  StealthInv'
  <2>1. /\ code[t] = "restore" /\ suspend[t] = 0
        /\ work' = [work EXCEPT ![t] = remote[t].work]
        /\ code' = [code EXCEPT ![t] = remote[t].code]
        /\ UNCHANGED <<host, suspend, remote, events, handles, made>>
    BY <1>6 DEF StubRestores, Runs
  <2>2. /\ work'[t] = remote[t].work /\ code'[t] = remote[t].code
        /\ \A u \in Threads \ {t} : code'[u] = code[u] /\ work'[u] = work[u]
    BY <2>1 DEF Inv, StealthTypes
  <2>3. host.pc \notin {"resume", "wait", "import"}
    BY <2>1, <1>2 DEF StealthInv, StubWaits
  <2>4. StubOfHijacked' /\ StubWaits'
    BY <2>1, <2>2, <2>3, <1>2 DEF StealthInv, StubOfHijacked, StubWaits, Early, At
  <2>5. Held' /\ Kept'
    BY <2>1, <2>2, <2>3, <1>2 DEF StealthInv, Held, Kept
  <2> QED
    BY <2>4, <2>5 DEF StealthInv
<1>7. ASSUME NEW t \in Threads, OtherResumes(t)
      PROVE  StealthInv'
  <2>1. /\ suspend' = [suspend EXCEPT ![t] = IF @ > 0 THEN @ - 1 ELSE 0]
        /\ host.suspended /\ host.hijacked = t => suspend[t] - 1 > 0
        /\ UNCHANGED <<host, code, work, remote, events, handles, made>>
    BY <1>7 DEF OtherResumes, Resumed, Foreign
  <2>2. Held'
    BY <2>1 DEF StealthInv, Held
  <2>3. StubOfHijacked' /\ StubWaits' /\ Kept'
    BY <2>1 DEF StealthInv, StubOfHijacked, StubWaits, Kept, At
  <2> QED
    BY <2>2, <2>3 DEF StealthInv
<1> QED
  BY <1>1, <1>3, <1>4, <1>5, <1>6, <1>7 DEF TargetStep, StubStep

\* A call begins with its snapshot: it is the only one, so nothing is hijacked yet.
LEMMA SnapshotStealth ==
  ASSUME Inv, StealthInv, CallStealth
  PROVE  StealthInv'
<1>1. host.pc = "idle" /\ thread.pc = "none"
  BY DEF Inv, NotBegun, Preparing, CallStealth, In, At
<1>2. /\ host'.pc = "select" /\ ~ host'.suspended
      /\ UNCHANGED <<suspend, code, work, remote, events, handles, made, thread>>
  BY DEF CallStealth, Snapshot, IdleHost, target, remoteVars
<1>3. StubOfHijacked' /\ StubWaits' /\ Held' /\ Kept'
  BY <1>1, <1>2 DEF StealthInv, StubOfHijacked, StubWaits, Held, Kept, Early, At
<1> QED
  BY <1>3 DEF StealthInv

\* Everything else leaves the hijacking alone.
LEMMA OuterStealth ==
  ASSUME StealthInv, UNCHANGED <<host, code, work, remote, events, handles, made>>,
         suspend' \in [Threads -> Nat],
         host.suspended => suspend'[host.hijacked] = suspend[host.hijacked],
         host.pc \in Early \ {"idle"} \/ host.suspended => thread'.pc = thread.pc
  PROVE  StealthInv'
<1>1. StubOfHijacked' /\ StubWaits' /\ Kept'
  BY DEF StealthInv, StubOfHijacked, StubWaits, Kept, Early, At
<1>2. Held'
  BY DEF StealthInv, Held
<1> QED
  BY <1>1, <1>2 DEF StealthInv

----------------------------------------------------------------------------
(* The theorems. *)

\* Every step keeps it.
LEMMA StepInv == Inv /\ [Next]_vars => Inv'
<1> SUFFICES ASSUME Inv, [Next]_vars PROVE Inv'
  OBVIOUS
<1>1. CASE \E managed, stealth \in BOOLEAN : InjectLibrary(managed, stealth) \/ CreateAndInject(managed, stealth)
  BY <1>1, PreparationInv
<1>2. CASE InjectorStep
  BY <1>2, PreparationInv, CreateThreadInv, CallStealthInv, StealthStepInv, AnswerInv, OutroInv,
     TerminateCreatedInv DEF InjectorStep
<1>3. CASE RemoteStep \/ UserCodeReturns
  BY <1>3, StubThreadBeginsInv, LibraryStepsInv, UserLibraryInv, ThreadEndsInv DEF RemoteStep
<1>4. CASE Hijacked
  BY <1>4, HijackedInv
<1>5. CASE TargetDies
  BY <1>5, TargetDiesInv
<1>6. CASE WakeUpProcess \/ ThunkEnds \/ UNCHANGED vars
  BY <1>6, ApartInv
<1> QED
  BY <1>1, <1>2, <1>3, <1>4, <1>5, <1>6 DEF Next

\* The invariant of the whole injection: types, what is handed over, what is in use.
THEOREM InvHolds == Spec => []Inv
<1> QED
  BY InitInv, StepInv, PTL DEF Spec

\* An injection reported as done has raised the signal, and has loaded the unmanaged library or,
\* without EasyLoad, connected its loader to the host: in direct and in stealth mode, whoever dies
\* in between (thread.c 1342-1387, entry.cpp 85-93, 204-318).
THEOREM SuccessIsLoadedAlways == Spec => []SuccessIsLoaded
<1>1. Inv => SuccessIsLoaded
  BY DEF Inv, LoadedFirst, SuccessIsLoaded
<1> QED
  BY <1>1, InvHolds, PTL

\* The remote thread never executes, reads or closes what was freed or closed, even one that
\* a stub starts after the injector gave up and closed its own handles (stealth.c 345-420).
THEOREM RemoteThreadIsSafeAlways == Spec => []RemoteThreadIsSafe
<1>1. Inv => RemoteThreadIsSafe
  BY DEF Inv, InUse, PageInUse, DllInUse, SignalInUse, RemoteThreadIsSafe
<1> QED
  BY <1>1, InvHolds, PTL

\* The injector ends a process only in the step that ends the call, after a failure.
TerminatedLast ==
  /\ NoProcessIsStranded
  /\ In("terminate") => injector.create /\ injector.outcome # "injected"
  /\ terminated # "none" => In("done")

\* Steps other than the last leave the call unfinished, and nobody else ends it or revives the target.
LEMMA TerminatedStep ==
  ASSUME InjectionTypes, TerminatedLast, [Next]_vars
  PROVE  TerminatedLast'
<1> USE DEF TerminatedLast, NoProcessIsStranded, In
<1>1. ASSUME UNCHANGED <<injector, terminated>>, alive' => alive
      PROVE  TerminatedLast'
  BY <1>1
<1>2. ASSUME injector.pc # "done", injector'.pc \notin {"terminate", "done"}, UNCHANGED terminated
      PROVE  TerminatedLast'
  BY <1>2
<1>3. CASE \E managed, stealth \in BOOLEAN : InjectLibrary(managed, stealth) \/ CreateAndInject(managed, stealth)
  <2>1. injector.pc # "done" /\ injector'.pc \notin {"terminate", "done"} /\ UNCHANGED terminated
    BY <1>3 DEF InjectionTypes, InjectorRecord, InjectLibrary, CreateAndInject
  <2> QED
    BY <2>1, <1>2
<1>4. CASE \/ OpenTarget \/ ForceLdrInitializeThunk \/ AwaitThunk \/ WriteCode \/ ExportSignal \/ WriteInfo
           \/ CallStealth
  <2>1. injector.pc # "done" /\ injector'.pc \notin {"terminate", "done"} /\ UNCHANGED terminated
    BY <1>4 DEF InjectionTypes, InjectorRecord, Goto, OpenTarget, ForceLdrInitializeThunk, AwaitThunk,
                WriteCode, ExportSignal, WriteInfo, CallStealth
  <2> QED
    BY <2>1, <1>2
<1>5. CASE StealthReturns \/ AwaitThread \/ AwaitSignal \/ InjectionFails \/ CreateThread
  <2>1. injector.pc # "done" /\ injector'.pc \notin {"terminate", "done"} /\ UNCHANGED terminated
    BY <1>5 DEF InjectionTypes, InjectorRecord, Ends, StealthReturns, AwaitThread, AwaitSignal,
                InjectionFails, CreateThread
  <2> QED
    BY <2>1, <1>2
<1>6. CASE StealthStep
  BY <1>6, <1>1 DEF StealthStep, remoteVars
<1>7. CASE InjectorOutro
  <2>1. /\ injector.pc = "outro" /\ UNCHANGED <<terminated, alive>>
        /\ injector'.outcome = injector.outcome /\ injector'.create = injector.create
        /\ injector'.pc = IF injector.create /\ injector.outcome # "injected" THEN "terminate" ELSE "done"
    BY <1>7 DEF InjectionTypes, InjectorRecord, InjectorOutro, Goto, remoteVars
  <2> QED
    BY <2>1
<1>8. CASE TerminateCreated \/ CannotReopen \/ TerminateOther
  <2>1. /\ injector.pc = "terminate" /\ injector'.pc = "done"
        /\ injector'.outcome = injector.outcome /\ injector'.create = injector.create
        /\ ~alive' \/ ~injector'.reopened
    <3>1. CASE TerminateCreated \/ TerminateOther
      <4>1. injector.pc = "terminate" /\ injector' = [injector EXCEPT !.pc = "done"]
        BY <3>1 DEF TerminateCreated, TerminateOther, Goto
      <4>2. ~alive'
        BY <3>1 DEF TerminateCreated, TerminateOther, ThreadsEnd, remoteVars
      <4> QED
        BY <4>1, <4>2 DEF InjectionTypes, InjectorRecord
    <3>2. CASE CannotReopen
      BY <3>2 DEF InjectionTypes, InjectorRecord, CannotReopen
    <3> QED
      BY <1>8, <3>1, <3>2
  <2> QED
    BY <2>1
<1>9. CASE RemoteStep \/ UserCodeReturns
  <2>1. UNCHANGED <<injector, terminated, alive>>
    BY <1>9 DEF RemoteStep, UserCodeReturns, StubThreadBegins, LoadEasyHook, FindEntry, CompleteInjection,
                LoadUserLibrary, FirstLoad, FirstMain, RaiseSignal, DropSignal, EnterUserLibrary,
                SecondCallFails, CloseSignal,
                FreeEasyHook, MakeStackExecutable, ReleasePage, ExitThread, targetRest
  <2> QED
    BY <2>1, <1>1
<1>10. CASE Hijacked \/ TargetDies \/ WakeUpProcess \/ ThunkEnds \/ UNCHANGED vars
  BY <1>10, <1>1 DEF Hijacked, TargetDies, ThreadsEnd, WakeUpProcess, ThunkEnds, vars, remoteVars
<1> QED
  BY <1>3, <1>4, <1>5, <1>6, <1>7, <1>8, <1>9, <1>10 DEF Next, InjectorStep

\* A process RhCreateAndInject created and could not inject into is gone when the call returns,
\* unless it could not be opened again; and nothing is terminated after a success, nor when the
\* caller injected into a running process (thread.c 684-699).
THEOREM NoProcessIsStrandedAlways == Spec => []NoProcessIsStranded
<1>1. Init => TerminatedLast
  BY DEF Init, TerminatedLast, NoProcessIsStranded, In
<1>2. Inv => InjectionTypes
  BY DEF Inv
<1>3. InjectionTypes /\ TerminatedLast /\ [Next]_vars => TerminatedLast'
  BY TerminatedStep
<1>4. TerminatedLast => NoProcessIsStranded
  BY DEF TerminatedLast
<1> QED
  BY <1>1, <1>2, <1>3, <1>4, InvHolds, PTL DEF Spec

----------------------------------------------------------------------------
(* What the hijacked thread is promised. *)

\* Every step keeps it.
LEMMA StealthKeeps == Inv /\ StealthInv /\ [Next]_vars => StealthInv'
<1> SUFFICES ASSUME Inv, StealthInv, [Next]_vars PROVE StealthInv'
  OBVIOUS
<1>1. suspend \in [Threads -> Nat]
  BY DEF StealthInv, Held
<1>2. ASSUME UNCHANGED stealthVars, UNCHANGED thread \/ injector.pc = "thread" \/ thread.pc # "none" \/ made # {}
      PROVE  StealthInv'
  <2>1. host.pc \in Early \ {"idle"} \/ host.suspended => UNCHANGED thread
    <3>1. injector.pc = "thread" => host.pc = "idle"
      BY DEF Inv, NotBegun, Preparing, At
    <3> QED
      BY <1>2, <3>1 DEF StealthInv, StubOfHijacked, Held, Early
  <2> QED
    BY <1>1, <1>2, <2>1, OuterStealth DEF stealthVars
<1>3. ASSUME NEW managed \in BOOLEAN, NEW stealth \in BOOLEAN, CreateAndInject(managed, stealth)
      PROVE  StealthInv'
  <2>1. ~ host.suspended /\ UNCHANGED thread
    BY <1>3 DEF Inv, NotBegun, Preparing, CreateAndInject, In, At, StealthInv, Held, remoteVars
  <2>2. suspend' \in [Threads -> Nat]
    BY <1>3 DEF CreateAndInject
  <2> QED
    BY <1>3, <2>1, <2>2, OuterStealth DEF CreateAndInject
<1>4. CASE StealthStep
  BY <1>4, HostStepStealth DEF StealthStep, remoteVars
<1>5. CASE CallStealth
  BY <1>5, SnapshotStealth
<1>6. CASE Hijacked
  BY <1>6, TargetStepStealth DEF Hijacked, remoteVars
<1>7. CASE CreateThread
  BY <1>7, <1>2 DEF CreateThread, In
<1>8. CASE \/ OpenTarget \/ ForceLdrInitializeThunk \/ AwaitThunk \/ WriteCode \/ ExportSignal \/ WriteInfo
           \/ StealthReturns \/ AwaitThread \/ AwaitSignal \/ InjectionFails
           \/ InjectorOutro \/ CannotReopen \/ TerminateOther
           \/ \E managed, stealth \in BOOLEAN : InjectLibrary(managed, stealth)
           \/ ThunkEnds \/ UNCHANGED vars
  BY <1>8, <1>2 DEF OpenTarget, ForceLdrInitializeThunk, AwaitThunk, WriteCode, ExportSignal, WriteInfo,
                    StealthReturns, AwaitThread, AwaitSignal, InjectionFails, InjectorOutro, CannotReopen,
                    TerminateOther, InjectLibrary, ThunkEnds,
                    remoteVars, vars
<1>9. CASE StubThreadBegins
  BY <1>9, <1>2 DEF StubThreadBegins, targetRest
<1>10. CASE UserCodeReturns \/ (RemoteStep /\ ~ StubThreadBegins)
  <2>1. thread.pc # "none" /\ UNCHANGED targetRest
    BY <1>10 DEF RemoteStep, UserCodeReturns, LoadEasyHook, FindEntry, CompleteInjection,
                 LoadUserLibrary, FirstLoad, FirstMain, RaiseSignal, DropSignal, EnterUserLibrary,
                SecondCallFails, CloseSignal,
                 FreeEasyHook, MakeStackExecutable, ReleasePage, ExitThread, Thread
  <2> QED
    BY <2>1, <1>2 DEF targetRest
<1>11. CASE WakeUpProcess
  <2>1. ~ host.suspended /\ UNCHANGED <<host, code, work, remote, events, handles, made, thread>>
    BY <1>11 DEF WakeUpProcess, Thread, StealthInv, Held
  <2>2. suspend' \in [Threads -> Nat]
    BY <1>1, <1>11, ResumedCounts DEF WakeUpProcess
  <2> QED
    BY <2>1, <2>2, OuterStealth
<1>12. CASE TerminateCreated \/ TargetDies
  <2>1. /\ UNCHANGED <<host, suspend, code, work, remote, events, handles, made>>
        /\ thread.pc = "none" /\ made = {} => thread' = thread
    BY <1>12 DEF TerminateCreated, TargetDies, ThreadsEnd, targetKept
  <2>2. host.pc \in Early \ {"idle"} \/ host.suspended => thread'.pc = thread.pc
    BY <2>1 DEF StealthInv, StubOfHijacked, Held
  <2> QED
    BY <1>1, <2>1, <2>2, OuterStealth
<1> QED
  BY <1>3, <1>4, <1>5, <1>6, <1>7, <1>8, <1>9, <1>10, <1>11, <1>12 DEF Next, InjectorStep

\* The invariant of the hijacking holds beside that of the injection.
THEOREM StealthInvHolds == Spec => []StealthInv
<1> QED
  BY InitStealth, StealthKeeps, InvHolds, PTL DEF Spec

\* The handle the call imports is that of the remote thread and still open in the target, whenever
\* the stub stores it and whoever else closes what: the stub signals after it stored the handle and
\* waits for the call before it closes it (stealth.c 345-363).
THEOREM ImportedHandleIsOpenAlways == Spec => []ImportedHandleIsOpen
<1>1. StealthInv => ImportedHandleIsOpen
  BY DEF StealthInv, StubWaits, ImportedHandleIsOpen, At
<1> QED
  BY <1>1, StealthInvHolds, PTL

\* Of a thread that was active when it was taken, what its integer and control registers say of
\* its progress is what it is restored from, on every path through the call, successful or not.  A
\* thread taken because it could not be suspended is not active in this sense (stealth.c 201-216,
\* 228, 332-390).
THEOREM ActiveContextIsKeptAlways == Spec => []ActiveContextIsKept
<1>1. StealthInv => ActiveContextIsKept
  BY DEF StealthInv, Kept, ActiveContextIsKept, ContextIsKept
<1> QED
  BY <1>1, StealthInvHolds, PTL


----------------------------------------------------------------------------
(* TestFuncHooks.  Numbers. *)

\* A number and its last byte.
LEMMA LastByte ==
  ASSUME NEW v \in Int
  PROVE  /\ v \div 256 \in Int /\ v % 256 \in Bytes
         /\ v = 256 * (v \div 256) + (v % 256)
  BY DEF Bytes

\* Bytes read with their sign are a number.
LEMMA SignedTypes ==
  ASSUME NEW a \in Bytes, NEW b \in Bytes, NEW c \in Bytes, NEW d \in Bytes
  PROVE  Signed8(a) \in Int /\ Signed16(a, b) \in Int /\ Signed32(a, b, c, d) \in Int
  <1>1. \A x \in Bytes : x \in Int /\ Signed8(x) \in Int
    BY DEF Bytes, Signed8
  <1>2. \A x, y \in Bytes : Signed16(x, y) \in Int
    BY <1>1 DEF Signed16
  <1> QED BY <1>1, <1>2 DEF Signed32

\* The last byte of a small number, read with its sign.
LEMMA Signed8Reads ==
  ASSUME NEW v, Is8(v)
  PROVE  v \in Int /\ LE8(v)[1] \in Bytes /\ Signed8(LE8(v)[1]) = v /\ Len(LE8(v)) = 1 /\ LE8(v) \in Seq(Bytes)
  <1>1. v \in -128..127 /\ v \in Int
    BY DEF Is8
  <1>2. v % 256 \in Bytes /\ Signed8(v % 256) = v
    BY <1>1, LastByte DEF Signed8, Bytes
  <1> QED BY <1>1, <1>2 DEF LE8

\* The four bytes of a number.
LEMMA Signed32Reads ==
  ASSUME NEW v, Is32(v)
  PROVE  LET f == LE32(v) IN
         /\ v \in Int /\ Len(f) = 4 /\ f \in Seq(Bytes)
         /\ f[1] \in Bytes /\ f[2] \in Bytes /\ f[3] \in Bytes /\ f[4] \in Bytes
         /\ Signed32(f[1], f[2], f[3], f[4]) = v
  <1> DEFINE q == v \div 256
             r == q \div 256
             s == r \div 256
             a == v % 256
             b == q % 256
             c == r % 256
             d == s % 256
  <1>1. v \in Int /\ Is8(s)
    BY DEF Is32
  <1>2. q \in Int /\ a \in Bytes /\ v = 256 * q + a
    BY <1>1, LastByte
  <1>3. r \in Int /\ b \in Bytes /\ q = 256 * r + b
    BY <1>2, LastByte
  <1>4. s \in Int /\ c \in Bytes /\ r = 256 * s + c
    BY <1>3, LastByte
  <1>5. d \in Bytes /\ Signed8(d) = s
    BY <1>1, Signed8Reads DEF LE8
  <1>6. LE32(v) = <<a, b, c, d>>
    BY DEF LE32
  <1> HIDE DEF q, r, s, a, b, c, d
  <1>7. Signed32(a, b, c, d) = v
    BY <1>2, <1>3, <1>4, <1>5 DEF Signed32, Signed16, Bytes
  <1> DEFINE f == <<a, b, c, d>>
  <1>8. Len(f) = 4 /\ f[1] = a /\ f[2] = b /\ f[3] = c /\ f[4] = d
    OBVIOUS
  <1>9. f \in Seq(Bytes)
    BY <1>2, <1>3, <1>4, <1>5
  <1>10. LE32(v) = f
    BY <1>6
  <1> HIDE DEF f
  <1>11. Signed32(f[1], f[2], f[3], f[4]) = v
    BY <1>7, <1>8
  <1>12. f[1] \in Bytes /\ f[2] \in Bytes /\ f[3] \in Bytes /\ f[4] \in Bytes
    BY <1>2, <1>3, <1>4, <1>5, <1>8
  <1>13. Len(f) = 4
    BY <1>8
  <1> QED BY <1>1, <1>9, <1>10, <1>11, <1>12, <1>13

----------------------------------------------------------------------------
(* Programs. *)

\* An instruction is not empty, and begins with its head.
LEMMA InstructionIsLong ==
  ASSUME NEW m, NEW i, IsInstruction(m, i)
  PROVE  /\ Encode(i) \in Seq(Bytes) /\ Length(i) \in Nat \ {0}
         /\ i.head \in Seq(Bytes) /\ Len(i.head) \in Nat \ {0} /\ Len(i.head) <= Length(i)
         /\ \A k \in 1..Len(i.head) : Encode(i)[k] = i.head[k]
         /\ i.kind \in Kinds /\ i.distance \in Int
         /\ i.head[1] = \h67 => Len(i.head) > 1
  BY ConcatProperties DEF IsInstruction, Length, Encode, Bytes

\* Three sequences one after the other: how long they are, and where the second one is.
LEMMA ThreeParts ==
  ASSUME NEW S, NEW x \in Seq(S), NEW y \in Seq(S), NEW z \in Seq(S)
  PROVE  /\ Len(x) \in Nat /\ Len(y) \in Nat /\ Len(z) \in Nat
         /\ Len(x \o y \o z) = Len(x) + Len(y) + Len(z)
         /\ \A k \in 1..Len(y) : (x \o y \o z)[Len(x) + k] = y[k]
         /\ z = <<>> => Len(z) = 0
  <1> DEFINE front == x \o y
  <1>1. front \in Seq(S) /\ Len(front) = Len(x) + Len(y)
    BY ConcatProperties
  <1>2. \A k \in 1..Len(y) : front[Len(x) + k] = y[k]
    BY ConcatProperties
  <1>3. Len(x) \in Nat /\ Len(y) \in Nat /\ Len(z) \in Nat
    OBVIOUS
  <1> HIDE DEF front
  <1>4. Len(front \o z) = Len(front) + Len(z)
    BY <1>1, ConcatProperties
  <1>5. \A k \in 1..Len(front) : (front \o z)[k] = front[k]
    BY <1>1, ConcatProperties
  <1>6. \A k \in 1..Len(y) : (front \o z)[Len(x) + k] = y[k]
    BY <1>1, <1>2, <1>3, <1>5
  <1> QED BY <1>1, <1>3, <1>4, <1>6 DEF front

\* The four bytes of a distance in an instruction.
LEMMA FieldInInstruction ==
  ASSUME NEW m, NEW i, IsInstruction(m, i), HasField32(i)
  PROVE  /\ Len(i.head) + 4 <= Length(i)
         /\ \A k \in 1..4 : Encode(i)[Len(i.head) + k] = i.field[k]
         /\ i.tail = <<>> => Length(i) = Len(i.head) + 4
  <1>1. i.head \in Seq(Bytes) /\ i.field \in Seq(Bytes) /\ i.tail \in Seq(Bytes)
    BY DEF IsInstruction
  <1> DEFINE f == Len(i.field)
  <1>2. f = 4
    BY Signed32Reads DEF HasField32
  <1>3. /\ Len(i.head) \in Nat /\ f \in Nat /\ Len(i.tail) \in Nat
        /\ Length(i) = Len(i.head) + f + Len(i.tail)
        /\ \A k \in 1..f : Encode(i)[Len(i.head) + k] = i.field[k]
        /\ i.tail = <<>> => Len(i.tail) = 0
    <2> DEFINE x == i.head
               y == i.field
               z == i.tail
    <2>1. x \in Seq(Bytes) /\ y \in Seq(Bytes) /\ z \in Seq(Bytes)
      BY <1>1
    <2> HIDE DEF x, y, z
    <2>2. /\ Len(x) \in Nat /\ Len(y) \in Nat /\ Len(z) \in Nat
          /\ Len(x \o y \o z) = Len(x) + Len(y) + Len(z)
          /\ \A k \in 1..Len(y) : (x \o y \o z)[Len(x) + k] = y[k]
          /\ z = <<>> => Len(z) = 0
      BY <2>1, ThreeParts
    <2> QED BY <2>2, Zenon DEF x, y, z, Length, Encode
  <1> HIDE DEF f
  <1> DEFINE h == Len(i.head)
             r == Len(i.tail)
  <1>4. h \in Nat /\ r \in Nat /\ Length(i) = h + f + r /\ (i.tail = <<>> => r = 0)
    BY <1>3, Zenon
  <1> HIDE DEF h, r
  <1>5. h + 4 <= Length(i) /\ (i.tail = <<>> => Length(i) = h + 4)
    BY <1>2, <1>4
  <1>6. \A k \in 1..4 : Encode(i)[Len(i.head) + k] = i.field[k]
    BY <1>2, <1>3, Zenon
  <1> QED BY <1>5, <1>6, Zenon DEF h

\* What the length of a code and the offsets of an instruction are.
LEMMA PlacedInstruction ==
  ASSUME NEW m, NEW s, NEW p, IsProgram(m, s, p), NEW b \in DOMAIN p.at
  PROVE  /\ b \in Nat /\ IsInstruction(m, p.at[b])
         /\ Length(p.at[b]) \in Nat \ {0} /\ b + Length(p.at[b]) + 4 <= Len(p.code)
         /\ \A k \in 1..Length(p.at[b]) : p.code[b + k] = Encode(p.at[b])[k]
  BY InstructionIsLong DEF IsProgram

\* The head of an instruction stands where the instruction does.
LEMMA HeadIsRead ==
  ASSUME NEW m, NEW s, NEW p, IsProgram(m, s, p), NEW b \in DOMAIN p.at
  PROVE  /\ Len(p.at[b].head) \in Nat
         /\ \A k \in 1..Len(p.at[b].head) : p.code[b + k] = p.at[b].head[k]
  <1> DEFINE i == p.at[b]
             n == Length(i)
             h == Len(i.head)
  <1>1. IsInstruction(m, i) /\ \A k \in 1..n : p.code[b + k] = Encode(i)[k]
    BY PlacedInstruction
  <1>2. /\ n \in Nat \ {0} /\ h \in Nat \ {0} /\ h <= n
        /\ \A k \in 1..h : Encode(i)[k] = i.head[k]
    BY <1>1, InstructionIsLong
  <1> HIDE DEF n, i, h
  <1> QED BY <1>1, <1>2 DEF h, i

\* The part of a code from an offset on.
LEMMA FromProperties ==
  ASSUME NEW c \in Seq(Bytes), NEW b \in Nat, b < Len(c)
  PROVE  /\ From(c, b) \in Seq(Bytes) /\ Len(From(c, b)) = Len(c) - b
         /\ \A k \in 1..(Len(c) - b) : From(c, b)[k] = c[b + k]
  <1>1. Len(c) \in Nat /\ b + 1 \in 1..(Len(c) + 1) /\ Len(c) \in b..Len(c)
    BY LenProperties
  <1> QED BY <1>1, SubSeqProperties DEF From

----------------------------------------------------------------------------
(* The relocation of one entry point. *)

Pieces == [how : {"copied", "adjusted", "converted"}, from : Nat, to : Nat, value : Int,
           width : Nat, written : Nat]

EntryFields == {"mode", "code", "at", "size", "old", "new", "a16", "moved", "status"}

EntryTypes(e) ==
  /\ DOMAIN e = EntryFields
  /\ e.mode \in {32, 64} /\ e.size \in Nat /\ e.old \in Nat /\ e.new \in Nat /\ e.a16 \in BOOLEAN
  /\ e.moved \in Seq(Pieces)
  /\ e.status \in {"rounding", "running", "success", "thrown"}

\* The size ends an instruction, and the first that leaves room for the jumper.
Rounded(e) ==
  /\ e.size \in Boundaries(e.at)
  /\ e.size < JumperSize => e.size \in DOMAIN e.at
  /\ e.size >= JumperSize => \E b \in DOMAIN e.at : b < JumperSize /\ e.size = b + Length(e.at[b])

\* Where the instruction at hand begins: at the prefix 67, if one was skipped.
Start(e) == IF e.a16 THEN e.old - 1 ELSE e.old

\* The loop is at the beginning of an instruction, behind the first byte of one, or at the end.
Underway(e) ==
  /\ Start(e) \in Nat /\ Start(e) <= e.size
  /\ Start(e) < e.size => Start(e) \in DOMAIN e.at
  /\ e.a16 => Start(e) < e.size /\ e.at[Start(e)].head[1] = \h67

\* The instructions moved so far are those before the one at hand.
MovedUpTo(e) == {e.moved[k].from : k \in DOMAIN e.moved} = {b \in DOMAIN e.at : b < Start(e)}

MeaningKept(e) ==
  \A k \in DOMAIN e.moved :
    LET i == e.at[e.moved[k].from] IN ~ Overlooked(i) => SameMeaning(e.moved[k], i)

Relocating(e) ==
  /\ IsProgram(e.mode, JumperSize, e) /\ IsDecoded(e.mode, e)
  /\ EntryTypes(e) /\ Rounded(e) /\ Underway(e) /\ MovedUpTo(e) /\ MeaningKept(e)
  /\ e.status = "rounding" => e.old = 0 /\ ~ e.a16
  /\ e.status # "rounding" => e.size >= JumperSize
  /\ e.status = "success" => Start(e) = e.size

\* From one instruction the next begins where it ends, and before the size is passed.
LEMMA NextInstruction ==
  ASSUME NEW e, Relocating(e), e.size >= JumperSize, NEW b \in DOMAIN e.at, b < e.size
  PROVE  LET next == b + Length(e.at[b]) IN
         /\ next \in Nat /\ next > b /\ next <= e.size /\ next + 4 <= Len(e.code)
         /\ next < e.size => next \in DOMAIN e.at
         /\ \A c \in DOMAIN e.at : c < next <=> c < b \/ c = b
  <1> DEFINE After(c) == c + Length(e.at[c])
  <1>1. e.size \in Nat
    BY DEF Relocating, EntryTypes
  <1>2. \A c \in DOMAIN e.at : c \in Nat /\ Length(e.at[c]) \in Nat \ {0} /\ After(c) + 4 <= Len(e.code)
    BY PlacedInstruction DEF Relocating
  <1>3. \A c, d \in DOMAIN e.at : d > c => d >= After(c)
    BY DEF Relocating, IsProgram
  <1>4. \A c \in DOMAIN e.at : After(c) \in DOMAIN e.at \/ After(c) >= JumperSize
    BY DEF Relocating, IsProgram
  <1>5. PICK a \in DOMAIN e.at : a < JumperSize /\ e.size = After(a)
    BY DEF Relocating, Rounded
  <1> DEFINE L(c) == Length(e.at[c])
  <1>6. \A c \in DOMAIN e.at : c \in Nat /\ L(c) \in Nat /\ L(c) > 0 /\ After(c) = c + L(c)
    BY <1>2
  <1> HIDE DEF After, L
  <1>7. After(b) \in Nat /\ After(b) > b
    BY <1>6
  <1>8. ~ a < b
    BY <1>3, <1>5, <1>6
  <1>9. After(b) <= e.size /\ (After(b) < e.size => After(b) \in DOMAIN e.at)
    <2>1. CASE a = b
      BY <2>1, <1>5, <1>6
    <2>2. CASE a > b
      <3>1. a >= After(b)
        BY <2>2, <1>3
      <3>2. After(b) < JumperSize /\ After(b) < e.size
        BY <3>1, <1>5, <1>6, <1>7 DEF JumperSize
      <3>3. ~ After(b) >= JumperSize
        BY <3>2, <1>7 DEF JumperSize
      <3> QED BY <3>2, <3>3, <1>1, <1>4, <1>7
    <2> QED BY <2>1, <2>2, <1>6, <1>8
  <1>10. \A c \in DOMAIN e.at : c < After(b) <=> c < b \/ c = b
    BY <1>3, <1>6, <1>7
  <1> QED BY <1>2, <1>7, <1>9, <1>10 DEF After

\* What depends on the program only.
LEMMA ProgramStays ==
  ASSUME NEW m, NEW p, NEW f, f.code = p.code, f.at = p.at,
         IsProgram(m, JumperSize, p), IsDecoded(m, p)
  PROVE  IsProgram(m, JumperSize, f) /\ IsDecoded(m, f)
  <1>1. IsProgram(m, JumperSize, f)
    BY Zenon DEF IsProgram
  <1>2. IsDecoded(m, f)
    BY SMT DEF IsDecoded
  <1> QED BY <1>1, <1>2

\* The beginning: nothing is rounded or moved.
LEMMA BeginRelocates ==
  ASSUME NEW m \in {32, 64}, NEW p, IsProgram(m, JumperSize, p), IsDecoded(m, p)
  PROVE  Relocating(BeginRelocation(m, p))
  <1> DEFINE e == BeginRelocation(m, p)
  <1>1. /\ DOMAIN e = EntryFields /\ e.mode = m /\ e.code = p.code /\ e.at = p.at /\ e.size = 0
        /\ e.old = 0 /\ e.new = 0 /\ e.a16 = FALSE /\ e.moved = <<>> /\ e.status = "rounding"
    BY DEF BeginRelocation, NoEntryPoint, EntryFields
  <1> HIDE DEF e
  <1>3. IsProgram(e.mode, JumperSize, e) /\ IsDecoded(e.mode, e)
    BY <1>1, ProgramStays
  <1>4. e.moved \in Seq(Pieces)
    BY <1>1
  <1>5. EntryTypes(e)
    <2>1. e.a16 \in BOOLEAN
      BY <1>1
    <2>2. e.mode \in {32, 64} /\ e.size \in Nat /\ e.old \in Nat /\ e.new \in Nat
      <3>1. e.mode = m /\ e.size = 0 /\ e.old = 0 /\ e.new = 0
        BY <1>1
      <3> QED BY <3>1
    <2>3. e.status \in {"rounding", "running", "success", "thrown"}
      <3>1. e.status = "rounding"
        BY <1>1
      <3> QED BY <3>1
    <2> QED BY <1>1, <1>4, <2>1, <2>2, <2>3 DEF EntryTypes
  <1>6. 0 \in DOMAIN e.at /\ \A b \in DOMAIN e.at : b \in Nat
    BY <1>3 DEF IsProgram
  <1>7. Rounded(e)
    BY <1>1, <1>6 DEF Rounded, Boundaries, JumperSize
  <1>8. Start(e) = 0
    BY <1>1 DEF Start
  <1>9. Underway(e) /\ MeaningKept(e)
    BY <1>1, <1>6, <1>8 DEF Underway, MeaningKept
  <1>10. MovedUpTo(e)
    BY <1>1, <1>6, <1>8 DEF MovedUpTo
  <1> QED BY <1>1, <1>3, <1>5, <1>7, <1>9, <1>10 DEF Relocating, e

\* The decoder gives every instruction its length.
LEMMA LengthIsKnown ==
  ASSUME NEW e, IsDecoded(e.mode, e), NEW b \in DOMAIN e.at
  PROVE  LhGetInstructionLength(e.mode, e.code, b) = Length(e.at[b])
  BY DEF IsDecoded, LhGetInstructionLength

\* One instruction more, or enough of them.
LEMMA RoundingRelocates ==
  ASSUME NEW e, Relocating(e), e.status = "rounding"
  PROVE  Relocating(LhRoundToNextInstruction(e))
  <1> DEFINE f == LhRoundToNextInstruction(e)
  <1>1. EntryTypes(e)
    BY DEF Relocating
  <1>2. \A b \in DOMAIN e.at : b \in Nat /\ Length(e.at[b]) \in Nat
    BY PlacedInstruction DEF Relocating
  <1>3. CASE e.size < JumperSize
    <2> DEFINE n == Length(e.at[e.size])
    <2>1. e.size \in DOMAIN e.at /\ n \in Nat
      BY <1>2, <1>3 DEF Relocating, Rounded
    <2>2. f = [e EXCEPT !.size = e.size + n]
      BY <1>3, <2>1, LengthIsKnown DEF LhRoundToNextInstruction, Relocating
    <2> HIDE DEF f, n
    <2>3. /\ DOMAIN f = EntryFields /\ f.mode = e.mode /\ f.code = e.code /\ f.at = e.at
          /\ f.size = e.size + n /\ f.old = e.old /\ f.new = e.new /\ f.a16 = e.a16
          /\ f.moved = e.moved /\ f.status = e.status
      BY <1>1, <2>2 DEF EntryTypes, EntryFields
    <2>4. EntryTypes(f)
      BY <1>1, <2>1, <2>3 DEF EntryTypes
    <2>5. f.size = e.size + Length(f.at[e.size]) /\ e.size \in DOMAIN f.at
      BY <2>1, <2>3 DEF n
    <2>6. f.size < JumperSize => f.size \in DOMAIN f.at
      <3>1. e.size + Length(e.at[e.size]) \in DOMAIN e.at \/ e.size + Length(e.at[e.size]) >= JumperSize
        BY <2>1 DEF Relocating, IsProgram
      <3> QED BY <1>1, <2>1, <2>3, <3>1 DEF n, EntryTypes, JumperSize
    <2>7. Rounded(f)
      BY <1>3, <2>5, <2>6 DEF Rounded, Boundaries
    <2>8. Start(f) = Start(e) /\ e.size <= f.size
      BY <1>1, <2>1, <2>3 DEF Start, EntryTypes
    <2>9. Start(e) = 0
      BY <1>1 DEF Relocating, Start
    <2>10. 0 \in DOMAIN f.at
      BY <2>3 DEF Relocating, IsProgram
    <2>11. Underway(f)
      BY <1>1, <2>3, <2>4, <2>8, <2>9, <2>10 DEF Underway, Relocating, EntryTypes
    <2>12. MovedUpTo(f) /\ MeaningKept(f)
      BY <2>3, <2>8 DEF MovedUpTo, MeaningKept, Relocating
    <2>13. IsProgram(f.mode, JumperSize, f) /\ IsDecoded(f.mode, f)
      BY <2>3, ProgramStays DEF Relocating
    <2> QED BY <2>3, <2>4, <2>7, <2>11, <2>12, <2>13 DEF Relocating, f
  <1>4. CASE ~ e.size < JumperSize
    <2>1. f = [e EXCEPT !.status = "running"]
      BY <1>4 DEF LhRoundToNextInstruction
    <2> HIDE DEF f
    <2>2. /\ DOMAIN f = EntryFields /\ f.mode = e.mode /\ f.code = e.code /\ f.at = e.at
          /\ f.size = e.size /\ f.old = e.old /\ f.new = e.new /\ f.a16 = e.a16 /\ f.moved = e.moved
          /\ f.status = "running"
      BY <1>1, <2>1 DEF EntryTypes, EntryFields
    <2>3. EntryTypes(f)
      BY <1>1, <2>2 DEF EntryTypes
    <2>4. Rounded(f) /\ Start(f) = Start(e)
      BY <2>2 DEF Rounded, Relocating, Start
    <2>5. Underway(f) /\ MovedUpTo(f) /\ MeaningKept(f)
      BY <2>2, <2>4 DEF Underway, MovedUpTo, MeaningKept, Relocating
    <2>6. IsProgram(f.mode, JumperSize, f) /\ IsDecoded(f.mode, f)
      BY <2>2, ProgramStays DEF Relocating
    <2>7. f.size >= JumperSize
      BY <1>1, <1>4, <2>2 DEF EntryTypes, JumperSize
    <2> QED BY <2>2, <2>3, <2>4, <2>5, <2>6, <2>7 DEF Relocating, f
  <1> QED BY <1>3, <1>4

\* The first bytes of an instruction that may have the prefix 67.
LEMMA FirstBytes ==
  ASSUME NEW e, Relocating(e), NEW b \in DOMAIN e.at
  PROVE  /\ e.code[b + 1] = e.at[b].head[1]
         /\ e.at[b].head[1] = \h67 => /\ Length(e.at[b]) > 1
                                      /\ e.code[b + 2] = e.at[b].head[2] /\ e.at[b].head[2] # \h67
  <1> DEFINE i == e.at[b]
             h == i.head
             n == Length(i)
  <1>1. IsInstruction(e.mode, i) /\ \A k \in 1..n : e.code[b + k] = Encode(i)[k]
    BY PlacedInstruction DEF Relocating
  <1>2. /\ n \in Nat \ {0} /\ Len(h) \in Nat \ {0} /\ Len(h) <= n
        /\ \A k \in 1..Len(h) : Encode(i)[k] = h[k]
        /\ h[1] = \h67 => Len(h) > 1
    <2> HIDE DEF i
    <2>1. IsInstruction(e.mode, i)
      BY <1>1
    <2> QED BY <2>1, InstructionIsLong
  <1>3. h[1] = \h67 => h[2] # \h67
    BY <1>1 DEF IsInstruction
  <1> HIDE DEF i, h, n
  <1>4. \A k \in 1..Len(h) : e.code[b + k] = h[k]
    BY <1>1, <1>2
  <1>5. e.code[b + 1] = h[1] /\ (h[1] = \h67 => n > 1 /\ e.code[b + 2] = h[2])
    BY <1>2, <1>4
  <1> QED BY <1>3, <1>5 DEF i, h, n

\* The instruction at hand, when its prefix is behind.
LEMMA AtHand ==
  ASSUME NEW e, Relocating(e), e.status = "running", e.old < e.size, e.code[e.old + 1] # \h67
  PROVE  LET i == e.at[Start(e)] IN
         /\ Start(e) \in DOMAIN e.at /\ Start(e) \in Nat /\ Start(e) < e.size /\ e.size >= JumperSize
         /\ e.a16 <=> i.head[1] = \h67
         /\ e.old = IF e.a16 THEN Start(e) + 1 ELSE Start(e)
         /\ e.code[e.old + 1] = Opcode(i)
         /\ LhGetInstructionLength(e.mode, e.code, Start(e)) = Length(i)
  <1> DEFINE s == Start(e)
  <1>1. e.old \in Nat /\ e.size \in Nat /\ e.a16 \in BOOLEAN /\ e.size >= JumperSize
    BY DEF Relocating, EntryTypes
  <1>2. e.old = (IF e.a16 THEN s + 1 ELSE s) /\ s \in Nat
    BY <1>1 DEF Start, Relocating, Underway
  <1>3. s < e.size /\ s \in DOMAIN e.at
    BY <1>1, <1>2 DEF Relocating, Underway
  <1>4. e.a16 => e.at[s].head[1] = \h67
    BY DEF Relocating, Underway
  <1>5. LhGetInstructionLength(e.mode, e.code, s) = Length(e.at[s])
    BY <1>3, LengthIsKnown DEF Relocating
  <1>6. /\ e.code[s + 1] = e.at[s].head[1]
        /\ e.at[s].head[1] = \h67 => e.code[s + 2] = e.at[s].head[2]
    BY <1>3, FirstBytes
  <1> HIDE DEF s
  <1>7. ~ e.a16 => e.at[s].head[1] # \h67 /\ e.code[e.old + 1] = e.at[s].head[1]
    BY <1>2, <1>6
  <1>8. e.a16 => e.code[e.old + 1] = e.at[s].head[2]
    BY <1>2, <1>4, <1>6
  <1>9. e.code[e.old + 1] = Opcode(e.at[s])
    BY <1>1, <1>4, <1>7, <1>8 DEF Opcode
  <1> QED BY <1>1, <1>2, <1>3, <1>4, <1>5, <1>7, <1>9 DEF s

\* The loop is over: everything before the size is moved.
LEMMA EndRelocates ==
  ASSUME NEW e, Relocating(e), e.status = "running", e.old >= e.size
  PROVE  Relocating([e EXCEPT !.status = "success"])
  <1> DEFINE f == [e EXCEPT !.status = "success"]
             s == Start(e)
  <1>1. EntryTypes(e) /\ e.size >= JumperSize /\ Underway(e)
    BY DEF Relocating
  <1>2. e.old \in Nat /\ e.size \in Nat /\ e.a16 \in BOOLEAN /\ e.old = (IF e.a16 THEN s + 1 ELSE s) /\ s \in Nat
    BY <1>1 DEF Start, EntryTypes, Underway
  <1>3. ~ e.a16
    <2>1. SUFFICES ASSUME e.a16 PROVE FALSE
      OBVIOUS
    <2>2. s < e.size /\ s \in DOMAIN e.at /\ e.at[s].head[1] = \h67
      BY <1>1, <2>1 DEF Underway
    <2> DEFINE n == Length(e.at[s])
    <2>3. n > 1 /\ n \in Nat /\ s + n <= e.size
      BY <1>1, <2>2, FirstBytes, NextInstruction, PlacedInstruction DEF Relocating
    <2> HIDE DEF n, s
    <2> QED BY <1>2, <2>1, <2>2, <2>3
  <1>4. s = e.size
    BY <1>1, <1>2, <1>3 DEF Underway
  <1> HIDE DEF f
  <1>5. /\ DOMAIN f = EntryFields /\ f.mode = e.mode /\ f.code = e.code /\ f.at = e.at
        /\ f.size = e.size /\ f.old = e.old /\ f.new = e.new /\ f.a16 = e.a16 /\ f.moved = e.moved
        /\ f.status = "success"
    BY <1>1 DEF EntryTypes, EntryFields, f
  <1>6. EntryTypes(f)
    BY <1>1, <1>5 DEF EntryTypes
  <1>7. Rounded(f) /\ Start(f) = s
    BY <1>5 DEF Rounded, Relocating, Start
  <1>8. Underway(f) /\ MovedUpTo(f) /\ MeaningKept(f)
    BY <1>5, <1>7 DEF Underway, MovedUpTo, MeaningKept, Relocating
  <1>9. IsProgram(f.mode, JumperSize, f) /\ IsDecoded(f.mode, f)
    BY <1>5, ProgramStays DEF Relocating
  <1> QED BY <1>1, <1>4, <1>5, <1>6, <1>7, <1>8, <1>9 DEF Relocating, f

LEMMA ThrowRelocates ==
  ASSUME NEW e, Relocating(e), e.status = "running"
  PROVE  Relocating(Throw(e))
  <1> DEFINE f == Throw(e)
  <1>1. EntryTypes(e) /\ e.size >= JumperSize
    BY DEF Relocating
  <1> HIDE DEF f
  <1>2. /\ DOMAIN f = EntryFields /\ f.mode = e.mode /\ f.code = e.code /\ f.at = e.at
        /\ f.size = e.size /\ f.old = e.old /\ f.new = e.new /\ f.a16 = e.a16 /\ f.moved = e.moved
        /\ f.status = "thrown"
    BY <1>1 DEF EntryTypes, EntryFields, f, Throw
  <1>3. EntryTypes(f)
    BY <1>1, <1>2 DEF EntryTypes
  <1>4. Rounded(f) /\ Start(f) = Start(e)
    BY <1>2 DEF Rounded, Relocating, Start
  <1>5. Underway(f) /\ MovedUpTo(f) /\ MeaningKept(f)
    BY <1>2, <1>4 DEF Underway, MovedUpTo, MeaningKept, Relocating
  <1>6. IsProgram(f.mode, JumperSize, f) /\ IsDecoded(f.mode, f)
    BY <1>2, ProgramStays DEF Relocating
  <1> QED BY <1>1, <1>2, <1>3, <1>4, <1>5, <1>6 DEF Relocating, f

\* The prefix 67 is skipped, once.
LEMMA SkipRelocates ==
  ASSUME NEW e, Relocating(e), e.status = "running", e.old < e.size, e.code[e.old + 1] = \h67
  PROVE  Relocating([e EXCEPT !.a16 = TRUE, !.old = @ + 1])
  <1> DEFINE f == [e EXCEPT !.a16 = TRUE, !.old = @ + 1]
             s == Start(e)
  <1>1. EntryTypes(e) /\ e.size >= JumperSize /\ Underway(e)
    BY DEF Relocating
  <1>2. e.old \in Nat /\ e.size \in Nat /\ e.a16 \in BOOLEAN /\ e.old = (IF e.a16 THEN s + 1 ELSE s) /\ s \in Nat
    BY <1>1 DEF Start, EntryTypes, Underway
  <1>3. s < e.size /\ s \in DOMAIN e.at
    BY <1>1, <1>2 DEF Underway
  <1>4. /\ e.code[s + 1] = e.at[s].head[1]
        /\ e.at[s].head[1] = \h67 => e.code[s + 2] = e.at[s].head[2] /\ e.at[s].head[2] # \h67
    BY <1>3, FirstBytes
  <1>5. e.a16 => e.at[s].head[1] = \h67
    BY <1>1 DEF Underway
  <1> HIDE DEF f, s
  <1>6. ~ e.a16
    BY <1>2, <1>4, <1>5
  <1>7. e.old = s /\ e.at[s].head[1] = \h67
    BY <1>2, <1>4, <1>6
  <1>8. /\ DOMAIN f = EntryFields /\ f.mode = e.mode /\ f.code = e.code /\ f.at = e.at
        /\ f.size = e.size /\ f.old = s + 1 /\ f.new = e.new /\ f.a16 = TRUE /\ f.moved = e.moved
        /\ f.status = e.status
    <2>1. DOMAIN e = EntryFields
      BY <1>1 DEF EntryTypes
    <2>2. e.old = s
      BY <1>7
    <2> QED BY <2>1, <2>2 DEF EntryFields, f
  <1>9. EntryTypes(f)
    <2>1. s + 1 \in Nat
      BY <1>2
    <2>2. e.status \in {"rounding", "running", "success", "thrown"} /\ e.mode \in {32, 64} /\ e.size \in Nat
          /\ e.new \in Nat /\ e.moved \in Seq(Pieces)
      BY <1>1 DEF EntryTypes
    <2> QED BY <1>8, <2>1, <2>2 DEF EntryTypes
  <1>10. Start(f) = s
    BY <1>2, <1>8 DEF Start
  <1>11. Rounded(f)
    BY <1>8 DEF Rounded, Relocating
  <1>12. Underway(f)
    BY <1>2, <1>3, <1>7, <1>8, <1>10 DEF Underway
  <1>13. MovedUpTo(f) /\ MeaningKept(f)
    BY <1>8, <1>10 DEF MovedUpTo, MeaningKept, Relocating, s
  <1>14. IsProgram(f.mode, JumperSize, f) /\ IsDecoded(f.mode, f)
    BY <1>8, ProgramStays DEF Relocating
  <1> QED BY <1>1, <1>8, <1>9, <1>10, <1>11, <1>12, <1>13, <1>14 DEF Relocating, f

\* A piece is added that does what the instruction at hand did.
LEMMA AddRelocates ==
  ASSUME NEW e, Relocating(e), e.status = "running", e.old < e.size, e.code[e.old + 1] # \h67,
         NEW next, next = Start(e) + Length(e.at[Start(e)]),
         NEW piece \in Pieces, piece.from = Start(e),
         ~ Overlooked(e.at[Start(e)]) => SameMeaning(piece, e.at[Start(e)])
  PROVE  Relocating(Add(e, next, piece))
  <1> DEFINE s == Start(e)
             f == Add(e, next, piece)
             k == Len(e.moved) + 1
  <1>1. EntryTypes(e) /\ e.size >= JumperSize
    BY DEF Relocating
  <1>2. s \in DOMAIN e.at /\ s < e.size /\ s \in Nat
    BY AtHand
  <1>3. /\ next \in Nat /\ next <= e.size /\ next > s
        /\ next < e.size => next \in DOMAIN e.at
        /\ \A c \in DOMAIN e.at : c < next <=> c < s \/ c = s
    BY <1>1, <1>2, NextInstruction
  <1> HIDE DEF f
  <1>4. /\ DOMAIN f = EntryFields /\ f.mode = e.mode /\ f.code = e.code /\ f.at = e.at
        /\ f.size = e.size /\ f.old = next /\ f.new = e.new + piece.width /\ f.a16 = FALSE
        /\ f.moved = Append(e.moved, piece) /\ f.status = e.status
    BY <1>1 DEF EntryTypes, EntryFields, f, Add
  <1>5. e.new + piece.width \in Nat /\ Append(e.moved, piece) \in Seq(Pieces)
    BY <1>1 DEF EntryTypes, Pieces
  <1>6. EntryTypes(f)
    BY <1>1, <1>3, <1>4, <1>5 DEF EntryTypes
  <1>7. Rounded(f) /\ Start(f) = next
    BY <1>4 DEF Rounded, Relocating, Start
  <1>8. Underway(f)
    BY <1>3, <1>4, <1>7 DEF Underway
  <1>9. /\ Len(e.moved) \in Nat /\ DOMAIN e.moved = 1..Len(e.moved)
        /\ DOMAIN f.moved = 1..k /\ f.moved[k] = piece
        /\ \A j \in 1..Len(e.moved) : f.moved[j] = e.moved[j]
    BY <1>1, <1>4, AppendProperties DEF EntryTypes
  <1>10. DOMAIN f.moved = DOMAIN e.moved \cup {k} /\ k \notin DOMAIN e.moved
    BY <1>9
  <1>11. MovedUpTo(f)
    <2> DEFINE froms(g) == {g.moved[j].from : j \in DOMAIN g.moved}
    <2>1. \A b : b \in froms(f) <=> b \in froms(e) \/ b = s
      <3>1. f.moved[k].from = s
        BY <1>9
      <3>2. \A j \in DOMAIN e.moved : f.moved[j].from = e.moved[j].from
        BY <1>9
      <3> QED BY <1>10, <3>1, <3>2, Zenon
    <2>2. \A b : b \in froms(e) <=> b \in DOMAIN e.at /\ b < s
      BY DEF Relocating, MovedUpTo
    <2> HIDE DEF froms, s
    <2>3. froms(f) = {b \in DOMAIN e.at : b < next}
      BY <1>2, <1>3, <2>1, <2>2
    <2> QED BY <1>4, <1>7, <2>3 DEF MovedUpTo, froms
  <1>12. MeaningKept(f)
    <2> SUFFICES ASSUME NEW j \in DOMAIN f.moved, ~ Overlooked(f.at[f.moved[j].from])
                 PROVE  SameMeaning(f.moved[j], f.at[f.moved[j].from])
      BY DEF MeaningKept
    <2>1. CASE j = k
      BY <1>4, <1>9, <2>1
    <2>2. CASE j # k
      BY <1>4, <1>9, <1>10, <2>2 DEF Relocating, MeaningKept
    <2> QED BY <2>1, <2>2
  <1>13. IsProgram(f.mode, JumperSize, f) /\ IsDecoded(f.mode, f)
    BY <1>4, ProgramStays DEF Relocating
  <1> QED BY <1>1, <1>4, <1>6, <1>7, <1>8, <1>11, <1>12, <1>13 DEF Relocating, f

----------------------------------------------------------------------------
(* The pieces. *)

\* Bytes behind the beginning of the instruction at hand.
LEMMA ByteBehind ==
  ASSUME NEW e, Relocating(e), NEW b \in DOMAIN e.at, NEW k \in 1..5
  PROVE  e.code[b + k] \in Bytes
  <1> DEFINE n == Length(e.at[b])
  <1>1. n \in Nat \ {0} /\ b \in Nat /\ b + n + 4 <= Len(e.code)
    BY PlacedInstruction DEF Relocating
  <1>2. e.code \in Seq(Bytes) /\ Len(e.code) \in Nat
    BY DEF Relocating, IsProgram
  <1> HIDE DEF n
  <1>3. b + k \in 1..Len(e.code)
    BY <1>1, <1>2
  <1> QED BY <1>2, <1>3

\* Four bytes of a sequence.
LEMMA FourBytes ==
  ASSUME NEW S, NEW c \in Seq(S), NEW h \in Nat, h + 4 <= Len(c)
  PROVE  LET four == SubSeq(c, h + 1, h + 4) IN
         four # <<>> /\ \A k \in 1..4 : four[k] = c[h + k]
  <1> DEFINE r == Len(c)
             four == SubSeq(c, h + 1, h + 4)
             l == Len(four)
  <1>1. l = 4 /\ \A k \in 1..4 : four[k] = c[h + k]
    OBVIOUS
  <1>2. four = <<>> => l = 0
    OBVIOUS
  <1> HIDE DEF four, l
  <1>3. four # <<>>
    BY <1>1, <1>2
  <1> QED BY <1>1, <1>3 DEF four

\* The decoder's word on the distance in an instruction that is relative to RIP.
LEMMA FieldIsRead ==
  ASSUME NEW e, Relocating(e), NEW b \in DOMAIN e.at, NEW field,
         e.at[b].kind = "rip", e.at[b].head[1] # \h67,
         field = SubSeq(From(e.code, b), Len(e.at[b].head) + 1, Len(e.at[b].head) + 4)
  PROVE  field # <<>> /\ Distance32(field) = e.at[b].distance
  <1> DEFINE i == e.at[b]
             h == Len(i.head)
             n == Length(i)
             behind == From(e.code, b)
             c == Len(e.code)
             r == Len(behind)
  <1>1. /\ IsInstruction(e.mode, i) /\ b \in Nat /\ n \in Nat /\ b + n + 4 <= c
        /\ \A k \in 1..n : e.code[b + k] = Encode(i)[k]
    <2>1. IsProgram(e.mode, JumperSize, e)
      BY DEF Relocating
    <2> QED BY <2>1, PlacedInstruction
  <1>2. e.code \in Seq(Bytes) /\ c \in Nat
    BY DEF Relocating, IsProgram
  <1>3. HasField32(i) /\ h \in Nat
    BY <1>1 DEF IsInstruction
  <1>4. h + 4 <= n /\ \A k \in 1..4 : Encode(i)[h + k] = i.field[k]
    <2>1. IsInstruction(e.mode, i)
      BY <1>1
    <2>2. HasField32(i)
      BY <1>3
    <2> QED BY <2>1, <2>2, FieldInInstruction
  <1>5. b < c
    BY <1>1, <1>2
  <1>6. /\ behind \in Seq(Bytes) /\ r = c - b
        /\ \A k \in 1..(c - b) : behind[k] = e.code[b + k]
    BY <1>1, <1>2, <1>5, FromProperties
  <1>7. field = SubSeq(behind, h + 1, h + 4)
    OBVIOUS
  <1> HIDE DEF i, h, n, behind, c, r
  <1>8. h + 4 <= r
    <2>1. b \in Nat /\ n \in Nat /\ c \in Nat /\ h \in Nat
      BY <1>1, <1>2, <1>3
    <2>2. b + n + 4 <= c /\ h + 4 <= n /\ r = c - b
      BY <1>1, <1>4, <1>6
    <2> QED BY <2>1, <2>2
  <1>9. field # <<>> /\ \A k \in 1..4 : field[k] = behind[h + k]
    <2>1. behind \in Seq(Bytes) /\ h \in Nat /\ h + 4 <= Len(behind)
      BY <1>3, <1>6, <1>8 DEF r
    <2> DEFINE four == SubSeq(behind, h + 1, h + 4)
    <2>2. four # <<>> /\ \A k \in 1..4 : four[k] = behind[h + k]
      BY <2>1, FourBytes
    <2> QED BY <1>7, <2>2, Zenon
  <1>10. \A k \in 1..4 : field[k] = i.field[k]
    <2>1. SUFFICES ASSUME NEW k \in 1..4 PROVE field[k] = i.field[k]
      OBVIOUS
    <2>2. h + k \in 1..(c - b) /\ h + k \in 1..n
      BY <1>1, <1>3, <1>4, <1>6, <1>8
    <2>3. behind[h + k] = e.code[b + (h + k)] /\ e.code[b + (h + k)] = Encode(i)[h + k]
      BY <1>1, <1>6, <2>2
    <2> QED BY <1>4, <1>9, <2>3
  <1>11. Distance32(field) = i.distance
    BY <1>3, <1>10, Signed32Reads DEF Distance32, HasField32
  <1> QED BY <1>9, <1>11 DEF i

\* What is taken for a branch is one, and leads where it should.
LEMMA BranchIsExact ==
  ASSUME NEW e, Relocating(e), e.status = "running", e.old < e.size, e.code[e.old + 1] # \h67
  PROVE  LET i == e.at[Start(e)]
             branch == Branch(e.code, e.old, e.a16)
         IN /\ branch.target \in Int /\ branch.length \in {0, 2, 3, 5}
            /\ branch.length > 0 <=> Opcode(i) \in {\hE8, \hE9, \hEB}
            /\ ~ Overlooked(i) /\ branch.length > 0 =>
                 i.kind \in {"call", "jump"} /\ branch.target = Target(i, Start(e))
  <1> DEFINE s == Start(e)
             i == e.at[s]
             branch == Branch(e.code, e.old, e.a16)
             a16 == e.a16
             o == e.old
             b1 == e.code[o + 1]
             b2 == e.code[o + 2]
             near == Signed32(b2, e.code[o + 3], e.code[o + 4], e.code[o + 5])
             word == Signed16(b2, e.code[o + 3])
             signed == Signed8(b2)
  <1>1. /\ s \in DOMAIN e.at /\ s \in Nat
        /\ a16 <=> i.head[1] = \h67
        /\ o = IF a16 THEN s + 1 ELSE s
        /\ b1 = Opcode(i)
    BY AtHand
  <1>2. a16 \in BOOLEAN
    BY DEF Relocating, EntryTypes
  <1>3. branch = CASE b1 \in {\hE8, \hE9} /\ a16   -> [length |-> 3, target |-> word + o + 3]
                   [] b1 \in {\hE8, \hE9} /\ ~ a16 -> [length |-> 5, target |-> near + o + 5]
                   [] b1 = \hEB                    -> [length |-> 2, target |-> signed + o + 2]
                   [] OTHER                        -> [length |-> 0, target |-> 0]
    BY DEF Branch
  <1>4. IsInstruction(e.mode, i) /\ \A k \in 1..Length(i) : e.code[s + k] = Encode(i)[k]
    BY <1>1, PlacedInstruction DEF Relocating
  <1>5. \A k \in 1..5 : e.code[s + k] \in Bytes
    BY <1>1, ByteBehind
  <1> HIDE DEF s, i, branch, a16, o, b1, near, word, signed
  <1>6. /\ o \in Nat /\ word \in Int /\ signed \in Int
        /\ ~ a16 => near \in Int
    <2>1. o + 2 = s + 2 \/ o + 2 = s + 3
      BY <1>1
    <2>2. b2 \in Bytes
      BY <1>5, <2>1 DEF b2
    <2>3. signed \in Int
      BY <2>2, SignedTypes DEF signed
    <2>4. e.code[o + 3] \in Bytes
      <3>1. o + 3 = s + 3 \/ o + 3 = s + 4
        BY <1>1
      <3> QED BY <1>5, <3>1
    <2>5. word \in Int
      BY <2>2, <2>4, SignedTypes DEF word
    <2>6. ASSUME ~ a16 PROVE near \in Int
      <3>1. e.code[o + 4] \in Bytes /\ e.code[o + 5] \in Bytes
        BY <1>1, <1>5, <2>6
      <3> QED BY <2>2, <2>4, <3>1, SignedTypes DEF near
    <2> QED BY <1>1, <2>3, <2>5, <2>6
  <1>7. /\ b1 \in {\hE8, \hE9} /\ a16 => branch = [length |-> 3, target |-> word + o + 3]
        /\ b1 \in {\hE8, \hE9} /\ ~ a16 => branch = [length |-> 5, target |-> near + o + 5]
        /\ b1 = \hEB => branch = [length |-> 2, target |-> signed + o + 2]
        /\ b1 \notin {\hE8, \hE9, \hEB} => branch = [length |-> 0, target |-> 0]
    BY <1>2, <1>3
  <1>8. branch.target \in Int /\ branch.length \in {0, 2, 3, 5}
        /\ (branch.length > 0 <=> b1 \in {\hE8, \hE9, \hEB})
    BY <1>2, <1>6, <1>7
  <1>9. ASSUME ~ Overlooked(i), branch.length > 0
        PROVE  i.kind \in {"call", "jump"} /\ branch.target = Target(i, s)
    <2>1. i.kind \in {"call", "jump", "condition"} /\ Opcode(i) \in {\hE8, \hE9, \hEB}
      BY <1>1, <1>4, <1>8, <1>9 DEF IsInstruction, Overlooked, Kinds
    <2>2. ~ Prefixed(i)
      BY <1>9, <2>1 DEF Overlooked
    <2>3. ~ a16 /\ o = s /\ b1 = i.head[1]
      BY <1>1, <2>2 DEF Prefixed, PrefixBytes, Opcode
    <2>4. IsBranch(i) /\ i.distance \in Int
      BY <1>4, <2>2 DEF IsInstruction
    <2>5. CASE i.kind = "condition"
      <3>1. i.head[1] \in {\hE3} \cup \h70..\h7F \/ i.head[1] = \h0F
        BY <2>4, <2>5 DEF IsBranch
      <3>2. i.head[1] \in {\hE8, \hE9, \hEB}
        <4>1. Opcode(i) = i.head[1]
          BY <1>1, <2>3
        <4> QED BY <2>1, <4>1
      <3> QED BY <3>1, <3>2
    <2>6. CASE i.kind # "condition"
      <3>1. /\ i.kind \in {"call", "jump"} /\ i.tail = <<>>
            /\ \/ i.head \in {<<\hE8>>, <<\hE9>>} /\ HasField32(i)
               \/ i.head = <<\hEB>> /\ HasField8(i)
        BY <2>1, <2>4, <2>6 DEF IsBranch
      <3>2. CASE i.head \in {<<\hE8>>, <<\hE9>>} /\ HasField32(i)
        <4>1. Length(i) = 5 /\ \A k \in 1..4 : Encode(i)[1 + k] = i.field[k]
          <5>1. /\ \A k \in 1..4 : Encode(i)[Len(i.head) + k] = i.field[k]
                /\ Length(i) = Len(i.head) + 4
            BY <1>4, <3>1, <3>2, FieldInInstruction
          <5>2. Len(i.head) = 1
            BY <3>2
          <5> QED BY <5>1, <5>2
        <4>2. \A k \in 1..4 : e.code[s + (1 + k)] = i.field[k]
          BY <1>4, <4>1
        <4>3. near = i.distance
          <5>1. /\ e.code[s + 2] = i.field[1] /\ e.code[s + 3] = i.field[2]
                /\ e.code[s + 4] = i.field[3] /\ e.code[s + 5] = i.field[4]
            BY <4>2
          <5>2. near = Signed32(e.code[s + 2], e.code[s + 3], e.code[s + 4], e.code[s + 5])
            BY <2>3 DEF near, b2
          <5>3. Signed32(i.field[1], i.field[2], i.field[3], i.field[4]) = i.distance
            BY <3>2, Signed32Reads DEF HasField32
          <5> QED BY <5>1, <5>2, <5>3
        <4>4. b1 \in {\hE8, \hE9}
          BY <2>3, <3>2
        <4>5. branch.target = i.distance + s + 5
          BY <1>7, <2>3, <4>3, <4>4
        <4>6. s \in Nat /\ i.distance \in Int
          BY <1>1, <2>4
        <4>7. branch.target = s + Length(i) + i.distance
          BY <4>1, <4>5, <4>6
        <4> QED BY <3>1, <4>7 DEF Target
      <3>3. CASE i.head = <<\hEB>> /\ HasField8(i)
        <4>1. Length(i) = 2 /\ Encode(i)[2] = LE8(i.distance)[1]
          BY <3>1, <3>3 DEF Length, Encode, LE8, HasField8
        <4>2. e.code[s + 2] = LE8(i.distance)[1]
          BY <1>4, <4>1
        <4>3. signed = i.distance
          BY <2>3, <3>3, <4>2, Signed8Reads DEF signed, b2, HasField8
        <4>4. b1 = \hEB
          BY <2>3, <3>3
        <4>5. branch.target = i.distance + s + 2
          BY <1>7, <4>3, <4>4, <2>3
        <4>6. s \in Nat /\ i.distance \in Int
          BY <1>1, <2>4
        <4>7. branch.target = s + Length(i) + i.distance
          BY <4>1, <4>5, <4>6
        <4> QED BY <3>1, <4>7 DEF Target
      <3> QED BY <3>1, <3>2, <3>3
    <2> QED BY <2>5, <2>6
  <1> QED BY <1>1, <1>8, <1>9 DEF i, s, branch

\* What looking for a displacement can come to.
LEMMA ReadjustTypes ==
  ASSUME NEW m, NEW bytes, NEW field, NEW delta,
         NEW rip, rip = ReadjustInsn(m, bytes, field, delta)
  PROVE  /\ rip.status \in {"success", "thrown"} /\ rip.relocated \in BOOLEAN
         /\ rip.relocated => rip.status = "success"
         /\ rip.relocated => rip.distance \in Int /\ rip.distance = Distance32(field) - delta
         /\ m = 32 \/ field = <<>> => rip = Quiet
         /\ m # 32 /\ field # <<>> /\ Distance32(field) # 0 => rip.status = "thrown" \/ rip.relocated
  <1>1. /\ Quiet = [status |-> "success", relocated |-> FALSE, distance |-> 0]
        /\ Thrown = [status |-> "thrown", relocated |-> FALSE, distance |-> 0]
    BY DEF Quiet, Thrown
  <1>2. CASE m = 32 \/ field = <<>> \/ Distance32(field) = 0
    <2>1. rip = Quiet
      BY <1>2 DEF ReadjustInsn
    <2> QED BY <1>1, <1>2, <2>1
  <1>3. CASE ~ (m = 32 \/ field = <<>> \/ Distance32(field) = 0)
    <2> DEFINE moved == Distance32(field) - delta
    <2>1. rip = Readjust(bytes, field, moved)
      BY <1>3 DEF ReadjustInsn
    <2> HIDE DEF moved
    <2>2. rip = Thrown \/ (rip = [Quiet EXCEPT !.relocated = TRUE, !.distance = moved] /\ Fits32(moved))
      BY <2>1 DEF Readjust
    <2>3. CASE rip = Thrown
      BY <1>1, <1>3, <2>3
    <2>4. CASE rip = [Quiet EXCEPT !.relocated = TRUE, !.distance = moved] /\ Fits32(moved)
      <3>1. rip = [status |-> "success", relocated |-> TRUE, distance |-> moved]
        BY <1>1, <2>4
      <3>2. moved \in Int
        BY <2>4, ReachIsPositive DEF Fits32
      <3> QED BY <1>3, <3>1, <3>2 DEF moved
    <2> QED BY <2>2, <2>3, <2>4
  <1> QED BY <1>2, <1>3

\* What is copied is what means the same anywhere, unless its displacement is adjusted to where it goes.
LEMMA RipIsExact ==
  ASSUME NEW e, Relocating(e), e.status = "running", e.old < e.size, e.code[e.old + 1] # \h67,
         NEW pointer \in Nat, NEW rip,
         rip = LhRelocateRIPRelativeInstruction(e.mode, e.code, e.old, pointer)
  PROVE  LET i == e.at[Start(e)] IN
         /\ rip.status \in {"success", "thrown"} /\ rip.relocated \in BOOLEAN
         /\ rip.relocated => rip.status = "success" /\ rip.distance \in Int
         /\ ~ Overlooked(i) /\ i.kind = "plain" => rip = Quiet
         /\ ~ Overlooked(i) /\ i.kind = "rip" =>
              /\ ~ e.a16
              /\ rip.status = "thrown"
                   \/ (rip.relocated /\ pointer + Length(i) + rip.distance = Target(i, Start(e)))
  <1> DEFINE s == Start(e)
             i == e.at[s]
             insn == ud_decode(e.mode, From(e.code, e.old))
             behind == From(e.code, e.old)
             field == IF insn.rip THEN SubSeq(behind, insn.dispAt + 1, insn.dispAt + 4) ELSE <<>>
             delta == pointer - e.old
  <1>1. /\ s \in DOMAIN e.at /\ s \in Nat
        /\ e.a16 <=> i.head[1] = \h67
        /\ e.old = IF e.a16 THEN s + 1 ELSE s
    BY AtHand
  <1>2. e.a16 \in BOOLEAN /\ e.mode \in {32, 64}
    BY DEF Relocating, EntryTypes
  <1>3. rip = ReadjustInsn(e.mode, SubSeq(behind, 1, insn.length), field, delta)
    BY DEF LhRelocateRIPRelativeInstruction, RipInsn, MemDelta
  <1>4. /\ IsInstruction(e.mode, i) /\ Length(i) \in Nat
    BY <1>1, PlacedInstruction DEF Relocating
  <1>5. i.kind = "rip" => e.mode = 64
    BY <1>4 DEF IsInstruction
  <1>6. i.distance \in Int
    BY <1>4 DEF IsInstruction
  <1>7. /\ e.mode = 64 /\ i.kind = "plain" => ~ insn.rip
        /\ e.mode = 64 /\ i.kind = "rip" /\ ~ e.a16 => insn.rip /\ insn.dispAt = Len(i.head)
    <2>1. /\ e.mode = 64 /\ i.head[1] # \h67 =>
               /\ i.kind = "plain" => ~ ud_decode(e.mode, From(e.code, s)).rip
               /\ i.kind = "rip" => /\ ud_decode(e.mode, From(e.code, s)).rip
                                    /\ ud_decode(e.mode, From(e.code, s)).dispAt = Len(i.head)
          /\ e.mode = 64 /\ i.head[1] = \h67 /\ i.kind = "plain" =>
               ~ ud_decode(e.mode, From(e.code, s + 1)).rip
      BY <1>1 DEF Relocating, IsDecoded
    <2>2. CASE e.a16
      BY <1>1, <2>1, <2>2
    <2>3. CASE ~ e.a16
      BY <1>1, <2>1, <2>3
    <2> QED BY <1>2, <2>2, <2>3
  <1>8. i.kind = "rip" /\ ~ e.a16 => field # <<>> /\ Distance32(field) = i.distance
    <2>1. SUFFICES ASSUME i.kind = "rip", ~ e.a16 PROVE field # <<>> /\ Distance32(field) = i.distance
      OBVIOUS
    <2>2. field = SubSeq(From(e.code, s), Len(i.head) + 1, Len(i.head) + 4)
      BY <1>1, <1>5, <1>7, <2>1
    <2> HIDE DEF field
    <2> QED BY <1>1, <2>1, <2>2, FieldIsRead
  <1> HIDE DEF field, delta, insn, behind
  <1>9. /\ rip.status \in {"success", "thrown"} /\ rip.relocated \in BOOLEAN
        /\ rip.relocated => rip.status = "success"
        /\ rip.relocated => rip.distance \in Int /\ rip.distance = Distance32(field) - delta
        /\ e.mode = 32 \/ field = <<>> => rip = Quiet
        /\ e.mode # 32 /\ field # <<>> /\ Distance32(field) # 0 => rip.status = "thrown" \/ rip.relocated
    BY <1>3, ReadjustTypes
  <1>10. i.kind = "plain" => rip = Quiet
    BY <1>2, <1>7, <1>9 DEF field
  <1>11. ASSUME ~ Overlooked(i), i.kind = "rip"
         PROVE  /\ ~ e.a16
                /\ rip.status = "thrown"
                     \/ (rip.relocated /\ pointer + Length(i) + rip.distance = Target(i, s))
    <2>1. i.distance # 0 /\ ~ e.a16
      BY <1>1, <1>11 DEF Overlooked
    <2>2. e.old = s /\ delta = pointer - s
      BY <1>1, <2>1 DEF delta
    <2>3. rip.status = "thrown" \/ (rip.relocated /\ rip.distance = i.distance - (pointer - s))
      BY <1>5, <1>8, <1>9, <1>11, <2>1, <2>2
    <2>4. i.distance - (pointer - s) \in Int /\ pointer + Length(i) + (i.distance - (pointer - s)) = Target(i, s)
      BY <1>1, <1>4, <1>6 DEF Target
    <2> QED BY <2>1, <2>3, <2>4
  <1> QED BY <1>9, <1>10, <1>11

\* A branch that is not converted is refused, or one of those that are overlooked.
LEMMA BranchesAreSeen ==
  ASSUME NEW e, Relocating(e), e.status = "running", e.old < e.size, e.code[e.old + 1] # \h67,
         ~ Refused(e.mode, e.code, e.old), ~ Overlooked(e.at[Start(e)]),
         Opcode(e.at[Start(e)]) \notin {\hE8, \hE9, \hEB}
  PROVE  e.at[Start(e)].kind \in {"plain", "rip"}
  <1> DEFINE s == Start(e)
             i == e.at[s]
  <1>1. /\ s \in DOMAIN e.at /\ s \in Nat
        /\ e.a16 <=> i.head[1] = \h67
        /\ e.old = IF e.a16 THEN s + 1 ELSE s
        /\ e.code[e.old + 1] = Opcode(i)
    BY AtHand
  <1>2. SUFFICES ASSUME i.kind \notin {"plain", "rip"} PROVE FALSE
    OBVIOUS
  <1>3. Opcode(i) \notin {\hE8, \hE9, \hEB} /\ ~ Overlooked(i)
    OBVIOUS
  <1> HIDE DEF s, i
  <1>4. IsInstruction(e.mode, i)
    BY <1>1, PlacedInstruction DEF Relocating, i
  <1>5. i.kind \in {"call", "jump", "condition"} /\ ~ Prefixed(i)
    BY <1>3, <1>2, <1>4 DEF IsInstruction, Kinds, Overlooked
  <1>6. ~ e.a16 /\ e.old = s /\ Opcode(i) = i.head[1]
    BY <1>1, <1>5 DEF Prefixed, PrefixBytes, Opcode
  <1>7. IsBranch(i) /\ Opcode(i) \notin {\hE8, \hE9, \hEB}
    BY <1>3, <1>4, <1>5 DEF IsInstruction
  <1>8. \/ i.head[1] \in {\hE3} \cup \h70..\h7F
        \/ i.head[1] = \h0F /\ Len(i.head) > 1 /\ i.head[2] \in \h80..\h8F
    BY <1>5, <1>6, <1>7 DEF IsBranch
  <1>9. i.head[1] \notin {\hE3} \cup \h70..\h7F /\ ~ (i.head[1] = \h0F /\ e.code[s + 2] \in \h80..\h8F)
    BY <1>1, <1>6 DEF Refused
  <1>10. Len(i.head) > 1 /\ i.head[2] # e.code[s + 2]
    BY <1>8, <1>9
  <1>11. Len(i.head) \in Nat /\ \A k \in 1..Len(i.head) : e.code[s + k] = i.head[k]
    <2>1. IsProgram(e.mode, JumperSize, e)
      BY DEF Relocating
    <2> QED BY <1>1, <2>1, HeadIsRead DEF i
  <1>12. 2 \in 1..Len(i.head)
    BY <1>10, <1>11
  <1> QED BY <1>10, <1>11, <1>12

\* One turn of the loop.
LEMMA TurnRelocates ==
  ASSUME NEW e, Relocating(e), e.status = "running"
  PROVE  Relocating(Turn(e))
  <1> DEFINE s == Start(e)
             i == e.at[s]
             next == s + Length(i)
             branch == Branch(e.code, e.old, e.a16)
             to == Distance + e.new
             rip == LhRelocateRIPRelativeInstruction(e.mode, e.code, e.old, to)
  <1>1. EntryTypes(e) /\ e.old \in Nat /\ e.size \in Nat /\ to \in Nat
    BY ReachIsPositive DEF Relocating, EntryTypes
  <1>2. CASE e.old >= e.size
    <2>1. Turn(e) = [e EXCEPT !.status = "success"]
      BY <1>1, <1>2 DEF Turn
    <2> QED BY <1>2, <2>1, EndRelocates
  <1>3. CASE e.old < e.size /\ e.code[e.old + 1] = \h67
    <2>1. Turn(e) = [e EXCEPT !.a16 = TRUE, !.old = @ + 1]
      BY <1>1, <1>3 DEF Turn
    <2>2. Relocating([e EXCEPT !.a16 = TRUE, !.old = @ + 1])
      BY <1>3, SkipRelocates
    <2> QED BY <2>1, <2>2, Zenon
  <1>4. CASE e.old < e.size /\ e.code[e.old + 1] # \h67
    <2>1. /\ s \in DOMAIN e.at /\ s \in Nat
          /\ e.old = IF e.a16 THEN s + 1 ELSE s
          /\ LhGetInstructionLength(e.mode, e.code, s) = Length(i)
      BY <1>4, AtHand
    <2>2. IsInstruction(e.mode, i) /\ Length(i) \in Nat \ {0}
      BY <2>1, PlacedInstruction DEF Relocating
    <2>3. e.a16 => Length(i) > 1
      BY <2>1, FirstBytes DEF Relocating, Underway
    <2>4. next \in Nat /\ next - s = Length(i) /\ next - e.old \in Nat /\ (~ e.a16 => next - e.old = Length(i))
      BY <1>1, <2>1, <2>2, <2>3 DEF EntryTypes
    <2>5. Turn(e) = TurnInstruction(e, s)
      BY <1>1, <1>4 DEF Turn, Start
    <2>6. TurnInstruction(e, s) = IF Refused(e.mode, e.code, e.old) THEN Throw(e) ELSE Move(e, s, next, branch)
      BY <2>1 DEF TurnInstruction
    <2> HIDE DEF s, next, to, branch
    <2>7. CASE Refused(e.mode, e.code, e.old)
      BY <2>5, <2>6, <2>7, ThrowRelocates
    <2>8. CASE ~ Refused(e.mode, e.code, e.old) /\ branch.length > 0
      <3> DEFINE piece == Piece("converted", s, to, branch.target, ConvertedSize(e.mode), ConvertedSize(e.mode))
      <3>1. Turn(e) = Throw(e) \/ Turn(e) = Add(e, next, piece)
        BY <2>5, <2>6, <2>8 DEF Move, Convert, to, branch
      <3>2. piece \in Pieces /\ piece.from = s /\ piece.how = "converted" /\ piece.value = branch.target
        BY <1>1, <1>4, <2>1, BranchIsExact DEF Piece, Pieces, ConvertedSize, branch
      <3>3. ~ Overlooked(i) => i.kind \in {"call", "jump"} /\ branch.target = Target(i, s)
        BY <1>4, <2>8, BranchIsExact DEF s, branch
      <3> HIDE DEF piece
      <3>4. ~ Overlooked(i) => SameMeaning(piece, i)
        BY <3>2, <3>3 DEF SameMeaning
      <3>5. Relocating(Add(e, next, piece))
        BY <1>4, <3>2, <3>4, AddRelocates DEF s, next
      <3> QED BY <3>1, <3>5, ThrowRelocates
    <2>9. CASE ~ Refused(e.mode, e.code, e.old) /\ ~ branch.length > 0
      <3>1. branch.length = 0
        BY <1>4, <2>9, BranchIsExact DEF branch
      <3>2. Turn(e) = Copy(e, s, next, rip)
        BY <2>5, <2>6, <2>9 DEF Move, to
      <3>3. ~ Overlooked(i) => i.kind \in {"plain", "rip"}
        <4>1. Opcode(i) \notin {\hE8, \hE9, \hEB}
          BY <1>4, <2>9, BranchIsExact DEF s, branch
        <4> QED BY <1>4, <2>9, <4>1, BranchesAreSeen DEF s
      <3>4. /\ rip.status \in {"success", "thrown"} /\ rip.relocated \in BOOLEAN
            /\ rip.relocated => rip.status = "success" /\ rip.distance \in Int
            /\ ~ Overlooked(i) /\ i.kind = "plain" => rip = Quiet
            /\ ~ Overlooked(i) /\ i.kind = "rip" =>
                 /\ ~ e.a16
                 /\ rip.status = "thrown" \/ (rip.relocated /\ to + Length(i) + rip.distance = Target(i, s))
        BY <1>1, <1>4, RipIsExact DEF s
      <3> HIDE DEF rip, i
      <3>5. CASE rip.status = "thrown"
        <4>1. Turn(e) = Throw(e)
          BY <3>2, <3>4, <3>5 DEF Copy
        <4>2. Relocating(Throw(e))
          BY ThrowRelocates
        <4> QED BY <4>1, <4>2, Zenon
      <3>6. CASE rip.status # "thrown" /\ rip.relocated
        <4> DEFINE piece == Piece("adjusted", s, to, rip.distance, next - s, next - e.old)
        <4>1. Turn(e) = Add(e, next, piece)
          BY <3>2, <3>6 DEF Copy, to
        <4>2. piece = [how |-> "adjusted", from |-> s, to |-> to, value |-> rip.distance,
                       width |-> next - s, written |-> next - e.old]
          BY DEF Piece
        <4>3. piece \in Pieces
          BY <1>1, <2>1, <2>2, <2>4, <3>4, <3>6, <4>2 DEF Pieces
        <4>4. ~ Overlooked(i) => i.kind = "rip"
          BY <3>3, <3>4, <3>6 DEF Quiet
        <4> HIDE DEF piece
        <4>5. ~ Overlooked(i) => SameMeaning(piece, i)
          BY <2>4, <3>4, <3>6, <4>2, <4>4 DEF SameMeaning
        <4>6. Relocating(Add(e, next, piece))
          BY <1>4, <4>2, <4>3, <4>5, AddRelocates DEF s, next, i
        <4> QED BY <4>1, <4>6
      <3>7. CASE rip.status # "thrown" /\ ~ rip.relocated
        <4> DEFINE piece == Piece("copied", s, to, 0, next - s, next - s)
        <4>1. Turn(e) = Add(e, next, piece)
          BY <3>2, <3>7 DEF Copy, to
        <4>2. piece = [how |-> "copied", from |-> s, to |-> to, value |-> 0,
                       width |-> next - s, written |-> next - s]
          BY DEF Piece
        <4>3. piece \in Pieces
          BY <1>1, <2>1, <2>2, <2>4, <4>2 DEF Pieces
        <4>4. ~ Overlooked(i) => i.kind = "plain"
          BY <3>3, <3>4, <3>7
        <4> HIDE DEF piece
        <4>5. ~ Overlooked(i) => SameMeaning(piece, i)
          BY <2>4, <4>2, <4>4 DEF SameMeaning
        <4>6. Relocating(Add(e, next, piece))
          BY <1>4, <4>2, <4>3, <4>5, AddRelocates DEF s, next, i
        <4> QED BY <4>1, <4>6
      <3> QED BY <3>5, <3>6, <3>7
    <2> QED BY <2>7, <2>8, <2>9
  <1> QED BY <1>1, <1>2, <1>3, <1>4

----------------------------------------------------------------------------
(* The call. *)

TestPcs == {"open", "count", "next", "lookup", "hook", "relocate", "done", "released", "corrupt"}

Lookups == [module : STRING \cup {""}, name : STRING \cup {""}, address : Nat]

Tests == [pc : TestPcs, filter : Filters, i : Nat \ {0}, count : Nat, lookup : Lookups,
          status : {"none", "not found", "no memory", "success", "results", "string"},
          reloaded : BOOLEAN]

Errors == {"none", "export", "redirect", "allocation", "relocation"}
Results == [name : STRING, address : Nat, error : Errors]

TestTypes ==
  /\ mode \in Modes
  /\ \A m \in Modules : image[m] \in Images(m)
  /\ test \in Tests
  /\ results \in Seq(Results)

EntryInUse == IF Stage("relocate") THEN Relocating(ep) ELSE ep = NoEntryPoint

\* The names that match, and those before the one at hand.
Matching == {j \in DOMAIN Names(Module) : Matches(j)}
MatchingBefore == {j \in Matching : j < test.i}

AtExport == test.pc \in {"lookup", "hook", "relocate"}

\* The module has been there all the time.
HasStayed == loaded /\ ~ test.reloaded

\* While the module has been there all the time, the first pass has counted the names that match
\* up to the one at hand, and the second has taken no more of them.
RoomIsLeft ==
  /\ Stage("open") => test.count = 0 /\ test.i = 1
  /\ Stage("open") \/ Stage("count") => results = <<>>
  /\ Stage("count") /\ HasStayed => test.count = Cardinality(MatchingBefore)
  /\ (Stage("next") \/ AtExport) /\ HasStayed =>
       test.count = Cardinality(Matching) /\ Len(results) <= Cardinality(MatchingBefore)
  /\ AtExport => test.i \in Matching
  /\ test.status = "results" => test.reloaded

TestInv == TestTypes /\ EntryInUse /\ RoomIsLeft

\* What the tables of an image are.
LEMMA ImageTables ==
  ASSUME \A m \in Modules : image[m] \in Images(m), NEW m \in Modules
  PROVE  /\ Names(m) \in Seq(STRING) /\ DOMAIN Names(m) = 1..Len(Names(m)) /\ Len(Names(m)) \in Nat
         /\ FunctionsOf(m) \in Seq(Exports)
         /\ \A j \in DOMAIN Names(m) :
              /\ j \in Nat /\ Names(m)[j] \in STRING /\ FunctionsOf(m)[j] \in Exports
              /\ Ordinal(m, j) \in Nat /\ Redirected(m, j) \in Exports
              /\ Redirected(m, j).address \in Nat
  <1> DEFINE g == image[m]
  <1>1. g \in Images(m)
    OBVIOUS
  <1>2. /\ g.names \in Seq(STRING) /\ g.ordinals \in Seq(Nat) /\ g.functions \in Seq(Exports)
        /\ DOMAIN g.ordinals = DOMAIN g.names /\ DOMAIN g.names \subseteq DOMAIN g.functions
        /\ \A i \in DOMAIN g.ordinals : g.ordinals[i] + 1 \in DOMAIN g.functions
    BY <1>1, ImagesAreTables, Zenon
  <1> HIDE DEF g
  <1> DEFINE n == g.names
             o == g.ordinals
             f == g.functions
  <1>3. n \in Seq(STRING) /\ o \in Seq(Nat) /\ f \in Seq(Exports)
        /\ DOMAIN o = DOMAIN n /\ DOMAIN n \subseteq DOMAIN f /\ \A i \in DOMAIN o : o[i] + 1 \in DOMAIN f
    BY <1>2
  <1> HIDE DEF n, o, f
  <1>4. DOMAIN n = 1..Len(n) /\ Len(n) \in Nat
    BY <1>3
  <1>5. \A j \in DOMAIN f : f[j] \in Exports
    BY <1>3
  <1>6. \A j \in DOMAIN n : /\ j \in Nat /\ n[j] \in STRING /\ f[j] \in Exports
                            /\ o[j] \in Nat /\ f[o[j] + 1] \in Exports
    BY <1>3, <1>4, <1>5
  <1>7. \A x \in Exports : x.address \in Nat
    BY DEF Exports
  <1> QED BY <1>3, <1>4, <1>6, <1>7 DEF Names, FunctionsOf, Ordinal, Redirected, n, o, f, g

LEMMA MatchingIsFinite ==
  ASSUME TestTypes
  PROVE  /\ IsFiniteSet(Matching) /\ Cardinality(Matching) \in Nat
         /\ IsFiniteSet(MatchingBefore) /\ Cardinality(MatchingBefore) \in Nat
         /\ Cardinality(MatchingBefore) <= Cardinality(Matching)
         /\ \A j \in Matching : j \in Nat \ {0}
  <1>1. DOMAIN Names(Module) = 1..Len(Names(Module)) /\ Len(Names(Module)) \in Nat
    BY ImageTables, ModuleIsLoaded DEF TestTypes
  <1>2. IsFiniteSet(DOMAIN Names(Module))
    BY <1>1, FS_Interval
  <1>3. IsFiniteSet(Matching)
    BY <1>2, FS_Subset DEF Matching
  <1>4. MatchingBefore \subseteq Matching
    BY DEF MatchingBefore
  <1>5. \A j \in Matching : j \in Nat \ {0}
    BY <1>1 DEF Matching
  <1> QED BY <1>3, <1>4, <1>5, FS_Subset, FS_CardinalityType

\* What matches does not depend on where the call is.
LEMMA MatchingStays ==
  ASSUME image' = image, test'.filter = test.filter
  PROVE  Matching' = Matching
  BY DEF Matching, Matches, Names

\* One name further there is one more that matches, or none.
LEMMA MatchingAdvances ==
  ASSUME TestTypes, image' = image, test'.filter = test.filter, test'.i = test.i + 1
  PROVE  /\ test.i \in Matching => Cardinality(MatchingBefore') = Cardinality(MatchingBefore) + 1
         /\ test.i \notin Matching => MatchingBefore' = MatchingBefore
  <1>1. /\ IsFiniteSet(MatchingBefore) /\ Cardinality(MatchingBefore) \in Nat
        /\ \A j \in Matching : j \in Nat \ {0} /\ test.i \in Nat
    BY MatchingIsFinite DEF TestTypes, Tests
  <1>2. Matching' = Matching
    BY MatchingStays
  <1>3. CASE test.i \in Matching
    <2>1. MatchingBefore' = MatchingBefore \cup {test.i} /\ test.i \notin MatchingBefore
      BY <1>1, <1>2, <1>3 DEF MatchingBefore
    <2> QED BY <1>1, <1>3, <2>1, FS_AddElement
  <1>4. CASE test.i \notin Matching
    BY <1>1, <1>2, <1>4 DEF MatchingBefore
  <1> QED BY <1>3, <1>4

\* The call has a result more, and room for those to come.
LEMMA ResultFits ==
  ASSUME TestInv, Stage("next") \/ AtExport, test.i \in Matching,
         NEW a \in Nat, NEW error \in Errors,
         results' = Append(results, Result(Names(Module)[test.i], a, error)),
         test' \in Tests, test'.pc = "next", test'.i = test.i + 1, test'.count = test.count,
         test'.filter = test.filter, test'.status = test.status, test'.reloaded = test.reloaded,
         loaded' = loaded, image' = image, mode' = mode
  PROVE  TestTypes' /\ RoomIsLeft'
  <1> DEFINE n == Cardinality(MatchingBefore)
  <1>1. TestTypes /\ (HasStayed => test.count = Cardinality(Matching) /\ Len(results) <= n)
    BY DEF TestInv, RoomIsLeft
  <1>2. n \in Nat
    BY <1>1, MatchingIsFinite
  <1>3. Result(Names(Module)[test.i], a, error) \in Results
    <2>1. test.i \in DOMAIN Names(Module)
      BY DEF Matching
    <2>2. Names(Module)[test.i] \in STRING
      BY <1>1, <2>1, ImageTables, ModuleIsLoaded DEF TestTypes
    <2> QED BY <2>2 DEF Result, Results
  <1>4. /\ results' \in Seq(Results)
        /\ Len(results') = Len(results) + 1 /\ Len(results) \in Nat
    BY <1>1, <1>3, AppendProperties DEF TestTypes
  <1>5. TestTypes'
    BY <1>1, <1>4 DEF TestTypes
  <1>6. Matching' = Matching /\ Cardinality(MatchingBefore') = n + 1
    BY <1>1, MatchingStays, MatchingAdvances
  <1>7. HasStayed' <=> HasStayed
    BY DEF HasStayed
  <1>8. HasStayed => Len(results') <= Cardinality(MatchingBefore')
    BY <1>1, <1>2, <1>4, <1>6
  <1>9. test.status = "results" => test.reloaded
    BY DEF TestInv, RoomIsLeft
  <1> QED BY <1>1, <1>5, <1>6, <1>7, <1>8, <1>9 DEF RoomIsLeft, Stage, AtExport

\* The call stays at its export.
LEMMA ExportStays ==
  ASSUME TestInv, Stage("next") \/ AtExport, test.i \in Matching, results' = results,
         test' \in Tests, test'.pc \in {"lookup", "hook", "relocate"}, test'.i = test.i,
         test'.count = test.count, test'.filter = test.filter, test'.status = test.status,
         test'.reloaded = test.reloaded, loaded' = loaded, image' = image, mode' = mode
  PROVE  TestTypes' /\ RoomIsLeft'
  <1>1. /\ TestTypes /\ (test.status = "results" => test.reloaded)
        /\ HasStayed => test.count = Cardinality(Matching) /\ Len(results) <= Cardinality(MatchingBefore)
    BY DEF TestInv, RoomIsLeft
  <1>2. TestTypes'
    BY <1>1 DEF TestTypes
  <1>3. Matching' = Matching /\ MatchingBefore' = MatchingBefore /\ (HasStayed' <=> HasStayed)
    BY MatchingStays DEF MatchingBefore, HasStayed
  <1> QED BY <1>1, <1>2, <1>3 DEF RoomIsLeft, Stage, AtExport

LEMMA TestInitInv == TestInit => TestInv
  <1> SUFFICES ASSUME TestInit PROVE TestInv
    OBVIOUS
  <1>1. NoLookup \in Lookups
    <2>1. NoLookup = [module |-> "", name |-> "", address |-> 0]
      BY DEF NoLookup, Code, NoAddress
    <2> QED BY <2>1 DEF Lookups
  <1>2. test \in Tests /\ Stage("open") /\ test.count = 0 /\ test.i = 1 /\ test.status = "none"
    <2>1. PICK f \in Filters : test = [pc |-> "open", filter |-> f, i |-> 1, count |-> 0,
                                      lookup |-> NoLookup, status |-> "none", reloaded |-> FALSE]
      BY DEF TestInit
    <2> QED BY <1>1, <2>1 DEF Tests, TestPcs, Stage
  <1>3. TestTypes
    BY <1>2 DEF TestInit, TestTypes
  <1>4. RoomIsLeft
    BY <1>2 DEF TestInit, RoomIsLeft, Stage, AtExport
  <1>5. EntryInUse
    BY <1>2 DEF TestInit, EntryInUse, Stage
  <1> QED BY <1>3, <1>4, <1>5 DEF TestInv

\* The call ends, or gets its array.
LEMMA LeaveInv ==
  ASSUME TestInv, ~ Stage("relocate"), test' \in Tests, test'.pc \in {"done", "released", "corrupt"},
         test'.status = "results" => test'.reloaded,
         mode' = mode, image' = image, ep' = ep, results' \in Seq(Results)
  PROVE  TestInv'
  <1>1. TestTypes' /\ EntryInUse'
    BY DEF TestInv, TestTypes, EntryInUse, Stage
  <1> QED BY <1>1 DEF TestInv, RoomIsLeft, Stage, AtExport

LEMMA OpenModuleInv == TestInv /\ OpenModule => TestInv'
  <1> SUFFICES ASSUME TestInv, OpenModule PROVE TestInv'
    OBVIOUS
  <1>1. /\ TestTypes /\ test \in Tests /\ Stage("open") /\ ~ Stage("relocate") /\ results = <<>>
        /\ test.count = 0 /\ test.i = 1 /\ ep = NoEntryPoint /\ results \in Seq(Results)
        /\ test.status = "results" => test.reloaded
    BY DEF TestInv, TestTypes, OpenModule, RoomIsLeft, EntryInUse, Stage
  <1>2. mode' = mode /\ image' = image /\ results' = results /\ ep' = ep
    BY DEF OpenModule
  <1>3. CASE test' = [test EXCEPT !.pc = "count"]
    <2>1. /\ test' \in Tests /\ test'.pc = "count" /\ test'.count = 0 /\ test'.i = 1
          /\ test'.filter = test.filter /\ test'.status = test.status /\ test'.reloaded = test.reloaded
      BY <1>1, <1>3 DEF Tests, TestPcs
    <2>2. TestTypes'
      BY <1>1, <1>2, <2>1 DEF TestTypes
    <2>3. MatchingBefore' = {}
      <3>1. \A j \in Matching' : j \in Nat \ {0}
        BY <1>1, <1>2, <2>1, MatchingStays, MatchingIsFinite
      <3> QED BY <2>1, <3>1 DEF MatchingBefore
    <2>4. Cardinality(MatchingBefore') = 0
      BY <2>3, FS_EmptySet
    <2>5. RoomIsLeft'
      BY <1>1, <1>2, <2>1, <2>4 DEF RoomIsLeft, Stage, AtExport
    <2> QED BY <1>1, <1>2, <2>1, <2>2, <2>5 DEF TestInv, EntryInUse, Stage
  <1>4. CASE test' = [test EXCEPT !.pc = "done", !.status = "not found"]
    <2>1. test' \in Tests /\ test'.pc = "done" /\ test'.status = "not found"
      BY <1>1, <1>4 DEF Tests, TestPcs
    <2> QED BY <1>1, <1>2, <2>1, LeaveInv
  <1> QED BY <1>3, <1>4 DEF OpenModule

LEMMA CountExportInv == TestInv /\ CountExport => TestInv'
  <1> SUFFICES ASSUME TestInv, CountExport PROVE TestInv'
    OBVIOUS
  <1>1. /\ TestTypes /\ test \in Tests /\ Stage("count") /\ results = <<>> /\ ep = NoEntryPoint
        /\ HasStayed => test.count = Cardinality(MatchingBefore)
        /\ test.status = "results" => test.reloaded
    BY DEF TestInv, TestTypes, CountExport, RoomIsLeft, EntryInUse, Stage
  <1>2. /\ mode' = mode /\ image' = image /\ results' = results /\ ep' = ep /\ loaded' = loaded
        /\ test.i \in DOMAIN Names(Module)
    BY DEF CountExport
  <1> DEFINE n == test.i + 1
             c == IF loaded /\ Matches(test.i) THEN test.count + 1 ELSE test.count
  <1>3. test' = [test EXCEPT !.i = n, !.count = c]
    BY DEF CountExport
  <1>4. n \in Nat \ {0} /\ c \in Nat
    <2>1. test.i \in Nat \ {0} /\ test.count \in Nat
      BY <1>1 DEF Tests
    <2> QED BY <2>1
  <1> HIDE DEF n, c
  <1>5. test'.i = n /\ test'.count = c
    BY <1>1, <1>3 DEF Tests
  <1>6. /\ test' \in Tests /\ test'.pc = "count" /\ test'.filter = test.filter
        /\ test'.status = test.status /\ test'.reloaded = test.reloaded
    BY <1>1, <1>3, <1>4 DEF Tests, Stage
  <1>7. TestTypes'
    BY <1>1, <1>2, <1>6 DEF TestTypes
  <1>8. HasStayed' <=> HasStayed
    BY <1>2, <1>6 DEF HasStayed
  <1>9. ASSUME HasStayed PROVE test'.count = Cardinality(MatchingBefore')
    <2>1. /\ test.i \in Matching => Cardinality(MatchingBefore') = Cardinality(MatchingBefore) + 1
          /\ test.i \notin Matching => MatchingBefore' = MatchingBefore
      BY <1>1, <1>2, <1>5, <1>6, MatchingAdvances DEF n
    <2>2. test.i \in Matching <=> Matches(test.i)
      BY <1>2 DEF Matching
    <2>3. test.count = Cardinality(MatchingBefore) /\ loaded
      BY <1>1, <1>9 DEF HasStayed
    <2> QED BY <1>5, <2>1, <2>2, <2>3 DEF c
  <1>10. RoomIsLeft'
    BY <1>1, <1>2, <1>6, <1>8, <1>9 DEF RoomIsLeft, Stage, AtExport
  <1> QED BY <1>1, <1>2, <1>6, <1>7, <1>10 DEF TestInv, EntryInUse, Stage

LEMMA AllocateResultsInv == TestInv /\ AllocateResults => TestInv'
  <1> SUFFICES ASSUME TestInv, AllocateResults PROVE TestInv'
    OBVIOUS
  <1>1. /\ TestTypes /\ test \in Tests /\ Stage("count") /\ ~ Stage("relocate") /\ results = <<>>
        /\ ep = NoEntryPoint /\ results \in Seq(Results)
        /\ HasStayed => test.count = Cardinality(MatchingBefore)
        /\ test.status = "results" => test.reloaded
    BY DEF TestInv, TestTypes, AllocateResults, RoomIsLeft, EntryInUse, Stage
  <1>2. /\ mode' = mode /\ image' = image /\ results' = results /\ ep' = ep /\ loaded' = loaded
        /\ test.i \notin DOMAIN Names(Module)
    BY DEF AllocateResults
  <1>3. CASE test' = [test EXCEPT !.pc = "next", !.i = 1]
    <2>1. /\ test' \in Tests /\ test'.pc = "next" /\ test'.count = test.count
          /\ test'.filter = test.filter /\ test'.status = test.status /\ test'.reloaded = test.reloaded
      <3> DEFINE first == 1
      <3>1. first \in Nat \ {0} /\ "next" \in TestPcs
        BY DEF TestPcs
      <3>2. test' = [test EXCEPT !.pc = "next", !.i = first]
        BY <1>3
      <3> HIDE DEF first
      <3> QED BY <1>1, <3>1, <3>2 DEF Tests
    <2>2. Matching' = Matching /\ (HasStayed' <=> HasStayed)
      BY <1>2, <2>1, MatchingStays DEF HasStayed
    <2>3. MatchingBefore = Matching
      <3>1. DOMAIN Names(Module) = 1..Len(Names(Module)) /\ Len(Names(Module)) \in Nat
        BY <1>1, ImageTables, ModuleIsLoaded DEF TestTypes
      <3>3. test.i \in Nat \ {0}
        BY <1>1 DEF Tests
      <3>2. test.i > Len(Names(Module))
        BY <1>2, <3>1, <3>3
      <3>4. \A j \in DOMAIN Names(Module) : j < test.i
        BY <3>1, <3>2, <3>3
      <3> QED BY <3>4 DEF MatchingBefore, Matching
    <2>4. TestTypes'
      BY <1>1, <1>2, <2>1 DEF TestTypes
    <2>5. Len(results') = 0 /\ Cardinality(MatchingBefore') \in Nat
      <3>1. MatchingBefore' \subseteq Matching
        BY <2>2 DEF MatchingBefore
      <3> QED BY <1>1, <1>2, <3>1, MatchingIsFinite, FS_Subset, FS_CardinalityType
    <2>6. RoomIsLeft'
      BY <1>1, <2>1, <2>2, <2>3, <2>5 DEF RoomIsLeft, Stage, AtExport
    <2> QED BY <1>1, <1>2, <2>1, <2>4, <2>6 DEF TestInv, EntryInUse, Stage
  <1>4. CASE test' = [test EXCEPT !.pc = "done", !.count = 0, !.status = "no memory"]
    <2>1. test' \in Tests /\ test'.pc = "done" /\ test'.status = "no memory"
      BY <1>1, <1>4 DEF Tests, TestPcs
    <2> QED BY <1>1, <1>2, <2>1, LeaveInv
  <1> QED BY <1>3, <1>4 DEF AllocateResults

LEMMA LookupTypes ==
  /\ NoLookup \in Lookups
  /\ \A f \in Exports : f \in Lookups
  /\ \A a \in Nat : Code(a) \in Lookups /\ Code(a).address = a /\ ~ IsForwarder(Code(a))
  <1>1. \A a : Code(a) = [module |-> "", name |-> "", address |-> a]
    BY DEF Code
  <1>2. \A a \in Nat : Code(a) \in Lookups /\ Code(a).address = a /\ ~ IsForwarder(Code(a))
    BY <1>1 DEF Lookups, IsForwarder
  <1>3. NoLookup \in Lookups
    BY <1>2 DEF NoLookup, NoAddress
  <1>4. \A f \in Exports : f \in Lookups
    BY DEF Exports, Lookups
  <1> QED BY <1>2, <1>3, <1>4

\* The call goes to the next name.
LEMMA AdvanceTypes ==
  ASSUME test \in Tests, NEW f \in Lookups,
         test' = [test EXCEPT !.pc = "next", !.i = test.i + 1, !.lookup = f]
  PROVE  /\ test' \in Tests /\ test'.pc = "next" /\ test'.i = test.i + 1 /\ test'.count = test.count
         /\ test'.filter = test.filter /\ test'.status = test.status /\ test'.reloaded = test.reloaded
  <1> DEFINE n == test.i + 1
  <1>1. n \in Nat \ {0}
    <2>1. test.i \in Nat \ {0}
      BY DEF Tests
    <2> QED BY <2>1
  <1>2. "next" \in TestPcs
    BY DEF TestPcs
  <1>3. test' = [test EXCEPT !.pc = "next", !.i = n, !.lookup = f]
    OBVIOUS
  <1> HIDE DEF n
  <1>4. test'.i = n
    BY <1>3 DEF Tests
  <1>5. /\ test' \in Tests /\ test'.pc = "next" /\ test'.count = test.count
        /\ test'.filter = test.filter /\ test'.status = test.status /\ test'.reloaded = test.reloaded
    BY <1>1, <1>2, <1>3 DEF Tests
  <1> QED BY <1>4, <1>5 DEF n

LEMMA SkipExportInv == TestInv /\ SkipExport => TestInv'
  <1> SUFFICES ASSUME TestInv, SkipExport PROVE TestInv'
    OBVIOUS
  <1>1. /\ TestTypes /\ test \in Tests /\ Stage("next") /\ ep = NoEntryPoint
        /\ test.status = "results" => test.reloaded
        /\ HasStayed => test.count = Cardinality(Matching) /\ Len(results) <= Cardinality(MatchingBefore)
    BY DEF TestInv, TestTypes, SkipExport, RoomIsLeft, EntryInUse, Stage
  <1>2. mode' = mode /\ image' = image /\ results' = results /\ ep' = ep /\ loaded' = loaded
    BY DEF SkipExport
  <1>3. test' = [test EXCEPT !.pc = "next", !.i = test.i + 1, !.lookup = test.lookup]
    BY <1>1 DEF SkipExport, Advance, Tests
  <1>4. /\ test' \in Tests /\ test'.pc = "next" /\ test'.i = test.i + 1 /\ test'.count = test.count
        /\ test'.filter = test.filter /\ test'.status = test.status /\ test'.reloaded = test.reloaded
    <2>1. test.lookup \in Lookups
      BY <1>1 DEF Tests
    <2> QED BY <1>1, <1>3, <2>1, AdvanceTypes
  <1>5. Matching' = Matching /\ (HasStayed' <=> HasStayed)
    BY <1>2, <1>4, MatchingStays DEF HasStayed
  <1>6. ASSUME HasStayed PROVE MatchingBefore' = MatchingBefore
    <2>1. test.i \notin Matching
      BY <1>6 DEF HasStayed, SkipExport, Matching
    <2> QED BY <1>1, <1>2, <1>4, <2>1, MatchingAdvances
  <1>7. TestTypes'
    BY <1>1, <1>2, <1>4 DEF TestTypes
  <1>8. RoomIsLeft'
    BY <1>1, <1>2, <1>4, <1>5, <1>6 DEF RoomIsLeft, Stage, AtExport
  <1> QED BY <1>1, <1>2, <1>4, <1>7, <1>8 DEF TestInv, EntryInUse, Stage

\* A step that finishes the export at hand.
LEMMA FinishInv ==
  ASSUME TestInv, Stage("next") \/ AtExport, ~ Stage("relocate"), test.i \in Matching,
         NEW a \in Nat, NEW error \in Errors, Finish(a, error),
         mode' = mode, image' = image, loaded' = loaded, ep' = ep
  PROVE  TestInv'
  <1>1. test \in Tests /\ ep = NoEntryPoint
    BY DEF TestInv, TestTypes, EntryInUse
  <1>2. test' = [test EXCEPT !.pc = "next", !.i = test.i + 1, !.lookup = NoLookup]
    BY <1>1 DEF Finish, Advance, Tests
  <1>3. /\ test' \in Tests /\ test'.pc = "next" /\ test'.i = test.i + 1 /\ test'.count = test.count
        /\ test'.filter = test.filter /\ test'.status = test.status /\ test'.reloaded = test.reloaded
    BY <1>1, <1>2, AdvanceTypes, LookupTypes
  <1>4. results' = Append(results, Result(Names(Module)[test.i], a, error))
    BY DEF Finish
  <1>5. TestTypes' /\ RoomIsLeft'
    BY <1>3, <1>4, ResultFits
  <1> QED BY <1>1, <1>3, <1>5 DEF TestInv, EntryInUse, Stage

\* A step that goes on with the export at hand, before its entry point is relocated.
LEMMA GoOnInv ==
  ASSUME TestInv, Stage("next") \/ AtExport, ~ Stage("relocate"), test.i \in Matching,
         NEW p \in {"lookup", "hook"}, NEW f \in Lookups, GoOn(p, f),
         mode' = mode, image' = image, loaded' = loaded, ep' = ep
  PROVE  TestInv'
  <1>1. test \in Tests /\ ep = NoEntryPoint
    BY DEF TestInv, TestTypes, EntryInUse
  <1>2. test' = [test EXCEPT !.pc = p, !.lookup = f] /\ results' = results
    BY DEF GoOn
  <1>3. /\ test' \in Tests /\ test'.pc = p /\ test'.i = test.i /\ test'.count = test.count
        /\ test'.filter = test.filter /\ test'.status = test.status /\ test'.reloaded = test.reloaded
    BY <1>1, <1>2 DEF Tests, TestPcs
  <1>4. TestTypes' /\ RoomIsLeft'
    BY <1>2, <1>3, ExportStays
  <1> QED BY <1>1, <1>3, <1>4 DEF TestInv, EntryInUse, Stage

\* A step behind the end of an array.
LEMMA CorruptInv ==
  ASSUME TestInv, ~ Stage("relocate"), NEW w \in {"results", "string"}, Corrupt(w),
         w = "results" => test.reloaded, mode' = mode, image' = image, ep' = ep
  PROVE  TestInv'
  <1>1. test \in Tests /\ results \in Seq(Results)
    BY DEF TestInv, TestTypes
  <1>2. test' = [test EXCEPT !.pc = "corrupt", !.status = w] /\ results' = results
    BY DEF Corrupt
  <1>3. /\ test' \in Tests /\ test'.pc = "corrupt" /\ test'.status = w /\ test'.reloaded = test.reloaded
    BY <1>1, <1>2 DEF Tests, TestPcs
  <1> QED BY <1>1, <1>2, <1>3, LeaveInv

\* What is left of a name.
LEMMA ExamineInv ==
  ASSUME TestInv, Stage("next") \/ AtExport, ~ Stage("relocate"), test.i \in Matching,
         NEW m \in Modules, NEW i \in DOMAIN Names(m), NEW error \in Errors, Examine(m, i, error),
         mode' = mode, image' = image, loaded' = loaded, ep' = ep
  PROVE  TestInv'
  <1> DEFINE f == FunctionsOf(m)[i]
             g == Code(Redirected(m, i).address)
  <1>1. f \in Lookups /\ g \in Lookups
    BY ImageTables, LookupTypes DEF TestInv, TestTypes
  <1>2. \/ GoOn("lookup", f) \/ GoOn("hook", g) \/ Corrupt("string") \/ Finish(NoAddress, error)
    BY DEF Examine
  <1> HIDE DEF f, g
  <1>3. CASE GoOn("lookup", f)
    BY <1>1, <1>3, GoOnInv
  <1>4. CASE GoOn("hook", g)
    BY <1>1, <1>4, GoOnInv
  <1>5. CASE Corrupt("string")
    BY <1>5, CorruptInv
  <1>6. CASE Finish(NoAddress, error)
    <2>1. NoAddress \in Nat
      BY DEF NoAddress
    <2> QED BY <1>6, <2>1, FinishInv
  <1> QED BY <1>2, <1>3, <1>4, <1>5, <1>6

LEMMA TakeExportInv == TestInv /\ TakeExport => TestInv'
  <1> SUFFICES ASSUME TestInv, TakeExport PROVE TestInv'
    OBVIOUS
  <1>1. /\ Stage("next") /\ ~ Stage("relocate") /\ test.i \in Matching /\ loaded
        /\ test.i \in DOMAIN Names(Module)
        /\ mode' = mode /\ image' = image /\ loaded' = loaded /\ ep' = ep
    BY DEF TakeExport, Stage, Matching
  <1>2. CASE Examine(Module, test.i, "export")
    <2>1. "export" \in Errors
      BY DEF Errors
    <2> QED BY <1>1, <1>2, <2>1, ExamineInv, ModuleIsLoaded
  <1>3. CASE ~ (Len(results) < test.count) /\ Corrupt("results")
    <2>1. ASSUME ~ test.reloaded PROVE FALSE
      <3>1. TestTypes /\ test.count = Cardinality(Matching) /\ Len(results) <= Cardinality(MatchingBefore)
        BY <1>1, <2>1 DEF TestInv, RoomIsLeft, HasStayed
      <3>2. /\ IsFiniteSet(Matching) /\ Cardinality(Matching) \in Nat /\ Cardinality(MatchingBefore) \in Nat
            /\ \A j \in Matching : j \in Nat \ {0}
        BY <3>1, MatchingIsFinite
      <3>3. MatchingBefore \subseteq Matching /\ MatchingBefore # Matching
        BY <1>1, <3>2 DEF MatchingBefore
      <3>4. Cardinality(MatchingBefore) # Cardinality(Matching)
        BY <3>2, <3>3, FS_Subset
      <3>5. Cardinality(MatchingBefore) <= Cardinality(Matching)
        BY <3>1, MatchingIsFinite
      <3>6. Len(results) \in Nat
        BY <3>1 DEF TestTypes
      <3> QED BY <1>3, <3>1, <3>2, <3>4, <3>5, <3>6
    <2>2. test.reloaded
      BY <2>1 DEF TestInv, TestTypes, Tests
    <2> QED BY <1>1, <1>3, <2>2, CorruptInv
  <1> QED BY <1>2, <1>3 DEF TakeExport

LEMMA GetRemoteFuncAddressInv == TestInv /\ GetRemoteFuncAddress => TestInv'
  <1> SUFFICES ASSUME TestInv, GetRemoteFuncAddress PROVE TestInv'
    OBVIOUS
  <1> DEFINE m == test.lookup.module
  <1>1. /\ Stage("lookup") /\ AtExport /\ ~ Stage("relocate") /\ test.i \in Matching
        /\ mode' = mode /\ image' = image /\ loaded' = loaded /\ ep' = ep
    BY DEF GetRemoteFuncAddress, Stage, AtExport, TestInv, RoomIsLeft
  <1>2. "redirect" \in Errors /\ NoAddress \in Nat
    BY DEF Errors, NoAddress
  <1>3. CASE Finish(NoAddress, "redirect")
    BY <1>1, <1>2, <1>3, FinishInv
  <1>4. CASE m \in Modules /\ \E i \in DOMAIN Names(m) : Examine(m, i, "redirect")
    BY <1>1, <1>2, <1>4, ExamineInv
  <1> QED BY <1>3, <1>4 DEF GetRemoteFuncAddress

LEMMA LhAllocateHookInv == TestInv /\ LhAllocateHook => TestInv'
  <1> SUFFICES ASSUME TestInv, LhAllocateHook PROVE TestInv'
    OBVIOUS
  <1>1. /\ TestTypes /\ test \in Tests /\ Stage("hook") /\ AtExport /\ ~ Stage("relocate")
        /\ test.i \in Matching /\ mode' = mode /\ image' = image /\ loaded' = loaded
    BY DEF TestInv, TestTypes, LhAllocateHook, RoomIsLeft, Stage, AtExport
  <1>2. CASE Finish(test.lookup.address, "allocation") /\ ep' = ep
    <2>1. test.lookup.address \in Nat /\ "allocation" \in Errors
      BY <1>1 DEF Tests, Lookups, Errors
    <2> QED BY <1>1, <1>2, <2>1, FinishInv
  <1>3. CASE \E program \in Programs(mode) :
               /\ ep' = BeginRelocation(mode, program)
               /\ test' = [test EXCEPT !.pc = "relocate"]
               /\ results' = results
    <2>1. PICK program \in Programs(mode) :
            /\ ep' = BeginRelocation(mode, program)
            /\ test' = [test EXCEPT !.pc = "relocate"]
            /\ results' = results
      BY <1>3
    <2>2. mode \in {32, 64} /\ IsProgram(mode, JumperSize, program) /\ IsDecoded(mode, program)
      BY <1>1, ProgramsAreDecoded DEF TestTypes
    <2>3. Relocating(ep')
      BY <2>1, <2>2, BeginRelocates
    <2>4. /\ test' \in Tests /\ test'.pc = "relocate" /\ test'.i = test.i /\ test'.count = test.count
          /\ test'.filter = test.filter /\ test'.status = test.status /\ test'.reloaded = test.reloaded
      BY <1>1, <2>1 DEF Tests, TestPcs
    <2>5. TestTypes' /\ RoomIsLeft'
      BY <1>1, <2>1, <2>4, ExportStays
    <2> QED BY <2>3, <2>4, <2>5 DEF TestInv, EntryInUse, Stage
  <1> QED BY <1>2, <1>3 DEF LhAllocateHook

\* A step that leaves everything but the relocation as it is.
LEMMA EntryStepInv ==
  ASSUME TestInv, Stage("relocate"), Relocating(ep'),
         mode' = mode, image' = image, loaded' = loaded, test' = test, results' = results
  PROVE  TestInv'
  <1>1. TestTypes' /\ RoomIsLeft'
    BY DEF TestInv, TestTypes, RoomIsLeft, HasStayed, Stage, AtExport, Matching, MatchingBefore, Matches,
           Names
  <1>2. EntryInUse'
    BY DEF EntryInUse, Stage
  <1> QED BY <1>1, <1>2 DEF TestInv

LEMMA RoundEntryPointInv == TestInv /\ RoundEntryPoint => TestInv'
  <1> SUFFICES ASSUME TestInv, RoundEntryPoint PROVE TestInv'
    OBVIOUS
  <1>1. Relocating(ep) /\ ep.status = "rounding"
    BY DEF TestInv, EntryInUse, RoundEntryPoint
  <1>2. Relocating(ep')
    BY <1>1, RoundingRelocates DEF RoundEntryPoint
  <1> QED BY <1>2, EntryStepInv DEF RoundEntryPoint

LEMMA LhRelocateEntryPointInv == TestInv /\ LhRelocateEntryPoint => TestInv'
  <1> SUFFICES ASSUME TestInv, LhRelocateEntryPoint PROVE TestInv'
    OBVIOUS
  <1>1. Relocating(ep) /\ ep.status = "running"
    BY DEF TestInv, EntryInUse, LhRelocateEntryPoint
  <1>2. Relocating(ep')
    BY <1>1, TurnRelocates DEF LhRelocateEntryPoint
  <1> QED BY <1>2, EntryStepInv DEF LhRelocateEntryPoint

LEMMA ConcludeInv == TestInv /\ Conclude => TestInv'
  <1> SUFFICES ASSUME TestInv, Conclude PROVE TestInv'
    OBVIOUS
  <1>1. /\ TestTypes /\ test \in Tests /\ Stage("relocate") /\ AtExport /\ test.i \in Matching
        /\ mode' = mode /\ image' = image /\ loaded' = loaded /\ ep' = NoEntryPoint
    BY DEF TestInv, TestTypes, Conclude, RoomIsLeft, Stage, AtExport
  <1>2. PICK error \in {"relocation", "none"} :
          results' = Append(results, Result(Names(Module)[test.i], test.lookup.address, error))
    BY DEF Conclude
  <1>3. error \in Errors /\ test.lookup.address \in Nat
    BY <1>1 DEF Errors, Tests, Lookups
  <1>4. test' = [test EXCEPT !.pc = "next", !.i = test.i + 1, !.lookup = NoLookup]
    BY <1>1 DEF Conclude, Advance, Tests
  <1>5. /\ test' \in Tests /\ test'.pc = "next" /\ test'.i = test.i + 1 /\ test'.count = test.count
        /\ test'.filter = test.filter /\ test'.status = test.status /\ test'.reloaded = test.reloaded
    BY <1>1, <1>4, AdvanceTypes, LookupTypes
  <1>6. TestTypes' /\ RoomIsLeft'
    BY <1>1, <1>2, <1>3, <1>5, ResultFits
  <1> QED BY <1>1, <1>5, <1>6 DEF TestInv, EntryInUse, Stage

LEMMA WriteReportInv == TestInv /\ WriteReport => TestInv'
  <1> SUFFICES ASSUME TestInv, WriteReport PROVE TestInv'
    OBVIOUS
  <1>1. /\ test \in Tests /\ results \in Seq(Results) /\ ~ Stage("relocate")
        /\ mode' = mode /\ image' = image /\ results' = results /\ ep' = ep
    BY DEF TestInv, TestTypes, WriteReport, Stage
  <1>2. test' \in Tests /\ test'.pc = "done" /\ test'.status # "results"
    <2>1. PICK status \in {"success", "not found"} :
            test' = [test EXCEPT !.pc = "done", !.status = status]
      BY DEF WriteReport
    <2> QED BY <1>1, <2>1 DEF Tests, TestPcs
  <1> QED BY <1>1, <1>2, LeaveInv

LEMMA ReleaseInv == TestInv /\ ReleaseTestFuncHookResults => TestInv'
  <1> SUFFICES ASSUME TestInv, ReleaseTestFuncHookResults PROVE TestInv'
    OBVIOUS
  <1>1. /\ test \in Tests /\ ~ Stage("relocate") /\ (test.status = "results" => test.reloaded)
        /\ mode' = mode /\ image' = image /\ results' = <<>> /\ ep' = ep
        /\ test' = [test EXCEPT !.pc = "released", !.count = 0]
    BY DEF TestInv, TestTypes, RoomIsLeft, ReleaseTestFuncHookResults, Stage
  <1>2. /\ test' \in Tests /\ test'.pc = "released" /\ test'.status = test.status
        /\ test'.reloaded = test.reloaded
    BY <1>1 DEF Tests, TestPcs
  <1>3. results' \in Seq(Results)
    BY <1>1
  <1> QED BY <1>1, <1>2, <1>3, LeaveInv

LEMMA UnloadModuleInv == TestInv /\ UnloadModule => TestInv'
  <1> SUFFICES ASSUME TestInv, UnloadModule PROVE TestInv'
    OBVIOUS
  <1>1. /\ mode' = mode /\ image' = image /\ test' = test /\ results' = results /\ ep' = ep
        /\ ~ HasStayed'
    BY DEF UnloadModule, HasStayed
  <1>2. Matching' = Matching
    BY <1>1, MatchingStays
  <1> QED BY <1>1, <1>2 DEF TestInv, TestTypes, RoomIsLeft, EntryInUse, Stage, AtExport

LEMMA ReloadModuleInv == TestInv /\ ReloadModule => TestInv'
  <1> SUFFICES ASSUME TestInv, ReloadModule PROVE TestInv'
    OBVIOUS
  <1>1. /\ mode' = mode /\ image' = image /\ results' = results /\ ep' = ep /\ test \in Tests
        /\ test' = [test EXCEPT !.reloaded = TRUE]
    BY DEF TestInv, TestTypes, ReloadModule
  <1>2. /\ test' \in Tests /\ test'.pc = test.pc /\ test'.i = test.i /\ test'.count = test.count
        /\ test'.filter = test.filter /\ test'.status = test.status /\ test'.reloaded /\ ~ HasStayed'
    BY <1>1 DEF Tests, HasStayed
  <1>3. Matching' = Matching
    BY <1>1, <1>2, MatchingStays
  <1> QED BY <1>1, <1>2, <1>3 DEF TestInv, TestTypes, RoomIsLeft, EntryInUse, Stage, AtExport

\* Nothing that the invariant speaks about changes.
LEMMA TestStutters ==
  ASSUME TestInv, UNCHANGED testVars
  PROVE  TestInv'
  BY DEF testVars, TestInv, TestTypes, RoomIsLeft, HasStayed, EntryInUse, Stage, AtExport, Matching,
         MatchingBefore, Matches, Names

LEMMA TestStepInv == TestInv /\ [TestNext]_testVars => TestInv'
  BY OpenModuleInv, CountExportInv, AllocateResultsInv, SkipExportInv, TakeExportInv,
     GetRemoteFuncAddressInv, LhAllocateHookInv, RoundEntryPointInv, LhRelocateEntryPointInv,
     ConcludeInv, WriteReportInv, ReleaseInv, UnloadModuleInv, ReloadModuleInv, TestStutters DEF TestNext

\* The inductive invariant of TestFuncHooks holds.
LEMMA TestInvHolds == TestSpec => []TestInv
  BY TestInitInv, TestStepInv, PTL DEF TestSpec

----------------------------------------------------------------------------
(* What the properties say about the call and the relocation. *)

\* The second pass writes no result behind the array that the first pass measured, unless the
\* module was unloaded and loaded again during the call (thread.c 1630-1706).
THEOREM ResultsFitAlways == TestSpec => []ResultsFit
  <1>1. TestInv => ResultsFit
    BY DEF TestInv, RoomIsLeft, ResultsFit
  <1> QED BY <1>1, TestInvHolds, PTL

\* The instructions of a relocation that has ended are those of its size.
LEMMA EndIsWhole ==
  ASSUME NEW e, Relocating(e), e.size >= JumperSize
  PROVE  {b \in DOMAIN e.at : b < e.size} = {b \in Boundaries(e.at) : b < e.size}
  <1>1. e.size \in Nat /\ \A c \in DOMAIN e.at : c \in Nat /\ Length(e.at[c]) \in Nat
    BY PlacedInstruction DEF Relocating, EntryTypes
  <1>2. ASSUME NEW c \in DOMAIN e.at, c + Length(e.at[c]) < e.size
        PROVE  c + Length(e.at[c]) \in DOMAIN e.at
    <2>1. c < e.size
      BY <1>1, <1>2
    <2> QED BY <1>2, <2>1, NextInstruction
  <1> QED BY <1>2 DEF Boundaries

\* What the jumper overwrites is a number of whole instructions, and a relocation that succeeds has
\* moved every one of them and nothing else (reloc.c 66-108, 205-394).
THEOREM EntryIsWholeHolds == TestSpec => []EntryIsWhole
  <1>1. TestInv => EntryIsWhole
    <2> SUFFICES ASSUME TestInv, ep.status \in {"running", "success", "thrown"}
                 PROVE  /\ ep.size >= JumperSize /\ ep.size \in Boundaries(ep.at)
                        /\ ep.status = "success" =>
                             {ep.moved[k].from : k \in DOMAIN ep.moved} = {b \in Boundaries(ep.at) : b < ep.size}
      BY DEF EntryIsWhole
    <2>1. Relocating(ep)
      BY DEF TestInv, EntryInUse, NoEntryPoint
    <2>2. ep.size >= JumperSize /\ ep.size \in Boundaries(ep.at)
      BY <2>1 DEF Relocating, Rounded
    <2>3. ASSUME ep.status = "success"
          PROVE  {ep.moved[k].from : k \in DOMAIN ep.moved} = {b \in Boundaries(ep.at) : b < ep.size}
      <3>1. Start(ep) = ep.size /\ MovedUpTo(ep)
        BY <2>1, <2>3 DEF Relocating
      <3>2. {ep.moved[k].from : k \in DOMAIN ep.moved} = {b \in DOMAIN ep.at : b < ep.size}
        BY <3>1 DEF MovedUpTo
      <3> QED BY <2>1, <2>2, <3>2, EndIsWhole
    <2> QED BY <2>2, <2>3
  <1> QED BY <1>1, TestInvHolds, PTL

\* The code that is moved does in its new place what it did before, for every program, distance and
\* number of bits that the model admits (reloc.c 110-394).
THEOREM RelocationKeepsMeaningHolds == TestSpec => []RelocationKeepsMeaning
  <1>1. TestInv => RelocationKeepsMeaning
    <2> SUFFICES ASSUME TestInv, ep.status = "success"
                 PROVE  \A k \in DOMAIN ep.moved :
                          LET i == ep.at[ep.moved[k].from] IN ~ Overlooked(i) => SameMeaning(ep.moved[k], i)
      BY DEF RelocationKeepsMeaning
    <2>1. Relocating(ep)
      BY DEF TestInv, EntryInUse, NoEntryPoint
    <2> QED BY <2>1 DEF Relocating, MeaningKept
  <1> QED BY <1>1, TestInvHolds, PTL

----------------------------------------------------------------------------
(* Redirections. *)

AllReadable == \A m \in Modules : InOrder(m) /\ OneSpelling(m)

\* The call follows the chain of forwarders of its export, and reports where it ends.
Followed ==
  LET name == Names(Module)[test.i] IN
  /\ Stage("lookup") =>
       IsForwarder(test.lookup) /\ \A S \in Chains(name) : test.lookup \in S
  /\ test.pc \in {"hook", "relocate"} => Resolves(name, test.lookup.address)
  /\ \A k \in DOMAIN results :
       results[k].address # NoAddress => Resolves(results[k].name, results[k].address)

FollowInv == AllReadable => Followed

\* What is exported is a function of some module.
LEMMA ExportsAreFunctions ==
  ASSUME \A m \in Modules : image[m] \in Images(m), NEW m \in Modules, NEW name
  PROVE  Exported(m, name) \subseteq AllFunctions
  <1>1. \A i \in DOMAIN Names(m) : Ordinal(m, i) + 1 \in DOMAIN FunctionsOf(m)
    BY ImagesAreTables DEF FunctionsOf, Names, Ordinal
  <1>2. Exported(m, name) \subseteq Range(FunctionsOf(m))
    BY <1>1 DEF Exported, Range
  <1> QED BY <1>2 DEF AllFunctions

\* What is read for a name in a layout that can be read: the function itself, and whether it is a
\* forwarder.
LEMMA ReadableExports ==
  ASSUME \A m \in Modules : image[m] \in Images(m), AllReadable, NEW m \in Modules,
         NEW i \in DOMAIN Names(m)
  PROVE  LET f == FunctionsOf(m)[i]
             g == Redirected(m, i)
         IN /\ g \in Exported(m, Names(m)[i])
            /\ IsForwarder(f) => f = g
            /\ ~ IsForwarder(f) => ~ IsForwarder(g)
  <1> DEFINE F == FunctionsOf(m)
  <1>1. i \in Nat /\ Ordinal(m, i) \in Nat
    BY ImageTables
  <1>2. i \in DOMAIN F /\ Ordinal(m, i) + 1 \in DOMAIN F
    BY ImagesAreTables DEF FunctionsOf, Names, Ordinal
  <1>3. Redirected(m, i) = F[Ordinal(m, i) + 1]
    BY DEF Redirected
  <1>4. Redirected(m, i) \in Exported(m, Names(m)[i])
    BY DEF Redirected, Exported
  <1>5. CASE Ordinal(m, i) = i - 1
    <2>1. Ordinal(m, i) + 1 = i
      BY <1>1, <1>5
    <2> QED BY <1>3, <1>4, <2>1
  <1>6. CASE \A k \in DOMAIN F : ~ IsForwarder(F[k])
    BY <1>2, <1>3, <1>4, <1>6
  <1> QED BY <1>5, <1>6 DEF AllReadable, InOrder

\* Two spellings of a name that a forwarder asks for are the same.
LEMMA SpellingsAgree ==
  ASSUME TestInv, AllReadable, Followed, Stage("lookup"), NEW m \in Modules, m = test.lookup.module,
         NEW i \in DOMAIN Names(m), Same(Names(m)[i], test.lookup.name)
  PROVE  Names(m)[i] = test.lookup.name
  <1>1. test.lookup \in AllFunctions
    <2>1. AllFunctions \in Chains(Names(Module)[test.i])
      BY ExportsAreFunctions, ModuleIsLoaded DEF Chains, LeadsTo, TestInv, TestTypes
    <2> QED BY <2>1 DEF Followed
  <1>2. Names(m)[i] \in Spellings(m)
    BY DEF Spellings, Range
  <1>3. test.lookup.name \in Spellings(m)
    BY <1>1 DEF Spellings
  <1> QED BY <1>2, <1>3 DEF AllReadable, OneSpelling

\* The tables do not change, nor do the chains of forwarders.
LEMMA ChainsStay ==
  ASSUME image' = image
  PROVE  /\ \A name, a : Resolves(name, a)' <=> Resolves(name, a)
         /\ \A name : Chains(name)' = Chains(name)
         /\ AllReadable' <=> AllReadable
  <1>1. \A m : Names(m)' = Names(m) /\ FunctionsOf(m)' = FunctionsOf(m)
    BY DEF Names, FunctionsOf
  <1>2. \A m, i : Ordinal(m, i)' = Ordinal(m, i)
    BY DEF Ordinal
  <1>3. \A m, name : Exported(m, name)' = Exported(m, name)
    BY <1>1, <1>2 DEF Exported
  <1>4. \A f : LeadsTo(f)' = LeadsTo(f)
    BY <1>3 DEF LeadsTo
  <1>5. AllFunctions' = AllFunctions
    BY <1>1 DEF AllFunctions
  <1>6. \A name : Chains(name)' = Chains(name)
    BY <1>3, <1>4, <1>5 DEF Chains
  <1>7. AllReadable' <=> AllReadable
    BY <1>1, <1>2, <1>5 DEF AllReadable, InOrder, OneSpelling, Spellings
  <1> QED BY <1>6, <1>7 DEF Resolves

LEMMA FollowInit == TestInit => FollowInv
  <1> SUFFICES ASSUME TestInit PROVE Followed
    BY DEF FollowInv
  <1>1. test.pc = "open"
    BY DEF TestInit
  <1>2. results = <<>>
    BY DEF TestInit
  <1>3. DOMAIN results = {}
    BY <1>2
  <1> QED BY <1>1, <1>3 DEF Followed, Stage

\* A result that is added keeps the promise of those before it.
LEMMA ResultFollows ==
  ASSUME TestInv, Followed, image' = image, test'.pc = "next",
         NEW name, NEW a, NEW error, a # NoAddress => Resolves(name, a),
         results' = Append(results, Result(name, a, error))
  PROVE  Followed'
  <1>1. \A k \in DOMAIN results :
          results[k].address # NoAddress => Resolves(results[k].name, results[k].address)
    BY DEF Followed
  <1>2. results \in Seq(Results)
    BY DEF TestInv, TestTypes
  <1> DEFINE r == Result(name, a, error)
             n == Len(results) + 1
  <1>3. r.name = name /\ r.address = a
    BY DEF Result
  <1> HIDE DEF r
  <1>4. /\ DOMAIN results' = DOMAIN results \cup {n} /\ results'[n] = r
        /\ \A k \in DOMAIN results : results'[k] = results[k]
    BY <1>2 DEF r
  <1> HIDE DEF n
  <1>5. \A k \in DOMAIN results' :
          results'[k].address # NoAddress => Resolves(results'[k].name, results'[k].address)
    BY <1>1, <1>3, <1>4
  <1>6. \A m, b : Resolves(m, b)' <=> Resolves(m, b)
    BY ChainsStay
  <1>7. (\A k \in DOMAIN results :
          results[k].address # NoAddress => Resolves(results[k].name, results[k].address))'
    BY <1>5, <1>6 DEF NoAddress
  <1> QED BY <1>7 DEF Followed, Stage

\* A step that neither adds a result nor looks anything up.
LEMMA NothingFollows ==
  ASSUME Followed, image' = image, results' = results \/ results' = <<>>,
         test'.pc \notin {"lookup", "hook", "relocate"}
  PROVE  Followed'
  <1>1. \A name, a : Resolves(name, a)' <=> Resolves(name, a)
    BY ChainsStay
  <1>2. (\A k \in DOMAIN results :
          results[k].address # NoAddress => Resolves(results[k].name, results[k].address))'
    <2>1. CASE results' = results
      BY <1>1, <2>1 DEF Followed, NoAddress
    <2>2. CASE results' = <<>>
      <3>1. DOMAIN results' = {}
        BY <2>2
      <3> QED BY <3>1
    <2> QED BY <2>1, <2>2
  <1> QED BY <1>2 DEF Followed, Stage

\* A step to a lookup or an address that the chain leads to.
LEMMA StepFollows ==
  ASSUME Followed, image' = image, results' = results, test'.i = test.i,
         test'.pc \in {"lookup", "hook", "relocate"},
         test'.pc = "lookup" => /\ IsForwarder(test'.lookup)
                                /\ \A S \in Chains(Names(Module)[test.i]) : test'.lookup \in S,
         test'.pc # "lookup" => Resolves(Names(Module)[test.i], test'.lookup.address)
  PROVE  Followed'
  <1> DEFINE name == Names(Module)[test.i]
  <1>1. name' = name
    BY DEF Names
  <1>2. Chains(name)' = Chains(name) /\ \A n, a : Resolves(n, a)' <=> Resolves(n, a)
    <2>1. \A n : Chains(n)' = Chains(n)
      BY ChainsStay
    <2>2. \A n, a : Resolves(n, a)' <=> Resolves(n, a)
      BY ChainsStay
    <2> QED BY <1>1, <2>1, <2>2 DEF Chains, AllFunctions, Exported, LeadsTo, FunctionsOf, Names, Ordinal
  <1>3. (\A k \in DOMAIN results :
          results[k].address # NoAddress => Resolves(results[k].name, results[k].address))'
    BY <1>2 DEF Followed, NoAddress
  <1>4. (Stage("lookup") => IsForwarder(test.lookup) /\ \A S \in Chains(name) : test.lookup \in S)'
    BY <1>2 DEF Stage, IsForwarder
  <1>5. (test.pc \in {"hook", "relocate"} => Resolves(name, test.lookup.address))'
    BY <1>1, <1>2
  <1> QED BY <1>3, <1>4, <1>5 DEF Followed

\* A turn that ends without an address.
LEMMA NoAddressFollows ==
  ASSUME TestInv, Followed, image' = image, NEW error, Finish(NoAddress, error)
  PROVE  Followed'
  <1>1. test \in Tests
    BY DEF TestInv, TestTypes
  <1>2. results' = Append(results, Result(Names(Module)[test.i], NoAddress, error))
    BY DEF Finish
  <1>3. test' = [test EXCEPT !.pc = "next", !.i = test.i + 1, !.lookup = NoLookup]
    BY <1>1 DEF Finish, Advance, Tests
  <1>4. test'.pc = "next"
    BY <1>1, <1>3 DEF Tests
  <1> QED BY <1>2, <1>4, ResultFollows

LEMMA CorruptFollows ==
  ASSUME TestInv, Followed, image' = image, NEW w, Corrupt(w)
  PROVE  Followed'
  <1>1. test \in Tests
    BY DEF TestInv, TestTypes
  <1>2. test'.pc = "corrupt" /\ results' = results
    BY <1>1 DEF Corrupt, Tests
  <1> QED BY <1>2, NothingFollows

\* What the code makes of a name to which the chain leads.
LEMMA ExamineFollows ==
  ASSUME TestInv, AllReadable, Followed, image' = image, NEW m \in Modules, NEW i \in DOMAIN Names(m),
         NEW error, Examine(m, i, error),
         \A S \in Chains(Names(Module)[test.i]) : Exported(m, Names(m)[i]) \subseteq S
  PROVE  Followed'
  <1> DEFINE name == Names(Module)[test.i]
             f == FunctionsOf(m)[i]
             g == Redirected(m, i)
             c == Code(g.address)
  <1>1. test \in Tests /\ \A n \in Modules : image[n] \in Images(n)
    BY DEF TestInv, TestTypes
  <1>2. /\ g \in Exported(m, Names(m)[i])
        /\ IsForwarder(f) => f = g
        /\ ~ IsForwarder(f) => ~ IsForwarder(g)
    BY <1>1, ReadableExports
  <1>3. \A S \in Chains(name) : g \in S
    BY <1>2
  <1>4. g.address \in Nat
    BY <1>1, ImageTables
  <1>5. c.address = g.address
    BY <1>4, LookupTypes
  <1>6. \/ IsForwarder(f) /\ GoOn("lookup", f)
        \/ ~ IsForwarder(f) /\ GoOn("hook", c)
        \/ Corrupt("string") \/ Finish(NoAddress, error)
    BY DEF Examine
  <1> HIDE DEF f, g, c, name
  <1>7. CASE IsForwarder(f) /\ GoOn("lookup", f)
    <2>1. test'.pc = "lookup" /\ test'.i = test.i /\ test'.lookup = f /\ results' = results
      BY <1>1, <1>7 DEF Tests, GoOn
    <2>2. IsForwarder(test'.lookup) /\ \A S \in Chains(name) : test'.lookup \in S
      BY <1>2, <1>3, <1>7, <2>1
    <2> QED BY <2>1, <2>2, StepFollows DEF name
  <1>8. CASE ~ IsForwarder(f) /\ GoOn("hook", c)
    <2>1. test'.pc = "hook" /\ test'.i = test.i /\ test'.lookup = c /\ results' = results
      BY <1>1, <1>8 DEF Tests, GoOn
    <2>2. Resolves(name, g.address)
      BY <1>2, <1>3, <1>8 DEF Resolves
    <2> QED BY <1>5, <2>1, <2>2, StepFollows DEF name
  <1> QED BY <1>6, <1>7, <1>8, CorruptFollows, NoAddressFollows

LEMMA TakeExportFollows == TestInv /\ AllReadable /\ Followed /\ TakeExport => Followed'
  <1> SUFFICES ASSUME TestInv, AllReadable, Followed, TakeExport PROVE Followed'
    OBVIOUS
  <1>1. test.i \in DOMAIN Names(Module) /\ image' = image
    BY DEF TakeExport
  <1>2. \A S \in Chains(Names(Module)[test.i]) : Exported(Module, Names(Module)[test.i]) \subseteq S
    BY DEF Chains
  <1>3. CASE Examine(Module, test.i, "export")
    BY <1>1, <1>2, <1>3, ExamineFollows, ModuleIsLoaded
  <1>4. CASE Corrupt("results")
    BY <1>1, <1>4, CorruptFollows
  <1> QED BY <1>3, <1>4 DEF TakeExport

LEMMA GetRemoteFuncAddressFollows ==
  TestInv /\ AllReadable /\ Followed /\ GetRemoteFuncAddress => Followed'
  <1> SUFFICES ASSUME TestInv, AllReadable, Followed, GetRemoteFuncAddress PROVE Followed'
    OBVIOUS
  <1> DEFINE m == test.lookup.module
             name == Names(Module)[test.i]
  <1>1. Stage("lookup") /\ image' = image
    BY DEF GetRemoteFuncAddress
  <1>2. IsForwarder(test.lookup) /\ \A S \in Chains(name) : test.lookup \in S
    BY <1>1 DEF Followed
  <1>3. CASE Finish(NoAddress, "redirect")
    BY <1>1, <1>3, NoAddressFollows
  <1>4. CASE m \in Modules /\ \E i \in DOMAIN Names(m) :
               Same(Names(m)[i], test.lookup.name) /\ Examine(m, i, "redirect")
    <2>1. PICK i \in DOMAIN Names(m) :
            Same(Names(m)[i], test.lookup.name) /\ Examine(m, i, "redirect")
      BY <1>4
    <2>2. Names(m)[i] = test.lookup.name
      BY <1>1, <1>4, <2>1, SpellingsAgree
    <2>3. LeadsTo(test.lookup) = Exported(m, Names(m)[i])
      BY <1>2, <1>4, <2>2 DEF LeadsTo
    <2>4. \A S \in Chains(name) : Exported(m, Names(m)[i]) \subseteq S
      BY <1>2, <2>3 DEF Chains
    <2> QED BY <1>1, <1>4, <2>1, <2>4, ExamineFollows
  <1> QED BY <1>3, <1>4 DEF GetRemoteFuncAddress

LEMMA LhAllocateHookFollows == TestInv /\ Followed /\ LhAllocateHook => Followed'
  <1> SUFFICES ASSUME TestInv, Followed, LhAllocateHook PROVE Followed'
    OBVIOUS
  <1> DEFINE name == Names(Module)[test.i]
  <1>1. test \in Tests /\ Stage("hook") /\ image' = image
    BY DEF TestInv, TestTypes, LhAllocateHook
  <1>2. Resolves(name, test.lookup.address)
    BY <1>1 DEF Followed, Stage
  <1>3. CASE Finish(test.lookup.address, "allocation")
    <2>1. /\ test' = [test EXCEPT !.pc = "next", !.i = test.i + 1, !.lookup = NoLookup]
          /\ results' = Append(results, Result(name, test.lookup.address, "allocation"))
      BY <1>1, <1>3 DEF Finish, Advance, Tests
    <2>2. test'.pc = "next"
      BY <1>1, <2>1 DEF Tests
    <2> QED BY <1>1, <1>2, <2>1, <2>2, ResultFollows
  <1>4. CASE test' = [test EXCEPT !.pc = "relocate"] /\ results' = results
    <2>1. test'.pc = "relocate" /\ test'.i = test.i /\ test'.lookup = test.lookup
      BY <1>1, <1>4 DEF Tests
    <2> QED BY <1>1, <1>2, <1>4, <2>1, StepFollows
  <1> QED BY <1>3, <1>4 DEF LhAllocateHook

LEMMA ConcludeFollows == TestInv /\ Followed /\ Conclude => Followed'
  <1> SUFFICES ASSUME TestInv, Followed, Conclude PROVE Followed'
    OBVIOUS
  <1> DEFINE name == Names(Module)[test.i]
  <1>1. test \in Tests /\ Stage("relocate") /\ image' = image
    BY DEF TestInv, TestTypes, Conclude
  <1>2. Resolves(name, test.lookup.address)
    BY <1>1 DEF Followed, Stage
  <1>3. PICK error \in {"relocation", "none"} :
          results' = Append(results, Result(name, test.lookup.address, error))
    BY DEF Conclude
  <1>4. test'.pc = "next"
    BY <1>1 DEF Conclude, Advance, Tests
  <1> QED BY <1>1, <1>2, <1>3, <1>4, ResultFollows

\* Steps that stay at a stage, or leave the exports alone.
LEMMA StageStays ==
  ASSUME Followed, image' = image, test'.pc = test.pc, test'.i = test.i, test'.lookup = test.lookup,
         results' = results
  PROVE  Followed'
  <1>1. CASE test.pc \in {"lookup", "hook", "relocate"}
    BY <1>1, StepFollows DEF Followed, Stage
  <1>2. CASE test.pc \notin {"lookup", "hook", "relocate"}
    BY <1>2, NothingFollows
  <1> QED BY <1>1, <1>2

LEMMA FollowStep == TestInv /\ FollowInv /\ [TestNext]_testVars => FollowInv'
  <1> SUFFICES ASSUME TestInv, FollowInv, [TestNext]_testVars PROVE FollowInv'
    OBVIOUS
  <1>1. image' = image
    BY DEF TestNext, testVars, OpenModule, CountExport, AllocateResults, SkipExport, TakeExport,
           GetRemoteFuncAddress, LhAllocateHook, RoundEntryPoint, LhRelocateEntryPoint, Conclude,
           WriteReport, ReleaseTestFuncHookResults, UnloadModule, ReloadModule
  <1>2. AllReadable' <=> AllReadable
    BY <1>1, ChainsStay
  <1>3. SUFFICES ASSUME AllReadable, Followed PROVE Followed'
    BY <1>2 DEF FollowInv
  <1>4. test \in Tests
    BY DEF TestInv, TestTypes
  <1>5. CASE OpenModule \/ CountExport \/ AllocateResults \/ WriteReport \/ ReleaseTestFuncHookResults
             \/ SkipExport
    <2>1. results' = results \/ results' = <<>>
      BY <1>5 DEF OpenModule, CountExport, AllocateResults, WriteReport, ReleaseTestFuncHookResults, SkipExport
    <2>2. test'.pc \in {"count", "done", "next", "released"}
      BY <1>4, <1>5 DEF OpenModule, CountExport, AllocateResults, WriteReport, ReleaseTestFuncHookResults,
                        SkipExport, Advance, Tests, Stage
    <2> QED BY <1>1, <1>3, <2>1, <2>2, NothingFollows
  <1>6. CASE RoundEntryPoint \/ LhRelocateEntryPoint \/ UnloadModule \/ UNCHANGED testVars
    <2>1. test' = test /\ results' = results
      BY <1>6 DEF RoundEntryPoint, LhRelocateEntryPoint, UnloadModule, testVars
    <2> QED BY <1>1, <1>3, <2>1, StageStays
  <1>7. CASE ReloadModule
    <2>1. /\ test'.pc = test.pc /\ test'.i = test.i /\ test'.lookup = test.lookup
          /\ results' = results
      BY <1>4, <1>7 DEF ReloadModule, Tests
    <2> QED BY <1>1, <1>3, <2>1, StageStays
  <1> QED BY <1>3, <1>5, <1>6, <1>7, TakeExportFollows, GetRemoteFuncAddressFollows,
             LhAllocateHookFollows, ConcludeFollows DEF TestNext

\* Where names are spelt in one way and every module's names and ordinals agree, or nothing is
\* forwarded, each address reported is the one that the loader of Windows would find, however long
\* the chain of forwarders, whatever the modules hold and whenever the module is unloaded and loaded
\* again (thread.c 837-1029, 1688-1745).
THEOREM ResolvesLikeLoaderHolds == TestSpec => []ResolvesLikeLoader
  <1>1. FollowInv => ResolvesLikeLoader
    BY DEF FollowInv, AllReadable, Followed, ResolvesLikeLoader, AddressesAreRight
  <1> QED BY <1>1, TestInvHolds, FollowInit, FollowStep, PTL DEF TestSpec

=============================================================================
