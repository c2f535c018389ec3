-------------------------- MODULE RemoteInjection --------------------------
(***************************************************************************)
(* Remote injection: RhCreateAndInject and RhInjectLibrary                 *)
(* (EasyHookDll/RemoteHook/thread.c) in the injecting process; in the      *)
(* target the remote thread, which executes the injection stub of          *)
(* DriverShared/ASM and HookCompleteInjection                              *)
(* (EasyHookDll/RemoteHook/entry.cpp).  The remote thread is created       *)
(* directly or by StealthThread, which this module extends.                *)
(*                                                                         *)
(* One injection into a running process or into one created suspended.     *)
(* The target can be gone at any time, and every call of the operating     *)
(* system that the code checks can fail.                                   *)
(***************************************************************************)
EXTENDS StealthThread

CONSTANT Main  \* the thread a created process starts with

ASSUME MainIsAThread == Main \in Threads

VARIABLES
  injector,     \* pc of RhInjectLibrary, its options, its outcome, hRemoteThread, reopening
  alive,        \* the target exists
  terminated,   \* what TerminateProcess ended: nothing, the created process, another one
  thunk,        \* the thread of NtForceLdrInitializeThunk
  page,         \* remote code and REMOTE_INFO
  signal,       \* hSignal is set
  remoteSignal, \* its duplicate in the target
  info,         \* REMOTE_INFO.hRemoteSignal is not NULL
  thread,       \* the remote thread: pc, exit code, what loads the managed library
  easyHook,     \* references to EasyHook's own DLL in the target
  userLibrary,  \* what the target has of the user library: nothing, a connection of its loader
                \* to the host (made or refused), the library loaded, its code entered
  woken         \* what RhWakeUpProcess did: not called, resumed, failed

remoteVars == <<alive, thunk, page, signal, remoteSignal, info, thread, easyHook, userLibrary, woken>>

vars == <<stealthVars, injector, terminated, remoteVars>>

Init ==
  /\ StealthInit
  /\ injector = [pc |-> "idle", create |-> FALSE, managed |-> FALSE, stealth |-> FALSE,
                 outcome |-> "none", holds |-> FALSE, reopened |-> TRUE]
  /\ alive = TRUE /\ terminated = "none"
  /\ thunk = "none"
  /\ page = "none"
  /\ signal = FALSE
  /\ remoteSignal = "none"
  /\ info = FALSE
  /\ thread = [pc |-> "none", exit |-> "none", loader |-> "none"]
  /\ easyHook = 0
  /\ userLibrary = "none"
  /\ woken = "no"
  /\ Main \in present

----------------------------------------------------------------------------
(* The injecting process. *)

In(p) == injector.pc = p
Goto(p) == injector' = [injector EXCEPT !.pc = p]
Ends(outcome) == injector' = [injector EXCEPT !.pc = "outro", !.outcome = outcome]

\* RhInjectLibrary is called for a running process.
InjectLibrary(managed, stealth) ==
  /\ In("idle")
  /\ injector' = [injector EXCEPT !.pc = "open", !.managed = managed, !.stealth = stealth]
  /\ UNCHANGED <<stealthVars, terminated, remoteVars>>

\* RhCreateAndInject: the process has its main thread only, suspended once.
CreateAndInject(managed, stealth) ==
  /\ In("idle")
  /\ injector' = [injector EXCEPT !.pc = "open", !.create = TRUE,
                                  !.managed = managed, !.stealth = stealth]
  /\ present' = {Main}
  /\ suspend' = [t \in Threads |-> IF t = Main THEN 1 ELSE 0]
  /\ UNCHANGED <<host, code, work, rest, remote, events, handles, made, terminated, remoteVars>>

\* Parameters, OpenProcess, bitness and library path are checked.
OpenTarget ==
  /\ In("open") /\ alive
  /\ Goto("thunk")
  /\ UNCHANGED <<stealthVars, terminated, remoteVars>>

\* NtForceLdrInitializeThunk starts a thread that returns at once ...
ForceLdrInitializeThunk ==
  /\ In("thunk") /\ alive
  /\ thunk' = "running"
  /\ Goto("thunkWait")
  /\ UNCHANGED <<stealthVars, terminated, alive, page, signal, remoteSignal, info, thread,
                 easyHook, userLibrary, woken>>

\* ... and waits for its end.
AwaitThunk ==
  /\ In("thunkWait") /\ thunk = "ended"
  /\ Goto("code")
  /\ UNCHANGED <<stealthVars, terminated, remoteVars>>

\* Remote memory is allocated and the stub copied into it.
WriteCode ==
  /\ In("code") /\ alive
  /\ page' = "code"
  /\ Goto("signal")
  /\ UNCHANGED <<stealthVars, terminated, alive, thunk, signal, remoteSignal, info, thread,
                 easyHook, userLibrary, woken>>

\* CreateEvent and DuplicateHandle into the target.
ExportSignal ==
  /\ In("signal") /\ alive
  /\ remoteSignal' = "open"
  /\ Goto("info")
  /\ UNCHANGED <<stealthVars, terminated, alive, thunk, page, signal, info, thread,
                 easyHook, userLibrary, woken>>

\* The relocated REMOTE_INFO is written behind the code.
WriteInfo ==
  /\ In("info") /\ alive
  /\ page' = "ready" /\ info' = TRUE
  /\ Goto("thread")
  /\ UNCHANGED <<stealthVars, terminated, alive, thunk, signal, remoteSignal, thread,
                 easyHook, userLibrary, woken>>

\* NtCreateThreadEx, or CreateRemoteThread where that is missing.
CreateThread ==
  /\ In("thread") /\ alive /\ ~injector.stealth
  /\ thread' = [thread EXCEPT !.pc = "load"]
  /\ injector' = [injector EXCEPT !.pc = "wait", !.holds = TRUE]
  /\ UNCHANGED <<stealthVars, terminated, alive, thunk, page, signal, remoteSignal, info,
                 easyHook, userLibrary, woken>>

\* RhCreateStealthRemoteThread is called ...
CallStealth ==
  /\ In("thread") /\ injector.stealth
  /\ Snapshot
  /\ Goto("stealth")
  /\ UNCHANGED <<terminated, remoteVars>>

\* ... works ...
StealthStep ==
  /\ In("stealth")
  /\ HostStep
  /\ UNCHANGED <<injector, terminated, remoteVars>>

\* ... and returns, with hRemoteThread when it succeeded.
StealthReturns ==
  /\ In("stealth") /\ At("done")
  /\ IF host.status = "success"
     THEN injector' = [injector EXCEPT !.pc = "wait", !.holds = TRUE]
     ELSE Ends("stealth failed")
  /\ UNCHANGED <<stealthVars, terminated, remoteVars>>

\* What the switch over the thread's exit code makes of it.
Diagnosis(exit) ==
  CASE exit = "easyhook"   -> "no EasyHook library"       \* 0x4...
    [] exit = "entry"      -> "no internal entry point"   \* 0x1...
    [] exit = "release"    -> "library not released"      \* 0x3...
    [] exit = "completion" -> "completion failed"         \* 0xF...
    [] exit \in {"success", "stack"} -> "success without event" \* 0, and 0x01...
    [] OTHER               -> "unknown"

\* Variant: only the event is waited for.
AwaitThread_EventOnly ==
  /\ In("wait") /\ thread.pc = "exited" /\ signal
  /\ Ends(Diagnosis(thread.exit))
  /\ UNCHANGED <<stealthVars, terminated, remoteVars>>

\* WaitForMultipleObjects names the lowest signaled handle, and that is the thread's.
AwaitThread ==
  /\ In("wait") /\ thread.pc = "exited"
  /\ Ends(Diagnosis(thread.exit))
  /\ UNCHANGED <<stealthVars, terminated, remoteVars>>

AwaitSignal ==
  /\ In("wait") /\ signal /\ thread.pc # "exited"
  /\ Ends("injected")
  /\ UNCHANGED <<stealthVars, terminated, remoteVars>>

\* Any call that can fail does.
InjectionFails ==
  /\ injector.pc \in {"open", "thunk", "code", "signal", "info"} \/ (In("thread") /\ ~injector.stealth)
  /\ Ends("not started")
  /\ UNCHANGED <<stealthVars, terminated, remoteVars>>

\* A process that ends takes the remote thread with it, which may be one the stub just created.
ThreadsEnd(exit) ==
  /\ alive' = FALSE /\ present' = {}
  /\ thread' = IF thread.pc = "exited" \/ (thread.pc = "none" /\ made = {}) THEN thread
               ELSE [thread EXCEPT !.pc = "exited", !.exit = exit]

\* The outro of RhInjectLibrary closes the handles of this process.
InjectorOutro ==
  /\ In("outro")
  /\ Goto(IF injector.create /\ injector.outcome # "injected" THEN "terminate" ELSE "done")
  /\ UNCHANGED <<stealthVars, terminated, remoteVars>>

targetKept == <<host, suspend, code, work, rest, remote, events, handles, made, thunk, page, signal,
                remoteSignal, info, easyHook, userLibrary, woken>>

\* Variant: only a process whose remote thread was never started is terminated.
TerminateCreated_LeavesProcess ==
  /\ In("terminate") /\ alive
  /\ Goto("done")
  /\ IF injector.outcome = "not started"
     THEN terminated' = "created" /\ ThreadsEnd("success")
     ELSE UNCHANGED <<present, terminated, alive, thread>>
  /\ UNCHANGED targetKept

\* RhCreateAndInject opens a process it created and could not inject into once more, by its id,
\* and terminates it ...
TerminateCreated ==
  /\ In("terminate") /\ alive
  /\ Goto("done")
  /\ terminated' = "created"
  /\ ThreadsEnd("success")
  /\ UNCHANGED targetKept

\* ... or terminates NULL, when OpenProcess failed ...
CannotReopen ==
  /\ In("terminate")
  /\ injector' = [injector EXCEPT !.pc = "done", !.reopened = FALSE]
  /\ UNCHANGED <<stealthVars, terminated, remoteVars>>

\* ... or another process, when its own has ended and the id is given away again.
TerminateOther ==
  /\ In("terminate") /\ ~alive
  /\ Goto("done")
  /\ terminated' = "other"
  /\ UNCHANGED <<stealthVars, remoteVars>>

InjectorStep ==
  \/ OpenTarget \/ ForceLdrInitializeThunk \/ AwaitThunk \/ WriteCode \/ ExportSignal
  \/ WriteInfo \/ CreateThread \/ CallStealth \/ StealthStep \/ StealthReturns
  \/ AwaitThread \/ AwaitSignal \/ InjectionFails
  \/ InjectorOutro \/ TerminateCreated \/ CannotReopen \/ TerminateOther

----------------------------------------------------------------------------
(* The target. *)

Thread(p) == alive /\ thread.pc = p
ThreadGoto(p) == thread' = [thread EXCEPT !.pc = p]
ThreadFails(p, exit) == thread' = [thread EXCEPT !.pc = p, !.exit = exit]

targetRest == <<stealthVars, injector, terminated, alive, thunk>>

ThunkEnds ==
  /\ thunk = "running"
  /\ thunk' = "ended"
  /\ UNCHANGED <<stealthVars, injector, terminated, alive, page, signal, remoteSignal, info,
                 thread, easyHook, userLibrary, woken>>

\* The thread a stub created begins like one created from outside.
StubThreadBegins ==
  /\ Thread("none") /\ made # {}
  /\ ThreadGoto("load")
  /\ UNCHANGED <<targetRest, page, signal, remoteSignal, info, easyHook, userLibrary, woken>>

\* LoadLibraryW of EasyHook's DLL.
LoadEasyHook ==
  /\ Thread("load")
  /\ \/ ThreadGoto("find") /\ easyHook' = easyHook + 1
     \/ ThreadFails("protect", "easyhook") /\ UNCHANGED easyHook
  /\ UNCHANGED <<targetRest, page, signal, remoteSignal, info, userLibrary, woken>>

\* GetProcAddress of HookCompleteInjection; a failure leaves the DLL loaded.
FindEntry ==
  /\ Thread("find")
  /\ ThreadGoto("complete") \/ ThreadFails("protect", "entry")
  /\ UNCHANGED <<targetRest, page, signal, remoteSignal, info, easyHook, userLibrary, woken>>

\* HookCompleteInjection: PATH, RhSetWakeUpThreadID, then the managed or unmanaged half.
CompleteInjection ==
  /\ Thread("complete")
  /\ \/ ThreadGoto(IF injector.managed THEN "managed" ELSE "library")
     \/ ThreadFails("close", "completion")
  /\ UNCHANGED <<targetRest, page, signal, remoteSignal, info, easyHook, userLibrary, woken>>

\* Variant: the handle LoadLibraryW returned is not looked at.
LoadUserLibrary_Unchecked ==
  /\ Thread("library")
  /\ ThreadGoto("raise")
  /\ userLibrary' \in {"none", "loaded"}
  /\ UNCHANGED <<targetRest, page, signal, remoteSignal, info, easyHook, woken>>

\* CompleteUnmanagedInjection: LoadLibraryW and GetProcAddress of the entry point.
LoadUserLibrary ==
  /\ Thread("library")
  /\ \/ ThreadGoto("raise") /\ userLibrary' = "loaded"
     \/ ThreadFails("close", "completion") /\ userLibrary' \in {"none", "loaded"}
  /\ UNCHANGED <<targetRest, page, signal, remoteSignal, info, easyHook, woken>>

\* CompleteManagedInjection with a library that exports Load (EasyLoad): the first call connects
\* to the host and loads nothing.  Load returns 0, which passes for success, also when the host
\* refused; an exception ends with the error code still zero.
FirstLoad ==
  /\ Thread("managed")
  /\ \/ /\ thread' = [thread EXCEPT !.pc = "raise", !.loader = "Load"]
        /\ userLibrary' \in {"refused", "connected"}
     \/ /\ \E exit \in {"completion", "success"} : ThreadFails("close", exit)
        /\ userLibrary' \in {"none", "connected"}
  /\ UNCHANGED <<targetRest, page, signal, remoteSignal, info, easyHook, woken>>

\* Without that export: InjectionLoader.Main in a runtime started here, whose 0 is a failure.
FirstMain ==
  /\ Thread("managed")
  /\ \/ /\ thread' = [thread EXCEPT !.pc = "raise", !.loader = "Main"]
        /\ userLibrary' = "connected"
     \/ ThreadFails("close", "completion") /\ userLibrary' \in {"none", "refused"}
  /\ UNCHANGED <<targetRest, page, signal, remoteSignal, info, easyHook, woken>>

\* SetEvent on the duplicated handle.
RaiseSignal ==
  /\ Thread("raise")
  /\ \/ /\ signal' = TRUE
        /\ ThreadGoto(IF injector.managed THEN "drop" ELSE "run")
     \/ ThreadFails("close", "completion") /\ UNCHANGED signal
  /\ UNCHANGED <<targetRest, page, remoteSignal, info, easyHook, userLibrary, woken>>

\* Variant: the handle is closed and stays in REMOTE_INFO.
DropSignal_KeepsHandle ==
  /\ Thread("drop")
  /\ remoteSignal' = "closed"
  /\ ThreadGoto("run")
  /\ UNCHANGED <<targetRest, page, signal, info, easyHook, userLibrary, woken>>

\* Managed: CloseHandle, and NULL in REMOTE_INFO.
DropSignal ==
  /\ Thread("drop")
  /\ remoteSignal' = "closed" /\ info' = FALSE
  /\ ThreadGoto("run")
  /\ UNCHANGED <<targetRest, page, signal, easyHook, userLibrary, woken>>

\* The user's code is entered: the library's entry point, or Run by the second call of the loader.
EnterUserLibrary ==
  /\ Thread("run") /\ userLibrary \in {"loaded", "connected"}
  /\ userLibrary' = "entered"
  /\ UNCHANGED <<targetRest, page, signal, remoteSignal, info, thread, easyHook, woken>>

\* The second call loads no assembly, or was refused before and only connects now; its result is
\* not looked at.
SecondCallFails ==
  /\ Thread("run") /\ userLibrary \in {"connected", "refused"}
  /\ userLibrary' \in {userLibrary, "connected"}
  /\ ThreadFails("close", "success")
  /\ UNCHANGED <<targetRest, page, signal, remoteSignal, info, easyHook, woken>>

\* The user's code calls RhWakeUpProcess: it fails when the thread was not suspended.
WakeUpProcess ==
  /\ Thread("run") /\ userLibrary = "entered" /\ woken = "no"
  /\ IF ~injector.create
     THEN woken' = "resumed" /\ UNCHANGED suspend
     ELSE /\ woken' = IF suspend[Main] > 0 THEN "resumed" ELSE "failed"
          /\ Resumed(Main)
  /\ UNCHANGED <<host, present, code, work, rest, remote, events, handles, made, injector,
                 terminated, alive, thunk, page, signal, remoteSignal, info, thread,
                 easyHook, userLibrary>>

\* It returns.
UserCodeReturns ==
  /\ Thread("run") /\ userLibrary = "entered"
  /\ ThreadFails("close", "success")
  /\ UNCHANGED <<targetRest, page, signal, remoteSignal, info, easyHook, userLibrary, woken>>

\* HookCompleteInjection closes the signal unless that was done before.
CloseSignal ==
  /\ Thread("close")
  /\ remoteSignal' = IF info THEN "closed" ELSE remoteSignal
  /\ ThreadGoto("free")
  /\ UNCHANGED <<targetRest, page, signal, info, easyHook, userLibrary, woken>>

\* FreeLibrary of EasyHook's DLL.
FreeEasyHook ==
  /\ Thread("free")
  /\ \/ ThreadGoto("protect") /\ easyHook' = easyHook - 1
     \/ ThreadFails("protect", "release") /\ UNCHANGED easyHook
  /\ UNCHANGED <<targetRest, page, signal, remoteSignal, info, userLibrary, woken>>

\* VirtualProtect of the stack; without it the thread exits and leaves the page.
MakeStackExecutable ==
  /\ Thread("protect")
  /\ ThreadGoto("release") \/ ThreadFails("exited", "stack")
  /\ UNCHANGED <<targetRest, page, signal, remoteSignal, info, easyHook, userLibrary, woken>>

\* VirtualFree of the page, called from the stack ...
ReleasePage ==
  /\ Thread("release")
  /\ page' = "freed"
  /\ ThreadGoto("exit")
  /\ UNCHANGED <<targetRest, signal, remoteSignal, info, easyHook, userLibrary, woken>>

\* ... and ExitThread.
ExitThread ==
  /\ Thread("exit")
  /\ ThreadGoto("exited")
  /\ UNCHANGED <<targetRest, page, signal, remoteSignal, info, easyHook, userLibrary, woken>>

\* Steps of the remote thread that do not wait for the user's code to return.
RemoteStep ==
  \/ StubThreadBegins \/ LoadEasyHook \/ FindEntry \/ CompleteInjection \/ LoadUserLibrary
  \/ FirstLoad \/ FirstMain \/ RaiseSignal \/ DropSignal \/ EnterUserLibrary \/ SecondCallFails
  \/ CloseSignal \/ FreeEasyHook \/ MakeStackExecutable \/ ReleasePage \/ ExitThread

\* The target exits or is killed by another party, and its threads end with it.
TargetDies ==
  /\ alive
  /\ ThreadsEnd("killed")
  /\ thunk' = IF thunk = "running" THEN "ended" ELSE thunk
  /\ UNCHANGED <<host, suspend, code, work, rest, remote, events, handles, made, injector,
                 terminated, page, signal, remoteSignal, info, easyHook, userLibrary, woken>>

\* The other threads of the target, from the call on; those of a created process are
\* suspended and resumed by nobody else.
Hijacked ==
  /\ ~In("idle")
  /\ TargetStep \/ (~injector.create /\ \E t \in Threads : OtherResumes(t))
  /\ UNCHANGED <<injector, terminated, remoteVars>>

Next ==
  \/ \E managed, stealth \in BOOLEAN :
       InjectLibrary(managed, stealth) \/ CreateAndInject(managed, stealth)
  \/ InjectorStep
  \/ RemoteStep \/ WakeUpProcess \/ UserCodeReturns
  \/ ThunkEnds \/ Hijacked \/ TargetDies

\* The injecting thread goes on wherever a call it makes returns.  Nothing is asked of the target:
\* its threads may hold the loader lock, be suspended or wait in the kernel, and the user's code
\* need not return.
Spec == Init /\ [][Next]_vars /\ WF_vars(InjectorStep)

----------------------------------------------------------------------------
(* Properties. *)

\* What an injection reported as done stands for: the signal was raised, by a target that has
\* loaded the unmanaged library, or whose loader is connected to the host if InjectionLoader.Main
\* was called without EasyLoad.  With EasyLoad it stands for no more than the signal (thread.c
\* 1342-1387, entry.cpp 85-93, 166-185, 268-318).
SuccessIsLoaded ==
  injector.outcome = "injected" =>
    /\ signal
    /\ ~injector.managed => userLibrary \in {"loaded", "entered"}
    /\ thread.loader = "Main" => userLibrary \in {"connected", "entered"}

\* While the remote thread executes the page, REMOTE_INFO or EasyHook's DLL they are there,
\* and it signals and closes a handle that is open: nobody frees or closes what it still
\* uses, and it does so itself only once (entry.cpp 182-186, 427-428; the stub's last calls).
RemoteThreadIsSafe ==
  LET inDll == {"complete", "library", "managed", "raise", "drop", "run", "close"} IN
  alive =>
    /\ thread.pc \in {"load", "find", "free", "protect", "release"} \cup inDll => page = "ready"
    /\ thread.pc \in inDll \cup {"find", "free"} => easyHook = 1
    /\ thread.pc \in {"raise", "drop"} \/ (thread.pc = "close" /\ info) => remoteSignal = "open"

\* A process that RhCreateAndInject created and could not inject into outlives the call only if it
\* could not be opened again, and nothing is terminated after a success, nor a process that was
\* running before (thread.c 684-699).
NoProcessIsStranded ==
  /\ injector.create /\ In("done") /\ injector.outcome # "injected" /\ injector.reopened => ~alive
  /\ terminated # "none" => injector.create /\ injector.outcome # "injected"

\* What the call waits for without a timeout, and has not happened: the thread of
\* NtForceLdrInitializeThunk or the remote thread of a living target, or a hijacked thread,
\* of a target that may be gone by now (stealth.c 345).
WaitsForTarget ==
  \/ In("thunkWait") /\ alive /\ thunk = "running"
  \/ In("wait") /\ alive /\ ~signal /\ thread.pc # "exited"
  \/ In("stealth") /\ At("wait") /\ <<host.call, "sync">> \notin events

\* An injection comes to an end, or waits for ever for the target: no other wait, nor the end of
\* the target during the first two, keeps the call, whatever becomes of the signal.
InjectionEnds == In("open") ~> (In("done") \/ []WaitsForTarget)

\* "0 for success, -1 for fail" (EasyLoad/Loader.cs 44): an injection reported as done has a
\* loader that the host did not refuse.
SuccessIsConnected ==
  injector.outcome = "injected" /\ injector.managed => userLibrary # "refused"

\* "If the following call succeeds, then it will also do so some lines later" (entry.cpp 281-282):
\* once the event was set after the test call of InjectionLoader.Main, the second call runs the
\* library.
TestedCallSucceeds ==
  thread.loader = "Main" /\ signal /\ thread.pc = "close" => userLibrary = "entered"

\* "When the injection is made, NO thread has actually executed any instruction so far ... and
\* you can allow the original execution to take place by calling RhWakeUpProcess()" (thread.c
\* 589-592): after an injection reported as done, the main thread of a created process executes
\* nothing before that call.
CreatedProcessWaits ==
  injector.create /\ injector.outcome = "injected" /\ woken = "no" => work[Main] = 0

=============================================================================
