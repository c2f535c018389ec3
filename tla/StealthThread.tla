--------------------------- MODULE StealthThread ---------------------------
(***************************************************************************)
(* Stealth thread creation: RhCreateStealthRemoteThread                    *)
(* (EasyHookDll/RemoteHook/stealth.c) in the injecting process and the     *)
(* StealthStub of DriverShared/ASM, which the hijacked thread of the       *)
(* target executes.  The two meet over two events and a context block      *)
(* written into the stack of the hijacked thread.                          *)
(*                                                                         *)
(* The code of a thread of the target is abstracted to work done, a        *)
(* number that counts up: the context GetThreadContext captures, which is  *)
(* CONTEXT_INTEGER and CONTEXT_CONTROL, is the work done so far, and       *)
(* continuing from a captured context is to continue from that number.     *)
(* What a context does not hold (SSE and floating point registers, the     *)
(* last error) is the thread's own until a call of the stub overwrites it. *)
(* The context block lies in the stack of the thread, at a fixed distance  *)
(* below its stack pointer: a second block for the same thread takes the   *)
(* place of the first.                                                     *)
(***************************************************************************)
EXTENDS Naturals, FiniteSets

CONSTANTS
  Threads,     \* threads a target can have
  MaxSuspend,  \* bound on the suspend count others give a thread
  MaxWork,     \* bound on the work of a thread
  NULL         \* no thread, no handle

ASSUME NullIsNoThread == NULL \notin Threads
ASSUME BoundsAreNaturals == MaxSuspend \in Nat /\ MaxWork \in Nat

VARIABLES
  host,     \* the call: pc, status, hHijackedThread, IsSuspended, threads not visited, LocalCtx
  present,  \* the threads of the target
  suspend,  \* their suspend counts
  code,     \* what each executes: its own code, or a step of the stub
  work,     \* how far the code of each has come
  rest,     \* whether the registers that no context holds are still its own
  remote,   \* the context block in the stack of each: what to restore, handle, call
  events,   \* events that are set: <<call, name>>
  handles,  \* handles made for the stub that are open in the target: <<call, name>>
  made      \* calls whose remote thread exists

stealthVars == <<host, present, suspend, code, work, rest, remote, events, handles, made>>

target == <<present, suspend, code, work, rest, remote, handles, made>>

\* What a context holds of a thread that runs, or was interrupted inside the stub: nothing definite.
Lost == MaxWork + 1

NoContext == [work |-> 0, code |-> "own", handle |-> NULL, call |-> 0]

IdleHost == [pc |-> "idle", call |-> 0, status |-> "none", hijacked |-> NULL,
             suspended |-> FALSE, active |-> TRUE, unseen |-> {}, local |-> NoContext]

StealthInit ==
  /\ host = IdleHost
  /\ present \in SUBSET Threads
  /\ suspend \in [Threads -> 0..MaxSuspend]
  /\ code = [t \in Threads |-> "own"]
  /\ work = [t \in Threads |-> 0]
  /\ rest = [t \in Threads |-> TRUE]
  /\ remote = [t \in Threads |-> NoContext]
  /\ events = {}
  /\ handles = {}
  /\ made = {}

----------------------------------------------------------------------------
(* The injecting process. *)

At(p) == host.pc = p

\* RhCreateStealthRemoteThread is called: it opens the target and takes its snapshot.
Snapshot ==
  /\ host.pc \in {"idle", "done"}
  /\ host' = [IdleHost EXCEPT !.pc = "select", !.call = host.call + 1, !.unseen = present]
  /\ UNCHANGED <<target, events>>

\* A thread that cannot be opened: the handle variable is overwritten with NULL.
CannotOpen(t) ==
  /\ At("select") /\ t \in host.unseen
  /\ host' = [host EXCEPT !.unseen = @ \ {t}, !.hijacked = NULL]
  /\ UNCHANGED <<target, events>>

\* A thread already suspended: suspended once more, resumed once, and its handle stays.
SelectSuspended(t) ==
  /\ At("select") /\ t \in host.unseen \cap present /\ suspend[t] > 0
  /\ host' = [host EXCEPT !.unseen = @ \ {t}, !.hijacked = t]
  /\ UNCHANGED <<target, events>>

\* SuspendThread fails, for a thread that has ended or is suspended as often as can be: nothing
\* is resumed, and the handle stays.
CannotSuspend(t) ==
  /\ At("select") /\ t \in host.unseen
  /\ host' = [host EXCEPT !.unseen = @ \ {t}, !.hijacked = t]
  /\ UNCHANGED <<target, events>>

\* Variant: the thread is taken without being suspended.
SelectActive_NotSuspended(t) ==
  /\ At("select") /\ t \in host.unseen \cap present /\ suspend[t] = 0
  /\ host' = [host EXCEPT !.pc = "capture", !.hijacked = t]
  /\ UNCHANGED <<target, events>>

\* An active thread ends the search, suspended by this call.
SelectActive(t) ==
  /\ At("select") /\ t \in host.unseen \cap present /\ suspend[t] = 0
  /\ host' = [host EXCEPT !.pc = "capture", !.hijacked = t, !.suspended = TRUE]
  /\ suspend' = [suspend EXCEPT ![t] = 1]
  /\ UNCHANGED <<present, code, work, rest, remote, handles, made, events>>

\* The snapshot is exhausted: whatever handle is left is taken, of a thread that was suspended
\* already or of one that could not be suspended and still runs.
SelectLast ==
  /\ At("select") /\ host.unseen = {}
  /\ IF host.hijacked = NULL
     THEN host' = [host EXCEPT !.pc = "outro", !.status = "failed"]
     ELSE host' = [host EXCEPT !.pc = "capture", !.active = FALSE]
  /\ UNCHANGED <<target, events>>

\* Calls that reach into the target succeed only while the hijacked thread is there.
Reaches(p) == At(p) /\ host.hijacked \in present

\* What GetThreadContext says of the work of a thread: nothing definite while the thread runs.
Captured(t) == IF code[t] = "own" /\ suspend[t] > 0 THEN work[t] ELSE Lost

\* GetThreadContext, for CONTEXT_INTEGER | CONTEXT_CONTROL.
Capture ==
  /\ Reaches("capture")
  /\ LET t == host.hijacked IN
     host' = [host EXCEPT !.pc = "events",
                !.local = [work |-> Captured(t), code |-> code[t], handle |-> NULL,
                           call |-> host.call]]
  /\ UNCHANGED <<target, events>>

\* Both events are created and duplicated into the target.
MakeEvents ==
  /\ Reaches("events")
  /\ host' = [host EXCEPT !.pc = "write", !.local.handle = "sync"]
  /\ handles' = handles \cup {<<host.call, "completion">>, <<host.call, "sync">>}
  /\ UNCHANGED <<present, suspend, code, work, rest, remote, made, events>>

\* The stack page is made executable; context and stub are written into it.
WriteStub ==
  /\ Reaches("write")
  /\ remote' = [remote EXCEPT ![host.hijacked] = host.local]
  /\ host' = [host EXCEPT !.pc = "redirect"]
  /\ UNCHANGED <<present, suspend, code, work, rest, handles, made, events>>

\* SetThreadContext points the thread to the stub; a thread that runs may go on as it was.
Redirect ==
  /\ Reaches("redirect")
  /\ \/ code' = [code EXCEPT ![host.hijacked] = "stub"]
     \/ suspend[host.hijacked] = 0 /\ UNCHANGED code
  /\ host' = [host EXCEPT !.pc = "resume"]
  /\ UNCHANGED <<present, suspend, work, rest, remote, handles, made, events>>

\* ResumeThread lowers a count above zero by one.
Resumed(t) == suspend' = [suspend EXCEPT ![t] = IF @ > 0 THEN @ - 1 ELSE 0]

ResumeHijacked ==
  /\ At("resume")
  /\ Resumed(host.hijacked)
  /\ host' = [host EXCEPT !.pc = "wait", !.suspended = FALSE]
  /\ UNCHANGED <<present, code, work, rest, remote, handles, made, events>>

\* Variant: the context is read without waiting for the stub.
WaitForSync_NoWait ==
  /\ Reaches("wait")
  /\ host' = [host EXCEPT !.local = remote[host.hijacked], !.pc = "import"]
  /\ UNCHANGED <<target, events>>

\* WaitForSingleObject(hSyncEvent, INFINITE), then the context is read again.
WaitForSync ==
  /\ Reaches("wait") /\ <<host.call, "sync">> \in events
  /\ LET context == remote[host.hijacked] IN
     host' = [host EXCEPT !.local = context,
                          !.pc = IF context.handle = NULL THEN "outro" ELSE "import",
                          !.status = IF context.handle = NULL THEN "failed" ELSE @]
  /\ UNCHANGED <<target, events>>

\* DuplicateHandle of the handle the context names.
ImportThread ==
  /\ Reaches("import")
  /\ host' = [host EXCEPT !.pc = "outro", !.status = "success"]
  /\ UNCHANGED <<target, events>>

\* Any call that can fail does.
StealthFails ==
  /\ host.pc \in {"select", "capture", "events", "write", "redirect", "wait", "import"}
  /\ host.pc = "wait" => <<host.call, "sync">> \in events
  /\ host' = [host EXCEPT !.pc = "outro", !.status = "failed"]
  /\ UNCHANGED <<target, events>>

\* THROW_OUTRO and FINALLY_OUTRO, reached by success after SetEvent(hCompletionEvent).
Outro ==
  /\ At("outro")
  /\ events' = events \cup {<<host.call, "completion">>}
  /\ IF host.hijacked # NULL /\ host.suspended THEN Resumed(host.hijacked) ELSE UNCHANGED suspend
  /\ host' = [host EXCEPT !.pc = "done", !.suspended = FALSE]
  /\ UNCHANGED <<present, code, work, rest, remote, handles, made>>

HostStep ==
  \/ SelectLast \/ Capture \/ MakeEvents \/ WriteStub \/ Redirect \/ ResumeHijacked
  \/ WaitForSync \/ ImportThread \/ StealthFails \/ Outro
  \/ \E t \in Threads : CannotOpen(t) \/ CannotSuspend(t) \/ SelectSuspended(t) \/ SelectActive(t)

----------------------------------------------------------------------------
(* The threads of the target. *)

Runs(t, c) == t \in present /\ suspend[t] = 0 /\ code[t] = c

\* The thread executes code of its own.  One that has ended is one that does nothing more: every
\* call of the injecting process that needs it may fail.
Work(t) ==
  /\ Runs(t, "own") /\ work[t] < MaxWork
  /\ work' = [work EXCEPT ![t] = @ + 1]
  /\ UNCHANGED <<host, present, suspend, code, rest, remote, events, handles, made>>

\* CreateThread; its result replaces hSyncEvent in the context.
StubCreatesThread(t) ==
  /\ Runs(t, "stub")
  /\ \E ok \in BOOLEAN :
       /\ made' = IF ok THEN made \cup {remote[t].call} ELSE made
       /\ remote' = [remote EXCEPT ![t].handle = IF ok THEN "thread" ELSE NULL]
       /\ handles' = IF ok THEN handles \cup {<<remote[t].call, "thread">>} ELSE handles
  /\ code' = [code EXCEPT ![t] = "signal"]
  /\ UNCHANGED <<host, present, suspend, work, rest, events>>

\* SetEvent(hSyncEvent).
StubSignals(t) ==
  /\ Runs(t, "signal")
  /\ events' = events \cup {<<remote[t].call, "sync">>}
  /\ code' = [code EXCEPT ![t] = "pause"]
  /\ UNCHANGED <<host, present, suspend, work, rest, remote, handles, made>>

\* WaitForSingleObject(hCompletionEvent, INFINITE), then both handles of the context
\* are closed: the second is the thread's, for it took the place of hSyncEvent.
StubCloses(t) ==
  /\ Runs(t, "pause") /\ <<remote[t].call, "completion">> \in events
  /\ handles' = handles \ {<<remote[t].call, "completion">>, <<remote[t].call, remote[t].handle>>}
  /\ code' = [code EXCEPT ![t] = "restore"]
  /\ UNCHANGED <<host, present, suspend, work, rest, remote, events, made>>

\* The captured registers are loaded and the thread jumps to the captured address.  The others
\* are as the functions the stub called left them.
StubRestores(t) ==
  /\ Runs(t, "restore")
  /\ work' = [work EXCEPT ![t] = remote[t].work]
  /\ code' = [code EXCEPT ![t] = remote[t].code]
  /\ rest' \in {rest, [rest EXCEPT ![t] = FALSE]}
  /\ UNCHANGED <<host, present, suspend, remote, events, handles, made>>

StubStep(t) == StubCreatesThread(t) \/ StubSignals(t) \/ StubCloses(t) \/ StubRestores(t)

\* Suspensions of a thread that this call does not account for.
Foreign(t) == suspend[t] - (IF host.suspended /\ host.hijacked = t THEN 1 ELSE 0)

\* A thread of the target or a debugger takes back a suspension of its own.
OtherResumes(t) ==
  /\ t \in present /\ Foreign(t) > 0
  /\ Resumed(t)
  /\ UNCHANGED <<host, present, code, work, rest, remote, events, handles, made>>

TargetStep == \E t \in Threads : Work(t) \/ StubStep(t)

----------------------------------------------------------------------------
(* Properties. *)

\* The handle DuplicateHandle is about to import is the remote thread's and still open in
\* the target: it is read only after the stub stored it in the place of hSyncEvent, and the
\* stub does not close it before the call lets it go on (stealth.c 345-363).
ImportedHandleIsOpen ==
  At("import") => /\ host.local.handle = "thread"
                  /\ <<host.call, "thread">> \in handles

\* While a thread executes the stub, the block it is restored from holds the work it was
\* interrupted at and leads back to its own code.
ContextIsKept ==
  \A t \in Threads : code[t] # "own" => remote[t].work = work[t] /\ remote[t].code = "own"

\* For a thread that a single call found active and suspended: what its integer and control
\* registers say of its progress is restored, so that it executes no instruction twice and
\* leaves none out, on every path through the call (stealth.c 201-216, 228, 332-390).
ActiveContextIsKept == host.active => ContextIsKept

\* "The hijacked thread will continue execution just like nothing has happened" (stealth.c
\* 95-96), once it is back in its own code: with all of its registers.
LikeNothingHasHappened ==
  \A t \in Threads : host.active /\ code[t] = "own" => rest[t]

=============================================================================
