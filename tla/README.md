# EasyHook in TLA+

This directory holds TLA+ specifications of EasyHook's core, the TLC
configurations that check them on small instances, and TLAPS proofs of their
central theorems. Paths below are relative to `src/`. `PROJECT.json` maps every
definition to the lines it models.

EasyHook redirects functions of a running Windows process to user handlers. A
hook is a page with a copied trampoline; the entry point of the function is
patched to jump there; the trampoline asks a *thread deadlock barrier* whether
the handler may run; handlers may be removed while threads are inside of them.
Around this core lies the injection of libraries into other processes.

## 1. Inventory

| Component | Code | State | Operations |
|---|---|---|---|
| Local hook lifecycle | `DriverShared/LocalHook/install.c`, `uninstall.c`, `alloc.c`, `EasyHookDll/dllmain.c` | `GlobalHookListHead`, `GlobalRemovalListHead`, `GlobalSlotList`, a `LOCAL_HOOK_INFO` per hook, `HOOK_TRACE_INFO.Link`, the patched entry points | `LhInstallHook`, `LhUninstallHook`, `LhUninstallAllHooks`, `LhWaitForPendingRemovals`, `LhCriticalFinalize`, `LhIsValidHandle` |
| Trampoline | `DriverShared/ASM/HookSpecific_x64.asm`, `HookSpecific_x86.asm` | `IsExecuted`, the return address on the stack | entry, handler check, barrier calls, jump, outro |
| Thread deadlock barrier | `DriverShared/LocalHook/barrier.c` | `Unit.TLS` (thread ids and per-thread data), per thread and slot a `RUNTIME_INFO` | `LhBarrierIntro`, `LhBarrierOutro`, `LhBarrierGetCallback` and siblings, `LhBarrierBeginStackTrace`, `LhBarrierEndStackTrace`, `LhBarrierThreadDetach` |
| Access control lists | `EasyHookDll/LocalHook/acl.c`, `barrier.c`, `EasyHook/LocalHook.cs` | the global list, one list per hook, the managed mirrors | the four `LhSet...ACL`, `LhIsThreadIntercepted`, `HookAccessControl` |
| Managed hook wrapper | `EasyHook/LocalHook.cs` | handles, static tracking list | `Create`, `Dispose`, finaliser |
| Injection handshake | `EasyHook/HelperServiceInterface.cs`, `InjectionLoader.cs`, `RemoteHook.cs` | `InjectionList`, per entry a mutex, an event and an exception | `BeginInjection`, `WaitForInjection`, `EndInjection`, `InjectionCompleted`, `InjectionException` |
| Remote injection | `EasyHookDll/RemoteHook/thread.c`, `entry.cpp`, the injection stubs | remote thread, signal event, remote memory, references to the DLL | `RhInjectLibrary`, `RhCreateAndInject`, `HookCompleteInjection`, `RhWakeUpProcess`, `TestFuncHooks` |
| Stealth thread creation | `EasyHookDll/RemoteHook/stealth.c`, the stealth stubs | hijacked thread, two events, the context block in its stack | `RhCreateStealthRemoteThread` |
| Helper service, WOW64 bypass | `EasyHook/ServiceMgmt.cs`, `WOW64Bypass.cs`, `EasyHookSvc/`, `RemoteHook/service.c` | helper process, named event and mutex, channel, service entry | `Install`, `Inject`, `OnExecute`, `RtlInstallService` |
| EasyLoad | `EasyLoad/Loader.cs`, `entry.cpp` | `_easyHookDomain`, `_injectCount`, `_connectedChannels` | `Load`, `Close` |
| Module information | `DriverShared/LocalHook/caller.c` | published module arrays, the shared `ProcessModules` | `LhUpdateModuleInformation`, `LhBarrierPointerToModule`, `LhEnumModules` |
| Relocation | `DriverShared/LocalHook/reloc.c` | none | `LhRelocateEntryPoint`, `LhRoundToNextInstruction`, `LhRelocateRIPRelativeInstruction` |
| Disassembler | `DriverShared/Disassembler/libudis86` | none | `ud_decode` |
| Duplex IPC | `EasyHook/IPC/` | connection table | not part of the build: `EasyHook.csproj` compiles none of it |
| Kernel driver, debugger support, GAC, Rtl | see `PROJECT.json` | operating system state | not modelled |

**Interactions.** The API (`Lh*`) shares lists and slots under `GlobalHookLock`,
but reads and patches entry points and releases pages outside of it. Threads
that call hooked functions take no lock: they meet the API through the page of
a hook (`HookProc`, `IsExecuted`), the entry point and the slot. The trampoline
calls the barrier; the barrier negotiates with both access control lists and
keeps one entry per slot, so that a slot that is reused too early mixes two
hooks up. `DllMain` removes all hooks and waits at unload, and detaches a
thread's storage when it ends. Managed injection calls native injection, and
waits for a report that the loader in the target sends over IPC. The remote
thread is created directly or by a hijacked thread of the target; it runs
`HookCompleteInjection`, which for managed libraries calls EasyLoad. A host that
may not inject itself asks a helper, which it starts and meets over a named event
and mutex. An install relocates the instructions that its jumper overwrites, for
which it needs their lengths from the disassembler. Handlers ask the cache of
module information where they were called from.

**What is hard.** Interleavings of removals with threads in the trampoline;
releases that are decided by a counter read once; hooks stacked on one function
and removed in any order; handlers that nest, call the API, never return or end
their thread; storage that is reused by another hook or thread; lists that are
replaced while others read them; time outs that race late answers; failures in
the middle of an operation; a target, a host or a thread that ends at any point;
threads of the target that are suspended or hijacked meanwhile; an application
domain that several injections share. `PROJECT.json` lists these hazards at their lines.

**What makes each part correct.**

* Lifecycle: a page and a slot are released only when no thread is behind the
  hook's handler check and nothing leads there any more; waits end; what leaks
  leaks for a stated reason.
* Barrier: a handler is not re-entered by the thread that executes it, returns
  to its own caller, and can be entered again afterwards; storage has one owner.
* Access control: a negotiation is the conjunction of both lists; a hook
  starts suspended; the list set last is in force.
* Handshake: a call is told about its own injection; calls for one process take
  turns; nobody waits for a lock that nobody will release.
* Injection: success means that the library was loaded, or its loader connected;
  the remote thread uses nothing that is freed or closed; a created process is not
  left behind suspended; a hijacked thread goes on where it was.
* EasyLoad: no domain is unloaded under a library; a library runs once; the host
  is answered.
* Helper: the interface a host talks to is served; there is one service; a helper
  ends with the thread that installed it.
* Module information: a module that is there is found, and no other; calls return.
* Relocation: no instruction is cut; a moved instruction means what it meant.
* Test of hooks: an export is resolved as the loader does it; each result has its item.

## 2. Modules

| Module | Models |
|---|---|
| `LocalHook` | lifecycle, trampoline, unload |
| `HookService` | abstract: what the lifecycle promises of each hook |
| `LocalHook_proofs` | theorems about both |
| `ThreadBarrier`, `ThreadBarrier_proofs` | the barrier, with hooks appearing and disappearing around it, and theorems about it |
| `HookAcl`, `HookAcl_proofs` | both access control lists, negotiation word by word, the managed mirror, and theorems about them |
| `InjectionWait`, `InjectionWait_proofs` | the handshake between `InjectEx` and the loaders, and theorems about it |
| `StealthThread` | hijacking a thread of the target, and the stub it executes |
| `RemoteInjection` | `RhInjectLibrary`, `RhCreateAndInject` and the remote thread; extends `StealthThread` |
| `EasyLoad`, `EasyLoad_proofs` | the application domain that injections share, and theorems about it |
| `ServiceHandshake`, `ServiceHandshake_proofs` | host and helper, and theorems about them |
| `ModuleList`, `ModuleList_proofs` | the cache of module information, and theorems about it |
| `Decoder` | lengths and operands of instructions, as udis86 finds them |
| `Relocation` | relocation of an entry point, one turn of the loop at a time; extends `Decoder` |
| `TestFuncHooks` | remote exports and the test of hooks; extends `Relocation` |
| `RemoteHook_proofs` | theorems about `RemoteInjection` and its `StealthThread`, and about `TestFuncHooks` and its `Relocation` |
| `Instructions` | reference: instructions as the processor defines them, not EasyHook's code |
| `MC...` | instances: symmetry sets, enumerated lists, export tables and programs |

### LocalHook

`hook[h]` is the `LOCAL_HOOK_INFO` in page `h`; `entry[f]` is the first bytes of
function `f`, `Original` or a jump into a page; `hook[h].OldProc` and
`.TargetBackup` are what the install found there (`OldProc` for the relocated
code, `TargetBackup` for what will be restored). `link`, `slotList`, `hookList`
and `removalList` are the code's. `op[t]` is where thread `t` is in an API call
and `frame[t][d]` where its `d`-th nested hooked call is in the trampoline.

A section under `GlobalHookLock` is one action; outside the lock there is one
action per access to shared state, so `LhWaitForPendingRemovals` is `PopRemoval`,
`CompareEntry`, `RestoreEntry`, `Drain`, `ReleaseSlot`, `FreeHook`, and a hooked
call is `CallTarget`, `CountIn`, `CheckHookProc`, `BarrierIntro`,
`JumpToHandler`, `HandlerReturns`, `BarrierOutro`, `CountOut`, `LeavePage`.
Handlers may call the API and other functions. The barrier's verdict is left
open. The loop that fails to advance `Prev` (`uninstall.c:76-90`) is modelled as
it is: removing a hook drops all newer ones from the list.

Simplifications: an address is never reused after `LhFreeMemory` (a reused
address could only hide a use of freed memory, which the model shows as the
fault "freed page"); time in the waiting loop is the number of rounds left
(`WaitRounds`, 40 in the code).

### ThreadBarrier

`IdList` and `tls` are `Unit.TLS`; an entry's `Entries` is its table of
`RUNTIME_INFO`, or `NULL`. `slotOf` is what the lifecycle does around the
barrier: `HookAppears` gives a hook a free slot, `HookDisappears` takes it away
when no thread is inside, which is `HandlerPinsSlot` of `LocalHook`. `LhBarrierIntro`
is split where it takes and leaves self protection. `pinned` and `skipped` are history: they record
handlers that returned past their outro after a failed `LhBarrierEndStackTrace`.

### HookAcl

`acl["global"]` and `acl["local"]` are written field by field by `LhSetACL` and
read entry by entry by `IsThreadIntercepted`. `mirror` is the managed copy;
`requested` is history: the last accepted request, and whether the last one was
refused. A zero in a list stands for the calling thread and is replaced in the
caller's array, which is the mirror itself. The repository describes the
negotiation three times: as the conjunction of both lists (`barrier.c:349`), which is
what the code computes and `NegotiationIsConjunction` says, as pseudo code
(`LocalHook.cs:536-575`) and as the union of two inclusive lists (`acl.c:92-94`); the
code against the pseudo code is a run of its own, against the union a further
configuration. All statements on a verdict are about
negotiations that no write disturbed, except `SuspendedUntilSet`. A null pointer in
place of the list (`acl.c:65`) is left out, and entries are copied word by word.

### InjectionWait

An `InjectionWait` object is named by the call that created it. The two locked
sections of `BeginInjection` and the three statements between them are five
actions. The loader finds the entry in one step and writes `Error` and
`Completion` in two more. Time outs may strike whenever the event is not set;
loaders may die at any time. Each call runs on a thread of its own that outlives
the call, so no mutex is abandoned.

### StealthThread and RemoteInjection

`StealthThread` has two sides. `host` is the local state of
`RhCreateStealthRemoteThread` (`hHijackedThread`, `IsSuspended`, `LocalCtx`); the
target has threads with a suspend count, the code they execute and the *work*
they have done. The captured context is the integer and control registers
(`stealth.c:228`): to be restored from it is to continue from the work that was
captured. `rest` is what no context holds (floating point and SSE registers, the
last error): a thread may come back from the stub without it. A thread may be taken
because it is active, because it is suspended and the last one, or because it
could not be suspended and is the last one; the last one runs on, so that what is
captured of it is nothing definite (`Lost`) and the redirection may not take.
The context block is in the stack of the hijacked thread, so a second hijacking of
the same thread overwrites the first. The stub is five steps in the order of its
calls; which registers it uses for them on x86 and x64 is left out.

`RemoteInjection` adds the injecting function (`injector`), the remote thread from
the stub through `HookCompleteInjection` to the release of its own page
(`thread`), and what they share: the page, the signal and its duplicate,
`REMOTE_INFO.hRemoteSignal`, references to EasyHook's DLL. Each operating system
call that the code checks may fail, the failure takes the code's path, and the
target may die between any two steps. `StealthStep` composes the two.

An unmanaged library is loaded by `LoadUserLibrary`. A managed one is not loaded
before the signal: the first call of its loader only connects to the host
(`entry.cpp:169-171`), by `FirstLoad` if the library exports `Load`, where a
connection that the host refused passes for success, or else by `FirstMain`; the
second call loads the assembly and enters it (`EnterUserLibrary`) or fails
unnoticed (`SecondCallFails`). The outro of `RhCreateAndInject` opens the process
it created once more, by its id, and does not look at the result: the process is
terminated (`TerminateCreated`), or stays (`CannotReopen`), or, having ended before,
another one that got the id goes in its place (`TerminateOther`).

### EasyLoad

`stub[i]` is the thread of injection `i` in `CompleteManagedInjection`: `Load`,
answer to the host, `Load` again, `Close`. A `lock(_lock)` block is one step
unless the library runs inside it (the fallback without memory) or unloading
takes several attempts. Domains are numbered, so that a domain that is used
after it was unloaded is seen.

### ServiceHandshake

Each attempt to install has a channel of its own. A named mutex has an owner and
handles in host and helper, an event has handles; the names exist while a handle
does, and a mutex is abandoned when its *thread* ends. `CollectHandles` is the
garbage collector. The five seconds may be over at any time.

### ModuleList

`loaded` is what the process has loaded; `ProcessModules` is the static array that
all refreshes share; `LhModuleArray` is the chain reachable from the published
list. A refresh is one locked step that enumerates, a step per module outside of
the lock and a locked step that publishes. A module that is gone by then is
skipped, which leaves a blank record at the end of the chain. So is one whose path was
read while the thread's last error was set (`caller.c:248`): an error may be left from
before the refresh (`Enumerate`) or from a module that was gone, and a successful
`GetModuleFileNameA` may clear it or not (`Collect`). Ranges include their end, as in the code
(`Hits`). `alone`, `skipped` and `stable` are history: whether another refresh
interfered with this call, whether a stale error made its refresh skip a module,
and which modules were loaded throughout.

### Decoder, Relocation, TestFuncHooks

`Decoder` is the decoder as data: prefixes, the one-byte opcodes in full, the
integer two-byte opcodes and one instruction of each other table type of
`itab.c`, ModRM, SIB, displacement and immediate. `Relocation` is the loop of
`LhRelocateEntryPoint`; 2^31 is the constant `Reach`. What the result is compared
with, `Instructions`, says what an instruction and a program are: `IsProgram` is
bytes, and at each offset where an instruction begins what it does and how it is
encoded. It shares nothing with the decoder. `LhRoundToNextInstruction` and the loop
of `LhRelocateEntryPoint` are one turn each, repeated by `RoundEntryPoint` and
`LhRelocateEntryPoint` of `TestFuncHooks`; the decoder's way down its nested tables is a
fold over their five levels. `Overlooked` names the instructions that the code copies
although they depend on their place; they are listed under the divergences.

`TestFuncHooks` reads the exports of a module name by name, twice: `CountExport` is a
turn of the first pass, `TakeExport` or `SkipExport` one of the second. The module may be
unloaded, and loaded again at its place, between any two reads. The second pass takes the
next result without asking whether there is one; if there is none the call is `Corrupt`.
Names are compared without regard to case (`Same`, for `_stricmp`), whether a
function is forwarded is tested on the position of its name and with the end of the
directory included (`AtEnd`): code that begins there is read as a string, which
names no module or never ends. Forwarders are followed with `GetRemoteFuncAddress`, and
for each address a hook is allocated and freed: the relocation runs inside of
it. `Chains(name)` is what the loader resolves a name with: the sets of functions
that hold what the name stands for, spelt exactly so, and are closed under
forwarders. An address is right if each of them has it.

## 3. Runs

Passing runs:

| Run | Instance | Shows |
|---|---|---|
| `LocalHookStacked` | 3 hooks on 2 functions, 2 slots, one control thread, 2 calling threads | no page is freed that an entry point, an `OldProc` chain, a handle or a call still needs; a leak has its reason |
| `LocalHookService` | 2 hooks for 1 slot, nested 2 deep, both threads control and call, x86 | a handler pins page and slot; armed hooks keep their handle; refinement of `HookService`; a wait ends |
| `ThreadBarrier` | 3 threads for 2 entries, 2 hooks for 2 slots, nested 3 deep | return addresses; contexts; assertions; the barrier opens again; ownership of entries; self protection |
| `HookAcl` | 3 calls with 5 lists, capacity 2, one setter and one reader | an undisturbed negotiation is the conjunction of both lists; suspension; the list in force; the mirror |
| `InjectionWait` | 3 calls, 2 processes | handshake |
| `RemoteInjection` | one injection of either sort, a target of up to 2 threads, each suspended once or not | what success says is true; nothing is used after it is freed or closed; no process is stranded that could be opened; a hijacked active thread keeps the captured context; the call ends or waits for the target |
| `EasyLoad` | 2 injections | no domain is unloaded under an injection; a library runs at most once; hosts are answered |
| `ServiceHandshake` | 2 hosts, 3 threads, 2 attempts | the interface is served; one service; helpers end |
| `ModuleList` | 2 threads with one call each, up to 3 modules of 2 addresses, one load or unload | a caller that refreshes alone finds the module of its address, or its neighbour for the first one; calls return |
| `TestFuncHooks` | a module of 2 names that forwards to 2 others and to one that is absent, unloaded and loaded at any time; names that differ in case, exchanged ordinals, code at the end of a directory; entry points of 1 to 3 out of some 45 instructions, 32 and 64 bit | exports resolve as the loader does it; the results fit as long as the module is not loaded again; a relocated entry point keeps its meaning; no instruction is cut |

Two runs show what the code does against what a comment or document of the repository
says of it; each is a finding of `PROJECT.json`, with the line:

| Run | Statement | What happens |
|---|---|---|
| `LocalHookRemoveAll` | "Will remove ALL hooks." (`uninstall.c:115`) | of two hooks the older is uninstalled; the newer is on no list any more |
| `HookAclPseudoCode` | the pseudo code in `LocalHook.cs:536-575` | the global list refuses a thread that an inclusive local list names |

Further configurations, kept beside the runs, do the same for other statements. They are
not among the runs of `PROJECT.json`; TLC is expected to violate the one property of each:

| Configuration | Statement | What happens |
|---|---|---|
| `HookAclInclusive` | "all threads stated there are intercepted too" (`acl.c:92-94`) | with two inclusive lists only threads on both are |
| `RemoteInjectionRefused` | "0 for success, -1 for fail" (`Loader.cs:44`) | 0 is also returned for a refused connection, and the host is told of success |
| `RemoteInjectionTested` | "If the following call succeeds, then it will also do so some lines later" (`entry.cpp:281-282`) | the first call only connects; the second loads the assembly and may fail |
| `RemoteInjectionWakeUp` | "NO thread has actually executed any instruction so far" (`thread.c:589-592`) | a stealth injection resumes the main thread it hijacked |
| `StealthRegisters` | "just like nothing has happened" (`stealth.c:95-96`) | registers that the context does not hold are not restored |
| `ModuleListStale` | "No matching module could be found." (`caller.c:415-417`) | a loaded module is skipped for a stale last error |
| `ModuleListNeighbour` | "Receives the owner of a given method." (`caller.c:411`) | the first address of a module is found in the one before it |
| `TestFuncHooksCase` | "The export name must exactly match" (`thread.c:844`) | names are compared with `_stricmp` |
| `TestFuncHooksOrdinals` | "If ordinal doesn't match index retrieve correct address" (`thread.c:1753`) | forwarders are looked for before, at the position of the name |
| `TestFuncHooksCount` | "The number of items added to outResults." (`thread.c:1510`) | the second pass can read more names than the first, and writes behind the array |

Why these bounds are enough: two hooks that take turns in one slot suffice for every
relation between a page and its slot; three hooks for two slots are a stack of two
beside another one, a stack of three whose last install finds no slot, and every
order of leaving the list. The run with one slot copies the 32-bit trampoline, the
other one the 64-bit one. Two threads suffice for every race of an API call with a
call or another API call; depth 2 for a handler that waits for itself, depth 3 for
the barrier's h1-h2-h1 nesting; one round of waiting (`WaitRounds` = 1) for both
outcomes of the counter test with and without budget; capacity 2 for empty, partial,
full and overfull lists; three injection calls because with three a late waiter and
a newly listed entry meet (two calls for one process never break, three may: see
`TwoTakeTurns`). `ThreadBarrier` has three threads so that two own the entries and
one is turned away; its constraint `FewCalls` lets one thread nest to the full
depth, or several make `MaxActive` = 2 calls together, for threads meet only in the
storage and in the slots. Two threads of a target are an active and a suspended one,
in either order of the snapshot; one unit of work tells a context that is kept from
one that is lost. Two injections show every order of a `Load` and a `Close`. Two
attempts to install are a helper that is late and its successor, three threads the
same host or another one. One change unloads a module that a refresh is about to
read, or loads one in front of which it stops. Two addresses of a module tell its
first one, which is the end of its neighbour, from the others; the pointers looked
up are one of either and NULL. The exports and the programs of `TestFuncHooks` are
enumerated in `MCTestFuncHooks`: an image for each layout that `thread.c` treats in
its own way, and an instruction of each sort that `reloc.c` does. `Reach` = 100 and
`Distance` = 40 put displacements on both sides of the 32-bit limit.
`EntriesReachLivePages`, `ApiReachesLivePages` and `LeaksAreJustified` are checked
for *one* control thread: two threads that install and remove hooks on one
function at once can interfere between the unlocked read and write of its entry
point, and nothing documents that they may.

No run checks deadlock: all systems here may legitimately stop (all pages used,
calls bounded, process crashed or unloaded, injection done).

**Fairness.** The scheduler runs threads that can run; user code is never forced.

* `LocalHookService`: `WF(WaitStep(t))` for the thread in `LhWaitForPendingRemovals`.
  Nothing is asked of handlers, which may never return, nor of callers. The loop
  ends because its budget is shared by all hooks of a call (`uninstall.c:214-240`).
* `RemoteInjection`: of the injecting thread alone, whose calls return. Nothing is asked
  of the target: a hijacked thread may sit in the kernel and never come to the stub
  (`stealth.c:336-338`), the remote thread may wait for the loader lock, the user's
  library need not return. So `InjectionEnds` says that the call ends or waits for
  ever for the target (`WaitsForTarget`): for the thread of
  `NtForceLdrInitializeThunk`, for the remote thread or its event, which the end of
  the target ends too, or for a hijacked thread, at `stealth.c:345`, where nothing
  else does.
* `EasyLoad`: of each thread's own steps. A library may run for ever
  (`RunReturns` is not fair); one that runs under the lock is the exception of
  `HostIsAnswered`.
* `ServiceHandshake`: of the helpers only.
* `ModuleList`: of each thread within a call.

Other divergences seen while modelling. The models contain the behaviour (a
crash, an exception in a property, a fault), or leave the detail out; no run
singles them out.

Hooks, barrier, access control:

* the x64 trampoline tests `HookProc` and reads it again after the barrier, so
  that an uninstall in between makes it jump to 0 (`HookSpecific_x64.asm:212`,
  `261`, `310`; `uninstall.c:63`);
* on x86 a handler may run after `LhUninstallHook` returned, though
  `uninstall.c:35-37` says "never";
* of two hooks stacked on one function and removed together the older is never
  released;
* an install that fails inside `LhAllocateHook` is cleaned up twice
  (`install.c:331`, `548`);
* a thread whose table could not be allocated is turned away once and indexes a
  null table on its next call (`barrier.c:792`, `797`);
* a nested hooked call clears the context of the outer handler
  (`barrier.c:850`, `888`, against `454-457`);
* `LhBarrierEndStackTrace` fails after a nested hooked call and the handler then
  skips the outro;
* the managed mirror keeps a list that the native call refused.

Injection:

* the late report of an injection that timed out answers the next one for the
  same process (`HelperServiceInterface.cs:126`, `141`, `RemoteHook.cs:422-426`);
* a remote thread that raises the event and ends before the host waits is
  reported as "returned success but didn't raise the remote event"
  (`thread.c:1340`, `1379`);
* the x64 stub exits with 0x01000000 when `VirtualProtect` fails, the host tests
  for 0x20000000;
* a created process whose injection failed stays behind suspended when `OpenProcess`
  fails in the outro (`thread.c:690-692`), and when it has ended its id may by then be
  that of another process, which is terminated;
* a thread that `SuspendThread` refuses is hijacked nonetheless if it is the last one
  (`stealth.c:201-220`), while it runs;
* the stealth stub's last `CloseHandle` closes the new thread's handle, and the
  duplicate of `hSyncEvent` leaks; a thread hijacked again while it is still in
  the stub loses its context (against the comment at `stealth.c:96`);
* the signal's duplicate leaks when EasyHook's DLL cannot be loaded;
* between the two `Load` calls of one injection the count is 0, so that another's
  `Close` may unload the domain; the second `Load` then only connects anew, and the
  library never runs; without memory for a domain the library runs under the
  lock, and every other `Load` and `Close` waits for it;
* `m_Interface` is read after the lock was left and may be null or dead; the
  helper dies with the thread that installed it, not with the process; a service
  that is registered already is refused *and* marked for deletion
  (`service.c:82-101`); a helper started by an attempt that timed out may serve
  nobody until that thread ends.

Module information (`caller.c`):

* "Is supposed to be called interlocked" (188), but the callers do not hold the
  lock, and `ProcessModules` is read outside of it;
* skipped modules leave a blank record at the end of the chain;
* `LhEnumModules` writes one entry past the caller's buffer before it refuses
  (361); pointers handed out dangle after the next refresh (283); more than 1024
  modules are read past the array; `LhBarrierCallStackTrace` captures 32 frames
  (536), the comment says 64 (503).

Relocation and exports:

* LOOP, LOOPE and LOOPNE and a RIP-relative operand with displacement 0 are
  copied unchanged; a RIP-relative instruction with prefix 67 is written without
  the prefix; 67 E8 and 67 E9 are read as 16-bit; branches behind 66 or 2E are
  not recognised;
* `LhGetInstructionLength` never returns `STATUS_INVALID_PARAMETER` (its comment
  says so); ENDBR is invalid for the decoder's tables;
* the table of functions is read at the position of a *name*, so that one with more
  names than functions is read past its end; ordinals not below the number of names
  are refused; code that begins where the export directory ends is read as a
  forwarder's string (`thread.c:961`, `1711`); forwarders in a circle recurse for ever;
* `TestFuncHooks` never closes the process handle (`thread.c:1574`) and reports "not
  found", with results, when the report cannot be written.

## 4. Proofs

The theorems hold for every value of the constants under named `ASSUME`s, which
TLC evaluates in every run. They say that counts and bounds are numbers, that
`NULL`, `Original`, `NOBODY` and `DEFAULT` are none of the things they stand beside,
that `LocalHook` has finitely many threads, `EasyLoad` finitely many injections and
`InjectionWait` finitely many calls, and that the main thread of a target is one of
its threads. None bounds a set or a number that the code does not bound.
`TestFuncHooks` assumes in addition that its inputs are what a process holds and
reads:

* `ImagesAreTables`: an export directory has as many ordinals as names, not fewer
  functions, and ordinals of functions. A module whose functions have several names each
  may have more names than functions; the code then reads the table of functions
  past its end (`thread.c:948`, `1691`), and nothing is claimed of it;
* `ModuleIsLoaded`: the module under test is one of the modules;
* `ProgramsAreDecoded`: what stands at an entry point is a program (`IsProgram`), and
  the decoder reads its instructions as the processor does (`IsDecoded`): their lengths
  and which operands are relative to RIP. The theorems are thus about what `reloc.c`
  makes of udis86's answers. That `Decoder` gives these answers is what TLC evaluates,
  for each of the programs of the run; it is false of opcodes udis86 does not know.

Each theorem follows from an inductive invariant that TLC checked on the
instances of section 3 before it was proved. The proofs are split by action, one
step per disjunct of `Next`, after lemmas about what a step of one thread, one
call or one page leaves alone.

**`LocalHook_proofs`**

* `TypeCorrect`: `Spec => []TypeOK`. The inductive invariant is
  `TypeInv`: types, and that an operation in progress has its hook, handle and
  function, without which a field of `hook[op[t].hook]` has no type.
* `HandlerPinsHookAlways`: `Spec => []HandlerPinsHook`.
  `HandlerPinsHook` is not inductive: from a state where a waiter is about to
  free a page that a thread has entered it fails in one step. The inductive
  invariant is `TypeInv /\ PinInv` with
  - `UnpublishedIsPrivate`: nothing leads to a page whose install may still fail;
  - `RemovedIsDisarmed`: a hook queued for release has no handler, so nobody
    gets behind its check anew;
  - `CounterCounts`: `IsExecuted` is the number of activations between increment
    and decrement, so a counter of zero means nobody is inside;
  - `ReleasedIsLeft`: once the counter was read as zero, nobody is inside.

  A thread that enters the page after the counter was read finds no handler and
  leaves again; that is why the single read at `uninstall.c:217` is enough for
  handlers (not for the first and last instructions of the page, which run
  uncounted: the fault "freed page" of the model).
* `HandlerPinsSlotAlways`: `Spec => []HandlerPinsSlot`, with `SlotKept`: a hook that
  was published has its slot until a waiter, having cleared the slot, is about to
  free the page. Nobody is behind the check of a hook in that state
  (`ReleasedIsLeft`), so it does not matter that the slot is cleared without the lock.
* `ArmedHookHasHandleAlways`: `Spec => []ArmedHookHasHandle`, with `HandleInv`. Whether a
  removal may disarm a hook that another thread is still installing depends on
  who knows the hook: `InstallsAreApart` gives each install its own hook and handle,
  and keeps the hook off `hookList` until `TrackHook`; `ListedAreArmed` makes the list
  free of repetitions, so that what is unlinked is gone from it; `LinksAreTracked`
  makes the handle of a hook unique. That the unlink loop loses newer hooks does
  not matter: only `hookList` loses them, not their handles.
* `ApiReachesLivePagesAlways`, `EntriesReachLivePagesAlways`, `LeaksAreJustifiedAlways`:
  `ASSUME OneController PROVE Spec => []ApiReachesLivePages`, and the same for the two
  others. `OneController` says that at most one thread installs and removes hooks; any
  number of threads may call the hooked functions meanwhile. It cannot be left out:
  the instance of `LocalHookStacked` with a second control thread violates each of the
  three. All the steps are first described by what they do to pages, calls
  and entry points (`StepActs`). The inductive invariant `ControlInv` adds
  - `SequenceInv`: a hook with a handle is armed, an armed one is mapped, and a removed
    hook is listed once and not again while the wait works on it;
  - `ChainInv`: the hooks behind the entry points form chains (`Chains`). Each is
    entered from one place, an entry point or the hook stacked upon it, and its
    `TargetBackup` is where it leads. What an install read of the entry point is still
    there when it patches it, and what a wait compared when it restores it
    (`StandsStill`). Hence a restored entry point leads to the next hook of the chain, and
    the hook taken away, which is unmapped two steps later, has nobody left that
    leads to it;
  - `LeakInv`: a patched hook is at its entry point or below another
    (`PatchedAreFound`), so a comparison that fails gives up a page that is still needed;
  - `PageInv`: a page that was never used leads nowhere.
* `CoreImplementsService`: `Spec => ImplementsService`. The
  mapping takes a hook's `LifeStage` for its status, the activations behind its
  check for those inside, and `dll # "unloaded"` for up. Each action is shown to be one
  abstract step or a stutter, from `TypeInv /\ PinInv`. Nothing is promised
  after the unload.

**`ThreadBarrier_proofs`**: all six invariants of the run follow from one `Inv`.

* Besides types it has `EntriesAreOwned` and `SlotsAreOwned` (one entry for a thread,
  one hook for a slot), per thread what its nested activations look like
  (`ThreadInv`), and per owned entry what the entry records of them (`EntryInv`).
* `NoAssertionFails`, `HandlersReturn`: `Recorded`. A handler in progress has its own
  record in the table: the hook's slot cannot go to another hook meanwhile
  (`HooksStay`), and the intro of another activation of the same hook by the
  thread finds `IsExecuting` and turns back.
* `HandlersSeeTheirCallback`: `InContext`, which is about the *innermost* handler. An
  inner outro clears the context rather than restoring the outer one, so for the
  outer handler it holds that the context is none.
* `SelfProtectionIsPaired`: `Paired`. The protection is taken by the one activation
  that is in `LhBarrierIntro`; while its table is allocated the heap may call hooked
  functions, and these are turned away before they reach it (`Registers`).
* `BarrierOpensAgain`: `Marked`. Who left past the outro is in the history `skipped`.
* `StorageIsOwned`: it is part of `Inv`, with the scan of `IdList` that takes no lock.

**`HookAcl_proofs`**

* `NegotiationIsSound` and `HooksStartSuspended`: `Spec => []NegotiationIsConjunction`,
  `Spec => []SuspendedUntilSet`. `Knows` says for each place in
  `LhIsThreadIntercepted` what the scans have established, in terms of the lists as
  they are; it is kept for negotiations that no write disturbed. `Suspended` says
  that before a request for the local list nobody writes it and no negotiation
  gets past it.
* `ListsAreInForce` and `MirrorIsTrue`:
  `Spec /\ []OneSetterPerList => []ListIsInForce`, and the same for
  `MirrorShowsTheList`. `LhSetACL` takes no lock, so two threads that set *one* list
  at once can mix their lists up; the hypothesis excludes these behaviours and no
  others. Any number of threads may negotiate, and set different lists, at once.
  `InForce` describes how far a setter has copied its list.

**`InjectionWait_proofs`**

* `ListIsEmptyInTheEnd`, `OwnerComesToTheEnd`: an `InjectionWait` belongs to one process
  (`OfOneProcess`); a mutex has an owner that is between `BeginInjection` and
  `EndInjection`, or whose `EndInjection` threw (`Owned`); whatever is listed has a call
  that will take it off, because it owns the mutex or is about to take a free one
  (`Listed`). `EndInjection` may throw for one call, but not for the one that
  `Listed` names.
* `TwoCallsTakeTurns`, `OwnLoaderAnswers`: `Turns` and `Told` are about processes that
  are not `Crowded`, that is, for which no third call was made. Their calls share one
  `InjectionWait`, and the holder of its mutex is the one that goes on. With three
  calls the claim is false (divergences, above). No bound is put on calls for
  *other* processes.

**`EasyLoad_proofs`**

* `CountIsExact`: `Spec => []CountCounts`, that is, `_injectCount`
  is the number of injections inside `Load`.
* `DomainOutlivesLoadAlways`: `Spec => []DomainOutlivesLoad`. The
  domain is used after the lock was left, so the property needs that `Close`
  cannot meet anybody: the inductive invariant is `TypeInv`, `CountCounts`,
  `UsedIsCurrent` (who is in a domain is in the current or in the default one)
  and `UnloadIsAlone` (who unloads holds the lock and nobody is inside `Load`).
  The count is linked to the set of injections with the library's theorems on
  finite sets.
* `LibraryRunsOnceAlways`: `Spec => []LibraryRunsOnce`, with `OnceInv`: a library runs in
  the second call only (`RunsInSecondCall`), whose channel is the one that the
  first noted (`FindsItsChannel`), unless the domain was unloaded in between.

**`RemoteHook_proofs`**

* `SuccessIsLoadedAlways` and `RemoteThreadIsSafeAlways`:
  `Spec => []SuccessIsLoaded`, `Spec => []RemoteThreadIsSafe`. Both follow from one
  inductive invariant, `InvHolds`. In direct mode it would be enough to say how far
  the injector is when the remote thread starts; a thread that a stub creates may
  start after the injector failed and closed its handles. `HandedOver` therefore
  says: once a call of `RhCreateStealthRemoteThread` has begun, and until the
  remote thread exists, page, `REMOTE_INFO` and signal are ready, and nobody but
  the remote thread touches them again. `NothingHijacked` and `NotBegun` exclude a
  stub before that call; `PageInUse`, `DllInUse` and `SignalInUse` then carry each
  need from one step of the remote thread to the next, and `LoadedFirst` orders
  library, signal and outcome, for each way of loading: `library` is reached by
  unmanaged injections only, and `thread.loader` tells `Main` from `Load`. Of a library
  that exports `Load`, success says no more than that the signal was raised.
* `NoProcessIsStrandedAlways`: `Spec => []NoProcessIsStranded`, with the
  strengthening that a process is terminated only by the step that ends the call, and
  that this step is come to only after a failure of a created process
  (`TerminatedLast`). That `OpenProcess` may fail there is `injector.reopened`, a
  condition of the property: without it the claim is false.
* `ImportedHandleIsOpenAlways` and `ActiveContextIsKeptAlways`: what `StealthThread`
  promises, proved for its steps as `RemoteInjection` composes them, from
  `StealthInvHolds`. Only the thread that was taken executes the stub
  (`StubOfHijacked`); the stub can reach its pause but not leave it before the
  call sets the event (`StubWaits`), hence the handle it stored is still open when
  it is imported; the thread is suspended from the snapshot to the
  redirection (`Held`), which only another resumption could end, and the only
  other one, `RhWakeUpProcess`, needs a remote thread that does not exist yet; so
  the context that was captured is still where the thread is (`Kept`). A thread that is
  taken because none is active clears `host.active`: nothing is claimed of it, nor of
  registers that the context does not hold.
* `ResultsFitAlways`, `EntryIsWholeHolds`, `RelocationKeepsMeaningHolds`:
  `TestSpec => []P` for each of the three, from `TestInv`. For the call it says that
  while the module has been there all the time (`HasStayed`) the count is that of the
  names which match, and the results are no more than those before the current name
  (`RoomIsLeft`). Once the module is gone the second pass takes nothing more, so the array
  is overrun only after it was loaded again. While an entry point is relocated,
  `Relocating` describes it between any two turns:
  - `Rounded`: the size counted so far ends where an instruction ends, and the
    instruction before that begins within the five bytes of the jumper;
  - `Underway`: the loop stands where an instruction begins, or one byte behind,
    at the instruction's own opcode, if it skipped a prefix 67 (`Start`);
  - `MovedUpTo`: what is moved are the instructions that begin before that place, all
    of them and no others;
  - `MeaningKept`: each of them does what it did, or is `Overlooked`.

  A turn is then a statement about one instruction, from its bytes: what is taken for
  a branch is one and leads where it did (`BranchIsExact`, `BranchesAreSeen`), and
  what is copied means the same anywhere, or has its displacement adjusted to where it
  goes (`RipIsExact`). Distances are any that 8 or 32 bits hold (`Signed32Reads`). None of
  it depends on how many instructions there are, on `Reach` or on `Distance`.
* `ResolvesLikeLoaderHolds`: `TestSpec => []ResolvesLikeLoader`, with `Followed`: as long as
  `GetRemoteFuncAddress` looks for it, the forwarder at hand is in every chain of the
  name, and what it finds at the end is too. There is a chain, the set of all
  functions (`Chains`), so a reported address is that of a function. The theorem holds
  for modules and forwarders in any number, those that run in circles included, under the
  property's own hypothesis: ordinals in the order of the names wherever something is
  forwarded (`InOrder`), and no two spellings of one name among those that a module
  exports and is asked for (`OneSpelling`). Under it the first name that `_stricmp` accepts
  is the one the loader means. The configurations `TestFuncHooksOrdinals` and
  `TestFuncHooksCase` show that neither half can be left out.

**`ServiceHandshake_proofs`**

* `ServicesAreAlone`, `HelpersServe`: `Spec => []OneService`, `Spec => []InterfaceIsServed`.
  A service that runs is the registered one (`Entered`). A helper waits for the
  mutex of its channel, which belongs to the thread that made the channel until
  that thread ends (`Owned`); only the helper sets its event, when it begins to
  wait (`Signalled`), and a thread connects to nothing but its own channel after
  that event (`Working`). Hence a kept interface has a helper that waits, or an
  installer that ended (`Served`).

**`ModuleList_proofs`**

* `AloneFindsModuleAlways`: `Spec => []AloneFindsModule`, which is about calls that have
  returned. `ListInv` follows the modules a call may rely on through its refresh: they
  are loaded (`Relies`); as long as no other thread refreshes and no stale error makes this
  one skip a module (`Clean`), the loop of `LhUpdateModuleInformation` has copied each of
  them, or finds it further on in `ProcessModules`, which only another refresh could
  overwrite (`Collected`); they are in the list that is published (`Listed`) and in
  the cache when it is searched again (`Published`). So a second search fails for an
  address only that none of them owns (`Unowned`), and the refresh after it changes
  nothing of that. What is found has the address in its range, ends included
  (`Found`), and the ranges of two modules meet in the first address of one of
  them at most (`RangesMeet`), whether that module or a cached record of one that is gone
  is the first hit. That an address of a module is neither NULL nor ~0, which end the
  search at once, is `OwnersAreHits`.

**Only model-checked:** liveness (`WaitDoesNotHang`, `InjectionEnds`, `HostIsAnswered`,
`HelperEnds`, `CallReturns`), which the prover cannot treat, and what the two runs that expect a
violation show. Every invariant of a passing
run is proved. Not proved, but assumed (`ProgramsAreDecoded`) and evaluated by TLC on the
programs of the run, is what `Decoder` computes.

## 5. Plan

Done: all modules above. Open, in this order:

1. `ManagedHook`: `Create`, `Dispose` and the finaliser, composed with the abstract
   `HookService`.
2. `HookedProcess`: `LocalHook` composed with `ThreadBarrier`, so that the slots of
   the barrier are those of the lifecycle.

## 6. Not modelled

* The kernel driver's own entry points, debugger symbols, the GAC and the Rtl
  wrappers: operating system calls without shared state of EasyHook.
* `EasyHook/IPC`: the project file compiles none of it.
* Managed `Create`, `Dispose` and finaliser (see the plan); process queries
  (`RhIsX64Process`, `RhGetProcessToken` and others), which keep no state.
* `LhBarrierCallStackTrace` and the driver's variant of `caller.c`.
* Of the disassembler the mnemonics and printing, and most SSE and AVX opcodes:
  one instruction of each table type is kept.

To check a run: `tlc -config LocalHookService.cfg MCLocalHook`; `PROJECT.json`
names the module and the configuration of each. To check the proofs:
`tlapm LocalHook_proofs.tla`, and likewise
`ThreadBarrier_proofs`, `HookAcl_proofs`, `InjectionWait_proofs`,
`RemoteHook_proofs`, `EasyLoad_proofs`, `ServiceHandshake_proofs` and
`ModuleList_proofs`.
