----------------------------- MODULE TestFuncHooks -----------------------------
(***************************************************************************)
(* TestFuncHooks (EasyHookDll/RemoteHook/thread.c): for each export of a   *)
(* module, whether LhAllocateHook could hook it.  The exports are read     *)
(* twice from a process that goes on running; redirections to other        *)
(* modules are followed by GetRemoteFuncAddress, which RhInjectLibrary     *)
(* uses too; entry points are relocated as in Relocation.  The process is  *)
(* the caller's own, the only one whose code LhAllocateHook can read; it   *)
(* may unload the module under test, and load it again at its place,       *)
(* between any two reads of its names.                                     *)
(*                                                                         *)
(* What the table of functions holds is a record: for code its address (0  *)
(* is NULL), for a forwarder the module and the name it leads to and the   *)
(* address of that string.                                                 *)
(***************************************************************************)
EXTENDS Relocation

CONSTANTS
  Module,     \* the module under test
  Images(_),  \* the exports a module may have: names, ordinals, functions, end of the directory
  Modules,    \* modules of the process
  Lower(_),   \* a name in lower case
  Filters,    \* values of FilterByName, "" for none
  Modes,      \* builds of EasyHook: 32, 64
  Programs(_) \* what may stand at an entry point

\* An entry in the table of functions.
Exports == [module : STRING, name : STRING, address : Nat]

\* As many ordinals as names, and every ordinal that of a function.  There are no fewer functions
\* than names: the code reads the function at the position of a name.
ASSUME ImagesAreTables ==
  \A m \in Modules : \A g \in Images(m) :
    /\ g.names \in Seq(STRING) /\ g.ordinals \in Seq(Nat) /\ g.functions \in Seq(Exports)
    /\ DOMAIN g.ordinals = DOMAIN g.names /\ DOMAIN g.names \subseteq DOMAIN g.functions
    /\ \A i \in DOMAIN g.ordinals : g.ordinals[i] + 1 \in DOMAIN g.functions

ASSUME ModuleIsLoaded == Module \in Modules

\* Programs are well placed and within what the decoder reads as the processor does.
ASSUME ProgramsAreDecoded ==
  \A m \in Modes : m \in {32, 64} /\ \A p \in Programs(m) : IsProgram(m, JumperSize, p) /\ IsDecoded(m, p)

VARIABLES
  mode,     \* the build
  image,    \* the export directory of each module
  loaded,   \* whether the module under test is loaded at its place
  test,     \* the call: pc, position, filter, count of results, lookup at hand; and (history)
            \* whether the module was loaded again during the call
  results,  \* the results filled in so far
  ep        \* the relocation at hand

testVars == <<mode, image, loaded, test, results, ep>>

NoAddress == 0
Code(address) == [module |-> "", name |-> "", address |-> address]
Forward(module, name, address) == [module |-> module, name |-> name, address |-> address]
IsForwarder(f) == f.module # ""
NoLookup == Code(NoAddress)

TestInit ==
  /\ mode \in Modes
  /\ image \in {f \in [Modules -> UNION {Images(m) : m \in Modules}] :
                  \A m \in Modules : f[m] \in Images(m)}
  /\ loaded = TRUE
  /\ \E f \in Filters :
       test = [pc |-> "open", filter |-> f, i |-> 1, count |-> 0, lookup |-> NoLookup,
               status |-> "none", reloaded |-> FALSE]
  /\ results = <<>>
  /\ ep = NoEntryPoint

Stage(p) == test.pc = p

----------------------------------------------------------------------------
(* The exports of a module. *)

Names(m) == image[m].names
Ordinal(m, i) == image[m].ordinals[i]
FunctionsOf(m) == image[m].functions

\* _stricmp: names are compared without regard to case.
Same(a, b) == Lower(a) = Lower(b)

Matches(i) == test.filter = "" \/ Same(test.filter, Names(Module)[i])

\* Code that begins where the export directory ends is taken for a forwarder.
AtEnd(m, f) == ~ IsForwarder(f) /\ f.address = image[m].end

\* Variant: the position of the name is taken for that of the function.
Redirected_ByName(m, i) == FunctionsOf(m)[i]

\* The i-th function, unless the ordinal of the i-th name says another one.  The test for a
\* forwarder was made on the i-th function before.
Redirected(m, i) == FunctionsOf(m)[Ordinal(m, i) + 1]
OrdinalIsValid(m, i) == Ordinal(m, i) < Len(Names(m))

----------------------------------------------------------------------------
(* Counting and allocating. *)

\* GetRemoteModuleHandle, the headers and tables: a module that is gone is not found.
OpenModule ==
  /\ Stage("open")
  /\ test' = IF loaded THEN [test EXCEPT !.pc = "count"]
             ELSE [test EXCEPT !.pc = "done", !.status = "not found"]
  /\ UNCHANGED <<mode, image, loaded, results, ep>>

\* Variant: the first pass compares names exactly.
CountExport_ExactName ==
  /\ Stage("count") /\ test.i \in DOMAIN Names(Module)
  /\ test' = [test EXCEPT !.i = @ + 1,
                          !.count = IF loaded /\ test.filter \in {"", Names(Module)[test.i]}
                                    THEN @ + 1 ELSE @]
  /\ UNCHANGED <<mode, image, loaded, results, ep>>

\* One turn of the first pass: a name that cannot be read is not counted.
CountExport ==
  /\ Stage("count") /\ test.i \in DOMAIN Names(Module)
  /\ test' = [test EXCEPT !.i = @ + 1,
                          !.count = IF loaded /\ Matches(test.i) THEN @ + 1 ELSE @]
  /\ UNCHANGED <<mode, image, loaded, results, ep>>

AllocateResults ==
  /\ Stage("count") /\ test.i \notin DOMAIN Names(Module)
  /\ \/ test' = [test EXCEPT !.pc = "next", !.i = 1]
     \/ test' = [test EXCEPT !.pc = "done", !.count = 0, !.status = "no memory"]
  /\ UNCHANGED <<mode, image, loaded, results, ep>>

----------------------------------------------------------------------------
(* The loop over the names. *)

Advance(t) == [t EXCEPT !.pc = "next", !.i = @ + 1]

Result(name, address, error) == [name |-> name, address |-> address, error |-> error]
Finish(address, error) ==
  /\ results' = Append(results, Result(Names(Module)[test.i], address, error))
  /\ test' = [Advance(test) EXCEPT !.lookup = NoLookup]

GoOn(p, f) ==
  /\ test' = [test EXCEPT !.pc = p, !.lookup = f]
  /\ UNCHANGED results

\* Undefined behaviour: the call writes behind an array, and nothing is known of what follows.
Corrupt(where) ==
  /\ test' = [test EXCEPT !.pc = "corrupt", !.status = where]
  /\ UNCHANGED results

\* A name that cannot be read or does not match is skipped.
SkipExport ==
  /\ Stage("next") /\ test.i \in DOMAIN Names(Module)
  /\ (~ loaded \/ ~ Matches(test.i))
  /\ test' = Advance(test)
  /\ UNCHANGED <<mode, image, loaded, results, ep>>

\* What is left of a name: its function leads to another module, or has the address that the
\* ordinal says.  Code at the end of the directory is read as a string: what stands before its
\* first full stop is the name of no module, and if there is none, the copy does not end.  A
\* string or a name that has become unreadable ends the turn without an address.
Examine(m, i, error) ==
  LET f == FunctionsOf(m)[i] IN
  \/ IsForwarder(f) /\ GoOn("lookup", f)
  \/ AtEnd(m, f) /\ (Finish(NoAddress, error) \/ Corrupt("string"))
  \/ ~ IsForwarder(f) /\ ~ AtEnd(m, f) /\ OrdinalIsValid(m, i)
       /\ GoOn("hook", Code(Redirected(m, i).address))
  \/ Finish(NoAddress, error)

\* The next result is taken.  Nobody asks whether there is one.
TakeExport ==
  /\ Stage("next") /\ test.i \in DOMAIN Names(Module)
  /\ loaded /\ Matches(test.i)
  /\ IF Len(results) < test.count THEN Examine(Module, test.i, "export") ELSE Corrupt("results")
  /\ UNCHANGED <<mode, image, loaded, ep>>

\* GetRemoteFuncAddress: one module after the other, until a function or nothing is found.  The
\* first name that matches is taken, but one that cannot be read is passed over.
GetRemoteFuncAddress ==
  LET m == test.lookup.module IN
  /\ Stage("lookup")
  /\ \/ Finish(NoAddress, "redirect")
     \/ /\ m \in Modules /\ (m = Module => loaded)
        /\ \E i \in DOMAIN Names(m) :
             Same(Names(m)[i], test.lookup.name) /\ Examine(m, i, "redirect")
  /\ UNCHANGED <<mode, image, loaded, ep>>

----------------------------------------------------------------------------
(* LhAllocateHook and what follows it. *)

\* A page near the entry point, then the relocation of the program found there.  The page does
\* not outlive the turn.
LhAllocateHook ==
  /\ Stage("hook")
  /\ \/ Finish(test.lookup.address, "allocation") /\ UNCHANGED ep
     \/ \E program \in Programs(mode) :
          /\ ep' = BeginRelocation(mode, program)
          /\ test' = [test EXCEPT !.pc = "relocate"]
          /\ UNCHANGED results
  /\ UNCHANGED <<mode, image, loaded>>

RoundEntryPoint ==
  /\ Stage("relocate") /\ ep.status = "rounding"
  /\ ep' = LhRoundToNextInstruction(ep)
  /\ UNCHANGED <<mode, image, loaded, test, results>>

LhRelocateEntryPoint ==
  /\ Stage("relocate") /\ ep.status = "running"
  /\ ep' = Turn(ep)
  /\ UNCHANGED <<mode, image, loaded, test, results>>

\* The jumper behind the relocated code leads back to the rest of the function.
JumperReaches == Fits32(ep.size - (Distance + ep.new + JumperSize))

\* A hook that fails frees its page itself; one that succeeds is disassembled and freed.
Conclude ==
  LET failed == ep.status = "thrown" \/ ~ JumperReaches IN
  /\ Stage("relocate") /\ ep.status \in {"success", "thrown"}
  /\ results' = Append(results, Result(Names(Module)[test.i], test.lookup.address,
                                       IF failed THEN "relocation" ELSE "none"))
  /\ test' = [Advance(test) EXCEPT !.lookup = NoLookup]
  /\ ep' = NoEntryPoint
  /\ UNCHANGED <<mode, image, loaded>>

----------------------------------------------------------------------------
(* The end. *)

\* The report is written to a file if one is named; opening it may fail.
WriteReport ==
  /\ Stage("next") /\ test.i \notin DOMAIN Names(Module)
  /\ \E status \in {"success", "not found"} : test' = [test EXCEPT !.pc = "done", !.status = status]
  /\ UNCHANGED <<mode, image, loaded, results, ep>>

\* ReleaseTestFuncHookResults.
ReleaseTestFuncHookResults ==
  /\ Stage("done") /\ test.count > 0
  /\ results' = <<>>
  /\ test' = [test EXCEPT !.pc = "released", !.count = 0]
  /\ UNCHANGED <<mode, image, loaded, ep>>

Running == test.pc \notin {"done", "released", "corrupt"}

\* The process unloads the module meanwhile, and loads it again at its place.
UnloadModule ==
  /\ Running /\ loaded
  /\ loaded' = FALSE
  /\ UNCHANGED <<mode, image, test, results, ep>>

ReloadModule ==
  /\ Running /\ ~ loaded
  /\ loaded' = TRUE
  /\ test' = [test EXCEPT !.reloaded = TRUE]
  /\ UNCHANGED <<mode, image, results, ep>>

TestNext ==
  \/ OpenModule \/ CountExport \/ AllocateResults \/ SkipExport \/ TakeExport \/ GetRemoteFuncAddress
  \/ LhAllocateHook \/ RoundEntryPoint \/ LhRelocateEntryPoint \/ Conclude
  \/ WriteReport \/ ReleaseTestFuncHookResults \/ UnloadModule \/ ReloadModule

TestSpec == TestInit /\ [][TestNext]_testVars

----------------------------------------------------------------------------
(* Properties. *)

\* How the loader of Windows resolves an export: by the ordinal of its name, and on through
\* forwarders.  An address is what a name resolves to if no set of functions that holds what the
\* name stands for, and whatever its forwarders lead to, is without it.
Exported(m, name) ==
  {FunctionsOf(m)[Ordinal(m, i) + 1] : i \in {k \in DOMAIN Names(m) : Names(m)[k] = name}}

LeadsTo(f) == IF IsForwarder(f) /\ f.module \in Modules THEN Exported(f.module, f.name) ELSE {}

AllFunctions == UNION {Range(FunctionsOf(m)) : m \in Modules}
Chains(name) ==
  {S \in SUBSET AllFunctions : Exported(Module, name) \subseteq S /\ \A f \in S : LeadsTo(f) \subseteq S}

Resolves(name, address) ==
  \A S \in Chains(name) : \E f \in S : ~ IsForwarder(f) /\ f.address = address

AddressesAreRight ==
  \A k \in DOMAIN results :
    results[k].address # NoAddress => Resolves(results[k].name, results[k].address)

\* The layouts thread.c can read: ordinals in the order of the names wherever there are
\* forwarders, and no two spellings of a name among those a module exports and is asked for.
InOrder(m) ==
  \/ \A i \in DOMAIN Names(m) : Ordinal(m, i) = i - 1
  \/ \A i \in DOMAIN FunctionsOf(m) : ~ IsForwarder(FunctionsOf(m)[i])
Spellings(m) == Range(Names(m)) \cup {f.name : f \in {g \in AllFunctions : g.module = m}}
OneSpelling(m) == \A a, b \in Spellings(m) : Same(a, b) => a = b

\* Every address that is reported is the one the loader would use, wherever names are spelt in one
\* way and names and ordinals agree or nothing is forwarded (thread.c 837-1029, 1688-1745).
ResolvesLikeLoader ==
  (\A m \in Modules : InOrder(m) /\ OneSpelling(m)) => AddressesAreRight

\* "The export name must exactly match "func"." (GetRemoteFuncAddress, thread.c:844): how names
\* are spelt makes no difference to what the code finds.
NamesMatchExactly == (\A m \in Modules : InOrder(m)) => AddressesAreRight

\* "If ordinal doesn't match index retrieve correct address" (thread.c:1753): nor does the order
\* of the ordinals.
OrdinalsAreFollowed == (\A m \in Modules : OneSpelling(m)) => AddressesAreRight

\* The array of results is not written behind its end as long as no name becomes readable between
\* the pass that counts and the pass that fills (thread.c 1630-1706).
ResultsFit == test.status = "results" => test.reloaded

\* resultCount is "The number of items added to outResults." (TestFuncHooks, thread.c:1510): there
\* is an item in the array for each name that the second pass takes.
ItemsAreCounted == test.status # "results"

\* An entry point that is relocated does in its new place what it did before: calls and jumps keep
\* their targets and RIP-relative operands their memory, except in the overlooked instructions.
RelocationKeepsMeaning ==
  ep.status = "success" =>
    \A k \in DOMAIN ep.moved :
      LET i == ep.at[ep.moved[k].from] IN
      ~ Overlooked(i) => SameMeaning(ep.moved[k], i)

\* The part of the function that the jumper will overwrite ends where an instruction ends, and
\* leaves no instruction out.
EntryIsWhole ==
  ep.status \in {"running", "success", "thrown"} =>
    /\ ep.size >= JumperSize /\ ep.size \in Boundaries(ep.at)
    /\ ep.status = "success" =>
         {ep.moved[k].from : k \in DOMAIN ep.moved} = {b \in Boundaries(ep.at) : b < ep.size}

=============================================================================
