------------------------------- MODULE EasyLoad -------------------------------
(***************************************************************************)
(* How an injected managed library gets its application domain.  The       *)
(* thread of an injection, in CompleteManagedInjection (entry.cpp), calls  *)
(* Load of EasyLoad (Loader.cs) twice and then Close: the first call only  *)
(* connects to the host, then the host is answered, and the second call    *)
(* runs the library (EasyHook.InjectionLoader.Main).  All injections of a  *)
(* process share one domain; Close unloads it when nobody is in Load.      *)
(*                                                                         *)
(* lock(_lock) blocks are one step, unless the library runs inside.  Every *)
(* injection has a channel of its own (PrepareInjection in RemoteHook.cs), *)
(* so a channel is named by the injection.                                 *)
(***************************************************************************)
EXTENDS Integers, FiniteSets

CONSTANTS
  Injections, \* injections into this process
  NOBODY      \* nobody holds the lock

ASSUME NobodyIsNoInjection == NOBODY \notin Injections
ASSUME FinitelyMany == IsFiniteSet(Injections)

VARIABLES
  lock,        \* _lock: the injection that holds it between steps
  domain,      \* _easyHookDomain, 0 for null
  created,     \* domains created so far; they are numbered
  unloaded,    \* the domains that were unloaded
  injectCount, \* _injectCount
  connected,   \* _connectedChannels of each domain; that of the default domain is 0
  stub,        \* of each injection: where its thread is, in which call of Load, in which domain,
               \* what Load will return, attempts to unload
  host,        \* of each injection: what its host was told
  runs         \* of each injection: how often the library was run

vars == <<lock, domain, created, unloaded, injectCount, connected, stub, host, runs>>

DEFAULT == 0
Invalid == 0
NoChannel == 1
Failed == -1

Init ==
  /\ lock = NOBODY
  /\ domain = 0 /\ created = 0 /\ unloaded = {} /\ injectCount = 0
  /\ connected = [d \in {DEFAULT} |-> {}]
  /\ stub = [i \in Injections |-> [pc |-> "idle", call |-> 1, where |-> DEFAULT, result |-> Failed, tries |-> 0]]
  /\ host = [i \in Injections |-> "waits"]
  /\ runs = [i \in Injections |-> 0]

At(i, p) == stub[i].pc = p
Goto(i, p) == stub' = [stub EXCEPT ![i].pc = p]
Returns(i, result, p) == stub' = [stub EXCEPT ![i].result = result, ![i].pc = p]

----------------------------------------------------------------------------
(* Loader.Load. *)

Begin(i) ==
  /\ At(i, "idle")
  /\ Goto(i, "load")
  /\ UNCHANGED <<lock, domain, created, unloaded, injectCount, connected, host, runs>>

\* The count is raised and the domain is there, or is created now, which may fail.
EnterLoad(i) ==
  /\ At(i, "load") /\ lock = NOBODY
  /\ injectCount' = injectCount + 1
  /\ \/ domain # 0 /\ UNCHANGED <<domain, created, connected>> /\ Goto(i, "proxy")
     \/ /\ domain = 0
        /\ created' = created + 1 /\ domain' = created + 1
        /\ connected' = [d \in DOMAIN connected \cup {created + 1} |->
                           IF d = created + 1 THEN {} ELSE connected[d]]
        /\ Goto(i, "proxy")
     \/ domain = 0 /\ UNCHANGED <<domain, created, connected>> /\ Returns(i, Failed, "leave")
  /\ UNCHANGED <<lock, unloaded, host, runs>>

\* No memory to create one: the default one is used, without leaving the lock.
FallBack(i) ==
  /\ At(i, "load") /\ lock = NOBODY /\ domain = 0
  /\ injectCount' = injectCount + 1
  /\ lock' = i
  /\ stub' = [stub EXCEPT ![i].pc = "connect", ![i].where = DEFAULT]
  /\ UNCHANGED <<domain, created, unloaded, connected, host, runs>>

\* The proxy is created in whatever _easyHookDomain is by now.
CreateProxy(i) ==
  /\ At(i, "proxy")
  /\ \/ stub' = [stub EXCEPT ![i].pc = "connect", ![i].where = domain]
     \/ Returns(i, Failed, "leave")
  /\ UNCHANGED <<lock, domain, created, unloaded, injectCount, connected, host, runs>>

\* LoadData: the parameters are read and the host is pinged.
Connect(i) ==
  /\ At(i, "connect")
  /\ \/ Goto(i, "channel")
     \/ Returns(i, Invalid, "unlock")
  /\ UNCHANGED <<lock, domain, created, unloaded, injectCount, connected, host, runs>>

\* Variant: a new channel is as good as one that is known.
CheckChannel_RunsAtOnce(i) ==
  /\ At(i, "channel")
  /\ connected' = [connected EXCEPT ![stub[i].where] = @ \cup {i}]
  /\ Goto(i, "library")
  /\ UNCHANGED <<lock, domain, created, unloaded, injectCount, host, runs>>

\* A channel that is new in this domain is only noted.
CheckChannel(i) ==
  /\ At(i, "channel")
  /\ IF i \in connected[stub[i].where]
     THEN Goto(i, "library") /\ UNCHANGED connected
     ELSE /\ connected' = [connected EXCEPT ![stub[i].where] = @ \cup {i}]
          /\ Returns(i, NoChannel, "unlock")
  /\ UNCHANGED <<lock, domain, created, unloaded, injectCount, host, runs>>

\* LoadUserLibrary: the library is loaded and its Run is called, or the host is told of the exception.
LoadUserLibrary(i) ==
  /\ At(i, "library")
  /\ \/ runs' = [runs EXCEPT ![i] = @ + 1] /\ Goto(i, "run")
     \/ Returns(i, Failed, "forget") /\ UNCHANGED runs
  /\ UNCHANGED <<lock, domain, created, unloaded, injectCount, connected, host>>

RunReturns(i) ==
  /\ At(i, "run")
  /\ Returns(i, 0, "forget")
  /\ UNCHANGED <<lock, domain, created, unloaded, injectCount, connected, host, runs>>

\* The finally block of Main.
ForgetChannel(i) ==
  /\ At(i, "forget")
  /\ connected' = [connected EXCEPT ![stub[i].where] = @ \ {i}]
  /\ Goto(i, "unlock")
  /\ UNCHANGED <<lock, domain, created, unloaded, injectCount, host, runs>>

LeaveLock(i) ==
  /\ At(i, "unlock")
  /\ lock' = IF lock = i THEN NOBODY ELSE lock
  /\ Goto(i, "leave")
  /\ UNCHANGED <<domain, created, unloaded, injectCount, connected, host, runs>>

\* The finally block of Load.
LeaveLoad(i) ==
  /\ At(i, "leave") /\ lock = NOBODY
  /\ injectCount' = injectCount - 1
  /\ Goto(i, "returned")
  /\ UNCHANGED <<lock, domain, created, unloaded, connected, host, runs>>

----------------------------------------------------------------------------
(* CompleteManagedInjection. *)

\* A first call that did not fail raises the event; the result of the second is not looked at.
AfterLoad(i) ==
  /\ At(i, "returned")
  /\ \/ /\ stub[i].call = 1 /\ stub[i].result = Failed
        /\ host' = [host EXCEPT ![i] = "failed"]
        /\ Goto(i, "done")
     \/ /\ stub[i].call = 1 /\ stub[i].result # Failed
        /\ host' = [host EXCEPT ![i] = "signalled"]
        /\ stub' = [stub EXCEPT ![i].pc = "load", ![i].call = 2]
     \/ stub[i].call = 2 /\ Goto(i, "close") /\ UNCHANGED host
  /\ UNCHANGED <<lock, domain, created, unloaded, injectCount, connected, runs>>

----------------------------------------------------------------------------
(* Loader.Close. *)

\* Variant: the domain is unloaded whoever is in Load.
EnterClose_IgnoresCount(i) ==
  /\ At(i, "close") /\ lock = NOBODY
  /\ IF domain # 0 THEN lock' = i /\ Goto(i, "unload")
     ELSE Goto(i, "done") /\ UNCHANGED lock
  /\ UNCHANGED <<domain, created, unloaded, injectCount, connected, host, runs>>

EnterClose(i) ==
  /\ At(i, "close") /\ lock = NOBODY
  /\ IF domain # 0 /\ injectCount = 0 THEN lock' = i /\ Goto(i, "unload")
     ELSE Goto(i, "done") /\ UNCHANGED lock
  /\ UNCHANGED <<domain, created, unloaded, injectCount, connected, host, runs>>

Unload(i) ==
  /\ At(i, "unload")
  /\ unloaded' = unloaded \cup {domain} /\ domain' = 0
  /\ lock' = NOBODY
  /\ Goto(i, "done")
  /\ UNCHANGED <<created, injectCount, connected, host, runs>>

\* Variant: it is tried until it works.
CannotUnload_TriesForever(i) ==
  /\ At(i, "unload")
  /\ stub' = [stub EXCEPT ![i].tries = 1 - @]
  /\ UNCHANGED <<lock, domain, created, unloaded, injectCount, connected, host, runs>>

\* Threads that do not end keep the domain: after the first attempt and three more it is given up.
CannotUnload(i) ==
  /\ At(i, "unload")
  /\ IF stub[i].tries < 3
     THEN /\ stub' = [stub EXCEPT ![i].tries = @ + 1]
          /\ UNCHANGED <<domain, lock>>
     ELSE /\ domain' = 0 /\ lock' = NOBODY
          /\ Goto(i, "done")
  /\ UNCHANGED <<created, unloaded, injectCount, connected, host, runs>>

----------------------------------------------------------------------------

\* What a thread does unless the library keeps it.
Step(i) ==
  \/ EnterLoad(i) \/ FallBack(i) \/ CreateProxy(i) \/ Connect(i) \/ CheckChannel(i)
  \/ LoadUserLibrary(i) \/ ForgetChannel(i) \/ LeaveLock(i) \/ LeaveLoad(i)
  \/ AfterLoad(i) \/ EnterClose(i) \/ Unload(i) \/ CannotUnload(i)

Next == \E i \in Injections : Begin(i) \/ Step(i) \/ RunReturns(i)

\* Threads are scheduled; there are finitely many calls, so a lock that is free stays free for the
\* last of them.  A library may run for ever.
Fairness == \A i \in Injections : WF_vars(Step(i))

Spec == Init /\ [][Next]_vars /\ Fairness

----------------------------------------------------------------------------
(* Properties. *)

\* Nobody is in a domain that was unloaded, or about to enter one that is no longer there,
\* although the lock is left in between (Loader.cs 134-139 against 169-195).
InDomain == {"connect", "channel", "library", "run", "forget"}

DomainOutlivesLoad ==
  \A i \in Injections :
    /\ stub[i].pc \in InDomain => stub[i].where \notin unloaded
    /\ At(i, "proxy") => domain # 0

\* No other injection came to this process.
Alone(i) == \A j \in Injections \ {i} : At(j, "idle")

\* A library is run at most once, and only after its host was answered; the second call of an
\* injection that is alone finds the channel that the first one noted (entry.cpp 168-190).
LibraryRunsOnce ==
  \A i \in Injections :
    /\ runs[i] <= 1
    /\ runs[i] = 1 => host[i] = "signalled"
    /\ Alone(i) /\ At(i, "load") /\ stub[i].call = 2 /\ stub[i].result = NoChannel =>
         stub[i].where = domain /\ i \in connected[domain]

\* The library runs while its thread has not left the lock.
HoldsUp(i) == At(i, "run") /\ lock = i

\* The host of an injection is answered, unless a library runs under the lock.
HostIsAnswered ==
  \A i \in Injections : At(i, "load") ~> (host[i] # "waits" \/ \E j \in Injections : HoldsUp(j))

=============================================================================
