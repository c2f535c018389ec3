--------------------------- MODULE ServiceHandshake ---------------------------
(***************************************************************************)
(* How a host gets its helper: the service that injects for it where it    *)
(* has no rights (ServiceMgmt.cs, RtlInstallService in service.c), or the  *)
(* program of the other bitness (WOW64Bypass.cs).  Either runs             *)
(* InjectionService.OnExecute.  Both sides share an event, set when the    *)
(* helper listens, and a mutex, owned by the thread that installed the     *)
(* helper; the helper ends when that thread does.                          *)
(*                                                                         *)
(* Each attempt to install has a channel name of its own, a number.  A     *)
(* thread owns a mutex until it releases it or ends, whether or not its    *)
(* handle is closed; a named object is gone when its last handle is.       *)
(***************************************************************************)
EXTENDS Naturals, FiniteSets

CONSTANTS
  Hosts,       \* processes that use a helper
  Threads,     \* threads that inject
  HostOf(_),   \* the process of a thread
  MaxAttempts, \* bound: attempts to install
  NOBODY       \* no thread

ASSUME HandshakeConstants ==
  /\ \A t \in Threads : HostOf(t) \in Hosts
  /\ MaxAttempts \in Nat
  /\ NOBODY \notin Threads

VARIABLES
  kind,        \* "service" or "wow64", which of the two helpers is used
  ThreadSafe,  \* of each host: the thread in Install
  m_Interface, \* of each host: the channel of the helper it talks to, 0 for null
  thread,      \* of each thread: where it is and the channel it works on
  attempts,    \* channels made so far
  TermMutex,   \* of each channel: owner, and whether the host and the helper hold a handle
  Listening,   \* of each channel: the event is set, and the host holds a handle
  helper,      \* of each channel: what its helper does
  entry        \* the channel of the registered service, 0 if none is

vars == <<kind, ThreadSafe, m_Interface, thread, attempts, TermMutex, Listening, helper, entry>>

Channels == 1..MaxAttempts

Init ==
  /\ kind \in {"service", "wow64"}
  /\ ThreadSafe = [h \in Hosts |-> NOBODY]
  /\ m_Interface = [h \in Hosts |-> 0]
  /\ thread = [t \in Threads |-> [pc |-> "idle", channel |-> 0]]
  /\ attempts = 0
  /\ TermMutex = [n \in Channels |-> [creator |-> NOBODY, owner |-> NOBODY, host |-> FALSE, helper |-> FALSE]]
  /\ Listening = [n \in Channels |-> [set |-> FALSE, host |-> FALSE]]
  /\ helper = [n \in Channels |-> "none"]
  /\ entry = 0

At(t, p) == thread[t].pc = p
Goto(t, p) == thread' = [thread EXCEPT ![t].pc = p]
Answers(n) == helper[n] \in {"listens", "waits"}

----------------------------------------------------------------------------
(* Install. *)

EnterInstall(t) ==
  /\ At(t, "idle") /\ ThreadSafe[HostOf(t)] = NOBODY
  /\ ThreadSafe' = [ThreadSafe EXCEPT ![HostOf(t)] = t]
  /\ Goto(t, "ping")
  /\ UNCHANGED <<kind, m_Interface, attempts, TermMutex, Listening, helper, entry>>

\* A helper that does not answer is forgotten.
PingExisting(t) ==
  LET n == m_Interface[HostOf(t)] IN
  /\ At(t, "ping")
  /\ IF n # 0 /\ Answers(n)
     THEN Goto(t, "installed") /\ UNCHANGED m_Interface
     ELSE Goto(t, "create") /\ m_Interface' = [m_Interface EXCEPT ![HostOf(t)] = 0]
  /\ UNCHANGED <<kind, ThreadSafe, attempts, TermMutex, Listening, helper, entry>>

\* Variant: the mutex is created, but not owned.
CreateObjects_NotOwned(t) ==
  /\ At(t, "create") /\ attempts < MaxAttempts
  /\ attempts' = attempts + 1
  /\ TermMutex' = [TermMutex EXCEPT ![attempts + 1] = [creator |-> t, owner |-> NOBODY, host |-> TRUE, helper |-> FALSE]]
  /\ Listening' = [Listening EXCEPT ![attempts + 1].host = TRUE]
  /\ thread' = [thread EXCEPT ![t] = [pc |-> "start", channel |-> attempts + 1]]
  /\ UNCHANGED <<kind, ThreadSafe, m_Interface, helper, entry>>

CreateObjects(t) ==
  /\ At(t, "create") /\ attempts < MaxAttempts
  /\ attempts' = attempts + 1
  /\ TermMutex' = [TermMutex EXCEPT ![attempts + 1] = [creator |-> t, owner |-> t, host |-> TRUE, helper |-> FALSE]]
  /\ Listening' = [Listening EXCEPT ![attempts + 1].host = TRUE]
  /\ thread' = [thread EXCEPT ![t] = [pc |-> "start", channel |-> attempts + 1]]
  /\ UNCHANGED <<kind, ThreadSafe, m_Interface, helper, entry>>

Starts(t) ==
  /\ helper' = [helper EXCEPT ![thread[t].channel] = "starts"]
  /\ Goto(t, "wait")

\* Variant: a service that is registered is replaced.
RtlInstallService_Replaces(t) ==
  /\ At(t, "start") /\ kind = "service"
  /\ Starts(t) /\ entry' = thread[t].channel
  /\ UNCHANGED <<kind, ThreadSafe, m_Interface, attempts, TermMutex, Listening>>

\* A service that is registered is refused.  A new one is registered, started and marked to be
\* deleted when it has stopped; if it cannot be started it is deleted at once.
RtlInstallService(t) ==
  /\ At(t, "start") /\ kind = "service"
  /\ \/ entry = 0 /\ Starts(t) /\ entry' = thread[t].channel
     \/ Goto(t, "throw") /\ UNCHANGED <<helper, entry>>
  /\ UNCHANGED <<kind, ThreadSafe, m_Interface, attempts, TermMutex, Listening>>

StartProgram(t) ==
  /\ At(t, "start") /\ kind = "wow64"
  /\ \/ Starts(t)
     \/ Goto(t, "throw") /\ UNCHANGED helper
  /\ UNCHANGED <<kind, ThreadSafe, m_Interface, attempts, TermMutex, Listening, entry>>

\* Listening.WaitOne(5000): the five seconds may be over at any time.
WaitListening(t) ==
  /\ At(t, "wait")
  /\ \/ Listening[thread[t].channel].set /\ Goto(t, "connect")
     \/ Goto(t, "throw")
  /\ UNCHANGED <<kind, ThreadSafe, m_Interface, attempts, TermMutex, Listening, helper, entry>>

ConnectHelper(t) ==
  /\ At(t, "connect")
  /\ IF Answers(thread[t].channel)
     THEN m_Interface' = [m_Interface EXCEPT ![HostOf(t)] = thread[t].channel] /\ Goto(t, "installed")
     ELSE Goto(t, "throw") /\ UNCHANGED m_Interface
  /\ UNCHANGED <<kind, ThreadSafe, attempts, TermMutex, Listening, helper, entry>>

\* The lock is left; the using block of ServiceMgmt closes the handle of the mutex, the static
\* field of WOW64Bypass keeps it until the next attempt.
LeaveInstall(t) ==
  LET n == thread[t].channel IN
  /\ thread[t].pc \in {"installed", "throw"}
  /\ ThreadSafe' = [ThreadSafe EXCEPT ![HostOf(t)] = NOBODY]
  /\ TermMutex' = IF kind = "service" /\ n # 0 THEN [TermMutex EXCEPT ![n].host = FALSE] ELSE TermMutex
  /\ thread' = [thread EXCEPT ![t] = [pc |-> IF At(t, "installed") THEN "use" ELSE "idle", channel |-> 0]]
  /\ UNCHANGED <<kind, m_Interface, attempts, Listening, helper, entry>>

\* Inject reads m_Interface after Install returned; it may be null or dead by then.
UseInterface(t) ==
  /\ At(t, "use")
  /\ Goto(t, "idle")
  /\ UNCHANGED <<kind, ThreadSafe, m_Interface, attempts, TermMutex, Listening, helper, entry>>

----------------------------------------------------------------------------
(* The end of threads and processes. *)

Abandon(dead) == [n \in Channels |-> IF TermMutex[n].owner \in dead THEN [TermMutex[n] EXCEPT !.owner = NOBODY]
                                     ELSE TermMutex[n]]

ThreadEnds(t) ==
  /\ At(t, "idle")
  /\ TermMutex' = Abandon({t})
  /\ Goto(t, "ended")
  /\ UNCHANGED <<kind, ThreadSafe, m_Interface, attempts, Listening, helper, entry>>

Made(h) == {n \in Channels : TermMutex[n].creator # NOBODY /\ HostOf(TermMutex[n].creator) = h}

\* The process of a host dies with its threads and handles.
HostDies(h) ==
  LET dead == {t \in Threads : HostOf(t) = h} IN
  /\ \E t \in dead : ~ At(t, "ended")
  /\ thread' = [t \in Threads |-> IF t \in dead THEN [pc |-> "ended", channel |-> 0] ELSE thread[t]]
  /\ TermMutex' = [n \in Channels |-> IF n \in Made(h) THEN [Abandon(dead)[n] EXCEPT !.host = FALSE]
                                      ELSE TermMutex[n]]
  /\ Listening' = [n \in Channels |-> IF n \in Made(h) THEN [Listening[n] EXCEPT !.host = FALSE] ELSE Listening[n]]
  /\ ThreadSafe' = [ThreadSafe EXCEPT ![h] = NOBODY]
  /\ m_Interface' = [m_Interface EXCEPT ![h] = 0]
  /\ UNCHANGED <<kind, attempts, helper, entry>>

\* The collector closes handles nobody refers to: of the event once Install has left it, of the
\* mutex of an attempt that a later one has replaced in m_TermMutex.
CollectHandles(n) ==
  LET t == TermMutex[n].creator IN
  /\ t # NOBODY /\ (Listening[n].host \/ TermMutex[n].host)
  /\ \A u \in Threads : thread[u].channel # n
  /\ Listening' = [Listening EXCEPT ![n].host = FALSE]
  /\ TermMutex' = [TermMutex EXCEPT ![n].host = @ /\ \A k \in Made(HostOf(t)) : k <= n]
  /\ UNCHANGED <<kind, ThreadSafe, m_Interface, thread, attempts, helper, entry>>

----------------------------------------------------------------------------
(* InjectionService.OnExecute, in the helper's process. *)

Becomes(n, s) == helper' = [helper EXCEPT ![n] = s]
EventExists(n) == Listening[n].host
MutexExists(n) == TermMutex[n].host \/ TermMutex[n].helper

OpenMutex(n) ==
  /\ helper[n] = "starts"
  /\ IF MutexExists(n)
     THEN Becomes(n, "opened") /\ TermMutex' = [TermMutex EXCEPT ![n].helper = TRUE]
     ELSE Becomes(n, "stops") /\ UNCHANGED TermMutex
  /\ UNCHANGED <<kind, ThreadSafe, m_Interface, thread, attempts, Listening, entry>>

Listen(n) ==
  /\ helper[n] = "opened"
  /\ Becomes(n, "listens")
  /\ UNCHANGED <<kind, ThreadSafe, m_Interface, thread, attempts, TermMutex, Listening, entry>>

SignalListening(n) ==
  /\ helper[n] = "listens"
  /\ IF EventExists(n)
     THEN Becomes(n, "waits") /\ Listening' = [Listening EXCEPT ![n].set = TRUE]
     ELSE Becomes(n, "stops") /\ UNCHANGED Listening
  /\ UNCHANGED <<kind, ThreadSafe, m_Interface, thread, attempts, TermMutex, entry>>

\* Variant: the helper waits for the host to close the mutex.
WaitForEnd_OfHandle(n) ==
  /\ helper[n] = "waits" /\ ~ TermMutex[n].host
  /\ TermMutex[n].owner = NOBODY
  /\ Becomes(n, "stops")
  /\ UNCHANGED <<kind, ThreadSafe, m_Interface, thread, attempts, TermMutex, Listening, entry>>

\* TermMutex.WaitOne returns, or throws what is caught, when the mutex has no owner.
WaitForEnd(n) ==
  /\ helper[n] = "waits" /\ TermMutex[n].owner = NOBODY
  /\ Becomes(n, "stops")
  /\ UNCHANGED <<kind, ThreadSafe, m_Interface, thread, attempts, TermMutex, Listening, entry>>

\* The process ends, and the entry of the service with it.
Stop(n) ==
  /\ helper[n] = "stops"
  /\ Becomes(n, "gone")
  /\ TermMutex' = [TermMutex EXCEPT ![n].helper = FALSE]
  /\ entry' = IF entry = n THEN 0 ELSE entry
  /\ UNCHANGED <<kind, ThreadSafe, m_Interface, thread, attempts, Listening>>

----------------------------------------------------------------------------

HelperStep(n) == OpenMutex(n) \/ Listen(n) \/ SignalListening(n) \/ WaitForEnd(n) \/ Stop(n)

Next ==
  \/ \E t \in Threads :
       \/ EnterInstall(t) \/ PingExisting(t) \/ CreateObjects(t) \/ RtlInstallService(t) \/ StartProgram(t)
       \/ WaitListening(t) \/ ConnectHelper(t) \/ LeaveInstall(t) \/ UseInterface(t) \/ ThreadEnds(t)
  \/ \E h \in Hosts : HostDies(h)
  \/ \E n \in Channels : CollectHandles(n) \/ HelperStep(n)

\* The helper's process is scheduled; nothing is asked of the hosts.
Fairness == \A n \in Channels : WF_vars(HelperStep(n))

Spec == Init /\ [][Next]_vars /\ Fairness

----------------------------------------------------------------------------
(* Properties. *)

Running(n) == helper[n] \notin {"none", "gone"}
HasEnded(t) == t # NOBODY /\ At(t, "ended")

\* A helper does not outlive the thread that installed it, at whatever point the host gave up,
\* crashed or let its thread end (InjectionService.cs 82-125).
HelperEnds == \A n \in Channels : (Running(n) /\ HasEnded(TermMutex[n].creator)) ~> ~ Running(n)

\* The helper that a host talks to serves it as long as the thread that installed it lives
\* (ServiceMgmt.cs 42-100, WOW64Bypass.cs 42-94).
InterfaceIsServed ==
  \A h \in Hosts :
    LET n == m_Interface[h] IN
    n # 0 => helper[n] = "waits" \/ HasEnded(TermMutex[n].creator)

\* There is never a second service, whatever the hosts and a slow service do (service.c 84-103).
OneService == kind = "service" => Cardinality({n \in Channels : Running(n)}) <= 1

=============================================================================
