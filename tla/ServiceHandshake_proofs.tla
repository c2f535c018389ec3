----------------------- MODULE ServiceHandshake_proofs -----------------------
(***************************************************************************)
(* There is one service at most, and the helper a host talks to serves it  *)
(* while its installer lives: for any hosts and threads, for any number of *)
(* attempts to install and for either kind of helper.                      *)
(***************************************************************************)
EXTENDS ServiceHandshake, FiniteSetTheorems, TLAPS

Pcs == {"idle", "ping", "create", "start", "wait", "connect", "installed", "throw", "use", "ended"}

HelperStates == {"none", "starts", "opened", "listens", "waits", "stops", "gone"}

Mutexes == [creator : Threads \cup {NOBODY}, owner : Threads \cup {NOBODY}, host : BOOLEAN, helper : BOOLEAN]

Events == [set : BOOLEAN, host : BOOLEAN]

Places == [pc : Pcs, channel : Channels \cup {0}]

TypeInv ==
  /\ kind \in {"service", "wow64"}
  /\ m_Interface \in [Hosts -> Channels \cup {0}]
  /\ thread \in [Threads -> Places]
  /\ attempts \in 0 .. MaxAttempts
  /\ TermMutex \in [Channels -> Mutexes]
  /\ Listening \in [Channels -> Events]
  /\ helper \in [Channels -> HelperStates]
  /\ entry \in Channels \cup {0}

\* The mutex of a channel is owned by the thread that made it until that thread ends.
Owned ==
  \A n \in Channels :
    n <= attempts =>
      /\ TermMutex[n].creator \in Threads
      /\ \/ TermMutex[n].owner = TermMutex[n].creator
         \/ thread[TermMutex[n].creator].pc = "ended"

\* The event of a channel is set by its helper alone, when that begins to wait.
Signalled ==
  \A n \in Channels :
    /\ n > attempts => helper[n] = "none"
    /\ Listening[n].set => helper[n] \in {"waits", "stops", "gone"}

\* A channel is worked on by the thread that made it.
Working ==
  \A t \in Threads :
    /\ thread[t].pc \in {"start", "wait", "connect"} =>
         /\ thread[t].channel \in Channels /\ thread[t].channel <= attempts
         /\ TermMutex[thread[t].channel].creator = t
    /\ thread[t].pc = "start" => helper[thread[t].channel] = "none"
    /\ thread[t].pc = "connect" => Listening[thread[t].channel].set

\* The service that runs is the registered one.
Entered == kind = "service" => \A n \in Channels : Running(n) => entry = n

Served ==
  \A h \in Hosts :
    m_Interface[h] # 0 =>
      /\ m_Interface[h] <= attempts
      /\ \/ helper[m_Interface[h]] = "waits"
         \/ thread[TermMutex[m_Interface[h]].creator].pc = "ended"

Inv == TypeInv /\ Owned /\ Signalled /\ Working /\ Entered /\ Served

LEMMA Numbers ==
  /\ Channels \subseteq Nat /\ 0 \notin Channels /\ MaxAttempts \in Nat
  /\ NOBODY \notin Threads /\ \A t \in Threads : HostOf(t) \in Hosts
  BY HandshakeConstants DEF Channels

----------------------------------------------------------------------------
(* Steps of a thread. *)

\* One thread goes on, and nothing else moves that the invariant speaks of.
Walks(t, p, c) ==
  /\ thread' \in [Threads -> Places]
  /\ thread'[t].pc = p /\ thread'[t].channel = c
  /\ \A u \in Threads : u # t => thread'[u] = thread[u]

LEMMA Goes ==
  ASSUME TypeInv, NEW t \in Threads, NEW p \in Pcs, Goto(t, p)
  PROVE  Walks(t, p, thread[t].channel)
<1>1. thread[t] \in Places
  BY DEF TypeInv
<1>2. [thread[t] EXCEPT !.pc = p] \in Places /\ thread' = [thread EXCEPT ![t] = [thread[t] EXCEPT !.pc = p]]
  BY <1>1 DEF Places, Goto, TypeInv
<1> QED
  BY <1>1, <1>2 DEF Walks, TypeInv, Places

LEMMA StepOfThread ==
  ASSUME Inv, NEW t \in Threads, NEW p, NEW c, Walks(t, p, c), thread[t].pc # "ended",
         UNCHANGED <<kind, attempts, helper, entry, Listening>>,
         TermMutex' \in [Channels -> Mutexes],
         \A n \in Channels : /\ TermMutex'[n].creator = TermMutex[n].creator
                             /\ \/ TermMutex'[n].owner = TermMutex[n].owner
                                \/ p = "ended" /\ TermMutex[n].owner = t,
         p # "start", p \in {"wait", "connect"} => c = thread[t].channel /\ thread[t].pc \in {"start", "wait"},
         p = "connect" => Listening[c].set,
         m_Interface' \in [Hosts -> Channels \cup {0}],
         \A h \in Hosts : \/ m_Interface'[h] \in {m_Interface[h], 0}
                          \/ m_Interface'[h] <= attempts /\ helper[m_Interface'[h]] = "waits"
  PROVE  Inv'
<1>1. TypeInv'
  BY DEF Inv, TypeInv, Walks
<1>2. Owned'
  BY Numbers DEF Inv, TypeInv, Owned, Walks, Mutexes
<1>3. Signalled' /\ Entered'
  BY DEF Inv, Signalled, Entered, Running
<1>4. Working'
  BY DEF Inv, Working, Walks
<1>5. Served'
  <2> SUFFICES ASSUME NEW h \in Hosts, m_Interface'[h] # 0
               PROVE  /\ m_Interface'[h] <= attempts'
                      /\ \/ helper'[m_Interface'[h]] = "waits"
                         \/ thread'[TermMutex'[m_Interface'[h]].creator].pc = "ended"
    BY DEF Served
  <2>1. CASE m_Interface'[h] = m_Interface[h]
    <3> DEFINE n == m_Interface[h]
    <3>1. n \in Channels /\ n <= attempts /\ TermMutex[n].creator \in Threads
      BY <2>1 DEF Inv, TypeInv, Owned, Served
    <3>2. helper[n] = "waits" \/ thread[TermMutex[n].creator].pc = "ended"
      BY <2>1 DEF Inv, Served
    <3> QED
      BY <2>1, <3>1, <3>2 DEF Walks
  <2>2. CASE m_Interface'[h] <= attempts /\ helper[m_Interface'[h]] = "waits"
    BY <2>2
  <2> QED
    BY <2>1, <2>2
<1> QED
  BY <1>1, <1>2, <1>3, <1>4, <1>5 DEF Inv

\* Steps that leave the mutexes alone.
LEMMA StepWithoutMutex ==
  ASSUME Inv, NEW t \in Threads, NEW p \in {"ping", "create", "wait", "connect", "installed", "throw", "idle"},
         Goto(t, p), thread[t].pc # "ended", UNCHANGED <<kind, attempts, helper, entry, Listening, TermMutex>>,
         p \in {"wait", "connect"} => thread[t].pc \in {"start", "wait"},
         p = "connect" => Listening[thread[t].channel].set,
         m_Interface' \in [Hosts -> Channels \cup {0}],
         \A h \in Hosts : \/ m_Interface'[h] \in {m_Interface[h], 0}
                          \/ m_Interface'[h] <= attempts /\ helper[m_Interface'[h]] = "waits"
  PROVE  Inv'
<1>1. Walks(t, p, thread[t].channel)
  BY Goes DEF Inv, Pcs
<1>2. TermMutex' \in [Channels -> Mutexes]
  BY DEF Inv, TypeInv
<1>3. \A n \in Channels : /\ TermMutex'[n].creator = TermMutex[n].creator
                         /\ TermMutex'[n].owner = TermMutex[n].owner
  OBVIOUS
<1>4. p # "start"
  OBVIOUS
<1> QED
  BY <1>1, <1>2, <1>3, <1>4, StepOfThread

LEMMA EnterInstallInv == ASSUME Inv, NEW t \in Threads, EnterInstall(t) PROVE Inv'
<1>1. m_Interface' = m_Interface /\ m_Interface \in [Hosts -> Channels \cup {0}]
  BY DEF Inv, TypeInv, EnterInstall
<1> QED
  BY <1>1, StepWithoutMutex DEF EnterInstall, At

LEMMA PingExistingInv == ASSUME Inv, NEW t \in Threads, PingExisting(t) PROVE Inv'
<1>1. CASE Goto(t, "installed") /\ UNCHANGED m_Interface
  <2>1. m_Interface' = m_Interface /\ m_Interface \in [Hosts -> Channels \cup {0}]
    BY <1>1 DEF Inv, TypeInv
  <2> QED
    BY <1>1, <2>1, StepWithoutMutex DEF PingExisting, At
<1>2. CASE Goto(t, "create") /\ m_Interface' = [m_Interface EXCEPT ![HostOf(t)] = 0]
  <2>1. /\ m_Interface' \in [Hosts -> Channels \cup {0}]
        /\ \A h \in Hosts : m_Interface'[h] \in {m_Interface[h], 0}
    BY <1>2 DEF Inv, TypeInv
  <2> QED
    BY <1>2, <2>1, StepWithoutMutex DEF PingExisting, At
<1> QED
  BY <1>1, <1>2 DEF PingExisting

LEMMA WaitListeningInv == ASSUME Inv, NEW t \in Threads, WaitListening(t) PROVE Inv'
<1>1. m_Interface' = m_Interface /\ m_Interface \in [Hosts -> Channels \cup {0}]
  BY DEF Inv, TypeInv, WaitListening
<1>2. CASE Listening[thread[t].channel].set /\ Goto(t, "connect")
  BY <1>1, <1>2, StepWithoutMutex DEF WaitListening, At
<1>3. CASE Goto(t, "throw")
  BY <1>1, <1>3, StepWithoutMutex DEF WaitListening, At
<1> QED
  BY <1>2, <1>3 DEF WaitListening

\* A helper that answers after its event was set waits for the end of the thread.
LEMMA ConnectHelperInv == ASSUME Inv, NEW t \in Threads, ConnectHelper(t) PROVE Inv'
<1>1. CASE Answers(thread[t].channel) /\ m_Interface' = [m_Interface EXCEPT ![HostOf(t)] = thread[t].channel]
           /\ Goto(t, "installed")
  <2> DEFINE n == thread[t].channel
  <2>1. n \in Channels /\ n <= attempts /\ Listening[n].set
    BY DEF ConnectHelper, At, Inv, Working
  <2>2. helper[n] = "waits"
    BY <1>1, <2>1 DEF Inv, Signalled, Answers
  <2>3. /\ m_Interface' \in [Hosts -> Channels \cup {0}]
        /\ \A h \in Hosts : m_Interface'[h] \in {m_Interface[h], n}
    BY <1>1, <2>1 DEF Inv, TypeInv
  <2> QED
    BY <1>1, <2>1, <2>2, <2>3, StepWithoutMutex DEF ConnectHelper, At
<1>2. CASE Goto(t, "throw") /\ UNCHANGED m_Interface
  <2>1. m_Interface' = m_Interface /\ m_Interface \in [Hosts -> Channels \cup {0}]
    BY <1>2 DEF Inv, TypeInv
  <2> QED
    BY <1>2, <2>1, StepWithoutMutex DEF ConnectHelper, At
<1> QED
  BY <1>1, <1>2 DEF ConnectHelper

LEMMA LeaveInstallInv == ASSUME Inv, NEW t \in Threads, LeaveInstall(t) PROVE Inv'
<1> DEFINE n == thread[t].channel
           p == IF At(t, "installed") THEN "use" ELSE "idle"
<1>1. /\ thread[t].pc \in {"installed", "throw"} /\ thread' = [thread EXCEPT ![t] = [pc |-> p, channel |-> 0]]
      /\ UNCHANGED <<kind, attempts, helper, entry, Listening, m_Interface>>
  BY DEF LeaveInstall
<1>2. p \in {"use", "idle"}
  OBVIOUS
<1> HIDE DEF p
<1>3. [pc |-> p, channel |-> 0] \in Places
  BY <1>2 DEF Places, Pcs
<1>4. Walks(t, p, 0)
  BY <1>1, <1>3 DEF Inv, TypeInv, Walks
<1>5. /\ TermMutex' \in [Channels -> Mutexes]
      /\ \A k \in Channels : TermMutex'[k].creator = TermMutex[k].creator /\ TermMutex'[k].owner = TermMutex[k].owner
  <2>1. CASE TermMutex' = TermMutex
    BY <2>1 DEF Inv, TypeInv
  <2>2. CASE n # 0 /\ TermMutex' = [TermMutex EXCEPT ![n].host = FALSE]
    <3>1. n \in Channels /\ TermMutex[n] \in Mutexes
      BY <2>2 DEF Inv, TypeInv, Places
    <3> DEFINE x == [TermMutex[n] EXCEPT !.host = FALSE]
    <3>2. x \in Mutexes /\ x.creator = TermMutex[n].creator /\ x.owner = TermMutex[n].owner
      BY <3>1 DEF Mutexes
    <3>3. TermMutex' = [TermMutex EXCEPT ![n] = x]
      BY <2>2, <3>1 DEF Inv, TypeInv
    <3> HIDE DEF x, n
    <3> QED
      BY <3>1, <3>2, <3>3 DEF Inv, TypeInv
  <2> QED
    BY <2>1, <2>2 DEF LeaveInstall
<1>6. m_Interface' \in [Hosts -> Channels \cup {0}] /\ \A h \in Hosts : m_Interface'[h] = m_Interface[h]
  BY <1>1 DEF Inv, TypeInv
<1>7. thread[t].pc # "ended" /\ p \notin {"start", "wait", "connect"}
  BY <1>1, <1>2
<1>8. UNCHANGED <<kind, attempts, helper, entry, Listening>>
  BY <1>1
<1> QED
  BY <1>4, <1>5, <1>6, <1>7, <1>8, StepOfThread

LEMMA UseInterfaceInv == ASSUME Inv, NEW t \in Threads, UseInterface(t) PROVE Inv'
<1>1. m_Interface' = m_Interface /\ m_Interface \in [Hosts -> Channels \cup {0}]
  BY DEF Inv, TypeInv, UseInterface
<1> QED
  BY <1>1, StepWithoutMutex DEF UseInterface, At

\* A new channel is nobody's before.
LEMMA CreateObjectsInv == ASSUME Inv, NEW t \in Threads, CreateObjects(t) PROVE Inv'
<1> DEFINE n == attempts + 1
           x == [creator |-> t, owner |-> t, host |-> TRUE, helper |-> FALSE]
           y == [pc |-> "start", channel |-> n]
           z == [Listening[n] EXCEPT !.host = TRUE]
<1>1. /\ attempts' = n /\ thread[t].pc = "create" /\ attempts \in Nat /\ n \in Channels
      /\ UNCHANGED <<kind, m_Interface, helper, entry>>
  BY Numbers DEF Inv, TypeInv, CreateObjects, At, Channels
<1>2. x \in Mutexes /\ x.creator = t /\ x.owner = t /\ y \in Places /\ y.pc = "start" /\ y.channel = n
  BY <1>1 DEF Mutexes, Places, Pcs
<1>3. z \in Events /\ z.set = Listening[n].set
  BY <1>1 DEF Inv, TypeInv, Events
<1>4. /\ TermMutex' = [TermMutex EXCEPT ![n] = x] /\ thread' = [thread EXCEPT ![t] = y]
      /\ Listening' = [Listening EXCEPT ![n] = z]
  BY <1>1 DEF Inv, TypeInv, CreateObjects
<1> HIDE DEF x, y, z
<1>5. /\ TermMutex'[n] = x /\ \A k \in Channels : k # n => TermMutex'[k] = TermMutex[k]
      /\ thread'[t] = y /\ \A u \in Threads : u # t => thread'[u] = thread[u]
      /\ \A k \in Channels : Listening'[k].set = Listening[k].set
  BY <1>1, <1>3, <1>4 DEF Inv, TypeInv
<1>6. TypeInv'
  BY <1>1, <1>2, <1>3, <1>4, Numbers DEF Inv, TypeInv, Channels
<1> DEFINE m == attempts
<1>7. \A k \in Channels : k <= n <=> k <= m \/ k = n
  BY <1>1, Numbers
<1>8. ~ (n <= m)
  BY <1>1
<1>9. helper[n] = "none"
  BY <1>1 DEF Inv, Signalled
<1> HIDE DEF n
<1>10. Owned'
  BY <1>1, <1>2, <1>5, <1>7, <1>8 DEF Inv, Owned
<1>11. Signalled'
  <2>1. \A k \in Channels : k > n => k > m
    BY <1>1, Numbers DEF n
  <2> QED
    BY <1>1, <1>5, <2>1 DEF Inv, Signalled
<1>12. Working'
  BY <1>1, <1>2, <1>5, <1>7, <1>8, <1>9 DEF Inv, Working
<1>13. Entered'
  BY <1>1 DEF Inv, Entered, Running
<1>14. Served'
  <2>1. \A h \in Hosts : m_Interface[h] # 0 => m_Interface[h] \in Channels /\ m_Interface[h] # n /\ m_Interface[h] <= m
    BY <1>8 DEF Inv, TypeInv, Served
  <2>2. \A k \in Channels : k <= m => TermMutex[k].creator \in Threads
    BY DEF Inv, Owned
  <2>3. \A u \in Threads : thread[u].pc = "ended" => thread'[u].pc = "ended"
    BY <1>1, <1>5
  <2> QED
    BY <1>1, <1>5, <1>7, <2>1, <2>2, <2>3 DEF Inv, Served
<1> QED
  BY <1>6, <1>10, <1>11, <1>12, <1>13, <1>14 DEF Inv

\* A helper starts on the channel of the thread that starts it, and no other helper is.
LEMMA StartsInv ==
  ASSUME Inv, NEW t \in Threads, thread[t].pc = "start", Starts(t),
         UNCHANGED <<kind, m_Interface, attempts, TermMutex, Listening>>,
         IF kind = "service" THEN entry = 0 /\ entry' = thread[t].channel ELSE entry' = entry
  PROVE  Inv'
<1>1. PICK n \in Channels : n = thread[t].channel
  BY DEF Inv, Working
<1>2. /\ helper' = [helper EXCEPT ![n] = "starts"] /\ Walks(t, "wait", n)
      /\ helper[n] = "none" /\ n <= attempts /\ TermMutex[n].creator = t
  <2>1. Walks(t, "wait", thread[t].channel)
    BY Goes DEF Starts, Inv, Pcs
  <2> QED
    BY <1>1, <2>1 DEF Starts, Inv, Working
<1>3. helper'[n] = "starts" /\ \A k \in Channels : k # n => helper'[k] = helper[k]
  BY <1>2 DEF Inv, TypeInv
<1>4. TypeInv'
  BY <1>1, <1>2 DEF Inv, TypeInv, HelperStates, Walks
<1>5. Owned'
  BY <1>2 DEF Inv, Owned, Walks
<1>6. Signalled'
  <2>1. \A k \in Channels : k > attempts => k # n
    BY <1>2, Numbers DEF Inv, TypeInv
  <2> QED
    BY <1>2, <1>3, <2>1 DEF Inv, Signalled
<1>7. Working'
  <2> SUFFICES ASSUME NEW u \in Threads
               PROVE  /\ thread'[u].pc \in {"start", "wait", "connect"} =>
                           /\ thread'[u].channel \in Channels /\ thread'[u].channel <= attempts
                           /\ TermMutex[thread'[u].channel].creator = u
                      /\ thread'[u].pc = "start" => helper'[thread'[u].channel] = "none"
                      /\ thread'[u].pc = "connect" => Listening[thread'[u].channel].set
    BY DEF Working
  <2>1. CASE u = t
    BY <1>2, <2>1 DEF Walks
  <2>2. CASE u # t
    <3>1. thread'[u] = thread[u] /\ (thread[u].pc = "start" => thread[u].channel # n)
      BY <1>2, <2>2 DEF Inv, Working, Walks
    <3> QED
      BY <1>3, <3>1 DEF Inv, Working
  <2> QED
    BY <2>1, <2>2
<1>8. Entered'
  BY <1>1, <1>3, Numbers DEF Inv, Entered, Running
<1>9. Served'
  <2> SUFFICES ASSUME NEW h \in Hosts, m_Interface[h] # 0
               PROVE  /\ m_Interface[h] <= attempts
                      /\ \/ helper'[m_Interface[h]] = "waits"
                         \/ thread'[TermMutex[m_Interface[h]].creator].pc = "ended"
    BY DEF Served
  <2>1. m_Interface[h] \in Channels /\ m_Interface[h] <= attempts /\ TermMutex[m_Interface[h]].creator \in Threads
    BY DEF Inv, TypeInv, Served, Owned
  <2>2. helper[m_Interface[h]] = "waits" => helper'[m_Interface[h]] = "waits"
    BY <1>2, <1>3, <2>1
  <2>3. \A u \in Threads : thread[u].pc = "ended" => thread'[u].pc = "ended"
    BY <1>2 DEF Walks
  <2> QED
    BY <2>1, <2>2, <2>3 DEF Inv, Served
<1> QED
  BY <1>4, <1>5, <1>6, <1>7, <1>8, <1>9 DEF Inv

LEMMA StartFailsInv ==
  ASSUME Inv, NEW t \in Threads, thread[t].pc = "start", Goto(t, "throw"),
         UNCHANGED <<kind, m_Interface, attempts, TermMutex, Listening, helper, entry>>
  PROVE  Inv'
<1>1. m_Interface' = m_Interface /\ m_Interface \in [Hosts -> Channels \cup {0}]
  BY DEF Inv, TypeInv
<1> QED
  BY <1>1, StepWithoutMutex

LEMMA RtlInstallServiceInv == ASSUME Inv, NEW t \in Threads, RtlInstallService(t) PROVE Inv'
<1>1. thread[t].pc = "start" /\ kind = "service" /\ UNCHANGED <<kind, m_Interface, attempts, TermMutex, Listening>>
  BY DEF RtlInstallService, At
<1>2. CASE entry = 0 /\ Starts(t) /\ entry' = thread[t].channel
  BY <1>1, <1>2, StartsInv
<1>3. CASE Goto(t, "throw") /\ UNCHANGED <<helper, entry>>
  BY <1>1, <1>3, StartFailsInv
<1> QED
  BY <1>2, <1>3 DEF RtlInstallService

LEMMA StartProgramInv == ASSUME Inv, NEW t \in Threads, StartProgram(t) PROVE Inv'
<1>1. /\ thread[t].pc = "start" /\ kind = "wow64"
      /\ UNCHANGED <<kind, m_Interface, attempts, TermMutex, Listening, entry>>
  BY DEF StartProgram, At
<1>2. CASE Starts(t)
  BY <1>1, <1>2, StartsInv
<1>3. CASE Goto(t, "throw") /\ UNCHANGED helper
  BY <1>1, <1>3, StartFailsInv
<1> QED
  BY <1>2, <1>3 DEF StartProgram

----------------------------------------------------------------------------
(* The end of threads and processes. *)

\* A mutex is abandoned by its owner only.
LEMMA Abandons ==
  ASSUME TypeInv, NEW dead
  PROVE  /\ Abandon(dead) \in [Channels -> Mutexes]
         /\ \A n \in Channels : /\ Abandon(dead)[n].creator = TermMutex[n].creator
                                /\ \/ Abandon(dead)[n].owner = TermMutex[n].owner
                                   \/ TermMutex[n].owner \in dead
<1>1. ASSUME NEW n \in Channels
      PROVE  /\ Abandon(dead)[n] \in Mutexes /\ Abandon(dead)[n].creator = TermMutex[n].creator
             /\ \/ Abandon(dead)[n].owner = TermMutex[n].owner
                \/ TermMutex[n].owner \in dead
  <2>1. TermMutex[n] \in Mutexes
    BY DEF TypeInv
  <2>2. Abandon(dead)[n] = IF TermMutex[n].owner \in dead THEN [TermMutex[n] EXCEPT !.owner = NOBODY] ELSE TermMutex[n]
    BY DEF Abandon
  <2> QED
    BY <2>1, <2>2 DEF Mutexes
<1>2. Abandon(dead) = [n \in Channels |-> Abandon(dead)[n]]
  BY DEF Abandon
<1> QED
  BY <1>1, <1>2

LEMMA ThreadEndsInv == ASSUME Inv, NEW t \in Threads, ThreadEnds(t) PROVE Inv'
<1>1. /\ thread[t].pc = "idle" /\ TermMutex' = Abandon({t})
      /\ UNCHANGED <<kind, m_Interface, attempts, Listening, helper, entry>>
  BY DEF ThreadEnds, At
<1>2. Walks(t, "ended", thread[t].channel)
  BY Goes DEF ThreadEnds, Inv, Pcs
<1>3. /\ TermMutex' \in [Channels -> Mutexes]
      /\ \A n \in Channels : /\ TermMutex'[n].creator = TermMutex[n].creator
                             /\ TermMutex'[n].owner = TermMutex[n].owner \/ TermMutex[n].owner = t
  BY <1>1, Abandons DEF Inv
<1>4. m_Interface' \in [Hosts -> Channels \cup {0}] /\ \A h \in Hosts : m_Interface'[h] = m_Interface[h]
  BY <1>1 DEF Inv, TypeInv
<1> QED
  BY <1>1, <1>2, <1>3, <1>4, StepOfThread

\* With a process go its threads, their mutexes and what it talked to.
LEMMA HostDiesInv == ASSUME Inv, NEW h \in Hosts, HostDies(h) PROVE Inv'
<1> DEFINE dead == {t \in Threads : HostOf(t) = h}
<1>1. /\ thread' = [t \in Threads |-> IF t \in dead THEN [pc |-> "ended", channel |-> 0] ELSE thread[t]]
      /\ TermMutex' = [n \in Channels |-> IF n \in Made(h) THEN [Abandon(dead)[n] EXCEPT !.host = FALSE]
                                          ELSE TermMutex[n]]
      /\ Listening' = [n \in Channels |-> IF n \in Made(h) THEN [Listening[n] EXCEPT !.host = FALSE]
                                          ELSE Listening[n]]
      /\ m_Interface' = [m_Interface EXCEPT ![h] = 0]
      /\ UNCHANGED <<kind, attempts, helper, entry>>
  BY DEF HostDies
<1> HIDE DEF dead
<1>2. [pc |-> "ended", channel |-> 0] \in Places
  BY DEF Places, Pcs
<1>3. thread' \in [Threads -> Places]
  BY <1>1, <1>2 DEF Inv, TypeInv
<1>4. \A t \in Threads : thread'[t].pc = "ended" \/ thread'[t] = thread[t]
  BY <1>1
<1>5. ASSUME NEW n \in Channels
      PROVE  /\ TermMutex'[n] \in Mutexes /\ TermMutex'[n].creator = TermMutex[n].creator
             /\ \/ TermMutex'[n].owner = TermMutex[n].owner
                \/ TermMutex[n].creator \in dead
  <2>1. CASE n \in Made(h)
    <3> DEFINE x == Abandon(dead)[n]
    <3>1. x \in Mutexes /\ x.creator = TermMutex[n].creator
      BY Abandons DEF Inv
    <3>2. TermMutex[n].creator \in dead
      BY <2>1 DEF Made, Inv, TypeInv, Mutexes, dead
    <3>3. TermMutex'[n] = [x EXCEPT !.host = FALSE]
      BY <1>1, <2>1
    <3> HIDE DEF x
    <3> QED
      BY <3>1, <3>2, <3>3 DEF Mutexes
  <2>2. CASE n \notin Made(h)
    BY <1>1, <2>2 DEF Inv, TypeInv
  <2> QED
    BY <2>1, <2>2
<1>6. ASSUME NEW n \in Channels
      PROVE  Listening'[n] \in Events /\ Listening'[n].set = Listening[n].set
  <2>1. Listening[n] \in Events
    BY DEF Inv, TypeInv
  <2> QED
    BY <1>1, <2>1 DEF Events
<1>7. TermMutex' \in [Channels -> Mutexes] /\ Listening' \in [Channels -> Events]
  <2>1. TermMutex' = [n \in Channels |-> TermMutex'[n]] /\ Listening' = [n \in Channels |-> Listening'[n]]
    BY <1>1
  <2> QED
    BY <1>5, <1>6, <2>1
<1>8. /\ m_Interface' \in [Hosts -> Channels \cup {0}]
      /\ \A g \in Hosts : m_Interface'[g] \in {m_Interface[g], 0}
  BY <1>1 DEF Inv, TypeInv
<1>9. TypeInv'
  BY <1>1, <1>3, <1>7, <1>8 DEF Inv, TypeInv
<1>10. Owned'
  <2>1. \A t \in dead : t \in Threads /\ thread'[t].pc = "ended"
    BY <1>1 DEF dead
  <2> QED
    BY <1>1, <1>4, <1>5, <2>1 DEF Inv, Owned
<1>11. Signalled'
  BY <1>1, <1>6 DEF Inv, Signalled
<1>12. Working'
  BY <1>1, <1>4, <1>5, <1>6 DEF Inv, Working
<1>13. Entered'
  BY <1>1 DEF Inv, Entered, Running
<1>14. Served'
  <2> SUFFICES ASSUME NEW g \in Hosts, m_Interface'[g] # 0
               PROVE  /\ m_Interface'[g] <= attempts'
                      /\ \/ helper'[m_Interface'[g]] = "waits"
                         \/ thread'[TermMutex'[m_Interface'[g]].creator].pc = "ended"
    BY DEF Served
  <2>1. m_Interface'[g] = m_Interface[g] /\ m_Interface[g] # 0
    BY <1>8
  <2>2. /\ m_Interface[g] \in Channels /\ m_Interface[g] <= attempts
        /\ TermMutex[m_Interface[g]].creator \in Threads
    BY <2>1 DEF Inv, TypeInv, Served, Owned
  <2> QED
    BY <1>1, <1>4, <1>5, <2>1, <2>2 DEF Inv, Served
<1> QED
  BY <1>9, <1>10, <1>11, <1>12, <1>13, <1>14 DEF Inv

----------------------------------------------------------------------------
(* Handles and helpers. *)

\* The helper of one channel goes on, or only handles are closed.
LEMMA StepOfHelper ==
  ASSUME Inv, NEW n \in Channels, NEW s \in HelperStates, helper' = [helper EXCEPT ![n] = s],
         UNCHANGED <<kind, m_Interface, thread, attempts>>,
         TermMutex' \in [Channels -> Mutexes], Listening' \in [Channels -> Events],
         \A k \in Channels : /\ TermMutex'[k].creator = TermMutex[k].creator
                             /\ TermMutex'[k].owner = TermMutex[k].owner,
         \A k \in Channels : \/ Listening'[k].set = Listening[k].set
                             \/ k = n /\ Listening'[k].set /\ s = "waits",
         helper[n] = "none" <=> s = "none",
         Listening[n].set => s \in {"waits", "stops", "gone"},
         helper[n] = "waits" => s = "waits" \/ (s = "stops" /\ TermMutex[n].owner = NOBODY),
         helper[n] = "gone" => s = "gone",
         entry' = IF s = "gone" /\ entry = n THEN 0 ELSE entry
  PROVE  Inv'
<1>1. helper'[n] = s /\ \A k \in Channels : k # n => helper'[k] = helper[k]
  BY DEF Inv, TypeInv
<1>2. TypeInv'
  BY DEF Inv, TypeInv
<1>3. Owned'
  BY DEF Inv, Owned
<1>4. Signalled'
  BY <1>1 DEF Inv, Signalled
<1>5. Working'
  BY <1>1 DEF Inv, Working
<1>6. Entered'
  BY <1>1 DEF Inv, Entered, Running
<1>7. Served'
  <2> SUFFICES ASSUME NEW h \in Hosts, m_Interface[h] # 0
               PROVE  /\ m_Interface[h] <= attempts
                      /\ \/ helper'[m_Interface[h]] = "waits"
                         \/ thread[TermMutex'[m_Interface[h]].creator].pc = "ended"
    BY DEF Served
  <2>1. /\ m_Interface[h] \in Channels /\ m_Interface[h] <= attempts
        /\ \/ helper[m_Interface[h]] = "waits"
           \/ thread[TermMutex[m_Interface[h]].creator].pc = "ended"
    BY DEF Inv, TypeInv, Served
  <2>2. CASE m_Interface[h] = n /\ helper[n] = "waits" /\ s = "stops"
    <3>1. TermMutex[n].owner = NOBODY
      BY <2>2
    <3>2. thread[TermMutex[n].creator].pc = "ended"
      BY <2>1, <2>2, <3>1, Numbers DEF Inv, Owned
    <3> QED
      BY <2>1, <2>2, <3>2
  <2>3. CASE ~ (m_Interface[h] = n /\ helper[n] = "waits" /\ s = "stops")
    BY <1>1, <2>1, <2>3
  <2> QED
    BY <2>2, <2>3
<1> QED
  BY <1>2, <1>3, <1>4, <1>5, <1>6, <1>7 DEF Inv

\* The mutex of the channel keeps its owner whatever handle is opened or closed.
LEMMA HandleOfMutex ==
  ASSUME TypeInv, NEW n \in Channels, NEW x \in Mutexes, TermMutex' = [TermMutex EXCEPT ![n] = x],
         x.creator = TermMutex[n].creator, x.owner = TermMutex[n].owner
  PROVE  /\ TermMutex' \in [Channels -> Mutexes]
         /\ \A k \in Channels : TermMutex'[k].creator = TermMutex[k].creator /\ TermMutex'[k].owner = TermMutex[k].owner
  BY DEF TypeInv

LEMMA SameObjects ==
  ASSUME TypeInv
  PROVE  /\ UNCHANGED TermMutex =>
              /\ TermMutex' \in [Channels -> Mutexes]
              /\ \A k \in Channels : /\ TermMutex'[k].creator = TermMutex[k].creator
                                     /\ TermMutex'[k].owner = TermMutex[k].owner
         /\ UNCHANGED Listening =>
              /\ Listening' \in [Channels -> Events]
              /\ \A k \in Channels : Listening'[k].set = Listening[k].set
  BY DEF TypeInv

LEMMA CollectHandlesInv == ASSUME Inv, NEW n \in Channels, CollectHandles(n) PROVE Inv'
<1> DEFINE b == TermMutex[n].host /\ \A k \in Made(HostOf(TermMutex[n].creator)) : k <= n
           x == [TermMutex[n] EXCEPT !.host = b]
           y == [Listening[n] EXCEPT !.host = FALSE]
<1>1. TermMutex[n] \in Mutexes /\ Listening[n] \in Events /\ b \in BOOLEAN
  BY DEF Inv, TypeInv
<1>2. TermMutex' = [TermMutex EXCEPT ![n] = x] /\ Listening' = [Listening EXCEPT ![n] = y]
  BY <1>1 DEF Inv, TypeInv, CollectHandles, Mutexes
<1> HIDE DEF b
<1>3. x \in Mutexes /\ x.creator = TermMutex[n].creator /\ x.owner = TermMutex[n].owner
  BY <1>1 DEF Mutexes
<1>4. y \in Events /\ y.set = Listening[n].set
  BY <1>1 DEF Events
<1> HIDE DEF x, y
<1>5. /\ TermMutex' \in [Channels -> Mutexes]
      /\ \A k \in Channels : /\ TermMutex'[k].creator = TermMutex[k].creator
                             /\ TermMutex'[k].owner = TermMutex[k].owner
  BY <1>2, <1>3, HandleOfMutex DEF Inv
<1>6. Listening' \in [Channels -> Events] /\ \A k \in Channels : Listening'[k].set = Listening[k].set
  BY <1>2, <1>4 DEF Inv, TypeInv
<1>7. UNCHANGED <<kind, m_Interface, thread, attempts, entry>>
  BY DEF CollectHandles
<1> QED
  BY <1>5, <1>6, <1>7 DEF Inv, TypeInv, Owned, Signalled, Working, Entered, Served, Running, CollectHandles

LEMMA OpenMutexInv == ASSUME Inv, NEW n \in Channels, OpenMutex(n) PROVE Inv'
<1>1. helper[n] = "starts" /\ UNCHANGED <<kind, m_Interface, thread, attempts, Listening, entry>>
  BY DEF OpenMutex
<1>2. ~ Listening[n].set
  BY <1>1 DEF Inv, Signalled
<1>3. CASE Becomes(n, "opened") /\ TermMutex' = [TermMutex EXCEPT ![n].helper = TRUE]
  <2> DEFINE x == [TermMutex[n] EXCEPT !.helper = TRUE]
  <2>1. TermMutex' = [TermMutex EXCEPT ![n] = x] /\ TermMutex[n] \in Mutexes
    BY <1>3 DEF Inv, TypeInv
  <2>2. x \in Mutexes /\ x.creator = TermMutex[n].creator /\ x.owner = TermMutex[n].owner
    BY <2>1 DEF Mutexes
  <2> HIDE DEF x
  <2>3. /\ TermMutex' \in [Channels -> Mutexes]
        /\ \A k \in Channels : /\ TermMutex'[k].creator = TermMutex[k].creator
                               /\ TermMutex'[k].owner = TermMutex[k].owner
    BY <2>1, <2>2, HandleOfMutex DEF Inv
  <2>4. "opened" \in HelperStates
    BY DEF HelperStates
  <2> QED
    BY <1>1, <1>2, <1>3, <2>3, <2>4, SameObjects, StepOfHelper DEF Becomes, Inv
<1>4. CASE Becomes(n, "stops") /\ UNCHANGED TermMutex
  <2>1. "stops" \in HelperStates
    BY DEF HelperStates
  <2> QED
    BY <1>1, <1>2, <1>4, <2>1, SameObjects, StepOfHelper DEF Becomes, Inv
<1> QED
  BY <1>3, <1>4 DEF OpenMutex

LEMMA ListenInv == ASSUME Inv, NEW n \in Channels, Listen(n) PROVE Inv'
<1>1. helper[n] = "opened" /\ UNCHANGED <<kind, m_Interface, thread, attempts, TermMutex, Listening, entry>>
  BY DEF Listen
<1>2. ~ Listening[n].set
  BY <1>1 DEF Inv, Signalled
<1>3. "listens" \in HelperStates
  BY DEF HelperStates
<1> QED
  BY <1>1, <1>2, <1>3, SameObjects, StepOfHelper DEF Listen, Becomes, Inv

LEMMA SignalListeningInv == ASSUME Inv, NEW n \in Channels, SignalListening(n) PROVE Inv'
<1>1. helper[n] = "listens" /\ UNCHANGED <<kind, m_Interface, thread, attempts, TermMutex, entry>>
  BY DEF SignalListening
<1>2. ~ Listening[n].set
  BY <1>1 DEF Inv, Signalled
<1>3. "waits" \in HelperStates /\ "stops" \in HelperStates
  BY DEF HelperStates
<1>4. CASE Becomes(n, "waits") /\ Listening' = [Listening EXCEPT ![n].set = TRUE]
  <2> DEFINE y == [Listening[n] EXCEPT !.set = TRUE]
  <2>1. Listening' = [Listening EXCEPT ![n] = y] /\ Listening[n] \in Events
    BY <1>4 DEF Inv, TypeInv
  <2>2. y \in Events /\ y.set
    BY <2>1 DEF Events
  <2> HIDE DEF y
  <2>3. /\ Listening' \in [Channels -> Events]
        /\ \A k \in Channels : \/ Listening'[k].set = Listening[k].set
                               \/ k = n /\ Listening'[k].set
    BY <2>1, <2>2 DEF Inv, TypeInv
  <2> QED
    BY <1>1, <1>2, <1>3, <1>4, <2>3, SameObjects, StepOfHelper DEF Becomes, Inv
<1>5. CASE Becomes(n, "stops") /\ UNCHANGED Listening
  BY <1>1, <1>2, <1>3, <1>5, SameObjects, StepOfHelper DEF Becomes, Inv
<1> QED
  BY <1>4, <1>5 DEF SignalListening

LEMMA WaitForEndInv == ASSUME Inv, NEW n \in Channels, WaitForEnd(n) PROVE Inv'
<1>1. /\ helper[n] = "waits" /\ TermMutex[n].owner = NOBODY
      /\ UNCHANGED <<kind, m_Interface, thread, attempts, TermMutex, Listening, entry>>
  BY DEF WaitForEnd
<1>2. "stops" \in HelperStates
  BY DEF HelperStates
<1> QED
  BY <1>1, <1>2, SameObjects, StepOfHelper DEF WaitForEnd, Becomes, Inv

LEMMA StopInv == ASSUME Inv, NEW n \in Channels, Stop(n) PROVE Inv'
<1> DEFINE x == [TermMutex[n] EXCEPT !.helper = FALSE]
<1>1. /\ helper[n] = "stops" /\ entry' = (IF entry = n THEN 0 ELSE entry)
      /\ UNCHANGED <<kind, m_Interface, thread, attempts, Listening>>
  BY DEF Stop
<1>2. TermMutex' = [TermMutex EXCEPT ![n] = x] /\ TermMutex[n] \in Mutexes
  BY DEF Stop, Inv, TypeInv
<1>3. x \in Mutexes /\ x.creator = TermMutex[n].creator /\ x.owner = TermMutex[n].owner
  BY <1>2 DEF Mutexes
<1> HIDE DEF x
<1>4. /\ TermMutex' \in [Channels -> Mutexes]
      /\ \A k \in Channels : /\ TermMutex'[k].creator = TermMutex[k].creator
                             /\ TermMutex'[k].owner = TermMutex[k].owner
  BY <1>2, <1>3, HandleOfMutex DEF Inv
<1>5. "gone" \in HelperStates
  BY DEF HelperStates
<1> QED
  BY <1>1, <1>4, <1>5, SameObjects, StepOfHelper DEF Stop, Becomes, Inv

----------------------------------------------------------------------------

LEMMA InitInv == Init => Inv
<1> SUFFICES ASSUME Init
             PROVE  Inv
  OBVIOUS
<1>1. /\ [pc |-> "idle", channel |-> 0] \in Places
      /\ [creator |-> NOBODY, owner |-> NOBODY, host |-> FALSE, helper |-> FALSE] \in Mutexes
      /\ [set |-> FALSE, host |-> FALSE] \in Events /\ "none" \in HelperStates
  BY DEF Places, Pcs, Mutexes, Events, HelperStates
<1>2. TypeInv
  BY <1>1, Numbers DEF Init, TypeInv
<1>3. \A n \in Channels : helper[n] = "none" /\ ~ Listening[n].set /\ ~ (n <= attempts)
  BY Numbers DEF Init, Channels
<1> QED
  BY <1>2, <1>3 DEF Init, Inv, Owned, Signalled, Working, Entered, Running, Served

LEMMA StepInv == Inv /\ [Next]_vars => Inv'
<1> SUFFICES ASSUME Inv, [Next]_vars
             PROVE  Inv'
  OBVIOUS
<1>1. ASSUME NEW t \in Threads,
             EnterInstall(t) \/ PingExisting(t) \/ CreateObjects(t) \/ RtlInstallService(t) \/ StartProgram(t)
      PROVE  Inv'
  BY <1>1, EnterInstallInv, PingExistingInv, CreateObjectsInv, RtlInstallServiceInv, StartProgramInv
<1>2. ASSUME NEW t \in Threads,
             WaitListening(t) \/ ConnectHelper(t) \/ LeaveInstall(t) \/ UseInterface(t) \/ ThreadEnds(t)
      PROVE  Inv'
  BY <1>2, WaitListeningInv, ConnectHelperInv, LeaveInstallInv, UseInterfaceInv, ThreadEndsInv
<1>3. ASSUME NEW h \in Hosts, HostDies(h)
      PROVE  Inv'
  BY <1>3, HostDiesInv
<1>4. ASSUME NEW n \in Channels, CollectHandles(n) \/ HelperStep(n)
      PROVE  Inv'
  BY <1>4, CollectHandlesInv, OpenMutexInv, ListenInv, SignalListeningInv, WaitForEndInv, StopInv DEF HelperStep
<1>5. CASE UNCHANGED vars
  BY <1>5 DEF vars, Inv, TypeInv, Owned, Signalled, Working, Entered, Running, Served
<1> QED
  BY <1>1, <1>2, <1>3, <1>4, <1>5 DEF Next

LEMMA InvHolds == Spec => []Inv
  BY InitInv, StepInv, PTL DEF Spec

\* RtlInstallService refuses while a service is registered, and the registration outlives the
\* service's process: so two never run, however slow one ends.
THEOREM ServicesAreAlone == Spec => []OneService
<1>1. Inv => OneService
  <2> SUFFICES ASSUME Inv, kind = "service"
               PROVE  Cardinality({n \in Channels : Running(n)}) <= 1
    BY DEF OneService
  <2>1. {n \in Channels : Running(n)} \subseteq {entry}
    BY DEF Inv, Entered
  <2>2. IsFiniteSet({entry}) /\ Cardinality({entry}) = 1
    BY FS_Singleton
  <2>3. Cardinality({n \in Channels : Running(n)}) <= Cardinality({entry})
    BY <2>1, <2>2, FS_Subset
  <2> QED
    BY <2>2, <2>3
<1> QED
  BY <1>1, InvHolds, PTL

\* The helper a host talks to passed its event and owes its end to nobody but its installer.
THEOREM HelpersServe == Spec => []InterfaceIsServed
<1>1. Inv => InterfaceIsServed
  <2> SUFFICES ASSUME Inv, NEW h \in Hosts, m_Interface[h] # 0
               PROVE  helper[m_Interface[h]] = "waits" \/ HasEnded(TermMutex[m_Interface[h]].creator)
    BY DEF InterfaceIsServed
  <2>1. m_Interface[h] \in Channels /\ m_Interface[h] <= attempts
    BY DEF Inv, TypeInv, Served
  <2>2. TermMutex[m_Interface[h]].creator \in Threads
    BY <2>1 DEF Inv, Owned
  <2> QED
    BY <2>2, Numbers DEF Inv, Served, HasEnded, At
<1> QED
  BY <1>1, InvHolds, PTL

=============================================================================
