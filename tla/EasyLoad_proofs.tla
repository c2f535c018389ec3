--------------------------- MODULE EasyLoad_proofs ---------------------------
(***************************************************************************)
(* The domain of EasyLoad outlives every call of Load, for any number of   *)
(* injections.  _injectCount is checked by Close under the lock, and the   *)
(* domain is used outside of it: what makes that sound is that the count   *)
(* is the number of injections inside Load (CountCounts), so that nobody   *)
(* is there when it is zero, and that nobody can enter while the lock of   *)
(* Close is held (UnloadIsAlone).                                          *)
(***************************************************************************)
EXTENDS EasyLoad, FiniteSetTheorems, TLAPS

Pcs == InDomain \cup {"idle", "load", "proxy", "unlock", "leave", "returned", "close", "unload", "done"}

StubRecord == [pc : Pcs, call : {1, 2}, where : Nat, result : {Failed, Invalid, NoChannel}, tries : 0..3]

TypeInv ==
  /\ lock \in Injections \cup {NOBODY}
  /\ created \in Nat /\ domain \in 0..created
  /\ unloaded \subseteq 1..created /\ domain \notin unloaded
  /\ stub \in [Injections -> StubRecord]

\* The injections that raised the count and have not lowered it yet.
InLoad == InDomain \cup {"proxy", "unlock", "leave"}
Inside == {i \in Injections : stub[i].pc \in InLoad}

CountCounts == injectCount = Cardinality(Inside)

\* A domain in use is the current one, or the default one.
UsedIsCurrent ==
  \A i \in Injections :
    /\ stub[i].pc \in InDomain => stub[i].where \in {DEFAULT, domain}
    /\ At(i, "proxy") => domain # 0

UnloadIsAlone ==
  \A i \in Injections : At(i, "unload") => lock = i /\ Inside = {} /\ domain # 0

Inv == TypeInv /\ CountCounts /\ UsedIsCurrent /\ UnloadIsAlone

----------------------------------------------------------------------------
(* Counting. *)

\* Whoever enters or leaves Load changes the number of those inside by one.
LEMMA InsideIsFinite == IsFiniteSet(Inside)
  BY FinitelyMany, FS_Subset DEF Inside

LEMMA InsideGrows ==
  ASSUME Inv, NEW i \in Injections, i \notin Inside,
         Inside' = Inside \cup {i}, injectCount' = injectCount + 1
  PROVE  CountCounts'
<1>1. Cardinality(Inside \cup {i}) = Cardinality(Inside) + 1
  BY InsideIsFinite, FS_AddElement
<1> QED
  BY <1>1 DEF CountCounts, Inv

LEMMA InsideShrinks ==
  ASSUME Inv, NEW i \in Injections, i \in Inside,
         Inside' = Inside \ {i}, injectCount' = injectCount - 1
  PROVE  CountCounts'
<1>1. Cardinality(Inside \ {i}) = Cardinality(Inside) - 1
  BY InsideIsFinite, FS_RemoveElement
<1> QED
  BY <1>1 DEF CountCounts, Inv

LEMMA InsideStays ==
  ASSUME Inv, Inside' = Inside, injectCount' = injectCount
  PROVE  CountCounts'
  BY DEF CountCounts, Inv

\* The count is zero only when nobody is inside.
LEMMA ZeroIsEmpty ==
  ASSUME Inv, injectCount = 0
  PROVE  Inside = {}
  BY InsideIsFinite, FS_EmptySet DEF CountCounts, Inv

----------------------------------------------------------------------------
(* The inductive invariant. *)

LEMMA InitInv == Init => Inv
<1> SUFFICES ASSUME Init PROVE Inv
  OBVIOUS
<1>1. TypeInv
  BY DEF Init, TypeInv, StubRecord, Pcs, InDomain, Failed, Invalid, NoChannel, DEFAULT
<1>2. Inside = {}
  BY DEF Init, Inside, InLoad, InDomain
<1>3. CountCounts
  BY <1>2, FS_EmptySet DEF Init, CountCounts
<1>4. UsedIsCurrent /\ UnloadIsAlone
  BY DEF Init, UsedIsCurrent, UnloadIsAlone, InDomain, At
<1> QED
  BY <1>1, <1>3, <1>4 DEF Inv

----------------------------------------------------------------------------
(* Steps. *)

\* A step within Load that leaves the domain alone.
LEMMA StaysInside ==
  ASSUME Inv, NEW i \in Injections, NEW r \in StubRecord, stub' = [stub EXCEPT ![i] = r],
         stub[i].pc \in InDomain \cup {"unlock"}, r.pc \in InDomain \cup {"unlock", "leave"},
         r.pc \in InDomain => stub[i].pc \in InDomain /\ r.where = stub[i].where,
         lock' = lock \/ (lock = i /\ lock' = NOBODY),
         UNCHANGED <<domain, created, unloaded, injectCount>>
  PROVE  Inv'
<1>1. TypeInv'
  BY DEF Inv, TypeInv
<1>2. Inside' = Inside
  BY DEF Inv, TypeInv, Inside, InLoad, StubRecord
<1>3. CountCounts'
  BY <1>2, InsideStays
<1>4. UsedIsCurrent'
  BY DEF Inv, TypeInv, UsedIsCurrent, InDomain, At
<1>5. UnloadIsAlone'
  <2>1. i \in Inside
    BY DEF Inside, InLoad
  <2>2. \A j \in Injections : ~ At(j, "unload")
    BY <2>1 DEF Inv, UnloadIsAlone
  <2> QED
    BY <2>2 DEF Inv, TypeInv, UnloadIsAlone, InDomain, At
<1> QED
  BY <1>1, <1>3, <1>4, <1>5 DEF Inv

\* A step between the calls of Load and Close, or past them.
LEMMA StaysOutside ==
  ASSUME Inv, NEW i \in Injections, NEW r \in StubRecord, stub' = [stub EXCEPT ![i] = r],
         stub[i].pc \notin InLoad, r.pc \notin InLoad \cup {"unload"},
         UNCHANGED <<lock, domain, created, unloaded, injectCount>>
  PROVE  Inv'
<1>1. TypeInv'
  BY DEF Inv, TypeInv
<1>2. Inside' = Inside
  BY DEF Inv, TypeInv, Inside, StubRecord
<1>3. CountCounts'
  BY <1>2, InsideStays
<1>4. UsedIsCurrent'
  BY DEF Inv, TypeInv, UsedIsCurrent, InLoad, At
<1>5. UnloadIsAlone'
  BY <1>2 DEF Inv, TypeInv, UnloadIsAlone, At
<1> QED
  BY <1>1, <1>3, <1>4, <1>5 DEF Inv

\* Load is entered under the lock: with the domain that is there, a new one, the default one or
\* none.
LEMMA Enters ==
  ASSUME Inv, NEW i \in Injections, NEW r \in StubRecord, stub' = [stub EXCEPT ![i] = r],
         At(i, "load"), lock = NOBODY, lock' \in {NOBODY, i},
         r.pc \in {"proxy", "connect", "leave"},
         r.pc = "proxy" => domain' # 0, r.pc = "connect" => r.where = DEFAULT,
         \/ UNCHANGED <<domain, created>>
         \/ domain = 0 /\ domain' = created + 1 /\ created' = created + 1,
         unloaded' = unloaded, injectCount' = injectCount + 1
  PROVE  Inv'
<1>1. TypeInv'
  BY DEF Inv, TypeInv
<1>2. Inside' = Inside \cup {i} /\ i \notin Inside
  BY DEF Inv, TypeInv, Inside, InLoad, InDomain, StubRecord, At
<1>3. CountCounts'
  BY <1>2, InsideGrows
<1>4. UsedIsCurrent'
  BY DEF Inv, TypeInv, UsedIsCurrent, InDomain, At, DEFAULT
<1>5. UnloadIsAlone'
  BY NobodyIsNoInjection DEF Inv, TypeInv, UnloadIsAlone, At
<1> QED
  BY <1>1, <1>3, <1>4, <1>5 DEF Inv

\* Nobody is in Load when Close gives the domain up, unloaded or not.
LEMMA GivesUp ==
  ASSUME Inv, NEW i \in Injections, At(i, "unload"), stub' = [stub EXCEPT ![i].pc = "done"],
         domain' = 0, lock' = NOBODY, unloaded' \in {unloaded, unloaded \cup {domain}},
         UNCHANGED <<created, injectCount>>
  PROVE  Inv'
<1>1. TypeInv'
  BY DEF Inv, TypeInv, UnloadIsAlone, StubRecord, Pcs
<1>2. Inside' = Inside /\ Inside = {}
  BY DEF Inv, TypeInv, UnloadIsAlone, Inside, InLoad, InDomain, StubRecord, At
<1>3. CountCounts'
  BY <1>2, InsideStays
<1>4. UsedIsCurrent'
  BY <1>2 DEF UsedIsCurrent, Inside, InLoad, At
<1>5. UnloadIsAlone'
  BY NobodyIsNoInjection DEF Inv, TypeInv, UnloadIsAlone, At
<1> QED
  BY <1>1, <1>3, <1>4, <1>5 DEF Inv

\* A step of one injection moves its own record only, from one legal record to another.
LEMMA StepInv ==
  ASSUME Inv, NEW i \in Injections, Begin(i) \/ Step(i) \/ RunReturns(i)
  PROVE  Inv'
<1> DEFINE Moved(p) == [stub[i] EXCEPT !.pc = p]
           Returned(x, p) == [stub[i] EXCEPT !.result = x, !.pc = p]
<1>1. stub[i] \in StubRecord /\ stub \in [Injections -> StubRecord]
  BY DEF Inv, TypeInv
<1>2. \A p \in Pcs : Moved(p) \in StubRecord
  BY <1>1 DEF StubRecord
<1>3. \A p \in Pcs, x \in {Failed, Invalid, NoChannel} : Returned(x, p) \in StubRecord
  BY <1>1 DEF StubRecord
<1>4. \A p \in Pcs, x \in {Failed, Invalid, NoChannel} :
        /\ Returned(x, p).pc = p /\ Returned(x, p).where = stub[i].where
        /\ Returns(i, x, p) => stub' = [stub EXCEPT ![i] = Returned(x, p)]
  BY <1>1 DEF StubRecord, Returns
<1>a. CASE Begin(i)
  BY ZenonT(60), <1>a, <1>1, <1>2, StaysOutside, Moved("load") \in StubRecord
  DEF Begin, At, Goto, Pcs, InLoad, InDomain, StubRecord
<1>b. CASE EnterLoad(i)
  <2>1. CASE domain # 0 /\ UNCHANGED <<domain, created>> /\ Goto(i, "proxy")
    <3>1. Moved("proxy") \in StubRecord
      BY <1>2 DEF Pcs
    <3>2. Moved("proxy").pc = "proxy" /\ stub' = [stub EXCEPT ![i] = Moved("proxy")]
      BY <2>1, <1>1 DEF Goto, StubRecord
    <3> HIDE DEF Moved
    <3> QED
      BY <1>b, <2>1, <3>1, <3>2, Enters DEF EnterLoad
  <2>2. CASE domain = 0 /\ created' = created + 1 /\ domain' = created + 1 /\ Goto(i, "proxy")
    <3>1. domain' # 0
      BY <2>2 DEF Inv, TypeInv
    <3>2. Moved("proxy") \in StubRecord
      BY <1>2 DEF Pcs
    <3>3. Moved("proxy").pc = "proxy" /\ stub' = [stub EXCEPT ![i] = Moved("proxy")]
      BY <2>2, <1>1 DEF Goto, StubRecord
    <3> HIDE DEF Moved
    <3> QED
      BY <1>b, <2>2, <3>1, <3>2, <3>3, Enters DEF EnterLoad
  <2>3. CASE domain = 0 /\ UNCHANGED <<domain, created>> /\ Returns(i, Failed, "leave")
    <3>1. Returned(Failed, "leave") \in StubRecord
      BY <1>3 DEF Pcs
    <3>2. /\ Returned(Failed, "leave").pc = "leave" /\ Returned(Failed, "leave").where = stub[i].where
         /\ stub' = [stub EXCEPT ![i] = Returned(Failed, "leave")]
      BY <2>3, <1>4 DEF Pcs
    <3> HIDE DEF Returned
    <3> QED
      BY <1>b, <2>3, <3>1, <3>2, Enters DEF EnterLoad
  <2> QED
    BY <1>b, <2>1, <2>2, <2>3 DEF EnterLoad
<1>c. CASE FallBack(i)
  <2> DEFINE r == [stub[i] EXCEPT !.pc = "connect", !.where = DEFAULT]
  <2>1. r \in StubRecord /\ r.pc = "connect" /\ r.where = DEFAULT
    BY <1>1 DEF StubRecord, Pcs, InDomain, DEFAULT
  <2>2. stub' = [stub EXCEPT ![i] = r]
    BY <1>c, <1>1 DEF FallBack, StubRecord
  <2> QED
    BY <1>c, <2>1, <2>2, Enters DEF FallBack, At
<1>d. CASE CreateProxy(i)
  <2> USE <1>d, <1>1 DEF CreateProxy, At
  <2>1. CASE stub' = [stub EXCEPT ![i].pc = "connect", ![i].where = domain]
    <3>0. domain \in Nat
      BY DEF Inv, TypeInv
    <3>a. stub' \in [Injections -> StubRecord]
      BY <2>1, <3>0 DEF StubRecord, Pcs, InDomain
    <3>1. TypeInv'
      BY <3>a DEF Inv, TypeInv
    <3>2. Inside' = Inside /\ i \in Inside
      BY <2>1 DEF Inside, InLoad, InDomain, StubRecord
    <3>3. CountCounts'
      BY <3>2, InsideStays
    <3>4. UsedIsCurrent'
      BY <2>1 DEF Inv, TypeInv, UsedIsCurrent, InDomain, StubRecord
    <3>5. UnloadIsAlone'
      BY <2>1, <3>2 DEF Inv, UnloadIsAlone, StubRecord
    <3> QED
      BY <3>1, <3>3, <3>4, <3>5 DEF Inv
  <2>2. CASE Returns(i, Failed, "leave")
    <3>a. stub' \in [Injections -> StubRecord]
      BY <2>2 DEF Returns, Pcs, StubRecord, Failed
    <3>1. TypeInv'
      BY <3>a DEF Inv, TypeInv
    <3>2. Inside' = Inside /\ i \in Inside
      BY <2>2 DEF Inside, InLoad, InDomain, Returns, StubRecord
    <3>3. CountCounts'
      BY <3>2, InsideStays
    <3>4. UsedIsCurrent'
      BY <2>2 DEF Inv, TypeInv, UsedIsCurrent, InDomain, Returns, StubRecord
    <3>5. UnloadIsAlone'
      BY <2>2, <3>2 DEF Inv, UnloadIsAlone, Returns, StubRecord
    <3> QED
      BY <3>1, <3>3, <3>4, <3>5 DEF Inv
  <2> QED
    BY <2>1, <2>2
<1>e. CASE Connect(i)
  <2>1. CASE Goto(i, "channel")
    BY <1>e, <2>1, <1>1, <1>2, StaysInside, Moved("channel") \in StubRecord
    DEF Connect, At, Goto, Pcs, InDomain, StubRecord
  <2>2. CASE Returns(i, Invalid, "unlock")
    <3>1. Returned(Invalid, "unlock") \in StubRecord
      BY <1>3 DEF Pcs
    <3>2. /\ Returned(Invalid, "unlock").pc = "unlock" /\ Returned(Invalid, "unlock").where = stub[i].where
         /\ stub' = [stub EXCEPT ![i] = Returned(Invalid, "unlock")]
      BY <2>2, <1>4 DEF Pcs
    <3> HIDE DEF Returned
    <3> QED
      BY <1>e, <2>2, <3>1, <3>2, StaysInside DEF Connect, At, InDomain
  <2> QED
    BY <1>e, <2>1, <2>2 DEF Connect
<1>f. CASE CheckChannel(i)
  <2>1. CASE Goto(i, "library")
    BY <1>f, <2>1, <1>1, <1>2, StaysInside, Moved("library") \in StubRecord
    DEF CheckChannel, At, Goto, Pcs, InDomain, StubRecord
  <2>2. CASE Returns(i, NoChannel, "unlock")
    <3>1. Returned(NoChannel, "unlock") \in StubRecord
      BY <1>3 DEF Pcs
    <3>2. /\ Returned(NoChannel, "unlock").pc = "unlock" /\ Returned(NoChannel, "unlock").where = stub[i].where
         /\ stub' = [stub EXCEPT ![i] = Returned(NoChannel, "unlock")]
      BY <2>2, <1>4 DEF Pcs
    <3> HIDE DEF Returned
    <3> QED
      BY <1>f, <2>2, <3>1, <3>2, StaysInside DEF CheckChannel, At, InDomain
  <2> QED
    BY <1>f, <2>1, <2>2 DEF CheckChannel
<1>g. CASE LoadUserLibrary(i)
  <2>1. CASE Goto(i, "run")
    BY <1>g, <2>1, <1>1, <1>2, StaysInside, Moved("run") \in StubRecord
    DEF LoadUserLibrary, At, Goto, Pcs, InDomain, StubRecord
  <2>2. CASE Returns(i, Failed, "forget")
    <3>1. Returned(Failed, "forget") \in StubRecord
      BY <1>3 DEF Pcs, InDomain
    <3>2. /\ Returned(Failed, "forget").pc = "forget" /\ Returned(Failed, "forget").where = stub[i].where
         /\ stub' = [stub EXCEPT ![i] = Returned(Failed, "forget")]
      BY <2>2, <1>4 DEF Pcs, InDomain
    <3> HIDE DEF Returned
    <3> QED
      BY <1>g, <2>2, <3>1, <3>2, StaysInside DEF LoadUserLibrary, At, InDomain
  <2> QED
    BY <1>g, <2>1, <2>2 DEF LoadUserLibrary
<1>h. CASE RunReturns(i)
  <2>1. Returned(Invalid, "forget") \in StubRecord
    BY <1>3 DEF Pcs, InDomain
  <2>2. /\ Returned(Invalid, "forget").pc = "forget" /\ Returned(Invalid, "forget").where = stub[i].where
       /\ stub' = [stub EXCEPT ![i] = Returned(Invalid, "forget")]
    BY <1>h, <1>4 DEF Pcs, InDomain, RunReturns, Invalid
  <2> HIDE DEF Returned
  <2> QED
    BY <1>h, <2>1, <2>2, StaysInside DEF RunReturns, At, InDomain
<1>i. CASE ForgetChannel(i)
  BY <1>i, <1>1, <1>2, StaysInside, Moved("unlock") \in StubRecord
  DEF ForgetChannel, At, Goto, Pcs, InDomain, StubRecord
<1>j. CASE LeaveLock(i)
  <2>1. lock' = lock \/ (lock = i /\ lock' = NOBODY)
    BY <1>j DEF LeaveLock
  <2>2. Moved("leave") \in StubRecord
    BY <1>2 DEF Pcs
  <2>3. Moved("leave").pc = "leave" /\ stub' = [stub EXCEPT ![i] = Moved("leave")]
    BY <1>j, <1>1 DEF LeaveLock, Goto, StubRecord
  <2> HIDE DEF Moved
  <2> QED
    BY <1>j, <2>1, <2>2, <2>3, StaysInside DEF LeaveLock, At, InDomain
<1>k. CASE LeaveLoad(i)
  <2> USE <1>k, <1>1 DEF LeaveLoad, At, Goto
  <2>1. TypeInv'
    BY <1>2 DEF Inv, TypeInv, Pcs, StubRecord
  <2>2. Inside' = Inside \ {i} /\ i \in Inside
    BY DEF Inside, InLoad, InDomain, StubRecord
  <2>3. CountCounts'
    BY <2>2, InsideShrinks
  <2>4. UsedIsCurrent'
    BY DEF Inv, TypeInv, UsedIsCurrent, InDomain, StubRecord
  <2>5. UnloadIsAlone'
    BY <2>2 DEF Inv, UnloadIsAlone, StubRecord
  <2> QED
    BY <2>1, <2>3, <2>4, <2>5 DEF Inv
<1>l. CASE AfterLoad(i)
  <2>1. CASE Goto(i, "done")
    BY <1>l, <2>1, <1>1, <1>2, StaysOutside, Moved("done") \in StubRecord
    DEF AfterLoad, At, Goto, Pcs, InLoad, InDomain, StubRecord
  <2>2. CASE stub' = [stub EXCEPT ![i].pc = "load", ![i].call = 2]
    <3> DEFINE r == [stub[i] EXCEPT !.pc = "load", !.call = 2]
    <3>1. r \in StubRecord /\ r.pc = "load" /\ stub' = [stub EXCEPT ![i] = r]
      BY <2>2, <1>1 DEF StubRecord, Pcs, InDomain
    <3> QED
      BY <1>l, <3>1, StaysOutside DEF AfterLoad, At, InLoad, InDomain
  <2>3. CASE Goto(i, "close")
    BY ZenonT(60), <1>l, <2>3, <1>1, <1>2, StaysOutside, Moved("close") \in StubRecord
    DEF AfterLoad, At, Goto, Pcs, InLoad, InDomain, StubRecord
  <2> QED
    BY <1>l, <2>1, <2>2, <2>3 DEF AfterLoad
<1>m. CASE EnterClose(i)
  <2>1. CASE domain # 0 /\ injectCount = 0 /\ lock' = i /\ Goto(i, "unload")
    <3> USE <1>m, <2>1, <1>1 DEF EnterClose, At, Goto
    <3>1. TypeInv'
      BY <1>2 DEF Inv, TypeInv, Pcs, StubRecord
    <3>2. Inside' = Inside /\ Inside = {}
      BY ZeroIsEmpty DEF Inside, InLoad, InDomain, StubRecord
    <3>3. CountCounts'
      BY <3>2, InsideStays
    <3>4. UsedIsCurrent'
      BY DEF Inv, TypeInv, UsedIsCurrent, InDomain, StubRecord
    <3>5. UnloadIsAlone'
      BY <3>2, NobodyIsNoInjection DEF Inv, UnloadIsAlone, StubRecord
    <3> QED
      BY <3>1, <3>3, <3>4, <3>5 DEF Inv
  <2>2. CASE Goto(i, "done") /\ UNCHANGED lock
    BY <1>m, <2>2, <1>1, <1>2, StaysOutside, Moved("done") \in StubRecord
    DEF EnterClose, At, Goto, Pcs, InLoad, InDomain, StubRecord
  <2> QED
    BY <1>m, <2>1, <2>2 DEF EnterClose
<1>n. CASE Unload(i)
  BY <1>n, GivesUp DEF Unload, Goto
<1>o. CASE CannotUnload(i)
  <2>1. CASE stub[i].tries < 3 /\ stub' = [stub EXCEPT ![i].tries = @ + 1] /\ UNCHANGED <<domain, lock>>
    <3> USE <1>o, <2>1, <1>1 DEF CannotUnload, At
    <3>1. TypeInv'
      BY DEF Inv, TypeInv, StubRecord
    <3>2. Inside' = Inside
      BY DEF Inside, InLoad, InDomain, StubRecord
    <3>3. CountCounts'
      BY <3>2, InsideStays
    <3>4. UsedIsCurrent' /\ UnloadIsAlone'
      BY <3>2 DEF Inv, TypeInv, UsedIsCurrent, UnloadIsAlone, InDomain, StubRecord
    <3> QED
      BY <3>1, <3>3, <3>4 DEF Inv
  <2>2. CASE domain' = 0 /\ lock' = NOBODY /\ Goto(i, "done")
    BY <1>o, <2>2, GivesUp DEF CannotUnload, Goto
  <2> QED
    BY <1>o, <2>1, <2>2 DEF CannotUnload
<1> QED
  BY <1>a, <1>b, <1>c, <1>d, <1>e, <1>f, <1>g, <1>h, <1>i, <1>j, <1>k, <1>l, <1>m, <1>n, <1>o DEF Step

LEMMA NextInv == Inv /\ [Next]_vars => Inv'
<1>1. CASE Next
  BY <1>1, StepInv DEF Next
<1>2. CASE UNCHANGED vars
  BY <1>2 DEF vars, Inv, TypeInv, CountCounts, Inside, UsedIsCurrent, UnloadIsAlone, At
<1> QED
  BY <1>1, <1>2

----------------------------------------------------------------------------
(* The library runs once. *)

BeforeLibrary == {"idle", "load", "proxy", "connect", "channel"}

\* The channels that are noted in each domain, and the counts of runs.
Noted ==
  /\ connected \in [0..created -> SUBSET Injections]
  /\ host \in [Injections -> {"waits", "failed", "signalled"}]
  /\ runs \in [Injections -> Nat]

\* Nothing is noted before the first call of Load comes to the channel, so that only the second
\* call, which comes after the host was answered, can run the library, and it does so once.
RunsInSecondCall(i) ==
  /\ stub[i].pc = "idle" => stub[i].call = 1
  /\ stub[i].call = 1 => runs[i] = 0 /\ stub[i].pc \notin {"library", "run", "forget"}
  /\ stub[i].call = 1 /\ stub[i].pc \in BeforeLibrary => \A d \in 0..created : i \notin connected[d]
  /\ stub[i].call = 2 => host[i] = "signalled"
  /\ stub[i].call = 2 /\ stub[i].pc \in BeforeLibrary \cup {"library"} => runs[i] = 0
  /\ runs[i] <= 1

\* With nobody else there, the second call comes to the domain in which the first noted the channel.
FindsItsChannel(i) ==
  Alone(i) =>
    /\ stub[i].pc \in {"connect", "channel"} => stub[i].where = domain
    /\ /\ stub[i].result = NoChannel
       /\ \/ stub[i].call = 1 /\ stub[i].pc \in {"unlock", "leave", "returned"}
          \/ stub[i].call = 2 /\ stub[i].pc = "load"
       => stub[i].where = domain /\ i \in connected[domain]

OnceInv == Noted /\ \A i \in Injections : RunsInSecondCall(i) /\ FindsItsChannel(i)

LEMMA InitOnce == ASSUME Init PROVE OnceInv
<1>1. created = 0 /\ domain = 0 /\ 0..created = {0}
  BY DEF Init
<1>2. Noted
  BY <1>1 DEF Init, Noted, DEFAULT
<1>3. \A i \in Injections : stub[i].pc = "idle" /\ stub[i].call = 1 /\ runs[i] = 0
  BY DEF Init
<1>4. \A i \in Injections, d \in 0..created : i \notin connected[d]
  BY <1>1 DEF Init, DEFAULT
<1> QED
  BY <1>2, <1>3, <1>4 DEF OnceInv, RunsInSecondCall, FindsItsChannel

\* What a step of injection j leaves alone: the others' records, and their channels.
LEMMA StepIsOwn ==
  ASSUME Inv, Noted, NEW j \in Injections, Begin(j) \/ Step(j) \/ RunReturns(j)
  PROVE  /\ stub' \in [Injections -> StubRecord]
         /\ stub'[j].pc # "idle"
         /\ \A i \in Injections : i # j => stub'[i] = stub[i] /\ host'[i] = host[i] /\ runs'[i] = runs[i]
         /\ Noted'
         /\ \A i \in Injections, d \in 0..created' :
              i # j /\ i \in connected'[d] => d \in 0..created /\ i \in connected[d]
<1>1. TypeInv /\ TypeInv'
  BY StepInv DEF Inv
<1>2. /\ stub \in [Injections -> StubRecord] /\ stub' \in [Injections -> StubRecord]
      /\ created \in Nat
      /\ stub[j].pc \in InDomain => stub[j].where \in 0..created
  BY <1>1 DEF Inv, TypeInv, UsedIsCurrent, DEFAULT
<1>3. /\ stub'[j].pc # "idle"
      /\ \A i \in Injections : i # j => stub'[i] = stub[i]
  <2> USE <1>2 DEF StubRecord
  <2>1. CASE \E p \in Pcs \ {"idle"} : Goto(j, p)
    BY <2>1 DEF Goto
  <2>2. CASE \E p \in Pcs \ {"idle"}, x \in {Failed, Invalid, NoChannel} : Returns(j, x, p)
    BY <2>2 DEF Returns
  <2>3. CASE FallBack(j)
    BY <2>3 DEF FallBack
  <2>4. CASE CreateProxy(j)
    BY <2>2, <2>4 DEF CreateProxy, Pcs
  <2>5. CASE AfterLoad(j)
    BY <2>1, <2>5 DEF AfterLoad, Pcs
  <2>6. CASE CannotUnload(j)
    BY <2>1, <2>6 DEF CannotUnload, Pcs, At
  <2>7. CASE Begin(j) \/ EnterLoad(j) \/ Connect(j) \/ CheckChannel(j) \/ LoadUserLibrary(j)
    BY <2>1, <2>2, <2>7
    DEF Begin, EnterLoad, Connect, CheckChannel, LoadUserLibrary, Pcs, InDomain
  <2>8. CASE RunReturns(j) \/ ForgetChannel(j) \/ LeaveLock(j) \/ LeaveLoad(j) \/ EnterClose(j) \/ Unload(j)
    BY <2>1, <2>2, <2>8
    DEF RunReturns, ForgetChannel, LeaveLock, LeaveLoad, EnterClose, Unload, Pcs, InDomain, Invalid
  <2> QED
    BY <2>3, <2>4, <2>5, <2>6, <2>7, <2>8 DEF Step
<1>4. /\ host' \in [Injections -> {"waits", "failed", "signalled"}]
      /\ runs' \in [Injections -> Nat]
      /\ \A i \in Injections : i # j => host'[i] = host[i] /\ runs'[i] = runs[i]
  <2>1. CASE AfterLoad(j)
    BY <2>1 DEF AfterLoad, Noted
  <2>2. CASE LoadUserLibrary(j)
    BY <2>2 DEF LoadUserLibrary, Noted
  <2>3. CASE UNCHANGED <<host, runs>>
    BY <2>3 DEF Noted
  <2> QED
    BY <2>1, <2>2, <2>3 DEF Step, Begin, EnterLoad, FallBack, CreateProxy, Connect, CheckChannel,
       RunReturns, ForgetChannel, LeaveLock, LeaveLoad, EnterClose, Unload, CannotUnload
<1>5. /\ connected' \in [0..created' -> SUBSET Injections]
      /\ \A i \in Injections, d \in 0..created' :
           i # j /\ i \in connected'[d] => d \in 0..created /\ i \in connected[d]
  <2>1. connected \in [0..created -> SUBSET Injections]
    BY DEF Noted
  <2>2. CASE UNCHANGED <<created, connected>>
    BY <2>1, <2>2
  <2>3. CASE EnterLoad(j) /\ created' = created + 1
    <3>1. connected' = [d \in DOMAIN connected \cup {created + 1} |->
                          IF d = created + 1 THEN {} ELSE connected[d]]
      BY <1>2, <2>3 DEF EnterLoad
    <3>2. 0..created' = (0..created) \cup {created + 1}
      BY <1>2, <2>3
    <3>3. DOMAIN connected = 0..created
      BY <2>1
    <3> QED
      BY <2>1, <3>1, <3>2, <3>3
  <2>4. CASE CheckChannel(j)
    <3>1. stub[j].where \in 0..created /\ created' = created
      BY <1>2, <2>4 DEF CheckChannel, At, InDomain
    <3>2. \/ connected' = connected
          \/ connected' = [connected EXCEPT ![stub[j].where] = connected[stub[j].where] \cup {j}]
      BY <2>4 DEF CheckChannel
    <3> QED
      BY ZenonT(60), <2>1, <3>1, <3>2
  <2>5. CASE ForgetChannel(j)
    <3>1. stub[j].where \in 0..created /\ created' = created
      BY <1>2, <2>5 DEF ForgetChannel, At, InDomain
    <3>2. connected' = [connected EXCEPT ![stub[j].where] = connected[stub[j].where] \ {j}]
      BY <2>5 DEF ForgetChannel
    <3> QED
      BY <2>1, <3>1, <3>2
  <2> QED
    BY <2>2, <2>3, <2>4, <2>5
    DEF Step, Begin, EnterLoad, FallBack, CreateProxy, Connect, LoadUserLibrary, AfterLoad,
        RunReturns, LeaveLock, LeaveLoad, EnterClose, Unload, CannotUnload
<1> QED
  BY <1>2, <1>3, <1>4, <1>5 DEF Noted

\* The step of another injection.
LEMMA OthersKeepOnce ==
  ASSUME Inv, OnceInv, NEW j \in Injections, Begin(j) \/ Step(j) \/ RunReturns(j),
         NEW i \in Injections, i # j
  PROVE  (RunsInSecondCall(i) /\ FindsItsChannel(i))'
<1>1. RunsInSecondCall(i) /\ Noted
  BY DEF OnceInv
<1>2. /\ stub'[i] = stub[i] /\ host'[i] = host[i] /\ runs'[i] = runs[i]
      /\ \A d \in 0..created' : i \in connected'[d] => d \in 0..created /\ i \in connected[d]
      /\ stub'[j].pc # "idle"
  BY <1>1, StepIsOwn
<1>3. RunsInSecondCall(i)'
  BY <1>1, <1>2 DEF RunsInSecondCall
<1>4. ~Alone(i)'
  BY <1>2 DEF Alone, At
<1> QED
  BY <1>3, <1>4 DEF FindsItsChannel

\* A step of the injection itself.
LEMMA OwnKeepsOnce ==
  ASSUME Inv, OnceInv, NEW i \in Injections, Begin(i) \/ Step(i) \/ RunReturns(i)
  PROVE  (RunsInSecondCall(i) /\ FindsItsChannel(i))'
<1>1. /\ RunsInSecondCall(i) /\ FindsItsChannel(i)
      /\ connected \in [0..created -> SUBSET Injections]
      /\ host \in [Injections -> {"waits", "failed", "signalled"}]
      /\ runs \in [Injections -> Nat]
  BY DEF OnceInv, Noted
<1>2. /\ stub \in [Injections -> StubRecord]
      /\ created \in Nat /\ domain \in 0..created
      /\ stub[i].pc \in InDomain => stub[i].where \in 0..created /\ stub[i].where \in {0, domain}
  BY DEF Inv, TypeInv, UsedIsCurrent, DEFAULT
<1>3. \A k \in Injections : k # i => stub'[k] = stub[k]
  BY StepIsOwn DEF OnceInv
<1>4. Alone(i)' <=> Alone(i)
  BY <1>3 DEF Alone, At
\* The two ways in which a record changes.
<1>5. ASSUME NEW p \in Pcs, Goto(i, p)
      PROVE  /\ stub'[i].pc = p /\ stub'[i].call = stub[i].call
             /\ stub'[i].where = stub[i].where /\ stub'[i].result = stub[i].result
  BY <1>2, <1>5 DEF Goto, StubRecord
<1>6. ASSUME NEW p \in Pcs, NEW x \in {Failed, Invalid, NoChannel}, Returns(i, x, p)
      PROVE  /\ stub'[i].pc = p /\ stub'[i].call = stub[i].call
             /\ stub'[i].where = stub[i].where /\ stub'[i].result = x
  BY <1>2, <1>6 DEF Returns, StubRecord
<1>7. Failed # NoChannel /\ Invalid # NoChannel /\ stub[i].call \in {1, 2}
  BY <1>2 DEF Failed, Invalid, NoChannel, StubRecord
<1> USE DEF RunsInSecondCall, BeforeLibrary, FindsItsChannel
<1>a. CASE Begin(i)
  <2>1. Goto(i, "load") /\ stub[i].pc = "idle" /\ UNCHANGED <<domain, created, connected, host, runs>>
    BY <1>a DEF Begin, At
  <2> QED
    BY <1>1, <1>4, <1>5, <2>1 DEF Pcs
<1>b. CASE EnterLoad(i)
  <2>1. stub[i].pc = "load" /\ UNCHANGED <<host, runs>>
    BY <1>b DEF EnterLoad, At
  <2>2. stub'[i].pc \in {"proxy", "leave"} /\ stub'[i].call = stub[i].call
        /\ (stub'[i].pc = "leave" => stub'[i].result = Failed)
    BY <1>b, <1>5, <1>6 DEF EnterLoad, Pcs
  <2>3. \A d \in 0..created' : i \in connected'[d] => d \in 0..created /\ i \in connected[d]
    <3>1. CASE UNCHANGED <<created, connected>>
      BY <3>1
    <3>2. CASE created' = created + 1
      <4>1. connected' = [d \in DOMAIN connected \cup {created + 1} |->
                            IF d = created + 1 THEN {} ELSE connected[d]]
        BY <1>b, <1>2, <3>2 DEF EnterLoad
      <4>2. 0..created' = (0..created) \cup {created + 1} /\ DOMAIN connected = 0..created
        BY <1>1, <1>2, <3>2
      <4> QED
        BY <4>1, <4>2
    <3> QED
      BY <1>b, <3>1, <3>2 DEF EnterLoad
  <2> QED
    BY <1>1, <1>7, <2>1, <2>2, <2>3
<1>c. CASE FallBack(i)
  <2>1. stub[i].pc = "load" /\ domain = 0 /\ UNCHANGED <<domain, created, connected, host, runs>>
    BY <1>c DEF FallBack, At
  <2>2. stub'[i].pc = "connect" /\ stub'[i].call = stub[i].call /\ stub'[i].where = 0
    BY <1>c, <1>2 DEF FallBack, StubRecord, DEFAULT
  <2> QED
    BY <1>1, <2>1, <2>2
<1>d. CASE CreateProxy(i)
  <2>1. stub[i].pc = "proxy" /\ UNCHANGED <<domain, created, connected, host, runs>>
    BY <1>d DEF CreateProxy, At
  <2>2. CASE stub' = [stub EXCEPT ![i].pc = "connect", ![i].where = domain]
    <3>1. stub'[i].pc = "connect" /\ stub'[i].call = stub[i].call /\ stub'[i].where = domain
      BY <1>2, <2>2 DEF StubRecord
    <3> QED
      BY <1>1, <2>1, <3>1
  <2>3. CASE Returns(i, Failed, "leave")
    <3>1. stub'[i].pc = "leave" /\ stub'[i].call = stub[i].call /\ stub'[i].result = Failed
      BY <1>6, <2>3 DEF Pcs
    <3> QED
      BY <1>1, <1>7, <2>1, <3>1
  <2> QED
    BY <1>d, <2>2, <2>3 DEF CreateProxy
<1>e. CASE Connect(i)
  <2>1. stub[i].pc = "connect" /\ UNCHANGED <<domain, created, connected, host, runs>>
    BY <1>e DEF Connect, At
  <2>2. /\ stub'[i].call = stub[i].call /\ stub'[i].where = stub[i].where
        /\ \/ stub'[i].pc = "channel"
           \/ stub'[i].pc = "unlock" /\ stub'[i].result = Invalid
    BY <1>e, <1>5, <1>6 DEF Connect, Pcs, InDomain
  <2> QED
    BY <1>1, <1>4, <1>7, <2>1, <2>2
<1>f. CASE CheckChannel(i)
  <2>1. stub[i].pc = "channel" /\ UNCHANGED <<domain, created, host, runs>>
    BY <1>f DEF CheckChannel, At
  <2>2. stub[i].where \in 0..created
    BY <1>2, <2>1 DEF InDomain
  <2>3. CASE i \in connected[stub[i].where]
    <3>1. /\ stub'[i].pc = "library" /\ stub'[i].call = stub[i].call /\ connected' = connected
      BY <1>f, <1>5, <2>3 DEF CheckChannel, Pcs, InDomain
    <3>2. stub[i].call # 1
      BY <1>1, <2>1, <2>2, <2>3
    <3> QED
      BY <1>1, <2>1, <3>1, <3>2
  <2>4. CASE i \notin connected[stub[i].where]
    <3>1. /\ stub'[i].pc = "unlock" /\ stub'[i].call = stub[i].call
          /\ stub'[i].where = stub[i].where
          /\ connected' = [connected EXCEPT ![stub[i].where] = connected[stub[i].where] \cup {i}]
      BY <1>f, <1>6, <2>4 DEF CheckChannel, Pcs
    <3>2. i \in connected'[stub[i].where]
      BY <1>1, <2>2, <3>1
    <3> QED
      BY <1>1, <1>4, <2>1, <3>1, <3>2
  <2> QED
    BY <2>3, <2>4
<1>g. CASE LoadUserLibrary(i)
  <2>1. stub[i].pc = "library" /\ UNCHANGED <<domain, created, connected, host>>
    BY <1>g DEF LoadUserLibrary, At
  <2>2. /\ stub'[i].call = stub[i].call
        /\ stub'[i].pc \in {"run", "forget"}
        /\ runs'[i] = runs[i] \/ runs'[i] = runs[i] + 1
    BY <1>g, <1>1, <1>5, <1>6 DEF LoadUserLibrary, Pcs, InDomain
  <2>3. stub[i].call = 2 /\ runs[i] = 0
    BY <1>1, <1>7, <2>1
  <2> QED
    BY <1>1, <2>1, <2>2, <2>3
<1>h. CASE RunReturns(i) \/ ForgetChannel(i)
  <2>1. stub[i].pc \in {"run", "forget"} /\ UNCHANGED <<domain, created, host, runs>>
    BY <1>h DEF RunReturns, ForgetChannel, At
  <2>2. stub'[i].pc \in {"forget", "unlock"} /\ stub'[i].call = stub[i].call
    BY <1>h, <1>5, <1>6 DEF RunReturns, ForgetChannel, Pcs, InDomain, Invalid
  <2>3. stub[i].call = 2
    BY <1>1, <1>7, <2>1
  <2> QED
    BY <1>1, <2>1, <2>2, <2>3
<1>i. CASE LeaveLock(i) \/ LeaveLoad(i)
  <2>1. /\ stub[i].pc \in {"unlock", "leave"}
        /\ UNCHANGED <<domain, created, connected, host, runs>>
    BY <1>i DEF LeaveLock, LeaveLoad, At
  <2>2. /\ stub'[i].pc \in {"leave", "returned"} /\ stub'[i].call = stub[i].call
        /\ stub'[i].where = stub[i].where /\ stub'[i].result = stub[i].result
    BY <1>i, <1>5 DEF LeaveLock, LeaveLoad, Pcs, InLoad
  <2> QED
    BY <1>1, <1>4, <2>1, <2>2
<1>j. CASE AfterLoad(i)
  <2>1. stub[i].pc = "returned" /\ UNCHANGED <<domain, created, connected, runs>>
    BY <1>j DEF AfterLoad, At
  <2>2. CASE stub[i].call = 1 /\ stub[i].result = Failed
    <3>1. stub'[i].pc = "done" /\ stub'[i].call = 1
      BY <1>j, <1>5, <2>2 DEF AfterLoad, Pcs
    <3> QED
      BY <1>1, <2>1, <2>2, <3>1
  <2>3. CASE stub[i].call = 1 /\ stub[i].result # Failed
    <3>1. /\ stub' = [stub EXCEPT ![i].pc = "load", ![i].call = 2]
          /\ host' = [host EXCEPT ![i] = "signalled"]
      BY <1>j, <2>3 DEF AfterLoad
    <3>2. /\ stub'[i].pc = "load" /\ stub'[i].call = 2
          /\ stub'[i].where = stub[i].where /\ stub'[i].result = stub[i].result
          /\ host'[i] = "signalled"
      BY <1>1, <1>2, <3>1 DEF StubRecord
    <3> QED
      BY <1>1, <1>4, <2>1, <2>3, <3>2
  <2>4. CASE stub[i].call = 2
    <3>1. stub'[i].pc = "close" /\ stub'[i].call = 2 /\ host' = host
      BY <1>j, <1>5, <2>4 DEF AfterLoad, Pcs
    <3> QED
      BY <1>1, <2>1, <2>4, <3>1
  <2> QED
    BY <1>7, <2>2, <2>3, <2>4
<1>k. CASE EnterClose(i) \/ Unload(i) \/ CannotUnload(i)
  <2>1. stub[i].pc \in {"close", "unload"} /\ UNCHANGED <<created, connected, host, runs>>
    BY <1>k DEF EnterClose, Unload, CannotUnload, At
  <2>2. stub'[i].pc \in {"unload", "done"} /\ stub'[i].call = stub[i].call
    <3>1. CASE stub' = [stub EXCEPT ![i].tries = @ + 1] /\ stub[i].pc = "unload"
      BY <1>2, <3>1 DEF StubRecord
    <3> QED
      BY <1>k, <1>5, <3>1 DEF EnterClose, Unload, CannotUnload, Pcs, At
  <2> QED
    BY <1>1, <2>1, <2>2
<1> QED
  BY <1>a, <1>b, <1>c, <1>d, <1>e, <1>f, <1>g, <1>h, <1>i, <1>j, <1>k DEF Step

LEMMA NextOnce == ASSUME Inv, OnceInv, [Next]_vars PROVE OnceInv'
<1>1. ASSUME NEW j \in Injections, Begin(j) \/ Step(j) \/ RunReturns(j) PROVE OnceInv'
  <2>1. Noted'
    BY <1>1, StepIsOwn DEF OnceInv
  <2>2. ASSUME NEW i \in Injections PROVE (RunsInSecondCall(i) /\ FindsItsChannel(i))'
    BY <1>1, OthersKeepOnce, OwnKeepsOnce
  <2> QED
    BY <2>1, <2>2 DEF OnceInv
<1>2. CASE UNCHANGED vars
  BY <1>2 DEF vars, OnceInv, Noted, RunsInSecondCall, FindsItsChannel, Alone, At
<1> QED
  BY <1>1, <1>2 DEF Next

----------------------------------------------------------------------------

\* _injectCount is at every moment the number of calls of Load that have not returned, also when
\* the domain cannot be created, a proxy fails or the library throws (Loader.cs 99, 149-155).
THEOREM CountIsExact == Spec => []CountCounts
<1>1. Inv => CountCounts
  BY DEF Inv
<1> QED
  BY <1>1, InitInv, NextInv, PTL DEF Spec

\* Nobody uses a domain that was unloaded (Loader.cs 134-139 against 169-195): the domain somebody
\* is in is the current one, or the default one, and neither is ever among the unloaded ones.
THEOREM DomainOutlivesLoadAlways == Spec => []DomainOutlivesLoad
<1>1. Inv => DomainOutlivesLoad
  BY DEF Inv, TypeInv, UsedIsCurrent, DomainOutlivesLoad, DEFAULT
<1> QED
  BY <1>1, InitInv, NextInv, PTL DEF Spec

\* A library is run at most once, and only after its host was answered; the second call of Load of an
\* injection that nobody disturbs finds the channel that its first call noted (entry.cpp 168-190).
THEOREM LibraryRunsOnceAlways == Spec => []LibraryRunsOnce
<1>1. Inv /\ OnceInv => LibraryRunsOnce
  <2>1. ASSUME Inv, OnceInv, NEW i \in Injections
        PROVE  /\ runs[i] <= 1
               /\ runs[i] = 1 => host[i] = "signalled"
               /\ Alone(i) /\ At(i, "load") /\ stub[i].call = 2 /\ stub[i].result = NoChannel =>
                    stub[i].where = domain /\ i \in connected[domain]
    <3>1. RunsInSecondCall(i) /\ FindsItsChannel(i)
      BY <2>1 DEF OnceInv
    <3>2. stub[i].call = 1 \/ stub[i].call = 2
      BY <2>1 DEF Inv, TypeInv, StubRecord
    <3> QED
      BY <3>1, <3>2 DEF RunsInSecondCall, FindsItsChannel, At
  <2> QED
    BY <2>1 DEF LibraryRunsOnce
<1> QED
  BY <1>1, InitInv, NextInv, InitOnce, NextOnce, PTL DEF Spec

=============================================================================
