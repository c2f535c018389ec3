---------------------------- MODULE HookAcl_proofs ----------------------------
(***************************************************************************)
(* The access control lists for any number of threads and any requests:    *)
(* a negotiation that no write disturbs is the conjunction of both lists,  *)
(* a hook is suspended until its list is set, and a list that was set is   *)
(* in force when no two threads set the same list at once.                 *)
(***************************************************************************)
EXTENDS HookAcl, SequenceTheorems, TLAPS

Settings == [IsExclusive : BOOLEAN, Count : Nat, Entries : [Indices -> Ids]]

Mirrors == [IsExclusive : BOOLEAN, ACL : Seq(Ids)]

SetterStates == [pc : {"idle", "exclusive", "count", "copy"}, which : Lists, exclusive : BOOLEAN,
                 list : Seq(Ids), Index : Nat]

ReaderStates == [pc : {"idle", "scan_global", "scan_local", "ask_local", "ask_global", "done"},
                 id : Ids, Index : Nat, inGlobal : BOOLEAN, inLocal : BOOLEAN,
                 verdict : BOOLEAN, undisturbed : BOOLEAN]

Accepted == [IsExclusive : BOOLEAN, ids : SUBSET Ids, made : BOOLEAN, refused : BOOLEAN]

TypeInv ==
  /\ acl \in [Lists -> Settings]
  /\ mirror \in [Lists -> Mirrors]
  /\ setter \in [Setters -> SetterStates]
  /\ reader \in [Readers -> ReaderStates]
  /\ requested \in [Lists -> Accepted]

Passed(r, w) == \A j \in Nat : j < reader[r].Index => acl[w].Entries[j] # reader[r].id
InList(r, w) == reader[r].id \in Listed(w)

\* What a negotiation knows of lists that nobody writes meanwhile.
Knows(r) ==
  /\ reader[r].pc = "scan_global" => Passed(r, "global")
  /\ reader[r].pc = "scan_local" => Passed(r, "local")
  /\ reader[r].pc \in {"scan_local", "ask_local", "ask_global"} => (reader[r].inGlobal <=> InList(r, "global"))
  /\ reader[r].pc \in {"ask_local", "ask_global"} => (reader[r].inLocal <=> InList(r, "local"))
  /\ reader[r].pc = "ask_global" => (InList(r, "local") <=> ~ acl["local"].IsExclusive)
  /\ reader[r].pc = "done" =>
       (reader[r].verdict <=> /\ (InList(r, "global") <=> ~ acl["global"].IsExclusive)
                              /\ (InList(r, "local") <=> ~ acl["local"].IsExclusive))

Negotiated ==
  \A r \in Readers :
    /\ reader[r].pc # "done" => ~ reader[r].verdict
    /\ reader[r].undisturbed => Knows(r)

\* Nobody writes the local list before it was requested, and no negotiation gets past it.
Suspended ==
  ~ requested["local"].made =>
    /\ ~ acl["local"].IsExclusive /\ acl["local"].Count = 0
    /\ \A s \in Setters : setter[s].pc # "idle" => setter[s].which # "local"
    /\ \A r \in Readers : ~ reader[r].inLocal /\ ~ reader[r].verdict /\ reader[r].pc # "ask_global"

Remembered ==
  \A w \in Lists :
    ~ requested[w].refused =>
      mirror[w].IsExclusive = requested[w].IsExclusive /\ Range(mirror[w].ACL) = requested[w].ids

Inv == TypeInv /\ Negotiated /\ Suspended /\ Remembered

----------------------------------------------------------------------------
(* One reader, or one setter, moves on. *)

LEMMA Names ==
  /\ "global" \in Lists /\ "local" \in Lists
  /\ \A w \in Lists : w = "global" \/ w = "local"
  BY DEF Lists

LEMMA Types ==
  /\ Indices \subseteq Nat /\ ZERO \in Ids /\ ThreadIds \subseteq Ids
  /\ IdleSetter \in SetterStates /\ IdleReader \in ReaderStates
<1>1. <<>> \in Seq(Ids)
  OBVIOUS
<1> QED
  BY <1>1, AceCount DEF Lists, Indices, Ids, IdleSetter, SetterStates, IdleReader, ReaderStates

\* A negotiation reads; the lists and their setters do not notice.
LEMMA StepOfReader ==
  ASSUME Inv, NEW r \in Readers, NEW x \in ReaderStates, reader' = [reader EXCEPT ![r] = x],
         UNCHANGED <<acl, mirror, setter, requested>>,
         x.pc # "done" => ~ x.verdict, x.undisturbed => Knows(r)',
         ~ requested["local"].made => ~ x.inLocal /\ ~ x.verdict /\ x.pc # "ask_global"
  PROVE  Inv'
<1>1. reader'[r] = x /\ \A u \in Readers : u # r => reader'[u] = reader[u]
  BY DEF Inv, TypeInv
<1>2. TypeInv'
  BY DEF Inv, TypeInv
<1>3. Negotiated'
  <2> SUFFICES ASSUME NEW u \in Readers
               PROVE  /\ reader'[u].pc # "done" => ~ reader'[u].verdict
                      /\ reader'[u].undisturbed => Knows(u)'
    BY DEF Negotiated
  <2>1. CASE u = r
    BY <1>1, <2>1
  <2>2. CASE u # r
    <3>1. reader'[u] = reader[u]
      BY <1>1, <2>2
    <3>2. Knows(u) => Knows(u)'
      BY <3>1 DEF Knows, Passed, InList, Listed
    <3> QED
      BY <3>1, <3>2 DEF Inv, Negotiated
  <2> QED
    BY <2>1, <2>2
<1>4. Suspended'
  BY <1>1 DEF Inv, Suspended
<1>5. Remembered'
  BY DEF Inv, Remembered
<1> QED
  BY <1>2, <1>3, <1>4, <1>5 DEF Inv

LEMMA StartsInv ==
  ASSUME Inv, NEW r \in Readers, NEW id \in ThreadIds, IsThreadIntercepted(r, id)
  PROVE  Inv'
<1> DEFINE x == [IdleReader EXCEPT !.pc = "scan_global", !.id = id]
<1>1. /\ x \in ReaderStates /\ x.pc = "scan_global" /\ x.Index = 0
      /\ ~ x.inLocal /\ ~ x.verdict
  BY Types DEF IdleReader, ReaderStates
<1>2. reader' = [reader EXCEPT ![r] = x] /\ UNCHANGED <<acl, mirror, setter, requested>>
  BY DEF IsThreadIntercepted
<1> HIDE DEF x
<1>3. reader'[r] = x
  BY <1>2 DEF Inv, TypeInv
<1>4. Knows(r)'
  BY <1>1, <1>3 DEF Knows, Passed
<1> QED
  BY <1>1, <1>2, <1>4, StepOfReader

\* The scan passes an entry that is not the id.
LEMMA ScanOnInv ==
  ASSUME Inv, NEW r \in Readers, ScanOn(r)
  PROVE  Inv'
<1> DEFINE x == [reader[r] EXCEPT !.Index = reader[r].Index + 1]
<1>1. reader[r] \in ReaderStates /\ reader[r].Index \in Nat
  BY DEF Inv, TypeInv, ReaderStates
<1>2. /\ x \in ReaderStates /\ x.pc = reader[r].pc /\ x.Index = reader[r].Index + 1 /\ x.id = reader[r].id
      /\ x.inGlobal = reader[r].inGlobal /\ x.inLocal = reader[r].inLocal
      /\ x.verdict = reader[r].verdict /\ x.undisturbed = reader[r].undisturbed
  BY <1>1 DEF ReaderStates
<1>3. reader' = [reader EXCEPT ![r] = x] /\ UNCHANGED <<acl, mirror, setter, requested>>
  BY DEF ScanOn, Inv, TypeInv
<1> HIDE DEF x
<1>4. reader'[r] = x
  BY <1>3 DEF Inv, TypeInv
<1>5. ASSUME x.undisturbed PROVE Knows(r)'
  <2>1. Knows(r)
    BY <1>2, <1>5 DEF Inv, Negotiated
  <2>2. \A w \in Lists : acl[w].Count \in Nat
    BY DEF Inv, TypeInv, Settings
  <2>3. CASE reader[r].pc = "scan_global" /\ ~ Found(r, "global") /\ ~ Exhausted(r, "global")
    <3>1. acl["global"].Entries[reader[r].Index] # reader[r].id
      BY <1>1, <2>2, <2>3, Names DEF Found, Exhausted
    <3>2. \A j \in Nat : j < reader[r].Index + 1 => acl["global"].Entries[j] # reader[r].id
      BY <1>1, <2>1, <2>3, <3>1 DEF Knows, Passed
    <3> QED
      BY <1>2, <1>3, <1>4, <2>3, <3>2 DEF Knows, Passed
  <2>4. CASE reader[r].pc = "scan_local" /\ ~ Found(r, "local") /\ ~ Exhausted(r, "local")
    <3>1. acl["local"].Entries[reader[r].Index] # reader[r].id
      BY <1>1, <2>2, <2>4, Names DEF Found, Exhausted
    <3>2. \A j \in Nat : j < reader[r].Index + 1 => acl["local"].Entries[j] # reader[r].id
      BY <1>1, <2>1, <2>4, <3>1 DEF Knows, Passed
    <3> QED
      BY <1>2, <1>3, <1>4, <2>1, <2>4, <3>2 DEF Knows, Passed, InList, Listed
  <2> QED
    BY <2>3, <2>4 DEF ScanOn
<1>6. /\ x.pc # "done" => ~ x.verdict
      /\ ~ requested["local"].made => ~ x.inLocal /\ ~ x.verdict /\ x.pc # "ask_global"
  BY <1>2 DEF Inv, Negotiated, Suspended
<1> QED
  BY <1>2, <1>3, <1>5, <1>6, StepOfReader

\* A scan that ends tells whether the id is in the list.
LEMMA ScanTells ==
  ASSUME Inv, NEW r \in Readers, NEW w \in Lists, Found(r, w) \/ Exhausted(r, w),
         Passed(r, w)
  PROVE  Found(r, w) <=> InList(r, w)
<1>1. reader[r].Index \in Nat /\ acl[w].Count \in Nat
  BY DEF Inv, TypeInv, ReaderStates, Settings
<1>2. CASE Found(r, w)
  <2>1. reader[r].Index \in 0 .. acl[w].Count - 1 /\ acl[w].Entries[reader[r].Index] = reader[r].id
    BY <1>1, <1>2 DEF Found
  <2> QED
    BY <1>2, <2>1 DEF InList, Listed
<1>3. CASE ~ Found(r, w)
  <2>1. reader[r].Index >= acl[w].Count
    BY <1>3 DEF Exhausted
  <2> QED
    BY <1>1, <1>3, <2>1 DEF Passed, InList, Listed
<1> QED
  BY <1>2, <1>3

LEMMA ScannedGlobalInv ==
  ASSUME Inv, NEW r \in Readers, ScannedGlobal(r)
  PROVE  Inv'
<1> DEFINE x == [reader[r] EXCEPT !.pc = "scan_local", !.Index = 0, !.inGlobal = Found(r, "global")]
<1>1. reader[r] \in ReaderStates /\ Found(r, "global") \in BOOLEAN
  BY DEF Inv, TypeInv, Found
<1>2. /\ x \in ReaderStates /\ x.pc = "scan_local" /\ x.Index = 0 /\ x.id = reader[r].id
      /\ x.inGlobal = Found(r, "global") /\ x.inLocal = reader[r].inLocal
      /\ x.verdict = reader[r].verdict /\ x.undisturbed = reader[r].undisturbed
  <2> DEFINE f == Found(r, "global")
  <2> HIDE DEF f
  <2>1. [reader[r] EXCEPT !.pc = "scan_local", !.Index = 0, !.inGlobal = f] \in ReaderStates
    BY <1>1 DEF ReaderStates, f
  <2> QED
    BY <1>1, <2>1 DEF ReaderStates, f
<1>3. reader' = [reader EXCEPT ![r] = x] /\ UNCHANGED <<acl, mirror, setter, requested>>
  BY DEF ScannedGlobal, Inv, TypeInv
<1> HIDE DEF x
<1>4. reader'[r] = x
  BY <1>3 DEF Inv, TypeInv
<1>5. ASSUME x.undisturbed PROVE Knows(r)'
  <2>1. Knows(r) /\ reader[r].pc = "scan_global"
    BY <1>2, <1>5 DEF Inv, Negotiated, ScannedGlobal
  <2>2. Found(r, "global") <=> InList(r, "global")
    BY <2>1, ScanTells, Names DEF Knows, ScannedGlobal
  <2> QED
    BY <1>2, <1>3, <1>4, <2>2 DEF Knows, Passed, InList, Listed
<1>6. /\ x.pc # "done" => ~ x.verdict
      /\ ~ requested["local"].made => ~ x.inLocal /\ ~ x.verdict /\ x.pc # "ask_global"
  BY <1>2 DEF Inv, Negotiated, Suspended, ScannedGlobal
<1> QED
  BY <1>2, <1>3, <1>5, <1>6, StepOfReader

LEMMA ScannedLocalInv ==
  ASSUME Inv, NEW r \in Readers, ScannedLocal(r)
  PROVE  Inv'
<1> DEFINE x == [reader[r] EXCEPT !.pc = "ask_local", !.inLocal = Found(r, "local")]
<1>1. reader[r] \in ReaderStates /\ Found(r, "local") \in BOOLEAN
  BY DEF Inv, TypeInv, Found
<1>2. /\ x \in ReaderStates /\ x.pc = "ask_local" /\ x.id = reader[r].id
      /\ x.inGlobal = reader[r].inGlobal /\ x.inLocal = Found(r, "local")
      /\ x.verdict = reader[r].verdict /\ x.undisturbed = reader[r].undisturbed
  <2> DEFINE f == Found(r, "local")
  <2> HIDE DEF f
  <2>1. [reader[r] EXCEPT !.pc = "ask_local", !.inLocal = f] \in ReaderStates
    BY <1>1 DEF ReaderStates, f
  <2> QED
    BY <1>1, <2>1 DEF ReaderStates, f
<1>3. reader' = [reader EXCEPT ![r] = x] /\ UNCHANGED <<acl, mirror, setter, requested>>
  BY DEF ScannedLocal, Inv, TypeInv
<1> HIDE DEF x
<1>4. reader'[r] = x
  BY <1>3 DEF Inv, TypeInv
<1>5. ASSUME x.undisturbed PROVE Knows(r)'
  <2>1. Knows(r) /\ reader[r].pc = "scan_local"
    BY <1>2, <1>5 DEF Inv, Negotiated, ScannedLocal
  <2>2. Found(r, "local") <=> InList(r, "local")
    BY <2>1, ScanTells, Names DEF Knows, ScannedLocal
  <2> QED
    BY <1>2, <1>3, <1>4, <2>1, <2>2 DEF Knows, InList, Listed
<1>6. ~ requested["local"].made => ~ Found(r, "local")
  BY <1>1 DEF Inv, Suspended, Found, ReaderStates
<1>7. /\ x.pc # "done" => ~ x.verdict
      /\ ~ requested["local"].made => ~ x.inLocal /\ ~ x.verdict /\ x.pc # "ask_global"
  BY <1>2, <1>6 DEF Inv, Negotiated, Suspended, ScannedLocal
<1> QED
  BY <1>2, <1>3, <1>5, <1>7, StepOfReader

\* The early return of the local list is the conjunction's.
LEMMA AskLocalInv ==
  ASSUME Inv, NEW r \in Readers, AskLocal(r)
  PROVE  Inv'
<1> DEFINE p == IF reader[r].inLocal = acl["local"].IsExclusive THEN "done" ELSE "ask_global"
           x == [reader[r] EXCEPT !.pc = p]
<1>1. reader[r] \in ReaderStates /\ reader[r].inLocal \in BOOLEAN /\ acl["local"].IsExclusive \in BOOLEAN
  BY Names DEF Inv, TypeInv, ReaderStates, Settings
<1>2. p \in {"done", "ask_global"} /\ (p = "done" <=> (reader[r].inLocal <=> acl["local"].IsExclusive))
  BY <1>1
<1>3. reader' = [reader EXCEPT ![r] = x] /\ UNCHANGED <<acl, mirror, setter, requested>>
  BY DEF AskLocal, Inv, TypeInv
<1> HIDE DEF p
<1>4. /\ x \in ReaderStates /\ x.pc = p /\ x.id = reader[r].id
      /\ x.inGlobal = reader[r].inGlobal /\ x.inLocal = reader[r].inLocal
      /\ x.verdict = reader[r].verdict /\ x.undisturbed = reader[r].undisturbed
  BY <1>1, <1>2 DEF ReaderStates
<1> HIDE DEF x
<1>5. reader'[r] = x
  BY <1>3 DEF Inv, TypeInv
<1>6. reader[r].pc = "ask_local" /\ ~ reader[r].verdict
  BY DEF AskLocal, Inv, Negotiated
<1>7. ASSUME x.undisturbed PROVE Knows(r)'
  <2>1. Knows(r)
    BY <1>4, <1>7 DEF Inv, Negotiated
  <2>2. \A w \in Lists : InList(r, w)' <=> InList(r, w)
    BY <1>3, <1>4, <1>5 DEF InList, Listed
  <2> QED
    BY <1>2, <1>3, <1>4, <1>5, <1>6, <2>1, <2>2, Names DEF Knows
<1>8. /\ x.pc # "done" => ~ x.verdict
      /\ ~ requested["local"].made => ~ x.inLocal /\ ~ x.verdict /\ x.pc # "ask_global"
  BY <1>2, <1>4, <1>6 DEF Inv, Suspended
<1> QED
  BY <1>3, <1>4, <1>7, <1>8, StepOfReader

LEMMA AskGlobalInv ==
  ASSUME Inv, NEW r \in Readers, AskGlobal(r)
  PROVE  Inv'
<1> DEFINE v == reader[r].inGlobal # acl["global"].IsExclusive
           x == [reader[r] EXCEPT !.pc = "done", !.verdict = v]
<1>1. reader[r] \in ReaderStates /\ reader[r].inGlobal \in BOOLEAN /\ acl["global"].IsExclusive \in BOOLEAN
  BY Names DEF Inv, TypeInv, ReaderStates, Settings
<1>2. v \in BOOLEAN /\ (v <=> (reader[r].inGlobal <=> ~ acl["global"].IsExclusive))
  BY <1>1
<1>3. reader' = [reader EXCEPT ![r] = x] /\ UNCHANGED <<acl, mirror, setter, requested>>
  BY DEF AskGlobal, Inv, TypeInv
<1> HIDE DEF v
<1>4. /\ x \in ReaderStates /\ x.pc = "done" /\ x.id = reader[r].id
      /\ x.inGlobal = reader[r].inGlobal /\ x.inLocal = reader[r].inLocal
      /\ x.verdict = v /\ x.undisturbed = reader[r].undisturbed
  BY <1>1, <1>2 DEF ReaderStates
<1> HIDE DEF x
<1>5. reader'[r] = x
  BY <1>3 DEF Inv, TypeInv
<1>6. reader[r].pc = "ask_global" /\ requested["local"].made
  BY DEF AskGlobal, Inv, Suspended
<1>7. ASSUME x.undisturbed PROVE Knows(r)'
  <2>1. Knows(r)
    BY <1>4, <1>7 DEF Inv, Negotiated
  <2>2. \A w \in Lists : InList(r, w)' <=> InList(r, w)
    BY <1>3, <1>4, <1>5 DEF InList, Listed
  <2> QED
    BY <1>2, <1>3, <1>4, <1>5, <1>6, <2>1, <2>2, Names DEF Knows
<1> QED
  BY <1>3, <1>4, <1>6, <1>7, StepOfReader

LEMMA ForgetInv ==
  ASSUME Inv, NEW r \in Readers, Forget(r)
  PROVE  Inv'
<1>1. IdleReader \in ReaderStates /\ IdleReader.pc = "idle" /\ ~ IdleReader.verdict /\ ~ IdleReader.inLocal
  BY Types DEF IdleReader
<1>2. reader' = [reader EXCEPT ![r] = IdleReader] /\ UNCHANGED <<acl, mirror, setter, requested>>
  BY DEF Forget
<1>3. reader'[r] = IdleReader
  BY <1>2 DEF Inv, TypeInv
<1>4. Knows(r)'
  BY <1>1, <1>3 DEF Knows
<1> QED
  BY <1>1, <1>2, <1>4, StepOfReader

----------------------------------------------------------------------------
(* The setters. *)

LEMMA SequenceFacts ==
  ASSUME NEW s \in Seq(Ids)
  PROVE  Len(s) \in Nat /\ DOMAIN s = 1 .. Len(s) /\ \A j \in 1 .. Len(s) : s[j] \in Ids
  BY LenProperties, ElementOfSeq

LEMMA Resolves ==
  ASSUME NEW t \in Setters, NEW list \in Requests
  PROVE  /\ list \in Seq(Ids) /\ Resolve(t, list) \in Seq(Ids) /\ Len(Resolve(t, list)) = Len(list)
         /\ Range(Resolve(t, list)) = {IF list[i] = ZERO THEN t ELSE list[i] : i \in DOMAIN list}
<1>1. list \in Seq(Ids)
  BY RequestsAreLists DEF Ids
<1>2. t \in Ids
  BY ThreadsHaveIds DEF Ids
<1>3. Resolve(t, list) = [i \in 1 .. Len(list) |-> IF list[i] = ZERO THEN t ELSE list[i]]
  BY <1>1, SequenceFacts DEF Resolve
<1>4. \A i \in 1 .. Len(list) : (IF list[i] = ZERO THEN t ELSE list[i]) \in Ids
  BY <1>1, <1>2, SequenceFacts
<1>5. Len(list) \in Nat
  BY <1>1, SequenceFacts
<1>6. Resolve(t, list) \in Seq(Ids) /\ Len(Resolve(t, list)) = Len(list)
  BY <1>3, <1>4, <1>5
<1>7. Range(Resolve(t, list)) = {IF list[i] = ZERO THEN t ELSE list[i] : i \in DOMAIN list}
  BY <1>1, <1>3, SequenceFacts DEF Range
<1> QED
  BY <1>1, <1>6, <1>7

LEMMA LhSetACLInv ==
  ASSUME Inv, NEW t \in Setters, NEW w \in Lists, NEW exclusive \in BOOLEAN, NEW list \in Requests,
         LhSetACL(t, w, exclusive, list)
  PROVE  Inv'
<1> DEFINE ids == Resolve(t, list)
           x == [pc |-> "exclusive", which |-> w, exclusive |-> exclusive, list |-> ids, Index |-> 0]
           q == [IsExclusive |-> exclusive,
                 ids |-> {IF list[i] = ZERO THEN t ELSE list[i] : i \in DOMAIN list}, made |-> TRUE,
                 refused |-> FALSE]
           m == [IsExclusive |-> exclusive, ACL |-> ids]
<1>1. /\ setter' = [setter EXCEPT ![t] = x] /\ mirror' = [mirror EXCEPT ![w] = m]
      /\ requested' = [requested EXCEPT ![w] = q] /\ UNCHANGED <<acl, reader>>
  BY DEF LhSetACL
<1>2. ids \in Seq(Ids) /\ q.ids = Range(ids)
  BY Resolves
<1> HIDE DEF ids
<1>3. x \in SetterStates /\ m \in Mirrors /\ x.which = w /\ x.pc = "exclusive"
  BY <1>2 DEF SetterStates, Mirrors
<1>4. Range(ids) \subseteq Ids
  BY <1>2, SequenceFacts DEF Range
<1>5. /\ q.made = TRUE /\ q.refused = FALSE /\ q.IsExclusive = exclusive
      /\ m.IsExclusive = exclusive /\ m.ACL = ids
  OBVIOUS
<1>6. q \in Accepted
  <2> DEFINE i == q.ids
  <2>1. i \in SUBSET Ids /\ q = [IsExclusive |-> exclusive, ids |-> i, made |-> TRUE, refused |-> FALSE]
    BY <1>2, <1>4
  <2> HIDE DEF i
  <2> QED
    BY <2>1 DEF Accepted
<1> HIDE DEF x, q, m
<1>7. TypeInv'
  BY <1>1, <1>3, <1>6 DEF Inv, TypeInv
<1>8. /\ setter'[t] = x /\ \A u \in Setters : u # t => setter'[u] = setter[u]
      /\ requested'[w] = q /\ mirror'[w] = m
      /\ \A v \in Lists : v # w => requested'[v] = requested[v] /\ mirror'[v] = mirror[v]
  BY <1>1 DEF Inv, TypeInv
<1>9. Negotiated'
  BY <1>1 DEF Inv, Negotiated, Knows, Passed, InList, Listed
<1>10. Suspended'
  <2>1. CASE w = "local"
    BY <1>5, <1>8, <2>1 DEF Suspended
  <2>2. CASE w # "local"
    BY <1>1, <1>3, <1>8, <2>2, Names DEF Inv, Suspended
  <2> QED
    BY <2>1, <2>2
<1>11. Remembered'
  BY <1>2, <1>5, <1>8 DEF Inv, Remembered
<1> QED
  BY <1>7, <1>9, <1>10, <1>11 DEF Inv

LEMMA RefuseACLInv ==
  ASSUME Inv, NEW t \in Setters, NEW w \in Lists, NEW exclusive \in BOOLEAN, NEW list \in Requests,
         RefuseACL(t, w, exclusive, list)
  PROVE  Inv'
<1> DEFINE q == [requested[w] EXCEPT !.refused = TRUE]
           m == [IsExclusive |-> exclusive, ACL |-> list]
<1>1. /\ mirror' = [mirror EXCEPT ![w] = m] /\ requested' = [requested EXCEPT ![w] = q]
      /\ UNCHANGED <<acl, reader, setter>>
  BY DEF RefuseACL, Inv, TypeInv
<1>2. m \in Mirrors
  BY Resolves DEF Mirrors
<1>3. q \in Accepted /\ q.refused /\ q.made = requested[w].made
  BY DEF Inv, TypeInv, Accepted
<1> HIDE DEF q, m
<1>4. TypeInv'
  BY <1>1, <1>2, <1>3 DEF Inv, TypeInv
<1>5. /\ requested'[w] = q
      /\ \A v \in Lists : v # w => requested'[v] = requested[v] /\ mirror'[v] = mirror[v]
  BY <1>1 DEF Inv, TypeInv
<1>6. Negotiated'
  BY <1>1 DEF Inv, Negotiated, Knows, Passed, InList, Listed
<1>7. Suspended'
  <2>1. requested'["local"].made = requested["local"].made
    BY <1>3, <1>5, Names
  <2> QED
    BY <1>1, <2>1 DEF Inv, Suspended
<1>8. Remembered'
  BY <1>3, <1>5 DEF Inv, Remembered
<1> QED
  BY <1>4, <1>6, <1>7, <1>8 DEF Inv

\* A write of one word of one list, which every negotiation in progress notices.
LEMMA StepOfWrite ==
  ASSUME Inv, NEW t \in Setters, setter[t].pc # "idle",
         NEW a \in Settings, acl' = [acl EXCEPT ![setter[t].which] = a],
         NEW x \in SetterStates, setter' = [setter EXCEPT ![t] = x], x.which = setter[t].which,
         Disturb, UNCHANGED <<mirror, requested>>
  PROVE  Inv'
<1>1. setter[t].which \in Lists
  BY DEF Inv, TypeInv, SetterStates
<1>2. ASSUME NEW r \in Readers
      PROVE  /\ reader'[r] \in ReaderStates /\ ~ reader'[r].undisturbed
             /\ reader'[r].pc = reader[r].pc /\ reader'[r].verdict = reader[r].verdict
             /\ reader'[r].inLocal = reader[r].inLocal
  <2>1. reader'[r] = [reader[r] EXCEPT !.undisturbed = FALSE] /\ reader[r] \in ReaderStates
    BY DEF Disturb, Inv, TypeInv
  <2> QED
    BY <2>1 DEF ReaderStates
<1>3. reader' \in [Readers -> ReaderStates]
  BY <1>2 DEF Disturb
<1>4. TypeInv'
  BY <1>1, <1>3 DEF Inv, TypeInv
<1>5. Negotiated'
  BY <1>2 DEF Inv, Negotiated
<1>6. Suspended'
  <2> SUFFICES ASSUME ~ requested["local"].made
               PROVE  /\ ~ acl'["local"].IsExclusive /\ acl'["local"].Count = 0
                      /\ \A s \in Setters : setter'[s].pc # "idle" => setter'[s].which # "local"
                      /\ \A r \in Readers : ~ reader'[r].inLocal /\ ~ reader'[r].verdict /\ reader'[r].pc # "ask_global"
    BY DEF Suspended
  <2>1. setter[t].which # "local"
    BY DEF Inv, Suspended
  <2>2. acl'["local"] = acl["local"]
    BY <2>1, Names DEF Inv, TypeInv
  <2>3. \A s \in Setters : setter'[s].pc # "idle" => setter'[s].which # "local"
    BY <2>1 DEF Inv, Suspended, TypeInv
  <2> QED
    BY <1>2, <2>2, <2>3 DEF Inv, Suspended
<1>7. Remembered'
  BY DEF Inv, Remembered
<1> QED
  BY <1>4, <1>5, <1>6, <1>7 DEF Inv

\* What each write makes of the list and of its setter.
LEMMA Writes ==
  ASSUME TypeInv, NEW t \in Setters, WriteIsExclusive(t) \/ WriteCount(t) \/ CopyEntry(t)
  PROVE  \E a \in Settings, x \in SetterStates :
           /\ acl' = [acl EXCEPT ![setter[t].which] = a]
           /\ setter' = [setter EXCEPT ![t] = x]
           /\ x.which = setter[t].which /\ x.exclusive = setter[t].exclusive /\ x.list = setter[t].list
           /\ WriteIsExclusive(t) =>
                /\ x.pc = "count" /\ x.Index = setter[t].Index
                /\ a.IsExclusive = setter[t].exclusive
                /\ a.Count = acl[setter[t].which].Count /\ a.Entries = acl[setter[t].which].Entries
           /\ WriteCount(t) =>
                /\ x.pc = "copy" /\ x.Index = setter[t].Index
                /\ a.IsExclusive = acl[setter[t].which].IsExclusive
                /\ a.Count = Len(setter[t].list) /\ a.Entries = acl[setter[t].which].Entries
           /\ CopyEntry(t) =>
                /\ x.pc = "copy" /\ x.Index = setter[t].Index + 1
                /\ a.IsExclusive = acl[setter[t].which].IsExclusive /\ a.Count = acl[setter[t].which].Count
                /\ a.Entries = [acl[setter[t].which].Entries EXCEPT ![setter[t].Index] =
                                  setter[t].list[setter[t].Index + 1]]
<1> DEFINE w == setter[t].which
<1>1. /\ setter[t] \in SetterStates /\ w \in Lists /\ setter[t].exclusive \in BOOLEAN
      /\ setter[t].list \in Seq(Ids) /\ setter[t].Index \in Nat /\ acl[w] \in Settings
  BY DEF TypeInv, SetterStates
<1>2. CASE WriteIsExclusive(t)
  <2> DEFINE a == [acl[w] EXCEPT !.IsExclusive = setter[t].exclusive]
             x == [setter[t] EXCEPT !.pc = "count"]
  <2>1. setter[t].pc = "exclusive" /\ acl' = [acl EXCEPT ![w] = a] /\ setter' = [setter EXCEPT ![t] = x]
    BY <1>1, <1>2 DEF WriteIsExclusive, TypeInv
  <2>2. a \in Settings /\ a.IsExclusive = setter[t].exclusive /\ a.Count = acl[w].Count /\ a.Entries = acl[w].Entries
    BY <1>1 DEF Settings
  <2>3. /\ x \in SetterStates /\ x.pc = "count" /\ x.which = w /\ x.Index = setter[t].Index
        /\ x.exclusive = setter[t].exclusive /\ x.list = setter[t].list
    BY <1>1 DEF SetterStates
  <2>4. ~ WriteCount(t) /\ ~ CopyEntry(t)
    BY <2>1 DEF WriteCount, CopyEntry
  <2> HIDE DEF a, x
  <2> QED
    BY <2>1, <2>2, <2>3, <2>4
<1>3. CASE WriteCount(t)
  <2> DEFINE a == [acl[w] EXCEPT !.Count = Len(setter[t].list)]
             x == [setter[t] EXCEPT !.pc = "copy"]
  <2>1. setter[t].pc = "count" /\ acl' = [acl EXCEPT ![w] = a] /\ setter' = [setter EXCEPT ![t] = x]
    BY <1>1, <1>3 DEF WriteCount, TypeInv
  <2>2. /\ a \in Settings /\ a.IsExclusive = acl[w].IsExclusive /\ a.Count = Len(setter[t].list)
        /\ a.Entries = acl[w].Entries
    BY <1>1, SequenceFacts DEF Settings
  <2>3. /\ x \in SetterStates /\ x.pc = "copy" /\ x.which = w /\ x.Index = setter[t].Index
        /\ x.exclusive = setter[t].exclusive /\ x.list = setter[t].list
    BY <1>1 DEF SetterStates
  <2>4. ~ WriteIsExclusive(t) /\ ~ CopyEntry(t)
    BY <2>1 DEF WriteIsExclusive, CopyEntry
  <2> HIDE DEF a, x
  <2> QED
    BY <2>1, <2>2, <2>3, <2>4
<1>4. CASE CopyEntry(t)
  <2> DEFINE i == setter[t].Index
             e == [acl[w].Entries EXCEPT ![i] = setter[t].list[i + 1]]
             a == [acl[w] EXCEPT !.Entries = e]
             x == [setter[t] EXCEPT !.Index = i + 1]
  <2>1. setter[t].pc = "copy" /\ i < Len(setter[t].list)
    BY <1>4 DEF CopyEntry
  <2>2. setter[t].list[i + 1] \in Ids
    BY <1>1, <2>1, SequenceFacts
  <2>3. e \in [Indices -> Ids]
    BY <1>1, <2>2 DEF Settings
  <2>4. acl' = [acl EXCEPT ![w] = a] /\ setter' = [setter EXCEPT ![t] = x]
    BY <1>1, <1>4 DEF CopyEntry, TypeInv, Settings
  <2> HIDE DEF e
  <2>5. a \in Settings /\ a.IsExclusive = acl[w].IsExclusive /\ a.Count = acl[w].Count /\ a.Entries = e
    BY <1>1, <2>3 DEF Settings
  <2>6. /\ x \in SetterStates /\ x.pc = "copy" /\ x.which = w /\ x.Index = i + 1
        /\ x.exclusive = setter[t].exclusive /\ x.list = setter[t].list
    BY <1>1, <2>1 DEF SetterStates
  <2>7. ~ WriteIsExclusive(t) /\ ~ WriteCount(t)
    BY <2>1 DEF WriteIsExclusive, WriteCount
  <2> HIDE DEF a, x
  <2> QED
    BY <2>4, <2>5, <2>6, <2>7 DEF e
<1> QED
  BY <1>2, <1>3, <1>4

LEMMA SetReturnsInv ==
  ASSUME Inv, NEW t \in Setters, SetReturns(t)
  PROVE  Inv'
<1>1. setter' = [setter EXCEPT ![t] = IdleSetter] /\ UNCHANGED <<acl, reader, mirror, requested>>
  BY DEF SetReturns
<1>2. IdleSetter \in SetterStates /\ IdleSetter.pc = "idle"
  BY Types DEF IdleSetter
<1>3. TypeInv'
  BY <1>1, <1>2 DEF Inv, TypeInv
<1>4. \A s \in Setters : setter'[s].pc # "idle" => setter'[s] = setter[s]
  BY <1>1, <1>2 DEF Inv, TypeInv
<1>5. Negotiated'
  BY <1>1 DEF Inv, Negotiated, Knows, Passed, InList, Listed
<1>6. Suspended' /\ Remembered'
  BY <1>1, <1>4 DEF Inv, Suspended, Remembered
<1> QED
  BY <1>3, <1>5, <1>6 DEF Inv

----------------------------------------------------------------------------

LEMMA InitInv == Init => Inv
<1> SUFFICES ASSUME Init
             PROVE  Inv
  OBVIOUS
<1>1. TypeInv
  <2>1. ASSUME NEW w \in Lists
        PROVE  /\ [IsExclusive |-> w = "global", Count |-> 0, Entries |-> [i \in Indices |-> ZERO]] \in Settings
               /\ [IsExclusive |-> w = "global", ACL |-> <<>>] \in Mirrors
               /\ [IsExclusive |-> w = "global", ids |-> {}, made |-> FALSE, refused |-> FALSE] \in Accepted
    <3> DEFINE b == (w = "global")
    <3>1. b \in BOOLEAN /\ <<>> \in Seq(Ids)
      OBVIOUS
    <3> HIDE DEF b
    <3>2. [IsExclusive |-> b, Count |-> 0, Entries |-> [i \in Indices |-> ZERO]] \in Settings
      BY <3>1, Types DEF Settings
    <3>3. [IsExclusive |-> b, ACL |-> <<>>] \in Mirrors
      BY <3>1 DEF Mirrors
    <3>4. [IsExclusive |-> b, ids |-> {}, made |-> FALSE, refused |-> FALSE] \in Accepted
      BY <3>1 DEF Accepted
    <3> QED
      BY <3>2, <3>3, <3>4 DEF b
  <2> QED
    BY <2>1, Types DEF Init, TypeInv
<1>2. Negotiated
  BY DEF Init, Negotiated, IdleReader, Knows
<1>3. Suspended
  BY Names DEF Init, Suspended, IdleReader, IdleSetter
<1>4. Remembered
  BY DEF Init, Remembered, Range
<1> QED
  BY <1>1, <1>2, <1>3, <1>4 DEF Inv

LEMMA StepInv == Inv /\ [Next]_vars => Inv'
<1> SUFFICES ASSUME Inv, [Next]_vars
             PROVE  Inv'
  OBVIOUS
<1>1. ASSUME NEW t \in Setters, NEW w \in Lists, NEW exclusive \in BOOLEAN, NEW list \in Requests,
             LhSetACL(t, w, exclusive, list) \/ RefuseACL(t, w, exclusive, list)
      PROVE  Inv'
  BY <1>1, LhSetACLInv, RefuseACLInv
<1>2. ASSUME NEW t \in Setters, WriteIsExclusive(t) \/ WriteCount(t) \/ CopyEntry(t)
      PROVE  Inv'
  <2>1. setter[t].pc # "idle" /\ Disturb /\ UNCHANGED <<mirror, requested>>
    BY <1>2 DEF WriteIsExclusive, WriteCount, CopyEntry
  <2>2. PICK a \in Settings, x \in SetterStates :
          /\ acl' = [acl EXCEPT ![setter[t].which] = a]
          /\ setter' = [setter EXCEPT ![t] = x] /\ x.which = setter[t].which
    BY <1>2, Writes DEF Inv
  <2> QED
    BY <2>1, <2>2, StepOfWrite
<1>3. ASSUME NEW t \in Setters, SetReturns(t)
      PROVE  Inv'
  BY <1>3, SetReturnsInv
<1>4. ASSUME NEW r \in Readers, Negotiate(r)
      PROVE  Inv'
  BY <1>4, StartsInv, ScanOnInv, ScannedGlobalInv, ScannedLocalInv, AskLocalInv, AskGlobalInv, ForgetInv
  DEF Negotiate
<1>5. CASE LhUninstallHook \/ UNCHANGED vars
  <2>1. UNCHANGED <<acl, mirror, setter, reader, requested>>
    BY <1>5 DEF LhUninstallHook, vars
  <2>2. Negotiated'
    BY <2>1 DEF Inv, Negotiated, Knows, Passed, InList, Listed
  <2> QED
    BY <2>1, <2>2 DEF Inv, TypeInv, Suspended, Remembered
<1> QED
  BY <1>1, <1>2, <1>3, <1>4, <1>5 DEF Next, Set

LEMMA InvHolds == Spec => []Inv
  BY InitInv, StepInv, PTL DEF Spec

\* The early returns and the scans of IsThreadIntercepted amount to "intercepted by the global
\* AND local ACL", whatever the two lists are.
THEOREM NegotiationIsSound == Spec => []NegotiationIsConjunction
<1>1. Inv => NegotiationIsConjunction
  <2> SUFFICES ASSUME Inv, NEW r \in Readers, Decided(r)
               PROVE  reader[r].verdict = (Accepts("global", reader[r].id) /\ Accepts("local", reader[r].id))
    BY DEF NegotiationIsConjunction
  <2>1. Knows(r) /\ reader[r].pc = "done" /\ reader[r].verdict \in BOOLEAN
    BY DEF Decided, Inv, TypeInv, Negotiated, ReaderStates
  <2>2. \A w \in Lists : Accepts(w, reader[r].id) <=> (InList(r, w) <=> ~ acl[w].IsExclusive)
    BY DEF Inv, TypeInv, Settings, Accepts, InList
  <2>3. \A w \in Lists : Accepts(w, reader[r].id) \in BOOLEAN
    BY DEF Accepts
  <2>4. reader[r].verdict <=> Accepts("global", reader[r].id) /\ Accepts("local", reader[r].id)
    BY <2>1, <2>2, Names DEF Knows
  <2> QED
    BY <2>1, <2>4
<1> QED
  BY <1>1, InvHolds, PTL

\* "Every hook starts suspended", however many threads set the global list meanwhile.
THEOREM HooksStartSuspended == Spec => []SuspendedUntilSet
<1>1. Inv => SuspendedUntilSet
  BY DEF Inv, Suspended, SuspendedUntilSet
<1> QED
  BY <1>1, InvHolds, PTL

----------------------------------------------------------------------------
(* Setting a list: in force when no two threads write the same list at once. *)

Sets(s, w) == setter[s].pc # "idle" /\ setter[s].which = w

OneSetterPerList == \A s, u \in Setters, w \in Lists : Sets(s, w) /\ Sets(u, w) => s = u

Settled(w) == acl[w].IsExclusive = requested[w].IsExclusive /\ Listed(w) = requested[w].ids

\* How much of the request its setter has written.
Copied(s, w) ==
  /\ requested[w].IsExclusive = setter[s].exclusive /\ requested[w].ids = Range(setter[s].list)
  /\ Len(setter[s].list) <= MAX_ACE_COUNT /\ setter[s].Index <= Len(setter[s].list)
  /\ setter[s].pc \in {"count", "copy"} => acl[w].IsExclusive = setter[s].exclusive
  /\ setter[s].pc \in {"exclusive", "count"} => setter[s].Index = 0
  /\ setter[s].pc = "copy" => acl[w].Count = Len(setter[s].list)
  /\ \A j \in Nat : j < setter[s].Index => acl[w].Entries[j] = setter[s].list[j + 1]

InForce ==
  \A w \in Lists :
    /\ (\A s \in Setters : ~ Sets(s, w)) => Settled(w)
    /\ \A s \in Setters : Sets(s, w) => Copied(s, w)

\* A setter concerns one list, and nobody else sets that list meanwhile.
LEMMA StepOfSetter ==
  ASSUME InForce, NEW t \in Setters, NEW w \in Lists,
         \A u \in Setters : u # t => setter'[u] = setter[u] /\ ~ Sets(u, w),
         \A v \in Lists : v # w => acl'[v] = acl[v] /\ requested'[v] = requested[v] /\ ~ Sets(t, v) /\ ~ Sets(t, v)',
         IF Sets(t, w)' THEN Copied(t, w)' ELSE Settled(w)'
  PROVE  InForce'
<1>1. ASSUME NEW v \in Lists, v # w
      PROVE  /\ (\A s \in Setters : ~ Sets(s, v)') => Settled(v)'
             /\ \A s \in Setters : Sets(s, v)' => Copied(s, v)'
  <2>1. \A s \in Setters : Sets(s, v)' <=> Sets(s, v)
    BY <1>1 DEF Sets
  <2>2. Settled(v) => Settled(v)'
    BY <1>1 DEF Settled, Listed
  <2>3. \A s \in Setters : Sets(s, v) => s # t /\ setter'[s] = setter[s]
    BY <1>1
  <2>4. \A s \in Setters : Sets(s, v) /\ Copied(s, v) => Copied(s, v)'
    BY <1>1, <2>3 DEF Copied
  <2> QED
    BY <2>1, <2>2, <2>4 DEF InForce
<1>2. \A s \in Setters : s # t => ~ Sets(s, w)'
  BY DEF Sets
<1> QED
  BY <1>1, <1>2 DEF InForce

LEMMA LhSetACLInForce ==
  ASSUME Inv, InForce, OneSetterPerList', NEW t \in Setters, NEW w \in Lists, NEW exclusive \in BOOLEAN,
         NEW list \in Requests, LhSetACL(t, w, exclusive, list)
  PROVE  InForce'
<1> DEFINE ids == Resolve(t, list)
<1>1. ids \in Seq(Ids) /\ Len(ids) = Len(list)
      /\ Range(ids) = {IF list[i] = ZERO THEN t ELSE list[i] : i \in DOMAIN list}
  BY Resolves
<1>2. /\ setter[t].pc = "idle" /\ Len(list) <= MAX_ACE_COUNT
      /\ setter' = [setter EXCEPT ![t] = [pc |-> "exclusive", which |-> w, exclusive |-> exclusive,
                                          list |-> ids, Index |-> 0]]
      /\ requested' = [requested EXCEPT ![w] =
           [IsExclusive |-> exclusive, ids |-> Range(ids), made |-> TRUE, refused |-> FALSE]]
      /\ UNCHANGED acl
  BY <1>1 DEF LhSetACL
<1> HIDE DEF ids
<1>3. /\ setter'[t].pc = "exclusive" /\ setter'[t].which = w /\ setter'[t].exclusive = exclusive
      /\ setter'[t].list = ids /\ setter'[t].Index = 0
      /\ \A u \in Setters : u # t => setter'[u] = setter[u]
  BY <1>2 DEF Inv, TypeInv
<1>4. /\ requested'[w].IsExclusive = exclusive /\ requested'[w].ids = Range(ids)
      /\ \A v \in Lists : v # w => requested'[v] = requested[v]
  BY <1>2 DEF Inv, TypeInv
<1>5. \A u \in Setters : u # t => ~ Sets(u, w)
  BY <1>3 DEF OneSetterPerList, Sets
<1>6. Copied(t, w)'
  <2>1. Len(ids) \in Nat /\ Len(ids) <= MAX_ACE_COUNT
    BY <1>1, <1>2, SequenceFacts
  <2> QED
    BY <1>3, <1>4, <2>1 DEF Copied
<1>7. \A v \in Lists : v # w => ~ Sets(t, v) /\ ~ Sets(t, v)'
  BY <1>2, <1>3 DEF Sets
<1>8. Sets(t, w)'
  BY <1>3 DEF Sets
<1> QED
  BY <1>2, <1>3, <1>4, <1>5, <1>6, <1>7, <1>8, StepOfSetter

\* Each write brings the list closer to the request.
LEMMA WriteInForce ==
  ASSUME Inv, InForce, OneSetterPerList, NEW t \in Setters,
         WriteIsExclusive(t) \/ WriteCount(t) \/ CopyEntry(t)
  PROVE  InForce'
<1>0. PICK w \in Lists : w = setter[t].which
  BY DEF Inv, TypeInv, SetterStates
<1>1. /\ setter[t] \in SetterStates /\ setter[t].list \in Seq(Ids)
      /\ setter[t].Index \in Nat /\ acl[w].Entries \in [Indices -> Ids]
  BY DEF Inv, TypeInv, SetterStates, Settings
<1>2. PICK a \in Settings, x \in SetterStates :
        /\ acl' = [acl EXCEPT ![w] = a]
        /\ setter' = [setter EXCEPT ![t] = x]
        /\ x.which = w /\ x.exclusive = setter[t].exclusive /\ x.list = setter[t].list
        /\ WriteIsExclusive(t) =>
             /\ x.pc = "count" /\ x.Index = setter[t].Index
             /\ a.IsExclusive = setter[t].exclusive
             /\ a.Count = acl[w].Count /\ a.Entries = acl[w].Entries
        /\ WriteCount(t) =>
             /\ x.pc = "copy" /\ x.Index = setter[t].Index
             /\ a.IsExclusive = acl[w].IsExclusive
             /\ a.Count = Len(setter[t].list) /\ a.Entries = acl[w].Entries
        /\ CopyEntry(t) =>
             /\ x.pc = "copy" /\ x.Index = setter[t].Index + 1
             /\ a.IsExclusive = acl[w].IsExclusive /\ a.Count = acl[w].Count
             /\ a.Entries = [acl[w].Entries EXCEPT ![setter[t].Index] = setter[t].list[setter[t].Index + 1]]
  BY <1>0, Writes DEF Inv
<1>3. /\ acl'[w] = a /\ setter'[t] = x
      /\ \A v \in Lists : v # w => acl'[v] = acl[v]
      /\ \A u \in Setters : u # t => setter'[u] = setter[u]
  BY <1>1, <1>2 DEF Inv, TypeInv
<1>4. Sets(t, w) /\ UNCHANGED requested
  BY <1>0 DEF Sets, WriteIsExclusive, WriteCount, CopyEntry
<1>5. Copied(t, w)
  BY <1>1, <1>4 DEF InForce
<1>6. \A u \in Setters : u # t => ~ Sets(u, w)
  BY <1>1, <1>4 DEF OneSetterPerList
<1>7. Copied(t, w)' /\ x.pc # "idle"
  <2>1. Len(setter[t].list) \in Nat
    BY <1>1, SequenceFacts
  <2>2. CASE WriteIsExclusive(t)
    <3>1. setter[t].pc = "exclusive"
      BY <2>2 DEF WriteIsExclusive
    <3> QED
      BY <1>2, <1>3, <1>4, <1>5, <2>2, <3>1 DEF Copied
  <2>3. CASE WriteCount(t)
    <3>1. setter[t].pc = "count"
      BY <2>3 DEF WriteCount
    <3> QED
      BY <1>2, <1>3, <1>4, <1>5, <2>3, <3>1 DEF Copied
  <2>4. CASE CopyEntry(t)
    <3> DEFINE i == setter[t].Index
    <3>1. setter[t].pc = "copy" /\ i < Len(setter[t].list)
      BY <2>4 DEF CopyEntry
    <3>2. i \in Indices
      BY <1>1, <1>5, <2>1, <3>1, AceCount DEF Copied, Indices
    <3>3. a.Entries[i] = setter[t].list[i + 1] /\ \A j \in Nat : j < i => a.Entries[j] = acl[w].Entries[j]
      <4>1. a.Entries = [acl[w].Entries EXCEPT ![i] = setter[t].list[i + 1]]
        BY <1>2, <2>4
      <4>2. \A j \in Nat : j < i => j \in Indices /\ j # i
        BY <1>1, <3>2, AceCount DEF Indices
      <4> HIDE DEF i
      <4> QED
        BY <1>1, <3>2, <4>1, <4>2
    <3>4. \A j \in Nat : j < i + 1 => a.Entries[j] = setter[t].list[j + 1]
      BY <1>1, <1>5, <3>3 DEF Copied
    <3> QED
      BY <1>1, <1>2, <1>3, <1>4, <1>5, <2>1, <2>4, <3>1, <3>4 DEF Copied
  <2> QED
    BY <2>2, <2>3, <2>4
<1>8. Sets(t, w)'
  BY <1>2, <1>3, <1>7 DEF Sets
<1>9. \A v \in Lists : v # w => ~ Sets(t, v) /\ ~ Sets(t, v)'
  BY <1>2, <1>3, <1>4 DEF Sets
<1> QED
  BY <1>1, <1>3, <1>4, <1>6, <1>7, <1>8, <1>9, StepOfSetter

\* The list is the request when all of it is written.
LEMMA SetReturnsInForce ==
  ASSUME Inv, InForce, OneSetterPerList, NEW t \in Setters, SetReturns(t)
  PROVE  InForce'
<1>0. PICK w \in Lists : w = setter[t].which
  BY DEF Inv, TypeInv, SetterStates
<1>1. setter[t].list \in Seq(Ids)
  BY DEF Inv, TypeInv, SetterStates
<1>2. /\ setter[t].pc = "copy" /\ setter[t].Index = Len(setter[t].list)
      /\ setter' = [setter EXCEPT ![t] = IdleSetter] /\ UNCHANGED <<acl, requested>>
  BY DEF SetReturns
<1>3. Sets(t, w)
  BY <1>0, <1>2 DEF Sets
<1>4. setter'[t].pc = "idle" /\ \A u \in Setters : u # t => setter'[u] = setter[u]
  BY <1>2 DEF Inv, TypeInv, IdleSetter
<1>5. Copied(t, w)
  BY <1>1, <1>3 DEF InForce
<1>6. Settled(w)
  <2> DEFINE list == setter[t].list
  <2>1. /\ Len(list) \in Nat /\ DOMAIN list = 1 .. Len(list)
    BY <1>1, SequenceFacts
  <2>2. /\ acl[w].Count = Len(list) /\ requested[w].ids = Range(list)
        /\ acl[w].IsExclusive = requested[w].IsExclusive
        /\ \A j \in Nat : j < Len(list) => acl[w].Entries[j] = list[j + 1]
    BY <1>2, <1>5 DEF Copied
  <2> HIDE DEF list
  <2>3. Listed(w) = {acl[w].Entries[j] : j \in 0 .. Len(list) - 1}
    BY <2>2 DEF Listed
  <2>4. Range(list) = {list[k] : k \in 1 .. Len(list)}
    BY <2>1 DEF Range
  <2>5. ASSUME NEW y \in Listed(w) PROVE y \in Range(list)
    <3>1. PICK j \in 0 .. Len(list) - 1 : y = acl[w].Entries[j]
      BY <2>3, <2>5
    <3>2. y = list[j + 1] /\ j + 1 \in 1 .. Len(list)
      BY <2>1, <2>2, <3>1
    <3> QED
      BY <2>4, <3>2
  <2>6. ASSUME NEW y \in Range(list) PROVE y \in Listed(w)
    <3>1. PICK k \in 1 .. Len(list) : y = list[k]
      BY <2>4, <2>6
    <3>2. k - 1 \in 0 .. Len(list) - 1 /\ k - 1 + 1 = k
      BY <2>1
    <3>3. acl[w].Entries[k - 1] = list[k]
      BY <2>1, <2>2, <3>2
    <3> QED
      BY <2>3, <3>1, <3>2, <3>3
  <2> QED
    BY <2>2, <2>5, <2>6 DEF Settled
<1>7. Settled(w)'
  BY <1>2, <1>6 DEF Settled, Listed
<1>8. \A u \in Setters : u # t => ~ Sets(u, w)
  BY <1>1, <1>3 DEF OneSetterPerList
<1>9. ~ Sets(t, w)' /\ \A v \in Lists : v # w => ~ Sets(t, v) /\ ~ Sets(t, v)'
  BY <1>3, <1>4 DEF Sets
<1> QED
  BY <1>1, <1>2, <1>4, <1>7, <1>8, <1>9, StepOfSetter

LEMMA StepInForce == Inv /\ InForce /\ OneSetterPerList /\ OneSetterPerList' /\ [Next]_vars => InForce'
<1> SUFFICES ASSUME Inv, InForce, OneSetterPerList, OneSetterPerList', [Next]_vars
             PROVE  InForce'
  OBVIOUS
<1>1. ASSUME UNCHANGED <<acl, setter>>,
             \A w \in Lists : /\ requested'[w].IsExclusive = requested[w].IsExclusive
                              /\ requested'[w].ids = requested[w].ids
      PROVE  InForce'
  <2>1. \A s \in Setters, w \in Lists : (Sets(s, w)' <=> Sets(s, w)) /\ (Copied(s, w) => Copied(s, w)')
    BY <1>1 DEF Sets, Copied
  <2>2. \A w \in Lists : Settled(w) => Settled(w)'
    BY <1>1 DEF Settled, Listed
  <2> QED
    BY <2>1, <2>2 DEF InForce
<1>2. ASSUME NEW t \in Setters, NEW w \in Lists, NEW exclusive \in BOOLEAN, NEW list \in Requests,
             LhSetACL(t, w, exclusive, list) \/ RefuseACL(t, w, exclusive, list)
      PROVE  InForce'
  <2>1. CASE LhSetACL(t, w, exclusive, list)
    BY <2>1, LhSetACLInForce
  <2>2. CASE RefuseACL(t, w, exclusive, list)
    <3>1. UNCHANGED <<acl, setter>> /\ requested' = [requested EXCEPT ![w].refused = TRUE]
      BY <2>2 DEF RefuseACL
    <3>2. \A v \in Lists : /\ requested'[v].IsExclusive = requested[v].IsExclusive
                           /\ requested'[v].ids = requested[v].ids
      BY <3>1 DEF Inv, TypeInv, Accepted
    <3> QED
      BY <1>1, <3>1, <3>2
  <2> QED
    BY <1>2, <2>1, <2>2
<1>3. ASSUME NEW t \in Setters, WriteIsExclusive(t) \/ WriteCount(t) \/ CopyEntry(t) \/ SetReturns(t)
      PROVE  InForce'
  BY <1>3, WriteInForce, SetReturnsInForce
<1>4. ASSUME NEW r \in Readers, Negotiate(r)
      PROVE  InForce'
  <2>1. UNCHANGED <<acl, setter, requested>>
    BY <1>4 DEF Negotiate, IsThreadIntercepted, ScanOn, ScannedGlobal, ScannedLocal, AskLocal, AskGlobal, Forget
  <2> QED
    BY <1>1, <2>1
<1>5. CASE LhUninstallHook \/ UNCHANGED vars
  BY <1>1, <1>5 DEF LhUninstallHook, vars
<1> QED
  BY <1>2, <1>3, <1>4, <1>5 DEF Next, Set

LEMMA InitInForce == Init => InForce
<1> SUFFICES ASSUME Init, NEW w \in Lists
             PROVE  Settled(w) /\ \A s \in Setters : ~ Sets(s, w)
  BY DEF InForce
<1>1. acl[w].Count = 0 /\ requested[w].ids = {} /\ acl[w].IsExclusive = requested[w].IsExclusive
  BY DEF Init
<1>2. Listed(w) = {}
  BY <1>1 DEF Listed
<1> QED
  BY <1>1, <1>2 DEF Init, Settled, Sets, IdleSetter

LEMMA InForceHolds == Spec /\ []OneSetterPerList => [](Inv /\ InForce)
<1>1. Inv /\ InForce /\ OneSetterPerList /\ OneSetterPerList' /\ [Next]_vars => (Inv /\ InForce)'
  BY StepInv, StepInForce
<1>2. Init => Inv /\ InForce
  BY InitInv, InitInForce
<1> QED
  BY <1>1, <1>2, PTL DEF Spec

\* Whatever lists were set and refused before, the last accepted one is in force when LhSetACL
\* returned.  Nothing locks a list, so this is for programs that do not set one list from two
\* threads at once; both lists may be set at the same time, and threads negotiate meanwhile.
THEOREM ListsAreInForce == Spec /\ []OneSetterPerList => []ListIsInForce
<1>1. InForce => ListIsInForce
  BY DEF InForce, ListIsInForce, Sets, Settled
<1> QED
  BY <1>1, InForceHolds, PTL

\* For the same programs the managed mirror shows the list in force, unless the last call for
\* the list was refused.
THEOREM MirrorIsTrue == Spec /\ []OneSetterPerList => []MirrorShowsTheList
<1>1. Inv /\ InForce => MirrorShowsTheList
  BY DEF Inv, Remembered, InForce, MirrorShowsTheList, Sets, Settled
<1> QED
  BY <1>1, InForceHolds, PTL

=============================================================================
