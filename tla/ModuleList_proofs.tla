-------------------------- MODULE ModuleList_proofs --------------------------
(***************************************************************************)
(* The module cache, for any number of threads, modules and addresses: a   *)
(* pointer into a module that stays loaded is found when no other thread   *)
(* refreshes meanwhile and no old error made the refresh skip a module     *)
(* (AloneFindsModule).                                                     *)
(*                                                                         *)
(* AloneFindsModule speaks of a call that has returned.  The inductive     *)
(* invariant follows the modules the call may rely on through the refresh: *)
(* they are loaded (Relies); the loop has copied each of them or finds it  *)
(* in a part of ProcessModules that nobody has overwritten (Collected);    *)
(* they are in the list that is published (Listed) and in the cache when   *)
(* it is searched again (Published); so a second search that fails is for  *)
(* an address that none of them owns (Unowned).  What a search finds has   *)
(* the address in its range, of which neighbours share one end (Found).    *)
(***************************************************************************)
EXTENDS ModuleList, Integers, SequenceTheorems, FiniteSetTheorems, TLAPS

Records == Modules \cup {Blank}

CallStates == [pc : {"idle", "lookup", "enumerate", "collect", "publish"}, calls : Nat,
               pointer : Addresses, again : BOOLEAN, index : Nat, count : Nat,
               list : Seq(Records), error : BOOLEAN, skipped : BOOLEAN, result : Records,
               status : {"none", "success", "not found", "error", "listed", "too small"},
               alone : BOOLEAN, stable : SUBSET Modules]

TypeInv ==
  /\ loaded \in Seq(Modules) /\ Program \in ToSet(loaded)
  /\ changes \in Nat
  /\ ProcessModules \in Seq(Modules)
  /\ LhModuleArray \in Seq(Records)
  /\ LhModuleCount \in Nat
  /\ call \in [Threads -> CallStates]

\* A call may only rely on modules that are loaded.
Relies(t) == ~ At(t, "idle") => call[t].stable \subseteq ToSet(loaded)

Indexed(t) ==
  At(t, "collect") => /\ 1 <= call[t].index /\ call[t].index <= call[t].count
                      /\ call[t].count <= Len(ProcessModules)

\* Module m is one the loop of thread t has yet to come to.
Ahead(t, m) ==
  \E i \in DOMAIN ProcessModules :
    call[t].index <= i /\ i <= call[t].count /\ ProcessModules[i] = m

\* No other thread refreshed during the call of t, and its own refreshes skipped nothing.
Clean(t) == call[t].alone /\ ~ call[t].skipped

Collected(t) ==
  At(t, "collect") /\ Clean(t) =>
    \A m \in call[t].stable : m \in ToSet(call[t].list) \/ Ahead(t, m)

Listed(t) == At(t, "publish") /\ Clean(t) => call[t].stable \subseteq ToSet(call[t].list)

Published(t) ==
  At(t, "lookup") /\ ~ call[t].again /\ Clean(t) => call[t].stable \subseteq ToSet(LhModuleArray)

\* The address of thread t was searched for in a cache that had every module t relies on.
Missed(t) ==
  \/ call[t].pc \in {"enumerate", "collect", "publish"} /\ ~ call[t].again
  \/ At(t, "idle") /\ call[t].status = "not found"

Unowned(t) == Missed(t) /\ Clean(t) => Owner(call[t].pointer) \cap call[t].stable = {}

\* Address p lies in the range of record m, both ends included.
Covers(m, p) == p >= Base(m) /\ p <= Base(m) + Size(m)

Found(t) == At(t, "idle") /\ call[t].status = "success" => Covers(call[t].result, call[t].pointer)

CallInv(t) ==
  /\ Relies(t) /\ Indexed(t) /\ Collected(t) /\ Listed(t) /\ Published(t)
  /\ Unowned(t) /\ Found(t)

ListInv == TypeInv /\ \A t \in Threads : CallInv(t)

----------------------------------------------------------------------------
(* Sequences. *)

LEMMA InToSet ==
  ASSUME NEW s, NEW m, m \in ToSet(s)
  PROVE  \E i \in DOMAIN s : s[i] = m
BY DEF ToSet

LEMMA AppendKeeps ==
  ASSUME NEW S, NEW s \in Seq(S), NEW e \in S
  PROVE  /\ Append(s, e) \in Seq(S)
         /\ ToSet(s) \subseteq ToSet(Append(s, e)) /\ e \in ToSet(Append(s, e))
<1>1. Append(s, e) \in Seq(S) /\ Len(Append(s, e)) = Len(s) + 1
  BY AppendProperties
<1>2. \A i \in 1..Len(s) : Append(s, e)[i] = s[i]
  BY AppendProperties
<1>3. Append(s, e)[Len(s) + 1] = e
  BY AppendProperties
<1>4. DOMAIN s = 1..Len(s) /\ DOMAIN Append(s, e) = 1..(Len(s) + 1) /\ Len(s) \in Nat
  BY <1>1, LenProperties
<1>5. DOMAIN s \subseteq DOMAIN Append(s, e) /\ Len(s) + 1 \in DOMAIN Append(s, e)
  BY <1>4
<1> QED
  BY <1>1, <1>2, <1>3, <1>4, <1>5 DEF ToSet

\* Removing a position keeps the elements of all others.
LEMMA RemoveAtKeeps ==
  ASSUME NEW S, NEW s \in Seq(S), NEW i \in DOMAIN s
  PROVE  RemoveAt(s, i) \in Seq(S) /\ ToSet(s) \ {s[i]} \subseteq ToSet(RemoveAt(s, i))
<1> DEFINE front == SubSeq(s, 1, i - 1)
           back == SubSeq(s, i + 1, Len(s))
           n == Len(s)
<1>1. n \in Nat /\ DOMAIN s = 1..n /\ i \in 1..n
  BY LenProperties
<1>2. /\ front \in Seq(S) /\ Len(front) = i - 1
      /\ \A j \in 1..(i - 1) : front[j] = s[j]
  <2>1. \A j \in 1..(i - 1) : s[j] \in S
    BY <1>1, ElementOfSeq
  <2>2. 1 \in Int /\ i - 1 \in Int
    BY <1>1
  <2> QED
    BY <1>1, <2>1, <2>2, SMTT(30)
<1>3. /\ back \in Seq(S) /\ Len(back) = n - i
      /\ \A j \in 1..(n - i) : back[j] = s[j + i]
  <2>1. \A j \in (i + 1)..n : s[j] \in S
    BY <1>1, ElementOfSeq
  <2> QED
    BY <1>1, <2>1, SMTT(30)
<1>4. RemoveAt(s, i) = front \o back
  BY DEF RemoveAt
<1> HIDE DEF front, back
<1>5. /\ front \o back \in Seq(S) /\ Len(front \o back) = n - 1
      /\ \A j \in 1..(n - 1) : (front \o back)[j] = IF j <= i - 1 THEN front[j] ELSE back[j - (i - 1)]
  <2>1. /\ front \o back \in Seq(S) /\ Len(front \o back) = Len(front) + Len(back)
        /\ \A j \in 1..(Len(front) + Len(back)) :
             (front \o back)[j] = IF j <= Len(front) THEN front[j] ELSE back[j - Len(front)]
    BY <1>2, <1>3, ConcatProperties
  <2>2. Len(front) + Len(back) = n - 1
    BY <1>1, <1>2, <1>3
  <2> QED
    BY <1>2, <2>1, <2>2
<1>6. DOMAIN (front \o back) = 1..(n - 1)
  BY <1>5, LenProperties
<1>7. ASSUME NEW j \in 1..n, j # i
      PROVE  \E k \in DOMAIN (front \o back) : (front \o back)[k] = s[j]
  <2>1. CASE j < i
    <3>1. j \in 1..(n - 1) /\ j \in 1..(i - 1) /\ j <= i - 1
      BY <1>1, <2>1
    <3>2. (front \o back)[j] = front[j]
      BY <1>5, <3>1
    <3>3. front[j] = s[j]
      BY <1>2, <3>1
    <3> QED
      BY <1>6, <3>1, <3>2, <3>3
  <2>2. CASE j > i
    <3>1. j - 1 \in 1..(n - 1) /\ ~ j - 1 <= i - 1 /\ j - i \in 1..(n - i)
          /\ (j - 1) - (i - 1) = j - i /\ (j - i) + i = j
      BY <1>1, <2>2
    <3>2. (front \o back)[j - 1] = back[(j - 1) - (i - 1)]
      BY <1>5, <3>1
    <3>3. back[j - i] = s[(j - i) + i]
      BY <1>3, <3>1
    <3> QED
      BY <1>6, <3>1, <3>2, <3>3
  <2> QED
    BY <1>1, <1>7, <2>1, <2>2
<1>8. ToSet(s) \ {s[i]} \subseteq ToSet(front \o back)
  BY <1>1, <1>7 DEF ToSet
<1> QED
  BY <1>4, <1>5, <1>8

\* The sequence of a finite set has its elements.
LEMMA SetToSeqKeeps ==
  ASSUME NEW S, IsFiniteSet(S)
  PROVE  SetToSeq(S) \in Seq(S) /\ ToSet(SetToSeq(S)) = S
<1> DEFINE n == Cardinality(S)
<1>1. n \in Nat /\ ExistsBijection(1..n, S)
  BY FS_CardinalityType
<1>2. PICK f \in [1..n -> S] : IsInjective(f)
  BY <1>1 DEF ExistsBijection, Bijection, Injection, IsInjective
<1>3. SetToSeq(S) \in [1..n -> S] /\ IsInjective(SetToSeq(S))
  BY <1>2 DEF SetToSeq
<1>4. SetToSeq(S) \in Injection(1..n, S)
  BY <1>3 DEF Injection, IsInjective
<1>5. IsFiniteSet(1..n) /\ Cardinality(1..n) = n
  BY <1>1, FS_Interval
<1>6. SetToSeq(S) \in Surjection(1..n, S)
  BY <1>4, <1>5, FS_Injection
<1>7. \A m \in S : \E i \in 1..n : SetToSeq(S)[i] = m
  BY <1>6 DEF Surjection
<1>8. SetToSeq(S) \in Seq(S)
  BY <1>1, <1>3, IsASeq
<1> QED
  BY <1>3, <1>7, <1>8 DEF ToSet

LEMMA LongerInterval ==
  ASSUME NEW a \in Nat, NEW b \in Nat
  PROVE  Cardinality((1..a) \cup (1..b)) = IF a < b THEN b ELSE a
<1>1. CASE a < b
  <2>1. (1..a) \cup (1..b) = 1..b
    BY <1>1
  <2>2. Cardinality(1..b) = b
    BY FS_Interval
  <2> QED
    BY <1>1, <2>1, <2>2
<1>2. CASE ~ a < b
  <2>1. (1..a) \cup (1..b) = 1..a
    BY <1>2
  <2>2. Cardinality(1..a) = a
    BY FS_Interval
  <2> QED
    BY <1>2, <2>1, <2>2
<1> QED
  BY <1>1, <1>2

\* What EnumProcessModules leaves in the shared array: it never gets shorter.
Filled == [i \in 1..Cardinality(DOMAIN loaded \cup DOMAIN ProcessModules) |->
             IF i \in DOMAIN loaded THEN loaded[i] ELSE ProcessModules[i]]

LEMMA FilledHasLoaded ==
  ASSUME TypeInv
  PROVE  /\ Filled \in Seq(Modules)
         /\ Len(loaded) <= Len(Filled) /\ Len(ProcessModules) <= Len(Filled)
         /\ \A i \in DOMAIN loaded : i \in DOMAIN Filled /\ Filled[i] = loaded[i]
<1> DEFINE a == Len(loaded)
           b == Len(ProcessModules)
           n == IF a < b THEN b ELSE a
<1>1. a \in Nat /\ DOMAIN loaded = 1..a /\ b \in Nat /\ DOMAIN ProcessModules = 1..b
  BY LenProperties DEF TypeInv
<1>2. Cardinality(DOMAIN loaded \cup DOMAIN ProcessModules) = n
  BY <1>1, LongerInterval
<1>3. n \in Nat /\ a <= n /\ b <= n
  BY <1>1
<1>4. \A i \in 1..a : loaded[i] \in Modules
  BY <1>1, ElementOfSeq DEF TypeInv
<1>5. \A i \in 1..b : ProcessModules[i] \in Modules
  BY <1>1, ElementOfSeq DEF TypeInv
<1>6. Filled = [i \in 1..n |-> IF i \in 1..a THEN loaded[i] ELSE ProcessModules[i]]
  BY <1>1, <1>2 DEF Filled
<1>7. \A i \in 1..n : (IF i \in 1..a THEN loaded[i] ELSE ProcessModules[i]) \in Modules
  BY <1>1, <1>4, <1>5
<1> HIDE DEF n
<1>8. Filled \in [1..n -> Modules]
  BY <1>6, <1>7
<1>9. Filled \in Seq(Modules) /\ Len(Filled) = n
  BY <1>3, <1>8, IsASeq, LenProperties
<1>10. \A i \in DOMAIN loaded : i \in DOMAIN Filled /\ Filled[i] = loaded[i]
  BY <1>1, <1>3, <1>6
<1> QED
  BY <1>3, <1>9, <1>10

----------------------------------------------------------------------------
(* Addresses. *)

\* NULL and ~0 lie in no module, and a record that covers a module's address is a hit for it.
LEMMA OwnersAreHits ==
  ASSUME NEW p \in Addresses, NEW m \in Owner(p)
  PROVE  /\ p \notin Invalid
         /\ \A i \in DOMAIN LhModuleArray : LhModuleArray[i] = m => i \in Hits(p)
<1> DEFINE b == m * ImageSize
<1>1. ModuleLimit \in Nat /\ ModuleLimit >= 1 /\ ImageSize \in Nat /\ ImageSize >= 1
  BY SizesArePositive
<1>2. m \in Nat /\ 1 <= m /\ m <= ModuleLimit
  BY <1>1 DEF Owner, Modules
<1>3. Base(m) = b /\ Size(m) = ImageSize
  BY <1>2 DEF Base, Size, Blank
<1>4. b \in Nat /\ b >= ImageSize
  <2>1. b = (m - 1) * ImageSize + ImageSize
    BY <1>1, <1>2
  <2>2. (m - 1) * ImageSize \in Nat
    BY <1>1, <1>2
  <2> QED
    BY <1>1, <2>1, <2>2
<1>5. b + ImageSize <= (ModuleLimit + 1) * ImageSize
  <2>1. (ModuleLimit + 1) * ImageSize = (ModuleLimit - m) * ImageSize + (b + ImageSize)
    BY <1>1, <1>2
  <2>2. (ModuleLimit - m) * ImageSize \in Nat
    BY <1>1, <1>2
  <2>3. \A x, y, z \in Nat : z = x + y => y <= z
    OBVIOUS
  <2>4. (ModuleLimit + 1) * ImageSize \in Nat /\ b + ImageSize \in Nat
    BY <1>1, <1>4
  <2> QED
    BY <2>1, <2>2, <2>3, <2>4
<1> HIDE DEF b
<1>6. p \in Nat /\ p >= b /\ p < b + ImageSize
  BY <1>1, <1>3 DEF Owner, Addresses
<1>7. p \notin Invalid
  BY <1>1, <1>4, <1>5, <1>6 DEF Invalid
<1>8. p <= b + ImageSize
  BY <1>1, <1>4, <1>6
<1> QED
  BY <1>3, <1>6, <1>7, <1>8 DEF Hits

LEMMA NullIsAnAddress == 0 \in Addresses
<1>1. ModuleLimit + 1 \in Nat /\ ImageSize \in Nat
  BY SizesArePositive
<1>2. (ModuleLimit + 1) * ImageSize \in Nat
  BY <1>1
<1> QED
  BY <1>2 DEF Addresses

\* Ranges overlap in one address only: the last of a module is the first of its neighbour.
LEMMA RangesMeet ==
  ASSUME NEW p \in Addresses, NEW m \in Owner(p), NEW r \in Records, Covers(r, p)
  PROVE  r = m \/ p = Base(m)
<1> DEFINE b == m * ImageSize
           c == r * ImageSize
<1>1. ModuleLimit \in Nat /\ ImageSize \in Nat /\ ImageSize >= 1 /\ (ModuleLimit + 1) * ImageSize \in Nat
  <2>1. ModuleLimit \in Nat /\ ImageSize \in Nat /\ ImageSize >= 1
    BY SizesArePositive
  <2> QED
    BY <2>1
<1>2. m \in Nat /\ 1 <= m /\ r \in Nat
  BY <1>1 DEF Owner, Modules, Records, Blank
<1>3. /\ b \in Nat /\ c \in Nat
      /\ r < m => c + ImageSize <= b
      /\ m < r => b + ImageSize <= c
  <2>1. b \in Nat /\ c \in Nat
    BY <1>1, <1>2
  <2>2. ASSUME NEW x \in Nat, NEW y \in Nat, x < y
        PROVE  x * ImageSize + ImageSize <= y * ImageSize
    <3>1. y * ImageSize = (y - x - 1) * ImageSize + (x * ImageSize + ImageSize)
      BY <1>1, <2>2
    <3>2. (y - x - 1) * ImageSize \in Nat /\ x * ImageSize + ImageSize \in Nat
      BY <1>1, <2>2
    <3>3. \A i, j, k \in Nat : k = i + j => j <= k
      OBVIOUS
    <3>4. y * ImageSize \in Nat
      BY <1>1
    <3> QED
      BY <3>1, <3>2, <3>3, <3>4
  <2> QED
    BY <1>2, <2>1, <2>2
<1>4. Base(m) = b /\ Size(m) = ImageSize /\ p \in Nat /\ p >= b /\ p < b + ImageSize
  <2>1. p \in Nat
    BY <1>1 DEF Addresses
  <2> QED
    BY <1>2, <2>1 DEF Base, Size, Blank, Owner
<1>5. CASE r = Blank
  <2>1. p <= 0 /\ c + ImageSize <= b
    BY <1>2, <1>3, <1>5 DEF Covers, Base, Size, Blank
  <2> HIDE DEF b, c
  <2> QED
    BY <1>1, <1>3, <1>4, <2>1
<1>6. CASE r # Blank
  <2>1. p >= c /\ p <= c + ImageSize
    BY <1>6 DEF Covers, Base, Size
  <2> HIDE DEF b, c
  <2> QED
    BY <1>1, <1>2, <1>3, <1>4, <2>1
<1> QED
  BY <1>5, <1>6

\* A search that hits has a first hit.
LEMMA SmallestHit ==
  ASSUME NEW S \in SUBSET Nat, S # {}
  PROVE  \E i \in S : \A j \in S : i <= j
<1> DEFINE lower == {0..i : i \in S}
<1>1. lower \subseteq FiniteSubsetsOf(Nat)
  <2>1. \A i \in S : IsFiniteSet(0..i) /\ 0..i \subseteq Nat
    BY FS_Interval
  <2> QED
    BY <2>1 DEF FiniteSubsetsOf
<1>2. lower # {}
  OBVIOUS
<1>3. PICK x \in lower : \A y \in lower : <<y, x>> \notin StrictSubsetOrdering(Nat)
  BY <1>1, <1>2, FS_StrictSubsetOrderingWellFounded, WFMin
<1>4. PICK i \in S : x = 0..i
  BY <1>3
<1>5. ASSUME NEW j \in S, j < i
      PROVE  FALSE
  <2>1. 0..j \subseteq 0..i /\ 0..j # 0..i
    <3>1. i \in 0..i /\ i \notin 0..j
      BY <1>5
    <3>2. 0..j \subseteq 0..i
      BY <1>5
    <3> QED
      BY <3>1, <3>2
  <2>2. 0..j \in SUBSET Nat /\ 0..i \in SUBSET Nat
    OBVIOUS
  <2>3. <<0..j, 0..i>> \in StrictSubsetOrdering(Nat)
    BY <2>1, <2>2 DEF StrictSubsetOrdering
  <2> QED
    BY <1>3, <1>4, <2>3
<1> QED
  BY <1>5

----------------------------------------------------------------------------
(* One step. *)

LEMMA CallFields ==
  ASSUME TypeInv, NEW t \in Threads
  PROVE  /\ call[t] \in CallStates
         /\ call[t].pc \in {"idle", "lookup", "enumerate", "collect", "publish"}
         /\ call[t].calls \in Nat /\ call[t].pointer \in Addresses /\ call[t].again \in BOOLEAN
         /\ call[t].index \in Nat /\ call[t].count \in Nat /\ call[t].list \in Seq(Records)
         /\ call[t].result \in Records /\ call[t].alone \in BOOLEAN
         /\ call[t].status \in {"none", "success", "not found", "error", "listed", "too small"}
         /\ call[t].stable \in SUBSET Modules
         /\ call[t].error \in BOOLEAN /\ call[t].skipped \in BOOLEAN
BY DEF TypeInv, CallStates

\* A step leaves the progress of thread t's call alone.
Keeps(t) ==
  /\ call'[t].pc = call[t].pc /\ call'[t].pointer = call[t].pointer
  /\ call'[t].again = call[t].again /\ call'[t].index = call[t].index
  /\ call'[t].count = call[t].count /\ call'[t].list = call[t].list
  /\ call'[t].status = call[t].status /\ call'[t].result = call[t].result
  /\ call'[t].skipped = call[t].skipped

\* What holds of a thread goes on to hold while others act: they may only take modules and the
\* mark "alone" from it, and without a change to what its refresh works with.
LEMMA Bystander ==
  ASSUME NEW t \in Threads, CallInv(t),
         Keeps(t),
         call'[t].alone => call[t].alone,
         call'[t].stable \subseteq call[t].stable,
         ~ At(t, "idle") => call'[t].stable \subseteq ToSet(loaded'),
         call[t].count \in Nat, Len(ProcessModules) \in Nat, Len(ProcessModules') \in Nat,
         Len(ProcessModules) <= Len(ProcessModules'),
         At(t, "collect") /\ call'[t].alone => ProcessModules' = ProcessModules,
         At(t, "lookup") /\ call'[t].alone => LhModuleArray' = LhModuleArray
  PROVE  CallInv(t)'
<1>1. Relies(t)'
  BY DEF Keeps, Relies, At
<1>2. Indexed(t)'
  BY DEF Keeps, CallInv, Indexed, At
<1>3. Collected(t)'
  BY DEF Keeps, CallInv, Clean, Collected, Ahead, At
<1>4. Listed(t)'
  BY DEF Keeps, CallInv, Clean, Listed, At
<1>5. Published(t)'
  BY DEF Keeps, CallInv, Clean, Published, At
<1>6. Unowned(t)'
  BY DEF Keeps, CallInv, Clean, Unowned, Missed, At
<1>7. Found(t)'
  BY DEF Keeps, CallInv, Found, At
<1> QED
  BY <1>1, <1>2, <1>3, <1>4, <1>5, <1>6, <1>7 DEF CallInv

\* The same for a thread whose record does not change at all.
LEMMA Untouched ==
  ASSUME TypeInv, NEW t \in Threads, CallInv(t), call'[t] = call[t],
         UNCHANGED <<loaded, ProcessModules, LhModuleArray>>
  PROVE  CallInv(t)'
<1>1. Len(ProcessModules) \in Nat
  BY LenProperties DEF TypeInv
<1>2. call[t].stable \subseteq ToSet(loaded) \/ At(t, "idle")
  BY DEF CallInv, Relies
<1>3. Keeps(t) /\ call[t].count \in Nat
  BY CallFields DEF Keeps
<1>4. ~ At(t, "idle") => call'[t].stable \subseteq ToSet(loaded')
  BY <1>2
<1> QED
  BY <1>1, <1>3, <1>4, Bystander

LEMMA LoadModuleStep ==
  ASSUME ListInv, NEW m \in Modules, LoadModule(m)
  PROVE  ListInv'
<1> USE DEF ListInv
<1>1. loaded \in Seq(Modules) /\ loaded' = Append(loaded, m) /\ changes' = changes + 1
      /\ UNCHANGED <<ProcessModules, LhModuleArray, LhModuleCount, call>>
  BY DEF LoadModule, TypeInv
<1>2. loaded' \in Seq(Modules) /\ ToSet(loaded) \subseteq ToSet(loaded')
  BY <1>1, AppendKeeps
<1>3. TypeInv'
  BY <1>1, <1>2 DEF TypeInv
<1>4. ASSUME NEW t \in Threads
      PROVE  CallInv(t)'
  <2>1. Len(ProcessModules) \in Nat /\ CallInv(t)
    BY LenProperties DEF TypeInv
  <2>2. ~ At(t, "idle") => call'[t].stable \subseteq ToSet(loaded')
    BY <1>1, <1>2, <2>1 DEF CallInv, Relies
  <2>3. Keeps(t) /\ call[t].count \in Nat
    BY <1>1, CallFields DEF Keeps
  <2> QED
    BY <1>1, <2>1, <2>2, <2>3, Bystander
<1> QED
  BY <1>3, <1>4

LEMMA UnloadModuleStep ==
  ASSUME ListInv, NEW m \in Modules, UnloadModule(m)
  PROVE  ListInv'
<1> USE DEF ListInv
<1>1. PICK i \in DOMAIN loaded : loaded[i] = m /\ loaded' = RemoveAt(loaded, i)
  BY DEF UnloadModule
<1>2. m # Program /\ changes' = changes + 1 /\ UNCHANGED <<ProcessModules, LhModuleArray, LhModuleCount>>
      /\ call' = [t \in Threads |-> [call[t] EXCEPT !.stable = @ \ {m}]]
  BY DEF UnloadModule
<1>3. loaded' \in Seq(Modules) /\ ToSet(loaded) \ {m} \subseteq ToSet(loaded')
  BY <1>1, RemoveAtKeeps DEF TypeInv
<1>4. \A t \in Threads : call'[t] = [call[t] EXCEPT !.stable = @ \ {m}]
  BY <1>2
<1>5. ASSUME NEW t \in Threads
      PROVE  /\ call'[t] \in CallStates
             /\ Keeps(t) /\ call'[t].alone = call[t].alone
             /\ call'[t].stable = call[t].stable \ {m}
  <2>1. call'[t] = [call[t] EXCEPT !.stable = @ \ {m}]
    BY <1>4
  <2>2. call[t] \in CallStates /\ call[t].stable \ {m} \in SUBSET Modules
    BY CallFields
  <2>3. call'[t] \in CallStates
    BY <2>1, <2>2 DEF CallStates
  <2>4. Keeps(t) /\ call'[t].alone = call[t].alone /\ call'[t].stable = call[t].stable \ {m}
    BY <2>1, <2>2 DEF CallStates, Keeps
  <2> QED
    BY <2>3, <2>4
<1>6. TypeInv'
  <2>1. call' \in [Threads -> CallStates]
    BY <1>2, <1>5
  <2> QED
    BY <1>2, <1>3, <2>1 DEF TypeInv
<1>7. ASSUME NEW t \in Threads
      PROVE  CallInv(t)'
  <2>1. Len(ProcessModules) \in Nat /\ CallInv(t)
    BY LenProperties DEF TypeInv
  <2>2. ~ At(t, "idle") => call'[t].stable \subseteq ToSet(loaded')
    BY <1>3, <1>5, <2>1 DEF CallInv, Relies
  <2>3. call'[t].alone = call[t].alone /\ call'[t].stable \subseteq call[t].stable /\ Keeps(t)
        /\ call[t].count \in Nat
    BY <1>5, CallFields
  <2> QED
    BY <1>2, <2>1, <2>2, <2>3, Bystander
<1> QED
  BY <1>6, <1>7

LEMMA NoList == << >> \in Seq(Records)
OBVIOUS

\* The record r of a call that was c and is back with an answer.
Back(r, c, status, m) ==
  /\ r \in CallStates /\ r.pc = "idle" /\ r.status = status /\ r.result = m
  /\ r.pointer = c.pointer /\ r.stable = c.stable /\ r.alone = c.alone /\ r.skipped = c.skipped

LEMMA ReturnedFields ==
  ASSUME NEW c \in CallStates, NEW m \in Records
  PROVE  Back(Returned(c, "success", m), c, "success", m)
BY NoList DEF CallStates, Returned, Back

\* The same without a module.
LEMMA BlankReturned ==
  ASSUME NEW c \in CallStates
  PROVE  /\ Back(Returned(c, "not found", Blank), c, "not found", Blank)
         /\ Back(Returned(c, "error", Blank), c, "error", Blank)
<1>1. Blank \in Records
  BY DEF Records
<1>2. Back(Returned(c, "not found", Blank), c, "not found", Blank)
  BY <1>1, NoList DEF CallStates, Returned, Back
<1>3. Back(Returned(c, "error", Blank), c, "error", Blank)
  BY <1>1, NoList DEF CallStates, Returned, Back
<1> QED
  BY <1>2, <1>3

\* A step that only moves thread t on, to the record r.
LEMMA OneMoves ==
  ASSUME ListInv, NEW t \in Threads, NEW r \in CallStates, call' = [call EXCEPT ![t] = r],
         UNCHANGED <<loaded, ProcessModules, LhModuleArray>>
  PROVE  /\ call'[t] = r /\ call' \in [Threads -> CallStates]
         /\ \A u \in Threads \ {t} : CallInv(u)'
<1>1. call \in [Threads -> CallStates] /\ TypeInv
  BY DEF ListInv, TypeInv
<1>2. call'[t] = r /\ call' \in [Threads -> CallStates]
  BY <1>1
<1>3. ASSUME NEW u \in Threads \ {t}
      PROVE  CallInv(u)'
  <2>1. call'[u] = call[u] /\ CallInv(u)
    BY <1>1 DEF ListInv
  <2> QED
    BY <1>1, <2>1, Untouched
<1> QED
  BY <1>2, <1>3

LEMMA BeginStep ==
  ASSUME ListInv, NEW t \in Threads, NEW p \in Addresses, LhBarrierPointerToModule(t, p)
  PROVE  ListInv'
<1> DEFINE r == [IdleCall EXCEPT !.pc = "lookup", !.calls = call[t].calls + 1,
                                 !.pointer = p, !.stable = ToSet(loaded)]
<1>1. call' = [call EXCEPT ![t] = r]
      /\ UNCHANGED <<loaded, changes, ProcessModules, LhModuleArray, LhModuleCount>>
  BY DEF LhBarrierPointerToModule
<1>2. ToSet(loaded) \in SUBSET Modules
  <2>1. \A i \in DOMAIN loaded : loaded[i] \in Modules
    BY ElementOfSeq, LenProperties DEF ListInv, TypeInv
  <2> QED
    BY <2>1 DEF ToSet
<1>3. r \in CallStates
  <2>1. call[t].calls + 1 \in Nat
    <3>1. TypeInv
      BY DEF ListInv
    <3>2. call[t].calls \in Nat
      BY <3>1, CallFields
    <3> QED
      BY <3>2
  <2>2. << >> \in Seq(Records) /\ Blank \in Records
    BY DEF Records
  <2> QED
    BY <1>2, <2>1, <2>2 DEF CallStates, IdleCall
<1>4. r.pc = "lookup" /\ r.again /\ r.stable = ToSet(loaded)
  BY DEF IdleCall
<1> HIDE DEF r
<1>5. call'[t] = r /\ call' \in [Threads -> CallStates] /\ \A u \in Threads \ {t} : CallInv(u)'
  BY <1>1, <1>3, OneMoves
<1>6. CallInv(t)'
  BY <1>1, <1>4, <1>5 DEF CallInv, Relies, Indexed, Collected, Listed, Published, Unowned, Found, Missed, At
<1> QED
  BY <1>1, <1>5, <1>6 DEF ListInv, TypeInv

LEMMA LookupStep ==
  ASSUME ListInv, NEW t \in Threads, Lookup(t)
  PROVE  ListInv'
<1> DEFINE hits == Hits(call[t].pointer)
           first == LhModuleArray[CHOOSE i \in hits : \A j \in hits : i <= j]
<1>1. /\ call[t].pc = "lookup" /\ CallInv(t) /\ TypeInv
      /\ UNCHANGED <<loaded, changes, ProcessModules, LhModuleArray, LhModuleCount>>
  BY DEF Lookup, At, ListInv
<1>2. call[t] \in CallStates
  BY <1>1, CallFields
<1>3. CASE hits # {}
  <2> DEFINE r == Returned(call[t], "success", first)
  <2>1. call' = [call EXCEPT ![t] = r]
    BY <1>1, <1>3 DEF Lookup, Returns, TypeInv
  <2>2. first \in Records /\ Covers(first, call[t].pointer)
    <3>1. hits \subseteq Nat
      BY <1>1, LenProperties DEF Hits, TypeInv
    <3>2. PICK i \in hits : \A j \in hits : i <= j
      BY <1>3, <3>1, SmallestHit
    <3>3. (CHOOSE k \in hits : \A j \in hits : k <= j) \in hits
      BY <3>2
    <3>4. Covers(first, call[t].pointer)
      BY <3>3 DEF Hits, Covers
    <3>5. (CHOOSE k \in hits : \A j \in hits : k <= j) \in DOMAIN LhModuleArray
      BY <3>3 DEF Hits
    <3> QED
      BY <1>1, <3>4, <3>5, ElementOfSeq, LenProperties DEF TypeInv
  <2> HIDE DEF first
  <2>3. /\ r \in CallStates /\ r.pc = "idle" /\ r.status = "success"
        /\ r.result = first /\ r.pointer = call[t].pointer
    BY <1>2, <2>2, ReturnedFields DEF Back
  <2> HIDE DEF r
  <2>4. call'[t] = r /\ call' \in [Threads -> CallStates] /\ \A u \in Threads \ {t} : CallInv(u)'
    BY <1>1, <2>1, <2>3, OneMoves
  <2>5. CallInv(t)'
    BY <2>2, <2>3, <2>4 DEF CallInv, Relies, Indexed, Collected, Listed, Published, Unowned, Found, Missed, At
  <2> QED
    BY <1>1, <2>4, <2>5 DEF ListInv, TypeInv
<1>4. CASE hits = {} /\ call[t].pointer \in Invalid
  <2> DEFINE r == Returned(call[t], "not found", Blank)
  <2>1. call' = [call EXCEPT ![t] = r]
    BY <1>1, <1>4 DEF Lookup, Returns, TypeInv
  <2>2. /\ r \in CallStates /\ r.pc = "idle" /\ r.pointer = call[t].pointer
        /\ r.stable = call[t].stable /\ r.status = "not found"
    BY <1>2, BlankReturned DEF Back
  <2> HIDE DEF r
  <2>3. call'[t] = r /\ call' \in [Threads -> CallStates] /\ \A u \in Threads \ {t} : CallInv(u)'
    BY <1>1, <2>1, <2>2, OneMoves
  <2>4. Owner(r.pointer) = {}
    BY <1>1, <1>4, <2>2, CallFields, OwnersAreHits
  <2>5. CallInv(t)'
    BY <2>2, <2>3, <2>4 DEF CallInv, Relies, Indexed, Collected, Listed, Published, Unowned, Found, At
  <2> QED
    BY <1>1, <2>3, <2>5 DEF ListInv, TypeInv
<1>5. CASE hits = {} /\ call[t].pointer \notin Invalid
  <2> DEFINE r == [call[t] EXCEPT !.pc = "enumerate"]
  <2>1. call' = [call EXCEPT ![t] = r]
    BY <1>1, <1>5 DEF Lookup, TypeInv
  <2>2. /\ r \in CallStates /\ r.pc = "enumerate" /\ r.pointer = call[t].pointer
        /\ r.stable = call[t].stable /\ r.again = call[t].again /\ r.alone = call[t].alone
        /\ r.skipped = call[t].skipped
    BY <1>2 DEF CallStates
  <2> HIDE DEF r
  <2>3. call'[t] = r /\ call' \in [Threads -> CallStates] /\ \A u \in Threads \ {t} : CallInv(u)'
    BY <1>1, <2>1, <2>2, OneMoves
  <2>4. Relies(t)'
    BY <1>1, <2>2, <2>3 DEF CallInv, Relies, At
  <2>5. ~ r.again /\ r.alone /\ ~ r.skipped => Owner(r.pointer) \cap r.stable = {}
    <3>1. SUFFICES ASSUME ~ r.again /\ r.alone /\ ~ r.skipped, NEW m \in Owner(r.pointer), m \in r.stable
                   PROVE  FALSE
      OBVIOUS
    <3>2. m \in ToSet(LhModuleArray)
      BY <1>1, <2>2, <3>1 DEF CallInv, Published, Clean, At
    <3>3. PICK i \in DOMAIN LhModuleArray : LhModuleArray[i] = m
      BY <3>2, InToSet
    <3>4. i \in hits
      BY <1>1, <2>2, <3>1, <3>3, CallFields, OwnersAreHits
    <3> QED
      BY <1>5, <3>4
  <2>6. CallInv(t)'
    BY <2>2, <2>3, <2>4, <2>5
    DEF CallInv, Indexed, Collected, Listed, Published, Unowned, Found, Clean, Missed, At
  <2> QED
    BY <1>1, <2>3, <2>6 DEF ListInv, TypeInv
<1> QED
  BY <1>3, <1>4, <1>5

LEMMA RefreshFailsStep ==
  ASSUME ListInv, NEW t \in Threads, RefreshFails(t)
  PROVE  ListInv'
<1> DEFINE r == Returned(call[t], "error", Blank)
<1>1. TypeInv /\ UNCHANGED <<loaded, changes, ProcessModules, LhModuleArray, LhModuleCount>>
  BY DEF RefreshFails, ListInv
<1>2. call' = [call EXCEPT ![t] = r]
  BY <1>1 DEF RefreshFails, Returns, TypeInv
<1>3. r \in CallStates /\ r.pc = "idle" /\ r.status = "error"
  <2>1. call[t] \in CallStates
    BY <1>1, CallFields
  <2> QED
    BY <2>1, BlankReturned DEF Back
<1> HIDE DEF r
<1>4. call'[t] = r /\ call' \in [Threads -> CallStates] /\ \A u \in Threads \ {t} : CallInv(u)'
  BY <1>1, <1>2, <1>3, OneMoves
<1>5. CallInv(t)'
  BY <1>3, <1>4 DEF CallInv, Relies, Indexed, Collected, Listed, Published, Unowned, Found, Missed, At
<1> QED
  BY <1>1, <1>4, <1>5 DEF ListInv, TypeInv

LEMMA EnumModulesStep ==
  ASSUME ListInv, NEW t \in Threads, NEW max \in 0..ModuleLimit, LhEnumModules(t, max)
  PROVE  ListInv'
<1> DEFINE n == Len(LhModuleArray)
           written == IF n > max + 1 THEN max + 1 ELSE n
           copied == IF max = 0 THEN << >> ELSE SubSeq(LhModuleArray, 1, written)
           answer == IF max > 0 /\ n > max + 1 THEN "too small" ELSE "listed"
           r == [IdleCall EXCEPT !.calls = call[t].calls + 1, !.count = LhModuleCount,
                                 !.list = copied, !.status = answer]
<1>1. /\ TypeInv /\ UNCHANGED <<loaded, changes, ProcessModules, LhModuleArray, LhModuleCount>>
      /\ call' = [call EXCEPT ![t] = r]
  BY DEF LhEnumModules, ListInv
<1>2. copied \in Seq(Records)
  <2>1. n \in Nat /\ DOMAIN LhModuleArray = 1..n /\ max \in Nat
    BY <1>1, LenProperties, SizesArePositive DEF TypeInv
  <2>2. written \in Int /\ written <= n
    BY <2>1
  <2>3. \A i \in 1..written : LhModuleArray[i] \in Records
    BY <1>1, <2>1, <2>2, ElementOfSeq DEF TypeInv
  <2>4. SubSeq(LhModuleArray, 1, written) \in Seq(Records)
    BY <2>2, <2>3, SubSeqProperties
  <2> QED
    BY <2>4
<1> HIDE DEF copied
<1>3. r \in CallStates /\ r.pc = "idle" /\ r.status \in {"too small", "listed"}
  <2>1. 0 \in Addresses
    BY NullIsAnAddress
  <2>2. call[t].calls + 1 \in Nat /\ LhModuleCount \in Nat
    <3>1. call[t].calls \in Nat
      BY <1>1, CallFields
    <3> QED
      BY <1>1, <3>1 DEF TypeInv
  <2>3. answer \in {"too small", "listed"}
    OBVIOUS
  <2> HIDE DEF answer
  <2> QED
    BY <1>2, <2>1, <2>2, <2>3 DEF CallStates, IdleCall, Records
<1> HIDE DEF r
<1>4. call'[t] = r /\ call' \in [Threads -> CallStates] /\ \A u \in Threads \ {t} : CallInv(u)'
  BY <1>1, <1>3, OneMoves
<1>5. CallInv(t)'
  BY <1>3, <1>4 DEF CallInv, Relies, Indexed, Collected, Listed, Published, Unowned, Found, Missed, At
<1> QED
  BY <1>1, <1>4, <1>5 DEF ListInv, TypeInv

LEMMA CollectStep ==
  ASSUME ListInv, NEW t \in Threads, Collect(t)
  PROVE  ListInv'
<1> DEFINE c == call[t]
           m == ProcessModules[c.index]
           gone == m \notin ToSet(loaded)
           e(cleared) == gone \/ (c.error /\ ~ cleared)
           next == IF c.index = c.count THEN "publish" ELSE c.pc
<1>0. PICK cleared \in BOOLEAN :
      call' = [call EXCEPT ![t].list = IF e(cleared) THEN @ ELSE Append(@, m),
                           ![t].error = e(cleared), ![t].skipped = @ \/ (e(cleared) /\ ~ gone),
                           ![t].index = @ + 1, ![t].pc = IF c.index = c.count THEN "publish" ELSE @]
  BY DEF Collect
<1> DEFINE error == e(cleared)
           list == IF error THEN c.list ELSE Append(c.list, m)
           skipped == c.skipped \/ (error /\ ~ gone)
           r == [c EXCEPT !.list = list, !.error = error, !.skipped = skipped,
                          !.index = c.index + 1, !.pc = next]
<1>1. /\ c.pc = "collect" /\ CallInv(t) /\ TypeInv
      /\ UNCHANGED <<loaded, changes, ProcessModules, LhModuleArray, LhModuleCount>>
  BY DEF Collect, At, ListInv
<1>2. call' = [call EXCEPT ![t] = r]
  BY <1>0, <1>1 DEF TypeInv
<1>3. c \in CallStates /\ c.index \in Nat /\ c.count \in Nat /\ c.list \in Seq(Records)
  BY <1>1, CallFields
<1>4. c.index \in DOMAIN ProcessModules /\ c.index <= c.count /\ m \in Records
  <2>1. Len(ProcessModules) \in Nat /\ DOMAIN ProcessModules = 1..Len(ProcessModules)
    BY <1>1, LenProperties DEF TypeInv
  <2>2. 1 <= c.index /\ c.index <= c.count /\ c.count <= Len(ProcessModules)
    BY <1>1 DEF CallInv, Indexed, At
  <2>3. c.index \in 1..Len(ProcessModules)
    BY <1>3, <2>1, <2>2
  <2>4. m \in Modules
    BY <1>1, <2>3, ElementOfSeq DEF TypeInv
  <2> QED
    BY <2>1, <2>2, <2>3, <2>4 DEF Records
<1>5. /\ list \in Seq(Records) /\ ToSet(c.list) \subseteq ToSet(list)
      /\ ~ skipped /\ m \in ToSet(loaded) => m \in ToSet(list)
      /\ ~ skipped => ~ c.skipped
      /\ error \in BOOLEAN /\ skipped \in BOOLEAN
  <2>0. c.error \in BOOLEAN /\ c.skipped \in BOOLEAN
    BY <1>1, CallFields
  <2> HIDE DEF m
  <2>1. /\ Append(c.list, m) \in Seq(Records) /\ ToSet(c.list) \subseteq ToSet(Append(c.list, m))
        /\ m \in ToSet(Append(c.list, m))
    BY <1>3, <1>4, AppendKeeps
  <2> QED
    BY <1>3, <2>0, <2>1
<1> HIDE DEF list, error, skipped
<1>6. /\ r \in CallStates /\ r.pc = next /\ r.list = list /\ r.index = c.index + 1
      /\ r.count = c.count /\ r.alone = c.alone /\ r.stable = c.stable
      /\ r.pointer = c.pointer /\ r.again = c.again /\ r.skipped = skipped
  <2>1. next \in {"collect", "publish"} /\ c.index + 1 \in Nat
    BY <1>1, <1>3
  <2> HIDE DEF next
  <2> QED
    BY <1>3, <1>5, <2>1 DEF CallStates
<1> HIDE DEF r
<1>7. call'[t] = r /\ call' \in [Threads -> CallStates] /\ \A u \in Threads \ {t} : CallInv(u)'
  BY <1>1, <1>2, <1>6, OneMoves
<1>8. next \in {"collect", "publish"} /\ (next = "collect" => c.index < c.count)
      /\ (next = "publish" => c.index = c.count)
  BY <1>1, <1>3, <1>4
<1> HIDE DEF next
<1>9. Relies(t)'
  BY <1>1, <1>6, <1>7 DEF CallInv, Relies, At
<1>10. Indexed(t)'
  <2>1. next = "collect" => 1 <= c.index + 1 /\ c.index + 1 <= c.count
    BY <1>3, <1>8
  <2> QED
    BY <1>1, <1>6, <1>7, <2>1 DEF CallInv, Indexed, At
\* What the loop has still ahead, but for the module of this turn, it has ahead afterwards.
<1>11. ASSUME c.alone, ~ skipped, NEW n \in c.stable
       PROVE  \/ n \in ToSet(list)
              \/ \E i \in DOMAIN ProcessModules :
                   c.index + 1 <= i /\ i <= c.count /\ ProcessModules[i] = n
  <2>1. CASE n \in ToSet(c.list)
    BY <1>5, <2>1
  <2>2. CASE Ahead(t, n)
    <3>1. PICK i \in DOMAIN ProcessModules : c.index <= i /\ i <= c.count /\ ProcessModules[i] = n
      BY <2>2 DEF Ahead
    <3>2. i \in Nat
      BY <1>1, <3>1, LenProperties DEF TypeInv
    <3>3. n \in ToSet(loaded)
      BY <1>1, <1>11 DEF CallInv, Relies, At
    <3>4. CASE i = c.index
      BY <1>5, <1>11, <3>1, <3>3, <3>4
    <3>5. CASE i # c.index
      <4>1. c.index + 1 <= i
        BY <1>3, <3>1, <3>2, <3>5
      <4> QED
        BY <3>1, <4>1
    <3> QED
      BY <3>4, <3>5
  <2> QED
    BY <1>1, <1>5, <1>11, <2>1, <2>2 DEF CallInv, Collected, Clean, At
<1>12. Collected(t)'
  BY <1>1, <1>6, <1>7, <1>11 DEF Collected, Clean, Ahead, At
<1>13. Listed(t)'
  <2>1. ASSUME next = "publish", c.alone, ~ skipped, NEW n \in c.stable
        PROVE  n \in ToSet(list)
    <3>1. ASSUME NEW i \in DOMAIN ProcessModules
          PROVE  ~ (c.index + 1 <= i /\ i <= c.count)
      <4>1. i \in Nat
        BY <1>1, LenProperties DEF TypeInv
      <4> QED
        BY <1>3, <1>8, <2>1, <4>1
    <3> QED
      BY <1>11, <2>1, <3>1
  <2> QED
    BY <1>6, <1>7, <2>1 DEF Listed, Clean, At
<1>14. Published(t)' /\ Unowned(t)' /\ Found(t)'
  <2>1. ~ c.again /\ c.alone /\ ~ skipped => Owner(c.pointer) \cap c.stable = {}
    BY <1>1, <1>5 DEF CallInv, Unowned, Clean, Missed, At
  <2> QED
    BY <1>6, <1>7, <1>8, <2>1 DEF Published, Unowned, Found, Clean, Missed, At
<1> QED
  BY <1>1, <1>7, <1>9, <1>10, <1>12, <1>13, <1>14 DEF ListInv, TypeInv, CallInv

LEMMA EnumerateStep ==
  ASSUME ListInv, NEW t \in Threads, Enumerate(t)
  PROVE  ListInv'
<1> DEFINE c == call[t]
           mark == c.alone /\ Refreshing = {}
           q(u) == [call[u] EXCEPT !.alone = @ /\ u \notin Refreshing]
<1>0. PICK error \in BOOLEAN :
      call' = [u \in Threads |->
                 IF u = t
                 THEN [call[t] EXCEPT !.pc = "collect", !.index = 1, !.count = Len(loaded),
                                      !.list = <<>>, !.error = error,
                                      !.alone = @ /\ Refreshing = {}]
                 ELSE [call[u] EXCEPT !.alone = @ /\ u \notin Refreshing]]
  BY DEF Enumerate
<1> DEFINE r == [c EXCEPT !.pc = "collect", !.index = 1, !.count = Len(loaded), !.list = <<>>,
                          !.error = error, !.alone = mark]
<1>1. /\ c.pc = "enumerate" /\ CallInv(t) /\ TypeInv
      /\ UNCHANGED <<loaded, changes, LhModuleArray, LhModuleCount>>
      /\ ProcessModules' = Filled
      /\ call' = [u \in Threads |-> IF u = t THEN r ELSE q(u)]
  BY <1>0 DEF Enumerate, At, ListInv, Filled
<1>2. /\ Filled \in Seq(Modules)
      /\ Len(loaded) <= Len(Filled) /\ Len(ProcessModules) <= Len(Filled)
      /\ \A i \in DOMAIN loaded : i \in DOMAIN Filled /\ Filled[i] = loaded[i]
  BY <1>1, FilledHasLoaded
<1>3. /\ Len(loaded) \in Nat /\ DOMAIN loaded = 1..Len(loaded)
      /\ Len(ProcessModules) \in Nat /\ Len(Filled) \in Nat
  BY <1>1, <1>2, LenProperties DEF TypeInv
<1>4. 1 <= Len(loaded)
  <2>1. PICK i \in DOMAIN loaded : loaded[i] = Program
    BY <1>1, InToSet DEF TypeInv
  <2> QED
    BY <1>3, <2>1
<1>5. c \in CallStates /\ c.alone \in BOOLEAN
  BY <1>1, CallFields
<1>6. /\ r \in CallStates /\ r.pc = "collect" /\ r.index = 1 /\ r.count = Len(loaded)
      /\ r.stable = c.stable /\ r.pointer = c.pointer /\ r.again = c.again
      /\ r.alone => c.alone
      /\ r.skipped = c.skipped
  <2>1. mark \in BOOLEAN /\ (mark => c.alone)
    OBVIOUS
  <2>2. << >> \in Seq(Records)
    OBVIOUS
  <2> HIDE DEF mark
  <2> QED
    BY <1>3, <1>5, <2>1, <2>2 DEF CallStates
<1> HIDE DEF r
<1>7. call'[t] = r
  BY <1>1
<1>8. ASSUME NEW u \in Threads \ {t}
      PROVE  q(u) \in CallStates /\ CallInv(u)'
  <2>1. call'[u] = q(u) /\ CallInv(u)
    BY <1>1 DEF ListInv
  <2>2. call[u] \in CallStates /\ call[u].alone \in BOOLEAN /\ call[u].count \in Nat
    BY <1>1, CallFields
  <2>3. /\ q(u) \in CallStates /\ q(u).stable = call[u].stable
        /\ q(u).alone => call[u].alone /\ u \notin Refreshing
    BY <2>2 DEF CallStates
  <2>4. Keeps(u)
    BY <2>1, <2>2 DEF CallStates, Keeps
  <2> HIDE DEF q
  <2>5. ~ At(u, "collect") \/ ~ call'[u].alone
    BY <2>1, <2>3 DEF At, Refreshing
  <2>6. ~ At(u, "idle") => call'[u].stable \subseteq ToSet(loaded')
    BY <1>1, <2>1, <2>3 DEF CallInv, Relies
  <2>7. Len(ProcessModules) <= Len(ProcessModules') /\ Len(ProcessModules') \in Nat
        /\ (call'[u].alone => call[u].alone) /\ call'[u].stable \subseteq call[u].stable
    BY <1>1, <1>2, <1>3, <2>1, <2>3
  <2>8. CallInv(u)'
    BY <1>1, <1>3, <2>1, <2>2, <2>4, <2>5, <2>6, <2>7, Bystander
  <2> QED
    BY <2>3, <2>8
<1>9. TypeInv'
  <2>1. call' \in [Threads -> CallStates]
    BY <1>1, <1>6, <1>8
  <2> QED
    BY <1>1, <1>2, <2>1 DEF TypeInv
<1>10. Relies(t)' /\ Indexed(t)'
  BY <1>1, <1>2, <1>3, <1>4, <1>6, <1>7 DEF CallInv, Relies, Indexed, At
<1>11. Collected(t)'
  <2>1. ASSUME NEW m \in c.stable
        PROVE  \E i \in DOMAIN Filled : 1 <= i /\ i <= Len(loaded) /\ Filled[i] = m
    <3>1. m \in ToSet(loaded)
      BY <1>1 DEF CallInv, Relies, At
    <3>2. PICK i \in DOMAIN loaded : loaded[i] = m
      BY <3>1, InToSet
    <3>3. i \in DOMAIN Filled /\ Filled[i] = m /\ 1 <= i /\ i <= Len(loaded)
      BY <1>2, <1>3, <3>2
    <3> QED
      BY <3>3
  <2> QED
    BY <1>1, <1>6, <1>7, <2>1 DEF Collected, Ahead, At
<1>12. Listed(t)' /\ Published(t)' /\ Found(t)'
  BY <1>6, <1>7 DEF Listed, Published, Found, At
<1>13. Unowned(t)'
  BY <1>1, <1>6, <1>7 DEF CallInv, Unowned, Clean, Missed, At
<1> QED
  BY <1>8, <1>9, <1>10, <1>11, <1>12, <1>13 DEF ListInv, CallInv

LEMMA PublishStep ==
  ASSUME ListInv, NEW t \in Threads, Publish(t)
  PROVE  ListInv'
<1> DEFINE c == call[t]
           array == IF Len(c.list) < c.count THEN Append(c.list, Blank) ELSE c.list
           r == IF c.again THEN [c EXCEPT !.pc = "lookup", !.again = FALSE]
                ELSE Returned(c, "not found", Blank)
           q(u) == [call[u] EXCEPT !.alone = @ /\ call[u].pc = "idle"]
<1>1. /\ c.pc = "publish" /\ CallInv(t) /\ TypeInv
      /\ UNCHANGED <<loaded, changes, ProcessModules>>
      /\ LhModuleArray' = array /\ LhModuleCount' = Len(c.list)
      /\ call' = [u \in Threads |-> IF u = t THEN r ELSE q(u)]
  <2>1. call' = [u \in Threads |-> IF u # t THEN q(u) ELSE r]
    BY DEF Publish
  <2>2. [u \in Threads |-> IF u # t THEN q(u) ELSE r] = [u \in Threads |-> IF u = t THEN r ELSE q(u)]
    BY Zenon
  <2> QED
    BY <2>1, <2>2 DEF Publish, At, ListInv
<1>2. c \in CallStates /\ c.alone \in BOOLEAN /\ c.again \in BOOLEAN /\ c.list \in Seq(Records)
  BY <1>1, CallFields
<1>3. array \in Seq(Records) /\ ToSet(c.list) \subseteq ToSet(array)
  <2>1. Blank \in Records
    BY DEF Records
  <2>2. Append(c.list, Blank) \in Seq(Records) /\ ToSet(c.list) \subseteq ToSet(Append(c.list, Blank))
    BY <1>2, <2>1, AppendKeeps
  <2> QED
    BY <1>2, <2>2
<1> HIDE DEF array
<1>4. /\ r \in CallStates /\ r.stable = c.stable /\ r.pointer = c.pointer /\ r.alone = c.alone
      /\ c.again => r.pc = "lookup" /\ ~ r.again
      /\ ~ c.again => r.pc = "idle" /\ r.status = "not found"
      /\ r.skipped = c.skipped
  <2>1. Back(Returned(c, "not found", Blank), c, "not found", Blank)
    BY <1>2, BlankReturned
  <2> QED
    BY <1>2, <2>1 DEF CallStates, Back
<1> HIDE DEF r
<1>5. call'[t] = r
  BY <1>1
<1>6. ASSUME NEW u \in Threads \ {t}
      PROVE  q(u) \in CallStates /\ CallInv(u)'
  <2>1. call'[u] = q(u) /\ CallInv(u)
    BY <1>1 DEF ListInv
  <2>2. call[u] \in CallStates /\ call[u].alone \in BOOLEAN /\ call[u].count \in Nat
    BY <1>1, CallFields
  <2>3. /\ q(u) \in CallStates /\ q(u).stable = call[u].stable
        /\ q(u).alone => call[u].alone /\ call[u].pc = "idle"
    BY <2>2 DEF CallStates
  <2>4. Keeps(u)
    BY <2>1, <2>2 DEF CallStates, Keeps
  <2> HIDE DEF q
  <2>5. ~ At(u, "lookup") \/ ~ call'[u].alone
    BY <2>1, <2>3 DEF At
  <2>6. ~ At(u, "idle") => call'[u].stable \subseteq ToSet(loaded')
    BY <1>1, <2>1, <2>3 DEF CallInv, Relies
  <2>7. Len(ProcessModules) \in Nat
    BY <1>1, LenProperties DEF TypeInv
  <2>8. (call'[u].alone => call[u].alone) /\ call'[u].stable \subseteq call[u].stable
        /\ ProcessModules' = ProcessModules
    BY <1>1, <2>1, <2>3
  <2>9. CallInv(u)'
    BY <2>1, <2>2, <2>4, <2>5, <2>6, <2>7, <2>8, Bystander
  <2> QED
    BY <2>3, <2>9
<1>7. TypeInv'
  <2>1. call' \in [Threads -> CallStates]
    BY <1>1, <1>4, <1>6
  <2>2. Len(c.list) \in Nat
    BY <1>2, LenProperties
  <2> QED
    BY <1>1, <1>3, <2>1, <2>2 DEF TypeInv
<1>8. Relies(t)'
  BY <1>1, <1>4, <1>5 DEF CallInv, Relies, At
<1>9. Indexed(t)' /\ Collected(t)' /\ Listed(t)'
  BY <1>2, <1>4, <1>5 DEF Indexed, Collected, Listed, At
<1>10. Published(t)'
  BY <1>1, <1>3, <1>4, <1>5 DEF CallInv, Listed, Published, Clean, At
<1>11. Unowned(t)' /\ Found(t)'
  BY <1>1, <1>2, <1>4, <1>5 DEF CallInv, Unowned, Found, Clean, Missed, At
<1> QED
  BY <1>6, <1>7, <1>8, <1>9, <1>10, <1>11 DEF ListInv, CallInv

----------------------------------------------------------------------------
(* The specification. *)

LEMMA ListInit == Init => ListInv
<1> SUFFICES ASSUME Init PROVE ListInv
  OBVIOUS
<1>1. PICK s \in SUBSET Modules : Program \in s /\ loaded = SetToSeq(s)
  BY DEF Init
<1>2. IsFiniteSet(s)
  <2>1. ModuleLimit \in Int
    BY SizesArePositive
  <2>2. IsFiniteSet(Modules)
    BY <2>1, FS_Interval DEF Modules
  <2> QED
    BY <2>2, FS_Subset
<1>3. loaded \in Seq(s) /\ ToSet(loaded) = s
  BY <1>1, <1>2, SetToSeqKeeps
<1>4. loaded \in Seq(Modules)
  <2>1. /\ Len(loaded) \in Nat /\ DOMAIN loaded = 1..Len(loaded)
        /\ \A i \in 1..Len(loaded) : loaded[i] \in Modules
    BY <1>3, LenProperties, ElementOfSeq
  <2>2. loaded = [i \in 1..Len(loaded) |-> loaded[i]]
    BY <1>3, <2>1
  <2> QED
    BY <2>1, <2>2, IsASeq
<1>5. IdleCall \in CallStates
  <2>1. 0 \in Addresses /\ << >> \in Seq(Records) /\ Blank \in Records
    BY NullIsAnAddress DEF Records
  <2> QED
    BY <2>1 DEF IdleCall, CallStates
<1>6. TypeInv
  BY <1>1, <1>3, <1>4, <1>5 DEF Init, TypeInv
<1>7. ASSUME NEW t \in Threads
      PROVE  CallInv(t)
  <2>1. call[t].pc = "idle" /\ call[t].status = "none"
    BY DEF Init, IdleCall
  <2> QED
    BY <2>1 DEF CallInv, Relies, Indexed, Collected, Listed, Published, Unowned, Found, Missed, At
<1> QED
  BY <1>6, <1>7 DEF ListInv

LEMMA ListStep == ListInv /\ [Next]_vars => ListInv'
<1> SUFFICES ASSUME ListInv, [Next]_vars PROVE ListInv'
  OBVIOUS
<1>1. ASSUME NEW t \in Threads, NEW p \in Pointers, LhBarrierPointerToModule(t, p)
      PROVE  ListInv'
  BY <1>1, BeginStep, PointersAreAddresses
<1>2. ASSUME NEW t \in Threads, NEW max \in 0..ModuleLimit, LhEnumModules(t, max)
      PROVE  ListInv'
  BY <1>2, EnumModulesStep
<1>3. ASSUME NEW t \in Threads, Lookup(t)
      PROVE  ListInv'
  BY <1>3, LookupStep
<1>4. ASSUME NEW t \in Threads, Enumerate(t)
      PROVE  ListInv'
  BY <1>4, EnumerateStep
<1>5. ASSUME NEW t \in Threads, Collect(t)
      PROVE  ListInv'
  BY <1>5, CollectStep
<1>6. ASSUME NEW t \in Threads, Publish(t)
      PROVE  ListInv'
  BY <1>6, PublishStep
<1>7. ASSUME NEW t \in Threads, RefreshFails(t)
      PROVE  ListInv'
  BY <1>7, RefreshFailsStep
<1>8. ASSUME NEW m \in Modules, LoadModule(m) \/ UnloadModule(m)
      PROVE  ListInv'
  BY <1>8, LoadModuleStep, UnloadModuleStep
<1>9. CASE UNCHANGED vars
  <2>1. UNCHANGED <<loaded, changes, ProcessModules, LhModuleArray, LhModuleCount, call>>
    BY <1>9 DEF vars
  <2>2. \A t \in Threads : CallInv(t)'
    BY <2>1, Untouched DEF ListInv
  <2>3. TypeInv'
    BY <2>1 DEF ListInv, TypeInv
  <2> QED
    BY <2>2, <2>3 DEF ListInv
<1> QED
  BY <1>1, <1>2, <1>3, <1>4, <1>5, <1>6, <1>7, <1>8, <1>9 DEF Next, Step

LEMMA ListInvAlways == Spec => []ListInv
BY ListInit, ListStep, PTL DEF Spec

\* Every variable keeps its type; the executable is always among the loaded modules.
THEOREM TypeCorrect == Spec => []TypeInv
<1>1. ListInv => TypeInv
  BY DEF ListInv
<1> QED
  BY <1>1, ListInvAlways, PTL

\* LhBarrierPointerToModule and LhBarrierGetCallingModule find a module that is loaded for the
\* whole call, whatever other modules come and go, if nobody else refreshes meanwhile and no old
\* error makes the refresh skip one; only for its first address may the neighbour be found.
THEOREM AloneFindsModuleAlways == Spec => []AloneFindsModule
<1>1. ListInv => AloneFindsModule
  <2> SUFFICES ASSUME ListInv, NEW t \in Threads, NEW m \in Modules, Answers(t, m)
               PROVE  /\ call[t].status = "not found" => call[t].skipped
                      /\ call[t].status = "success" =>
                           call[t].result = m \/ call[t].pointer = Base(m)
    BY DEF AloneFindsModule
  <2>1. /\ call[t].pointer \in Addresses /\ call[t].result \in Records
        /\ call[t].skipped \in BOOLEAN /\ call[t].alone \in BOOLEAN
    BY CallFields DEF ListInv
  <2>2. CallInv(t) /\ At(t, "idle") /\ call[t].alone
        /\ m \in Owner(call[t].pointer) /\ m \in call[t].stable
    BY DEF ListInv, Answers
  <2>3. call[t].status = "not found" => call[t].skipped
    BY <2>1, <2>2 DEF CallInv, Unowned, Missed, Clean
  <2>4. call[t].status = "success" => call[t].result = m \/ call[t].pointer = Base(m)
    BY <2>1, <2>2, RangesMeet DEF CallInv, Found
  <2> QED
    BY <2>3, <2>4
<1> QED
  BY <1>1, ListInvAlways, PTL

=============================================================================
