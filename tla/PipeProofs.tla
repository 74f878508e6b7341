----------------------------- MODULE PipeProofs -----------------------------
(***************************************************************************)
(* The invariants of PipeStore and of Pipe, for every set of packages and  *)
(* of workers, every choice of kinds, counts, retries and priorities.      *)
(*                                                                         *)
(* The lemmas of the first part are about the store's own steps            *)
(* (AddSweeping, RemovePack), so that they serve the store with arbitrary  *)
(* callers and the Pipe alike.                                             *)
(***************************************************************************)
EXTENDS Pipe, FiniteSetTheorems, TLAPS

------------------------------------------------------------------------------
(* The store *)

StoreTypeOK ==
    /\ pq \subseteq Packages
    /\ kinds \in [Kinds -> SUBSET Packages]
    /\ ahead \in [Packages -> SUBSET Packages]

\* What every method of the store preserves.
StoreInv == StoreTypeOK /\ StoreAgrees /\ SliceOrdered /\ CountBound

------------------------------------------------------------------------------
\* The slices of the store are finite, and so is every part of them.
LEMMA PackagesFinite ==
    ASSUME NEW S \in SUBSET Packages
    PROVE  IsFiniteSet(S) /\ Cardinality(S) \in Nat
BY PackagesAssumption, FS_Subset, FS_CardinalityType

\* A package the sweep of Add leaves in the slice is within its ExpiryCount
\* when the sweep ends: the slice got shorter after the loop had passed it.
LEMMA SweepBound ==
    ASSUME NEW K \in SUBSET Packages, NEW order \in [Packages -> SUBSET Packages],
           NEW R, SweepRemoves(K, order, R),
           NEW q \in K \ R, ExpiryCount[q] > 0
    PROVE  Cardinality(K \ R) <= ExpiryCount[q]
<1>1. R \subseteq K BY DEF SweepRemoves
<1>2. IsFiniteSet(K) /\ IsFiniteSet(R) /\ Cardinality(K) \in Nat /\ Cardinality(R) \in Nat
    BY <1>1, PackagesFinite
<1>3. K \cap R = R BY <1>1
<1>4. Cardinality(K \ R) = Cardinality(K) - Cardinality(R)
    BY <1>2, <1>3, FS_Difference
<1>5. order[q] \cap R \in SUBSET R
    OBVIOUS
<1>6. /\ Cardinality(order[q] \cap R) <= Cardinality(R)
      /\ Cardinality(order[q] \cap R) \in Nat
    BY <1>2, <1>5, FS_Subset, FS_CardinalityType
<1>7. ~ShouldExpire(q, Cardinality(K) - Cardinality(order[q] \cap R))
    BY DEF SweepRemoves
<1>8. ExpiryCount[q] \in Nat BY PackageFieldsAssumption
<1>9. ExpiryCount[q] >= Cardinality(K) - Cardinality(order[q] \cap R)
    BY <1>2, <1>6, <1>7, <1>8 DEF ShouldExpire
<1> QED BY <1>2, <1>4, <1>6, <1>8, <1>9

\* Add: push, append and sweep preserve the invariant of the store.
LEMMA AddKeepsStore ==
    ASSUME StoreInv, NEW p \in Packages, p \notin pq, NEW R, AddSweeping(p, R)
    PROVE  StoreInv' /\ R \subseteq pq \cup {p} /\ pq' = (pq \cup {p}) \ R
<1> DEFINE k == KindOf[p]
           K == kinds[k] \cup {p}
<1>k. k \in Kinds BY PackageFieldsAssumption
<1>1. /\ SweepRemoves(K, Appended(p), R)
      /\ pq' = (pq \cup {p}) \ R
      /\ kinds' = [kinds EXCEPT ![k] = K \ R]
      /\ ahead' = Without(Appended(p), R)
    BY DEF AddSweeping
<1>2. R \subseteq K BY <1>1 DEF SweepRemoves
<1>3. K \in SUBSET Packages BY <1>k DEF StoreInv, StoreTypeOK
<1>4. kinds[k] = {q \in pq : KindOf[q] = k} BY <1>k DEF StoreInv, StoreAgrees
<1>5. Appended(p) \in [Packages -> SUBSET Packages]
    BY <1>3 DEF Appended, StoreInv, StoreTypeOK
<1>6. \A q \in Packages : Appended(p)[q] = IF q = p THEN kinds[k] ELSE ahead[q]
    BY DEF Appended, StoreInv, StoreTypeOK
<1>7. \A q \in Packages : ahead'[q] = IF q \in R THEN {} ELSE Appended(p)[q] \ R
    BY <1>1 DEF Without
<1>8. StoreTypeOK'
  <2>1. pq' \subseteq Packages BY <1>1 DEF StoreInv, StoreTypeOK
  <2>2. kinds' \in [Kinds -> SUBSET Packages] BY <1>1, <1>3 DEF StoreInv, StoreTypeOK
  <2>3. ahead' \in [Packages -> SUBSET Packages] BY <1>1, <1>5 DEF Without
  <2> QED BY <2>1, <2>2, <2>3 DEF StoreTypeOK
<1>9. StoreAgrees'
  <2> SUFFICES ASSUME NEW j \in Kinds PROVE kinds'[j] = {q \in pq' : KindOf[q] = j}
    BY DEF StoreAgrees
  <2>1. kinds[j] = {q \in pq : KindOf[q] = j} BY DEF StoreInv, StoreAgrees
  <2>2. CASE j = k BY <2>2, <1>k, <1>1, <1>4 DEF StoreInv, StoreTypeOK
  <2>3. CASE j # k
    <3>1. kinds'[j] = kinds[j] BY <2>3, <1>1 DEF StoreInv, StoreTypeOK
    <3> QED BY <3>1, <2>1, <2>3, <1>1, <1>2, <1>4
  <2> QED BY <2>2, <2>3
<1>10. SliceOrdered'
  <2> DEFINE app == Appended(p)
  <2>1. /\ \A q \in Packages : ahead[q] \subseteq pq
        /\ \A q \in Packages \ pq : ahead[q] = {}
        /\ \A q \in pq : \A r \in ahead[q] :
             KindOf[r] = KindOf[q] /\ ahead[r] \subseteq ahead[q] /\ r \notin ahead[r]
        /\ \A q, r \in pq : KindOf[q] = KindOf[r] => q = r \/ q \in ahead[r] \/ r \in ahead[q]
    BY DEF StoreInv, SliceOrdered
  <2>2. pq \subseteq Packages BY DEF StoreInv, StoreTypeOK
  <2>a. kinds[k] \subseteq pq BY <1>4
  <2>3. ASSUME NEW q \in Packages, NEW r \in ahead'[q]
        PROVE  r \in pq /\ r \notin R /\ q \notin R
    <3>1. q \notin R /\ r \in app[q] \ R BY <2>3, <1>7
    <3>2. CASE q = p BY <3>1, <3>2, <2>a, <1>6
    <3>3. CASE q # p BY <3>1, <3>3, <2>1, <1>6
    <3> QED BY <3>1, <3>2, <3>3
  <2>4. \A q \in Packages \ pq' : ahead'[q] = {}
    BY <2>1, <1>1, <1>6, <1>7
  <2>5. ASSUME NEW q \in pq', NEW r \in ahead'[q]
        PROVE  KindOf[r] = KindOf[q] /\ ahead'[r] \subseteq ahead'[q] /\ r \notin ahead'[r]
    <3>1. q \in Packages /\ q \notin R BY <1>1, <2>2
    <3>2. r \in pq /\ r \notin R /\ r # p /\ r \in Packages
        BY <3>1, <2>2, <2>3
    <3>3. ahead'[r] = ahead[r] \ R BY <3>2, <1>6, <1>7
    <3>4. ahead[r] \subseteq pq /\ r \notin ahead[r]
      <4>1. \A x \in ahead[r] : KindOf[x] = KindOf[r] BY <3>2, <2>1
      <4>2. CASE q = p
        <5>1. r \in kinds[k] BY <4>2, <3>1, <1>6, <1>7
        <5>2. ASSUME r \in ahead[r] PROVE FALSE BY <5>2, <3>2, <2>1
        <5> QED BY <5>2, <3>2, <2>1
      <4>3. CASE q # p BY <4>3, <3>1, <3>2, <2>1, <1>6, <1>7, <1>1
      <4> QED BY <4>2, <4>3
    <3>5. CASE q = p
      <4>1. ahead'[q] = kinds[k] \ R BY <3>5, <3>1, <1>6, <1>7
      <4>2. KindOf[r] = k BY <4>1, <1>4
      <4>3. ahead[r] \subseteq kinds[k]
        BY <4>2, <3>2, <3>4, <2>1, <1>4
      <4> QED BY <3>5, <3>3, <3>4, <4>1, <4>2, <4>3
    <3>6. CASE q # p
      <4>1. ahead'[q] = ahead[q] \ R /\ q \in pq BY <3>6, <3>1, <1>1, <1>6, <1>7
      <4> QED BY <4>1, <3>3, <3>4, <2>1
    <3> QED BY <3>5, <3>6
  <2>6. ASSUME NEW q \in pq', NEW r \in pq', KindOf[q] = KindOf[r]
        PROVE  q = r \/ q \in ahead'[r] \/ r \in ahead'[q]
    <3>1. q \in Packages /\ r \in Packages /\ q \notin R /\ r \notin R BY <1>1, <2>2
    <3>2. ahead'[q] = app[q] \ R /\ ahead'[r] = app[r] \ R BY <3>1, <1>7
    <3>3. CASE q = p \/ r = p BY <3>1, <3>2, <3>3, <2>6, <1>1, <1>4, <1>6
    <3>4. CASE q # p /\ r # p BY <3>1, <3>2, <3>4, <2>6, <2>1, <1>1, <1>6
    <3> QED BY <3>3, <3>4
  <2>7. \A q \in Packages : ahead'[q] \subseteq pq' BY <2>3, <1>1
  <2> QED BY <2>4, <2>5, <2>6, <2>7 DEF SliceOrdered
<1>11. CountBound'
  <2> SUFFICES ASSUME NEW q \in pq', ExpiryCount[q] > 0
               PROVE  Cardinality(kinds'[KindOf[q]]) <= ExpiryCount[q]
    BY DEF CountBound
  <2>1. q \in Packages /\ KindOf[q] \in Kinds
    BY <1>8, PackageFieldsAssumption DEF StoreTypeOK
  <2>2. CASE KindOf[q] = k
    <3>1. q \in K \ R BY <2>2, <1>1, <1>4
    <3>2. kinds'[k] = K \ R BY <1>1, <1>k DEF StoreInv, StoreTypeOK
    <3> HIDE DEF K
    <3> QED BY <2>2, <3>1, <3>2, <1>1, <1>3, <1>5, SweepBound
  <2>3. CASE KindOf[q] # k
    <3>1. kinds'[KindOf[q]] = kinds[KindOf[q]]
        BY <2>1, <2>3, <1>1 DEF StoreInv, StoreTypeOK
    <3>2. q \in pq BY <2>3, <1>1
    <3> QED BY <3>1, <3>2 DEF StoreInv, CountBound
  <2> QED BY <2>2, <2>3
<1> QED BY <1>1, <1>2, <1>4, <1>8, <1>9, <1>10, <1>11 DEF StoreInv

\* Pop, Ack and the removal of an expired package by peek preserve it too.
LEMMA RemoveKeepsStore ==
    ASSUME StoreInv, NEW p \in pq, RemovePack(p)
    PROVE  StoreInv' /\ pq' = pq \ {p}
<1> DEFINE k == KindOf[p]
<1>0. p \in Packages /\ k \in Kinds BY PackageFieldsAssumption DEF StoreInv, StoreTypeOK
<1>1. /\ pq' = pq \ {p}
      /\ kinds' = [kinds EXCEPT ![k] = kinds[k] \ {p}]
      /\ ahead' = Without(ahead, {p})
    BY DEF RemovePack
<1>2. \A q \in Packages : ahead'[q] = IF q = p THEN {} ELSE ahead[q] \ {p}
    BY <1>1 DEF Without
<1>3. StoreTypeOK'
    BY <1>0, <1>1 DEF StoreInv, StoreTypeOK, Without
<1>4. StoreAgrees'
    BY <1>0, <1>1 DEF StoreInv, StoreTypeOK, StoreAgrees
<1>5. SliceOrdered'
  <2>0. /\ pq \subseteq Packages
        /\ \A q \in Packages : ahead[q] \subseteq pq
        /\ \A q \in Packages \ pq : ahead[q] = {}
        /\ \A q \in pq : \A r \in ahead[q] :
             KindOf[r] = KindOf[q] /\ ahead[r] \subseteq ahead[q] /\ r \notin ahead[r]
        /\ \A q, r \in pq : KindOf[q] = KindOf[r] => q = r \/ q \in ahead[r] \/ r \in ahead[q]
    BY DEF StoreInv, StoreTypeOK, SliceOrdered
  <2>1. ASSUME NEW q \in Packages
        PROVE  ahead'[q] \subseteq pq' /\ (q \notin pq' => ahead'[q] = {})
    <3>1. CASE q = p
        BY <3>1, <1>2
    <3>2. CASE q # p
      <4>1. ahead'[q] = ahead[q] \ {p} BY <3>2, <1>2
      <4>2. ahead[q] \subseteq pq /\ (q \notin pq => ahead[q] = {}) BY <2>0
      <4>3. ahead'[q] \subseteq pq' BY <4>1, <4>2, <1>1
      <4>4. ASSUME q \notin pq' PROVE ahead'[q] = {}
        BY <4>1, <4>2, <4>4, <3>2, <1>1
      <4> QED BY <4>3, <4>4
    <3> QED BY <3>1, <3>2
  <2>2. ASSUME NEW q \in pq', NEW r \in ahead'[q]
        PROVE  KindOf[r] = KindOf[q] /\ ahead'[r] \subseteq ahead'[q] /\ r \notin ahead'[r]
    <3>1. q \in pq /\ q # p /\ q \in Packages BY <1>1, <2>0
    <3>2. r \in ahead[q] /\ r # p BY <3>1, <1>2
    <3>3. r \in Packages BY <3>1, <3>2, <2>0
    <3>4. ahead'[r] = ahead[r] \ {p} /\ ahead'[q] = ahead[q] \ {p}
        BY <3>1, <3>2, <3>3, <1>2
    <3> QED BY <3>1, <3>2, <3>4, <2>0
  <2>3. ASSUME NEW q \in pq', NEW r \in pq', KindOf[q] = KindOf[r]
        PROVE  q = r \/ q \in ahead'[r] \/ r \in ahead'[q]
    <3>1. q \in pq /\ r \in pq /\ q # p /\ r # p /\ q \in Packages /\ r \in Packages
        BY <1>1, <2>0
    <3>2. ahead'[r] = ahead[r] \ {p} /\ ahead'[q] = ahead[q] \ {p} BY <3>1, <1>2
    <3> QED BY <3>1, <3>2, <2>3, <2>0
  <2> QED BY <2>1, <2>2, <2>3 DEF SliceOrdered
<1>6. CountBound'
  <2> SUFFICES ASSUME NEW q \in pq', ExpiryCount[q] > 0
               PROVE  Cardinality(kinds'[KindOf[q]]) <= ExpiryCount[q]
    BY DEF CountBound
  <2>1. q \in pq /\ q \in Packages /\ KindOf[q] \in Kinds
    BY <1>1, PackageFieldsAssumption DEF StoreInv, StoreTypeOK
  <2>2. kinds[KindOf[q]] \in SUBSET Packages /\ kinds'[KindOf[q]] \in SUBSET kinds[KindOf[q]]
    BY <2>1, <1>0, <1>1 DEF StoreInv, StoreTypeOK
  <2>3. /\ IsFiniteSet(kinds[KindOf[q]])
        /\ Cardinality(kinds[KindOf[q]]) \in Nat
        /\ Cardinality(kinds'[KindOf[q]]) \in Nat
    BY <2>2, PackagesFinite
  <2>4. Cardinality(kinds'[KindOf[q]]) <= Cardinality(kinds[KindOf[q]])
    BY <2>2, <2>3, FS_Subset
  <2>5. Cardinality(kinds[KindOf[q]]) <= ExpiryCount[q]
    BY <2>1 DEF StoreInv, CountBound
  <2>6. ExpiryCount[q] \in Nat BY <2>1, PackageFieldsAssumption
  <2> QED BY <2>3, <2>4, <2>5, <2>6
<1> QED BY <1>1, <1>3, <1>4, <1>5, <1>6 DEF StoreInv

------------------------------------------------------------------------------
\* The fields of the packages.
PackTypeOK ==
    /\ removed \in Nat
    /\ prio \in [Packages -> Nat]
    /\ retries \in [Packages -> Nat]
    /\ time \in [Packages -> Nat]
    /\ expired \subseteq Perishable

\* Now is a number: stamping a package keeps its type.
LEMMA NowType == Now \in Nat
<1>1. {p \in Packages : time[p] # 0} \in SUBSET Packages OBVIOUS
<1>2. Cardinality({p \in Packages : time[p] # 0}) \in Nat BY <1>1, PackagesFinite
<1> QED BY <1>2 DEF Now

\* Each part of a store step keeps the types of what it assigns.
LEMMA FieldTypes ==
    ASSUME PackTypeOK, NEW p \in Packages
    PROVE  /\ AddStamp(p) => time' \in [Packages -> Nat]
           /\ CountExpired(p) => removed' \in Nat
           /\ CountAttempt(p) => /\ prio' \in [Packages -> Nat]
                                 /\ retries' \in [Packages -> Nat]
BY NowType DEF PackTypeOK, AddStamp, CountExpired, CountAttempt

\* The invariant that is inductive for the store with arbitrary callers.
PSInv == StoreInv /\ PackTypeOK

\* NewDefaultPipeStore establishes the invariant.
LEMMA PSInitInv == PSInit => PSInv
<1> SUFFICES ASSUME PSInit PROVE PSInv OBVIOUS
<1>1. StoreTypeOK /\ PackTypeOK
    BY PackageFieldsAssumption DEF PSInit, StoreTypeOK, PackTypeOK
<1>2. StoreAgrees /\ SliceOrdered /\ CountBound
    BY DEF PSInit, StoreAgrees, SliceOrdered, CountBound
<1> QED BY <1>1, <1>2 DEF PSInv, StoreInv

\* A step that leaves the store's fields alone preserves its part of it.
LEMMA StoreUnchanged ==
    ASSUME StoreInv, UNCHANGED <<pq, kinds, ahead>>
    PROVE  StoreInv'
BY DEF StoreInv, StoreTypeOK, StoreAgrees, SliceOrdered, CountBound

\* Every call of the store preserves the invariant.
LEMMA PSNextInv == PSInv /\ [PSNext]_psVars => PSInv'
<1> SUFFICES ASSUME PSInv, [PSNext]_psVars PROVE PSInv' OBVIOUS
<1>0. StoreInv /\ PackTypeOK BY DEF PSInv
<1>1. ASSUME NEW p \in Packages, Add(p) PROVE PSInv'
  <2>1. PICK R \in SUBSET (kinds[KindOf[p]] \cup {p}) : AddSweeping(p, R)
    BY <1>1 DEF Add
  <2>2. StoreInv' BY <2>1, <1>0, <1>1, AddKeepsStore DEF Add
  <2>3. PackTypeOK'
    <3>1. time' \in [Packages -> Nat] BY <1>0, <1>1, FieldTypes DEF Add
    <3> QED BY <3>1, <2>1, <1>0, <1>1 DEF Add, AddSweeping, PackTypeOK
  <2> QED BY <2>2, <2>3 DEF PSInv
<1>2. ASSUME NEW p \in Packages, Pop(p) PROVE PSInv'
  <2>1. p \in pq /\ RemovePack(p) /\ CountExpired(p) /\ CountAttempt(p)
        /\ UNCHANGED <<time, expired>>
    BY <1>2 DEF Pop, PopPack, IsFirst
  <2>2. StoreInv' BY <2>1, <1>0, RemoveKeepsStore
  <2>3. PackTypeOK' BY <2>1, <1>0, FieldTypes DEF PackTypeOK
  <2> QED BY <2>2, <2>3 DEF PSInv
<1>3. ASSUME NEW p \in Packages, Peek(p) PROVE PSInv'
  <2>1. p \in pq /\ CountExpired(p) /\ CountAttempt(p) /\ UNCHANGED <<time, expired>>
    BY <1>3 DEF Peek, PeekPack, IsFirst
  <2>2. RemovePack(p) \/ UNCHANGED <<pq, kinds, ahead>> BY <1>3 DEF Peek, PeekPack
  <2>3. StoreInv' BY <2>1, <2>2, <1>0, RemoveKeepsStore, StoreUnchanged
  <2>4. PackTypeOK' BY <2>1, <1>0, FieldTypes DEF PackTypeOK
  <2> QED BY <2>3, <2>4 DEF PSInv
<1>4. ASSUME NEW p \in Packages, Ack(p) PROVE PSInv'
  <2>1. StoreInv' BY <1>0, <1>4, RemoveKeepsStore DEF Ack
  <2>2. PackTypeOK' BY <1>0, <1>4 DEF Ack, PackTypeOK
  <2> QED BY <2>1, <2>2 DEF PSInv
<1>5. ASSUME NEW p \in Packages, Expire(p) PROVE PSInv'
  <2>1. StoreInv' BY <1>0, <1>5, StoreUnchanged DEF Expire, storeVars
  <2>2. PackTypeOK' BY <1>0, <1>5 DEF Expire, PackTypeOK, storeVars, packVars
  <2> QED BY <2>1, <2>2 DEF PSInv
<1>6. CASE UNCHANGED psVars
  <2>1. StoreInv' BY <1>0, <1>6, StoreUnchanged DEF psVars
  <2>2. PackTypeOK' BY <1>0, <1>6 DEF psVars, PackTypeOK
  <2> QED BY <2>1, <2>2 DEF PSInv
<1> QED BY <1>1, <1>2, <1>3, <1>4, <1>5, <1>6 DEF PSNext

\* The inductive invariant holds in every state of the store.
THEOREM PSInvariant == PSSpec => []PSInv
BY PSInitInv, PSNextInv, PTL DEF PSSpec

\* Type correctness of the store.
THEOREM PSTypeCorrect == PSSpec => []PSTypeOK
<1>1. PSInv => PSTypeOK BY DEF PSInv, StoreInv, StoreTypeOK, PackTypeOK, PSTypeOK
<1> QED BY <1>1, PSInvariant, PTL

\* Heap and slices hold the same packages in every reachable state, whichever
\* of remove and removeKind took a package out.
THEOREM StoreAlwaysAgrees == PSSpec => []StoreAgrees
<1>1. PSInv => StoreAgrees BY DEF PSInv, StoreInv
<1> QED BY <1>1, PSInvariant, PTL

\* No queued package ever shares the store with more than ExpiryCount packages
\* of its kind, for every mix of counts within a kind.
THEOREM CountAlwaysBounded == PSSpec => []CountBound
<1>1. PSInv => CountBound BY DEF PSInv, StoreInv
<1> QED BY <1>1, PSInvariant, PTL

\* The count limit works from the front of the slice, for every Add.  A package
\* ahead of the dropped one has no more removed packages ahead of it, so it
\* would have been dropped as well.
THEOREM DropsAlwaysFromFront == PSSpec => DropsFromFront
<1>1. PSInv /\ [PSNext]_psVars => DropsFromFrontStep
  <2> SUFFICES ASSUME PSInv, NEW r \in Packages, Add(r),
                      NEW q \in (pq \cup {r}) \ (pq' \cup expired),
                      NEW p \in Appended(r)[q],
                      p \in pq', 0 < ExpiryCount[p], ExpiryCount[p] <= ExpiryCount[q]
               PROVE  FALSE
    BY DEF DropsFromFrontStep
  <2> DEFINE k == KindOf[r]
             K == kinds[k] \cup {r}
             A == Appended(r)
  <2>1. PICK R \in SUBSET K : AddSweeping(r, R) BY DEF Add
  <2>2. SweepRemoves(K, A, R) /\ pq' = (pq \cup {r}) \ R BY <2>1 DEF AddSweeping
  <2>3. k \in Kinds /\ pq \subseteq Packages /\ r \notin pq
    BY PackageFieldsAssumption DEF PSInv, StoreInv, StoreTypeOK, Add
  <2>4. kinds[k] = {x \in pq : KindOf[x] = k} BY <2>3 DEF PSInv, StoreInv, StoreAgrees
  <2>5. \A x \in Packages : A[x] = IF x = r THEN kinds[k] ELSE ahead[x]
    BY DEF PSInv, StoreInv, StoreTypeOK, Appended
  <2>6. q \in R /\ q \in Packages /\ p \notin R BY <2>2, <2>3
  <2>7. q \in K /\ KindOf[q] = k BY <2>4, <2>6
  <2>8. p \in kinds[k] /\ ahead[p] \subseteq A[q]
    <3>1. \A x \in pq : \A y \in ahead[x] : KindOf[y] = KindOf[x] /\ ahead[y] \subseteq ahead[x]
        BY DEF PSInv, StoreInv, SliceOrdered
    <3>2. \A x \in Packages : ahead[x] \subseteq pq BY DEF PSInv, StoreInv, SliceOrdered
    <3>3. CASE q = r
      <4>1. p \in kinds[k] BY <3>3, <2>5
      <4>2. p \in pq /\ KindOf[p] = k BY <4>1, <2>4
      <4>3. ASSUME NEW y \in ahead[p] PROVE y \in kinds[k]
        <5>1. y \in pq BY <4>2, <3>2, <2>3
        <5> QED BY <5>1, <4>2, <3>1, <2>4
      <4> QED BY <4>1, <4>3, <3>3, <2>5
    <3>4. CASE q # r
      <4>1. q \in pq /\ A[q] = ahead[q] BY <3>4, <2>5, <2>6
      <4>2. p \in pq /\ KindOf[p] = k BY <4>1, <3>1, <3>2, <2>6, <2>7
      <4> QED BY <4>1, <4>2, <3>1, <2>4
    <3> QED BY <3>3, <3>4
  <2>9. p \in Packages /\ p # r /\ A[p] = ahead[p] BY <2>3, <2>4, <2>5, <2>8
  <2>10. K \in SUBSET Packages /\ R \in SUBSET Packages BY <2>3, <2>4
  <2>11. A[p] \cap R \in SUBSET (A[q] \cap R) /\ A[q] \cap R \in SUBSET R BY <2>8, <2>9
  <2>12. /\ IsFiniteSet(A[q] \cap R) /\ Cardinality(A[q] \cap R) \in Nat
         /\ Cardinality(A[p] \cap R) \in Nat /\ Cardinality(K) \in Nat
    BY <2>10, <2>11, PackagesFinite
  <2>13. Cardinality(A[p] \cap R) <= Cardinality(A[q] \cap R) BY <2>11, <2>12, FS_Subset
  <2>14. /\ ShouldExpire(q, Cardinality(K) - Cardinality(A[q] \cap R))
         /\ ~ShouldExpire(p, Cardinality(K) - Cardinality(A[p] \cap R))
    BY <2>2, <2>6, <2>7, <2>8 DEF SweepRemoves
  <2>15. ExpiryCount[p] \in Nat /\ ExpiryCount[q] \in Nat
    BY <2>6, <2>9, PackageFieldsAssumption
  <2> HIDE DEF A, K
  <2> QED BY <2>12, <2>13, <2>14, <2>15 DEF ShouldExpire
<1>2. PSInv /\ [PSNext]_psVars => [DropsFromFrontStep]_psVars BY <1>1
<1> QED BY <1>2, PSInvariant, PTL DEF PSSpec, DropsFromFront

------------------------------------------------------------------------------
(* Retry accounting *)

\* Quotient and remainder.
LEMMA DivMod ==
    ASSUME NEW r \in Nat, NEW d \in Nat \ {0}
    PROVE  /\ r \div d \in Nat
           /\ r % d \in 0..(d - 1)
           /\ r = d * (r \div d) + (r % d)
OBVIOUS

\* The quotient is determined.
LEMMA QuotientUnique ==
    ASSUME NEW d \in Nat \ {0}, NEW a \in Nat, NEW b \in Nat,
           NEW m \in 0..(d - 1), NEW n \in 0..(d - 1), d * a + m = d * b + n
    PROVE  a = b
<1>1. ASSUME a < b PROVE FALSE
  <2>1. d * b = d * a + d + d * (b - a - 1) OBVIOUS
  <2>2. d * (b - a - 1) >= 0 BY <1>1
  <2> QED BY <2>1, <2>2
<1>2. ASSUME b < a PROVE FALSE
  <2>1. d * a = d * b + d + d * (a - b - 1) OBVIOUS
  <2>2. d * (a - b - 1) >= 0 BY <1>2
  <2> QED BY <2>1, <2>2
<1> QED BY <1>1, <1>2

\* One more attempt raises the quotient exactly when peek raises the priority.
LEMMA QuotientStep ==
    ASSUME NEW r \in Nat, NEW d \in Nat \ {0}
    PROVE  (r + 1) \div d = IF (r + 1) % d = 0 THEN (r \div d) + 1 ELSE r \div d
<1>1. /\ r = d * (r \div d) + (r % d)
      /\ r + 1 = d * ((r + 1) \div d) + ((r + 1) % d)
  BY DivMod
<1>2. r \div d \in Nat /\ r % d \in 0..(d - 1) BY DivMod
<1>3. (r + 1) \div d \in Nat /\ (r + 1) % d \in 0..(d - 1)
  <2>1. r + 1 \in Nat OBVIOUS
  <2> QED BY <2>1, DivMod, Zenon
<1>4. CASE (r + 1) % d = 0
  <2>1. d * ((r + 1) \div d) + (d - 1) = d * ((r \div d) + 1) + (r % d)
    BY <1>1, <1>2, <1>3, <1>4
  <2> QED BY <2>1, <1>2, <1>3, <1>4, QuotientUnique
<1>5. CASE (r + 1) % d # 0
  <2>1. d * ((r + 1) \div d) + (((r + 1) % d) - 1) = d * (r \div d) + (r % d)
    BY <1>1, <1>2, <1>3, <1>5
  <2>2. ((r + 1) % d) - 1 \in 0..(d - 1) BY <1>3, <1>5
  <2> QED BY <2>1, <2>2, <1>2, <1>3, <1>5, QuotientUnique
<1> QED BY <1>4, <1>5

\* So many attempts make a quotient of at most b.
LEMMA AttemptsBelow ==
    ASSUME NEW r \in Nat, NEW d \in Nat \ {0}, NEW b \in Nat, r \div d <= b
    PROVE  r < d * (b + 1)
<1>1. PICK n \in Nat : n = r \div d BY DivMod
<1>2. PICK m \in 0..(d - 1) : m = r % d BY DivMod
<1>3. r = d * n + m BY <1>1, <1>2, DivMod
<1>4. d * (b + 1) = d * n + d + d * (b - n) OBVIOUS
<1>5. d * (b - n) >= 0 BY <1>1
<1> QED BY <1>3, <1>4, <1>5

\* The tail of peek keeps priority and retries in step.
LEMMA AttemptTracked ==
    ASSUME PackTypeOK, PriorityTracksRetries, NEW p \in Packages, CountAttempt(p)
    PROVE  PriorityTracksRetries'
<1> SUFFICES ASSUME NEW q \in Packages
             PROVE  prio'[q] = Priority[q] + IF Retries[q] > 0 THEN retries'[q] \div Retries[q]
                                             ELSE 0
    BY DEF PriorityTracksRetries
<1>0. /\ prio[q] = Priority[q] + IF Retries[q] > 0 THEN retries[q] \div Retries[q] ELSE 0
      /\ Retries[q] \in Nat /\ Priority[q] \in Nat /\ retries[q] \in Nat /\ prio[q] \in Nat
    BY PackageFieldsAssumption DEF PriorityTracksRetries, PackTypeOK
<1>1. CASE q # p
    BY <1>0, <1>1 DEF CountAttempt, PackTypeOK
<1>2. CASE q = p
  <2>1. retries'[q] = retries[q] + 1 BY <1>2 DEF CountAttempt, PackTypeOK
  <2>2. CASE Retries[q] > 0
    <3>1. prio'[q] = IF (retries[q] + 1) % Retries[q] = 0 THEN prio[q] + 1 ELSE prio[q]
        BY <1>0, <1>2, <2>2 DEF CountAttempt, PackTypeOK
    <3>2. (retries[q] + 1) \div Retries[q]
          = IF (retries[q] + 1) % Retries[q] = 0 THEN (retries[q] \div Retries[q]) + 1
            ELSE retries[q] \div Retries[q]
      <4>1. Retries[q] \in Nat \ {0} BY <1>0, <2>2
      <4> QED BY <1>0, <4>1, QuotientStep, Zenon
    <3>3. retries[q] \div Retries[q] \in Nat BY <1>0, <2>2, DivMod
    <3> QED BY <1>0, <2>1, <2>2, <3>1, <3>2, <3>3
  <2>3. CASE ~(Retries[q] > 0)
    BY <1>0, <1>2, <2>3 DEF CountAttempt, PackTypeOK
  <2> QED BY <2>2, <2>3
<1> QED BY <1>1, <1>2

\* Every call of the store either counts an attempt or leaves both alone.
LEMMA TracksNext ==
    ASSUME PSInv, PriorityTracksRetries, [PSNext]_psVars
    PROVE  PriorityTracksRetries'
<1>0. PackTypeOK BY DEF PSInv
<1>1. CASE UNCHANGED <<prio, retries>>
    BY <1>1 DEF PriorityTracksRetries
<1>2. CASE \E p \in Packages : CountAttempt(p)
    BY <1>0, <1>2, AttemptTracked
<1> QED BY <1>1, <1>2 DEF PSNext, Add, Pop, PopPack, Peek, PeekPack, Ack, Expire, packVars, psVars

\* After n attempts a package stands n \div Retries places below the priority
\* its caller gave it, for every Retries and however often it is put back.
THEOREM PriorityAlwaysTracks == PSSpec => []PriorityTracksRetries
<1>1. PSInit => PriorityTracksRetries
  <2> SUFFICES ASSUME PSInit, NEW p \in Packages
               PROVE  prio[p] = Priority[p] + IF Retries[p] > 0 THEN retries[p] \div Retries[p]
                                              ELSE 0
    BY DEF PriorityTracksRetries
  <2>1. retries[p] = 0 /\ prio[p] = Priority[p] BY DEF PSInit
  <2>2. Retries[p] \in Nat /\ Priority[p] \in Nat BY PackageFieldsAssumption
  <2> QED BY <2>1, <2>2
<1>2. PSInv /\ PriorityTracksRetries /\ [PSNext]_psVars => PriorityTracksRetries'
    BY TracksNext
<1> QED BY <1>1, <1>2, PSInvariant, PTL DEF PSSpec

\* A package that keeps failing is taken ahead of a waiting one only a bounded
\* number of times: the store hands out a least package, and each Retries
\* attempts put the failing one further down.
THEOREM OvertakingAlwaysBounded == PSSpec => OvertakingBounded
<1>1. PSInv /\ PriorityTracksRetries /\ [PSNext]_psVars => OvertakingBoundedStep
  <2> SUFFICES ASSUME PSInv, PriorityTracksRetries, [PSNext]_psVars,
                      NEW p \in Packages, NEW q \in pq,
                      Retries[p] > 0, retries'[p] = retries[p] + 1
               PROVE  retries[p] < Retries[p] * (prio[q] - Priority[p] + 1)
    BY DEF OvertakingBoundedStep
  <2>0. /\ Retries[p] \in Nat /\ Priority[p] \in Nat /\ retries[p] \in Nat
        /\ prio[p] \in Nat /\ q \in Packages /\ prio[q] \in Nat
    BY PackageFieldsAssumption DEF PSInv, PackTypeOK, StoreInv, StoreTypeOK
  <2>1. retries' # retries BY <2>0
  <2>2. PICK x \in Packages : IsFirst(x) /\ CountAttempt(x)
    BY <2>1 DEF PSNext, Add, Pop, PopPack, Peek, PeekPack, Ack, Expire, packVars, psVars
  <2>3. x = p BY <2>0, <2>2 DEF CountAttempt, PSInv, PackTypeOK
  <2>4. prio[p] <= prio[q] BY <2>0, <2>2, <2>3 DEF IsFirst, LessEq
  <2>5. prio[p] = Priority[p] + (retries[p] \div Retries[p]) BY DEF PriorityTracksRetries
  <2>6. Retries[p] \in Nat \ {0} BY <2>0
  <2>7. retries[p] \div Retries[p] <= prio[q] - Priority[p] /\ prio[q] - Priority[p] \in Nat
    <3>1. retries[p] \div Retries[p] \in Nat
        BY <2>0, <2>6, DivMod, Zenon
    <3> QED BY <2>0, <2>4, <2>5, <3>1
  <2> QED BY <2>0, <2>6, <2>7, AttemptsBelow, Zenon
<1> QED BY <1>1, PSInvariant, PriorityAlwaysTracks, PTL DEF PSSpec, OvertakingBounded

------------------------------------------------------------------------------
(* The pipe *)

LoopTypeOK ==
    /\ holder \in Workers \cup {None}
    /\ pc \in [Workers -> PCs]
    /\ pack \in [Workers -> Packages \cup {None}]
    /\ caller \in [Packages -> CallerStates]
    /\ sent \subseteq Packages
    /\ dropped \subseteq Packages
    /\ reported \in Nat

\* The worker inside the critical section holds cond.L, and only a worker
\* between Pop and the end of its iteration has a package.
LoopInv == LoopTypeOK /\ HolderInside /\ WorkerHasPack

\* Inductive for every set of workers.
PipeInv == PSInv /\ LoopInv /\ PackageInOnePlace

------------------------------------------------------------------------------
\* NewPipe and Start establish the invariant.
LEMMA PipeInitInv == PipeInit => PipeInv
<1> SUFFICES ASSUME PipeInit PROVE PipeInv OBVIOUS
<1>1. PSInv BY PSInitInv DEF PipeInit
<1>2. LoopTypeOK BY DEF PipeInit, LoopTypeOK, PCs, CallerStates
<1>3. HolderInside /\ WorkerHasPack
    BY NoneAssumption DEF PipeInit, HolderInside, WorkerHasPack
<1>4. PackageInOnePlace
    BY NoneAssumption DEF PipeInit, PSInit, PackageInOnePlace, InOnePlace, InHand
<1> QED BY <1>1, <1>2, <1>3, <1>4 DEF PipeInv, LoopInv

\* storage.Add, from Send or from a worker, on the whole of the store's state.
LEMMA AddInPipe ==
    ASSUME PSInv, NEW p \in Packages, p \notin pq, NEW R, AddSweeping(p, R),
           AddStamp(p), UNCHANGED <<prio, retries, expired>>
    PROVE  /\ PSInv'
           /\ R \subseteq pq \cup {p}
           /\ R \subseteq Packages
           /\ pq' = (pq \cup {p}) \ R
           /\ AddResult(R) \in Nat
<1>1. StoreInv /\ PackTypeOK BY DEF PSInv
<1>2. StoreInv' /\ R \subseteq pq \cup {p} /\ pq' = (pq \cup {p}) \ R
    BY <1>1, AddKeepsStore
<1>3. time' \in [Packages -> Nat] BY <1>1, FieldTypes
<1>4. PackTypeOK' BY <1>1, <1>3 DEF PackTypeOK, AddSweeping
<1>5. R \subseteq Packages BY <1>1, <1>2 DEF StoreInv, StoreTypeOK
<1>6. Cardinality(R) \in Nat BY <1>5, PackagesFinite
<1> QED BY <1>1, <1>2, <1>4, <1>5, <1>6 DEF PSInv, AddResult, PackTypeOK

\* storage.Pop
LEMMA PopInPipe ==
    ASSUME PSInv, NEW p \in Packages, PopPack(p), UNCHANGED <<time, expired>>
    PROVE  PSInv' /\ p \in pq /\ pq' = pq \ {p}
<1>1. StoreInv /\ PackTypeOK BY DEF PSInv
<1>2. p \in pq /\ RemovePack(p) /\ CountExpired(p) /\ CountAttempt(p)
    BY DEF PopPack, IsFirst
<1>3. StoreInv' /\ pq' = pq \ {p} BY <1>1, <1>2, RemoveKeepsStore
<1>4. PackTypeOK' BY <1>1, <1>2, FieldTypes DEF PackTypeOK
<1> QED BY <1>2, <1>3, <1>4 DEF PSInv

\* Steps that leave the store alone.
LEMMA PSUnchangedInv == PSInv /\ UNCHANGED psVars => PSInv'
BY PSNextInv

------------------------------------------------------------------------------
\* Every step of a caller or of a worker preserves it.
LEMMA PipeNextInv == PipeInv /\ [PipeNext]_pipeVars => PipeInv'
<1> SUFFICES ASSUME PipeInv, [PipeNext]_pipeVars PROVE PipeInv' OBVIOUS
<1>0. /\ PSInv /\ LoopTypeOK /\ HolderInside /\ WorkerHasPack /\ PackageInOnePlace
      /\ pq \subseteq Packages
    BY DEF PipeInv, LoopInv, PSInv, StoreInv, StoreTypeOK
<1> USE DEF Goto
<1>1. ASSUME NEW p \in Packages, SendStamp(p) PROVE PipeInv'
  <2>1. PSInv'
    <3>1. StoreInv' BY <1>0, <1>1, StoreUnchanged DEF SendStamp, storeVars, PSInv
    <3>2. PackTypeOK' BY <1>0, <1>1, NowType DEF SendStamp, storeVars, PSInv, PackTypeOK
    <3> QED BY <3>1, <3>2 DEF PSInv
  <2>2. LoopInv'
    BY <1>0, <1>1 DEF SendStamp, loopVars, fateVars, LoopInv, LoopTypeOK, HolderInside,
       WorkerHasPack, CallerStates
  <2>3. PackageInOnePlace'
    BY <1>0, <1>1 DEF SendStamp, storeVars, loopVars, fateVars, PackageInOnePlace, InOnePlace, InHand,
       LoopTypeOK
  <2> QED BY <2>1, <2>2, <2>3 DEF PipeInv
<1>2. ASSUME NEW p \in Packages, SendAdd(p) PROVE PipeInv'
  <2>1. PICK R \in SUBSET (kinds[KindOf[p]] \cup {p}) :
          /\ AddSweeping(p, R)
          /\ dropped' = dropped \cup R
          /\ reported' = reported + AddResult(R)
    BY <1>2 DEF SendAdd
  <2>2. /\ p \notin pq /\ p \notin sent /\ p \notin dropped /\ InHand(p) = {}
    BY <1>0, <1>2 DEF SendAdd, PackageInOnePlace, InOnePlace
  <2>3. /\ PSInv' /\ R \subseteq pq \cup {p} /\ R \subseteq Packages
        /\ pq' = (pq \cup {p}) \ R /\ AddResult(R) \in Nat
    BY <2>1, <2>2, <1>0, <1>2, AddInPipe DEF SendAdd
  <2>4. /\ caller' = [caller EXCEPT ![p] = "added"]
        /\ UNCHANGED <<holder, pc, pack, sent>>
    BY <1>2 DEF SendAdd, loopVars
  <2>5. LoopInv'
    BY <1>0, <2>1, <2>3, <2>4 DEF LoopInv, LoopTypeOK, HolderInside, WorkerHasPack, CallerStates
  <2>6. PackageInOnePlace'
    <3> SUFFICES ASSUME NEW x \in Packages PROVE InOnePlace(x)' BY DEF PackageInOnePlace
    <3>1. InHand(x)' = InHand(x) BY <2>4 DEF InHand
    <3>2. InOnePlace(x) BY <1>0 DEF PackageInOnePlace
    <3>3. CASE x = p BY <3>1, <3>3, <2>1, <2>2, <2>3, <2>4, <1>0 DEF LoopTypeOK, InOnePlace
    <3>4. CASE x # p BY <3>1, <3>2, <3>4, <2>1, <2>3, <2>4, <1>0 DEF LoopTypeOK, InOnePlace
    <3> QED BY <3>3, <3>4
  <2> QED BY <2>3, <2>5, <2>6 DEF PipeInv
<1>3. ASSUME NEW p \in Packages, SendBroadcast(p) PROVE PipeInv'
  <2>1. PSInv' BY <1>0, <1>3, PSUnchangedInv DEF SendBroadcast
  <2>2. LoopInv'
    BY <1>0, <1>3 DEF SendBroadcast, fateVars, LoopInv, LoopTypeOK, HolderInside,
       WorkerHasPack, CallerStates, PCs
  <2>3. PackageInOnePlace'
    BY <1>0, <1>3 DEF SendBroadcast, psVars, fateVars, PackageInOnePlace, InOnePlace, InHand, LoopTypeOK
  <2> QED BY <2>1, <2>2, <2>3 DEF PipeInv
<1>4. ASSUME NEW w \in Workers,
             \/ Lock(w) \/ TakeNil(w) \/ Wait(w) \/ WakeUp(w) \/ Unlock(w) \/ SendError(w)
      PROVE  PipeInv'
  <2>0. UNCHANGED <<psVars, pack, caller, sent, dropped, reported>>
    BY <1>4 DEF Lock, TakeNil, Wait, WakeUp, Unlock, SendError, fateVars
  <2>1. PSInv' BY <1>0, <2>0, PSUnchangedInv
  <2>2. LoopTypeOK'
    BY <1>0, <1>4, <2>0 DEF Lock, TakeNil, Wait, WakeUp, Unlock, SendError, LoopTypeOK, PCs
  <2>3. HolderInside'
    BY <1>0, <1>4, NoneAssumption
    DEF Lock, TakeNil, Wait, WakeUp, Unlock, SendError, LoopTypeOK, HolderInside
  <2>4. WorkerHasPack'
    BY <1>0, <1>4, <2>0
    DEF Lock, TakeNil, Wait, WakeUp, Unlock, SendError, LoopTypeOK, WorkerHasPack
  <2>5. PackageInOnePlace' BY <1>0, <2>0 DEF psVars, PackageInOnePlace, InOnePlace, InHand
  <2> QED BY <2>1, <2>2, <2>3, <2>4, <2>5 DEF PipeInv, LoopInv
<1>5. ASSUME NEW w \in Workers, NEW p \in Packages, TakePack(w, p) PROVE PipeInv'
  <2>1. PSInv' /\ p \in pq /\ pq' = pq \ {p} BY <1>0, <1>5, PopInPipe DEF TakePack
  <2>2. /\ pc[w] = "locked" /\ pc' = [pc EXCEPT ![w] = "got"]
        /\ pack' = [pack EXCEPT ![w] = p]
        /\ UNCHANGED <<holder, caller, sent, dropped, reported>>
    BY <1>5 DEF TakePack, fateVars
  <2>3. pack[w] = None /\ p # None
    BY <1>0, <2>2, NoneAssumption DEF WorkerHasPack
  <2>4. LoopTypeOK' BY <1>0, <2>2 DEF LoopTypeOK, PCs
  <2>5. HolderInside' /\ WorkerHasPack'
    BY <1>0, <2>2, <2>3 DEF LoopTypeOK, HolderInside, WorkerHasPack
  <2>6. PackageInOnePlace'
    <3> SUFFICES ASSUME NEW x \in Packages PROVE InOnePlace(x)' BY DEF PackageInOnePlace
    <3>1. InOnePlace(x) /\ x # None BY <1>0, NoneAssumption DEF PackageInOnePlace
    <3>2. CASE x = p
      <4>1. InHand(x) = {} /\ x \notin sent /\ x \notin dropped
        BY <3>1, <3>2, <2>1 DEF InOnePlace
      <4>2. InHand(x)' = {w} BY <4>1, <3>2, <2>2, <1>0 DEF InHand, LoopTypeOK
      <4> QED BY <4>1, <4>2, <3>1, <3>2, <2>1, <2>2 DEF InOnePlace
    <3>3. CASE x # p
      <4>1. InHand(x)' = InHand(x)
        BY <3>1, <3>3, <2>2, <2>3, <1>0 DEF InHand, LoopTypeOK
      <4> QED BY <4>1, <3>1, <3>3, <2>1, <2>2 DEF InOnePlace
    <3> QED BY <3>2, <3>3
  <2> QED BY <2>1, <2>4, <2>5, <2>6 DEF PipeInv, LoopInv
<1>6. ASSUME NEW w \in Workers, SendOk(w) PROVE PipeInv'
  <2>0. /\ pc[w] = "sending" /\ pc' = [pc EXCEPT ![w] = "idle"]
        /\ pack' = [pack EXCEPT ![w] = None]
        /\ sent' = sent \cup {pack[w]}
        /\ UNCHANGED <<psVars, holder, caller, dropped, reported>>
    BY <1>6 DEF SendOk
  <2>1. PSInv' BY <1>0, <2>0, PSUnchangedInv
  <2>2. pack[w] \in Packages /\ pack[w] # None
    BY <1>0, <2>0 DEF WorkerHasPack, LoopTypeOK
  <2>3. LoopTypeOK' BY <1>0, <2>0, <2>2 DEF LoopTypeOK, PCs
  <2>4. HolderInside' /\ WorkerHasPack'
    BY <1>0, <2>0 DEF LoopTypeOK, HolderInside, WorkerHasPack
  <2>5. PackageInOnePlace'
    BY <1>0, <2>0, <2>2, NoneAssumption DEF LoopTypeOK, PackageInOnePlace, InOnePlace, InHand, psVars
  <2> QED BY <2>1, <2>3, <2>4, <2>5 DEF PipeInv, LoopInv
<1>7. ASSUME NEW w \in Workers, PutBack(w) PROVE PipeInv'
  <2>0. /\ pc[w] = "failed" /\ pc' = [pc EXCEPT ![w] = "idle"]
        /\ pack' = [pack EXCEPT ![w] = None]
        /\ UNCHANGED <<holder, caller, sent, reported>>
    BY <1>7 DEF PutBack
  <2> DEFINE p == pack[w]
  <2>1. PICK R \in SUBSET (kinds[KindOf[p]] \cup {p}) :
          AddSweeping(p, R) /\ dropped' = dropped \cup R
    BY <1>7 DEF PutBack
  <2>2. p \in Packages /\ p # None /\ w \in InHand(p)
    BY <1>0, <2>0 DEF WorkerHasPack, LoopTypeOK, InHand
  <2>3. /\ p \notin pq /\ p \notin sent /\ p \notin dropped
        /\ \A v \in Workers : pack[v] = p => v = w
        /\ caller[p] \in {"added", "done"}
    BY <1>0, <2>2 DEF PackageInOnePlace, InOnePlace, InHand
  <2>4. /\ PSInv' /\ R \subseteq pq \cup {p} /\ R \subseteq Packages
        /\ pq' = (pq \cup {p}) \ R
    BY <2>1, <2>2, <2>3, <1>0, <1>7, AddInPipe DEF PutBack
  <2>5. LoopTypeOK' BY <1>0, <2>0, <2>1, <2>4 DEF LoopTypeOK, PCs
  <2>6. HolderInside' /\ WorkerHasPack'
    BY <1>0, <2>0 DEF LoopTypeOK, HolderInside, WorkerHasPack
  <2>7. PackageInOnePlace'
    <3> SUFFICES ASSUME NEW x \in Packages PROVE InOnePlace(x)' BY DEF PackageInOnePlace
    <3>1. InOnePlace(x) BY <1>0 DEF PackageInOnePlace
    <3>2. x # None BY NoneAssumption
    <3>3. CASE x = p
      <4>1. InHand(x)' = {} BY <3>2, <3>3, <2>0, <2>3, <1>0 DEF InHand, LoopTypeOK
      <4> QED BY <4>1, <3>3, <2>0, <2>1, <2>2, <2>3, <2>4 DEF InOnePlace
    <3>4. CASE x # p
      <4>1. InHand(x)' = InHand(x) BY <3>2, <3>4, <2>0, <1>0 DEF InHand, LoopTypeOK
      <4> QED BY <4>1, <3>1, <3>4, <2>0, <2>1, <2>4 DEF InOnePlace
    <3> QED BY <3>3, <3>4
  <2> QED BY <2>4, <2>5, <2>6, <2>7 DEF PipeInv, LoopInv
<1>8. ASSUME NEW p \in Packages, PipeExpire(p) PROVE PipeInv'
  <2>1. PSInv' BY <1>0, <1>8, PSNextInv DEF PipeExpire, PSNext
  <2>2. LoopInv'
    BY <1>0, <1>8 DEF PipeExpire, loopVars, fateVars, LoopInv, LoopTypeOK, HolderInside,
       WorkerHasPack
  <2>3. PackageInOnePlace'
    BY <1>0, <1>8 DEF PipeExpire, Expire, storeVars, loopVars, fateVars, PackageInOnePlace, InOnePlace, InHand
  <2> QED BY <2>1, <2>2, <2>3 DEF PipeInv
<1>9. CASE UNCHANGED pipeVars
  <2>1. PSInv' BY <1>0, <1>9, PSUnchangedInv DEF pipeVars
  <2>2. LoopInv' /\ PackageInOnePlace'
    BY <1>0, <1>9 DEF pipeVars, psVars, loopVars, fateVars, LoopInv, LoopTypeOK, HolderInside,
       WorkerHasPack, PackageInOnePlace, InOnePlace, InHand
  <2> QED BY <2>1, <2>2 DEF PipeInv
<1> QED BY <1>1, <1>2, <1>3, <1>4, <1>5, <1>6, <1>7, <1>8, <1>9
        DEF PipeNext, CallerStep, WorkerStep

------------------------------------------------------------------------------
\* The inductive invariant of the pipe.
THEOREM PipeInvariant == PipeSpec => []PipeInv
BY PipeInitInv, PipeNextInv, PTL DEF PipeSpec

\* Type correctness of the pipe and of its store.
THEOREM PipeTypeCorrect == PipeSpec => []PipeTypeOK
<1>1. PipeInv => PipeTypeOK
    BY DEF PipeInv, LoopInv, LoopTypeOK, PSInv, StoreInv, StoreTypeOK, PackTypeOK,
       PSTypeOK, PipeTypeOK
<1> QED BY <1>1, PipeInvariant, PTL

\* No package is lost or in two hands, for every number of workers.
THEOREM PackagesConserved == PipeSpec => []PackageInOnePlace
<1>1. PipeInv => PackageInOnePlace BY DEF PipeInv
<1> QED BY <1>1, PipeInvariant, PTL

\* The limit on log batches holds inside the pipe, retries included.
THEOREM PipeCountBounded == PipeSpec => []CountBound
<1>1. PipeInv => CountBound BY DEF PipeInv, PSInv, StoreInv
<1> QED BY <1>1, PipeInvariant, PTL

\* With two workers or more a Broadcast that misses a worker between its Pop
\* and its Wait does not strand the package: that worker holds cond.L, so any
\* other one is elsewhere in its loop or was woken.  (With one worker the
\* property fails.)
THEOREM WakeupNeverLost ==
    ASSUME NEW u \in Workers, NEW v \in Workers, u # v
    PROVE  PipeSpec => []NoLostWakeup
<1>1. PipeInit => NoLostWakeup BY DEF PipeInit, PSInit, NoLostWakeup
<1>2. PipeInv /\ NoLostWakeup /\ [PipeNext]_pipeVars => NoLostWakeup'
  <2> SUFFICES ASSUME PipeInv, NoLostWakeup, [PipeNext]_pipeVars,
                      pq' # {}, \A p \in Packages : caller'[p] # "added"
               PROVE  \E w \in Workers : ~Dozing(w)'
    BY DEF NoLostWakeup
  <2>0. LoopTypeOK /\ HolderInside BY DEF PipeInv, LoopInv
  <2> USE DEF Goto
  <2>1. ASSUME NEW p \in Packages, SendStamp(p) \/ PipeExpire(p)
        PROVE  \E w \in Workers : ~Dozing(w)'
    <3>1. pq' = pq /\ pc' = pc
        BY <2>1 DEF SendStamp, PipeExpire, Expire, storeVars, loopVars
    <3>2. \A q \in Packages : caller[q] # "added"
        BY <2>0, <2>1 DEF SendStamp, PipeExpire, LoopTypeOK
    <3> QED BY <3>1, <3>2 DEF NoLostWakeup, Dozing
  <2>2. ASSUME NEW p \in Packages, SendAdd(p) PROVE FALSE
    BY <2>0, <2>2 DEF SendAdd, LoopTypeOK
  <2>3. ASSUME NEW p \in Packages, SendBroadcast(p)
        PROVE  \E w \in Workers : ~Dozing(w)'
    <3>1. \A w \in Workers : pc'[w] # "waiting" BY <2>3 DEF SendBroadcast
    <3>2. \A w \in Workers : pc'[w] = "empty" => holder = w
        BY <2>0, <2>3 DEF SendBroadcast, HolderInside
    <3> QED BY <3>1, <3>2 DEF Dozing
  <2>4. ASSUME NEW w \in Workers, Lock(w) \/ WakeUp(w) \/ Unlock(w) \/ SendOk(w) \/ SendError(w)
        PROVE  \E x \in Workers : ~Dozing(x)'
    BY <2>0, <2>4 DEF Lock, WakeUp, Unlock, SendOk, SendError, LoopTypeOK, Dozing
  <2>5. ASSUME NEW w \in Workers, NEW p \in Packages, TakePack(w, p)
        PROVE  \E x \in Workers : ~Dozing(x)'
    BY <2>0, <2>5 DEF TakePack, LoopTypeOK, Dozing
  <2>6. ASSUME NEW w \in Workers, TakeNil(w) PROVE FALSE
    BY <2>6 DEF TakeNil, psVars
  <2>7. ASSUME NEW w \in Workers, Wait(w) PROVE \E x \in Workers : ~Dozing(x)'
    <3>1. pq' = pq /\ caller' = caller BY <2>7 DEF Wait, psVars
    <3>2. PICK x \in Workers : ~Dozing(x) BY <3>1 DEF NoLostWakeup
    <3> QED BY <3>2, <2>0, <2>7 DEF Wait, LoopTypeOK, Dozing
  <2>8. ASSUME NEW w \in Workers, PutBack(w) PROVE \E x \in Workers : ~Dozing(x)'
    BY <2>0, <2>8 DEF PutBack, LoopTypeOK, Dozing
  <2>9. CASE UNCHANGED pipeVars
    BY <2>9 DEF pipeVars, psVars, loopVars, NoLostWakeup, Dozing
  <2> QED BY <2>1, <2>2, <2>3, <2>4, <2>5, <2>6, <2>7, <2>8, <2>9
          DEF PipeNext, CallerStep, WorkerStep
<1> QED BY <1>1, <1>2, PipeInvariant, PTL DEF PipeSpec

\* A package that has expired and is not in the store never enters it again, for
\* every number of workers and of retries: the sweep of the Add that would let
\* it in takes it out.
THEOREM ExpiredAlwaysOut == PipeSpec => ExpiredStaysOut
<1>1. ASSUME NEW q, NEW R, AddSweeping(q, R), NEW p \in expired \ pq
      PROVE  p \notin pq'
  <2>1. pq' = (pq \cup {q}) \ R BY <1>1 DEF AddSweeping
  <2>2. q \in expired => q \in R BY <1>1 DEF AddSweeping, SweepRemoves, ShouldExpire
  <2> QED BY <2>1, <2>2
<1>2. ASSUME [PipeNext]_pipeVars, NEW p \in expired \ pq PROVE p \notin pq'
  <2>1. CASE \E q, R : AddSweeping(q, R) BY <1>1, <2>1
  <2>2. CASE pq' \subseteq pq BY <2>2
  <2>3. CASE UNCHANGED psVars BY <2>3 DEF psVars
  <2> QED BY <1>2, <2>1, <2>2, <2>3
          DEF PipeNext, CallerStep, WorkerStep, SendStamp, SendAdd, SendBroadcast, PipeExpire,
              Expire, Lock, TakePack, PopPack, RemovePack, TakeNil, Wait, WakeUp, Unlock, SendOk,
              SendError, PutBack, storeVars, pipeVars, psVars
<1>3. [PipeNext]_pipeVars => ExpiredStaysOutStep BY <1>2 DEF ExpiredStaysOutStep
<1> QED BY <1>3, PTL DEF PipeSpec, ExpiredStaysOut
=============================================================================
