---------------------- MODULE MemoryCacheBoundsProofs ----------------------
(***************************************************************************)
(* CacheBounds of MemoryCache, for every set of documents, regions and     *)
(* threads and all capacities: caches_ and lru_ of CacheManager agree, and *)
(* neither level of the cache outgrows its capacity.                       *)
(*                                                                         *)
(* The argument has three parts: what moving to the front and erasing do   *)
(* to a list without repetitions; that lru_ only changes while nobody      *)
(* scans it, or by the scan itself (ScanningInv); and that an entry is     *)
(* added only where there is room or in the place of another (RoomInv).    *)
(***************************************************************************)
EXTENDS MemoryCacheProofs, FiniteSetTheorems, SequenceTheorems

\* No document is in the list twice, and the documents in it.
Once(s) == \A i, j \in 1..Len(s) : s[i] = s[j] => i = j
Listed(s) == {s[i] : i \in 1..Len(s)}

\* lru_ has the keys of caches_, each once.
LruInv == docLru \in Seq(Docs) /\ Once(docLru) /\ Listed(docLru) = docCached

\* The scan of lru_ is under mutex_, and its document is not cached meanwhile.
ScanningInv ==
    /\ scan \in 0..Len(docLru)
    /\ mutex = NoThread => scan = 0
    /\ \A t \in Threads : at[t] = "evict" => mutex = t /\ req[t].doc \notin docCached

\* Neither level has outgrown its capacity.
RoomInv ==
    /\ Cardinality(docCached) <= MaxDocuments
    /\ \A d \in Docs : IsFiniteSet(CachedRegions(d)) /\ Cardinality(CachedRegions(d)) <= Capacity

BoundsInv == LruInv /\ ScanningInv /\ RoomInv

\* No region enters the cache.
Drops == \A r \in Regions : cmeta'[r] # Nil => cmeta[r] # Nil

\* What a call does to the two levels when it keeps, touches or drops entries.
CacheOp(d) ==
    /\ Drops
    /\ \/ UNCHANGED <<docCached, docLru>>
       \/ docCached' = docCached /\ docLru' = Touched(d)
       \/ \E D : docCached' = docCached \ D /\ docLru' = Without(docLru, D)

\* No thread begins to scan.
NoScan == \A u \in Threads : at'[u] = "evict" => at[u] = "evict" /\ req'[u] = req[u]

-----------------------------------------------------------------------------
(* Lists of documents.                                                     *)

\* A list without repetitions is as long as it has members.
LEMMA ListedCount ==
    ASSUME NEW s \in Seq(Docs), Once(s)
    PROVE  IsFiniteSet(Listed(s)) /\ Cardinality(Listed(s)) = Len(s)
<1>1. Len(s) \in Nat /\ DOMAIN s = 1..Len(s)
    BY LenProperties
<1>2. s \in Bijection(1..Len(s), Listed(s))
    BY <1>1 DEF Once, Listed, Bijection, Injection, Surjection, IsInjective
<1>3. ExistsBijection(1..Len(s), Listed(s))
    BY <1>2 DEF ExistsBijection
<1>4. IsFiniteSet(1..Len(s)) /\ Cardinality(1..Len(s)) = Len(s)
    BY <1>1, FS_Interval
<1> QED
    BY <1>3, <1>4, FS_Bijection

\* Erasing documents from a list leaves the others, each once.
LEMMA WithoutFacts ==
    ASSUME NEW s \in Seq(Docs), Once(s), NEW D
    PROVE  /\ Without(s, D) \in Seq(Docs)
           /\ Once(Without(s, D))
           /\ Listed(Without(s, D)) = Listed(s) \ D
<1> DEFINE I == {i \in 1..Len(s) : s[i] \notin D}
           Up(i) == {j \in I : j <= i}
           n == Cardinality(I)
           rank == [i \in I |-> Cardinality(Up(i))]
           q == Without(s, D)
<1>1. Len(s) \in Nat /\ DOMAIN s = 1..Len(s) /\ \A i \in 1..Len(s) : s[i] \in Docs
    BY LenProperties, ElementOfSeq
<1>2. IsFiniteSet(I) /\ n \in Nat
  <2>1. IsFiniteSet(1..Len(s))
    BY <1>1, FS_Interval
  <2> QED
    BY <2>1, FS_Subset, FS_CardinalityType
<1>3. ASSUME NEW i \in I PROVE IsFiniteSet(Up(i)) /\ Cardinality(Up(i)) \in 1..n
  <2>1. IsFiniteSet(Up(i)) /\ Cardinality(Up(i)) <= n /\ Cardinality(Up(i)) \in Nat
    BY <1>2, FS_Subset, FS_CardinalityType
  <2>2. i \in Up(i)
    BY <1>1
  <2>3. Cardinality(Up(i)) # 0
    BY <2>1, <2>2, FS_EmptySet
  <2> HIDE DEF Up, n
  <2> QED
    BY <2>1, <2>3, <1>2
<1>4. ASSUME NEW i \in I, NEW j \in I, Cardinality(Up(i)) = Cardinality(Up(j)) PROVE i = j
  <2>1. ASSUME NEW a \in I, NEW b \in I, a < b, Cardinality(Up(a)) = Cardinality(Up(b)) PROVE FALSE
    <3>1. Up(a) \subseteq Up(b)
      BY <1>1, <2>1
    <3>2. b \in Up(b) /\ b \notin Up(a)
      BY <1>1, <2>1
    <3>3. IsFiniteSet(Up(b))
      BY <1>3
    <3> HIDE DEF Up
    <3> QED
      BY <2>1, <3>1, <3>2, <3>3, FS_Subset
  <2>2. i < j \/ j < i \/ i = j
    BY <1>1
  <2> HIDE DEF Up, I
  <2> QED
    BY <1>4, <2>1, <2>2
<1>5. rank \in Injection(I, 1..n)
  <2> HIDE DEF Up, I, n
  <2> QED
    BY <1>3, <1>4 DEF Injection, IsInjective
<1>6. IsFiniteSet(1..n) /\ Cardinality(1..n) = n
  <2> HIDE DEF n
  <2> QED
    BY <1>2, FS_Interval
<1>7. rank \in Surjection(I, 1..n)
  <2> HIDE DEF rank
  <2> QED
    BY <1>5, <1>6, FS_Injection
<1> DEFINE at_(k) == CHOOSE i \in I : Cardinality({j \in I : j <= i}) = k
<1>8. ASSUME NEW k \in 1..n PROVE at_(k) \in I /\ Cardinality(Up(at_(k))) = k
  <2>1. \E i \in I : rank[i] = k
    <3> HIDE DEF rank, I, n
    <3> QED
      BY <1>7 DEF Surjection
  <2>2. \E i \in I : Cardinality({j \in I : j <= i}) = k
    <3> HIDE DEF I, n
    <3> QED BY <2>1
  <2> QED
    BY <2>2
<1>9. q = [k \in 1..n |-> s[at_(k)]]
    BY DEF Without
<1> HIDE DEF at_, Up
<1>10. q \in Seq(Docs) /\ Len(q) = n
  <2>1. \A k \in 1..n : s[at_(k)] \in Docs
    BY <1>1, <1>8
  <2>2. q \in [1..n -> Docs]
    <3> HIDE DEF I, n, q
    <3> QED BY <1>9, <2>1
  <2> HIDE DEF q, n
  <2> QED
    BY <1>2, <2>2
<1>11. \A k \in 1..n : q[k] = s[at_(k)]
  <2> HIDE DEF I, n, q
  <2> QED BY <1>9
<1>12. Once(q)
  <2> SUFFICES ASSUME NEW k \in 1..n, NEW l \in 1..n, q[k] = q[l] PROVE k = l
    BY <1>10 DEF Once
  <2>1. s[at_(k)] = s[at_(l)]
    BY <1>11
  <2>2. at_(k) = at_(l)
    BY <1>8, <2>1 DEF Once
  <2> QED
    BY <1>8, <2>2
<1>13. Listed(q) = Listed(s) \ D
  <2>1. ASSUME NEW k \in 1..n PROVE q[k] \in Listed(s) \ D
    BY <1>8, <1>11 DEF Listed
  <2>2. ASSUME NEW d \in Listed(s) \ D PROVE \E k \in 1..n : q[k] = d
    <3>1. PICK i \in I : s[i] = d
      BY DEF Listed
    <3>2. Cardinality(Up(i)) \in 1..n
      BY <1>3
    <3>3. at_(Cardinality(Up(i))) = i
      BY <1>4, <1>8, <3>2
    <3> QED
      BY <1>11, <3>1, <3>2, <3>3
  <2> QED
    BY <1>10, <2>1, <2>2 DEF Listed
<1> QED
    BY <1>10, <1>12, <1>13

\* A document put in front of a list that does not have it.
LEMMA FrontFacts ==
    ASSUME NEW s \in Seq(Docs), Once(s), NEW d \in Docs, d \notin Listed(s)
    PROVE  /\ <<d>> \o s \in Seq(Docs)
           /\ Once(<<d>> \o s)
           /\ Listed(<<d>> \o s) = Listed(s) \cup {d}
<1> DEFINE q == <<d>> \o s
<1>1. Len(s) \in Nat /\ <<d>> \in Seq(Docs) /\ Len(<<d>>) = 1
    BY LenProperties
<1>2. q \in Seq(Docs) /\ Len(q) = Len(s) + 1
    BY <1>1, ConcatProperties
<1>3. q[1] = d /\ \A i \in 2..(Len(s) + 1) : q[i] = s[i - 1]
    BY <1>1, ConcatProperties
<1> HIDE DEF q
<1>4. \A i \in 1..Len(s) : q[i + 1] = s[i]
    BY <1>1, <1>3
<1>5. Once(q)
  <2> SUFFICES ASSUME NEW i \in 1..Len(q), NEW j \in 1..Len(q), q[i] = q[j] PROVE i = j
    BY DEF Once
  <2>1. \A k \in 1..Len(q) : k # 1 => q[k] = s[k - 1] /\ k - 1 \in 1..Len(s)
    BY <1>1, <1>2, <1>3
  <2>2. CASE i = 1 \/ j = 1
    BY <1>3, <2>1, <2>2 DEF Listed
  <2>3. CASE i # 1 /\ j # 1
    <3>1. i - 1 = j - 1
      BY <2>1, <2>3 DEF Once
    <3> QED
      BY <1>2, <3>1
  <2> QED
    BY <2>2, <2>3
<1>6. Listed(q) = Listed(s) \cup {d}
  <2>1. ASSUME NEW i \in 1..Len(q) PROVE q[i] \in Listed(s) \cup {d}
    BY <1>1, <1>2, <1>3 DEF Listed
  <2>2. ASSUME NEW i \in 1..Len(s) PROVE s[i] \in Listed(q)
    BY <1>1, <1>2, <1>4 DEF Listed
  <2>3. d \in Listed(q)
    BY <1>1, <1>2, <1>3 DEF Listed
  <2> QED
    BY <2>1, <2>2, <2>3 DEF Listed
<1> QED
    BY <1>2, <1>5, <1>6 DEF q

-----------------------------------------------------------------------------
(* Steps that only drop entries.                                           *)

\* The first state.
LEMMA InitBounds == Init => BoundsInv
<1> SUFFICES ASSUME Init PROVE BoundsInv
    OBVIOUS
<1>1. docLru = <<>> /\ docCached = {} /\ scan = 0 /\ mutex = NoThread
      /\ at = [t \in Threads |-> "idle"] /\ cmeta = [r \in Regions |-> Nil]
    BY DEF Init
<1>2. LruInv
    BY <1>1 DEF LruInv, Once, Listed
<1>3. ScanningInv
    BY <1>1 DEF ScanningInv
<1>4. RoomInv
  <2>1. \A d \in Docs : CachedRegions(d) = {}
    BY <1>1 DEF CachedRegions, RegionsOf
  <2>2. Cardinality({}) = 0 /\ IsFiniteSet({}) /\ 0 <= MaxDocuments /\ 0 <= Capacity
    BY FS_EmptySet, ConstantsAssumption
  <2> QED
    BY <1>1, <2>1, <2>2, Zenon DEF RoomInv
<1> QED
    BY <1>2, <1>3, <1>4 DEF BoundsInv

\* Regions that only leave their documents' caches leave them within bounds.
LEMMA DropsRoom ==
    ASSUME RoomInv, Drops, NEW d \in Docs
    PROVE  IsFiniteSet(CachedRegions(d)') /\ Cardinality(CachedRegions(d)') <= Capacity
<1>1. CachedRegions(d)' \subseteq CachedRegions(d)
    BY DEF Drops, CachedRegions, RegionsOf
<1>2. IsFiniteSet(CachedRegions(d)) /\ Cardinality(CachedRegions(d)) <= Capacity
    BY DEF RoomInv
<1>3. IsFiniteSet(CachedRegions(d)') /\ Cardinality(CachedRegions(d)') <= Cardinality(CachedRegions(d))
    BY <1>1, <1>2, FS_Subset
<1>4. Cardinality(CachedRegions(d)') \in Nat /\ Cardinality(CachedRegions(d)) \in Nat
    BY <1>2, <1>3, FS_CardinalityType
<1> QED
    BY <1>2, <1>3, <1>4, ConstantsAssumption

\* A document that is touched moves to the front.
LEMMA TouchedFacts ==
    ASSUME LruInv, NEW d
    PROVE  Touched(d) \in Seq(Docs) /\ Once(Touched(d)) /\ Listed(Touched(d)) = docCached
<1>1. CASE d \notin docCached
    BY <1>1 DEF Touched, LruInv
<1>2. CASE d \in docCached
  <2>1. d \in Docs
    BY <1>2, LenProperties, ElementOfSeq DEF LruInv, Listed
  <2> DEFINE q == Without(docLru, {d})
  <2>2. q \in Seq(Docs) /\ Once(q) /\ Listed(q) = docCached \ {d}
    BY WithoutFacts DEF LruInv
  <2>3. d \notin Listed(q)
    BY <2>2
  <2> HIDE DEF q
  <2>4. <<d>> \o q \in Seq(Docs) /\ Once(<<d>> \o q) /\ Listed(<<d>> \o q) = Listed(q) \cup {d}
    BY <2>1, <2>2, <2>3, FrontFacts
  <2> QED
    BY <1>2, <2>2, <2>4 DEF Touched, q
<1> QED
    BY <1>1, <1>2

\* The documents in lru_ are finitely many, as many as it is long.
LEMMA CachedCount ==
    ASSUME LruInv
    PROVE  IsFiniteSet(docCached) /\ Cardinality(docCached) = Len(docLru) /\ Len(docLru) \in Nat
BY ListedCount, LenProperties DEF LruInv

\* A step that leaves the list, the mutex and the scan alone.
LEMMA QuietBounds ==
    ASSUME BoundsInv, Drops, NoScan, UNCHANGED <<docCached, docLru, mutex, scan>>
    PROVE  BoundsInv'
<1>1. LruInv'
    BY DEF BoundsInv, LruInv, Once, Listed
<1>2. ScanningInv'
    BY DEF BoundsInv, ScanningInv, NoScan
<1>3. RoomInv'
    BY DropsRoom DEF BoundsInv, RoomInv
<1> QED
    BY <1>1, <1>2, <1>3 DEF BoundsInv

\* A call that keeps, touches or drops entries while nobody scans.
LEMMA CallBounds ==
    ASSUME BoundsInv, NEW d, CacheOp(d), NoScan, mutex = NoThread, UNCHANGED <<mutex, scan>>
    PROVE  BoundsInv'
<1>0. LruInv /\ ScanningInv /\ RoomInv
    BY DEF BoundsInv
<1>1. CASE UNCHANGED <<docCached, docLru>>
    BY <1>1, QuietBounds DEF CacheOp
<1>2. ASSUME docLru' \in Seq(Docs), Once(docLru)', Listed(docLru)' = docCached', docCached' \subseteq docCached
      PROVE  BoundsInv'
  <2>1. LruInv'
    BY <1>2 DEF LruInv
  <2>2. Len(docLru') \in Nat
    BY <1>2, LenProperties
  <2>3. ScanningInv'
    BY <1>0, <2>2, ConstantsAssumption DEF ScanningInv, NoScan
  <2>4. IsFiniteSet(docCached) /\ Cardinality(docCached) <= MaxDocuments
    BY <1>0, CachedCount DEF RoomInv
  <2>5. Cardinality(docCached') <= MaxDocuments
    <3>1. Cardinality(docCached') <= Cardinality(docCached) /\ IsFiniteSet(docCached')
      BY <1>2, <2>4, FS_Subset
    <3>2. Cardinality(docCached') \in Nat /\ Cardinality(docCached) \in Nat
      BY <2>4, <3>1, FS_CardinalityType
    <3> QED
      BY <2>4, <3>1, <3>2, ConstantsAssumption
  <2>6. RoomInv'
    BY <1>0, <2>5, DropsRoom DEF RoomInv, CacheOp
  <2> QED
    BY <2>1, <2>3, <2>6 DEF BoundsInv
<1>3. CASE docCached' = docCached /\ docLru' = Touched(d)
  <2>1. docLru' \in Seq(Docs) /\ Once(docLru)' /\ Listed(docLru)' = docCached'
    BY <1>0, <1>3, TouchedFacts DEF Once, Listed
  <2> QED
    BY <1>2, <1>3, <2>1
<1>4. CASE \E D : docCached' = docCached \ D /\ docLru' = Without(docLru, D)
  <2>1. PICK D : docCached' = docCached \ D /\ docLru' = Without(docLru, D)
    BY <1>4
  <2>2. docLru' \in Seq(Docs) /\ Once(docLru)' /\ Listed(docLru)' = docCached'
    <3> DEFINE q == Without(docLru, D)
    <3>1. q \in Seq(Docs) /\ Once(q) /\ Listed(q) = docCached \ D
      BY <1>0, WithoutFacts DEF LruInv
    <3>2. docLru' = q /\ docCached' = docCached \ D
      BY <2>1
    <3> HIDE DEF q
    <3> QED
      BY <3>1, <3>2 DEF Once, Listed
  <2> QED
    BY <1>2, <2>1, <2>2
<1> QED
    BY <1>1, <1>3, <1>4 DEF CacheOp

\* KeepCache, RemoveRegions and RemoveDocuments are such operations.
LEMMA OpsShape ==
    ASSUME NEW d, NEW S, NEW D, NEW dd,
           \/ KeepCache(d, dd)
           \/ RemoveRegions(d, S, dd)
           \/ RemoveDocuments(D, dd)
           \/ UNCHANGED cacheVars
    PROVE  CacheOp(d)
<1>1. CASE KeepCache(d, dd)
    BY <1>1 DEF KeepCache, CacheOp, Drops
<1>2. CASE RemoveRegions(d, S, dd)
    BY <1>2 DEF RemoveRegions, CacheOp, Drops, Put
<1>3. CASE RemoveDocuments(D, dd)
  <2>1. Drops
    BY <1>3 DEF RemoveDocuments, Drops, Put
  <2> QED
    BY <1>3, <2>1 DEF RemoveDocuments, CacheOp
<1>4. CASE UNCHANGED cacheVars
    BY <1>4 DEF CacheOp, Drops, cacheVars
<1> QED
    BY <1>1, <1>2, <1>3, <1>4

\* A call that ends begins no scan.
LEMMA ReleaseNoScan ==
    ASSUME CoreType, NEW t \in Threads, Release(t)
    PROVE  NoScan /\ UNCHANGED <<mutex, scan>>
BY DEF CoreType, Release, NoScan

\* Calls that work in one step.
LEMMA OneStepBounds ==
    ASSUME CoreType, BoundsInv, NEW t \in Threads,
           \/ ReadDocument(t) \/ Flush(t) \/ EraseDocument(t)
           \/ \E r \in Regions, v \in Vals : WriteField(t, r, v) \/ WriteMetaOnly(t, r, v)
           \/ \E r \in Regions, v \in Vals, x \in DataVals : WriteRegion(t, r, v, x)
           \/ \E r \in Regions, x \in DataVals : WriteData(t, r, x)
           \/ \E P, S \in SUBSET Regions, v \in Vals, x \in DataVals : WriteAbove(t, P, S, v, x)
           \/ \E r \in Regions : EraseRegion(t, r)
           \/ \E r \in Regions, v \in Vals, index \in BOOLEAN : EraseField(t, r, v, index)
           \/ \E S \in SUBSET Regions : EraseParent(t, S)
           \/ \E D \in SUBSET Docs : ErasePattern(t, D)
           \/ \E S \in SUBSET Regions, v \in Vals \cup {Nil}, x \in DataVals \cup {Nil} :
                  ExecuteAtomic(t, S, v, x)
    PROVE  BoundsInv'
<1> DEFINE d == req[t].doc
<1> SUFFICES mutex = NoThread /\ Release(t) /\ CacheOp(d)
    BY ReleaseNoScan, CallBounds
<1>1. CASE ReadDocument(t) \/ Flush(t) \/ EraseDocument(t)
    BY <1>1, OpsShape DEF ReadDocument, Flush, EraseDocument, Running
<1>2. ASSUME NEW r \in Regions, NEW v, NEW x, NEW b, WriteThrough(t, r, v, x, b)
      PROVE  mutex = NoThread /\ Release(t) /\ CacheOp(d)
  <2>1. Running(t) /\ Release(t)
    BY <1>2 DEF WriteThrough
  <2>2. \E f \in (IF cmeta[r] # Nil THEN FlushResults(d)
                  ELSE {[ok |-> TRUE, written |-> {}, cleaned |-> {}]}) :
            RemoveRegions(d, {r}, dirty \ f.cleaned) \/ KeepCache(d, dirty \ f.cleaned)
    BY <1>2 DEF WriteThrough
  <2> QED
    BY <2>1, <2>2, OpsShape DEF Running
<1>3. ASSUME NEW r \in Regions, NEW v \in Vals, WriteField(t, r, v) \/ WriteMetaOnly(t, r, v)
      PROVE  mutex = NoThread /\ Release(t) /\ CacheOp(d)
  <2>1. CASE WriteField(t, r, v)
    BY <1>2, <2>1 DEF WriteField
  <2>2. CASE WriteMetaOnly(t, r, v)
    BY <2>2, OpsShape DEF WriteMetaOnly, Running
  <2> QED
    BY <1>3, <2>1, <2>2
<1>4. ASSUME NEW r \in Regions, NEW v \in Vals, NEW x \in DataVals, WriteRegion(t, r, v, x)
      PROVE  mutex = NoThread /\ Release(t) /\ CacheOp(d)
    BY <1>2, <1>4 DEF WriteRegion
<1>5. ASSUME NEW r \in Regions, NEW x \in DataVals, WriteData(t, r, x)
      PROVE  mutex = NoThread /\ Release(t) /\ CacheOp(d)
    BY <1>2, <1>5 DEF WriteData
<1>6. ASSUME NEW P \in SUBSET Regions, NEW S \in SUBSET Regions, NEW v \in Vals, NEW x \in DataVals,
             WriteAbove(t, P, S, v, x)
      PROVE  mutex = NoThread /\ Release(t) /\ CacheOp(d)
  <2>1. \E f \in FlushResults(d) :
            RemoveDocuments({d}, dirty \ f.cleaned) \/ KeepCache(d, dirty \ f.cleaned)
    BY <1>6 DEF WriteAbove
  <2> QED
    BY <1>6, <2>1, OpsShape DEF WriteAbove, Running
<1>7. ASSUME NEW r \in Regions, EraseRegion(t, r)
      PROVE  mutex = NoThread /\ Release(t) /\ CacheOp(d)
    BY <1>7, OpsShape DEF EraseRegion, Running
<1>8. ASSUME NEW r \in Regions, NEW v \in Vals, NEW index \in BOOLEAN, EraseField(t, r, v, index)
      PROVE  mutex = NoThread /\ Release(t) /\ CacheOp(d)
  <2>1. \E f \in FlushResults(d) :
            \/ RemoveDocuments({d}, dirty \ f.cleaned) \/ KeepCache(d, dirty \ f.cleaned)
            \/ RemoveRegions(d, {r}, dirty \ f.cleaned)
    BY <1>8 DEF EraseField
  <2> QED
    BY <1>8, <2>1, OpsShape DEF EraseField, Running
<1>9. ASSUME NEW S \in SUBSET Regions, EraseParent(t, S)
      PROVE  mutex = NoThread /\ Release(t) /\ CacheOp(d)
    BY <1>9, OpsShape DEF EraseParent, Running
<1>10. ASSUME NEW D \in SUBSET Docs, ErasePattern(t, D)
       PROVE  mutex = NoThread /\ Release(t) /\ CacheOp(d)
    BY <1>10, OpsShape DEF ErasePattern
<1>11. ASSUME NEW S \in SUBSET Regions, NEW v, NEW x, ExecuteAtomic(t, S, v, x)
       PROVE  mutex = NoThread /\ Release(t) /\ CacheOp(d)
  <2>1. \E f \in FlushResults(d) :
            RemoveRegions(d, S, dirty \ f.cleaned) \/ KeepCache(d, dirty \ f.cleaned)
    BY <1>11 DEF ExecuteAtomic
  <2> QED
    BY <1>11, <2>1, OpsShape DEF ExecuteAtomic, Running
<1> HIDE DEF d
<1> QED
    BY <1>1, <1>3, <1>4, <1>5, <1>6, <1>7, <1>8, <1>9, <1>10, <1>11

\* Locks, hits, updates of entries and the first step of a cached write.
LEMMA EntryBounds ==
    ASSUME Inv, BoundsInv, NEW t \in Threads,
           \/ AnswerRead(t) \/ Update(t) \/ UpdateOversize(t)
           \/ \E d \in Docs : LockDocument(t, d)
           \/ \E s \in Stripes : LockNextStripe(t, s)
           \/ \E r \in Regions, v \in Vals : WriteFind(t, r, v)
    PROVE  BoundsInv'
<1>0. CoreType
    BY DEF Inv
<1>1. CASE AnswerRead(t)
    BY <1>0, <1>1, ReleaseNoScan, QuietBounds DEF AnswerRead, cacheVars, Drops
<1>2. CASE Update(t)
  <2>1. cmeta[req[t].reg] # Nil
    BY <1>2 DEF Update, Inv, WorkInv
  <2>2. Drops
    BY <1>0, <1>2, <2>1 DEF Update, Drops, CoreType
  <2> QED
    BY <1>0, <1>2, <2>2, ReleaseNoScan, QuietBounds DEF Update
<1>3. CASE UpdateOversize(t)
  <2>1. Drops
    BY <1>0, <1>3 DEF UpdateOversize, Drops, CoreType
  <2> QED
    BY <1>0, <1>3, <2>1, ReleaseNoScan, QuietBounds DEF UpdateOversize
<1>4. ASSUME NEW d \in Docs, LockDocument(t, d) PROVE BoundsInv'
  <2>1. NoScan
    BY <1>0, <1>4 DEF LockDocument, NoScan, CoreType
  <2> QED
    BY <1>4, <2>1, QuietBounds DEF LockDocument, cacheVars, Drops
<1>5. ASSUME NEW s \in Stripes, LockNextStripe(t, s) PROVE BoundsInv'
  <2>1. NoScan
    BY <1>0, <1>5 DEF LockNextStripe, NoScan, CoreType
  <2> QED
    BY <1>5, <2>1, QuietBounds DEF LockNextStripe, cacheVars, Drops
<1>6. ASSUME NEW r \in Regions, NEW v \in Vals, WriteFind(t, r, v) PROVE BoundsInv'
  <2>1. NoScan
    BY <1>0, <1>6 DEF WriteFind, NoScan, CoreType
  <2>2. CacheOp(req[t].doc) /\ mutex = NoThread /\ UNCHANGED <<mutex, scan>>
    BY <1>6 DEF WriteFind, CacheOp, Drops, Running, Holding
  <2> QED
    BY <2>1, <2>2, CallBounds
<1> QED
    BY <1>1, <1>2, <1>3, <1>4, <1>5, <1>6

-----------------------------------------------------------------------------
(* Steps that add a document or an entry, and the scan.                    *)

\* cacheForLookup finds the document or puts it into a place that is free.
LEMMA FindBounds ==
    ASSUME Inv, BoundsInv, NEW t \in Threads, NEW r \in Regions, FindCache(t, r)
    PROVE  BoundsInv'
<1> DEFINE d == req[t].doc
           q == Without(docLru, {d})
<1>0. CoreType /\ LruInv /\ ScanningInv /\ RoomInv
    BY DEF Inv, BoundsInv
<1>1. d \in Docs
    BY DEF FindCache, Running, Inv, LockInv, Owners
<1>2. q \in Seq(Docs) /\ Once(q) /\ Listed(q) = docCached \ {d}
    BY <1>0, WithoutFacts DEF LruInv
<1>3. docLru' = <<d>> \o q /\ docCached' = docCached \cup {d} /\ mutex = NoThread
      /\ UNCHANGED <<mutex, scan, cmeta>>
    BY DEF FindCache, Running, Holding
<1>4. NoScan
    BY <1>0 DEF FindCache, NoScan, CoreType
<1> HIDE DEF q
<1>5. LruInv'
  <2>1. <<d>> \o q \in Seq(Docs) /\ Once(<<d>> \o q) /\ Listed(<<d>> \o q) = docCached \cup {d}
    BY <1>1, <1>2, FrontFacts
  <2> DEFINE p == <<d>> \o q
  <2> HIDE DEF p, d
  <2> QED
    BY <1>3, <2>1 DEF LruInv, Once, Listed
<1>6. ScanningInv'
  <2>1. scan = 0 /\ \A u \in Threads : at[u] # "evict"
    BY <1>0, <1>3, ConstantsAssumption DEF ScanningInv
  <2>2. Len(docLru') \in Nat
    BY <1>5, LenProperties DEF LruInv
  <2> QED
    BY <1>3, <1>4, <2>1, <2>2 DEF ScanningInv, NoScan
<1>7. Cardinality(docCached') <= MaxDocuments
  <2>1. IsFiniteSet(docCached) /\ Cardinality(docCached) \in Nat /\ Cardinality(docCached) <= MaxDocuments
    BY <1>0, CachedCount DEF RoomInv
  <2>2. d \in docCached \/ Cardinality(docCached) < MaxDocuments
    BY DEF FindCache, HasRoom
  <2>3. Cardinality(docCached \cup {d}) =
          IF d \in docCached THEN Cardinality(docCached) ELSE Cardinality(docCached) + 1
    BY <2>1, FS_AddElement
  <2> QED
    BY <1>3, <2>1, <2>2, <2>3, ConstantsAssumption
<1>8. RoomInv'
  <2>1. Drops
    BY <1>3 DEF Drops
  <2> QED
    BY <1>0, <1>7, <2>1, DropsRoom DEF RoomInv
<1> QED
    BY <1>5, <1>6, <1>8 DEF BoundsInv

\* The scan begins at the last document and goes on towards the first.
LEMMA ScanBounds ==
    ASSUME Inv, BoundsInv, NEW t \in Threads,
           SkipCandidate(t) \/ NoCandidate(t) \/ \E r \in Regions : BeginEviction(t, r)
    PROVE  BoundsInv'
<1>0. CoreType /\ LruInv /\ ScanningInv /\ RoomInv
    BY DEF Inv, BoundsInv
<1>1. Len(docLru) \in Nat
    BY <1>0, LenProperties DEF LruInv
<1>2. UNCHANGED <<docCached, docLru, cmeta>>
    BY DEF SkipCandidate, NoCandidate, BeginEviction, cacheVars
<1>3. LruInv'
    BY <1>0, <1>2 DEF LruInv, Once, Listed
<1>4. RoomInv'
  <2>1. Drops
    BY <1>2 DEF Drops
  <2> QED
    BY <1>0, <1>2, <2>1, DropsRoom DEF RoomInv
<1>5. CASE SkipCandidate(t)
  <2>1. scan' = scan - 1 /\ scan > 0 /\ mutex = t /\ UNCHANGED <<mutex, at, req>>
    BY <1>0, <1>5 DEF SkipCandidate, ScanningInv
  <2>2. ScanningInv'
    BY <1>0, <1>1, <1>2, <2>1, ConstantsAssumption DEF ScanningInv
  <2> QED
    BY <1>3, <1>4, <2>2 DEF BoundsInv
<1>6. CASE NoCandidate(t)
  <2>1. scan = 0 /\ scan' = 0 /\ mutex' = NoThread /\ mutex = t
    BY <1>0, <1>6 DEF NoCandidate, ScanningInv
  <2>2. \A u \in Threads : at'[u] # "evict"
    BY <1>0, <1>6, <2>1 DEF NoCandidate, ScanningInv, CoreType
  <2>3. ScanningInv'
    BY <1>1, <1>2, <2>1, <2>2 DEF ScanningInv
  <2> QED
    BY <1>3, <1>4, <2>3 DEF BoundsInv
<1>7. ASSUME NEW r \in Regions, BeginEviction(t, r) PROVE BoundsInv'
  <2>1. scan' = Len(docLru) /\ mutex' = t /\ mutex = NoThread /\ req[t].doc \notin docCached
    BY <1>7 DEF BeginEviction, Running
  <2>2. req'[t].doc = req[t].doc /\ \A u \in Threads : u # t => at'[u] = at[u]
    BY <1>0, <1>7 DEF BeginEviction, CoreType
  <2>3. \A u \in Threads : at[u] # "evict"
    BY <1>0, <2>1, ConstantsAssumption DEF ScanningInv
  <2>4. ScanningInv'
    BY <1>1, <1>2, <2>1, <2>2, <2>3, ConstantsAssumption DEF ScanningInv
  <2> QED
    BY <1>3, <1>4, <2>4 DEF BoundsInv
<1> QED
    BY <1>5, <1>6, <1>7

\* An eviction puts one document into the place of another.
LEMMA EvictBounds ==
    ASSUME Inv, BoundsInv, NEW t \in Threads, EvictCandidate(t)
    PROVE  BoundsInv'
<1> DEFINE c == docLru[scan]
           d == req[t].doc
           q == Without(docLru, {c})
<1>0. CoreType /\ LruInv /\ ScanningInv /\ RoomInv
    BY DEF Inv, BoundsInv
<1>1. d \in Docs /\ d \notin docCached /\ mutex = t
    BY <1>0 DEF EvictCandidate, Inv, LockInv, Owners, ScanningInv
<1>2. c \in docCached
    BY <1>0 DEF EvictCandidate, ScanningInv, LruInv, Listed
<1>3. q \in Seq(Docs) /\ Once(q) /\ Listed(q) = docCached \ {c}
    BY <1>0, WithoutFacts DEF LruInv
<1>4. /\ docLru' = <<d>> \o q /\ docCached' = (docCached \ {c}) \cup {d}
      /\ mutex' = NoThread /\ scan' = 0 /\ cmeta' = Put(cmeta, RegionsOf(c), Nil)
      /\ at' = [at EXCEPT ![t] = "lookup"]
    BY DEF EvictCandidate
<1> HIDE DEF q, c
<1>5. LruInv'
  <2>1. d \notin Listed(q)
    BY <1>1, <1>3
  <2>2. <<d>> \o q \in Seq(Docs) /\ Once(<<d>> \o q) /\ Listed(<<d>> \o q) = (docCached \ {c}) \cup {d}
    BY <1>1, <1>3, <2>1, FrontFacts
  <2> HIDE DEF d
  <2> QED
    BY <1>4, <2>2 DEF LruInv, Once, Listed
<1>6. ScanningInv'
  <2>1. \A u \in Threads : at'[u] # "evict"
    BY <1>0, <1>1, <1>4 DEF ScanningInv, CoreType
  <2>2. Len(docLru') \in Nat
    BY <1>5, LenProperties DEF LruInv
  <2> QED
    BY <1>4, <2>1, <2>2 DEF ScanningInv
<1>7. Cardinality(docCached') <= MaxDocuments
  <2>1. IsFiniteSet(docCached) /\ Cardinality(docCached) \in Nat /\ Cardinality(docCached) <= MaxDocuments
    BY <1>0, CachedCount DEF RoomInv
  <2>2. IsFiniteSet(docCached \ {c}) /\ Cardinality(docCached \ {c}) = Cardinality(docCached) - 1
    BY <1>2, <2>1, FS_RemoveElement
  <2>3. Cardinality((docCached \ {c}) \cup {d}) = Cardinality(docCached \ {c}) + 1
    BY <1>1, <2>2, FS_AddElement
  <2> QED
    BY <1>4, <2>1, <2>2, <2>3, ConstantsAssumption
<1>8. RoomInv'
  <2>1. Drops
    BY <1>4 DEF Drops, Put
  <2> QED
    BY <1>0, <1>7, <2>1, DropsRoom DEF RoomInv
<1> QED
    BY <1>5, <1>6, <1>8 DEF BoundsInv

\* admit adds an entry where there is room for one, or in the place of another.
LEMMA AdmitBounds ==
    ASSUME Inv, BoundsInv, NEW t \in Threads, Admit(t)
    PROVE  BoundsInv'
<1> DEFINE r == req[t].reg
           d == req[t].doc
           R == CachedRegions(d)
           N == {p \in RegionsOf(d) : cmeta'[p] # Nil}
<1>0. CoreType /\ LruInv /\ ScanningInv /\ RoomInv
    BY DEF Inv, BoundsInv
<1>1. d \in Docs /\ r \in RegionsOf(d) /\ r \in Regions /\ cmeta[r] = Nil
    BY DEF Admit, Inv, LockInv, WorkInv, Owners, RegionsOf
<1>2. mutex = NoThread /\ Release(t) /\ docLru' = Touched(d) /\ docCached' = docCached
    BY DEF Admit
<1>3. NoScan /\ UNCHANGED <<mutex, scan>>
    BY <1>0, <1>2, ReleaseNoScan
<1>4. LruInv'
  <2>1. Touched(d) \in Seq(Docs) /\ Once(Touched(d)) /\ Listed(Touched(d)) = docCached
    BY <1>0, TouchedFacts
  <2> QED
    BY <1>2, <2>1 DEF LruInv, Once, Listed
<1>5. ScanningInv'
  <2>1. Len(docLru') \in Nat
    BY <1>4, LenProperties DEF LruInv
  <2> QED
    BY <1>0, <1>2, <1>3, <2>1, ConstantsAssumption DEF ScanningInv, NoScan
<1>6. IsFiniteSet(R) /\ Cardinality(R) \in Nat /\ Cardinality(R) <= Capacity
    BY <1>0, <1>1, FS_CardinalityType DEF RoomInv
<1>7. ASSUME NEW e \in Docs, e # d PROVE CachedRegions(e)' = CachedRegions(e)
  <2>1. \A p \in Regions : DocOf[p] # d => cmeta'[p] = cmeta[p]
    BY <1>0, <1>1 DEF Admit, CoreType, CachedRegions, RegionsOf
  <2> QED
    BY <1>7, <2>1 DEF CachedRegions, RegionsOf
<1>8. \/ Cardinality(R) < Capacity /\ N = R \cup {r}
      \/ \E w \in R : N = (R \ {w}) \cup {r}
      \/ N = R
  <2>1. meta[r] # Nil
    BY DEF Admit
  <2>2. \/ Cardinality(R) < Capacity /\ cmeta' = [cmeta EXCEPT ![r] = meta[r]]
        \/ \E w \in R : cmeta' = [cmeta EXCEPT ![w] = Nil, ![r] = meta[r]]
        \/ cmeta' = cmeta
    BY DEF Admit
  <2>3. CASE Cardinality(R) < Capacity /\ cmeta' = [cmeta EXCEPT ![r] = meta[r]]
    BY <1>0, <1>1, <2>1, <2>3 DEF CachedRegions, RegionsOf, CoreType
  <2>4. ASSUME NEW w \in R, cmeta' = [cmeta EXCEPT ![w] = Nil, ![r] = meta[r]]
        PROVE  N = (R \ {w}) \cup {r}
    BY <1>0, <1>1, <2>1, <2>4 DEF CachedRegions, RegionsOf, CoreType
  <2>5. CASE cmeta' = cmeta
    BY <2>5 DEF CachedRegions, RegionsOf
  <2> QED
    BY <2>2, <2>3, <2>4, <2>5
<1>9. r \notin R
    BY <1>1 DEF CachedRegions
<1>10. IsFiniteSet(N) /\ Cardinality(N) <= Capacity
  <2> HIDE DEF R, N, r
  <2>1. CASE Cardinality(R) < Capacity /\ N = R \cup {r}
    <3>1. IsFiniteSet(N) /\ Cardinality(N) = Cardinality(R) + 1
      BY <1>6, <1>9, <2>1, FS_AddElement
    <3> QED
      BY <1>6, <2>1, <3>1, ConstantsAssumption
  <2>2. ASSUME NEW w \in R, N = (R \ {w}) \cup {r} PROVE IsFiniteSet(N) /\ Cardinality(N) <= Capacity
    <3>1. IsFiniteSet(R \ {w}) /\ Cardinality(R \ {w}) = Cardinality(R) - 1
      BY <1>6, FS_RemoveElement
    <3>2. IsFiniteSet(N) /\ Cardinality(N) = Cardinality(R \ {w}) + 1
      BY <1>9, <2>2, <3>1, FS_AddElement
    <3> QED
      BY <1>6, <3>1, <3>2, ConstantsAssumption
  <2> QED
    BY <1>6, <1>8, <2>1, <2>2
<1>11. RoomInv'
  <2>1. ASSUME NEW e \in Docs PROVE IsFiniteSet(CachedRegions(e)') /\ Cardinality(CachedRegions(e)') <= Capacity
    <3>1. CASE e = d
      BY <1>10, <3>1 DEF CachedRegions, RegionsOf
    <3>2. CASE e # d
      BY <1>0, <1>7, <3>2 DEF RoomInv
    <3> QED
      BY <3>1, <3>2
  <2> QED
    BY <1>0, <1>2, <2>1 DEF RoomInv
<1> QED
    BY <1>4, <1>5, <1>11 DEF BoundsInv

\* Every step keeps the bounds.
LEMMA StepBounds == Inv /\ BoundsInv /\ [Next]_vars => BoundsInv'
<1> SUFFICES ASSUME Inv, BoundsInv, [Next]_vars PROVE BoundsInv'
    OBVIOUS
<1>0. CoreType
    BY DEF Inv
<1>1. CASE UNCHANGED vars
  <2>1. Drops /\ NoScan
    BY <1>1 DEF vars, cacheVars, Drops, NoScan
  <2> QED
    BY <1>1, <2>1, QuietBounds DEF vars, cacheVars
<1>2. ASSUME NEW t \in Threads, Read(t) PROVE BoundsInv'
    BY <1>0, <1>2, OneStepBounds, EntryBounds, ScanBounds, EvictBounds, AdmitBounds, FindBounds DEF Read
<1>3. ASSUME NEW t \in Threads, Write(t) \/ Erase(t) \/ Flush(t) PROVE BoundsInv'
    BY <1>0, <1>3, OneStepBounds, EntryBounds DEF Write, Erase
<1> QED
    BY <1>0, <1>1, <1>2, <1>3, OneStepBounds, EntryBounds DEF Next

\* CacheManager's bookkeeping, with any number of threads and any capacities:
\* caches_ and lru_ have the same documents, each once and within
\* maximum_documents, no document has more entries than entries_per_document,
\* dirty regions are cached, and the list is never shorter than an eviction scan
\* needs.
THEOREM CacheBounded == Spec => []CacheBounds
<1>1. Inv /\ BoundsInv => CacheBounds
  <2> SUFFICES ASSUME Inv, BoundsInv PROVE CacheBounds
    OBVIOUS
  <2>1. LruInv /\ ScanningInv /\ RoomInv /\ CacheInv
    BY DEF Inv, BoundsInv
  <2>2. Len(docLru) = Cardinality(docCached)
    BY <2>1, CachedCount
  <2> QED
    BY <2>1, <2>2 DEF CacheBounds, CacheInv, LruInv, Listed, ScanningInv, RoomInv
<1> QED
    BY <1>1, InitInv, NextInv, InitBounds, StepBounds, PTL DEF Spec
=============================================================================
