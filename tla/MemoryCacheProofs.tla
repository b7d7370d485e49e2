------------------------- MODULE MemoryCacheProofs -------------------------
(***************************************************************************)
(* Proofs about MemoryCache, for every set of documents, regions, values   *)
(* and threads and every capacity.                                         *)
(*                                                                         *)
(* The acknowledged values are safe because of three facts that hold       *)
(* together: a thread past LockDocument owns the stripe of its document    *)
(* (LockInv), what it found in the cache is still there (WorkInv), and a   *)
(* region that is dirty is cached under a cached document (CacheInv).      *)
(* What is dirty can be written back, and read(key) has an answer, because *)
(* Redis has the parent of everything that it stores or the cache holds,   *)
(* but for the regions in doubt (PlaceInv).                                *)
(***************************************************************************)
EXTENDS MemoryCache, TLAPS

\* What tells whether Redis has a place for a region is left as it is, or not.
USE DEF placeVars

Owners == {"body", "evict", "lookup", "update"}

LockInv ==
    \A t \in Threads : at[t] \in Owners =>
        /\ req[t].doc \in Docs
        /\ holder[StripeOf[req[t].doc]] = t

WorkInv ==
    \A t \in Threads :
        /\ at[t] \in {"evict", "lookup", "update"} => req[t].reg \in RegionsOf(req[t].doc)
        /\ at[t] = "lookup" => req[t].doc \in docCached
        /\ at[t] = "update" => /\ req[t].val \in Vals
                               /\ cmeta[req[t].reg] # Nil

CacheInv ==
    /\ \A r \in dirty : cmeta[r] # Nil
    /\ \A r \in Regions : cmeta[r] # Nil => DocOf[r] \in docCached

\* The value of r that is not lost: the dirty one, or what Redis has.
CopyOf(r) == IF r \in dirty THEN cmeta[r] ELSE meta[r]
Kept == \A r \in Regions : ackMeta[r] # Unknown => CopyOf(r) = ackMeta[r]

LEMMA FlushFacts ==
    ASSUME NEW d, NEW f \in FlushResults(d)
    PROVE  /\ \A r \in f.written : CanWriteBack(r)
           /\ f.written \subseteq dirty \cap RegionsOf(d)
           /\ f.cleaned \subseteq f.written
           /\ f.ok \in BOOLEAN
           /\ f.ok => f.cleaned = dirty \cap RegionsOf(d)
<1> DEFINE D == dirty \cap RegionsOf(d)
           W == {r \in D : CanWriteBack(r)}
<1>1. CASE \E S \in SUBSET W : f = [ok |-> S = D, written |-> S, cleaned |-> S]
  <2>1. PICK S \in SUBSET W : f = [ok |-> S = D, written |-> S, cleaned |-> S]
    BY <1>1
  <2>2. f.written = S /\ f.cleaned = S
    BY <2>1
  <2>3. f.ok = (S = D)
    BY <2>1
  <2>4. f.ok \in BOOLEAN /\ (f.ok => S = D)
    BY <2>3, Zenon
  <2> QED
    BY <2>2, <2>4
<1>2. CASE \E S \in SUBSET W, r \in W : f = [ok |-> FALSE, written |-> S, cleaned |-> S \ {r}]
    BY <1>2
<1>3. f \in {[ok |-> S = D, written |-> S, cleaned |-> S] : S \in SUBSET W}
            \cup {[ok |-> FALSE, written |-> S, cleaned |-> S \ {r}] :
                    S \in (IF LostReplies THEN SUBSET W ELSE {}), r \in W}
    BY DEF FlushResults
<1>4. \/ \E S \in SUBSET W : f = [ok |-> S = D, written |-> S, cleaned |-> S]
      \/ \E S \in SUBSET W, r \in W : f = [ok |-> FALSE, written |-> S, cleaned |-> S \ {r}]
    BY <1>3
<1> QED
    BY <1>1, <1>2, <1>4

\* What a step may do to Redis and to the cache and still keep every
\* acknowledged value: the dirty regions W are written back and C of them
\* cleaned, a command with outcome o changes the regions S, and the cache
\* drops regions, but neither a dirty one outside S nor, when the command is
\* acknowledged, keeps one in S.
Harmless(W, C, S, nm, o) ==
    /\ W \subseteq dirty /\ C \subseteq W /\ S \subseteq Regions
    /\ o \in {"ok", "failed", "lost"}
    /\ \A r \in Regions \ S : nm[r] = WrittenBack(W)[r]
    /\ \A r \in Regions :
          \/ cmeta'[r] = Nil /\ r \notin dirty'
          \/ cmeta'[r] = cmeta[r] /\ (r \in dirty' <=> r \in dirty \ C)
    /\ o = "ok" => \A r \in S : cmeta'[r] = Nil /\ r \notin dirty'
    /\ \A r \in Regions :
          cmeta'[r] = Nil /\ cmeta[r] # Nil /\ (r \in S => o = "failed") => r \notin dirty \ C

LEMMA CommandKeepsAcked ==
    ASSUME CoreType, CacheInv, AckedReadable, Kept,
           NEW W, NEW C, NEW S, NEW nm, NEW o,
           Harmless(W, C, S, nm, o),
           meta' = IF o = "failed" THEN WrittenBack(W) ELSE nm,
           ackMeta' = Acked(ackMeta, S, o, nm)
    PROVE  AckedReadable' /\ Kept'
<1> USE DEF Harmless
<1> SUFFICES ASSUME NEW r \in Regions, ackMeta'[r] # Unknown
             PROVE  RegionView(r)' = ackMeta'[r] /\ CopyOf(r)' = ackMeta'[r]
    BY DEF AckedReadable, Kept
<1>1. WrittenBack(W)[r] = IF r \in W THEN cmeta[r] ELSE meta[r]
    BY DEF WrittenBack
<1>2. CASE r \in S /\ o = "ok"
    BY <1>2 DEF Acked, RegionView, CopyOf
<1>3. CASE r \notin S \/ o = "failed"
  <2>1. ackMeta'[r] = ackMeta[r]
    BY <1>3 DEF Acked
  <2>2. meta'[r] = IF r \in W THEN cmeta[r] ELSE meta[r]
    BY <1>1, <1>3
  <2>3. RegionView(r) = ackMeta[r] /\ CopyOf(r) = ackMeta[r]
    BY <2>1 DEF AckedReadable, Kept
  <2> QED
    BY <1>3, <2>1, <2>2, <2>3 DEF RegionView, CopyOf, CacheInv
<1>4. CASE r \in S /\ o = "lost"
    BY <1>4 DEF Acked
<1> QED
    BY <1>2, <1>3, <1>4

-----------------------------------------------------------------------------
(* Locks.                                                                  *)

\* A call that ends changes only the cache of its own document, and no other
\* thread works on that document.
LEMMA CallEnds ==
    ASSUME CoreType, LockInv, WorkInv,
           NEW t \in Threads, at[t] \in Owners, Release(t),
           \A r \in Regions : DocOf[r] # req[t].doc => cmeta'[r] = cmeta[r],
           docCached \ {req[t].doc} \subseteq docCached'
    PROVE  LockInv' /\ WorkInv'
<1> SUFFICES ASSUME NEW u \in Threads, u # t
             PROVE  /\ LockInv!(u)'
                    /\ WorkInv!(u)'
    BY DEF LockInv, WorkInv, Release, CoreType, Owners
<1>1. at'[u] = at[u] /\ req'[u] = req[u]
    BY DEF Release, CoreType
<1>2. at[u] \in Owners => req[u].doc \in Docs /\ holder[StripeOf[req[u].doc]] = u
    BY DEF LockInv
<1>3. at[u] \in Owners => holder'[StripeOf[req[u].doc]] = u
    BY <1>2, ConstantsAssumption DEF Release
<1>4. at[u] \in Owners => req[u].doc # req[t].doc
    BY <1>2 DEF LockInv
<1>5. WorkInv!(u)
    BY DEF WorkInv
<1> QED
    BY <1>1, <1>2, <1>3, <1>4, <1>5 DEF RegionsOf, Owners

-----------------------------------------------------------------------------
(* The inductive invariant.                                                *)

AckedSafe == ~ShallowErase => AckedReadable /\ Kept
Inv == CoreType /\ LockInv /\ WorkInv /\ CacheInv /\ AckedSafe

Metas == [Regions -> Vals \cup {Nil}]
Remotes == [Regions -> DataVals \cup {Nil}]

Acks == [Regions -> DataVals \cup {Nil, Unknown}]

\* A call that flushes the regions W of its document, cleans C of them, sends
\* a command that changes the regions S, and drops entries of its document
\* from the cache, keeps the invariant.
CallEffect(t, W, C, S, nm, o, X) ==
    /\ at[t] \in Owners /\ Release(t)
    /\ W \subseteq dirty \cap RegionsOf(req[t].doc) /\ C \subseteq W /\ S \subseteq Regions
    /\ nm \in Metas /\ o \in {"ok", "failed", "lost"}
    /\ meta' = IF o = "failed" THEN WrittenBack(W) ELSE nm
    /\ ackMeta' = Acked(ackMeta, S, o, nm)
    /\ data' \in Remotes /\ ackData' \in Acks
    /\ \A r \in Regions \ S : nm[r] = WrittenBack(W)[r]
    /\ exists' \in [Docs -> BOOLEAN]
    /\ X \subseteq RegionsOf(req[t].doc)
    /\ cmeta' = Put(cmeta, X, Nil)
    /\ dirty' = (dirty \ C) \ X
    /\ \/ docCached' = docCached
       \/ docCached' = docCached \ {req[t].doc} /\ X = RegionsOf(req[t].doc)
    /\ o = "ok" => S \subseteq X
    /\ ~ShallowErase => X \cap (dirty \ C) \subseteq S
    /\ ~ShallowErase /\ o = "failed" => X \cap (dirty \ C) = {}

LEMMA CallKeepsInv ==
    ASSUME Inv, NEW t \in Threads,
           NEW W, NEW C, NEW S, NEW nm, NEW o, NEW X,
           CallEffect(t, W, C, S, nm, o, X)
    PROVE  Inv'
<1> USE DEF CallEffect
<1> USE DEF Inv
<1>0. \A r \in Regions : cmeta'[r] = IF r \in X THEN Nil ELSE cmeta[r]
    BY DEF Put
<1>1. CoreType'
  <2>a. WrittenBack(W) \in Metas
    BY DEF WrittenBack, CoreType, Metas
  <2>b. cmeta' \in Metas
    BY DEF Put, CoreType, Metas
  <2>1. meta' \in Metas /\ data' \in Remotes /\ cmeta' \in Metas
    BY <2>a, <2>b
  <2>2. ackMeta' \in [Regions -> Vals \cup {Nil, Unknown}]
    BY DEF Acked, CoreType, Metas
  <2>3. ackData' \in [Regions -> DataVals \cup {Nil, Unknown}]
    BY DEF Acks
  <2>4. /\ holder' \in [Stripes -> Threads \cup {NoThread}]
        /\ at' \in [Threads -> {"idle", "lockAll", "body", "evict", "lookup", "update"}]
        /\ req' \in [Threads -> [doc : Docs \cup {Nil}, reg : Regions \cup {Nil}, val : Vals \cup {Nil}]]
        /\ mutex' \in Threads \cup {NoThread}
    BY DEF Release, CoreType, NoReq
  <2> QED
    BY <2>1, <2>2, <2>3, <2>4 DEF CoreType, Metas, Remotes
<1>2. LockInv' /\ WorkInv'
    BY <1>0, CallEnds DEF RegionsOf
<1>3. CacheInv'
    BY <1>0 DEF CacheInv, RegionsOf, CoreType
<1>4. AckedSafe'
  <2> SUFFICES ASSUME ~ShallowErase PROVE AckedReadable' /\ Kept'
    BY DEF AckedSafe
  <2>1. AckedReadable /\ Kept
    BY DEF AckedSafe
  <2>2. W \in SUBSET dirty
    OBVIOUS
  <2>3. \A r \in Regions :
            \/ cmeta'[r] = Nil /\ r \notin dirty'
            \/ cmeta'[r] = cmeta[r] /\ (r \in dirty' <=> r \in dirty \ C)
    <3> TAKE r \in Regions
    <3>1. CASE r \in X
      BY <3>1, <1>0
    <3>2. CASE r \notin X
      <4>1. cmeta'[r] = cmeta[r]
        BY <3>2, <1>0
      <4>2. r \in dirty' <=> r \in dirty \ C
        BY <3>2, Zenon
      <4> QED
        BY <4>1, <4>2
    <3> QED
      BY <3>1, <3>2
  <2>4. o = "ok" => \A r \in S : cmeta'[r] = Nil /\ r \notin dirty'
    BY <1>0
  <2>5. \A r \in Regions : cmeta'[r] = Nil /\ cmeta[r] # Nil /\ (r \in S => o = "failed")
                                 => r \notin dirty \ C
    BY <1>0
  <2>6. C \in SUBSET W /\ S \in SUBSET Regions /\ o \in {"ok", "failed", "lost"}
    OBVIOUS
  <2>7. CoreType /\ CacheInv
    OBVIOUS
  <2>8. Harmless(W, C, S, nm, o)
    BY <2>2, <2>3, <2>4, <2>5, <2>6 DEF Harmless
  <2> QED
    BY <2>1, <2>7, <2>8, CommandKeepsAcked
<1> QED
    BY <1>1, <1>2, <1>3, <1>4

-----------------------------------------------------------------------------
(* The calls.                                                              *)

LEMMA OutcomesFacts == Outcomes \subseteq {"ok", "failed", "lost"}
  BY DEF Outcomes

LEMMA WrittenFacts ==
    ASSUME CoreType
    PROVE  /\ \A W \in SUBSET Regions : WrittenBack(W) \in Metas /\ Merged(W) = data
           /\ WrittenBack({}) = meta
           /\ meta \in Metas /\ data \in Remotes /\ ackData \in Acks
<1>1. \A W \in SUBSET Regions : WrittenBack(W) \in Metas /\ Merged(W) = data
    BY DEF CoreType, WrittenBack, Merged, Metas
<1>2. WrittenBack({}) = meta
    BY DEF CoreType, WrittenBack
<1> QED
    BY <1>1, <1>2 DEF CoreType, Metas, Remotes, Acks

\* What Command says of the variables other than meta and ackMeta.
LEMMA CommandFacts ==
    ASSUME CoreType, NEW m, NEW x \in Remotes, NEW S, NEW nm, NEW nd \in Remotes, NEW o,
           Command(m, x, S, nm, nd, o)
    PROVE  /\ meta' = IF o = "failed" THEN m ELSE nm
           /\ ackMeta' = Acked(ackMeta, S, o, nm)
           /\ data' \in Remotes /\ ackData' \in Acks
  BY DEF Command, Acked, CoreType, Remotes, Acks

LEMMA PutFacts ==
    /\ \A f \in Metas, S \in SUBSET Regions, v \in Vals \cup {Nil} :
          Put(f, S, v) \in Metas /\ \A r \in Regions \ S : Put(f, S, v)[r] = f[r]
    /\ \A f \in Remotes, S \in SUBSET Regions, v \in DataVals \cup {Nil} : Put(f, S, v) \in Remotes
  BY DEF Put, Metas, Remotes

LEMMA KeepCacheFacts ==
    ASSUME CoreType, NEW d, NEW dd, KeepCache(d, dd)
    PROVE  docCached' = docCached /\ dirty' = dd \ {} /\ cmeta' = Put(cmeta, {}, Nil)
  BY DEF KeepCache, Put, CoreType

LEMMA SameCacheFacts ==
    ASSUME CoreType, UNCHANGED cacheVars
    PROVE  docCached' = docCached /\ dirty' = (dirty \ {}) \ {} /\ cmeta' = Put(cmeta, {}, Nil)
  BY DEF cacheVars, Put, CoreType

LEMMA RemoveDocumentFacts ==
    ASSUME NEW d, NEW dd, RemoveDocuments({d}, dd)
    PROVE  /\ docCached' = docCached \ {d}
           /\ dirty' = dd \ RegionsOf(d)
           /\ cmeta' = Put(cmeta, RegionsOf(d), Nil)
<1>1. {r \in Regions : DocOf[r] \in {d}} = RegionsOf(d)
    BY DEF RegionsOf
<1> QED
    BY <1>1 DEF RemoveDocuments

LEMMA WriteThroughInv ==
    ASSUME Inv, NEW t \in Threads, NEW r \in RegionsOf(req[t].doc),
           NEW v \in Vals \cup {Nil}, NEW nd \in DataVals \cup {Nil}, NEW b \in BOOLEAN,
           WriteThrough(t, r, v, nd, b)
    PROVE  Inv'
<1> DEFINE d == req[t].doc
<1>1. PICK f \in (IF cmeta[r] # Nil THEN FlushResults(d)
                  ELSE {[ok |-> TRUE, written |-> {}, cleaned |-> {}]}), o \in Outcomes :
          /\ Command(WrittenBack(f.written), Merged(f.written), {r},
                     Put(WrittenBack(f.written), {r}, IF v = Nil THEN WrittenBack(f.written)[r] ELSE v),
                     Put(Merged(f.written), {r}, nd), o)
          /\ ~f.ok => o = "failed"
          /\ IF o = "ok" THEN RemoveRegions(d, {r}, dirty \ f.cleaned)
             ELSE KeepCache(d, dirty \ f.cleaned)
    BY DEF WriteThrough
<1>2. f.written \subseteq dirty \cap RegionsOf(d) /\ f.cleaned \subseteq f.written
  <2>1. CASE cmeta[r] # Nil
    BY <1>1, <2>1, FlushFacts
  <2>2. CASE cmeta[r] = Nil
    BY <1>1, <2>2
  <2> QED
    BY <2>1, <2>2
<1> DEFINE m == WrittenBack(f.written)
           nm == Put(m, {r}, IF v = Nil THEN m[r] ELSE v)
           X == IF o = "ok" THEN {r} ELSE {}
<1>3. r \in Regions /\ CoreType /\ f.written \subseteq Regions
    BY <1>2 DEF RegionsOf, Inv
<1>4. m \in Metas /\ nm \in Metas /\ \A q \in Regions \ {r} : nm[q] = m[q]
  <2>1. m \in Metas
    BY <1>3, WrittenFacts
  <2>2. (IF v = Nil THEN m[r] ELSE v) \in Vals \cup {Nil} /\ {r} \in SUBSET Regions
    BY <1>3, <2>1 DEF Metas
  <2> QED
    BY <2>1, <2>2, PutFacts
<1>5. Merged(f.written) \in Remotes /\ Put(Merged(f.written), {r}, nd) \in Remotes
    BY <1>3, PutFacts, WrittenFacts
<1>6. /\ docCached' = docCached
      /\ dirty' = (dirty \ f.cleaned) \ X
      /\ cmeta' = Put(cmeta, X, Nil)
    BY <1>1, <1>3, KeepCacheFacts DEF RemoveRegions
<1>7. /\ at[t] \in Owners
      /\ Release(t)
      /\ exists' \in [Docs -> BOOLEAN]
    BY <1>3 DEF WriteThrough, Running, Owners, CoreType
<1>8. o \in {"ok", "failed", "lost"}
    BY <1>1, OutcomesFacts
<1>9. /\ meta' = IF o = "failed" THEN m ELSE nm
      /\ ackMeta' = Acked(ackMeta, {r}, o, nm)
      /\ data' \in Remotes /\ ackData' \in Acks
    BY <1>1, <1>3, <1>5, CommandFacts
<1>10. CallEffect(t, f.written, f.cleaned, {r}, nm, o, X)
    BY <1>2, <1>3, <1>4, <1>6, <1>7, <1>8, <1>9 DEF CallEffect
<1> QED
    BY <1>10, CallKeepsInv

LEMMA WriteInv ==
    ASSUME Inv, NEW t \in Threads, NEW r \in Regions,
           \/ \E v \in Vals : WriteField(t, r, v)
           \/ \E v \in Vals, x \in DataVals : WriteRegion(t, r, v, x)
           \/ \E x \in DataVals : WriteData(t, r, x)
    PROVE  Inv'
<1>1. data[r] \in DataVals \cup {Nil}
    BY DEF Inv, CoreType
<1>2. ASSUME NEW v \in Vals, WriteField(t, r, v) PROVE Inv'
  <2>1. r \in RegionsOf(req[t].doc) /\ WriteThrough(t, r, v, data[r], TRUE)
    BY <1>2 DEF WriteField
  <2> QED
    BY <1>1, <2>1, WriteThroughInv
<1>3. ASSUME NEW v \in Vals, NEW x \in DataVals, WriteRegion(t, r, v, x) PROVE Inv'
  <2>1. /\ r \in RegionsOf(req[t].doc)
        /\ WriteThrough(t, r, v, IF r \in ChatRegions THEN x ELSE Nil, FALSE)
    BY <1>3 DEF WriteRegion
  <2>2. (IF r \in ChatRegions THEN x ELSE Nil) \in DataVals \cup {Nil}
    OBVIOUS
  <2> QED
    BY <2>1, <2>2, WriteThroughInv
<1>4. ASSUME NEW x \in DataVals, WriteData(t, r, x) PROVE Inv'
  <2>1. r \in RegionsOf(req[t].doc) /\ WriteThrough(t, r, Nil, x, TRUE)
    BY <1>4 DEF WriteData
  <2> QED
    BY <2>1, WriteThroughInv
<1> QED
    BY <1>2, <1>3, <1>4

\* A call that writes dirty regions back, and nothing else.
LEMMA QuietInv ==
    ASSUME Inv, NEW t \in Threads, at[t] \in Owners, Release(t),
           NEW W, NEW C, W \subseteq dirty \cap RegionsOf(req[t].doc), C \subseteq W,
           meta' = WrittenBack(W), data' = Merged(W), dirty' = dirty \ C,
           UNCHANGED <<exists, docCached, cmeta, ackMeta, ackData>>
    PROVE  Inv'
<1>1. CoreType /\ W \in SUBSET Regions
    BY DEF Inv, RegionsOf
<1>2. WrittenBack(W) \in Metas /\ data' \in Remotes /\ ackData' \in Acks
    BY <1>1, WrittenFacts
<1>3. ackMeta' = Acked(ackMeta, {}, "failed", WrittenBack(W))
    BY <1>1 DEF CoreType, Acked
<1>4. exists' \in [Docs -> BOOLEAN] /\ cmeta' = Put(cmeta, {}, Nil)
    BY <1>1 DEF CoreType, Put
<1>5. CallEffect(t, W, C, {}, WrittenBack(W), "failed", {})
    BY <1>1, <1>2, <1>3, <1>4 DEF CallEffect
<1> QED
    BY <1>5, CallKeepsInv

LEMMA ReadDocumentInv ==
    ASSUME Inv, NEW t \in Threads, ReadDocument(t) \/ AnswerRead(t)
    PROVE  Inv'
<1>1. CoreType /\ WrittenBack({}) = meta /\ Merged({}) = data
    BY WrittenFacts DEF Inv
<1>2. /\ at[t] \in Owners /\ Release(t) /\ dirty' = dirty \ {}
      /\ UNCHANGED <<exists, meta, data, docCached, cmeta, ackMeta, ackData>>
    BY DEF ReadDocument, AnswerRead, Running, Owners, KeepCache, redisVars, cacheVars, ackVars
<1> QED
    BY <1>1, <1>2, QuietInv

LEMMA FlushInv ==
    ASSUME Inv, NEW t \in Threads, Flush(t)
    PROVE  Inv'
<1>1. PICK f \in FlushResults(req[t].doc) :
          /\ meta' = WrittenBack(f.written)
          /\ data' = Merged(f.written)
          /\ KeepCache(req[t].doc, dirty \ f.cleaned)
    BY DEF Flush
<1>2. f.written \subseteq dirty \cap RegionsOf(req[t].doc) /\ f.cleaned \subseteq f.written
    BY FlushFacts
<1>3. /\ at[t] \in Owners /\ Release(t) /\ dirty' = dirty \ f.cleaned
      /\ UNCHANGED <<exists, docCached, cmeta, ackMeta, ackData>>
    BY <1>1 DEF Flush, Running, Owners, KeepCache
<1> QED
    BY <1>1, <1>2, <1>3, QuietInv

\* A command without a flush: o is its outcome, and X what the cache drops.
LEMMA UnflushedInv ==
    ASSUME Inv, NEW t \in Threads, at[t] \in Owners, Release(t),
           NEW S \in SUBSET RegionsOf(req[t].doc), NEW v \in Vals \cup {Nil},
           NEW o \in Outcomes, NEW X \in SUBSET RegionsOf(req[t].doc),
           meta' = IF o = "failed" THEN meta ELSE Put(meta, S, v),
           ackMeta' = Acked(ackMeta, S, o, Put(meta, S, v)),
           data' \in Remotes, ackData' \in Acks,
           exists' \in [Docs -> BOOLEAN],
           cmeta' = Put(cmeta, X, Nil), dirty' = dirty \ X,
           \/ docCached' = docCached
           \/ docCached' = docCached \ {req[t].doc} /\ X = RegionsOf(req[t].doc),
           o = "ok" => S \subseteq X,
           o # "ok" => X = {},
           ~ShallowErase => X \subseteq S
    PROVE  Inv'
<1>1. CoreType /\ WrittenBack({}) = meta /\ meta \in Metas
    BY WrittenFacts DEF Inv
<1>2. S \in SUBSET Regions /\ X \in SUBSET Regions
    BY DEF RegionsOf
<1>3. Put(meta, S, v) \in Metas /\ \A r \in Regions \ S : Put(meta, S, v)[r] = meta[r]
    BY <1>1, <1>2, PutFacts
<1>4. o \in {"ok", "failed", "lost"}
    BY OutcomesFacts
<1>5. CallEffect(t, {}, {}, S, Put(meta, S, v), o, X)
    BY <1>1, <1>2, <1>3, <1>4 DEF CallEffect
<1> QED
    BY <1>5, CallKeepsInv

LEMMA UpdateOversizeInv ==
    ASSUME Inv, NEW t \in Threads, UpdateOversize(t)
    PROVE  Inv'
<1> DEFINE r == req[t].reg
           v == req[t].val
<1>1. PICK o \in Outcomes :
          /\ Command(meta, data, {r}, Put(meta, {r}, v), Merged({r}), o)
          /\ cmeta' = IF o = "ok" THEN [cmeta EXCEPT ![r] = Nil] ELSE cmeta
          /\ dirty' = IF o = "ok" THEN dirty \ {r} ELSE dirty
    BY DEF UpdateOversize
<1> DEFINE X == IF o = "ok" THEN {r} ELSE {}
<1>2. at[t] = "update" /\ at[t] \in Owners /\ Release(t) /\ UNCHANGED <<exists, docCached>>
    BY DEF UpdateOversize, Owners
<1>3. r \in RegionsOf(req[t].doc) /\ v \in Vals
    BY <1>2 DEF Inv, WorkInv
<1>4. CoreType /\ {r} \in SUBSET Regions /\ {r} \in SUBSET RegionsOf(req[t].doc)
    BY <1>3 DEF Inv, RegionsOf
<1>5. data \in Remotes /\ Merged({r}) \in Remotes
    BY <1>4, WrittenFacts
<1>6. /\ meta' = IF o = "failed" THEN meta ELSE Put(meta, {r}, v)
      /\ ackMeta' = Acked(ackMeta, {r}, o, Put(meta, {r}, v))
      /\ data' \in Remotes /\ ackData' \in Acks
    BY <1>1, <1>4, <1>5, CommandFacts
<1>7. cmeta' = Put(cmeta, X, Nil) /\ dirty' = dirty \ X
    BY <1>1, <1>3, <1>4 DEF Put, CoreType
<1>8. exists' \in [Docs -> BOOLEAN]
    BY <1>2, <1>4 DEF CoreType
<1> QED
    BY <1>2, <1>3, <1>4, <1>6, <1>7, <1>8, UnflushedInv

LEMMA WriteMetaOnlyInv ==
    ASSUME Inv, NEW t \in Threads, NEW r \in Regions, NEW v \in Vals, WriteMetaOnly(t, r, v)
    PROVE  Inv'
<1>1. PICK o \in Outcomes :
          /\ meta' = IF o = "failed" THEN meta ELSE Put(meta, {r}, v)
          /\ data' = IF o = "failed" THEN data ELSE Put(data, {r}, Nil)
          /\ ackMeta' = Acked(ackMeta, {r}, o, Put(meta, {r}, v))
          /\ IF o = "ok" THEN RemoveRegions(req[t].doc, {r}, dirty)
             ELSE KeepCache(req[t].doc, dirty)
    BY DEF WriteMetaOnly
<1> DEFINE X == IF o = "ok" THEN {r} ELSE {}
<1>2. CoreType /\ at[t] \in Owners /\ Release(t) /\ UNCHANGED <<exists, ackData>>
    BY DEF WriteMetaOnly, Running, Owners, Inv
<1>3. {r} \in SUBSET RegionsOf(req[t].doc) /\ {r} \in SUBSET Regions
    BY DEF WriteMetaOnly
<1>4. data' \in Remotes /\ ackData' \in Acks /\ exists' \in [Docs -> BOOLEAN]
    BY <1>1, <1>2, <1>3 DEF CoreType, Remotes, Acks, Put
<1>5. docCached' = docCached /\ cmeta' = Put(cmeta, X, Nil) /\ dirty' = dirty \ X
    BY <1>1, <1>2, KeepCacheFacts DEF RemoveRegions
<1> QED
    BY <1>1, <1>2, <1>3, <1>4, <1>5, UnflushedInv

LEMMA EraseInv ==
    ASSUME Inv, NEW t \in Threads,
           \/ EraseDocument(t)
           \/ \E r \in Regions : EraseRegion(t, r)
           \/ \E S \in SUBSET Regions : EraseParent(t, S)
    PROVE  Inv'
<1> DEFINE d == req[t].doc
           Erased(S, o) == Command(meta, data, S, Put(meta, S, Nil), Put(data, S, Nil), o)
           Same == UNCHANGED cacheVars
<1>1. CoreType /\ at[t] \in Owners /\ Release(t)
    BY DEF EraseDocument, EraseRegion, EraseParent, Running, Owners, Inv
<1>2. ASSUME NEW S \in SUBSET RegionsOf(d), NEW o \in Outcomes, Erased(S, o)
      PROVE  /\ meta' = IF o = "failed" THEN meta ELSE Put(meta, S, Nil)
             /\ ackMeta' = Acked(ackMeta, S, o, Put(meta, S, Nil))
             /\ data' \in Remotes /\ ackData' \in Acks
  <2>1. S \in SUBSET Regions /\ data \in Remotes
    BY <1>1, WrittenFacts DEF RegionsOf
  <2>2. Put(data, S, Nil) \in Remotes
    BY <2>1, PutFacts
  <2> QED
    BY <1>1, <1>2, <2>1, <2>2, CommandFacts
<1>3. ASSUME NEW o \in Outcomes,
             IF o = "ok" THEN RemoveDocuments({d}, dirty) ELSE Same
      PROVE  /\ cmeta' = Put(cmeta, IF o = "ok" THEN RegionsOf(d) ELSE {}, Nil)
             /\ dirty' = dirty \ (IF o = "ok" THEN RegionsOf(d) ELSE {})
             /\ IF o = "ok" THEN docCached' = docCached \ {d} ELSE docCached' = docCached
  <2>1. CASE o = "ok"
    BY <1>3, <2>1, RemoveDocumentFacts
  <2>2. CASE o # "ok"
    BY <1>1, <1>3, <2>2 DEF Put, CoreType, cacheVars
  <2> QED
    BY <2>1, <2>2
<1>4. RegionsOf(d) \in SUBSET RegionsOf(d) /\ {} \in SUBSET RegionsOf(d)
    OBVIOUS
<1>5. CASE EraseDocument(t)
  <2>1. PICK o \in Outcomes :
            /\ Erased(RegionsOf(d), o)
            /\ exists' = [exists EXCEPT ![d] = @ /\ o = "failed"]
            /\ IF o = "ok" THEN RemoveDocuments({d}, dirty) ELSE Same
    BY <1>5 DEF EraseDocument
  <2>2. exists' \in [Docs -> BOOLEAN]
    <3>1. \A q \in Docs : (exists[q] /\ o = "failed") \in BOOLEAN
      BY Zenon
    <3> QED
      BY <1>1, <2>1, <3>1 DEF CoreType
  <2> QED
    BY <1>1, <1>2, <1>3, <1>4, <2>1, <2>2, UnflushedInv
<1>6. ASSUME NEW r \in Regions, EraseRegion(t, r) PROVE Inv'
  <2>1. PICK o \in Outcomes :
            /\ Erased({r}, o)
            /\ IF o = "ok" THEN RemoveRegions(d, {r}, dirty) ELSE Same
    BY <1>6 DEF EraseRegion
  <2> DEFINE X == IF o = "ok" THEN {r} ELSE {}
  <2>2. {r} \in SUBSET RegionsOf(d) /\ exists' \in [Docs -> BOOLEAN]
    BY <1>1, <1>6 DEF EraseRegion, CoreType
  <2>3. docCached' = docCached /\ cmeta' = Put(cmeta, X, Nil) /\ dirty' = dirty \ X
    BY <1>1, <2>1 DEF RemoveRegions, Put, CoreType, cacheVars
  <2> QED
    BY <1>1, <1>2, <2>1, <2>2, <2>3, UnflushedInv
<1>7. ASSUME NEW S \in SUBSET Regions, EraseParent(t, S) PROVE Inv'
  <2>1. PICK o \in Outcomes :
            /\ Erased(S, o)
            /\ IF o = "ok" THEN RemoveDocuments({d}, dirty) ELSE Same
    BY <1>7 DEF EraseParent
  <2>2. S \in SUBSET RegionsOf(d) /\ ShallowErase /\ exists' \in [Docs -> BOOLEAN]
    BY <1>1, <1>7 DEF EraseParent, CoreType
  <2> QED
    BY <1>1, <1>2, <1>3, <1>4, <2>1, <2>2, UnflushedInv
<1> QED
    BY <1>5, <1>6, <1>7

\* A flush with result f, then a command with outcome o, unless the flush
\* failed; X is what the cache drops, nothing of it dirty after the flush.
FlushedCall(t, f, S, nm, nd, o, X) ==
    /\ at[t] \in Owners /\ Release(t)
    /\ f \in FlushResults(req[t].doc) /\ o \in Outcomes
    /\ ~f.ok => o = "failed" /\ X = {}
    /\ S \subseteq RegionsOf(req[t].doc) /\ X \subseteq RegionsOf(req[t].doc)
    /\ nm \in Metas /\ nd \in Remotes
    /\ \A r \in Regions \ S : nm[r] = WrittenBack(f.written)[r]
    /\ Command(WrittenBack(f.written), Merged(f.written), S, nm, nd, o)
    /\ exists' \in [Docs -> BOOLEAN]
    /\ cmeta' = Put(cmeta, X, Nil)
    /\ dirty' = (dirty \ f.cleaned) \ X
    /\ \/ docCached' = docCached
       \/ docCached' = docCached \ {req[t].doc} /\ X = RegionsOf(req[t].doc)
    /\ o = "ok" => S \subseteq X

LEMMA FlushedInv ==
    ASSUME Inv, NEW t \in Threads, NEW f, NEW S, NEW nm, NEW nd, NEW o, NEW X,
           FlushedCall(t, f, S, nm, nd, o, X)
    PROVE  Inv'
<1> DEFINE d == req[t].doc
<1>1. /\ f \in FlushResults(d) /\ o \in Outcomes
      /\ nm \in Metas /\ nd \in Remotes
      /\ Command(WrittenBack(f.written), Merged(f.written), S, nm, nd, o)
    BY DEF FlushedCall
<1>2. /\ f.written \subseteq dirty \cap RegionsOf(d) /\ f.cleaned \subseteq f.written
      /\ f.ok \in BOOLEAN /\ (f.ok => f.cleaned = dirty \cap RegionsOf(d))
    BY <1>1, FlushFacts
<1>3. CoreType /\ f.written \in SUBSET Regions
    BY <1>2 DEF Inv, RegionsOf
<1>4. Merged(f.written) \in Remotes
    BY <1>3, WrittenFacts
<1>5. /\ meta' = IF o = "failed" THEN WrittenBack(f.written) ELSE nm
      /\ ackMeta' = Acked(ackMeta, S, o, nm)
      /\ data' \in Remotes /\ ackData' \in Acks
    BY <1>1, <1>3, <1>4, CommandFacts
<1>6. o \in {"ok", "failed", "lost"}
    BY <1>1, OutcomesFacts
<1>7. X \cap (dirty \ f.cleaned) = {}
  <2>1. CASE f.ok
    BY <1>2, <2>1 DEF FlushedCall
  <2>2. CASE ~f.ok
    BY <2>2 DEF FlushedCall
  <2> QED
    BY <2>1, <2>2
<1>8. S \subseteq Regions
    BY DEF FlushedCall, RegionsOf
<1>9. CallEffect(t, f.written, f.cleaned, S, nm, o, X)
    BY <1>2, <1>5, <1>6, <1>7, <1>8 DEF CallEffect, FlushedCall
<1> QED
    BY <1>9, CallKeepsInv

LEMMA WriteAboveInv ==
    ASSUME Inv, NEW t \in Threads, NEW P \in SUBSET Regions, NEW S \in SUBSET Regions,
           NEW v \in Vals, NEW x \in DataVals, WriteAbove(t, P, S, v, x)
    PROVE  Inv'
<1> DEFINE d == req[t].doc
           m(f) == WrittenBack(f.written)
           nm(f) == Put(Put(m(f), P, Nil), S, v)
           nd(f) == Put(Put(Merged(f.written), P, Nil), S \cap ChatRegions, x)
<1>1. PICK f \in FlushResults(d), o \in Outcomes :
          /\ ~f.ok => o = "failed"
          /\ Command(m(f), Merged(f.written), P, nm(f), nd(f), o)
          /\ exists' = [exists EXCEPT ![d] = @ \/ o # "failed"]
          /\ IF o = "ok" THEN RemoveDocuments({d}, dirty \ f.cleaned)
             ELSE KeepCache(d, dirty \ f.cleaned)
    BY DEF WriteAbove
<1> DEFINE X == IF o = "ok" THEN RegionsOf(d) ELSE {}
<1>2. /\ at[t] \in Owners /\ Release(t) /\ CoreType
      /\ S \subseteq P /\ P \subseteq RegionsOf(d)
    BY DEF WriteAbove, Running, Owners, Inv
<1>3. f.written \in SUBSET Regions
    BY FlushFacts DEF RegionsOf
<1>4. m(f) \in Metas /\ Merged(f.written) \in Remotes
    BY <1>2, <1>3, WrittenFacts
<1>5. nm(f) \in Metas /\ nd(f) \in Remotes
    BY <1>4, PutFacts DEF Put, Metas, Remotes
<1>6. \A r \in Regions \ P : nm(f)[r] = m(f)[r]
    BY <1>2, <1>4 DEF Put, Metas
<1>7. exists' \in [Docs -> BOOLEAN]
  <2>1. \A q \in Docs : (exists[q] \/ o # "failed") \in BOOLEAN
    BY Zenon
  <2> QED
    BY <1>1, <1>2, <2>1 DEF CoreType
<1>8. /\ cmeta' = Put(cmeta, X, Nil)
      /\ dirty' = (dirty \ f.cleaned) \ X
      /\ IF o = "ok" THEN docCached' = docCached \ {d} ELSE docCached' = docCached
  <2>1. CASE o = "ok"
    BY <1>1, <2>1, RemoveDocumentFacts
  <2>2. CASE o # "ok"
    BY <1>1, <1>2, <2>2, KeepCacheFacts
  <2> QED
    BY <2>1, <2>2
<1>9. FlushedCall(t, f, P, nm(f), nd(f), o, X)
    BY <1>1, <1>2, <1>5, <1>6, <1>7, <1>8 DEF FlushedCall
<1> QED
    BY <1>9, FlushedInv

LEMMA EraseFieldInv ==
    ASSUME Inv, NEW t \in Threads, NEW r \in Regions, NEW v \in Vals, NEW index \in BOOLEAN,
           EraseField(t, r, v, index)
    PROVE  Inv'
<1> DEFINE d == req[t].doc
           m(f) == WrittenBack(f.written)
           n(f) == IF m(f)[r] = Nil THEN m(f) ELSE Put(m(f), {r}, v)
<1>1. PICK f \in FlushResults(d), o \in Outcomes :
          /\ ~f.ok => o = "failed"
          /\ Command(m(f), Merged(f.written), {r}, n(f), Merged(f.written), o)
          /\ IF o # "ok" THEN KeepCache(d, dirty \ f.cleaned)
             ELSE IF index THEN RemoveDocuments({d}, dirty \ f.cleaned)
             ELSE RemoveRegions(d, {r}, dirty \ f.cleaned)
    BY DEF EraseField
<1> DEFINE X == IF o # "ok" THEN {} ELSE IF index THEN RegionsOf(d) ELSE {r}
<1>2. /\ at[t] \in Owners /\ Release(t) /\ CoreType
      /\ {r} \subseteq RegionsOf(d) /\ exists' \in [Docs -> BOOLEAN]
    BY DEF EraseField, Running, Owners, Inv, CoreType
<1>3. f.written \in SUBSET Regions
    BY FlushFacts DEF RegionsOf
<1>4. m(f) \in Metas /\ Merged(f.written) \in Remotes
    BY <1>2, <1>3, WrittenFacts
<1>5. n(f) \in Metas /\ \A q \in Regions \ {r} : n(f)[q] = m(f)[q]
  <2>1. {r} \in SUBSET Regions /\ v \in Vals \cup {Nil}
    OBVIOUS
  <2>2. Put(m(f), {r}, v) \in Metas /\ \A q \in Regions \ {r} : Put(m(f), {r}, v)[q] = m(f)[q]
    BY <1>4, <2>1, PutFacts
  <2> QED
    BY <1>4, <2>2
<1>6. /\ cmeta' = Put(cmeta, X, Nil)
      /\ dirty' = (dirty \ f.cleaned) \ X
      /\ \/ docCached' = docCached
         \/ docCached' = docCached \ {d} /\ X = RegionsOf(d)
  <2>1. CASE o = "ok" /\ index
    BY <1>1, <2>1, RemoveDocumentFacts
  <2>2. CASE o = "ok" /\ ~index
    BY <1>1, <2>2 DEF RemoveRegions
  <2>3. CASE o # "ok"
    BY <1>1, <1>2, <2>3, KeepCacheFacts
  <2> QED
    BY <2>1, <2>2, <2>3
<1>7. FlushedCall(t, f, {r}, n(f), Merged(f.written), o, X)
    BY <1>1, <1>2, <1>4, <1>5, <1>6 DEF FlushedCall
<1> QED
    BY <1>7, FlushedInv

LEMMA ExecuteAtomicInv ==
    ASSUME Inv, NEW t \in Threads, NEW S \in SUBSET Regions,
           NEW v \in Vals \cup {Nil}, NEW x \in DataVals \cup {Nil},
           ExecuteAtomic(t, S, v, x)
    PROVE  Inv'
<1> DEFINE d == req[t].doc
           m(f) == WrittenBack(f.written)
           nd(f) == Put(Merged(f.written), S \cap ChatRegions, x)
<1>1. PICK f \in FlushResults(d), o \in Outcomes :
          /\ ~f.ok => o = "failed"
          /\ Command(m(f), Merged(f.written), S, Put(m(f), S, v), nd(f), o)
          /\ IF f.ok THEN RemoveRegions(d, S, dirty \ f.cleaned)
             ELSE KeepCache(d, dirty \ f.cleaned)
    BY DEF ExecuteAtomic
<1> DEFINE X == IF f.ok THEN S ELSE {}
<1>2. /\ at[t] \in Owners /\ Release(t) /\ CoreType
      /\ S \subseteq RegionsOf(d) /\ exists' \in [Docs -> BOOLEAN]
    BY DEF ExecuteAtomic, Running, Owners, Inv, CoreType
<1>3. f.written \in SUBSET Regions /\ f.ok \in BOOLEAN
    BY FlushFacts DEF RegionsOf
<1>4. m(f) \in Metas /\ Merged(f.written) \in Remotes
    BY <1>2, <1>3, WrittenFacts
<1>5. /\ Put(m(f), S, v) \in Metas
      /\ \A q \in Regions \ S : Put(m(f), S, v)[q] = m(f)[q]
    BY <1>4, PutFacts
<1>6. nd(f) \in Remotes
    BY <1>4, PutFacts
<1>7. /\ cmeta' = Put(cmeta, X, Nil)
      /\ dirty' = (dirty \ f.cleaned) \ X
      /\ docCached' = docCached
  <2>1. CASE f.ok
    BY <1>1, <2>1 DEF RemoveRegions
  <2>2. CASE ~f.ok
    BY <1>1, <1>2, <2>2, KeepCacheFacts
  <2> QED
    BY <2>1, <2>2
<1>8. o # "failed" => f.ok
    BY <1>1
<1>9. FlushedCall(t, f, S, Put(m(f), S, v), nd(f), o, X)
    BY <1>1, <1>2, <1>5, <1>6, <1>7, <1>8 DEF FlushedCall
<1> QED
    BY <1>9, FlushedInv

-----------------------------------------------------------------------------
(* Steps that do not end a call, and the ones that move regions.           *)

\* Writing dirty regions W back, cleaning C of them, dropping clean entries
\* and admitting the value Redis has.
Moves(W, C) ==
    /\ W \subseteq dirty /\ C \subseteq W
    /\ meta' = WrittenBack(W) /\ ackMeta' = ackMeta
    /\ \A r \in Regions :
          \/ cmeta'[r] = cmeta[r] /\ (r \in dirty' <=> r \in dirty \ C)
          \/ cmeta'[r] = Nil /\ r \notin dirty' /\ r \notin dirty \ C
          \/ cmeta[r] = Nil /\ cmeta'[r] = meta[r] /\ r \notin dirty'

LEMMA MovesKeepAcked ==
    ASSUME CoreType, CacheInv, AckedSafe, NEW W, NEW C, Moves(W, C)
    PROVE  AckedSafe'
<1> SUFFICES ASSUME ~ShallowErase, NEW r \in Regions, ackMeta'[r] # Unknown
             PROVE  RegionView(r)' = ackMeta'[r] /\ CopyOf(r)' = ackMeta'[r]
    BY DEF AckedSafe, AckedReadable, Kept
<1>1. RegionView(r) = ackMeta[r] /\ CopyOf(r) = ackMeta[r] /\ ackMeta'[r] = ackMeta[r]
    BY DEF AckedSafe, AckedReadable, Kept, Moves
<1>2. meta'[r] = IF r \in W THEN cmeta[r] ELSE meta[r]
    BY DEF Moves, WrittenBack
<1>3. W \subseteq dirty /\ C \subseteq W /\ (r \in dirty => cmeta[r] # Nil)
    BY DEF Moves, CacheInv
<1>4. \/ cmeta'[r] = cmeta[r] /\ (r \in dirty' <=> r \in dirty \ C)
      \/ cmeta'[r] = Nil /\ r \notin dirty' /\ r \notin dirty \ C
      \/ cmeta[r] = Nil /\ cmeta'[r] = meta[r] /\ r \notin dirty'
    BY DEF Moves
<1> QED
    BY <1>1, <1>2, <1>3, <1>4 DEF RegionView, CopyOf

\* A step that changes neither Redis nor the cached regions.
LEMMA SameAcked ==
    ASSUME AckedSafe, UNCHANGED <<meta, cmeta, dirty, ackMeta>>
    PROVE  AckedSafe'
  BY DEF AckedSafe, AckedReadable, Kept, RegionView, CopyOf

LEMMA LockStepInv ==
    ASSUME Inv, NEW t \in Threads,
           (\E d \in Docs : LockDocument(t, d)) \/ (\E s \in Stripes : LockNextStripe(t, s))
    PROVE  Inv'
<1>1. /\ UNCHANGED <<redisVars, cacheVars, mutex, ackVars>>
      /\ at[t] \notin Owners
      /\ \E s \in Stripes : holder[s] = NoThread /\ holder' = [holder EXCEPT ![s] = t]
      /\ at' \in {[at EXCEPT ![t] = "body"], [at EXCEPT ![t] = "lockAll"]}
    BY ConstantsAssumption DEF LockDocument, LockNextStripe, Owners
<1>2. CoreType
    BY DEF Inv
<1>3. \A u \in Threads \ {t} : at'[u] = at[u] /\ req'[u] = req[u]
    BY <1>2 DEF LockDocument, LockNextStripe, CoreType
<1>4. at'[t] \in Owners => req'[t].doc \in Docs /\ holder'[StripeOf[req'[t].doc]] = t /\ at'[t] = "body"
    BY <1>2, ConstantsAssumption DEF LockDocument, LockNextStripe, CoreType, Owners, NoReq
<1>5. CoreType'
  <2>1. req' \in [Threads -> [doc : Docs \cup {Nil}, reg : Regions \cup {Nil}, val : Vals \cup {Nil}]]
    BY <1>2 DEF LockDocument, LockNextStripe, CoreType, NoReq
  <2> QED
    BY <1>1, <1>2, <2>1 DEF CoreType, redisVars, cacheVars, ackVars
<1>6. LockInv'
  <2> SUFFICES ASSUME NEW u \in Threads, at'[u] \in Owners
               PROVE  req'[u].doc \in Docs /\ holder'[StripeOf[req'[u].doc]] = u
    BY DEF LockInv
  <2>1. CASE u = t
    BY <1>4, <2>1
  <2>2. CASE u # t
    <3>1. at[u] \in Owners /\ req'[u] = req[u]
      BY <1>3, <2>2
    <3>2. req[u].doc \in Docs /\ holder[StripeOf[req[u].doc]] = u
      BY <3>1 DEF Inv, LockInv
    <3>3. holder'[StripeOf[req[u].doc]] = u
      BY <1>1, <1>2, <3>2, ConstantsAssumption DEF CoreType
    <3> QED
      BY <3>1, <3>2, <3>3
  <2> QED
    BY <2>1, <2>2
<1>7. WorkInv'
    BY <1>1, <1>3, <1>4 DEF Inv, WorkInv, Owners, cacheVars, RegionsOf
<1>8. CacheInv'
    BY <1>1 DEF Inv, CacheInv, cacheVars
<1>9. AckedSafe'
    BY <1>1, SameAcked DEF Inv, cacheVars, redisVars, ackVars
<1> QED
    BY <1>5, <1>6, <1>7, <1>8, <1>9 DEF Inv

\* The invariant's types that a step of t inside a call can disturb.
ReqType == [doc : Docs \cup {Nil}, reg : Regions \cup {Nil}, val : Vals \cup {Nil}]

LEMMA FindInv ==
    ASSUME Inv, NEW t \in Threads, NEW r \in Regions,
           FindCache(t, r) \/ BeginEviction(t, r) \/ \E v \in Vals : WriteFind(t, r, v)
    PROVE  Inv'
<1>1. /\ at[t] \in Owners /\ CoreType /\ r \in RegionsOf(req[t].doc)
      /\ UNCHANGED <<redisVars, cmeta, dirty, holder, ackVars>>
    BY DEF FindCache, BeginEviction, WriteFind, Running, Owners, Inv, Holding, CachedRegions, cacheVars
<1>2. req[t].doc \in Docs
    BY <1>1 DEF Inv, LockInv
<1>3. docCached \subseteq docCached' /\ docCached' \subseteq Docs
    BY <1>1, <1>2 DEF FindCache, BeginEviction, WriteFind, CoreType, cacheVars
<1>4. \A u \in Threads \ {t} : at'[u] = at[u] /\ req'[u] = req[u]
    BY <1>1 DEF FindCache, BeginEviction, WriteFind, CoreType
<1>5. /\ req'[t].doc = req[t].doc /\ req'[t].reg = r
      /\ at'[t] \in Owners
      /\ at'[t] = "lookup" => req[t].doc \in docCached'
      /\ at'[t] = "update" => req'[t].val \in Vals /\ cmeta[r] # Nil
    BY <1>1 DEF FindCache, BeginEviction, WriteFind, CoreType, Owners, CachedRegions
<1>6. CoreType'
  <2>1. req' \in [Threads -> ReqType]
    <3>1. req \in [Threads -> ReqType]
      BY <1>1 DEF CoreType, ReqType
    <3>2. CASE FindCache(t, r) \/ BeginEviction(t, r)
      <4>1. req' = [req EXCEPT ![t].reg = r]
        BY <3>2 DEF FindCache, BeginEviction
      <4> QED
        BY <3>1, <4>1 DEF ReqType
    <3>3. ASSUME NEW v \in Vals, WriteFind(t, r, v) PROVE req' \in [Threads -> ReqType]
      <4>1. req' = [req EXCEPT ![t].reg = r, ![t].val = v]
        BY <3>3 DEF WriteFind
      <4> QED
        BY <3>1, <4>1 DEF ReqType
    <3> QED
      BY <3>2, <3>3
  <2>2. /\ at' \in [Threads -> {"idle", "lockAll", "body", "evict", "lookup", "update"}]
        /\ mutex' \in Threads \cup {NoThread}
    BY <1>1 DEF FindCache, BeginEviction, WriteFind, CoreType, Holding
  <2> QED
    BY <1>1, <1>3, <2>1, <2>2 DEF CoreType, ReqType, redisVars, ackVars
<1>7. LockInv'
    BY <1>1, <1>4, <1>5 DEF Inv, LockInv
<1>8. WorkInv'
    BY <1>1, <1>3, <1>4, <1>5 DEF Inv, WorkInv, RegionsOf
<1>9. CacheInv'
    BY <1>1, <1>3 DEF Inv, CacheInv
<1>10. AckedSafe'
    BY <1>1, SameAcked DEF Inv, redisVars, ackVars
<1> QED
    BY <1>6, <1>7, <1>8, <1>9, <1>10 DEF Inv

\* The scan for a document to evict: a candidate is touched only while nobody
\* owns its stripe, so no thread is in the middle of a call on it.
LEMMA ScanInv ==
    ASSUME Inv, NEW t \in Threads, SkipCandidate(t) \/ EvictCandidate(t)
    PROVE  Inv'
<1> DEFINE c == docLru[scan]
           d == req[t].doc
<1>1. CoreType /\ CacheInv /\ AckedSafe /\ at[t] = "evict" /\ d \in Docs
    BY DEF Inv, SkipCandidate, EvictCandidate, LockInv, Owners
<1>2. CASE SkipCandidate(t) /\ UNCHANGED <<meta, data, dirty>>
  <2>1. /\ UNCHANGED <<exists, meta, data, docCached, cmeta, dirty>>
        /\ UNCHANGED <<mutex, holder, at, req, ackMeta, ackData>>
    BY <1>2 DEF SkipCandidate, ackVars
  <2>2. CoreType'
    BY <1>1, <2>1 DEF CoreType
  <2>3. LockInv' /\ WorkInv' /\ CacheInv'
    BY <2>1 DEF Inv, LockInv, WorkInv, CacheInv
  <2>4. AckedSafe'
    BY <1>1, <2>1, SameAcked
  <2> QED
    BY <2>2, <2>3, <2>4 DEF Inv
<1>3. ASSUME NEW f \in FlushResults(c),
             meta' = WrittenBack(f.written), data' = Merged(f.written), dirty' = dirty \ f.cleaned,
             UNCHANGED <<exists, holder, req, ackMeta, ackData>>
      PROVE  /\ f.written \subseteq dirty \cap RegionsOf(c) /\ f.cleaned \subseteq f.written
             /\ f.ok => f.cleaned = dirty \cap RegionsOf(c)
             /\ meta' \in Metas /\ data' \in Remotes /\ dirty' \in SUBSET Regions
  <2>1. /\ f.written \subseteq dirty \cap RegionsOf(c) /\ f.cleaned \subseteq f.written
        /\ f.ok => f.cleaned = dirty \cap RegionsOf(c)
    BY FlushFacts
  <2>2. f.written \in SUBSET Regions
    BY <2>1 DEF RegionsOf
  <2>3. WrittenBack(f.written) \in Metas /\ Merged(f.written) \in Remotes
    BY <1>1, <2>2, WrittenFacts
  <2> QED
    BY <1>1, <1>3, <2>1, <2>3 DEF CoreType
<1>4. CASE SkipCandidate(t) /\ \E f \in FlushResults(c) :
                /\ ~f.ok
                /\ meta' = WrittenBack(f.written)
                /\ data' = Merged(f.written)
                /\ dirty' = dirty \ f.cleaned
  <2>1. PICK f \in FlushResults(c) : /\ meta' = WrittenBack(f.written)
                                     /\ data' = Merged(f.written)
                                     /\ dirty' = dirty \ f.cleaned
    BY <1>4
  <2>2. UNCHANGED <<exists, docCached, cmeta, mutex, holder, at, req, ackMeta, ackData>>
    BY <1>4 DEF SkipCandidate, ackVars
  <2>3. /\ f.written \subseteq dirty \cap RegionsOf(c) /\ f.cleaned \subseteq f.written
        /\ meta' \in Metas /\ data' \in Remotes /\ dirty' \in SUBSET Regions
    BY <1>3, <2>1, <2>2
  <2>4. CoreType'
    BY <1>1, <2>2, <2>3 DEF CoreType, Metas, Remotes
  <2>5. LockInv' /\ WorkInv'
    BY <2>2 DEF Inv, LockInv, WorkInv
  <2>6. CacheInv'
    BY <1>1, <2>1, <2>2 DEF CacheInv
  <2>7. Moves(f.written, f.cleaned)
    BY <2>1, <2>2, <2>3 DEF Moves
  <2> QED
    BY <1>1, <2>4, <2>5, <2>6, <2>7, MovesKeepAcked DEF Inv
<1>5. CASE EvictCandidate(t)
  <2>1. PICK f \in FlushResults(c) : /\ f.ok
                                     /\ meta' = WrittenBack(f.written)
                                     /\ data' = Merged(f.written)
                                     /\ dirty' = dirty \ f.cleaned
    BY <1>5 DEF EvictCandidate
  <2>2. /\ UNCHANGED <<exists, holder, req, ackMeta, ackData>>
        /\ holder[StripeOf[c]] = NoThread
        /\ cmeta' = Put(cmeta, RegionsOf(c), Nil)
        /\ docCached' = (docCached \ {c}) \cup {d}
        /\ mutex' = NoThread
        /\ at' = [at EXCEPT ![t] = "lookup"]
    BY <1>5 DEF EvictCandidate, TryLock, ackVars
  <2>3. /\ f.written \subseteq dirty \cap RegionsOf(c)
        /\ f.cleaned = dirty \cap RegionsOf(c)
        /\ f.cleaned \subseteq f.written
        /\ meta' \in Metas /\ data' \in Remotes /\ dirty' \in SUBSET Regions
    BY <1>3, <2>1, <2>2
  <2>4. \A r \in Regions : cmeta'[r] = IF r \in RegionsOf(c) THEN Nil ELSE cmeta[r]
    BY <2>2 DEF Put
  <2>5. CoreType'
    <3>1. cmeta' \in Metas
      BY <1>1, <2>2 DEF Put, CoreType, Metas
    <3> QED
      BY <1>1, <2>2, <2>3, <3>1 DEF CoreType, Metas, Remotes
  <2>6. \A u \in Threads \ {t} : at'[u] = at[u]
    BY <1>1, <2>2 DEF CoreType
  <2>7. at'[t] = "lookup"
    BY <1>1, <2>2 DEF CoreType
  <2>8. LockInv'
    BY <1>1, <2>2, <2>6, <2>7 DEF Inv, LockInv, Owners
  <2>9. \A u \in Threads : at[u] \in Owners => req[u].doc # c
    BY <2>2, ConstantsAssumption DEF Inv, LockInv
  <2>10. WorkInv'
    <3> SUFFICES ASSUME NEW u \in Threads
                 PROVE  /\ at'[u] \in {"evict", "lookup", "update"} => req[u].reg \in RegionsOf(req[u].doc)
                        /\ at'[u] = "lookup" => req[u].doc \in docCached'
                        /\ at'[u] = "update" => /\ req[u].val \in Vals
                                                /\ cmeta'[req[u].reg] # Nil
      BY <2>2 DEF WorkInv, RegionsOf
    <3>1. CASE u = t
      BY <1>1, <2>2, <2>7, <3>1 DEF Inv, WorkInv
    <3>2. CASE u # t
      BY <2>2, <2>4, <2>6, <2>9, <3>2 DEF Inv, WorkInv, Owners, RegionsOf
    <3> QED
      BY <3>1, <3>2
  <2>11. CacheInv'
    BY <1>1, <2>1, <2>2, <2>3, <2>4 DEF CacheInv, RegionsOf, CoreType
  <2>12. Moves(f.written, f.cleaned)
    BY <2>1, <2>2, <2>3, <2>4 DEF Moves
  <2> QED
    BY <1>1, <2>5, <2>8, <2>10, <2>11, <2>12, MovesKeepAcked DEF Inv
<1> QED
    BY <1>2, <1>4, <1>5 DEF SkipCandidate

LEMMA NoCandidateInv ==
    ASSUME Inv, NEW t \in Threads, NoCandidate(t)
    PROVE  Inv'
<1>1. /\ at[t] \in Owners /\ CoreType
      /\ UNCHANGED <<exists, meta, data, docCached, cmeta, dirty, ackMeta, ackData>>
      /\ mutex' = NoThread
      /\ holder' = [s \in Stripes |-> IF holder[s] = t THEN NoThread ELSE holder[s]]
      /\ at' = [at EXCEPT ![t] = "idle"]
      /\ req' = [req EXCEPT ![t] = NoReq]
    BY DEF NoCandidate, Owners, Inv, redisVars, cacheVars, ackVars
<1>2. CoreType'
  <2>1. req' \in [Threads -> ReqType]
    BY <1>1 DEF CoreType, ReqType, NoReq
  <2> QED
    BY <1>1, <2>1 DEF CoreType, ReqType
<1>3. \A u \in Threads \ {t} : at'[u] = at[u] /\ req'[u] = req[u]
    BY <1>1 DEF CoreType
<1>4. at'[t] = "idle"
    BY <1>1 DEF CoreType
<1>5. LockInv'
    BY <1>1, <1>3, <1>4, ConstantsAssumption DEF Inv, LockInv, Owners
<1>6. WorkInv' /\ CacheInv'
    BY <1>1, <1>3, <1>4 DEF Inv, WorkInv, CacheInv, RegionsOf
<1>7. AckedSafe'
    BY <1>1, SameAcked DEF Inv
<1> QED
    BY <1>2, <1>5, <1>6, <1>7 DEF Inv

LEMMA AdmitInv ==
    ASSUME Inv, NEW t \in Threads, Admit(t)
    PROVE  Inv'
<1> DEFINE r == req[t].reg
           d == req[t].doc
           Same == UNCHANGED <<meta, data, dirty>>
           WriteFails(w) ==
               \E W \in {{}} \cup (IF LostReplies /\ CanWriteBack(w) THEN {{w}} ELSE {}) :
                  meta' = WrittenBack(W) /\ data' = Merged(W)
<1>1. CoreType /\ CacheInv /\ AckedSafe /\ at[t] = "lookup" /\ at[t] \in Owners
    BY DEF Inv, Admit, Owners
<1>2. /\ r \in RegionsOf(d) /\ r \in Regions /\ d \in docCached /\ DocOf[r] = d
      /\ cmeta[r] = Nil /\ meta[r] \in Vals /\ meta[r] # Nil
      /\ Release(t) /\ UNCHANGED <<exists, docCached, ackMeta, ackData>>
    BY <1>1, ConstantsAssumption DEF Inv, WorkInv, Admit, RegionsOf, ackVars, CoreType
<1>3. r \notin dirty
    BY <1>1, <1>2 DEF CacheInv
<1>4. ASSUME NEW W \in SUBSET dirty, NEW C \in SUBSET W, NEW w \in RegionsOf(d),
             w \notin dirty \ C,
             meta' = WrittenBack(W), data' = Merged(W), dirty' = dirty \ C,
             \/ cmeta' = cmeta
             \/ cmeta' = [cmeta EXCEPT ![r] = meta[r]]
             \/ cmeta' = [cmeta EXCEPT ![w] = Nil, ![r] = meta[r]]
      PROVE  Inv'
  <2>1. W \in SUBSET Regions /\ w \in Regions
    BY <1>1 DEF CoreType, RegionsOf
  <2>2. meta' \in Metas /\ data' \in Remotes
    BY <1>1, <1>4, <2>1, WrittenFacts
  <2>3. \A q \in Regions \ {r, w} : cmeta'[q] = cmeta[q]
    BY <1>1, <1>4 DEF CoreType
  <2>4. /\ cmeta'[r] = cmeta[r] \/ cmeta'[r] = meta[r]
        /\ w # r => cmeta'[w] = cmeta[w] \/ cmeta'[w] = Nil
    BY <1>1, <1>2, <1>4, <2>1 DEF CoreType
  <2>5. cmeta' \in Metas
    BY <1>1, <1>2, <1>4 DEF CoreType, Metas
  <2>6. CoreType'
    <3>1. req' \in [Threads -> ReqType]
      BY <1>1, <1>2 DEF Release, CoreType, ReqType, NoReq
    <3>2. /\ holder' \in [Stripes -> Threads \cup {NoThread}]
          /\ at' \in [Threads -> {"idle", "lockAll", "body", "evict", "lookup", "update"}]
          /\ mutex' \in Threads \cup {NoThread}
      BY <1>1, <1>2 DEF Release, CoreType
    <3> QED
      BY <1>1, <1>2, <1>4, <2>2, <2>5, <3>1, <3>2 DEF CoreType, Metas, Remotes, ReqType
  <2>7. LockInv' /\ WorkInv'
    <3>1. \A q \in Regions : DocOf[q] # d => cmeta'[q] = cmeta[q]
      BY <1>2, <2>3 DEF RegionsOf
    <3> QED
      BY <1>1, <1>2, <3>1, CallEnds DEF Inv
  <2>8. CacheInv'
    BY <1>1, <1>2, <1>3, <1>4, <2>3, <2>4, <2>1 DEF CacheInv, CoreType, RegionsOf
  <2>9. Moves(W, C)
    <3>1. \A q \in Regions :
              \/ cmeta'[q] = cmeta[q] /\ (q \in dirty' <=> q \in dirty \ C)
              \/ cmeta'[q] = Nil /\ q \notin dirty' /\ q \notin dirty \ C
              \/ cmeta[q] = Nil /\ cmeta'[q] = meta[q] /\ q \notin dirty'
      BY <1>2, <1>3, <1>4, <2>3, <2>4
    <3> QED
      BY <1>2, <1>4, <3>1 DEF Moves
  <2> QED
    BY <1>1, <2>6, <2>7, <2>8, <2>9, MovesKeepAcked DEF Inv
<1>5. \/ Same /\ cmeta' = [cmeta EXCEPT ![r] = meta[r]]
      \/ \E w \in CachedRegions(d) :
            \/ w \notin dirty /\ Same /\ cmeta' = [cmeta EXCEPT ![w] = Nil, ![r] = meta[r]]
            \/ /\ w \in dirty
               /\ meta' = WrittenBack({w}) /\ data' = Merged({w}) /\ dirty' = dirty \ {w}
               /\ cmeta' = [cmeta EXCEPT ![w] = Nil, ![r] = meta[r]]
            \/ w \in dirty /\ WriteFails(w) /\ UNCHANGED <<cmeta, dirty>>
    BY DEF Admit
<1>6. WrittenBack({}) = meta /\ Merged({}) = data
    BY <1>1, WrittenFacts
<1>7. {} \in SUBSET dirty /\ {} \in SUBSET {} /\ dirty \ {} = dirty
    OBVIOUS
<1>8. CASE Same /\ cmeta' = [cmeta EXCEPT ![r] = meta[r]]
    BY <1>2, <1>3, <1>4, <1>6, <1>7, <1>8
<1>9. ASSUME NEW w \in CachedRegions(d), w \notin dirty, Same,
             cmeta' = [cmeta EXCEPT ![w] = Nil, ![r] = meta[r]]
      PROVE  Inv'
  <2>1. w \in RegionsOf(d)
    BY DEF CachedRegions
  <2> QED
    BY <1>4, <1>6, <1>7, <1>9, <2>1
<1>10. ASSUME NEW w \in CachedRegions(d), w \in dirty,
              meta' = WrittenBack({w}), data' = Merged({w}), dirty' = dirty \ {w},
              cmeta' = [cmeta EXCEPT ![w] = Nil, ![r] = meta[r]]
       PROVE  Inv'
  <2>1. w \in RegionsOf(d) /\ {w} \in SUBSET dirty /\ {w} \in SUBSET {w} /\ w \notin dirty \ {w}
    BY <1>10 DEF CachedRegions
  <2> QED
    BY <1>4, <1>10, <2>1
<1>11. ASSUME NEW w \in CachedRegions(d), w \in dirty, WriteFails(w), UNCHANGED <<cmeta, dirty>>
       PROVE  Inv'
  <2>1. PICK W \in SUBSET {w} : meta' = WrittenBack(W) /\ data' = Merged(W)
    BY <1>11
  <2>2. W \in SUBSET dirty /\ {} \in SUBSET W /\ r \notin dirty \ {}
    BY <1>3, <1>11
  <2> QED
    BY <1>2, <1>4, <1>7, <1>11, <2>1, <2>2
<1> QED
    BY <1>5, <1>8, <1>9, <1>10, <1>11

LEMMA UpdateInv ==
    ASSUME Inv, NEW t \in Threads, Update(t)
    PROVE  Inv'
<1> DEFINE r == req[t].reg
           v == req[t].val
           d == req[t].doc
<1>1. CoreType /\ CacheInv /\ AckedSafe /\ at[t] = "update" /\ at[t] \in Owners
    BY DEF Inv, Update, Owners
<1>2. r \in RegionsOf(d) /\ r \in Regions /\ DocOf[r] = d /\ v \in Vals /\ v # Nil /\ cmeta[r] # Nil
    BY <1>1, ConstantsAssumption DEF Inv, WorkInv, RegionsOf
<1>3. d \in docCached
    BY <1>1, <1>2 DEF CacheInv
<1>4. /\ cmeta' = [cmeta EXCEPT ![r] = v] /\ dirty' = dirty \cup {r}
      /\ ackMeta' = [ackMeta EXCEPT ![r] = v]
      /\ Release(t) /\ UNCHANGED <<exists, meta, data, docCached, ackData>>
    BY <1>3 DEF Update, redisVars
<1>5. CoreType'
  <2>1. req' \in [Threads -> ReqType]
    BY <1>1, <1>4 DEF Release, CoreType, ReqType, NoReq
  <2>2. /\ holder' \in [Stripes -> Threads \cup {NoThread}]
        /\ at' \in [Threads -> {"idle", "lockAll", "body", "evict", "lookup", "update"}]
        /\ mutex' \in Threads \cup {NoThread}
    BY <1>1, <1>4 DEF Release, CoreType
  <2> QED
    BY <1>1, <1>2, <1>4, <2>1, <2>2 DEF CoreType, ReqType
<1>6. \A q \in Regions \ {r} : cmeta'[q] = cmeta[q] /\ ackMeta'[q] = ackMeta[q] /\ (q \in dirty' <=> q \in dirty)
    BY <1>1, <1>4 DEF CoreType
<1>7. cmeta'[r] = v /\ ackMeta'[r] = v /\ r \in dirty'
    BY <1>1, <1>2, <1>4 DEF CoreType
<1>8. LockInv' /\ WorkInv'
  <2>1. \A q \in Regions : DocOf[q] # d => cmeta'[q] = cmeta[q]
    BY <1>2, <1>6
  <2> QED
    BY <1>1, <1>4, <2>1, CallEnds DEF Inv
<1>9. CacheInv'
    BY <1>1, <1>2, <1>3, <1>4, <1>6, <1>7 DEF CacheInv, CoreType
<1>10. AckedSafe'
    BY <1>1, <1>2, <1>4, <1>6, <1>7 DEF AckedSafe, AckedReadable, Kept, RegionView, CopyOf
<1> QED
    BY <1>5, <1>8, <1>9, <1>10 DEF Inv

LEMMA ErasePatternInv ==
    ASSUME Inv, NEW t \in Threads, NEW D \in SUBSET Docs, ErasePattern(t, D)
    PROVE  Inv'
<1> DEFINE S == {r \in Regions : DocOf[r] \in D}
           Same == UNCHANGED cacheVars
<1>1. CoreType /\ CacheInv /\ AckedSafe
    BY DEF Inv
<1>2. PICK o \in Outcomes :
          /\ Command(meta, data, S, Put(meta, S, Nil), Put(data, S, Nil), o)
          /\ exists' = [d \in Docs |-> exists[d] /\ (d \notin D \/ o = "failed")]
          /\ IF o = "ok" THEN RemoveDocuments(D, dirty) ELSE Same
    BY DEF ErasePattern
<1> DEFINE X == IF o = "ok" THEN S ELSE {}
<1>3. /\ data \in Remotes /\ Put(data, S, Nil) \in Remotes
      /\ meta \in Metas /\ Put(meta, S, Nil) \in Metas
      /\ \A q \in Regions \ S : Put(meta, S, Nil)[q] = meta[q]
      /\ WrittenBack({}) = meta
    BY <1>1, PutFacts, WrittenFacts
<1>4. /\ meta' = IF o = "failed" THEN meta ELSE Put(meta, S, Nil)
      /\ ackMeta' = Acked(ackMeta, S, o, Put(meta, S, Nil))
      /\ data' \in Remotes /\ ackData' \in Acks
    BY <1>1, <1>2, <1>3, CommandFacts
<1>5. /\ cmeta' = Put(cmeta, X, Nil) /\ dirty' = dirty \ X
      /\ docCached' = IF o = "ok" THEN docCached \ D ELSE docCached
    BY <1>1, <1>2 DEF RemoveDocuments, Put, CoreType, cacheVars
<1>6. \A q \in Regions : cmeta'[q] = IF q \in X THEN Nil ELSE cmeta[q]
    BY <1>5 DEF Put
<1>7. at[t] = "lockAll" /\ Release(t) /\ \A s \in Stripes : holder[s] = t
    BY DEF ErasePattern
<1>8. \A u \in Threads \ {t} : at[u] \notin Owners /\ at'[u] = at[u]
    BY <1>1, <1>7, ConstantsAssumption DEF Inv, LockInv, Release, CoreType
<1>9. at'[t] = "idle"
    BY <1>1, <1>7 DEF Release, CoreType
<1>10. LockInv' /\ WorkInv'
    BY <1>8, <1>9 DEF LockInv, WorkInv, Owners
<1>11. CoreType'
  <2>1. req' \in [Threads -> ReqType]
    BY <1>1, <1>7 DEF Release, CoreType, ReqType, NoReq
  <2>2. /\ holder' \in [Stripes -> Threads \cup {NoThread}]
        /\ at' \in [Threads -> {"idle", "lockAll", "body", "evict", "lookup", "update"}]
        /\ mutex' \in Threads \cup {NoThread}
    BY <1>1, <1>7 DEF Release, CoreType
  <2>3. exists' \in [Docs -> BOOLEAN]
    <3>1. \A d \in Docs : (exists[d] /\ (d \notin D \/ o = "failed")) \in BOOLEAN
      BY Zenon
    <3> QED
      BY <1>2, <3>1
  <2>4. cmeta' \in Metas /\ meta' \in Metas
    BY <1>1, <1>3, <1>4, <1>5 DEF Put, CoreType, Metas
  <2>5. ackMeta' \in [Regions -> Vals \cup {Nil, Unknown}]
    BY <1>1, <1>3, <1>4 DEF Acked, CoreType, Metas
  <2>6. docCached' \in SUBSET Docs /\ dirty' \in SUBSET Regions
    BY <1>1, <1>5 DEF CoreType
  <2> QED
    BY <1>4, <2>1, <2>2, <2>3, <2>4, <2>5, <2>6 DEF CoreType, Metas, Remotes, Acks, ReqType
<1>12. CacheInv'
    BY <1>1, <1>5, <1>6 DEF CacheInv, CoreType
<1>13. AckedSafe'
  <2> SUFFICES ASSUME ~ShallowErase PROVE AckedReadable' /\ Kept'
    BY DEF AckedSafe
  <2>1. o \in {"ok", "failed", "lost"}
    BY <1>2, OutcomesFacts
  <2>2. Harmless({}, {}, S, Put(meta, S, Nil), o)
    BY <1>3, <1>5, <1>6, <2>1 DEF Harmless
  <2>3. AckedReadable /\ Kept
    BY <1>1 DEF AckedSafe
  <2>4. meta' = IF o = "failed" THEN WrittenBack({}) ELSE Put(meta, S, Nil)
    BY <1>3, <1>4
  <2> QED
    BY <1>1, <1>4, <2>2, <2>3, <2>4, CommandKeepsAcked
<1> QED
    BY <1>10, <1>11, <1>12, <1>13 DEF Inv

-----------------------------------------------------------------------------
(* The invariant holds.                                                    *)

LEMMA InitInv == Init => Inv
<1> SUFFICES ASSUME Init PROVE Inv
    OBVIOUS
<1>1. CoreType
    BY DEF Init, CoreType, NoReq
<1>2. LockInv /\ WorkInv /\ CacheInv
    BY DEF Init, LockInv, WorkInv, CacheInv, Owners
<1>3. AckedSafe
    BY DEF Init, AckedSafe, AckedReadable, Kept, RegionView, CopyOf
<1> QED
    BY <1>1, <1>2, <1>3 DEF Inv

LEMMA NextInv == Inv /\ [Next]_vars => Inv'
<1> SUFFICES ASSUME Inv, [Next]_vars PROVE Inv'
    OBVIOUS
<1>1. CASE UNCHANGED vars
  <2>1. UNCHANGED <<exists, meta, data, docCached, cmeta, dirty, mutex, holder, at, req, ackMeta, ackData>>
    BY <1>1 DEF vars, redisVars, cacheVars, ackVars
  <2>2. CoreType'
    BY <2>1 DEF Inv, CoreType
  <2>3. LockInv' /\ WorkInv' /\ CacheInv'
    BY <2>1 DEF Inv, LockInv, WorkInv, CacheInv
  <2>4. AckedSafe'
    BY <2>1, SameAcked DEF Inv
  <2> QED
    BY <2>2, <2>3, <2>4 DEF Inv
<1>2. ASSUME NEW t \in Threads, Read(t) PROVE Inv'
    BY <1>2, ReadDocumentInv, ScanInv, NoCandidateInv, AdmitInv, FindInv DEF Read
<1>3. ASSUME NEW t \in Threads, Write(t) PROVE Inv'
  <2>1. CASE Update(t) \/ UpdateOversize(t)
    BY <2>1, UpdateInv, UpdateOversizeInv
  <2>2. ASSUME NEW r \in Regions, NEW v \in Vals,
               WriteFind(t, r, v) \/ WriteMetaOnly(t, r, v)
        PROVE  Inv'
    BY <2>2, FindInv, WriteMetaOnlyInv
  <2>3. ASSUME NEW r \in Regions,
               \/ \E v \in Vals : WriteField(t, r, v)
               \/ \E v \in Vals, x \in DataVals : WriteRegion(t, r, v, x)
               \/ \E x \in DataVals : WriteData(t, r, x)
        PROVE  Inv'
    BY <2>3, WriteInv
  <2>4. ASSUME NEW P \in SUBSET Regions, NEW S \in SUBSET Regions, NEW v \in Vals, NEW x \in DataVals,
               WriteAbove(t, P, S, v, x)
        PROVE  Inv'
    BY <2>4, WriteAboveInv
  <2> QED
    BY <1>3, <2>1, <2>2, <2>3, <2>4 DEF Write
<1>4. ASSUME NEW t \in Threads, Erase(t) PROVE Inv'
    BY <1>4, EraseInv, EraseFieldInv, ErasePatternInv DEF Erase
<1>5. ASSUME NEW t \in Threads, NEW S \in SUBSET Regions, NEW v \in Vals \cup {Nil},
             NEW x \in DataVals \cup {Nil}, ExecuteAtomic(t, S, v, x)
      PROVE  Inv'
    BY <1>5, ExecuteAtomicInv
<1> QED
    BY <1>1, <1>2, <1>3, <1>4, <1>5, LockStepInv, FlushInv DEF Next

\* As long as no caller erases a path above the region depth, no acknowledged
\* value is lost: read(key, path) answers with it, whatever was promoted, evicted,
\* flushed or failed in between, with any interleaving.
THEOREM AcknowledgedSafe == Spec => [](~ShallowErase => AckedReadable)
<1>1. Inv => (~ShallowErase => AckedReadable)
    BY DEF Inv, AckedSafe
<1> QED
    BY <1>1, InitInv, NextInv, PTL DEF Spec

-----------------------------------------------------------------------------
(* What Redis can take.                                                    *)

\* A parent is in a document and a region has a parent; a cached region can be
\* written back, unless a call whose reply was lost may have removed it.
PlaceInv ==
    /\ PlaceType
    /\ \A r \in homes : exists[DocOf[r]]
    /\ \A r \in Regions : meta[r] # Nil => r \in homes
    /\ \A r \in doubt : cmeta[r] # Nil
    /\ \A r \in Regions \ doubt : cmeta[r] # Nil => CanWriteBack(r)

\* A step that writes the regions W back, C of them cleaned, gives the regions
\* S other values or parents, leaves L in doubt, and drops from the cache what
\* it removes from Redis.
PlaceStep(W, C, S, L) ==
    /\ W \subseteq dirty /\ C \subseteq W /\ \A r \in W : CanWriteBack(r)
    /\ S \subseteq Regions /\ L \subseteq Regions
    /\ \A r \in Regions \ S : meta'[r] = WrittenBack(W)[r] /\ (r \in homes' <=> r \in homes)
    /\ \A r \in S : meta'[r] # Nil => r \in homes'
    /\ \A r \in S \ L : cmeta'[r] # Nil => meta'[r] # Nil
    /\ \A r \in Regions : cmeta'[r] # Nil => cmeta[r] # Nil \/ meta[r] # Nil
    /\ homes' \subseteq Regions /\ \A r \in homes' : exists'[DocOf[r]]
    /\ Doubt(C, L)

LEMMA PlaceStepInv ==
    ASSUME CoreType, CacheInv, PlaceInv, NEW W, NEW C, NEW S, NEW L, PlaceStep(W, C, S, L)
    PROVE  PlaceInv'
<1> USE DEF PlaceStep
<1>1. W \subseteq Regions /\ doubt \subseteq Regions /\ \A r \in W : cmeta[r] # Nil
    BY DEF CoreType, PlaceInv, PlaceType, CacheInv
<1>2. \A r \in Regions : WrittenBack(W)[r] = IF r \in W THEN cmeta[r] ELSE meta[r]
    BY DEF WrittenBack
<1>3. doubt' = {r \in (doubt \ C) \cup L : cmeta'[r] # Nil}
    BY DEF Doubt
<1>4. PlaceType'
    BY <1>1, <1>3 DEF PlaceType
<1>5. ASSUME NEW r \in Regions, meta'[r] # Nil PROVE r \in homes'
    BY <1>1, <1>2, <1>5 DEF PlaceInv, CanWriteBack
<1>6. ASSUME NEW r \in Regions \ doubt', cmeta'[r] # Nil PROVE CanWriteBack(r)'
  <2>1. r \notin doubt \ C /\ r \notin L
    BY <1>3, <1>6
  <2>2. CASE r \in S
    BY <1>5, <1>6, <2>1, <2>2 DEF CanWriteBack
  <2>3. CASE r \notin S /\ cmeta[r] # Nil
    <3>1. CanWriteBack(r)
      BY <2>1, <2>3 DEF PlaceInv
    <3> QED
      BY <1>1, <1>2, <2>3, <3>1 DEF CanWriteBack
  <2>4. CASE r \notin S /\ cmeta[r] = Nil
    <3>1. meta'[r] = meta[r] /\ meta[r] # Nil
      BY <1>1, <1>2, <1>6, <2>4
    <3> QED
      BY <1>5, <3>1 DEF CanWriteBack
  <2> QED
    BY <2>2, <2>3, <2>4
<1>7. \A r \in doubt' : cmeta'[r] # Nil
    BY <1>3
<1> QED
    BY <1>4, <1>5, <1>6, <1>7 DEF PlaceInv

\* A step that keeps the parents and leaves nothing in doubt.
KeepStep(W, C, S) ==
    /\ W \subseteq dirty /\ C \subseteq W /\ \A r \in W : CanWriteBack(r)
    /\ S \subseteq homes
    /\ \A r \in Regions \ S : meta'[r] = WrittenBack(W)[r]
    /\ \A r \in S : cmeta'[r] # Nil => meta'[r] # Nil
    /\ \A r \in Regions : cmeta'[r] # Nil => cmeta[r] # Nil \/ meta[r] # Nil
    /\ UNCHANGED placeVars
    /\ Doubt(C, {})

LEMMA KeepPlaces ==
    ASSUME CoreType, CacheInv, PlaceInv, NEW W, NEW C, NEW S, KeepStep(W, C, S)
    PROVE  PlaceInv'
<1>1. S \subseteq Regions /\ homes \subseteq Regions /\ \A r \in homes : exists[DocOf[r]]
    BY DEF PlaceInv, PlaceType, KeepStep
<1>2. PlaceStep(W, C, S, {})
    BY <1>1 DEF PlaceStep, KeepStep
<1> QED
    BY <1>2, PlaceStepInv

\* What a flush writes back has a place in Redis.
LEMMA FlushPlaces ==
    ASSUME CoreType, NEW d, NEW f \in FlushResults(d)
    PROVE  /\ f.written \subseteq dirty /\ f.cleaned \subseteq f.written
           /\ \A r \in f.written : CanWriteBack(r)
           /\ WrittenBack(f.written) \in Metas
<1>1. /\ f.written \subseteq dirty \cap RegionsOf(d) /\ f.cleaned \subseteq f.written
      /\ \A r \in f.written : CanWriteBack(r)
    BY FlushFacts
<1>2. f.written \in SUBSET Regions
    BY <1>1 DEF RegionsOf
<1> QED
    BY <1>1, <1>2, WrittenFacts

\* The regions that are in doubt are the cached ones among them.
LEMMA SameDoubt ==
    ASSUME PlaceInv, NEW C, doubt' = doubt \ C, \A r \in doubt : cmeta'[r] # Nil
    PROVE  Doubt(C, {})
BY DEF Doubt, PlaceInv

\* Steps that change neither Redis nor which regions are cached.
LEMMA QuietPlaces ==
    ASSUME CoreType, CacheInv, PlaceInv, UNCHANGED <<exists, homes, meta, doubt>>,
           \A r \in Regions : cmeta'[r] # Nil <=> cmeta[r] # Nil
    PROVE  PlaceInv'
<1>1. doubt \subseteq Regions /\ \A r \in doubt : cmeta[r] # Nil
    BY DEF PlaceInv, PlaceType
<1>2. doubt' = doubt \ {} /\ \A r \in doubt : cmeta'[r] # Nil
    BY <1>1
<1>3. Doubt({}, {})
    BY <1>2, SameDoubt
<1>4. WrittenBack({}) = meta
    BY WrittenFacts
<1>5. KeepStep({}, {}, {})
    BY <1>3, <1>4 DEF KeepStep
<1> QED
    BY <1>5, KeepPlaces

\* The eviction scan.
LEMMA ScanPlaces ==
    ASSUME Inv, PlaceInv, NEW t \in Threads, SkipCandidate(t) \/ EvictCandidate(t)
    PROVE  PlaceInv'
<1> DEFINE c == docLru[scan]
<1>1. CoreType /\ CacheInv
    BY DEF Inv
<1>2. CASE SkipCandidate(t) /\ UNCHANGED <<meta, data, dirty, doubt>>
    BY <1>1, <1>2, QuietPlaces DEF SkipCandidate
<1>3. CASE SkipCandidate(t) /\ \E f \in FlushResults(c) : /\ meta' = WrittenBack(f.written)
                                                          /\ doubt' = doubt \ f.cleaned
  <2>1. PICK f \in FlushResults(c) : meta' = WrittenBack(f.written) /\ doubt' = doubt \ f.cleaned
    BY <1>3
  <2>2. UNCHANGED <<placeVars, cmeta>>
    BY <1>3 DEF SkipCandidate
  <2>3. Doubt(f.cleaned, {})
    BY <2>1, <2>2, SameDoubt DEF PlaceInv
  <2>4. KeepStep(f.written, f.cleaned, {})
    BY <1>1, <2>1, <2>2, <2>3, FlushPlaces DEF KeepStep
  <2> QED
    BY <1>1, <2>4, KeepPlaces
<1>4. CASE EvictCandidate(t)
  <2>1. PICK f \in FlushResults(c) : meta' = WrittenBack(f.written)
    BY <1>4 DEF EvictCandidate
  <2>2. UNCHANGED placeVars /\ Doubt({}, {}) /\ cmeta' = Put(cmeta, RegionsOf(c), Nil)
    BY <1>4 DEF EvictCandidate
  <2>3. \A r \in Regions : cmeta'[r] # Nil => cmeta[r] # Nil
    BY <2>2 DEF Put
  <2>4. KeepStep(f.written, {}, {})
    BY <1>1, <2>1, <2>2, <2>3, FlushPlaces DEF KeepStep
  <2> QED
    BY <1>1, <2>4, KeepPlaces
<1> QED
    BY <1>2, <1>3, <1>4 DEF SkipCandidate

\* Admission: Redis has the region that is admitted.
LEMMA AdmitPlaces ==
    ASSUME Inv, PlaceInv, NEW t \in Threads, Admit(t)
    PROVE  PlaceInv'
<1> DEFINE r == req[t].reg
<1>1. CoreType /\ CacheInv /\ WrittenBack({}) = meta
    BY WrittenFacts DEF Inv
<1>2. UNCHANGED placeVars /\ Doubt({}, {}) /\ meta[r] # Nil
    BY DEF Admit
<1>3. \E W \in SUBSET dirty : meta' = WrittenBack(W) /\ \A w \in W : CanWriteBack(w)
  <2>1. \/ meta' = meta
        \/ \E w \in dirty : CanWriteBack(w) /\ meta' = WrittenBack({w})
    BY <1>1 DEF Admit
  <2>2. ASSUME NEW w \in dirty, CanWriteBack(w), meta' = WrittenBack({w})
        PROVE  {w} \in SUBSET dirty /\ \A q \in {w} : CanWriteBack(q)
    BY <2>2
  <2>3. {} \in SUBSET dirty /\ \A q \in {} : CanWriteBack(q)
    OBVIOUS
  <2> QED
    BY <1>1, <2>1, <2>2, <2>3
<1>4. \A q \in Regions : cmeta'[q] # Nil => cmeta[q] # Nil \/ meta[q] # Nil
    BY <1>1, <1>2 DEF Admit, CoreType, CachedRegions, RegionsOf
<1>5. PICK W \in SUBSET dirty : meta' = WrittenBack(W) /\ \A w \in W : CanWriteBack(w)
    BY <1>3
<1>6. KeepStep(W, {}, {})
    BY <1>2, <1>4, <1>5 DEF KeepStep
<1> QED
    BY <1>1, <1>6, KeepPlaces

\* The writes to the cache.
LEMMA UpdatePlaces ==
    ASSUME Inv, PlaceInv, NEW t \in Threads, Update(t) \/ UpdateOversize(t)
    PROVE  PlaceInv'
<1> DEFINE r == req[t].reg
           v == req[t].val
<1>1. CoreType /\ CacheInv /\ WrittenBack({}) = meta /\ at[t] = "update"
    BY WrittenFacts DEF Inv, Update, UpdateOversize
<1>2. r \in Regions /\ v \in Vals /\ v # Nil /\ cmeta[r] # Nil
    BY <1>1, ConstantsAssumption DEF Inv, WorkInv, RegionsOf
<1>3. CASE Update(t)
  <2>1. \A q \in Regions : cmeta'[q] # Nil <=> cmeta[q] # Nil
    BY <1>1, <1>2, <1>3 DEF Update, CoreType
  <2> QED
    BY <1>1, <1>3, <2>1, QuietPlaces DEF Update, redisVars
<1>4. CASE UpdateOversize(t)
  <2>1. PICK o \in Outcomes :
            /\ CanWriteBack(r) \/ o = "failed"
            /\ Command(meta, data, {r}, Put(meta, {r}, v), Merged({r}), o)
            /\ cmeta' = IF o = "ok" THEN [cmeta EXCEPT ![r] = Nil] ELSE cmeta
    BY <1>4 DEF UpdateOversize
  <2> DEFINE S == IF o = "failed" THEN {} ELSE {r}
  <2>2. S \subseteq homes
    BY <2>1 DEF CanWriteBack
  <2>3. \A q \in Regions \ S : meta'[q] = WrittenBack({})[q]
    BY <1>1, <2>1 DEF Command, Put
  <2>4. \A q \in S : meta'[q] # Nil
    BY <1>2, <2>1 DEF Command, Put
  <2>5. \A q \in Regions : cmeta'[q] # Nil => cmeta[q] # Nil
    BY <1>1, <2>1 DEF CoreType
  <2>6. UNCHANGED placeVars /\ Doubt({}, {})
    BY <1>4 DEF UpdateOversize
  <2>7. KeepStep({}, {}, S)
    BY <2>2, <2>3, <2>4, <2>5, <2>6 DEF KeepStep
  <2> QED
    BY <1>1, <2>7, KeepPlaces
<1> QED
    BY <1>3, <1>4

\* The cache keeps or drops the regions it has.
LEMMA DropsOnly ==
    ASSUME NEW d, NEW S, NEW dd,
           KeepCache(d, dd) \/ RemoveRegions(d, S, dd) \/ RemoveDocuments(S, dd) \/ UNCHANGED cacheVars
    PROVE  \A r \in Regions : cmeta'[r] # Nil => cmeta[r] # Nil
BY DEF KeepCache, RemoveRegions, RemoveDocuments, cacheVars, Put

\* The writes through: what they write into is there.
LEMMA WriteThroughPlaces ==
    ASSUME Inv, PlaceInv, NEW t \in Threads, NEW r \in RegionsOf(req[t].doc),
           NEW v \in Vals \cup {Nil}, NEW nd, NEW b \in BOOLEAN, v = Nil => b,
           WriteThrough(t, r, v, nd, b)
    PROVE  PlaceInv'
<1> DEFINE d == req[t].doc
<1>1. CoreType /\ CacheInv /\ r \in Regions /\ WrittenBack({}) = meta
    BY WrittenFacts DEF Inv, RegionsOf
<1>2. PICK f \in (IF cmeta[r] # Nil THEN FlushResults(d)
                  ELSE {[ok |-> TRUE, written |-> {}, cleaned |-> {}]}), o \in Outcomes :
          /\ r \notin homes => o = "failed"
          /\ b /\ WrittenBack(f.written)[r] = Nil => o = "failed"
          /\ Command(WrittenBack(f.written), Merged(f.written), {r},
                     Put(WrittenBack(f.written), {r}, IF v = Nil THEN WrittenBack(f.written)[r] ELSE v),
                     Put(Merged(f.written), {r}, nd), o)
          /\ IF o = "ok" THEN RemoveRegions(d, {r}, dirty \ f.cleaned)
             ELSE KeepCache(d, dirty \ f.cleaned)
          /\ Doubt(f.cleaned, {})
    BY DEF WriteThrough
<1>3. /\ f.written \subseteq dirty /\ f.cleaned \subseteq f.written
      /\ \A q \in f.written : CanWriteBack(q)
  <2>1. CASE cmeta[r] # Nil
    BY <1>1, <1>2, <2>1, FlushPlaces
  <2>2. CASE cmeta[r] = Nil
    BY <1>2, <2>2
  <2> QED
    BY <2>1, <2>2
<1> DEFINE S == IF o = "failed" THEN {} ELSE {r}
<1>4. S \subseteq homes
    BY <1>2
<1>5. \A q \in Regions \ S : meta'[q] = WrittenBack(f.written)[q]
    BY <1>2 DEF Command, Put
<1>6. \A q \in S : meta'[q] # Nil
    BY <1>1, <1>2, ConstantsAssumption DEF Command, Put
<1>7. \A q \in Regions : cmeta'[q] # Nil => cmeta[q] # Nil
    BY <1>2, DropsOnly
<1>8. UNCHANGED placeVars
    BY DEF WriteThrough
<1>9. KeepStep(f.written, f.cleaned, S)
    BY <1>2, <1>3, <1>4, <1>5, <1>6, <1>7, <1>8 DEF KeepStep
<1> QED
    BY <1>1, <1>9, KeepPlaces

LEMMA WritePlaces ==
    ASSUME Inv, PlaceInv, NEW t \in Threads, NEW r \in Regions,
           \/ \E v \in Vals : WriteField(t, r, v)
           \/ \E v \in Vals, x \in DataVals : WriteRegion(t, r, v, x)
           \/ \E x \in DataVals : WriteData(t, r, x)
           \/ \E v \in Vals : WriteMetaOnly(t, r, v)
    PROVE  PlaceInv'
<1>1. ASSUME NEW v \in Vals, WriteField(t, r, v) PROVE PlaceInv'
  <2>1. r \in RegionsOf(req[t].doc) /\ WriteThrough(t, r, v, data[r], TRUE)
    BY <1>1 DEF WriteField
  <2> QED
    BY <2>1, WriteThroughPlaces
<1>2. ASSUME NEW v \in Vals, NEW x \in DataVals, WriteRegion(t, r, v, x) PROVE PlaceInv'
  <2>1. r \in RegionsOf(req[t].doc) /\ v # Nil /\ v \in Vals \cup {Nil} /\ FALSE \in BOOLEAN
    BY <1>2, ConstantsAssumption DEF WriteRegion
  <2>2. WriteThrough(t, r, v, IF r \in ChatRegions THEN x ELSE Nil, FALSE)
    BY <1>2 DEF WriteRegion
  <2> QED
    BY <2>1, <2>2, WriteThroughPlaces
<1>3. ASSUME NEW x \in DataVals, WriteData(t, r, x) PROVE PlaceInv'
  <2>1. r \in RegionsOf(req[t].doc) /\ WriteThrough(t, r, Nil, x, TRUE)
    BY <1>3 DEF WriteData
  <2> QED
    BY <2>1, WriteThroughPlaces
<1>4. ASSUME NEW v \in Vals, WriteMetaOnly(t, r, v) PROVE PlaceInv'
  <2>1. PICK o \in Outcomes :
            /\ r \notin homes => o = "failed"
            /\ meta' = IF o = "failed" THEN meta ELSE Put(meta, {r}, v)
            /\ IF o = "ok" THEN RemoveRegions(req[t].doc, {r}, dirty)
               ELSE KeepCache(req[t].doc, dirty)
    BY <1>4 DEF WriteMetaOnly
  <2>2. CoreType /\ CacheInv /\ WrittenBack({}) = meta
    BY WrittenFacts DEF Inv
  <2> DEFINE S == IF o = "failed" THEN {} ELSE {r}
  <2>3. S \subseteq homes
    BY <2>1
  <2>4. (\A q \in Regions \ S : meta'[q] = WrittenBack({})[q]) /\ \A q \in S : meta'[q] # Nil
    BY <2>1, <2>2, ConstantsAssumption DEF Put
  <2>5. \A q \in Regions : cmeta'[q] # Nil => cmeta[q] # Nil
    BY <2>1, DropsOnly
  <2>6. UNCHANGED placeVars /\ doubt' = doubt /\ cmeta[r] = Nil
    BY <1>4 DEF WriteMetaOnly
  <2>7. \A q \in doubt : cmeta'[q] # Nil
    BY <2>1, <2>6 DEF PlaceInv, PlaceType, RemoveRegions, KeepCache, Put
  <2>8. Doubt({}, {})
    BY <2>6, <2>7, SameDoubt
  <2>9. KeepStep({}, {}, S)
    BY <2>3, <2>4, <2>5, <2>6, <2>8 DEF KeepStep
  <2> QED
    BY <2>2, <2>9, KeepPlaces
<1> QED
    BY <1>1, <1>2, <1>3, <1>4

\* Above the regions: the new value has the parents T.
LEMMA WriteAbovePlaces ==
    ASSUME Inv, PlaceInv, NEW t \in Threads, NEW P \in SUBSET Regions, NEW S \in SUBSET Regions,
           NEW v \in Vals, NEW x \in DataVals, WriteAbove(t, P, S, v, x)
    PROVE  PlaceInv'
<1> DEFINE d == req[t].doc
           m(f) == WrittenBack(f.written)
           nm(f) == Put(Put(m(f), P, Nil), S, v)
           nd(f) == Put(Put(Merged(f.written), P, Nil), S \cap ChatRegions, x)
<1>1. PICK f \in FlushResults(d), o \in Outcomes, T \in SUBSET P :
          /\ S \subseteq T
          /\ Command(m(f), Merged(f.written), P, nm(f), nd(f), o)
          /\ exists' = [exists EXCEPT ![d] = @ \/ o # "failed"]
          /\ homes' = IF o = "failed" THEN homes ELSE (homes \ P) \cup T
          /\ IF o = "ok" THEN RemoveDocuments({d}, dirty \ f.cleaned)
             ELSE KeepCache(d, dirty \ f.cleaned)
          /\ Doubt(f.cleaned, IfLost(o, P))
    BY DEF WriteAbove
<1>2. CoreType /\ CacheInv /\ P \subseteq RegionsOf(d)
    BY DEF Inv, WriteAbove
<1>3. /\ f.written \subseteq dirty /\ f.cleaned \subseteq f.written
      /\ \A q \in f.written : CanWriteBack(q)
    BY <1>2, FlushPlaces
<1> DEFINE Q == IF o = "failed" THEN {} ELSE P
           L == IfLost(o, P)
<1>4. homes \subseteq Regions /\ \A q \in homes : exists[DocOf[q]]
    BY DEF PlaceInv, PlaceType
<1>5. /\ \A q \in Regions \ Q : meta'[q] = WrittenBack(f.written)[q] /\ (q \in homes' <=> q \in homes)
      /\ \A q \in Q : meta'[q] # Nil => q \in homes'
    BY <1>1 DEF Command, Put
<1>6. homes' \subseteq Regions /\ \A q \in homes' : exists'[DocOf[q]]
  <2>1. o # "failed" => \A q \in P : exists'[DocOf[q]]
    BY <1>1, <1>2, ConstantsAssumption DEF CoreType, RegionsOf
  <2>2. \A q \in homes : exists'[DocOf[q]]
    BY <1>1, <1>2, <1>4 DEF CoreType
  <2> QED
    BY <1>1, <1>4, <2>1, <2>2
<1>7. \A q \in Q \ L : cmeta'[q] = Nil
  <2>1. o \in {"ok", "failed", "lost"}
    BY <1>1, OutcomesFacts
  <2> QED
    BY <1>1, <1>2, <2>1, RemoveDocumentFacts DEF IfLost, Put
<1>8. \A q \in Regions : cmeta'[q] # Nil => cmeta[q] # Nil
    BY <1>1, DropsOnly
<1>9. Q \subseteq Regions /\ L \subseteq Regions
    BY DEF IfLost
<1>10. PlaceStep(f.written, f.cleaned, Q, L)
    BY <1>1, <1>3, <1>5, <1>6, <1>7, <1>8, <1>9 DEF PlaceStep
<1> QED
    BY <1>2, <1>10, PlaceStepInv

LEMMA FlushCallPlaces ==
    ASSUME Inv, PlaceInv, NEW t \in Threads,
           Flush(t) \/ \E r \in Regions, v \in Vals, index \in BOOLEAN : EraseField(t, r, v, index)
    PROVE  PlaceInv'
<1> DEFINE d == req[t].doc
<1>1. CoreType /\ CacheInv
    BY DEF Inv
<1>2. CASE Flush(t)
  <2>1. PICK f \in FlushResults(d) : /\ meta' = WrittenBack(f.written)
                                     /\ KeepCache(d, dirty \ f.cleaned)
                                     /\ Doubt(f.cleaned, {})
    BY <1>2 DEF Flush
  <2>2. UNCHANGED placeVars
    BY <1>2 DEF Flush
  <2>3. \A q \in Regions : cmeta'[q] # Nil => cmeta[q] # Nil
    BY <2>1, DropsOnly
  <2>4. KeepStep(f.written, f.cleaned, {})
    BY <1>1, <2>1, <2>2, <2>3, FlushPlaces DEF KeepStep
  <2> QED
    BY <1>1, <2>4, KeepPlaces
<1>3. ASSUME NEW r \in Regions, NEW v \in Vals, NEW index \in BOOLEAN, EraseField(t, r, v, index)
      PROVE  PlaceInv'
  <2> DEFINE m(f) == WrittenBack(f.written)
             n(f) == IF m(f)[r] = Nil THEN m(f) ELSE Put(m(f), {r}, v)
  <2>1. PICK f \in FlushResults(d), o \in Outcomes :
            /\ Command(m(f), Merged(f.written), {r}, n(f), Merged(f.written), o)
            /\ IF o # "ok" THEN KeepCache(d, dirty \ f.cleaned)
               ELSE IF index THEN RemoveDocuments({d}, dirty \ f.cleaned)
               ELSE RemoveRegions(d, {r}, dirty \ f.cleaned)
            /\ Doubt(f.cleaned, {})
    BY <1>3 DEF EraseField
  <2>2. /\ f.written \subseteq dirty /\ f.cleaned \subseteq f.written
        /\ \A q \in f.written : CanWriteBack(q)
    BY <1>1, FlushPlaces
  <2> DEFINE S == IF o = "failed" \/ m(f)[r] = Nil THEN {} ELSE {r}
  <2>3. S \subseteq homes
    BY <2>2 DEF WrittenBack, CanWriteBack, PlaceInv
  <2>4. (\A q \in Regions \ S : meta'[q] = m(f)[q]) /\ \A q \in S : meta'[q] # Nil
    BY <2>1, ConstantsAssumption DEF Command, Put
  <2>5. \A q \in Regions : cmeta'[q] # Nil => cmeta[q] # Nil
    BY <2>1, DropsOnly
  <2>6. UNCHANGED placeVars
    BY <1>3 DEF EraseField
  <2>7. KeepStep(f.written, f.cleaned, S)
    BY <2>1, <2>2, <2>3, <2>4, <2>5, <2>6 DEF KeepStep
  <2> QED
    BY <1>1, <2>7, KeepPlaces
<1> QED
    BY <1>2, <1>3

\* A script that changes regions has them dropped from the cache.
LEMMA AtomicPlaces ==
    ASSUME Inv, PlaceInv, NEW t \in Threads, NEW S \in SUBSET Regions,
           NEW v \in Vals \cup {Nil}, NEW x \in DataVals \cup {Nil},
           ExecuteAtomic(t, S, v, x)
    PROVE  PlaceInv'
<1> DEFINE d == req[t].doc
           m(f) == WrittenBack(f.written)
           nd(f) == Put(Merged(f.written), S \cap ChatRegions, x)
<1>1. PICK f \in FlushResults(d), o \in Outcomes :
          /\ ~f.ok \/ ~exists[d] => o = "failed"
          /\ Command(m(f), Merged(f.written), S, Put(m(f), S, v), nd(f), o)
          /\ homes' = IF o = "failed" \/ v = Nil THEN homes ELSE homes \cup S
          /\ IF f.ok THEN RemoveRegions(d, S, dirty \ f.cleaned)
             ELSE KeepCache(d, dirty \ f.cleaned)
          /\ Doubt(f.cleaned, {})
    BY DEF ExecuteAtomic
<1>2. CoreType /\ CacheInv /\ S \subseteq RegionsOf(d) /\ UNCHANGED exists
    BY DEF Inv, ExecuteAtomic
<1>3. /\ f.written \subseteq dirty /\ f.cleaned \subseteq f.written
      /\ \A q \in f.written : CanWriteBack(q)
    BY <1>2, FlushPlaces
<1> DEFINE Q == IF o = "failed" THEN {} ELSE S
<1>4. homes \subseteq Regions /\ \A q \in homes : exists[DocOf[q]]
    BY DEF PlaceInv, PlaceType
<1>5. /\ \A q \in Regions \ Q : meta'[q] = WrittenBack(f.written)[q] /\ (q \in homes' <=> q \in homes)
      /\ \A q \in Q : meta'[q] # Nil => q \in homes'
    BY <1>1 DEF Command, Put
<1>6. homes' \subseteq Regions /\ \A q \in homes' : exists'[DocOf[q]]
    BY <1>1, <1>2, <1>4 DEF RegionsOf
<1>7. \A q \in Q : cmeta'[q] = Nil
    BY <1>1 DEF RemoveRegions, Put
<1>8. \A q \in Regions : cmeta'[q] # Nil => cmeta[q] # Nil
    BY <1>1, DropsOnly
<1>9. PlaceStep(f.written, f.cleaned, Q, {})
    BY <1>1, <1>3, <1>5, <1>6, <1>7, <1>8 DEF PlaceStep
<1> QED
    BY <1>2, <1>9, PlaceStepInv

\* The erasures: the regions E lose their values and the regions G, among them,
\* their parents, which are all those of the documents that go.
LEMMA ErasePlaces ==
    ASSUME CoreType, CacheInv, PlaceInv, NEW E \in SUBSET Regions, NEW G \in SUBSET E, NEW o \in Outcomes,
           meta' = IF o = "failed" THEN meta ELSE Put(meta, E, Nil),
           homes' = IF o = "failed" THEN homes ELSE homes \ G,
           \A r \in homes' : exists'[DocOf[r]],
           \A r \in Regions : cmeta'[r] # Nil => cmeta[r] # Nil,
           o = "ok" => \A r \in E : cmeta'[r] = Nil,
           Doubt({}, IfLost(o, E))
    PROVE  PlaceInv'
<1> DEFINE Q == IF o = "failed" THEN {} ELSE E
           L == IfLost(o, E)
<1>1. WrittenBack({}) = meta /\ homes \subseteq Regions /\ o \in {"ok", "failed", "lost"}
    BY WrittenFacts, OutcomesFacts DEF PlaceInv, PlaceType
<1>2. /\ \A q \in Regions \ Q : meta'[q] = WrittenBack({})[q] /\ (q \in homes' <=> q \in homes)
      /\ \A q \in Q : meta'[q] = Nil
    BY <1>1 DEF Put
<1>3. \A q \in Q \ L : cmeta'[q] = Nil
    BY <1>1 DEF IfLost
<1>4. Q \subseteq Regions /\ L \subseteq Regions /\ homes' \subseteq Regions
    BY <1>1 DEF IfLost
<1>5. PlaceStep({}, {}, Q, L)
    BY <1>2, <1>3, <1>4 DEF PlaceStep
<1> QED
    BY <1>5, PlaceStepInv

LEMMA EraseCallPlaces ==
    ASSUME Inv, PlaceInv, NEW t \in Threads,
           \/ EraseDocument(t)
           \/ \E r \in Regions : EraseRegion(t, r)
           \/ \E S \in SUBSET Regions : EraseParent(t, S)
           \/ \E D \in SUBSET Docs : ErasePattern(t, D)
    PROVE  PlaceInv'
<1> DEFINE d == req[t].doc
           Erased(S, o) == Command(meta, data, S, Put(meta, S, Nil), Put(data, S, Nil), o)
<1>1. CoreType /\ CacheInv /\ homes \subseteq Regions /\ \A q \in homes : exists[DocOf[q]]
    BY DEF Inv, PlaceInv, PlaceType
<1>2. CASE EraseDocument(t)
  <2> DEFINE S == RegionsOf(d)
  <2>1. PICK o \in Outcomes :
            /\ Erased(S, o) /\ EraseHomes(S, o)
            /\ exists' = [exists EXCEPT ![d] = @ /\ o = "failed"]
            /\ IF o = "ok" THEN RemoveDocuments({d}, dirty) ELSE UNCHANGED cacheVars
            /\ Doubt({}, IfLost(o, S))
    BY <1>2 DEF EraseDocument
  <2>2. \A q \in homes' : exists'[DocOf[q]]
    <3>1. CASE o = "failed"
      BY <1>1, <2>1, <3>1 DEF EraseHomes, CoreType
    <3>2. CASE o # "failed"
      BY <1>1, <2>1, <3>2 DEF EraseHomes, CoreType, RegionsOf
    <3> QED
      BY <3>1, <3>2
  <2>3. o = "ok" => \A q \in S : cmeta'[q] = Nil
    BY <2>1, RemoveDocumentFacts DEF Put, RegionsOf
  <2>4. /\ meta' = IF o = "failed" THEN meta ELSE Put(meta, S, Nil)
        /\ homes' = IF o = "failed" THEN homes ELSE homes \ S
        /\ S \in SUBSET Regions /\ S \in SUBSET S
    BY <2>1 DEF Command, EraseHomes, RegionsOf
  <2>5. \A q \in Regions : cmeta'[q] # Nil => cmeta[q] # Nil
    BY <2>1, DropsOnly
  <2> QED
    BY <1>1, <2>1, <2>2, <2>3, <2>4, <2>5, ErasePlaces
<1>3. ASSUME NEW r \in Regions, EraseRegion(t, r) PROVE PlaceInv'
  <2>1. PICK o \in Outcomes :
            /\ Erased({r}, o)
            /\ IF o = "ok" THEN RemoveRegions(d, {r}, dirty) ELSE UNCHANGED cacheVars
            /\ Doubt({}, IfLost(o, {r}))
    BY <1>3 DEF EraseRegion
  <2>2. UNCHANGED placeVars
    BY <1>3 DEF EraseRegion
  <2>3. o = "ok" => \A q \in {r} : cmeta'[q] = Nil
    BY <2>1 DEF RemoveRegions, Put
  <2>4. /\ meta' = IF o = "failed" THEN meta ELSE Put(meta, {r}, Nil)
        /\ homes' = IF o = "failed" THEN homes ELSE homes \ {}
        /\ {r} \in SUBSET Regions /\ {} \in SUBSET {r}
    BY <2>1, <2>2 DEF Command
  <2>5. \A q \in Regions : cmeta'[q] # Nil => cmeta[q] # Nil
    BY <2>1, DropsOnly
  <2>6. \A q \in homes' : exists'[DocOf[q]]
    BY <1>1, <2>2
  <2> QED
    BY <1>1, <2>1, <2>3, <2>4, <2>5, <2>6, ErasePlaces
<1>4. ASSUME NEW S \in SUBSET Regions, EraseParent(t, S) PROVE PlaceInv'
  <2>1. PICK o \in Outcomes :
            /\ Erased(S, o) /\ EraseHomes(S, o)
            /\ IF o = "ok" THEN RemoveDocuments({d}, dirty) ELSE UNCHANGED cacheVars
            /\ Doubt({}, IfLost(o, S))
    BY <1>4 DEF EraseParent
  <2>2. S \subseteq RegionsOf(d) /\ UNCHANGED exists
    BY <1>4 DEF EraseParent
  <2>3. o = "ok" => \A q \in S : cmeta'[q] = Nil
    BY <2>1, <2>2, RemoveDocumentFacts DEF Put
  <2>4. /\ meta' = IF o = "failed" THEN meta ELSE Put(meta, S, Nil)
        /\ homes' = IF o = "failed" THEN homes ELSE homes \ S
        /\ S \in SUBSET S
    BY <2>1 DEF Command, EraseHomes
  <2>5. \A q \in Regions : cmeta'[q] # Nil => cmeta[q] # Nil
    BY <2>1, DropsOnly
  <2>6. \A q \in homes' : exists'[DocOf[q]]
    BY <1>1, <2>2, <2>4
  <2> QED
    BY <1>1, <2>1, <2>3, <2>4, <2>5, <2>6, ErasePlaces
<1>5. ASSUME NEW D \in SUBSET Docs, ErasePattern(t, D) PROVE PlaceInv'
  <2> DEFINE S == {r \in Regions : DocOf[r] \in D}
  <2>1. PICK o \in Outcomes :
            /\ Erased(S, o) /\ EraseHomes(S, o)
            /\ exists' = [q \in Docs |-> exists[q] /\ (q \notin D \/ o = "failed")]
            /\ IF o = "ok" THEN RemoveDocuments(D, dirty) ELSE UNCHANGED cacheVars
            /\ Doubt({}, IfLost(o, S))
    BY <1>5 DEF ErasePattern
  <2>2. \A q \in homes' : exists'[DocOf[q]]
    <3>1. CASE o = "failed"
      BY <1>1, <2>1, <3>1, ConstantsAssumption DEF EraseHomes
    <3>2. CASE o # "failed"
      BY <1>1, <2>1, <3>2, ConstantsAssumption DEF EraseHomes
    <3> QED
      BY <3>1, <3>2
  <2>3. o = "ok" => \A q \in S : cmeta'[q] = Nil
    BY <2>1 DEF RemoveDocuments, Put
  <2>4. /\ meta' = IF o = "failed" THEN meta ELSE Put(meta, S, Nil)
        /\ homes' = IF o = "failed" THEN homes ELSE homes \ S
        /\ S \in SUBSET Regions /\ S \in SUBSET S
    BY <2>1 DEF Command, EraseHomes
  <2>5. \A q \in Regions : cmeta'[q] # Nil => cmeta[q] # Nil
    BY <2>1, DropsOnly
  <2> QED
    BY <1>1, <2>1, <2>2, <2>3, <2>4, <2>5, ErasePlaces
<1> QED
    BY <1>2, <1>3, <1>4, <1>5

LEMMA InitPlaces == Init => PlaceInv
BY DEF Init, PlaceInv, PlaceType

LEMMA NextPlaces == Inv /\ PlaceInv /\ [Next]_vars => PlaceInv'
<1> SUFFICES ASSUME Inv, PlaceInv, [Next]_vars PROVE PlaceInv'
    OBVIOUS
<1>0. CoreType /\ CacheInv
    BY DEF Inv
<1>1. CASE UNCHANGED vars
    BY <1>0, <1>1, QuietPlaces DEF vars, redisVars, cacheVars, ackVars
<1>2. ASSUME NEW t \in Threads,
             \/ \E d \in Docs : LockDocument(t, d)
             \/ \E s \in Stripes : LockNextStripe(t, s)
             \/ ReadDocument(t) \/ AnswerRead(t) \/ NoCandidate(t)
             \/ \E r \in Regions : FindCache(t, r) \/ BeginEviction(t, r)
             \/ \E r \in Regions, v \in Vals : WriteFind(t, r, v)
      PROVE  PlaceInv'
  <2>1. UNCHANGED <<exists, homes, meta, doubt, cmeta>>
    BY <1>2 DEF LockDocument, LockNextStripe, ReadDocument, AnswerRead, NoCandidate, FindCache,
                BeginEviction, WriteFind, KeepCache, redisVars, cacheVars, ackVars
  <2> QED
    BY <1>0, <2>1, QuietPlaces
<1>3. ASSUME NEW t \in Threads, Read(t) PROVE PlaceInv'
    BY <1>2, <1>3, ScanPlaces, AdmitPlaces DEF Read
<1>4. ASSUME NEW t \in Threads, Write(t) PROVE PlaceInv'
    BY <1>2, <1>4, UpdatePlaces, WritePlaces, WriteAbovePlaces DEF Write
<1>5. ASSUME NEW t \in Threads, Erase(t) PROVE PlaceInv'
    BY <1>5, FlushCallPlaces, EraseCallPlaces DEF Erase
<1>6. ASSUME NEW t \in Threads, NEW S \in SUBSET Regions, NEW v \in Vals \cup {Nil},
             NEW x \in DataVals \cup {Nil}, ExecuteAtomic(t, S, v, x)
      PROVE  PlaceInv'
    BY <1>6, AtomicPlaces
<1> QED
    BY <1>1, <1>2, <1>3, <1>4, <1>5, <1>6, FlushCallPlaces DEF Next

\* Every variable of the cache model keeps its type, with any number of
\* documents, regions, threads and stripes and any outcome of every command.
THEOREM TypeCorrect == Spec => []TypeOK
<1>1. Inv /\ PlaceInv => TypeOK
    BY DEF Inv, PlaceInv, TypeOK
<1> QED
    BY <1>1, InitInv, NextInv, InitPlaces, NextPlaces, PTL DEF Spec

\* A document whose dirty regions are all beyond doubt is answered, or is not
\* in Redis and has nothing dirty.
LEMMA AnswersFacts ==
    ASSUME Inv, PlaceInv, NEW d \in Docs, dirty \cap doubt \cap RegionsOf(d) = {}
    PROVE  \/ Answers(d)
           \/ ~exists[d] /\ \A r \in RegionsOf(d) : r \notin dirty
<1>1. ASSUME NEW r \in RegionsOf(d), r \in dirty PROVE r \in homes /\ exists[d]
  <2>1. r \in Regions /\ DocOf[r] = d /\ r \notin doubt /\ cmeta[r] # Nil
    BY <1>1 DEF Inv, CacheInv, RegionsOf
  <2>2. r \in homes
    BY <2>1 DEF PlaceInv, CanWriteBack
  <2> QED
    BY <2>1, <2>2 DEF PlaceInv
<1>2. dirty \cap RegionsOf(d) \subseteq homes
    BY <1>1
<1>3. CASE exists[d]
    BY <1>2, <1>3 DEF Answers
<1>4. CASE ~exists[d]
    BY <1>1, <1>4
<1> QED
    BY <1>3, <1>4

\* Under the same condition read(key) answers every acknowledged value, from the
\* dirty regions put back over what Redis has; and it answers at all, unless a
\* dirty region of the document may have been removed by a call without a reply.
THEOREM AcknowledgedDurable == Spec => [](~ShallowErase => AckedDurable)
<1>1. Inv /\ PlaceInv => (~ShallowErase => AckedDurable)
  <2> SUFFICES ASSUME Inv, PlaceInv, ~ShallowErase, NEW r \in Regions, ackMeta[r] # Unknown,
                      \/ Answers(DocOf[r])
                      \/ dirty \cap doubt \cap RegionsOf(DocOf[r]) = {}
               PROVE  DocumentView(r) = ackMeta[r]
    BY DEF AckedDurable
  <2>1. CopyOf(r) = ackMeta[r]
    BY DEF Inv, AckedSafe, Kept
  <2>2. CASE Answers(DocOf[r])
    BY <2>1, <2>2 DEF DocumentView, CopyOf
  <2>3. CASE ~Answers(DocOf[r])
    <3>1. DocOf[r] \in Docs
      BY ConstantsAssumption
    <3>2. ~exists[DocOf[r]] /\ r \notin dirty
      BY <2>3, <3>1, AnswersFacts DEF RegionsOf
    <3>3. meta[r] = Nil
      BY <3>2 DEF PlaceInv
    <3> QED
      BY <2>1, <2>3, <3>2, <3>3 DEF DocumentView, CopyOf
  <2> QED
    BY <2>2, <2>3
<1> QED
    BY <1>1, InitInv, NextInv, InitPlaces, NextPlaces, PTL DEF Spec

\* A dirty region can be written back as soon as Redis answers, whatever callers
\* erase, unless a call that may have removed it ended without a reply.
THEOREM DirtyStaysWritable == Spec => []DirtyWritable
<1>1. Inv /\ PlaceInv => DirtyWritable
    BY DEF Inv, CoreType, CacheInv, PlaceInv, DirtyWritable
<1> QED
    BY <1>1, InitInv, NextInv, InitPlaces, NextPlaces, PTL DEF Spec

-----------------------------------------------------------------------------
(* The remote parts.                                                       *)

RemoteSafe == ~MetaReplace => RemoteKept

\* A command that changes the remote parts of the regions S, and is acknowledged,
\* refused or left in doubt, keeps what callers know of all of them.
LEMMA CommandKeepsRemote ==
    ASSUME RemoteKept, NEW m, NEW x, NEW S, NEW nm, NEW nd, NEW o \in Outcomes,
           \A r \in Regions : x[r] = data[r],
           \A r \in Regions \ S : nd[r] = data[r],
           Command(m, x, S, nm, nd, o)
    PROVE  RemoteKept'
<1> SUFFICES ASSUME NEW r \in Regions, ackData'[r] # Unknown PROVE data'[r] = ackData'[r]
    BY DEF RemoteKept
<1>1. o \in {"ok", "failed", "lost"}
    BY OutcomesFacts
<1>2. /\ data' = IF o = "failed" THEN x ELSE nd
      /\ ackData'[r] = IF r \notin S \/ o = "failed" THEN ackData[r] ELSE IF o = "ok" THEN nd[r] ELSE Unknown
    BY DEF Command, Acked
<1>3. ackData[r] # Unknown => data[r] = ackData[r]
    BY DEF RemoteKept
<1> QED
    BY <1>1, <1>2, <1>3

\* The write-back of a region merges the remote part that Redis has.
LEMMA MergedFacts ==
    \A S : \A r \in Regions : Merged(S)[r] = data[r]
BY DEF Merged

\* Steps that write back, or do nothing to Redis, leave the remote parts alone.
LEMMA MergeKeepsRemote ==
    ASSUME RemoteKept, ackData' = ackData, data' = data \/ \E S : data' = Merged(S)
    PROVE  RemoteKept'
BY MergedFacts DEF RemoteKept

\* What writeThrough does to the remote part is what it tells its caller.
LEMMA WriteThroughRemote ==
    ASSUME RemoteKept, NEW t, NEW r, NEW nm, NEW nd, NEW b, WriteThrough(t, r, nm, nd, b)
    PROVE  RemoteKept'
<1>1. PICK f \in (IF cmeta[r] # Nil THEN FlushResults(req[t].doc)
                  ELSE {[ok |-> TRUE, written |-> {}, cleaned |-> {}]}), o \in Outcomes :
         Command(WrittenBack(f.written), Merged(f.written), {r},
                 Put(WrittenBack(f.written), {r}, IF nm = Nil THEN WrittenBack(f.written)[r] ELSE nm),
                 Put(Merged(f.written), {r}, nd), o)
    BY DEF WriteThrough
<1>2. \A q \in Regions \ {r} : Put(Merged(f.written), {r}, nd)[q] = data[q]
    BY MergedFacts DEF Put
<1> QED
    BY <1>1, <1>2, MergedFacts, CommandKeepsRemote

\* So does every call.
LEMMA StepRemote ==
    ASSUME RemoteSafe, [Next]_vars PROVE RemoteSafe'
<1> SUFFICES ASSUME ~MetaReplace PROVE RemoteKept'
    BY DEF RemoteSafe
<1>0. RemoteKept
    BY DEF RemoteSafe
<1>1. CASE UNCHANGED vars
    BY <1>0, <1>1, MergeKeepsRemote DEF vars, redisVars, ackVars
<1>2. ASSUME NEW t \in Threads,
             (\E d \in Docs : LockDocument(t, d)) \/ (\E s \in Stripes : LockNextStripe(t, s))
             \/ Read(t) \/ Update(t) \/ Flush(t)
             \/ \E r \in Regions, v \in Vals : WriteFind(t, r, v)
      PROVE  RemoteKept'
  <2>1. ackData' = ackData /\ (data' = data \/ \E S : data' = Merged(S))
    BY <1>2 DEF LockDocument, LockNextStripe, Read, ReadDocument, SkipCandidate, EvictCandidate, NoCandidate,
                AnswerRead, Admit, FindCache, BeginEviction, Update, Flush, WriteFind, redisVars, ackVars
  <2> QED
    BY <1>0, <2>1, MergeKeepsRemote
<1>3. ASSUME NEW t \in Threads, UpdateOversize(t) PROVE RemoteKept'
    BY <1>0, <1>3, MergedFacts, CommandKeepsRemote DEF UpdateOversize
<1>4. ASSUME NEW t \in Threads, NEW r \in Regions,
             \/ \E v \in Vals : WriteField(t, r, v)
             \/ \E v \in Vals, x \in DataVals : WriteRegion(t, r, v, x)
             \/ \E x \in DataVals : WriteData(t, r, x)
      PROVE  RemoteKept'
    BY <1>0, <1>4, WriteThroughRemote DEF WriteField, WriteRegion, WriteData
<1>5. ASSUME NEW t \in Threads, NEW P \in SUBSET Regions, NEW S \in SUBSET Regions, NEW v, NEW x,
             WriteAbove(t, P, S, v, x)
      PROVE  RemoteKept'
  <2>1. PICK f \in FlushResults(req[t].doc), o \in Outcomes :
            Command(WrittenBack(f.written), Merged(f.written), P,
                    Put(Put(WrittenBack(f.written), P, Nil), S, v),
                    Put(Put(Merged(f.written), P, Nil), S \cap ChatRegions, x), o)
    BY <1>5 DEF WriteAbove
  <2>2. S \subseteq P
    BY <1>5 DEF WriteAbove
  <2>3. \A q \in Regions \ P : Put(Put(Merged(f.written), P, Nil), S \cap ChatRegions, x)[q] = data[q]
    BY <2>2, MergedFacts DEF Put
  <2> QED
    BY <1>0, <2>1, <2>3, MergedFacts, CommandKeepsRemote
<1>6. ASSUME NEW t \in Threads, NEW S, NEW o \in Outcomes, NEW m, NEW n,
             Command(m, data, S, n, Put(data, S, Nil), o)
      PROVE  RemoteKept'
  <2>1. \A q \in Regions \ S : Put(data, S, Nil)[q] = data[q]
    BY DEF Put
  <2> QED
    BY <1>0, <1>6, <2>1, CommandKeepsRemote
<1>7. ASSUME NEW t \in Threads, Erase(t) PROVE RemoteKept'
  <2>1. CASE EraseDocument(t)
    BY <1>6, <2>1 DEF EraseDocument
  <2>2. ASSUME NEW r \in Regions, EraseRegion(t, r) PROVE RemoteKept'
    BY <1>6, <2>2 DEF EraseRegion
  <2>3. ASSUME NEW S \in SUBSET Regions, EraseParent(t, S) PROVE RemoteKept'
    BY <1>6, <2>3 DEF EraseParent
  <2>4. ASSUME NEW D \in SUBSET Docs, ErasePattern(t, D) PROVE RemoteKept'
    BY <1>6, <2>4 DEF ErasePattern
  <2>5. ASSUME NEW r \in Regions, NEW v \in Vals, NEW index \in BOOLEAN, EraseField(t, r, v, index)
        PROVE  RemoteKept'
    <3>1. PICK f \in FlushResults(req[t].doc), o \in Outcomes :
              Command(WrittenBack(f.written), Merged(f.written), {r},
                      IF WrittenBack(f.written)[r] = Nil THEN WrittenBack(f.written)
                      ELSE Put(WrittenBack(f.written), {r}, v),
                      Merged(f.written), o)
      BY <2>5 DEF EraseField
    <3> QED
      BY <1>0, <3>1, MergedFacts, CommandKeepsRemote
  <2> QED
    BY <1>7, <2>1, <2>2, <2>3, <2>4, <2>5 DEF Erase
<1>8. ASSUME NEW t \in Threads, NEW S \in SUBSET Regions, NEW v, NEW x, ExecuteAtomic(t, S, v, x)
      PROVE  RemoteKept'
  <2>1. PICK f \in FlushResults(req[t].doc), o \in Outcomes :
            Command(WrittenBack(f.written), Merged(f.written), S, Put(WrittenBack(f.written), S, v),
                    Put(Merged(f.written), S \cap ChatRegions, x), o)
    BY <1>8 DEF ExecuteAtomic
  <2>2. \A q \in Regions \ S : Put(Merged(f.written), S \cap ChatRegions, x)[q] = data[q]
    BY MergedFacts DEF Put
  <2> QED
    BY <1>0, <2>1, <2>2, MergedFacts, CommandKeepsRemote
<1>9. ASSUME NEW t \in Threads, NEW r \in Regions, NEW v \in Vals, WriteMetaOnly(t, r, v) PROVE FALSE
    BY <1>9 DEF WriteMetaOnly
<1> QED
    BY <1>1, <1>2, <1>3, <1>4, <1>5, <1>7, <1>8, <1>9 DEF Next, Write

\* As long as no caller replaces a region without its remote part, the messages of
\* a chat room are in Redis as they were acknowledged: writeBack of the cached part
\* merges them, and no flush, eviction or lost reply touches them.
THEOREM MessagesKept == Spec => [](~MetaReplace => RemoteKept)
<1>1. Init => RemoteSafe
    BY DEF Init, RemoteSafe, RemoteKept
<1>2. RemoteSafe => (~MetaReplace => RemoteKept)
    BY DEF RemoteSafe
<1> QED
    BY <1>1, <1>2, StepRemote, PTL DEF Spec

-----------------------------------------------------------------------------
(* Who changes the cache of a document.                                    *)

\* A step changes the cache of the document d only.
OnlyDoc(d) ==
    /\ docCached' \ {d} = docCached \ {d}
    /\ \A r \in Regions : DocOf[r] # d => cmeta'[r] = cmeta[r] /\ (r \in dirty' <=> r \in dirty)

\* What StripeProtects says of a step, for the document d.
Protected(d) ==
    \A t \in Threads : /\ holder[StripeOf[d]] = t
                       /\ CacheOf(d)' # CacheOf(d)
                       => at[t]' # at[t] \/ req[t]' # req[t]

\* A document whose membership and regions are as before has the cache it had.
LEMMA CacheSame ==
    ASSUME NEW d \in Docs, d \in docCached' <=> d \in docCached,
           \A r \in RegionsOf(d) : cmeta'[r] = cmeta[r] /\ (r \in dirty' <=> r \in dirty)
    PROVE  CacheOf(d)' = CacheOf(d)
<1>1. (d \in docCached') = (d \in docCached)
    OBVIOUS
<1>2. \A r \in RegionsOf(d) : (r \in dirty') = (r \in dirty)
    OBVIOUS
<1>3. [r \in RegionsOf(d) |-> <<cmeta'[r], r \in dirty'>>] = [r \in RegionsOf(d) |-> <<cmeta[r], r \in dirty>>]
    BY <1>2, Zenon
<1>4. RegionsOf(d)' = RegionsOf(d)
    BY DEF RegionsOf
<1> QED
    BY <1>1, <1>3, <1>4, Zenon DEF CacheOf

\* The owner of a document's stripe may change its cache in a step that it ends.
LEMMA OwnerProtects ==
    ASSUME Inv, NEW t \in Threads, at[t] \in Owners, at'[t] # at[t], OnlyDoc(req[t].doc)
    PROVE  \A d \in Docs : Protected(d)
<1> SUFFICES ASSUME NEW d \in Docs PROVE Protected(d)
    OBVIOUS
<1>1. CASE d = req[t].doc
    BY <1>1 DEF Protected, Inv, LockInv
<1>2. CASE d # req[t].doc
  <2>1. d \in docCached' <=> d \in docCached
    BY <1>2 DEF OnlyDoc
  <2>2. \A r \in RegionsOf(d) : cmeta'[r] = cmeta[r] /\ (r \in dirty' <=> r \in dirty)
    BY <1>2 DEF OnlyDoc, RegionsOf
  <2>3. CacheOf(d)' = CacheOf(d)
    BY <2>1, <2>2, CacheSame
  <2> QED
    BY <2>3 DEF Protected
<1> QED
    BY <1>1, <1>2

\* A call ends in a place it was not in.
LEMMA CallProtects ==
    ASSUME Inv, NEW t \in Threads, at[t] \in Owners, Release(t), OnlyDoc(req[t].doc)
    PROVE  \A d \in Docs : Protected(d)
<1>1. at'[t] # at[t]
    BY DEF Release, Owners, Inv, CoreType
<1> QED
    BY <1>1, OwnerProtects

\* The operations of CacheManager on one document.
LEMMA OpsOnlyDoc ==
    ASSUME NEW d, NEW C, NEW S, C \subseteq RegionsOf(d), S \subseteq RegionsOf(d),
           \/ KeepCache(d, dirty \ C)
           \/ RemoveRegions(d, S, dirty \ C)
           \/ RemoveDocuments({d}, dirty \ C)
    PROVE  OnlyDoc(d)
<1>1. CASE KeepCache(d, dirty \ C)
    BY <1>1 DEF KeepCache, OnlyDoc, RegionsOf
<1>2. CASE RemoveRegions(d, S, dirty \ C)
    BY <1>2 DEF RemoveRegions, OnlyDoc, RegionsOf, Put
<1>3. CASE RemoveDocuments({d}, dirty \ C)
    BY <1>3 DEF RemoveDocuments, OnlyDoc, RegionsOf, Put
<1> QED
    BY <1>1, <1>2, <1>3

\* The same, without a flush.
LEMMA PlainOnlyDoc ==
    ASSUME NEW d, NEW S, S \subseteq RegionsOf(d),
           \/ KeepCache(d, dirty)
           \/ RemoveRegions(d, S, dirty)
           \/ RemoveDocuments({d}, dirty)
           \/ UNCHANGED cacheVars
    PROVE  OnlyDoc(d)
<1>1. CASE UNCHANGED cacheVars
    BY <1>1 DEF OnlyDoc, cacheVars
<1>2. CASE KeepCache(d, dirty)
    BY <1>2 DEF KeepCache, OnlyDoc, RegionsOf
<1>3. CASE RemoveRegions(d, S, dirty)
    BY <1>3 DEF RemoveRegions, OnlyDoc, RegionsOf, Put
<1>4. CASE RemoveDocuments({d}, dirty)
    BY <1>4 DEF RemoveDocuments, OnlyDoc, RegionsOf, Put
<1> QED
    BY <1>1, <1>2, <1>3, <1>4

\* What a flush cleans is of its document.
LEMMA CleanedOf ==
    ASSUME NEW d, NEW f \in FlushResults(d) PROVE f.cleaned \subseteq RegionsOf(d)
BY FlushFacts

\* Calls that flush, and calls that do not.
LEMMA CallsOnlyDoc ==
    ASSUME Inv, NEW t \in Threads,
           \/ ReadDocument(t) \/ AnswerRead(t) \/ Admit(t) \/ Update(t) \/ UpdateOversize(t) \/ Flush(t)
           \/ EraseDocument(t)
           \/ \E r \in Regions : EraseRegion(t, r)
           \/ \E S \in SUBSET Regions : EraseParent(t, S)
           \/ \E r \in Regions, v \in Vals : WriteMetaOnly(t, r, v)
    PROVE  at[t] \in Owners /\ Release(t) /\ OnlyDoc(req[t].doc)
<1> USE DEF Running, Owners
<1>0. at[t] \in {"lookup", "update"} => req[t].reg \in RegionsOf(req[t].doc)
    BY DEF Inv, WorkInv
<1>1. CASE ReadDocument(t) \/ AnswerRead(t)
  <2>1. KeepCache(req[t].doc, dirty) \/ UNCHANGED cacheVars
    BY <1>1 DEF ReadDocument, AnswerRead, cacheVars
  <2> QED
    BY <1>1, <2>1, PlainOnlyDoc DEF ReadDocument, AnswerRead
<1>2. CASE Admit(t)
  <2>1. docCached' = docCached /\ req[t].reg \in RegionsOf(req[t].doc) /\ at[t] \in Owners /\ Release(t)
    BY <1>0, <1>2 DEF Admit
  <2>2. \A r \in Regions : DocOf[r] # req[t].doc => cmeta'[r] = cmeta[r] /\ (r \in dirty' <=> r \in dirty)
    BY <1>2, <2>1 DEF Admit, CachedRegions, RegionsOf, Inv, CoreType
  <2> QED
    BY <2>1, <2>2 DEF OnlyDoc
<1>3. CASE Update(t)
  <2>1. docCached' = docCached /\ req[t].reg \in RegionsOf(req[t].doc) /\ at[t] \in Owners /\ Release(t)
    BY <1>0, <1>3 DEF Update
  <2>2. \A r \in Regions : DocOf[r] # req[t].doc => cmeta'[r] = cmeta[r] /\ (r \in dirty' <=> r \in dirty)
    BY <1>3, <2>1 DEF Update, RegionsOf, Inv, CoreType
  <2> QED
    BY <2>1, <2>2 DEF OnlyDoc
<1>4. CASE UpdateOversize(t)
  <2>1. docCached' = docCached /\ req[t].reg \in RegionsOf(req[t].doc) /\ at[t] \in Owners /\ Release(t)
    BY <1>0, <1>4 DEF UpdateOversize
  <2>2. \A r \in Regions : DocOf[r] # req[t].doc => cmeta'[r] = cmeta[r] /\ (r \in dirty' <=> r \in dirty)
    BY <1>4, <2>1 DEF UpdateOversize, RegionsOf, Inv, CoreType
  <2> QED
    BY <2>1, <2>2 DEF OnlyDoc
<1>5. CASE Flush(t)
  <2>1. PICK f \in FlushResults(req[t].doc) : KeepCache(req[t].doc, dirty \ f.cleaned)
    BY <1>5 DEF Flush
  <2>2. OnlyDoc(req[t].doc)
    BY <2>1, CleanedOf, OpsOnlyDoc
  <2> QED
    BY <1>5, <2>2 DEF Flush
<1>6. CASE EraseDocument(t)
  <2>1. RemoveDocuments({req[t].doc}, dirty) \/ UNCHANGED cacheVars
    BY <1>6 DEF EraseDocument
  <2> QED
    BY <1>6, <2>1, PlainOnlyDoc DEF EraseDocument
<1>7. ASSUME NEW r \in Regions, EraseRegion(t, r)
      PROVE  at[t] \in Owners /\ Release(t) /\ OnlyDoc(req[t].doc)
  <2>1. r \in RegionsOf(req[t].doc)
    BY <1>7 DEF EraseRegion
  <2>2. RemoveRegions(req[t].doc, {r}, dirty) \/ UNCHANGED cacheVars
    BY <1>7 DEF EraseRegion
  <2>3. OnlyDoc(req[t].doc)
    BY <2>1, <2>2 DEF RemoveRegions, OnlyDoc, RegionsOf, Put, cacheVars
  <2> QED
    BY <1>7, <2>3 DEF EraseRegion
<1>8. ASSUME NEW S \in SUBSET Regions, EraseParent(t, S)
      PROVE  at[t] \in Owners /\ Release(t) /\ OnlyDoc(req[t].doc)
  <2>1. RemoveDocuments({req[t].doc}, dirty) \/ UNCHANGED cacheVars
    BY <1>8 DEF EraseParent
  <2> QED
    BY <1>8, <2>1, PlainOnlyDoc DEF EraseParent
<1>9. ASSUME NEW r \in Regions, NEW v \in Vals, WriteMetaOnly(t, r, v)
      PROVE  at[t] \in Owners /\ Release(t) /\ OnlyDoc(req[t].doc)
  <2>1. {r} \subseteq RegionsOf(req[t].doc)
    BY <1>9 DEF WriteMetaOnly
  <2>2. RemoveRegions(req[t].doc, {r}, dirty) \/ KeepCache(req[t].doc, dirty)
    BY <1>9 DEF WriteMetaOnly
  <2> QED
    BY <1>9, <2>1, <2>2, PlainOnlyDoc DEF WriteMetaOnly
<1> QED
    BY <1>1, <1>2, <1>3, <1>4, <1>5, <1>6, <1>7, <1>8, <1>9

\* Writes through, above the regions, erasures below them and scripts.
LEMMA FlushingOnlyDoc ==
    ASSUME Inv, NEW t \in Threads,
           \/ \E r \in Regions, v \in Vals : WriteField(t, r, v)
           \/ \E r \in Regions, v \in Vals, x \in DataVals : WriteRegion(t, r, v, x)
           \/ \E r \in Regions, x \in DataVals : WriteData(t, r, x)
           \/ \E P, S \in SUBSET Regions, v \in Vals, x \in DataVals : WriteAbove(t, P, S, v, x)
           \/ \E r \in Regions, v \in Vals, index \in BOOLEAN : EraseField(t, r, v, index)
           \/ \E S \in SUBSET Regions, v \in Vals \cup {Nil}, x \in DataVals \cup {Nil} :
                 ExecuteAtomic(t, S, v, x)
    PROVE  at[t] \in Owners /\ Release(t) /\ OnlyDoc(req[t].doc)
<1> USE DEF Running, Owners
<1>1. ASSUME NEW r \in RegionsOf(req[t].doc), NEW nm, NEW nd, NEW b, WriteThrough(t, r, nm, nd, b)
      PROVE  at[t] \in Owners /\ Release(t) /\ OnlyDoc(req[t].doc)
  <2>1. PICK f \in (IF cmeta[r] # Nil THEN FlushResults(req[t].doc)
                    ELSE {[ok |-> TRUE, written |-> {}, cleaned |-> {}]}), o \in Outcomes :
            IF o = "ok" THEN RemoveRegions(req[t].doc, {r}, dirty \ f.cleaned)
            ELSE KeepCache(req[t].doc, dirty \ f.cleaned)
    BY <1>1 DEF WriteThrough
  <2>2. f.cleaned \subseteq RegionsOf(req[t].doc)
    BY <2>1, CleanedOf
  <2>3. OnlyDoc(req[t].doc)
    BY <2>1, <2>2, OpsOnlyDoc
  <2> QED
    BY <1>1, <2>3 DEF WriteThrough
<1>2. ASSUME NEW P \in SUBSET Regions, NEW S \in SUBSET Regions, NEW v, NEW x, WriteAbove(t, P, S, v, x)
      PROVE  at[t] \in Owners /\ Release(t) /\ OnlyDoc(req[t].doc)
  <2>1. PICK f \in FlushResults(req[t].doc), o \in Outcomes :
            IF o = "ok" THEN RemoveDocuments({req[t].doc}, dirty \ f.cleaned)
            ELSE KeepCache(req[t].doc, dirty \ f.cleaned)
    BY <1>2 DEF WriteAbove
  <2>2. OnlyDoc(req[t].doc)
    BY <2>1, CleanedOf, OpsOnlyDoc
  <2> QED
    BY <1>2, <2>2 DEF WriteAbove
<1>3. ASSUME NEW r \in Regions, NEW v, NEW index \in BOOLEAN, EraseField(t, r, v, index)
      PROVE  at[t] \in Owners /\ Release(t) /\ OnlyDoc(req[t].doc)
  <2>1. PICK f \in FlushResults(req[t].doc), o \in Outcomes :
            IF o # "ok" THEN KeepCache(req[t].doc, dirty \ f.cleaned)
            ELSE IF index THEN RemoveDocuments({req[t].doc}, dirty \ f.cleaned)
            ELSE RemoveRegions(req[t].doc, {r}, dirty \ f.cleaned)
    BY <1>3 DEF EraseField
  <2>2. {r} \subseteq RegionsOf(req[t].doc)
    BY <1>3 DEF EraseField
  <2>3. OnlyDoc(req[t].doc)
    BY <2>1, <2>2, CleanedOf, OpsOnlyDoc
  <2> QED
    BY <1>3, <2>3 DEF EraseField
<1>4. ASSUME NEW S \in SUBSET Regions, NEW v, NEW x, ExecuteAtomic(t, S, v, x)
      PROVE  at[t] \in Owners /\ Release(t) /\ OnlyDoc(req[t].doc)
  <2>1. PICK f \in FlushResults(req[t].doc) :
            IF f.ok THEN RemoveRegions(req[t].doc, S, dirty \ f.cleaned)
            ELSE KeepCache(req[t].doc, dirty \ f.cleaned)
    BY <1>4 DEF ExecuteAtomic
  <2>2. S \subseteq RegionsOf(req[t].doc)
    BY <1>4 DEF ExecuteAtomic
  <2>3. OnlyDoc(req[t].doc)
    BY <2>1, <2>2, CleanedOf, OpsOnlyDoc
  <2> QED
    BY <1>4, <2>3 DEF ExecuteAtomic
<1> QED
    BY <1>1, <1>2, <1>3, <1>4 DEF WriteField, WriteRegion, WriteData

\* The eviction scan changes the cache of a candidate that nobody has locked, and
\* makes room for the document that its thread owns.
LEMMA ScanProtects ==
    ASSUME Inv, NEW t \in Threads, SkipCandidate(t) \/ EvictCandidate(t)
    PROVE  \A d \in Docs : Protected(d)
<1> SUFFICES ASSUME NEW d \in Docs PROVE Protected(d)
    OBVIOUS
<1> DEFINE c == docLru[scan]
<1>1. CASE holder[StripeOf[d]] = NoThread
    BY <1>1, ConstantsAssumption DEF Protected
<1>2. CASE SkipCandidate(t) /\ holder[StripeOf[d]] # NoThread
  <2>1. docCached' = docCached /\ cmeta' = cmeta
    BY <1>2 DEF SkipCandidate
  <2>2. \A r \in RegionsOf(d) : r \in dirty' <=> r \in dirty
    <3>1. CASE dirty' = dirty
      BY <3>1
    <3>2. CASE TryLock(StripeOf[c]) /\ \E f \in FlushResults(c) : dirty' = dirty \ f.cleaned
      <4>1. d # c
        BY <1>2, <3>2 DEF TryLock
      <4>2. PICK f \in FlushResults(c) : dirty' = dirty \ f.cleaned
        BY <3>2
      <4>3. f.cleaned \subseteq RegionsOf(c)
        BY <4>2, CleanedOf
      <4> QED
        BY <4>1, <4>2, <4>3 DEF RegionsOf
    <3> QED
      BY <1>2, <3>1, <3>2 DEF SkipCandidate
  <2>3. CacheOf(d)' = CacheOf(d)
    BY <2>1, <2>2, CacheSame
  <2> QED
    BY <2>3 DEF Protected
<1>3. CASE EvictCandidate(t) /\ holder[StripeOf[d]] # NoThread
  <2>1. PICK f \in FlushResults(c) : dirty' = dirty \ f.cleaned
    BY <1>3 DEF EvictCandidate
  <2>2. /\ TryLock(StripeOf[c]) /\ cmeta' = Put(cmeta, RegionsOf(c), Nil)
        /\ docCached' = (docCached \ {c}) \cup {req[t].doc}
        /\ at' = [at EXCEPT ![t] = "lookup"] /\ at[t] = "evict"
    BY <1>3 DEF EvictCandidate
  <2>3. CASE d = req[t].doc
    <3>1. holder[StripeOf[d]] = t
      BY <2>2, <2>3 DEF Inv, LockInv, Owners
    <3>2. at'[t] # at[t]
      BY <2>2 DEF Inv, CoreType
    <3> QED
      BY <3>1, <3>2 DEF Protected
  <2>4. CASE d # req[t].doc
    <3>1. d # c
      BY <1>3, <2>2 DEF TryLock
    <3>2. f.cleaned \subseteq RegionsOf(c)
      BY <2>1, CleanedOf
    <3>3. \A r \in RegionsOf(d) : cmeta'[r] = cmeta[r] /\ (r \in dirty' <=> r \in dirty)
      BY <2>1, <2>2, <3>1, <3>2 DEF RegionsOf, Put
    <3>4. CacheOf(d)' = CacheOf(d)
      BY <2>2, <2>4, <3>1, <3>3, CacheSame
    <3> QED
      BY <3>4 DEF Protected
  <2> QED
    BY <2>3, <2>4
<1> QED
  BY <1>1, <1>2, <1>3

\* erasePattern owns every stripe.
LEMMA PatternProtects ==
    ASSUME Inv, NEW t \in Threads, NEW D \in SUBSET Docs, ErasePattern(t, D)
    PROVE  \A d \in Docs : Protected(d)
<1>1. \A d \in Docs : holder[StripeOf[d]] = t
    BY ConstantsAssumption DEF ErasePattern
<1>2. at'[t] # at[t]
    BY DEF ErasePattern, Release, Inv, CoreType
<1> QED
    BY <1>1, <1>2 DEF Protected

\* Every step of every thread.
LEMMA StepProtects ==
    ASSUME Inv, [Next]_vars PROVE \A d \in Docs : Protected(d)
<1>1. ASSUME UNCHANGED <<docCached, cmeta, dirty>> PROVE \A d \in Docs : Protected(d)
  <2> SUFFICES ASSUME NEW d \in Docs PROVE Protected(d)
    OBVIOUS
  <2>1. CacheOf(d)' = CacheOf(d)
    BY <1>1, CacheSame
  <2> QED
    BY <2>1 DEF Protected
<1>2. CASE UNCHANGED vars
    BY <1>1, <1>2 DEF vars, cacheVars
<1>3. ASSUME NEW t \in Threads,
             \/ \E d \in Docs : LockDocument(t, d)
             \/ \E s \in Stripes : LockNextStripe(t, s)
             \/ \E r \in Regions : BeginEviction(t, r)
             \/ NoCandidate(t)
             \/ \E r \in Regions, v \in Vals : WriteFind(t, r, v)
      PROVE  \A d \in Docs : Protected(d)
  <2>1. UNCHANGED <<docCached, cmeta, dirty>>
    BY <1>3 DEF LockDocument, LockNextStripe, BeginEviction, NoCandidate, WriteFind, cacheVars
  <2> QED
    BY <1>1, <2>1
<1>4. ASSUME NEW t \in Threads, NEW r \in Regions, FindCache(t, r) PROVE \A d \in Docs : Protected(d)
  <2>1. at[t] \in Owners /\ at'[t] # at[t]
    BY <1>4 DEF FindCache, Running, Owners, Inv, CoreType
  <2>2. OnlyDoc(req[t].doc)
    BY <1>4 DEF FindCache, OnlyDoc
  <2> QED
    BY <2>1, <2>2, OwnerProtects
<1>5. ASSUME NEW t \in Threads, Read(t) PROVE \A d \in Docs : Protected(d)
    BY <1>3, <1>4, <1>5, CallsOnlyDoc, CallProtects, ScanProtects DEF Read
<1>6. ASSUME NEW t \in Threads, Write(t) PROVE \A d \in Docs : Protected(d)
    BY <1>3, <1>6, CallsOnlyDoc, FlushingOnlyDoc, CallProtects DEF Write
<1>7. ASSUME NEW t \in Threads, Erase(t) PROVE \A d \in Docs : Protected(d)
    BY <1>7, CallsOnlyDoc, FlushingOnlyDoc, CallProtects, PatternProtects DEF Erase
<1>8. ASSUME NEW t \in Threads,
             Flush(t) \/ \E S \in SUBSET Regions, v \in Vals \cup {Nil}, x \in DataVals \cup {Nil} :
                            ExecuteAtomic(t, S, v, x)
      PROVE  \A d \in Docs : Protected(d)
    BY <1>8, CallsOnlyDoc, FlushingOnlyDoc, CallProtects
<1> QED
    BY <1>2, <1>3, <1>5, <1>6, <1>7, <1>8 DEF Next

\* lockDocument, and try_to_lock in the eviction scan: the cache of a document
\* never changes under a thread that owns its stripe, except by a step of that
\* thread.
THEOREM StripesProtect == Spec => StripeProtects
<1>1. Inv /\ [Next]_vars =>
        [\A d \in Docs, t \in Threads :
            /\ holder[StripeOf[d]] = t
            /\ CacheOf(d)' # CacheOf(d)
            => at[t]' # at[t] \/ req[t]' # req[t]]_vars
    BY StepProtects DEF Protected
<1> QED
    BY <1>1, InitInv, NextInv, PTL DEF Spec, StripeProtects
=============================================================================
