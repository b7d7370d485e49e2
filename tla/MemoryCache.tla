---------------------------- MODULE MemoryCache ----------------------------
(***************************************************************************)
(* The write-back cache of the C++ query server (class MemoryClass in      *)
(* cpp/src/memory/MemoryClass.cpp): RedisJSON documents, the subtrees      *)
(* ("regions") of them that are held in memory, the dirty regions that     *)
(* Redis has not seen yet, the eviction of whole documents, and the locks  *)
(* that the calls of several threads take.                                 *)
(*                                                                         *)
(* A region's value is split in the part the cache may hold (meta) and the *)
(* part declared remote (data: the messages of a chat room), which lives   *)
(* in Redis only.  Which region RegionLru evicts and when it admits one is *)
(* left open (a nondeterministic choice).                                  *)
(*                                                                         *)
(* A Redis command ends in one of three ways: acknowledged, not executed,  *)
(* or executed with its reply lost (RedisClient never replays a command).  *)
(*                                                                         *)
(* A region lies below the root (region_depth is 2 for canvases), so Redis *)
(* can take it only while its document has the object it is a field of.    *)
(***************************************************************************)
EXTENDS Naturals, Sequences, FiniteSets

CONSTANTS
    Docs,          \* document keys
    Regions,       \* cacheable subtrees of all documents
    DocOf,         \* the document of each region
    ChatRegions,   \* regions that have a remote part
    Vals,          \* values of the cacheable part
    BigVals,       \* the ones larger than maximum_entry_bytes
    DataVals,      \* values of the remote part
    Nil,           \* a value that is absent
    Unknown,       \* a value no acknowledgement fixes
    Threads,       \* callers
    NoThread,      \* a mutex nobody owns
    NumStripes,    \* length of the stripes array (64 in the code)
    StripeOf,      \* the stripe a document's key hashes to
    MaxDocuments,  \* maximum_documents
    Capacity,      \* entries_per_document
    LostReplies,   \* whether a reply may be lost after the command executed
    ShallowErase,  \* whether callers erase paths above the region depth
    MetaReplace    \* whether callers replace a region without its remote part

Stripes == 1..NumStripes

ASSUME ConstantsAssumption ==
    /\ DocOf \in [Regions -> Docs]
    /\ ChatRegions \subseteq Regions
    /\ BigVals \subseteq Vals
    /\ Nil \notin Vals \cup DataVals \cup {Unknown} \cup Docs \cup Regions
    /\ Unknown \notin Vals \cup DataVals
    /\ NoThread \notin Threads
    /\ NumStripes \in Nat
    /\ StripeOf \in [Docs -> Stripes]
    /\ MaxDocuments \in Nat
    /\ Capacity \in Nat
    /\ {LostReplies, ShallowErase, MetaReplace} \subseteq BOOLEAN

VARIABLES
    exists,     \* exists[d]: Redis has the document d
    homes,      \* the regions whose parent object Redis has
    meta,       \* meta[r]: the cacheable part of r in Redis, or Nil
    data,       \* data[r]: the remote part of r in Redis, or Nil
    docCached,  \* the keys of caches_
    docLru,     \* lru_ of CacheManager, most recently used first
    cmeta,      \* cmeta[r]: the value of r in its RegionLru, or Nil
    dirty,      \* all dirty_regions_
    mutex,      \* owner of CacheManager::mutex_
    holder,     \* holder[s]: owner of stripe s
    at,         \* at[t]: where thread t is
    req,        \* req[t]: the document, region and value t works on
    scan,       \* position in docLru of the eviction candidate
    ackMeta,    \* ackMeta[r]: the cacheable part callers were told r has
    ackData,    \* ackData[r]: the remote part callers were told r has
    doubt       \* the cached regions that a call whose reply was lost may
                \* have removed from Redis

placeVars == <<exists, homes>>
redisVars == <<placeVars, meta, data>>
cacheVars == <<docCached, docLru, cmeta, dirty>>
ackVars   == <<ackMeta, ackData, doubt>>
vars == <<redisVars, cacheVars, mutex, holder, at, req, scan, ackVars>>

NoReq == [doc |-> Nil, reg |-> Nil, val |-> Nil]

Init ==
    /\ exists = [d \in Docs |-> FALSE]
    /\ homes = {}
    /\ meta = [r \in Regions |-> Nil]
    /\ data = [r \in Regions |-> Nil]
    /\ docCached = {}
    /\ docLru = <<>>
    /\ cmeta = [r \in Regions |-> Nil]
    /\ dirty = {}
    /\ mutex = NoThread
    /\ holder = [s \in Stripes |-> NoThread]
    /\ at = [t \in Threads |-> "idle"]
    /\ req = [t \in Threads |-> NoReq]
    /\ scan = 0
    /\ ackMeta = [r \in Regions |-> Nil]
    /\ ackData = [r \in Regions |-> Nil]
    /\ doubt = {}

-----------------------------------------------------------------------------
(* Helpers.                                                                *)

RegionsOf(d) == {r \in Regions : DocOf[r] = d}
CachedRegions(d) == {r \in RegionsOf(d) : cmeta[r] # Nil}

\* The value of r that read(key, path) returns.
RegionView(r) == IF cmeta[r] # Nil THEN cmeta[r] ELSE meta[r]

\* document finds something to return: the document is in Redis, and so are
\* the parents of the dirty regions that are put back over it.
Answers(d) == exists[d] /\ dirty \cap RegionsOf(d) \subseteq homes

\* The value of r in what read(key) returns: JSON.GET with the dirty regions
\* put back over it, or nothing at all.
DocumentViewRedisOnly(r) == meta[r]
DocumentView(r) ==
    IF ~Answers(DocOf[r]) THEN Nil ELSE IF r \in dirty THEN cmeta[r] ELSE meta[r]

\* The list s with the documents D erased and the others in their order: the
\* k-th one left is at the k-th position that is kept.
Without(s, D) ==
    LET I == {i \in 1..Len(s) : s[i] \notin D}
    IN  [k \in 1..Cardinality(I) |-> s[CHOOSE i \in I : Cardinality({j \in I : j <= i}) = k]]

\* find: a document that is cached moves to the front.
Touched(d) == IF d \in docCached THEN <<d>> \o Without(docLru, {d}) ELSE docLru

Outcomes == {"ok", "failed"} \cup (IF LostReplies THEN {"lost"} ELSE {})

\* What callers know of the regions S after a command that gives them the
\* values new: an executed command whose reply is lost leaves them in doubt.
Acked(ack, S, o, new) ==
    [r \in Regions |-> IF r \notin S \/ o = "failed" THEN ack[r]
                       ELSE IF o = "ok" THEN new[r] ELSE Unknown]

\* A command that gives the regions S the parts nm and nd; m and x are the
\* parts when the command is sent (a flush may have come first).
Command(m, x, S, nm, nd, o) ==
    /\ meta' = IF o = "failed" THEN m ELSE nm
    /\ data' = IF o = "failed" THEN x ELSE nd
    /\ ackMeta' = Acked(ackMeta, S, o, nm)
    /\ ackData' = Acked(ackData, S, o, nd)

\* A command that deletes what holds the regions S.
EraseHomes(S, o) == homes' = IF o = "failed" THEN homes ELSE homes \ S

\* The regions C have been written back, S may have been removed.
Doubt(C, S) == doubt' = {r \in (doubt \ C) \cup S : cmeta'[r] # Nil}
IfLost(o, S) == IF o = "lost" THEN S ELSE {}

Put(f, S, v) == [r \in Regions |-> IF r \in S THEN v ELSE f[r]]

\* writeBack: JSON.SET of a region fails when the object it belongs to is gone,
\* and a region with remote fields is read first, so it must still be in Redis.
CanWriteBack(r) == r \in homes /\ (r \in ChatRegions => meta[r] # Nil)
WrittenBack(S) == [r \in Regions |-> IF r \in S THEN cmeta[r] ELSE meta[r]]

\* The remote part that writeBack sends with the cached part of the regions S
\* is the one merge has just taken from Redis.
MergedDropsRemote(S) == Put(data, S, Nil)
MergedUninitialised(S) == Put(data, S, Unknown)
Merged(S) == [r \in Regions |-> data[r]]

\* The ways RegionLru::flush of the document d can end: the first write that
\* is not acknowledged stops it, and that region stays dirty.
FlushResultsForgetful(d) ==
    LET D == dirty \cap RegionsOf(d)
    IN  {[ok |-> S = D, written |-> S, cleaned |-> D] : S \in SUBSET {r \in D : CanWriteBack(r)}}
FlushResults(d) ==
    LET D == dirty \cap RegionsOf(d)
        W == {r \in D : CanWriteBack(r)}
    IN  {[ok |-> S = D, written |-> S, cleaned |-> S] : S \in SUBSET W}
        \cup {[ok |-> FALSE, written |-> S, cleaned |-> S \ {r}] :
                S \in (IF LostReplies THEN SUBSET W ELSE {}), r \in W}

\* The cache is left as it is, except for the regions a flush cleaned.
KeepCache(d, dd) ==
    /\ dirty' = dd
    /\ docLru' = Touched(d)
    /\ UNCHANGED <<docCached, cmeta>>

\* removeRegion of the regions S, after a flush that left dirty = dd.
RemoveRegionsStale(d, S, dd) == KeepCache(d, dd)
RemoveRegions(d, S, dd) ==
    /\ cmeta' = Put(cmeta, S, Nil)
    /\ dirty' = dd \ S
    /\ docLru' = Touched(d)
    /\ UNCHANGED docCached

\* removeDocument of the documents D, after a flush that left dirty = dd.
RemoveDocumentsDirtyStay(D, dd) ==
    /\ cmeta' = Put(cmeta, {r \in Regions : DocOf[r] \in D} \ dd, Nil)
    /\ dirty' = dd
    /\ UNCHANGED <<docCached, docLru>>
RemoveDocuments(D, dd) ==
    LET S == {r \in Regions : DocOf[r] \in D}
    IN  /\ cmeta' = Put(cmeta, S, Nil)
        /\ dirty' = dd \ S
        /\ docCached' = docCached \ D
        /\ docLru' = Without(docLru, D)

Release(t) ==
    /\ holder' = [s \in Stripes |-> IF holder[s] = t THEN NoThread ELSE holder[s]]
    /\ at' = [at EXCEPT ![t] = "idle"]
    /\ req' = [req EXCEPT ![t] = NoReq]
    /\ UNCHANGED <<mutex, scan>>

Holding == UNCHANGED <<holder, mutex, scan>>

\* t owns the stripe of its document and may use CacheManager.
Running(t) == at[t] = "body" /\ mutex = NoThread

-----------------------------------------------------------------------------
(* Locks.                                                                  *)

LockDocument(t, d) ==
    /\ at[t] = "idle"
    /\ holder[StripeOf[d]] = NoThread
    /\ holder' = [holder EXCEPT ![StripeOf[d]] = t]
    /\ at' = [at EXCEPT ![t] = "body"]
    /\ req' = [req EXCEPT ![t] = [NoReq EXCEPT !.doc = d]]
    /\ UNCHANGED <<redisVars, cacheVars, mutex, scan, ackVars>>

\* erasePattern takes every stripe, in order.
LockNextStripe(t, s) ==
    /\ at[t] = "idle" \/ at[t] = "lockAll"
    /\ holder[s] = NoThread
    /\ \A u \in Stripes : u < s => holder[u] = t
    /\ holder' = [holder EXCEPT ![s] = t]
    /\ at' = [at EXCEPT ![t] = "lockAll"]
    /\ UNCHANGED <<redisVars, cacheVars, mutex, req, scan, ackVars>>

-----------------------------------------------------------------------------
(* read(key, path): CacheManager::lookup and, on the second access, admit. *)

HasRoomForOneMore == Cardinality(docCached) <= MaxDocuments
HasRoom == Cardinality(docCached) < MaxDocuments

\* cacheForLookup finds the document, or makes room for it without evicting.
FindCache(t, r) ==
    /\ Running(t)
    /\ Capacity > 0
    /\ r \in RegionsOf(req[t].doc)
    /\ \/ req[t].doc \in docCached
       \/ HasRoom
    /\ docCached' = docCached \cup {req[t].doc}
    /\ docLru' = <<req[t].doc>> \o Without(docLru, {req[t].doc})
    /\ at' = [at EXCEPT ![t] = "lookup"]
    /\ req' = [req EXCEPT ![t].reg = r]
    /\ Holding
    /\ UNCHANGED <<redisVars, cmeta, dirty, ackVars>>

\* cacheForLookup has to evict a document: it keeps mutex_ while it scans lru_.
BeginEviction(t, r) ==
    /\ Running(t)
    /\ Capacity > 0 /\ MaxDocuments > 0
    /\ r \in RegionsOf(req[t].doc)
    /\ req[t].doc \notin docCached
    /\ ~HasRoom
    /\ mutex' = t
    /\ scan' = Len(docLru)
    /\ at' = [at EXCEPT ![t] = "evict"]
    /\ req' = [req EXCEPT ![t].reg = r]
    /\ UNCHANGED <<redisVars, cacheVars, holder, ackVars>>

\* try_to_lock on the candidate's stripe.
TryLockAlways(s) == TRUE
TryLock(s) == holder[s] = NoThread

\* The candidate's stripe is taken (also by t itself), or its flush fails.
SkipCandidateBlocking(t) ==
    /\ at[t] = "evict" /\ scan > 0
    /\ TryLock(StripeOf[docLru[scan]])
    /\ \E f \in FlushResults(docLru[scan]) :
          /\ ~f.ok
          /\ meta' = WrittenBack(f.written)
          /\ dirty' = dirty \ f.cleaned
          /\ doubt' = doubt \ f.cleaned
    /\ scan' = scan - 1
    /\ UNCHANGED <<placeVars, data, docCached, docLru, cmeta, mutex, holder, at, req, ackMeta, ackData>>
SkipCandidate(t) ==
    /\ at[t] = "evict" /\ scan > 0
    /\ \/ /\ ~TryLock(StripeOf[docLru[scan]])
          /\ UNCHANGED <<meta, data, dirty, doubt>>
       \/ /\ TryLock(StripeOf[docLru[scan]])
          /\ \E f \in FlushResults(docLru[scan]) :
                /\ ~f.ok
                /\ meta' = WrittenBack(f.written)
                /\ data' = Merged(f.written)
                /\ dirty' = dirty \ f.cleaned
                /\ doubt' = doubt \ f.cleaned
    /\ scan' = scan - 1
    /\ UNCHANGED <<placeVars, docCached, docLru, cmeta, mutex, holder, at, req, ackMeta, ackData>>

EvictCandidate(t) ==
    /\ at[t] = "evict" /\ scan > 0
    /\ LET c == docLru[scan]
       IN  /\ TryLock(StripeOf[c])
           /\ \E f \in FlushResults(c) :
                 /\ f.ok
                 /\ meta' = WrittenBack(f.written)
                 /\ data' = Merged(f.written)
                 /\ dirty' = dirty \ f.cleaned
           /\ cmeta' = Put(cmeta, RegionsOf(c), Nil)
           /\ Doubt({}, {})
           /\ docCached' = (docCached \ {c}) \cup {req[t].doc}
           /\ docLru' = <<req[t].doc>> \o Without(docLru, {c})
    /\ mutex' = NoThread
    /\ scan' = 0
    /\ at' = [at EXCEPT ![t] = "lookup"]
    /\ UNCHANGED <<placeVars, holder, req, ackMeta, ackData>>

\* No document could be evicted: the read goes to Redis.
NoCandidate(t) ==
    /\ at[t] = "evict" /\ scan = 0
    /\ mutex' = NoThread
    /\ holder' = [s \in Stripes |-> IF holder[s] = t THEN NoThread ELSE holder[s]]
    /\ at' = [at EXCEPT ![t] = "idle"]
    /\ req' = [req EXCEPT ![t] = NoReq]
    /\ UNCHANGED <<redisVars, cacheVars, scan, ackVars>>

\* read(key), and read of a path above the region depth: JSON.GET with the
\* dirty regions merged in (DocumentView).  Also a read of a region when
\* caching is disabled (a capacity is 0): JSON.GET answers.
ReadDocument(t) ==
    /\ Running(t)
    /\ KeepCache(req[t].doc, dirty)
    /\ Release(t)
    /\ UNCHANGED <<redisVars, ackVars>>

\* A hit, a miss that does not admit, or an admission whose JSON.GET fails.
AnswerRead(t) ==
    /\ at[t] = "lookup"
    /\ Release(t)
    /\ UNCHANGED <<redisVars, cacheVars, ackVars>>

\* admit: RegionLru::add of the value JSON.GET returned, as a clean entry.
\* A value that is too large is not kept; a full cache evicts a region w,
\* written back first if it is dirty, and keeps it if that fails.
Admit(t) ==
    LET r == req[t].reg
        d == req[t].doc
    IN  /\ at[t] = "lookup" /\ mutex = NoThread
        /\ cmeta[r] = Nil
        /\ meta[r] \notin {Nil} \cup BigVals
        /\ docLru' = Touched(d)
        /\ \/ /\ Cardinality(CachedRegions(d)) < Capacity
              /\ cmeta' = [cmeta EXCEPT ![r] = meta[r]]
              /\ UNCHANGED <<meta, data, dirty>>
           \/ /\ Cardinality(CachedRegions(d)) >= Capacity
              /\ \E w \in CachedRegions(d) :
                    \/ /\ w \notin dirty
                       /\ cmeta' = [cmeta EXCEPT ![w] = Nil, ![r] = meta[r]]
                       /\ UNCHANGED <<meta, data, dirty>>
                    \/ /\ w \in dirty /\ CanWriteBack(w)
                       /\ meta' = WrittenBack({w})
                       /\ data' = Merged({w})
                       /\ cmeta' = [cmeta EXCEPT ![w] = Nil, ![r] = meta[r]]
                       /\ dirty' = dirty \ {w}
                    \/ /\ w \in dirty
                       /\ \E W \in {{}} \cup (IF LostReplies /\ CanWriteBack(w) THEN {{w}} ELSE {}) :
                             /\ meta' = WrittenBack(W)
                             /\ data' = Merged(W)
                       /\ UNCHANGED <<cmeta, dirty>>
        /\ Doubt({}, {})
        /\ Release(t)
        /\ UNCHANGED <<placeVars, docCached, ackMeta, ackData>>

-----------------------------------------------------------------------------
(* write                                                                   *)

\* The region is cached and the value written has no remote field: the cache
\* is the target.  The RegionLru found here is used by the next step.
WriteFind(t, r, v) ==
    /\ Running(t)
    /\ r \in CachedRegions(req[t].doc)
    /\ docLru' = Touched(req[t].doc)
    /\ at' = [at EXCEPT ![t] = "update"]
    /\ req' = [req EXCEPT ![t].reg = r, ![t].val = v]
    /\ Holding
    /\ UNCHANGED <<redisVars, docCached, cmeta, dirty, ackVars>>

\* RegionLru::update: a dirty entry.  If the document's cache had been evicted
\* meanwhile, the entry would go to a RegionLru nobody can find.
Update(t) ==
    LET r == req[t].reg
        v == req[t].val
    IN  /\ at[t] = "update"
        /\ v \notin BigVals
        /\ cmeta' = IF req[t].doc \in docCached THEN [cmeta EXCEPT ![r] = v] ELSE cmeta
        /\ dirty' = IF req[t].doc \in docCached THEN dirty \cup {r} ELSE dirty
        /\ ackMeta' = [ackMeta EXCEPT ![r] = v]
        /\ Release(t)
        /\ UNCHANGED <<redisVars, docCached, docLru, ackData, doubt>>

\* A value that is too large is written through and its entry dropped; the
\* entry stays when the write is not acknowledged.
UpdateOversize(t) ==
    LET r == req[t].reg
        v == req[t].val
    IN  /\ at[t] = "update"
        /\ v \in BigVals
        /\ \E o \in Outcomes :
              /\ CanWriteBack(r) \/ o = "failed"
              /\ Command(meta, data, {r}, Put(meta, {r}, v), Merged({r}), o)
              /\ cmeta' = IF o = "ok" THEN [cmeta EXCEPT ![r] = Nil] ELSE cmeta
              /\ dirty' = IF o = "ok" THEN dirty \ {r} ELSE dirty
        /\ Doubt({}, {})
        /\ Release(t)
        /\ UNCHANGED <<placeVars, docCached, docLru>>

\* JSON.SET of a path at or below the region r, after a flush when r is
\* cached, gives r the parts nm (Nil: the one it has) and nd.  A path below
\* the region needs the region to be there, a path at it the parent.
WriteThrough(t, r, nm, nd, needsRegion) ==
    /\ Running(t)
    /\ \E f \in (IF cmeta[r] # Nil THEN FlushResults(req[t].doc)
                 ELSE {[ok |-> TRUE, written |-> {}, cleaned |-> {}]}), o \in Outcomes :
          LET m == WrittenBack(f.written)
              x == Merged(f.written)
          IN  /\ ~f.ok => o = "failed"
              /\ r \notin homes => o = "failed"
              /\ needsRegion /\ m[r] = Nil => o = "failed"
              /\ Command(m, x, {r}, Put(m, {r}, IF nm = Nil THEN m[r] ELSE nm), Put(x, {r}, nd), o)
              /\ IF o = "ok" THEN RemoveRegions(req[t].doc, {r}, dirty \ f.cleaned)
                 ELSE KeepCache(req[t].doc, dirty \ f.cleaned)
              /\ Doubt(f.cleaned, {})
    /\ Release(t)
    /\ UNCHANGED placeVars

\* A field of an uncached region.
WriteField(t, r, v) ==
    /\ r \in RegionsOf(req[t].doc) /\ cmeta[r] = Nil
    /\ WriteThrough(t, r, v, data[r], TRUE)

\* A whole region, its remote part included.
WriteRegion(t, r, v, x) ==
    /\ r \in RegionsOf(req[t].doc)
    /\ r \in ChatRegions \/ cmeta[r] = Nil
    /\ WriteThrough(t, r, v, IF r \in ChatRegions THEN x ELSE Nil, FALSE)

\* A remote field: never answered by the cache.
WriteData(t, r, x) ==
    /\ r \in RegionsOf(req[t].doc) \cap ChatRegions
    /\ WriteThrough(t, r, Nil, x, TRUE)

\* A whole uncached region without its remote part: JSON.SET replaces both.
WriteMetaOnly(t, r, v) ==
    /\ MetaReplace
    /\ r \in RegionsOf(req[t].doc) \cap ChatRegions /\ cmeta[r] = Nil
    /\ Running(t)
    /\ \E o \in Outcomes :
          /\ r \notin homes => o = "failed"
          /\ meta' = IF o = "failed" THEN meta ELSE Put(meta, {r}, v)
          /\ data' = IF o = "failed" THEN data ELSE Put(data, {r}, Nil)
          /\ ackMeta' = Acked(ackMeta, {r}, o, Put(meta, {r}, v))
          /\ IF o = "ok" THEN RemoveRegions(req[t].doc, {r}, dirty)
             ELSE KeepCache(req[t].doc, dirty)
    /\ Release(t)
    /\ UNCHANGED <<placeVars, ackData, doubt>>

\* A path above the region depth: flush, JSON.SET, removeDocument.  It gives
\* the regions P under the path new values, S being the ones that are left;
\* the path "$" covers every region and is the only one that can create the
\* document.  T are the regions that the new value has a parent for.
WriteAbove(t, P, S, v, x) ==
    LET d == req[t].doc
    IN  /\ Running(t)
        /\ S \subseteq P /\ P \subseteq RegionsOf(d)
        /\ \E f \in FlushResults(d), o \in Outcomes, T \in SUBSET P :
              LET m  == WrittenBack(f.written)
                  nm == Put(Put(m, P, Nil), S, v)
                  nd == Put(Put(Merged(f.written), P, Nil), S \cap ChatRegions, x)
              IN  /\ S \subseteq T
                  /\ ~f.ok => o = "failed"
                  /\ ~exists[d] /\ P # RegionsOf(d) => o = "failed"
                  /\ Command(m, Merged(f.written), P, nm, nd, o)
                  /\ exists' = [exists EXCEPT ![d] = @ \/ o # "failed"]
                  /\ homes' = IF o = "failed" THEN homes ELSE (homes \ P) \cup T
                  /\ IF o = "ok" THEN RemoveDocuments({d}, dirty \ f.cleaned)
                     ELSE KeepCache(d, dirty \ f.cleaned)
                  /\ Doubt(f.cleaned, IfLost(o, P))
        /\ Release(t)

-----------------------------------------------------------------------------
(* flush, erase, executeAtomic, erasePattern                               *)

Flush(t) ==
    /\ Running(t)
    /\ \E f \in FlushResults(req[t].doc) :
          /\ meta' = WrittenBack(f.written)
          /\ data' = Merged(f.written)
          /\ KeepCache(req[t].doc, dirty \ f.cleaned)
          /\ Doubt(f.cleaned, {})
    /\ Release(t)
    /\ UNCHANGED <<placeVars, ackMeta, ackData>>

\* JSON.DEL of regions S of the document, without a flush.  invalidate drops
\* the one region the path names, or the whole document for a shorter path.
EraseRegion(t, r) ==
    LET d == req[t].doc
    IN  /\ Running(t)
        /\ r \in RegionsOf(d)
        /\ \E o \in Outcomes :
              /\ Command(meta, data, {r}, Put(meta, {r}, Nil), Put(data, {r}, Nil), o)
              /\ IF o = "ok" THEN RemoveRegions(d, {r}, dirty)
                 ELSE UNCHANGED cacheVars
              /\ Doubt({}, IfLost(o, {r}))
        /\ Release(t)
        /\ UNCHANGED placeVars

EraseParent(t, S) ==
    LET d == req[t].doc
    IN  /\ ShallowErase
        /\ Running(t)
        /\ S \subseteq RegionsOf(d)
        /\ \E o \in Outcomes :
              /\ Command(meta, data, S, Put(meta, S, Nil), Put(data, S, Nil), o)
              /\ EraseHomes(S, o)
              /\ IF o = "ok" THEN RemoveDocuments({d}, dirty)
                 ELSE UNCHANGED cacheVars
              /\ Doubt({}, IfLost(o, S))
        /\ Release(t)
        /\ UNCHANGED exists

\* A path below a region (v is what the region becomes): flush first.  When
\* the path has an array index the whole document is dropped from the cache.
EraseField(t, r, v, index) ==
    LET d == req[t].doc
    IN  /\ Running(t)
        /\ r \in RegionsOf(d)
        /\ \E f \in FlushResults(d), o \in Outcomes :
              LET m == WrittenBack(f.written)
                  n == IF m[r] = Nil THEN m ELSE Put(m, {r}, v)
              IN  /\ ~f.ok => o = "failed"
                  /\ Command(m, Merged(f.written), {r}, n, Merged(f.written), o)
                  /\ IF o # "ok" THEN KeepCache(d, dirty \ f.cleaned)
                     ELSE IF index THEN RemoveDocuments({d}, dirty \ f.cleaned)
                     ELSE RemoveRegions(d, {r}, dirty \ f.cleaned)
                  /\ Doubt(f.cleaned, {})
        /\ Release(t)
        /\ UNCHANGED placeVars

EraseDocument(t) ==
    LET d == req[t].doc
        S == RegionsOf(d)
    IN  /\ Running(t)
        /\ \E o \in Outcomes :
              /\ Command(meta, data, S, Put(meta, S, Nil), Put(data, S, Nil), o)
              /\ exists' = [exists EXCEPT ![d] = @ /\ o = "failed"]
              /\ EraseHomes(S, o)
              /\ IF o = "ok" THEN RemoveDocuments({d}, dirty)
                 ELSE UNCHANGED cacheVars
              /\ Doubt({}, IfLost(o, S))
        /\ Release(t)

\* executeAtomic with a script that changes the regions S (v, x are the new
\* values; Nil deletes): the changed paths are dropped from the cache whatever
\* the reply.  A script finds nothing to change in a missing document.
ExecuteAtomic(t, S, v, x) ==
    LET d == req[t].doc
    IN  /\ Running(t)
        /\ S \subseteq RegionsOf(d)
        /\ v = Nil <=> x = Nil
        /\ \E f \in FlushResults(d), o \in Outcomes :
              LET m == WrittenBack(f.written)
              IN  /\ ~f.ok \/ ~exists[d] => o = "failed"
                  /\ Command(m, Merged(f.written), S, Put(m, S, v),
                             Put(Merged(f.written), S \cap ChatRegions, x), o)
                  /\ homes' = IF o = "failed" \/ v = Nil THEN homes ELSE homes \cup S
                  /\ IF f.ok THEN RemoveRegions(d, S, dirty \ f.cleaned)
                     ELSE KeepCache(d, dirty \ f.cleaned)
                  /\ Doubt(f.cleaned, {})
        /\ Release(t)
        /\ UNCHANGED exists

\* KEYS finds the documents D; DEL removes them; their caches are dropped.
ErasePattern(t, D) ==
    LET S == {r \in Regions : DocOf[r] \in D}
    IN  /\ at[t] = "lockAll" /\ mutex = NoThread
        /\ \A s \in Stripes : holder[s] = t
        /\ \A d \in D : exists[d]
        /\ \E o \in Outcomes :
              /\ Command(meta, data, S, Put(meta, S, Nil), Put(data, S, Nil), o)
              /\ exists' = [d \in Docs |-> exists[d] /\ (d \notin D \/ o = "failed")]
              /\ EraseHomes(S, o)
              /\ IF o = "ok" THEN RemoveDocuments(D, dirty)
                 ELSE UNCHANGED cacheVars
              /\ Doubt({}, IfLost(o, S))
        /\ Release(t)

-----------------------------------------------------------------------------
Read(t) ==
    \/ ReadDocument(t) \/ SkipCandidate(t) \/ EvictCandidate(t) \/ NoCandidate(t)
    \/ AnswerRead(t) \/ Admit(t)
    \/ \E r \in Regions : FindCache(t, r) \/ BeginEviction(t, r)

Write(t) ==
    \/ Update(t) \/ UpdateOversize(t)
    \/ \E r \in Regions, v \in Vals : WriteFind(t, r, v) \/ WriteField(t, r, v) \/ WriteMetaOnly(t, r, v)
    \/ \E r \in Regions, v \in Vals, x \in DataVals : WriteRegion(t, r, v, x)
    \/ \E r \in Regions, x \in DataVals : WriteData(t, r, x)
    \/ \E P, S \in SUBSET Regions, v \in Vals, x \in DataVals : WriteAbove(t, P, S, v, x)

Erase(t) ==
    \/ EraseDocument(t)
    \/ \E r \in Regions : EraseRegion(t, r)
    \/ \E r \in Regions, v \in Vals, index \in BOOLEAN : EraseField(t, r, v, index)
    \/ \E S \in SUBSET Regions : EraseParent(t, S)
    \/ \E D \in SUBSET Docs : ErasePattern(t, D)

Next ==
    \E t \in Threads :
        \/ \E d \in Docs : LockDocument(t, d)
        \/ \E s \in Stripes : LockNextStripe(t, s)
        \/ Read(t) \/ Write(t) \/ Erase(t) \/ Flush(t)
        \/ \E S \in SUBSET Regions, v \in Vals \cup {Nil}, x \in DataVals \cup {Nil} :
                ExecuteAtomic(t, S, v, x)

Spec == Init /\ [][Next]_vars

\* A thread that scans for a document to evict holds mutex_ and waits for
\* nothing, so it goes on.
FairSpec ==
    /\ Spec
    /\ \A t \in Threads : WF_vars(SkipCandidate(t) \/ EvictCandidate(t) \/ NoCandidate(t))

-----------------------------------------------------------------------------
(* Properties.                                                             *)

\* Every variable has its type.
CoreType ==
    /\ exists \in [Docs -> BOOLEAN]
    /\ meta \in [Regions -> Vals \cup {Nil}]
    /\ data \in [Regions -> DataVals \cup {Nil}]
    /\ docCached \in SUBSET Docs
    /\ cmeta \in [Regions -> Vals \cup {Nil}]
    /\ dirty \in SUBSET Regions
    /\ mutex \in Threads \cup {NoThread}
    /\ holder \in [Stripes -> Threads \cup {NoThread}]
    /\ at \in [Threads -> {"idle", "lockAll", "body", "evict", "lookup", "update"}]
    /\ req \in [Threads -> [doc : Docs \cup {Nil}, reg : Regions \cup {Nil}, val : Vals \cup {Nil}]]
    /\ ackMeta \in [Regions -> Vals \cup {Nil, Unknown}]
    /\ ackData \in [Regions -> DataVals \cup {Nil, Unknown}]
PlaceType == homes \in SUBSET Regions /\ doubt \in SUBSET Regions
TypeOK == CoreType /\ PlaceType

\* No acknowledged write or erase is undone by promotion, eviction, flush or a
\* failed later call: read(key, path) answers with it (MemoryClass::read).
AckedReadable ==
    \A r \in Regions : ackMeta[r] # Unknown => RegionView(r) = ackMeta[r]

\* read(key) agrees: what it returns has every acknowledged value, so whatever
\* left the cache has been written back.  It returns nothing for a document
\* that callers know to have values only when a dirty region of it may have
\* been removed by a call whose reply was lost (MemoryClass::Impl::document).
AckedDurable ==
    \A r \in Regions :
        LET d == DocOf[r]
        IN  /\ ackMeta[r] # Unknown
            /\ Answers(d) \/ dirty \cap doubt \cap RegionsOf(d) = {}
            => DocumentView(r) = ackMeta[r]

\* A dirty region can be written back as soon as Redis answers, unless a call
\* that may have removed it ended without a reply: otherwise one region would
\* stop every flush, script and hand-over of its document for good (writeBack).
DirtyWritable ==
    \A r \in dirty \ doubt : CanWriteBack(r)

\* The remote part of a region is never touched by the write-back of its
\* cacheable part (the merge in MemoryClass::Impl::writeBack).
RemoteKept ==
    \A r \in Regions : ackData[r] # Unknown => data[r] = ackData[r]

\* CacheManager's bookkeeping: dirty regions are cached, cached regions belong
\* to a cached document, neither level outgrows its capacity, lru_ lists every
\* cached document once, and it does not shrink below a scan's position.
CacheBounds ==
    /\ \A r \in dirty : cmeta[r] # Nil
    /\ \A r \in Regions : cmeta[r] # Nil => DocOf[r] \in docCached
    /\ Cardinality(docCached) <= MaxDocuments
    /\ \A d \in Docs : Cardinality(CachedRegions(d)) <= Capacity
    /\ Len(docLru) = Cardinality(docCached)
    /\ {docLru[i] : i \in 1..Len(docLru)} = docCached
    /\ scan \in 0..Len(docLru)

\* The cache of a document changes only under its stripe: a step that changes
\* it is taken by the stripe's owner, or while nobody owns the stripe.
CacheOf(d) == <<d \in docCached, [r \in RegionsOf(d) |-> <<cmeta[r], r \in dirty>>]>>
StripeProtects ==
    [][\A d \in Docs, t \in Threads :
          /\ holder[StripeOf[d]] = t
          /\ CacheOf(d)' # CacheOf(d)
          => at[t]' # at[t] \/ req[t]' # req[t]]_vars

\* mutex_ is always released again: the eviction scan never waits for another
\* document's stripe, so callers cannot deadlock on mutex_ and a stripe.
EvictionEnds ==
    \A t \in Threads : (mutex = t) ~> (mutex = NoThread)
=============================================================================
