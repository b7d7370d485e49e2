----------------------- MODULE CanvasLifecycleProofs -----------------------
(***************************************************************************)
(* Proofs about CanvasLifecycle, for any servers, writes and number of     *)
(* loads.  Types hold under every fault.  The other theorems need running  *)
(* servers that are neither shut down nor slow, whatever crashes and       *)
(* whichever requests to Redis and Elasticsearch fail or lose replies; and *)
(*   - when SQL answers: one server serves the canvas, a deleted canvas    *)
(*     stays deleted, and only saved edits are deleted from Redis, even    *)
(*     when loads end half way;                                            *)
(*   - when no load ends half way: a cached canvas has its document, even  *)
(*     when requests to SQL fail or lose replies;                          *)
(*   - with both: no acknowledged edit is lost.                            *)
(***************************************************************************)
EXTENDS CanvasLifecycle, TLAPS

\* What may go wrong in the theorems: no server is stopped or slow, ...
ServersRun == "stop" \notin Faults /\ "slow" \notin Faults
\* ... and SQL answers, ...
SqlAnswers == Faults \subseteq {"crash", "redis", "es", "abandon"}
\* ... or a load that has allocated the canvas stores it or gives it back, ...
LoadsFinish == Faults \subseteq {"crash", "redis", "es", "sql"}
\* ... or both.
CrashesOnly == Faults \subseteq {"crash", "redis", "es"}

-----------------------------------------------------------------------------
(* The inductive invariants.                                               *)

\* The server the row names is loading a canvas that was not cached: nobody
\* trusts the Redis document yet.
LoadingFresh == \E s \in Servers : row.server = s /\ step[s] \in LoadSteps /\ ~was[s]

\* The Redis document is the canvas.
Trusted == row.exists /\ row.cached /\ ~LoadingFresh

\* s loads, serves or saves the canvas; a server that only has the old document
\* left to delete is no longer engaged.
Engaged(s) == step[s] # "delete" /\ (step[s] # "idle" \/ pool[s] # "none")

\* What main keeps of a server, and how its steps, its pool and its load agree.
Agree(s) ==
    /\ phase[s] \in {"down", "up"}
    /\ phase[s] = "up" => active[s] /\ fresh[s]
    /\ phase[s] = "down" => pool[s] = "none" /\ step[s] = "idle"
    /\ was[s] => step[s] \in {"read", "store"}
    /\ step[s] \in LoadSteps => pool[s] = "none"
    /\ step[s] \in {"save", "uncache", "delete"} => pool[s] = "unloading"
    /\ step[s] # "stopSave"

ServerInv == \A s \in Servers : Agree(s)

\* Generations are never handed out twice.
GenInv ==
    /\ redis.gen <= gens
    /\ \A s \in Servers : snap[s].gen <= gens

\* An engaged server is the one the row names.
OwnerInv == \A s \in Servers : Engaged(s) => Mine(s)

\* A deleted canvas leaves nothing behind in SQL and Elasticsearch.
GoneInv == ~row.exists => ~row.cached /\ acked = {} /\ ~es.there

\* What a fresh load or an unload has read is still what the store has.
ReadInv ==
    \A s \in Servers :
        /\ step[s] = "store" /\ ~was[s] => snap[s].content = es.content
        /\ step[s] \in {"save", "uncache"} =>
              snap[s].gen = redis.gen /\ snap[s].content = redis.content
        /\ step[s] = "uncache" => es.content = redis.content

\* Elasticsearch has the acknowledged edits of the Redis document.
Saved == redis.content \cap acked \subseteq es.content

\* What may be deleted from Redis is saved: the document nobody trusts, and the
\* one an unload is about to delete, which is not the one a server serves.
SavedInv ==
    /\ ~Trusted => Saved
    /\ \A s \in Servers :
          step[s] = "delete" =>
             /\ redis.gen = snap[s].gen => Saved
             /\ \A t \in Servers : Engaged(t) /\ pool[t] # "none" => redis.gen # snap[s].gen

\* A server that loads the canvas is the one the row names.
LoaderInv == \A s \in Servers : step[s] \in LoadSteps => Mine(s)

\* A trusted document is there, and it is not one that an unload is about to
\* delete.
CacheInv ==
    /\ Trusted => redis.there
    /\ \A s \in Servers : step[s] = "delete" => redis.gen # snap[s].gen \/ ~Trusted

\* The store that is trusted holds every acknowledged edit, and so does what a
\* load has read from it.
TrustInv ==
    /\ Trusted => acked \subseteq redis.content
    /\ ~Trusted => acked \subseteq es.content
    /\ \A s \in Servers : step[s] = "store" => acked \subseteq snap[s].content

\* How these build on each other: what needs running servers only, what SQL adds,
\* and what finished loads add.
RunInv == TypeOK /\ ServerInv /\ GenInv
HoldInv == RunInv /\ OwnerInv /\ GoneInv
KeepInv == HoldInv /\ ReadInv /\ SavedInv
OpenInv == RunInv /\ LoaderInv /\ CacheInv
LifeInv == KeepInv /\ OpenInv /\ TrustInv

-----------------------------------------------------------------------------
(* Types.                                                                  *)

\* The records the actions write have their types.
LEMMA ConstTypes ==
    /\ NoRedis \in [there : BOOLEAN, gen : 0..MaxGen, content : SUBSET Writes]
    /\ NoEs \in [there : BOOLEAN, content : SUBSET Writes]
    /\ NoSnap \in [gen : 0..MaxGen, content : SUBSET Writes]
    /\ Uncached \in [exists : BOOLEAN, cached : BOOLEAN, server : Servers \cup {None}]
BY ConstantsAssumption DEF NoRedis, NoEs, NoSnap, Uncached

\* The first state has the right types.
LEMMA InitType == Init => TypeOK
BY ConstTypes, ConstantsAssumption DEF Init, TypeOK

\* The steps of a server's life keep the types.
LEMMA LifeType == ASSUME TypeOK, NEW s \in Servers, Life(s) PROVE TypeOK'
<1>1. CASE Register(s)
  BY <1>1 DEF Register, TypeOK, stores
<1>2. CASE Heartbeat(s)
  BY <1>2 DEF Heartbeat, TypeOK, stores
<1>3. CASE HeartbeatExpires(s)
  BY <1>3 DEF HeartbeatExpires, TypeOK, stores
<1>4. CASE QueryTimeout(s)
  BY <1>4 DEF QueryTimeout, TypeOK, stores
<1>5. CASE Crash(s)
  BY <1>5, ConstTypes DEF Crash, ProcessEnds, TypeOK, stores
<1> QED
  BY <1>1, <1>2, <1>3, <1>4, <1>5 DEF Life

\* A failed load keeps the types of what it touches.
LEMMA LoadFailsType ==
  ASSUME TypeOK, NEW s \in Servers, NEW next \in {"clear", "undo"}, LoadFails(s, next)
  PROVE  /\ step' \in [Servers -> LoadSteps \cup {"idle", "save", "uncache", "delete", "stopSave"}]
         /\ was' \in [Servers -> BOOLEAN]
         /\ snap' \in [Servers -> [gen : 0..MaxGen, content : SUBSET Writes]]
BY ConstTypes DEF LoadFails, TypeOK, LoadSteps

\* The document a load starts from is a document.
LEMMA SourceType ==
  ASSUME TypeOK, NEW s \in Servers
  PROVE  Source(s) \in [there : BOOLEAN, content : SUBSET Writes]
BY DEF TypeOK, Source

\* The steps of a load keep the types.
LEMMA LoadType == ASSUME TypeOK, NEW s \in Servers, Load(s) PROVE TypeOK'
<1>1. CASE LoadAllocate(s)
  <2>1. row' \in [exists : BOOLEAN, cached : BOOLEAN, server : Servers \cup {None}]
    BY <1>1 DEF LoadAllocate, TypeOK
  <2>2. PICK o \in Outcomes("sql") :
           /\ step' = [step EXCEPT ![s] = IF o = "ok" THEN "read" ELSE "idle"]
           /\ was' = [was EXCEPT ![s] = (o = "ok" /\ row.cached)]
    BY <1>1 DEF LoadAllocate
  <2>3. (o = "ok" /\ row.cached) \in BOOLEAN
    OBVIOUS
  <2>4. was' \in [Servers -> BOOLEAN]
    BY <2>2, <2>3 DEF TypeOK
  <2> QED
    BY <1>1, <2>1, <2>2, <2>4 DEF LoadAllocate, TypeOK, LoadSteps
<1>2. CASE LoadRead(s)
  <2>1. UNCHANGED <<row, redis, active, fresh, phase, pool, recent, gens, acked>>
    BY <1>2 DEF LoadRead
  <2>2. CASE LoadFails(s, "undo") /\ UNCHANGED es
    BY <2>1, <2>2, LoadFailsType DEF TypeOK
  <2>3. CASE LoadFails(s, "clear") /\ UNCHANGED es
    BY <2>1, <2>3, LoadFailsType DEF TypeOK
  <2>4. CASE /\ es' \in {es, Source(s)}
             /\ snap' = [snap EXCEPT ![s] = [gen |-> 0, content |-> Source(s).content]]
             /\ step' = [step EXCEPT ![s] = "store"]
             /\ UNCHANGED was
    <3>1. [gen |-> 0, content |-> Source(s).content] \in [gen : 0..MaxGen, content : SUBSET Writes]
      BY SourceType, ConstantsAssumption
    <3> QED
      BY <2>1, <2>4, <3>1, SourceType DEF TypeOK, LoadSteps
  <2> QED
    BY <1>2, <2>2, <2>3, <2>4 DEF LoadRead
<1>3. CASE LoadStore(s)
  <2>1. gens' \in 0..MaxGen /\ gens + 1 \in 0..MaxGen
    BY <1>3, ConstantsAssumption DEF LoadStore, TypeOK
  <2>2. [there |-> TRUE, gen |-> gens + 1, content |-> snap[s].content]
          \in [there : BOOLEAN, gen : 0..MaxGen, content : SUBSET Writes]
    BY <2>1 DEF TypeOK
  <2>3. redis' \in [there : BOOLEAN, gen : 0..MaxGen, content : SUBSET Writes]
    BY <1>3, <2>2 DEF LoadStore, TypeOK
  <2>4. CASE LoadFails(s, "clear") /\ UNCHANGED <<pool, recent>>
    BY <1>3, <2>1, <2>3, <2>4, LoadFailsType DEF LoadStore, TypeOK
  <2>5. CASE /\ pool' = [pool EXCEPT ![s] = "ready"]
             /\ recent' = [recent EXCEPT ![s] = TRUE]
             /\ step' = [step EXCEPT ![s] = "idle"]
             /\ was' = [was EXCEPT ![s] = FALSE]
             /\ snap' = [snap EXCEPT ![s] = NoSnap]
    BY <1>3, <2>1, <2>3, <2>5, ConstTypes DEF LoadStore, TypeOK
  <2> QED
    BY <1>3, <2>4, <2>5 DEF LoadStore
<1>4. CASE LoadClear(s)
  BY <1>4, ConstTypes DEF LoadClear, TypeOK, LoadSteps
<1>5. CASE LoadUndo(s)
  BY <1>5, ConstTypes DEF LoadUndo, TypeOK
<1> QED
  BY <1>1, <1>2, <1>3, <1>4, <1>5 DEF Load

\* An unload that is over, or goes on, keeps the types of what it touches.
LEMMA UnloadEndType ==
  ASSUME TypeOK, NEW s \in Servers,
         \/ UnloadFails(s)
         \/ UnloadDone(s)
         \/ \E x \in {"uncache", "delete"} :
               step' = [step EXCEPT ![s] = x] /\ UNCHANGED <<pool, snap>>
  PROVE  /\ step' \in [Servers -> LoadSteps \cup {"idle", "save", "uncache", "delete", "stopSave"}]
         /\ pool' \in [Servers -> {"none", "ready", "unloading"}]
         /\ snap' \in [Servers -> [gen : 0..MaxGen, content : SUBSET Writes]]
<1>1. CASE UnloadFails(s)
  BY <1>1, ConstTypes DEF UnloadFails, TypeOK
<1>2. CASE UnloadDone(s)
  BY <1>2, ConstTypes DEF UnloadDone, TypeOK
<1>3. CASE \E x \in {"uncache", "delete"} :
              step' = [step EXCEPT ![s] = x] /\ UNCHANGED <<pool, snap>>
  BY <1>3 DEF TypeOK
<1> QED
  BY <1>1, <1>2, <1>3

\* The steps of an unload keep the types.
LEMMA UnloadType == ASSUME TypeOK, NEW s \in Servers, Unload(s) PROVE TypeOK'
<1>0. [gen |-> redis.gen, content |-> redis.content] \in [gen : 0..MaxGen, content : SUBSET Writes]
  BY DEF TypeOK
<1>1. CASE UnloadRead(s)
  BY <1>0, <1>1 DEF UnloadRead, TypeOK, stores
<1>2. CASE UnloadSave(s)
  <2>1. es' \in [there : BOOLEAN, content : SUBSET Writes]
    BY <1>2 DEF UnloadSave, TypeOK
  <2>2. \/ step' = [step EXCEPT ![s] = "uncache"] /\ UNCHANGED <<pool, snap>>
        \/ UnloadFails(s)
    BY <1>2 DEF UnloadSave
  <2> QED
    BY <1>2, <2>1, <2>2, UnloadEndType DEF UnloadSave, TypeOK
<1>3. CASE UnloadUncache(s)
  <2>1. row' \in [exists : BOOLEAN, cached : BOOLEAN, server : Servers \cup {None}]
    BY <1>3, ConstTypes DEF UnloadUncache, TypeOK
  <2>2. \/ step' = [step EXCEPT ![s] = "delete"] /\ UNCHANGED <<pool, snap>>
        \/ UnloadDone(s)
        \/ UnloadFails(s)
    BY <1>3 DEF UnloadUncache
  <2>3. UNCHANGED <<redis, es, active, fresh, phase, recent, was, gens, acked>>
    BY <1>3 DEF UnloadUncache
  <2> QED
    BY <2>1, <2>2, <2>3, UnloadEndType DEF TypeOK
<1>4. CASE UnloadDelete(s)
  BY <1>4, ConstTypes DEF UnloadDelete, UnloadDone, TypeOK
<1> QED
  BY <1>1, <1>2, <1>3, <1>4 DEF Unload

\* The steps of a shutdown keep the types.
LEMMA StopType == ASSUME TypeOK, NEW s \in Servers, Stop(s) PROVE TypeOK'
<1>0. [gen |-> redis.gen, content |-> redis.content] \in [gen : 0..MaxGen, content : SUBSET Writes]
  BY DEF TypeOK
<1>1. CASE StopInactive(s)
  <2>1. PICK o \in Outcomes("sql") : active' = [active EXCEPT ![s] = (o = "failed")]
    BY <1>1 DEF StopInactive
  <2>2. (o = "failed") \in BOOLEAN
    OBVIOUS
  <2>3. active' \in [Servers -> BOOLEAN]
    BY <2>1, <2>2 DEF TypeOK
  <2> QED
    BY <1>1, <2>3 DEF StopInactive, TypeOK, stores
<1>2. CASE StopServing(s)
  BY <1>2 DEF StopServing, TypeOK, stores
<1>3. CASE StopFreeze(s)
  <2>1. pool' \in [Servers -> {"none", "ready", "unloading"}]
    BY <1>3 DEF StopFreeze, TypeOK
  <2>2. \/ /\ snap' = [snap EXCEPT ![s] = [gen |-> redis.gen, content |-> redis.content]]
           /\ step' = [step EXCEPT ![s] = "stopSave"]
           /\ UNCHANGED phase
        \/ /\ phase' = [phase EXCEPT ![s] = "cleanup"]
           /\ UNCHANGED <<snap, step>>
    BY <1>3 DEF StopFreeze
  <2>3. UNCHANGED <<stores, active, fresh, recent, was, gens, acked>>
    BY <1>3 DEF StopFreeze
  <2>4. CASE /\ snap' = [snap EXCEPT ![s] = [gen |-> redis.gen, content |-> redis.content]]
             /\ step' = [step EXCEPT ![s] = "stopSave"]
             /\ UNCHANGED phase
    BY <1>0, <2>1, <2>3, <2>4 DEF TypeOK, stores
  <2>5. CASE /\ phase' = [phase EXCEPT ![s] = "cleanup"]
             /\ UNCHANGED <<snap, step>>
    BY <2>1, <2>3, <2>5 DEF TypeOK, stores
  <2> QED
    BY <2>2, <2>4, <2>5
<1>4. CASE StopSave(s)
  <2>1. es' \in [there : BOOLEAN, content : SUBSET Writes]
    BY <1>4 DEF StopSave, TypeOK
  <2> QED
    BY <1>4, <2>1, ConstTypes DEF StopSave, TypeOK
<1>5. CASE StopExit(s)
  BY <1>5, ConstTypes DEF StopExit, ProcessEnds, TypeOK, stores
<1> QED
  BY <1>1, <1>2, <1>3, <1>4, <1>5 DEF Stop

\* The requests of users keep the types.
LEMMA UserType ==
  ASSUME TypeOK,
         \/ \E s \in Servers, w \in Writes : Query(s, w)
         \/ \E w \in Writes : EditInactive(w)
         \/ AccessReassign
         \/ DeleteCanvas
  PROVE  TypeOK'
<1>1. ASSUME NEW s \in Servers, NEW w \in Writes, Query(s, w) PROVE TypeOK'
  <2>1. redis' \in [there : BOOLEAN, gen : 0..MaxGen, content : SUBSET Writes]
    <3>1. redis' = redis \/ redis' = [redis EXCEPT !.content = @ \cup {w}]
      BY <1>1 DEF Query
    <3> QED
      BY <3>1 DEF TypeOK
  <2>2. acked' \in SUBSET Writes /\ recent' \in [Servers -> BOOLEAN]
    BY <1>1 DEF Query, TypeOK
  <2> QED
    BY <1>1, <2>1, <2>2 DEF Query, TypeOK
<1>2. ASSUME NEW w \in Writes, EditInactive(w) PROVE TypeOK'
  <2>1. es' \in [there : BOOLEAN, content : SUBSET Writes]
    BY <1>2 DEF EditInactive, TypeOK
  <2> QED
    BY <1>2, <2>1 DEF EditInactive, TypeOK
<1>3. CASE AccessReassign
  BY <1>3 DEF AccessReassign, TypeOK
<1>4. CASE DeleteCanvas
  <2>1. PICK o \in Outcomes("es") :
           /\ es' = IF o = "failed" THEN es ELSE NoEs
           /\ row' = IF o = "ok" THEN [row EXCEPT !.exists = FALSE] ELSE row
           /\ acked' = IF o = "failed" THEN acked ELSE {}
    BY <1>4 DEF DeleteCanvas
  <2>2. es' \in [there : BOOLEAN, content : SUBSET Writes]
    BY <2>1, ConstTypes DEF TypeOK
  <2>3. row' \in [exists : BOOLEAN, cached : BOOLEAN, server : Servers \cup {None}]
    BY <2>1 DEF TypeOK
  <2>4. acked' \in SUBSET Writes
    BY <2>1 DEF TypeOK
  <2> QED
    BY <1>4, <2>2, <2>3, <2>4 DEF DeleteCanvas, TypeOK
<1> QED
  BY <1>1, <1>2, <1>3, <1>4

\* Every step keeps the types.
LEMMA StepType == TypeOK /\ [Next]_vars => TypeOK'
<1>1. CASE UNCHANGED vars
  BY <1>1 DEF vars, stores, TypeOK
<1> QED
  BY <1>1, LifeType, LoadType, UnloadType, StopType, UserType DEF Next

\* The variables always have their types, under every fault.
THEOREM TypeCorrect == Spec => []TypeOK
BY InitType, StepType, PTL DEF Spec

-----------------------------------------------------------------------------
(* What the steps do to the server that takes them.                        *)

\* What the assumptions on the faults say.
LEMMA FaultFacts ==
  /\ SqlAnswers => ServersRun /\ "sql" \notin Faults
  /\ LoadsFinish => ServersRun /\ ~MayAbandon
  /\ CrashesOnly => SqlAnswers /\ LoadsFinish
  /\ "sql" \notin Faults => Outcomes("sql") = {"ok"}
BY DEF ServersRun, SqlAnswers, LoadsFinish, CrashesOnly, Outcomes, MayAbandon

\* The allocation: the load goes on, unless the reply of SQL is lost.
LEMMA AllocateDoes ==
  ASSUME TypeOK, NEW s \in Servers, LoadAllocate(s), "sql" \notin Faults \/ ~MayAbandon
  PROVE  /\ step[s] = "idle" /\ pool[s] = "none" /\ Serving(s)
         /\ row.exists
         /\ row.cached => row.server \in {None, s}
         /\ row'.exists /\ row'.cached /\ row'.server = s
         /\ step'[s] = "read" /\ was'[s] = row.cached
         /\ \A t \in Servers \ {s} : step'[t] = step[t] /\ was'[t] = was[t]
         /\ UNCHANGED <<redis, es, active, fresh, phase, pool, recent, snap, gens, acked>>
<1>1. PICK o \in Outcomes("sql") :
         /\ o = "ok" \/ MayAbandon
         /\ step' = [step EXCEPT ![s] = IF o = "ok" THEN "read" ELSE "idle"]
         /\ was' = [was EXCEPT ![s] = (o = "ok" /\ row.cached)]
  BY DEF LoadAllocate
<1>2. o = "ok"
  BY <1>1, FaultFacts
<1>3. (o = "ok" /\ row.cached) = row.cached
  BY <1>2 DEF TypeOK
<1>4. was' = [was EXCEPT ![s] = row.cached]
  BY <1>1, <1>3
<1>5. step' = [step EXCEPT ![s] = "read"]
  BY <1>1, <1>2
<1>6. was'[s] = row.cached /\ \A t \in Servers \ {s} : was'[t] = was[t]
  BY <1>4 DEF TypeOK
<1>7. step'[s] = "read" /\ \A t \in Servers \ {s} : step'[t] = step[t]
  BY <1>5 DEF TypeOK
<1> QED
  BY <1>6, <1>7 DEF LoadAllocate, TypeOK

\* A load that fails: a canvas that was cached stays so, one that was not is given
\* back.
LEMMA LoadFailsDoes ==
  ASSUME TypeOK, NEW s \in Servers, NEW next \in {"clear", "undo"}, LoadFails(s, next)
  PROVE  /\ step'[s] = IF was[s] THEN "idle" ELSE next
         /\ ~was'[s] /\ snap'[s] = NoSnap
         /\ \A t \in Servers \ {s} : step'[t] = step[t] /\ was'[t] = was[t] /\ snap'[t] = snap[t]
BY DEF LoadFails, TypeOK

\* The read of a load: it fails, or has the document of its source.
LEMMA LoadReadDoes ==
  ASSUME TypeOK, NEW s \in Servers, LoadRead(s)
  PROVE  /\ step[s] = "read"
         /\ UNCHANGED <<row, redis, active, fresh, phase, pool, recent, gens, acked>>
         /\ \A t \in Servers \ {s} : step'[t] = step[t] /\ was'[t] = was[t] /\ snap'[t] = snap[t]
         /\ snap'[s].gen = 0
         /\ \/ /\ was[s] => step'[s] = "idle"
               /\ ~was[s] => step'[s] \in {"clear", "undo"}
               /\ ~was'[s] /\ es' = es
            \/ /\ step'[s] = "store" /\ was'[s] = was[s]
               /\ snap'[s].content = Source(s).content
               /\ Source(s).there /\ es' \in {es, Source(s)}
<1>1. /\ step[s] = "read"
      /\ UNCHANGED <<row, redis, active, fresh, phase, pool, recent, gens, acked>>
  BY DEF LoadRead
<1>2. CASE (LoadFails(s, "undo") \/ LoadFails(s, "clear")) /\ UNCHANGED es
  BY <1>1, <1>2, LoadFailsDoes DEF NoSnap
<1>3. CASE /\ Source(s).there
           /\ es' \in {es, Source(s)}
           /\ snap' = [snap EXCEPT ![s] = [gen |-> 0, content |-> Source(s).content]]
           /\ step' = [step EXCEPT ![s] = "store"]
           /\ UNCHANGED was
  BY <1>1, <1>3 DEF TypeOK
<1> QED
  BY <1>2, <1>3 DEF LoadRead

\* The document that s has read is in Redis, with a new generation.
Stored(s) == redis'.there /\ redis'.gen = gens + 1 /\ redis'.content = snap[s].content

\* The store of a load: it fails, with or without effect, or the server serves.
LEMMA LoadStoreDoes ==
  ASSUME TypeOK, NEW s \in Servers, LoadStore(s)
  PROVE  /\ step[s] = "store" /\ gens' = gens + 1
         /\ UNCHANGED <<row, es, active, fresh, phase, acked>>
         /\ \A t \in Servers \ {s} :
               step'[t] = step[t] /\ pool'[t] = pool[t] /\ was'[t] = was[t] /\ snap'[t] = snap[t]
         /\ ~was'[s] /\ snap'[s].gen = 0
         /\ redis' = redis \/ Stored(s)
         /\ \/ /\ was[s] => step'[s] = "idle"
               /\ ~was[s] => step'[s] = "clear"
               /\ pool'[s] = pool[s]
            \/ step'[s] = "idle" /\ pool'[s] = "ready" /\ Stored(s)
<1>1. /\ step[s] = "store"
      /\ gens' = gens + 1
      /\ UNCHANGED <<row, es, active, fresh, phase, acked>>
      /\ redis' = redis \/ Stored(s)
  BY DEF LoadStore, Stored
<1>2. CASE LoadFails(s, "clear") /\ UNCHANGED <<pool, recent>>
  BY <1>1, <1>2, LoadFailsDoes DEF NoSnap
<1>3. CASE /\ pool' = [pool EXCEPT ![s] = "ready"]
           /\ step' = [step EXCEPT ![s] = "idle"]
           /\ was' = [was EXCEPT ![s] = FALSE]
           /\ snap' = [snap EXCEPT ![s] = NoSnap]
           /\ Stored(s)
  BY <1>1, <1>3 DEF TypeOK, NoSnap
<1> QED
  BY <1>2, <1>3 DEF LoadStore, Stored

\* The deletion after a failed load: the load may end here when it may be abandoned.
LEMMA LoadClearDoes ==
  ASSUME TypeOK, NEW s \in Servers, LoadClear(s)
  PROVE  /\ step[s] = "clear"
         /\ redis' = redis \/ (redis'.gen = 0 /\ redis'.content = {})
         /\ step'[s] \in {"undo", "idle"}
         /\ ~MayAbandon => step'[s] = "undo"
         /\ \A t \in Servers \ {s} : step'[t] = step[t]
         /\ UNCHANGED <<row, es, active, fresh, phase, pool, recent, was, snap, gens, acked>>
BY DEF LoadClear, TypeOK, NoRedis

\* Giving a canvas back that could not be loaded.
LEMMA LoadUndoDoes ==
  ASSUME TypeOK, NEW s \in Servers, LoadUndo(s)
  PROVE  /\ step[s] = "undo" /\ step'[s] = "idle"
         /\ \A t \in Servers \ {s} : step'[t] = step[t]
         /\ row' \in {row, Uncached}
         /\ Mine(s) /\ ("sql" \notin Faults \/ ~MayAbandon) => row' = Uncached
         /\ ~Mine(s) => row' = row
         /\ UNCHANGED <<redis, es, active, fresh, phase, pool, recent, was, snap, gens, acked>>
<1>1. PICK o \in Outcomes("sql") :
         /\ o # "failed" \/ MayAbandon
         /\ row' = IF Mine(s) /\ o # "failed" THEN Uncached ELSE row
  BY DEF LoadUndo
<1>2. "sql" \notin Faults \/ ~MayAbandon => o # "failed"
  BY <1>1, FaultFacts
<1> QED
  BY <1>1, <1>2 DEF LoadUndo, TypeOK

\* The read of an unload freezes the canvas.
LEMMA UnloadReadDoes ==
  ASSUME TypeOK, ServerInv, NEW s \in Servers, UnloadRead(s)
  PROVE  /\ step[s] = "idle" /\ pool[s] # "none" /\ redis.there
         /\ step'[s] = "save" /\ pool'[s] = "unloading"
         /\ snap'[s].gen = redis.gen /\ snap'[s].content = redis.content
         /\ \A t \in Servers \ {s} : step'[t] = step[t] /\ pool'[t] = pool[t] /\ snap'[t] = snap[t]
         /\ UNCHANGED <<row, redis, es, active, fresh, phase, was, gens, acked>>
<1>1. phase[s] # "cleanup"
  BY DEF ServerInv, Agree
<1>2. [phase EXCEPT ![s] = IF @ = "cleanup" THEN "exit" ELSE @] = phase
  BY <1>1 DEF TypeOK
<1> QED
  BY <1>2 DEF UnloadRead, TypeOK, stores

\* The save of an unload.
LEMMA UnloadSaveDoes ==
  ASSUME TypeOK, NEW s \in Servers, UnloadSave(s)
  PROVE  /\ step[s] = "save"
         /\ \A t \in Servers \ {s} : step'[t] = step[t] /\ pool'[t] = pool[t] /\ snap'[t] = snap[t]
         /\ es' \in {es, [there |-> TRUE, content |-> snap[s].content]}
         /\ \/ /\ step'[s] = "uncache" /\ pool'[s] = pool[s] /\ snap'[s] = snap[s]
               /\ es' = [there |-> TRUE, content |-> snap[s].content]
            \/ step'[s] = "idle" /\ pool'[s] = "ready" /\ snap'[s].gen = 0
         /\ UNCHANGED <<row, redis, active, fresh, phase, was, gens, acked>>
<1>1. CASE /\ step' = [step EXCEPT ![s] = "uncache"] /\ UNCHANGED <<pool, snap>>
           /\ es' = [there |-> TRUE, content |-> snap[s].content]
  BY <1>1 DEF UnloadSave, TypeOK
<1>2. CASE UnloadFails(s)
  BY <1>2 DEF UnloadSave, UnloadFails, TypeOK, NoSnap
<1> QED
  BY <1>1, <1>2 DEF UnloadSave

\* Giving the row up: this server goes on to delete the Redis document only when
\* SQL says that the row was its own.
LEMMA UnloadUncacheDoes ==
  ASSUME TypeOK, NEW s \in Servers, UnloadUncache(s)
  PROVE  /\ step[s] = "uncache"
         /\ \A t \in Servers \ {s} : step'[t] = step[t] /\ pool'[t] = pool[t] /\ snap'[t] = snap[t]
         /\ row' = row \/ (Mine(s) /\ row' = Uncached)
         /\ \/ /\ Mine(s) /\ row' = Uncached
               /\ step'[s] = "delete" /\ pool'[s] = pool[s] /\ snap'[s] = snap[s]
            \/ /\ ~Mine(s) \/ "sql" \in Faults
               /\ step'[s] = "idle" /\ pool'[s] \in {"none", "ready"} /\ snap'[s].gen = 0
         /\ UNCHANGED <<redis, es, active, fresh, phase, was, gens, acked>>
<1>1. PICK o \in Outcomes("sql") :
         /\ row' = IF Mine(s) /\ o # "failed" THEN Uncached ELSE row
         /\ IF Mine(s) /\ o = "ok"
            THEN step' = [step EXCEPT ![s] = "delete"] /\ UNCHANGED <<pool, snap>>
            ELSE UnloadDone(s) \/ UnloadFails(s)
  BY DEF UnloadUncache
<1>2. o = "ok" \/ "sql" \in Faults
  BY FaultFacts
<1>3. step[s] = "uncache" /\ UNCHANGED <<redis, es, active, fresh, phase, was, gens, acked>>
  BY DEF UnloadUncache
<1>4. CASE Mine(s) /\ o = "ok"
  BY <1>1, <1>3, <1>4 DEF TypeOK
<1>5. CASE ~(Mine(s) /\ o = "ok")
  BY <1>1, <1>2, <1>3, <1>5 DEF UnloadDone, UnloadFails, TypeOK, NoSnap
<1> QED
  BY <1>4, <1>5

\* The deletion of the generation that was saved.
LEMMA UnloadDeleteDoes ==
  ASSUME TypeOK, NEW s \in Servers, UnloadDelete(s)
  PROVE  /\ step[s] = "delete"
         /\ step'[s] = "idle" /\ pool'[s] = "none" /\ snap'[s].gen = 0
         /\ \A t \in Servers \ {s} : step'[t] = step[t] /\ pool'[t] = pool[t] /\ snap'[t] = snap[t]
         /\ \/ redis' = redis
            \/ redis.gen = snap[s].gen /\ redis'.gen = 0 /\ redis'.content = {}
         /\ UNCHANGED <<row, es, active, fresh, phase, was, gens, acked>>
BY DEF UnloadDelete, UnloadDone, TypeOK, NoSnap, NoRedis

\* What a process loses when it dies.
LEMMA CrashDoes ==
  ASSUME TypeOK, NEW s \in Servers, Crash(s)
  PROVE  /\ phase'[s] = "down" /\ pool'[s] = "none" /\ step'[s] = "idle"
         /\ ~was'[s] /\ snap'[s].gen = 0
         /\ step[s] \in LoadSteps => was[s] \/ MayAbandon
         /\ \A t \in Servers \ {s} :
               /\ phase'[t] = phase[t] /\ pool'[t] = pool[t] /\ step'[t] = step[t]
               /\ was'[t] = was[t] /\ snap'[t] = snap[t]
         /\ UNCHANGED <<row, redis, es, active, fresh, gens, acked>>
BY DEF Crash, ProcessEnds, stores, TypeOK, NoSnap

\* A query writes to the Redis document, and to nothing else.
LEMMA QueryDoes ==
  ASSUME TypeOK, NEW s \in Servers, NEW w \in Writes, Query(s, w)
  PROVE  /\ pool[s] = "ready" /\ redis.there
         /\ redis'.there = redis.there /\ redis'.gen = redis.gen
         /\ acked \subseteq redis.content => acked' \subseteq redis'.content
         /\ UNCHANGED <<row, es, active, fresh, phase, pool, step, was, snap, gens>>
<1>1. PICK o \in Outcomes("redis") :
         /\ redis' = IF o = "failed" THEN redis ELSE [redis EXCEPT !.content = @ \cup {w}]
         /\ acked' = IF o = "ok" THEN acked \cup {w} ELSE acked
  BY DEF Query
<1>2. /\ redis'.there = redis.there /\ redis'.gen = redis.gen
      /\ acked \subseteq redis.content => acked' \subseteq redis'.content
  BY <1>1 DEF TypeOK
<1> QED
  BY <1>2 DEF Query

\* A settings change writes to the Elasticsearch document, and to nothing else.
LEMMA EditDoes ==
  ASSUME TypeOK, NEW w \in Writes, EditInactive(w)
  PROVE  /\ row.exists /\ ~row.cached
         /\ acked \subseteq es.content => acked' \subseteq es'.content
         /\ Saved => Saved'
         /\ UNCHANGED <<row, redis, active, fresh, phase, pool, step, was, snap, gens>>
<1>1. PICK o \in Outcomes("es") :
         /\ es' = IF o = "failed" THEN es ELSE [es EXCEPT !.content = @ \cup {w}]
         /\ acked' = IF o = "ok" THEN acked \cup {w} ELSE acked
  BY DEF EditInactive
<1>2. /\ acked \subseteq es.content => acked' \subseteq es'.content
      /\ es.content \subseteq es'.content
      /\ acked' \subseteq acked \cup es'.content
  BY <1>1 DEF TypeOK
<1> QED
  BY <1>2 DEF EditInactive, Saved

\* A reassignment takes the server from the row.
LEMMA ReassignDoes ==
  ASSUME TypeOK, AccessReassign
  PROVE  /\ row.exists /\ row.server \in Servers
         /\ ~(active[row.server] /\ fresh[row.server])
         /\ row'.exists = row.exists /\ row'.cached = row.cached /\ row'.server = None
         /\ UNCHANGED <<redis, es, active, fresh, phase, pool, step, was, snap, gens, acked>>
BY DEF AccessReassign, TypeOK

\* A deletion of a canvas nobody has cached.
LEMMA DeleteDoes ==
  ASSUME TypeOK, DeleteCanvas
  PROVE  /\ row.exists /\ ~row.cached /\ ~row'.cached
         /\ ~row'.exists => ~es'.there
         /\ (es' = es /\ acked' = acked /\ row' = row) \/ (es' = NoEs /\ acked' = {})
         /\ UNCHANGED <<redis, active, fresh, phase, pool, step, was, snap, gens>>
<1>1. PICK o \in Outcomes("es") :
         /\ es' = IF o = "failed" THEN es ELSE NoEs
         /\ row' = IF o = "ok" THEN [row EXCEPT !.exists = FALSE] ELSE row
         /\ acked' = IF o = "failed" THEN acked ELSE {}
  BY DEF DeleteCanvas
<1>2. row.exists /\ ~row.cached /\ UNCHANGED <<redis, active, fresh, phase, pool, step, was, snap, gens>>
  BY DEF DeleteCanvas
<1>3. ~row'.cached
  BY <1>1, <1>2 DEF TypeOK
<1>4. ~row'.exists => o = "ok"
  BY <1>1, <1>2
<1> QED
  BY <1>1, <1>2, <1>3, <1>4 DEF NoEs

-----------------------------------------------------------------------------
(* What running servers guarantee.                                         *)

\* Without stopped or slow servers, the steps of a server agree with its pool.
LEMMA LifeServer ==
  ASSUME ServersRun, TypeOK, ServerInv, NEW s \in Servers, Life(s)
  PROVE  ServerInv'
<1>1. CASE Register(s) \/ Heartbeat(s) \/ HeartbeatExpires(s) \/ QueryTimeout(s)
  BY <1>1 DEF ServersRun, ServerInv, Agree, TypeOK, Register, Heartbeat,
       HeartbeatExpires, QueryTimeout, Serving
<1>2. CASE Crash(s)
  BY <1>2, CrashDoes DEF ServerInv, Agree, LoadSteps
<1> QED
  BY <1>1, <1>2 DEF Life

\* So they do in a load, ...
LEMMA LoadServer ==
  ASSUME TypeOK, ServerInv, NEW s \in Servers, Load(s)
  PROVE  ServerInv'
<1>1. CASE LoadAllocate(s)
  <2>1. PICK o \in Outcomes("sql") :
           /\ step' = [step EXCEPT ![s] = IF o = "ok" THEN "read" ELSE "idle"]
           /\ was' = [was EXCEPT ![s] = (o = "ok" /\ row.cached)]
    BY <1>1 DEF LoadAllocate
  <2>2. PICK c \in BOOLEAN : c = (o = "ok" /\ row.cached)
    OBVIOUS
  <2>3. was' = [was EXCEPT ![s] = c]
    BY <2>1, <2>2
  <2>4. /\ step'[s] = IF o = "ok" THEN "read" ELSE "idle"
        /\ was'[s] => o = "ok"
        /\ \A t \in Servers \ {s} : step'[t] = step[t] /\ was'[t] = was[t]
    BY <2>1, <2>2, <2>3 DEF TypeOK
  <2>5. pool[s] = "none" /\ Serving(s) /\ UNCHANGED <<active, fresh, phase, pool>>
    BY <1>1 DEF LoadAllocate
  <2> QED
    BY <2>4, <2>5 DEF ServerInv, Agree, LoadSteps, Serving
<1>2. CASE LoadRead(s)
  BY <1>2, LoadReadDoes DEF ServerInv, Agree, LoadSteps
<1>3. CASE LoadStore(s)
  BY <1>3, LoadStoreDoes DEF ServerInv, Agree, LoadSteps
<1>4. CASE LoadClear(s)
  BY <1>4, LoadClearDoes DEF ServerInv, Agree, LoadSteps
<1>5. CASE LoadUndo(s)
  BY <1>5, LoadUndoDoes DEF ServerInv, Agree, LoadSteps
<1> QED
  BY <1>1, <1>2, <1>3, <1>4, <1>5 DEF Load

\* ... in an unload, ...
LEMMA UnloadServer ==
  ASSUME TypeOK, ServerInv, NEW s \in Servers, Unload(s)
  PROVE  ServerInv'
<1>1. CASE UnloadRead(s)
  BY <1>1, UnloadReadDoes DEF ServerInv, Agree, LoadSteps
<1>2. CASE UnloadSave(s)
  BY <1>2, UnloadSaveDoes DEF ServerInv, Agree, LoadSteps
<1>3. CASE UnloadUncache(s)
  BY <1>3, UnloadUncacheDoes DEF ServerInv, Agree, LoadSteps
<1>4. CASE UnloadDelete(s)
  BY <1>4, UnloadDeleteDoes DEF ServerInv, Agree, LoadSteps
<1> QED
  BY <1>1, <1>2, <1>3, <1>4 DEF Unload

\* ... and no shutdown takes a step.
LEMMA NoStop ==
  ASSUME ServersRun, ServerInv, NEW s \in Servers, Stop(s)
  PROVE  FALSE
BY DEF ServersRun, ServerInv, Agree, Stop, StopInactive, StopServing, StopFreeze, StopSave, StopExit

\* No step gives out a generation again.
LEMMA StepGen == ASSUME ServersRun, TypeOK, ServerInv, GenInv, [Next]_vars PROVE GenInv'
<1>1. ASSUME NEW s \in Servers, Life(s) PROVE GenInv'
  <2>1. CASE Crash(s)
    BY <2>1, CrashDoes DEF GenInv, TypeOK
  <2> QED
    BY <1>1, <2>1 DEF Life, Register, Heartbeat, HeartbeatExpires, QueryTimeout, GenInv, stores
<1>2. ASSUME NEW s \in Servers, Load(s) PROVE GenInv'
  <2>1. CASE LoadAllocate(s)
    BY <2>1 DEF LoadAllocate, GenInv
  <2>2. CASE LoadRead(s)
    <3>1. /\ gens' = gens /\ redis' = redis /\ snap'[s].gen \in {0, snap[s].gen, redis.gen}
          /\ \A t \in Servers \ {s} : snap'[t] = snap[t]
      BY <2>2, LoadReadDoes
    <3> QED
      BY <3>1 DEF GenInv, TypeOK
  <2>3. CASE LoadStore(s)
    <3>1. /\ gens' = gens + 1 /\ snap'[s].gen = 0
          /\ \A t \in Servers \ {s} : snap'[t] = snap[t]
          /\ redis' = redis \/ Stored(s)
      BY <2>3, LoadStoreDoes
    <3>2. redis'.gen <= gens + 1
      BY <3>1 DEF Stored, GenInv, TypeOK
    <3>3. \A t \in Servers : snap'[t].gen <= gens + 1
      BY <3>1 DEF GenInv, TypeOK
    <3> QED
      BY <3>1, <3>2, <3>3 DEF GenInv
  <2>4. CASE LoadClear(s)
    BY <2>4, LoadClearDoes DEF GenInv, TypeOK
  <2>5. CASE LoadUndo(s)
    BY <2>5, LoadUndoDoes DEF GenInv
  <2> QED
    BY <1>2, <2>1, <2>2, <2>3, <2>4, <2>5 DEF Load
<1>3. ASSUME NEW s \in Servers, Unload(s) PROVE GenInv'
  <2>1. CASE UnloadRead(s)
    <3>1. /\ gens' = gens /\ redis' = redis /\ snap'[s].gen \in {0, snap[s].gen, redis.gen}
          /\ \A t \in Servers \ {s} : snap'[t] = snap[t]
      BY <2>1, UnloadReadDoes
    <3> QED
      BY <3>1 DEF GenInv, TypeOK
  <2>2. CASE UnloadSave(s)
    <3>1. /\ gens' = gens /\ redis' = redis /\ snap'[s].gen \in {0, snap[s].gen, redis.gen}
          /\ \A t \in Servers \ {s} : snap'[t] = snap[t]
      BY <2>2, UnloadSaveDoes
    <3> QED
      BY <3>1 DEF GenInv, TypeOK
  <2>3. CASE UnloadUncache(s)
    <3>1. /\ gens' = gens /\ redis' = redis /\ snap'[s].gen \in {0, snap[s].gen, redis.gen}
          /\ \A t \in Servers \ {s} : snap'[t] = snap[t]
      BY <2>3, UnloadUncacheDoes
    <3> QED
      BY <3>1 DEF GenInv, TypeOK
  <2>4. CASE UnloadDelete(s)
    <3>1. /\ gens' = gens /\ snap'[s].gen = 0
          /\ \A t \in Servers \ {s} : snap'[t] = snap[t]
          /\ redis' = redis \/ redis'.gen = 0
      BY <2>4, UnloadDeleteDoes
    <3> QED
      BY <3>1 DEF GenInv, TypeOK
  <2> QED
    BY <1>3, <2>1, <2>2, <2>3, <2>4 DEF Unload
<1>4. ASSUME NEW s \in Servers, NEW w \in Writes, Query(s, w) PROVE GenInv'
  BY <1>4, QueryDoes DEF GenInv
<1>5. ASSUME NEW w \in Writes, EditInactive(w) PROVE GenInv'
  BY <1>5, EditDoes DEF GenInv
<1>6. CASE AccessReassign \/ DeleteCanvas \/ UNCHANGED vars
  BY <1>6 DEF AccessReassign, DeleteCanvas, vars, stores, GenInv
<1> QED
  BY <1>1, <1>2, <1>3, <1>4, <1>5, <1>6, NoStop DEF Next

\* Every step keeps what running servers guarantee.
LEMMA StepRun == ASSUME ServersRun, RunInv, [Next]_vars PROVE RunInv'
<1>1. ServerInv'
  <2>1. ASSUME NEW s \in Servers, NEW w \in Writes, Query(s, w) PROVE ServerInv'
    BY <2>1 DEF Query, RunInv, ServerInv, Agree
  <2>2. ASSUME NEW w \in Writes, EditInactive(w) PROVE ServerInv'
    BY <2>2 DEF EditInactive, RunInv, ServerInv, Agree
  <2>3. CASE AccessReassign \/ DeleteCanvas \/ UNCHANGED vars
    BY <2>3 DEF AccessReassign, DeleteCanvas, vars, stores, RunInv, ServerInv, Agree
  <2> QED
    BY <2>1, <2>2, <2>3, LifeServer, LoadServer, UnloadServer, NoStop DEF Next, RunInv
<1>2. GenInv'
  BY StepGen DEF RunInv
<1>3. TypeOK'
  BY StepType DEF RunInv
<1> QED
  BY <1>1, <1>2, <1>3 DEF RunInv

\* The first state satisfies the invariants.
LEMMA InitLife == Init => LifeInv
<1> SUFFICES ASSUME Init PROVE LifeInv
  OBVIOUS
<1>1. TypeOK
  BY InitType
<1>2. ServerInv
  BY DEF Init, ServerInv, Agree, LoadSteps
<1>3. OwnerInv /\ LoaderInv
  BY DEF Init, OwnerInv, LoaderInv, Engaged, LoadSteps
<1>4. GoneInv /\ GenInv
  BY DEF Init, GoneInv, GenInv, NoRedis, NoSnap
<1>5. ReadInv /\ SavedInv
  BY DEF Init, ReadInv, SavedInv, Saved, NoRedis
<1>6. CacheInv /\ TrustInv
  BY DEF Init, CacheInv, TrustInv, Trusted
<1> QED
  BY <1>1, <1>2, <1>3, <1>4, <1>5, <1>6 DEF LifeInv, KeepInv, OpenInv, HoldInv, RunInv

-----------------------------------------------------------------------------
(* Who holds the canvas, when SQL answers.                                 *)

\* Two servers are never engaged together.
LEMMA OneEngaged ==
  ASSUME OwnerInv, NEW s \in Servers, NEW t \in Servers, Engaged(s), Engaged(t)
  PROVE  s = t
BY DEF OwnerInv, Mine

\* A server that loads, serves or saves is engaged.
LEMMA WhoIsEngaged ==
  ASSUME ServerInv, NEW s \in Servers
  PROVE  /\ step[s] \in LoadSteps \cup {"save", "uncache"} => Engaged(s)
         /\ pool[s] = "ready" => Engaged(s) /\ step[s] \notin {"save", "uncache", "delete"} \cup LoadSteps
BY DEF ServerInv, Agree, Engaged, LoadSteps

\* While an engaged server is not loading a fresh canvas, Redis is trusted.
LEMMA EngagedTrust ==
  ASSUME OwnerInv, NEW s \in Servers, Engaged(s)
  PROVE  /\ row.exists /\ row.cached /\ row.server = s
         /\ Trusted <=> ~(step[s] \in LoadSteps /\ ~was[s])
BY DEF OwnerInv, Mine, LoadingFresh, Trusted

\* Redis stays as trusted as it was when the row stays and no fresh load begins
\* or ends.
LEMMA SameTrust ==
  ASSUME UNCHANGED row,
         \A t \in Servers : step[t] \in LoadSteps /\ ~was[t] <=> (step[t] \in LoadSteps /\ ~was[t])'
  PROVE  Trusted' <=> Trusted
BY DEF Trusted, LoadingFresh

\* The steps of a server's life: nobody becomes engaged.
LEMMA LifeHold ==
  ASSUME SqlAnswers, HoldInv, NEW s \in Servers, Life(s)
  PROVE  OwnerInv' /\ GoneInv'
<1>1. CASE Register(s) \/ Heartbeat(s) \/ HeartbeatExpires(s) \/ QueryTimeout(s)
  BY <1>1 DEF Register, Heartbeat, HeartbeatExpires, QueryTimeout, stores,
       HoldInv, OwnerInv, GoneInv, Engaged, Mine
<1>2. CASE Crash(s)
  BY <1>2, CrashDoes DEF HoldInv, RunInv, OwnerInv, GoneInv, Engaged, Mine
<1> QED
  BY <1>1, <1>2 DEF Life

\* The allocation takes the canvas when nobody is engaged.
LEMMA AllocateAlone ==
  ASSUME SqlAnswers, HoldInv, NEW s \in Servers, LoadAllocate(s)
  PROVE  \A t \in Servers : ~Engaged(t)
<1>1. step[s] = "idle" /\ pool[s] = "none" /\ (row.cached => row.server \in {None, s})
  BY AllocateDoes, FaultFacts DEF HoldInv, RunInv
<1> QED
  BY <1>1, ConstantsAssumption DEF HoldInv, OwnerInv, Mine, Engaged

\* A load is engaged from the allocation to its end.
LEMMA LoadHold ==
  ASSUME SqlAnswers, HoldInv, NEW s \in Servers, Load(s)
  PROVE  OwnerInv' /\ GoneInv'
<1> USE FaultFacts
<1>0. TypeOK /\ ServerInv /\ OwnerInv
  BY DEF HoldInv, RunInv
<1>1. CASE LoadAllocate(s)
  BY <1>0, <1>1, AllocateDoes, AllocateAlone DEF OwnerInv, GoneInv, Engaged, Mine
<1>2. CASE LoadRead(s)
  <2>1. Engaged(s)
    BY <1>0, <1>2, LoadReadDoes, WhoIsEngaged DEF LoadSteps
  <2>2. Mine(s)
    BY <2>1 DEF HoldInv, OwnerInv
  <2> QED
    BY <1>0, <1>2, <2>1, <2>2, LoadReadDoes DEF OwnerInv, GoneInv, Engaged, Mine
<1>3. CASE LoadStore(s)
  <2>1. Mine(s)
    BY <1>0, <1>3, LoadStoreDoes, WhoIsEngaged DEF LoadSteps, OwnerInv
  <2> QED
    BY <1>0, <1>3, <2>1, LoadStoreDoes DEF OwnerInv, GoneInv, Engaged, Mine
<1>4. CASE LoadClear(s)
  <2>1. Mine(s)
    BY <1>0, <1>4, LoadClearDoes, WhoIsEngaged DEF LoadSteps, OwnerInv
  <2> QED
    BY <1>0, <1>4, <2>1, LoadClearDoes DEF OwnerInv, GoneInv, Engaged, Mine
<1>5. CASE LoadUndo(s)
  <2>1. step[s] = "undo" /\ Engaged(s) /\ Mine(s)
    BY <1>0, <1>5, LoadUndoDoes, WhoIsEngaged DEF LoadSteps, OwnerInv
  <2>2. \A t \in Servers \ {s} : ~Engaged(t)
    BY <1>0, <2>1, OneEngaged
  <2>3. step'[s] = "idle" /\ pool'[s] = "none" /\ \A t \in Servers \ {s} : step'[t] = step[t]
    BY <1>0, <1>5, <2>1, LoadUndoDoes DEF ServerInv, Agree, LoadSteps
  <2>4. pool' = pool
    BY <1>0, <1>5, LoadUndoDoes
  <2>5. row' = Uncached
    BY <1>0, <1>5, <2>1, LoadUndoDoes
  <2>6. OwnerInv'
    BY <2>2, <2>3, <2>4 DEF OwnerInv, Engaged
  <2> QED
    BY <2>5, <2>6 DEF GoneInv, Uncached
<1> QED
  BY <1>1, <1>2, <1>3, <1>4, <1>5 DEF Load

\* An unload is engaged until it has given up the row.
LEMMA UnloadHold ==
  ASSUME SqlAnswers, HoldInv, NEW s \in Servers, Unload(s)
  PROVE  OwnerInv' /\ GoneInv'
<1> USE FaultFacts
<1>0. TypeOK /\ ServerInv /\ OwnerInv
  BY DEF HoldInv, RunInv
<1>1. CASE UnloadRead(s)
  <2>1. Mine(s)
    BY <1>0, <1>1, UnloadReadDoes DEF OwnerInv, Engaged
  <2> QED
    BY <1>0, <1>1, <2>1, UnloadReadDoes DEF OwnerInv, GoneInv, Engaged, Mine
<1>2. CASE UnloadSave(s)
  <2>1. Mine(s)
    BY <1>0, <1>2, UnloadSaveDoes, WhoIsEngaged DEF OwnerInv
  <2> QED
    BY <1>0, <1>2, <2>1, UnloadSaveDoes DEF OwnerInv, GoneInv, Engaged, Mine
<1>3. CASE UnloadUncache(s)
  <2>1. Engaged(s) /\ Mine(s)
    BY <1>0, <1>3, UnloadUncacheDoes, WhoIsEngaged DEF OwnerInv
  <2>2. \A t \in Servers \ {s} : ~Engaged(t)
    BY <1>0, <2>1, OneEngaged
  <2>3. row' = Uncached /\ step'[s] = "delete"
    BY <1>0, <1>3, <2>1, UnloadUncacheDoes
  <2>4. \A t \in Servers : ~Engaged(t)'
    BY <1>0, <1>3, <2>2, <2>3, UnloadUncacheDoes DEF Engaged
  <2> QED
    BY <2>3, <2>4 DEF OwnerInv, GoneInv, Uncached
<1>4. CASE UnloadDelete(s)
  BY <1>0, <1>4, UnloadDeleteDoes DEF HoldInv, OwnerInv, GoneInv, Engaged, Mine
<1> QED
  BY <1>1, <1>2, <1>3, <1>4 DEF Unload

\* The server a reassignment takes the canvas from is down.
LEMMA ReassignDown ==
  ASSUME RunInv, AccessReassign
  PROVE  step[row.server] = "idle" /\ pool[row.server] = "none"
BY ReassignDoes DEF RunInv, ServerInv, Agree

\* The requests of users: a canvas is reassigned, edited in Elasticsearch and
\* deleted only while nobody is engaged.
LEMMA UserHold ==
  ASSUME HoldInv,
         \/ \E s \in Servers, w \in Writes : Query(s, w)
         \/ \E w \in Writes : EditInactive(w)
         \/ AccessReassign
         \/ DeleteCanvas
  PROVE  OwnerInv' /\ GoneInv'
<1>0. TypeOK /\ ServerInv /\ OwnerInv
  BY DEF HoldInv, RunInv
<1>1. ASSUME NEW s \in Servers, NEW w \in Writes, Query(s, w) PROVE OwnerInv' /\ GoneInv'
  <2>1. Mine(s)
    BY <1>0, <1>1, QueryDoes, WhoIsEngaged DEF OwnerInv
  <2> QED
    BY <1>0, <1>1, <2>1, QueryDoes DEF OwnerInv, GoneInv, Engaged, Mine
<1>2. ASSUME NEW w \in Writes, EditInactive(w) PROVE OwnerInv' /\ GoneInv'
  BY <1>0, <1>2, EditDoes DEF OwnerInv, GoneInv, Engaged, Mine
<1>3. CASE AccessReassign
  <2>1. \A t \in Servers : ~Engaged(t)
    BY <1>0, <1>3, ReassignDoes, ReassignDown DEF HoldInv, OwnerInv, Mine, Engaged
  <2> QED
    BY <1>0, <1>3, <2>1, ReassignDoes DEF OwnerInv, GoneInv, Engaged
<1>4. CASE DeleteCanvas
  <2>1. \A t \in Servers : ~Engaged(t)
    BY <1>0, <1>4, DeleteDoes DEF OwnerInv, Mine
  <2>2. ~row'.exists => ~row'.cached /\ acked' = {} /\ ~es'.there
    BY <1>0, <1>4, DeleteDoes
  <2> QED
    BY <1>0, <1>4, <2>1, <2>2, DeleteDoes DEF OwnerInv, GoneInv, Engaged
<1> QED
  BY <1>1, <1>2, <1>3, <1>4

\* Every step keeps who holds the canvas.
LEMMA StepHold == ASSUME SqlAnswers, HoldInv, [Next]_vars PROVE HoldInv'
<1>1. RunInv'
  BY StepRun, FaultFacts DEF HoldInv
<1>2. CASE UNCHANGED vars
  BY <1>1, <1>2 DEF HoldInv, OwnerInv, GoneInv, Engaged, Mine, vars, stores
<1>3. CASE \E s \in Servers : Life(s) \/ Load(s) \/ Unload(s) \/ Stop(s)
  BY <1>1, <1>3, LifeHold, LoadHold, UnloadHold, NoStop, FaultFacts DEF HoldInv, RunInv
<1> QED
  BY <1>1, <1>2, <1>3, UserHold DEF HoldInv, Next

-----------------------------------------------------------------------------
(* What may be deleted from Redis, when SQL answers.                       *)

\* A step that leaves the documents and the work of the servers alone.
LEMMA QuietKeep ==
  ASSUME KeepInv, UNCHANGED <<row, redis, es, pool, step, was, snap, acked>>
  PROVE  ReadInv' /\ SavedInv'
<1>1. Trusted' <=> Trusted
  BY SameTrust
<1>2. (Saved' <=> Saved) /\ \A t \in Servers : Engaged(t)' <=> Engaged(t)
  BY DEF Saved, Engaged
<1> QED
  BY <1>1, <1>2 DEF KeepInv, ReadInv, SavedInv

\* A crash: a fresh load that dies leaves a document that is saved.
LEMMA CrashKeep ==
  ASSUME KeepInv, NEW s \in Servers, Crash(s)
  PROVE  ReadInv' /\ SavedInv'
<1>0. TypeOK
  BY DEF KeepInv, HoldInv, RunInv
<1>1. ReadInv'
  BY <1>0, CrashDoes DEF KeepInv, ReadInv
<1>2. ~Trusted' => ~Trusted
  BY <1>0, CrashDoes DEF Trusted, LoadingFresh, LoadSteps
<1>3. Saved' <=> Saved
  BY <1>0, CrashDoes DEF Saved
<1>4. \A t \in Servers : Engaged(t)' /\ pool'[t] # "none" => Engaged(t) /\ pool[t] # "none"
  BY <1>0, CrashDoes DEF Engaged
<1>5. \A t \in Servers : step'[t] = "delete" => step[t] = "delete" /\ snap'[t] = snap[t]
  BY <1>0, CrashDoes
<1>6. redis' = redis
  BY <1>0, CrashDoes
<1> QED
  BY <1>1, <1>2, <1>3, <1>4, <1>5, <1>6 DEF KeepInv, SavedInv

\* The allocation: what was not trusted is not trusted now.
LEMMA AllocateKeep ==
  ASSUME SqlAnswers, KeepInv, NEW s \in Servers, LoadAllocate(s)
  PROVE  ReadInv' /\ SavedInv'
<1> USE FaultFacts
<1>0. TypeOK
  BY DEF KeepInv, HoldInv, RunInv
<1>1. \A t \in Servers : ~Engaged(t)
  BY AllocateAlone DEF KeepInv
<1>2. \A t \in Servers : step[t] \in {"idle", "delete"}
  BY <1>1 DEF Engaged
<1>3. ReadInv'
  BY <1>0, <1>2, AllocateDoes DEF ReadInv
<1>4. ~Trusted' => ~Trusted
  BY <1>0, <1>2, AllocateDoes DEF Trusted, LoadingFresh, LoadSteps
<1>5. Saved' <=> Saved
  BY <1>0, AllocateDoes DEF Saved
<1>6. \A t \in Servers : ~(Engaged(t)' /\ pool'[t] # "none")
  BY <1>0, <1>1, AllocateDoes DEF Engaged
<1>7. \A t \in Servers : step'[t] = "delete" => step[t] = "delete" /\ snap'[t] = snap[t]
  BY <1>0, AllocateDoes
<1>8. redis' = redis
  BY <1>0, AllocateDoes
<1> QED
  BY <1>3, <1>4, <1>5, <1>6, <1>7, <1>8 DEF KeepInv, SavedInv

\* While s is engaged, every other server is idle or has a document to delete.
LEMMA OthersIdle ==
  ASSUME OwnerInv, NEW s \in Servers, Engaged(s)
  PROVE  \A t \in Servers \ {s} : step[t] \in {"idle", "delete"} /\ (step[t] = "idle" => pool[t] = "none")
BY OneEngaged DEF Engaged

\* The read of a load: what it may write to Elasticsearch is what Redis has.
LEMMA LoadReadKeep ==
  ASSUME KeepInv, NEW s \in Servers, LoadRead(s)
  PROVE  ReadInv' /\ SavedInv'
<1>0. TypeOK /\ ServerInv /\ OwnerInv
  BY DEF KeepInv, HoldInv, RunInv
<1>1. step[s] = "read" /\ Engaged(s) /\ pool[s] = "none" /\ UNCHANGED <<row, redis, pool, acked>>
  BY <1>0, LoadReadDoes DEF Engaged, ServerInv, Agree, LoadSteps
<1>2. \A t \in Servers \ {s} : step[t] \in {"idle", "delete"} /\ (step[t] = "idle" => pool[t] = "none")
  BY <1>0, <1>1, OthersIdle
<1>3. ReadInv'
  <2>1. step'[s] = "store" /\ ~was'[s] => snap'[s].content = es'.content
    BY <1>0, LoadReadDoes DEF Source
  <2>2. \A t \in Servers : step'[t] \notin {"save", "uncache"}
    BY <1>0, <1>2, LoadReadDoes
  <2>3. \A t \in Servers \ {s} : step'[t] # "store"
    BY <1>0, <1>2, LoadReadDoes
  <2> QED
    BY <2>1, <2>2, <2>3 DEF ReadInv
<1>4. Trusted' <=> Trusted
  <2>1. \A t \in Servers : step[t] \in LoadSteps /\ ~was[t] <=> (step[t] \in LoadSteps /\ ~was[t])'
    BY <1>0, <1>1, LoadReadDoes DEF LoadSteps
  <2> QED
    BY <1>1, <2>1, SameTrust
<1>5. Saved => Saved'
  BY <1>0, LoadReadDoes DEF Saved, Source
<1>6. \A t \in Servers : step'[t] = "delete" => step[t] = "delete" /\ snap'[t] = snap[t]
  BY <1>0, LoadReadDoes
<1>7. \A t \in Servers : ~(Engaged(t)' /\ pool'[t] # "none")
  BY <1>0, <1>1, <1>2, LoadReadDoes DEF Engaged
<1> QED
  BY <1>1, <1>3, <1>4, <1>5, <1>6, <1>7 DEF KeepInv, SavedInv

\* The store of a load: a fresh load stores what Elasticsearch has, and every load
\* with a generation that no unload is about to delete.
LEMMA LoadStoreKeep ==
  ASSUME KeepInv, NEW s \in Servers, LoadStore(s)
  PROVE  ReadInv' /\ SavedInv'
<1>0. TypeOK /\ ServerInv /\ OwnerInv /\ GenInv
  BY DEF KeepInv, HoldInv, RunInv
<1>1. step[s] = "store" /\ Engaged(s) /\ pool[s] = "none" /\ UNCHANGED <<row, es, acked>>
  BY <1>0, LoadStoreDoes DEF Engaged, ServerInv, Agree, LoadSteps
<1>2. \A t \in Servers \ {s} : step[t] \in {"idle", "delete"} /\ (step[t] = "idle" => pool[t] = "none")
  BY <1>0, <1>1, OthersIdle
<1>3. ReadInv'
  BY <1>0, <1>2, LoadStoreDoes DEF ReadInv
<1>4. \A t \in Servers : step'[t] = "delete" =>
        t # s /\ step[t] = "delete" /\ snap'[t] = snap[t] /\ snap[t].gen < gens + 1
  BY <1>0, LoadStoreDoes DEF GenInv, TypeOK
<1>5. ~Trusted' => ~Trusted /\ ~was[s]
  BY <1>0, <1>1, LoadStoreDoes, EngagedTrust DEF Trusted, LoadingFresh, LoadSteps
<1>6. Saved /\ ~was[s] => Saved'
  BY <1>0, <1>1, LoadStoreDoes DEF Stored, Saved, KeepInv, ReadInv
<1>7. ASSUME NEW t \in Servers, step'[t] = "delete", redis'.gen = snap'[t].gen PROVE redis' = redis
  BY <1>0, <1>4, <1>7, LoadStoreDoes DEF Stored, TypeOK
<1>8. ASSUME NEW t \in Servers, step'[t] = "delete", NEW u \in Servers, Engaged(u)', pool'[u] # "none"
      PROVE  redis'.gen # snap'[t].gen
  <2>1. u = s
    BY <1>0, <1>2, <1>8, LoadStoreDoes DEF Engaged
  <2>2. Stored(s)
    BY <1>0, <1>1, <1>8, <2>1, LoadStoreDoes
  <2> QED
    BY <1>0, <1>4, <1>8, <2>2 DEF Stored, TypeOK
<1>9. redis' = redis => (Saved => Saved')
  BY <1>1 DEF Saved
<1>10. ~Trusted' => Saved'
  BY <1>5, <1>6 DEF KeepInv, SavedInv
<1>11. ASSUME NEW t \in Servers, step'[t] = "delete", redis'.gen = snap'[t].gen PROVE Saved'
  BY <1>4, <1>7, <1>9, <1>11 DEF KeepInv, SavedInv
<1> QED
  BY <1>3, <1>8, <1>10, <1>11 DEF SavedInv

\* The deletion after a failed load: nobody serves, and nothing is left to save.
LEMMA LoadClearKeep ==
  ASSUME KeepInv, NEW s \in Servers, LoadClear(s)
  PROVE  ReadInv' /\ SavedInv'
<1>0. TypeOK /\ ServerInv /\ OwnerInv
  BY DEF KeepInv, HoldInv, RunInv
<1>1. /\ step[s] = "clear" /\ Engaged(s) /\ pool[s] = "none" /\ ~was[s]
      /\ UNCHANGED <<row, es, pool, was, snap, acked>>
  BY <1>0, LoadClearDoes DEF Engaged, ServerInv, Agree, LoadSteps
<1>2. \A t \in Servers \ {s} : step[t] \in {"idle", "delete"} /\ (step[t] = "idle" => pool[t] = "none")
  BY <1>0, <1>1, OthersIdle
<1>3. \A t \in Servers : step'[t] \in {"idle", "delete", "undo"}
  BY <1>0, <1>2, LoadClearDoes
<1>4. ReadInv'
  BY <1>3 DEF ReadInv
<1>5. ~Trusted
  BY <1>0, <1>1, EngagedTrust DEF LoadSteps
<1>6. Saved'
  BY <1>0, <1>1, <1>5, LoadClearDoes DEF Saved, KeepInv, SavedInv
<1>7. \A t \in Servers : ~(Engaged(t)' /\ pool'[t] # "none")
  BY <1>0, <1>1, <1>2, LoadClearDoes DEF Engaged
<1> QED
  BY <1>4, <1>6, <1>7 DEF SavedInv

\* Giving the canvas back: the document was not trusted before.
LEMMA LoadUndoKeep ==
  ASSUME KeepInv, NEW s \in Servers, LoadUndo(s)
  PROVE  ReadInv' /\ SavedInv'
<1>0. TypeOK /\ ServerInv /\ OwnerInv
  BY DEF KeepInv, HoldInv, RunInv
<1>1. /\ step[s] = "undo" /\ Engaged(s) /\ pool[s] = "none" /\ ~was[s]
      /\ UNCHANGED <<redis, es, pool, was, snap, acked>>
  BY <1>0, LoadUndoDoes DEF Engaged, ServerInv, Agree, LoadSteps
<1>2. \A t \in Servers \ {s} : step[t] \in {"idle", "delete"} /\ (step[t] = "idle" => pool[t] = "none")
  BY <1>0, <1>1, OthersIdle
<1>3. \A t \in Servers : step'[t] \in {"idle", "delete"}
  BY <1>0, <1>2, LoadUndoDoes
<1>4. ReadInv'
  BY <1>3 DEF ReadInv
<1>5. ~Trusted
  BY <1>0, <1>1, EngagedTrust DEF LoadSteps
<1>6. Saved'
  BY <1>1, <1>5 DEF Saved, KeepInv, SavedInv
<1>7. \A t \in Servers : ~(Engaged(t)' /\ pool'[t] # "none")
  BY <1>0, <1>1, <1>2, LoadUndoDoes DEF Engaged
<1> QED
  BY <1>4, <1>6, <1>7 DEF SavedInv

\* The read of an unload: only the server that serves unloads.
LEMMA UnloadReadKeep ==
  ASSUME KeepInv, NEW s \in Servers, UnloadRead(s)
  PROVE  ReadInv' /\ SavedInv'
<1>0. TypeOK /\ ServerInv /\ OwnerInv
  BY DEF KeepInv, HoldInv, RunInv
<1>1. step[s] = "idle" /\ pool[s] # "none" /\ Engaged(s) /\ UNCHANGED <<row, redis, es, was, acked>>
  BY <1>0, UnloadReadDoes DEF Engaged
<1>2. \A t \in Servers \ {s} : step[t] \in {"idle", "delete"} /\ (step[t] = "idle" => pool[t] = "none")
  BY <1>0, <1>1, OthersIdle
<1>3. ReadInv'
  BY <1>0, <1>2, UnloadReadDoes DEF ReadInv
<1>4. Trusted' <=> Trusted
  <2>1. \A t \in Servers : step[t] \in LoadSteps /\ ~was[t] <=> (step[t] \in LoadSteps /\ ~was[t])'
    BY <1>0, <1>1, UnloadReadDoes DEF LoadSteps
  <2> QED
    BY <1>1, <2>1, SameTrust
<1>5. Saved' <=> Saved
  BY <1>1 DEF Saved
<1>6. \A t \in Servers : step'[t] = "delete" => step[t] = "delete" /\ snap'[t] = snap[t]
  BY <1>0, UnloadReadDoes
<1>7. \A t \in Servers : Engaged(t)' /\ pool'[t] # "none" => Engaged(t) /\ pool[t] # "none"
  BY <1>0, <1>1, UnloadReadDoes DEF Engaged
<1> QED
  BY <1>1, <1>3, <1>4, <1>5, <1>6, <1>7 DEF KeepInv, SavedInv

\* The save of an unload: what it writes is what Redis has.
LEMMA UnloadSaveKeep ==
  ASSUME KeepInv, NEW s \in Servers, UnloadSave(s)
  PROVE  ReadInv' /\ SavedInv'
<1>0. TypeOK /\ ServerInv /\ OwnerInv
  BY DEF KeepInv, HoldInv, RunInv
<1>1. /\ step[s] = "save" /\ Engaged(s) /\ pool[s] = "unloading"
      /\ UNCHANGED <<row, redis, was, acked>>
  BY <1>0, UnloadSaveDoes DEF Engaged, ServerInv, Agree
<1>2. \A t \in Servers \ {s} : step[t] \in {"idle", "delete"} /\ (step[t] = "idle" => pool[t] = "none")
  BY <1>0, <1>1, OthersIdle
<1>3. snap[s].gen = redis.gen /\ snap[s].content = redis.content
  BY <1>1 DEF KeepInv, ReadInv
<1>4. ReadInv'
  BY <1>0, <1>1, <1>2, <1>3, UnloadSaveDoes DEF ReadInv
<1>5. Trusted' <=> Trusted
  <2>1. \A t \in Servers : step[t] \in LoadSteps /\ ~was[t] <=> (step[t] \in LoadSteps /\ ~was[t])'
    BY <1>0, <1>1, UnloadSaveDoes DEF LoadSteps
  <2> QED
    BY <1>1, <2>1, SameTrust
<1>6. Saved => Saved'
  BY <1>0, <1>1, <1>3, UnloadSaveDoes DEF Saved
<1>7. \A t \in Servers : step'[t] = "delete" => step[t] = "delete" /\ snap'[t] = snap[t]
  BY <1>0, UnloadSaveDoes
<1>8. \A t \in Servers : Engaged(t)' /\ pool'[t] # "none" => Engaged(t) /\ pool[t] # "none"
  BY <1>0, <1>1, UnloadSaveDoes DEF Engaged
<1> QED
  BY <1>1, <1>4, <1>5, <1>6, <1>7, <1>8 DEF KeepInv, SavedInv

\* Giving the row up: Elasticsearch has what Redis has.
LEMMA UnloadUncacheKeep ==
  ASSUME SqlAnswers, KeepInv, NEW s \in Servers, UnloadUncache(s)
  PROVE  ReadInv' /\ SavedInv'
<1>0. TypeOK /\ ServerInv /\ OwnerInv
  BY DEF KeepInv, HoldInv, RunInv
<1>1. /\ step[s] = "uncache" /\ Engaged(s) /\ UNCHANGED <<redis, es, was, acked>>
      /\ step'[s] = "delete"
      /\ \A t \in Servers \ {s} : step'[t] = step[t] /\ pool'[t] = pool[t] /\ snap'[t] = snap[t]
  BY <1>0, UnloadUncacheDoes, FaultFacts DEF Engaged, OwnerInv
<1>2. \A t \in Servers \ {s} : step[t] \in {"idle", "delete"} /\ (step[t] = "idle" => pool[t] = "none")
  BY <1>0, <1>1, OthersIdle
<1>3. \A t \in Servers : step'[t] \in {"idle", "delete"} /\ ~Engaged(t)'
  BY <1>1, <1>2 DEF Engaged
<1>4. ReadInv'
  BY <1>3 DEF ReadInv
<1>5. Saved'
  BY <1>1 DEF Saved, KeepInv, ReadInv
<1> QED
  BY <1>3, <1>4, <1>5 DEF SavedInv

\* The deletion: it does not touch the document that a server serves.
LEMMA UnloadDeleteKeep ==
  ASSUME KeepInv, NEW s \in Servers, UnloadDelete(s)
  PROVE  ReadInv' /\ SavedInv'
<1>0. TypeOK /\ ServerInv /\ OwnerInv
  BY DEF KeepInv, HoldInv, RunInv
<1>1. step[s] = "delete" /\ UNCHANGED <<row, es, was, acked>>
  BY <1>0, UnloadDeleteDoes
<1>2. \A t \in Servers : Engaged(t)' <=> Engaged(t)
  BY <1>0, UnloadDeleteDoes DEF Engaged
<1>3. ASSUME NEW t \in Servers, Engaged(t), pool[t] # "none" PROVE redis' = redis
  BY <1>0, <1>1, <1>3, UnloadDeleteDoes DEF KeepInv, SavedInv
<1>4. ReadInv'
  <2>1. ASSUME NEW t \in Servers, step'[t] \in {"save", "uncache"} PROVE redis' = redis
    <3>1. step[t] = step'[t]
      BY <1>0, <2>1, UnloadDeleteDoes
    <3>2. Engaged(t) /\ pool[t] # "none"
      BY <1>0, <2>1, <3>1, WhoIsEngaged DEF ServerInv, Agree
    <3> QED
      BY <1>3, <3>2
  <2>2. ASSUME NEW t \in Servers, step'[t] \in {"save", "uncache", "store"}
        PROVE  step[t] = step'[t] /\ snap'[t] = snap[t]
    BY <1>0, <2>2, UnloadDeleteDoes
  <2> QED
    BY <1>1, <2>1, <2>2 DEF KeepInv, ReadInv
<1>5. Trusted' <=> Trusted
  <2>1. \A t \in Servers : step[t] \in LoadSteps /\ ~was[t] <=> (step[t] \in LoadSteps /\ ~was[t])'
    BY <1>0, <1>1, UnloadDeleteDoes DEF LoadSteps
  <2> QED
    BY <1>1, <2>1, SameTrust
<1>6. redis' # redis => Saved'
  BY <1>0, UnloadDeleteDoes DEF Saved
<1>7. redis' = redis => (Saved' <=> Saved)
  BY <1>1 DEF Saved
<1>8. \A t \in Servers : step'[t] = "delete" => step[t] = "delete" /\ snap'[t] = snap[t]
  BY <1>0, UnloadDeleteDoes
<1>9. \A t \in Servers : Engaged(t)' /\ pool'[t] # "none" => Engaged(t) /\ pool[t] # "none"
  BY <1>0, <1>1, <1>2, UnloadDeleteDoes
<1>10. ~Trusted' => Saved'
  BY <1>5, <1>6, <1>7 DEF KeepInv, SavedInv
<1>11. ASSUME NEW t \in Servers, step'[t] = "delete", redis'.gen = snap'[t].gen PROVE Saved'
  BY <1>6, <1>7, <1>8, <1>11 DEF KeepInv, SavedInv
<1>12. ASSUME NEW t \in Servers, step'[t] = "delete", NEW u \in Servers, Engaged(u)', pool'[u] # "none"
       PROVE  redis'.gen # snap'[t].gen
  <2>1. Engaged(u) /\ pool[u] # "none"
    BY <1>9, <1>12
  <2>2. redis' = redis
    BY <1>3, <2>1
  <2> QED
    BY <1>8, <1>12, <2>1, <2>2 DEF KeepInv, SavedInv
<1> QED
  BY <1>4, <1>10, <1>11, <1>12 DEF SavedInv

\* The requests of users: a query writes to a document that no unload has read,
\* and that no unload is about to delete.
LEMMA UserKeep ==
  ASSUME KeepInv,
         \/ \E s \in Servers, w \in Writes : Query(s, w)
         \/ \E w \in Writes : EditInactive(w)
         \/ AccessReassign
         \/ DeleteCanvas
  PROVE  ReadInv' /\ SavedInv'
<1>0. TypeOK /\ ServerInv /\ OwnerInv
  BY DEF KeepInv, HoldInv, RunInv
<1>1. ASSUME NEW s \in Servers, NEW w \in Writes, Query(s, w) PROVE ReadInv' /\ SavedInv'
  <2>1. /\ pool[s] = "ready" /\ Engaged(s) /\ step[s] \notin {"save", "uncache", "delete"} \cup LoadSteps
        /\ UNCHANGED <<row, es, pool, step, was, snap>>
        /\ redis'.gen = redis.gen
    BY <1>0, <1>1, QueryDoes, WhoIsEngaged
  <2>2. \A t \in Servers : step[t] \notin {"save", "uncache", "store"}
    BY <1>0, <2>1, OthersIdle DEF LoadSteps
  <2>3. ReadInv'
    BY <2>1, <2>2 DEF ReadInv
  <2>4. Trusted
    BY <1>0, <2>1, EngagedTrust
  <2>5. Trusted'
    BY <2>1, <2>4, SameTrust
  <2>6. \A t \in Servers : step[t] = "delete" => redis'.gen # snap'[t].gen
    BY <2>1 DEF KeepInv, SavedInv
  <2> QED
    BY <2>1, <2>3, <2>5, <2>6 DEF SavedInv
<1>2. ASSUME NEW w \in Writes, EditInactive(w) PROVE ReadInv' /\ SavedInv'
  <2>1. /\ ~row.cached /\ (Saved => Saved')
        /\ UNCHANGED <<row, redis, pool, step, was, snap>>
    BY <1>0, <1>2, EditDoes
  <2>2. \A t \in Servers : step[t] \in {"idle", "delete"} /\ ~Engaged(t) /\ ~Engaged(t)'
    BY <1>0, <2>1 DEF OwnerInv, Mine, Engaged
  <2>3. Saved'
    BY <2>1 DEF KeepInv, SavedInv, Trusted
  <2> QED
    BY <2>1, <2>2, <2>3 DEF ReadInv, SavedInv
<1>3. CASE AccessReassign
  <2>1. step[row.server] = "idle" /\ row'.server = None
    BY <1>0, <1>3, ReassignDoes, ReassignDown DEF KeepInv, HoldInv
  <2>2. ~Trusted' => ~Trusted
    BY <1>0, <1>3, <2>1, ReassignDoes, ConstantsAssumption DEF Trusted, LoadingFresh, LoadSteps
  <2>3. UNCHANGED <<redis, es, pool, step, was, snap, acked>>
    BY <1>0, <1>3, ReassignDoes
  <2>4. ReadInv'
    BY <2>3 DEF KeepInv, ReadInv
  <2>5. (Saved' <=> Saved) /\ \A t \in Servers : Engaged(t)' <=> Engaged(t)
    BY <2>3 DEF Saved, Engaged
  <2> QED
    BY <2>2, <2>3, <2>4, <2>5 DEF KeepInv, SavedInv
<1>4. CASE DeleteCanvas
  <2>1. /\ ~row.cached /\ UNCHANGED <<redis, pool, step, was, snap>>
        /\ (es' = es /\ acked' = acked) \/ acked' = {}
    BY <1>0, <1>4, DeleteDoes
  <2>2. \A t \in Servers : step[t] \in {"idle", "delete"} /\ ~Engaged(t) /\ ~Engaged(t)'
    BY <1>0, <2>1 DEF OwnerInv, Mine, Engaged
  <2>3. Saved'
    BY <2>1 DEF KeepInv, SavedInv, Trusted, Saved
  <2> QED
    BY <2>1, <2>2, <2>3 DEF ReadInv, SavedInv
<1> QED
  BY <1>1, <1>2, <1>3, <1>4

\* Every step keeps what is saved.
LEMMA StepKeep == ASSUME SqlAnswers, KeepInv, [Next]_vars PROVE KeepInv'
<1>1. HoldInv'
  BY StepHold DEF KeepInv
<1>2. CASE UNCHANGED vars
  BY <1>1, <1>2, QuietKeep DEF KeepInv, vars, stores
<1>3. ASSUME NEW s \in Servers, Life(s) PROVE ReadInv' /\ SavedInv'
  <2>1. CASE Register(s) \/ Heartbeat(s) \/ HeartbeatExpires(s) \/ QueryTimeout(s)
    BY <2>1, QuietKeep DEF Register, Heartbeat, HeartbeatExpires, QueryTimeout, stores
  <2> QED
    BY <1>3, <2>1, CrashKeep DEF Life
<1>4. ASSUME NEW s \in Servers, Load(s) PROVE ReadInv' /\ SavedInv'
  BY <1>4, AllocateKeep, LoadReadKeep, LoadStoreKeep, LoadClearKeep, LoadUndoKeep DEF Load
<1>5. ASSUME NEW s \in Servers, Unload(s) PROVE ReadInv' /\ SavedInv'
  BY <1>5, UnloadReadKeep, UnloadSaveKeep, UnloadUncacheKeep, UnloadDeleteKeep DEF Unload
<1>6. ASSUME NEW s \in Servers, Stop(s) PROVE FALSE
  BY <1>6, NoStop, FaultFacts DEF KeepInv, HoldInv, RunInv
<1> QED
  BY <1>1, <1>2, <1>3, <1>4, <1>5, <1>6, UserKeep DEF KeepInv, Next

-----------------------------------------------------------------------------
(* Whether a cached canvas can be opened, when loads finish.               *)

\* While s loads, no other server does, and the row names s.
LEMMA LoaderAlone ==
  ASSUME LoaderInv, NEW s \in Servers, step[s] \in LoadSteps
  PROVE  /\ row.exists /\ row.cached /\ row.server = s
         /\ \A t \in Servers \ {s} : step[t] \notin LoadSteps
         /\ Trusted <=> was[s]
BY DEF LoaderInv, Mine, Trusted, LoadingFresh

\* A step of another kind: the row, the Redis document and the loads stay, and no
\* unload comes to its deletion.
LEMMA QuietOpen ==
  ASSUME OpenInv, UNCHANGED row,
         redis'.there = redis.there, redis'.gen = redis.gen,
         \A t \in Servers :
            /\ (step'[t] \in LoadSteps <=> step[t] \in LoadSteps)
            /\ (step[t] \in LoadSteps => (was'[t] <=> was[t]))
            /\ (step'[t] = "delete" => step[t] = "delete" /\ snap'[t] = snap[t])
  PROVE  LoaderInv' /\ CacheInv'
<1>1. Trusted' <=> Trusted
  BY SameTrust
<1>2. LoaderInv'
  BY DEF OpenInv, LoaderInv, Mine
<1> QED
  BY <1>1, <1>2 DEF OpenInv, CacheInv

\* The steps of a server's life: who dies in a load was reading what is cached.
LEMMA LifeOpen ==
  ASSUME LoadsFinish, OpenInv, NEW s \in Servers, Life(s)
  PROVE  LoaderInv' /\ CacheInv'
<1>1. CASE Register(s) \/ Heartbeat(s) \/ HeartbeatExpires(s) \/ QueryTimeout(s)
  BY <1>1, QuietOpen DEF Register, Heartbeat, HeartbeatExpires, QueryTimeout, stores
<1>2. CASE Crash(s)
  <2>0. TypeOK
    BY DEF OpenInv, RunInv
  <2>1. Trusted' <=> Trusted
    <3>1. \A t \in Servers : step[t] \in LoadSteps /\ ~was[t] <=> (step[t] \in LoadSteps /\ ~was[t])'
      BY <1>2, <2>0, CrashDoes, FaultFacts DEF LoadSteps
    <3> QED
      BY <1>2, <2>0, <3>1, CrashDoes, SameTrust
  <2>2. LoaderInv'
    BY <1>2, <2>0, CrashDoes DEF OpenInv, LoaderInv, Mine, LoadSteps
  <2>3. CacheInv'
    BY <1>2, <2>0, <2>1, CrashDoes DEF OpenInv, CacheInv
  <2> QED
    BY <2>2, <2>3
<1> QED
  BY <1>1, <1>2 DEF Life

\* The allocation: what was cached is trusted before and after.
LEMMA AllocateOpen ==
  ASSUME LoadsFinish, OpenInv, NEW s \in Servers, LoadAllocate(s)
  PROVE  LoaderInv' /\ CacheInv'
<1> USE FaultFacts
<1>0. TypeOK
  BY DEF OpenInv, RunInv
<1>1. step[s] = "idle" /\ row.exists /\ (row.cached => row.server \in {None, s})
  BY <1>0, AllocateDoes
<1>2. \A t \in Servers : step[t] \notin LoadSteps
  BY <1>1, ConstantsAssumption DEF OpenInv, LoaderInv, Mine, LoadSteps
<1>3. Trusted <=> row.cached
  BY <1>1, <1>2 DEF Trusted, LoadingFresh
<1>4. Trusted' <=> row.cached
  BY <1>0, AllocateDoes DEF Trusted, LoadingFresh, LoadSteps
<1>5. LoaderInv'
  BY <1>0, <1>2, AllocateDoes DEF LoaderInv, Mine
<1>6. CacheInv'
  BY <1>0, <1>3, <1>4, AllocateDoes DEF OpenInv, CacheInv
<1> QED
  BY <1>5, <1>6

\* The read of a load leaves the Redis document and its trust alone.
LEMMA LoadReadOpen ==
  ASSUME OpenInv, NEW s \in Servers, LoadRead(s)
  PROVE  LoaderInv' /\ CacheInv'
<1>0. TypeOK
  BY DEF OpenInv, RunInv
<1>1. step[s] = "read" /\ UNCHANGED <<row, redis>>
  BY <1>0, LoadReadDoes
<1>2. row.exists /\ row.cached /\ row.server = s /\ \A t \in Servers \ {s} : step[t] \notin LoadSteps
  BY <1>1, LoaderAlone DEF OpenInv, LoadSteps
<1>3. Trusted' <=> Trusted
  <2>1. \A t \in Servers : step[t] \in LoadSteps /\ ~was[t] <=> (step[t] \in LoadSteps /\ ~was[t])'
    BY <1>0, <1>1, LoadReadDoes DEF LoadSteps
  <2> QED
    BY <1>1, <2>1, SameTrust
<1>4. LoaderInv'
  BY <1>0, <1>1, <1>2, LoadReadDoes DEF LoaderInv, Mine
<1>5. CacheInv'
  BY <1>0, <1>1, <1>3, LoadReadDoes DEF OpenInv, CacheInv
<1> QED
  BY <1>4, <1>5

\* The store of a load: the document is there, with a generation that no unload
\* is about to delete.
LEMMA LoadStoreOpen ==
  ASSUME OpenInv, NEW s \in Servers, LoadStore(s)
  PROVE  LoaderInv' /\ CacheInv'
<1>0. TypeOK /\ GenInv
  BY DEF OpenInv, RunInv
<1>1. step[s] = "store" /\ row' = row
  BY <1>0, LoadStoreDoes
<1>2. row.exists /\ row.cached /\ row.server = s /\ \A t \in Servers \ {s} : step[t] \notin LoadSteps
  BY <1>1, LoaderAlone DEF OpenInv, LoadSteps
<1>3. Trusted <=> was[s]
  BY <1>1, LoaderAlone DEF OpenInv, LoadSteps
<1>4. LoaderInv'
  BY <1>0, <1>1, <1>2, LoadStoreDoes DEF LoaderInv, Mine, LoadSteps
<1>5. \A t \in Servers : step'[t] = "delete" =>
        t # s /\ step[t] = "delete" /\ snap'[t] = snap[t] /\ snap[t].gen < gens + 1
  BY <1>0, LoadStoreDoes DEF GenInv, TypeOK
<1>6. Trusted' => Stored(s) \/ (Trusted /\ redis' = redis)
  <2>1. CASE step'[s] = "idle" /\ pool'[s] = "ready" /\ Stored(s)
    BY <2>1
  <2>2. CASE (was[s] => step'[s] = "idle") /\ (~was[s] => step'[s] = "clear")
    <3>1. ~was[s] => ~Trusted'
      BY <1>0, <1>1, <1>2, <2>2, LoadStoreDoes DEF Trusted, LoadingFresh, LoadSteps
    <3> QED
      BY <1>0, <1>3, <3>1, LoadStoreDoes
  <2> QED
    BY <1>0, <2>1, <2>2, LoadStoreDoes
<1>7. Trusted' => redis'.there
  BY <1>6 DEF Stored, OpenInv, CacheInv
<1>8. ASSUME NEW t \in Servers, step'[t] = "delete", Trusted' PROVE redis'.gen # snap'[t].gen
  BY <1>0, <1>5, <1>6, <1>8 DEF Stored, OpenInv, CacheInv, TypeOK
<1> QED
  BY <1>4, <1>7, <1>8 DEF CacheInv

\* The deletion after a failed load: nobody trusts the document.
LEMMA LoadClearOpen ==
  ASSUME LoadsFinish, OpenInv, NEW s \in Servers, LoadClear(s)
  PROVE  LoaderInv' /\ CacheInv'
<1>0. TypeOK
  BY DEF OpenInv, RunInv
<1>1. step[s] = "clear" /\ step'[s] = "undo" /\ UNCHANGED <<row, was>>
  BY <1>0, LoadClearDoes, FaultFacts
<1>2. row.exists /\ row.cached /\ row.server = s /\ \A t \in Servers \ {s} : step[t] \notin LoadSteps
  BY <1>1, LoaderAlone DEF OpenInv, LoadSteps
<1>3. ~was[s]
  BY <1>1 DEF OpenInv, RunInv, ServerInv, Agree
<1>4. ~Trusted'
  BY <1>1, <1>2, <1>3 DEF Trusted, LoadingFresh, LoadSteps
<1>5. LoaderInv'
  BY <1>0, <1>1, <1>2, LoadClearDoes DEF LoaderInv, Mine
<1> QED
  BY <1>4, <1>5 DEF CacheInv

\* Giving the canvas back: the row is not cached, and nobody loads.
LEMMA LoadUndoOpen ==
  ASSUME LoadsFinish, OpenInv, NEW s \in Servers, LoadUndo(s)
  PROVE  LoaderInv' /\ CacheInv'
<1> USE FaultFacts
<1>0. TypeOK
  BY DEF OpenInv, RunInv
<1>1. step[s] = "undo"
  BY <1>0, LoadUndoDoes
<1>2. Mine(s) /\ \A t \in Servers \ {s} : step[t] \notin LoadSteps
  BY <1>1, LoaderAlone DEF OpenInv, LoadSteps, Mine
<1>3. row' = Uncached
  BY <1>0, <1>2, LoadUndoDoes
<1>4. ~Trusted'
  BY <1>3 DEF Trusted, Uncached
<1>5. LoaderInv'
  BY <1>0, <1>2, LoadUndoDoes DEF LoaderInv, LoadSteps
<1> QED
  BY <1>4, <1>5 DEF CacheInv

\* An unload: it deletes a document only after it has given up the row, and then
\* only the generation it saved.
LEMMA UnloadOpen ==
  ASSUME OpenInv, NEW s \in Servers, Unload(s)
  PROVE  LoaderInv' /\ CacheInv'
<1>0. TypeOK /\ ServerInv
  BY DEF OpenInv, RunInv
<1>1. CASE UnloadRead(s)
  BY <1>0, <1>1, UnloadReadDoes, QuietOpen DEF LoadSteps
<1>2. CASE UnloadSave(s)
  BY <1>0, <1>2, UnloadSaveDoes, QuietOpen DEF LoadSteps
<1>3. CASE UnloadUncache(s)
  <2>1. CASE row' = row /\ step'[s] = "idle"
    BY <1>0, <1>3, <2>1, UnloadUncacheDoes, QuietOpen DEF LoadSteps
  <2>2. CASE Mine(s) /\ row' = Uncached
    <3>1. ~Trusted'
      BY <2>2 DEF Trusted, Uncached
    <3>2. \A t \in Servers : step[t] \notin LoadSteps
      BY <1>0, <1>3, <2>2, UnloadUncacheDoes DEF OpenInv, LoaderInv, Mine, LoadSteps
    <3>3. LoaderInv'
      BY <1>0, <1>3, <3>2, UnloadUncacheDoes DEF LoaderInv, LoadSteps
    <3> QED
      BY <3>1, <3>3 DEF CacheInv
  <2> QED
    BY <1>0, <1>3, <2>1, <2>2, UnloadUncacheDoes
<1>4. CASE UnloadDelete(s)
  <2>1. row' = row /\ was' = was /\ step[s] = "delete"
    BY <1>0, <1>4, UnloadDeleteDoes
  <2>2. CASE redis' = redis
    BY <1>0, <1>4, <2>1, <2>2, UnloadDeleteDoes, QuietOpen DEF LoadSteps
  <2>3. CASE redis.gen = snap[s].gen
    <3>1. ~Trusted
      BY <2>1, <2>3 DEF OpenInv, CacheInv
    <3>2. ~Trusted'
      <4>1. \A t \in Servers : step[t] \in LoadSteps /\ ~was[t] <=> (step[t] \in LoadSteps /\ ~was[t])'
        BY <1>0, <1>4, <2>1, UnloadDeleteDoes DEF LoadSteps
      <4> QED
        BY <2>1, <3>1, <4>1, SameTrust
    <3>3. LoaderInv'
      BY <1>0, <1>4, <2>1, UnloadDeleteDoes DEF OpenInv, LoaderInv, Mine, LoadSteps
    <3> QED
      BY <3>2, <3>3 DEF CacheInv
  <2> QED
    BY <1>0, <1>4, <2>2, <2>3, UnloadDeleteDoes
<1> QED
  BY <1>1, <1>2, <1>3, <1>4 DEF Unload

\* The requests of users: none of them removes the Redis document.
LEMMA UserOpen ==
  ASSUME OpenInv,
         \/ \E s \in Servers, w \in Writes : Query(s, w)
         \/ \E w \in Writes : EditInactive(w)
         \/ AccessReassign
         \/ DeleteCanvas
  PROVE  LoaderInv' /\ CacheInv'
<1>0. TypeOK
  BY DEF OpenInv, RunInv
<1>1. ASSUME NEW s \in Servers, NEW w \in Writes, Query(s, w) PROVE LoaderInv' /\ CacheInv'
  BY <1>0, <1>1, QueryDoes, QuietOpen
<1>2. ASSUME NEW w \in Writes, EditInactive(w) PROVE LoaderInv' /\ CacheInv'
  BY <1>0, <1>2, EditDoes, QuietOpen
<1>3. CASE AccessReassign
  <2>1. step[row.server] = "idle" /\ row'.server = None
    BY <1>0, <1>3, ReassignDoes, ReassignDown DEF OpenInv
  <2>2. \A t \in Servers : step[t] \notin LoadSteps
    BY <2>1 DEF OpenInv, LoaderInv, Mine, LoadSteps
  <2>3. Trusted' <=> Trusted
    BY <1>0, <1>3, <2>2, ReassignDoes DEF Trusted, LoadingFresh
  <2> QED
    BY <1>0, <1>3, <2>2, <2>3, ReassignDoes DEF OpenInv, LoaderInv, CacheInv
<1>4. CASE DeleteCanvas
  <2>1. ~row.cached /\ ~row'.cached /\ step' = step
    BY <1>0, <1>4, DeleteDoes
  <2>2. \A t \in Servers : step[t] \notin LoadSteps
    BY <2>1 DEF OpenInv, LoaderInv, Mine
  <2> QED
    BY <2>1, <2>2 DEF LoaderInv, CacheInv, Trusted
<1> QED
  BY <1>1, <1>2, <1>3, <1>4

\* Every step keeps what is cached there to be opened.
LEMMA StepOpen == ASSUME LoadsFinish, OpenInv, [Next]_vars PROVE OpenInv'
<1>1. RunInv'
  BY StepRun, FaultFacts DEF OpenInv
<1>2. CASE UNCHANGED vars
  BY <1>1, <1>2, QuietOpen DEF OpenInv, vars, stores
<1>3. ASSUME NEW s \in Servers, Load(s) PROVE LoaderInv' /\ CacheInv'
  BY <1>3, AllocateOpen, LoadReadOpen, LoadStoreOpen, LoadClearOpen, LoadUndoOpen DEF Load
<1>4. ASSUME NEW s \in Servers, Stop(s) PROVE FALSE
  BY <1>4, NoStop, FaultFacts DEF OpenInv, RunInv
<1> QED
  BY <1>1, <1>2, <1>3, <1>4, LifeOpen, UnloadOpen, UserOpen DEF OpenInv, Next

-----------------------------------------------------------------------------
(* Where the acknowledged edits are, when SQL answers and loads finish.    *)

\* A step that leaves the trusted document alone.
LEMMA QuietTrust ==
  ASSUME LifeInv, Trusted' <=> Trusted, acked' = acked,
         Trusted => redis'.content = redis.content,
         ~Trusted => es'.content = es.content,
         \A t \in Servers : step'[t] = "store" => step[t] = "store" /\ snap'[t] = snap[t]
  PROVE  TrustInv'
BY DEF LifeInv, TrustInv

\* A server that dies was not in a fresh load.
LEMMA LifeTrust ==
  ASSUME LoadsFinish, LifeInv, NEW s \in Servers, Life(s)
  PROVE  TrustInv'
<1>1. CASE Register(s) \/ Heartbeat(s) \/ HeartbeatExpires(s) \/ QueryTimeout(s)
  <2>1. UNCHANGED <<row, redis, es, step, was, snap, acked>>
    BY <1>1 DEF Register, Heartbeat, HeartbeatExpires, QueryTimeout, stores
  <2>2. Trusted' <=> Trusted
    BY <2>1, SameTrust
  <2> QED
    BY <2>1, <2>2, QuietTrust
<1>2. CASE Crash(s)
  <2>0. TypeOK
    BY DEF LifeInv, OpenInv, RunInv
  <2>1. Trusted' <=> Trusted
    <3>1. \A t \in Servers : step[t] \in LoadSteps /\ ~was[t] <=> (step[t] \in LoadSteps /\ ~was[t])'
      BY <1>2, <2>0, CrashDoes, FaultFacts DEF LoadSteps
    <3> QED
      BY <1>2, <2>0, <3>1, CrashDoes, SameTrust
  <2> QED
    BY <1>2, <2>0, <2>1, CrashDoes, QuietTrust
<1> QED
  BY <1>1, <1>2 DEF Life

\* A load: it reads the trusted document, and stores what it has read.
LEMMA LoadTrust ==
  ASSUME CrashesOnly, LifeInv, NEW s \in Servers, Load(s)
  PROVE  TrustInv'
<1> USE FaultFacts
<1>0. TypeOK /\ ServerInv /\ LoaderInv
  BY DEF LifeInv, OpenInv, RunInv
<1>1. CASE LoadAllocate(s)
  <2>1. step[s] = "idle" /\ row.exists /\ (row.cached => row.server \in {None, s})
    BY <1>0, <1>1, AllocateDoes
  <2>2. \A t \in Servers : step[t] \notin LoadSteps
    BY <1>0, <2>1, ConstantsAssumption DEF LoaderInv, Mine, LoadSteps
  <2>3. Trusted' <=> Trusted
    BY <1>0, <1>1, <2>1, <2>2, AllocateDoes DEF Trusted, LoadingFresh, LoadSteps
  <2> QED
    BY <1>0, <1>1, <2>3, AllocateDoes, QuietTrust
<1>2. CASE LoadRead(s)
  <2>1. step[s] = "read" /\ UNCHANGED <<row, redis, acked>>
    BY <1>0, <1>2, LoadReadDoes
  <2>2. Trusted <=> was[s]
    BY <1>0, <2>1, LoaderAlone DEF LoadSteps
  <2>3. Trusted' <=> Trusted
    <3>1. \A t \in Servers : step[t] \in LoadSteps /\ ~was[t] <=> (step[t] \in LoadSteps /\ ~was[t])'
      BY <1>0, <1>2, <2>1, LoadReadDoes DEF LoadSteps
    <3> QED
      BY <2>1, <3>1, SameTrust
  <2>4. ~Trusted => es' = es
    BY <1>0, <1>2, <2>2, LoadReadDoes DEF Source
  <2>5. acked \subseteq Source(s).content
    BY <2>2 DEF Source, LifeInv, TrustInv
  <2>6. \A t \in Servers : step'[t] = "store" => acked \subseteq snap'[t].content
    BY <1>0, <1>2, <2>5, LoadReadDoes DEF LifeInv, TrustInv
  <2> QED
    BY <2>1, <2>3, <2>4, <2>6 DEF LifeInv, TrustInv
<1>3. CASE LoadStore(s)
  <2>1. step[s] = "store" /\ UNCHANGED <<row, es, acked>>
    BY <1>0, <1>3, LoadStoreDoes
  <2>2. Trusted <=> was[s]
    BY <1>0, <2>1, LoaderAlone DEF LoadSteps
  <2>3. acked \subseteq snap[s].content
    BY <2>1 DEF LifeInv, TrustInv
  <2>4. row.exists /\ row.cached /\ row.server = s /\ \A t \in Servers \ {s} : step[t] \notin LoadSteps
    BY <1>0, <2>1, LoaderAlone DEF LoadSteps
  <2>5. Trusted' => Stored(s) \/ (Trusted /\ redis' = redis)
    <3>1. CASE step'[s] = "idle" /\ pool'[s] = "ready" /\ Stored(s)
      BY <3>1
    <3>2. CASE (was[s] => step'[s] = "idle") /\ (~was[s] => step'[s] = "clear")
      <4>1. ~was[s] => ~Trusted'
        BY <1>0, <1>3, <2>1, <2>4, <3>2, LoadStoreDoes DEF Trusted, LoadingFresh, LoadSteps
      <4> QED
        BY <1>0, <1>3, <2>2, <4>1, LoadStoreDoes
    <3> QED
      BY <1>0, <1>3, <3>1, <3>2, LoadStoreDoes
  <2>6. ~Trusted' => ~Trusted
    BY <1>0, <1>3, <2>1, <2>2, <2>4, LoadStoreDoes DEF Trusted, LoadingFresh, LoadSteps
  <2>7. \A t \in Servers : step'[t] = "store" => step[t] = "store" /\ snap'[t] = snap[t]
    BY <1>0, <1>3, <2>1, LoadStoreDoes
  <2> QED
    BY <2>1, <2>3, <2>5, <2>6, <2>7 DEF Stored, LifeInv, TrustInv
<1>4. CASE LoadClear(s)
  <2>1. step[s] = "clear" /\ step'[s] = "undo" /\ UNCHANGED <<row, es, was, snap, acked>>
    BY <1>0, <1>4, LoadClearDoes
  <2>2. ~was[s]
    BY <1>0, <2>1 DEF ServerInv, Agree
  <2>3. ~Trusted
    BY <1>0, <2>1, <2>2, LoaderAlone DEF LoadSteps
  <2>4. ~Trusted'
    <3>1. \A t \in Servers : step[t] \in LoadSteps /\ ~was[t] <=> (step[t] \in LoadSteps /\ ~was[t])'
      BY <1>0, <1>4, <2>1, LoadClearDoes DEF LoadSteps
    <3> QED
      BY <2>1, <2>3, <3>1, SameTrust
  <2> QED
    BY <1>0, <1>4, <2>1, <2>3, <2>4, LoadClearDoes, QuietTrust
<1>5. CASE LoadUndo(s)
  <2>1. step[s] = "undo" /\ UNCHANGED <<redis, es, was, snap, acked>>
    BY <1>0, <1>5, LoadUndoDoes
  <2>2. ~was[s]
    BY <1>0, <2>1 DEF ServerInv, Agree
  <2>3. Mine(s) /\ ~Trusted
    BY <1>0, <2>1, <2>2, LoaderAlone DEF LoadSteps, Mine
  <2>4. row' = Uncached
    BY <1>0, <1>5, <2>3, LoadUndoDoes
  <2>5. ~Trusted'
    BY <2>4 DEF Trusted, Uncached
  <2> QED
    BY <1>0, <1>5, <2>1, <2>3, <2>5, LoadUndoDoes, QuietTrust
<1> QED
  BY <1>1, <1>2, <1>3, <1>4, <1>5 DEF Load

\* An unload: it makes Elasticsearch the trusted store once it has what Redis has.
LEMMA UnloadTrust ==
  ASSUME CrashesOnly, LifeInv, NEW s \in Servers, Unload(s)
  PROVE  TrustInv'
<1> USE FaultFacts
<1>0. TypeOK /\ ServerInv /\ OwnerInv
  BY DEF LifeInv, KeepInv, HoldInv, RunInv
<1>1. CASE UnloadRead(s)
  <2>1. step[s] = "idle" /\ step'[s] = "save" /\ UNCHANGED <<row, redis, es, was, acked>>
    BY <1>0, <1>1, UnloadReadDoes
  <2>2. Trusted' <=> Trusted
    <3>1. \A t \in Servers : step[t] \in LoadSteps /\ ~was[t] <=> (step[t] \in LoadSteps /\ ~was[t])'
      BY <1>0, <1>1, <2>1, UnloadReadDoes DEF LoadSteps
    <3> QED
      BY <2>1, <3>1, SameTrust
  <2> QED
    BY <1>0, <1>1, <2>1, <2>2, UnloadReadDoes, QuietTrust
<1>2. CASE UnloadSave(s)
  <2>1. step[s] = "save" /\ UNCHANGED <<row, redis, was, acked>>
    BY <1>0, <1>2, UnloadSaveDoes
  <2>2. Trusted
    BY <1>0, <2>1, WhoIsEngaged, EngagedTrust DEF LoadSteps
  <2>3. Trusted'
    <3>1. \A t \in Servers : step[t] \in LoadSteps /\ ~was[t] <=> (step[t] \in LoadSteps /\ ~was[t])'
      BY <1>0, <1>2, <2>1, UnloadSaveDoes DEF LoadSteps
    <3> QED
      BY <2>1, <2>2, <3>1, SameTrust
  <2> QED
    BY <1>0, <1>2, <2>1, <2>2, <2>3, UnloadSaveDoes, QuietTrust
<1>3. CASE UnloadUncache(s)
  <2>1. step[s] = "uncache" /\ UNCHANGED <<redis, es, was, acked>>
    BY <1>0, <1>3, UnloadUncacheDoes
  <2>2. Engaged(s) /\ Mine(s)
    BY <1>0, <2>1, WhoIsEngaged DEF OwnerInv
  <2>3. Trusted /\ es.content = redis.content
    BY <1>0, <2>1, <2>2, EngagedTrust DEF LoadSteps, LifeInv, KeepInv, ReadInv
  <2>4. row' = Uncached
    BY <1>0, <1>3, <2>2, UnloadUncacheDoes
  <2>5. ~Trusted'
    BY <2>4 DEF Trusted, Uncached
  <2>6. \A t \in Servers : step'[t] = "store" => step[t] = "store" /\ snap'[t] = snap[t]
    BY <1>0, <1>3, UnloadUncacheDoes
  <2> QED
    BY <2>1, <2>3, <2>5, <2>6 DEF LifeInv, TrustInv
<1>4. CASE UnloadDelete(s)
  <2>1. step[s] = "delete" /\ UNCHANGED <<row, es, was, acked>>
    BY <1>0, <1>4, UnloadDeleteDoes
  <2>2. Trusted => redis' = redis
    BY <1>0, <1>4, <2>1, UnloadDeleteDoes DEF LifeInv, OpenInv, CacheInv
  <2>3. Trusted' <=> Trusted
    <3>1. \A t \in Servers : step[t] \in LoadSteps /\ ~was[t] <=> (step[t] \in LoadSteps /\ ~was[t])'
      BY <1>0, <1>4, <2>1, UnloadDeleteDoes DEF LoadSteps
    <3> QED
      BY <2>1, <3>1, SameTrust
  <2> QED
    BY <1>0, <1>4, <2>1, <2>2, <2>3, UnloadDeleteDoes, QuietTrust
<1> QED
  BY <1>1, <1>2, <1>3, <1>4 DEF Unload

\* The requests of users go to the trusted store.
LEMMA UserTrust ==
  ASSUME LifeInv,
         \/ \E s \in Servers, w \in Writes : Query(s, w)
         \/ \E w \in Writes : EditInactive(w)
         \/ AccessReassign
         \/ DeleteCanvas
  PROVE  TrustInv'
<1>0. TypeOK /\ ServerInv /\ OwnerInv
  BY DEF LifeInv, KeepInv, HoldInv, RunInv
<1>1. ASSUME NEW s \in Servers, NEW w \in Writes, Query(s, w) PROVE TrustInv'
  <2>1. /\ Engaged(s) /\ step[s] \notin {"save", "uncache", "delete"} \cup LoadSteps
        /\ UNCHANGED <<row, es, step, was, snap>>
    BY <1>0, <1>1, QueryDoes, WhoIsEngaged
  <2>2. Trusted
    BY <1>0, <2>1, EngagedTrust
  <2>3. Trusted'
    BY <2>1, <2>2, SameTrust
  <2>4. acked' \subseteq redis'.content
    BY <1>0, <1>1, <2>2, QueryDoes DEF LifeInv, TrustInv
  <2>5. \A t \in Servers : step'[t] # "store"
    BY <1>0, <2>1, OthersIdle DEF LoadSteps
  <2> QED
    BY <2>3, <2>4, <2>5 DEF TrustInv
<1>2. ASSUME NEW w \in Writes, EditInactive(w) PROVE TrustInv'
  <2>1. ~row.cached /\ UNCHANGED <<row, step>>
    BY <1>0, <1>2, EditDoes
  <2>2. ~Trusted /\ ~Trusted'
    BY <2>1 DEF Trusted
  <2>3. \A t \in Servers : step'[t] # "store"
    BY <1>0, <2>1 DEF OwnerInv, Mine, Engaged
  <2>4. acked' \subseteq es'.content
    BY <1>0, <1>2, <2>2, EditDoes DEF LifeInv, TrustInv
  <2> QED
    BY <2>2, <2>3, <2>4 DEF TrustInv
<1>3. CASE AccessReassign
  <2>1. step[row.server] = "idle" /\ row'.server = None
    BY <1>0, <1>3, ReassignDoes, ReassignDown DEF LifeInv, OpenInv
  <2>2. \A t \in Servers : step[t] \notin LoadSteps
    BY <2>1 DEF LifeInv, OpenInv, LoaderInv, Mine, LoadSteps
  <2>3. Trusted' <=> Trusted
    BY <1>0, <1>3, <2>2, ReassignDoes DEF Trusted, LoadingFresh
  <2> QED
    BY <1>0, <1>3, <2>3, ReassignDoes, QuietTrust
<1>4. CASE DeleteCanvas
  <2>1. /\ ~row.cached /\ ~row'.cached /\ step' = step
        /\ (es' = es /\ acked' = acked) \/ acked' = {}
    BY <1>0, <1>4, DeleteDoes
  <2>2. ~Trusted /\ ~Trusted'
    BY <2>1 DEF Trusted
  <2>3. \A t \in Servers : step'[t] # "store"
    BY <1>0, <2>1 DEF OwnerInv, Mine, Engaged
  <2>4. acked' \subseteq es'.content
    BY <2>1, <2>2 DEF LifeInv, TrustInv
  <2> QED
    BY <2>2, <2>3, <2>4 DEF TrustInv
<1> QED
  BY <1>1, <1>2, <1>3, <1>4

\* Every step keeps the acknowledged edits in the trusted store.
LEMMA StepLife == ASSUME CrashesOnly, LifeInv, [Next]_vars PROVE LifeInv'
<1>1. KeepInv'
  BY StepKeep, FaultFacts DEF LifeInv
<1>2. OpenInv'
  BY StepOpen, FaultFacts DEF LifeInv
<1>3. TrustInv'
  <2>1. CASE UNCHANGED vars
    <3>1. Trusted' <=> Trusted
      BY <2>1, SameTrust DEF vars, stores
    <3> QED
      BY <2>1, <3>1, QuietTrust DEF vars, stores
  <2>2. ASSUME NEW s \in Servers, Stop(s) PROVE FALSE
    BY <2>2, NoStop, FaultFacts DEF LifeInv, OpenInv, RunInv
  <2> QED
    BY <2>1, <2>2, LifeTrust, LoadTrust, UnloadTrust, UserTrust, FaultFacts DEF Next
<1> QED
  BY <1>1, <1>2, <1>3 DEF LifeInv

-----------------------------------------------------------------------------
(* The theorems.                                                           *)

\* A step that removes the Redis document removes one that is saved.
LEMMA RemovalSaved ==
  ASSUME SqlAnswers, KeepInv, Next, redis.there, ~redis'.there
  PROVE  Saved
<1>0. TypeOK /\ ServerInv /\ OwnerInv
  BY DEF KeepInv, HoldInv, RunInv
<1>1. \E s \in Servers : LoadClear(s) \/ UnloadDelete(s)
  <2>1. ASSUME NEW s \in Servers, Life(s) \/ Stop(s) PROVE FALSE
    BY <1>0, <2>1, NoStop, FaultFacts
       DEF Life, Register, Heartbeat, HeartbeatExpires, QueryTimeout, Crash, ProcessEnds, stores
  <2>2. ASSUME NEW s \in Servers, Load(s) PROVE LoadClear(s)
    BY <2>2 DEF Load, LoadAllocate, LoadRead, LoadStore, LoadUndo
  <2>3. ASSUME NEW s \in Servers, Unload(s) PROVE UnloadDelete(s)
    BY <2>3 DEF Unload, UnloadRead, UnloadSave, UnloadUncache, stores
  <2>4. ASSUME NEW s \in Servers, NEW w \in Writes, Query(s, w) PROVE FALSE
    BY <1>0, <2>4, QueryDoes
  <2>5. ASSUME NEW w \in Writes, EditInactive(w) PROVE FALSE
    BY <2>5 DEF EditInactive
  <2> QED
    BY <2>1, <2>2, <2>3, <2>4, <2>5 DEF Next, AccessReassign, DeleteCanvas
<1>2. PICK s \in Servers : LoadClear(s) \/ UnloadDelete(s)
  BY <1>1
<1>3. CASE LoadClear(s)
  <2>1. step[s] = "clear" /\ ~was[s] /\ Engaged(s)
    BY <1>0, <1>3 DEF LoadClear, ServerInv, Agree, Engaged
  <2>2. ~Trusted
    BY <1>0, <2>1, EngagedTrust DEF LoadSteps
  <2> QED
    BY <2>2 DEF KeepInv, SavedInv
<1>4. CASE UnloadDelete(s)
  <2>1. step[s] = "delete" /\ redis.gen = snap[s].gen
    BY <1>4 DEF UnloadDelete
  <2> QED
    BY <2>1 DEF KeepInv, SavedInv
<1> QED
  BY <1>2, <1>3, <1>4

\* No acknowledged edit is lost: the store that the next load or the next Spring
\* request trusts has it, whichever servers crash in whichever step of a load or
\* an unload, and whichever requests to Redis and Elasticsearch fail or lose
\* their replies.
THEOREM WritesKept == ASSUME CrashesOnly PROVE Spec => []NoLostWrite
<1>1. LifeInv => NoLostWrite
  BY DEF LifeInv, TrustInv, NoLostWrite, OpenInv, CacheInv, Latest, Trusted, LoadingFresh
<1>2. LifeInv /\ [Next]_vars => LifeInv'
  BY StepLife
<1> QED
  BY <1>1, <1>2, InitLife, PTL DEF Spec

\* The row decides who serves: two servers never have the canvas ready together,
\* not even when loads end half way (getOrAllocateRedisAndSetCached,
\* updateCanvasUncached).
THEOREM OneOwner == ASSUME SqlAnswers PROVE Spec => []SingleOwner
<1>1. HoldInv => SingleOwner
  <2> SUFFICES ASSUME HoldInv, NEW s \in Servers, NEW t \in Servers,
                      pool[s] = "ready", pool[t] = "ready"
               PROVE  s = t
    BY DEF SingleOwner
  <2>1. Engaged(s) /\ Engaged(t)
    BY WhoIsEngaged DEF HoldInv, RunInv
  <2> QED
    BY <2>1, OneEngaged DEF HoldInv
<1>2. HoldInv /\ [Next]_vars => HoldInv'
  BY StepHold
<1>3. Init => HoldInv
  BY InitLife DEF LifeInv, KeepInv
<1> QED
  BY <1>1, <1>2, <1>3, PTL DEF Spec

\* A cached canvas can be opened again: whoever is not loading it finds its
\* document in Redis, even when SQL fails or loses replies (unloadCanvas deletes
\* the document only after updateCanvasUncached).
THEOREM CacheReadable == ASSUME LoadsFinish PROVE Spec => []CacheExists
<1>1. OpenInv => CacheExists
  BY ConstantsAssumption DEF OpenInv, CacheInv, CacheExists, Trusted, LoadingFresh
<1>2. OpenInv /\ [Next]_vars => OpenInv'
  BY StepOpen
<1>3. Init => OpenInv
  BY InitLife DEF LifeInv
<1> QED
  BY <1>1, <1>2, <1>3, PTL DEF Spec

\* No save that began before a deletion brings the document back after it, not
\* even when loads end half way.
THEOREM DeletedForGood == ASSUME SqlAnswers PROVE Spec => []NoResurrection
<1>1. HoldInv => NoResurrection
  BY DEF HoldInv, GoneInv, NoResurrection
<1>2. HoldInv /\ [Next]_vars => HoldInv'
  BY StepHold
<1>3. Init => HoldInv
  BY InitLife DEF LifeInv, KeepInv
<1> QED
  BY <1>1, <1>2, <1>3, PTL DEF Spec

\* Nothing acknowledged is in Redis alone when its document is deleted there, by
\* an unload that is late or by a load that failed (removeCanvasGeneration,
\* clearCanvas), not even when loads end half way.
THEOREM DeletesSaved == ASSUME SqlAnswers PROVE Spec => DeleteOnlySaved
<1>1. KeepInv /\ [Next]_vars =>
        [redis.there /\ ~redis'.there => redis.content \cap acked \subseteq es.content]_vars
  <2> SUFFICES ASSUME KeepInv, Next, redis.there, ~redis'.there
               PROVE  redis.content \cap acked \subseteq es.content
    OBVIOUS
  <2> QED
    BY RemovalSaved DEF Saved
<1>2. KeepInv /\ [Next]_vars => KeepInv'
  BY StepKeep
<1>3. Init => KeepInv
  BY InitLife DEF LifeInv
<1> QED
  BY <1>1, <1>2, <1>3, PTL DEF Spec, DeleteOnlySaved
=============================================================================
