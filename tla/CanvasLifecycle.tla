-------------------------- MODULE CanvasLifecycle --------------------------
(***************************************************************************)
(* Where one canvas lives: its row in SQL (is it cached, by which C++      *)
(* server), its document in Redis while it is cached, and its document in  *)
(* Elasticsearch.  C++ servers load it, write to it, save and unload it    *)
(* (CanvasLifecycleMemory, RegistryServiceMemory, main.cpp); the Spring    *)
(* API reassigns it, edits it while nobody has it loaded, and deletes it   *)
(* (CanvasService).  No transaction spans two stores, and a server may     *)
(* stop between any two steps.                                             *)
(*                                                                         *)
(* A document is the set of the writes it contains.  A request to a store  *)
(* ends in one of three ways: acknowledged, not executed, or executed with *)
(* its reply lost.  Faults says what may go wrong in a behaviour.          *)
(***************************************************************************)
EXTENDS Naturals, FiniteSets

CONSTANTS
    Servers,   \* C++ query servers
    None,      \* no server (cpp_server_id IS NULL)
    Writes,    \* edits a client may ask for, each at most once
    MaxGen,    \* bound: cache generations (loads) in a behaviour
    Faults     \* what may go wrong, a subset of FaultKinds

FaultKinds ==
    { "crash",   \* a server process dies
      "stop",    \* a server is shut down gracefully while others run
      "slow",    \* a running server's heartbeat is more than 15 s old
      "abandon", \* a load that has allocated the canvas ends without storing
                 \* it or giving it back: by a crash, or by a second failure
      "redis", "sql", "es" }  \* requests to this store fail or lose replies

ASSUME ConstantsAssumption ==
    /\ None \notin Servers
    /\ MaxGen \in Nat
    /\ Faults \subseteq FaultKinds

VARIABLES
    row,     \* canvas_info: [exists, cached, server]
    redis,   \* the document canvas:<id>: [there, gen, content]
    es,      \* the document in Elasticsearch: [there, content]
    active,  \* active[s]: cpp_server.is_activated
    fresh,   \* fresh[s]: last_heartbeat_at is at most 15 s old
    phase,   \* phase[s]: how far main and stop_servers of s are
    pool,    \* pool[s]: the Canvas of s, "unloading" as its flag says
    recent,  \* recent[s]: hasRecentQuery of that Canvas
    step,    \* step[s]: what the owner of s's lifecycle mutex does next
    was,     \* was[s]: redis_was_cached of the load in progress
    snap,    \* snap[s]: the document the load or the save in progress has read
    gens,    \* number of generations handed out by newCacheGeneration
    acked    \* writes whose success a client was told

stores == <<row, redis, es>>
vars == <<stores, active, fresh, phase, pool, recent, step, was, snap, gens, acked>>

NoRedis == [there |-> FALSE, gen |-> 0, content |-> {}]
NoEs == [there |-> FALSE, content |-> {}]
NoSnap == [gen |-> 0, content |-> {}]
UncachedZeroId == [exists |-> TRUE, cached |-> FALSE, server |-> 0]
Uncached == [exists |-> TRUE, cached |-> FALSE, server |-> None]

\* A canvas that has been created and never opened; the servers are not started.
Init ==
    /\ row = [exists |-> TRUE, cached |-> FALSE, server |-> None]
    /\ redis = NoRedis
    /\ es = [there |-> TRUE, content |-> {}]
    /\ active = [s \in Servers |-> FALSE]
    /\ fresh = [s \in Servers |-> FALSE]
    /\ phase = [s \in Servers |-> "down"]
    /\ pool = [s \in Servers |-> "none"]
    /\ recent = [s \in Servers |-> FALSE]
    /\ step = [s \in Servers |-> "idle"]
    /\ was = [s \in Servers |-> FALSE]
    /\ snap = [s \in Servers |-> NoSnap]
    /\ gens = 0
    /\ acked = {}

Outcomes(store) == IF store \in Faults THEN {"ok", "failed", "lost"} ELSE {"ok"}
MayFail(store) == store \in Faults
MayAbandon == "abandon" \in Faults

LoadSteps == {"read", "store", "clear", "undo"}

\* The HTTP server and the broker socket of s accept requests.
Serving(s) == phase[s] \in {"up", "inactive"}

-----------------------------------------------------------------------------
(* A server's life: main and stop_servers.                                 *)

Register(s) ==
    /\ phase[s] = "down"
    /\ phase' = [phase EXCEPT ![s] = "up"]
    /\ active' = [active EXCEPT ![s] = TRUE]
    /\ fresh' = [fresh EXCEPT ![s] = TRUE]
    /\ UNCHANGED <<stores, pool, recent, step, was, snap, gens, acked>>

\* The cleanup thread looks at g_graceful_shutdown before it sends the
\* statement, which may reach SQL after setServerInactive.
Heartbeat(s) ==
    /\ Serving(s)
    /\ active' = [active EXCEPT ![s] = TRUE]
    /\ fresh' = [fresh EXCEPT ![s] = TRUE]
    /\ UNCHANGED <<stores, phase, pool, recent, step, was, snap, gens, acked>>

HeartbeatExpires(s) ==
    /\ fresh[s]
    /\ phase[s] = "up" => "slow" \in Faults
    /\ fresh' = [fresh EXCEPT ![s] = FALSE]
    /\ UNCHANGED <<stores, active, phase, pool, recent, step, was, snap, gens, acked>>

\* 90 seconds without a query.
QueryTimeout(s) ==
    /\ recent[s]
    /\ recent' = [recent EXCEPT ![s] = FALSE]
    /\ UNCHANGED <<stores, active, fresh, phase, pool, step, was, snap, gens, acked>>

\* What a process loses when it ends.
ProcessEnds(s) ==
    /\ phase' = [phase EXCEPT ![s] = "down"]
    /\ pool' = [pool EXCEPT ![s] = "none"]
    /\ recent' = [recent EXCEPT ![s] = FALSE]
    /\ step' = [step EXCEPT ![s] = "idle"]
    /\ was' = [was EXCEPT ![s] = FALSE]
    /\ snap' = [snap EXCEPT ![s] = NoSnap]
    /\ UNCHANGED <<stores, active, fresh, gens, acked>>

Crash(s) ==
    /\ "crash" \in Faults
    /\ phase[s] # "down"
    /\ step[s] \in LoadSteps => was[s] \/ MayAbandon
    /\ ProcessEnds(s)

\* setServerInactive, whose result is not looked at.
StopInactive(s) ==
    /\ "stop" \in Faults
    /\ phase[s] = "up"
    /\ phase' = [phase EXCEPT ![s] = "inactive"]
    /\ \E o \in Outcomes("sql") : active' = [active EXCEPT ![s] = o = "failed"]
    /\ UNCHANGED <<stores, fresh, pool, recent, step, was, snap, gens, acked>>

\* The HTTP server and the broker socket are stopped and their workers joined.
StopServing(s) ==
    /\ phase[s] = "inactive"
    /\ step[s] \notin LoadSteps
    /\ phase' = [phase EXCEPT ![s] = "saving"]
    /\ UNCHANGED <<stores, active, fresh, pool, recent, step, was, snap, gens, acked>>

\* saveCanvasesForShutdown freezes the canvas and reads its document ...
StopFreeze(s) ==
    /\ phase[s] = "saving" /\ step[s] = "idle"
    /\ pool' = [pool EXCEPT ![s] = IF @ = "none" THEN @ ELSE "unloading"]
    /\ \/ /\ pool[s] # "none" /\ redis.there
          /\ snap' = [snap EXCEPT ![s] = [gen |-> redis.gen, content |-> redis.content]]
          /\ step' = [step EXCEPT ![s] = "stopSave"]
          /\ UNCHANGED phase
       \/ /\ pool[s] = "none" \/ ~redis.there \/ MayFail("redis")
          /\ phase' = [phase EXCEPT ![s] = "cleanup"]
          /\ UNCHANGED <<snap, step>>
    /\ UNCHANGED <<stores, active, fresh, recent, was, gens, acked>>

\* ... and saves it; stop_servers goes on whether that works or not.
StopSave(s) ==
    /\ step[s] = "stopSave"
    /\ \E o \in Outcomes("es") :
          es' = IF o = "failed" THEN es ELSE [there |-> TRUE, content |-> snap[s].content]
    /\ step' = [step EXCEPT ![s] = "idle"]
    /\ phase' = [phase EXCEPT ![s] = "cleanup"]
    /\ snap' = [snap EXCEPT ![s] = NoSnap]
    /\ UNCHANGED <<row, redis, active, fresh, pool, recent, was, gens, acked>>

\* The process ends once cleanupInactiveCanvases has tried to unload the
\* canvas, or has found nothing to unload.
StopExit(s) ==
    /\ step[s] = "idle"
    /\ \/ phase[s] = "exit"
       \/ /\ phase[s] = "cleanup"
          /\ pool[s] = "none" \/ recent[s] \/ ~redis.there \/ MayFail("redis")
    /\ ProcessEnds(s)

-----------------------------------------------------------------------------
(* getOrCreateCanvasWithLifecycleLock.                                     *)

\* getOrAllocateRedisAndSetCached.  A lost reply is reported as ERROR, and the
\* load ends there, with the row changed.
LoadAllocateAnyOwner(s) ==
    /\ Serving(s) /\ step[s] = "idle" /\ pool[s] = "none"
    /\ active[s]
    /\ row.exists
    /\ row' = [row EXCEPT !.cached = TRUE, !.server = s]
    /\ \E o \in Outcomes("sql") \ {"failed"} :
          /\ o = "ok" \/ MayAbandon
          /\ step' = [step EXCEPT ![s] = IF o = "ok" THEN "read" ELSE "idle"]
          /\ was' = [was EXCEPT ![s] = o = "ok" /\ row.cached]
    /\ UNCHANGED <<redis, es, active, fresh, phase, pool, recent, snap, gens, acked>>
LoadAllocate(s) ==
    /\ Serving(s) /\ step[s] = "idle" /\ pool[s] = "none"
    /\ active[s]
    /\ row.exists
    /\ row.cached => row.server \in {None, s}
    /\ row' = [row EXCEPT !.cached = TRUE, !.server = s]
    /\ \E o \in Outcomes("sql") \ {"failed"} :
          /\ o = "ok" \/ MayAbandon
          /\ step' = [step EXCEPT ![s] = IF o = "ok" THEN "read" ELSE "idle"]
          /\ was' = [was EXCEPT ![s] = o = "ok" /\ row.cached]
    /\ UNCHANGED <<redis, es, active, fresh, phase, pool, recent, snap, gens, acked>>

\* The load fails: a canvas that was not cached before is released again.
LoadFailsKeepsRow(s, next) ==
    /\ step' = [step EXCEPT ![s] = "idle"]
    /\ was' = [was EXCEPT ![s] = FALSE]
    /\ snap' = [snap EXCEPT ![s] = NoSnap]
LoadFails(s, next) ==
    /\ step' = [step EXCEPT ![s] = IF was[s] THEN "idle" ELSE next]
    /\ was' = [was EXCEPT ![s] = FALSE]
    /\ snap' = [snap EXCEPT ![s] = NoSnap]

Source(s) == IF was[s] THEN [there |-> redis.there, content |-> redis.content] ELSE es

\* The ping, and the first half of initializeCanvas: the document is read, and
\* saved again when its password had an old format.
LoadRead(s) ==
    /\ step[s] = "read"
    /\ \/ /\ MayFail("redis")
          /\ LoadFails(s, "undo")
          /\ UNCHANGED es
       \/ /\ ~Source(s).there \/ MayFail("redis") \/ MayFail("es")
          /\ LoadFails(s, "clear")
          /\ UNCHANGED es
       \/ /\ Source(s).there
          /\ es' \in {es, Source(s)}
          /\ snap' = [snap EXCEPT ![s] = [gen |-> 0, content |-> Source(s).content]]
          /\ step' = [step EXCEPT ![s] = "store"]
          /\ UNCHANGED was
    /\ UNCHANGED <<row, redis, active, fresh, phase, pool, recent, gens, acked>>

\* storeCanvas of the document with a new generation, and the pool.
LoadStore(s) ==
    /\ step[s] = "store"
    /\ gens < MaxGen
    /\ gens' = gens + 1
    /\ \E o \in Outcomes("redis") :
          /\ redis' = IF o = "failed" THEN redis
                      ELSE [there |-> TRUE, gen |-> gens + 1, content |-> snap[s].content]
          /\ IF o = "ok"
             THEN /\ pool' = [pool EXCEPT ![s] = "ready"]
                  /\ recent' = [recent EXCEPT ![s] = TRUE]
                  /\ step' = [step EXCEPT ![s] = "idle"]
                  /\ was' = [was EXCEPT ![s] = FALSE]
                  /\ snap' = [snap EXCEPT ![s] = NoSnap]
             ELSE LoadFails(s, "clear") /\ UNCHANGED <<pool, recent>>
    /\ UNCHANGED <<row, es, active, fresh, phase, acked>>

\* clearCanvas after a failed load: no generation is compared.
LoadClear(s) ==
    /\ step[s] = "clear"
    /\ \E o \in Outcomes("redis") :
          /\ o = "ok" \/ MayAbandon
          /\ redis' = IF o = "failed" THEN redis ELSE NoRedis
          /\ step' = [step EXCEPT ![s] = IF o = "ok" THEN "undo" ELSE "idle"]
    /\ UNCHANGED <<row, es, active, fresh, phase, pool, recent, was, snap, gens, acked>>

\* The condition and the effect of updateCanvasUncached.
Mine(s) == row.exists /\ row.cached /\ row.server = s

LoadUndo(s) ==
    /\ step[s] = "undo"
    /\ \E o \in Outcomes("sql") :
          /\ o # "failed" \/ MayAbandon
          /\ row' = IF Mine(s) /\ o # "failed" THEN Uncached ELSE row
    /\ step' = [step EXCEPT ![s] = "idle"]
    /\ UNCHANGED <<redis, es, active, fresh, phase, pool, recent, was, snap, gens, acked>>

-----------------------------------------------------------------------------
(* removeCanvasImpl and unloadCanvas.                                      *)

\* unloadCanvas returns false: the canvas stays, and serves again.
UnloadFailsFrozen(s) ==
    /\ pool' = [pool EXCEPT ![s] = "unloading"]
    /\ step' = [step EXCEPT ![s] = "idle"]
    /\ snap' = [snap EXCEPT ![s] = NoSnap]
UnloadFails(s) ==
    /\ pool' = [pool EXCEPT ![s] = "ready"]
    /\ step' = [step EXCEPT ![s] = "idle"]
    /\ snap' = [snap EXCEPT ![s] = NoSnap]

\* unloadCanvas returns true: the canvas leaves the pool.
UnloadDone(s) ==
    /\ pool' = [pool EXCEPT ![s] = "none"]
    /\ step' = [step EXCEPT ![s] = "idle"]
    /\ snap' = [snap EXCEPT ![s] = NoSnap]

\* Started by the cleanup thread, or by stop_servers, which tries it once.
\* hasRecentQuery, the freeze, and the document with its generation.
UnloadRead(s) ==
    /\ phase[s] \in {"up", "inactive", "cleanup"} /\ step[s] = "idle"
    /\ pool[s] # "none"
    /\ ~recent[s]
    /\ redis.there
    /\ pool' = [pool EXCEPT ![s] = "unloading"]
    /\ snap' = [snap EXCEPT ![s] = [gen |-> redis.gen, content |-> redis.content]]
    /\ step' = [step EXCEPT ![s] = "save"]
    /\ phase' = [phase EXCEPT ![s] = IF @ = "cleanup" THEN "exit" ELSE @]
    /\ UNCHANGED <<stores, active, fresh, recent, was, gens, acked>>

UnloadSaveUnchecked(s) ==
    /\ step[s] = "save"
    /\ \E o \in Outcomes("es") :
          /\ es' = IF o = "failed" THEN es ELSE [there |-> TRUE, content |-> snap[s].content]
          /\ step' = [step EXCEPT ![s] = "uncache"] /\ UNCHANGED <<pool, snap>>
    /\ UNCHANGED <<row, redis, active, fresh, phase, recent, was, gens, acked>>
UnloadSave(s) ==
    /\ step[s] = "save"
    /\ \E o \in Outcomes("es") :
          /\ es' = IF o = "failed" THEN es ELSE [there |-> TRUE, content |-> snap[s].content]
          /\ IF o = "ok"
             THEN step' = [step EXCEPT ![s] = "uncache"] /\ UNCHANGED <<pool, snap>>
             ELSE UnloadFails(s)
    /\ UNCHANGED <<row, redis, active, fresh, phase, recent, was, gens, acked>>

\* updateCanvasUncached; when it does not report one changed row, the row is
\* read again to find out whether the canvas is still this server's.
UnloadUncache(s) ==
    /\ step[s] = "uncache"
    /\ \E o \in Outcomes("sql"), read \in Outcomes("sql") :
          LET after == IF Mine(s) /\ o # "failed" THEN Uncached ELSE row
              lost == after.exists /\ (~after.cached \/ after.server # s)
          IN  /\ row' = after
              /\ IF Mine(s) /\ o = "ok"
                 THEN step' = [step EXCEPT ![s] = "delete"] /\ UNCHANGED <<pool, snap>>
                 ELSE IF read = "ok" /\ lost THEN UnloadDone(s) ELSE UnloadFails(s)
    /\ UNCHANGED <<redis, es, active, fresh, phase, recent, was, gens, acked>>

\* removeCanvasGeneration: only the generation that was saved is deleted.
UnloadDeleteUnchecked(s) ==
    /\ step[s] = "delete"
    /\ \E o \in Outcomes("redis") :
          redis' = IF o # "failed" THEN NoRedis ELSE redis
    /\ UnloadDone(s)
    /\ UNCHANGED <<row, es, active, fresh, phase, recent, was, gens, acked>>
UnloadDelete(s) ==
    /\ step[s] = "delete"
    /\ \E o \in Outcomes("redis") :
          redis' = IF o # "failed" /\ redis.gen = snap[s].gen THEN NoRedis ELSE redis
    /\ UnloadDone(s)
    /\ UNCHANGED <<row, es, active, fresh, phase, recent, was, gens, acked>>

-----------------------------------------------------------------------------
(* Requests of users.                                                      *)

\* CanvasQueryService::query: the pool is asked, the row is not.
Query(s, w) ==
    /\ Serving(s) /\ pool[s] = "ready"
    /\ redis.there
    /\ w \notin redis.content \cup acked
    /\ \E o \in Outcomes("redis") :
          /\ redis' = IF o = "failed" THEN redis ELSE [redis EXCEPT !.content = @ \cup {w}]
          /\ acked' = IF o = "ok" THEN acked \cup {w} ELSE acked
    /\ recent' = [recent EXCEPT ![s] = TRUE]
    /\ UNCHANGED <<row, es, active, fresh, phase, pool, step, was, snap, gens>>

\* CanvasService.accessCanvas of a canvas whose server is gone: the row lock is
\* held, the Redis document can be read, and another server takes the client.
AccessReassign ==
    /\ row.exists /\ row.server # None
    /\ ~(active[row.server] /\ fresh[row.server])
    /\ redis.there
    /\ \E s \in Servers : active[s] /\ fresh[s] /\ Serving(s)
    /\ row' = [row EXCEPT !.server = None]
    /\ UNCHANGED <<redis, es, active, fresh, phase, pool, recent, step, was, snap, gens, acked>>

\* A settings change through CanvasService, under the row lock.
EditInactive(w) ==
    /\ row.exists /\ ~row.cached
    /\ es.there /\ w \notin es.content \cup acked
    /\ \E o \in Outcomes("es") :
          /\ es' = IF o = "failed" THEN es ELSE [es EXCEPT !.content = @ \cup {w}]
          /\ acked' = IF o = "ok" THEN acked \cup {w} ELSE acked
    /\ UNCHANGED <<row, redis, active, fresh, phase, pool, recent, step, was, snap, gens>>

\* CanvasService.deleteCanvas: the row is deleted in a transaction that is
\* rolled back when Elasticsearch does not confirm.
DeleteCanvasCached ==
    /\ row.exists /\ es.there
    /\ \E o \in Outcomes("es") :
          /\ es' = IF o = "failed" THEN es ELSE NoEs
          /\ row' = IF o = "ok" THEN [row EXCEPT !.exists = FALSE] ELSE row
          /\ acked' = IF o = "failed" THEN acked ELSE {}
    /\ UNCHANGED <<redis, active, fresh, phase, pool, recent, step, was, snap, gens>>
DeleteCanvas ==
    /\ row.exists /\ ~row.cached /\ es.there
    /\ \E o \in Outcomes("es") :
          /\ es' = IF o = "failed" THEN es ELSE NoEs
          /\ row' = IF o = "ok" THEN [row EXCEPT !.exists = FALSE] ELSE row
          /\ acked' = IF o = "failed" THEN acked ELSE {}
    /\ UNCHANGED <<redis, active, fresh, phase, pool, recent, step, was, snap, gens>>

-----------------------------------------------------------------------------
Load(s) == LoadAllocate(s) \/ LoadRead(s) \/ LoadStore(s) \/ LoadClear(s) \/ LoadUndo(s)
Unload(s) == UnloadRead(s) \/ UnloadSave(s) \/ UnloadUncache(s) \/ UnloadDelete(s)
Stop(s) == StopInactive(s) \/ StopServing(s) \/ StopFreeze(s) \/ StopSave(s) \/ StopExit(s)
Life(s) == Register(s) \/ Heartbeat(s) \/ HeartbeatExpires(s) \/ QueryTimeout(s) \/ Crash(s)

Next ==
    \/ \E s \in Servers : Life(s) \/ Load(s) \/ Unload(s) \/ Stop(s)
    \/ \E s \in Servers, w \in Writes : Query(s, w)
    \/ \E w \in Writes : EditInactive(w)
    \/ AccessReassign
    \/ DeleteCanvas

Spec == Init /\ [][Next]_vars

\* An unload that has begun goes on: it holds the canvas's locks and waits for
\* nobody, and its requests to the stores time out.  So does a shutdown.
FairSpec ==
    /\ Spec
    /\ \A s \in Servers :
          /\ WF_vars(UnloadSave(s) \/ UnloadUncache(s) \/ UnloadDelete(s))
          /\ WF_vars(UnloadRead(s))
          /\ WF_vars(StopServing(s) \/ StopFreeze(s) \/ StopSave(s) \/ StopExit(s))

-----------------------------------------------------------------------------
(* Properties.                                                             *)

\* Every variable has its type.
TypeOK ==
    /\ row \in [exists : BOOLEAN, cached : BOOLEAN, server : Servers \cup {None}]
    /\ redis \in [there : BOOLEAN, gen : 0..MaxGen, content : SUBSET Writes]
    /\ es \in [there : BOOLEAN, content : SUBSET Writes]
    /\ active \in [Servers -> BOOLEAN]
    /\ fresh \in [Servers -> BOOLEAN]
    /\ phase \in [Servers -> {"down", "up", "inactive", "saving", "cleanup", "exit"}]
    /\ pool \in [Servers -> {"none", "ready", "unloading"}]
    /\ recent \in [Servers -> BOOLEAN]
    /\ step \in [Servers -> LoadSteps \cup {"idle", "save", "uncache", "delete", "stopSave"}]
    /\ was \in [Servers -> BOOLEAN]
    /\ snap \in [Servers -> [gen : 0..MaxGen, content : SUBSET Writes]]
    /\ gens \in 0..MaxGen
    /\ acked \in SUBSET Writes

\* The document the next load of the canvas would start from: the Redis
\* document of a cached canvas, unless the load that caches it is not done.
Latest ==
    IF row.cached /\ redis.there
          /\ ~\E s \in Servers : row.server = s /\ step[s] \in LoadSteps /\ ~was[s]
    THEN redis.content ELSE es.content

\* No edit a client was told of is lost, whatever servers do to the canvas:
\* the store that the next load or the next Spring request trusts has it.
NoLostWrite == row.exists => acked \subseteq Latest

\* One server at a time serves the canvas from its pool.
SingleOwner ==
    \A s, t \in Servers :
        Serving(s) /\ pool[s] = "ready" /\ Serving(t) /\ pool[t] = "ready" => s = t

\* A canvas the row calls cached has a Redis document, unless the row's server
\* is still loading it.  A load never looks elsewhere (initializeCanvas), so
\* such a canvas could never be opened again.
CacheExists ==
    row.exists /\ row.cached /\ (row.server # None => step[row.server] \notin LoadSteps) => redis.there

\* Whoever deletes the Redis document (an unload, or a failed load) deletes no
\* acknowledged edit that Elasticsearch does not have.
DeleteOnlySaved ==
    [][redis.there /\ ~redis'.there => redis.content \cap acked \subseteq es.content]_vars

\* A deleted canvas stays deleted: no late save brings its document back.
NoResurrection == ~row.exists => ~es.there

\* A canvas is not frozen for ever: an unload that fails at any step makes it
\* serve again, and one that works lets it go (the early returns of
\* unloadCanvas and removeCanvasImpl).
FreezeEnds ==
    \A s \in Servers : pool[s] = "unloading" ~> pool[s] # "unloading"
=============================================================================
