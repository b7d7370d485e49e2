--------------------------- MODULE CanvasSettings ---------------------------
(***************************************************************************)
(* The settings of one canvas (name, description, password, visibility,    *)
(* participants) and their revision.  While a C++ server has the canvas    *)
(* loaded, CanvasSettingsService changes the Redis document by a           *)
(* compare-and-set on the revision, then patches the Elasticsearch         *)
(* document, and rolls both back when the patch fails; the pool keeps the  *)
(* revision that sessions must have.  Spring hands out tokens for the      *)
(* revision it reads, and changes the settings of a canvas that nobody has *)
(* loaded.                                                                 *)
(*                                                                         *)
(* A field's value is the number of the change that wrote it, so later     *)
(* changes have larger numbers.  Loading and unloading are single steps    *)
(* (module CanvasLifecycle has their parts).                               *)
(***************************************************************************)
EXTENDS Integers

CONSTANTS
    Servers,     \* C++ query servers
    None,        \* no server
    Fields,      \* the settings that a change may replace, one at a time
    MaxChanges,  \* bound on the changes that users ask for
    Faults       \* what may go wrong: a subset of FaultKinds

FaultKinds == {"crash", "slow", "redis", "es"}

ASSUME SettingsAssumption ==
    /\ None \notin Servers
    /\ MaxChanges \in Nat
    /\ Faults \subseteq FaultKinds

VARIABLES
    row,       \* canvas_info: [cached, server]
    redis,     \* settings of the document canvas:<id>: [rev, val]
    es,        \* settings of the document in Elasticsearch: [rev, val]
    pool,      \* pool[s]: settings_revision_ of the Canvas of s; -1: not loaded
    step,      \* step[s]: what execute, which holds settings_mutex of s, does next
    job,       \* job[s]: the change it makes: [rev, field, old, new]
    sessions,  \* sessions[s]: the settings that connections of s were let in under
    shown,     \* the settings that users were given tokens, grants or answers for
    made,      \* number of changes asked for
    acked      \* acked[f]: the last change of f whose success a user was told

storeVars == <<row, redis, es>>
serverVars == <<pool, step, job, sessions>>
userVars == <<shown, made, acked>>
vars == <<storeVars, serverVars, userVars>>

NoJob == [rev |-> 0, field |-> "none", old |-> 0, new |-> 0]
First == [rev |-> 0, val |-> [f \in Fields |-> 0]]

\* The outcomes of a request to a store: acknowledged, not executed, or executed
\* with its reply lost.
Outcomes(kind) == {"ok"} \cup (IF kind \in Faults THEN {"failed", "lost"} ELSE {})

Init ==
    /\ row = [cached |-> FALSE, server |-> None]
    /\ redis = First
    /\ es = First
    /\ pool = [s \in Servers |-> -1]
    /\ step = [s \in Servers |-> "idle"]
    /\ job = [s \in Servers |-> NoJob]
    /\ sessions = [s \in Servers |-> {}]
    /\ shown = {}
    /\ made = 0
    /\ acked = [f \in Fields |-> 0]

\* The document that Spring and the preflight of a connection trust.
Document == IF row.cached THEN redis ELSE es

-----------------------------------------------------------------------------
(* Spring.                                                                 *)

\* accessCanvas gives a token, and a password grant, for the revision it reads;
\* getCanvasSettings and canvas_settings_get answer with the settings.  Spring
\* locks the row, which no server holds during a change.
Show ==
    /\ shown' = shown \cup {Document}
    /\ UNCHANGED <<storeVars, serverVars, made, acked>>

\* accessCanvas takes the canvas away from a server that does not run, or whose
\* heartbeat is late.
Reassign ==
    /\ row.cached /\ row.server # None
    /\ pool[row.server] = -1 \/ "slow" \in Faults
    /\ row' = [row EXCEPT !.server = None]
    /\ UNCHANGED <<redis, es, serverVars, userVars>>

Changed(doc, f, c) == [rev |-> doc.rev + 1, val |-> [doc.val EXCEPT ![f] = c]]

\* updateCanvasName and the like, for a canvas that is not cached.
EditInactive(f) ==
    /\ ~row.cached
    /\ made < MaxChanges
    /\ made' = made + 1
    /\ \E o \in Outcomes("es") :
          /\ es' = IF o = "failed" THEN es ELSE Changed(es, f, made')
          /\ acked' = IF o = "ok" THEN [acked EXCEPT ![f] = made'] ELSE acked
    /\ UNCHANGED <<row, redis, serverVars, shown>>

-----------------------------------------------------------------------------
(* Connections.                                                            *)

\* The preflight of a connection allows it, and the canvas is loaded for it, from
\* Redis if it is cached.
Load(s) ==
    /\ pool[s] = -1
    /\ row.cached => row.server \in {None, s}
    /\ \E x \in shown : x.rev = Document.rev
    /\ row' = [cached |-> TRUE, server |-> s]
    /\ redis' = Document
    /\ pool' = [pool EXCEPT ![s] = Document.rev]
    /\ UNCHANGED <<es, step, job, sessions, userVars>>

\* A connection with a token for the revision that Redis has: the session gets
\* its groups from the settings as they are now.
Join(s, x) ==
    /\ pool[s] # -1 /\ step[s] = "idle"
    /\ row = [cached |-> TRUE, server |-> s]
    /\ x.rev = redis.rev
    /\ sessions' = [sessions EXCEPT ![s] = @ \cup {redis}]
    /\ UNCHANGED <<storeVars, pool, step, job, userVars>>

\* A query of the session x is served.
Served(s, x) == pool[s] # -1 /\ step[s] = "idle" /\ x.rev = pool[s]

-----------------------------------------------------------------------------
(* CanvasSettingsService::execute, for canvas_settings_update.             *)

Idle(s) ==
    /\ step' = [step EXCEPT ![s] = "idle"]
    /\ job' = [job EXCEPT ![s] = NoJob]

Go(s, next) ==
    /\ step' = [step EXCEPT ![s] = next]
    /\ UNCHANGED job

\* Mutant: the original value is not remembered.
UpdateForgetsOriginal(s, x, f) ==
    /\ Served(s, x)
    /\ row = [cached |-> TRUE, server |-> s]
    /\ \E y \in shown : y.rev = redis.rev
    /\ made < MaxChanges
    /\ made' = made + 1
    /\ job' = [job EXCEPT ![s] = [rev |-> redis.rev, field |-> f, old |-> 0, new |-> made']]
    /\ step' = [step EXCEPT ![s] = "store"]
    /\ UNCHANGED <<storeVars, pool, sessions, shown, acked>>

\* The checks: the server has the canvas, and the user knows the revision that the
\* document has.
Update(s, x, f) ==
    /\ Served(s, x)
    /\ row = [cached |-> TRUE, server |-> s]
    /\ \E y \in shown : y.rev = redis.rev
    /\ made < MaxChanges
    /\ made' = made + 1
    /\ job' = [job EXCEPT ![s] = [rev |-> redis.rev, field |-> f, old |-> redis.val[f], new |-> made']]
    /\ step' = [step EXCEPT ![s] = "store"]
    /\ UNCHANGED <<storeVars, pool, sessions, shown, acked>>

\* compareAndSetFields: when Redis has the document, with the revision rev, the
\* field is set to c and the revision to next.
Matches(rev) == row.cached /\ redis.rev = rev
CompareAndSet(rev, f, c, next) ==
    redis' = IF Matches(rev) THEN [rev |-> next, val |-> [redis.val EXCEPT ![f] = c]] ELSE redis

\* patchCanvasFields: a partial update without a condition.
Patched(f, c, rev) == [rev |-> rev, val |-> [es.val EXCEPT ![f] = c]]

\* The compare-and-set in Redis.  A conflict, a failure and a lost reply end the
\* change.
Store(s) ==
    /\ step[s] = "store"
    /\ \E o \in Outcomes("redis") :
          /\ IF o = "failed" THEN UNCHANGED redis
             ELSE CompareAndSet(job[s].rev, job[s].field, job[s].new, job[s].rev + 1)
          /\ IF o = "ok" /\ Matches(job[s].rev) THEN Go(s, "patch") ELSE Idle(s)
    /\ UNCHANGED <<row, es, pool, sessions, userVars>>

\* Mutant: the revision in the pool stays.
PatchKeepsPool(s) ==
    /\ step[s] = "patch"
    /\ \E o \in Outcomes("es") :
          /\ es' = IF o = "failed" THEN es ELSE Patched(job[s].field, job[s].new, job[s].rev + 1)
          /\ IF o = "ok" THEN acked' = [acked EXCEPT ![job[s].field] = job[s].new] /\ Idle(s)
             ELSE Go(s, "restore") /\ UNCHANGED acked
    /\ UNCHANGED <<row, redis, pool, sessions, shown, made>>

\* Mutant: the result of the patch is not looked at.
PatchUnchecked(s) ==
    /\ step[s] = "patch"
    /\ \E o \in Outcomes("es") :
          es' = IF o = "failed" THEN es ELSE Patched(job[s].field, job[s].new, job[s].rev + 1)
    /\ pool' = [pool EXCEPT ![s] = job[s].rev + 1]
    /\ acked' = [acked EXCEPT ![job[s].field] = job[s].new]
    /\ Idle(s)
    /\ UNCHANGED <<row, redis, sessions, shown, made>>

\* The patch of Elasticsearch.
Patch(s) ==
    /\ step[s] = "patch"
    /\ \E o \in Outcomes("es") :
          /\ es' = IF o = "failed" THEN es ELSE Patched(job[s].field, job[s].new, job[s].rev + 1)
          /\ IF o = "ok"
             THEN /\ pool' = [pool EXCEPT ![s] = job[s].rev + 1]
                  /\ acked' = [acked EXCEPT ![job[s].field] = job[s].new]
                  /\ Idle(s)
             ELSE Go(s, "restore") /\ UNCHANGED <<pool, acked>>
    /\ UNCHANGED <<row, redis, sessions, shown, made>>

\* Mutant: the roll-back takes the revision one too far back.
RestoreTooFar(s) ==
    /\ step[s] = "restore"
    /\ \E o \in Outcomes("redis") :
          IF o = "failed" THEN UNCHANGED redis
          ELSE CompareAndSet(job[s].rev + 1, job[s].field, job[s].old, job[s].rev - 1)
    /\ Go(s, "compensate")
    /\ UNCHANGED <<row, es, pool, sessions, userVars>>

\* The roll-back in Redis, whose result is only logged.
Restore(s) ==
    /\ step[s] = "restore"
    /\ \E o \in Outcomes("redis") :
          IF o = "failed" THEN UNCHANGED redis
          ELSE CompareAndSet(job[s].rev + 1, job[s].field, job[s].old, job[s].rev)
    /\ Go(s, "compensate")
    /\ UNCHANGED <<row, es, pool, sessions, userVars>>

\* The roll-back in Elasticsearch.
Compensate(s) ==
    /\ step[s] = "compensate"
    /\ \E o \in Outcomes("es") :
          es' = IF o = "failed" THEN es ELSE Patched(job[s].field, job[s].old, job[s].rev)
    /\ Idle(s)
    /\ UNCHANGED <<row, redis, pool, sessions, userVars>>

-----------------------------------------------------------------------------
(* The end of a canvas in a server's pool.                                 *)

Leave(s) ==
    /\ pool' = [pool EXCEPT ![s] = -1]
    /\ sessions' = [sessions EXCEPT ![s] = {}]

\* An idle canvas is saved and given up.  The save does not look at the row; it
\* needs the document in Redis, which is there as long as the row says cached.
Unload(s) ==
    /\ pool[s] # -1 /\ step[s] = "idle"
    /\ row.cached
    /\ es' = redis
    /\ row' = IF row.server = s THEN [cached |-> FALSE, server |-> None] ELSE row
    /\ Leave(s)
    /\ UNCHANGED <<redis, step, job, userVars>>

\* The server stops between any two steps of a change.
Crash(s) ==
    /\ "crash" \in Faults
    /\ pool[s] # -1
    /\ Leave(s) /\ Idle(s)
    /\ UNCHANGED <<storeVars, userVars>>

-----------------------------------------------------------------------------
Execute(s) == Store(s) \/ Patch(s) \/ Restore(s) \/ Compensate(s)

Next ==
    \/ Show \/ Reassign
    \/ \E f \in Fields : EditInactive(f)
    \/ \E s \in Servers :
          \/ Load(s) \/ Execute(s) \/ Unload(s) \/ Crash(s)
          \/ \E x \in shown : Join(s, x)
          \/ \E x \in sessions[s], f \in Fields : Update(s, x, f)

Spec == Init /\ [][Next]_vars

-----------------------------------------------------------------------------
(* Properties.                                                             *)

Docs == [rev : 0..MaxChanges, val : [Fields -> 0..MaxChanges]]

\* Every variable has its type, and a server that changes the settings has the
\* canvas.
TypeOK ==
    /\ row \in [cached : BOOLEAN, server : Servers \cup {None}]
    /\ redis \in Docs /\ es \in Docs
    /\ pool \in [Servers -> -1..MaxChanges]
    /\ step \in [Servers -> {"idle", "store", "patch", "restore", "compensate"}]
    /\ job \in [Servers -> [rev : 0..MaxChanges, field : Fields \cup {"none"},
                            old : 0..MaxChanges, new : 0..MaxChanges]]
    /\ sessions \in [Servers -> SUBSET Docs]
    /\ shown \in SUBSET Docs
    /\ made \in 0..MaxChanges
    /\ acked \in [Fields -> 0..MaxChanges]

\* A change that a user was told of is undone by nothing but a later change: no
\* roll-back, crash, lost reply or hand-over brings an older value back into the
\* document that the canvas is loaded from.
AckedKept == \A f \in Fields : Document.val[f] >= acked[f]

\* And it is in Elasticsearch at once, whether the canvas is cached or not.
AckedInEs == \A f \in Fields : es.val[f] >= acked[f]

\* No query is served under settings that are older than an acknowledged change
\* (the revision check in CanvasQueryService::query): whoever was let in before
\* must connect again.
ServedCurrent ==
    \A s \in Servers : \A x \in sessions[s] :
        Served(s, x) => \A f \in Fields : x.val[f] >= acked[f]

\* A token or grant for older settings than an acknowledged change is refused:
\* its revision is not that of the document.
TokensExpire ==
    (\A s \in Servers : step[s] = "idle") =>
        \A x \in shown : x.rev = Document.rev => \A f \in Fields : x.val[f] >= acked[f]
=============================================================================
