# TLA+ specifications of project-agora-BE

project-agora-BE is the backend of a collaborative canvas: users of one canvas
edit its items, chat and change its settings together.  This directory holds
TLA+ models of the parts of it that are hard to test, the TLC configurations
that check them on small instances, and TLAPS proofs of the results that matter
most for every value of the constants.

    tlc -workers 4 -config MCMemoryCacheThreads.cfg MCMemoryCache
    tlapm MemoryCacheProofs.tla

and in the same way the other `MC*.cfg` files and the other `*Proofs.tla` modules.

`PROJECT.json` lists the runs, the mutants that show that each property can
fail, the source lines each definition stands for, the hazards the properties
are aimed at, the findings and the theorems.

## The system

| part | state | operations | interacts with |
|---|---|---|---|
| Spring API (`spring/`) | rows of `users`, `canvas_info`, `server_info`, `redis_info`, `user_session`, `runtime_cleanup` in SQL Server | sign-up and sessions, create / list / delete canvas, settings of inactive canvases, `accessCanvas` (choose the C++ server), runtime cleanup | SQL Server, Elasticsearch, C++ servers (HTTP), the broker's control socket |
| C++ query server (`cpp/`) | the canvas pool, the write-back cache, lifecycle locks | load, query, save, unload; heartbeat; shutdown | SQL Server, Redis, Elasticsearch; queries arrive from the broker on a Unix socket |
| `MemoryClass` | cached regions of RedisJSON documents, dirty regions | read, write, flush, erase, executeAtomic, erasePattern | Redis |
| canvas lifecycle | pool of loaded canvases, one mutex per canvas | getOrCreateCanvas, unloadCanvas, saveCanvasesForShutdown, cleanupInactiveCanvases | SQL row of the canvas, Redis document, Elasticsearch document |
| registry | `server_info`, `canvas_info` rows | registerServer, heartbeat, allocate, uncache | SQL Server |
| query service | none of its own | canvas_ops / canvas_sync batches, settings, chat, mentions, CRUD batches | canvas pool, `CanvasServiceMemory` |
| broker batches | per canvas: revision, receipts per client, item revisions (in Redis) | applyBrokerBatch, brokerSyncState, readBrokerItems | Lua scripts in Redis |
| settings service | settings revision in the pool, in Redis and in Elasticsearch | execute (compare-and-set, patch, roll back) | Redis, Elasticsearch |
| chat | last sequence, messages, receipts, mention states | append, page through history, commit | Redis |
| persistence queue (`Canvas.cpp`) | queued writes, sequence numbers, barrier | enqueue, drain, cancel, wait | callers' threads |
| broker socket | connections, bounded request queue, 16 workers, reply queues | accept, read, work, reply, stop | the broker process |
| Redis client | sockets, Sentinel topology | connect, authenticate, execute | Redis, Sentinel |
| MSSQL client | pool of connections | execute, transaction | SQL Server |
| bulk log buffers (C++ and Spring) | bounded queues of log lines | add, flush, drop | Elasticsearch |
| search service (`search/`) | none | embed a canvas projection | Spring |

### What is hard

* Several threads of one server use one cache; an eviction may take away what
  another thread has just found (`MemoryClass`).
* Every Redis command may fail, or execute and lose its reply; the client never
  replays it.
* A canvas lives in three stores - the SQL row that says who owns it, the Redis
  document, the Elasticsearch document - and no transaction spans two of them.
  A server may stop between any two steps, and another may take over.
* A batch of edits is retried after an unknown outcome and must be applied once.
* Settings are written to Redis and to Elasticsearch, with a roll-back that may
  fail too.
* After a time-out a command may still arrive, and its reply too; after a failover
  the old connection looks healthy, and a Sentinel may name the old primary.
* Queues and pools are bounded, threads wait in them without a time-out, and
  shutdown must drain them.
* A post to a chat room is retried, perhaps at another server, while the first
  attempt is still under way; readers page through a history that grows.

### What makes each part correct

* `MemoryClass`: a caller that was told its write worked reads it back, from
  any thread, whatever was evicted or failed since; what leaves the cache is in
  Redis, and what is dirty can still be written there; the remote fields (chat messages) are never overwritten by a
  write-back; the eviction cannot deadlock.
* Lifecycle: no acknowledged edit is lost in a hand-over, one server serves a
  canvas, the row never says "cached" without a document to load, a deleted
  canvas stays deleted, a failed unload lets users go on.
* Broker batches: each batch takes effect once and as a whole, in the order of
  its client's counts; revisions have no gaps; answers are true.
* Settings: a change that was acknowledged is in both stores and is not undone by
  a roll-back of another; no query is served, and no token accepted, under
  settings from before it.
* Chat: sequence numbers of a room have no gaps; a retry gets the number of its
  first attempt; pages of history neither skip nor repeat a message.
* Redis client: a command is executed at most once and gets its own reply or none; a
  call returns; calls succeed again after a failover.
* Persistence queue: events are written in the order of their tickets; whoever
  waits for a ticket is woken.
* Broker socket: a request that was accepted is answered once or its connection
  is closed; the limits hold; `stop` ends.
* SQL pool: at most `max_connections_` sessions; no thread waits while one is
  free; no dead session is handed out.
* Log buffers: bounded, in order, flushed at exit as far as the deadline allows.
* Load balancer, runtime clean-up, sessions, search projection: no assignment
  to a server that is not active; a deletion is carried out in the end; a
  revoked token stays revoked; the projection follows the last edit.

## Modules

| module | about | checked by | proved in |
|---|---|---|---|
| `MemoryCache` | the write-back cache, its locks and its Redis commands | `MCMemoryCache` | `MemoryCacheProofs`, `MemoryCacheBoundsProofs` |
| `CanvasLifecycle` | one canvas in SQL, Redis and Elasticsearch; servers and the Spring API | `MCCanvasLifecycle` | `CanvasLifecycleProofs` |
| `BrokerBatch` | batches of edits from receipt to answer, on any number of servers | `MCBrokerBatch` | `BrokerBatchProofs` |
| `EditLog` | what the batches promise: one at a time, whole, in order | refined by `BrokerBatch` | `BrokerBatchProofs` |
| `CanvasSettings` | the settings of a canvas and their revision in Redis, Elasticsearch and the pool | `MCCanvasSettings` | `CanvasSettingsProofs` |
| `RedisClient` | the client's connection, Sentinel, the nodes, time-outs and failover | `MCRedisClient` | `RedisClientProofs` |
| `RedisCalls` | what a call promises: at most one execution, its own answer or none | refined by `RedisClient` | `RedisClientProofs` |
| `SqlPool` | the sessions with SQL Server and the threads that share them | `MCBrokerServer` | `BrokerServerProofs` |
| `BrokerSocket` | connections, request queue, workers, replies and stop of the broker socket | `MCBrokerServer` | `BrokerServerProofs` |
| `BrokerServer` | the two together: workers that need sessions | `MCBrokerServer` | `BrokerServerProofs` |
| `ChatRoom` | posts, receipts, mentions and pages of a chat room, on several servers | `MCChatRoom` | `ChatRoomProofs` |

### MemoryCache (`cpp/src/memory/MemoryClass.cpp`)

The state is what the code has: Redis (`exists`, `homes`, `meta`, `data`), the map and
the LRU list of `CacheManager` (`docCached`, `docLru`), the entries and dirty regions
of every `RegionLru` (`cmeta`, `dirty`), `mutex_`, the lock stripes (`holder`), and
for every thread where it is (`at`, `req`).  A region's value has a part that may be
cached and a part that is declared remote.  A region lies below the root of its
document: `homes` has the regions whose parent object is in Redis, where alone a
`JSON.SET` of them can succeed.  Ghosts say what callers know: `ackMeta` and `ackData`
are what they were told, and `doubt` has the cached regions that a call which ended
without a reply may have removed from Redis.

`RegionView` is what `read(key, path)` returns and `DocumentView` what `read(key)` does:
what Redis has with the dirty regions put back over it, or nothing when Redis has not
got the document or the parent of a dirty region (`Answers`;
`MemoryClass.cpp:483` and `:491`).

A call takes its stripe (`LockDocument`), and then either works in one step, or
goes through the steps another thread can come between: the lookup under
`mutex_` (`FindCache`), the scan for a document to evict, one candidate at a time
(`SkipCandidate`, `EvictCandidate`, `NoCandidate`), and the update after it.
`FlushResults` is every way a write-back of several regions can end: it stops at
the first failure, in any order of the regions.  Every command is acknowledged,
not executed, or executed with its reply lost.  What a call could not confirm
makes the ghost `Unknown`: either value may be read afterwards.

Abstracted: JSON paths (a region, a field in it, or a path above it), which
region `RegionLru` evicts and when it admits one (any choice), sizes in bytes (a
value is too big or not).

### CanvasLifecycle (`CanvasLifecycleMemory`, `RegistryServiceMemory`, `main.cpp`, `CanvasService.java`)

A document is the set of edits it contains, with the cache generation in Redis.
Every request to a store is a step of its own, so that a crash or another
server's step may come between any two.  `Load...` are the steps of
`getOrCreateCanvasWithLifecycleLock`, `Unload...` of `unloadCanvas` and
`removeCanvasImpl`, `Stop...` of `stop_servers`; `AccessReassign`, `EditInactive` and
`DeleteCanvas` are Spring's.  `pool`, `recent` and `step` are lost in a crash; `row`,
`redis` and `es` are not.  The constant `Faults` says what may go wrong: "crash"
(between any two steps but in the first half of a load), "abandon" (there too),
"stop" (a graceful shutdown), "slow" (a heartbeat that is late although the server
runs), and "redis", "sql", "es" (requests that fail or lose their replies).

Abstracted: what edits do, the choice among Redis services, clocks (a heartbeat
expires, a canvas becomes idle, at any time), one canvas only (canvases share
nothing but the server's life).

### BrokerBatch and EditLog (`CanvasQueryService::query`, `CanvasServiceMemory::applyBrokerBatch`)

Redis holds the revision, one receipt per client and the items with their
revisions; `applied` is a ghost: the batches that took effect.  A server receives
a batch (`Receive`: replay, next, or refused), reads the items with one command
(`ReadItems`), and runs the script (`ApplyDuplicate`, `ApplyCommit`, `ApplyFails`),
which checks everything again.  The receipts are read through the write-back
cache (`cached`, `CacheReceipts`, `EvictReceipts`).  Nothing is assumed of clients:
any batch may arrive at any server at any time, any number of times, and two
batches may have the same count.  With `Failover`, Redis may fall back to any
earlier state it had replicated (`Replicate`, `Promote`).

An item's value is the set of batches that made it, which is what tells a lost
update from none.  Abstracted: item formats and permissions (a batch suits the
items or not), connector ends, host tombstones, broadcasts, and the CRUD events
that change items beside the batches.

`EditLog` is the abstract specification: items and an accepted count per client,
and one action, `Commit`.  `Atomic` is the refinement, with an item's absence for
revision -1 and the receipts' counts for the accepted ones.

### CanvasSettings (`CanvasSettingsService`, `CanvasQueryService::join` and `query`, `CanvasService.java`)

A field's value is the number of the change that wrote it, so that "older" can be
said; a document is a revision and its fields.  `execute` is four steps: the
compare-and-set in Redis (`Store`), the patch of Elasticsearch (`Patch`), and, when
the patch was not acknowledged, the roll-back of Redis (`Restore`) and of
Elasticsearch (`Compensate`).  It holds `settings_mutex`, so no query, join or unload
of the same server comes between them (`step`), but a crash may, and so may Spring,
which reads Redis without that mutex (`Show`: tokens, password grants, answers).
`sessions` has the settings under which connections were let in, `acked` is a ghost:
the last change of each field that a user was told of.  Loading and unloading are
one step each here; `CanvasLifecycle` takes them apart.

Abstracted: which field means what, who may change it, formats and hashes; a change
of participants replaces two fields at once, which the model has as one.  The
server's cache of the document is left out: the compare-and-set drops the fields it
names from it (`MemoryCache`, `ExecuteAtomic`).

### RedisClient and RedisCalls (`cpp/src/memory/RedisClient.cpp`)

The client is one thread (`transport_mutex` of `MemoryClass` serialises callers) that
goes through `connect` - ask a seed, dial the node it names, check its `ROLE` - and then
writes a command and reads a reply; `step` is where it is.  `conn` is the connection
with what is under way on it in both directions.  `Disconnect` closes it, and what the
node has not yet read of it becomes `stray`: it may still be executed, or never.  The
nodes, the Sentinels and the network are external (`World`, `NodeExecutes`): a node may
crash, be replaced, and learn late that it was; a Sentinel may be stale.  Every failure
that does not follow from a node being down costs one of `MaxFaults`.

`RedisCalls` is the abstract specification: a call is open, is executed at most once
while it is, and returns its own answer or none.  `CallsExact` is the refinement, with
the commands under way for the open ones.

Abstracted: RESP and TLS (a reply arrives or does not), addresses and routes, the
pauses between rounds.  Commands are writes: a replica would answer a read, and a
client that only reads would stay on a demoted node.  `MemoryCache`, `CanvasSettings`
and `BrokerBatch` have a lost reply as "executed, and no answer", at once; that a
timed-out command may also be executed later is in this module and in `ChatRoom`.

### BrokerSocket, SqlPool and BrokerServer (`BrokerQuerySocketService.cpp`, `MssqlMemory.cpp`)

`BrokerSocket` has the event loop's steps (`Receive`, `Admit`, `RunDeferred`,
`SendFragment`, `DrainEvent`, `CloseEverything`), those of the workers (`Take`, `Answer`,
`Leave`) and those of `stop`.  `Receive` and `Admit` are two steps, since `accepting_` is
read without the mutex; a drain of replies is a loop of `SendFragment` that ends when the
socket has enough, and goes on when uWebSockets calls the drain handler.  Sizes are in
fragments of 128 KiB.  What waits in a queue is the set of its fragments (`Fragments`),
and its size their number, which is what a sum of sizes is and can be proved about.  The
limits are constants: of the queue (`MaxQueue`, `MaxQueuedBytes`), of all replies
(`MaxReplyBytes`), of one (`MaxReply`, above which `BROKER_BUSY` is sent instead) and of a
socket's buffer (`MaxBuffered`).

`SqlPool` has `acquire` (wait, take, or open without the mutex), the statement, and
`release`; waiting threads are a set, and `notify_one` and `notify_all` move them, as the
mutex is free, to the look at the pool.  `BrokerServer` composes the two: a worker with a
request makes a statement, another thread makes one too, and sessions die in the pool.

Abstracted: contents of requests and replies, malformed envelopes (dropped without an
answer), the token check of the upgrade, idle time-outs of connections, statements and
results.

### ChatRoom (`CanvasQueryService::query`, `commitChatMessage`, `storeMentionState`, `getChatHistoryPage`)

Redis has the messages, `next_sequence`, a receipt per request and a note per mention.
A server reads the room through its cache (`Room`), gives the post a number (`Post`) and
runs the script (`CommitNew`, `CommitRetry`, `CommitRefused`), which may also time out and
be executed late (`CommitTimesOut`, `LateCommit`).  The caches of two servers are not
coherent: reading the history fills one too.  `mention_read` changes the note and the
message.  A reader follows `next_to_sequence` page by page, at any server; `Slice` and
`Select` are the two ways of the script to find a page: by position, when the numbers have
no gap, or by a look at every message and a sort (`InOrder` puts each message at its rank).

Abstracted: permissions, how mentions are parsed and resolved, other items, the
broadcasts.  Rooms that CRUD events create or delete are left out, and so is
`appendChatMessage`, which only those events use.

## Runs

| run | instance | shows |
|---|---|---|
| `cache_threads` | 2 threads, 2 documents of which 1 fits, 2 stripes; 110 908 states | `AckedReadable`, `AckedDurable`, `StripeProtects`, `EvictionEnds`: evictions by one thread against calls of the other, every command failing or losing its reply |
| `cache_regions` | 1 thread, 1 document, 2 regions of which 1 fits; 11 360 states | the first two; `DirtyWritable`; `RemoteKept`: write-back when a region is displaced, and what a lost reply leaves behind |
| `cache_calls` | like the first, with the calls that lose data by design; 49 152 states | `TypeOK`, `CacheBounds` |
| `lifecycle_takeover` | 2 servers, 2 edits, 5 generations; crash, redis, es; 21 866 states | `TypeOK`, `NoLostWrite`, `SingleOwner`, `CacheExists`, `NoResurrection`, `DeleteOnlySaved` |
| `lifecycle_freeze` | 1 server, 1 edit, 3 generations; crash, stop, redis, sql, es; 8 274 states | `FreezeEnds` |
| `lifecycle_shutdown_loses` | violation of `NoLostWrite` | a shutdown hands the canvas over while it still serves |
| `broker_two_servers` | 2 clients, 5 batches, 2 items, 2 servers; 476 835 states up to symmetry | `TypeOK`, `OncePerCount`, `ReplyTrue`, `Atomic`, `CountNeverBack` |
| `broker_failover` | 1 client, 3 batches, 2 servers, a replica; 1 057 200 states up to symmetry | `OncePerCount`, `RevisionsContiguous` |
| `settings_faults` | 2 servers, 2 fields, 4 changes; crash, redis, es; 714 504 states up to symmetry | `TypeOK`, `AckedKept`, `AckedInEs`, `ServedCurrent` |
| `redis_client` | 2 calls, 2 nodes, 2 Sentinels, 3 rounds, 3 faults; 91 282 states | `CallsExact`, `CallReturns`, `FailoverRecovers` |
| `broker_server` | 2 requests on 2 connections, 2 workers and another thread, 2 sessions, a queue of 1; 264 852 states | `BytesCounted`, `SessionsSound`, `NoLostWakeup`, `EveryRequestAnswered`, `StopEnds` |
| `chat_room` | 2 servers, 4 posts of 3 requests, 1 script under way, pages of 1 and 2; 1 693 854 states up to symmetry | `PostedOnce`, `MentionsAgree`, `HistoryWhole`, `PagesAgree` |

Why the bounds are enough.  The cache needs two documents for an eviction and a
second thread to be interrupted by it; two values and one that is too big meet
every branch of `write`.  A hand-over involves two servers, and the number of
generations (`MaxGen`) covers two full hand-overs and a load that failed in
between.  The batches contain a create, a patch and a delete, two with one count,
and two clients on one item; `RevisionLimit` is reached, so the limit is met too.
Four changes of the settings are one that is acknowledged, one that is rolled back,
one by Spring and one more after it, on two fields and in any order.
Three faults are a failover, a time-out and one more failure in one call, and a call
that is used again after another meets late replies.  Two requests, of one and of two
fragments, fill the queue, the replies and a socket's buffer; three threads on two
sessions make one wait, and two idle sessions let one die under another.  No reply of
that run is above `MaxReply`: that limit is covered by the proof only.  Three
messages of which one is posted while a reader has the page before the last, or
between two pages; the fourth post has the request id of another with another text.
The theorems remove the bounds where they exist.

Fairness.  `EvictionEnds` assumes that a thread in the eviction scan goes on: it
holds `mutex_` and uses `try_lock` only.  `FreezeEnds` assumes that an unload or a
shutdown that has begun goes on: it waits for nobody, and every request to a store
has a time-out, after which the model's failed outcome is taken.  `CallReturns` and
`FailoverRecovers` assume that the client's thread goes on and that a node that runs
processes what it receives (sockets have time-outs of 0.7 to 2 seconds); the second is
about behaviours in which failovers end, and about a client that goes on calling, which
the heartbeat and the users' queries do.  `EveryRequestAnswered` and `StopEnds` assume
that the event loop, the workers and the other thread go on and that Brokers read: a
statement of SQL has time-outs (`dbsetlogintime`, `dbsettime`), but the wait for a session
has none.  Weak fairness is enough because the other thread makes one statement only:
`cv_` promises no order, so threads that never stop could overtake a waiting worker for
ever.  Nothing is assumed of servers that are down, of users, or of restarts.

Deadlock is checked in every run but `broker_server`, whose instance ends: numbers of
requests and connections are not used again, and a stopped server stays stopped.

## Proofs

`MemoryCacheProofs` (any documents, regions, threads, stripes and capacities):

* `TypeCorrect`: `Spec => []TypeOK`.
* `AcknowledgedSafe` and `AcknowledgedDurable`: unless callers erase paths above the
  region depth, no acknowledged value is lost (`AckedReadable` and `AckedDurable`).  The
  inductive invariant adds `LockInv` (a thread that works holds its document's stripe),
  `WorkInv` (between lookup and update, the RegionLru and the entry it found are
  still there) and `CacheInv` (dirty regions are cached, cached regions belong to
  a cached document).  `WorkInv` is where the stripes are needed: without
  `try_lock` an eviction would break it.  Together they give `Kept`: the dirty value of
  a region, or else that of Redis, is the acknowledged one.  `AcknowledgedDurable` also
  says when `read(key)` answers at all, which takes `PlaceInv` below.
* `DirtyStaysWritable`, with no condition on the callers: `DirtyWritable`, a dirty region
  has its parent in Redis (and its remote part, if it has one), unless it is in doubt.
  `PlaceInv` says it of all cached regions but those in `doubt`, since any of them may be
  written next, with what Redis keeps by itself: a value has its parent, and a parent its
  document.
* `MessagesKept`: unless callers replace a region without its remote part, `RemoteKept`.
  It is inductive by itself: every command either leaves the remote parts as
  `writeBack` merged them, or says which regions it changes.
* `StripesProtect`: the action property `StripeProtects`.  Each call changes the cache of
  its own document only (`OnlyDoc`), `LockInv` says that its thread owns the stripe, and
  the one step that changes another document's cache, the eviction, has that stripe free.

`MemoryCacheBoundsProofs` (any capacities): `CacheBounded`, that is `CacheBounds`.
`LruInv` is what moving to the front and erasing do to a list without repetitions
(`WithoutFacts`: the positions that are kept are ranked, and the ranking is onto because
it is one-to-one); `ScanningInv` says that the list changes while nobody scans it, or by
the scan itself, and that the document a scan makes room for is not cached meanwhile;
`RoomInv` counts.

`CanvasLifecycleProofs` (any servers, edits and generations): `TypeCorrect` with every
fault.  The others hold with crashes at any step and with failed or lost requests to Redis and
Elasticsearch, the faults of the run `lifecycle_takeover`, and each with one more where the
code withstands it:

| theorem | property | more faults |
|---|---|---|
| `OneOwner`, `DeletedForGood`, `DeletesSaved` | `SingleOwner`, `NoResurrection`, `DeleteOnlySaved` | "abandon": loads may end half way (`SqlAnswers`) |
| `CacheReadable` | `CacheExists` | "sql": requests to SQL may fail or lose replies (`LoadsFinish`) |
| `WritesKept` | `NoLostWrite` | none (`CrashesOnly`) |

These assumptions are as weak as the faults allow: with any other fault added, TLC finds
the property violated (Findings has the causes).

The invariant has layers.  `RunInv`: steps and pools agree (`ServerInv`), generations are not
handed out twice (`GenInv`); this needs running servers only.  `HoldInv`: the server that
loads, serves or saves is the one the row names (`OwnerInv`).  `KeepInv`: what a fresh load or
an unload has read is still so (`ReadInv`), and what may be deleted from Redis is saved
(`SavedInv`).  A server that has un-cached the canvas and has the old document left to delete
no longer owns anything; what keeps it from deleting a successor's document is that the
generation of a canvas that is served is not the one it saved.  `OpenInv`: a document that is
trusted, which the Redis document is when the row calls the canvas cached and no first load is
under way, is there and about to be deleted by nobody (`CacheInv`); a server that loads is the
row's (`LoaderInv`), which is all that is left of `OwnerInv` when SQL loses replies.  `LifeInv`
joins the two, and the store that is trusted has every acknowledged edit (`TrustInv`).

`BrokerBatchProofs` (any clients, items, batches and servers):

* `BatchTypes`: types, and revisions below their limit.
* `BatchesOnce` and `RevisionsNumber`, with fail-over: `OncePerCount` and
  `RevisionsContiguous`.  The invariants say the same of what the replica has,
  and that no batch that took effect has a count above its client's receipt.
* `RepliesTrue` and `BatchesAtomic`, without fail-over: `ReplyTrue`, and that
  `BrokerBatch` implements `EditLog`.  Their invariant: item revisions are not
  above the current one (`RevisionInv`); an item that still has the revision a
  server read still has the value it read (`BaseInv`), which is why the script's
  comparison of revisions is enough; what a server is about to send is a whole
  prepared batch, or is empty and already accepted (`PlanInv`), which needs that
  cached receipts are not ahead of Redis (`CacheInv`) and is what a fail-over
  breaks; a receipt stands for a batch that took effect (`ReceiptInv`).
* `CountsMonotone`, without fail-over: `CountNeverBack`, from the invariant that a
  server's view of a receipt is between what it told and what Redis has.

`CanvasSettingsProofs` (any servers, fields and number of changes):

* `SettingsTypes`: types, from the invariant that no revision is above the number of
  changes asked for (`CountInv`).
* `ChangesKept`, `ChangesInEs`, `QueriesCurrent`: `AckedKept`, `AckedInEs` and
  `ServedCurrent`, assuming `"slow" \notin Faults` (a canvas is only taken from a server
  that does not run).  The invariant: only the server that the row names has the canvas,
  work or sessions (`HolderInv`); both stores have what was acknowledged (`StoresInv`);
  the change in work is the newest, what it would bring back is not older than what was
  acknowledged, and no session is ahead of the revision it started from (`WorkInv`);
  a session at the pool's revision was let in under the acknowledged settings
  (`SessionInv`).  `HolderInv` is where the assumption is used, `WorkInv` is why the
  roll-backs are safe although the ones in Elasticsearch have no condition.

`ChatRoomProofs` (any users, posts, request ids and servers): `PostsOnce`, `MentionsSound`
and `HistoryComplete` (`PostedOnce`, `MentionsAgree`, `HistoryWhole`).  `RoomInv` ties the
receipts to the messages in both directions, which is why a script that is executed late
finds its own post; `WalkInv` says that a reader has an unbroken excerpt that ends at the
message that was the last when it began, and asks for what is before it, so posts and
mentions that are read in between do not move it.  `PagesSame`: the two ways to find a page
give the same messages, for every first and last number and every limit, in every reachable
state; `PagesSameAtRest` is `PagesAgree`, the pages that the run compares.  Since the numbers
of a room have no gap (`RoomInv`), the rank of a message among those that are wanted is its
distance from the first of them (`PlaceIsDistance`), so ranking them cuts out a part of the
room, and a part of a part is a part.

`BrokerServerProofs` (any finite set of threads; any capacity, limits, requests and
connections): `SessionsCounted` and `WakeupsKept` (`SessionsSound`, `NoLostWakeup`), of the
pool within the whole server.  `PlaceInv` says which step of a thread has a session, and
`CountInv` that the counter is the number of sessions in the pool and of threads that have or
open one; `NoLostWakeup` is inductive with them.  Of the socket: `BytesExact`
(`BytesCounted`), that `queued_bytes_` and `reply_bytes_` are the sizes of what is in the
queues, within their limits but for `BROKER_BUSY` answers; and `NothingDropped`, that no
socket has more than `MaxBuffered` fragments buffered (a short one is a fragment here, so in
bytes it is less than one more), far below the 16 MiB at which uWebSockets drops, and that a
closed connection has nothing left to send.  The invariant is `SocketInv`; the lemmas under it say
how the number of fragments changes when an entry is appended (`AppendedSize`), its head is
sent or taken off, or whole connections are closed (`AcrossNone`).  The connections need not
be finitely many: the fragments are.

`RedisClientProofs` (any calls and nodes): `CallsImplemented`, that every step of the client,
of Sentinel and of the nodes is a step of `RedisCalls` or leaves its variables alone.  `LinkInv`
says that nothing is under way on the connection but the command that is read for, or its
reply, and that the reply to a command that was executed is a value; `CallInv` that what is
left on closed connections is of other calls.  This is why the client closes the connection
after a time-out.

Only model-checked: the liveness properties (`EvictionEnds`, `FreezeEnds`, `CallReturns`,
`FailoverRecovers`, `EveryRequestAnswered`, `StopEnds`), which are beyond the prover.  Every
safety property of a passing run is a theorem.

## Findings

The violation run `lifecycle_shutdown_loses` shows where code and comment disagree;
`PROJECT.json` quotes the lines.  `stop_servers` deactivates the server before it stops
serving: the server that takes over reads the Redis document and stores it back whole,
and an edit acknowledged in between is lost.

Met on the way, without a run of their own:

* A crash between the SQL allocation and the Redis document
  (`CanvasLifecycleMemory.cpp:77`) leaves a canvas that is marked cached, that no server
  can load, and that nothing repairs: `CacheExists` and `NoLostWrite` fail when "abandon" is
  among the `Faults` of `lifecycle_takeover`; the other three are proved to hold.
* A batch that a server takes for a replay is sent empty (`CanvasQueryService.cpp:152`);
  when Redis has fallen back meanwhile, it is accepted under a new revision without its
  items: `ReplyTrue` fails in `broker_failover`.
* A roll-back of a settings change gives its revision number back
  (`CanvasSettingsService.cpp:219`); a token that Spring issued for it in the meantime is
  accepted after the next change, although `src/README.md:232` says that tokens are bound
  to the revision: `TokensExpire` fails in `settings_faults`.
* A client of a replica that only reads never learns that its node was demoted: only
  `READONLY` closes the connection (`RedisClient.cpp:397`).
* An empty page of a room is encoded as `"messages": {}` (an empty Lua table), that of
  a room that does not exist as `"messages": []`.
* A query is served from the pool without a look at the assignment
  (`CanvasQueryService.cpp:115`), so a server with a late heartbeat serves beside its
  successor: `SingleOwner` fails when "slow" is among the `Faults` of
  `lifecycle_takeover`, and `AckedKept` when it is among those of `settings_faults`, since
  a late patch or compensation of Elasticsearch has no condition.
* `erase` of a path above the region depth drops dirty regions of the document
  (`MemoryClass.cpp:597`; today only `clearItems` erases such a path): `AckedReadable`
  fails when `cache_regions` allows it, and `AcknowledgedSafe` assumes it away.
* An `erase` that is executed but whose reply is lost returns before it drops the cached
  entries (`MemoryClass.cpp:595`; `executeAtomic` drops them also without an answer,
  `:605`).  If the region is then written again, the write is acknowledged from the cache
  although Redis may have no document, parent or remote part for it: it can never
  be written back, `read(key)` returns nothing, and every flush, script and hand-over
  of the document fails until the region is erased.  `doubt` marks these regions, and
  `AckedDurable` and `DirtyWritable` leave them out.  No caller of today gets there: chat
  rooms are not deleted, nothing calls `clearItems`, and `clearCanvas` runs only before
  the canvas is in the pool.
* When the reply of a settings compare-and-set is lost, or the roll-back in Redis
  fails, Redis stays one revision ahead of the pool: whoever connects afterwards is
  let in and then refused every query with `SETTINGS_CHANGED`, until the canvas is
  unloaded, which the refused queries put off (`touchQuery` comes before the check).
* A lost reply of the un-cache statement, followed by a failure of the statement that
  would verify it, makes a server serve a canvas that the row calls uncached (a run of
  `CanvasLifecycle` with "sql" among the faults violates `NoLostWrite`, and so `SingleOwner`,
  `NoResurrection` and `DeleteOnlySaved`; `CacheExists` is proved to hold).
* Replacing a region that is not cached, without its remote field, deletes the field.
* A canvas queried in the last 90 seconds stays cached and assigned to a server that
  has shut down; Spring reassigns it on the next access.

## Plan

Done: `MemoryCache`, `CanvasLifecycle`, `BrokerBatch` with `EditLog`, `CanvasSettings`,
`RedisClient` with `RedisCalls`, `BrokerServer` with `BrokerSocket` and `SqlPool`, `ChatRoom`;
proofs of every safety property that the runs check, the lifecycle's with as few assumptions
on the faults as the code allows.  Next: `CrudBatch`, the CRUD and host events beside the
batches, with `join` and `canvas_sync`, composed with `BrokerBatch`.

## Not modelled

* The older CRUD and host events: sequences of `MemoryClass` calls under the settings
  lock of one server.  Their interplay with batches of another server is a hazard
  without a property.
* The persistence queue of `Canvas.cpp`: only tests put events into it.
* The bulk log buffers: records may be dropped by design, and no canvas depends on them.
* Permission and item rules: predicates without state.
* Runtime clean-up, sessions and the search projection: parts of the Spring and Python
  services with state of their own, apart from the canvases' path.  The load balancer's
  choice among servers (`CanvasLifecycle` allows any).
* HTTP, TLS and WebSocket framing; JSON formats and validation; cryptography and
  password formats; file resources, PDF and previews; embeddings; web pages, set-up
  scripts and benchmarks: input and output, or computation on strings, without a
  protocol between actors.
