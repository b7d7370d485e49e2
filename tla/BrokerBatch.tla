---------------------------- MODULE BrokerBatch ----------------------------
(***************************************************************************)
(* How a C++ server runs a batch of edits (canvas_ops): it looks at the    *)
(* client's receipt, reads the items, prepares the new values, and lets a  *)
(* script in Redis check receipt and item revisions again and write them   *)
(* (CanvasQueryService::query, agora::broker::prepare,                     *)
(* CanvasServiceMemory::applyBrokerBatch).                                 *)
(*                                                                         *)
(* A server works on one batch of a canvas at a time (settings_mutex); two *)
(* servers may both serve it for a while (module CanvasLifecycle).  A      *)
(* batch may arrive at any server, any number of times and in any order:   *)
(* nothing is assumed of the clients.  The digest and the request id of a  *)
(* batch stand for its identity.  What the operations of a batch do to an  *)
(* item, taken together, is one of create, patch (translate is one) and    *)
(* delete; the format of an item, its permissions, the end points of a     *)
(* connector and the tombstones of host sessions are left out: a batch     *)
(* that they make invalid fails like any other (ReadFails).                *)
(***************************************************************************)
EXTENDS Integers, FiniteSets

CONSTANTS
    Clients,        \* client sessions (user_id:client_id)
    Items,          \* item ids
    Requests,       \* the batches that clients may send
    ClientOf,       \* the client of a batch
    CountOf,        \* its request_count
    Ops,            \* Ops[r][i]: what the batch r does to the item i
    Existing,       \* the items the canvas has at first
    Servers,        \* servers that serve the canvas
    NoRequest,      \* no batch
    ClientLimit,    \* receipts a canvas keeps (4096)
    RevisionLimit,  \* revisions end below it (2^53 - 1)
    Failover        \* whether Redis may fall back to an older replica

OpKinds == {"none", "create", "patch", "delete"}

ASSUME RequestsAssumption ==
    /\ ClientOf \in [Requests -> Clients]
    /\ CountOf \in [Requests -> Nat \ {0}]
    /\ Ops \in [Requests -> [Items -> OpKinds]]
    /\ Existing \subseteq Items
    /\ NoRequest \notin Requests

ASSUME LimitsAssumption ==
    /\ ClientLimit \in Nat
    /\ RevisionLimit \in Nat \ {0}
    /\ Failover \in BOOLEAN

VARIABLES
    revision,   \* __broker_sync.revision
    receipt,    \* receipt[c]: __broker_sync.clients[c]
    item,       \* item[i]: its value, and __broker_revision (-1: no such item)
    applied,    \* the batches that took effect, with their revisions
    replies,    \* the answers "ok" that servers gave
    told,       \* told[s][c]: the accepted_count server s last told client c
    at,         \* at[s]: what server s does with its batch next
    job,        \* job[s]: that batch
    base,       \* base[s]: the items as server s has read them
    plan,       \* plan[s]: the items whose new values server s will send
    cached,     \* cached[s]: the receipts in the write-back cache of s
    replica     \* what a Redis replica has

redisVars == <<revision, receipt, item, applied>>
jobVars == <<at, job, base, plan>>
clientVars == <<replies, told>>
vars == <<redisVars, jobVars, clientVars, cached, replica>>

NoReceipt == [count |-> 0, revision |-> 0, request |-> NoRequest]
NoItem == [rev |-> -1, val |-> {}]
NotCached == [has |-> FALSE, receipt |-> [c \in Clients |-> NoReceipt]]

\* The items that the batch r reads and writes.
Touched(r) == {i \in Items : Ops[r][i] # "none"}

Init ==
    /\ revision = 0
    /\ receipt = [c \in Clients |-> NoReceipt]
    /\ item = [i \in Items |-> [rev |-> IF i \in Existing THEN 0 ELSE -1, val |-> {}]]
    /\ applied = {}
    /\ replies = {}
    /\ told = [s \in Servers |-> [c \in Clients |-> 0]]
    /\ at = [s \in Servers |-> "idle"]
    /\ job = [s \in Servers |-> NoRequest]
    /\ base = [s \in Servers |-> [i \in Items |-> NoItem]]
    /\ plan = [s \in Servers |-> {}]
    /\ cached = [s \in Servers |-> NotCached]
    /\ replica = [revision |-> 0, receipt |-> receipt, item |-> item, applied |-> {}]

-----------------------------------------------------------------------------
(* The receipts as a server sees them, through its write-back cache.       *)

View(s) == IF cached[s].has THEN cached[s].receipt ELSE receipt

\* A read may bring the receipts into the cache, and an eviction drops them.
CacheReceipts(s) ==
    /\ ~cached[s].has
    /\ cached' = [cached EXCEPT ![s] = [has |-> TRUE, receipt |-> receipt]]
    /\ UNCHANGED <<redisVars, jobVars, clientVars, replica>>

EvictReceipts(s) ==
    /\ cached[s].has
    /\ cached' = [cached EXCEPT ![s] = NotCached]
    /\ UNCHANGED <<redisVars, jobVars, clientVars, replica>>

\* Mutant: the receipts stay in the cache.
InvalidateItemsOnly(s) == UNCHANGED cached

\* executeAtomic drops the changed paths from the cache, whatever the reply.
Invalidate(s) == cached' = [cached EXCEPT ![s] = NotCached]

-----------------------------------------------------------------------------
(* The server.                                                             *)

\* The answers to a connection and to canvas_sync say how many of the client's
\* batches were accepted.
Sync(s, c) ==
    /\ at[s] = "idle"
    /\ told' = [told EXCEPT ![s][c] = View(s)[c].count]
    /\ UNCHANGED <<redisVars, jobVars, replies, cached, replica>>

\* The batch of the last receipt is a replay: nothing is prepared.  Another
\* batch with that count, and any count but the next one, are refused.
IsReplay(s, r) == View(s)[ClientOf[r]].count = CountOf[r] /\ View(s)[ClientOf[r]].request = r
IsNext(s, r) == CountOf[r] = View(s)[ClientOf[r]].count + 1

Receive(s, r) ==
    /\ at[s] = "idle"
    /\ \/ IsReplay(s, r) /\ at' = [at EXCEPT ![s] = "apply"]
       \/ IsNext(s, r) /\ at' = [at EXCEPT ![s] = "read"]
    /\ job' = [job EXCEPT ![s] = r]
    /\ UNCHANGED <<redisVars, base, plan, clientVars, cached, replica>>

Idle(s) ==
    /\ at' = [at EXCEPT ![s] = "idle"]
    /\ job' = [job EXCEPT ![s] = NoRequest]
    /\ base' = [base EXCEPT ![s] = [i \in Items |-> NoItem]]
    /\ plan' = [plan EXCEPT ![s] = {}]

\* What prepare asks of the items that the batch r touches.
Prepared(r, it) ==
    \A i \in Items : /\ Ops[r][i] = "create" => it[i].rev = -1
                     /\ Ops[r][i] = "patch" => it[i].rev # -1

\* readBrokerItems reads all the items with one command.
ReadItems(s) ==
    /\ at[s] = "read"
    /\ Prepared(job[s], item)
    /\ base' = [base EXCEPT ![s] = item]
    /\ plan' = [plan EXCEPT ![s] = Touched(job[s])]
    /\ at' = [at EXCEPT ![s] = "apply"]
    /\ UNCHANGED <<redisVars, job, clientVars, cached, replica>>

\* The batch does not suit the items, or Redis does not answer.
ReadFails(s) ==
    /\ at[s] = "read"
    /\ Idle(s)
    /\ UNCHANGED <<redisVars, clientVars, cached, replica>>

\* The value that server s sends for the item i.
NewItem(s, i, rev) ==
    IF Ops[job[s]][i] = "delete" THEN NoItem
    ELSE [rev |-> rev, val |-> base[s][i].val \cup {job[s]}]

\* The reply may be lost on its way to the server or to the client.
Reply(s, r, rev) ==
    \/ /\ replies' = replies \cup {[request |-> r, revision |-> rev]}
       /\ told' = [told EXCEPT ![s][ClientOf[r]] = CountOf[r]]
    \/ UNCHANGED clientVars

\* Mutant: a retry is recognised by its count alone.
ApplyDuplicateByCount(s) ==
    LET last == receipt[ClientOf[job[s]]]
    IN  /\ at[s] = "apply"
        /\ last.count = CountOf[job[s]]
        /\ Reply(s, job[s], last.revision)
        /\ Idle(s) /\ Invalidate(s)
        /\ UNCHANGED <<redisVars, replica>>

\* The script finds the receipt of this very batch.
ApplyDuplicate(s) ==
    LET last == receipt[ClientOf[job[s]]]
    IN  /\ at[s] = "apply"
        /\ last.count = CountOf[job[s]] /\ last.request = job[s]
        /\ Reply(s, job[s], last.revision)
        /\ Idle(s) /\ Invalidate(s)
        /\ UNCHANGED <<redisVars, replica>>

\* Mutants: the script trusts the checks that the server made before.
InSequenceUnchecked(s) == TRUE
UnchangedUnchecked(s) == TRUE
WithinLimitsOffByOne(s) == revision < RevisionLimit

\* The script's checks of the count, of the items and of the limits.
InSequence(s) == CountOf[job[s]] = receipt[ClientOf[job[s]]].count + 1
Unchanged(s) == \A i \in plan[s] : item[i].rev = base[s][i].rev
WithinLimits(s) ==
    /\ receipt[ClientOf[job[s]]].count = 0 =>
          Cardinality({c \in Clients : receipt[c].count > 0}) < ClientLimit
    /\ revision + 1 < RevisionLimit

\* Mutant: a batch that only deletes items does not advance the revision.
WriteDeletesUncounted(s, rev) ==
    /\ revision' = IF \A i \in plan[s] : Ops[job[s]][i] = "delete" THEN revision ELSE rev
    /\ item' = [i \in Items |-> IF i \in plan[s] THEN NewItem(s, i, rev) ELSE item[i]]
    /\ receipt' = [receipt EXCEPT ![ClientOf[job[s]]] =
                     [count |-> CountOf[job[s]], revision |-> rev, request |-> job[s]]]
    /\ applied' = applied \cup {[request |-> job[s], revision |-> rev, changed |-> plan[s]]}

\* What the script writes, under the revision rev.
Write(s, rev) ==
    /\ revision' = rev
    /\ item' = [i \in Items |-> IF i \in plan[s] THEN NewItem(s, i, rev) ELSE item[i]]
    /\ receipt' = [receipt EXCEPT ![ClientOf[job[s]]] =
                     [count |-> CountOf[job[s]], revision |-> rev, request |-> job[s]]]
    /\ applied' = applied \cup {[request |-> job[s], revision |-> rev, changed |-> plan[s]]}

ApplyCommit(s) ==
    /\ at[s] = "apply"
    /\ InSequence(s) /\ Unchanged(s) /\ WithinLimits(s)
    /\ Write(s, revision + 1)
    /\ Reply(s, job[s], revision + 1)
    /\ Idle(s) /\ Invalidate(s)
    /\ UNCHANGED replica

\* An error of the script, a command that Redis did not execute, or one that was
\* not sent, because the cache could not be flushed before it.
ApplyFails(s) ==
    /\ at[s] = "apply"
    /\ Idle(s)
    /\ Invalidate(s) \/ UNCHANGED cached
    /\ UNCHANGED <<redisVars, clientVars, replica>>

\* The process ends and starts again with an empty cache.
Restart(s) ==
    /\ Idle(s) /\ Invalidate(s)
    /\ UNCHANGED <<redisVars, clientVars, replica>>

-----------------------------------------------------------------------------
(* Redis behind a Sentinel: a replica gets everything some time after the  *)
(* primary has answered, and may become the primary.                       *)

Replicate ==
    /\ Failover
    /\ replica' = [revision |-> revision, receipt |-> receipt, item |-> item, applied |-> applied]
    /\ UNCHANGED <<redisVars, jobVars, clientVars, cached>>

Promote ==
    /\ Failover
    /\ revision' = replica.revision
    /\ receipt' = replica.receipt
    /\ item' = replica.item
    /\ applied' = replica.applied
    /\ UNCHANGED <<jobVars, clientVars, cached, replica>>

-----------------------------------------------------------------------------
ServerStep(s) ==
    \/ CacheReceipts(s) \/ EvictReceipts(s)
    \/ \E c \in Clients : Sync(s, c)
    \/ \E r \in Requests : Receive(s, r)
    \/ ReadItems(s) \/ ReadFails(s)
    \/ ApplyDuplicate(s) \/ ApplyCommit(s) \/ ApplyFails(s)
    \/ Restart(s)

Next ==
    \/ \E s \in Servers : ServerStep(s)
    \/ Replicate
    \/ Promote

Spec == Init /\ [][Next]_vars

-----------------------------------------------------------------------------
(* Properties.                                                             *)

ReceiptType == [count : Nat, revision : 0..RevisionLimit - 1, request : Requests \cup {NoRequest}]
ItemType == [rev : -1..RevisionLimit - 1, val : SUBSET Requests]
AppliedType == [request : Requests, revision : 0..RevisionLimit - 1, changed : SUBSET Items]

\* Revisions stay below the largest number that clients represent exactly, and
\* every variable has its type.
TypeOK ==
    /\ revision \in 0..RevisionLimit - 1
    /\ receipt \in [Clients -> ReceiptType]
    /\ item \in [Items -> ItemType]
    /\ applied \subseteq AppliedType
    /\ replies \subseteq [request : Requests, revision : 0..RevisionLimit - 1]
    /\ told \in [Servers -> [Clients -> Nat]]
    /\ at \in [Servers -> {"idle", "read", "apply"}]
    /\ job \in [Servers -> Requests \cup {NoRequest}]
    /\ base \in [Servers -> [Items -> ItemType]]
    /\ plan \in [Servers -> SUBSET Items]
    /\ cached \in [Servers -> [has : BOOLEAN, receipt : [Clients -> ReceiptType]]]
    /\ replica \in [revision : 0..RevisionLimit - 1, receipt : [Clients -> ReceiptType],
                    item : [Items -> ItemType], applied : SUBSET AppliedType]

\* A client's count is used up by one batch: a retry, a late duplicate or a
\* second batch under the same count never takes effect beside it, whichever
\* servers they reach (the receipt of applyBrokerBatch).
OncePerCount ==
    \A a, b \in applied :
        /\ ClientOf[a.request] = ClientOf[b.request]
        /\ CountOf[a.request] = CountOf[b.request]
        => a = b

\* The revisions that clients use to find out what they have missed number the
\* accepted batches without a gap and without a repetition.
RevisionsContiguous ==
    /\ {a.revision : a \in applied} = 1..revision
    /\ \A a, b \in applied : a.revision = b.revision => a = b

\* When a client is told that a batch was accepted, that batch is in Redis with
\* the revision of the answer, and all its items were written.
ReplyTrue ==
    [][\A x \in replies' \ replies :
          \E a \in applied' : /\ a.request = x.request
                              /\ a.revision = x.revision
                              /\ a.changed = Touched(x.request)]_vars

\* The accepted_count that one server tells a client never goes back, whatever
\* batches it and others accept and whatever it has cached before and after them:
\* a server's cached receipts are not older than one it has answered with.
CountNeverBack ==
    [][\A s \in Servers, c \in Clients : told'[s][c] >= told[s][c]]_vars

\* Batches take effect in the order of each client's counts, once, as a whole and
\* on the current items, although a server prepares them from items it read
\* before (module EditLog).
EL == INSTANCE EditLog WITH
        db <- [i \in Items |-> [there |-> item[i].rev # -1, val |-> item[i].val]],
        accepted <- [c \in Clients |-> receipt[c].count]

Atomic == EL!Spec
=============================================================================
