------------------------- MODULE BrokerBatchProofs -------------------------
(***************************************************************************)
(* Proofs about BrokerBatch, for any sets of clients, items, batches and   *)
(* servers: types, that batches take effect once and that revisions number *)
(* them; and, as long as Redis does not fall back to an older replica,     *)
(* that batches are atomic and in order and that answers are true.         *)
(***************************************************************************)
EXTENDS BrokerBatch, TLAPS

-----------------------------------------------------------------------------
(* Types.                                                                  *)

\* A server that is not idle has a batch.
JobInv == \A s \in Servers : at[s] # "idle" => job[s] \in Requests

TypeInv == TypeOK /\ JobInv

\* The initial state has the right types.
LEMMA InitType == Init => TypeInv
<1> SUFFICES ASSUME Init PROVE TypeInv
  OBVIOUS
<1> USE RequestsAssumption, LimitsAssumption
<1>1. NoReceipt \in ReceiptType
  BY DEF NoReceipt, ReceiptType
<1>2. NoItem \in ItemType
  BY DEF NoItem, ItemType
<1>3. /\ receipt \in [Clients -> ReceiptType]
      /\ NotCached \in [has : BOOLEAN, receipt : [Clients -> ReceiptType]]
  BY <1>1 DEF Init, NotCached
<1>4. item \in [Items -> ItemType]
  BY DEF Init, ItemType
<1>5. /\ revision \in 0..RevisionLimit - 1
      /\ applied \subseteq AppliedType
      /\ replies \subseteq [request : Requests, revision : 0..RevisionLimit - 1]
      /\ told \in [Servers -> [Clients -> Nat]]
      /\ at \in [Servers -> {"idle", "read", "apply"}]
      /\ job \in [Servers -> Requests \cup {NoRequest}]
      /\ plan \in [Servers -> SUBSET Items]
      /\ base \in [Servers -> [Items -> ItemType]]
      /\ cached \in [Servers -> [has : BOOLEAN, receipt : [Clients -> ReceiptType]]]
  BY <1>2, <1>3 DEF Init
<1>6. replica \in [revision : 0..RevisionLimit - 1, receipt : [Clients -> ReceiptType],
                   item : [Items -> ItemType], applied : SUBSET AppliedType]
  BY <1>3, <1>4, <1>5 DEF Init
<1>7. JobInv
  BY DEF Init, JobInv
<1> QED
  BY <1>3, <1>4, <1>5, <1>6, <1>7 DEF TypeInv, TypeOK

\* A server that lays its batch down keeps the types of its variables.
LEMMA IdleType ==
  ASSUME TypeInv, NEW s \in Servers, Idle(s)
  PROVE  /\ at' \in [Servers -> {"idle", "read", "apply"}]
         /\ job' \in [Servers -> Requests \cup {NoRequest}]
         /\ base' \in [Servers -> [Items -> ItemType]]
         /\ plan' \in [Servers -> SUBSET Items]
         /\ JobInv'
<1>1. NoItem \in ItemType
  BY RequestsAssumption, LimitsAssumption DEF NoItem, ItemType
<1> QED
  BY <1>1 DEF TypeInv, TypeOK, JobInv, Idle

\* Dropping the receipts from the cache keeps its type.
LEMMA InvalidateType ==
  ASSUME TypeInv, NEW s \in Servers, Invalidate(s)
  PROVE  cached' \in [Servers -> [has : BOOLEAN, receipt : [Clients -> ReceiptType]]]
<1>1. NotCached \in [has : BOOLEAN, receipt : [Clients -> ReceiptType]]
  BY RequestsAssumption, LimitsAssumption DEF NotCached, NoReceipt, ReceiptType
<1> QED
  BY <1>1 DEF TypeInv, TypeOK, Invalidate

\* So does an answer to a client.
LEMMA ReplyType ==
  ASSUME TypeInv, NEW s \in Servers, NEW r \in Requests,
         NEW rev \in 0..RevisionLimit - 1, Reply(s, r, rev)
  PROVE  /\ replies' \subseteq [request : Requests, revision : 0..RevisionLimit - 1]
         /\ told' \in [Servers -> [Clients -> Nat]]
<1>1. CASE UNCHANGED clientVars
  BY <1>1 DEF TypeInv, TypeOK, clientVars
<1>2. CASE /\ replies' = replies \cup {[request |-> r, revision |-> rev]}
           /\ told' = [told EXCEPT ![s][ClientOf[r]] = CountOf[r]]
  <2>1. [request |-> r, revision |-> rev] \in [request : Requests, revision : 0..RevisionLimit - 1]
    OBVIOUS
  <2>2. ClientOf[r] \in Clients /\ CountOf[r] \in Nat
    BY RequestsAssumption
  <2> QED
    BY <1>2, <2>1, <2>2 DEF TypeInv, TypeOK
<1> QED
  BY <1>1, <1>2 DEF Reply

\* Every step keeps the types.
LEMMA StepType == TypeInv /\ [Next]_vars => TypeInv'
<1> SUFFICES ASSUME TypeInv, [Next]_vars PROVE TypeInv'
  OBVIOUS
<1> USE RequestsAssumption, LimitsAssumption DEF TypeInv
<1>1. ASSUME NEW s \in Servers, CacheReceipts(s) PROVE TypeInv'
  <2>1. [has |-> TRUE, receipt |-> receipt] \in [has : BOOLEAN, receipt : [Clients -> ReceiptType]]
    BY DEF TypeOK
  <2> QED
    BY <1>1, <2>1 DEF TypeOK, JobInv, CacheReceipts, redisVars, jobVars, clientVars
<1>2. ASSUME NEW s \in Servers, EvictReceipts(s) PROVE TypeInv'
  <2>1. cached' \in [Servers -> [has : BOOLEAN, receipt : [Clients -> ReceiptType]]]
    BY <1>2, InvalidateType DEF EvictReceipts, Invalidate
  <2> QED
    BY <1>2, <2>1 DEF TypeOK, JobInv, EvictReceipts, redisVars, jobVars, clientVars
<1>3. ASSUME NEW s \in Servers, NEW c \in Clients, Sync(s, c) PROVE TypeInv'
  <2>1. View(s)[c].count \in Nat
    BY DEF TypeOK, View, ReceiptType
  <2> QED
    BY <1>3, <2>1 DEF TypeOK, JobInv, Sync, redisVars, jobVars
<1>4. ASSUME NEW s \in Servers, NEW r \in Requests, Receive(s, r) PROVE TypeInv'
  BY <1>4 DEF TypeOK, JobInv, Receive, redisVars, clientVars
<1>5. ASSUME NEW s \in Servers, ReadItems(s) PROVE TypeInv'
  BY <1>5 DEF TypeOK, JobInv, ReadItems, redisVars, clientVars, Touched
<1>6. ASSUME NEW s \in Servers, ReadFails(s) PROVE TypeInv'
  BY <1>6, IdleType DEF TypeOK, ReadFails, redisVars, clientVars
<1>7. ASSUME NEW s \in Servers, ApplyFails(s) \/ Restart(s) PROVE TypeInv'
  <2>1. cached' \in [Servers -> [has : BOOLEAN, receipt : [Clients -> ReceiptType]]]
    BY <1>7, InvalidateType DEF TypeOK, ApplyFails, Restart
  <2> QED
    BY <1>7, <2>1, IdleType DEF TypeOK, ApplyFails, Restart, redisVars, clientVars
<1>8. ASSUME NEW s \in Servers, ApplyDuplicate(s) PROVE TypeInv'
  <2>1. job[s] \in Requests
    BY <1>8 DEF ApplyDuplicate, JobInv
  <2>2. receipt[ClientOf[job[s]]].revision \in 0..RevisionLimit - 1
    BY <2>1 DEF TypeOK, ReceiptType
  <2>3. /\ replies' \subseteq [request : Requests, revision : 0..RevisionLimit - 1]
        /\ told' \in [Servers -> [Clients -> Nat]]
    BY <1>8, <2>1, <2>2, ReplyType DEF ApplyDuplicate
  <2> QED
    BY <1>8, <2>3, IdleType, InvalidateType DEF TypeOK, ApplyDuplicate, redisVars
<1>9. ASSUME NEW s \in Servers, ApplyCommit(s) PROVE TypeInv'
  <2>1. job[s] \in Requests
    BY <1>9 DEF ApplyCommit, JobInv
  <2>2. revision + 1 \in 0..RevisionLimit - 1
    BY <1>9 DEF TypeOK, ApplyCommit, WithinLimits
  <2>3. /\ replies' \subseteq [request : Requests, revision : 0..RevisionLimit - 1]
        /\ told' \in [Servers -> [Clients -> Nat]]
    BY <1>9, <2>1, <2>2, ReplyType DEF ApplyCommit
  <2>4. \A i \in Items : NewItem(s, i, revision + 1) \in ItemType
    <3> SUFFICES ASSUME NEW i \in Items PROVE NewItem(s, i, revision + 1) \in ItemType
      OBVIOUS
    <3>1. NoItem \in ItemType
      BY DEF NoItem, ItemType
    <3>2. base[s][i].val \cup {job[s]} \in SUBSET Requests
      BY <2>1 DEF TypeOK, ItemType
    <3>3. [rev |-> revision + 1, val |-> base[s][i].val \cup {job[s]}] \in ItemType
      BY <2>2, <3>2 DEF ItemType
    <3> QED
      BY <3>1, <3>3 DEF NewItem
  <2>5. item' \in [Items -> ItemType]
    BY <1>9, <2>4 DEF TypeOK, ApplyCommit, Write
  <2>6. receipt' \in [Clients -> ReceiptType]
    <3>1. [count |-> CountOf[job[s]], revision |-> revision + 1, request |-> job[s]] \in ReceiptType
      BY <2>1, <2>2 DEF ReceiptType
    <3> QED
      BY <1>9, <3>1 DEF TypeOK, ApplyCommit, Write
  <2>7. applied' \subseteq AppliedType
    BY <1>9, <2>1, <2>2 DEF TypeOK, ApplyCommit, Write, AppliedType
  <2> QED
    BY <1>9, <2>2, <2>3, <2>5, <2>6, <2>7, IdleType, InvalidateType DEF TypeOK, ApplyCommit, Write
<1>10. ASSUME Replicate PROVE TypeInv'
  BY <1>10 DEF TypeOK, JobInv, Replicate, redisVars, jobVars, clientVars
<1>11. ASSUME Promote PROVE TypeInv'
  BY <1>11 DEF TypeOK, JobInv, Promote, jobVars, clientVars
<1>12. ASSUME UNCHANGED vars PROVE TypeInv'
  BY <1>12 DEF TypeOK, JobInv, vars, redisVars, jobVars, clientVars
<1> QED
  BY <1>1, <1>2, <1>3, <1>4, <1>5, <1>6, <1>7, <1>8, <1>9, <1>10, <1>11, <1>12
  DEF Next, ServerStep

\* The types hold whatever the number of clients, batches and servers, and also
\* when Redis falls back to a replica; in particular the revision that
\* applyBrokerBatch assigns stays below its limit.
THEOREM BatchTypes == Spec => []TypeOK
<1>1. Spec => []TypeInv
  BY InitType, StepType, PTL DEF Spec
<1> QED
  BY <1>1, PTL DEF TypeInv

-----------------------------------------------------------------------------
(* Batches, as long as Redis keeps what it has acknowledged.               *)
(*                                                                         *)
(* The properties are not inductive.  A server writes what it has prepared *)
(* from items it read before: that is sound because an item that has the   *)
(* revision it had then also has the value it had then (BaseInv), which    *)
(* holds because revisions only grow (RevisionInv).  A replay carries an   *)
(* empty plan: that is harmless because the receipt it was recognised by   *)
(* is still in Redis (PlanInv), which holds because a cached receipt is    *)
(* never ahead of Redis (CacheInv).                                        *)

RevisionInv ==
    /\ \A i \in Items : /\ item[i].rev <= revision
                        /\ item[i].rev = -1 => item[i].val = {}
    /\ \A s \in Servers, i \in Items : /\ base[s][i].rev <= revision
                                       /\ base[s][i].rev = -1 => base[s][i].val = {}

BaseInv ==
    \A s \in Servers, i \in Items : base[s][i].rev = item[i].rev => base[s][i].val = item[i].val

PlanOK(s) ==
    \/ /\ plan[s] = Touched(job[s])
       /\ Prepared(job[s], base[s])
    \/ /\ plan[s] = {}
       /\ CountOf[job[s]] <= receipt[ClientOf[job[s]]].count

PlanInv ==
    \A s \in Servers : /\ at[s] = "apply" => PlanOK(s)
                       /\ at[s] # "apply" => plan[s] = {}

CacheInv ==
    \A s \in Servers, c \in Clients :
        cached[s].has => cached[s].receipt[c].count <= receipt[c].count

\* A receipt stands for a batch that took effect as a whole.
ReceiptInv ==
    \A c \in Clients : receipt[c].request \in Requests =>
        [request |-> receipt[c].request, revision |-> receipt[c].revision,
         changed |-> Touched(receipt[c].request)] \in applied

Inv == TypeInv /\ RevisionInv /\ BaseInv /\ PlanInv /\ CacheInv /\ ReceiptInv

\* The invariant holds at first.
LEMMA InitInv == Init => Inv
<1> SUFFICES ASSUME Init PROVE Inv
  OBVIOUS
<1>1. TypeInv
  BY InitType
<1>2. RevisionInv /\ BaseInv
  <2>1. \A s \in Servers, i \in Items : base[s][i].rev = -1 /\ base[s][i].val = {}
    BY DEF Init, NoItem
  <2>2. \A i \in Items : item[i].rev <= 0 /\ item[i].val = {}
    BY DEF Init
  <2>3. revision = 0
    BY DEF Init
  <2>4. RevisionInv
    BY <2>1, <2>2, <2>3 DEF RevisionInv
  <2>5. BaseInv
    BY <2>1, <2>2 DEF BaseInv
  <2> QED
    BY <2>4, <2>5
<1>3. PlanInv /\ CacheInv
  BY DEF Init, PlanInv, CacheInv, NotCached
<1>4. ReceiptInv
  BY RequestsAssumption DEF Init, ReceiptInv, NoReceipt
<1> QED
  BY <1>1, <1>2, <1>3, <1>4 DEF Inv

\* A server that lays its batch down without writing.
LEMMA IdleInv ==
  ASSUME Inv, TypeInv', NEW s \in Servers, Idle(s), UNCHANGED redisVars,
         UNCHANGED cached \/ Invalidate(s)
  PROVE  Inv'
<1>1. RevisionInv' /\ BaseInv'
  <2>1. \A u \in Servers \ {s} : base'[u] = base[u]
    BY DEF Inv, TypeInv, TypeOK, Idle
  <2>2. base'[s] = [i \in Items |-> NoItem]
    BY DEF Inv, TypeInv, TypeOK, Idle
  <2>3. \A i \in Items : base'[s][i].rev = -1 /\ base'[s][i].val = {}
    BY <2>2 DEF NoItem
  <2>4. item' = item /\ revision' = revision /\ revision \in Nat
    BY DEF redisVars, Inv, TypeInv, TypeOK
  <2>5. RevisionInv'
    BY <2>1, <2>3, <2>4 DEF Inv, RevisionInv
  <2>6. ASSUME NEW u \in Servers, NEW i \in Items, base'[u][i].rev = item[i].rev
        PROVE  base'[u][i].val = item[i].val
    <3>1. CASE u = s
      BY <2>3, <2>6, <3>1 DEF Inv, RevisionInv
    <3>2. CASE u # s
      BY <2>1, <2>6, <3>2 DEF Inv, BaseInv
    <3> QED
      BY <3>1, <3>2
  <2> QED
    BY <2>4, <2>5, <2>6 DEF BaseInv
<1>2. PlanInv'
  <2>1. \A u \in Servers \ {s} : at'[u] = at[u] /\ job'[u] = job[u] /\ plan'[u] = plan[u] /\ base'[u] = base[u]
    BY DEF Inv, TypeInv, TypeOK, Idle
  <2>2. at'[s] = "idle" /\ plan'[s] = {}
    BY DEF Inv, TypeInv, TypeOK, Idle
  <2> QED
    BY <2>1, <2>2 DEF Inv, PlanInv, PlanOK, redisVars, Prepared
<1>3. CacheInv'
  <2>1. receipt' = receipt
    BY DEF redisVars
  <2>2. CASE UNCHANGED cached
    BY <2>1, <2>2 DEF Inv, CacheInv
  <2>3. CASE Invalidate(s)
    <3>1. \A u \in Servers : cached'[u] = cached[u] \/ cached'[u] = NotCached
      BY <2>3 DEF Inv, TypeInv, TypeOK, Invalidate
    <3> QED
      BY <2>1, <3>1 DEF Inv, CacheInv, NotCached
  <2> QED
    BY <2>2, <2>3
<1>4. ReceiptInv'
  BY DEF Inv, ReceiptInv, redisVars
<1> QED
  BY <1>1, <1>2, <1>3, <1>4 DEF Inv

\* A step that leaves Redis, the batches in work and the caches alone.
LEMMA SameInv ==
  ASSUME Inv, TypeInv', UNCHANGED <<redisVars, jobVars, cached>>
  PROVE  Inv'
BY DEF Inv, RevisionInv, BaseInv, PlanInv, PlanOK, Prepared, CacheInv, ReceiptInv, redisVars, jobVars

\* The cache gets the receipts that Redis has, or loses those it had.
LEMMA CachedInv ==
  ASSUME Inv, TypeInv', NEW s \in Servers, CacheReceipts(s) \/ EvictReceipts(s)
  PROVE  Inv'
<1>1. UNCHANGED <<redisVars, jobVars>>
  BY DEF CacheReceipts, EvictReceipts
<1>2. CacheInv'
  <2>1. receipt' = receipt /\ \A c \in Clients : receipt[c].count \in Nat
    BY <1>1 DEF redisVars, Inv, TypeInv, TypeOK, ReceiptType
  <2>2. \A u \in Servers : \/ cached'[u] = cached[u]
                           \/ cached'[u] = NotCached
                           \/ cached'[u] = [has |-> TRUE, receipt |-> receipt]
    BY DEF Inv, TypeInv, TypeOK, CacheReceipts, EvictReceipts
  <2> QED
    BY <2>1, <2>2 DEF Inv, CacheInv, NotCached
<1> QED
  BY <1>1, <1>2 DEF Inv, RevisionInv, BaseInv, PlanInv, PlanOK, Prepared, ReceiptInv, redisVars, jobVars

\* A server takes a batch: as a replay only if Redis has its receipt.
LEMMA ReceiveInv ==
  ASSUME Inv, TypeInv', NEW s \in Servers, NEW r \in Requests, Receive(s, r)
  PROVE  Inv'
<1>1. RevisionInv' /\ BaseInv' /\ CacheInv' /\ ReceiptInv'
  BY DEF Inv, Receive, redisVars, RevisionInv, BaseInv, CacheInv, ReceiptInv
<1>2. PlanInv'
  <2>1. \A u \in Servers \ {s} : at'[u] = at[u] /\ job'[u] = job[u] /\ plan'[u] = plan[u] /\ base'[u] = base[u]
    BY DEF Inv, TypeInv, TypeOK, Receive
  <2>2. job'[s] = r /\ plan'[s] = {} /\ receipt' = receipt
    BY DEF Inv, TypeInv, TypeOK, Receive, PlanInv, redisVars
  <2>3. at'[s] = "apply" => IsReplay(s, r)
    BY DEF Inv, TypeInv, TypeOK, Receive
  <2>4. IsReplay(s, r) => CountOf[r] <= receipt[ClientOf[r]].count
    BY RequestsAssumption DEF Inv, TypeInv, TypeOK, IsReplay, View, CacheInv, ReceiptType
  <2> QED
    BY <2>1, <2>2, <2>3, <2>4 DEF Inv, PlanInv, PlanOK, Prepared
<1> QED
  BY <1>1, <1>2 DEF Inv

\* A server reads the items.
LEMMA ReadInv ==
  ASSUME Inv, TypeInv', NEW s \in Servers, ReadItems(s)
  PROVE  Inv'
<1>1. CacheInv' /\ ReceiptInv'
  BY DEF Inv, ReadItems, redisVars, CacheInv, ReceiptInv
<1>2. \A u \in Servers \ {s} : at'[u] = at[u] /\ job'[u] = job[u] /\ plan'[u] = plan[u] /\ base'[u] = base[u]
  BY DEF Inv, TypeInv, TypeOK, ReadItems
<1>3. base'[s] = item /\ plan'[s] = Touched(job[s]) /\ job' = job /\ at'[s] = "apply" /\ UNCHANGED redisVars
  BY DEF Inv, TypeInv, TypeOK, ReadItems
<1>4. RevisionInv' /\ BaseInv'
  BY <1>2, <1>3 DEF Inv, RevisionInv, BaseInv, redisVars
<1>5. PlanInv'
  <2>1. PlanOK(s)'
    BY <1>3 DEF ReadItems, PlanOK, Prepared, Touched
  <2>2. ASSUME NEW u \in Servers \ {s} PROVE /\ at'[u] = "apply" => PlanOK(u)'
                                             /\ at'[u] # "apply" => plan'[u] = {}
    BY <1>2, <1>3 DEF Inv, PlanInv, PlanOK, Prepared, Touched, redisVars
  <2> QED
    BY <1>3, <2>1, <2>2 DEF PlanInv
<1> QED
  BY <1>1, <1>4, <1>5 DEF Inv

\* What a server knows when the script writes its batch: the batch was prepared
\* from the values that the items still have.
LEMMA CommitFacts ==
  ASSUME Inv, NEW s \in Servers, ApplyCommit(s)
  PROVE  /\ job[s] \in Requests
         /\ ClientOf[job[s]] \in Clients
         /\ CountOf[job[s]] = receipt[ClientOf[job[s]]].count + 1
         /\ plan[s] = Touched(job[s])
         /\ Prepared(job[s], base[s])
         /\ \A i \in plan[s] : item[i].rev = base[s][i].rev /\ item[i].val = base[s][i].val
<1>1. job[s] \in Requests /\ at[s] = "apply"
  BY DEF Inv, TypeInv, JobInv, ApplyCommit
<1>2. ClientOf[job[s]] \in Clients /\ CountOf[job[s]] \in Nat
  BY <1>1, RequestsAssumption
<1>3. CountOf[job[s]] = receipt[ClientOf[job[s]]].count + 1
  BY DEF ApplyCommit, InSequence
<1>4. receipt[ClientOf[job[s]]].count \in Nat
  BY <1>2 DEF Inv, TypeInv, TypeOK, ReceiptType
<1>5. ~(CountOf[job[s]] <= receipt[ClientOf[job[s]]].count)
  BY <1>3, <1>4
<1>6. plan[s] = Touched(job[s]) /\ Prepared(job[s], base[s])
  BY <1>1, <1>5 DEF Inv, PlanInv, PlanOK
<1>7. \A i \in plan[s] : i \in Items /\ item[i].rev = base[s][i].rev
  BY <1>6 DEF ApplyCommit, Unchanged, Touched
<1>8. \A i \in plan[s] : item[i].val = base[s][i].val
  BY <1>7 DEF Inv, BaseInv
<1> QED
  BY <1>1, <1>2, <1>3, <1>6, <1>7, <1>8

\* The script writes a batch.
LEMMA CommitInv ==
  ASSUME Inv, TypeInv', NEW s \in Servers, ApplyCommit(s)
  PROVE  Inv'
<1> DEFINE r == job[s]
           k == ClientOf[job[s]]
           new == [request |-> r, revision |-> revision + 1, changed |-> plan[s]]
<1>1. /\ r \in Requests
      /\ k \in Clients
      /\ CountOf[r] = receipt[k].count + 1
      /\ plan[s] = Touched(r)
  BY CommitFacts
<1>2. /\ revision' = revision + 1
      /\ revision \in Nat
      /\ applied' = applied \cup {new}
  BY DEF ApplyCommit, Write, Inv, TypeInv, TypeOK
<1>3. /\ receipt'[k] = [count |-> CountOf[r], revision |-> revision + 1, request |-> r]
      /\ \A c \in Clients \ {k} : receipt'[c] = receipt[c]
  BY <1>1 DEF ApplyCommit, Write, Inv, TypeInv, TypeOK
<1>4. \A c \in Clients : receipt[c].count \in Nat /\ receipt[c].count <= receipt'[c].count
  <2>1. \A c \in Clients : receipt[c].count \in Nat
    BY DEF Inv, TypeInv, TypeOK, ReceiptType
  <2> QED
    BY <1>1, <1>3, <2>1
<1>5. \A i \in Items : \/ item'[i] = item[i]
                       \/ item'[i] = NoItem
                       \/ item'[i].rev = revision + 1
  BY DEF ApplyCommit, Write, NewItem
<1>6. /\ \A u \in Servers \ {s} : at'[u] = at[u] /\ job'[u] = job[u] /\ plan'[u] = plan[u] /\ base'[u] = base[u]
      /\ at'[s] = "idle" /\ plan'[s] = {} /\ base'[s] = [i \in Items |-> NoItem]
  BY DEF ApplyCommit, Idle, Inv, TypeInv, TypeOK
<1>7. NoItem.rev = -1 /\ NoItem.val = {}
  BY DEF NoItem
<1>8. \A i \in Items : item[i].rev \in Int /\ \A u \in Servers : base[u][i].rev \in Int
  BY DEF Inv, TypeInv, TypeOK, ItemType
<1>9. RevisionInv'
  <2>1. ASSUME NEW i \in Items PROVE item'[i].rev <= revision' /\ (item'[i].rev = -1 => item'[i].val = {})
    BY <1>2, <1>5, <1>7, <1>8 DEF Inv, RevisionInv
  <2>2. ASSUME NEW u \in Servers, NEW i \in Items
        PROVE  base'[u][i].rev <= revision' /\ (base'[u][i].rev = -1 => base'[u][i].val = {})
    <3>1. CASE u = s
      BY <1>2, <1>6, <1>7, <3>1
    <3>2. CASE u # s
      BY <1>2, <1>6, <1>8, <3>2 DEF Inv, RevisionInv
    <3> QED
      BY <3>1, <3>2
  <2> QED
    BY <2>1, <2>2 DEF RevisionInv
<1>10. BaseInv'
  <2> SUFFICES ASSUME NEW u \in Servers, NEW i \in Items, base'[u][i].rev = item'[i].rev
               PROVE  base'[u][i].val = item'[i].val
    BY DEF BaseInv
  <2>1. CASE u = s
    <3>1. base'[u][i] = NoItem
      BY <1>6, <2>1
    <3>2. item'[i].rev = -1
      BY <1>7, <3>1
    <3>3. item'[i].val = {}
      BY <1>9, <3>2 DEF RevisionInv
    <3> QED
      BY <1>7, <3>1, <3>3
  <2>2. CASE u # s
    <3>1. base'[u][i].rev = base[u][i].rev /\ base'[u][i].val = base[u][i].val
      BY <1>6, <2>2
    <3>2. base[u][i].rev <= revision
      BY DEF Inv, RevisionInv
    <3>3. item'[i].rev # revision + 1
      BY <1>2, <1>8, <3>1, <3>2
    <3>4. CASE item'[i] = item[i]
      BY <3>1, <3>4 DEF Inv, BaseInv
    <3>5. CASE item'[i] = NoItem
      BY <1>7, <3>1, <3>5 DEF Inv, RevisionInv
    <3> QED
      BY <1>5, <3>3, <3>4, <3>5
  <2> QED
    BY <2>1, <2>2
<1>11. PlanInv'
  <2>1. ASSUME NEW u \in Servers \ {s}, at'[u] = "apply" PROVE PlanOK(u)'
    <3>1. PlanOK(u) /\ job[u] \in Requests
      BY <1>6, <2>1 DEF Inv, PlanInv, TypeInv, JobInv
    <3>2. ClientOf[job[u]] \in Clients /\ CountOf[job[u]] \in Nat
      BY <3>1, RequestsAssumption
    <3>3. receipt'[ClientOf[job[u]]].count \in Nat
      BY <3>2 DEF TypeInv, TypeOK, ReceiptType
    <3>4. CASE plan[u] = Touched(job[u]) /\ Prepared(job[u], base[u])
      BY <1>6, <3>4 DEF PlanOK, Prepared, Touched
    <3>5. CASE plan[u] = {} /\ CountOf[job[u]] <= receipt[ClientOf[job[u]]].count
      BY <1>4, <1>6, <3>2, <3>3, <3>5 DEF PlanOK
    <3> QED
      BY <3>1, <3>4, <3>5 DEF PlanOK
  <2>2. \A u \in Servers \ {s} : at'[u] # "apply" => plan'[u] = {}
    BY <1>6 DEF Inv, PlanInv
  <2> QED
    BY <1>6, <2>1, <2>2 DEF PlanInv
<1>12. CacheInv'
  <2>1. \A u \in Servers : cached'[u] = cached[u] \/ cached'[u] = NotCached
    BY DEF ApplyCommit, Invalidate, Inv, TypeInv, TypeOK
  <2> SUFFICES ASSUME NEW u \in Servers, NEW c \in Clients, cached'[u].has
               PROVE  cached'[u].receipt[c].count <= receipt'[c].count
    BY DEF CacheInv
  <2>2. cached'[u] = cached[u]
    BY <2>1 DEF NotCached
  <2>3. cached[u].receipt[c].count \in Nat /\ receipt'[c].count \in Nat
    BY DEF Inv, TypeInv, TypeOK, ReceiptType
  <2> QED
    BY <1>4, <2>2, <2>3 DEF Inv, CacheInv
<1>13. ReceiptInv'
  <2> SUFFICES ASSUME NEW c \in Clients, receipt'[c].request \in Requests
               PROVE  [request |-> receipt'[c].request, revision |-> receipt'[c].revision,
                       changed |-> Touched(receipt'[c].request)] \in applied'
    BY DEF ReceiptInv, Touched
  <2>1. CASE c = k
    BY <1>1, <1>2, <1>3, <2>1
  <2>2. CASE c # k
    BY <1>2, <1>3, <2>2 DEF Inv, ReceiptInv
  <2> QED
    BY <2>1, <2>2
<1> HIDE DEF r, k, new
<1> QED
  BY <1>9, <1>10, <1>11, <1>12, <1>13 DEF Inv

\* Every step keeps the invariant, unless a replica may be promoted.
LEMMA StepInv ==
  ASSUME Failover = FALSE
  PROVE  Inv /\ [Next]_vars => Inv'
<1> SUFFICES ASSUME Inv, [Next]_vars PROVE Inv'
  OBVIOUS
<1>1. TypeInv'
  BY StepType DEF Inv
<1>2. ASSUME NEW s \in Servers, ServerStep(s) PROVE Inv'
  <2>1. CASE CacheReceipts(s) \/ EvictReceipts(s)
    BY <1>1, <2>1, CachedInv
  <2>2. CASE \E c \in Clients : Sync(s, c)
    BY <1>1, <2>2, SameInv DEF Sync
  <2>3. CASE \E r \in Requests : Receive(s, r)
    BY <1>1, <2>3, ReceiveInv
  <2>4. CASE ReadItems(s)
    BY <1>1, <2>4, ReadInv
  <2>5. CASE ReadFails(s)
    BY <1>1, <2>5, IdleInv DEF ReadFails
  <2>6. CASE ApplyFails(s) \/ Restart(s)
    BY <1>1, <2>6, IdleInv DEF ApplyFails, Restart
  <2>7. CASE ApplyDuplicate(s)
    BY <1>1, <2>7, IdleInv DEF ApplyDuplicate
  <2>8. CASE ApplyCommit(s)
    BY <1>1, <2>8, CommitInv
  <2> QED
    BY <1>2, <2>1, <2>2, <2>3, <2>4, <2>5, <2>6, <2>7, <2>8 DEF ServerStep
<1>3. ~Replicate /\ ~Promote
  BY DEF Replicate, Promote
<1>4. CASE UNCHANGED vars
  BY <1>1, <1>4, SameInv DEF vars
<1> QED
  BY <1>2, <1>3, <1>4 DEF Next

\* An answer "ok" is given for a batch that Redis has, as a whole.
LEMMA ReplyStep ==
  ASSUME Inv, Failover = FALSE, [Next]_vars, NEW x \in replies' \ replies
  PROVE  \E a \in applied' : /\ a.request = x.request
                             /\ a.revision = x.revision
                             /\ a.changed = Touched(x.request)
<1>1. ASSUME NEW s \in Servers, ApplyDuplicate(s)
      PROVE  \E a \in applied' : a.request = x.request /\ a.revision = x.revision /\ a.changed = Touched(x.request)
  <2> DEFINE last == receipt[ClientOf[job[s]]]
  <2>1. job[s] \in Requests /\ last.request = job[s] /\ ClientOf[job[s]] \in Clients
    BY <1>1, RequestsAssumption DEF ApplyDuplicate, Inv, TypeInv, JobInv
  <2>2. x = [request |-> job[s], revision |-> last.revision]
    BY <1>1 DEF ApplyDuplicate, Reply, clientVars
  <2>3. [request |-> job[s], revision |-> last.revision, changed |-> Touched(job[s])] \in applied
    BY <2>1 DEF Inv, ReceiptInv
  <2> QED
    BY <1>1, <2>2, <2>3 DEF ApplyDuplicate, redisVars
<1>2. ASSUME NEW s \in Servers, ApplyCommit(s)
      PROVE  \E a \in applied' : a.request = x.request /\ a.revision = x.revision /\ a.changed = Touched(x.request)
  <2>1. x = [request |-> job[s], revision |-> revision + 1]
    BY <1>2 DEF ApplyCommit, Reply, clientVars
  <2>2. plan[s] = Touched(job[s])
    BY <1>2, CommitFacts
  <2>3. [request |-> job[s], revision |-> revision + 1, changed |-> Touched(job[s])] \in applied'
    BY <1>2, <2>2 DEF ApplyCommit, Write
  <2> QED
    BY <2>1, <2>3
<1>3. \E s \in Servers : ApplyDuplicate(s) \/ ApplyCommit(s)
  BY DEF Next, ServerStep, CacheReceipts, EvictReceipts, Sync, Receive, ReadItems, ReadFails, ApplyFails,
         Restart, Replicate, Promote, clientVars, vars
<1> QED
  BY <1>1, <1>2, <1>3

\* Unless a replica is promoted, no client is told that a batch was accepted
\* that Redis has not, or that was written in part.
THEOREM RepliesTrue ==
  ASSUME Failover = FALSE
  PROVE  Spec => ReplyTrue
<1>1. Inv /\ [Next]_vars =>
        [\A x \in replies' \ replies :
           \E a \in applied' : /\ a.request = x.request
                               /\ a.revision = x.revision
                               /\ a.changed = Touched(x.request)]_vars
  BY ReplyStep
<1> QED
  BY <1>1, InitInv, StepInv, PTL DEF Spec, ReplyTrue

-----------------------------------------------------------------------------
(* The batches implement EditLog.                                          *)

\* The first state of a canvas is one of EditLog.
LEMMA InitAtomic == Init => EL!Init
<1> SUFFICES ASSUME Init PROVE EL!Init
  OBVIOUS
<1>1. ASSUME NEW i \in Items
      PROVE  [there |-> item[i].rev # -1, val |-> item[i].val] = [there |-> i \in Existing, val |-> {}]
  <2>1. (item[i].rev # -1 <=> i \in Existing) /\ item[i].val = {}
    BY DEF Init
  <2>2. CASE i \in Existing
    BY <2>1, <2>2
  <2>3. CASE i \notin Existing
    BY <2>1, <2>3
  <2> QED
    BY <2>2, <2>3
<1>2. [c \in Clients |-> receipt[c].count] = [c \in Clients |-> 0]
  BY DEF Init, NoReceipt
<1>3. [i \in Items |-> [there |-> item[i].rev # -1, val |-> item[i].val]]
        = [i \in Items |-> [there |-> i \in Existing, val |-> {}]]
  BY <1>1, Zenon
<1> QED
  BY <1>2, <1>3, Zenon DEF EL!Init

\* The write of the script is one step of EditLog.
LEMMA CommitAtomic ==
  ASSUME Inv, NEW s \in Servers, ApplyCommit(s), NEW r \in Requests, r = job[s]
  PROVE  EL!Commit(r)
<1>1. /\ r \in Requests
      /\ ClientOf[r] \in Clients
      /\ CountOf[r] = receipt[ClientOf[r]].count + 1
      /\ plan[s] = Touched(r)
      /\ Prepared(r, base[s])
      /\ \A i \in plan[s] : item[i].rev = base[s][i].rev /\ item[i].val = base[s][i].val
  BY CommitFacts
<1>2. /\ item' = [i \in Items |-> IF i \in plan[s] THEN NewItem(s, i, revision + 1) ELSE item[i]]
      /\ receipt' = [receipt EXCEPT ![ClientOf[r]] =
                       [count |-> CountOf[r], revision |-> revision + 1, request |-> r]]
      /\ revision + 1 # -1
  BY DEF ApplyCommit, Write, Inv, TypeInv, TypeOK
<1>3. EL!Valid(r)
  BY <1>1 DEF EL!Valid, Prepared, Touched
<1>4. \A i \in Items :
        [there |-> item'[i].rev # -1, val |-> item'[i].val] =
          CASE Ops[r][i] = "none"   -> [there |-> item[i].rev # -1, val |-> item[i].val]
            [] Ops[r][i] = "delete" -> EL!AbsentItem
            [] OTHER                -> [there |-> TRUE, val |-> item[i].val \cup {r}]
  <2> SUFFICES ASSUME NEW i \in Items
               PROVE [there |-> item'[i].rev # -1, val |-> item'[i].val] =
                      CASE Ops[r][i] = "none"   -> [there |-> item[i].rev # -1, val |-> item[i].val]
                        [] Ops[r][i] = "delete" -> EL!AbsentItem
                        [] OTHER                -> [there |-> TRUE, val |-> item[i].val \cup {r}]
    OBVIOUS
  <2>1. CASE Ops[r][i] = "none"
    <3>1. item'[i] = item[i]
      BY <1>1, <1>2, <2>1 DEF Touched
    <3> QED
      BY <2>1, <3>1
  <2>2. CASE Ops[r][i] = "delete"
    <3>1. item'[i] = NoItem
      BY <1>1, <1>2, <2>2 DEF Touched, NewItem
    <3>2. item'[i].rev = -1 /\ item'[i].val = {}
      BY <3>1 DEF NoItem
    <3> QED
      BY <2>2, <3>2 DEF EL!AbsentItem
  <2>3. CASE Ops[r][i] \notin {"none", "delete"}
    <3>1. item'[i] = [rev |-> revision + 1, val |-> base[s][i].val \cup {r}]
      BY <1>1, <1>2, <2>3 DEF Touched, NewItem
    <3>2. base[s][i].val = item[i].val
      BY <1>1, <2>3 DEF Touched
    <3>3. item'[i].rev # -1 /\ item'[i].val = item[i].val \cup {r}
      BY <1>2, <3>1, <3>2
    <3> QED
      BY <2>3, <3>3
  <2> QED
    BY <2>1, <2>2, <2>3
<1>5. [c \in Clients |-> receipt'[c].count]
        = [[c \in Clients |-> receipt[c].count] EXCEPT ![ClientOf[r]] = @ + 1]
  <2>1. \A c \in Clients : receipt'[c].count = IF c = ClientOf[r] THEN receipt[c].count + 1 ELSE receipt[c].count
    BY <1>1, <1>2 DEF Inv, TypeInv, TypeOK
  <2> QED
    BY <1>1, <2>1
<1> QED
  BY <1>1, <1>3, <1>4, <1>5 DEF EL!Commit

\* Any other step leaves EditLog's state alone.
LEMMA StepAtomic ==
  ASSUME Failover = FALSE, Inv, [Next]_vars
  PROVE  [EL!Next]_<<[i \in Items |-> [there |-> item[i].rev # -1, val |-> item[i].val]],
                     [c \in Clients |-> receipt[c].count]>>
<1>1. ASSUME NEW s \in Servers, ApplyCommit(s) PROVE EL!Next
  <2>1. job[s] \in Requests
    BY <1>1, CommitFacts
  <2>2. PICK r \in Requests : r = job[s]
    BY <2>1
  <2>3. EL!Commit(r)
    BY <1>1, <2>2, CommitAtomic
  <2> QED
    BY <2>3 DEF EL!Next
<1>2. (\E s \in Servers : ApplyCommit(s)) \/ UNCHANGED <<item, receipt>>
  BY DEF Next, ServerStep, CacheReceipts, EvictReceipts, Sync, Receive, ReadItems, ReadFails, ApplyFails,
         ApplyDuplicate, Restart, Replicate, Promote, redisVars, vars
<1> QED
  BY <1>1, <1>2

\* Unless a replica is promoted, any number of servers that read items, prepare
\* batches and write them implement one that applies each batch at once.
THEOREM BatchesAtomic ==
  ASSUME Failover = FALSE
  PROVE  Spec => Atomic
<1> QED
  BY InitAtomic, InitInv, StepInv, StepAtomic, PTL DEF Spec, Atomic, EL!Spec

-----------------------------------------------------------------------------
(* The counts that servers tell clients.                                   *)

\* What a server tells a client from its cache is between what it told before
\* and what Redis has.
CountInv ==
    \A s \in Servers, c \in Clients :
        /\ told[s][c] <= View(s)[c].count
        /\ View(s)[c].count <= receipt[c].count

\* A new canvas has no receipts.
LEMMA InitCount == Init => CountInv
  BY DEF Init, CountInv, View, NotCached, NoReceipt

\* The counts of a server are numbers.
LEMMA CountTypes ==
  ASSUME TypeInv, NEW s \in Servers, NEW c \in Clients
  PROVE  /\ told[s][c] \in Nat
         /\ receipt[c].count \in Nat
         /\ View(s)[c].count \in Nat
  BY DEF TypeInv, TypeOK, View, ReceiptType

\* A step that drops the receipts of one server from its cache, and tells no
\* more than Redis has, keeps the invariant.
LEMMA DropCount ==
  ASSUME TypeInv, TypeInv', CountInv, NEW s \in Servers,
         cached' = [cached EXCEPT ![s] = NotCached],
         \A c \in Clients : receipt'[c].count >= receipt[c].count,
         \A c \in Clients : told'[s][c] = told[s][c] \/ told'[s][c] = receipt'[c].count,
         \A z \in Servers \ {s} : told'[z] = told[z]
  PROVE  CountInv'
<1> SUFFICES ASSUME NEW z \in Servers, NEW c \in Clients
             PROVE  told'[z][c] <= View(z)'[c].count /\ View(z)'[c].count <= receipt'[c].count
  BY DEF CountInv
<1>1. told[z][c] \in Nat /\ receipt[c].count \in Nat /\ receipt'[c].count \in Nat
      /\ View(z)[c].count \in Nat
  BY CountTypes DEF TypeInv, TypeOK, ReceiptType
<1>2. told[z][c] <= View(z)[c].count /\ View(z)[c].count <= receipt[c].count
  BY DEF CountInv
<1>3. CASE z = s
  <2>1. View(z)' = receipt'
    BY <1>3 DEF View, NotCached, TypeInv, TypeOK
  <2> QED
    BY <1>1, <1>2, <1>3, <2>1
<1>4. CASE z # s
  <2>1. cached'[z] = cached[z] /\ told'[z] = told[z]
    BY <1>4 DEF TypeInv, TypeOK
  <2>2. CASE cached[z].has
    BY <1>1, <1>2, <2>1, <2>2 DEF View
  <2>3. CASE ~cached[z].has
    BY <1>1, <1>2, <2>1, <2>3 DEF View
  <2> QED
    BY <2>2, <2>3
<1> QED
  BY <1>3, <1>4

\* A step that changes none of the three keeps it.
LEMMA SameCount ==
  ASSUME CountInv, UNCHANGED <<cached, receipt, told>>
  PROVE  CountInv'
  BY DEF CountInv, View

\* Every step keeps the counts in order, and tells a client no smaller one.
LEMMA StepCount ==
  ASSUME Failover = FALSE, Inv, Inv', CountInv, [Next]_vars
  PROVE  CountInv' /\ \A s \in Servers, c \in Clients : told'[s][c] >= told[s][c]
<1> DEFINE Up == \A s \in Servers, c \in Clients : told'[s][c] >= told[s][c]
<1>1. ASSUME UNCHANGED told PROVE Up
  BY <1>1, CountTypes DEF Inv
<1>2. ASSUME NEW s \in Servers, CacheReceipts(s) PROVE CountInv' /\ Up
  <2>1. UNCHANGED <<receipt, told>>
    BY <1>2 DEF CacheReceipts, redisVars, clientVars
  <2>2. \A z \in Servers : View(z)' = View(z)
    BY <1>2, <2>1 DEF CacheReceipts, View, Inv, TypeInv, TypeOK
  <2> QED
    BY <1>1, <2>1, <2>2 DEF CountInv
<1>3. ASSUME NEW s \in Servers, EvictReceipts(s) \/ Restart(s) PROVE CountInv' /\ Up
  <2>1. UNCHANGED <<receipt, told>> /\ cached' = [cached EXCEPT ![s] = NotCached]
    BY <1>3 DEF EvictReceipts, Restart, Invalidate, redisVars, clientVars
  <2>2. \A c \in Clients : receipt'[c].count >= receipt[c].count
    BY <2>1, CountTypes DEF Inv
  <2>3. CountInv'
    BY <2>1, <2>2, DropCount DEF Inv
  <2> QED
    BY <1>1, <2>1, <2>3
<1>4. ASSUME NEW s \in Servers, NEW c \in Clients, Sync(s, c) PROVE CountInv' /\ Up
  <2>1. UNCHANGED <<cached, receipt>> /\ told' = [told EXCEPT ![s][c] = View(s)[c].count]
    BY <1>4 DEF Sync, redisVars
  <2>2. ASSUME NEW z \in Servers, NEW d \in Clients
        PROVE  /\ told'[z][d] >= told[z][d]
               /\ told'[z][d] <= View(z)[d].count
    <3>1. /\ told[z][d] <= View(z)[d].count
          /\ told[z][d] \in Nat /\ View(z)[d].count \in Nat
      BY CountTypes DEF Inv, CountInv
    <3>2. told'[z][d] = told[z][d] \/ told'[z][d] = View(z)[d].count
      BY <2>1 DEF Inv, TypeInv, TypeOK
    <3> QED
      BY <3>1, <3>2
  <2>3. \A z \in Servers : View(z)' = View(z)
    BY <2>1 DEF View
  <2> QED
    BY <2>1, <2>2, <2>3 DEF CountInv
<1>5. ASSUME NEW s \in Servers, ApplyFails(s) PROVE CountInv' /\ Up
  <2>1. UNCHANGED <<receipt, told>>
    BY <1>5 DEF ApplyFails, redisVars, clientVars
  <2>2. CASE UNCHANGED cached
    BY <1>1, <2>1, <2>2, SameCount
  <2>3. CASE Invalidate(s)
    <3>1. \A c \in Clients : receipt'[c].count >= receipt[c].count
      BY <2>1, CountTypes DEF Inv
    <3>2. CountInv'
      BY <2>1, <2>3, <3>1, DropCount DEF Inv, Invalidate
    <3> QED
      BY <1>1, <2>1, <3>2
  <2> QED
    BY <1>5, <2>2, <2>3 DEF ApplyFails
<1>6. ASSUME NEW s \in Servers, NEW r \in Requests,
             cached' = [cached EXCEPT ![s] = NotCached],
             \A c \in Clients : receipt'[c].count >= receipt[c].count,
             receipt'[ClientOf[r]].count = CountOf[r],
             \/ UNCHANGED told
             \/ told' = [told EXCEPT ![s][ClientOf[r]] = CountOf[r]]
      PROVE  CountInv' /\ Up
  <2>1. \A c \in Clients : told'[s][c] = told[s][c] \/ told'[s][c] = receipt'[c].count
    BY <1>6, RequestsAssumption DEF Inv, TypeInv, TypeOK
  <2>2. \A z \in Servers \ {s} : told'[z] = told[z]
    BY <1>6 DEF Inv, TypeInv, TypeOK
  <2>3. CountInv'
    BY <1>6, <2>1, <2>2, DropCount DEF Inv
  <2>4. ASSUME NEW z \in Servers, NEW c \in Clients PROVE told'[z][c] >= told[z][c]
    <3>1. /\ told[z][c] \in Nat /\ receipt[c].count \in Nat /\ View(z)[c].count \in Nat
          /\ told[z][c] <= View(z)[c].count /\ View(z)[c].count <= receipt[c].count
      BY CountTypes DEF Inv, CountInv
    <3>2. receipt'[c].count \in Nat /\ receipt'[c].count >= receipt[c].count
      BY <1>6 DEF Inv, TypeInv, TypeOK, ReceiptType
    <3>3. told'[z][c] = told[z][c] \/ told'[z][c] = receipt'[c].count
      BY <2>1, <2>2
    <3> QED
      BY <3>1, <3>2, <3>3
  <2> QED
    BY <2>3, <2>4
<1>7. ASSUME NEW s \in Servers, ApplyDuplicate(s) PROVE CountInv' /\ Up
  <2>1. job[s] \in Requests /\ receipt[ClientOf[job[s]]].count = CountOf[job[s]]
    BY <1>7 DEF ApplyDuplicate, Inv, TypeInv, JobInv
  <2>2. UNCHANGED receipt /\ cached' = [cached EXCEPT ![s] = NotCached]
    BY <1>7 DEF ApplyDuplicate, Invalidate, redisVars
  <2>3. UNCHANGED told \/ told' = [told EXCEPT ![s][ClientOf[job[s]]] = CountOf[job[s]]]
    BY <1>7 DEF ApplyDuplicate, Reply, clientVars
  <2>4. \A c \in Clients : receipt'[c].count >= receipt[c].count
    BY <2>2 DEF Inv, TypeInv, TypeOK, ReceiptType
  <2> QED
    BY <1>6, <2>1, <2>2, <2>3, <2>4
<1>8. ASSUME NEW s \in Servers, ApplyCommit(s) PROVE CountInv' /\ Up
  <2>1. /\ job[s] \in Requests /\ ClientOf[job[s]] \in Clients
        /\ CountOf[job[s]] = receipt[ClientOf[job[s]]].count + 1
    BY <1>8, CommitFacts
  <2>2. cached' = [cached EXCEPT ![s] = NotCached]
    BY <1>8 DEF ApplyCommit, Invalidate
  <2>3. UNCHANGED told \/ told' = [told EXCEPT ![s][ClientOf[job[s]]] = CountOf[job[s]]]
    BY <1>8 DEF ApplyCommit, Reply, clientVars
  <2>4. receipt' = [receipt EXCEPT ![ClientOf[job[s]]] =
                      [count |-> CountOf[job[s]], revision |-> revision + 1, request |-> job[s]]]
    BY <1>8 DEF ApplyCommit, Write
  <2>5. /\ \A c \in Clients : receipt'[c].count >= receipt[c].count
        /\ receipt'[ClientOf[job[s]]].count = CountOf[job[s]]
    BY <2>1, <2>4 DEF Inv, TypeInv, TypeOK, ReceiptType
  <2> QED
    BY <1>6, <2>1, <2>2, <2>3, <2>5
<1>9. CASE UNCHANGED <<cached, receipt, told>>
  BY <1>1, <1>9, SameCount
<1>10. \/ \E s \in Servers : CacheReceipts(s) \/ EvictReceipts(s) \/ Restart(s) \/ ApplyFails(s)
                               \/ ApplyDuplicate(s) \/ ApplyCommit(s)
       \/ \E s \in Servers, c \in Clients : Sync(s, c)
       \/ UNCHANGED <<cached, receipt, told>>
  BY DEF Next, ServerStep, Receive, ReadItems, ReadFails, Replicate, Promote, redisVars, clientVars, vars
<1> QED
  BY <1>2, <1>3, <1>4, <1>5, <1>7, <1>8, <1>9, <1>10

\* Unless a replica is promoted, the accepted_count that a server tells a client
\* never goes back, however its cache is filled, used and dropped.
THEOREM CountsMonotone ==
  ASSUME Failover = FALSE
  PROVE  Spec => CountNeverBack
<1>1. Inv /\ Inv' /\ CountInv /\ [Next]_vars =>
        CountInv' /\ [\A s \in Servers, c \in Clients : told'[s][c] >= told[s][c]]_vars
  BY StepCount
<1> QED
  BY <1>1, InitInv, StepInv, InitCount, PTL DEF Spec, CountNeverBack

-----------------------------------------------------------------------------
(* Revisions and counts, with fail-over.                                   *)

\* The revisions of the batches in b number them from 1 to rev.
Numbered(rev, b) ==
    /\ \A n \in 1..rev : \E a \in b : a.revision = n
    /\ \A a \in b : a.revision \in 1..rev
    /\ \A a, d \in b : a.revision = d.revision => a = d

\* What a replica has was Redis's history once.
NumberInv == Numbered(revision, applied) /\ Numbered(replica.revision, replica.applied)

\* One more batch takes the next number.
LEMMA NextNumber ==
  ASSUME NEW rev \in Nat, NEW b, Numbered(rev, b), NEW a, a.revision = rev + 1
  PROVE  Numbered(rev + 1, b \cup {a})
<1>1. \A d \in b : d.revision \in 1..rev
  BY DEF Numbered
<1>2. \A n \in 1..(rev + 1) : n \in 1..rev \/ n = rev + 1
  OBVIOUS
<1>3. \A n \in 1..(rev + 1) : \E d \in b \cup {a} : d.revision = n
  BY <1>2 DEF Numbered
<1>4. \A d \in b \cup {a} : d.revision \in 1..(rev + 1)
  BY <1>1
<1>5. \A d, e \in b \cup {a} : d.revision = e.revision => d = e
  BY <1>1 DEF Numbered
<1> QED
  BY <1>3, <1>4, <1>5 DEF Numbered

\* Every step keeps the numbering, a promotion included.
LEMMA StepNumber ==
  ASSUME TypeInv, NumberInv, [Next]_vars
  PROVE  NumberInv'
<1>1. ASSUME NEW s \in Servers, ApplyCommit(s) PROVE NumberInv'
  <2> DEFINE new == [request |-> job[s], revision |-> revision + 1, changed |-> plan[s]]
  <2>1. revision' = revision + 1 /\ applied' = applied \cup {new} /\ replica' = replica
    BY <1>1 DEF ApplyCommit, Write
  <2>2. revision \in Nat /\ new.revision = revision + 1
    BY LimitsAssumption DEF TypeInv, TypeOK
  <2>3. Numbered(revision + 1, applied \cup {new})
    BY <2>2, NextNumber DEF NumberInv
  <2> QED
    BY <2>1, <2>3 DEF NumberInv
<1>2. CASE Replicate
  <2>1. /\ replica'.revision = revision /\ replica'.applied = applied
        /\ revision' = revision /\ applied' = applied
    BY <1>2 DEF Replicate, redisVars
  <2> QED
    BY <2>1 DEF NumberInv
<1>3. CASE Promote
  BY <1>3 DEF Promote, NumberInv
<1>4. CASE UNCHANGED <<revision, applied, replica>>
  BY <1>4 DEF NumberInv
<1>5. \/ \E s \in Servers : ApplyCommit(s)
      \/ Replicate \/ Promote
      \/ UNCHANGED <<revision, applied, replica>>
  BY DEF Next, ServerStep, CacheReceipts, EvictReceipts, Sync, Receive, ReadItems, ReadFails, ApplyFails,
         ApplyDuplicate, Restart, redisVars, vars
<1> QED
  BY <1>1, <1>2, <1>3, <1>4, <1>5

\* With and without fail-over, the accepted batches that Redis has are numbered
\* from 1 to its revision, without a gap and without a repetition.
THEOREM RevisionsNumber == Spec => []RevisionsContiguous
<1>1. Init => NumberInv
  BY DEF Init, NumberInv, Numbered
<1>2. ASSUME TypeInv, NumberInv PROVE RevisionsContiguous
  <2>1. revision \in Nat
    BY <1>2, LimitsAssumption DEF TypeInv, TypeOK
  <2>2. {a.revision : a \in applied} = 1..revision
    BY <1>2, <2>1 DEF NumberInv, Numbered
  <2> QED
    BY <1>2, <2>2 DEF NumberInv, Numbered, RevisionsContiguous
<1> QED
  BY <1>1, <1>2, StepNumber, InitType, StepType, PTL DEF Spec

\* The batches in b used up counts that the receipts g have reached, each once.
Used(b, g) ==
    /\ \A a \in b : CountOf[a.request] <= g[ClientOf[a.request]].count
    /\ \A a, d \in b : /\ ClientOf[a.request] = ClientOf[d.request]
                       /\ CountOf[a.request] = CountOf[d.request]
                       => a = d

UsedInv == Used(applied, receipt) /\ Used(replica.applied, replica.receipt)

\* A batch that takes the next count of its client uses it up.
LEMMA CommitUsed ==
  ASSUME TypeInv, NEW s \in Servers, ApplyCommit(s), Used(applied, receipt)
  PROVE  Used(applied', receipt')
<1> DEFINE r == job[s]
           k == ClientOf[job[s]]
           new == [request |-> r, revision |-> revision + 1, changed |-> plan[s]]
<1>1. r \in Requests /\ k \in Clients /\ CountOf[r] = receipt[k].count + 1
  BY RequestsAssumption DEF ApplyCommit, InSequence, TypeInv, JobInv
<1>2. /\ applied' = applied \cup {new}
      /\ receipt' = [receipt EXCEPT ![k] = [count |-> CountOf[r], revision |-> revision + 1, request |-> r]]
  BY DEF ApplyCommit, Write
<1>3. \A a \in applied : /\ a.request \in Requests /\ ClientOf[a.request] \in Clients
                         /\ CountOf[a.request] \in Nat
  BY RequestsAssumption DEF TypeInv, TypeOK, AppliedType
<1>4. \A c \in Clients : receipt[c].count \in Nat
  BY DEF TypeInv, TypeOK, ReceiptType
<1>5. \A c \in Clients : receipt'[c].count = IF c = k THEN CountOf[r] ELSE receipt[c].count
  BY <1>1, <1>2 DEF TypeInv, TypeOK
<1>6. new.request = r
  OBVIOUS
<1>7. \A a \in applied : CountOf[a.request] <= receipt[ClientOf[a.request]].count
  BY DEF Used
<1>8. \A a \in applied : ClientOf[a.request] = k => CountOf[a.request] # CountOf[r]
  BY <1>1, <1>3, <1>4, <1>7
<1>9. \A a \in applied' : CountOf[a.request] <= receipt'[ClientOf[a.request]].count
  <2>1. ASSUME NEW a \in applied PROVE CountOf[a.request] <= receipt'[ClientOf[a.request]].count
    BY <1>1, <1>3, <1>4, <1>5, <1>7
  <2>2. CountOf[new.request] <= receipt'[ClientOf[new.request]].count
    BY <1>1, <1>4, <1>5, <1>6
  <2> QED
    BY <1>2, <2>1, <2>2
<1>10. \A a, d \in applied' : /\ ClientOf[a.request] = ClientOf[d.request]
                              /\ CountOf[a.request] = CountOf[d.request]
                              => a = d
  BY <1>2, <1>6, <1>8 DEF Used
<1> QED
  BY <1>9, <1>10 DEF Used

\* Every step keeps the counts used up, a promotion included.
LEMMA StepUsed ==
  ASSUME TypeInv, UsedInv, [Next]_vars
  PROVE  UsedInv'
<1>1. ASSUME NEW s \in Servers, ApplyCommit(s) PROVE UsedInv'
  BY <1>1, CommitUsed DEF ApplyCommit, UsedInv
<1>2. CASE Replicate
  <2>1. /\ replica'.applied = applied /\ replica'.receipt = receipt
        /\ applied' = applied /\ receipt' = receipt
    BY <1>2 DEF Replicate, redisVars
  <2> QED
    BY <2>1 DEF UsedInv
<1>3. CASE Promote
  BY <1>3 DEF Promote, UsedInv
<1>4. CASE UNCHANGED <<applied, receipt, replica>>
  BY <1>4 DEF UsedInv
<1>5. \/ \E s \in Servers : ApplyCommit(s)
      \/ Replicate \/ Promote
      \/ UNCHANGED <<applied, receipt, replica>>
  BY DEF Next, ServerStep, CacheReceipts, EvictReceipts, Sync, Receive, ReadItems, ReadFails, ApplyFails,
         ApplyDuplicate, Restart, redisVars, vars
<1> QED
  BY <1>1, <1>2, <1>3, <1>4, <1>5

\* With and without fail-over, every count of every client is used by one batch
\* only, however often and wherever batches are received.
THEOREM BatchesOnce == Spec => []OncePerCount
<1>1. Init => UsedInv
  BY DEF Init, UsedInv, Used
<1>2. UsedInv => OncePerCount
  BY DEF UsedInv, Used, OncePerCount
<1> QED
  BY <1>1, <1>2, StepUsed, InitType, StepType, PTL DEF Spec
=============================================================================
