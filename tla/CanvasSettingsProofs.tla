------------------------ MODULE CanvasSettingsProofs ------------------------
(***************************************************************************)
(* Proofs about CanvasSettings, for any servers, fields and number of      *)
(* changes: types, and, as long as a server that runs keeps its canvas,    *)
(* that acknowledged changes are kept in both stores and that no query is  *)
(* served under older settings.                                            *)
(***************************************************************************)
EXTENDS CanvasSettings, TLAPS

-----------------------------------------------------------------------------
(* Types.                                                                  *)

\* A change in work is of a field, and was counted after the revision it starts
\* from; no revision is larger than the number of changes.
CountInv ==
    /\ redis.rev <= made /\ es.rev <= made
    /\ \A s \in Servers : step[s] # "idle" =>
          job[s].field \in Fields /\ job[s].rev + 1 <= made

TypeInv == TypeOK /\ CountInv

\* A document whose field is replaced is a document.
LEMMA DocFacts ==
  ASSUME NEW d \in Docs, NEW f \in Fields, NEW c \in 0..MaxChanges, NEW r \in 0..MaxChanges
  PROVE  /\ [rev |-> r, val |-> [d.val EXCEPT ![f] = c]] \in Docs
         /\ [rev |-> r, val |-> [d.val EXCEPT ![f] = c]].rev = r
  BY DEF Docs

\* The first state has the right types.
LEMMA InitType == Init => TypeInv
<1> SUFFICES ASSUME Init PROVE TypeInv
  OBVIOUS
<1>1. First \in Docs /\ First.rev = 0
  BY SettingsAssumption DEF First, Docs
<1>2. NoJob \in [rev : 0..MaxChanges, field : Fields \cup {"none"}, old : 0..MaxChanges, new : 0..MaxChanges]
  BY SettingsAssumption DEF NoJob
<1>3. TypeOK
  BY <1>1, <1>2, SettingsAssumption DEF Init, TypeOK
<1>4. CountInv
  BY <1>1 DEF Init, CountInv
<1> QED
  BY <1>3, <1>4 DEF TypeInv

\* A change that is over keeps the types.
LEMMA IdleType ==
  ASSUME TypeInv, NEW s \in Servers, Idle(s)
  PROVE  /\ step' \in [Servers -> {"idle", "store", "patch", "restore", "compensate"}]
         /\ job' \in [Servers -> [rev : 0..MaxChanges, field : Fields \cup {"none"},
                                  old : 0..MaxChanges, new : 0..MaxChanges]]
         /\ step'[s] = "idle"
         /\ \A z \in Servers : step'[z] # "idle" => step'[z] = step[z] /\ job'[z] = job[z]
<1>1. NoJob \in [rev : 0..MaxChanges, field : Fields \cup {"none"}, old : 0..MaxChanges, new : 0..MaxChanges]
  BY SettingsAssumption DEF NoJob
<1> QED
  BY <1>1 DEF TypeInv, TypeOK, Idle

\* What a server about to take a step of a change has.
LEMMA JobFacts ==
  ASSUME TypeInv, NEW s \in Servers, step[s] # "idle"
  PROVE  /\ job[s].field \in Fields
         /\ job[s].old \in 0..MaxChanges /\ job[s].new \in 0..MaxChanges
         /\ job[s].rev \in 0..MaxChanges /\ job[s].rev + 1 \in 0..MaxChanges
         /\ job[s].rev + 1 <= made /\ job[s].rev <= made
  BY SettingsAssumption DEF TypeInv, TypeOK, CountInv

\* Every step keeps the types.
LEMMA StepType == TypeInv /\ [Next]_vars => TypeInv'
<1> SUFFICES ASSUME TypeInv, [Next]_vars PROVE TypeInv'
  OBVIOUS
<1> USE SettingsAssumption
<1>0. Document \in Docs /\ Document.rev <= made /\ Document.rev \in 0..MaxChanges
  BY DEF Document, TypeInv, TypeOK, CountInv, Docs
<1>1. CASE Show
  <2>1. shown' \in SUBSET Docs
    BY <1>0, <1>1 DEF Show, TypeInv, TypeOK
  <2> QED
    BY <1>1, <2>1 DEF Show, TypeInv, TypeOK, CountInv, storeVars, serverVars
<1>2. CASE Reassign
  BY <1>2 DEF Reassign, TypeInv, TypeOK, CountInv, serverVars, userVars
<1>3. ASSUME NEW f \in Fields, EditInactive(f) PROVE TypeInv'
  <2>1. made' \in 0..MaxChanges /\ made' = made + 1 /\ es.rev + 1 \in 0..MaxChanges /\ es.rev + 1 <= made'
        /\ made \in Nat /\ redis.rev \in Nat /\ redis.rev <= made
    BY <1>3 DEF EditInactive, TypeInv, TypeOK, CountInv, Docs
  <2>2. Changed(es, f, made') \in Docs /\ Changed(es, f, made').rev = es.rev + 1
    BY <2>1, DocFacts DEF TypeInv, TypeOK, Changed
  <2>3. es' \in Docs /\ es'.rev <= made'
    BY <1>3, <2>1, <2>2 DEF EditInactive, TypeInv, TypeOK, CountInv, Docs
  <2>4. acked' \in [Fields -> 0..MaxChanges]
    BY <1>3, <2>1 DEF EditInactive, TypeInv, TypeOK
  <2>5. \A s \in Servers : step[s] # "idle" => job[s].field \in Fields /\ job[s].rev + 1 <= made'
    BY <2>1, JobFacts
  <2> QED
    BY <1>3, <2>1, <2>3, <2>4, <2>5 DEF EditInactive, TypeInv, TypeOK, CountInv, serverVars
<1>4. ASSUME NEW s \in Servers, Load(s) PROVE TypeInv'
  BY <1>0, <1>4 DEF Load, TypeInv, TypeOK, CountInv, userVars
<1>5. ASSUME NEW s \in Servers, NEW x \in shown, Join(s, x) PROVE TypeInv'
  BY <1>5 DEF Join, TypeInv, TypeOK, CountInv, storeVars, userVars
<1>6. ASSUME NEW s \in Servers, NEW x \in sessions[s], NEW f \in Fields, Update(s, x, f) PROVE TypeInv'
  <2>1. made' \in 0..MaxChanges /\ made' = made + 1 /\ made \in Nat
        /\ redis.rev \in Nat /\ redis.rev <= made /\ es.rev \in Nat /\ es.rev <= made
    BY <1>6 DEF Update, TypeInv, TypeOK, CountInv, Docs
  <2>2. [rev |-> redis.rev, field |-> f, old |-> redis.val[f], new |-> made']
          \in [rev : 0..MaxChanges, field : Fields \cup {"none"}, old : 0..MaxChanges, new : 0..MaxChanges]
    BY <2>1 DEF TypeInv, TypeOK, Docs
  <2>3. job' \in [Servers -> [rev : 0..MaxChanges, field : Fields \cup {"none"},
                              old : 0..MaxChanges, new : 0..MaxChanges]]
    BY <1>6, <2>2 DEF Update, TypeInv, TypeOK
  <2>4. /\ job'[s].field = f /\ job'[s].rev = redis.rev
        /\ \A z \in Servers \ {s} : job'[z] = job[z] /\ step'[z] = step[z]
    BY <1>6 DEF Update, TypeInv, TypeOK
  <2>5. \A z \in Servers : step'[z] # "idle" => job'[z].field \in Fields /\ job'[z].rev + 1 <= made'
    BY <2>1, <2>4, JobFacts
  <2> QED
    BY <1>6, <2>1, <2>3, <2>5 DEF Update, TypeInv, TypeOK, CountInv, storeVars
<1>7. ASSUME NEW s \in Servers, NEW f \in Fields, NEW c \in 0..MaxChanges,
             NEW rev \in 0..MaxChanges, NEW next \in 0..MaxChanges, next <= made,
             UNCHANGED redis \/ CompareAndSet(rev, f, c, next)
      PROVE  redis' \in Docs /\ redis'.rev <= made
  <2>1. [rev |-> next, val |-> [redis.val EXCEPT ![f] = c]] \in Docs
        /\ [rev |-> next, val |-> [redis.val EXCEPT ![f] = c]].rev = next
    BY <1>7, DocFacts DEF TypeInv, TypeOK
  <2> QED
    BY <1>7, <2>1 DEF CompareAndSet, TypeInv, TypeOK, CountInv
<1>8. ASSUME NEW s \in Servers, NEW f \in Fields, NEW c \in 0..MaxChanges,
             NEW rev \in 0..MaxChanges, rev <= made, es' = es \/ es' = Patched(f, c, rev)
      PROVE  es' \in Docs /\ es'.rev <= made
  <2>1. Patched(f, c, rev) \in Docs /\ Patched(f, c, rev).rev = rev
    BY <1>8, DocFacts DEF TypeInv, TypeOK, Patched
  <2> QED
    BY <1>8, <2>1 DEF TypeInv, TypeOK, CountInv
<1>9. ASSUME NEW s \in Servers, step[s] # "idle", Idle(s) \/ \E n \in {"patch", "restore", "compensate"} : Go(s, n)
      PROVE  /\ step' \in [Servers -> {"idle", "store", "patch", "restore", "compensate"}]
             /\ job' \in [Servers -> [rev : 0..MaxChanges, field : Fields \cup {"none"},
                                      old : 0..MaxChanges, new : 0..MaxChanges]]
             /\ \A z \in Servers : step'[z] # "idle" => job'[z].field \in Fields /\ job'[z].rev + 1 <= made
  <2>1. CASE Idle(s)
    BY <2>1, IdleType, JobFacts
  <2>2. CASE \E n \in {"patch", "restore", "compensate"} : Go(s, n)
    <3>1. UNCHANGED job /\ \A z \in Servers : step'[z] # "idle" => step[z] # "idle"
      BY <1>9, <2>2 DEF Go, TypeInv, TypeOK
    <3> QED
      BY <2>2, <3>1, JobFacts DEF Go, TypeInv, TypeOK
  <2> QED
    BY <1>9, <2>1, <2>2
<1>10. ASSUME NEW s \in Servers, Store(s) PROVE TypeInv'
  <2>1. step[s] # "idle"
    BY <1>10 DEF Store
  <2>2. redis' \in Docs /\ redis'.rev <= made
    BY <1>7, <1>10, <2>1, JobFacts DEF Store
  <2>3. Idle(s) \/ Go(s, "patch")
    BY <1>10 DEF Store
  <2> QED
    BY <1>9, <1>10, <2>1, <2>2, <2>3 DEF Store, TypeInv, TypeOK, CountInv, userVars
<1>11. ASSUME NEW s \in Servers, Patch(s) PROVE TypeInv'
  <2>1. step[s] # "idle"
    BY <1>11 DEF Patch
  <2>2. es' \in Docs /\ es'.rev <= made
    BY <1>8, <1>11, <2>1, JobFacts DEF Patch
  <2>3. Idle(s) \/ Go(s, "restore")
    BY <1>11 DEF Patch
  <2>4. pool' \in [Servers -> -1..MaxChanges] /\ acked' \in [Fields -> 0..MaxChanges]
    BY <1>11, <2>1, JobFacts DEF Patch, TypeInv, TypeOK
  <2> QED
    BY <1>9, <1>11, <2>1, <2>2, <2>3, <2>4 DEF Patch, TypeInv, TypeOK, CountInv
<1>12. ASSUME NEW s \in Servers, Restore(s) PROVE TypeInv'
  <2>1. step[s] # "idle"
    BY <1>12 DEF Restore
  <2>2. redis' \in Docs /\ redis'.rev <= made
    BY <1>7, <1>12, <2>1, JobFacts DEF Restore
  <2>3. Go(s, "compensate")
    BY <1>12 DEF Restore
  <2> QED
    BY <1>9, <1>12, <2>1, <2>2, <2>3 DEF Restore, TypeInv, TypeOK, CountInv, userVars
<1>13. ASSUME NEW s \in Servers, Compensate(s) PROVE TypeInv'
  <2>1. step[s] # "idle"
    BY <1>13 DEF Compensate
  <2>2. es' \in Docs /\ es'.rev <= made
    BY <1>8, <1>13, <2>1, JobFacts DEF Compensate
  <2> QED
    BY <1>9, <1>13, <2>1, <2>2 DEF Compensate, TypeInv, TypeOK, CountInv, userVars
<1>14. ASSUME NEW s \in Servers, Unload(s) PROVE TypeInv'
  <2>1. es' \in Docs /\ es'.rev <= made
    BY <1>14 DEF Unload, TypeInv, TypeOK, CountInv
  <2>2. row' \in [cached : BOOLEAN, server : Servers \cup {None}]
    <3>1. [cached |-> FALSE, server |-> None] \in [cached : BOOLEAN, server : Servers \cup {None}]
      OBVIOUS
    <3>2. row' = row \/ row' = [cached |-> FALSE, server |-> None]
      BY <1>14 DEF Unload
    <3> QED
      BY <3>1, <3>2 DEF TypeInv, TypeOK
  <2>3. pool' \in [Servers -> -1..MaxChanges] /\ sessions' \in [Servers -> SUBSET Docs]
    BY <1>14 DEF Unload, Leave, TypeInv, TypeOK
  <2> QED
    BY <1>14, <2>1, <2>2, <2>3 DEF Unload, TypeInv, TypeOK, CountInv, userVars
<1>15. ASSUME NEW s \in Servers, Crash(s) PROVE TypeInv'
  <2>1. \A z \in Servers : step'[z] # "idle" => job'[z].field \in Fields /\ job'[z].rev + 1 <= made
    BY <1>15, IdleType, JobFacts DEF Crash
  <2> QED
    BY <1>15, <2>1, IdleType DEF Crash, Leave, TypeInv, TypeOK, CountInv, storeVars, userVars
<1>16. CASE UNCHANGED vars
  BY <1>16 DEF vars, storeVars, serverVars, userVars, TypeInv, TypeOK, CountInv
<1> QED
  BY <1>1, <1>2, <1>3, <1>4, <1>5, <1>6, <1>10, <1>11, <1>12, <1>13, <1>14, <1>15, <1>16 DEF Next, Execute

\* Every variable keeps its type, whatever goes wrong.
THEOREM SettingsTypes == Spec => []TypeOK
<1>1. TypeInv => TypeOK
  BY DEF TypeInv
<1> QED
  BY <1>1, InitType, StepType, PTL DEF Spec

-----------------------------------------------------------------------------
(* The inductive invariant.                                                *)

\* Only the server that the row names has the canvas, a change in work or sessions.
HolderInv ==
    \A s \in Servers :
        /\ pool[s] # -1 => row.cached /\ row.server = s
        /\ pool[s] = -1 => step[s] = "idle" /\ sessions[s] = {}

\* Both stores have what was acknowledged; Redis, as long as the canvas is cached.
StoresInv ==
    \A f \in Fields :
        /\ acked[f] <= made
        /\ es.val[f] >= acked[f]
        /\ row.cached => redis.val[f] >= acked[f]

\* The change in work is the last one asked for, the value it would bring back is
\* the acknowledged one or newer, and it starts from a revision that Redis still has or
\* has left behind and that no session is ahead of.  Redis has it before Elasticsearch.
WorkInv ==
    \A s \in Servers : step[s] # "idle" =>
        /\ job[s].new = made
        /\ job[s].old >= acked[job[s].field]
        /\ job[s].rev <= redis.rev
        /\ \A x \in sessions[s] : x.rev <= job[s].rev
        /\ step[s] = "patch" => redis.val[job[s].field] = job[s].new

\* No session is ahead of Redis, and one at the revision of the pool was let in
\* under the acknowledged settings.
SessionInv ==
    \A s \in Servers : \A x \in sessions[s] :
        /\ x.rev <= redis.rev
        /\ x.rev = pool[s] => \A f \in Fields : x.val[f] >= acked[f]

KeptInv == TypeInv /\ HolderInv /\ StoresInv /\ WorkInv /\ SessionInv

-----------------------------------------------------------------------------
(* Steps of the invariant.                                                 *)

\* When one server has the canvas, no other has it, works on it or has sessions.
LEMMA OneHolder ==
  ASSUME HolderInv, NEW s \in Servers, pool[s] # -1, NEW z \in Servers, z # s
  PROVE  pool[z] = -1 /\ step[z] = "idle" /\ sessions[z] = {}
  BY DEF HolderInv

\* A server at work has the canvas.
LEMMA Worker ==
  ASSUME HolderInv, NEW s \in Servers, step[s] # "idle"
  PROVE  pool[s] # -1 /\ row.cached /\ row.server = s
  BY DEF HolderInv

\* The numbers that the comparisons of the invariant are between.
LEMMA Numbers ==
  ASSUME TypeInv
  PROVE  /\ redis.rev \in Int /\ es.rev \in Int /\ made \in Int
         /\ \A f \in Fields : redis.val[f] \in Int /\ es.val[f] \in Int /\ acked[f] \in Int
         /\ \A s \in Servers : pool[s] \in Int /\ job[s].rev \in Int /\ job[s].old \in Int /\ job[s].new \in Int
         /\ \A s \in Servers : \A x \in sessions[s] : x.rev \in Int /\ \A f \in Fields : x.val[f] \in Int
  BY SettingsAssumption DEF TypeInv, TypeOK, Docs

\* The first state satisfies the invariant.
LEMMA InitKept == Init => KeptInv
<1> SUFFICES ASSUME Init PROVE KeptInv
  OBVIOUS
<1>1. TypeInv
  BY InitType
<1>2. HolderInv /\ WorkInv /\ SessionInv
  BY DEF Init, HolderInv, WorkInv, SessionInv
<1>3. StoresInv
  BY DEF Init, First, StoresInv
<1> QED
  BY <1>1, <1>2, <1>3 DEF KeptInv

\* Tokens change nothing that matters.
LEMMA ShowKept ==
  ASSUME KeptInv, TypeInv', Show
  PROVE  KeptInv'
  BY DEF KeptInv, HolderInv, StoresInv, WorkInv, SessionInv, Show, storeVars, serverVars

\* A canvas is only taken from a server that does not have it.
LEMMA ReassignKept ==
  ASSUME KeptInv, TypeInv', Reassign, "slow" \notin Faults
  PROVE  KeptInv'
<1>1. \A s \in Servers : pool[s] = -1
  BY DEF KeptInv, HolderInv, Reassign
<1>2. row'.cached = row.cached
  BY DEF KeptInv, TypeInv, TypeOK, Reassign
<1>3. HolderInv'
  BY <1>1 DEF KeptInv, HolderInv, Reassign, serverVars
<1>4. StoresInv'
  BY <1>2 DEF KeptInv, StoresInv, Reassign, userVars
<1>5. WorkInv' /\ SessionInv'
  BY DEF KeptInv, WorkInv, SessionInv, Reassign, serverVars, userVars
<1> QED
  BY <1>3, <1>4, <1>5 DEF KeptInv

\* A change of a canvas that is not cached has no session and no work beside it.
LEMMA EditInactiveKept ==
  ASSUME KeptInv, TypeInv', NEW f \in Fields, EditInactive(f)
  PROVE  KeptInv'
<1>1. \A s \in Servers : pool[s] = -1 /\ step[s] = "idle" /\ sessions[s] = {}
  BY DEF KeptInv, HolderInv, EditInactive
<1>2. HolderInv' /\ WorkInv' /\ SessionInv'
  BY <1>1 DEF HolderInv, WorkInv, SessionInv, EditInactive, serverVars
<1>3. StoresInv'
  <2> SUFFICES ASSUME NEW g \in Fields
               PROVE  acked'[g] <= made' /\ es'.val[g] >= acked'[g] /\ ~row'.cached
    BY DEF StoresInv
  <2>1. /\ made' = made + 1 /\ made \in Int /\ ~row'.cached
        /\ acked[g] <= made /\ es.val[g] >= acked[g] /\ acked[g] \in Int /\ es.val[g] \in Int
    BY Numbers DEF KeptInv, StoresInv, EditInactive
  <2>2. /\ Changed(es, f, made').val[g] = IF g = f THEN made' ELSE es.val[g]
        /\ [acked EXCEPT ![f] = made'][g] = IF g = f THEN made' ELSE acked[g]
    BY DEF KeptInv, TypeInv, TypeOK, Docs, Changed
  <2>3. PICK o \in Outcomes("es") :
            /\ es' = IF o = "failed" THEN es ELSE Changed(es, f, made')
            /\ acked' = IF o = "ok" THEN [acked EXCEPT ![f] = made'] ELSE acked
    BY DEF EditInactive
  <2>4. CASE o = "failed"
    BY <2>1, <2>3, <2>4
  <2>5. CASE o = "ok"
    BY <2>1, <2>2, <2>3, <2>5
  <2>6. CASE o # "ok" /\ o # "failed"
    BY <2>1, <2>2, <2>3, <2>6
  <2> QED
    BY <2>4, <2>5, <2>6
<1> QED
  BY <1>2, <1>3 DEF KeptInv

\* A canvas is loaded by a server when no other has it, with the document that is
\* trusted.
LEMMA LoadKept ==
  ASSUME KeptInv, TypeInv', NEW s \in Servers, Load(s)
  PROVE  KeptInv'
<1>1. \A z \in Servers : pool[z] = -1 /\ step[z] = "idle" /\ sessions[z] = {}
  BY SettingsAssumption DEF KeptInv, HolderInv, Load
<1>2. WorkInv' /\ SessionInv'
  BY <1>1 DEF WorkInv, SessionInv, Load
<1>3. HolderInv'
  BY <1>1 DEF KeptInv, TypeInv, TypeOK, HolderInv, Load
<1>4. StoresInv'
  BY DEF KeptInv, StoresInv, Load, Document, userVars
<1> QED
  BY <1>2, <1>3, <1>4 DEF KeptInv

\* A session is let in under what Redis has.
LEMMA JoinKept ==
  ASSUME KeptInv, TypeInv', NEW s \in Servers, NEW x \in shown, Join(s, x)
  PROVE  KeptInv'
<1>1. row.cached /\ row' = row /\ redis' = redis /\ es' = es /\ pool' = pool /\ step' = step /\ job' = job
      /\ acked' = acked /\ made' = made /\ step[s] = "idle" /\ pool[s] # -1
  BY DEF Join, storeVars, userVars
<1>2. /\ sessions'[s] = sessions[s] \cup {redis}
      /\ \A z \in Servers : z # s => sessions'[z] = sessions[z]
  BY DEF KeptInv, TypeInv, TypeOK, Join
<1>3. HolderInv' /\ StoresInv' /\ WorkInv'
  BY <1>1, <1>2 DEF KeptInv, HolderInv, StoresInv, WorkInv
<1>4. redis.rev <= redis.rev /\ \A f \in Fields : redis.val[f] >= acked[f]
  BY <1>1, Numbers DEF KeptInv, StoresInv
<1>5. SessionInv'
  BY <1>1, <1>2, <1>4 DEF KeptInv, SessionInv
<1> QED
  BY <1>3, <1>5 DEF KeptInv

\* A change starts from what Redis has.
LEMMA UpdateKept ==
  ASSUME KeptInv, TypeInv', NEW s \in Servers, NEW x \in sessions[s], NEW f \in Fields, Update(s, x, f)
  PROVE  KeptInv'
<1>1. /\ row.cached /\ row' = row /\ redis' = redis /\ es' = es /\ pool' = pool /\ sessions' = sessions
      /\ acked' = acked /\ made' = made + 1 /\ pool[s] # -1
  BY DEF Update, Served, storeVars
<1>2. /\ job'[s] = [rev |-> redis.rev, field |-> f, old |-> redis.val[f], new |-> made']
      /\ step'[s] = "store"
      /\ \A z \in Servers : z # s => job'[z] = job[z] /\ step'[z] = step[z]
  BY DEF KeptInv, TypeInv, TypeOK, Update
<1>3. \A z \in Servers : z # s => pool[z] = -1 /\ step[z] = "idle" /\ sessions[z] = {}
  BY <1>1, OneHolder DEF KeptInv
<1>4. HolderInv' /\ SessionInv'
  BY <1>1, <1>2, <1>3 DEF KeptInv, HolderInv, SessionInv
<1>5. StoresInv'
  BY <1>1, Numbers DEF KeptInv, StoresInv
<1>6. WorkInv'
  <2>1. job'[s].new = made' /\ job'[s].rev = redis.rev /\ job'[s].field = f /\ job'[s].old = redis.val[f]
    BY <1>2
  <2>2. redis.val[f] >= acked[f] /\ redis.rev <= redis.rev /\ \A y \in sessions[s] : y.rev <= redis.rev
    BY <1>1, Numbers DEF KeptInv, StoresInv, SessionInv
  <2> QED
    BY <1>1, <1>2, <1>3, <2>1, <2>2 DEF WorkInv
<1> QED
  BY <1>4, <1>5, <1>6 DEF KeptInv

\* A server that goes on with its change, or ends it, keeps the change or is idle,
\* and leaves the other servers alone.
LEMMA WorkOn ==
  ASSUME TypeInv, NEW s \in Servers,
         Idle(s) \/ Go(s, "patch") \/ Go(s, "restore") \/ Go(s, "compensate")
  PROVE  /\ step'[s] = "idle" \/ job'[s] = job[s]
         /\ \A z \in Servers : z # s => job'[z] = job[z] /\ step'[z] = step[z]
  BY DEF TypeInv, TypeOK, Idle, Go

\* A step of a change that replaces the field in Redis, if at all, by a value not
\* older than the acknowledged one, without going below the revision it started from.
LEMMA RedisKept ==
  ASSUME KeptInv, TypeInv', NEW s \in Servers, step[s] # "idle",
         NEW c \in Int, NEW next \in Int,
         job[s].rev <= next, c >= acked[job[s].field],
         redis' = redis \/ redis' = [rev |-> next, val |-> [redis.val EXCEPT ![job[s].field] = c]],
         Idle(s) \/ Go(s, "patch") \/ Go(s, "restore") \/ Go(s, "compensate"),
         step'[s] = "patch" => redis'.val[job[s].field] = job[s].new,
         UNCHANGED <<row, es, pool, sessions, userVars>>
  PROVE  KeptInv'
<1>1. row' = row /\ es' = es /\ pool' = pool /\ sessions' = sessions /\ made' = made /\ acked' = acked
  BY DEF userVars
<1>2. pool[s] # -1 /\ row.cached /\ row.server = s
  BY Worker DEF KeptInv
<1>3. \A z \in Servers : z # s => pool[z] = -1 /\ step[z] = "idle" /\ sessions[z] = {}
  BY <1>2, OneHolder DEF KeptInv
<1>4. /\ step'[s] = "idle" \/ job'[s] = job[s]
      /\ \A z \in Servers : z # s => job'[z] = job[z] /\ step'[z] = step[z]
  BY WorkOn DEF KeptInv
<1>5. /\ job[s].rev <= redis.rev /\ job[s].new = made /\ job[s].old >= acked[job[s].field]
      /\ \A x \in sessions[s] : x.rev <= job[s].rev
  BY DEF KeptInv, WorkInv
<1>6. job[s].rev <= redis'.rev
  BY <1>5
<1>7. HolderInv'
  BY <1>1, <1>2, <1>3, <1>4 DEF KeptInv, HolderInv
<1>8. StoresInv'
  <2> SUFFICES ASSUME NEW f \in Fields
               PROVE  redis'.val[f] >= acked[f]
    BY <1>1 DEF KeptInv, StoresInv
  <2>1. redis.val[f] >= acked[f]
    BY <1>2 DEF KeptInv, StoresInv
  <2>2. [redis.val EXCEPT ![job[s].field] = c][f] = IF f = job[s].field THEN c ELSE redis.val[f]
    BY DEF KeptInv, TypeInv, TypeOK, Docs
  <2>3. redis'.val = redis.val \/ redis'.val = [redis.val EXCEPT ![job[s].field] = c]
    OBVIOUS
  <2> QED
    BY <2>1, <2>2, <2>3
<1>9. WorkInv'
  BY <1>1, <1>3, <1>4, <1>5, <1>6 DEF WorkInv
<1>10. SessionInv'
  <2>1. ASSUME NEW x \in sessions[s] PROVE x.rev <= redis'.rev
    <3>1. x.rev <= job[s].rev /\ x.rev \in Int /\ job[s].rev \in Int /\ redis'.rev \in Int
      BY <1>5, <2>1, Numbers DEF KeptInv, TypeInv, TypeOK, Docs
    <3> QED
      BY <1>6, <3>1
  <2> QED
    BY <1>1, <1>3, <2>1 DEF KeptInv, SessionInv
<1> QED
  BY <1>7, <1>8, <1>9, <1>10 DEF KeptInv

\* The compare-and-set writes the newest change.
LEMMA StoreKept ==
  ASSUME KeptInv, TypeInv', NEW s \in Servers, Store(s)
  PROVE  KeptInv'
<1>1. step[s] # "idle"
  BY DEF Store
<1>2. job[s].field \in Fields /\ job[s].new \in Int /\ job[s].rev \in Int /\ job[s].rev + 1 \in Int
      /\ job[s].rev <= job[s].rev + 1
  BY <1>1, JobFacts DEF KeptInv
<1>3. job[s].new >= acked[job[s].field]
  <2>1. job[s].new = made /\ acked[job[s].field] <= made
    BY <1>1, <1>2 DEF KeptInv, WorkInv, StoresInv
  <2> QED
    BY <1>2, <2>1, Numbers DEF KeptInv
<1>4. redis' = redis \/ redis' = [rev |-> job[s].rev + 1, val |-> [redis.val EXCEPT ![job[s].field] = job[s].new]]
  BY DEF Store, CompareAndSet
<1>5. Idle(s) \/ Go(s, "patch")
  BY DEF Store
<1>6. step'[s] = "patch" => redis'.val[job[s].field] = job[s].new
  <2> SUFFICES ASSUME step'[s] = "patch" PROVE redis'.val[job[s].field] = job[s].new
    OBVIOUS
  <2>1. ~Idle(s)
    BY DEF KeptInv, TypeInv, TypeOK, Idle
  <2>2. redis'.val = [redis.val EXCEPT ![job[s].field] = job[s].new]
    BY <2>1 DEF Store, CompareAndSet
  <2> QED
    BY <1>2, <2>2 DEF KeptInv, TypeInv, TypeOK, Docs
<1> QED
  BY <1>1, <1>2, <1>3, <1>4, <1>5, <1>6, RedisKept DEF Store

\* The roll-back writes the value from before the change.
LEMMA RestoreKept ==
  ASSUME KeptInv, TypeInv', NEW s \in Servers, Restore(s)
  PROVE  KeptInv'
<1>1. step[s] # "idle"
  BY DEF Restore
<1>2. job[s].field \in Fields /\ job[s].old \in Int /\ job[s].rev \in Int /\ job[s].rev <= job[s].rev
  BY <1>1, JobFacts DEF KeptInv
<1>3. job[s].old >= acked[job[s].field]
  BY <1>1 DEF KeptInv, WorkInv
<1>4. redis' = redis \/ redis' = [rev |-> job[s].rev, val |-> [redis.val EXCEPT ![job[s].field] = job[s].old]]
  BY DEF Restore, CompareAndSet
<1>5. Go(s, "compensate") /\ step'[s] # "patch"
  BY DEF KeptInv, TypeInv, TypeOK, Restore, Go
<1> QED
  BY <1>1, <1>2, <1>3, <1>4, <1>5, RedisKept DEF Restore

\* A step of a change that replaces the field in Elasticsearch, if at all, by a value
\* not older than the acknowledged one.
LEMMA EsKept ==
  ASSUME KeptInv, TypeInv', NEW s \in Servers, step[s] # "idle", NEW c \in Int, NEW rev,
         c >= acked[job[s].field], es' = es \/ es' = Patched(job[s].field, c, rev),
         Idle(s) \/ Go(s, "restore") \/ Go(s, "compensate"),
         UNCHANGED <<row, redis, pool, sessions, userVars>>
  PROVE  KeptInv'
<1>1. row' = row /\ redis' = redis /\ pool' = pool /\ sessions' = sessions /\ made' = made /\ acked' = acked
  BY DEF userVars
<1>2. pool[s] # -1 /\ row.cached /\ row.server = s
  BY Worker DEF KeptInv
<1>3. \A z \in Servers : z # s => pool[z] = -1 /\ step[z] = "idle" /\ sessions[z] = {}
  BY <1>2, OneHolder DEF KeptInv
<1>4. /\ step'[s] = "idle" \/ job'[s] = job[s]
      /\ \A z \in Servers : z # s => job'[z] = job[z] /\ step'[z] = step[z]
      /\ step'[s] # "patch"
  BY WorkOn DEF KeptInv, TypeInv, TypeOK, Idle, Go
<1>5. HolderInv'
  BY <1>1, <1>2, <1>3, <1>4 DEF KeptInv, HolderInv
<1>6. StoresInv'
  <2> SUFFICES ASSUME NEW f \in Fields
               PROVE  es'.val[f] >= acked[f]
    BY <1>1 DEF KeptInv, StoresInv
  <2>1. es.val[f] >= acked[f]
    BY DEF KeptInv, StoresInv
  <2>2. Patched(job[s].field, c, rev).val[f] = IF f = job[s].field THEN c ELSE es.val[f]
    BY DEF KeptInv, TypeInv, TypeOK, Docs, Patched
  <2> QED
    BY <2>1, <2>2
<1>7. WorkInv'
  BY <1>1, <1>3, <1>4 DEF KeptInv, WorkInv
<1>8. SessionInv'
  BY <1>1 DEF KeptInv, SessionInv
<1> QED
  BY <1>5, <1>6, <1>7, <1>8 DEF KeptInv

\* The compensation writes the value from before the change.
LEMMA CompensateKept ==
  ASSUME KeptInv, TypeInv', NEW s \in Servers, Compensate(s)
  PROVE  KeptInv'
<1>1. step[s] # "idle"
  BY DEF Compensate
<1>2. job[s].old \in Int /\ job[s].old >= acked[job[s].field]
  BY <1>1, JobFacts DEF KeptInv, WorkInv
<1>3. es' = es \/ es' = Patched(job[s].field, job[s].old, job[s].rev)
  BY DEF Compensate
<1> QED
  BY <1>1, <1>2, <1>3, EsKept DEF Compensate

\* The patch writes the newest change; when it is acknowledged, every session from
\* before is behind the pool.
LEMMA PatchKept ==
  ASSUME KeptInv, TypeInv', NEW s \in Servers, Patch(s)
  PROVE  KeptInv'
<1>1. step[s] # "idle" /\ step[s] = "patch"
  BY DEF Patch
<1>2. job[s].field \in Fields /\ job[s].new \in Int /\ job[s].rev \in Int
  BY <1>1, JobFacts DEF KeptInv
<1>3. job[s].new = made /\ acked[job[s].field] <= made /\ job[s].new >= acked[job[s].field]
  <2>1. job[s].new = made /\ acked[job[s].field] <= made
    BY <1>1, <1>2 DEF KeptInv, WorkInv, StoresInv
  <2> QED
    BY <1>2, <2>1, Numbers DEF KeptInv
<1>4. PICK o \in Outcomes("es") :
          /\ es' = IF o = "failed" THEN es ELSE Patched(job[s].field, job[s].new, job[s].rev + 1)
          /\ IF o = "ok"
             THEN /\ pool' = [pool EXCEPT ![s] = job[s].rev + 1]
                  /\ acked' = [acked EXCEPT ![job[s].field] = job[s].new]
                  /\ Idle(s)
             ELSE Go(s, "restore") /\ UNCHANGED <<pool, acked>>
  BY DEF Patch
<1>5. CASE o # "ok"
  <2>1. es' = es \/ es' = Patched(job[s].field, job[s].new, job[s].rev + 1)
    BY <1>4
  <2>2. Go(s, "restore") /\ UNCHANGED <<row, redis, pool, sessions, userVars>>
    BY <1>4, <1>5 DEF Patch, userVars
  <2> QED
    BY <1>1, <1>2, <1>3, <2>1, <2>2, EsKept
<1>6. CASE o = "ok"
  <2>1. row' = row /\ redis' = redis /\ sessions' = sessions /\ made' = made
    BY DEF Patch
  <2>2. pool[s] # -1 /\ row.cached /\ row.server = s
    BY <1>1, Worker DEF KeptInv
  <2>3. \A z \in Servers : z # s => pool[z] = -1 /\ step[z] = "idle" /\ sessions[z] = {}
    BY <2>2, OneHolder DEF KeptInv
  <2>4. /\ step'[s] = "idle" /\ pool'[s] = job[s].rev + 1
        /\ \A z \in Servers : z # s => pool'[z] = pool[z] /\ step'[z] = step[z]
    BY <1>4, <1>6 DEF KeptInv, TypeInv, TypeOK, Idle
  <2>5. pool'[s] # -1
    BY <1>1, <2>4, JobFacts DEF KeptInv
  <2>6. HolderInv'
    BY <2>1, <2>2, <2>3, <2>4, <2>5 DEF HolderInv
  <2>7. WorkInv'
    BY <2>3, <2>4 DEF WorkInv
  <2>8. StoresInv'
    <3> SUFFICES ASSUME NEW f \in Fields
                 PROVE  acked'[f] <= made /\ es'.val[f] >= acked'[f] /\ redis.val[f] >= acked'[f]
      BY <2>1 DEF StoresInv
    <3>1. redis.val[f] >= acked[f] /\ es.val[f] >= acked[f] /\ acked[f] <= made /\ made \in Int
      BY <2>2, Numbers DEF KeptInv, StoresInv
    <3>2. acked'[f] = IF f = job[s].field THEN made ELSE acked[f]
      BY <1>3, <1>4, <1>6 DEF KeptInv, TypeInv, TypeOK
    <3>3. es'.val[f] = IF f = job[s].field THEN made ELSE es.val[f]
      BY <1>3, <1>4, <1>6 DEF KeptInv, TypeInv, TypeOK, Docs, Patched
    <3>4. f = job[s].field => redis.val[f] >= made
      BY <1>1, <1>3, <3>1 DEF KeptInv, WorkInv
    <3> QED
      BY <3>1, <3>2, <3>3, <3>4
  <2>9. SessionInv'
    <3>1. ASSUME NEW x \in sessions[s] PROVE x.rev <= redis.rev /\ x.rev # pool'[s]
      <4>1. x.rev <= job[s].rev /\ x.rev <= redis.rev /\ x.rev \in Int
        BY <1>1, <3>1, Numbers DEF KeptInv, WorkInv, SessionInv
      <4> QED
        BY <1>2, <2>4, <4>1
    <3> QED
      BY <2>1, <2>3, <3>1 DEF SessionInv
  <2> QED
    BY <2>6, <2>7, <2>8, <2>9 DEF KeptInv
<1> QED
  BY <1>5, <1>6

\* A canvas that is given up goes to Elasticsearch as Redis has it.
LEMMA UnloadKept ==
  ASSUME KeptInv, TypeInv', NEW s \in Servers, Unload(s)
  PROVE  KeptInv'
<1>1. pool[s] # -1 /\ step[s] = "idle" /\ redis' = redis /\ step' = step /\ job' = job
      /\ made' = made /\ acked' = acked
  BY DEF Unload, userVars
<1>2. \A z \in Servers : z # s => pool[z] = -1 /\ step[z] = "idle" /\ sessions[z] = {}
  BY <1>1, OneHolder DEF KeptInv
<1>3. \A z \in Servers : pool'[z] = -1 /\ sessions'[z] = {} /\ step'[z] = "idle"
  BY <1>1, <1>2 DEF KeptInv, TypeInv, TypeOK, Unload, Leave
<1>4. HolderInv' /\ WorkInv' /\ SessionInv'
  BY <1>3 DEF HolderInv, WorkInv, SessionInv
<1>5. StoresInv'
  BY <1>1 DEF KeptInv, StoresInv, Unload
<1> QED
  BY <1>4, <1>5 DEF KeptInv

\* A crash takes the canvas out of the pool and leaves the stores alone.
LEMMA CrashKept ==
  ASSUME KeptInv, TypeInv', NEW s \in Servers, Crash(s)
  PROVE  KeptInv'
<1>1. pool[s] # -1 /\ row' = row /\ redis' = redis /\ es' = es /\ made' = made /\ acked' = acked
  BY DEF Crash, storeVars, userVars
<1>2. \A z \in Servers : z # s => pool[z] = -1 /\ step[z] = "idle" /\ sessions[z] = {}
  BY <1>1, OneHolder DEF KeptInv
<1>3. \A z \in Servers : pool'[z] = -1 /\ sessions'[z] = {} /\ step'[z] = "idle"
  BY <1>2 DEF KeptInv, TypeInv, TypeOK, Crash, Leave, Idle
<1>4. HolderInv' /\ WorkInv' /\ SessionInv'
  BY <1>3 DEF HolderInv, WorkInv, SessionInv
<1>5. StoresInv'
  BY <1>1 DEF KeptInv, StoresInv
<1> QED
  BY <1>4, <1>5 DEF KeptInv

\* Every step keeps the invariant.
LEMMA StepKept ==
  ASSUME "slow" \notin Faults
  PROVE  KeptInv /\ [Next]_vars => KeptInv'
<1> SUFFICES ASSUME KeptInv, [Next]_vars PROVE KeptInv'
  OBVIOUS
<1>1. TypeInv'
  BY StepType DEF KeptInv
<1>2. CASE UNCHANGED vars
  BY <1>1, <1>2 DEF vars, storeVars, serverVars, userVars, KeptInv, HolderInv, StoresInv, WorkInv, SessionInv
<1> QED
  BY <1>1, <1>2, ShowKept, ReassignKept, EditInactiveKept, LoadKept, JoinKept, UpdateKept, StoreKept,
     PatchKept, RestoreKept, CompensateKept, UnloadKept, CrashKept DEF Next, Execute

-----------------------------------------------------------------------------
(* Theorems.                                                               *)

\* As long as a canvas is only taken from a server that does not run: an
\* acknowledged change survives crashes, failed and lost requests to both stores,
\* roll-backs, unloading and loading, in the document that is trusted.
THEOREM ChangesKept ==
  ASSUME "slow" \notin Faults
  PROVE  Spec => []AckedKept
<1>1. KeptInv => AckedKept
  BY DEF KeptInv, StoresInv, AckedKept, Document
<1> QED
  BY <1>1, InitKept, StepKept, PTL DEF Spec

\* And it is in Elasticsearch from then on.
THEOREM ChangesInEs ==
  ASSUME "slow" \notin Faults
  PROVE  Spec => []AckedInEs
<1>1. KeptInv => AckedInEs
  BY DEF KeptInv, StoresInv, AckedInEs
<1> QED
  BY <1>1, InitKept, StepKept, PTL DEF Spec

\* The revision in the pool keeps every session that was let in under older settings
\* from being served.
THEOREM QueriesCurrent ==
  ASSUME "slow" \notin Faults
  PROVE  Spec => []ServedCurrent
<1>1. KeptInv => ServedCurrent
  BY DEF KeptInv, SessionInv, ServedCurrent, Served
<1> QED
  BY <1>1, InitKept, StepKept, PTL DEF Spec
=============================================================================
