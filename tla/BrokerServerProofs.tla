------------------------- MODULE BrokerServerProofs -------------------------
(***************************************************************************)
(* Proofs about BrokerServer, for any finite set of threads, any size of   *)
(* the pool and any connections, requests and limits of the socket.  The   *)
(* SQL pool: sessions are counted exactly, and no wake-up is lost.  The    *)
(* socket: what is queued and what waits to be sent is counted exactly.    *)
(***************************************************************************)
EXTENDS BrokerServer, FiniteSetTheorems, SequenceTheorems, WellFoundedInduction, TLAPS

-----------------------------------------------------------------------------
(* The inductive invariant.                                                *)

Places == {"out", "acquire", "waiting", "opening", "notify", "using", "release", "discard"}

PoolType ==
    /\ at \in [Threads -> Places]
    /\ session \in [Threads -> {"none", "clean", "dirty"}]
    /\ pool \in Seq({"clean", "dead"})
    /\ active \in Nat
    /\ waiting \subseteq Threads

\* A thread has a session from acquire to release, a clean one until its
\* statement fails; cv_ knows the threads that wait.
PlaceInv ==
    \A t \in Threads :
        /\ session[t] # "none" <=> at[t] \in {"using", "release", "discard"}
        /\ at[t] \in {"using", "release"} => session[t] = "clean"
        /\ t \in waiting <=> at[t] = "waiting"

\* The threads that hold a place of the pool, and those on their way to one.
Holders == {t \in Threads : session[t] # "none" \/ at[t] = "opening"}
Acquirers == {t \in Threads : at[t] = "acquire"}

CountInv ==
    /\ active = Len(pool) + Cardinality(Holders)
    /\ active <= MaxConnections

PoolInv == PoolType /\ PlaceInv /\ CountInv /\ NoLostWakeup

-----------------------------------------------------------------------------
(* Counting and searching.                                                 *)

\* A thread more is one more, in the sets of threads that the invariant counts.
LEMMA OneMore ==
    ASSUME NEW S, NEW T, NEW t \in Threads,
           S \subseteq Threads, t \notin S, T = S \cup {t}
    PROVE  Cardinality(T) = Cardinality(S) + 1 /\ Cardinality(S) \in Nat /\ Cardinality(T) \in Nat
<1>1. IsFiniteSet(S) BY FS_Subset, PoolAssumption
<1>2. IsFiniteSet(T) /\ Cardinality(T) = Cardinality(S) + 1 BY <1>1, FS_AddElement
<1> QED BY <1>1, <1>2, FS_CardinalityType

\* Every set of threads has a size.
LEMMA Countable ==
    ASSUME NEW S, S \subseteq Threads
    PROVE  Cardinality(S) \in Nat
BY FS_Subset, FS_CardinalityType, PoolAssumption

\* A set of numbers up to n, and 0, has a greatest one.
LEMMA Greatest ==
    ASSUME NEW n \in Nat, NEW S, S \subseteq 1..n
    PROVE  \E i \in S \cup {0} : \A j \in S : j <= i
<1> DEFINE R == OpToRel(<, Nat)
           T == {n - i : i \in S \cup {0}}
<1>1. IsWellFoundedOn(R, Nat) BY NatLessThanWellFounded
<1>2. T \subseteq Nat /\ T # {} OBVIOUS
<1>3. \E x \in T : \A y \in T : ~(<<y, x>> \in R)
  <2> HIDE DEF R, T
  <2> QED BY <1>1, <1>2, WFMin
<1>4. PICK x \in T : \A y \in T : ~(<<y, x>> \in R) BY <1>3
<1>5. \A a, b \in Nat : a < b => <<a, b>> \in R BY DEF OpToRel
<1>6. PICK i \in S \cup {0} : x = n - i BY <1>4
<1>7. ASSUME NEW j \in S PROVE j <= i
  <2>1. n - j \in T OBVIOUS
  <2>2. n - j \in Nat /\ x \in Nat BY <2>1, <1>2, <1>4
  <2>3. ~(n - j < x)
    <3> HIDE DEF R, T
    <3> QED BY <2>1, <2>2, <1>4, <1>5
  <2> QED BY <2>3, <1>6
<1> QED BY <1>6, <1>7

\* acquire finds the last session that lives: it is in the pool and is not dead.
LEMMA FoundLives ==
    ASSUME PoolType, Live # {}
    PROVE  Found \in 1..Len(pool) /\ pool[Found] = "clean"
<1>1. Len(pool) \in Nat /\ DOMAIN pool = 1..Len(pool)
      /\ \A i \in 1..Len(pool) : pool[i] \in {"clean", "dead"}
  BY LenProperties DEF PoolType
<1>2. Live \subseteq 1..Len(pool) BY <1>1 DEF Live
<1>3. \E i \in Live \cup {0} : \A j \in Live : j <= i BY <1>1, <1>2, Greatest
<1>4. Found \in Live \cup {0} /\ \A j \in Live : j <= Found BY <1>3 DEF Found
<1>5. Found \in Live
  <2>1. PICK j \in Live : TRUE OBVIOUS
  <2>2. j <= Found /\ j >= 1 BY <2>1, <1>2, <1>4
  <2> QED BY <2>2, <1>4, <1>2
<1> QED BY <1>1, <1>2, <1>5 DEF Live
-----------------------------------------------------------------------------
(* The first state, and one lemma per step of a thread.                    *)

\* The pool begins empty.
LEMMA InitInv == PoolInit => PoolInv
<1> SUFFICES ASSUME PoolInit PROVE PoolInv OBVIOUS
<1>1. PoolType BY EmptySeq DEF PoolInit, PoolType, Places
<1>2. PlaceInv BY DEF PoolInit, PlaceInv
<1>3. Holders = {} BY DEF PoolInit, Holders
<1>4. CountInv BY <1>3, FS_EmptySet, PoolAssumption DEF PoolInit, CountInv
<1>5. NoLostWakeup BY DEF PoolInit, NoLostWakeup
<1> QED BY <1>1, <1>2, <1>4, <1>5 DEF PoolInv

\* What a thread that is notified leaves: everybody else's place.
LEMMA NoWaiters ==
    ASSUME waiting' = {} PROVE NoLostWakeup'
BY DEF NoLostWakeup

\* A thread that begins a statement is one more on its way to a session.
LEMMA EnterKeeps ==
    ASSUME PoolInv, NEW t \in Threads, Enter(t) PROVE PoolInv'
<1> USE DEF PoolInv
<1>1. PoolType' BY DEF Enter, PoolType, Places
<1>2. PlaceInv' BY DEF Enter, PoolType, PlaceInv
<1>3. Holders' = Holders BY DEF Enter, PoolType, Holders
<1>4. CountInv' BY <1>3 DEF Enter, CountInv
<1>5. Acquirers' = Acquirers \cup {t} /\ t \notin Acquirers /\ Acquirers \subseteq Threads
  BY DEF Enter, PoolType, Acquirers
<1>6. Cardinality(Acquirers') = Cardinality(Acquirers) + 1 /\ Cardinality(Acquirers) \in Nat
  BY <1>5, OneMore
<1>7. NoLostWakeup'
  <2>1. ASSUME NEW u \in Threads, at[u] = "notify" PROVE at'[u] = "notify"
    BY <2>1 DEF Enter, PoolType
  <2> QED BY <2>1, <1>6, LenProperties, PoolAssumption DEF Enter, PoolType, NoLostWakeup, Acquirers
<1> QED BY <1>1, <1>2, <1>4, <1>7

\* A thread waits only when nothing is free.
LEMMA WaitKeeps ==
    ASSUME PoolInv, NEW t \in Threads, Wait(t) PROVE PoolInv'
<1> USE DEF PoolInv
<1>1. PoolType' BY DEF Wait, PoolType, Places
<1>2. PlaceInv' BY DEF Wait, PoolType, PlaceInv
<1>3. Holders' = Holders BY DEF Wait, PoolType, Holders
<1>4. CountInv' BY <1>3 DEF Wait, CountInv
<1>5. Cardinality(Acquirers') \in Nat BY Countable DEF Acquirers
<1>6. Len(pool') + MaxConnections - active' <= 0
  BY EmptySeq, PoolAssumption DEF Wait, PoolType
<1>7. NoLostWakeup' BY <1>5, <1>6, <1>1, PoolAssumption, LenProperties DEF NoLostWakeup, Acquirers, PoolType
<1> QED BY <1>1, <1>2, <1>4, <1>7

\* The dead sessions above the one that is found are closed and no longer counted.
LEMMA TakeIdleKeeps ==
    ASSUME PoolInv, NEW t \in Threads, TakeIdle(t) PROVE PoolInv'
<1> USE DEF PoolInv
<1>0. Found \in 1..Len(pool) /\ pool[Found] = "clean" /\ Len(pool) \in Nat
      /\ pool \in [1..Len(pool) -> {"clean", "dead"}]
  BY FoundLives, LenProperties DEF TakeIdle, PoolType
<1>1. PICK n \in Nat \ {0} : n = Found /\ n <= Len(pool) BY <1>0
<1>2. pool' \in Seq({"clean", "dead"}) /\ Len(pool') = n - 1
  <2>1. \A i \in 1..(n - 1) : pool[i] \in {"clean", "dead"} BY <1>0, <1>1
  <2>2. SubSeq(pool, 1, n - 1) \in Seq({"clean", "dead"}) /\ Len(SubSeq(pool, 1, n - 1)) = n - 1
    BY <2>1, <1>1, SubSeqProperties
  <2> QED BY <2>2, <1>1 DEF TakeIdle
<1>3. Holders' = Holders \cup {t} /\ t \notin Holders /\ Holders \subseteq Threads
  BY <1>0 DEF TakeIdle, PoolType, PlaceInv, Holders
<1>4. Cardinality(Holders') = Cardinality(Holders) + 1 /\ Cardinality(Holders) \in Nat
  BY <1>3, OneMore
<1>5. active' = active - (Len(pool) - n) BY <1>1 DEF TakeIdle
<1>6. CountInv'
  <2>1. /\ active = Len(pool) + Cardinality(Holders) /\ active <= MaxConnections
        /\ MaxConnections \in Nat /\ Len(pool) \in Nat
    BY <1>0, PoolAssumption DEF CountInv, PoolType
  <2>2. active' = Len(pool') + Cardinality(Holders')
    BY <1>1, <1>2, <1>4, <1>5, <2>1
  <2>3. active' <= MaxConnections
    BY <1>1, <1>4, <1>5, <2>1
  <2> QED BY <2>2, <2>3 DEF CountInv
<1>7. active' \in Nat BY <1>0, <1>1, <1>4, <1>5 DEF CountInv, PoolType
<1>8. PoolType' BY <1>0, <1>2, <1>7 DEF TakeIdle, PoolType, Places
<1>9. PlaceInv' BY <1>0 DEF TakeIdle, PoolType, PlaceInv
<1>10. Acquirers = Acquirers' \cup {t} /\ t \notin Acquirers' /\ Acquirers' \subseteq Threads
  BY DEF TakeIdle, PoolType, Acquirers
<1>11. Cardinality(Acquirers) = Cardinality(Acquirers') + 1 /\ Cardinality(Acquirers') \in Nat
  BY <1>10, OneMore
<1>12. NoLostWakeup'
  <2>1. ASSUME NEW u \in Threads, at[u] = "notify" PROVE at'[u] = "notify"
    BY <2>1 DEF TakeIdle, PoolType
  <2>2. waiting' = waiting BY DEF TakeIdle
  <2>3. Len(pool') + MaxConnections - active' = (Len(pool) + MaxConnections - active) - 1
    BY <1>0, <1>1, <1>2, <1>5, PoolAssumption DEF PoolType
  <2>4. Len(pool) + MaxConnections - active \in Int BY <1>0, PoolAssumption DEF PoolType
  <2>5. waiting # {} /\ (\A u \in Threads : at[u] # "notify")
           => Len(pool) + MaxConnections - active <= Cardinality(Acquirers)
    BY DEF NoLostWakeup, Acquirers
  <2>6. waiting # {} /\ (\A u \in Threads : at[u] # "notify")
           => Len(pool') + MaxConnections - active' <= Cardinality(Acquirers')
    BY <2>3, <2>4, <2>5, <1>11
  <2> QED BY <2>1, <2>2, <2>6 DEF NoLostWakeup, Acquirers
<1> QED BY <1>6, <1>8, <1>9, <1>12

\* Who finds only dead sessions, or room, takes a place before it connects.
LEMMA BeginOpenKeeps ==
    ASSUME PoolInv, NEW t \in Threads, BeginOpen(t) PROVE PoolInv'
<1> USE DEF PoolInv
<1>0. Len(pool) \in Nat /\ pool' \in Seq({"clean", "dead"}) /\ Len(pool') = 0
      /\ (pool # <<>> => Len(pool) > 0)
  BY EmptySeq, LenProperties DEF BeginOpen, PoolType
<1>3. Holders' = Holders \cup {t} /\ t \notin Holders /\ Holders \subseteq Threads
  BY DEF BeginOpen, PoolType, PlaceInv, Holders
<1>4. Cardinality(Holders') = Cardinality(Holders) + 1 /\ Cardinality(Holders) \in Nat
  BY <1>3, OneMore
<1>5. active' = active - Len(pool) + 1 BY DEF BeginOpen
<1>6. CountInv' BY <1>0, <1>4, <1>5, PoolAssumption DEF BeginOpen, CountInv, PoolType
<1>7. active' \in Nat BY <1>0, <1>4, <1>5 DEF CountInv, PoolType
<1>8. PoolType' BY <1>0, <1>7 DEF BeginOpen, PoolType, Places
<1>9. PlaceInv' BY DEF BeginOpen, PoolType, PlaceInv
<1>10. Acquirers = Acquirers' \cup {t} /\ t \notin Acquirers' /\ Acquirers' \subseteq Threads
  BY DEF BeginOpen, PoolType, Acquirers
<1>11. Cardinality(Acquirers) = Cardinality(Acquirers') + 1 /\ Cardinality(Acquirers') \in Nat
  BY <1>10, OneMore
<1>12. NoLostWakeup'
  <2>1. ASSUME NEW u \in Threads, at[u] = "notify" PROVE at'[u] = "notify"
    BY <2>1 DEF BeginOpen, PoolType
  <2>2. waiting' = waiting BY DEF BeginOpen
  <2>3. Len(pool') + MaxConnections - active' = (Len(pool) + MaxConnections - active) - 1
    BY <1>0, <1>5, PoolAssumption DEF PoolType
  <2>4. Len(pool) + MaxConnections - active \in Int BY <1>0, PoolAssumption DEF PoolType
  <2>5. waiting # {} /\ (\A u \in Threads : at[u] # "notify")
           => Len(pool) + MaxConnections - active <= Cardinality(Acquirers)
    BY DEF NoLostWakeup, Acquirers
  <2>6. waiting # {} /\ (\A u \in Threads : at[u] # "notify")
           => Len(pool') + MaxConnections - active' <= Cardinality(Acquirers')
    BY <2>3, <2>4, <2>5, <1>11
  <2> QED BY <2>1, <2>2, <2>6 DEF NoLostWakeup, Acquirers
<1> QED BY <1>6, <1>8, <1>9, <1>12

\* A new session, a statement that succeeds and one that fails move no place.
LEMMA UseKeeps ==
    ASSUME PoolInv, NEW t \in Threads, Open(t) \/ Query(t) \/ QueryFails(t) PROVE PoolInv'
<1> USE DEF PoolInv, Open, Query, QueryFails
<1>1. PoolType' BY DEF PoolType, Places
<1>2. PlaceInv' BY DEF PoolType, PlaceInv
<1>3. Holders' = Holders BY DEF PoolType, PlaceInv, Holders
<1>4. CountInv' BY <1>3 DEF CountInv
<1>5. Acquirers' = Acquirers BY DEF PoolType, Acquirers
<1>6. NoLostWakeup'
  <2>1. ASSUME NEW u \in Threads, at[u] = "notify" PROVE at'[u] = "notify"
    BY <2>1 DEF PoolType
  <2>2. pool' = pool /\ active' = active /\ waiting' = waiting OBVIOUS
  <2> QED BY <2>1, <2>2, <1>5 DEF NoLostWakeup, Acquirers
<1> QED BY <1>1, <1>2, <1>4, <1>6

\* A connect that failed gives its place back, and will notify everyone.
LEMMA OpenFailsKeeps ==
    ASSUME PoolInv, NEW t \in Threads, OpenFails(t) PROVE PoolInv'
<1> USE DEF PoolInv
<1>0. Len(pool) \in Nat BY LenProperties DEF PoolType
<1>3. Holders = Holders' \cup {t} /\ t \notin Holders' /\ Holders' \subseteq Threads
  BY DEF OpenFails, PoolType, PlaceInv, Holders
<1>4. Cardinality(Holders) = Cardinality(Holders') + 1 /\ Cardinality(Holders') \in Nat
  BY <1>3, OneMore
<1>6. active' = active - 1 /\ pool' = pool BY DEF OpenFails
<1>7. active' \in Nat /\ CountInv' BY <1>0, <1>4, <1>6, PoolAssumption DEF CountInv, PoolType
<1>8. PoolType' BY <1>7 DEF OpenFails, PoolType, Places
<1>9. PlaceInv' BY DEF OpenFails, PoolType, PlaceInv
<1>10. NoLostWakeup' BY DEF OpenFails, PoolType, NoLostWakeup
<1> QED BY <1>7, <1>8, <1>9, <1>10

\* notify_all sends everyone who waits back to the pool.
LEMMA NotifyKeeps ==
    ASSUME PoolInv, NEW t \in Threads, Notify(t) PROVE PoolInv'
<1> USE DEF PoolInv, Notify, NotifyAll
<1>1. PoolType' BY DEF PoolType, Places
<1>2. PlaceInv' BY DEF PoolType, PlaceInv
<1>3. Holders' = Holders BY DEF PoolType, PlaceInv, Holders
<1>4. CountInv' BY <1>3 DEF CountInv
<1> QED BY <1>1, <1>2, <1>4, NoWaiters

\* A session that is closed frees its place, and everyone is notified.
LEMMA CloseKeeps ==
    ASSUME PoolInv, NEW t \in Threads, Close(t) PROVE PoolInv'
<1> USE DEF PoolInv, Close, NotifyAll
<1>0. Len(pool) \in Nat BY LenProperties DEF PoolType
<1>3. Holders = Holders' \cup {t} /\ t \notin Holders' /\ Holders' \subseteq Threads
  BY DEF PoolType, PlaceInv, Holders
<1>4. Cardinality(Holders) = Cardinality(Holders') + 1 /\ Cardinality(Holders') \in Nat
  BY <1>3, OneMore
<1>6. active' = active - 1 /\ pool' = pool OBVIOUS
<1>7. active' \in Nat /\ CountInv' BY <1>0, <1>4, <1>6, PoolAssumption DEF CountInv, PoolType
<1>8. PoolType' BY <1>7 DEF PoolType, Places
<1>9. PlaceInv' BY DEF PoolType, PlaceInv
<1> QED BY <1>7, <1>8, <1>9, NoWaiters

\* A session that is released goes to the pool, and one who waits is sent for it.
LEMMA ReleaseKeeps ==
    ASSUME PoolInv, NEW t \in Threads, Release(t) PROVE PoolInv'
<1> USE DEF PoolInv
<1>0. Len(pool) \in Nat BY LenProperties DEF PoolType
<1>1. session[t] = "clean" BY DEF Release, PlaceInv
<1>2. pool' \in Seq({"clean", "dead"}) /\ Len(pool') = Len(pool) + 1
  BY <1>1, AppendProperties DEF Release, PoolType
<1>3. active' = active BY DEF Release
<1>4. CASE waiting = {}
  <2>1. at' = [at EXCEPT ![t] = "out"] /\ waiting' = {} BY <1>4 DEF Release, NotifyOne
  <2>2. PoolType' BY <2>1, <1>2, <1>3 DEF Release, PoolType, Places
  <2>3. PlaceInv' BY <2>1, <1>4 DEF Release, PoolType, PlaceInv
  <2>4. Holders = Holders' \cup {t} /\ t \notin Holders' /\ Holders' \subseteq Threads
    BY <2>1, <1>1 DEF Release, PoolType, PlaceInv, Holders
  <2>5. Cardinality(Holders) = Cardinality(Holders') + 1 /\ Cardinality(Holders') \in Nat
    BY <2>4, OneMore
  <2>6. CountInv' BY <1>0, <1>2, <1>3, <2>5 DEF CountInv, PoolType
  <2> QED BY <2>1, <2>2, <2>3, <2>6, NoWaiters
<1>5. CASE waiting # {}
  <2>1. PICK w \in waiting : at' = [[at EXCEPT ![t] = "out"] EXCEPT ![w] = "acquire"]
                             /\ waiting' = waiting \ {w}
    BY <1>5 DEF Release, NotifyOne
  <2>2. w \in Threads /\ at[w] = "waiting" /\ w # t /\ at[t] = "release"
    BY <2>1 DEF Release, PoolType, PlaceInv
  <2>3. \A u \in Threads : at'[u] = IF u = w THEN "acquire" ELSE IF u = t THEN "out" ELSE at[u]
    BY <2>1, <2>2 DEF PoolType
  <2>4. at' \in [Threads -> Places] BY <2>1, <2>2 DEF PoolType, Places
  <2>5. PoolType' BY <2>1, <2>4, <1>2, <1>3 DEF Release, PoolType
  <2>6. \A u \in Threads : session'[u] = IF u = t THEN "none" ELSE session[u]
    BY DEF Release, PoolType
  <2>7. PlaceInv'
    <3>1. \A u \in Threads : u \in waiting' <=> at'[u] = "waiting"
      <4> SUFFICES ASSUME NEW u \in Threads PROVE u \in waiting' <=> at'[u] = "waiting" OBVIOUS
      <4>1. u \in waiting <=> at[u] = "waiting" BY DEF PlaceInv
      <4>2. u \in waiting' <=> u \in waiting /\ u # w BY <2>1
      <4> QED BY <4>1, <4>2, <2>2, <2>3
    <3>2. \A u \in Threads : session'[u] # "none" <=> at'[u] \in {"using", "release", "discard"}
      BY <2>2, <2>3, <2>6 DEF PlaceInv
    <3>3. \A u \in Threads : at'[u] \in {"using", "release"} => session'[u] = "clean"
      BY <2>2, <2>3, <2>6 DEF PlaceInv
    <3> QED BY <3>1, <3>2, <3>3 DEF PlaceInv
  <2>8. Holders = Holders' \cup {t} /\ t \notin Holders' /\ Holders' \subseteq Threads
    BY <2>2, <2>3, <2>6, <1>1 DEF PlaceInv, Holders
  <2>9. Cardinality(Holders) = Cardinality(Holders') + 1 /\ Cardinality(Holders') \in Nat
    BY <2>8, OneMore
  <2>10. CountInv' BY <1>0, <1>2, <1>3, <2>9 DEF CountInv, PoolType
  <2>11. Acquirers' = Acquirers \cup {w} /\ w \notin Acquirers /\ Acquirers \subseteq Threads
    BY <2>2, <2>3 DEF Acquirers
  <2>12. Cardinality(Acquirers') = Cardinality(Acquirers) + 1 /\ Cardinality(Acquirers) \in Nat
    BY <2>2, <2>11, OneMore
  <2>13. NoLostWakeup'
    <3>1. ASSUME NEW u \in Threads, at[u] = "notify" PROVE at'[u] = "notify"
      BY <3>1, <2>2, <2>3
    <3>2. Len(pool) + MaxConnections - active \in Int BY <1>0, PoolAssumption DEF PoolType
    <3>3. Len(pool') + MaxConnections - active' = Len(pool) + MaxConnections - active + 1
      BY <1>0, <1>2, <1>3, PoolAssumption DEF PoolType
    <3> QED BY <1>5, <3>1, <3>2, <3>3, <2>12 DEF NoLostWakeup, Acquirers
  <2> QED BY <2>5, <2>7, <2>10, <2>13
<1> QED BY <1>4, <1>5

\* A session that dies in the pool is still counted.
LEMMA IdleDiesKeeps ==
    ASSUME PoolInv, NEW i \in DOMAIN pool, IdleDies(i) PROVE PoolInv'
<1> USE DEF PoolInv
<1>1. DOMAIN pool = 1..Len(pool) BY LenProperties DEF PoolType
<1>2. pool' \in Seq({"clean", "dead"}) /\ Len(pool') = Len(pool)
  BY <1>1, ExceptSeq DEF IdleDies, PoolType
<1>3. UNCHANGED <<at, session, active, waiting>> BY DEF IdleDies
<1>4. PoolType' BY <1>2, <1>3 DEF PoolType
<1>5. PlaceInv' BY <1>3 DEF PlaceInv
<1>6. Holders' = Holders BY <1>3 DEF Holders
<1>7. CountInv' BY <1>2, <1>3, <1>6 DEF CountInv
<1>8. NoLostWakeup' BY <1>2, <1>3 DEF NoLostWakeup
<1> QED BY <1>4, <1>5, <1>7, <1>8

-----------------------------------------------------------------------------
(* The server.                                                             *)

\* Every step of a statement keeps the invariant.
LEMMA StatementKeeps ==
    ASSUME PoolInv, NEW t \in Threads, Statement(t) PROVE PoolInv'
BY WaitKeeps, TakeIdleKeeps, BeginOpenKeeps, UseKeeps, OpenFailsKeeps, NotifyKeeps, ReleaseKeeps,
   CloseKeeps DEF Statement

\* The steps of the socket leave the pool alone.
LEMMA SameKeeps ==
    ASSUME PoolInv, UNCHANGED poolVars PROVE PoolInv'
BY DEF PoolInv, PoolType, PlaceInv, CountInv, NoLostWakeup, Holders, poolVars

\* Every step of the server is one of the socket, or one of the pool.
LEMMA StepKeeps == PoolInv /\ [Next]_vars => PoolInv'
<1> SUFFICES ASSUME PoolInv, [Next]_vars PROVE PoolInv' OBVIOUS
<1>1. CASE UNCHANGED vars BY <1>1, SameKeeps DEF vars
<1>2. CASE (Broker \/ Loop \/ StopAccepting \/ StopWorkers \/ StopLoop) /\ UNCHANGED <<poolVars, queried>>
  BY <1>2, SameKeeps
<1>3. ASSUME NEW w \in Workers, Worker(w) PROVE PoolInv'
  <2>1. w \in Threads BY WorkersUseSql
  <2>2. CASE WorkerTakes(w) BY <2>2, SameKeeps DEF WorkerTakes
  <2>3. CASE WorkerQueries(w) BY <2>1, <2>3, EnterKeeps DEF WorkerQueries
  <2>4. CASE WorkerAnswers(w) BY <2>4, SameKeeps DEF WorkerAnswers
  <2>5. CASE WorkerLeaves(w) BY <2>5, SameKeeps DEF WorkerLeaves
  <2>6. CASE Statement(w) BY <2>1, <2>6, StatementKeeps
  <2> QED BY <1>3, <2>2, <2>3, <2>4, <2>5, <2>6 DEF Worker
<1>4. ASSUME NEW t \in Threads \ Workers, OtherThread(t) PROVE PoolInv'
  BY <1>4, EnterKeeps, StatementKeeps DEF OtherThread
<1>5. CASE SessionDies BY <1>5, IdleDiesKeeps DEF SessionDies
<1> QED BY <1>1, <1>2, <1>3, <1>4, <1>5 DEF Next

\* The invariant holds throughout.
LEMMA PoolInvariant == Spec => []PoolInv
<1>1. Init => PoolInv BY InitInv DEF Init
<1> QED BY <1>1, StepKeeps, PTL DEF Spec

\* acquire, release and invalidate of MssqlConnectionPool: sessions that die,
\* fail and are replaced in every order are each counted once, are never more
\* than max_connections_, and come back to the pool without unread results.
THEOREM SessionsCounted == Spec => []SessionsSound
<1>1. PoolInv => SessionsSound
  BY LenProperties DEF PoolInv, PoolType, CountInv, Holders, SessionsSound
<1> QED BY <1>1, PoolInvariant, PTL

\* notify_one of a release and notify_all of a close or a failed connect: a thread
\* never waits on cv_ for a session or a place that nobody is on the way to.
THEOREM WakeupsKept == Spec => []NoLostWakeup
BY PoolInvariant, PTL DEF PoolInv
-----------------------------------------------------------------------------
(* Counting fragments.                                                     *)

\* The fragments of the entries of s that are not BROKER_BUSY.
Charged(s) == {f \in Fragments(s) : ~s[f[1]].busy}

\* The fragments f[c] of every connection of C, kept apart.
Across(f, C) == UNION {{c} \X f[c] : c \in C}

\* A finite number of fragments, each marked with x, is the same number.
LEMMA Marked ==
    ASSUME NEW x, NEW S, IsFiniteSet(S)
    PROVE  IsFiniteSet({x} \X S) /\ Cardinality({x} \X S) = Cardinality(S) /\ Cardinality(S) \in Nat
<1>1. IsFiniteSet({x}) /\ Cardinality({x}) = 1 BY FS_Singleton
<1>2. IsFiniteSet({x} \X S) /\ Cardinality({x} \X S) = 1 * Cardinality(S) BY <1>1, FS_Product
<1>3. Cardinality(S) \in Nat BY FS_CardinalityType
<1> QED BY <1>2, <1>3

\* Finite sets that have nothing in common have the sum of their sizes together.
LEMMA Apart ==
    ASSUME NEW S, NEW T, IsFiniteSet(S), IsFiniteSet(T), S \cap T = {}
    PROVE  /\ IsFiniteSet(S \cup T) /\ Cardinality(S \cup T) = Cardinality(S) + Cardinality(T)
           /\ Cardinality(S) \in Nat /\ Cardinality(T) \in Nat
<1>1. Cardinality(S) \in Nat /\ Cardinality(T) \in Nat BY FS_CardinalityType
<1>2. Cardinality(S \cap T) = 0 BY FS_EmptySet
<1>3. IsFiniteSet(S \cup T)
      /\ Cardinality(S \cup T) = Cardinality(S) + Cardinality(T) - Cardinality(S \cap T)
  BY FS_Union
<1> QED BY <1>1, <1>2, <1>3

\* Entries have finitely many fragments.
LEMMA FragmentsFinite ==
    ASSUME NEW n \in Nat, NEW s, DOMAIN s = 1..n, \A i \in 1..n : s[i].size \in Nat
    PROVE  IsFiniteSet(Fragments(s))
<1> DEFINE G == [i \in 1..n |-> {i} \X (1..s[i].size)]
           U == {{i} \X (1..s[i].size) : i \in 1..n}
<1>1. G \in Surjection(1..n, U) BY DEF Surjection
<1>2. IsFiniteSet(1..n) BY FS_Interval
<1>3. IsFiniteSet(U) BY <1>1, <1>2, FS_Surjection
<1>4. ASSUME NEW T \in U PROVE IsFiniteSet(T)
  <2>1. PICK i \in 1..n : T = {i} \X (1..s[i].size) OBVIOUS
  <2>2. IsFiniteSet(1..s[i].size) BY FS_Interval
  <2> QED BY <2>1, <2>2, Marked
<1>5. IsFiniteSet(UNION U) BY <1>3, <1>4, FS_UNION
<1> QED BY <1>5 DEF Fragments

\* The size of an entry is the number of its fragments.
LEMMA EntrySize ==
    ASSUME NEW i, NEW k \in Nat
    PROVE  IsFiniteSet({i} \X (1..k)) /\ Cardinality({i} \X (1..k)) = k
<1>1. IsFiniteSet(1..k) /\ Cardinality(1..k) = k BY FS_Interval
<1> QED BY <1>1, Marked

\* An entry that is put at the end adds its size.
LEMMA AppendedSize ==
    ASSUME NEW n \in Nat, NEW s, DOMAIN s = 1..n, \A i \in 1..n : s[i].size \in Nat,
           NEW t, DOMAIN t = 1..(n + 1), \A i \in 1..n : t[i] = s[i], t[n + 1].size \in Nat
    PROVE  /\ IsFiniteSet(Fragments(t))
           /\ TotalSize(t) = TotalSize(s) + t[n + 1].size
           /\ t[n + 1].busy => Charged(t) = Charged(s)
<1> DEFINE E == {n + 1} \X (1..t[n + 1].size)
<1>1. Fragments(t) = Fragments(s) \cup E
  <2>1. 1..(n + 1) = 1..n \cup {n + 1} OBVIOUS
  <2>2. \A p : p \in Fragments(t) <=> \E i \in 1..(n + 1) : p \in {i} \X (1..t[i].size)
    BY DEF Fragments
  <2>3. \A p : p \in Fragments(s) <=> \E i \in 1..n : p \in {i} \X (1..s[i].size)
    BY DEF Fragments
  <2> QED BY <2>1, <2>2, <2>3
<1>2. \A p \in Fragments(s) : p[1] \in 1..n BY DEF Fragments
<1>3. \A p \in E : p[1] = n + 1 OBVIOUS
<1>4. Fragments(s) \cap E = {} BY <1>2, <1>3
<1>5. IsFiniteSet(Fragments(s)) BY FragmentsFinite
<1>6. IsFiniteSet(E) /\ Cardinality(E) = t[n + 1].size BY EntrySize
<1>7. IsFiniteSet(Fragments(t)) /\ TotalSize(t) = TotalSize(s) + t[n + 1].size
  <2> HIDE DEF E
  <2>1. /\ IsFiniteSet(Fragments(s) \cup E)
        /\ Cardinality(Fragments(s) \cup E) = Cardinality(Fragments(s)) + Cardinality(E)
    BY <1>4, <1>5, <1>6, Apart
  <2> QED BY <1>1, <1>6, <2>1 DEF TotalSize
<1>8. ASSUME t[n + 1].busy PROVE Charged(t) = Charged(s)
  <2>1. \A p \in Fragments(s) : t[p[1]] = s[p[1]] BY <1>2
  <2>2. \A p \in E : t[p[1]].busy BY <1>3, <1>8
  <2> QED BY <1>1, <2>1, <2>2 DEF Charged
<1> QED BY <1>7, <1>8

\* The first entry takes its size with it.
LEMMA TailSize ==
    ASSUME NEW n \in Nat, NEW s, DOMAIN s = 1..(n + 1), \A i \in 1..(n + 1) : s[i].size \in Nat,
           NEW t, DOMAIN t = 1..n, \A i \in 1..n : t[i] = s[i + 1]
    PROVE  /\ IsFiniteSet(Fragments(s))
           /\ IsFiniteSet(Fragments(t))
           /\ TotalSize(t) + s[1].size = TotalSize(s)
           /\ IsFiniteSet(Charged(t)) /\ IsFiniteSet(Charged(s))
           /\ Cardinality(Charged(t)) <= Cardinality(Charged(s))
<1> DEFINE E == {1} \X (1..s[1].size)
           R == Fragments(s) \ E
           Shift == [p \in Fragments(t) |-> <<p[1] + 1, p[2]>>]
           ShiftCharged == [p \in Charged(t) |-> <<p[1] + 1, p[2]>>]
<1>1. \A p : p \in Fragments(s) <=> \E i \in 1..(n + 1) : p \in {i} \X (1..s[i].size)
  BY DEF Fragments
<1>2. \A p : p \in Fragments(t) <=> \E i \in 1..n : p \in {i} \X (1..t[i].size)
  BY DEF Fragments
<1>3. ASSUME NEW p \in Fragments(t)
      PROVE  /\ p = <<p[1], p[2]>> /\ p[1] \in 1..n /\ p[1] + 1 \in 1..(n + 1)
             /\ t[p[1]] = s[p[1] + 1]
             /\ <<p[1] + 1, p[2]>> \in Fragments(s) /\ <<p[1] + 1, p[2]>> \notin E
  <2>1. PICK i \in 1..n : p \in {i} \X (1..t[i].size) BY <1>2
  <2>2. p = <<p[1], p[2]>> /\ p[1] = i /\ p[2] \in 1..t[i].size BY <2>1
  <2>3. i + 1 \in 1..(n + 1) /\ i + 1 # 1 OBVIOUS
  <2>4. <<i + 1, p[2]>> \in {i + 1} \X (1..s[i + 1].size) BY <2>2
  <2> QED BY <1>1, <2>2, <2>3, <2>4
<1>4. ASSUME NEW q \in R PROVE \E p \in Fragments(t) : q = <<p[1] + 1, p[2]>>
  <2>1. PICK i \in 1..(n + 1) : q \in {i} \X (1..s[i].size) BY <1>1
  <2>2. q = <<i, q[2]>> /\ q[2] \in 1..s[i].size BY <2>1
  <2>3. i # 1 BY <2>1
  <2>4. i - 1 \in 1..n /\ (i - 1) + 1 = i BY <2>3
  <2>5. t[i - 1] = s[i] BY <2>4
  <2>6. <<i - 1, q[2]>> \in {i - 1} \X (1..t[i - 1].size) BY <2>2, <2>5
  <2>7. <<i - 1, q[2]>> \in Fragments(t) BY <1>2, <2>4, <2>6
  <2> QED BY <2>2, <2>4, <2>7
<1>5. IsFiniteSet(Fragments(s)) BY FragmentsFinite
<1>6. \A i \in 1..n : t[i].size \in Nat OBVIOUS
<1>7. IsFiniteSet(Fragments(t)) BY <1>6, FragmentsFinite
<1>8. ASSUME NEW p \in Fragments(t), NEW q \in Fragments(t), <<p[1] + 1, p[2]>> = <<q[1] + 1, q[2]>>
      PROVE p = q
  <2>0. p[1] \in 1..n /\ q[1] \in 1..n BY <1>3
  <2>1. p[1] \in Nat /\ q[1] \in Nat /\ p[1] + 1 = q[1] + 1 /\ p[2] = q[2] BY <1>8, <2>0
  <2>2. p[1] = q[1] BY <2>1
  <2> QED BY <1>3, <2>1, <2>2
<1>9. Shift \in Bijection(Fragments(t), R)
  <2>1. Shift \in [Fragments(t) -> R] BY <1>3
  <2>2. \A p, q \in Fragments(t) : Shift[p] = Shift[q] => p = q BY <1>8
  <2>3. \A q \in R : \E p \in Fragments(t) : Shift[p] = q BY <1>4
  <2> HIDE DEF Shift, R
  <2>4. Shift \in Injection(Fragments(t), R) BY <2>1, <2>2 DEF Injection, IsInjective
  <2>5. Shift \in Surjection(Fragments(t), R) BY <2>1, <2>3 DEF Surjection
  <2> QED BY <2>4, <2>5 DEF Bijection
<1>10. Cardinality(R) = TotalSize(t) /\ IsFiniteSet(R)
  BY <1>7, <1>9, FS_Bijection DEF ExistsBijection, TotalSize
<1>11. Fragments(s) = R \cup E /\ R \cap E = {}
  <2>1. 1 \in 1..(n + 1) OBVIOUS
  <2> QED BY <1>1, <2>1
<1>12. IsFiniteSet(E) /\ Cardinality(E) = s[1].size
  <2>1. 1 \in 1..(n + 1) OBVIOUS
  <2> QED BY <2>1, EntrySize
<1>13. TotalSize(t) + s[1].size = TotalSize(s)
  <2> HIDE DEF R, E
  <2>1. Cardinality(R \cup E) = Cardinality(R) + Cardinality(E) BY <1>10, <1>11, <1>12, Apart
  <2> QED BY <1>10, <1>11, <1>12, <2>1 DEF TotalSize
<1>14. IsFiniteSet(Charged(t)) /\ IsFiniteSet(Charged(s))
  BY <1>5, <1>7, FS_Subset DEF Charged
<1>15. ShiftCharged \in Injection(Charged(t), Charged(s))
  <2>1. ASSUME NEW p \in Charged(t) PROVE p \in Fragments(t) /\ <<p[1] + 1, p[2]>> \in Charged(s)
    <3>1. p \in Fragments(t) /\ ~t[p[1]].busy BY DEF Charged
    <3>2. <<p[1] + 1, p[2]>>[1] = p[1] + 1 OBVIOUS
    <3> QED BY <1>3, <3>1, <3>2 DEF Charged
  <2>2. \A p, q \in Charged(t) : ShiftCharged[p] = ShiftCharged[q] => p = q BY <1>8, <2>1
  <2>3. ShiftCharged \in [Charged(t) -> Charged(s)] BY <2>1
  <2> HIDE DEF ShiftCharged
  <2> QED BY <2>2, <2>3 DEF Injection, IsInjective
<1>16. Cardinality(Charged(t)) <= Cardinality(Charged(s)) BY <1>14, <1>15, FS_Injection
<1> QED BY <1>5, <1>7, <1>13, <1>14, <1>16

\* One connection's fragments change: the total changes by as much.
LEMMA AcrossOne ==
    ASSUME NEW C, NEW c \in C, NEW f, NEW g, \A d \in C \ {c} : g[d] = f[d],
           IsFiniteSet(Across(f, C)), IsFiniteSet(f[c]), IsFiniteSet(g[c])
    PROVE  /\ IsFiniteSet(Across(g, C))
           /\ Cardinality(f[c]) \in Nat /\ Cardinality(g[c]) \in Nat
           /\ Cardinality(Across(f, C)) \in Nat /\ Cardinality(Across(g, C)) \in Nat
           /\ Cardinality(Across(g, C)) + Cardinality(f[c]) = Cardinality(Across(f, C)) + Cardinality(g[c])
<1> DEFINE Rest == Across(f, C \ {c})
<1>1. Across(f, C) = Rest \cup ({c} \X f[c]) BY DEF Across
<1>2. Across(g, C) = Rest \cup ({c} \X g[c]) BY DEF Across
<1>3. Rest \cap ({c} \X f[c]) = {} /\ Rest \cap ({c} \X g[c]) = {} BY DEF Across
<1>4. IsFiniteSet(Rest) BY <1>1, FS_Subset
<1>5. /\ IsFiniteSet({c} \X f[c]) /\ Cardinality({c} \X f[c]) = Cardinality(f[c])
      /\ IsFiniteSet({c} \X g[c]) /\ Cardinality({c} \X g[c]) = Cardinality(g[c])
  BY Marked
<1> HIDE DEF Rest
<1>6. Cardinality(Across(f, C)) = Cardinality(Rest) + Cardinality(f[c])
      /\ Cardinality(Rest) \in Nat /\ Cardinality(f[c]) \in Nat
  <2>1. /\ Cardinality(Rest \cup ({c} \X f[c])) = Cardinality(Rest) + Cardinality({c} \X f[c])
        /\ Cardinality(Rest) \in Nat /\ Cardinality({c} \X f[c]) \in Nat
    BY <1>3, <1>4, <1>5, Apart
  <2> QED BY <1>1, <1>5, <2>1
<1>7. Cardinality(Across(g, C)) = Cardinality(Rest) + Cardinality(g[c])
      /\ IsFiniteSet(Across(g, C)) /\ Cardinality(g[c]) \in Nat
  <2>1. /\ IsFiniteSet(Rest \cup ({c} \X g[c]))
        /\ Cardinality(Rest \cup ({c} \X g[c])) = Cardinality(Rest) + Cardinality({c} \X g[c])
        /\ Cardinality({c} \X g[c]) \in Nat
    BY <1>3, <1>4, <1>5, Apart
  <2> QED BY <1>2, <1>5, <2>1
<1>8. Cardinality(Across(f, C)) \in Nat /\ Cardinality(Across(g, C)) \in Nat BY <1>7, FS_CardinalityType
<1> QED BY <1>6, <1>7, <1>8

\* The connections D have nothing any more: the total is less by what they had.
LEMMA AcrossNone ==
    ASSUME NEW C, NEW D \in SUBSET C, NEW f, IsFiniteSet(Across(f, C))
    PROVE  /\ IsFiniteSet(Across(f, C \ D))
           /\ Cardinality(Across(f, C)) \in Nat /\ Cardinality(Across(f, C \ D)) \in Nat
           /\ Cardinality(Across(f, D)) \in Nat
           /\ Cardinality(Across(f, C \ D)) + Cardinality(Across(f, D)) = Cardinality(Across(f, C))
<1>1. Across(f, C) = Across(f, C \ D) \cup Across(f, D) BY DEF Across
<1>2. Across(f, C \ D) \cap Across(f, D) = {} BY DEF Across
<1>3. IsFiniteSet(Across(f, C \ D)) /\ IsFiniteSet(Across(f, D)) BY <1>1, FS_Subset
<1>4. Cardinality(Across(f, C)) \in Nat BY FS_CardinalityType
<1> QED BY <1>1, <1>2, <1>3, <1>4, Apart
-----------------------------------------------------------------------------
(* The invariant of the socket.                                            *)

Entries == [request : Requests, size : Nat]
Answers == [request : Requests, size : Nat, offset : Nat, busy : BOOLEAN]

SocketType ==
    /\ conns \in [Conns -> {"new", "open", "closed"}]
    /\ message \in Requests \cup {None}
    /\ queue \in Seq(Entries)
    /\ queuedBytes \in Nat
    /\ work \in [Workers -> Requests \cup {None, "gone"}]
    /\ deferred \in Seq(Answers \cup {CloseRequest})
    /\ replies \in [Conns -> Seq(Answers)]
    /\ replyBytes \in Nat
    /\ buffered \in [Conns -> Nat]
    /\ draining \in Conns \cup {None}

QueueInv ==
    /\ queuedBytes = TotalSize(queue)
    /\ queuedBytes <= MaxQueuedBytes /\ Len(queue) <= MaxQueue

\* The fragments that wait, per connection: all, and those that are not
\* BROKER_BUSY.
FragmentsOf == [c \in Conns |-> Fragments(replies[c])]
ChargedOf == [c \in Conns |-> Charged(replies[c])]

ReplyInv ==
    /\ IsFiniteSet(Across(FragmentsOf, Conns))
    /\ replyBytes = Cardinality(Across(FragmentsOf, Conns))
    /\ Cardinality(Across(ChargedOf, Conns)) <= MaxReplyBytes

\* Only an open connection has replies or something in its socket, and a socket
\* never has more than drainReplies allows.
SocketsInv ==
    \A c \in Conns :
        /\ buffered[c] <= MaxBuffered
        /\ conns[c] # "open" => replies[c] = <<>> /\ buffered[c] = 0

SocketInv == SocketType /\ QueueInv /\ ReplyInv /\ SocketsInv

\* Nothing has no fragments.
LEMMA NoFragments == Fragments(<<>>) = {} /\ Charged(<<>>) = {}
BY DEF Fragments, Charged

\* What waits can be counted, and what is charged is part of it.
LEMMA ChargedPart ==
    ASSUME IsFiniteSet(Across(FragmentsOf, Conns))
    PROVE  /\ IsFiniteSet(Across(ChargedOf, Conns))
           /\ Cardinality(Across(ChargedOf, Conns)) \in Nat
           /\ Cardinality(Across(ChargedOf, Conns)) <= Cardinality(Across(FragmentsOf, Conns))
<1>1. \A c \in Conns : Charged(replies[c]) \subseteq Fragments(replies[c]) BY DEF Charged
<1>2. \A c \in Conns : ChargedOf[c] \subseteq FragmentsOf[c] BY <1>1 DEF ChargedOf, FragmentsOf
<1>3. Across(ChargedOf, Conns) \subseteq Across(FragmentsOf, Conns) BY <1>2 DEF Across
<1> QED BY <1>3, FS_Subset, FS_CardinalityType

\* The limits of the socket are numbers.
LEMMA LimitsAreNumbers ==
    /\ MaxQueue \in Nat /\ MaxQueuedBytes \in Nat /\ MaxReplyBytes \in Nat /\ MaxBuffered \in Nat \ {0}
BY SocketAssumption

\* The first state satisfies the invariant.
LEMMA InitSocket == SocketInit => SocketInv
<1> SUFFICES ASSUME SocketInit PROVE SocketInv OBVIOUS
<1> USE DEF SocketInit
<1>1. SocketType BY DEF SocketType
<1>2. QueueInv
  <2>1. TotalSize(<<>>) = 0 BY NoFragments, FS_EmptySet DEF TotalSize
  <2>2. queue = <<>> /\ queuedBytes = 0 /\ Len(<<>>) = 0 BY EmptySeq
  <2> QED BY <2>1, <2>2, LimitsAreNumbers DEF QueueInv
<1>3. \A c \in Conns : FragmentsOf[c] = {} /\ ChargedOf[c] = {}
  BY NoFragments DEF FragmentsOf, ChargedOf
<1>4. Across(FragmentsOf, Conns) = {} /\ Across(ChargedOf, Conns) = {} BY <1>3 DEF Across
<1>5. ReplyInv BY <1>4, FS_EmptySet, LimitsAreNumbers DEF ReplyInv
<1>6. SocketsInv BY LimitsAreNumbers DEF SocketsInv
<1> QED BY <1>1, <1>2, <1>5, <1>6 DEF SocketInv

\* A step that leaves the replies alone leaves their count right.
LEMMA SameReplies ==
    ASSUME ReplyInv, UNCHANGED <<replies, replyBytes>> PROVE ReplyInv'
BY DEF ReplyInv, FragmentsOf, ChargedOf, Across

\* A step that leaves the queue alone leaves its count right.
LEMMA SameQueue ==
    ASSUME QueueInv, UNCHANGED <<queue, queuedBytes>> PROVE QueueInv'
BY DEF QueueInv

-----------------------------------------------------------------------------
(* The replies of one connection change, or connections close.             *)

\* The replies of c are replaced by t: the count changes by the difference.
LEMMA RepliesOfOne ==
    ASSUME SocketInv, NEW c \in Conns, NEW t \in Seq(Answers),
           replies' = [replies EXCEPT ![c] = t]
    PROVE  /\ IsFiniteSet(Across(FragmentsOf, Conns))'
           /\ Cardinality(Across(FragmentsOf, Conns))' \in Nat
           /\ Cardinality(Across(FragmentsOf, Conns))' + TotalSize(replies[c])
                = replyBytes + TotalSize(t)
           /\ TotalSize(replies[c]) \in Nat /\ TotalSize(t) \in Nat
           /\ Cardinality(Charged(t)) <= Cardinality(Charged(replies[c]))
                => Cardinality(Across(ChargedOf, Conns))' <= MaxReplyBytes
<1> USE DEF SocketInv
<1>1. replies[c] \in Seq(Answers) BY DEF SocketType
<1>2. ASSUME NEW s \in Seq(Answers) PROVE IsFiniteSet(Fragments(s)) /\ IsFiniteSet(Charged(s))
  <2>1. Len(s) \in Nat /\ DOMAIN s = 1..Len(s) BY LenProperties
  <2>2. \A i \in 1..Len(s) : s[i] \in Answers BY ElementOfSeq
  <2>3. \A i \in 1..Len(s) : s[i].size \in Nat BY <2>2 DEF Answers
  <2>4. IsFiniteSet(Fragments(s)) BY <2>1, <2>3, FragmentsFinite
  <2> QED BY <2>4, FS_Subset DEF Charged
<1>3. replies'[c] = t /\ \A d \in Conns \ {c} : replies'[d] = replies[d] BY DEF SocketType
<1>4. /\ FragmentsOf[c] = Fragments(replies[c]) /\ ChargedOf[c] = Charged(replies[c])
      /\ FragmentsOf'[c] = Fragments(t) /\ ChargedOf'[c] = Charged(t)
  BY <1>3 DEF FragmentsOf, ChargedOf
<1>5. \A d \in Conns \ {c} : FragmentsOf'[d] = FragmentsOf[d] /\ ChargedOf'[d] = ChargedOf[d]
  BY <1>3 DEF FragmentsOf, ChargedOf
<1>6. IsFiniteSet(Across(FragmentsOf, Conns)) BY DEF ReplyInv
<1>7. /\ IsFiniteSet(FragmentsOf[c]) /\ IsFiniteSet(FragmentsOf'[c])
      /\ IsFiniteSet(ChargedOf[c]) /\ IsFiniteSet(ChargedOf'[c])
  BY <1>1, <1>2, <1>4
<1>8. /\ IsFiniteSet(Across(FragmentsOf', Conns))
      /\ Cardinality(FragmentsOf[c]) \in Nat /\ Cardinality(FragmentsOf'[c]) \in Nat
      /\ Cardinality(Across(FragmentsOf', Conns)) \in Nat
      /\ Cardinality(Across(FragmentsOf', Conns)) + Cardinality(FragmentsOf[c])
           = Cardinality(Across(FragmentsOf, Conns)) + Cardinality(FragmentsOf'[c])
  BY <1>5, <1>6, <1>7, AcrossOne
<1>9. IsFiniteSet(Across(ChargedOf, Conns)) BY <1>6, ChargedPart
<1>10. /\ Cardinality(ChargedOf[c]) \in Nat /\ Cardinality(ChargedOf'[c]) \in Nat
       /\ Cardinality(Across(ChargedOf, Conns)) \in Nat /\ Cardinality(Across(ChargedOf', Conns)) \in Nat
       /\ Cardinality(Across(ChargedOf', Conns)) + Cardinality(ChargedOf[c])
            = Cardinality(Across(ChargedOf, Conns)) + Cardinality(ChargedOf'[c])
  BY <1>5, <1>7, <1>9, AcrossOne
<1>11. Across(FragmentsOf, Conns)' = Across(FragmentsOf', Conns)
       /\ Across(ChargedOf, Conns)' = Across(ChargedOf', Conns)
  BY DEF Across
<1>12. /\ IsFiniteSet(Across(FragmentsOf, Conns))'
       /\ Cardinality(Across(FragmentsOf, Conns))' = Cardinality(Across(FragmentsOf', Conns))
       /\ Cardinality(Across(ChargedOf, Conns))' = Cardinality(Across(ChargedOf', Conns))
  BY <1>8, <1>11
<1>13. replyBytes = Cardinality(Across(FragmentsOf, Conns))
       /\ Cardinality(Across(ChargedOf, Conns)) <= MaxReplyBytes
  BY DEF ReplyInv
<1>14. ASSUME Cardinality(Charged(t)) <= Cardinality(Charged(replies[c]))
       PROVE  Cardinality(Across(ChargedOf', Conns)) <= MaxReplyBytes
  BY <1>4, <1>10, <1>13, <1>14, LimitsAreNumbers
<1> QED BY <1>4, <1>8, <1>12, <1>13, <1>14 DEF TotalSize

\* close: the replies of the connections C are counted off.
LEMMA CloseAllKeeps ==
    ASSUME SocketInv, NEW C \in SUBSET Conns, CloseAll(C)
    PROVE  /\ conns' \in [Conns -> {"new", "open", "closed"}]
           /\ replies' \in [Conns -> Seq(Answers)]
           /\ replyBytes' \in Nat /\ buffered' \in [Conns -> Nat]
           /\ ReplyInv' /\ SocketsInv'
<1> USE DEF SocketInv, CloseAll
<1>1. /\ conns' \in [Conns -> {"new", "open", "closed"}]
      /\ replies' \in [Conns -> Seq(Answers)]
      /\ buffered' \in [Conns -> Nat]
  BY DEF SocketType
<1>2. SocketsInv' BY <1>1, LimitsAreNumbers DEF SocketsInv, SocketType
<1>3. (\A d \in C : FragmentsOf'[d] = {}) /\ \A d \in Conns \ C : FragmentsOf'[d] = FragmentsOf[d]
  BY NoFragments DEF FragmentsOf
<1>4. (\A d \in C : ChargedOf'[d] = {}) /\ \A d \in Conns \ C : ChargedOf'[d] = ChargedOf[d]
  BY NoFragments DEF ChargedOf
<1>5. IsFiniteSet(Across(FragmentsOf, Conns)) /\ replyBytes = Cardinality(Across(FragmentsOf, Conns))
      /\ Cardinality(Across(ChargedOf, Conns)) <= MaxReplyBytes
  BY DEF ReplyInv
<1>6. IsFiniteSet(Across(ChargedOf, Conns)) BY <1>5, ChargedPart
<1>7. /\ IsFiniteSet(Across(FragmentsOf', Conns))
      /\ Cardinality(Across(FragmentsOf', Conns)) \in Nat
      /\ Cardinality(Across(FragmentsOf, C)) \in Nat
      /\ Cardinality(Across(FragmentsOf', Conns)) + Cardinality(Across(FragmentsOf, C))
           = Cardinality(Across(FragmentsOf, Conns))
  <2>1. Across(FragmentsOf', Conns) = Across(FragmentsOf, Conns \ C) BY <1>3 DEF Across
  <2> HIDE DEF SocketInv, CloseAll
  <2> QED BY <1>5, <2>1, AcrossNone
<1>8. /\ Cardinality(Across(ChargedOf, Conns)) \in Nat
      /\ Cardinality(Across(ChargedOf, C)) \in Nat
      /\ Cardinality(Across(ChargedOf', Conns)) \in Nat
      /\ Cardinality(Across(ChargedOf', Conns)) + Cardinality(Across(ChargedOf, C))
           = Cardinality(Across(ChargedOf, Conns))
  <2>1. Across(ChargedOf', Conns) = Across(ChargedOf, Conns \ C) BY <1>4 DEF Across
  <2> HIDE DEF SocketInv, CloseAll
  <2> QED BY <1>6, <2>1, AcrossNone
<1>9. Across(FragmentsOf, Conns)' = Across(FragmentsOf', Conns)
      /\ Across(ChargedOf, Conns)' = Across(ChargedOf', Conns)
  BY DEF Across
<1>10. SizeOfReplies(C) = Cardinality(Across(FragmentsOf, C))
  BY DEF SizeOfReplies, Across, FragmentsOf
<1>11. replyBytes' = Cardinality(Across(FragmentsOf', Conns)) BY <1>5, <1>7, <1>10
<1>12. Cardinality(Across(ChargedOf', Conns)) <= MaxReplyBytes BY <1>5, <1>8, LimitsAreNumbers
<1>13. ReplyInv' BY <1>7, <1>9, <1>11, <1>12 DEF ReplyInv
<1> QED BY <1>1, <1>2, <1>7, <1>11, <1>13
-----------------------------------------------------------------------------
(* The steps of the socket.                                                *)

\* upgrade and open: a new connection has nothing yet.
LEMMA ConnectKeeps ==
    ASSUME SocketInv, NEW c \in Conns, Connect(c) PROVE SocketInv'
<1> USE DEF SocketInv
<1>1. UNCHANGED <<message, queue, queuedBytes, work, deferred, replies, replyBytes, buffered, draining>>
      /\ conns[c] = "new" /\ conns' = [conns EXCEPT ![c] = "open"]
  BY DEF Connect, admissionVars, replyVars
<1>2. SocketType' BY <1>1 DEF SocketType
<1>3. QueueInv' /\ ReplyInv' BY <1>1, SameQueue, SameReplies
<1>4. SocketsInv' BY <1>1 DEF SocketsInv, SocketType
<1> QED BY <1>2, <1>3, <1>4

\* A Broker hangs up.
LEMMA HangupKeeps ==
    ASSUME SocketInv, NEW c \in Conns, Hangup(c) PROVE SocketInv'
<1> USE DEF SocketInv
<1>1. UNCHANGED <<message, queue, queuedBytes, work, deferred, draining>> /\ CloseAll({c})
  BY DEF Hangup, admissionVars
<1>2. /\ conns' \in [Conns -> {"new", "open", "closed"}] /\ replies' \in [Conns -> Seq(Answers)]
      /\ replyBytes' \in Nat /\ buffered' \in [Conns -> Nat] /\ ReplyInv' /\ SocketsInv'
  BY <1>1, CloseAllKeeps
<1>3. SocketType' BY <1>1, <1>2 DEF SocketType
<1> QED BY <1>1, <1>2, <1>3, SameQueue

\* message, up to the mutex.
LEMMA ReceiveKeeps ==
    ASSUME SocketInv, NEW r \in Requests, Receive(r) PROVE SocketInv'
<1> USE DEF SocketInv
<1>1. UNCHANGED <<queue, queuedBytes, work, deferred, draining>> BY DEF Receive
<1>2. QueueInv' BY <1>1, SameQueue
<1>3. CASE Accepting
  <2>1. message' = r /\ UNCHANGED <<conns, replies, replyBytes, buffered>> BY <1>3 DEF Receive
  <2>2. SocketType' BY <1>1, <2>1 DEF SocketType
  <2>3. SocketsInv' BY <2>1 DEF SocketsInv
  <2> QED BY <1>2, <2>1, <2>2, <2>3, SameReplies
<1>4. CASE ~Accepting
  <2>1. CloseAll({ConnOf[r]}) /\ UNCHANGED message BY <1>4 DEF Receive
  <2>2. {ConnOf[r]} \in SUBSET Conns BY SocketAssumption
  <2>3. /\ conns' \in [Conns -> {"new", "open", "closed"}] /\ replies' \in [Conns -> Seq(Answers)]
        /\ replyBytes' \in Nat /\ buffered' \in [Conns -> Nat] /\ ReplyInv' /\ SocketsInv'
    BY <2>1, <2>2, CloseAllKeeps
  <2>4. SocketType' BY <1>1, <2>1, <2>3 DEF SocketType
  <2> QED BY <1>2, <2>3, <2>4
<1> QED BY <1>3, <1>4

\* Replies to a request.
LEMMA ReplyType ==
    ASSUME NEW r \in Requests, NEW size \in Nat
    PROVE  Reply(r, size, FALSE) \in Answers
BY DEF Reply, Answers

\* BROKER_BUSY.
LEMMA BusyType ==
    ASSUME NEW r \in Requests
    PROVE  Busy(r) \in Answers /\ Busy(r).size = 1 /\ Busy(r).busy
BY DEF Busy, Reply, Answers

\* An answer more is deferred.
LEMMA DeferredMore ==
    ASSUME SocketInv, NEW a \in Answers \cup {CloseRequest}, deferred' = Append(deferred, a)
    PROVE  deferred' \in Seq(Answers \cup {CloseRequest})
BY DEF SocketInv, SocketType

\* message, with the mutex: a request that is admitted is counted, one that is
\* not is answered BROKER_BUSY.
LEMMA AdmitKeeps ==
    ASSUME SocketInv, Admit PROVE SocketInv'
<1> USE DEF SocketInv
<1>1. UNCHANGED <<conns, work, replies, replyBytes, buffered, draining>> /\ message' = None
  BY DEF Admit, replyVars
<1>2. message \in Requests BY DEF Admit, SocketType
<1>3. SizeOf[message] \in Nat BY <1>2, SocketAssumption
<1>4. ReplyInv' BY <1>1, SameReplies
<1>5. SocketsInv' BY <1>1 DEF SocketsInv
<1>6. CASE Len(queue) >= MaxQueue \/ queuedBytes + SizeOf[message] > MaxQueuedBytes
  <2>1. deferred' = Append(deferred, Busy(message)) /\ UNCHANGED <<queue, queuedBytes>>
    BY <1>6 DEF Admit
  <2>2. Busy(message) \in Answers BY <1>2, BusyType
  <2>3. deferred' \in Seq(Answers \cup {CloseRequest}) BY <2>1, <2>2, DeferredMore
  <2>4. SocketType' BY <1>1, <2>1, <2>3 DEF SocketType
  <2> QED BY <1>4, <1>5, <2>1, <2>4, SameQueue
<1>7. CASE ~(Len(queue) >= MaxQueue \/ queuedBytes + SizeOf[message] > MaxQueuedBytes)
  <2> DEFINE e == [request |-> message, size |-> SizeOf[message]]
  <2>1. queue' = Append(queue, e) /\ queuedBytes' = queuedBytes + SizeOf[message] /\ UNCHANGED deferred
    BY <1>7 DEF Admit
  <2>2. e \in Entries /\ e.size = SizeOf[message] BY <1>2, <1>3 DEF Entries
  <2>3. queue \in Seq(Entries) /\ Len(queue) \in Nat /\ queuedBytes \in Nat BY LenProperties DEF SocketType
  <2> HIDE DEF e
  <2>4. /\ queue' \in Seq(Entries) /\ Len(queue') = Len(queue) + 1
        /\ \A i \in 1..Len(queue) : queue'[i] = queue[i]
        /\ queue'[Len(queue) + 1] = e
    BY <2>1, <2>2, <2>3
  <2>5. DOMAIN queue = 1..Len(queue) /\ DOMAIN queue' = 1..(Len(queue) + 1) BY <2>3, <2>4, LenProperties
  <2>6. \A i \in 1..Len(queue) : queue[i] \in Entries BY <2>3, ElementOfSeq
  <2>7. \A i \in 1..Len(queue) : queue[i].size \in Nat BY <2>6 DEF Entries
  <2>8. queue'[Len(queue) + 1].size = SizeOf[message] /\ queue'[Len(queue) + 1].size \in Nat
    BY <1>3, <2>2, <2>4
  <2>9. TotalSize(queue') = TotalSize(queue) + SizeOf[message]
    <3> HIDE DEF SocketInv
    <3>1. Len(queue) \in Nat BY <2>3
    <3>2. \A i \in 1..Len(queue) : queue'[i] = queue[i] BY <2>4
    <3>3. TotalSize(queue') = TotalSize(queue) + queue'[Len(queue) + 1].size
      BY <2>5, <2>7, <2>8, <3>1, <3>2, AppendedSize
    <3> QED BY <2>8, <3>3
  <2>10. queuedBytes' <= MaxQueuedBytes /\ Len(queue') <= MaxQueue
    BY <1>3, <1>7, <2>1, <2>3, <2>4, LimitsAreNumbers
  <2>11. QueueInv' BY <2>1, <2>9, <2>10 DEF QueueInv
  <2>12. SocketType' BY <1>1, <1>3, <2>1, <2>3, <2>4 DEF SocketType
  <2> QED BY <1>4, <1>5, <2>11, <2>12
<1> QED BY <1>6, <1>7

\* A worker takes the first request, whose size is counted off.
LEMMA TakeKeeps ==
    ASSUME SocketInv, NEW w \in Workers, Take(w) PROVE SocketInv'
<1> USE DEF SocketInv
<1>1. /\ UNCHANGED <<conns, message, deferred, replies, replyBytes, buffered, draining>>
      /\ queue # <<>> /\ queue' = Tail(queue) /\ queuedBytes' = queuedBytes - Head(queue).size
      /\ work' = [work EXCEPT ![w] = Head(queue).request]
  BY DEF Take, replyVars
<1>2. ReplyInv' BY <1>1, SameReplies
<1>3. SocketsInv' BY <1>1 DEF SocketsInv
<1>4. queue \in Seq(Entries) /\ Len(queue) \in Nat \ {0} /\ queuedBytes \in Nat
  BY <1>1, EmptySeq DEF SocketType
<1>5. /\ Head(queue) \in Entries /\ queue' \in Seq(Entries) /\ Len(queue') = Len(queue) - 1
      /\ \A i \in 1..Len(queue') : queue'[i] = queue[i + 1]
      /\ Head(queue) = queue[1]
  BY <1>1, <1>4, HeadTailProperties
<1>6. PICK n \in Nat : Len(queue) = n + 1 /\ Len(queue') = n
  <2>1. Len(queue) - 1 \in Nat /\ Len(queue) = (Len(queue) - 1) + 1 BY <1>4
  <2> QED BY <2>1, <1>5
<1>7. DOMAIN queue = 1..(n + 1) /\ DOMAIN queue' = 1..n BY <1>4, <1>5, <1>6, LenProperties
<1>8. \A i \in 1..(n + 1) : queue[i] \in Entries BY <1>4, <1>6, ElementOfSeq
<1>9. \A i \in 1..(n + 1) : queue[i].size \in Nat BY <1>8 DEF Entries
<1>10. \A i \in 1..n : queue'[i] = queue[i + 1] BY <1>5, <1>6
<1>11. /\ TotalSize(queue') + queue[1].size = TotalSize(queue)
       /\ IsFiniteSet(Fragments(queue'))
  BY <1>7, <1>9, <1>10, TailSize
<1>12. TotalSize(queue') \in Nat /\ queue[1].size \in Nat
  <2>1. Cardinality(Fragments(queue')) \in Nat BY <1>11, FS_CardinalityType
  <2>2. 1 \in 1..(n + 1) OBVIOUS
  <2> QED BY <1>9, <2>1, <2>2 DEF TotalSize
<1>13. queuedBytes' = TotalSize(queue') /\ queuedBytes' <= queuedBytes
  BY <1>1, <1>4, <1>5, <1>11, <1>12 DEF QueueInv
<1>14. QueueInv' BY <1>4, <1>5, <1>12, <1>13, LimitsAreNumbers DEF QueueInv
<1>15. Head(queue).request \in Requests BY <1>5 DEF Entries
<1>16. SocketType' BY <1>1, <1>5, <1>12, <1>13, <1>15 DEF SocketType
<1> QED BY <1>2, <1>3, <1>14, <1>16

\* A worker answers.
LEMMA AnswerKeeps ==
    ASSUME SocketInv, NEW w \in Workers, Answer(w) PROVE SocketInv'
<1> USE DEF SocketInv
<1>1. /\ UNCHANGED <<conns, message, queue, queuedBytes, replies, replyBytes, buffered, draining>>
      /\ work[w] \in Requests /\ work' = [work EXCEPT ![w] = None]
      /\ deferred' = Append(deferred, Reply(work[w], SizeOf[work[w]], FALSE))
  BY DEF Answer, admissionVars, replyVars
<1>2. SizeOf[work[w]] \in Nat BY <1>1, SocketAssumption
<1>3. Reply(work[w], SizeOf[work[w]], FALSE) \in Answers BY <1>1, <1>2, ReplyType
<1>4. deferred' \in Seq(Answers \cup {CloseRequest}) BY <1>1, <1>3, DeferredMore
<1>5. SocketType' BY <1>1, <1>4 DEF SocketType
<1>6. SocketsInv' BY <1>1 DEF SocketsInv
<1> QED BY <1>1, <1>5, <1>6, SameQueue, SameReplies

\* A worker leaves.
LEMMA LeaveKeeps ==
    ASSUME SocketInv, NEW w \in Workers, Leave(w) PROVE SocketInv'
<1> USE DEF SocketInv
<1>1. /\ UNCHANGED <<conns, message, queue, queuedBytes, deferred, replies, replyBytes, buffered, draining>>
      /\ work' = [work EXCEPT ![w] = "gone"]
  BY DEF Leave, admissionVars, replyVars
<1>2. SocketType' BY <1>1 DEF SocketType
<1>3. SocketsInv' BY <1>1 DEF SocketsInv
<1> QED BY <1>1, <1>2, <1>3, SameQueue, SameReplies

\* enqueueReply: what waits afterwards is counted, and within the limit unless
\* it is BROKER_BUSY.
LEMMA RunDeferredKeeps ==
    ASSUME SocketInv, RunDeferred PROVE SocketInv'
<1> USE DEF SocketInv
<1> DEFINE reply == Waiting(Head(deferred))
           c == ConnOf[reply.request]
<1>1. /\ UNCHANGED <<conns, message, queue, queuedBytes, work, buffered>>
      /\ deferred # <<>> /\ Head(deferred) # CloseRequest /\ deferred' = Tail(deferred)
  BY DEF RunDeferred, admissionVars
<1>2. /\ Head(deferred) \in Answers /\ deferred' \in Seq(Answers \cup {CloseRequest})
  BY <1>1, HeadTailProperties DEF SocketType
<1>3. /\ Head(deferred).request \in Requests /\ Head(deferred).size \in Nat BY <1>2 DEF Answers
<1>4. replyBytes \in Nat BY DEF SocketType
<1>5. /\ reply \in Answers /\ reply.size \in Nat
      /\ reply.busy \/ replyBytes + reply.size <= MaxReplyBytes
  <2>1. CASE Head(deferred).size > MaxReply \/ replyBytes + Head(deferred).size > MaxReplyBytes
    <3>1. reply = Busy(Head(deferred).request) BY <2>1 DEF Waiting
    <3>2. /\ Busy(Head(deferred).request) \in Answers /\ Busy(Head(deferred).request).size = 1
          /\ Busy(Head(deferred).request).busy
      BY <1>3, BusyType
    <3> HIDE DEF reply
    <3> QED BY <3>1, <3>2
  <2>2. CASE ~(Head(deferred).size > MaxReply \/ replyBytes + Head(deferred).size > MaxReplyBytes)
    <3>1. reply = Head(deferred) BY <2>2 DEF Waiting
    <3> QED BY <1>2, <1>3, <1>4, <2>2, <3>1, LimitsAreNumbers
  <2> QED BY <2>1, <2>2
<1>6. c \in Conns BY <1>5, SocketAssumption DEF Answers
<1>7. QueueInv' BY <1>1, SameQueue
<1>8. CASE conns[c] # "open"
  <2>1. UNCHANGED <<replies, replyBytes, draining>> BY <1>8 DEF RunDeferred
  <2>2. SocketType' BY <1>1, <1>2, <2>1 DEF SocketType
  <2>3. SocketsInv' BY <1>1, <2>1 DEF SocketsInv
  <2> QED BY <1>7, <2>1, <2>2, <2>3, SameReplies
<1>9. CASE conns[c] = "open"
  <2> DEFINE t == Append(replies[c], reply)
  <2>1. replyBytes' = replyBytes + reply.size /\ replies' = [replies EXCEPT ![c] = t] /\ draining' = c
    BY <1>9 DEF RunDeferred
  <2>2. replies[c] \in Seq(Answers) /\ Len(replies[c]) \in Nat BY <1>6, LenProperties DEF SocketType
  <2> HIDE DEF reply, c
  <2>3. /\ t \in Seq(Answers) /\ Len(t) = Len(replies[c]) + 1
        /\ \A i \in 1..Len(replies[c]) : t[i] = replies[c][i]
        /\ t[Len(replies[c]) + 1] = reply
    BY <1>5, <2>2
  <2> HIDE DEF t
  <2>4. DOMAIN replies[c] = 1..Len(replies[c]) /\ DOMAIN t = 1..(Len(replies[c]) + 1)
    BY <2>2, <2>3, LenProperties
  <2>5. \A i \in 1..Len(replies[c]) : replies[c][i] \in Answers BY <2>2, ElementOfSeq
  <2>6. \A i \in 1..Len(replies[c]) : replies[c][i].size \in Nat BY <2>5 DEF Answers
  <2>7. /\ IsFiniteSet(Fragments(t))
        /\ TotalSize(t) = TotalSize(replies[c]) + reply.size
        /\ reply.busy => Charged(t) = Charged(replies[c])
    BY <1>5, <2>2, <2>3, <2>4, <2>6, AppendedSize
  <2>8. /\ IsFiniteSet(Across(FragmentsOf, Conns))'
        /\ Cardinality(Across(FragmentsOf, Conns))' \in Nat
        /\ Cardinality(Across(FragmentsOf, Conns))' + TotalSize(replies[c])
             = replyBytes + TotalSize(t)
        /\ TotalSize(replies[c]) \in Nat /\ TotalSize(t) \in Nat
        /\ Cardinality(Charged(t)) <= Cardinality(Charged(replies[c]))
             => Cardinality(Across(ChargedOf, Conns))' <= MaxReplyBytes
    BY <1>6, <2>1, <2>3, RepliesOfOne
  <2>9. replyBytes' = Cardinality(Across(FragmentsOf, Conns))'
    BY <1>4, <1>5, <2>1, <2>7, <2>8
  <2>10. Cardinality(Across(ChargedOf, Conns))' <= MaxReplyBytes
    <3>1. CASE reply.busy
      <4>1. Charged(t) = Charged(replies[c]) BY <2>7, <3>1
      <4>2. Cardinality(Charged(t)) \in Nat BY <2>7, FS_Subset, FS_CardinalityType DEF Charged
      <4> QED BY <2>8, <4>1, <4>2
    <3>2. CASE replyBytes + reply.size <= MaxReplyBytes
      <4>1. (/\ Cardinality(Across(ChargedOf, Conns)) \in Nat
             /\ Cardinality(Across(ChargedOf, Conns)) <= Cardinality(Across(FragmentsOf, Conns)))'
        BY <2>8, ChargedPart, PTL
      <4> QED BY <1>4, <1>5, <2>1, <2>8, <2>9, <3>2, <4>1, LimitsAreNumbers
    <3> QED BY <1>5, <3>1, <3>2
  <2>11. ReplyInv' BY <2>8, <2>9, <2>10 DEF ReplyInv
  <2>12. SocketType'
    <3>1. replies' \in [Conns -> Seq(Answers)] BY <1>6, <2>1, <2>3 DEF SocketType
    <3>2. replyBytes' \in Nat BY <1>4, <1>5, <2>1
    <3> QED BY <1>1, <1>2, <1>6, <2>1, <3>1, <3>2 DEF SocketType
  <2>13. SocketsInv' BY <1>1, <1>6, <1>9, <2>1, <2>3 DEF SocketsInv, SocketType
  <2> QED BY <1>7, <2>11, <2>12, <2>13
<1> QED BY <1>8, <1>9

\* drainReplies stops, because nothing is left or the socket has enough.
LEMMA DrainEndsKeeps ==
    ASSUME SocketInv, DrainEnds PROVE SocketInv'
<1> USE DEF SocketInv
<1>1. /\ UNCHANGED <<conns, message, queue, queuedBytes, work, deferred, replies, replyBytes, buffered>>
      /\ draining' = None
  BY DEF DrainEnds, admissionVars
<1>2. SocketType' BY <1>1 DEF SocketType
<1>3. SocketsInv' BY <1>1 DEF SocketsInv
<1> QED BY <1>1, <1>2, <1>3, SameQueue, SameReplies

\* A fragment of the first reply is sent: the reply stays with its size, or is
\* counted off with its last fragment.
LEMMA SentReplies ==
    ASSUME SocketInv, NEW c \in Conns, draining = c, SendFragment
    PROVE  /\ replies[c] # <<>>
           /\ replies' \in [Conns -> Seq(Answers)] /\ replyBytes' \in Nat /\ ReplyInv'
           /\ \A d \in Conns : d # c => replies'[d] = replies[d]
<1> USE DEF SocketInv
<1> DEFINE s == replies[c]
           reply == Head(s)
           last == reply.offset + 1 = reply.size
           t == IF last THEN Tail(s) ELSE [s EXCEPT ![1] = [reply EXCEPT !.offset = @ + 1]]
<1>1. /\ s # <<>> /\ replies' = [replies EXCEPT ![c] = t]
      /\ replyBytes' = IF last THEN replyBytes - reply.size ELSE replyBytes
  <2>1. s # <<>> BY DEF SendFragment
  <2>2. replyBytes' = IF last THEN replyBytes - reply.size ELSE replyBytes BY DEF SendFragment
  <2>3. replies' = [replies EXCEPT ![c] = t] BY DEF SendFragment
  <2> QED BY <2>1, <2>2, <2>3
<1>2. s \in Seq(Answers) /\ replyBytes \in Nat BY DEF SocketType
<1> HIDE DEF s
<1>3. Len(s) \in Nat \ {0} BY <1>1, <1>2, EmptySeq
<1>4. PICK n \in Nat : Len(s) = n + 1
  <2>1. Len(s) - 1 \in Nat /\ Len(s) = (Len(s) - 1) + 1 BY <1>3
  <2> QED BY <2>1
<1>5. DOMAIN s = 1..(n + 1) /\ 1 \in 1..(n + 1) BY <1>2, <1>4, LenProperties
<1>6. \A i \in 1..(n + 1) : s[i] \in Answers BY <1>2, <1>4, ElementOfSeq
<1>7. \A i \in 1..(n + 1) : s[i].size \in Nat BY <1>6 DEF Answers
<1>8. reply = s[1] /\ reply \in Answers /\ reply.size \in Nat BY <1>1, <1>2, <1>5, <1>6, <1>7, HeadTailProperties
<1>9. /\ t \in Seq(Answers)
      /\ TotalSize(t) + (replyBytes - replyBytes') = TotalSize(s)
      /\ replyBytes' \in Int
      /\ Cardinality(Charged(t)) <= Cardinality(Charged(s))
  <2>1. CASE last
    <3>1. t = Tail(s) BY <2>1
    <3>2. t \in Seq(Answers) /\ Len(t) = n /\ \A i \in 1..n : t[i] = s[i + 1]
      BY <1>1, <1>2, <1>4, <3>1, HeadTailProperties
    <3>3. DOMAIN t = 1..n BY <3>2, LenProperties
    <3> HIDE DEF t
    <3>4. /\ TotalSize(t) + s[1].size = TotalSize(s)
          /\ Cardinality(Charged(t)) <= Cardinality(Charged(s))
      BY <1>5, <1>7, <3>2, <3>3, TailSize
    <3>5. replyBytes' = replyBytes - reply.size BY <1>1, <2>1
    <3>6. replyBytes - replyBytes' = reply.size /\ replyBytes' \in Int BY <1>2, <1>8, <3>5
    <3> QED BY <1>8, <3>2, <3>4, <3>6
  <2>2. CASE ~last
    <3>1. t = [s EXCEPT ![1] = [s[1] EXCEPT !.offset = @ + 1]] BY <1>8, <2>2
    <3> DEFINE e == [s[1] EXCEPT !.offset = @ + 1]
    <3>2. e \in Answers /\ e.size = s[1].size /\ e.busy = s[1].busy BY <1>8 DEF Answers
    <3> HIDE DEF e
    <3>3. /\ t \in Seq(Answers) /\ Len(t) = Len(s)
          /\ \A i \in 1..(n + 1) : t[i] = IF i = 1 THEN e ELSE s[i]
      BY <1>2, <1>4, <1>5, <3>1, <3>2, ExceptSeq DEF e
    <3> HIDE DEF t
    <3>4. DOMAIN t = 1..(n + 1) BY <1>4, <3>3, LenProperties
    <3>5. \A i \in 1..(n + 1) : t[i].size = s[i].size /\ t[i].busy = s[i].busy BY <3>2, <3>3
    <3>6. Fragments(t) = Fragments(s)
      <4>1. Fragments(t) = UNION {{i} \X (1..t[i].size) : i \in 1..(n + 1)} BY <3>4 DEF Fragments
      <4>2. Fragments(s) = UNION {{i} \X (1..s[i].size) : i \in 1..(n + 1)} BY <1>5 DEF Fragments
      <4>3. {{i} \X (1..t[i].size) : i \in 1..(n + 1)} = {{i} \X (1..s[i].size) : i \in 1..(n + 1)}
        BY <3>5
      <4> QED BY <4>1, <4>2, <4>3
    <3>7. \A f \in Fragments(s) : f[1] \in 1..(n + 1) BY <1>5 DEF Fragments
    <3>8. Charged(t) = Charged(s) BY <3>5, <3>6, <3>7 DEF Charged
    <3>9. replyBytes' = replyBytes BY <1>1, <2>2
    <3>10. replyBytes - replyBytes' = 0 /\ replyBytes' \in Int BY <1>2, <3>9
    <3>11. IsFiniteSet(Fragments(s)) BY <1>5, <1>7, FragmentsFinite
    <3>12. Cardinality(Fragments(s)) \in Nat /\ Cardinality(Charged(s)) \in Nat
      BY <3>11, FS_Subset, FS_CardinalityType DEF Charged
    <3>13. TotalSize(t) = TotalSize(s) /\ TotalSize(s) \in Nat BY <3>6, <3>12 DEF TotalSize
    <3>14. Cardinality(Charged(t)) <= Cardinality(Charged(s)) BY <3>8, <3>12
    <3>15. TotalSize(t) + (replyBytes - replyBytes') = TotalSize(s) BY <3>10, <3>13
    <3> QED BY <3>3, <3>10, <3>14, <3>15
  <2> QED BY <2>1, <2>2
<1> HIDE DEF t, last, reply
<1>10. /\ IsFiniteSet(Across(FragmentsOf, Conns))'
       /\ Cardinality(Across(FragmentsOf, Conns))' \in Nat
       /\ Cardinality(Across(FragmentsOf, Conns))' + TotalSize(s) = replyBytes + TotalSize(t)
       /\ TotalSize(s) \in Nat /\ TotalSize(t) \in Nat
       /\ Cardinality(Across(ChargedOf, Conns))' <= MaxReplyBytes
  BY <1>1, <1>9, RepliesOfOne DEF s
<1>11. replyBytes' = Cardinality(Across(FragmentsOf, Conns))' BY <1>2, <1>9, <1>10
<1>12. ReplyInv' BY <1>10, <1>11 DEF ReplyInv
<1>13. replies' \in [Conns -> Seq(Answers)] /\ \A d \in Conns : d # c => replies'[d] = replies[d]
  BY <1>1, <1>9 DEF SocketType
<1>14. replies[c] # <<>> BY <1>1 DEF s
<1> QED BY <1>10, <1>11, <1>12, <1>13, <1>14

\* A turn of drainReplies.
LEMMA SendFragmentKeeps ==
    ASSUME SocketInv, SendFragment PROVE SocketInv'
<1> USE DEF SocketInv
<1>1. UNCHANGED <<conns, message, queue, queuedBytes, work, deferred>>
      /\ draining \in Conns /\ buffered[draining] < MaxBuffered
  BY DEF SendFragment, admissionVars, SocketType
<1>2. PICK c \in Conns : c = draining BY <1>1
<1>3. /\ replies[c] # <<>>
      /\ replies' \in [Conns -> Seq(Answers)] /\ replyBytes' \in Nat /\ ReplyInv'
      /\ \A d \in Conns : d # c => replies'[d] = replies[d]
  BY <1>2, SentReplies
<1>4. /\ buffered' \in [Conns -> Nat] /\ buffered'[c] <= MaxBuffered
      /\ draining' \in Conns \cup {None}
      /\ \A d \in Conns : d # c => buffered'[d] = buffered[d]
  <2>1. buffered \in [Conns -> Nat] /\ buffered[c] < MaxBuffered BY <1>1, <1>2 DEF SocketType
  <2>2. CASE UNCHANGED <<buffered, draining>> BY <1>1, <2>1, <2>2, LimitsAreNumbers
  <2>3. CASE buffered' = [buffered EXCEPT ![draining] = @ + 1] /\ draining' = None
    BY <1>2, <2>1, <2>3, LimitsAreNumbers
  <2> QED BY <2>2, <2>3 DEF SendFragment
<1>5. QueueInv' BY <1>1, SameQueue
<1>6. SocketType' BY <1>1, <1>3, <1>4 DEF SocketType
<1>7. conns[c] = "open" BY <1>3 DEF SocketsInv
<1>8. SocketsInv' BY <1>1, <1>3, <1>4, <1>7 DEF SocketsInv
<1> QED BY <1>3, <1>5, <1>6, <1>8

\* The Broker reads.
LEMMA DrainEventKeeps ==
    ASSUME SocketInv, NEW c \in Conns, DrainEvent(c) PROVE SocketInv'
<1> USE DEF SocketInv
<1>1. /\ UNCHANGED <<conns, message, queue, queuedBytes, work, deferred, replies, replyBytes>>
      /\ conns[c] = "open" /\ buffered[c] > 0
      /\ buffered' = [buffered EXCEPT ![c] = @ - 1] /\ draining' = c
  BY DEF DrainEvent, admissionVars
<1>2. buffered \in [Conns -> Nat] BY DEF SocketType
<1>3. buffered' \in [Conns -> Nat] /\ buffered'[c] <= buffered[c]
      /\ \A d \in Conns : d # c => buffered'[d] = buffered[d]
  BY <1>1, <1>2
<1>4. SocketType' BY <1>1, <1>3 DEF SocketType
<1>5. SocketsInv'
  <2>1. buffered[c] \in Nat /\ buffered'[c] \in Nat /\ buffered[c] <= MaxBuffered
    BY <1>2, <1>3 DEF SocketsInv
  <2>2. buffered'[c] <= MaxBuffered BY <1>3, <2>1, LimitsAreNumbers
  <2> QED BY <1>1, <1>3, <2>2 DEF SocketsInv
<1> QED BY <1>1, <1>4, <1>5, SameQueue, SameReplies

\* stop, up to the request to close everything.
LEMMA StopKeeps ==
    ASSUME SocketInv, StopAccepting \/ StopWorkers \/ StopLoop PROVE SocketInv'
<1> USE DEF SocketInv
<1>1. UNCHANGED <<conns, message, queue, queuedBytes, work, replies, replyBytes, buffered, draining>>
  BY DEF StopAccepting, StopWorkers, StopLoop, admissionVars, replyVars
<1>2. deferred' \in Seq(Answers \cup {CloseRequest})
  <2>1. CASE StopAccepting \/ StopWorkers BY <2>1 DEF StopAccepting, StopWorkers, SocketType
  <2>2. CASE StopLoop
    <3>1. deferred' = Append(deferred, CloseRequest) BY <2>2 DEF StopLoop
    <3> QED BY <3>1, DeferredMore
  <2> QED BY <2>1, <2>2
<1>3. SocketType' BY <1>1, <1>2 DEF SocketType
<1>4. SocketsInv' BY <1>1 DEF SocketsInv
<1> QED BY <1>1, <1>3, <1>4, SameQueue, SameReplies

\* The loop closes every connection.
LEMMA CloseEverythingKeeps ==
    ASSUME SocketInv, CloseEverything PROVE SocketInv'
<1> USE DEF SocketInv
<1> DEFINE Opened == {c \in Conns : conns[c] = "open"}
<1>1. /\ UNCHANGED <<message, queue, queuedBytes, work, draining>> /\ CloseAll(Opened)
      /\ deferred # <<>> /\ deferred' = Tail(deferred)
  BY DEF CloseEverything, admissionVars
<1>2. Opened \in SUBSET Conns OBVIOUS
<1> HIDE DEF Opened
<1>3. /\ conns' \in [Conns -> {"new", "open", "closed"}] /\ replies' \in [Conns -> Seq(Answers)]
      /\ replyBytes' \in Nat /\ buffered' \in [Conns -> Nat] /\ ReplyInv' /\ SocketsInv'
  BY <1>1, <1>2, CloseAllKeeps
<1>4. deferred' \in Seq(Answers \cup {CloseRequest}) BY <1>1, HeadTailProperties DEF SocketType
<1>5. SocketType' BY <1>1, <1>3, <1>4 DEF SocketType
<1> QED BY <1>1, <1>3, <1>5, SameQueue

\* The steps of the pool leave the socket alone.
LEMMA SameSocket ==
    ASSUME SocketInv, UNCHANGED socketVars PROVE SocketInv'
<1> USE DEF SocketInv
<1>1. UNCHANGED <<conns, message, queue, queuedBytes, work, deferred, replies, replyBytes, buffered, draining>>
  BY DEF socketVars, admissionVars, replyVars
<1>2. SocketType' BY <1>1 DEF SocketType
<1>3. SocketsInv' BY <1>1 DEF SocketsInv
<1> QED BY <1>1, <1>2, <1>3, SameQueue, SameReplies

\* Every step of the server keeps the invariant of the socket.
LEMMA SocketStepKeeps == SocketInv /\ [Next]_vars => SocketInv'
<1> SUFFICES ASSUME SocketInv, [Next]_vars PROVE SocketInv' OBVIOUS
<1>1. CASE UNCHANGED vars BY <1>1, SameSocket DEF vars
<1>2. CASE Broker BY <1>2, ConnectKeeps, HangupKeeps, ReceiveKeeps DEF Broker
<1>3. CASE Loop
  BY <1>3, AdmitKeeps, RunDeferredKeeps, DrainEndsKeeps, SendFragmentKeeps, DrainEventKeeps,
     CloseEverythingKeeps DEF Loop
<1>4. CASE StopAccepting \/ StopWorkers \/ StopLoop BY <1>4, StopKeeps
<1>5. ASSUME NEW w \in Workers, Worker(w) PROVE SocketInv'
  BY <1>5, TakeKeeps, AnswerKeeps, LeaveKeeps, SameSocket
  DEF Worker, WorkerTakes, WorkerQueries, WorkerAnswers, WorkerLeaves
<1>6. ASSUME NEW t \in Threads \ Workers, OtherThread(t) PROVE SocketInv'
  BY <1>6, SameSocket DEF OtherThread
<1>7. CASE SessionDies /\ UNCHANGED <<socketVars, queried>> BY <1>7, SameSocket
<1> QED BY <1>1, <1>2, <1>3, <1>4, <1>5, <1>6, <1>7 DEF Next

\* The invariant of the socket holds throughout.
LEMMA SocketInvariant == Spec => []SocketInv
<1>1. Init => SocketInv BY InitSocket DEF Init
<1> QED BY <1>1, SocketStepKeeps, PTL DEF Spec

\* queued_bytes_ and reply_bytes_ of BrokerQuerySocketService are exact, through
\* refused requests, replies sent in part and connections that close with replies
\* waiting: they neither leak nor wrap around, so a server that was busy accepts
\* requests again; and only BROKER_BUSY replies exceed the limit of the replies.
THEOREM BytesExact == Spec => []BytesCounted
<1>1. SocketInv => BytesCounted
  <2> SUFFICES ASSUME SocketInv PROVE BytesCounted OBVIOUS
  <2> USE DEF SocketInv
  <2>1. SizeOfReplies(Conns) = Cardinality(Across(FragmentsOf, Conns))
    BY DEF SizeOfReplies, Across, FragmentsOf
  <2>2. UNION {{c} \X {f \in Fragments(replies[c]) : ~replies[c][f[1]].busy} : c \in Conns}
          = Across(ChargedOf, Conns)
    BY DEF Across, ChargedOf, Charged
  <2> QED BY <2>1, <2>2 DEF BytesCounted, QueueInv, ReplyInv
<1> QED BY <1>1, SocketInvariant, PTL

\* drainReplies and close: no socket ever has more than 256 KiB and the fragment
\* that reached them buffered, so that uWebSockets, whose limit is 16 MiB, drops
\* none; and a connection that is not open has nothing left to send.
THEOREM NothingDropped == Spec => []SocketsInv
BY SocketInvariant, PTL DEF SocketInv
=============================================================================
