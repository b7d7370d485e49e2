------------------------------ MODULE SqlPool ------------------------------
(***************************************************************************)
(* MssqlConnectionPool: at most MaxConnections sessions with SQL Server,   *)
(* shared by the threads of the C++ server.  A thread acquires a session   *)
(* for one statement (PooledConnection) and gives it back, or closes it    *)
(* when the statement failed or the session has died.  Whoever finds no    *)
(* session and no room waits on cv_, without a time-out.                   *)
(*                                                                         *)
(* A session is "clean", "dirty" (results of an earlier statement are      *)
(* unread) or "dead".  It may die at any time: a failover of the           *)
(* availability group breaks every session.                                *)
(***************************************************************************)
EXTENDS Integers, Sequences, FiniteSets, SequencesExt

CONSTANTS
    Threads,        \* the threads that use SQL
    MaxConnections  \* max_connections_ (10 in the code)

ASSUME PoolAssumption ==
    /\ IsFiniteSet(Threads)
    /\ MaxConnections \in Nat \ {0}

VARIABLES
    at,       \* at[t]: where the thread t is
    session,  \* session[t]: the session it has, or "none"
    pool,     \* pool_: the idle sessions; the last one is taken first
    active,   \* active_connections_
    waiting   \* the threads that wait on cv_ and have not been notified

poolVars == <<at, session, pool, active, waiting>>

PoolInit ==
    /\ at = [t \in Threads |-> "out"]
    /\ session = [t \in Threads |-> "none"]
    /\ pool = <<>>
    /\ active = 0
    /\ waiting = {}

-----------------------------------------------------------------------------
(* Condition variable cv_: those who are notified look at the pool again.  *)

NotifyAll(places) ==
    /\ at' = [t \in Threads |-> IF t \in waiting THEN "acquire" ELSE places[t]]
    /\ waiting' = {}

NotifyOne(places) ==
    IF waiting = {}
    THEN at' = places /\ UNCHANGED waiting
    ELSE \E w \in waiting : /\ at' = [places EXCEPT ![w] = "acquire"]
                            /\ waiting' = waiting \ {w}

-----------------------------------------------------------------------------
(* Threads.                                                                *)

\* A thread begins a statement.
Enter(t) ==
    /\ at[t] = "out"
    /\ at' = [at EXCEPT ![t] = "acquire"]
    /\ UNCHANGED <<session, pool, active, waiting>>

\* The places of idle sessions that are not dead.
Live == {i \in DOMAIN pool : pool[i] # "dead"}

\* The session that acquire finds: the last one that lives.  Those above it are
\* closed on the way.
Found == CHOOSE i \in Live \cup {0} : \A j \in Live : j <= i

Wait(t) ==
    /\ at[t] = "acquire"
    /\ pool = <<>> /\ active >= MaxConnections
    /\ at' = [at EXCEPT ![t] = "waiting"]
    /\ waiting' = waiting \cup {t}
    /\ UNCHANGED <<session, pool, active>>

TakeIdleKeepsCount(t) ==
    /\ at[t] = "acquire"
    /\ Live # {}
    /\ session' = [session EXCEPT ![t] = pool[Found]]
    /\ pool' = SubSeq(pool, 1, Found - 1)
    /\ at' = [at EXCEPT ![t] = "using"]
    /\ UNCHANGED <<active, waiting>>

TakeIdle(t) ==
    /\ at[t] = "acquire"
    /\ Live # {}
    /\ session' = [session EXCEPT ![t] = pool[Found]]
    /\ pool' = SubSeq(pool, 1, Found - 1)
    /\ active' = active - (Len(pool) - Found)
    /\ at' = [at EXCEPT ![t] = "using"]
    /\ UNCHANGED waiting

\* No idle session lives and there is room: the thread takes a place, and
\* connects without the mutex.
BeginOpen(t) ==
    /\ at[t] = "acquire"
    /\ Live = {}
    /\ pool # <<>> \/ active < MaxConnections
    /\ pool' = <<>>
    /\ active' = active - Len(pool) + 1
    /\ at' = [at EXCEPT ![t] = "opening"]
    /\ UNCHANGED <<session, waiting>>

\* One of three attempts succeeds.  The probe for the primary's name may fail
\* and leave its results unread; then the statement fails, see QueryFails.
Open(t) ==
    /\ at[t] = "opening"
    /\ session' = [session EXCEPT ![t] = "clean"]
    /\ at' = [at EXCEPT ![t] = "using"]
    /\ UNCHANGED <<pool, active, waiting>>

\* All three attempts fail: the place is given back, and after the mutex has
\* been released the others are notified.
OpenFails(t) ==
    /\ at[t] = "opening"
    /\ active' = active - 1
    /\ at' = [at EXCEPT ![t] = "notify"]
    /\ UNCHANGED <<session, pool, waiting>>

Notify(t) ==
    /\ at[t] = "notify"
    /\ NotifyAll([at EXCEPT ![t] = "out"])
    /\ UNCHANGED <<session, pool, active>>

\* query and execute: when the statement fails its results are unread, and the
\* session is invalidated.
Query(t) ==
    /\ at[t] = "using"
    /\ at' = [at EXCEPT ![t] = "release"]
    /\ UNCHANGED <<session, pool, active, waiting>>

QueryFails(t) ==
    /\ at[t] = "using"
    /\ session' = [session EXCEPT ![t] = "dirty"]
    /\ at' = [at EXCEPT ![t] = "discard"]
    /\ UNCHANGED <<pool, active, waiting>>

Release(t) ==
    /\ at[t] = "release"
    /\ pool' = Append(pool, session[t])
    /\ session' = [session EXCEPT ![t] = "none"]
    /\ NotifyOne([at EXCEPT ![t] = "out"])
    /\ UNCHANGED active

CloseSilent(t) ==
    /\ at[t] \in {"discard", "release"}
    /\ session' = [session EXCEPT ![t] = "none"]
    /\ active' = active - 1
    /\ at' = [at EXCEPT ![t] = "out"]
    /\ UNCHANGED <<pool, waiting>>

\* The statement has failed, or the session has died since (one that dies before
\* fails the statement).
Close(t) ==
    /\ at[t] \in {"discard", "release"}
    /\ session' = [session EXCEPT ![t] = "none"]
    /\ active' = active - 1
    /\ NotifyAll([at EXCEPT ![t] = "out"])
    /\ UNCHANGED pool

\* A session breaks in the pool.
IdleDies(i) ==
    /\ i \in DOMAIN pool
    /\ pool[i] # "dead"
    /\ pool' = [pool EXCEPT ![i] = "dead"]
    /\ UNCHANGED <<at, session, active, waiting>>

\* The steps of a thread between the begin and the end of a statement.
Statement(t) ==
    \/ Wait(t) \/ TakeIdle(t) \/ BeginOpen(t) \/ Open(t) \/ OpenFails(t) \/ Notify(t)
    \/ Query(t) \/ QueryFails(t) \/ Release(t) \/ Close(t)

SessionDies == \E i \in DOMAIN pool : IdleDies(i)

-----------------------------------------------------------------------------
\* Sessions die, fail and are replaced in every order: each that is open is
\* counted once and there are never more than MaxConnections, and a session in
\* the pool has no unread results (acquire, release, invalidate).
SessionsSound ==
    /\ active = Len(pool) + Cardinality({t \in Threads : session[t] # "none" \/ at[t] = "opening"})
    /\ active <= MaxConnections
    /\ \A i \in DOMAIN pool : pool[i] # "dirty"

\* No wake-up is lost: while threads wait, every session or place that is free
\* has a thread on its way to it, or everyone is about to be notified
\* (notify_one after a release, notify_all after a close or a failed connect).
NoLostWakeup ==
    waiting # {} =>
        \/ \E t \in Threads : at[t] = "notify"
        \/ Len(pool) + MaxConnections - active <= Cardinality({t \in Threads : at[t] = "acquire"})
=============================================================================
