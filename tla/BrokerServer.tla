---------------------------- MODULE BrokerServer ----------------------------
(***************************************************************************)
(* The broker socket and the pool of SQL sessions together: a worker that  *)
(* executes a request may need a session, and waits without a time-out for *)
(* one; stop waits for the workers.  Other threads of the server (the      *)
(* heartbeat, the control API) use the pool too: one statement each, which *)
(* is the bound that keeps them from overtaking a waiting worker for ever. *)
(***************************************************************************)
EXTENDS BrokerSocket, SqlPool

ASSUME WorkersUseSql == Workers \subseteq Threads

VARIABLE
    queried   \* the threads that have had their statement (a worker: per request)

vars == <<socketVars, poolVars, queried>>

Init == SocketInit /\ PoolInit /\ queried = {}

WorkerTakes(w) ==
    /\ Take(w)
    /\ queried' = queried \ {w}
    /\ UNCHANGED poolVars

\* A query looks at the registry: the session's row, the canvas's row.
WorkerQueries(w) ==
    /\ work[w] \in Requests
    /\ w \notin queried
    /\ Enter(w)
    /\ queried' = queried \cup {w}
    /\ UNCHANGED socketVars

OtherThread(t) ==
    \/ t \notin queried /\ Enter(t) /\ queried' = queried \cup {t} /\ UNCHANGED socketVars
    \/ Statement(t) /\ UNCHANGED <<socketVars, queried>>

WorkerAnswers(w) ==
    /\ at[w] = "out"
    /\ Answer(w)
    /\ UNCHANGED <<poolVars, queried>>

WorkerLeaves(w) == Leave(w) /\ UNCHANGED <<poolVars, queried>>

Worker(w) ==
    \/ WorkerTakes(w) \/ WorkerQueries(w) \/ WorkerAnswers(w) \/ WorkerLeaves(w)
    \/ Statement(w) /\ UNCHANGED <<socketVars, queried>>

Next ==
    \/ (Broker \/ Loop \/ StopAccepting \/ StopWorkers \/ StopLoop)
       /\ UNCHANGED <<poolVars, queried>>
    \/ \E w \in Workers : Worker(w)
    \/ \E t \in Threads \ Workers : OtherThread(t)
    \/ SessionDies /\ UNCHANGED <<socketVars, queried>>

Spec == Init /\ [][Next]_vars

\* Threads run, and Brokers read what is sent to them.  Brokers need not send
\* anything, and the server need not be stopped.
FairSpec ==
    /\ Spec
    /\ WF_vars(Loop /\ UNCHANGED <<poolVars, queried>>)
    /\ WF_vars((StopWorkers \/ StopLoop) /\ UNCHANGED <<poolVars, queried>>)
    /\ \A w \in Workers : WF_vars(Worker(w))
    /\ \A t \in Threads \ Workers : WF_vars(Statement(t) /\ UNCHANGED <<socketVars, queried>>)
=============================================================================
