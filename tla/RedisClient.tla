---------------------------- MODULE RedisClient ----------------------------
(***************************************************************************)
(* RedisClient of the C++ server: it asks the Sentinels for the primary,   *)
(* verifies the role of the node they name, and sends it one command at a  *)
(* time (MemoryClass serialises its callers by transport_mutex).  The      *)
(* Redis nodes, the Sentinels and the network are external: a node may     *)
(* crash, be replaced by another one and learn late that it was; a         *)
(* Sentinel may be stale; a connection may break or time out at any time,  *)
(* and what was sent on it may still arrive.                               *)
(*                                                                         *)
(* Commands are writes (a replica would answer a read).  A call is a       *)
(* command's name; it is used again when nothing of its last use is left.  *)
(***************************************************************************)
EXTENDS Naturals, Sequences, SequencesExt

CONSTANTS
    Calls,        \* commands to execute
    NoCall,       \* no call; std::nullopt
    Nodes,        \* Redis data nodes
    First,        \* the primary at the beginning
    Seeds,        \* sentinel_seeds_, a sequence
    MaxAttempts,  \* rounds over the seeds in one connect (3 in the code)
    MaxFaults     \* bound on failovers, crashes, error replies, broken connections

ASSUME RedisAssumption ==
    /\ NoCall \notin Calls \cup Nodes \cup {"value", "nil", "error"}
    /\ First \in Nodes
    /\ Seeds \in Seq(Range(Seeds)) /\ Len(Seeds) > 0
    /\ MaxAttempts \in Nat \ {0}
    /\ MaxFaults \in Nat

VARIABLES
    role,      \* role[n]: what the node n takes itself for
    primary,   \* the node that the Sentinels have made the primary
    view,      \* view[s]: the primary that the Sentinel s names
    up,        \* the nodes and Sentinels that run
    faults,    \* the faults that may still happen
    conn,      \* the connection of socket_fd_ and what is under way on it
    stray,     \* commands under way on connections the client has closed
    step,      \* what the client does next
    attempt,   \* connect: the round over the seeds
    seed,      \*   index of the seed it asks
    target,    \*   the node that the seed has named
    call,      \* the command being executed, or NoCall
    answer,    \* what the last call returned
    executed   \* the commands executed since they were last issued

worldVars == <<role, primary, view, up>>
searchVars == <<attempt, seed, target>>
callVars == <<call, answer>>
vars == <<worldVars, faults, conn, stray, step, searchVars, callVars, executed>>

Sentinels == Range(Seeds)
Closed == [node |-> NoCall, broken |-> FALSE, requests |-> <<>>, replies |-> <<>>]
Dialled(n) == [Closed EXCEPT !.node = n]

Init ==
    /\ role = [n \in Nodes |-> IF n = First THEN "master" ELSE "replica"]
    /\ primary = First
    /\ view = [s \in Sentinels |-> First]
    /\ up = Nodes \cup Sentinels
    /\ faults = MaxFaults
    /\ conn = Closed
    /\ stray = {}
    /\ step = "idle"
    /\ attempt = 0
    /\ seed = 1
    /\ target = NoCall
    /\ call = NoCall
    /\ answer = NoCall
    /\ executed = {}

-----------------------------------------------------------------------------
(* The nodes, the Sentinels and the network.                               *)

\* A request to x fails for free when x does not run, else as one more fault.
Fails(x) ==
    \/ x \notin up /\ UNCHANGED faults
    \/ faults > 0 /\ faults' = faults - 1

\* The Sentinels promote n; the old primary does not know yet.
Failover(n) ==
    /\ faults > 0 /\ n \in up /\ n # primary
    /\ primary' = n
    /\ role' = [role EXCEPT ![n] = "master"]
    /\ faults' = faults - 1
    /\ UNCHANGED <<view, up, conn, stray, step, searchVars, callVars, executed>>

Demote(n) ==
    /\ n \in up /\ n # primary /\ role[n] = "master"
    /\ role' = [role EXCEPT ![n] = "replica"]
    /\ UNCHANGED <<primary, view, up, faults, conn, stray, step, searchVars, callVars, executed>>

Learn(s) ==
    /\ s \in up /\ view[s] # primary
    /\ view' = [view EXCEPT ![s] = primary]
    /\ UNCHANGED <<role, primary, up, faults, conn, stray, step, searchVars, callVars, executed>>

\* What a node has received and not processed is lost with it; replies that it
\* has sent may still be read.
Crash(x) ==
    /\ faults > 0 /\ x \in up
    /\ faults' = faults - 1
    /\ up' = up \ {x}
    /\ conn' = IF conn.node = x THEN [conn EXCEPT !.broken = TRUE, !.requests = <<>>] ELSE conn
    /\ stray' = {m \in stray : m.node # x}
    /\ UNCHANGED <<role, primary, view, step, searchVars, callVars, executed>>

Restart(x) ==
    /\ x \notin up
    /\ up' = up \cup {x}
    /\ UNCHANGED <<role, primary, view, faults, conn, stray, step, searchVars, callVars, executed>>

\* The node takes a command from the client's connection: a replica refuses it
\* with READONLY, and a primary may refuse it with another error.
NodeExecutes ==
    /\ conn.node \in up /\ ~conn.broken /\ conn.requests # <<>>
    /\ \E kind \in {"value", "nil", "error", "READONLY"} :
        /\ kind = "READONLY" <=> role[conn.node] = "replica"
        /\ IF kind = "error" THEN faults > 0 /\ faults' = faults - 1 ELSE UNCHANGED faults
        /\ conn' = [conn EXCEPT !.requests = Tail(@),
                                !.replies = Append(@, [to |-> Head(conn.requests), kind |-> kind])]
        /\ executed' = IF kind \in {"value", "nil"} THEN executed \cup {Head(conn.requests)} ELSE executed
    /\ UNCHANGED <<worldVars, stray, step, searchVars, callVars>>

\* A command that was sent on a connection the client has closed since is
\* executed after all, or never.
StrayArrives(m) ==
    /\ m \in stray
    /\ stray' = stray \ {m}
    /\ \/ role[m.node] = "master" /\ executed' = executed \cup {m.call}
       \/ UNCHANGED executed
    /\ UNCHANGED <<worldVars, faults, conn, step, searchVars, callVars>>

-----------------------------------------------------------------------------
(* The client.                                                             *)

\* disconnect.
Disconnect ==
    /\ conn' = Closed
    /\ stray' = stray \cup {[node |-> conn.node, call |-> c] : c \in Range(conn.requests)}

\* execute returns a to the caller.
ReturnWith(a) ==
    /\ step' = "idle"
    /\ call' = NoCall
    /\ answer' = a

\* execute, sendCommand: an open connection is used, a missing one is made.
Call(c) ==
    /\ step = "idle"
    /\ \A m \in stray : m.call # c
    /\ call' = c
    /\ answer' = NoCall
    /\ executed' = executed \ {c}
    /\ step' = IF conn.node = NoCall THEN "ask" ELSE "write"
    /\ attempt' = 0
    /\ seed' = 1
    /\ target' = NoCall
    /\ UNCHANGED <<worldVars, faults, conn, stray>>

NextSeedStuck ==
    /\ seed' = IF seed < Len(Seeds) THEN seed + 1 ELSE 1
    /\ step' = "ask"
    /\ UNCHANGED <<attempt, callVars>>

\* connect goes on to the next seed, to the next round, or gives up.
NextSeed ==
    \/ /\ seed < Len(Seeds)
       /\ seed' = seed + 1
       /\ step' = "ask"
       /\ UNCHANGED <<attempt, callVars>>
    \/ /\ seed = Len(Seeds) /\ attempt + 1 < MaxAttempts
       /\ seed' = 1
       /\ attempt' = attempt + 1
       /\ step' = "ask"
       /\ UNCHANGED callVars
    \/ /\ seed = Len(Seeds) /\ attempt + 1 = MaxAttempts
       /\ ReturnWith(NoCall)
       /\ UNCHANGED <<attempt, seed>>

\* The connection to a Sentinel fails, AUTH is refused, or the reply is not an
\* address.
SeedFails ==
    /\ step = "ask"
    /\ Fails(Seeds[seed])
    /\ NextSeed
    /\ UNCHANGED <<worldVars, conn, stray, target, executed>>

\* SENTINEL get-master-addr-by-name, on a connection of its own.
SeedAnswers ==
    /\ step = "ask"
    /\ Seeds[seed] \in up
    /\ target' = view[Seeds[seed]]
    /\ step' = "dial"
    /\ UNCHANGED <<worldVars, faults, conn, stray, attempt, seed, callVars, executed>>

\* connectTo (addresses, TLS) or AUTH fails.
DialFails ==
    /\ step = "dial"
    /\ Fails(target)
    /\ NextSeed
    /\ UNCHANGED <<worldVars, conn, stray, target, executed>>

Dial ==
    /\ step = "dial"
    /\ target \in up
    /\ conn' = Dialled(target)
    /\ step' = "role"
    /\ UNCHANGED <<worldVars, faults, stray, searchVars, callVars, executed>>

\* ROLE says master: connect returns true.
RoleMaster ==
    /\ step = "role"
    /\ conn.node \in up /\ ~conn.broken /\ role[conn.node] = "master"
    /\ step' = "write"
    /\ UNCHANGED <<worldVars, faults, conn, stray, searchVars, callVars, executed>>

\* Another role, or no reply.
RoleOther ==
    /\ step = "role"
    /\ \/ conn.node \in up /\ role[conn.node] = "replica" /\ UNCHANGED faults
       \/ conn.broken /\ UNCHANGED faults
       \/ Fails(conn.node)
    /\ Disconnect
    /\ NextSeed
    /\ UNCHANGED <<worldVars, target, executed>>

\* The connection breaks after the first word of the reply to ROLE: connect
\* returns true without a connection.
RoleCutOff ==
    /\ step = "role"
    /\ conn.node \in up /\ ~conn.broken /\ role[conn.node] = "master"
    /\ faults > 0 /\ faults' = faults - 1
    /\ Disconnect
    /\ step' = "write"
    /\ UNCHANGED <<worldVars, searchVars, callVars, executed>>

\* A write on a broken connection succeeds when nobody has noticed yet.
Write ==
    /\ step = "write"
    /\ conn.node # NoCall
    /\ conn' = IF conn.broken THEN conn ELSE [conn EXCEPT !.requests = Append(@, call)]
    /\ step' = "read"
    /\ UNCHANGED <<worldVars, faults, stray, searchVars, callVars, executed>>

WriteFails ==
    /\ step = "write"
    /\ \/ (conn.node = NoCall \/ conn.broken) /\ UNCHANGED faults
       \/ Fails(conn.node)
    /\ Disconnect
    /\ ReturnWith(NoCall)
    /\ UNCHANGED <<worldVars, searchVars, executed>>

ReadReplyKeepsReadonly ==
    /\ step = "read"
    /\ conn.replies # <<>>
    /\ conn' = [conn EXCEPT !.replies = Tail(@)]
    /\ UNCHANGED stray
    /\ LET kind == Head(conn.replies).kind IN
       ReturnWith(IF kind = "READONLY" THEN "error" ELSE kind)
    /\ UNCHANGED <<worldVars, faults, searchVars, executed>>

\* readResponse: READONLY and MASTERDOWN close the connection, and without one
\* execute returns nothing.
ReadReply ==
    /\ step = "read"
    /\ conn.replies # <<>>
    /\ LET kind == Head(conn.replies).kind IN
       IF kind = "READONLY"
       THEN Disconnect /\ ReturnWith(NoCall)
       ELSE /\ conn' = [conn EXCEPT !.replies = Tail(@)]
            /\ UNCHANGED stray
            /\ ReturnWith(kind)
    /\ UNCHANGED <<worldVars, faults, searchVars, executed>>

ReadFailsKeepsConnection ==
    /\ step = "read"
    /\ (conn.broken /\ UNCHANGED faults) \/ Fails(conn.node)
    /\ UNCHANGED <<conn, stray>>
    /\ ReturnWith(NoCall)
    /\ UNCHANGED <<worldVars, searchVars, executed>>

\* The receive timeout, a closed connection, a reply that is malformed or too
\* large.
ReadFails ==
    /\ step = "read"
    /\ (conn.broken /\ UNCHANGED faults) \/ Fails(conn.node)
    /\ Disconnect
    /\ ReturnWith(NoCall)
    /\ UNCHANGED <<worldVars, searchVars, executed>>

-----------------------------------------------------------------------------
Client ==
    \/ \E c \in Calls : Call(c)
    \/ SeedFails \/ SeedAnswers \/ DialFails \/ Dial
    \/ RoleMaster \/ RoleOther \/ RoleCutOff
    \/ Write \/ WriteFails \/ ReadReply \/ ReadFails

World ==
    \/ \E n \in Nodes : Failover(n) \/ Demote(n)
    \/ \E s \in Sentinels : Learn(s)
    \/ \E x \in Nodes \cup Sentinels : Crash(x) \/ Restart(x)
    \/ \E m \in stray : StrayArrives(m)

Next == Client \/ NodeExecutes \/ World

Spec == Init /\ [][Next]_vars

\* The client's thread runs, a node that runs processes what it receives, and
\* what is under way arrives or is lost in the end.  Nothing is assumed of
\* failovers and restarts.
FairSpec ==
    /\ Spec
    /\ WF_vars(Client)
    /\ WF_vars(NodeExecutes)
    /\ WF_vars(\E m \in stray : StrayArrives(m))

-----------------------------------------------------------------------------
\* The commands that may still be executed: the one that is not yet sent, and
\* those that are under way.
Open ==
    (IF step \in {"ask", "dial", "role", "write"} THEN {call} ELSE {})
    \cup Range(conn.requests) \cup {m.call : m \in stray}

\* Time-outs, broken connections and failovers leave replies and commands under
\* way; yet each call is executed at most once, and is answered with its own
\* reply or not at all (sendCommand, readResponse, execute).
OneShot == INSTANCE RedisCalls WITH open <- Open
CallsExact == OneShot!Spec

\* Whatever the nodes and the Sentinels do, a call returns: connect gives up
\* after its rounds over the seeds, and every read has a time-out.
CallReturns == call # NoCall ~> call = NoCall

\* A failover is over: the primary runs and is the only master, and a Sentinel
\* that runs names it.
Healthy ==
    /\ primary \in up
    /\ \A n \in Nodes : role[n] = "master" => n = primary
    /\ \E s \in Sentinels \cap up : view[s] = primary

\* After a failover a client that keeps calling gets answers again, although
\* its old connection to the demoted primary may look healthy (READONLY in
\* readResponse) and some Sentinels may still name it (ROLE in connect).
FailoverRecovers == <>[]Healthy => []<>(answer \in {"value", "nil"})
=============================================================================
