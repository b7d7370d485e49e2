------------------------- MODULE RedisClientProofs -------------------------
(***************************************************************************)
(* RedisClient implements RedisCalls, for any commands, nodes, Sentinels,  *)
(* rounds over them and number of faults.                                  *)
(***************************************************************************)
EXTENDS RedisClient, SequenceTheorems, TLAPS

-----------------------------------------------------------------------------
(* The inductive invariant.                                                *)

Kinds == {"value", "nil", "error", "READONLY"}
Peers == Nodes \cup {NoCall}
Links == [node : Peers, broken : BOOLEAN, requests : Seq(Calls), replies : Seq([to : Calls, kind : Kinds])]
Before == {"ask", "dial", "role", "write"}

WorldType ==
    /\ role \in [Nodes -> {"master", "replica"}]
    /\ primary \in Nodes
    /\ view \in [Sentinels -> Nodes]
    /\ up \subseteq Nodes \cup Sentinels
    /\ faults \in Nat

ConnType ==
    /\ conn \in Links
    /\ stray \subseteq [node : Peers, call : Calls]

ClientType ==
    /\ step \in Before \cup {"idle", "read"}
    /\ attempt \in 0..(MaxAttempts - 1)
    /\ seed \in 1..Len(Seeds)
    /\ target \in Peers
    /\ call \in Calls \cup {NoCall}
    /\ answer \in {NoCall, "value", "nil", "error"}
    /\ executed \subseteq Calls

\* Nothing is under way on the connection but the command that is read for: it is
\* there unprocessed, or its reply is, or both are lost.  Only a reply of another
\* kind than an error was given after an execution.
LinkInv ==
    /\ step # "read" => conn.requests = <<>> /\ conn.replies = <<>>
    /\ step = "read" =>
          \/ conn.requests = <<>> /\ conn.replies = <<>>
          \/ conn.requests = <<call>> /\ conn.replies = <<>> /\ call \notin executed
          \/ /\ conn.requests = <<>>
             /\ \E k \in Kinds : /\ conn.replies = <<[to |-> call, kind |-> k]>>
                                 /\ call \in executed <=> k \in {"value", "nil"}

\* A command that is not sent has not been executed, and what is left of closed
\* connections is of other calls, one command of each.
CallInv ==
    /\ call = NoCall <=> step = "idle"
    /\ step \in Before => call \notin executed
    /\ \A m \in stray : m.call # call
    /\ \A m, n \in stray : m.call = n.call => m = n

RedisInv == WorldType /\ ConnType /\ ClientType /\ LinkInv /\ CallInv

\* What is under way on the connections that the client has closed.
Left == {m.call : m \in stray}

-----------------------------------------------------------------------------
(* The connection.                                                         *)

\* What is under way on a connection with one command at most.
LEMMA RangeOf == Range(<<>>) = {} /\ \A x : Range(<<x>>) = {x}
<1>1. Range(<<>>) = {} BY DEF Range
<1>2. ASSUME NEW x PROVE Range(<<x>>) = {x} BY DEF Range
<1> QED BY <1>1, <1>2

\* A closed connection, and a new one, have nothing under way.
LEMMA FreshConn ==
    ASSUME NEW n \in Peers
    PROVE  /\ Closed \in Links
           /\ Closed.requests = <<>> /\ Closed.replies = <<>>
           /\ Dialled(n) = [node |-> n, broken |-> FALSE, requests |-> <<>>, replies |-> <<>>]
           /\ Dialled(n) \in Links
<1>1. <<>> \in Seq(Calls) /\ <<>> \in Seq([to : Calls, kind : Kinds]) BY EmptySeq
<1>2. Dialled(n) = [node |-> n, broken |-> FALSE, requests |-> <<>>, replies |-> <<>>]
  <2>1. PICK f, e : f = FALSE /\ e = <<>> OBVIOUS
  <2>2. Dialled(n) = [[node |-> NoCall, broken |-> f, requests |-> e, replies |-> e] EXCEPT !.node = n]
    BY <2>1, Zenon DEF Dialled, Closed
  <2>3. Dialled(n) = [node |-> n, broken |-> f, requests |-> e, replies |-> e] BY <2>2
  <2> QED BY <2>1, <2>3, Zenon
<1>3. Closed.requests = <<>> /\ Closed.replies = <<>> BY DEF Closed
<1>4. Closed \in Links
  BY <1>1, Zenon DEF Closed, Peers, Links
<1>5. Dialled(n) \in Links
  <2>1. [node |-> n, broken |-> FALSE, requests |-> <<>>, replies |-> <<>>]
           \in Links
    BY <1>1, Zenon DEF Links
  <2> QED BY <1>2, <2>1, Zenon
<1> QED BY <1>2, <1>3, <1>4, <1>5

\* disconnect leaves what was sent and not processed under way.
LEMMA DisconnectLeaves ==
    ASSUME ConnType, Disconnect, conn.requests = <<>>
    PROVE  conn' = Closed /\ stray' = stray
BY RangeOf DEF Disconnect

\* What an abstract step sees.
LEMMA SameOpen ==
    ASSUME step' = step, call' = call, conn'.requests = conn.requests, stray' = stray
    PROVE  Open' = Open
BY DEF Open

\* A Sentinel that is asked is one of the seeds.
LEMMA SeedIsSentinel ==
    ASSUME ClientType PROVE Seeds[seed] \in Sentinels
<1>1. Seeds \in Seq(Range(Seeds)) BY RedisAssumption
<1>2. DOMAIN Seeds = 1..Len(Seeds) BY <1>1, LenProperties
<1> QED BY <1>2 DEF ClientType, Sentinels, Range

\* A request that fails leaves a number of faults.
LEMMA FailsType ==
    ASSUME WorldType, NEW x, Fails(x) PROVE faults' \in Nat
BY DEF WorldType, Fails

-----------------------------------------------------------------------------
(* The first state, the nodes and the Sentinels.                           *)

\* Nothing is under way in the beginning.
LEMMA InitInv == Init => RedisInv /\ Open = {}
<1> SUFFICES ASSUME Init PROVE RedisInv /\ Open = {} OBVIOUS
<1> USE DEF Init
<1>1. WorldType BY RedisAssumption DEF WorldType
<1>2. ConnType BY FreshConn, EmptySeq DEF ConnType, Peers, Closed
<1>3. ClientType
  <2>1. Len(Seeds) \in Nat BY RedisAssumption, LenProperties
  <2> QED BY <2>1, RedisAssumption DEF ClientType, Peers
<1>4. LinkInv BY DEF LinkInv, Closed
<1>5. CallInv BY DEF CallInv, Before
<1>6. Open = {} BY RangeOf DEF Open, Closed
<1> QED BY <1>1, <1>2, <1>3, <1>4, <1>5, <1>6 DEF RedisInv

\* Fail-overs, demotions, what Sentinels learn and restarts are not seen.
LEMMA WorldKeeps ==
    ASSUME RedisInv, WorldType', UNCHANGED <<conn, stray, step, searchVars, callVars, executed>>
    PROVE  RedisInv' /\ UNCHANGED <<call, Open, executed, answer>>
<1> USE DEF RedisInv, searchVars, callVars
<1>1. ConnType' BY DEF ConnType
<1>2. ClientType' BY DEF ClientType
<1>3. LinkInv' BY DEF LinkInv
<1>4. CallInv' BY DEF CallInv
<1>5. Open' = Open BY SameOpen
<1> QED BY <1>1, <1>2, <1>3, <1>4, <1>5

\* A crash loses what the node had received and not processed.
LEMMA CrashKeeps ==
    ASSUME RedisInv, NEW x \in Nodes \cup Sentinels, Crash(x)
    PROVE  RedisInv' /\ Open' \subseteq Open /\ UNCHANGED <<call, executed, answer>>
<1> USE DEF RedisInv
<1>1. WorldType' BY DEF Crash, WorldType
<1>2. UNCHANGED <<step, attempt, seed, target, call, answer, executed>>
  BY DEF Crash, searchVars, callVars
<1>3. ClientType' BY <1>2 DEF ClientType
<1>4. stray' \subseteq stray BY DEF Crash
<1>5. conn' = conn \/ conn' = [conn EXCEPT !.broken = TRUE, !.requests = <<>>] BY DEF Crash
<1>6. /\ conn' \in Links
      /\ conn'.replies = conn.replies
      /\ conn'.requests = conn.requests \/ conn'.requests = <<>>
  BY <1>5, EmptySeq DEF ConnType, Links
<1>7. ConnType' BY <1>4, <1>6 DEF ConnType
<1>8. LinkInv' BY <1>2, <1>6 DEF LinkInv
<1>9. CallInv' BY <1>2, <1>4 DEF CallInv
<1>10. Open' \subseteq Open
  <2>1. Range(conn'.requests) \subseteq Range(conn.requests) BY <1>6, RangeOf
  <2>2. {m.call : m \in stray'} \subseteq {m.call : m \in stray} BY <1>4
  <2> QED BY <1>2, <2>1, <2>2 DEF Open
<1> QED BY <1>1, <1>2, <1>3, <1>7, <1>8, <1>9, <1>10

\* A command on a closed connection is executed, once, or lost.
LEMMA StrayKeeps ==
    ASSUME RedisInv, NEW m \in stray, StrayArrives(m)
    PROVE  /\ RedisInv' /\ UNCHANGED <<call, answer>>
           /\ m.call \in Open /\ m.call \in Calls
           /\ Open' = Open \ {m.call}
           /\ executed' = executed \cup {m.call} \/ executed' = executed
<1> USE DEF RedisInv
<1>1. /\ UNCHANGED <<role, primary, view, up, faults, conn, step, attempt, seed, target, call, answer>>
      /\ stray' = stray \ {m}
      /\ executed' = executed \cup {m.call} \/ executed' = executed
  BY DEF StrayArrives, worldVars, searchVars, callVars
<1>2. m.call \in Calls BY DEF ConnType
<1>3. WorldType' BY <1>1 DEF WorldType
<1>4. ConnType' BY <1>1 DEF ConnType
<1>5. ClientType' BY <1>1, <1>2 DEF ClientType
<1>6. m.call # call BY DEF CallInv
<1>7. LinkInv' BY <1>1, <1>6 DEF LinkInv
<1>8. CallInv' BY <1>1, <1>6 DEF CallInv
<1>9. {n.call : n \in stray'} = {n.call : n \in stray} \ {m.call} BY <1>1 DEF CallInv
<1>10. m.call \notin Range(conn.requests) BY <1>6, RangeOf DEF LinkInv
<1>11. Open' = Open \ {m.call} BY <1>1, <1>6, <1>9, <1>10 DEF Open
<1>12. m.call \in Open BY DEF Open
<1> QED BY <1>1, <1>2, <1>3, <1>4, <1>5, <1>7, <1>8, <1>11, <1>12

-----------------------------------------------------------------------------
(* The client.                                                             *)

\* The client goes on, and nothing of its call is under way.
LEMMA AdvanceKeeps ==
    ASSUME RedisInv, WorldType', step \in Before, step' \in Before,
           UNCHANGED <<stray, call, answer, executed>>,
           attempt' \in 0..(MaxAttempts - 1), seed' \in 1..Len(Seeds), target' \in Peers,
           conn' \in Links, conn'.requests = <<>>, conn'.replies = <<>>
    PROVE  RedisInv' /\ UNCHANGED <<call, Open, executed, answer>>
<1> USE DEF RedisInv
<1>1. ConnType' BY DEF ConnType
<1>2. ClientType' BY DEF ClientType
<1>3. LinkInv' BY DEF LinkInv, Before
<1>4. CallInv' BY DEF CallInv, Before
<1>5. conn.requests = <<>> BY DEF LinkInv, Before
<1>6. Open' = Open BY <1>5 DEF Open, Before
<1> QED BY <1>1, <1>2, <1>3, <1>4, <1>6

\* The client gives up a call that it has not sent.
LEMMA GiveUpKeeps ==
    ASSUME RedisInv, WorldType', step \in Before, ReturnWith(NoCall),
           UNCHANGED <<stray, executed>>,
           attempt' \in 0..(MaxAttempts - 1), seed' \in 1..Len(Seeds), target' \in Peers,
           conn' \in Links, conn'.requests = <<>>, conn'.replies = <<>>
    PROVE  RedisInv' /\ OneShot!Return(NoCall)
<1> USE DEF RedisInv
<1>1. step' = "idle" /\ call' = NoCall /\ answer' = NoCall BY DEF ReturnWith
<1>2. ConnType' BY DEF ConnType
<1>3. ClientType' BY <1>1 DEF ClientType
<1>4. LinkInv' BY <1>1 DEF LinkInv
<1>5. CallInv' BY <1>1, RedisAssumption DEF CallInv, ConnType, Before
<1>6. conn.requests = <<>> BY DEF LinkInv, Before
<1>7. call \notin Left BY DEF CallInv, Left
<1>8. Open = {call} \cup Left BY <1>6, RangeOf DEF Open, Left, Before
<1>9. Open' = Left BY <1>1, RangeOf DEF Open, Left
<1>10. Open' = Open \ {call} BY <1>7, <1>8, <1>9
<1>11. call # NoCall BY DEF CallInv, Before
<1>12. NoCall \notin {"value", "nil"} /\ NoCall # "error" BY RedisAssumption
<1> QED BY <1>1, <1>2, <1>3, <1>4, <1>5, <1>10, <1>11, <1>12 DEF OneShot!Return

\* connect goes on or gives up.
LEMMA NextSeedKeeps ==
    ASSUME RedisInv, WorldType', step \in Before, NextSeed,
           UNCHANGED <<stray, executed, target>>,
           conn' \in Links, conn'.requests = <<>>, conn'.replies = <<>>
    PROVE  RedisInv' /\ (UNCHANGED <<call, Open, executed, answer>> \/ OneShot!Return(NoCall))
<1> USE DEF RedisInv
<1>1. /\ Len(Seeds) \in Nat /\ MaxAttempts \in Nat /\ target' \in Peers
      /\ attempt \in 0..(MaxAttempts - 1) /\ seed \in 1..Len(Seeds)
  BY RedisAssumption, LenProperties DEF ClientType
<1>2. \/ /\ seed' \in 1..Len(Seeds) /\ attempt' \in 0..(MaxAttempts - 1)
         /\ step' = "ask" /\ UNCHANGED <<call, answer>>
      \/ ReturnWith(NoCall) /\ UNCHANGED <<attempt, seed>>
  BY <1>1 DEF NextSeed, callVars
<1>3. CASE ReturnWith(NoCall) /\ UNCHANGED <<attempt, seed>>
  BY <1>1, <1>3, GiveUpKeeps
<1>4. CASE seed' \in 1..Len(Seeds) /\ attempt' \in 0..(MaxAttempts - 1)
           /\ step' = "ask" /\ UNCHANGED <<call, answer>>
  BY <1>1, <1>4, AdvanceKeeps DEF Before
<1> QED BY <1>2, <1>3, <1>4

\* The search for the primary is not seen, unless it is given up.
LEMMA SearchKeeps ==
    ASSUME RedisInv,
           SeedFails \/ SeedAnswers \/ DialFails \/ Dial \/ RoleMaster \/ RoleOther \/ RoleCutOff
    PROVE  RedisInv' /\ (UNCHANGED <<call, Open, executed, answer>> \/ OneShot!Return(NoCall))
<1> USE DEF RedisInv
<1>1. step \in Before => conn \in Links /\ conn.requests = <<>> /\ conn.replies = <<>>
  BY DEF ConnType, LinkInv, Before
<1>2. ASSUME faults' \in Nat, UNCHANGED worldVars PROVE WorldType'
  BY <1>2 DEF WorldType, worldVars
<1>3. faults \in Nat BY DEF WorldType
<1>4. Closed \in Links /\ Closed.requests = <<>> /\ Closed.replies = <<>>
  BY FreshConn DEF Peers
<1>5. attempt \in 0..(MaxAttempts - 1) /\ seed \in 1..Len(Seeds) /\ target \in Peers
  BY DEF ClientType
<1>6. CASE SeedFails
  <2>1. step \in Before /\ NextSeed /\ UNCHANGED <<worldVars, conn, stray, target, executed>>
        /\ Fails(Seeds[seed])
    BY <1>6 DEF SeedFails, Before
  <2>2. WorldType' BY <2>1, <1>2, FailsType
  <2> QED BY <2>1, <2>2, <1>1, NextSeedKeeps
<1>7. CASE SeedAnswers
  <2>1. step \in Before /\ step' \in Before /\ target' = view[Seeds[seed]]
        /\ UNCHANGED <<worldVars, faults, conn, stray, attempt, seed, call, answer, executed>>
    BY <1>7 DEF SeedAnswers, Before, callVars
  <2>2. target' \in Peers BY <2>1, SeedIsSentinel DEF WorldType, Peers
  <2>3. WorldType' BY <2>1, <1>2, <1>3
  <2> QED BY <2>1, <2>2, <2>3, <1>1, <1>5, AdvanceKeeps
<1>8. CASE DialFails
  <2>1. step \in Before /\ NextSeed /\ UNCHANGED <<worldVars, conn, stray, target, executed>>
        /\ Fails(target)
    BY <1>8 DEF DialFails, Before
  <2>2. WorldType' BY <2>1, <1>2, FailsType
  <2> QED BY <2>1, <2>2, <1>1, NextSeedKeeps
<1>9. CASE Dial
  <2>1. step \in Before /\ step' \in Before /\ conn' = Dialled(target)
        /\ UNCHANGED <<worldVars, faults, stray, attempt, seed, target, call, answer, executed>>
    BY <1>9 DEF Dial, Before, callVars, searchVars
  <2>2. conn' \in Links /\ conn'.requests = <<>> /\ conn'.replies = <<>>
    BY <2>1, <1>5, FreshConn
  <2>3. WorldType' BY <2>1, <1>2, <1>3
  <2> QED BY <2>1, <2>2, <2>3, <1>5, AdvanceKeeps
<1>10. CASE RoleMaster
  <2>1. step \in Before /\ step' \in Before
        /\ UNCHANGED <<worldVars, faults, conn, stray, attempt, seed, target, call, answer, executed>>
    BY <1>10 DEF RoleMaster, Before, callVars, searchVars
  <2>2. WorldType' BY <2>1, <1>2, <1>3
  <2> QED BY <2>1, <2>2, <1>1, <1>5, AdvanceKeeps
<1>11. CASE RoleOther
  <2>1. step \in Before /\ NextSeed /\ Disconnect /\ UNCHANGED <<worldVars, target, executed>>
    BY <1>11 DEF RoleOther, Before
  <2>2. faults' \in Nat BY <1>11, <1>3, FailsType DEF RoleOther
  <2>3. WorldType' BY <2>1, <2>2, <1>2
  <2>4. conn' = Closed /\ stray' = stray BY <2>1, <1>1, DisconnectLeaves
  <2> QED BY <2>1, <2>3, <2>4, <1>4, NextSeedKeeps
<1>12. CASE RoleCutOff
  <2>1. step \in Before /\ step' \in Before /\ Disconnect /\ faults > 0 /\ faults' = faults - 1
        /\ UNCHANGED <<worldVars, attempt, seed, target, call, answer, executed>>
    BY <1>12 DEF RoleCutOff, Before, callVars, searchVars
  <2>2. WorldType' BY <2>1, <1>2, <1>3
  <2>3. conn' = Closed /\ stray' = stray BY <2>1, <1>1, DisconnectLeaves
  <2> QED BY <2>1, <2>2, <2>3, <1>4, <1>5, AdvanceKeeps
<1> QED BY <1>6, <1>7, <1>8, <1>9, <1>10, <1>11, <1>12

\* A call is issued when nothing of its last use is left.
LEMMA CallKeeps ==
    ASSUME RedisInv, NEW c \in Calls, Call(c)
    PROVE  RedisInv' /\ OneShot!Issue(c)
<1> USE DEF RedisInv
<1>1. /\ step = "idle" /\ call' = c /\ answer' = NoCall /\ executed' = executed \ {c}
      /\ attempt' = 0 /\ seed' = 1 /\ target' = NoCall
      /\ UNCHANGED <<role, primary, view, up, faults, conn, stray>>
      /\ \A m \in stray : m.call # c
  BY DEF Call, worldVars
<1>2. step' \in {"ask", "write"} BY DEF Call
<1>3. call = NoCall /\ conn.requests = <<>> /\ conn.replies = <<>> BY <1>1 DEF CallInv, LinkInv
<1>4. WorldType' BY <1>1 DEF WorldType
<1>5. ConnType' BY <1>1 DEF ConnType
<1>6. ClientType'
  <2>1. Len(Seeds) \in Nat /\ Len(Seeds) > 0 BY RedisAssumption, LenProperties
  <2> QED BY <1>1, <1>2, <2>1, RedisAssumption DEF ClientType, Peers, Before
<1>7. LinkInv' BY <1>1, <1>2, <1>3 DEF LinkInv
<1>8. c # NoCall BY RedisAssumption
<1>9. CallInv' BY <1>1, <1>2, <1>8 DEF CallInv
<1>10. Open = Left /\ Open' = {c} \cup Left BY <1>1, <1>2, <1>3, RangeOf DEF Open, Left
<1>11. c \notin Left BY <1>1 DEF Left
<1> QED BY <1>1, <1>3, <1>4, <1>5, <1>6, <1>7, <1>9, <1>10, <1>11 DEF OneShot!Issue

\* The command is sent, or lost on a broken connection.
LEMMA WriteKeeps ==
    ASSUME RedisInv, Write
    PROVE  /\ RedisInv' /\ UNCHANGED <<call, executed, answer>>
           /\ Open' = Open \/ Open' = Open \ {call}
<1> USE DEF RedisInv
<1>1. /\ step = "write" /\ step' = "read"
      /\ UNCHANGED <<role, primary, view, up, faults, stray, attempt, seed, target, call, answer, executed>>
      /\ conn' = conn \/ conn' = [conn EXCEPT !.requests = Append(@, call)]
  BY DEF Write, worldVars, searchVars, callVars
<1>2. /\ conn.requests = <<>> /\ conn.replies = <<>> /\ conn \in Links
      /\ call \in Calls /\ call \notin executed
  BY <1>1 DEF LinkInv, CallInv, ClientType, ConnType, Before
<1>3. /\ conn' \in Links /\ conn'.replies = <<>>
      /\ conn'.requests = <<>> \/ conn'.requests = <<call>>
  <2>1. CASE conn' = conn BY <2>1, <1>2
  <2>2. CASE conn' = [conn EXCEPT !.requests = Append(@, call)]
    <3>1. conn.requests \in Seq(Calls) BY <1>2 DEF Links
    <3>2. Append(conn.requests, call) = <<call>> /\ Append(conn.requests, call) \in Seq(Calls)
      BY <1>2, <3>1, AppendProperties
    <3>3. conn' = [conn EXCEPT !.requests = Append(conn.requests, call)] BY <2>2
    <3> QED BY <3>2, <3>3, <1>2 DEF Links
  <2> QED BY <1>1, <2>1, <2>2
<1>4. WorldType' BY <1>1 DEF WorldType
<1>5. ConnType' BY <1>1, <1>3 DEF ConnType
<1>6. ClientType' BY <1>1 DEF ClientType
<1>7. LinkInv' BY <1>1, <1>2, <1>3 DEF LinkInv
<1>8. CallInv' BY <1>1 DEF CallInv, Before
<1>9. Open = {call} \cup Left BY <1>1, <1>2, RangeOf DEF Open, Left
<1>10. Open' = Left \/ Open' = {call} \cup Left BY <1>1, <1>3, RangeOf DEF Open, Left
<1>11. call \notin Left BY DEF CallInv, Left
<1> QED BY <1>1, <1>4, <1>5, <1>6, <1>7, <1>8, <1>9, <1>10, <1>11

\* A command that could not be written is given up.
LEMMA WriteFailsKeeps ==
    ASSUME RedisInv, WriteFails
    PROVE  RedisInv' /\ OneShot!Return(NoCall)
<1> USE DEF RedisInv
<1>1. step = "write" /\ Disconnect /\ ReturnWith(NoCall)
      /\ UNCHANGED <<role, primary, view, up, attempt, seed, target, executed>>
  BY DEF WriteFails, worldVars, searchVars
<1>2. faults' \in Nat BY FailsType DEF WriteFails, WorldType
<1>3. WorldType' BY <1>1, <1>2 DEF WorldType
<1>4. conn' = Closed /\ stray' = stray BY <1>1, DisconnectLeaves DEF LinkInv
<1>5. conn' \in Links /\ conn'.requests = <<>> /\ conn'.replies = <<>>
  BY <1>4, FreshConn DEF Peers
<1>6. attempt' \in 0..(MaxAttempts - 1) /\ seed' \in 1..Len(Seeds) /\ target' \in Peers
  BY <1>1 DEF ClientType
<1> QED BY <1>1, <1>3, <1>4, <1>5, <1>6, GiveUpKeeps DEF Before

\* A reply is the answer to the call that reads it.
LEMMA ReadReplyKeeps ==
    ASSUME RedisInv, ReadReply
    PROVE  RedisInv' /\ \E a \in {NoCall, "value", "nil", "error"} : OneShot!Return(a)
<1> USE DEF RedisInv
<1>1. /\ step = "read" /\ conn.replies # <<>>
      /\ UNCHANGED <<role, primary, view, up, faults, attempt, seed, target, executed>>
  BY DEF ReadReply, worldVars, searchVars
<1>2. PICK k \in Kinds : /\ conn.requests = <<>>
                         /\ conn.replies = <<[to |-> call, kind |-> k]>>
                         /\ call \in executed <=> k \in {"value", "nil"}
  BY <1>1 DEF LinkInv
<1>3. Head(conn.replies).kind = k /\ Tail(conn.replies) = <<>>
  <2>1. Head(conn.replies) = [to |-> call, kind |-> k] BY <1>2
  <2>2. Tail(conn.replies) = <<>> BY <1>2
  <2> QED BY <2>1, <2>2
<1>4. PICK a \in {NoCall, "value", "nil", "error"} :
         /\ ReturnWith(a)
         /\ (a = NoCall /\ k = "READONLY") \/ a = k
         /\ conn' \in Links /\ conn'.requests = <<>> /\ conn'.replies = <<>> /\ stray' = stray
  <2>1. CASE k = "READONLY"
    <3>1. Disconnect /\ ReturnWith(NoCall) BY <2>1, <1>3 DEF ReadReply
    <3>2. conn' = Closed /\ stray' = stray BY <3>1, <1>2, DisconnectLeaves
    <3>3. conn' \in Links /\ conn'.requests = <<>> /\ conn'.replies = <<>>
      BY <3>2, FreshConn DEF Peers
    <3> QED BY <2>1, <3>1, <3>2, <3>3
  <2>2. CASE k # "READONLY"
    <3>1. conn' = [conn EXCEPT !.replies = Tail(@)] /\ stray' = stray /\ ReturnWith(k)
      BY <2>2, <1>3 DEF ReadReply
    <3>2. conn' = [conn EXCEPT !.replies = <<>>] BY <3>1, <1>3
    <3>3. conn' \in Links /\ conn'.requests = <<>> /\ conn'.replies = <<>>
      BY <3>2, <1>2, EmptySeq DEF ConnType, Links
    <3>4. k \in {"value", "nil", "error"} BY <2>2 DEF Kinds
    <3> QED BY <3>1, <3>3, <3>4
  <2> QED BY <2>1, <2>2
<1>5. step' = "idle" /\ call' = NoCall /\ answer' = a BY <1>4 DEF ReturnWith
<1>6. WorldType' BY <1>1 DEF WorldType
<1>7. ConnType' BY <1>4 DEF ConnType
<1>8. ClientType' BY <1>1, <1>5 DEF ClientType
<1>9. LinkInv' BY <1>4, <1>5 DEF LinkInv
<1>10. CallInv' BY <1>1, <1>4, <1>5, RedisAssumption DEF CallInv, ConnType, Before
<1>11. Open = Left /\ Open' = Left BY <1>1, <1>2, <1>4, <1>5, RangeOf DEF Open, Left
<1>12. call \notin Left /\ call # NoCall BY <1>1 DEF CallInv, Left
<1>13. a \in {"value", "nil"} => call \in executed BY <1>2, <1>4, RedisAssumption
<1>14. a = "error" => call \notin executed \cup Open BY <1>2, <1>4, <1>11, <1>12, RedisAssumption
<1>15. OneShot!Return(a) BY <1>1, <1>5, <1>11, <1>12, <1>13, <1>14 DEF OneShot!Return
<1> QED BY <1>6, <1>7, <1>8, <1>9, <1>10, <1>15

\* A call that got no reply closes the connection: its command is still under
\* way, but no later call reads the reply.
LEMMA ReadFailsKeeps ==
    ASSUME RedisInv, ReadFails
    PROVE  RedisInv' /\ OneShot!Return(NoCall)
<1> USE DEF RedisInv
<1>1. /\ step = "read" /\ Disconnect /\ ReturnWith(NoCall)
      /\ UNCHANGED <<role, primary, view, up, attempt, seed, target, executed>>
  BY DEF ReadFails, worldVars, searchVars
<1>2. faults' \in Nat BY FailsType DEF ReadFails, WorldType
<1>3. WorldType' BY <1>1, <1>2 DEF WorldType
<1>4. step' = "idle" /\ call' = NoCall /\ answer' = NoCall BY <1>1 DEF ReturnWith
<1>5. conn' = Closed /\ Closed \in Links /\ Closed.requests = <<>> /\ Closed.replies = <<>>
  BY <1>1, FreshConn DEF Disconnect, Peers
<1>6. Range(conn.requests) \subseteq {call} BY <1>1, RangeOf DEF LinkInv
<1>7. call \in Calls /\ call # NoCall /\ conn.node \in Peers
  BY <1>1 DEF CallInv, ClientType, ConnType, Links
<1>8. stray' = stray \cup {[node |-> conn.node, call |-> c] : c \in Range(conn.requests)}
  BY <1>1 DEF Disconnect
<1>9. ConnType' BY <1>5, <1>6, <1>7, <1>8 DEF ConnType
<1>10. ClientType' BY <1>1, <1>4 DEF ClientType
<1>11. LinkInv' BY <1>4, <1>5 DEF LinkInv
<1>12. CallInv'
  <2>1. \A m \in stray' : m.call # NoCall BY <1>9, RedisAssumption DEF ConnType
  <2>2. \A m \in stray' : m \in stray \/ m = [node |-> conn.node, call |-> call] BY <1>6, <1>8
  <2>3. \A m, n \in stray' : m.call = n.call => m = n BY <2>2 DEF CallInv
  <2> QED BY <1>4, <2>1, <2>3 DEF CallInv, Before
<1>13. Open' = Open
  <2>1. Open = Range(conn.requests) \cup Left BY <1>1 DEF Open, Left
  <2>2. Open' = {m.call : m \in stray'} BY <1>4, <1>5, RangeOf DEF Open
  <2>3. {m.call : m \in stray'} = Left \cup Range(conn.requests)
    <3>1. ASSUME NEW c \in Range(conn.requests) PROVE c \in {m.call : m \in stray'}
      <4>1. [node |-> conn.node, call |-> c] \in stray' BY <1>8
      <4>2. [node |-> conn.node, call |-> c].call = c OBVIOUS
      <4> QED BY <4>1, <4>2
    <3>2. ASSUME NEW m \in stray' PROVE m.call \in Left \cup Range(conn.requests)
      BY <1>8 DEF Left
    <3>3. Left \subseteq {m.call : m \in stray'} BY <1>8 DEF Left
    <3> QED BY <3>1, <3>2, <3>3
  <2> QED BY <2>1, <2>2, <2>3
<1>14. NoCall \notin {"value", "nil"} /\ NoCall # "error" BY RedisAssumption
<1> QED BY <1>1, <1>3, <1>4, <1>7, <1>9, <1>10, <1>11, <1>12, <1>13, <1>14 DEF OneShot!Return

\* A node executes the command that is under way, or refuses it.
LEMMA NodeExecutesKeeps ==
    ASSUME RedisInv, NodeExecutes
    PROVE  /\ RedisInv' /\ UNCHANGED <<call, answer>>
           /\ call \in Open /\ call \in Calls
           /\ Open' = Open \ {call}
           /\ executed' = executed \cup {call} \/ executed' = executed
<1> USE DEF RedisInv
<1>1. PICK k \in Kinds :
         /\ IF k = "error" THEN faults > 0 /\ faults' = faults - 1 ELSE UNCHANGED faults
         /\ conn' = [conn EXCEPT !.requests = Tail(@),
                                 !.replies = Append(@, [to |-> Head(conn.requests), kind |-> k])]
         /\ executed' = IF k \in {"value", "nil"} THEN executed \cup {Head(conn.requests)} ELSE executed
  BY DEF NodeExecutes, Kinds
<1>2. /\ conn.requests # <<>>
      /\ UNCHANGED <<role, primary, view, up, stray, step, attempt, seed, target, call, answer>>
  BY DEF NodeExecutes, worldVars, searchVars, callVars
<1>3. step = "read" /\ conn.requests = <<call>> /\ conn.replies = <<>> /\ call \notin executed
  BY <1>2 DEF LinkInv
<1>4. call \in Calls BY <1>3 DEF CallInv, ClientType
<1>5. Head(conn.requests) = call /\ Tail(conn.requests) = <<>> BY <1>3
<1>6. PICK reply \in [to : Calls, kind : Kinds] : reply = [to |-> call, kind |-> k] BY <1>4
<1>7. Append(conn.replies, reply) = <<reply>> /\ Append(conn.replies, reply) \in Seq([to : Calls, kind : Kinds])
  BY <1>3, <1>6, EmptySeq, AppendProperties
<1>8. conn' = [conn EXCEPT !.requests = Tail(conn.requests), !.replies = Append(conn.replies, reply)]
  BY <1>1, <1>5, <1>6
<1>9. conn' = [conn EXCEPT !.requests = <<>>, !.replies = <<reply>>] BY <1>5, <1>7, <1>8
<1>10. conn' \in Links /\ conn'.requests = <<>> /\ conn'.replies = <<reply>>
  BY <1>7, <1>9, EmptySeq DEF ConnType, Links
<1>11. executed' = IF k \in {"value", "nil"} THEN executed \cup {call} ELSE executed BY <1>1, <1>5
<1>12. WorldType' BY <1>1, <1>2 DEF WorldType
<1>13. ConnType' BY <1>2, <1>10 DEF ConnType
<1>14. ClientType' BY <1>2, <1>4, <1>11 DEF ClientType
<1>15. LinkInv' BY <1>2, <1>3, <1>6, <1>10, <1>11 DEF LinkInv
<1>16. CallInv' BY <1>2, <1>3, <1>11 DEF CallInv, Before
<1>17. Open = {call} \cup Left BY <1>3, RangeOf DEF Open, Left
<1>18. Open' = Left BY <1>2, <1>3, <1>10, RangeOf DEF Open, Left
<1>19. call \notin Left BY DEF CallInv, Left
<1> QED BY <1>2, <1>4, <1>11, <1>12, <1>13, <1>14, <1>15, <1>16, <1>17, <1>18, <1>19

-----------------------------------------------------------------------------
(* The refinement.                                                         *)

\* What is executed or lost is a step of RedisCalls.
LEMMA SettleAllowed ==
    ASSUME NEW c \in Calls, c \in Open, Open' = Open \ {c}, UNCHANGED <<call, answer>>,
           executed' = executed \cup {c} \/ executed' = executed
    PROVE  OneShot!Next
<1>1. CASE executed' = executed \cup {c} BY <1>1 DEF OneShot!Next, OneShot!Execute
<1>2. CASE executed' = executed
  <2>1. OneShot!Drop({c}) BY <1>2 DEF OneShot!Drop
  <2>2. {c} \in SUBSET Calls OBVIOUS
  <2> QED BY <2>1, <2>2 DEF OneShot!Next
<1> QED BY <1>1, <1>2

\* So is what is lost with a crash, or on a broken connection.
LEMMA LossAllowed ==
    ASSUME Open \subseteq Calls, Open' \subseteq Open, UNCHANGED <<call, executed, answer>>
    PROVE  OneShot!Next
<1>1. PICK C \in SUBSET Calls : C = Open \ Open' OBVIOUS
<1>2. Open' = Open \ C BY <1>1
<1>3. OneShot!Drop(C) BY <1>2 DEF OneShot!Drop
<1> QED BY <1>3 DEF OneShot!Next

\* Only commands are under way.
LEMMA OpenCalls == RedisInv => Open \subseteq Calls
<1> SUFFICES ASSUME RedisInv PROVE Open \subseteq Calls OBVIOUS
<1>1. step \in Before => call \in Calls BY DEF RedisInv, CallInv, ClientType, Before
<1>2. Range(conn.requests) \subseteq Calls
  <2>1. conn.requests \in Seq(Calls) BY DEF RedisInv, ConnType, Links
  <2> QED BY <2>1, LenProperties DEF Range
<1>3. \A m \in stray : m.call \in Calls BY DEF RedisInv, ConnType
<1> QED BY <1>1, <1>2, <1>3 DEF Open, Before

\* Every step keeps the invariant and is a step of RedisCalls, or not seen there.
LEMMA StepAllowed ==
    ASSUME RedisInv, [Next]_vars
    PROVE  RedisInv' /\ [OneShot!Next]_<<call, Open, executed, answer>>
<1>1. CASE UNCHANGED vars
  <2>1. UNCHANGED <<conn, stray, step, searchVars, callVars, executed>> /\ WorldType'
    BY <1>1 DEF vars, worldVars, RedisInv, WorldType
  <2> QED BY <2>1, WorldKeeps
<1>2. ASSUME NEW c \in Calls, Call(c)
      PROVE RedisInv' /\ [OneShot!Next]_<<call, Open, executed, answer>>
  BY <1>2, CallKeeps DEF OneShot!Next
<1>3. CASE SeedFails \/ SeedAnswers \/ DialFails \/ Dial \/ RoleMaster \/ RoleOther \/ RoleCutOff
  BY <1>3, SearchKeeps DEF OneShot!Next
<1>4. CASE Write
  <2>1. Open \subseteq Calls BY OpenCalls
  <2>2. RedisInv' /\ UNCHANGED <<call, executed, answer>> /\ Open' \subseteq Open BY <1>4, WriteKeeps
  <2> QED BY <2>1, <2>2, LossAllowed
<1>5. CASE WriteFails BY <1>5, WriteFailsKeeps DEF OneShot!Next
<1>6. CASE ReadReply BY <1>6, ReadReplyKeeps DEF OneShot!Next
<1>7. CASE ReadFails BY <1>7, ReadFailsKeeps DEF OneShot!Next
<1>8. CASE NodeExecutes BY <1>8, NodeExecutesKeeps, SettleAllowed
<1>9. ASSUME NEW x \in Nodes \cup Sentinels, Crash(x)
      PROVE RedisInv' /\ [OneShot!Next]_<<call, Open, executed, answer>>
  <2>1. Open \subseteq Calls BY OpenCalls
  <2>2. RedisInv' /\ UNCHANGED <<call, executed, answer>> /\ Open' \subseteq Open BY <1>9, CrashKeeps
  <2> QED BY <2>1, <2>2, LossAllowed
<1>10. ASSUME NEW m \in stray, StrayArrives(m)
       PROVE RedisInv' /\ [OneShot!Next]_<<call, Open, executed, answer>>
  <2>1. PICK c \in Calls : c = m.call BY <1>10, StrayKeeps
  <2> QED BY <1>10, <2>1, StrayKeeps, SettleAllowed
<1>11. ASSUME WorldType', UNCHANGED <<conn, stray, step, searchVars, callVars, executed>>
       PROVE RedisInv' /\ [OneShot!Next]_<<call, Open, executed, answer>>
  BY <1>11, WorldKeeps
<1>12. ASSUME NEW n \in Nodes, Failover(n) \/ Demote(n)
       PROVE RedisInv' /\ [OneShot!Next]_<<call, Open, executed, answer>>
  <2>1. WorldType' BY <1>12 DEF RedisInv, WorldType, Failover, Demote
  <2>2. UNCHANGED <<conn, stray, step, searchVars, callVars, executed>> BY <1>12 DEF Failover, Demote
  <2> QED BY <2>1, <2>2, <1>11
<1>13. ASSUME NEW s \in Sentinels, Learn(s)
       PROVE RedisInv' /\ [OneShot!Next]_<<call, Open, executed, answer>>
  <2>1. WorldType' BY <1>13 DEF RedisInv, WorldType, Learn
  <2>2. UNCHANGED <<conn, stray, step, searchVars, callVars, executed>> BY <1>13 DEF Learn
  <2> QED BY <2>1, <2>2, <1>11
<1>14. ASSUME NEW x \in Nodes \cup Sentinels, Restart(x)
       PROVE RedisInv' /\ [OneShot!Next]_<<call, Open, executed, answer>>
  <2>1. WorldType' BY <1>14 DEF RedisInv, WorldType, Restart
  <2>2. UNCHANGED <<conn, stray, step, searchVars, callVars, executed>> BY <1>14 DEF Restart
  <2> QED BY <2>1, <2>2, <1>11
<1> QED BY <1>1, <1>2, <1>3, <1>4, <1>5, <1>6, <1>7, <1>8, <1>9, <1>10, <1>12, <1>13, <1>14
        DEF Next, Client, World

\* sendCommand, readResponse and execute: whatever happens to the connection, to
\* Sentinel and to the nodes, a command is executed at most once for a call, and
\* the call is answered with its own reply or not at all.
THEOREM CallsImplemented == Spec => CallsExact
<1>1. Init => RedisInv /\ OneShot!Init BY InitInv DEF Init, OneShot!Init
<1> QED BY <1>1, StepAllowed, PTL DEF Spec, CallsExact, OneShot!Spec
=============================================================================
