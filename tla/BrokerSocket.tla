---------------------------- MODULE BrokerSocket ----------------------------
(***************************************************************************)
(* BrokerQuerySocketService: the WebSocket end point on which Brokers send *)
(* queries.  One event loop receives requests and sends replies; workers   *)
(* take requests from a bounded queue, execute them and hand the replies   *)
(* to the loop (defer).  Replies wait per connection while the socket is   *)
(* full, and are sent in fragments.  stop ends the workers, then closes    *)
(* the connections.                                                        *)
(*                                                                         *)
(* Sizes are in fragments (128 KiB).  uWebSockets and the Brokers are      *)
(* external.  A send is never DROPPED, since a socket never has more than  *)
(* MaxBuffered and one fragment buffered and the limit is 16 MiB.          *)
(* Requests are well-formed envelopes: a malformed one, which nobody could *)
(* relate to its answer, is dropped without one.                           *)
(***************************************************************************)
EXTENDS Integers, Sequences, FiniteSets

CONSTANTS
    Requests,        \* requests that Brokers may send
    Conns,           \* connections; a number is never used again
    ConnOf,          \* ConnOf[r]: the connection that r is sent on
    SizeOf,          \* SizeOf[r]: the size of r, and of its reply
    Workers,         \* worker threads (16 in the code)
    None,            \* no request
    MaxConns,        \* connections at a time (16)
    MaxQueue,        \* requests in the queue (128)
    MaxQueuedBytes,  \* and their size (32 MiB)
    MaxReply,        \* size of a reply (128 MiB)
    MaxReplyBytes,   \* size of the replies that wait (256 MiB)
    MaxBuffered      \* what a socket may have buffered before a send (256 KiB)

ASSUME SocketAssumption ==
    /\ None \notin Requests
    /\ ConnOf \in [Requests -> Conns]
    /\ SizeOf \in [Requests -> Nat \ {0}]
    /\ {MaxConns, MaxQueue, MaxQueuedBytes, MaxReply, MaxReplyBytes, MaxBuffered}
          \subseteq Nat \ {0}

VARIABLES
    stop,         \* how far stop is: accepting_ and stopping_ follow from it
    conns,        \* conns[c]: "new", "open" or "closed"
    sent,         \* the requests that have been sent
    message,      \* the request in the message handler of the loop, or None
    queue,        \* queue_
    queuedBytes,  \* queued_bytes_
    work,         \* work[w]: the request that w executes, None, or "gone"
    deferred,     \* what the loop was asked to run
    replies,      \* replies_: replies[c], of [request, size, offset, busy]
    replyBytes,   \* reply_bytes_
    buffered,     \* buffered[c]: getBufferedAmount
    draining,     \* the connection in drainReplies of the loop, or None
    answered      \* the requests whose replies were sent to the end

admissionVars == <<sent, message, queue, queuedBytes>>
replyVars == <<replies, replyBytes, buffered, draining, answered>>
socketVars == <<stop, conns, admissionVars, work, deferred, replyVars>>

Accepting == stop = "serving"
Stopping == stop \notin {"serving", "refusing"}
LoopIdle == message = None /\ draining = None /\ stop # "stopped"

SocketInit ==
    /\ stop = "serving"
    /\ conns = [c \in Conns |-> "new"]
    /\ sent = {}
    /\ message = None
    /\ queue = <<>>
    /\ queuedBytes = 0
    /\ work = [w \in Workers |-> None]
    /\ deferred = <<>>
    /\ replies = [c \in Conns |-> <<>>]
    /\ replyBytes = 0
    /\ buffered = [c \in Conns |-> 0]
    /\ draining = None
    /\ answered = {}

Reply(r, size, busy) == [request |-> r, size |-> size, offset |-> 0, busy |-> busy]
Busy(r) == Reply(r, 1, TRUE)
CloseRequest == Reply(None, 0, FALSE)

\* The size of entries is the number of their fragments.
Fragments(entries) == UNION {{i} \X (1..entries[i].size) : i \in DOMAIN entries}
TotalSize(entries) == Cardinality(Fragments(entries))
SizeOfReplies(C) == Cardinality(UNION {{c} \X Fragments(replies[c]) : c \in C})

-----------------------------------------------------------------------------
(* The event loop: connections and requests.                               *)

\* upgrade and open.
Connect(c) ==
    /\ LoopIdle /\ Accepting
    /\ conns[c] = "new"
    /\ Cardinality({d \in Conns : conns[d] = "open"}) < MaxConns
    /\ conns' = [conns EXCEPT ![c] = "open"]
    /\ UNCHANGED <<stop, admissionVars, work, deferred, replyVars>>

CloseAllForgetsBytes(C) ==
    /\ conns' = [c \in Conns |-> IF c \in C THEN "closed" ELSE conns[c]]
    /\ replies' = [c \in Conns |-> IF c \in C THEN <<>> ELSE replies[c]]
    /\ buffered' = [c \in Conns |-> IF c \in C THEN 0 ELSE buffered[c]]
    /\ UNCHANGED replyBytes

\* The close handler, for the connections C.
CloseAll(C) ==
    /\ conns' = [c \in Conns |-> IF c \in C THEN "closed" ELSE conns[c]]
    /\ replies' = [c \in Conns |-> IF c \in C THEN <<>> ELSE replies[c]]
    /\ buffered' = [c \in Conns |-> IF c \in C THEN 0 ELSE buffered[c]]
    /\ replyBytes' = replyBytes - SizeOfReplies(C)

\* A Broker closes its connection.
Hangup(c) ==
    /\ LoopIdle
    /\ conns[c] = "open"
    /\ CloseAll({c})
    /\ UNCHANGED <<stop, admissionVars, work, deferred, draining, answered>>

\* message, up to the mutex: a server that stops ends the connection.
Receive(r) ==
    /\ LoopIdle
    /\ r \notin sent
    /\ conns[ConnOf[r]] = "open"
    /\ sent' = sent \cup {r}
    /\ IF Accepting
       THEN message' = r /\ UNCHANGED <<conns, replies, replyBytes, buffered>>
       ELSE CloseAll({ConnOf[r]}) /\ UNCHANGED message
    /\ UNCHANGED <<stop, queue, queuedBytes, work, deferred, draining, answered>>

\* message, with the mutex: a full queue is answered BROKER_BUSY.
Admit ==
    /\ message # None
    /\ message' = None
    /\ IF Len(queue) >= MaxQueue \/ queuedBytes + SizeOf[message] > MaxQueuedBytes
       THEN /\ deferred' = Append(deferred, Busy(message))
            /\ UNCHANGED <<queue, queuedBytes>>
       ELSE /\ queue' = Append(queue, [request |-> message, size |-> SizeOf[message]])
            /\ queuedBytes' = queuedBytes + SizeOf[message]
            /\ UNCHANGED deferred
    /\ UNCHANGED <<stop, conns, sent, work, replyVars>>

-----------------------------------------------------------------------------
(* Workers.                                                                *)

Take(w) ==
    /\ work[w] = None
    /\ queue # <<>>
    /\ work' = [work EXCEPT ![w] = Head(queue).request]
    /\ queue' = Tail(queue)
    /\ queuedBytes' = queuedBytes - Head(queue).size
    /\ UNCHANGED <<stop, conns, sent, message, deferred, replyVars>>

Answer(w) ==
    /\ work[w] \in Requests
    /\ deferred' = Append(deferred, Reply(work[w], SizeOf[work[w]], FALSE))
    /\ work' = [work EXCEPT ![w] = None]
    /\ UNCHANGED <<stop, conns, admissionVars, replyVars>>

Leave(w) ==
    /\ work[w] = None
    /\ queue = <<>> /\ Stopping
    /\ work' = [work EXCEPT ![w] = "gone"]
    /\ UNCHANGED <<stop, conns, admissionVars, deferred, replyVars>>

-----------------------------------------------------------------------------
(* The event loop: replies.                                                *)

\* enqueueReply: a reply that is too long, or too long for now, becomes
\* BROKER_BUSY.
Waiting(reply) ==
    IF reply.size > MaxReply \/ replyBytes + reply.size > MaxReplyBytes
    THEN Busy(reply.request) ELSE reply

RunDeferred ==
    /\ LoopIdle
    /\ deferred # <<>> /\ Head(deferred) # CloseRequest
    /\ deferred' = Tail(deferred)
    /\ LET reply == Waiting(Head(deferred))
           c == ConnOf[reply.request]
       IN IF conns[c] # "open"
          THEN UNCHANGED <<replies, replyBytes, draining>>
          ELSE /\ replyBytes' = replyBytes + reply.size
               /\ replies' = [replies EXCEPT ![c] = Append(@, reply)]
               /\ draining' = c
    /\ UNCHANGED <<stop, conns, admissionVars, work, buffered, answered>>

\* drainReplies: nothing is left, or the socket has enough.
DrainEnds ==
    /\ draining # None
    /\ replies[draining] = <<>> \/ buffered[draining] >= MaxBuffered
    /\ draining' = None
    /\ UNCHANGED <<stop, conns, admissionVars, work, deferred, replies, replyBytes, buffered, answered>>

\* A turn of the loop sends one fragment, at once or into the socket's buffer
\* (BACKPRESSURE).
SendFragment ==
    /\ draining # None
    /\ replies[draining] # <<>> /\ buffered[draining] < MaxBuffered
    /\ LET reply == Head(replies[draining])
           last == reply.offset + 1 = reply.size
       IN /\ replies' = [replies EXCEPT ![draining] =
                IF last THEN Tail(@) ELSE [@ EXCEPT ![1] = [reply EXCEPT !.offset = @ + 1]]]
          /\ replyBytes' = IF last THEN replyBytes - reply.size ELSE replyBytes
          /\ answered' = IF last THEN answered \cup {reply.request} ELSE answered
    /\ \/ buffered[draining] = 0 /\ UNCHANGED <<buffered, draining>>
       \/ buffered' = [buffered EXCEPT ![draining] = @ + 1] /\ draining' = None
    /\ UNCHANGED <<stop, conns, admissionVars, work, deferred>>

DrainEventIgnored(c) ==
    /\ LoopIdle
    /\ conns[c] = "open" /\ buffered[c] > 0
    /\ buffered' = [buffered EXCEPT ![c] = @ - 1]
    /\ UNCHANGED <<stop, conns, admissionVars, work, deferred, replies, replyBytes, draining, answered>>

\* The Broker reads; uWebSockets calls the drain handler.
DrainEvent(c) ==
    /\ LoopIdle
    /\ conns[c] = "open" /\ buffered[c] > 0
    /\ buffered' = [buffered EXCEPT ![c] = @ - 1]
    /\ draining' = c
    /\ UNCHANGED <<stop, conns, admissionVars, work, deferred, replies, replyBytes, answered>>

-----------------------------------------------------------------------------
(* stop.                                                                   *)

\* accepting_, then stopping_ with the mutex.
StopAccepting ==
    /\ stop = "serving"
    /\ stop' = "refusing"
    /\ UNCHANGED <<conns, admissionVars, work, deferred, replyVars>>

StopWorkers ==
    /\ stop = "refusing"
    /\ stop' = "joining"
    /\ UNCHANGED <<conns, admissionVars, work, deferred, replyVars>>

\* The workers are gone: the loop is asked to close everything.
StopLoop ==
    /\ stop = "joining"
    /\ \A w \in Workers : work[w] = "gone"
    /\ stop' = "closing"
    /\ deferred' = Append(deferred, CloseRequest)
    /\ UNCHANGED <<conns, admissionVars, work, replyVars>>

CloseEverything ==
    /\ LoopIdle
    /\ deferred # <<>> /\ Head(deferred) = CloseRequest
    /\ deferred' = Tail(deferred)
    /\ CloseAll({c \in Conns : conns[c] = "open"})
    /\ stop' = "stopped"
    /\ UNCHANGED <<admissionVars, work, draining, answered>>

-----------------------------------------------------------------------------
\* What Brokers do.
Broker ==
    \/ \E c \in Conns : Connect(c) \/ Hangup(c)
    \/ \E r \in Requests : Receive(r)

\* What the loop does by itself.
Loop ==
    \/ Admit \/ RunDeferred \/ DrainEnds \/ SendFragment
    \/ \E c \in Conns : DrainEvent(c)
    \/ CloseEverything

-----------------------------------------------------------------------------
\* Requests and replies are counted exactly, through closed connections,
\* refused requests and replies sent in part: a leak would answer BROKER_BUSY
\* for ever, a wrap-around of the unsigned counters too.  The limits hold: only
\* BROKER_BUSY replies exceed that of the replies (message, close, enqueueReply,
\* drainReplies).
BytesCounted ==
    /\ queuedBytes = TotalSize(queue)
    /\ queuedBytes <= MaxQueuedBytes /\ Len(queue) <= MaxQueue
    /\ replyBytes = SizeOfReplies(Conns)
    /\ Cardinality(UNION {{c} \X {f \in Fragments(replies[c]) : ~replies[c][f[1]].busy} : c \in Conns})
          <= MaxReplyBytes

\* Every request is answered, BROKER_BUSY included, or its connection is
\* closed: also the one that enters the queue after the last worker has left.
EveryRequestAnswered ==
    \A r \in Requests :
        r \in sent ~> r \in answered \/ conns[ConnOf[r]] = "closed"

\* stop ends: the workers finish what is queued and what they execute.
StopEnds == stop = "refusing" ~> stop = "stopped"
=============================================================================
