\* Two workers and another thread with two SQL sessions, and requests that fill
\* the queue, the replies and the sockets.
SPECIFICATION FairSpec
CONSTANTS
    r1 = r1  r2 = r2  c1 = c1  c2 = c2  w1 = w1  w2 = w2  other = other
    Requests = {r1, r2}
    Conns = {c1, c2}
    ConnOf <- MCConnOf
    SizeOf <- MCSizeOf
    Workers = {w1, w2}
    Threads = {w1, w2, other}
    None = None
    MaxConns = 2
    MaxQueue = 1
    MaxQueuedBytes = 2
    MaxReply = 2
    MaxReplyBytes = 2
    MaxBuffered = 1
    MaxConnections = 2
INVARIANTS BytesCounted SessionsSound NoLostWakeup
PROPERTIES EveryRequestAnswered StopEnds
CHECK_DEADLOCK FALSE
