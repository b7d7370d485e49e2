------------------------------ MODULE ChatRoom ------------------------------
(***************************************************************************)
(* A chat room of a canvas: messages with their numbers, the receipts of   *)
(* the requests that wrote them, and the mentions in them.  To post, a     *)
(* server reads the room (through its cache, without the messages), gives  *)
(* the message the next number, and lets a script in Redis check the       *)
(* receipt and the number again and append it.  Readers page through the   *)
(* history, backwards from its end (CanvasQueryService::query,             *)
(* CanvasServiceMemory).                                                   *)
(*                                                                         *)
(* A server works on one query of a canvas at a time (settings_mutex); two *)
(* servers may both serve it for a while (module CanvasLifecycle).  A post *)
(* may be sent to any server, any number of times; a command that has      *)
(* timed out may still be executed later (module RedisClient).             *)
(***************************************************************************)
EXTENDS Integers, Sequences, FiniteSets

CONSTANTS
    Servers,     \* servers that serve the canvas
    Users,       \* users that may be mentioned
    Posts,       \* the chat queries that users may send
    NoPost,      \* no query
    KeyOf,       \* KeyOf[p]: its user and request id, the key of its receipt
    MentionsOf,  \* MentionsOf[p]: the users whom its text mentions
    Limits,      \* the page sizes that readers ask for
    MaxLate      \* how many timed-out scripts may be under way at once

ASSUME ChatAssumption ==
    /\ NoPost \notin Posts
    /\ Posts = DOMAIN KeyOf
    /\ MentionsOf \in [Posts -> SUBSET Users]
    /\ Limits \subseteq Nat
    /\ MaxLate \in Nat

Least(a, b) == IF a < b THEN a ELSE b
Most(a, b) == IF a > b THEN a ELSE b
Keys == {KeyOf[p] : p \in Posts}

VARIABLES
    data,       \* the room's messages: [post, sequence, unread]
    next,       \* next_sequence; 0 when there is no room
    receipts,   \* receipts[k]: the number of the message of request k, or 0
    notes,      \* mention-states: [user, sequence, unread]
    cached,     \* cached[s]: next_sequence in the cache of server s, or 0
    job,        \* job[s]: the post that server s works on, with its number
    late,       \* posts whose script has timed out and may still be executed
    acked,      \* the posts that users were told of, with their numbers
    seen,       \* the mentions that users were told to be marked as read
    walk        \* a reader: [limit, start, to, pages, more]

roomVars == <<data, next, receipts, notes>>
serverVars == <<cached, job, late>>
userVars == <<acked, seen, walk>>
vars == <<roomVars, serverVars, userVars>>

Idle == [post |-> NoPost, sequence |-> 0]
NoWalk == [limit |-> 0, start |-> 0, to |-> 0, pages |-> <<>>, more |-> FALSE]

Init ==
    /\ data = <<>>
    /\ next = 0
    /\ receipts = [k \in Keys |-> 0]
    /\ notes = {}
    /\ cached = [s \in Servers |-> 0]
    /\ job = [s \in Servers |-> Idle]
    /\ late = {}
    /\ acked = {}
    /\ seen = {}
    /\ walk = NoWalk

-----------------------------------------------------------------------------
(* Posting.                                                                *)

\* The room as server s reads it, from its cache or from Redis.  A room that does
\* not exist is not cached.
Room(s) == IF cached[s] # 0 THEN cached[s] ELSE next

\* chat: the first message of a room has the number 1.
Post(s, p) ==
    /\ job[s] = Idle
    /\ cached' = [cached EXCEPT ![s] = Room(s)]
    /\ job' = [job EXCEPT ![s] = [post |-> p, sequence |-> Most(1, Room(s))]]
    /\ UNCHANGED <<roomVars, late, userVars>>

\* The room in the cache makes way for another item (while the server works on a
\* post this changes nothing: the post has its number, and drops the copy).
Evict(s) ==
    /\ job[s] = Idle
    /\ cached[s] # 0
    /\ cached' = [cached EXCEPT ![s] = 0]
    /\ UNCHANGED <<roomVars, job, late, userVars>>

\* What the script of commitChatMessage finds for the post m.
FoundReceipt(m) == receipts[KeyOf[m.post]] # 0
IsRetry(m) == FoundReceipt(m) /\ data[receipts[KeyOf[m.post]]].post = m.post
NoReceiptCheck(m) == m.sequence = Most(1, next)
InSequence(m) == ~FoundReceipt(m) /\ m.sequence = Most(1, next)

\* What it writes.
AppendMessage(m) ==
    /\ data' = Append(data, [post |-> m.post, sequence |-> m.sequence,
                             unread |-> MentionsOf[m.post]])
    /\ next' = m.sequence + 1
    /\ receipts' = [receipts EXCEPT ![KeyOf[m.post]] = m.sequence]
    /\ notes' = notes \cup {[user |-> u, sequence |-> m.sequence, unread |-> TRUE] :
                               u \in MentionsOf[m.post]}

\* The server answers with what the script has said, or with STORAGE_UNAVAILABLE;
\* its copy of the room is dropped.  Whether the flush after it succeeds and the
\* reply reaches the user changes nothing in the room: acked has the replies as
\* if they all did.
Finish(s, acks) ==
    /\ acked' = acked \cup acks
    /\ cached' = [cached EXCEPT ![s] = 0]
    /\ job' = [job EXCEPT ![s] = Idle]
    /\ UNCHANGED <<late, seen, walk>>

CommitNew(s) ==
    /\ job[s] # Idle
    /\ InSequence(job[s])
    /\ AppendMessage(job[s])
    /\ Finish(s, {job[s]})

\* The receipt is that of the same message: it is returned as it is.
CommitRetry(s) ==
    /\ job[s] # Idle
    /\ IsRetry(job[s])
    /\ Finish(s, {[post |-> job[s].post, sequence |-> receipts[KeyOf[job[s].post]]]})
    /\ UNCHANGED roomVars

\* CLIENT_REQUEST_MISMATCH or SEQUENCE_CONFLICT, or Redis did not execute the
\* script.  When the flush before the script has failed, the copy is kept.
CommitRefused(s) ==
    /\ job[s] # Idle
    /\ cached' \in {cached, [cached EXCEPT ![s] = 0]}
    /\ job' = [job EXCEPT ![s] = Idle]
    /\ UNCHANGED <<roomVars, late, userVars>>

\* The script times out and is executed later or never.
CommitTimesOut(s) ==
    /\ job[s] # Idle
    /\ Cardinality(late) < MaxLate
    /\ late' = late \cup {job[s]}
    /\ cached' = [cached EXCEPT ![s] = 0]
    /\ job' = [job EXCEPT ![s] = Idle]
    /\ UNCHANGED <<roomVars, userVars>>

LateCommit(m) ==
    /\ m \in late
    /\ late' = late \ {m}
    /\ IF InSequence(m) THEN AppendMessage(m) ELSE UNCHANGED roomVars
    /\ UNCHANGED <<cached, job, userVars>>

-----------------------------------------------------------------------------
(* Mentions.                                                               *)

MarkReadNext(u, n) ==
    /\ notes' = {IF m.user = u /\ m.sequence = n THEN [m EXCEPT !.unread = FALSE] ELSE m : m \in notes}
    /\ data' = IF n + 1 \in DOMAIN data THEN [data EXCEPT ![n + 1].unread = @ \ {u}] ELSE data

\* storeMentionState, for reading: the note and the flag of the message.
MarkRead(u, n) ==
    /\ notes' = {IF m.user = u /\ m.sequence = n THEN [m EXCEPT !.unread = FALSE] ELSE m : m \in notes}
    /\ data' = [data EXCEPT ![n].unread = @ \ {u}]

\* mention_read, of a mention that the user has (read or not).  The server's copy
\* of the room is dropped.
MentionRead(s, m) ==
    /\ job[s] = Idle
    /\ m \in notes
    /\ MarkRead(m.user, m.sequence)
    /\ seen' = seen \cup {[user |-> m.user, sequence |-> m.sequence]}
    /\ cached' = [cached EXCEPT ![s] = 0]
    /\ UNCHANGED <<next, receipts, job, late, acked, walk>>

-----------------------------------------------------------------------------
(* History.                                                                *)

PageOf(messages, more) == [messages |-> messages, more |-> more]

\* How a page is found: by its bounds from_sequence and to_sequence (0: not given).
Mode(from, to) ==
    CASE from > 0 /\ to > 0 -> "range"
      [] from > 0 /\ to = 0 -> "from"
      [] from = 0 /\ to > 0 -> "to"
      [] OTHER              -> "latest"

\* The index at which the slice of a page ends at the latest, and the one before
\* its first message.
SliceLast(total, to) == IF to > 0 THEN Least(total, to) ELSE total
SliceStartLate(total, from, to, limit) ==
    IF from > 0 THEN Least(total, from) ELSE Most(0, SliceLast(total, to) - limit)
SliceStart(total, from, to, limit) ==
    IF from > 0 THEN Least(total, from - 1) ELSE Most(0, SliceLast(total, to) - limit)

\* getChatHistoryPage for messages whose numbers are their places: a slice of
\* the array.
Slice(rows, from, to, limit) ==
    LET total == Len(rows)
        start == SliceStart(total, from, to, limit)
        end == CASE Mode(from, to) = "from"  -> Least(total, start + limit)
                 [] Mode(from, to) = "range" -> Most(start, SliceLast(total, to))
                 [] OTHER                    -> SliceLast(total, to)
    IN  PageOf(SubSeq(rows, start + 1, end),
               CASE Mode(from, to) = "from"  -> end < total
                 [] Mode(from, to) = "range" -> FALSE
                 [] OTHER                    -> start > 0)

\* The rows at the places I in the order of their numbers (rows with the same
\* number, which the program never writes, in the order of their places).
Place(rows, I, i) ==
    Cardinality({j \in I : rows[j].sequence < rows[i].sequence
                           \/ (rows[j].sequence = rows[i].sequence /\ j <= i)})
InOrder(rows, I) == [k \in 1..Cardinality(I) |-> rows[CHOOSE i \in I : Place(rows, I, i) = k]]

\* getChatHistoryPage for other arrays: the rows in the range in the order of
\* their numbers, the first or the last of them.
Select(rows, from, to, limit) ==
    LET candidates == InOrder(rows, {i \in DOMAIN rows :
            rows[i].sequence >= from /\ (to > 0 => rows[i].sequence <= to)})
        count == Len(candidates)
        first == Most(1, count - limit + 1)
    IN  CASE Mode(from, to) = "range" -> PageOf(candidates, FALSE)
          [] Mode(from, to) = "from"  -> PageOf(SubSeq(candidates, 1, Least(count, limit)),
                                                count > limit)
          [] OTHER                    -> PageOf(SubSeq(candidates, first, count), first > 1)

Page(from, to, limit) ==
    LET slice == Slice(data, from, to, limit)
        start == SliceStart(Len(data), from, to, limit)
        contiguous == \A i \in DOMAIN slice.messages : slice.messages[i].sequence = start + i
    IN  IF contiguous THEN slice ELSE Select(data, from, to, limit)

NextToSame(page) == Head(page.messages).sequence

\* next_to_sequence, with which a reader asks for the page before this one.
NextTo(page) == Head(page.messages).sequence - 1

\* The reader is not shown who is mentioned.
Shown(messages) == [i \in DOMAIN messages |-> [post |-> messages[i].post,
                                               sequence |-> messages[i].sequence]]

\* A page is put before those that the reader has.
Turned(w, page) ==
    [w EXCEPT !.pages = Shown(page.messages) \o @,
              !.to = IF page.messages = <<>> THEN @ ELSE NextTo(page),
              !.more = page.more]

\* chat_history without bounds, then with to_sequence as long as there is more,
\* each at any server.  The server reads the room first, and so has it in its
\* cache.
ReadLatest(s, limit) ==
    /\ job[s] = Idle
    /\ walk = NoWalk
    /\ cached' = [cached EXCEPT ![s] = Room(s)]
    /\ walk' = Turned([NoWalk EXCEPT !.limit = limit, !.start = Len(data)],
                      Page(0, 0, limit))
    /\ UNCHANGED <<roomVars, job, late, acked, seen>>

ReadBefore(s) ==
    /\ job[s] = Idle
    /\ walk.more
    /\ cached' = [cached EXCEPT ![s] = Room(s)]
    /\ walk' = Turned(walk, Page(0, walk.to, walk.limit))
    /\ UNCHANGED <<roomVars, job, late, acked, seen>>

-----------------------------------------------------------------------------
Next ==
    \/ \E s \in Servers :
         \/ \E p \in Posts : Post(s, p)
         \/ Evict(s)
         \/ CommitNew(s) \/ CommitRetry(s) \/ CommitRefused(s) \/ CommitTimesOut(s)
         \/ \E m \in notes : MentionRead(s, m)
         \/ \E limit \in Limits : ReadLatest(s, limit)
         \/ ReadBefore(s)
    \/ \E m \in late : LateCommit(m)

Spec == Init /\ [][Next]_vars

-----------------------------------------------------------------------------
\* However often and wherever a post is sent, and whenever a timed-out script is
\* executed, the room has one message of a request, the numbers are 1, 2, 3...,
\* and a message that a user was told of is where the reply said
\* (commitChatMessage).
PostedOnce ==
    /\ \A i \in DOMAIN data : data[i].sequence = i
    /\ \A i, j \in DOMAIN data : KeyOf[data[i].post] = KeyOf[data[j].post] => i = j
    /\ \A m \in acked : m.sequence \in DOMAIN data /\ data[m.sequence].post = m.post

\* The two places that say whether a mention is unread agree, each mentioned
\* user has one note, and a mention that was read stays read
\* (commitChatMessage, storeMentionState).
MentionsAgree ==
    /\ \A m \in notes : m.unread <=> m.user \in data[m.sequence].unread
    /\ \A i \in DOMAIN data : \A u \in MentionsOf[data[i].post] :
         \E m \in notes : m.user = u /\ m.sequence = i
    /\ \A r \in seen : [user |-> r.user, sequence |-> r.sequence, unread |-> FALSE] \in notes

\* A reader who follows next_to_sequence until has_more is false has every
\* message that the room had when it began, once and in order, although others
\* are posted and mentions are read meanwhile (getChatHistoryPage, chat_history).
HistoryWhole ==
    walk.limit # 0 /\ ~walk.more => walk.pages = Shown(SubSeq(data, 1, walk.start))

\* The two ways to find a page agree, whatever the bounds and the limit
\* (getChatHistoryPage).  A room at rest is looked at: every array that it can
\* have, it can have then.
PagesAgree ==
    job = [s \in Servers |-> Idle] /\ late = {} /\ walk = NoWalk =>
        \A from, to \in 0..(Len(data) + 1), limit \in 0..(Len(data) + 1) :
            Slice(data, from, to, limit) = Select(data, from, to, limit)
=============================================================================
