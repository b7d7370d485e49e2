--------------------------- MODULE ChatRoomProofs ---------------------------
(***************************************************************************)
(* Proofs about ChatRoom, for any servers, users, posts, page sizes and    *)
(* number of timed-out scripts: every request has one message, the two     *)
(* places that know of a mention agree, a reader who pages back to the     *)
(* beginning has the history, and the two ways to find a page agree.       *)
(***************************************************************************)
EXTENDS ChatRoom, FiniteSetTheorems, SequenceTheorems, TLAPS

-----------------------------------------------------------------------------
(* The inductive invariant.                                                *)

Messages == [post : Posts, sequence : Nat, unread : SUBSET Users]
Claims == [post : Posts, sequence : Nat]

TypeInv ==
    /\ data \in Seq(Messages)
    /\ next \in Nat
    /\ receipts \in [Keys -> Nat]
    /\ notes \in SUBSET [user : Users, sequence : Nat, unread : BOOLEAN]
    /\ cached \in [Servers -> Nat]
    /\ job \in [Servers -> Claims \cup {Idle}]
    /\ late \in SUBSET Claims
    /\ acked \in SUBSET Claims
    /\ seen \in SUBSET [user : Users, sequence : Nat]
    /\ walk \in [limit : Nat, start : Nat, to : Nat, pages : Seq(Claims), more : BOOLEAN]

\* The script hands out the numbers: the next one is one above the number of
\* messages, and messages and receipts name each other.
RoomInv ==
    /\ next = IF Len(data) = 0 THEN 0 ELSE Len(data) + 1
    /\ \A i \in 1..Len(data) : data[i].sequence = i /\ receipts[KeyOf[data[i].post]] = i
    /\ \A k \in Keys : receipts[k] # 0 =>
          receipts[k] \in 1..Len(data) /\ KeyOf[data[receipts[k]].post] = k

\* What users were told is in the room.
AckInv == \A m \in acked : m.sequence \in 1..Len(data) /\ data[m.sequence].post = m.post

\* Each note is of a message and says what the message says.
NoteInv ==
    /\ \A m \in notes : m.sequence \in 1..Len(data)
                        /\ (m.unread <=> m.user \in data[m.sequence].unread)
    /\ \A i \in 1..Len(data) : \A u \in MentionsOf[data[i].post] :
          \E m \in notes : m.user = u /\ m.sequence = i
    /\ \A r \in seen : [user |-> r.user, sequence |-> r.sequence, unread |-> FALSE] \in notes

\* What a reader is shown of the messages from one number to another.
Excerpt(a, b) == [i \in 1..(b - a + 1) |-> [post |-> data[a + i - 1].post, sequence |-> a + i - 1]]

\* A reader has all messages from some number to the one that was the last when
\* it began, and asks for those before that number next.
WalkInv ==
    walk.limit # 0 =>
        /\ walk.start \in 0..Len(data)
        /\ walk.more => walk.to \in 1..walk.start /\ walk.pages = Excerpt(walk.to + 1, walk.start)
        /\ ~walk.more => walk.pages = Excerpt(1, walk.start)

ChatInv == TypeInv /\ RoomInv /\ AckInv /\ NoteInv /\ WalkInv

\* The first state satisfies the invariant.
LEMMA InitChat == Init => ChatInv
<1> SUFFICES ASSUME Init PROVE ChatInv
  OBVIOUS
<1>1. /\ data = <<>> /\ next = 0 /\ receipts = [k \in Keys |-> 0] /\ notes = {}
      /\ cached = [s \in Servers |-> 0] /\ job = [s \in Servers |-> Idle]
      /\ late = {} /\ acked = {} /\ seen = {}
  BY DEF Init
<1>2. walk.limit = 0 /\ walk \in [limit : Nat, start : Nat, to : Nat, pages : Seq(Claims), more : BOOLEAN]
  BY DEF Init, NoWalk
<1>3. TypeInv
  BY <1>1, <1>2 DEF TypeInv
<1>4. RoomInv /\ AckInv /\ NoteInv
  BY <1>1 DEF RoomInv, AckInv, NoteInv
<1> QED
  BY <1>2, <1>3, <1>4 DEF ChatInv, WalkInv

-----------------------------------------------------------------------------
(* What the script of commitChatMessage does.                              *)

\* The number that the script accepts is the next place in the array.
LEMMA NextPlace == ASSUME ChatInv PROVE Most(1, next) = Len(data) + 1
<1>1. Len(data) \in Nat
  BY DEF ChatInv, TypeInv
<1> QED
  BY <1>1 DEF ChatInv, RoomInv, Most

\* A reader's pages do not change as long as the messages keep their places.
LEMMA WalkKept ==
  ASSUME ChatInv, UNCHANGED walk,
         Len(data') \in Nat, Len(data') >= Len(data),
         \A i \in 1..Len(data) : data'[i].post = data[i].post
  PROVE  WalkInv'
<1> SUFFICES ASSUME walk.limit # 0
             PROVE  /\ walk.start \in 0..Len(data')
                    /\ walk.more => walk.to \in 1..walk.start
                                    /\ walk.pages = Excerpt(walk.to + 1, walk.start)'
                    /\ ~walk.more => walk.pages = Excerpt(1, walk.start)'
  BY DEF WalkInv
<1>0. walk.start \in Nat /\ walk.to \in Nat /\ Len(data) \in Nat
  BY DEF ChatInv, TypeInv
<1>1. walk.start \in 0..Len(data)
  BY DEF ChatInv, WalkInv
<1>2. ASSUME NEW a \in 1..(walk.start + 1) PROVE Excerpt(a, walk.start)' = Excerpt(a, walk.start)
  <2>1. walk.start' = walk.start
    OBVIOUS
  <2>2. \A i \in 1..(walk.start - a + 1) : a + i - 1 \in 1..Len(data)
    BY <1>0, <1>1
  <2> QED
    BY <2>1, <2>2 DEF Excerpt
<1>3. walk.more => walk.to + 1 \in 1..(walk.start + 1)
  BY <1>0 DEF ChatInv, WalkInv
<1>4. 1 \in 1..(walk.start + 1)
  BY <1>0
<1> QED
  BY <1>0, <1>1, <1>2, <1>3, <1>4 DEF ChatInv, WalkInv

\* A post that is accepted has no receipt yet and gets the next place; nothing
\* else moves.
LEMMA AppendRoom ==
  ASSUME ChatInv, NEW m \in Claims, InSequence(m), AppendMessage(m),
         UNCHANGED seen
  PROVE  /\ data' \in Seq(Messages) /\ next' \in Nat /\ receipts' \in [Keys -> Nat]
         /\ notes' \in SUBSET [user : Users, sequence : Nat, unread : BOOLEAN]
         /\ RoomInv' /\ NoteInv'
         /\ m.sequence = Len(data) + 1
         /\ Len(data') = Len(data) + 1
         /\ \A i \in 1..Len(data) : data'[i] = data[i]
         /\ data'[m.sequence].post = m.post
<1> DEFINE k == KeyOf[m.post]
           row == [post |-> m.post, sequence |-> m.sequence, unread |-> MentionsOf[m.post]]
<1>0. /\ data \in Seq(Messages) /\ Len(data) \in Nat
      /\ receipts \in [Keys -> Nat]
      /\ notes \in SUBSET [user : Users, sequence : Nat, unread : BOOLEAN]
  BY DEF ChatInv, TypeInv
<1>1. m.post \in Posts /\ m.sequence = Len(data) + 1 /\ receipts[k] = 0
  BY NextPlace DEF InSequence, FoundReceipt, Claims
<1>2. k \in Keys /\ MentionsOf[m.post] \in SUBSET Users
  BY <1>1, ChatAssumption DEF Keys
<1>3. row \in Messages
  BY <1>0, <1>1, <1>2 DEF Messages
<1>4. data' = Append(data, row) /\ next' = m.sequence + 1
  BY DEF AppendMessage
<1>5. /\ data' \in Seq(Messages) /\ Len(data') = Len(data) + 1
      /\ \A i \in 1..Len(data) : data'[i] = data[i]
      /\ data'[Len(data) + 1] = row
  BY <1>0, <1>3, <1>4
<1>6. /\ receipts' \in [Keys -> Nat]
      /\ receipts'[k] = m.sequence
      /\ \A x \in Keys : x # k => receipts'[x] = receipts[x]
  BY <1>0, <1>1, <1>2 DEF AppendMessage
<1>7. RoomInv'
  <2>1. next' = IF Len(data') = 0 THEN 0 ELSE Len(data') + 1
    BY <1>0, <1>1, <1>4, <1>5
  <2>2. ASSUME NEW i \in 1..Len(data') PROVE data'[i].sequence = i /\ receipts'[KeyOf[data'[i].post]] = i
    <3>1. CASE i = Len(data) + 1
      BY <1>1, <1>5, <1>6, <3>1
    <3>2. CASE i \in 1..Len(data)
      <4>1. data'[i] = data[i] /\ data[i].sequence = i /\ receipts[KeyOf[data[i].post]] = i
        BY <1>5, <3>2 DEF ChatInv, RoomInv
      <4>0. data[i] \in Messages
        BY <1>0, <3>2
      <4>2. data[i].post \in Posts
        BY <4>0 DEF Messages
      <4>3. KeyOf[data[i].post] \in Keys
        BY <4>2 DEF Keys
      <4>4. KeyOf[data[i].post] # k
        BY <1>1, <3>2, <4>1
      <4> QED
        BY <1>6, <4>1, <4>3, <4>4
    <3> QED
      BY <1>0, <1>5, <3>1, <3>2
  <2>3. ASSUME NEW x \in Keys, receipts'[x] # 0
        PROVE  receipts'[x] \in 1..Len(data') /\ KeyOf[data'[receipts'[x]].post] = x
    <3>1. CASE x = k
      BY <1>0, <1>1, <1>5, <1>6, <3>1
    <3>2. CASE x # k
      <4>1. receipts'[x] = receipts[x]
        BY <1>6, <2>3, <3>2
      <4>2. receipts[x] \in 1..Len(data) /\ KeyOf[data[receipts[x]].post] = x
        BY <2>3, <4>1 DEF ChatInv, RoomInv
      <4> QED
        BY <1>0, <1>5, <4>1, <4>2
    <3> QED
      BY <3>1, <3>2
  <2> QED
    BY <2>1, <2>2, <2>3 DEF RoomInv
<1>8. notes' = notes \cup {[user |-> u, sequence |-> m.sequence, unread |-> TRUE] : u \in MentionsOf[m.post]}
  BY DEF AppendMessage
<1>9. notes' \in SUBSET [user : Users, sequence : Nat, unread : BOOLEAN]
  <2>1. ASSUME NEW u \in MentionsOf[m.post]
        PROVE  [user |-> u, sequence |-> m.sequence, unread |-> TRUE]
                  \in [user : Users, sequence : Nat, unread : BOOLEAN]
    BY <1>0, <1>1, <1>2
  <2> QED
    BY <1>0, <1>8, <2>1
<1>10. NoteInv'
  <2>1. ASSUME NEW n \in notes'
        PROVE  n.sequence \in 1..Len(data') /\ (n.unread <=> n.user \in data'[n.sequence].unread)
    <3>1. CASE n \in notes
      BY <1>0, <1>5, <3>1 DEF ChatInv, NoteInv
    <3>2. CASE n \notin notes
      <4>1. PICK u \in MentionsOf[m.post] : n = [user |-> u, sequence |-> m.sequence, unread |-> TRUE]
        BY <1>8, <3>2
      <4> QED
        BY <1>0, <1>1, <1>5, <4>1
    <3> QED
      BY <3>1, <3>2
  <2>2. ASSUME NEW i \in 1..Len(data'), NEW u \in MentionsOf[data'[i].post]
        PROVE  \E n \in notes' : n.user = u /\ n.sequence = i
    <3>1. CASE i = Len(data) + 1
      <4>1. u \in MentionsOf[m.post]
        BY <1>5, <3>1
      <4>2. [user |-> u, sequence |-> m.sequence, unread |-> TRUE] \in notes'
        BY <1>8, <4>1
      <4> QED
        BY <1>1, <3>1, <4>2
    <3>2. CASE i \in 1..Len(data)
      <4>1. u \in MentionsOf[data[i].post]
        BY <1>5, <3>2
      <4>2. PICK n \in notes : n.user = u /\ n.sequence = i
        BY <3>2, <4>1 DEF ChatInv, NoteInv
      <4> QED
        BY <1>8, <4>2
    <3> QED
      BY <1>0, <1>5, <3>1, <3>2
  <2>3. \A r \in seen' : [user |-> r.user, sequence |-> r.sequence, unread |-> FALSE] \in notes'
    BY <1>8 DEF ChatInv, NoteInv
  <2> QED
    BY <2>1, <2>2, <2>3 DEF NoteInv
<1>11. next' \in Nat
  BY <1>0, <1>1, <1>4
<1> QED
  BY <1>1, <1>5, <1>6, <1>7, <1>9, <1>10, <1>11

-----------------------------------------------------------------------------
(* What getChatHistoryPage does for a reader who pages back.               *)

\* A function on an initial segment of the numbers is a sequence.
LEMMA FunctionIsSeq ==
  ASSUME NEW S, NEW n \in Nat, NEW f \in [1..n -> S]
  PROVE  f \in Seq(S) /\ Len(f) = n
OBVIOUS

\* An excerpt is a sequence of what readers are shown.
LEMMA ExcerptType ==
  ASSUME ChatInv, NEW b \in 0..Len(data), NEW a \in 1..(b + 1)
  PROVE  Excerpt(a, b) \in Seq(Claims) /\ Len(Excerpt(a, b)) = b - a + 1
<1>0. data \in Seq(Messages) /\ Len(data) \in Nat /\ a \in Nat /\ b \in Nat /\ b - a + 1 \in Nat
  BY DEF ChatInv, TypeInv
<1>1. ASSUME NEW i \in 1..(b - a + 1)
      PROVE  [post |-> data[a + i - 1].post, sequence |-> a + i - 1] \in Claims
  <2>1. a + i - 1 \in 1..Len(data)
    BY <1>0
  <2>2. data[a + i - 1] \in Messages
    BY <1>0, <2>1
  <2> QED
    BY <2>1, <2>2 DEF Messages, Claims
<1>2. Excerpt(a, b) \in [1..(b - a + 1) -> Claims]
  BY <1>1 DEF Excerpt
<1> QED
  BY <1>0, <1>2, FunctionIsSeq

\* Two excerpts that meet make one.
LEMMA ExcerptJoin ==
  ASSUME ChatInv, NEW c \in 0..Len(data), NEW b \in 0..c, NEW a \in 1..(b + 1)
  PROVE  Excerpt(a, b) \o Excerpt(b + 1, c) = Excerpt(a, c)
<1> DEFINE E == Excerpt(a, b)
           F == Excerpt(b + 1, c)
           G == Excerpt(a, c)
<1>0. Len(data) \in Nat /\ a \in Nat /\ b \in Nat /\ c \in Nat
  BY DEF ChatInv, TypeInv
<1>1. /\ E \in Seq(Claims) /\ Len(E) = b - a + 1
      /\ F \in Seq(Claims) /\ Len(F) = c - b
      /\ G \in Seq(Claims) /\ Len(G) = c - a + 1
  <2>1. /\ b \in 0..Len(data) /\ a \in 1..(c + 1) /\ b + 1 \in 1..(c + 1)
        /\ c - (b + 1) + 1 = c - b
    BY <1>0
  <2> HIDE DEF E, F, G
  <2>2. E \in Seq(Claims) /\ Len(E) = b - a + 1
    BY <2>1, ExcerptType DEF E
  <2>3. F \in Seq(Claims) /\ Len(F) = c - b
    BY <2>1, ExcerptType DEF F
  <2>4. G \in Seq(Claims) /\ Len(G) = c - a + 1
    BY <2>1, ExcerptType DEF G
  <2> QED
    BY <2>2, <2>3, <2>4
<1>2. E \o F \in Seq(Claims) /\ Len(E \o F) = Len(G)
  <2> HIDE DEF E, F, G
  <2>1. E \o F \in Seq(Claims) /\ Len(E \o F) = Len(E) + Len(F)
    BY <1>1
  <2> QED
    BY <1>0, <1>1, <2>1
<1>3. ASSUME NEW i \in 1..Len(G) PROVE (E \o F)[i] = G[i]
  <2>0. i \in 1..(c - a + 1) /\ i \in Nat
    BY <1>0, <1>1
  <2>1. G[i] = [post |-> data[a + i - 1].post, sequence |-> a + i - 1]
    BY <2>0 DEF Excerpt
  <2>2. CASE i <= b - a + 1
    <3>1. (E \o F)[i] = E[i] /\ i \in 1..(b - a + 1)
      <4> HIDE DEF E, F
      <4>1. \A k \in 1..(Len(E) + Len(F)) :
                (E \o F)[k] = IF k <= Len(E) THEN E[k] ELSE F[k - Len(E)]
        BY <1>1, ConcatProperties
      <4>2. i \in 1..(Len(E) + Len(F)) /\ i <= Len(E) /\ i \in 1..(b - a + 1)
        BY <1>0, <1>1, <2>0, <2>2
      <4> QED
        BY <4>1, <4>2
    <3> QED
      BY <2>1, <3>1 DEF Excerpt
  <2>3. CASE i > b - a + 1
    <3> DEFINE j == i - (b - a + 1)
    <3>1. j \in 1..(c - b) /\ (b + 1) + j - 1 = a + i - 1 /\ c - (b + 1) + 1 = c - b
      BY <1>0, <2>0, <2>3
    <3>2. (E \o F)[i] = F[j]
      <4> HIDE DEF E, F
      <4>1. \A k \in 1..(Len(E) + Len(F)) :
                (E \o F)[k] = IF k <= Len(E) THEN E[k] ELSE F[k - Len(E)]
        BY <1>1, ConcatProperties
      <4>2. i \in 1..(Len(E) + Len(F)) /\ ~(i <= Len(E)) /\ i - Len(E) = j
        BY <1>0, <1>1, <2>0, <2>3
      <4> HIDE DEF j
      <4> QED
        BY <4>1, <4>2
    <3>3. F[j] = [post |-> data[(b + 1) + j - 1].post, sequence |-> (b + 1) + j - 1]
      BY <3>1 DEF Excerpt
    <3> QED
      BY <2>1, <3>1, <3>2, <3>3
  <2>4. i <= b - a + 1 \/ i > b - a + 1
    BY <1>0, <2>0
  <2> QED
    BY <2>2, <2>3, <2>4
<1> HIDE DEF E, F, G
<1>4. E \o F = G
  BY <1>1, <1>2, <1>3, SeqEqual
<1> QED
  BY <1>4 DEF E, F, G

\* The messages after the place first, up to the place last.
Run(first, last) == SubSeq(data, first + 1, last)

\* They are a sequence of their own.
LEMMA RunFacts ==
  ASSUME data \in Seq(Messages), NEW last \in 0..Len(data), NEW first \in 0..last
  PROVE  /\ Run(first, last) \in Seq(Messages)
         /\ Len(Run(first, last)) = last - first
         /\ \A i \in 1..(last - first) : Run(first, last)[i] = data[first + i]
<1>0. Len(data) \in Nat /\ first \in Nat /\ last \in Nat /\ first <= last /\ last <= Len(data)
  BY LenProperties
<1>1. PICK m \in Int : m = first + 1
  BY <1>0
<1> DEFINE run == SubSeq(data, m, last)
<1>2. /\ run \in Seq(Messages)
      /\ Len(run) = IF m <= last THEN last - m + 1 ELSE 0
      /\ \A i \in 1..(last - m + 1) : run[i] = data[m + i - 1]
  <2>1. \A i \in m..last : data[i] \in Messages
    BY <1>0, <1>1, ElementOfSeq
  <2> QED
    BY <1>0, <2>1, SubSeqProperties
<1> HIDE DEF run
<1>3. Len(run) = last - first
  BY <1>0, <1>1, <1>2
<1>4. ASSUME NEW i \in 1..(last - first) PROVE run[i] = data[first + i]
  <2>1. i \in 1..(last - m + 1) /\ m + i - 1 = first + i
    BY <1>0, <1>1
  <2> QED
    BY <1>2, <2>1
<1> QED
  BY <1>1, <1>2, <1>3, <1>4 DEF run, Run

\* The page asked for with to_sequence has the messages from first + 1 to last.
PageRuns(to, limit, first, last) ==
    /\ last <= Len(data) /\ first <= last
    /\ Page(0, to, limit).more = (first > 0)
    /\ Shown(Page(0, to, limit).messages) = Excerpt(first + 1, last)
    /\ first < last => NextTo(Page(0, to, limit)) = first
    /\ Page(0, to, limit).messages = <<>> <=> first = last

\* The numbers of a slice are its places: the page is the slice, and what is shown
\* of it is an excerpt.
LEMMA PageIsSlice ==
  ASSUME ChatInv, NEW to \in Nat, NEW limit \in Nat,
         NEW last \in Nat, last = SliceLast(Len(data), to),
         NEW first \in Nat, first = Most(0, last - limit)
  PROVE  PageRuns(to, limit, first, last)
<1>0. data \in Seq(Messages) /\ Len(data) \in Nat
  BY DEF ChatInv, TypeInv
<1>1. last <= Len(data) /\ first <= last /\ last - first \in Nat
  BY <1>0 DEF SliceLast, Least, Most
<1>2. Mode(0, to) \in {"to", "latest"}
  BY DEF Mode
<1>3. SliceStart(Len(data), 0, to, limit) = first
  BY DEF SliceStart
<1> DEFINE sub == Run(first, last)
<1>4. Slice(data, 0, to, limit) = [messages |-> sub, more |-> first > 0]
  BY <1>2, <1>3 DEF Slice, PageOf, Run
<1>5. /\ sub \in Seq(Messages) /\ Len(sub) = last - first
      /\ \A i \in 1..(last - first) : sub[i] = data[first + i]
  <2>1. last \in 0..Len(data) /\ first \in 0..last
    BY <1>0, <1>1
  <2> QED
    BY <1>0, <2>1, RunFacts
<1> HIDE DEF sub
<1>6. \A i \in 1..(last - first) : sub[i].sequence = first + i
  <2> SUFFICES ASSUME NEW i \in 1..(last - first) PROVE sub[i].sequence = first + i
    OBVIOUS
  <2>0. PICK n \in Nat : n = Len(data) /\ last <= n
    BY <1>0, <1>1
  <2>1. first + i \in 1..n
    BY <2>0
  <2>2. data[first + i].sequence = first + i
    BY <2>0, <2>1 DEF ChatInv, RoomInv
  <2> QED
    BY <1>5, <2>2
<1>7. DOMAIN sub = 1..(last - first)
  BY <1>5, LenProperties
<1>8. Page(0, to, limit) = [messages |-> sub, more |-> first > 0]
  <2>1. Slice(data, 0, to, limit).messages = sub
    BY <1>4
  <2> QED
    BY <1>3, <1>4, <1>6, <1>7, <2>1 DEF Page
<1>9. Shown(sub) = Excerpt(first + 1, last)
  <2>1. last - (first + 1) + 1 = last - first /\ \A i \in 1..(last - first) : (first + 1) + i - 1 = first + i
    OBVIOUS
  <2>2. Excerpt(first + 1, last) =
          [i \in 1..(last - first) |-> [post |-> data[first + i].post, sequence |-> first + i]]
    BY <2>1 DEF Excerpt
  <2>3. Shown(sub) = [i \in 1..(last - first) |-> [post |-> sub[i].post, sequence |-> sub[i].sequence]]
    BY <1>7 DEF Shown
  <2>4. \A i \in 1..(last - first) : sub[i].post = data[first + i].post /\ sub[i].sequence = first + i
    BY <1>5, <1>6
  <2>5. \A i \in 1..(last - first) :
            [post |-> sub[i].post, sequence |-> sub[i].sequence]
              = [post |-> data[first + i].post, sequence |-> first + i]
    BY <2>4
  <2>6. [i \in 1..(last - first) |-> [post |-> sub[i].post, sequence |-> sub[i].sequence]]
          = [i \in 1..(last - first) |-> [post |-> data[first + i].post, sequence |-> first + i]]
    BY <2>5, Zenon
  <2> QED
    BY <2>2, <2>3, <2>6, Zenon
<1>10. first < last => Head(sub).sequence - 1 = first
  <2> SUFFICES ASSUME first < last PROVE Head(sub).sequence - 1 = first
    OBVIOUS
  <2>1. 1 \in 1..(last - first)
    OBVIOUS
  <2>2. Head(sub) = sub[1]
    BY <1>5, <2>1
  <2>3. sub[1].sequence = first + 1
    BY <1>6, <2>1
  <2> QED
    BY <2>2, <2>3
<1>11. sub = <<>> <=> first = last
  <2>1. sub = <<>> <=> Len(sub) = 0
    BY <1>5, EmptySeq
  <2> QED
    BY <1>1, <1>5, <2>1
<1> QED
  <2>1. Page(0, to, limit).messages = sub /\ Page(0, to, limit).more = (first > 0)
    BY <1>8
  <2> QED
    BY <1>1, <1>9, <1>10, <1>11, <2>1 DEF NextTo, PageRuns

-----------------------------------------------------------------------------
(* Every step keeps the invariant.                                         *)

\* What a server works on is a post of a user.
LEMMA JobFacts ==
  ASSUME ChatInv, NEW s \in Servers, job[s] # Idle
  PROVE  job[s] \in Claims /\ job[s].post \in Posts /\ job[s].sequence \in Nat
<1>1. job[s] \in Claims
  BY DEF ChatInv, TypeInv
<1> QED
  BY <1>1 DEF Claims

\* A step that leaves the room and the users' knowledge alone.
LEMMA QuietStep ==
  ASSUME ChatInv, UNCHANGED <<roomVars, acked, seen, walk>>,
         cached' \in [Servers -> Nat],
         job' \in [Servers -> Claims \cup {Idle}],
         late' \in SUBSET Claims
  PROVE  ChatInv'
<1>1. TypeInv'
  BY DEF ChatInv, TypeInv, roomVars
<1>2. RoomInv' /\ AckInv' /\ NoteInv'
  BY DEF ChatInv, RoomInv, AckInv, NoteInv, roomVars
<1>3. WalkInv'
  BY DEF ChatInv, WalkInv, Excerpt, roomVars
<1> QED
  BY <1>1, <1>2, <1>3 DEF ChatInv

\* What a server reads of the room is a number.
LEMMA RoomType == ASSUME ChatInv, NEW s \in Servers PROVE Room(s) \in Nat
BY DEF ChatInv, TypeInv, Room

\* Starting, forgetting, refusing or giving up a post leaves the room alone.
LEMMA ServerChat ==
  ASSUME ChatInv, NEW s \in Servers,
         (\E p \in Posts : Post(s, p)) \/ Evict(s) \/ CommitRefused(s) \/ CommitTimesOut(s)
  PROVE  ChatInv'
<1>0. /\ cached \in [Servers -> Nat]
      /\ job \in [Servers -> Claims \cup {Idle}]
      /\ late \in SUBSET Claims
  BY DEF ChatInv, TypeInv
<1>1. ASSUME NEW p \in Posts, Post(s, p) PROVE ChatInv'
  <2>1. Most(1, Room(s)) \in Nat
    BY RoomType DEF Most
  <2>2. [post |-> p, sequence |-> Most(1, Room(s))] \in Claims
    BY <2>1 DEF Claims
  <2>3. job' \in [Servers -> Claims \cup {Idle}] /\ cached' \in [Servers -> Nat]
    BY <1>0, <1>1, <2>2, RoomType DEF Post
  <2> QED
    BY <1>0, <1>1, <2>3, QuietStep DEF Post, userVars
<1>2. CASE Evict(s)
  <2>1. cached' \in [Servers -> Nat]
    BY <1>0, <1>2 DEF Evict
  <2> QED
    BY <1>0, <1>2, <2>1, QuietStep DEF Evict, userVars
<1>3. CASE CommitRefused(s)
  <2>1. cached' \in [Servers -> Nat] /\ job' \in [Servers -> Claims \cup {Idle}]
    BY <1>0, <1>3 DEF CommitRefused
  <2> QED
    BY <1>0, <1>3, <2>1, QuietStep DEF CommitRefused, userVars
<1>4. CASE CommitTimesOut(s)
  <2>1. cached' \in [Servers -> Nat] /\ job' \in [Servers -> Claims \cup {Idle}]
    BY <1>0, <1>4 DEF CommitTimesOut
  <2>2. late' \in SUBSET Claims
    BY <1>0, <1>4, JobFacts DEF CommitTimesOut
  <2> QED
    BY <1>4, <2>1, <2>2, QuietStep DEF CommitTimesOut, userVars
<1> QED
  BY <1>1, <1>2, <1>3, <1>4

\* A message that is appended is where the reply says.
LEMMA CommitNewChat ==
  ASSUME ChatInv, NEW s \in Servers, CommitNew(s)
  PROVE  ChatInv'
<1> DEFINE m == job[s]
<1>0. /\ m \in Claims /\ InSequence(m) /\ AppendMessage(m)
      /\ acked' = acked \cup {m} /\ UNCHANGED <<late, seen, walk>>
      /\ cached' = [cached EXCEPT ![s] = 0]
      /\ job' = [job EXCEPT ![s] = Idle]
  BY JobFacts DEF CommitNew, Finish
<1> HIDE DEF m
<1>1. /\ data' \in Seq(Messages) /\ next' \in Nat /\ receipts' \in [Keys -> Nat]
      /\ notes' \in SUBSET [user : Users, sequence : Nat, unread : BOOLEAN]
      /\ RoomInv' /\ NoteInv'
      /\ m.sequence = Len(data) + 1
      /\ Len(data') = Len(data) + 1
      /\ \A i \in 1..Len(data) : data'[i] = data[i]
      /\ data'[m.sequence].post = m.post
  BY <1>0, AppendRoom
<1>2. Len(data) \in Nat
  BY DEF ChatInv, TypeInv
<1>3. TypeInv'
  BY <1>0, <1>1 DEF ChatInv, TypeInv
<1>4. AckInv'
  <2> SUFFICES ASSUME NEW a \in acked'
               PROVE  a.sequence \in 1..Len(data') /\ data'[a.sequence].post = a.post
    BY DEF AckInv
  <2>1. CASE a \in acked
    BY <1>1, <1>2, <2>1 DEF ChatInv, AckInv
  <2>2. CASE a = m
    BY <1>1, <1>2, <2>2
  <2> QED
    BY <1>0, <2>1, <2>2
<1>5. WalkInv'
  BY <1>0, <1>1, <1>2, WalkKept
<1> QED
  BY <1>1, <1>3, <1>4, <1>5 DEF ChatInv

\* A retry is told of the message that its receipt names.
LEMMA CommitRetryChat ==
  ASSUME ChatInv, NEW s \in Servers, CommitRetry(s)
  PROVE  ChatInv'
<1> DEFINE k == KeyOf[job[s].post]
           a == [post |-> job[s].post, sequence |-> receipts[k]]
<1>1. /\ job[s] # Idle
      /\ receipts[k] # 0 /\ data[receipts[k]].post = job[s].post
      /\ acked' = acked \cup {a}
      /\ UNCHANGED <<roomVars, late, seen, walk>>
      /\ cached' = [cached EXCEPT ![s] = 0]
      /\ job' = [job EXCEPT ![s] = Idle]
  BY DEF CommitRetry, Finish, IsRetry, FoundReceipt
<1>2. job[s].post \in Posts /\ k \in Keys
  BY <1>1, JobFacts DEF Keys
<1>3. receipts[k] \in Nat
  BY <1>2 DEF ChatInv, TypeInv
<1>4. receipts[k] \in 1..Len(data)
  BY <1>1, <1>2 DEF ChatInv, RoomInv
<1>5. a \in Claims
  BY <1>2, <1>3 DEF Claims
<1>6. TypeInv'
  BY <1>1, <1>5 DEF ChatInv, TypeInv, roomVars
<1>7. RoomInv' /\ NoteInv'
  BY <1>1 DEF ChatInv, RoomInv, NoteInv, roomVars
<1>8. AckInv'
  <2> SUFFICES ASSUME NEW b \in acked'
               PROVE  b.sequence \in 1..Len(data) /\ data[b.sequence].post = b.post
    BY <1>1 DEF AckInv, roomVars
  <2>1. CASE b \in acked
    BY <2>1 DEF ChatInv, AckInv
  <2>2. CASE b = a
    BY <1>1, <1>4, <2>2
  <2> QED
    BY <1>1, <2>1, <2>2
<1>9. WalkInv'
  BY <1>1 DEF ChatInv, WalkInv, Excerpt, roomVars
<1> QED
  BY <1>6, <1>7, <1>8, <1>9 DEF ChatInv

\* A script that is executed late appends or changes nothing.
LEMMA LateChat ==
  ASSUME ChatInv, NEW m \in late, LateCommit(m)
  PROVE  ChatInv'
<1>0. m \in Claims /\ late' \in SUBSET Claims
  BY DEF ChatInv, TypeInv, LateCommit
<1>1. CASE InSequence(m)
  <2>0. AppendMessage(m) /\ UNCHANGED <<cached, job, acked, seen, walk>>
    BY <1>1 DEF LateCommit, userVars
  <2>1. /\ data' \in Seq(Messages) /\ next' \in Nat /\ receipts' \in [Keys -> Nat]
        /\ notes' \in SUBSET [user : Users, sequence : Nat, unread : BOOLEAN]
        /\ RoomInv' /\ NoteInv'
        /\ Len(data') = Len(data) + 1
        /\ \A i \in 1..Len(data) : data'[i] = data[i]
    BY <1>0, <1>1, <2>0, AppendRoom
  <2>2. Len(data) \in Nat
    BY DEF ChatInv, TypeInv
  <2>3. TypeInv'
    BY <1>0, <2>0, <2>1 DEF ChatInv, TypeInv
  <2>4. AckInv'
    BY <2>0, <2>1, <2>2 DEF ChatInv, AckInv
  <2>5. WalkInv'
    BY <2>0, <2>1, <2>2, WalkKept
  <2> QED
    BY <2>1, <2>3, <2>4, <2>5 DEF ChatInv
<1>2. CASE ~InSequence(m)
  BY <1>0, <1>2, QuietStep DEF LateCommit, userVars, ChatInv, TypeInv
<1> QED
  BY <1>1, <1>2

\* A mention that is read is read in both places; others keep what they say.
LEMMA MentionChat ==
  ASSUME ChatInv, NEW s \in Servers, NEW m \in notes, MentionRead(s, m)
  PROVE  ChatInv'
<1> DEFINE n == m.sequence
           u == m.user
           Mark(x) == IF x.user = u /\ x.sequence = n THEN [x EXCEPT !.unread = FALSE] ELSE x
           row == [data[n] EXCEPT !.unread = @ \ {u}]
<1>0. /\ data \in Seq(Messages) /\ Len(data) \in Nat
      /\ notes \in SUBSET [user : Users, sequence : Nat, unread : BOOLEAN]
      /\ m \in [user : Users, sequence : Nat, unread : BOOLEAN]
  BY DEF ChatInv, TypeInv
<1>1. /\ notes' = {Mark(x) : x \in notes}
      /\ data' = [data EXCEPT ![n] = row]
      /\ seen' = seen \cup {[user |-> u, sequence |-> n]}
      /\ cached' = [cached EXCEPT ![s] = 0]
      /\ UNCHANGED <<next, receipts, job, late, acked, walk>>
  BY DEF MentionRead, MarkRead
<1>2. n \in 1..Len(data) /\ u \in Users /\ n \in Nat
  BY <1>0 DEF ChatInv, NoteInv
<1>3. data[n] \in Messages
  BY <1>0, <1>2
<1>4. /\ row \in Messages /\ row.post = data[n].post /\ row.sequence = data[n].sequence
      /\ row.unread = data[n].unread \ {u}
  BY <1>3 DEF Messages
<1> HIDE DEF row
<1>5. /\ data' \in Seq(Messages) /\ Len(data') = Len(data)
      /\ data'[n] = row
      /\ \A i \in 1..Len(data) : i # n => data'[i] = data[i]
  BY <1>0, <1>1, <1>2, <1>4, ExceptSeq
<1>6. \A i \in 1..Len(data) : data'[i].post = data[i].post /\ data'[i].sequence = data[i].sequence
  BY <1>4, <1>5
<1>7. \A x \in notes : /\ Mark(x) \in [user : Users, sequence : Nat, unread : BOOLEAN]
                       /\ Mark(x).user = x.user /\ Mark(x).sequence = x.sequence
  BY <1>0
<1>8. TypeInv'
  <2>1. notes' \in SUBSET [user : Users, sequence : Nat, unread : BOOLEAN]
    BY <1>1, <1>7
  <2>2. seen' \in SUBSET [user : Users, sequence : Nat]
    BY <1>1, <1>2 DEF ChatInv, TypeInv
  <2>3. cached' \in [Servers -> Nat]
    BY <1>1 DEF ChatInv, TypeInv
  <2> QED
    BY <1>1, <1>5, <2>1, <2>2, <2>3 DEF ChatInv, TypeInv
<1>9. RoomInv'
  <2>1. next' = IF Len(data') = 0 THEN 0 ELSE Len(data') + 1
    BY <1>1, <1>5 DEF ChatInv, RoomInv
  <2>2. ASSUME NEW i \in 1..Len(data') PROVE data'[i].sequence = i /\ receipts'[KeyOf[data'[i].post]] = i
    BY <1>1, <1>5, <1>6 DEF ChatInv, RoomInv
  <2>3. ASSUME NEW x \in Keys, receipts'[x] # 0
        PROVE  receipts'[x] \in 1..Len(data') /\ KeyOf[data'[receipts'[x]].post] = x
    <3>1. receipts'[x] = receipts[x]
      BY <1>1
    <3>2. receipts[x] \in 1..Len(data) /\ KeyOf[data[receipts[x]].post] = x
      BY <2>3, <3>1 DEF ChatInv, RoomInv
    <3> QED
      BY <1>5, <1>6, <3>1, <3>2
  <2> QED
    BY <2>1, <2>2, <2>3 DEF RoomInv
<1>10. AckInv'
  BY <1>1, <1>5, <1>6 DEF ChatInv, AckInv
<1>11. NoteInv'
  <2>1. ASSUME NEW y \in notes'
        PROVE  y.sequence \in 1..Len(data') /\ (y.unread <=> y.user \in data'[y.sequence].unread)
    <3>1. PICK x \in notes : y = Mark(x)
      BY <1>1
    <3>2. /\ x.sequence \in 1..Len(data) /\ (x.unread <=> x.user \in data[x.sequence].unread)
          /\ x \in [user : Users, sequence : Nat, unread : BOOLEAN]
      BY <1>0 DEF ChatInv, NoteInv
    <3>3. CASE x.user = u /\ x.sequence = n
      <4>1. y.sequence = n /\ y.user = u /\ y.unread = FALSE
        BY <3>1, <3>2, <3>3
      <4>2. u \notin data'[n].unread
        BY <1>4, <1>5
      <4> QED
        BY <1>2, <1>5, <4>1, <4>2
    <3>4. CASE x.sequence # n
      BY <1>5, <3>1, <3>2, <3>4
    <3>5. CASE x.sequence = n /\ x.user # u
      <4>1. y = x
        BY <3>1, <3>5
      <4>2. x.user \in data'[n].unread <=> x.user \in data[n].unread
        BY <1>4, <1>5, <3>5
      <4> QED
        BY <1>5, <3>2, <3>5, <4>1, <4>2
    <3> QED
      BY <3>3, <3>4, <3>5
  <2>2. ASSUME NEW i \in 1..Len(data'), NEW v \in MentionsOf[data'[i].post]
        PROVE  \E y \in notes' : y.user = v /\ y.sequence = i
    <3>1. i \in 1..Len(data) /\ v \in MentionsOf[data[i].post]
      BY <1>5, <1>6
    <3>2. PICK x \in notes : x.user = v /\ x.sequence = i
      BY <3>1 DEF ChatInv, NoteInv
    <3>3. Mark(x) \in notes'
      BY <1>1
    <3> QED
      BY <1>7, <3>2, <3>3
  <2>3. ASSUME NEW r \in seen'
        PROVE  [user |-> r.user, sequence |-> r.sequence, unread |-> FALSE] \in notes'
    <3>1. CASE r \in seen
      <4> DEFINE x == [user |-> r.user, sequence |-> r.sequence, unread |-> FALSE]
      <4>1. x \in notes
        BY <3>1 DEF ChatInv, NoteInv
      <4>2. Mark(x) = x
        OBVIOUS
      <4> QED
        BY <1>1, <4>1, <4>2
    <3>2. CASE r = [user |-> u, sequence |-> n]
      <4>1. Mark(m) = [user |-> u, sequence |-> n, unread |-> FALSE]
        BY <1>0
      <4> QED
        BY <1>1, <3>2, <4>1
    <3> QED
      BY <1>1, <3>1, <3>2
  <2> QED
    BY <2>1, <2>2, <2>3 DEF NoteInv
<1>12. WalkInv'
  BY <1>0, <1>1, <1>5, <1>6, WalkKept
<1> QED
  BY <1>8, <1>9, <1>10, <1>11, <1>12 DEF ChatInv

\* A page that is turned has the messages just before those the reader has.
LEMMA TurnPage ==
  ASSUME ChatInv, NEW start \in Nat, NEW to \in Nat, NEW limit \in Nat,
         NEW pages \in Seq(Claims), NEW more, NEW w,
         w = [limit |-> limit, start |-> start, to |-> to, pages |-> pages, more |-> more],
         NEW last \in Nat, last = SliceLast(Len(data), to),
         limit # 0 => last <= start /\ start <= Len(data) /\ pages = Excerpt(last + 1, start),
         UNCHANGED <<data, next, receipts, notes, job, late, acked, seen>>,
         cached' \in [Servers -> Nat],
         walk' = Turned(w, Page(0, to, limit))
  PROVE  ChatInv'
<1> DEFINE page == Page(0, to, limit)
<1>0. Len(data) \in Nat
  BY DEF ChatInv, TypeInv
<1>1. PICK first \in Nat : first = Most(0, last - limit)
  BY DEF Most
<1>2. /\ last <= Len(data) /\ first <= last
      /\ page.more = (first > 0)
      /\ Shown(page.messages) = Excerpt(first + 1, last)
      /\ first < last => NextTo(page) = first
      /\ page.messages = <<>> <=> first = last
  <2>1. PageRuns(to, limit, first, last)
    BY <1>1, PageIsSlice
  <2> QED
    BY <2>1 DEF PageRuns
<1> HIDE DEF page
<1> DEFINE turned == Excerpt(first + 1, last) \o pages
           turnedTo == IF first = last THEN to ELSE first
<1>9. PICK rest \in BOOLEAN : page.more = rest /\ (rest <=> first > 0)
  <2>1. (first > 0) \in BOOLEAN
    OBVIOUS
  <2> QED
    BY <1>2, <2>1
<1>3. walk' = [limit |-> limit, start |-> start, to |-> turnedTo, pages |-> turned, more |-> rest]
  <2>1. walk' = [w EXCEPT !.pages = Shown(page.messages) \o @,
                          !.to = IF page.messages = <<>> THEN @ ELSE NextTo(page),
                          !.more = page.more]
    BY DEF Turned, page
  <2>2. walk' = [limit |-> limit, start |-> start,
                 to |-> IF page.messages = <<>> THEN to ELSE NextTo(page),
                 pages |-> Shown(page.messages) \o pages, more |-> page.more]
    BY <2>1
  <2>3. (IF page.messages = <<>> THEN to ELSE NextTo(page)) = (IF first = last THEN to ELSE first)
    BY <1>1, <1>2
  <2> QED
    BY <1>2, <1>9, <2>2, <2>3
<1>4. Excerpt(first + 1, last) \in Seq(Claims)
  BY <1>0, <1>2, ExcerptType
<1>5. walk' \in [limit : Nat, start : Nat, to : Nat, pages : Seq(Claims), more : BOOLEAN]
  <2>1. turned \in Seq(Claims)
    BY <1>4
  <2>2. turnedTo \in Nat
    OBVIOUS
  <2> HIDE DEF turned, turnedTo
  <2> QED
    BY <1>3, <2>1, <2>2
<1>6. TypeInv'
  BY <1>5 DEF ChatInv, TypeInv
<1>7. RoomInv' /\ AckInv' /\ NoteInv'
  <2>1. RoomInv'
    BY DEF ChatInv, RoomInv
  <2>2. AckInv'
    BY DEF ChatInv, AckInv
  <2>3. NoteInv'
    BY DEF ChatInv, NoteInv
  <2> QED
    BY <2>1, <2>2, <2>3
<1>8. WalkInv'
  <2> SUFFICES ASSUME limit # 0 PROVE WalkInv'
    BY <1>3 DEF WalkInv
  <2>1. pages = Excerpt(last + 1, start) /\ last \in 0..start /\ start \in 0..Len(data)
    BY <1>0
  <2>2. turned = Excerpt(first + 1, start)
    <3>1. first + 1 \in 1..(last + 1)
      BY <1>1, <1>2
    <3> QED
      BY <2>1, <3>1, ExcerptJoin
  <2>3. /\ walk'.limit = limit /\ walk'.start = start
        /\ walk'.to = turnedTo
        /\ walk'.pages = Excerpt(first + 1, start)
        /\ walk'.more = rest
    <3> HIDE DEF turned, turnedTo
    <3> QED
      BY <1>3, <2>2
  <2>4. first > 0 => first # last
    BY <1>1 DEF Most
  <2>5. first > 0 => walk'.to = first /\ first \in 1..start
    BY <1>0, <1>1, <1>2, <2>1, <2>3, <2>4
  <2>6. ~(first > 0) => first + 1 = 1
    BY <1>1
  <2>8. CASE first > 0
    <3>1. Excerpt(walk.to + 1, walk.start)' = Excerpt(first + 1, start)
      <4>1. walk'.to = first /\ walk'.start = start /\ data' = data
        BY <2>3, <2>5, <2>8
      <4> QED
        BY <4>1 DEF Excerpt
    <3> QED
      BY <1>9, <2>1, <2>3, <2>5, <2>8, <3>1 DEF WalkInv
  <2>9. CASE ~(first > 0)
    <3>1. Excerpt(1, walk.start)' = Excerpt(first + 1, start)
      <4>1. first + 1 = 1 /\ walk'.start = start /\ data' = data
        BY <2>3, <2>6, <2>9
      <4> QED
        BY <4>1 DEF Excerpt
    <3> QED
      BY <1>9, <2>1, <2>3, <2>9, <3>1 DEF WalkInv
  <2> QED
    BY <2>8, <2>9
<1> QED
  BY <1>6, <1>7, <1>8 DEF ChatInv

\* A reader who begins has nothing yet, and is given the end of the room.
LEMMA ReadLatestChat ==
  ASSUME ChatInv, NEW s \in Servers, NEW limit \in Limits, ReadLatest(s, limit)
  PROVE  ChatInv'
<1>0. Len(data) \in Nat /\ limit \in Nat /\ cached \in [Servers -> Nat]
  BY ChatAssumption DEF ChatInv, TypeInv
<1>1. cached' \in [Servers -> Nat]
  BY <1>0, RoomType DEF ReadLatest
<1>2. PICK total \in Nat : total = Len(data)
  BY <1>0
<1>3. PICK empty \in Seq(Claims) : empty = <<>>
  BY EmptySeq
<1>4. empty = Excerpt(total + 1, total)
  <2>1. total \in 0..Len(data) /\ total + 1 \in 1..(total + 1) /\ total - (total + 1) + 1 = 0
    BY <1>2
  <2>2. Excerpt(total + 1, total) \in Seq(Claims) /\ Len(Excerpt(total + 1, total)) = 0
    BY <2>1, ExcerptType
  <2> HIDE DEF Excerpt
  <2> QED
    BY <1>3, <2>2, EmptySeq
<1>5. PICK no : no = FALSE
  OBVIOUS
<1>6. PICK w : w = [NoWalk EXCEPT !.limit = limit, !.start = total]
  OBVIOUS
<1>7. w = [limit |-> limit, start |-> total, to |-> 0, pages |-> empty, more |-> no]
  <2>1. NoWalk = [limit |-> 0, start |-> 0, to |-> 0, pages |-> empty, more |-> no]
    BY <1>3, <1>5, Zenon DEF NoWalk
  <2> QED
    BY <1>6, <2>1
<1>8. walk' = Turned(w, Page(0, 0, limit))
  BY <1>2, <1>6 DEF ReadLatest
<1>9. total = SliceLast(Len(data), 0) /\ 0 \in Nat /\ total <= total /\ total <= Len(data)
  BY <1>2 DEF SliceLast
<1>10. UNCHANGED <<data, next, receipts, notes, job, late, acked, seen>>
  BY DEF ReadLatest, roomVars
<1> HIDE DEF Excerpt
<1> QED
  BY <1>0, <1>1, <1>4, <1>7, <1>8, <1>9, <1>10, TurnPage

\* A reader who goes on is given what comes before.
LEMMA ReadBeforeChat ==
  ASSUME ChatInv, NEW s \in Servers, ReadBefore(s)
  PROVE  ChatInv'
<1>0. /\ Len(data) \in Nat /\ cached \in [Servers -> Nat]
      /\ walk \in [limit : Nat, start : Nat, to : Nat, pages : Seq(Claims), more : BOOLEAN]
      /\ walk.limit \in Nat /\ walk.start \in Nat /\ walk.to \in Nat /\ walk.pages \in Seq(Claims)
  BY DEF ChatInv, TypeInv
<1>1. cached' \in [Servers -> Nat]
  BY <1>0, RoomType DEF ReadBefore
<1>2. walk.more /\ walk' = Turned(walk, Page(0, walk.to, walk.limit))
  BY DEF ReadBefore
<1>3. walk = [limit |-> walk.limit, start |-> walk.start, to |-> walk.to,
              pages |-> walk.pages, more |-> walk.more]
  BY <1>0
<1>4. SliceLast(Len(data), walk.to) \in Nat
  BY <1>0 DEF SliceLast, Least
<1>5. ASSUME walk.limit # 0
      PROVE  /\ SliceLast(Len(data), walk.to) <= walk.start /\ walk.start <= Len(data)
             /\ walk.pages = Excerpt(SliceLast(Len(data), walk.to) + 1, walk.start)
  <2>1. /\ walk.start \in 0..Len(data) /\ walk.to \in 1..walk.start
        /\ walk.pages = Excerpt(walk.to + 1, walk.start)
    BY <1>2, <1>5 DEF ChatInv, WalkInv
  <2>2. SliceLast(Len(data), walk.to) = walk.to
    BY <1>0, <2>1 DEF SliceLast, Least
  <2> QED
    BY <1>0, <2>1, <2>2
<1>6. UNCHANGED <<data, next, receipts, notes, job, late, acked, seen>>
  BY DEF ReadBefore, roomVars
<1> QED
  BY <1>0, <1>1, <1>2, <1>3, <1>4, <1>5, <1>6, TurnPage

\* Every step keeps the invariant.
LEMMA StepChat == ChatInv /\ [Next]_vars => ChatInv'
<1> SUFFICES ASSUME ChatInv, [Next]_vars PROVE ChatInv'
  OBVIOUS
<1>1. CASE UNCHANGED vars
  BY <1>1, QuietStep DEF vars, roomVars, serverVars, userVars, ChatInv, TypeInv
<1>2. CASE Next
  BY <1>2, ServerChat, CommitNewChat, CommitRetryChat, MentionChat, ReadLatestChat,
     ReadBeforeChat, LateChat DEF Next
<1> QED
  BY <1>1, <1>2

-----------------------------------------------------------------------------
(* The theorems.                                                           *)

\* However often and to whichever servers a post is sent, and whenever a timed-out
\* script is executed, the room has one message of a request, numbers without a
\* gap, and every message a user was told of where the reply said.
THEOREM PostsOnce == Spec => []PostedOnce
<1>1. ChatInv => PostedOnce
  <2> SUFFICES ASSUME ChatInv PROVE PostedOnce
    OBVIOUS
  <2>1. DOMAIN data = 1..Len(data)
    BY DEF ChatInv, TypeInv
  <2>2. \A i \in DOMAIN data : data[i].sequence = i
    BY <2>1 DEF ChatInv, RoomInv
  <2>3. \A i, j \in DOMAIN data : KeyOf[data[i].post] = KeyOf[data[j].post] => i = j
    <3> SUFFICES ASSUME NEW i \in 1..Len(data), NEW j \in 1..Len(data),
                        KeyOf[data[i].post] = KeyOf[data[j].post]
                 PROVE  i = j
      BY <2>1
    <3>1. receipts[KeyOf[data[i].post]] = i /\ receipts[KeyOf[data[j].post]] = j
      BY DEF ChatInv, RoomInv
    <3> QED
      BY <3>1
  <2>4. \A m \in acked : m.sequence \in DOMAIN data /\ data[m.sequence].post = m.post
    BY <2>1 DEF ChatInv, AckInv
  <2> QED
    BY <2>2, <2>3, <2>4 DEF PostedOnce
<1> QED
  BY <1>1, InitChat, StepChat, PTL DEF Spec

\* The note of a mention and the flag of its message agree, every mentioned user
\* has a note, and a mention that was read stays read.
THEOREM MentionsSound == Spec => []MentionsAgree
<1>1. ChatInv => MentionsAgree
  <2> SUFFICES ASSUME ChatInv PROVE MentionsAgree
    OBVIOUS
  <2>1. DOMAIN data = 1..Len(data)
    BY DEF ChatInv, TypeInv
  <2> QED
    BY <2>1 DEF ChatInv, NoteInv, MentionsAgree
<1> QED
  BY <1>1, InitChat, StepChat, PTL DEF Spec

\* A reader who follows next_to_sequence until has_more is false has every message
\* that the room had when it began, once and in order, with any page size, while
\* others post and read mentions.
THEOREM HistoryComplete == Spec => []HistoryWhole
<1>1. ChatInv => HistoryWhole
  <2> SUFFICES ASSUME ChatInv, walk.limit # 0, ~walk.more
               PROVE  walk.pages = Shown(SubSeq(data, 1, walk.start))
    BY DEF HistoryWhole
  <2>1. walk.start \in 0..Len(data) /\ walk.pages = Excerpt(1, walk.start)
    BY DEF ChatInv, WalkInv
  <2>2. data \in Seq(Messages) /\ Len(data) \in Nat /\ walk.start \in Nat
    BY DEF ChatInv, TypeInv
  <2> DEFINE sub == SubSeq(data, 1, walk.start)
  <2>3. /\ DOMAIN sub = 1..walk.start
        /\ \A i \in 1..walk.start : sub[i] = data[i]
    BY <2>1, <2>2
  <2>4. \A i \in 1..walk.start : data[i].sequence = i /\ 1 + i - 1 = i
    BY <2>1, <2>2 DEF ChatInv, RoomInv
  <2> HIDE DEF sub
  <2>5. Shown(sub) = [i \in 1..walk.start |-> [post |-> data[i].post, sequence |-> i]]
    BY <2>3, <2>4 DEF Shown
  <2>6. Excerpt(1, walk.start) = [i \in 1..walk.start |-> [post |-> data[i].post, sequence |-> i]]
    <3>1. walk.start - 1 + 1 = walk.start
      BY <2>2
    <3> QED
      BY <2>4, <3>1 DEF Excerpt
  <2> QED
    BY <2>1, <2>5, <2>6 DEF sub
<1> QED
  BY <1>1, InitChat, StepChat, PTL DEF Spec

-----------------------------------------------------------------------------
(* The two ways to find a page.                                            *)

\* In a room whose messages have the numbers of their places, the place of a
\* message among those from lo to hi is its distance from lo.
LEMMA PlaceIsDistance ==
  ASSUME ChatInv, NEW lo \in Nat \ {0}, NEW hi \in 0..Len(data), NEW i \in lo..hi
  PROVE  Place(data, lo..hi, i) = i - lo + 1
<1>1. Len(data) \in Nat /\ lo..hi \subseteq 1..Len(data)
  BY DEF ChatInv, TypeInv
<1>2. \A j \in lo..hi : data[j].sequence = j
  BY <1>1 DEF ChatInv, RoomInv
<1>3. {j \in lo..hi : data[j].sequence < data[i].sequence
                      \/ (data[j].sequence = data[i].sequence /\ j <= i)} = lo..i
  BY <1>2
<1>4. Cardinality(lo..i) = i - lo + 1
  BY FS_Interval
<1> QED
  BY <1>3, <1>4 DEF Place

\* Those messages in the order of their numbers are a part of the array.
LEMMA InOrderIsPart ==
  ASSUME ChatInv, NEW lo \in Nat \ {0}, NEW hi \in 0..Len(data)
  PROVE  InOrder(data, lo..hi) = SubSeq(data, lo, hi)
<1> DEFINE n == Cardinality(lo..hi)
           part == SubSeq(data, lo, hi)
           ordered == InOrder(data, lo..hi)
<1>0. data \in Seq(Messages) /\ Len(data) \in Nat
  BY DEF ChatInv, TypeInv
<1>1. n = IF lo > hi THEN 0 ELSE hi - lo + 1
  BY FS_Interval
<1>2. n \in Nat
  BY <1>1
<1>3. ASSUME NEW k \in 1..n PROVE (CHOOSE i \in lo..hi : Place(data, lo..hi, i) = k) = lo + k - 1
  <2>1. lo + k - 1 \in lo..hi /\ (lo + k - 1) - lo + 1 = k
    BY <1>1
  <2>2. \A i \in lo..hi : Place(data, lo..hi, i) = i - lo + 1
    BY PlaceIsDistance
  <2>3. \A i \in lo..hi : Place(data, lo..hi, i) = k <=> i = lo + k - 1
    BY <2>2
  <2> QED
    BY <2>1, <2>3
<1>4. \A i \in lo..hi : data[i] \in Messages
  BY <1>0, ElementOfSeq
<1>5. /\ part \in Seq(Messages) /\ Len(part) = n
      /\ \A k \in 1..n : part[k] = data[lo + k - 1]
  BY <1>1, <1>4, SubSeqProperties
<1>6. DOMAIN ordered = 1..n /\ \A k \in 1..n : ordered[k] = data[lo + k - 1]
  BY <1>3 DEF InOrder
<1>7. ordered = [k \in 1..n |-> data[lo + k - 1]]
  <2>1. ordered = [k \in 1..n |-> ordered[k]]
    BY DEF InOrder
  <2> HIDE DEF ordered, n
  <2> QED
    BY <1>6, <2>1
<1>8. part = [k \in 1..n |-> data[lo + k - 1]]
  <2> HIDE DEF part, n
  <2> QED
    BY <1>2, <1>5, LenProperties
<1> QED
  BY <1>7, <1>8

\* The part of a part is a part.
LEMMA PartOfPart ==
  ASSUME NEW s \in Seq(Messages), NEW lo \in Nat \ {0}, NEW hi \in 0..Len(s),
         NEW a \in Nat \ {0}, NEW b \in Int, b <= hi - lo + 1 \/ b < a
  PROVE  SubSeq(SubSeq(s, lo, hi), a, b) = SubSeq(s, lo + a - 1, lo + b - 1)
<1> DEFINE t == SubSeq(s, lo, hi)
<1>0. Len(s) \in Nat
  BY LenProperties
<1>1. \A i \in 1..Len(s) : s[i] \in Messages
  BY ElementOfSeq
<1>2. /\ t \in Seq(Messages) /\ Len(t) = IF lo <= hi THEN hi - lo + 1 ELSE 0
      /\ \A i \in 1..(hi - lo + 1) : t[i] = s[lo + i - 1]
  BY <1>0, <1>1, SubSeqProperties
<1> HIDE DEF t
<1>3. CASE b < a
  BY <1>3, <1>0, SubSeqEmpty DEF t
<1>4. CASE a <= b
  <2>1. \A i \in a..b : t[i] \in Messages /\ i \in 1..(hi - lo + 1) /\ lo + i - 1 \in 1..Len(s)
    BY <1>0, <1>1, <1>2, <1>4
  <2>2. /\ SubSeq(t, a, b) \in Seq(Messages) /\ Len(SubSeq(t, a, b)) = b - a + 1
        /\ \A i \in 1..(b - a + 1) : SubSeq(t, a, b)[i] = t[a + i - 1]
    BY <2>1, <1>4, SubSeqProperties
  <2>3. \A i \in (lo + a - 1)..(lo + b - 1) : s[i] \in Messages
    BY <1>0, <1>1, <1>4
  <2>4. /\ SubSeq(s, lo + a - 1, lo + b - 1) \in Seq(Messages)
        /\ Len(SubSeq(s, lo + a - 1, lo + b - 1)) = b - a + 1
        /\ \A i \in 1..(b - a + 1) : SubSeq(s, lo + a - 1, lo + b - 1)[i] = s[(lo + a - 1) + i - 1]
    <3>1. lo + a - 1 \in Int /\ lo + b - 1 \in Int /\ lo + a - 1 <= lo + b - 1
          /\ (lo + b - 1) - (lo + a - 1) + 1 = b - a + 1
      BY <1>4
    <3> DEFINE x == lo + a - 1
               y == lo + b - 1
    <3> HIDE DEF x, y
    <3>2. /\ SubSeq(s, x, y) \in Seq(Messages)
          /\ Len(SubSeq(s, x, y)) = y - x + 1
          /\ \A i \in 1..(y - x + 1) : SubSeq(s, x, y)[i] = s[x + i - 1]
      BY <2>3, <3>1, SubSeqProperties DEF x, y
    <3> QED
      BY <3>1, <3>2 DEF x, y
  <2>5. ASSUME NEW i \in 1..(b - a + 1) PROVE t[a + i - 1] = s[(lo + a - 1) + i - 1]
    <3>1. a + i - 1 \in 1..(hi - lo + 1) /\ lo + (a + i - 1) - 1 = (lo + a - 1) + i - 1
      BY <1>4
    <3> QED
      BY <1>2, <3>1
  <2> QED
    BY <2>2, <2>4, <2>5, SeqEqual DEF t
<1> QED
  BY <1>3, <1>4

\* The rows in the range are those from one place to another.
LEMMA CandidatesArePart ==
  ASSUME ChatInv, NEW from \in Nat, NEW to \in Nat
  PROVE  {i \in DOMAIN data : data[i].sequence >= from /\ (to > 0 => data[i].sequence <= to)}
            = Most(1, from)..SliceLast(Len(data), to)
<1>1. data \in Seq(Messages) /\ Len(data) \in Nat /\ DOMAIN data = 1..Len(data)
  BY LenProperties DEF ChatInv, TypeInv
<1>2. \A i \in 1..Len(data) : data[i].sequence = i
  BY DEF ChatInv, RoomInv
<1> QED
  BY <1>1, <1>2 DEF Most, SliceLast, Least

\* getChatHistoryPage: whatever the bounds and the limit, the slice of the array
\* is what selecting by number would have returned.
LEMMA SliceIsSelect ==
  ASSUME ChatInv, NEW from \in Nat, NEW to \in Nat, NEW limit \in Nat
  PROVE  Slice(data, from, to, limit) = Select(data, from, to, limit)
<1> DEFINE n == Len(data)
           lo == Most(1, from)
           hi == SliceLast(n, to)
           part == SubSeq(data, lo, hi)
           count == Len(part)
           first == Most(1, count - limit + 1)
           start == SliceStart(n, from, to, limit)
<1>0. data \in Seq(Messages) /\ n \in Nat
  BY DEF ChatInv, TypeInv
<1>1. lo \in Nat \ {0} /\ hi \in 0..n
  BY <1>0 DEF Most, SliceLast, Least
<1>2. InOrder(data, {i \in DOMAIN data :
         data[i].sequence >= from /\ (to > 0 => data[i].sequence <= to)}) = part
  BY <1>1, CandidatesArePart, InOrderIsPart
<1>3. Select(data, from, to, limit) =
        CASE Mode(from, to) = "range" -> PageOf(part, FALSE)
          [] Mode(from, to) = "from"  -> PageOf(SubSeq(part, 1, Least(count, limit)), count > limit)
          [] OTHER                    -> PageOf(SubSeq(part, first, count), first > 1)
  BY <1>2, Zenon DEF Select
<1>4. count = IF lo <= hi THEN hi - lo + 1 ELSE 0
  <2>1. \A i \in lo..hi : data[i] \in Messages
    BY <1>0, <1>1, ElementOfSeq
  <2> HIDE DEF lo, hi
  <2> QED
    BY <1>1, <2>1, SubSeqProperties
<1>5. count \in Nat
  BY <1>1, <1>4
<1> HIDE DEF part, count
<1>6. CASE from > 0 /\ to > 0
  <2> DEFINE end == Most(start, SliceLast(n, to))
  <2>1. Mode(from, to) = "range"
    BY <1>6 DEF Mode
  <2>2. Slice(data, from, to, limit) = PageOf(SubSeq(data, start + 1, end), FALSE)
    BY <2>1 DEF Slice
  <2>3. Select(data, from, to, limit) = PageOf(part, FALSE)
    BY <1>3, <2>1
  <2>4. SubSeq(data, start + 1, end) = part
    <3>1. \/ start + 1 = lo /\ end = hi
          \/ end < start + 1 /\ hi < lo
      BY <1>0, <1>6 DEF SliceStart, SliceLast, Most, Least
    <3>2. start + 1 \in Int /\ end \in Int /\ lo \in Int /\ hi \in Int
      BY <1>0, <1>1, <1>6 DEF SliceStart, SliceLast, Most, Least
    <3> HIDE DEF start, end, lo, hi
    <3> QED
      BY <3>1, <3>2, SubSeqEmpty DEF part
  <2> QED
    BY <2>2, <2>3, <2>4
<1>7. CASE from > 0 /\ to = 0
  <2> DEFINE end == Least(n, start + limit)
             b == Least(count, limit)
  <2>1. Mode(from, to) = "from"
    BY <1>7 DEF Mode
  <2>2. Slice(data, from, to, limit) = PageOf(SubSeq(data, start + 1, end), end < n)
    BY <2>1 DEF Slice
  <2>3. Select(data, from, to, limit) = PageOf(SubSeq(part, 1, b), count > limit)
    BY <1>3, <2>1
  <2>4. SubSeq(part, 1, b) = SubSeq(data, lo + 1 - 1, lo + b - 1)
    <3>1. b \in Int /\ (b <= hi - lo + 1 \/ b < 1)
      BY <1>1, <1>4, <1>5 DEF Least
    <3> HIDE DEF lo, hi, b
    <3> QED
      BY <1>0, <1>1, <3>1, PartOfPart DEF part
  <2>5. SubSeq(data, start + 1, end) = SubSeq(data, lo + 1 - 1, lo + b - 1)
    <3>1. \/ start + 1 = lo + 1 - 1 /\ end = lo + b - 1
          \/ end < start + 1 /\ lo + b - 1 < lo + 1 - 1
      <4>1. lo = from /\ hi = n
        BY <1>7 DEF SliceLast, Most
      <4>2. CASE from <= n
        <5>1. count = n - from + 1 /\ start = from - 1
          BY <1>0, <1>4, <1>7, <4>1, <4>2 DEF SliceStart, Least
        <5>2. b = IF n - from + 1 < limit THEN n - from + 1 ELSE limit
          BY <5>1 DEF Least
        <5>3. end = IF n < (from - 1) + limit THEN n ELSE (from - 1) + limit
          BY <5>1 DEF Least
        <5> HIDE DEF n, lo, start, end, b
        <5> QED
          BY <1>0, <4>1, <5>1, <5>2, <5>3
      <4>3. CASE from > n
        <5>1. count = 0 /\ start = n
          BY <1>0, <1>4, <1>7, <4>1, <4>3 DEF SliceStart, Least
        <5>2. b = 0 /\ end = n
          BY <1>0, <5>1 DEF Least
        <5> HIDE DEF n, lo, start, end, b
        <5> QED
          BY <1>0, <4>1, <5>1, <5>2
      <4> QED
        BY <1>0, <4>2, <4>3
    <3>2. start + 1 \in Int /\ end \in Int /\ lo + 1 - 1 \in Int /\ lo + b - 1 \in Int
      BY <1>0, <1>1, <1>5, <1>7 DEF SliceStart, Least
    <3> HIDE DEF start, end, lo, b
    <3> QED
      BY <3>1, <3>2, SubSeqEmpty
  <2>6. (end < n) = (count > limit)
    BY <1>0, <1>4, <1>7 DEF SliceStart, SliceLast, Most, Least
  <2> HIDE DEF start, end, lo, b, n
  <2> QED
    BY <2>2, <2>3, <2>4, <2>5, <2>6, Zenon
<1>8. CASE from = 0
  <2>1. Mode(from, to) \notin {"range", "from"}
    BY <1>8 DEF Mode
  <2>2. Slice(data, from, to, limit) = PageOf(SubSeq(data, start + 1, hi), start > 0)
    BY <2>1 DEF Slice
  <2>3. Select(data, from, to, limit) = PageOf(SubSeq(part, first, count), first > 1)
    BY <1>3, <2>1
  <2>4. SubSeq(part, first, count) = SubSeq(data, lo + first - 1, lo + count - 1)
    <3> HIDE DEF lo, hi
    <3>1. first \in Nat \ {0} /\ first >= 1
      BY <1>5 DEF Most
    <3> HIDE DEF first
    <3>2. count <= hi - lo + 1 \/ count < first
      BY <1>1, <1>4, <1>5, <3>1
    <3> QED
      BY <1>0, <1>1, <1>5, <3>1, <3>2, PartOfPart DEF part
  <2>5. start + 1 = lo + first - 1 /\ hi = lo + count - 1
    BY <1>0, <1>4, <1>8 DEF SliceStart, SliceLast, Most, Least
  <2>6. (start > 0) = (first > 1)
    BY <1>0, <1>4, <1>8 DEF SliceStart, SliceLast, Most, Least
  <2> HIDE DEF start, hi, lo, first
  <2> QED
    BY <2>2, <2>3, <2>4, <2>5, <2>6, Zenon
<1> QED
  BY <1>6, <1>7, <1>8

\* The two ways in which getChatHistoryPage finds a page agree, whatever the
\* bounds and the limit and whatever is under way: that the slice is tried first
\* is only a matter of speed.
THEOREM PagesSame ==
  Spec => [](\A from, to, limit \in Nat : Slice(data, from, to, limit) = Select(data, from, to, limit))
<1>1. ChatInv => \A from, to, limit \in Nat : Slice(data, from, to, limit) = Select(data, from, to, limit)
  BY SliceIsSelect
<1> QED
  BY <1>1, InitChat, StepChat, PTL DEF Spec

\* So they do in a room at rest, for the bounds and limits around its length.
THEOREM PagesSameAtRest == Spec => []PagesAgree
<1>1. ChatInv => PagesAgree
  <2>1. ChatInv => 0..(Len(data) + 1) \subseteq Nat
    BY DEF ChatInv, TypeInv
  <2> QED
    BY <2>1, SliceIsSelect DEF PagesAgree
<1> QED
  BY <1>1, InitChat, StepChat, PTL DEF Spec
=============================================================================
