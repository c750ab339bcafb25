---------------------------- MODULE EventHubProofs ----------------------------
(***************************************************************************)
(* An open board keeps in step with the store, and the durable log is in   *)
(* order and complete: EventsReachBoard for every number of books, every   *)
(* size of the ring, of a subscriber's buffer and of the log's queue.      *)
(*                                                                         *)
(* The invariant follows an event from the write that makes it due to the  *)
(* board: what a board shows of a book is what the store holds, or the     *)
(* book's next event is owed by its writer, or it has an id after the      *)
(* board's position (Covers); and while a stream is up, every id after the *)
(* board's position is on its way, or the subscriber has been put out and  *)
(* will come back for it (StreamInv).                                      *)
(***************************************************************************)
EXTENDS EventHub, FunctionTheorems, SequenceTheorems, TLAPS

-----------------------------------------------------------------------------
(* Sequences of ids; a heartbeat has none.                                 *)

InSeq(x, s) == \E k \in 1..Len(s) : s[k] = x
Rising(s) == \A i, j \in 1..Len(s) : i < j /\ s[i] # Beat /\ s[j] # Beat => s[i] < s[j]

(* Appending adds one member.                                              *)
LEMMA AppendIn ==
    ASSUME NEW S, NEW s \in Seq(S), NEW x \in S
    PROVE  /\ Append(s, x) \in Seq(S) /\ Len(Append(s, x)) = Len(s) + 1
           /\ \A y : InSeq(y, Append(s, x)) <=> InSeq(y, s) \/ y = x
<1>1. /\ Append(s, x) \in Seq(S) /\ Len(Append(s, x)) = Len(s) + 1
      /\ \A i \in 1..Len(s) : Append(s, x)[i] = s[i]
      /\ Append(s, x)[Len(s) + 1] = x
  BY AppendProperties
<1>2. Len(s) \in Nat  BY LenProperties
<1>3. ASSUME NEW y PROVE InSeq(y, Append(s, x)) <=> InSeq(y, s) \/ y = x
  BY <1>1, <1>2 DEF InSeq
<1> QED  BY <1>1, <1>3

(* The head and the tail share out the members.                            *)
LEMMA TailIn ==
    ASSUME NEW S, NEW s \in Seq(S), s # <<>>
    PROVE  /\ Head(s) \in S /\ Tail(s) \in Seq(S) /\ Len(Tail(s)) = Len(s) - 1 /\ Len(s) > 0
           /\ \A y : InSeq(y, s) <=> InSeq(y, Tail(s)) \/ y = Head(s)
<1>1. /\ Head(s) \in S /\ Tail(s) \in Seq(S) /\ Len(Tail(s)) = Len(s) - 1
      /\ \A i \in 1..Len(Tail(s)) : Tail(s)[i] = s[i + 1]
      /\ Head(s) = s[1]
  BY HeadTailProperties
<1>2. Len(s) \in Nat \ {0}  BY LenProperties, EmptySeq
<1>3. ASSUME NEW y, InSeq(y, s) PROVE InSeq(y, Tail(s)) \/ y = Head(s)
  <2>1. PICK k \in 1..Len(s) : s[k] = y  BY <1>3 DEF InSeq
  <2>2. CASE k = 1  BY <2>1, <2>2, <1>1
  <2>3. CASE k # 1
    <3>1. k - 1 \in 1..Len(Tail(s)) /\ Tail(s)[k - 1] = y  BY <2>1, <2>3, <1>1, <1>2
    <3> QED  BY <3>1 DEF InSeq
  <2> QED  BY <2>2, <2>3
<1>4. ASSUME NEW y, InSeq(y, Tail(s)) \/ y = Head(s) PROVE InSeq(y, s)
  <2>1. CASE y = Head(s)  BY <2>1, <1>1, <1>2 DEF InSeq
  <2>2. CASE InSeq(y, Tail(s))
    <3>1. PICK k \in 1..Len(Tail(s)) : Tail(s)[k] = y  BY <2>2 DEF InSeq
    <3>2. k + 1 \in 1..Len(s) /\ s[k + 1] = y  BY <3>1, <1>1, <1>2
    <3> QED  BY <3>2 DEF InSeq
  <2> QED  BY <1>4, <2>1, <2>2
<1> QED  BY <1>1, <1>2, <1>3, <1>4

(* An id above all the others keeps a sequence rising, and a heartbeat     *)
(* does.                                                                   *)
LEMMA AppendRising ==
    ASSUME NEW s \in Seq(Nat), NEW x \in Nat, Rising(s),
           x = Beat \/ \A y : InSeq(y, s) => y < x
    PROVE  Rising(Append(s, x))
<1>1. /\ Len(Append(s, x)) = Len(s) + 1
      /\ \A i \in 1..Len(s) : Append(s, x)[i] = s[i]
      /\ Append(s, x)[Len(s) + 1] = x
  BY AppendProperties
<1>2. Len(s) \in Nat  BY LenProperties
<1> SUFFICES ASSUME NEW i \in 1..(Len(s) + 1), NEW j \in 1..(Len(s) + 1), i < j,
                    Append(s, x)[i] # Beat, Append(s, x)[j] # Beat
             PROVE  Append(s, x)[i] < Append(s, x)[j]
  BY <1>1 DEF Rising
<1>3. i \in 1..Len(s) /\ Append(s, x)[i] = s[i] /\ InSeq(s[i], s)  BY <1>1, <1>2 DEF InSeq
<1>4. CASE j = Len(s) + 1  BY <1>1, <1>3, <1>4
<1>5. CASE j # Len(s) + 1
  <2>1. j \in 1..Len(s) /\ Append(s, x)[j] = s[j]  BY <1>1, <1>2, <1>5
  <2> QED  BY <1>3, <2>1 DEF Rising
<1> QED  BY <1>4, <1>5

(* The tail of a rising sequence rises, above its head.                    *)
LEMMA TailRising ==
    ASSUME NEW s \in Seq(Nat), s # <<>>, Rising(s)
    PROVE  /\ Rising(Tail(s))
           /\ \A y : InSeq(y, Tail(s)) /\ y # Beat /\ Head(s) # Beat => Head(s) < y
<1>1. /\ Len(Tail(s)) = Len(s) - 1
      /\ \A i \in 1..Len(Tail(s)) : Tail(s)[i] = s[i + 1]
      /\ Head(s) = s[1]
  BY HeadTailProperties
<1>2. Len(s) \in Nat \ {0}  BY LenProperties, EmptySeq
<1>3. ASSUME NEW i \in 1..Len(Tail(s)) PROVE i + 1 \in 1..Len(s) /\ i + 1 > 1 /\ Tail(s)[i] = s[i + 1]
  BY <1>1, <1>2
<1>4. Rising(Tail(s))  BY <1>1, <1>2, <1>3 DEF Rising
<1>5. ASSUME NEW y, InSeq(y, Tail(s)), y # Beat, Head(s) # Beat PROVE Head(s) < y
  <2>1. PICK k \in 1..Len(Tail(s)) : Tail(s)[k] = y  BY <1>5 DEF InSeq
  <2>2. 1 \in 1..Len(s)  BY <1>2
  <2> QED  BY <1>1, <1>3, <1>5, <2>1, <2>2 DEF Rising
<1> QED  BY <1>4, <1>5

(* The empty sequence.                                                     *)
LEMMA EmptyIn == /\ <<>> \in Seq(Nat) /\ Len(<<>>) = 0 /\ Rising(<<>>)
                 /\ \A y : ~InSeq(y, <<>>)
BY EmptySeq DEF InSeq, Rising

-----------------------------------------------------------------------------
(* The invariant.                                                          *)

Ids(s, low, high) == \A y : InSeq(y, s) => y \in low..high

Alive == hProcess # "down"

(* Whoever has written the book has still to publish it.                   *)
Owed(b, publisher) == publisher.who # "nobody" /\ publisher.book = b

(* A board's position: what its next stream is opened from.                *)
Position == IF hBoard.last # 0 THEN hBoard.last ELSE hBoard.cursor

(* What is known of the books is right, or will be put right by an event   *)
(* after the position.                                                     *)
Covers(books, pos, store, publisher, events) ==
    \A b \in HubBooks : \/ books[b] = store[b] \/ Owed(b, publisher)
                        \/ \E i \in (pos + 1)..Len(events) : events[i].book = b

(* The last event of a book says what the store holds.                     *)
LastTells(store, publisher, events) ==
    \A i \in 1..Len(events) :
        \/ \E j \in (i + 1)..Len(events) : events[j].book = events[i].book
        \/ events[i].change = store[events[i].book]
        \/ Owed(events[i].book, publisher)

Books   == [HubBooks -> Nat]
Writers == [who : {"worker", "handler"}, book : HubBooks]
Events  == [book : HubBooks, change : Nat]

Streams == [up : BOOLEAN, member : BOOLEAN, replay : Seq(Nat), live : Seq(Nat)]
Replies == [books : {<<>>} \cup Books, cursor : Nat, boot : Nat]
Boards  == [load : {"none", "asked", "cursor", "read"}, wanted : BOOLEAN, shown : {<<>>} \cup Books,
            cursor : Nat, last : Nat, boot : Nat, reply : Replies]
Ghosts  == [boots : Nat, gap : BOOLEAN, dropped : BOOLEAN, late : BOOLEAN, troubles : Nat]

HubTyped ==
    /\ hStore \in [HubBooks -> 0..HubEvents]
    /\ hPublisher \in {NoPublisher} \cup Writers
    /\ hProcess \in {"up", "closing", "closed", "down"}
    /\ hEvents \in Seq(Events)
    /\ hStream \in Streams /\ hBoard \in Boards /\ hGhost \in Ghosts
    /\ hQueue \in Seq(Nat) /\ hLog \in Seq(Nat)
    /\ Len(hStream.live) <= HubBuffer /\ Len(hQueue) <= HubQueue

(* Who may have what, and when.                                            *)
PhaseInv ==
    /\ ~Alive => hPublisher = NoPublisher
    /\ hProcess # "up" => ~hStream.up
    /\ ~hStream.up => hStream = Closed
    /\ hStream.up => hBoard.wanted
    /\ hBoard.wanted => hBoard.shown \in Books /\ hBoard.load = "none"
    /\ hBoard.load # "none" => hStream = Closed
    /\ hBoard.load = "read" => hBoard.reply.books \in Books
    /\ hBoard.boot <= hGhost.boots /\ hBoard.reply.boot <= hGhost.boots

(* The ids there are.                                                      *)
IdInv ==
    /\ Ids(hStream.replay, 1, Newest) /\ Ids(hStream.live, 0, Newest)
    /\ Rising(hStream.replay) /\ Rising(hStream.live)
    /\ \A x, y : InSeq(x, hStream.replay) /\ InSeq(y, hStream.live) /\ y # Beat => x < y

(* The log and its queue.                                                  *)
LogInv ==
    /\ Ids(hQueue, 1, Newest) /\ Ids(hLog, 1, Newest) /\ Rising(hQueue) /\ Rising(hLog)
    /\ \A x, y : InSeq(x, hLog) /\ InSeq(y, hQueue) => x < y
    /\ ~hGhost.dropped /\ ~hGhost.late => Len(hLog) + Len(hQueue) = Newest
    /\ ~Alive /\ ~hGhost.dropped => hQueue = <<>>

EventInv == Alive => LastTells(hStore, hPublisher, hEvents)

(* A list on its way to the board.                                         *)
ReplyInv ==
    Alive /\ hBoard.load \in {"cursor", "read"} /\ hBoard.reply.boot = hGhost.boots =>
        /\ hBoard.reply.cursor <= Newest
        /\ hBoard.load = "read" => Covers(hBoard.reply.books, hBoard.reply.cursor, hStore, hPublisher, hEvents)

(* A board that has loaded from this process and missed nothing for good.  *)
Tracked == Alive /\ ~hGhost.gap /\ hBoard.boot = hGhost.boots

BoardInv ==
    Tracked => /\ Position <= Newest /\ hBoard.cursor <= Position
               /\ Covers(hBoard.shown, Position, hStore, hPublisher, hEvents)

OnItsWay(y) == InSeq(y, hStream.replay) \/ InSeq(y, hStream.live)

StreamInv ==
    Tracked /\ hStream.up =>
        /\ \A y : OnItsWay(y) /\ y # Beat => Position < y
        /\ \A j \in (Position + 1)..Newest :
               OnItsWay(j) \/ (~hStream.member /\ \A y : OnItsWay(y) => y < j)

HubInv == HubTyped /\ PhaseInv /\ IdInv /\ LogInv /\ EventInv /\ ReplyInv /\ BoardInv /\ StreamInv

-----------------------------------------------------------------------------
(* What the changes of the store and the events do to Covers and           *)
(* LastTells.                                                              *)

(* Whoever writes a book owes its event.                                   *)
LEMMA WriteCovers ==
    ASSUME NEW store \in Books, NEW events \in Seq(Events), NEW b \in HubBooks, NEW who \in {"worker", "handler"}
    PROVE  LET after == [store EXCEPT ![b] = @ + 1]
               writer == [who |-> who, book |-> b]
           IN  /\ \A books, pos : Covers(books, pos, store, NoPublisher, events)
                                    => Covers(books, pos, after, writer, events)
               /\ LastTells(store, NoPublisher, events) => LastTells(after, writer, events)
<1> DEFINE after == [store EXCEPT ![b] = @ + 1]
           writer == [who |-> who, book |-> b]
<1>1. \A c \in HubBooks : after[c] = store[c] \/ Owed(c, writer)  BY DEF Books, Owed
<1>2. \A c : ~Owed(c, NoPublisher)  BY DEF Owed, NoPublisher
<1>3. \A i \in 1..Len(events) : events[i].book \in HubBooks
  <2>1. \A i \in 1..Len(events) : events[i] \in Events  BY ElementOfSeq
  <2> QED  BY <2>1 DEF Events
<1> HIDE DEF after, writer
<1>4. ASSUME NEW books, NEW pos, Covers(books, pos, store, NoPublisher, events)
      PROVE  Covers(books, pos, after, writer, events)
  BY <1>1, <1>2, <1>4 DEF Covers
<1>5. LastTells(store, NoPublisher, events) => LastTells(after, writer, events)
  BY <1>1, <1>2, <1>3 DEF LastTells
<1> QED  BY <1>4, <1>5 DEF after, writer

(* The event that is published tells what the store holds of its book.     *)
LEMMA PublishCovers ==
    ASSUME NEW store \in Books, NEW events \in Seq(Events), NEW writer \in Writers
    PROVE  LET more == Append(events, [book |-> writer.book, change |-> store[writer.book]])
           IN  /\ more \in Seq(Events) /\ Len(more) = Len(events) + 1
               /\ \A books, pos : pos \in 0..Len(events) /\ Covers(books, pos, store, writer, events)
                                    => Covers(books, pos, store, NoPublisher, more)
               /\ LastTells(store, writer, events) => LastTells(store, NoPublisher, more)
<1> DEFINE told == [book |-> writer.book, change |-> store[writer.book]]
           more == Append(events, told)
<1>1. told \in Events /\ writer.book \in HubBooks  BY DEF Events, Writers, Books
<1>2. told.book = writer.book /\ told.change = store[writer.book]  OBVIOUS
<1> HIDE DEF told
<1>3. /\ more \in Seq(Events) /\ Len(more) = Len(events) + 1
      /\ \A i \in 1..Len(events) : more[i] = events[i]
      /\ more[Len(events) + 1] = told
  BY <1>1, AppendProperties
<1>4. Len(events) \in Nat  BY LenProperties
<1> HIDE DEF more
<1>5. ASSUME NEW books, NEW pos \in 0..Len(events), Covers(books, pos, store, writer, events)
      PROVE  Covers(books, pos, store, NoPublisher, more)
  <2> SUFFICES ASSUME NEW b \in HubBooks
               PROVE  books[b] = store[b] \/ \E i \in (pos + 1)..Len(more) : more[i].book = b
    BY DEF Covers
  <2>1. CASE Owed(b, writer)
    <3>1. Len(more) \in (pos + 1)..Len(more) /\ more[Len(more)].book = b
      BY <1>2, <1>3, <1>4, <2>1 DEF Owed
    <3> QED  BY <3>1
  <2>2. ASSUME NEW i \in (pos + 1)..Len(events), events[i].book = b
        PROVE  i \in (pos + 1)..Len(more) /\ more[i].book = b
    BY <1>3, <1>4, <2>2
  <2> QED  BY <1>5, <2>1, <2>2 DEF Covers
<1>6. ASSUME LastTells(store, writer, events) PROVE LastTells(store, NoPublisher, more)
  <2> SUFFICES ASSUME NEW i \in 1..Len(more)
               PROVE  \/ \E j \in (i + 1)..Len(more) : more[j].book = more[i].book
                      \/ more[i].change = store[more[i].book]
    BY DEF LastTells
  <2>1. CASE i = Len(more)  BY <1>2, <1>3, <2>1
  <2>2. CASE i # Len(more)
    <3>1. i \in 1..Len(events) /\ more[i] = events[i]  BY <1>3, <1>4, <2>2
    <3>2. CASE Owed(events[i].book, writer)
      <4>1. Len(more) \in (i + 1)..Len(more) /\ more[Len(more)].book = more[i].book
        BY <1>2, <1>3, <1>4, <3>1, <3>2 DEF Owed
      <4> QED  BY <4>1
    <3>3. ASSUME NEW j \in (i + 1)..Len(events), events[j].book = events[i].book
          PROVE  j \in (i + 1)..Len(more) /\ more[j].book = more[i].book
      BY <1>3, <1>4, <3>1, <3>3
    <3> QED  BY <1>6, <3>1, <3>2, <3>3 DEF LastTells
  <2> QED  BY <2>1, <2>2
<1> QED  BY <1>3, <1>5, <1>6 DEF more, told

(* A board that shows the next event is behind by one event less.          *)
LEMMA ShowCovers ==
    ASSUME NEW store \in Books, NEW events \in Seq(Events), NEW publisher, NEW shown \in Books,
           NEW pos \in Nat, pos < Len(events), LastTells(store, publisher, events),
           Covers(shown, pos, store, publisher, events)
    PROVE  LET next == events[pos + 1]
               after == [shown EXCEPT ![next.book] = next.change]
           IN  after \in Books /\ Covers(after, pos + 1, store, publisher, events)
<1> DEFINE next == events[pos + 1]
           after == [shown EXCEPT ![next.book] = next.change]
<1>1. Len(events) \in Nat /\ pos + 1 \in 1..Len(events)  BY LenProperties
<1>2. next.book \in HubBooks /\ next.change \in Nat
  <2>1. next \in Events  BY <1>1, ElementOfSeq
  <2> QED  BY <2>1 DEF Events
<1>3. after \in Books /\ \A b \in HubBooks : after[b] = IF b = next.book THEN next.change ELSE shown[b]
  BY <1>2 DEF Books
<1> HIDE DEF after
<1> SUFFICES ASSUME NEW b \in HubBooks
             PROVE  \/ after[b] = store[b] \/ Owed(b, publisher)
                    \/ \E i \in (pos + 1 + 1)..Len(events) : events[i].book = b
  BY <1>3 DEF Covers, after
<1>4. CASE b = next.book  BY <1>1, <1>3, <1>4 DEF LastTells
<1>5. CASE b # next.book
  <2>1. ASSUME NEW i \in (pos + 1)..Len(events), events[i].book = b PROVE i \in (pos + 1 + 1)..Len(events)
    BY <1>1, <1>5, <2>1
  <2> QED  BY <1>3, <1>5, <2>1 DEF Covers
<1> QED  BY <1>4, <1>5

(* A position further back covers as much.                                 *)
LEMMA BackCovers ==
    ASSUME NEW store, NEW publisher, NEW books, NEW events \in Seq(Events), NEW pos \in Nat, NEW back \in Nat,
           back <= pos, Covers(books, pos, store, publisher, events)
    PROVE  Covers(books, back, store, publisher, events)
<1>1. Len(events) \in Nat  BY LenProperties
<1>2. ASSUME NEW i \in (pos + 1)..Len(events) PROVE i \in (back + 1)..Len(events)  BY <1>1
<1> QED  BY <1>2 DEF Covers

-----------------------------------------------------------------------------
(* The steps.                                                              *)

(* What the types say of the parts of the records.                         *)
LEMMA Parts ==
    ASSUME HubTyped
    PROVE  /\ Newest \in Nat /\ hStore \in Books
           /\ hStream.up \in BOOLEAN /\ hStream.member \in BOOLEAN
           /\ hStream.replay \in Seq(Nat) /\ hStream.live \in Seq(Nat)
           /\ hBoard.cursor \in Nat /\ hBoard.last \in Nat /\ hBoard.boot \in Nat /\ Position \in Nat
           /\ hBoard.reply.cursor \in Nat /\ hBoard.reply.boot \in Nat
           /\ hGhost.boots \in Nat
<1>1. hEvents \in Seq(Events)  BY DEF HubTyped
<1>2. Newest \in Nat  BY <1>1, LenProperties DEF Newest
<1>3. hStore \in Books
  <2>1. HubEvents \in Nat  BY HubAssumption
  <2> QED  BY <2>1 DEF HubTyped, Books
<1>4. /\ hStream.up \in BOOLEAN /\ hStream.member \in BOOLEAN
      /\ hStream.replay \in Seq(Nat) /\ hStream.live \in Seq(Nat)
  BY DEF HubTyped, Streams
<1>5. hBoard.cursor \in Nat /\ hBoard.last \in Nat /\ hBoard.boot \in Nat /\ hBoard.reply \in Replies
  BY DEF HubTyped, Boards
<1>6. hBoard.reply.cursor \in Nat /\ hBoard.reply.boot \in Nat  BY <1>5 DEF Replies
<1>7. hGhost.boots \in Nat  BY DEF HubTyped, Ghosts
<1> QED  BY <1>2, <1>3, <1>4, <1>5, <1>6, <1>7 DEF Position

LEMMA InitStep == HubInit => HubInv
<1> SUFFICES ASSUME HubInit PROVE HubInv  OBVIOUS
<1> USE DEF HubInit
<1>1. Newest = 0 /\ Len(hEvents) = 0  BY EmptyIn DEF Newest
<1>2. HubTyped
  <2>1. hStore \in [HubBooks -> 0..HubEvents] /\ HubBuffer \in Nat /\ HubQueue \in Nat  BY HubAssumption
  <2>2. hEvents \in Seq(Events)  BY EmptySeq
  <2>3. hStream \in Streams /\ hBoard \in Boards /\ hGhost \in Ghosts
    BY EmptyIn DEF Streams, Boards, Ghosts, Replies, Closed, NoReply
  <2>4. Len(hStream.live) = 0  BY EmptyIn DEF Closed
  <2> QED  BY <2>1, <2>2, <2>3, <2>4, EmptyIn DEF HubTyped
<1>3. PhaseInv  BY DEF PhaseInv, Alive, Closed, NoReply
<1>4. IdInv  BY EmptyIn DEF IdInv, Ids, Closed
<1>5. LogInv  BY <1>1, EmptyIn DEF LogInv, Ids
<1>6. EventInv  BY <1>1 DEF EventInv, LastTells
<1>7. ReplyInv /\ BoardInv /\ StreamInv  BY DEF ReplyInv, BoardInv, StreamInv, Tracked
<1> QED  BY <1>2, <1>3, <1>4, <1>5, <1>6, <1>7 DEF HubInv

LEMMA StutterStep == HubInv /\ UNCHANGED hVars => HubInv'
BY DEF HubInv, hVars, HubTyped, PhaseInv, IdInv, LogInv, EventInv, ReplyInv, BoardInv, StreamInv, Tracked,
       OnItsWay, Position, Alive, Newest, Ids

LEMMA WriteStep ==
    ASSUME HubInv, NEW b \in HubBooks, NEW who \in {"worker", "handler"}, WriteBook(b, who)
    PROVE  HubInv'
<1> USE DEF HubInv, WriteBook
<1>1. Alive /\ Alive'  BY DEF Alive
<1>2. hStore \in Books /\ hEvents \in Seq(Events)  BY Parts DEF HubTyped
<1>3. hStore' = [hStore EXCEPT ![b] = @ + 1] /\ hPublisher' = [who |-> who, book |-> b]
      /\ hPublisher = NoPublisher
  OBVIOUS
<1>4. /\ \A books, pos : Covers(books, pos, hStore, hPublisher, hEvents)
                           => Covers(books, pos, hStore', hPublisher', hEvents)
      /\ LastTells(hStore, hPublisher, hEvents) => LastTells(hStore', hPublisher', hEvents)
  <2>1. /\ \A books, pos : Covers(books, pos, hStore, NoPublisher, hEvents)
                             => Covers(books, pos, [hStore EXCEPT ![b] = @ + 1], [who |-> who, book |-> b], hEvents)
        /\ LastTells(hStore, NoPublisher, hEvents)
              => LastTells([hStore EXCEPT ![b] = @ + 1], [who |-> who, book |-> b], hEvents)
    BY <1>2, WriteCovers, Zenon
  <2> QED  BY <2>1, <1>3, Zenon
<1>5. HubTyped'
  <2>1. hStore' \in [HubBooks -> 0..HubEvents]  BY HubAssumption, <1>3 DEF HubTyped
  <2>2. hPublisher' \in Writers  BY <1>3 DEF Writers
  <2> QED  BY <2>1, <2>2 DEF HubTyped
<1>6. PhaseInv'  BY <1>1 DEF PhaseInv, Alive
<1>7. IdInv' /\ LogInv'  BY <1>1 DEF IdInv, LogInv, Ids, Newest
<1>8. EventInv'  BY <1>1, <1>4 DEF EventInv
<1>9. ReplyInv'  BY <1>1, <1>4 DEF ReplyInv, Newest
<1>10. BoardInv'  BY <1>1, <1>4 DEF BoardInv, Tracked, Position, Newest
<1>11. StreamInv'  BY <1>1 DEF StreamInv, Tracked, Position, OnItsWay, Newest
<1> QED  BY <1>5, <1>6, <1>7, <1>8, <1>9, <1>10, <1>11

(* A subscriber is handed an id above all it has, or is put out.           *)
LEMMA FanoutHands ==
    ASSUME HubTyped, PhaseInv, IdInv, NEW id \in Nat, id = Beat \/ id = Newest + 1
    PROVE  LET after == Fanout(id)
           IN  /\ after \in Streams /\ Len(after.live) <= HubBuffer
               /\ after.up = hStream.up /\ after.replay = hStream.replay /\ Rising(after.live)
               /\ \/ /\ after.member = hStream.member /\ hStream.member
                     /\ \A y : InSeq(y, after.live) <=> InSeq(y, hStream.live) \/ y = id
                  \/ ~after.member /\ after.live = hStream.live
               /\ ~hStream.up => after = Closed
<1> DEFINE after == Fanout(id)
           more == Append(hStream.live, id)
<1>1. hStream \in Streams /\ Len(hStream.live) <= HubBuffer /\ HubBuffer \in Nat
  BY HubAssumption DEF HubTyped
<1>2. hStream.live \in Seq(Nat) /\ Newest \in Nat  BY Parts
<1>3. /\ more \in Seq(Nat) /\ Len(more) = Len(hStream.live) + 1
      /\ \A y : InSeq(y, more) <=> InSeq(y, hStream.live) \/ y = id
  BY <1>2, AppendIn
<1>4. \A y : InSeq(y, hStream.live) => y < Newest + 1  BY <1>2 DEF IdInv, Ids
<1>5. Rising(hStream.live) /\ Rising(more)
  <2>1. Rising(hStream.live)  BY DEF IdInv
  <2> QED  BY <2>1, <1>2, <1>4, AppendRising
<1>6. Len(hStream.live) \in Nat  BY <1>2, LenProperties
<1>7. CASE ~hStream.member
  BY <1>1, <1>5, <1>7 DEF Fanout, PhaseInv
<1>8. CASE hStream.member /\ Len(hStream.live) < HubBuffer
  <2> HIDE DEF more
  <2>1. after = [hStream EXCEPT !.live = more]  BY <1>8 DEF Fanout, more
  <2>2. hStream.up  BY <1>8 DEF PhaseInv, Closed
  <2>3. after.live = more /\ after.up = hStream.up /\ after.replay = hStream.replay
        /\ after.member = hStream.member /\ after \in Streams
    BY <2>1, <1>1, <1>3 DEF Streams
  <2> QED  BY <2>2, <2>3, <1>1, <1>3, <1>5, <1>6, <1>8
<1>9. CASE hStream.member /\ ~(Len(hStream.live) < HubBuffer)
  <2>1. after = [hStream EXCEPT !.member = FALSE]  BY <1>9 DEF Fanout
  <2>2. hStream.up  BY <1>9 DEF PhaseInv, Closed
  <2>3. after.live = hStream.live /\ after.up = hStream.up /\ after.replay = hStream.replay
        /\ after.member = FALSE /\ after \in Streams
    BY <2>1, <1>1 DEF Streams
  <2> QED  BY <2>2, <2>3, <1>1, <1>5
<1> QED  BY <1>7, <1>8, <1>9

LEMMA PublishStep == ASSUME HubInv, Publish PROVE HubInv'
<1> USE DEF HubInv
<1> DEFINE told == [book |-> hPublisher.book, change |-> hStore[hPublisher.book]]
<1>1. Alive /\ Alive' /\ hPublisher \in Writers
  BY DEF Publish, Alive, HubTyped
<1>2. /\ hEvents' = Append(hEvents, told) /\ hPublisher' = NoPublisher /\ hStream' = Fanout(Newest + 1)
      /\ UNCHANGED <<hStore, hProcess, hBoard, hLog>>
      /\ hGhost'.boots = hGhost.boots /\ hGhost'.gap = hGhost.gap /\ hGhost' \in Ghosts
  BY DEF Publish, HubTyped, Ghosts
<1>3. hStore \in Books /\ hEvents \in Seq(Events) /\ Newest \in Nat /\ Newest + 1 \in Nat
  BY Parts DEF HubTyped
<1>4. /\ hEvents' \in Seq(Events) /\ Newest' = Newest + 1
      /\ \A books, pos : pos \in 0..Newest /\ Covers(books, pos, hStore, hPublisher, hEvents)
                           => Covers(books, pos, hStore', hPublisher', hEvents')
      /\ LastTells(hStore, hPublisher, hEvents) => LastTells(hStore', hPublisher', hEvents')
  <2> HIDE DEF HubInv
  <2>1. /\ Append(hEvents, told) \in Seq(Events) /\ Len(Append(hEvents, told)) = Len(hEvents) + 1
        /\ \A books, pos : pos \in 0..Len(hEvents) /\ Covers(books, pos, hStore, hPublisher, hEvents)
                             => Covers(books, pos, hStore, NoPublisher, Append(hEvents, told))
        /\ LastTells(hStore, hPublisher, hEvents) => LastTells(hStore, NoPublisher, Append(hEvents, told))
    BY <1>1, <1>3, PublishCovers, Zenon
  <2> HIDE DEF told
  <2> QED  BY <2>1, <1>2 DEF Newest
<1>5. /\ hStream' \in Streams /\ Len(hStream'.live) <= HubBuffer
      /\ hStream'.up = hStream.up /\ hStream'.replay = hStream.replay /\ Rising(hStream'.live)
      /\ \/ /\ hStream'.member = hStream.member /\ hStream.member
            /\ \A y : InSeq(y, hStream'.live) <=> InSeq(y, hStream.live) \/ y = Newest + 1
         \/ ~hStream'.member /\ hStream'.live = hStream.live
      /\ ~hStream.up => hStream' = Closed
  BY <1>2, <1>3, FanoutHands, Zenon
<1>6. hQueue \in Seq(Nat) /\ Len(hQueue) \in Nat /\ Len(hQueue) <= HubQueue /\ HubQueue \in Nat
      /\ Len(hLog) \in Nat /\ hLog \in Seq(Nat)
  BY HubAssumption, LenProperties DEF HubTyped
<1>7. /\ Append(hQueue, Newest + 1) \in Seq(Nat) /\ Len(Append(hQueue, Newest + 1)) = Len(hQueue) + 1
      /\ \A y : InSeq(y, Append(hQueue, Newest + 1)) <=> InSeq(y, hQueue) \/ y = Newest + 1
  BY <1>3, <1>6, AppendIn
<1>8. /\ hQueue' = hQueue /\ (hGhost'.dropped \/ hGhost'.late)
      \/ /\ hQueue' = Append(hQueue, Newest + 1) /\ Len(hQueue) < HubQueue /\ hGhost' = hGhost
  BY DEF Publish, HubTyped, Ghosts
<1>9. HubTyped'
  <2>1. hQueue' \in Seq(Nat) /\ Len(hQueue') <= HubQueue
    <3>1. CASE hQueue' = hQueue  BY <1>6, <3>1
    <3>2. CASE hQueue' = Append(hQueue, Newest + 1) /\ Len(hQueue) < HubQueue
      <4>1. hQueue' \in Seq(Nat) /\ Len(hQueue') = Len(hQueue) + 1  BY <1>7, <3>2
      <4> QED  BY <1>6, <3>2, <4>1
    <3> QED  BY <1>8, <3>1, <3>2
  <2>2. hLog' \in Seq(Nat) /\ hBoard' \in Boards /\ hStore' \in [HubBooks -> 0..HubEvents]
        /\ hProcess' \in {"up", "closing", "closed", "down"} /\ hPublisher' \in {NoPublisher} \cup Writers
    BY <1>2 DEF HubTyped
  <2> QED  BY <1>2, <1>4, <1>5, <2>1, <2>2 DEF HubTyped
<1>10. PhaseInv'
  BY <1>1, <1>2, <1>5 DEF PhaseInv, Closed
<1>11. IdInv'
  <2>1. /\ \A y : InSeq(y, hStream.replay) => y \in 1..Newest
        /\ \A y : InSeq(y, hStream.live) => y \in 0..Newest
        /\ Rising(hStream.replay)
        /\ \A x, y : InSeq(x, hStream.replay) /\ InSeq(y, hStream.live) /\ y # Beat => x < y
    BY DEF IdInv, Ids
  <2>2. \A y : InSeq(y, hStream'.live) => InSeq(y, hStream.live) \/ y = Newest + 1
    BY <1>5
  <2>3. \A y : InSeq(y, hStream'.replay) => y \in 1..(Newest + 1)  BY <1>3, <1>5, <2>1
  <2>4. \A y : InSeq(y, hStream'.live) => y \in 0..(Newest + 1)  BY <1>3, <2>1, <2>2
  <2>5. \A x, y : InSeq(x, hStream'.replay) /\ InSeq(y, hStream'.live) /\ y # Beat => x < y
    BY <1>3, <1>5, <2>1, <2>2
  <2> QED  BY <1>4, <1>5, <2>1, <2>3, <2>4, <2>5 DEF IdInv, Ids
<1>12. LogInv'
  <2>1. /\ \A y : InSeq(y, hQueue) => y \in 1..Newest
        /\ \A y : InSeq(y, hLog) => y \in 1..Newest
        /\ Rising(hQueue) /\ Rising(hLog)
        /\ \A x, y : InSeq(x, hLog) /\ InSeq(y, hQueue) => x < y
        /\ ~hGhost.dropped /\ ~hGhost.late => Len(hLog) + Len(hQueue) = Newest
    BY DEF LogInv, Ids
  <2>2. Rising(Append(hQueue, Newest + 1))
    <3>1. \A y : InSeq(y, hQueue) => y < Newest + 1  BY <1>3, <2>1
    <3> QED  BY <1>3, <1>6, <2>1, <3>1, AppendRising
  <2>3. \A y : InSeq(y, hQueue') => InSeq(y, hQueue) \/ y = Newest + 1  BY <1>7, <1>8
  <2>4. \A y : (InSeq(y, hQueue') => y \in 1..(Newest + 1)) /\ (InSeq(y, hLog') => y \in 1..(Newest + 1))
    BY <1>2, <1>3, <2>1, <2>3
  <2>5. \A x, y : InSeq(x, hLog') /\ InSeq(y, hQueue') => x < y
    BY <1>2, <1>3, <2>1, <2>3
  <2>6. Rising(hQueue') /\ Rising(hLog')  BY <1>2, <1>8, <2>1, <2>2
  <2>7. ~hGhost'.dropped /\ ~hGhost'.late => Len(hLog') + Len(hQueue') = Newest + 1
    BY <1>2, <1>3, <1>6, <1>7, <1>8, <2>1
  <2> QED  BY <1>1, <1>4, <2>4, <2>5, <2>6, <2>7 DEF LogInv, Ids
<1>13. EventInv'  BY <1>1, <1>4 DEF EventInv
<1>14. ReplyInv'
  <2> SUFFICES ASSUME hBoard.load \in {"cursor", "read"}, hBoard.reply.boot = hGhost.boots
               PROVE  /\ hBoard.reply.cursor <= Newest + 1
                      /\ hBoard.load = "read"
                            => Covers(hBoard.reply.books, hBoard.reply.cursor, hStore', hPublisher', hEvents')
    BY <1>2, <1>4 DEF ReplyInv
  <2>1. hBoard.reply.cursor \in 0..Newest  BY <1>1, Parts DEF ReplyInv
  <2>2. hBoard.load = "read" => Covers(hBoard.reply.books, hBoard.reply.cursor, hStore, hPublisher, hEvents)
    BY <1>1 DEF ReplyInv
  <2> QED  BY <1>3, <1>4, <2>1, <2>2
<1>15. Position' = Position /\ Tracked' = Tracked
  BY <1>1, <1>2 DEF Position, Tracked
<1>16. Tracked => Position \in 0..Newest
  BY <1>3, Parts DEF BoardInv
<1>17. BoardInv'
  <2> SUFFICES ASSUME Tracked
               PROVE  /\ Position <= Newest + 1 /\ hBoard.cursor <= Position
                      /\ Covers(hBoard.shown, Position, hStore', hPublisher', hEvents')
    BY <1>2, <1>4, <1>15 DEF BoardInv
  <2> QED  BY <1>3, <1>4, <1>16 DEF BoardInv
<1>18. StreamInv'
  <2> SUFFICES ASSUME Tracked, hStream.up
               PROVE  /\ \A y : (OnItsWay(y))' /\ y # Beat => Position < y
                      /\ \A j \in (Position + 1)..(Newest + 1) :
                             (OnItsWay(j))' \/ (~hStream'.member /\ \A y : (OnItsWay(y))' => y < j)
    BY <1>4, <1>5, <1>15 DEF StreamInv
  <2>1. /\ \A y : OnItsWay(y) /\ y # Beat => Position < y
        /\ \A j \in (Position + 1)..Newest :
               OnItsWay(j) \/ (~hStream.member /\ \A y : OnItsWay(y) => y < j)
    BY DEF StreamInv
  <2>2. Position \in 0..Newest  BY <1>16
  <2>3. \A y : OnItsWay(y) => y < Newest + 1  BY <1>3 DEF OnItsWay, IdInv, Ids
  <2>4. CASE /\ hStream'.member = hStream.member /\ hStream.member
             /\ \A y : InSeq(y, hStream'.live) <=> InSeq(y, hStream.live) \/ y = Newest + 1
    <3>1. \A y : (OnItsWay(y))' <=> OnItsWay(y) \/ y = Newest + 1  BY <1>5, <2>4 DEF OnItsWay
    <3>2. \A j \in (Position + 1)..Newest : OnItsWay(j)  BY <2>1, <2>4
    <3> QED  BY <1>3, <2>1, <2>2, <3>1, <3>2
  <2>5. CASE ~hStream'.member /\ hStream'.live = hStream.live
    <3>1. \A y : (OnItsWay(y))' <=> OnItsWay(y)  BY <1>5, <2>5 DEF OnItsWay
    <3>2. \A j \in (Position + 1)..(Newest + 1) : j = Newest + 1 \/ j \in (Position + 1)..Newest
      BY <1>3, <2>2
    <3> QED  BY <2>1, <2>3, <2>5, <3>1, <3>2
  <2> QED  BY <1>5, <2>4, <2>5
<1> QED  BY <1>9, <1>10, <1>11, <1>12, <1>13, <1>14, <1>17, <1>18

(* The count of troubles is all OneMore changes.                           *)
LEMMA OneMoreKeeps ==
    ASSUME NEW g \in Ghosts
    PROVE  /\ OneMore(g) \in Ghosts /\ OneMore(g).boots = g.boots /\ OneMore(g).gap = g.gap
           /\ OneMore(g).dropped = g.dropped /\ OneMore(g).late = g.late
BY DEF OneMore, Ghosts

LEMMA HeartbeatStep == ASSUME HubInv, Heartbeat PROVE HubInv'
<1> USE DEF HubInv
<1>1. /\ hStream' = Fanout(Beat) /\ hGhost' = OneMore(hGhost) /\ UNCHANGED Daemon /\ UNCHANGED hBoard
  BY DEF Heartbeat
<1>2. /\ hGhost' \in Ghosts /\ hGhost'.boots = hGhost.boots /\ hGhost'.gap = hGhost.gap
      /\ hGhost'.dropped = hGhost.dropped /\ hGhost'.late = hGhost.late
  <2>1. hGhost \in Ghosts  BY DEF HubTyped
  <2> QED  BY <1>1, <2>1, OneMoreKeeps
<1>3. /\ hStream' \in Streams /\ Len(hStream'.live) <= HubBuffer
      /\ hStream'.up = hStream.up /\ hStream'.replay = hStream.replay /\ Rising(hStream'.live)
      /\ \/ /\ hStream'.member = hStream.member /\ hStream.member
            /\ \A y : InSeq(y, hStream'.live) <=> InSeq(y, hStream.live) \/ y = Beat
         \/ ~hStream'.member /\ hStream'.live = hStream.live
      /\ ~hStream.up => hStream' = Closed
  <2>1. Beat \in Nat  BY DEF Beat
  <2> QED  BY <1>1, <2>1, FanoutHands, Zenon
<1>4. Newest \in Nat /\ Newest' = Newest  BY <1>1, Parts DEF Daemon, Newest
<1>5. \A y : InSeq(y, hStream'.live) => InSeq(y, hStream.live) \/ y = Beat  BY <1>3
<1>6. HubTyped'  BY <1>1, <1>2, <1>3 DEF HubTyped, Daemon
<1>7. PhaseInv'  BY <1>1, <1>2, <1>3 DEF PhaseInv, Daemon, Alive, Closed
<1>8. IdInv'
  <2>1. Ids(hStream.live, 0, Newest)  BY DEF IdInv
  <2>2. Ids(hStream'.live, 0, Newest)  BY <1>4, <1>5, <2>1 DEF Ids, Beat
  <2> QED  BY <1>3, <1>4, <1>5, <2>2 DEF IdInv
<1>9. LogInv' /\ EventInv' /\ ReplyInv' /\ BoardInv'
  BY <1>1, <1>2, <1>4 DEF LogInv, EventInv, ReplyInv, BoardInv, Daemon, Tracked, Position, Alive
<1>10. StreamInv'
  <2>1. Position' = Position /\ Tracked' = Tracked  BY <1>1, <1>2 DEF Position, Tracked, Alive, Daemon
  <2> SUFFICES ASSUME Tracked, hStream.up
               PROVE  /\ \A y : (OnItsWay(y))' /\ y # Beat => Position < y
                      /\ \A j \in (Position + 1)..Newest :
                             (OnItsWay(j))' \/ (~hStream'.member /\ \A y : (OnItsWay(y))' => y < j)
    BY <1>3, <1>4, <2>1 DEF StreamInv
  <2>2. /\ \A y : OnItsWay(y) /\ y # Beat => Position < y
        /\ \A j \in (Position + 1)..Newest :
               OnItsWay(j) \/ (~hStream.member /\ \A y : OnItsWay(y) => y < j)
    BY DEF StreamInv
  <2>3. \A y : (OnItsWay(y))' /\ y # Beat => OnItsWay(y)  BY <1>3, <1>5 DEF OnItsWay
  <2>4. CASE /\ hStream'.member = hStream.member /\ hStream.member
             /\ \A y : InSeq(y, hStream'.live) <=> InSeq(y, hStream.live) \/ y = Beat
    <3>1. \A y : OnItsWay(y) => (OnItsWay(y))'  BY <1>3, <2>4 DEF OnItsWay
    <3> QED  BY <2>2, <2>3, <2>4, <3>1
  <2>5. CASE ~hStream'.member /\ hStream'.live = hStream.live
    <3>1. \A y : (OnItsWay(y))' <=> OnItsWay(y)  BY <1>3, <2>5 DEF OnItsWay
    <3> QED  BY <2>2, <2>3, <2>5, <3>1
  <2> QED  BY <1>3, <2>4, <2>5
<1> QED  BY <1>6, <1>7, <1>8, <1>9, <1>10

LEMMA DrainStep == ASSUME HubInv, Drain PROVE HubInv'
<1> USE DEF HubInv
<1>1. /\ hQueue # <<>> /\ hLog' = Append(hLog, Head(hQueue)) /\ hQueue' = Tail(hQueue) /\ Alive
      /\ UNCHANGED <<hStore, hPublisher, hProcess, hEvents, hStream, hBoard, hGhost>>
  BY DEF Drain, Alive
<1>2. hQueue \in Seq(Nat) /\ hLog \in Seq(Nat) /\ Len(hQueue) <= HubQueue /\ HubQueue \in Nat
  BY HubAssumption DEF HubTyped
<1>3. /\ Head(hQueue) \in Nat /\ Tail(hQueue) \in Seq(Nat)
      /\ Len(Tail(hQueue)) = Len(hQueue) - 1 /\ Len(hQueue) > 0
      /\ \A y : InSeq(y, hQueue) <=> InSeq(y, Tail(hQueue)) \/ y = Head(hQueue)
  BY <1>1, <1>2, TailIn
<1>4. /\ Append(hLog, Head(hQueue)) \in Seq(Nat) /\ Len(Append(hLog, Head(hQueue))) = Len(hLog) + 1
      /\ \A y : InSeq(y, Append(hLog, Head(hQueue))) <=> InSeq(y, hLog) \/ y = Head(hQueue)
  BY <1>2, <1>3, AppendIn
<1>5. Len(hLog) \in Nat /\ Len(hQueue) \in Nat /\ Newest' = Newest /\ Newest \in Nat
  BY <1>1, <1>2, LenProperties, Parts DEF Newest
<1>6. HubTyped'  BY <1>1, <1>2, <1>3, <1>4, <1>5 DEF HubTyped
<1>7. LogInv'
  <2>1. /\ \A y : InSeq(y, hQueue) => y \in 1..Newest
        /\ \A y : InSeq(y, hLog) => y \in 1..Newest
        /\ Rising(hQueue) /\ Rising(hLog)
        /\ \A x, y : InSeq(x, hLog) /\ InSeq(y, hQueue) => x < y
        /\ ~hGhost.dropped /\ ~hGhost.late => Len(hLog) + Len(hQueue) = Newest
    BY DEF LogInv, Ids
  <2>2. Rising(Tail(hQueue)) /\ \A y : InSeq(y, Tail(hQueue)) /\ y # Beat /\ Head(hQueue) # Beat => Head(hQueue) < y
    BY <1>1, <1>2, <2>1, TailRising
  <2>3. Head(hQueue) \in 1..Newest /\ \A y : InSeq(y, hLog) => y < Head(hQueue)  BY <1>3, <2>1
  <2>4. Rising(Append(hLog, Head(hQueue)))  BY <1>2, <1>3, <2>1, <2>3, AppendRising
  <2>5. \A x, y : InSeq(x, hLog') /\ InSeq(y, hQueue') => x < y
    <3> SUFFICES ASSUME NEW x, NEW y, InSeq(x, hLog'), InSeq(y, hQueue') PROVE x < y
      OBVIOUS
    <3>1. (InSeq(x, hLog) \/ x = Head(hQueue)) /\ InSeq(y, Tail(hQueue))  BY <1>1, <1>4
    <3>2. InSeq(y, hQueue) /\ y \in 1..Newest  BY <1>3, <2>1, <3>1
    <3> QED  BY <2>1, <2>2, <2>3, <3>1, <3>2 DEF Beat
  <2>6. \A y : (InSeq(y, hQueue') => y \in 1..Newest) /\ (InSeq(y, hLog') => y \in 1..Newest)
    BY <1>1, <1>3, <1>4, <2>1, <2>3
  <2>7. ~hGhost'.dropped /\ ~hGhost'.late => Len(hLog') + Len(hQueue') = Newest
    <3>1. Len(hLog') = Len(hLog) + 1 /\ Len(hQueue') = Len(hQueue) - 1 /\ hGhost' = hGhost
      BY <1>1, <1>3, <1>4
    <3> QED  BY <1>5, <2>1, <3>1
  <2>8. Alive'  BY <1>1 DEF Alive
  <2> QED  BY <1>1, <1>5, <2>2, <2>4, <2>5, <2>6, <2>7, <2>8 DEF LogInv, Ids
<1>8. PhaseInv' /\ IdInv' /\ EventInv' /\ ReplyInv' /\ BoardInv' /\ StreamInv'
  BY <1>1, <1>5 DEF PhaseInv, IdInv, EventInv, ReplyInv, BoardInv, StreamInv, Tracked, Position, Alive, OnItsWay
<1> QED  BY <1>6, <1>7, <1>8

(* A closed stream has nothing on its way.                                 *)
LEMMA ClosedStream == hStream' = Closed => IdInv' /\ StreamInv' /\ Closed \in Streams /\ Len(Closed.live) = 0
BY EmptyIn DEF IdInv, StreamInv, Closed, Ids, Streams

LEMMA ReloadStep == ASSUME HubInv, Reload PROVE HubInv'
<1> USE DEF HubInv
<1>1. /\ hBoard' = [hBoard EXCEPT !.load = "asked", !.wanted = FALSE] /\ hStream' = Closed
      /\ UNCHANGED Daemon /\ hBoard \in Boards /\ hGhost \in Ghosts
  BY DEF Reload, HubTyped
<1>2. /\ hGhost' \in Ghosts /\ hGhost'.boots = hGhost.boots /\ hGhost'.gap = hGhost.gap
      /\ hGhost'.dropped = hGhost.dropped /\ hGhost'.late = hGhost.late
  <2>1. hGhost' = hGhost \/ hGhost' = OneMore(hGhost)  BY DEF Reload
  <2> QED  BY <1>1, <2>1, OneMoreKeeps
<1>3. /\ hBoard' \in Boards /\ hBoard'.load = "asked" /\ hBoard'.wanted = FALSE
      /\ hBoard'.shown = hBoard.shown /\ hBoard'.cursor = hBoard.cursor /\ hBoard'.last = hBoard.last
      /\ hBoard'.boot = hBoard.boot /\ hBoard'.reply = hBoard.reply
  BY <1>1 DEF Boards
<1>4. Newest' = Newest /\ UNCHANGED <<hStore, hPublisher, hProcess, hEvents, hQueue, hLog>>
  BY <1>1 DEF Daemon, Newest
<1>5. IdInv' /\ StreamInv' /\ hStream' \in Streams /\ Len(hStream'.live) <= HubBuffer
  BY <1>1, ClosedStream, HubAssumption
<1>6. HubTyped'  BY <1>2, <1>3, <1>4, <1>5 DEF HubTyped
<1>7. PhaseInv'  BY <1>1, <1>2, <1>3, <1>4 DEF PhaseInv, Alive, Closed
<1>8. LogInv' /\ EventInv'  BY <1>2, <1>4 DEF LogInv, EventInv, Alive
<1>9. ReplyInv'  BY <1>3 DEF ReplyInv
<1>10. BoardInv'  BY <1>2, <1>3, <1>4 DEF BoardInv, Tracked, Position, Alive
<1> QED  BY <1>5, <1>6, <1>7, <1>8, <1>9, <1>10

LEMMA ListStep == ASSUME HubInv, ListBooks PROVE HubInv'
<1> USE DEF HubInv
<1>1. /\ UNCHANGED <<hStream, hGhost, hStore, hPublisher, hProcess, hEvents, hQueue, hLog>>
      /\ Newest' = Newest /\ Newest \in Nat /\ hBoard \in Boards /\ hBoard.load # "none"
      /\ hGhost.boots \in Nat /\ hStore \in Books /\ hBoard.reply \in Replies
  BY Parts DEF ListBooks, Daemon, HubTyped, Newest, Boards
<1>2. CASE /\ hBoard.load = "asked" /\ hProcess = "up"
           /\ hBoard' = [hBoard EXCEPT !.load = "cursor",
                                       !.reply = [NoReply EXCEPT !.cursor = Newest, !.boot = hGhost.boots]]
  <2> DEFINE reply == [NoReply EXCEPT !.cursor = Newest, !.boot = hGhost.boots]
  <2>1. reply \in Replies /\ reply.cursor = Newest /\ reply.boot = hGhost.boots
    BY <1>1 DEF NoReply, Replies
  <2> HIDE DEF reply
  <2>2. hBoard' = [hBoard EXCEPT !.load = "cursor", !.reply = reply]  BY <1>2 DEF reply
  <2>3. /\ hBoard' \in Boards /\ hBoard'.load = "cursor" /\ hBoard'.reply = reply
        /\ hBoard'.wanted = hBoard.wanted /\ hBoard'.shown = hBoard.shown /\ hBoard'.cursor = hBoard.cursor
        /\ hBoard'.last = hBoard.last /\ hBoard'.boot = hBoard.boot
    BY <1>1, <2>1, <2>2 DEF Boards
  <2>4. HubTyped'  BY <1>1, <2>3 DEF HubTyped
  <2>5. PhaseInv'  BY <1>1, <1>2, <2>1, <2>3 DEF PhaseInv, Alive
  <2>6. IdInv' /\ LogInv' /\ EventInv' /\ StreamInv'
    BY <1>1, <1>2, <2>3 DEF IdInv, LogInv, EventInv, StreamInv, Alive, PhaseInv, Closed
  <2>7. ReplyInv'  BY <1>1, <2>1, <2>3 DEF ReplyInv
  <2>8. BoardInv'  BY <1>1, <2>3 DEF BoardInv, Tracked, Position, Alive
  <2> QED  BY <2>4, <2>5, <2>6, <2>7, <2>8
<1>3. CASE /\ hBoard.load = "cursor" /\ hProcess = "up" /\ hBoard.reply.boot = hGhost.boots
           /\ hBoard' = [hBoard EXCEPT !.load = "read", !.reply.books = hStore]
  <2> DEFINE reply == [hBoard.reply EXCEPT !.books = hStore]
  <2>1. /\ reply \in Replies /\ reply.cursor = hBoard.reply.cursor /\ reply.boot = hBoard.reply.boot
        /\ reply.books = hStore
    BY <1>1 DEF Replies
  <2>2. hBoard' = [hBoard EXCEPT !.load = "read", !.reply = reply]  BY <1>1, <1>3 DEF Boards, Replies
  <2> HIDE DEF reply
  <2>3. /\ hBoard' \in Boards /\ hBoard'.load = "read" /\ hBoard'.reply = reply
        /\ hBoard'.wanted = hBoard.wanted /\ hBoard'.shown = hBoard.shown /\ hBoard'.cursor = hBoard.cursor
        /\ hBoard'.last = hBoard.last /\ hBoard'.boot = hBoard.boot
    BY <1>1, <2>1, <2>2 DEF Boards
  <2>4. HubTyped'  BY <1>1, <2>3 DEF HubTyped
  <2>5. PhaseInv'  BY <1>1, <1>3, <2>1, <2>3 DEF PhaseInv, Alive
  <2>6. IdInv' /\ LogInv' /\ EventInv' /\ StreamInv'
    BY <1>1, <1>3, <2>3 DEF IdInv, LogInv, EventInv, StreamInv, Alive, PhaseInv, Closed
  <2>7. ReplyInv'
    <3>1. reply.cursor <= Newest  BY <1>3, <2>1 DEF ReplyInv, Alive
    <3>2. Covers(hStore, reply.cursor, hStore, hPublisher, hEvents)  BY DEF Covers
    <3> QED  BY <1>1, <2>1, <2>3, <3>1, <3>2 DEF ReplyInv
  <2>8. BoardInv'  BY <1>1, <2>3 DEF BoardInv, Tracked, Position, Alive
  <2> QED  BY <2>4, <2>5, <2>6, <2>7, <2>8
<1> QED  BY <1>2, <1>3 DEF ListBooks

LEMMA LoadedStep == ASSUME HubInv, Loaded PROVE HubInv'
<1> USE DEF HubInv
<1>1. /\ UNCHANGED <<hStream, hStore, hPublisher, hProcess, hEvents, hQueue, hLog>>
      /\ Newest' = Newest /\ Newest \in Nat /\ hBoard \in Boards /\ hStream = Closed /\ hGhost \in Ghosts
      /\ hBoard.reply \in Replies /\ hBoard.reply.boot \in Nat /\ hBoard.reply.cursor \in Nat
  BY Parts DEF Loaded, Daemon, HubTyped, PhaseInv, Newest, Boards
<1>2. IdInv' /\ StreamInv' /\ NoReply \in Replies /\ NoReply.boot = 0
  BY <1>1, ClosedStream DEF NoReply, Replies
<1>3. CASE /\ hBoard.load = "read"
           /\ hBoard' = [hBoard EXCEPT !.load = "none", !.wanted = TRUE, !.shown = hBoard.reply.books,
                                       !.cursor = hBoard.reply.cursor, !.last = 0, !.boot = hBoard.reply.boot,
                                       !.reply = NoReply]
           /\ hGhost' = [hGhost EXCEPT !.gap = FALSE]
  <2>1. /\ hGhost' \in Ghosts /\ hGhost'.boots = hGhost.boots /\ hGhost'.gap = FALSE
        /\ hGhost'.dropped = hGhost.dropped /\ hGhost'.late = hGhost.late
    BY <1>1, <1>3 DEF Ghosts
  <2>2. hBoard.reply.books \in Books  BY <1>3 DEF PhaseInv
  <2>3. /\ hBoard'.load = "none" /\ hBoard'.wanted = TRUE /\ hBoard'.shown = hBoard.reply.books
        /\ hBoard'.cursor = hBoard.reply.cursor /\ hBoard'.last = 0 /\ hBoard'.boot = hBoard.reply.boot
        /\ hBoard'.reply = NoReply
    BY <1>1, <1>3 DEF Boards
  <2>4. hBoard' \in Boards
    <3>1. hBoard.reply.books \in {<<>>} \cup Books  BY <2>2
    <3>2. 0 \in Nat /\ TRUE \in BOOLEAN /\ "none" \in {"none", "asked", "cursor", "read"}  OBVIOUS
    <3> QED  BY <1>1, <1>2, <1>3, <3>1, <3>2 DEF Boards
  <2>5. HubTyped'  BY <1>1, <2>1, <2>4 DEF HubTyped
  <2>6. PhaseInv'
    <3>1. hBoard.reply.boot <= hGhost.boots /\ hGhost.boots \in Nat  BY Parts DEF PhaseInv
    <3> QED  BY <1>1, <1>2, <2>1, <2>2, <2>3, <3>1 DEF PhaseInv, Alive, Closed
  <2>7. LogInv' /\ EventInv' /\ ReplyInv'  BY <1>1, <2>1, <2>3 DEF LogInv, EventInv, ReplyInv, Alive
  <2>8. BoardInv'
    <3> SUFFICES ASSUME Alive, hBoard.reply.boot = hGhost.boots
                 PROVE  /\ hBoard.reply.cursor <= Newest
                        /\ Covers(hBoard.reply.books, hBoard.reply.cursor, hStore, hPublisher, hEvents)
      BY <1>1, <2>1, <2>3 DEF BoardInv, Tracked, Position, Alive
    <3> QED  BY <1>3 DEF ReplyInv
  <2> QED  BY <1>2, <2>5, <2>6, <2>7, <2>8
<1>4. CASE /\ hBoard' = [hBoard EXCEPT !.load = "none", !.wanted = (hBoard.shown # <<>>), !.last = 0,
                                       !.reply = NoReply]
           /\ hGhost' = OneMore(hGhost)
  <2>1. /\ hGhost' \in Ghosts /\ hGhost'.boots = hGhost.boots /\ hGhost'.gap = hGhost.gap
        /\ hGhost'.dropped = hGhost.dropped /\ hGhost'.late = hGhost.late
    BY <1>1, <1>4, OneMoreKeeps
  <2>2. hBoard.shown \in {<<>>} \cup Books  BY <1>1 DEF Boards
  <2>3. /\ hBoard'.load = "none" /\ hBoard'.wanted = (hBoard.shown # <<>>) /\ hBoard'.shown = hBoard.shown
        /\ hBoard'.cursor = hBoard.cursor /\ hBoard'.last = 0 /\ hBoard'.boot = hBoard.boot
        /\ hBoard'.reply = NoReply
    BY <1>1, <1>4 DEF Boards
  <2>4. hBoard' \in Boards
    <3> DEFINE wanted == (hBoard.shown # <<>>)
    <3>1. wanted \in BOOLEAN  OBVIOUS
    <3>2. 0 \in Nat /\ "none" \in {"none", "asked", "cursor", "read"}  OBVIOUS
    <3>3. hBoard' = [hBoard EXCEPT !.load = "none", !.wanted = wanted, !.last = 0, !.reply = NoReply]  BY <1>4
    <3> HIDE DEF wanted
    <3> QED  BY <1>1, <1>2, <3>1, <3>2, <3>3 DEF Boards
  <2>5. HubTyped'  BY <1>1, <2>1, <2>4 DEF HubTyped
  <2>6. PhaseInv'
    <3>1. hBoard.boot <= hGhost.boots /\ 0 <= hGhost.boots  BY Parts DEF PhaseInv
    <3>2. hBoard'.wanted => hBoard'.shown \in Books  BY <2>2, <2>3
    <3>3. ~hStream.up  BY <1>1 DEF Closed
    <3> QED  BY <1>1, <1>2, <2>1, <2>3, <3>1, <3>2, <3>3 DEF PhaseInv, Alive
  <2>7. LogInv' /\ EventInv' /\ ReplyInv'  BY <1>1, <2>1, <2>3 DEF LogInv, EventInv, ReplyInv, Alive
  <2>8. BoardInv'
    <3> SUFFICES ASSUME Tracked
                 PROVE  /\ hBoard.cursor <= Newest /\ hBoard.cursor <= hBoard.cursor
                        /\ Covers(hBoard.shown, hBoard.cursor, hStore, hPublisher, hEvents)
      BY <1>1, <2>1, <2>3 DEF BoardInv, Tracked, Position, Alive
    <3>1. /\ Position <= Newest /\ hBoard.cursor <= Position /\ Position \in Nat /\ hBoard.cursor \in Nat
          /\ Covers(hBoard.shown, Position, hStore, hPublisher, hEvents) /\ hEvents \in Seq(Events)
      BY Parts DEF BoardInv, HubTyped
    <3>2. Covers(hBoard.shown, hBoard.cursor, hStore, hPublisher, hEvents)  BY <3>1, BackCovers
    <3> QED  BY <1>1, <3>1, <3>2
  <2> QED  BY <1>2, <2>5, <2>6, <2>7, <2>8
<1> QED  BY <1>3, <1>4 DEF Loaded

(* The replay is what the ring still holds after an id, in order.          *)
LEMMA Replayed ==
    ASSUME Newest \in Nat, NEW last \in Nat
    PROVE  /\ ReplayFrom(last) \in Seq(Nat) /\ Rising(ReplayFrom(last))
           /\ \A y : InSeq(y, ReplayFrom(last)) => y \in 1..Newest /\ y > last
           /\ last >= Newest - HubRing => \A y \in (last + 1)..Newest : InSeq(y, ReplayFrom(last))
<1> DEFINE before == IF last > Newest - HubRing THEN last ELSE Newest - HubRing
           count == IF Newest > before THEN Newest - before ELSE 0
           ids == [k \in 1..count |-> before + k]
<1>1. before \in Nat /\ before >= last /\ count \in Nat /\ before + count >= Newest
      /\ (count > 0 => before + count = Newest)
      /\ (last >= Newest - HubRing => before = last)
  BY HubAssumption
<1>2. ReplayFrom(last) = ids
  <2>1. 1..(Newest - before) = 1..count  BY <1>1
  <2> QED  BY <2>1 DEF ReplayFrom
<1> HIDE DEF before, count
<1>3. ids \in Seq(Nat) /\ Len(ids) = count /\ \A k \in 1..count : ids[k] = before + k
  BY <1>1, SeqDef, LenProperties
<1> HIDE DEF ids
<1>4. Rising(ids)  BY <1>1, <1>3 DEF Rising
<1>5. \A y : InSeq(y, ids) => y \in 1..Newest /\ y > last  BY <1>1, <1>3 DEF InSeq
<1>6. ASSUME last >= Newest - HubRing, NEW y \in (last + 1)..Newest PROVE InSeq(y, ids)
  <2>1. y - before \in 1..count  BY <1>1, <1>6
  <2>2. ids[y - before] = y  BY <1>1, <1>3, <2>1
  <2> QED  BY <1>3, <2>1, <2>2 DEF InSeq
<1> QED  BY <1>2, <1>3, <1>4, <1>5, <1>6

LEMMA SubscribeStep == ASSUME HubInv, Subscribe PROVE HubInv'
<1> USE DEF HubInv
<1> DEFINE replay == ReplayFrom(Position)
<1>1. /\ UNCHANGED <<hBoard, hStore, hPublisher, hProcess, hEvents, hQueue, hLog>>
      /\ hProcess = "up" /\ hBoard.wanted /\ Newest' = Newest /\ Newest \in Nat /\ Position \in Nat
      /\ hGhost \in Ghosts /\ Position' = Position
  BY Parts DEF Subscribe, Daemon, HubTyped, Newest, Position
<1>2. /\ hStream' = [up |-> TRUE, member |-> TRUE, replay |-> replay, live |-> <<>>]
      /\ hGhost' = [hGhost EXCEPT !.gap = @ \/ Position < Newest - HubRing]
  BY DEF Subscribe, Position
<1>3. /\ replay \in Seq(Nat) /\ Rising(replay)
      /\ \A y : InSeq(y, replay) => y \in 1..Newest /\ y > Position
      /\ Position >= Newest - HubRing => \A y \in (Position + 1)..Newest : InSeq(y, replay)
  BY <1>1, Replayed
<1> HIDE DEF replay
<1>4. /\ hStream' \in Streams /\ hStream'.up /\ hStream'.replay = replay /\ hStream'.live = <<>>
  BY <1>2, <1>3, EmptyIn DEF Streams
<1> DEFINE gap == hGhost.gap \/ Position < Newest - HubRing
<1>5. /\ hGhost' \in Ghosts /\ hGhost'.boots = hGhost.boots /\ hGhost'.gap = gap
      /\ hGhost'.dropped = hGhost.dropped /\ hGhost'.late = hGhost.late
  <2>1. gap \in BOOLEAN /\ hGhost' = [hGhost EXCEPT !.gap = gap]
    BY <1>1, <1>2 DEF Ghosts
  <2> HIDE DEF gap
  <2> QED  BY <1>1, <2>1 DEF Ghosts
<1>6. ~hGhost'.gap => ~hGhost.gap /\ Position >= Newest - HubRing
  <2>1. HubRing \in Nat  BY HubAssumption
  <2>2. ~(Position < Newest - HubRing) => Position >= Newest - HubRing  BY <1>1, <2>1
  <2> QED  BY <1>5, <2>2
<1> HIDE DEF gap
<1>7. HubTyped'
  <2>1. Len(hStream'.live) <= HubBuffer  BY <1>4, EmptyIn, HubAssumption
  <2> QED  BY <1>1, <1>4, <1>5, <2>1 DEF HubTyped
<1>8. PhaseInv'  BY <1>1, <1>4, <1>5 DEF PhaseInv, Alive
<1>9. IdInv'  BY <1>1, <1>3, <1>4, EmptyIn DEF IdInv, Ids
<1>10. LogInv' /\ EventInv' /\ ReplyInv'  BY <1>1, <1>5 DEF LogInv, EventInv, ReplyInv, Alive
<1>11. Tracked' => Tracked  BY <1>1, <1>5, <1>6 DEF Tracked, Alive
<1>12. BoardInv'  BY <1>1, <1>11 DEF BoardInv
<1>13. StreamInv'
  <2>1. \A y : (OnItsWay(y))' <=> InSeq(y, replay)  BY <1>4, EmptyIn DEF OnItsWay
  <2>2. Tracked' => Position >= Newest - HubRing  BY <1>6 DEF Tracked
  <2> QED  BY <1>1, <1>3, <2>1, <2>2 DEF StreamInv
<1> QED  BY <1>7, <1>8, <1>9, <1>10, <1>12, <1>13

(* An id that reaches a tracked board is the next one.                     *)
LEMMA NextOne ==
    ASSUME HubInv, Tracked, hStream.up, NEW id, OnItsWay(id), id # Beat,
           \A y : OnItsWay(y) /\ y # Beat => id <= y
    PROVE  id = Position + 1 /\ Position < Newest
<1> USE DEF HubInv
<1>1. Newest \in Nat /\ Position \in Nat  BY Parts
<1>2. id \in 1..Newest  BY <1>1 DEF OnItsWay, IdInv, Ids, Beat
<1>3. Position < id  BY DEF StreamInv
<1>4. Position + 1 \in (Position + 1)..Newest /\ Position + 1 # Beat  BY <1>1, <1>2, <1>3 DEF Beat
<1>5. OnItsWay(Position + 1) \/ \A y : OnItsWay(y) => y < Position + 1  BY <1>4 DEF StreamInv
<1> QED  BY <1>1, <1>2, <1>3, <1>4, <1>5

(* What a board does with an event.                                        *)
LEMMA ShowsIt ==
    ASSUME HubInv, hStream.up, NEW id \in 0..Newest, hBoard' = Shows(id), UNCHANGED hGhost, UNCHANGED Daemon
    PROVE  /\ hBoard' \in Boards /\ hBoard'.load = hBoard.load /\ hBoard'.wanted = hBoard.wanted
           /\ hBoard'.cursor = hBoard.cursor /\ hBoard'.boot = hBoard.boot /\ hBoard'.reply = hBoard.reply
           /\ hBoard'.shown \in Books
           /\ id = Beat => hBoard' = hBoard
           /\ id # Beat => /\ hBoard'.last = id
                           /\ hBoard'.shown = [hBoard.shown EXCEPT ![hEvents[id].book] = hEvents[id].change]
<1> USE DEF HubInv
<1>1. hBoard \in Boards /\ hBoard.shown \in Books /\ Newest \in Nat  BY Parts DEF HubTyped, PhaseInv
<1>2. CASE id = Beat  BY <1>1, <1>2 DEF Shows
<1>3. CASE id # Beat
  <2> DEFINE shown == [hBoard.shown EXCEPT ![hEvents[id].book] = hEvents[id].change]
  <2>1. hEvents[id] \in Events
    <3>1. hEvents \in Seq(Events) /\ id \in 1..Len(hEvents)  BY <1>1, <1>3 DEF HubTyped, Beat, Newest
    <3> QED  BY <3>1, ElementOfSeq
  <2>2. shown \in Books  BY <1>1, <2>1 DEF Books, Events
  <2>3. hBoard' = [hBoard EXCEPT !.last = id, !.shown = shown]  BY <1>1, <1>3 DEF Shows, Boards
  <2>4. id \in Nat /\ shown \in {<<>>} \cup Books  BY <1>1, <2>2
  <2> HIDE DEF shown
  <2>5. /\ hBoard' \in Boards /\ hBoard'.last = id /\ hBoard'.shown = shown
        /\ hBoard'.load = hBoard.load /\ hBoard'.wanted = hBoard.wanted
        /\ hBoard'.cursor = hBoard.cursor /\ hBoard'.boot = hBoard.boot /\ hBoard'.reply = hBoard.reply
    BY <1>1, <2>3, <2>4 DEF Boards
  <2> QED  BY <1>3, <2>2, <2>5 DEF shown
<1> QED  BY <1>2, <1>3

(* Either sequence hands over its head, the replay's before the live one's.*)
LEMMA ReceiveStep ==
    ASSUME HubInv, hStream.up, NEW id \in Nat, hBoard' = Shows(id), UNCHANGED hGhost, UNCHANGED Daemon,
           hStream' \in Streams, hStream'.up, hStream'.member = hStream.member,
           Len(hStream'.live) <= HubBuffer, Rising(hStream'.replay), Rising(hStream'.live),
           \A y : InSeq(y, hStream'.replay) => InSeq(y, hStream.replay),
           \A y : InSeq(y, hStream'.live) => InSeq(y, hStream.live),
           \A y : OnItsWay(y) <=> (OnItsWay(y))' \/ y = id,
           id # Beat => \A y : (OnItsWay(y))' /\ y # Beat => id < y
    PROVE  HubInv'
<1> USE DEF HubInv
<1>1. Newest \in Nat /\ Newest' = Newest /\ hEvents \in Seq(Events) /\ hStore \in Books /\ Position \in Nat
      /\ UNCHANGED <<hStore, hPublisher, hProcess, hEvents, hQueue, hLog>>
  BY Parts DEF HubTyped, Daemon, Newest
<1>2. /\ \A y : InSeq(y, hStream.replay) => y \in 1..Newest
      /\ \A y : InSeq(y, hStream.live) => y \in 0..Newest
      /\ \A x, y : InSeq(x, hStream.replay) /\ InSeq(y, hStream.live) /\ y # Beat => x < y
  BY DEF IdInv, Ids
<1>3. OnItsWay(id) /\ \A y : OnItsWay(y) => y \in 0..Newest  BY <1>1, <1>2 DEF OnItsWay
<1>4. /\ hBoard' \in Boards /\ hBoard'.load = hBoard.load /\ hBoard'.wanted = hBoard.wanted
      /\ hBoard'.cursor = hBoard.cursor /\ hBoard'.boot = hBoard.boot /\ hBoard'.reply = hBoard.reply
      /\ hBoard'.shown \in Books
      /\ id = Beat => hBoard' = hBoard
      /\ id # Beat => /\ hBoard'.last = id
                      /\ hBoard'.shown = [hBoard.shown EXCEPT ![hEvents[id].book] = hEvents[id].change]
  BY <1>3, ShowsIt, Zenon
<1>5. HubTyped'  BY <1>1, <1>4 DEF HubTyped
<1>6. PhaseInv'  BY <1>1, <1>4 DEF PhaseInv, Alive, Closed
<1>7. IdInv'  BY <1>1, <1>2 DEF IdInv, Ids
<1>8. LogInv' /\ EventInv' /\ ReplyInv'  BY <1>1, <1>4 DEF LogInv, EventInv, ReplyInv, Alive
<1>9. Tracked' = Tracked /\ hBoard'.cursor \in Nat
  BY <1>1, <1>4, Parts DEF Tracked, Alive
<1>10. CASE id = Beat
  <2>1. Position' = Position  BY <1>4, <1>10 DEF Position
  <2>2. BoardInv'  BY <1>1, <1>4, <1>9, <1>10, <2>1 DEF BoardInv
  <2>3. StreamInv'
    <3> SUFFICES ASSUME Tracked
                 PROVE  /\ \A y : (OnItsWay(y))' /\ y # Beat => Position < y
                        /\ \A j \in (Position + 1)..Newest :
                               (OnItsWay(j))' \/ (~hStream.member /\ \A y : (OnItsWay(y))' => y < j)
      BY <1>1, <1>9, <2>1 DEF StreamInv
    <3>1. /\ \A y : OnItsWay(y) /\ y # Beat => Position < y
          /\ \A j \in (Position + 1)..Newest :
                 OnItsWay(j) \/ (~hStream.member /\ \A y : OnItsWay(y) => y < j)
      BY DEF StreamInv
    <3>2. \A j \in (Position + 1)..Newest : j # id  BY <1>1, <1>10 DEF Beat
    <3> QED  BY <3>1, <3>2
  <2> QED  BY <1>5, <1>6, <1>7, <1>8, <2>2, <2>3
<1>11. CASE id # Beat
  <2>1. Position' = id  BY <1>4, <1>11 DEF Position, Beat
  <2>2. Tracked => id = Position + 1 /\ Position < Newest
    <3>1. \A y : OnItsWay(y) /\ y # Beat => id <= y  BY <1>3, <1>11
    <3> QED  BY <1>3, <1>11, <3>1, NextOne
  <2>3. BoardInv'
    <3> SUFFICES ASSUME Tracked
                 PROVE  /\ id <= Newest /\ hBoard.cursor <= id
                        /\ Covers(hBoard'.shown, id, hStore, hPublisher, hEvents)
      BY <1>1, <1>4, <1>9, <2>1 DEF BoardInv
    <3>1. hBoard.cursor <= Position /\ hBoard.cursor \in Nat /\ hBoard.shown \in Books
          /\ Covers(hBoard.shown, Position, hStore, hPublisher, hEvents)
          /\ LastTells(hStore, hPublisher, hEvents)
      BY Parts DEF BoardInv, PhaseInv, EventInv, Tracked
    <3>2. Position < Len(hEvents) /\ id = Position + 1  BY <2>2 DEF Newest
    <3>3. Covers([hBoard.shown EXCEPT ![hEvents[Position + 1].book] = hEvents[Position + 1].change], Position + 1,
                 hStore, hPublisher, hEvents)
      BY <1>1, <3>1, <3>2, ShowCovers
    <3>4. Covers(hBoard'.shown, id, hStore, hPublisher, hEvents)  BY <1>4, <1>11, <3>2, <3>3
    <3> QED  BY <1>1, <2>2, <3>1, <3>4
  <2>4. StreamInv'
    <3> SUFFICES ASSUME Tracked
                 PROVE  /\ \A y : (OnItsWay(y))' /\ y # Beat => id < y
                        /\ \A j \in (id + 1)..Newest :
                               (OnItsWay(j))' \/ (~hStream.member /\ \A y : (OnItsWay(y))' => y < j)
      BY <1>1, <1>9, <2>1 DEF StreamInv
    <3>1. \A j \in (Position + 1)..Newest :
             OnItsWay(j) \/ (~hStream.member /\ \A y : OnItsWay(y) => y < j)
      BY DEF StreamInv
    <3>2. \A j \in (id + 1)..Newest : j \in (Position + 1)..Newest /\ j # id  BY <1>1, <2>2
    <3> QED  BY <1>11, <3>1, <3>2
  <2> QED  BY <1>5, <1>6, <1>7, <1>8, <2>3, <2>4
<1> QED  BY <1>10, <1>11

LEMMA StreamStep == ASSUME HubInv, Stream PROVE HubInv'
<1> USE DEF HubInv
<1>1. /\ hStream.up /\ UNCHANGED hGhost /\ UNCHANGED Daemon /\ hStream \in Streams
      /\ hStream.replay \in Seq(Nat) /\ hStream.live \in Seq(Nat) /\ Rising(hStream.replay) /\ Rising(hStream.live)
      /\ Len(hStream.live) <= HubBuffer /\ HubBuffer \in Nat
      /\ \A y : InSeq(y, hStream.replay) => y \in 1..Newest
      /\ \A x, y : InSeq(x, hStream.replay) /\ InSeq(y, hStream.live) /\ y # Beat => x < y
  BY Parts, HubAssumption DEF Stream, HubTyped, IdInv, Ids
<1>2. CASE /\ hStream.replay # <<>>
           /\ hBoard' = Shows(Head(hStream.replay)) /\ hStream' = [hStream EXCEPT !.replay = Tail(@)]
  <2> DEFINE id == Head(hStream.replay)
             rest == Tail(hStream.replay)
  <2>1. /\ id \in Nat /\ rest \in Seq(Nat)
        /\ \A y : InSeq(y, hStream.replay) <=> InSeq(y, rest) \/ y = id
    BY <1>1, <1>2, TailIn
  <2>2. Rising(rest) /\ \A y : InSeq(y, rest) /\ y # Beat /\ id # Beat => id < y
    BY <1>1, <1>2, TailRising
  <2>3. hStream' = [hStream EXCEPT !.replay = rest] /\ hBoard' = Shows(id)  BY <1>2
  <2> HIDE DEF id, rest
  <2>4. /\ hStream' \in Streams /\ hStream'.up /\ hStream'.member = hStream.member
        /\ hStream'.replay = rest /\ hStream'.live = hStream.live
    BY <1>1, <2>1, <2>3 DEF Streams
  <2>5. \A y : OnItsWay(y) <=> (OnItsWay(y))' \/ y = id  BY <2>1, <2>4 DEF OnItsWay
  <2>6. id # Beat => \A y : (OnItsWay(y))' /\ y # Beat => id < y  BY <1>1, <2>1, <2>2, <2>4 DEF OnItsWay
  <2> HIDE DEF HubInv
  <2>7. \A y : InSeq(y, hStream'.replay) => InSeq(y, hStream.replay)  BY <2>1, <2>4
  <2>8. Rising(hStream'.replay) /\ Rising(hStream'.live) /\ Len(hStream'.live) <= HubBuffer  BY <1>1, <2>2, <2>4
  <2>9. \A y : InSeq(y, hStream'.live) => InSeq(y, hStream.live)  BY <2>4
  <2> QED  BY <1>1, <2>1, <2>3, <2>4, <2>5, <2>6, <2>7, <2>8, <2>9, ReceiveStep
<1>3. CASE /\ hStream.replay = <<>> /\ hStream.live # <<>>
           /\ hBoard' = Shows(Head(hStream.live)) /\ hStream' = [hStream EXCEPT !.live = Tail(@)]
  <2> DEFINE id == Head(hStream.live)
             rest == Tail(hStream.live)
  <2>1. /\ id \in Nat /\ rest \in Seq(Nat) /\ Len(rest) = Len(hStream.live) - 1
        /\ \A y : InSeq(y, hStream.live) <=> InSeq(y, rest) \/ y = id
    BY <1>1, <1>3, TailIn
  <2>2. Rising(rest) /\ \A y : InSeq(y, rest) /\ y # Beat /\ id # Beat => id < y
    BY <1>1, <1>3, TailRising
  <2>3. hStream' = [hStream EXCEPT !.live = rest] /\ hBoard' = Shows(id)  BY <1>3
  <2> HIDE DEF id, rest
  <2>4. /\ hStream' \in Streams /\ hStream'.up /\ hStream'.member = hStream.member
        /\ hStream'.live = rest /\ hStream'.replay = <<>>
    BY <1>1, <1>3, <2>1, <2>3 DEF Streams
  <2>5. \A y : OnItsWay(y) <=> (OnItsWay(y))' \/ y = id
    BY <1>3, <2>1, <2>4, EmptyIn DEF OnItsWay
  <2>6. id # Beat => \A y : (OnItsWay(y))' /\ y # Beat => id < y
    BY <2>2, <2>4, EmptyIn DEF OnItsWay
  <2> HIDE DEF HubInv
  <2>7. \A y : InSeq(y, hStream'.live) => InSeq(y, hStream.live)  BY <2>1, <2>4
  <2>8. Len(hStream.live) \in Nat  BY <1>1, LenProperties
  <2>9. Rising(hStream'.replay) /\ Rising(hStream'.live) /\ Len(hStream'.live) <= HubBuffer
    BY <1>1, <2>1, <2>2, <2>4, <2>8, EmptyIn
  <2>10. \A y : InSeq(y, hStream'.replay) => InSeq(y, hStream.replay)  BY <1>3, <2>4
  <2> QED  BY <1>1, <2>1, <2>3, <2>4, <2>5, <2>6, <2>7, <2>9, <2>10, ReceiveStep
<1>4. CASE hStream' = Closed /\ UNCHANGED hBoard
  <2>1. UNCHANGED <<hBoard, hGhost, hStore, hPublisher, hProcess, hEvents, hQueue, hLog>>  BY <1>1, <1>4 DEF Daemon
  <2>2. IdInv' /\ StreamInv' /\ hStream' \in Streams /\ Len(hStream'.live) <= HubBuffer
    BY <1>1, <1>4, ClosedStream
  <2>3. HubTyped' /\ PhaseInv' /\ LogInv' /\ EventInv' /\ ReplyInv' /\ BoardInv'
    BY <1>4, <2>1, <2>2
    DEF HubTyped, PhaseInv, LogInv, EventInv, ReplyInv, BoardInv, Tracked, Position, Alive, Newest, Closed
  <2> QED  BY <2>2, <2>3
<1> QED  BY <1>2, <1>3, <1>4 DEF Stream

LEMMA DisconnectStep == ASSUME HubInv, Disconnect PROVE HubInv'
<1> USE DEF HubInv
<1>1. /\ hStream' = Closed /\ hGhost' = OneMore(hGhost) /\ hGhost \in Ghosts
      /\ UNCHANGED <<hBoard, hStore, hPublisher, hProcess, hEvents, hQueue, hLog>>
  BY DEF Disconnect, Daemon, HubTyped
<1>2. /\ hGhost' \in Ghosts /\ hGhost'.boots = hGhost.boots /\ hGhost'.gap = hGhost.gap
      /\ hGhost'.dropped = hGhost.dropped /\ hGhost'.late = hGhost.late
  BY <1>1, OneMoreKeeps
<1>3. IdInv' /\ StreamInv' /\ hStream' \in Streams /\ Len(hStream'.live) <= HubBuffer
  BY <1>1, ClosedStream, HubAssumption
<1>4. HubTyped' /\ PhaseInv' /\ LogInv' /\ EventInv' /\ ReplyInv' /\ BoardInv'
  BY <1>1, <1>2, <1>3
  DEF HubTyped, PhaseInv, LogInv, EventInv, ReplyInv, BoardInv, Tracked, Position, Alive, Newest, Closed
<1> QED  BY <1>3, <1>4

LEMMA StopServerStep == ASSUME HubInv, StopServer PROVE HubInv'
<1> USE DEF HubInv
<1>1. /\ hStream' = Closed /\ hGhost' = OneMore(hGhost) /\ hGhost \in Ghosts
      /\ hProcess = "up" /\ hProcess' = "closing"
      /\ UNCHANGED <<hBoard, hStore, hPublisher, hEvents, hQueue, hLog>>
  BY DEF StopServer, HubTyped
<1>2. /\ hGhost' \in Ghosts /\ hGhost'.boots = hGhost.boots /\ hGhost'.gap = hGhost.gap
      /\ hGhost'.dropped = hGhost.dropped /\ hGhost'.late = hGhost.late
  BY <1>1, OneMoreKeeps
<1>3. IdInv' /\ StreamInv' /\ hStream' \in Streams /\ Len(hStream'.live) <= HubBuffer
  BY <1>1, ClosedStream, HubAssumption
<1>4. HubTyped' /\ PhaseInv' /\ LogInv' /\ EventInv' /\ ReplyInv' /\ BoardInv'
  BY <1>1, <1>2, <1>3
  DEF HubTyped, PhaseInv, LogInv, EventInv, ReplyInv, BoardInv, Tracked, Position, Alive, Newest, Closed
<1> QED  BY <1>3, <1>4

LEMMA CloseLogStep == ASSUME HubInv, CloseLog PROVE HubInv'
<1> USE DEF HubInv
<1>1. /\ hProcess = "closing" /\ hProcess' = "closed"
      /\ UNCHANGED <<hStore, hPublisher, hEvents, hStream, hBoard, hQueue, hLog, hGhost>>
  BY DEF CloseLog
<1>2. HubTyped' /\ PhaseInv' /\ LogInv' /\ EventInv' /\ ReplyInv' /\ BoardInv'
  BY <1>1 DEF HubTyped, PhaseInv, LogInv, EventInv, ReplyInv, BoardInv, Tracked, Position, Alive, Newest
<1>3. IdInv' /\ StreamInv'  BY <1>1 DEF IdInv, StreamInv, Tracked, Position, Alive, OnItsWay, Newest
<1> QED  BY <1>2, <1>3

LEMMA ExitStep == ASSUME HubInv, Exit PROVE HubInv'
<1> USE DEF HubInv
<1>1. /\ hProcess' = "down" /\ hPublisher' = NoPublisher /\ hStream' = Closed /\ hGhost \in Ghosts
      /\ UNCHANGED <<hStore, hEvents, hBoard, hQueue, hLog>>
  BY DEF Exit, HubTyped
<1>2. \/ hQueue = <<>> /\ hGhost' = hGhost
      \/ hGhost' = [OneMore(hGhost) EXCEPT !.dropped = TRUE]
  BY DEF Exit
<1>3. /\ hGhost' \in Ghosts /\ hGhost'.boots = hGhost.boots
      /\ ~hGhost'.dropped => hQueue = <<>> /\ hGhost' = hGhost
  <2>1. CASE hQueue = <<>> /\ hGhost' = hGhost  BY <1>1, <2>1
  <2>2. CASE hGhost' = [OneMore(hGhost) EXCEPT !.dropped = TRUE]
    <3>1. OneMore(hGhost) \in Ghosts /\ OneMore(hGhost).boots = hGhost.boots  BY <1>1, OneMoreKeeps
    <3> QED  BY <2>2, <3>1 DEF Ghosts
  <2> QED  BY <1>2, <2>1, <2>2
<1>4. IdInv' /\ StreamInv' /\ hStream' \in Streams /\ Len(hStream'.live) <= HubBuffer
  BY <1>1, ClosedStream, HubAssumption
<1>5. HubTyped'  BY <1>1, <1>3, <1>4 DEF HubTyped
<1>6. PhaseInv'  BY <1>1, <1>3 DEF PhaseInv, Closed
<1>7. LogInv'  BY <1>1, <1>3 DEF LogInv, Newest
<1>8. EventInv' /\ ReplyInv' /\ BoardInv'  BY <1>1 DEF EventInv, ReplyInv, BoardInv, Tracked, Alive
<1> QED  BY <1>4, <1>5, <1>6, <1>7, <1>8

LEMMA BootStep == ASSUME HubInv, Boot PROVE HubInv'
<1> USE DEF HubInv
<1>1. /\ hProcess = "down" /\ hProcess' = "up" /\ hEvents' = <<>> /\ hQueue' = <<>> /\ hLog' = <<>>
      /\ hGhost' = [hGhost EXCEPT !.boots = @ + 1, !.dropped = FALSE, !.late = FALSE] /\ hGhost \in Ghosts
      /\ UNCHANGED <<hStore, hPublisher, hStream, hBoard>>
  BY DEF Boot, HubTyped
<1>2. hStream' = Closed  BY <1>1 DEF PhaseInv
<1>3. /\ hGhost' \in Ghosts /\ hGhost'.boots = hGhost.boots + 1
      /\ hBoard.boot \in Nat /\ hBoard.reply.boot \in Nat /\ hGhost.boots \in Nat
      /\ hBoard.boot < hGhost'.boots /\ hBoard.reply.boot < hGhost'.boots
  <2> DEFINE boots == hGhost.boots + 1
  <2>1. hGhost' \in Ghosts /\ hGhost'.boots = hGhost.boots + 1
    <3>1. boots \in Nat  BY Parts
    <3>2. hGhost' = [hGhost EXCEPT !.boots = boots, !.dropped = FALSE, !.late = FALSE]  BY <1>1
    <3> HIDE DEF boots
    <3>3. hGhost' \in Ghosts /\ hGhost'.boots = boots  BY <1>1, <3>1, <3>2 DEF Ghosts
    <3> QED  BY <3>3 DEF boots
  <2> QED  BY <2>1, Parts DEF PhaseInv
<1>4. IdInv' /\ StreamInv' /\ hStream' \in Streams /\ Len(hStream'.live) <= HubBuffer
  BY <1>2, ClosedStream, HubAssumption
<1>5. Newest' = 0 /\ Len(hEvents') = 0  BY <1>1, EmptyIn DEF Newest
<1>6. HubTyped'
  <2>1. hEvents' \in Seq(Events) /\ Len(hQueue') <= HubQueue  BY <1>1, EmptySeq, EmptyIn, HubAssumption
  <2> QED  BY <1>1, <1>3, <1>4, <2>1, EmptyIn DEF HubTyped
<1>7. PhaseInv'  BY <1>1, <1>2, <1>3 DEF PhaseInv, Closed, Alive
<1>8. LogInv'  BY <1>1, <1>5, EmptyIn DEF LogInv, Ids, Alive
<1>9. EventInv'  BY <1>5 DEF EventInv, LastTells
<1>10. ReplyInv' /\ BoardInv'  BY <1>1, <1>3 DEF ReplyInv, BoardInv, Tracked
<1> QED  BY <1>4, <1>6, <1>7, <1>8, <1>9, <1>10

-----------------------------------------------------------------------------
(* The theorems.                                                           *)

LEMMA HubInvHolds == HubSpec => []HubInv
<1>1. HubInv /\ [HubNext]_hVars => HubInv'
  <2> SUFFICES ASSUME HubInv, [HubNext]_hVars PROVE HubInv'  OBVIOUS
  <2>1. CASE UNCHANGED hVars  BY <2>1, StutterStep
  <2>2. ASSUME NEW b \in HubBooks, NEW who \in {"worker", "handler"}, WriteBook(b, who) PROVE HubInv'
    BY <2>2, WriteStep
  <2>3. CASE Publish  BY <2>3, PublishStep
  <2>4. CASE Heartbeat  BY <2>4, HeartbeatStep
  <2>5. CASE Drain  BY <2>5, DrainStep
  <2>6. CASE Reload  BY <2>6, ReloadStep
  <2>7. CASE ListBooks  BY <2>7, ListStep
  <2>8. CASE Loaded  BY <2>8, LoadedStep
  <2>9. CASE Subscribe  BY <2>9, SubscribeStep
  <2>10. CASE Stream  BY <2>10, StreamStep
  <2>11. CASE Disconnect  BY <2>11, DisconnectStep
  <2>12. CASE StopServer  BY <2>12, StopServerStep
  <2>13. CASE CloseLog  BY <2>13, CloseLogStep
  <2>14. CASE Exit  BY <2>14, ExitStep
  <2>15. CASE Boot  BY <2>15, BootStep
  <2> QED  BY <2>1, <2>2, <2>3, <2>4, <2>5, <2>6, <2>7, <2>8, <2>9, <2>10, <2>11, <2>12, <2>13, <2>14, <2>15
           DEF HubNext
<1> QED  BY <1>1, InitStep, PTL DEF HubSpec

(* A board that is in step shows the store, and the log is ordered and     *)
(* complete.                                                               *)
LEMMA InvReaches == HubInv => EventsReachBoard
<1> SUFFICES ASSUME HubInv PROVE BoardFollows /\ LogComplete
  BY DEF EventsReachBoard
<1> USE DEF HubInv
<1>1. ASSUME InStep PROVE hBoard.shown = hStore
  <2>1. /\ hBoard.boot = hGhost.boots /\ ~hGhost.gap /\ hStream.up /\ hStream.member
        /\ hStream.replay = <<>> /\ hStream.live = <<>> /\ hPublisher = NoPublisher
    BY <1>1 DEF InStep
  <2>2. Tracked  BY <2>1 DEF Tracked, Alive, PhaseInv
  <2>3. hBoard.shown \in Books /\ hStore \in Books /\ Newest \in Nat /\ Position \in Nat
    BY <2>1, Parts DEF PhaseInv
  <2>4. \A j \in (Position + 1)..Newest : FALSE
    BY <2>1, <2>2, EmptyIn DEF StreamInv, OnItsWay
  <2>5. \A b \in HubBooks : ~Owed(b, hPublisher)  BY <2>1 DEF Owed, NoPublisher
  <2>6. \A b \in HubBooks : hBoard.shown[b] = hStore[b]
    BY <2>2, <2>4, <2>5 DEF BoardInv, Covers, Newest
  <2> QED  BY <2>3, <2>6 DEF Books
<1>2. LogComplete
  <2>1. hLog \in Seq(Nat) /\ Len(hLog) \in Nat  BY LenProperties DEF HubTyped
  <2>2. ASSUME NEW i \in 1..(Len(hLog) - 1) PROVE hLog[i] < hLog[i + 1]
    <3>1. i \in 1..Len(hLog) /\ i + 1 \in 1..Len(hLog) /\ i < i + 1  BY <2>1
    <3>2. hLog[i] # Beat /\ hLog[i + 1] # Beat  BY <3>1 DEF LogInv, Ids, InSeq, Beat
    <3> QED  BY <3>1, <3>2 DEF LogInv, Rising
  <2>3. ASSUME hProcess = "down", ~hGhost.dropped, ~hGhost.late PROVE Len(hLog) = Newest
    <3>1. hQueue = <<>> /\ Len(hLog) + Len(hQueue) = Newest  BY <2>3 DEF LogInv, Alive
    <3> QED  BY <2>1, <3>1, EmptyIn
  <2> QED  BY <2>2, <2>3 DEF LogComplete
<1> QED  BY <1>1, <1>2 DEF BoardFollows

(* What an open board shows, once it has loaded from this process and read *)
(* its stream to the end, is what the store holds: no write slips between  *)
(* the cursor of the list and its rows, between the replay and the live    *)
(* events, or through a subscriber that is put out for being slow; and the *)
(* durable log loses nothing and reorders nothing (events.go, server.go,   *)
(* handlers.go), whatever the sizes of the ring and the buffers.           *)
THEOREM BoardKeepsUp == HubSpec => []EventsReachBoard
BY HubInvHolds, InvReaches, PTL

(* A subscriber's buffer and the log's queue stay within their sizes, and  *)
(* no stream outlives the server that cut it.                              *)
THEOREM HubTypeHolds == HubSpec => []HubTypeOK
<1>1. HubInv => HubTypeOK
  <2> SUFFICES ASSUME HubInv PROVE HubTypeOK  OBVIOUS
  <2>1. \A b \in HubBooks : hStore[b] \in 0..HubEvents  BY DEF HubInv, HubTyped
  <2> QED  BY <2>1 DEF HubInv, HubTyped, PhaseInv, HubTypeOK
<1> QED  BY <1>1, HubInvHolds, PTL
=============================================================================
