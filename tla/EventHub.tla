------------------------------- MODULE EventHub -------------------------------
(***************************************************************************)
(* The event stream between the daemon and an open board: the hub          *)
(* (internal/events/events.go) with its ids, its ring and its subscribers, *)
(* the durable log behind it (internal/server/server.go) and the stream    *)
(* and list handlers (internal/api).  The board itself lies in web/src: it *)
(* loads the books with a cursor, then applies the events after it.        *)
(*                                                                         *)
(* Whoever changes a book writes the store first and publishes afterwards. *)
(* One does so at a time; an event carries all the board shows of a book.  *)
(***************************************************************************)
EXTENDS Integers, Sequences

CONSTANTS
    HubBooks,
    HubRing,     \* ringSize
    HubBuffer,   \* subChanBuffer
    HubQueue,    \* eventQueueSize
    HubEvents,   \* bound: changes of books
    HubTrouble   \* bound: reloads, dropped connections, restarts, heartbeats

ASSUME HubAssumption ==
    /\ {HubRing, HubBuffer, HubQueue} \subseteq Nat \ {0}
    /\ {HubEvents, HubTrouble} \subseteq Nat

VARIABLES
    hStore,      \* the books in the store: how often each has changed
    hPublisher,  \* who has written a book and not published it yet
    hProcess,    \* the daemon
    hEvents,     \* the events of this process; an event's id is its place
    hStream,     \* the board's connection as the daemon sees it
    hBoard,      \* the board
    hQueue,      \* ids the durable log has still to write
    hLog,        \* ids of this process it has written
    hGhost      \* what was lost for good, and the troubles so far

hVars == <<hStore, hPublisher, hProcess, hEvents, hStream, hBoard, hQueue, hLog, hGhost>>

Beat   == 0
Closed == [up |-> FALSE, member |-> FALSE, replay |-> <<>>, live |-> <<>>]
NoReply == [books |-> <<>>, cursor |-> 0, boot |-> 0]
NoPublisher == [who |-> "nobody", book |-> 0]
Newest == Len(hEvents)

Troubled == hGhost.troubles < HubTrouble
OneMore(g) == [g EXCEPT !.troubles = @ + 1]

Daemon == <<hStore, hPublisher, hProcess, hEvents, hQueue, hLog>>

-----------------------------------------------------------------------------
(* The hub.                                                                *)

(* Mutant: a subscriber that is full is served all the same.               *)
FanoutToAll(id) ==
    IF hStream.member THEN [hStream EXCEPT !.live = Append(@, id)] ELSE hStream

(* A subscriber that is full is put out: its channel closes and keeps what *)
(* it holds.                                                               *)
Fanout(id) ==
    IF ~hStream.member THEN hStream
    ELSE IF Len(hStream.live) < HubBuffer THEN [hStream EXCEPT !.live = Append(@, id)]
    ELSE [hStream EXCEPT !.member = FALSE]

WriteBook(b, who) ==
    /\ hPublisher = NoPublisher /\ hStore[b] < HubEvents
    /\ hProcess = "up" \/ (hProcess = "closing" /\ who = "worker")
    /\ hStore' = [hStore EXCEPT ![b] = @ + 1]
    /\ hPublisher' = [who |-> who, book |-> b]
    /\ UNCHANGED <<hProcess, hEvents, hStream, hBoard, hQueue, hLog, hGhost>>

(* PublishBook, under the hub's lock: the id, the ring, the subscribers    *)
(* and the log's queue, where a full queue drops.  The send on a queue     *)
(* that is closed panics, after the subscribers were served.               *)
Publish ==
    /\ hPublisher # NoPublisher /\ hProcess # "down"
    /\ hEvents' = Append(hEvents, [book |-> hPublisher.book, change |-> hStore[hPublisher.book]])
    /\ hStream' = Fanout(Newest + 1)
    /\ IF hProcess = "closed"
       THEN hGhost' = [hGhost EXCEPT !.late = TRUE] /\ UNCHANGED hQueue
       ELSE IF Len(hQueue) < HubQueue
       THEN hQueue' = Append(hQueue, Newest + 1) /\ UNCHANGED hGhost
       ELSE hGhost' = [hGhost EXCEPT !.dropped = TRUE] /\ UNCHANGED hQueue
    /\ hPublisher' = NoPublisher
    /\ UNCHANGED <<hStore, hProcess, hBoard, hLog>>

Heartbeat ==
    /\ hProcess = "up" /\ hStream.member /\ Troubled
    /\ hStream' = Fanout(Beat) /\ hGhost' = OneMore(hGhost)
    /\ UNCHANGED hBoard /\ UNCHANGED Daemon

Drain ==
    /\ hQueue # <<>> /\ hProcess # "down"
    /\ hLog' = Append(hLog, Head(hQueue)) /\ hQueue' = Tail(hQueue)
    /\ UNCHANGED <<hStore, hPublisher, hProcess, hEvents, hStream, hBoard, hGhost>>

-----------------------------------------------------------------------------
(* The board and its two handlers.                                         *)

(* Any load closes the stream first.                                       *)
Reload ==
    /\ hBoard.load = "none"
    /\ hBoard.shown # <<>> => Troubled
    /\ hGhost' = IF hBoard.shown # <<>> THEN OneMore(hGhost) ELSE hGhost
    /\ hBoard' = [hBoard EXCEPT !.load = "asked", !.wanted = FALSE]
    /\ hStream' = Closed
    /\ UNCHANGED Daemon

(* Mutant: the books are read first.                                       *)
ListBooksThenCursor ==
    \/ /\ hBoard.load = "asked" /\ hProcess = "up"
       /\ hBoard' = [hBoard EXCEPT !.load = "cursor", !.reply = [NoReply EXCEPT !.books = hStore, !.boot = hGhost.boots]]
       /\ UNCHANGED <<hStream, hGhost>> /\ UNCHANGED Daemon
    \/ /\ hBoard.load = "cursor" /\ hProcess = "up" /\ hBoard.reply.boot = hGhost.boots
       /\ hBoard' = [hBoard EXCEPT !.load = "read", !.reply.cursor = Newest]
       /\ UNCHANGED <<hStream, hGhost>> /\ UNCHANGED Daemon

(* handleListBooks takes the cursor before its first query.                *)
ListBooks ==
    \/ /\ hBoard.load = "asked" /\ hProcess = "up"
       /\ hBoard' = [hBoard EXCEPT !.load = "cursor", !.reply = [NoReply EXCEPT !.cursor = Newest, !.boot = hGhost.boots]]
       /\ UNCHANGED <<hStream, hGhost>> /\ UNCHANGED Daemon
    \/ /\ hBoard.load = "cursor" /\ hProcess = "up" /\ hBoard.reply.boot = hGhost.boots
       /\ hBoard' = [hBoard EXCEPT !.load = "read", !.reply.books = hStore]
       /\ UNCHANGED <<hStream, hGhost>> /\ UNCHANGED Daemon

(* The answer arrives, or the load fails and the stream is opened again    *)
(* from the last baseline there was.                                       *)
Loaded ==
    /\ hBoard.load # "none"
    /\ \/ /\ hBoard.load = "read"
          /\ hBoard' = [hBoard EXCEPT !.load = "none", !.wanted = TRUE, !.shown = hBoard.reply.books,
                                      !.cursor = hBoard.reply.cursor, !.last = 0, !.boot = hBoard.reply.boot,
                                      !.reply = NoReply]
          /\ hGhost' = [hGhost EXCEPT !.gap = FALSE]
       \/ /\ Troubled
          /\ hBoard' = [hBoard EXCEPT !.load = "none", !.wanted = (hBoard.shown # <<>>), !.last = 0,
                                      !.reply = NoReply]
          /\ hGhost' = OneMore(hGhost)
    /\ UNCHANGED hStream /\ UNCHANGED Daemon

ReplayFrom(last) ==
    LET before == IF last > Newest - HubRing THEN last ELSE Newest - HubRing
    IN  [k \in 1..(Newest - before) |-> before + k]

(* A browser's stream names the last event it has received, or else the    *)
(* cursor it was opened with.  Replay and membership are one step.         *)
Subscribe ==
    LET from == IF hBoard.last # 0 THEN hBoard.last ELSE hBoard.cursor
    IN  /\ hProcess = "up" /\ hBoard.wanted /\ ~hStream.up
        /\ hStream' = [up |-> TRUE, member |-> TRUE, replay |-> ReplayFrom(from), live |-> <<>>]
        /\ hGhost' = [hGhost EXCEPT !.gap = @ \/ from < Newest - HubRing]
        /\ UNCHANGED hBoard /\ UNCHANGED Daemon

Shows(id) ==
    IF id = Beat THEN hBoard
    ELSE [hBoard EXCEPT !.last = id, !.shown[hEvents[id].book] = hEvents[id].change]

(* handleEvents: the replay, then the channel, until it is closed.         *)
Stream ==
    /\ hStream.up
    /\ \/ /\ hStream.replay # <<>>
          /\ hBoard' = Shows(Head(hStream.replay)) /\ hStream' = [hStream EXCEPT !.replay = Tail(@)]
       \/ /\ hStream.replay = <<>> /\ hStream.live # <<>>
          /\ hBoard' = Shows(Head(hStream.live)) /\ hStream' = [hStream EXCEPT !.live = Tail(@)]
       \/ /\ hStream.replay = <<>> /\ hStream.live = <<>> /\ ~hStream.member
          /\ hStream' = Closed /\ UNCHANGED hBoard
    /\ UNCHANGED hGhost /\ UNCHANGED Daemon

Disconnect ==
    /\ hStream.up /\ Troubled
    /\ hStream' = Closed /\ hGhost' = OneMore(hGhost)
    /\ UNCHANGED hBoard /\ UNCHANGED Daemon

-----------------------------------------------------------------------------
(* The end of the process.  A stop cuts the streams, waits for the workers *)
(* and then closes the log; a handler that is still busy after the server's*)
(* grace period is not waited for.                                         *)

StopServer ==
    /\ hProcess = "up" /\ Troubled
    /\ hProcess' = "closing" /\ hStream' = Closed /\ hGhost' = OneMore(hGhost)
    /\ UNCHANGED <<hStore, hPublisher, hEvents, hBoard, hQueue, hLog>>

CloseLog ==
    /\ hProcess = "closing" /\ hPublisher.who # "worker"
    /\ hProcess' = "closed"
    /\ UNCHANGED <<hStore, hPublisher, hEvents, hStream, hBoard, hQueue, hLog, hGhost>>

Exit ==
    /\ \/ hProcess = "closed" /\ hQueue = <<>> /\ UNCHANGED hGhost
       \/ hProcess = "up" /\ Troubled /\ hGhost' = [OneMore(hGhost) EXCEPT !.dropped = TRUE]
    /\ hProcess' = "down" /\ hPublisher' = NoPublisher /\ hStream' = Closed
    /\ UNCHANGED <<hStore, hEvents, hBoard, hQueue, hLog>>

(* A new process starts with an empty hub and counts from one again; the   *)
(* board's stream knows nothing of it.                                     *)
Boot ==
    /\ hProcess = "down"
    /\ hProcess' = "up" /\ hEvents' = <<>> /\ hQueue' = <<>> /\ hLog' = <<>>
    /\ hGhost' = [hGhost EXCEPT !.boots = @ + 1, !.dropped = FALSE, !.late = FALSE]
    /\ UNCHANGED <<hStore, hPublisher, hStream, hBoard>>

HubInit ==
    /\ hStore = [b \in HubBooks |-> 0] /\ hPublisher = NoPublisher /\ hProcess = "up"
    /\ hEvents = <<>> /\ hStream = Closed /\ hQueue = <<>> /\ hLog = <<>>
    /\ hBoard = [load |-> "none", wanted |-> FALSE, shown |-> <<>>, cursor |-> 0, last |-> 0,
                 boot |-> 0, reply |-> NoReply]
    /\ hGhost = [boots |-> 1, gap |-> FALSE, dropped |-> FALSE, late |-> FALSE, troubles |-> 0]

HubNext ==
    \/ \E b \in HubBooks, who \in {"worker", "handler"} : WriteBook(b, who)
    \/ Publish \/ Heartbeat \/ Drain
    \/ Reload \/ ListBooks \/ Loaded \/ Subscribe \/ Stream \/ Disconnect
    \/ StopServer \/ CloseLog \/ Exit \/ Boot

HubSpec == HubInit /\ [][HubNext]_hVars

-----------------------------------------------------------------------------
(* What the stream promises.                                               *)

HubTypeOK ==
    /\ \A b \in HubBooks : hStore[b] \in 0..HubEvents
    /\ Len(hStream.live) <= HubBuffer /\ Len(hQueue) <= HubQueue
    /\ hProcess # "up" => ~hStream.up

(* A board that has loaded from this process and read its stream to the    *)
(* end shows what the store holds, whatever changed while the list was     *)
(* read, whenever the connection was lost or the board put out as too      *)
(* slow; unless it came back after more events than the ring holds.        *)
InStep ==
    /\ hBoard.boot = hGhost.boots /\ ~hGhost.gap
    /\ hStream.up /\ hStream.member /\ hStream.replay = <<>> /\ hStream.live = <<>>
    /\ hPublisher = NoPublisher
BoardFollows == InStep => hBoard.shown = hStore

(* The durable log holds the events in the order of their ids, and after   *)
(* an orderly stop all that were published before the log was closed,      *)
(* unless its queue overflowed.                                            *)
LogComplete ==
    /\ \A i \in 1..(Len(hLog) - 1) : hLog[i] < hLog[i + 1]
    /\ hProcess = "down" /\ ~hGhost.dropped /\ ~hGhost.late => Len(hLog) = Newest

EventsReachBoard == BoardFollows /\ LogComplete
=============================================================================
