------------------------ MODULE SchedulerProperties ------------------------
(***************************************************************************)
(* What the scheduler promises: its type invariant, the safety invariants, *)
(* what a step may never do, and what must eventually happen.              *)
(***************************************************************************)
EXTENDS Scheduler

BookRow == [row : {"new", "live", "deleted"}, state : State, status : Status,
            park : ParkCode, retry : Retry,
            ok : [Stage -> RunCount], open : [Stage -> 0..2]]

WorkDir == [done : [Stage -> Mark \cup {"absent"}], art : SUBSET Artifact]

WorkerPc == {"off", "begin", "exec", "ran", "failing", "advance", "commit", "purge"}
WorkerOut == Mark \cup ParkCode \cup {"failed"}
WorkerRec == [pc : WorkerPc, stage : State, next : State, out : WorkerOut, cancelled : BOOLEAN]

DispPc == {"close", "list", "rewind", "place", "recheck", "reclear", "idle", "due", "clear",
           "waypoints", "fill", "stopping", "dead"}
DispRec == [pc : DispPc, todo : SUBSET Book, book : Book \cup {NoBook}, stage : Stage \cup {NoState},
            seen : [Book -> Views], free : [Slot -> Int]]

PurgePc  == {"dirs", "sentinels", "reconcile", "release"}
ClientPc == {"idle", "write", "drop", "clear", "signal", "remove", "wipe", "reserve", "dirs",
             "sentinels", "reconcile", "place", "release", "decide", "orphan"}
ClientRec == [pc : ClientPc, op : OpName, book : Book \cup {NoBook}, seen : Views,
              stage : Stage \cup {NoState}]

GhostRec == [held : BOOLEAN, late : 0..2, passes : 0..(MaxFixAttempts + 1)]

DbOK == /\ db \in [Book -> BookRow]
        /\ \A b \in Book : db[b].park # NoCode \/ db[b].retry # "none"
                              => db[b].status = "needs_attention"

DiskOK == disk \in [Book -> WorkDir]

WorkerOK == /\ worker \in [Book -> WorkerRec]
            /\ \A b \in Book :
                  /\ Running(b) => worker[b].stage \in Stage
                  /\ worker[b].pc = "failing" => worker[b].out \in ParkCode \cup {"failed"}
                  /\ worker[b].pc \in {"ran", "advance"} => worker[b].out \in Mark

DispOK == /\ disp \in DispRec
          /\ disp.pc \in {"clear", "place", "reclear"} => disp.book \in Book
          /\ disp.pc = "place" => disp.stage \in Stage
          /\ disp.pc = "waypoints" => \A b \in disp.todo : IsWaypoint(disp.seen[b].state)
          /\ disp.pc = "fill" => \A b \in disp.todo : disp.seen[b].state \in Stage

ClientOK == /\ client \in [Client -> ClientRec]
            /\ \A c \in Client :
                  /\ client[c].pc # "idle" => client[c].book \in Book
                  /\ client[c].pc = "place" \/ client[c].op = "rerun" => client[c].stage \in Stage
                  /\ client[c].pc \in {"reserve"} \cup PurgePc => client[c].op = "purge"
                  /\ client[c].pc = "place" => client[c].op \in {"purge", "rerun"}

(* The types of the variables and what each program counter implies: a     *)
(* park code or a retry instant only ever stands beside needs_attention    *)
(* (enforceParkCode, enforceRetryAt), a worker runs a stage and never a    *)
(* waypoint (CanStart), a control call keeps the book it was made for.     *)
TypeOK ==
    /\ DbOK /\ DiskOK /\ WorkerOK /\ DispOK /\ ClientOK
    /\ reserved \in SUBSET Book
    /\ gc \in SUBSET Book
    /\ ghost \in [Book -> GhostRec]
    /\ budget \in [ops : Nat, faults : Nat, crashes : Nat, starts : Nat]

-----------------------------------------------------------------------------
(* Capacity: no lane ever runs more workers than it has slots, although    *)
(* each pass fills it from counts taken earlier (dispatch, fillLane).      *)
LaneCapacity == \A lane \in Slot \ {"source"} : Cardinality(Holders(lane)) <= SlotCap(lane)

(* Two workers never read the library mount at the same time: the          *)
(* mechanical lane's narrower source slot (fillMechanicalLane).            *)
OneSourceReader == Cardinality(Holders("source")) <= SlotCap("source")

(* The in-flight table implements the pool of slots: a stage is started    *)
(* only with room in every slot it needs, on a book that runs none, and    *)
(* runs to its end as the stage it was started as (dispatch, startWorker). *)
Pool == INSTANCE LanePool WITH
            running <- [b \in Book |-> IF Running(b) THEN worker[b].stage ELSE NoState]
ImplementsPool == Pool!Spec

(* The in-flight slot excludes: a worker, a purge and a timed readmission  *)
(* never hold one book together (startWorker, reserve, Delete's check).    *)
Purging(c, b) == /\ client[c].op = "purge" /\ client[c].book = b
                 /\ client[c].pc \in PurgePc \cup {"place"}
SlotExclusion ==
    \A b \in Book :
        /\ Running(b) => b \notin reserved
        /\ \A c \in Client : Purging(c, b) => b \in reserved
        /\ \A c, d \in Client : Purging(c, b) /\ Purging(d, b) => c = d
        /\ disp.pc = "clear" /\ disp.book = b =>
               b \in reserved /\ \A c \in Client : ~Purging(c, b)

(* A row is deleted only while no worker holds the book, so a worker of a  *)
(* deleted book has been started from a stale list and never executes.     *)
NoWorkOnDeleted == \A b \in Book : worker[b].pc \in {"exec", "ran"} => Live(b)

(* Two books of a series are never in carryover-sensitive work together,   *)
(* and the one that is has no unfinished predecessor (lockHolders).        *)
Authoring(b) == worker[b].pc \in {"exec", "ran"} /\ RequiresSeriesOrder(worker[b].stage)
SeriesOrder ==
    \A b, c \in Book : Authoring(b) /\ SameSeries(b, c) /\ Before(c, b) /\ Live(c)
                          => ~HoldsSeriesLock(db[c].state)

AuthoringExclusive ==
    \A b, c \in Book : Authoring(b) /\ Authoring(c) /\ SameSeries(b, c) => b = c

(* No stage runs without the layers it reads: a reservation keeps dispatch *)
(* off a book whose chapters are being removed (PurgeScratch).             *)
InputsReady == \A b \in Book : worker[b].pc = "exec" => InputsPresent(b, worker[b].stage)

(* A book at rest stands at a stage that can run: a purge rewinds it to    *)
(* the one that regenerates what was removed (purgeScratchInner,           *)
(* reconcileBook), so a retry is never fed an empty directory.             *)
AtRest(b) == ~InFlight(b) /\ disp.pc = "idle" /\ \A c \in Client : client[c].book # b
PositionRunnable ==
    \A b \in Book : AtRest(b) /\ Live(b) => InputsPresent(b, db[b].state)

(* The audit and fix loop runs at most MaxFixAttempts fix passes before a  *)
(* human is asked (NextState, advance).                                    *)
FixCap == \A b \in Book : ghost[b].passes <= MaxFixAttempts

(* After a pause or a cancel at most one more stage is started, from a list *)
(* read before the call; then nothing until the book is re-admitted         *)
(* (Pause, Cancel).                                                         *)
HoldRespected == \A b \in Book : ghost[b].late <= 1

(* A stage is not started while the book stands failed or parked: it waits *)
(* for a re-admission (autoReadmitCodes, CanStart).                        *)
ParkedStaysPut ==
    [][\A b \in Book : ~Running(b) /\ Running(b)' => db[b].status \notin {"failed", "needs_attention"}]_vars

(* At most one run of a stage is open: usage is added to every open row    *)
(* (AddOpenStageRunUsage).                                                 *)
OneOpenRun == \A b \in Book, s \in Stage : db[b].open[s] <= 1

(* No stage executes before every mainline stage ahead of it has been      *)
(* completed: in the database or by its sentinel (advance, reconcileBook). *)
PrefixDone ==
    \A b \in Book : worker[b].pc = "exec" =>
        \A s \in Mainline(KindOf[b]) :
            Order(s) < Order(worker[b].stage) => db[b].ok[s] > 0 \/ HasSentinel(b, s)

(* A stage that executes has all that comes before it, the stages and the  *)
(* layers they left (advance, reconcileBook, PurgeScratch).                *)
RunsPrepared == PrefixDone /\ InputsReady

-----------------------------------------------------------------------------
(* A book that needs the operator, or waits for one that does.             *)
NeedsOperator(b) == db[b].status # "none" /\ db[b].park # "agent_rate_limited"
Settled(b) ==
    \/ ~Live(b) \/ db[b].state = "done" \/ NeedsOperator(b)
    \/ /\ RequiresSeriesOrder(db[b].state)
       /\ \E c \in Book : SameSeries(b, c) /\ Before(c, b) /\ Live(c) /\ NeedsOperator(c)

(* Every book is finished or waits for a human: the loops converge, the    *)
(* lanes are handed on, transient parks heal (dispatch, autoReadmitDue).   *)
AllSettle == <>[](\A b \in Book : Settled(b))

(* Every start of the daemon reaches the dispatch loop: the reconcile ends *)
(* whatever the API does meanwhile (Start, Reconcile).                     *)
StartReachesLoop == (disp.pc = "close") ~> (disp.pc = "idle")

(* A transient park is lifted by the loop itself (autoReadmitDue).         *)
TransientParkHeals ==
    \A b \in Book : (db[b].status = "needs_attention" /\ db[b].park = "agent_rate_limited")
                        ~> (db[b].status # "needs_attention" \/ db[b].park # "agent_rate_limited")

(* An ebook that stays finished keeps none of its source prose             *)
(* (purgeWanted, startupGC), whatever crash falls between the two.         *)
FinishedEbook(b) == KindOf[b] = "ebook" /\ Live(b) /\ db[b].state = "done"
ProseReclaimed ==
    \A b \in Book : FinishedEbook(b)
                        ~> (~FinishedEbook(b) \/ disk[b].art \cap {"extract", "text"} = {})
=============================================================================
