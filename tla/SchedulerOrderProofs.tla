------------------------ MODULE SchedulerOrderProofs ------------------------
(***************************************************************************)
(* Proofs about the order things happen in to a book: that the runs of a   *)
(* stage do not overlap, that the books of a series are authored in turn   *)
(* and by one worker, and that the fix loop ends.  Each holds for the      *)
(* control calls and faults its hypothesis names.                          *)
(***************************************************************************)
EXTENDS SchedulerProofs

-----------------------------------------------------------------------------
(* What a step leaves alone.  Each step but a few moves one book at most,  *)
(* and the calls that only write a status move none.                       *)

SameRow(b)   == /\ db'[b].row = db[b].row /\ db'[b].state = db[b].state
                /\ db'[b].ok = db[b].ok /\ db'[b].open = db[b].open
SameMarks(b) == disk'[b].done = disk[b].done
SameWork(b)  == /\ worker'[b].pc = worker[b].pc /\ worker'[b].stage = worker[b].stage
                /\ worker'[b].out = worker[b].out /\ worker'[b].next = worker[b].next
Untouched(b) == SameRow(b) /\ SameMarks(b) /\ SameWork(b)

LEMMA StatusKeepsRow ==
    ASSUME TypeOK, NEW b \in Book, NEW x, NEW status, NEW code, NEW retry,
           SetBookStatus(x, status, code, retry)
    PROVE  SameRow(b)
<1>0. db \in [Book -> BookRow]
  BY DEF TypeOK, DbOK
<1>1. CASE Live(x) /\ x = b
  <2> DEFINE row == WithStatus(db[b], status, code, retry)
  <2>1. db'[b] = row
    BY <1>0, <1>1 DEF SetBookStatus
  <2>2. row.row = db[b].row /\ row.state = db[b].state /\ row.ok = db[b].ok /\ row.open = db[b].open
    BY <1>0 DEF WithStatus, BookRow
  <2> QED  BY <2>1, <2>2 DEF SameRow
<1>2. CASE ~(Live(x) /\ x = b)
  <2>1. db'[b] = db[b]
    BY <1>0, <1>2 DEF SetBookStatus
  <2> QED  BY <2>1 DEF SameRow
<1> QED  BY <1>1, <1>2

LEMMA StateWritten ==
    ASSUME TypeOK, NEW b \in Book, NEW x, NEW s, NEW status, NEW code,
           SetBookState(x, s, status, code)
    PROVE  /\ x # b \/ ~Live(b) => SameRow(b)
           /\ db'[b].row = db[b].row /\ db'[b].ok = db[b].ok /\ db'[b].open = db[b].open
           /\ x = b /\ Live(b) => db'[b].state = s
<1>0. db \in [Book -> BookRow]
  BY DEF TypeOK, DbOK
<1>1. CASE Live(x) /\ x = b
  <2> DEFINE row == WithStatus(db[b], status, code, db[b].retry)
  <2>1. db'[b] = [row EXCEPT !.state = s]
    BY <1>0, <1>1 DEF SetBookState
  <2>2. [row EXCEPT !.state = s].row = db[b].row /\ [row EXCEPT !.state = s].ok = db[b].ok
        /\ [row EXCEPT !.state = s].open = db[b].open /\ [row EXCEPT !.state = s].state = s
    BY <1>0 DEF WithStatus, BookRow
  <2> QED  BY <1>1, <2>1, <2>2
<1>2. CASE ~(Live(x) /\ x = b)
  <2>1. db'[b] = db[b]
    BY <1>0, <1>2 DEF SetBookState
  <2> QED  BY <1>2, <2>1 DEF SameRow
<1> QED  BY <1>1, <1>2

LEMMA OthersKeepRow ==
    ASSUME TypeOK, NEW b \in Book, NEW x, x # b, NEW row, db' = [db EXCEPT ![x] = row]
    PROVE  db'[b] = db[b]
  BY DEF TypeOK, DbOK

(* A worker touches its own book only, and of the rest of the state the    *)
(* budget.                                                                 *)
LEMMA WorkIsLocal ==
    ASSUME TypeOK, NEW x \in Book, Work(x)
    PROVE  /\ \A b \in Book \ {x} : /\ db'[b] = db[b] /\ disk'[b] = disk[b]
                                    /\ worker'[b] = worker[b] /\ ghost'[b] = ghost[b]
           /\ UNCHANGED <<reserved, disp, gc, client>>
<1>0. /\ db \in [Book -> BookRow] /\ disk \in [Book -> WorkDir] /\ worker \in [Book -> WorkerRec]
      /\ ghost \in [Book -> GhostRec]
  BY DEF TypeOK, DbOK, DiskOK, WorkerOK
<1> USE DEF WorkerOnly
<1>1. CASE SkipStage(x)
  BY <1>0, <1>1 DEF SkipStage
<1>2. CASE OpenRun(x)
  BY <1>0, <1>2 DEF OpenRun, GoTo, Exit
<1>3. CASE ExecSucceeds(x)
  BY <1>0, <1>3 DEF ExecSucceeds
<1>4. CASE ExecCanceled(x)
  BY <1>0, <1>4 DEF ExecCanceled, Exit
<1>5. CASE ExecFaults(x) \/ ExecGivesUp(x)
  <2>1. PICK out : ExecEnds(x, out)
    BY <1>5 DEF ExecFaults, ExecGivesUp
  <2> QED  BY <1>0, <2>1 DEF ExecEnds
<1>6. CASE RecordRun(x)
  BY <1>0, <1>6 DEF RecordRun, GoTo, Exit
<1>7. CASE SetFailedOrParked(x)
  BY <1>0, <1>7 DEF SetFailedOrParked, SetBookStatus, Exit
<1>8. CASE Advance(x)
  BY <1>0, <1>8 DEF Advance, Exit
<1>9. CASE Commit(x)
  BY <1>0, <1>9 DEF Commit, GoTo, Exit
<1>10. CASE AutoPurgeDone(x)
  BY <1>0, <1>10 DEF AutoPurgeDone, ReclaimDone, Exit
<1> QED  BY <1>1, <1>2, <1>3, <1>4, <1>5, <1>6, <1>7, <1>8, <1>9, <1>10 DEF Work

(* The control calls that change a position, a sentinel or a run of b.     *)
Touching(c, b) ==
    /\ client[c].book = b
    /\ \/ DropSentinel(c) \/ DeleteRow(c) \/ WipeDir(c) \/ PurgeSentinels(c) \/ PurgeReconcile(c)
       \/ PurgePlace(c) \/ CloseOrphan(c) \/ DropForRerun(c) \/ RerunPlace(c)

LEMMA HandleTouches ==
    ASSUME TypeOK, NEW c \in Client, Handle(c), NEW b \in Book
    PROVE  /\ Untouched(b) \/ Touching(c, b)
           /\ SameWork(b) /\ UNCHANGED <<disp, gc>>
<1>0. /\ db \in [Book -> BookRow] /\ disk \in [Book -> WorkDir] /\ worker \in [Book -> WorkerRec]
      /\ client \in [Client -> ClientRec]
  BY DEF TypeOK, DbOK, DiskOK, WorkerOK, ClientOK
<1> USE DEF ClientOnly
<1>1. UNCHANGED <<disp, gc>>
  BY DEF Handle, WriteStatus, Signal, DropSentinel, ClearStatus, DeleteRow, WipeDir, ReserveForPurge, PurgeDirs,
         PurgeSentinels, PurgeReconcile, PurgePlace, Unreserve, Terminate, CloseOrphan, DropForRerun, RerunPlace
<1>2. SameWork(b)
  <2>1. CASE Signal(c)
    <3>1. \/ UNCHANGED worker
          \/ worker' = [worker EXCEPT ![client[c].book] = [worker[client[c].book] EXCEPT !.cancelled = TRUE]]
      BY <1>0, <2>1 DEF Signal, CancelInflight
    <3> QED  BY <1>0, <3>1 DEF SameWork, WorkerRec
  <2>2. CASE ~Signal(c)
    <3>1. UNCHANGED worker
      BY <2>2 DEF Handle, WriteStatus, DropSentinel, ClearStatus, DeleteRow, WipeDir, ReserveForPurge, PurgeDirs,
          PurgeSentinels, PurgeReconcile, PurgePlace, Unreserve, Terminate, CloseOrphan, DropForRerun, RerunPlace
    <3> QED  BY <3>1 DEF SameWork
  <2> QED  BY <2>1, <2>2
<1>3. CASE WriteStatus(c) \/ ClearStatus(c)
  <2>1. UNCHANGED disk
    BY <1>3 DEF WriteStatus, ClearStatus
  <2>2. SameRow(b)
    BY <1>3, StatusKeepsRow DEF WriteStatus, ClearStatus
  <2> QED  BY <1>1, <1>2, <2>1, <2>2 DEF Untouched, SameMarks
<1>4. CASE Signal(c) \/ ReserveForPurge(c) \/ Unreserve(c) \/ Terminate(c)
  <2>1. UNCHANGED <<db, disk>>
    BY <1>4 DEF Signal, ReserveForPurge, Unreserve, Terminate
  <2> QED  BY <1>1, <1>2, <2>1 DEF Untouched, SameMarks, SameRow
<1>5. CASE PurgeDirs(c)
  <2>1. \E layers : disk' = [disk EXCEPT ![client[c].book] = RemoveLayers(disk[client[c].book], layers)]
    BY <1>0, <1>5 DEF PurgeDirs
  <2>2. SameMarks(b)
    BY <1>0, <2>1 DEF RemoveLayers, SameMarks, WorkDir
  <2>3. UNCHANGED db
    BY <1>5 DEF PurgeDirs
  <2> QED  BY <1>1, <1>2, <2>2, <2>3 DEF Untouched, SameRow
<1>6. CASE /\ client[c].book # b
           /\ \/ DropSentinel(c) \/ DeleteRow(c) \/ WipeDir(c) \/ PurgeSentinels(c) \/ PurgeReconcile(c)
              \/ PurgePlace(c) \/ CloseOrphan(c) \/ DropForRerun(c) \/ RerunPlace(c)
  <2>1. disk'[b] = disk[b]
    BY <1>0, <1>6 DEF DropSentinel, DropForReadmit, DeleteRow, WipeDir, PurgeSentinels, PurgeReconcile,
          PurgePlace, CloseOrphan, DropForRerun, RerunPlace
  <2>2. SameRow(b)
    <3>1. CASE PurgePlace(c) \/ RerunPlace(c)
      BY <1>6, <3>1, StateWritten DEF PurgePlace, RerunPlace
    <3>2. CASE ~(PurgePlace(c) \/ RerunPlace(c))
      <4>1. db'[b] = db[b]
        BY <1>0, <1>6, <3>2 DEF DropSentinel, DropForReadmit, DeleteRow, WipeDir, PurgeSentinels, PurgeReconcile,
              CloseOrphan, DropForRerun
      <4> QED  BY <4>1 DEF SameRow
    <3> QED  BY <3>1, <3>2
  <2> QED  BY <1>1, <1>2, <2>1, <2>2 DEF Untouched, SameMarks
<1> QED  BY <1>1, <1>2, <1>3, <1>4, <1>5, <1>6 DEF Handle, Touching

(* The steps of the loop that touch b. *)
LoopTouching(b) ==
    \/ ReadmitDue(b) \/ PromoteWaypoint(b) \/ StartWorker(b)
    \/ CloseRuns(b) \/ SupersedeLost(b) \/ Recheck(b) \/ (PlaceRewound /\ disp.book = b)

LEMMA LoopTouches ==
    ASSUME TypeOK, Start \/ Dispatch, NEW b \in Book
    PROVE  Untouched(b) \/ LoopTouching(b)
<1>0. /\ db \in [Book -> BookRow] /\ disk \in [Book -> WorkDir] /\ worker \in [Book -> WorkerRec]
  BY DEF TypeOK, DbOK, DiskOK, WorkerOK
<1>1. CASE StartPass \/ ListBooks \/ Collect \/ EndPass \/ ListOpenRuns \/ ListForReconcile \/ StartGC \/ Started
  <2>1. UNCHANGED <<db, disk, worker>>
    BY <1>1 DEF StartPass, ListBooks, Collect, EndPass, ListOpenRuns, ListForReconcile, StartGC, Started
  <2> QED  BY <2>1 DEF Untouched, SameRow, SameMarks, SameWork
<1>2. ASSUME NEW x \in Book, SkipCandidate(x) PROVE Untouched(b)
  BY <1>2 DEF SkipCandidate, Untouched, SameRow, SameMarks, SameWork
<1>3. CASE ClearDue \/ ClearRechecked
  <2>1. SameRow(b) /\ UNCHANGED <<disk, worker>>
    BY <1>3, StatusKeepsRow DEF ClearDue, ClearRechecked
  <2> QED  BY <2>1 DEF Untouched, SameMarks, SameWork
<1>4. CASE PlaceRewound
  <2>1. UNCHANGED <<disk, worker>>
    BY <1>4 DEF PlaceRewound
  <2>2. disp.book = b \/ SameRow(b)
    BY <1>4, StateWritten DEF PlaceRewound
  <2> QED  BY <1>4, <2>1, <2>2 DEF Untouched, SameMarks, SameWork, LoopTouching
<1>5. ASSUME NEW x \in Book, x # b, ReadmitDue(x) \/ StartWorker(x) \/ CloseRuns(x) \/ SupersedeLost(x) \/ Recheck(x)
      PROVE  Untouched(b)
  <2>1. db'[b] = db[b]
    BY <1>0, <1>5 DEF ReadmitDue, DropForReadmit, StartWorker, CloseRuns, SupersedeLost, Recheck
  <2>2. disk'[b] = disk[b] /\ worker'[b] = worker[b]
    BY <1>0, <1>5 DEF ReadmitDue, DropForReadmit, StartWorker, CloseRuns, SupersedeLost, Recheck
  <2> QED  BY <2>1, <2>2 DEF Untouched, SameRow, SameMarks, SameWork
<1>6. ASSUME NEW x \in Book, x # b, PromoteWaypoint(x) PROVE Untouched(b)
  <2>1. SameRow(b)
    BY <1>6, StateWritten DEF PromoteWaypoint
  <2>2. UNCHANGED <<disk, worker>>
    BY <1>6 DEF PromoteWaypoint
  <2> QED  BY <2>1, <2>2 DEF Untouched, SameMarks, SameWork
<1>7. ASSUME ~LoopTouching(b), NEW x \in Book,
             \/ ReadmitDue(x) \/ StartWorker(x) \/ CloseRuns(x) \/ SupersedeLost(x) \/ Recheck(x)
             \/ PromoteWaypoint(x)
      PROVE  Untouched(b)
  BY <1>5, <1>6, <1>7 DEF LoopTouching
<1> QED  BY <1>1, <1>2, <1>3, <1>4, <1>7 DEF Start, Dispatch

(* A step touches b, or it ends the process, or it leaves b alone. *)
LEMMA StepMoves ==
    ASSUME TypeOK, [Next]_vars, NEW b \in Book
    PROVE  \/ Untouched(b)
           \/ Work(b) \/ StartupGC(b) \/ Enqueue(b) \/ LoopTouching(b)
           \/ \E c \in Client : Handle(c) /\ Touching(c, b)
           \/ Crash \/ Restart
<1>0. /\ db \in [Book -> BookRow] /\ disk \in [Book -> WorkDir] /\ worker \in [Book -> WorkerRec]
  BY DEF TypeOK, DbOK, DiskOK, WorkerOK
<1>1. ASSUME NEW x \in Book, x # b, Work(x) PROVE Untouched(b)
  BY <1>1, WorkIsLocal DEF Untouched, SameRow, SameMarks, SameWork
<1>2. ASSUME NEW x \in Book, x # b, StartupGC(x) PROVE Untouched(b)
  <2>1. disk'[b] = disk[b] /\ UNCHANGED <<db, worker>>
    BY <1>0, <1>2 DEF StartupGC, ReclaimDone
  <2> QED  BY <2>1 DEF Untouched, SameRow, SameMarks, SameWork
<1>3. ASSUME NEW x \in Book, TimePasses(x) PROVE Untouched(b)
  <2>1. db' = [db EXCEPT ![x] = [db[x] EXCEPT !.retry = "due"]]
    BY <1>0, <1>3 DEF TimePasses
  <2>2. SameRow(b)
    BY <1>0, <2>1 DEF SameRow, BookRow
  <2> QED  BY <1>3, <2>2 DEF TimePasses, Untouched, SameMarks, SameWork
<1>4. ASSUME NEW x \in Book, x # b, Enqueue(x) PROVE Untouched(b)
  <2>1. db'[b] = db[b] /\ UNCHANGED <<disk, worker>>
    BY <1>0, <1>4 DEF Enqueue
  <2> QED  BY <2>1 DEF Untouched, SameRow, SameMarks, SameWork
<1>5. ASSUME NEW c \in Client, NEW x \in Book, NEW op \in OpName, NEW s \in Stage \cup {NoState}, Call(c, op, x, s)
      PROVE  Untouched(b)
  BY <1>5 DEF Call, Untouched, SameRow, SameMarks, SameWork
<1>6. CASE Shutdown
  <2>1. worker' = [x \in Book |-> IF Running(x) THEN [worker[x] EXCEPT !.cancelled = TRUE] ELSE worker[x]]
        /\ UNCHANGED <<db, disk>>
    BY <1>6 DEF Shutdown
  <2>2. SameWork(b)
    BY <1>0, <2>1 DEF SameWork, WorkerRec
  <2> QED  BY <2>1, <2>2 DEF Untouched, SameRow, SameMarks
<1>7. CASE UNCHANGED vars
  BY <1>7 DEF vars, Untouched, SameRow, SameMarks, SameWork
<1>8. CASE Start \/ Dispatch
  BY <1>8, LoopTouches
<1>9. ASSUME NEW c \in Client, Handle(c) PROVE Untouched(b) \/ (Handle(c) /\ Touching(c, b))
  BY <1>9, HandleTouches
<1> QED  BY <1>1, <1>2, <1>3, <1>4, <1>5, <1>6, <1>7, <1>8, <1>9 DEF Next, ClientSteps

LEMMA StepTouches ==
    ASSUME TypeOK, [Next]_vars, NEW b \in Book
    PROVE  \/ Untouched(b)
           \/ Work(b) \/ StartupGC(b) \/ Enqueue(b) \/ LoopTouching(b)
           \/ \E c \in Client : Handle(c) /\ Touching(c, b)
           \/ Reboot
  BY StepMoves DEF Crash, Restart

-----------------------------------------------------------------------------
(* The start sequence runs alone: workers exist only between its end and   *)
(* the end of the process.                                                 *)

Starting   == disp.pc \in {"close", "list", "rewind", "place", "recheck", "reclear", "dead"}
QuietStart == Starting => \A b \in Book : ~Running(b)

LEMMA DispatchPcs ==
    ASSUME TypeOK, Dispatch
    PROVE  /\ disp.pc \in {"idle", "due", "clear", "waypoints", "fill"}
           /\ disp'.pc \in {"idle", "due", "clear", "waypoints", "fill"}
<1>0. disp \in DispRec
  BY DEF TypeOK, DispOK
<1>1. CASE StartPass
  <2>1. \E todo, seen : disp' = [disp EXCEPT !.pc = "due", !.todo = todo, !.seen = seen]
    BY <1>1 DEF StartPass
  <2> QED  BY <1>0, <1>1, <2>1 DEF StartPass, DispRec
<1>2. CASE ClearDue
  BY <1>0, <1>2 DEF ClearDue, DispRec
<1>8. CASE EndPass
  BY <1>8 DEF EndPass, IdleDisp
<1>3. CASE ListBooks
  <2>1. \E todo, seen : disp' = [disp EXCEPT !.pc = "waypoints", !.seen = seen, !.todo = todo]
    BY <1>3 DEF ListBooks
  <2> QED  BY <1>0, <1>3, <2>1 DEF ListBooks, DispRec
<1>4. CASE Collect
  <2>1. \E todo, free : disp' = [disp EXCEPT !.pc = "fill", !.todo = todo, !.free = free]
    BY <1>4 DEF Collect
  <2> QED  BY <1>0, <1>4, <2>1 DEF Collect, DispRec
<1>5. ASSUME NEW b \in Book, ReadmitDue(b)
      PROVE  disp.pc = "due" /\ disp'.pc \in {"due", "clear"}
  BY <1>0, <1>5 DEF ReadmitDue, DispRec
<1>6. ASSUME NEW b \in Book, PromoteWaypoint(b)
      PROVE  disp.pc = "waypoints" /\ disp'.pc = "waypoints"
  <2>1. \E todo, seen : disp' = [disp EXCEPT !.todo = todo, !.seen = seen]
    BY <1>6 DEF PromoteWaypoint
  <2> QED  BY <1>0, <1>6, <2>1 DEF PromoteWaypoint, DispRec
<1>7. ASSUME NEW b \in Book, StartWorker(b) \/ SkipCandidate(b)
      PROVE  disp.pc = "fill" /\ disp'.pc = "fill"
  <2>1. \E todo, free : disp' = [disp EXCEPT !.todo = todo, !.free = free] \/ disp' = [disp EXCEPT !.todo = todo]
    BY <1>7 DEF StartWorker, SkipCandidate
  <2> QED  BY <1>0, <1>7, <2>1 DEF StartWorker, SkipCandidate, DispRec
<1> QED  BY <1>1, <1>2, <1>3, <1>4, <1>5, <1>6, <1>7, <1>8 DEF Dispatch, StartPass, ClearDue, ListBooks, Collect, EndPass

LEMMA StartPcs ==
    ASSUME TypeOK, Start
    PROVE  /\ Starting /\ disp.pc # "dead"
           /\ disp'.pc = "idle" \/ Starting'
           /\ disp'.pc # "close"
           /\ UNCHANGED <<worker, reserved, client>>
<1>0. disp \in DispRec
  BY DEF TypeOK, DispOK
<1> USE DEF Starting
<1>9. UNCHANGED <<worker, reserved, client>>
  BY DEF Start, ListOpenRuns, CloseRuns, ListForReconcile, SupersedeLost, PlaceRewound, StartGC, Recheck,
         ClearRechecked, Started, DispOnly
<1>1. CASE ListOpenRuns
  <2>1. \E todo : disp' = [disp EXCEPT !.pc = "list", !.todo = todo]
    BY <1>1 DEF ListOpenRuns
  <2> QED  BY <1>0, <1>1, <1>9, <2>1 DEF ListOpenRuns, DispRec
<1>2. CASE ListForReconcile
  <2>1. \E todo, seen : disp' = [disp EXCEPT !.pc = "rewind", !.seen = seen, !.todo = todo]
    BY <1>2 DEF ListForReconcile
  <2> QED  BY <1>0, <1>2, <1>9, <2>1 DEF ListForReconcile, DispRec
<1>3. CASE PlaceRewound
  <2>1. disp.pc = "place" /\ disp'.pc \in {"rewind", "dead"}
    BY <1>0, <1>3 DEF PlaceRewound, Dead, IdleDisp, DispRec
  <2> QED  BY <1>9, <2>1
<1>8. CASE ClearRechecked
  BY <1>0, <1>8, <1>9 DEF ClearRechecked, DispRec
<1>10. CASE Started
  BY <1>9, <1>10 DEF Started, IdleDisp
<1>4. CASE StartGC
  <2>1. \E todo, seen : disp' = [disp EXCEPT !.pc = "recheck", !.seen = seen, !.todo = todo]
    BY <1>4 DEF StartGC
  <2> QED  BY <1>0, <1>4, <1>9, <2>1 DEF StartGC, DispRec
<1>5. ASSUME NEW b \in Book, CloseRuns(b)
      PROVE  disp.pc = "list" /\ disp'.pc \in {"list", "dead"}
  BY <1>0, <1>5 DEF CloseRuns, Dead, IdleDisp, DispRec
<1>6. ASSUME NEW b \in Book, SupersedeLost(b)
      PROVE  disp.pc = "rewind" /\ disp'.pc \in {"rewind", "place"}
  <2>1. \/ disp' = [disp EXCEPT !.todo = @ \ {b}]
        \/ \E s : disp' = [disp EXCEPT !.pc = "place", !.todo = @ \ {b}, !.book = b, !.stage = s]
    BY <1>6 DEF SupersedeLost
  <2> QED  BY <1>0, <1>6, <2>1 DEF SupersedeLost, DispRec
<1>7. ASSUME NEW b \in Book, Recheck(b)
      PROVE  disp.pc = "recheck" /\ disp'.pc = "reclear"
  BY <1>0, <1>7 DEF Recheck, DispRec
<1> QED  BY <1>1, <1>2, <1>3, <1>4, <1>5, <1>6, <1>7, <1>8, <1>9, <1>10 DEF Start

(* Whoever else steps leaves the loop alone, or ends it. *)
LEMMA LoopMoves ==
    ASSUME TypeOK, [Next]_vars
    PROVE  Start \/ Dispatch \/ Crash \/ Restart \/ Shutdown \/ UNCHANGED disp
<1>1. ASSUME NEW b \in Book, Work(b) PROVE UNCHANGED disp
  BY <1>1, WorkIsLocal
<1>2. ASSUME NEW b \in Book, StartupGC(b) \/ TimePasses(b) \/ Enqueue(b) PROVE UNCHANGED disp
  BY <1>2 DEF StartupGC, TimePasses, Enqueue
<1>3. ASSUME NEW c \in Client, Handle(c) PROVE UNCHANGED disp
  <2>1. CASE \E b \in Book : TRUE
    BY <1>3, <2>1, HandleTouches
  <2>2. CASE ~\E b \in Book : TRUE
    BY <1>3 DEF Handle, WriteStatus, Signal, DropSentinel, ClearStatus, DeleteRow, WipeDir, ReserveForPurge, PurgeDirs,
       PurgeSentinels, PurgeReconcile, PurgePlace, Unreserve, Terminate, CloseOrphan, DropForRerun, RerunPlace, ClientOnly
  <2> QED  BY <2>1, <2>2
<1>4. ASSUME NEW c \in Client, NEW b \in Book, NEW op \in OpName, NEW s \in Stage \cup {NoState}, Call(c, op, b, s)
      PROVE  UNCHANGED disp
  BY <1>4 DEF Call
<1> QED  BY <1>1, <1>2, <1>3, <1>4 DEF Next, ClientSteps, vars

LEMMA LoopSteps ==
    ASSUME TypeOK, [Next]_vars
    PROVE  Start \/ Dispatch \/ Reboot \/ Shutdown \/ UNCHANGED disp
  BY LoopMoves DEF Crash, Restart

LEMMA StartStaysQuiet ==
    ASSUME TypeOK, QuietStart, [Next]_vars
    PROVE  QuietStart'
<1> SUFFICES ASSUME Starting', NEW b \in Book PROVE ~Running(b)'
  BY DEF QuietStart
<1>1. CASE Reboot
  BY <1>1 DEF Reboot, Running, IdleWorker
<1>2. CASE Shutdown
  BY <1>2 DEF Shutdown, Starting, IdleDisp
<1>3. CASE Dispatch
  BY <1>3, DispatchPcs DEF Starting
<1>4. CASE Start
  BY <1>4, StartPcs DEF QuietStart, Running
<1>5. CASE UNCHANGED disp
  <2>1. \A x \in Book : ~StartWorker(x)
    BY <1>5, DispatchPcs DEF Dispatch, Starting
  <2>2. NoNewWorker
    BY <2>1, OnlyStartAdds
  <2> QED  BY <1>5, <2>2 DEF NoNewWorker, QuietStart, Starting
<1> QED  BY <1>1, <1>2, <1>3, <1>4, <1>5, LoopSteps

LEMMA QuietInit == Init => QuietStart
<1> SUFFICES ASSUME Init PROVE \A b \in Book : ~Running(b)
  BY DEF QuietStart
<1>1. worker = [b \in Book |-> IdleWorker]
  BY DEF Init
<1>2. IdleWorker.pc = "off"
  BY DEF IdleWorker
<1> QED  BY <1>1, <1>2 DEF Running

-----------------------------------------------------------------------------
(* What a call in progress is: one of the calls the clients may make, and  *)
(* only the calls that stop a worker come to signal it.                    *)

StopsWorker  == {"cancel", "park", "terminate", "rerun"}
CallFits(r)  == /\ r.pc # "idle" => r.op \in Ops
                /\ r.pc = "signal" => r.op \in StopsWorker
                /\ r.pc \in {"decide", "orphan"} => r.op = "terminate"
CallsMade    == \A c \in Client : CallFits(client[c])

LEMMA HandleKeepsCalls ==
    ASSUME TypeOK, CallsMade, NEW c \in Client, Handle(c)
    PROVE  CallsMade'
<1> DEFINE r == client[c]
<1>0. client \in [Client -> ClientRec] /\ r \in ClientRec /\ CallFits(r)
  BY DEF TypeOK, ClientOK, CallsMade
<1>1. ASSUME NEW r2, CallFits(r2), client' = [client EXCEPT ![c] = r2] PROVE CallsMade'
  BY <1>0, <1>1 DEF CallsMade
<1>2. ASSUME Return(c) PROVE CallsMade'
  <2>1. CallFits(IdleClient)
    BY DEF CallFits, IdleClient
  <2> QED  BY <1>1, <1>2, <2>1 DEF Return
<1>3. ASSUME NEW pc, r.pc # "idle", pc = "signal" => r.op \in StopsWorker,
             pc \in {"decide", "orphan"} => r.op = "terminate"
      PROVE  CallFits([r EXCEPT !.pc = pc]) /\ \A s : CallFits([r EXCEPT !.pc = pc, !.stage = s])
  BY <1>0, <1>3 DEF CallFits, ClientRec
<1>4. ASSUME NEW pc, r.pc # "idle", pc = "signal" => r.op \in StopsWorker,
             pc \in {"decide", "orphan"} => r.op = "terminate", Then(c, pc)
      PROVE  CallsMade'
  <2>1. client' = [client EXCEPT ![c] = [r EXCEPT !.pc = pc]]
    BY <1>0, <1>4 DEF Then
  <2> QED  BY <1>1, <1>3, <1>4, <2>1
<1>5. CASE WriteStatus(c)
  <2>1. Return(c) \/ (r.pc = "write" /\ r.op \in {"cancel", "park"} /\ Then(c, "signal"))
    BY <1>5 DEF WriteStatus, At
  <2> QED  BY <2>1, <1>2, <1>4 DEF StopsWorker
<1>6. CASE Signal(c)
  BY <1>2, <1>4, <1>6 DEF Signal
<1>7. CASE DropSentinel(c) \/ PurgePlace(c) \/ DropForRerun(c)
  BY <1>4, <1>7 DEF DropSentinel, PurgePlace, DropForRerun, At
<1>8. CASE ClearStatus(c) \/ WipeDir(c) \/ Unreserve(c) \/ RerunPlace(c)
  BY <1>2, <1>8 DEF ClearStatus, WipeDir, Unreserve, RerunPlace
<1>9. CASE DeleteRow(c) \/ ReserveForPurge(c)
  BY <1>2, <1>4, <1>9 DEF DeleteRow, ReserveForPurge
<1>10. CASE PurgeDirs(c) \/ PurgeSentinels(c)
  <2>1. r.pc # "idle" /\ (Then(c, "sentinels") \/ Then(c, "release") \/ Then(c, "reconcile"))
    BY <1>10 DEF PurgeDirs, PurgeSentinels
  <2> QED  BY <1>4, <2>1
<1>11. CASE PurgeReconcile(c)
  <2>1. r.pc = "reconcile"
    BY <1>11 DEF PurgeReconcile
  <2>2. \/ Then(c, "release")
        \/ \E s : client' = [client EXCEPT ![c] = [r EXCEPT !.pc = "place", !.stage = s]]
    BY <1>0, <1>11 DEF PurgeReconcile
  <2>3. \A s : CallFits([r EXCEPT !.pc = "place", !.stage = s])
    BY <1>3, <2>1
  <2> QED  BY <1>1, <1>4, <2>1, <2>2, <2>3
<1>12. CASE Terminate(c)
  <2>1. r.pc = "decide" /\ r.op = "terminate" /\ (Then(c, "signal") \/ Then(c, "orphan"))
    BY <1>0, <1>12 DEF Terminate, CallFits
  <2> QED  BY <1>4, <2>1 DEF StopsWorker
<1>13. CASE CloseOrphan(c)
  BY <1>2, <1>4, <1>13 DEF CloseOrphan
<1> QED  BY <1>5, <1>6, <1>7, <1>8, <1>9, <1>10, <1>11, <1>12, <1>13 DEF Handle

LEMMA CallsStep ==
    ASSUME TypeOK, CallsMade, [Next]_vars
    PROVE  CallsMade'
<1>1. CASE UNCHANGED client
  BY <1>1 DEF CallsMade
<1>2. CASE Reboot
  <2>1. client' = [c \in Client |-> IdleClient]
    BY <1>2 DEF Reboot
  <2>2. CallFits(IdleClient)
    BY DEF CallFits, IdleClient
  <2> QED  BY <2>1, <2>2 DEF CallsMade
<1>3. ASSUME NEW c \in Client, NEW b \in Book, NEW op \in OpName, NEW s \in Stage \cup {NoState}, Call(c, op, b, s)
      PROVE  CallsMade'
  <2> DEFINE r == [pc |-> FirstStep(op), op |-> op, book |-> b, seen |-> View(b), stage |-> s]
  <2>1. CallFits(r)
    BY <1>3 DEF Call, CallFits, FirstStep, OpName, StopsWorker
  <2>2. client' = [client EXCEPT ![c] = r]
    BY <1>3 DEF Call
  <2> HIDE DEF r
  <2> QED  BY <2>1, <2>2 DEF CallsMade, TypeOK, ClientOK
<1>4. ASSUME NEW b \in Book, Work(b) PROVE UNCHANGED client
  BY <1>4, WorkIsLocal
<1>5. CASE Start
  BY <1>1, <1>5, StartPcs
<1>6. CASE Dispatch
  BY <1>1, <1>6 DEF Dispatch, DispOnly, StartPass, ReadmitDue, ClearDue, ListBooks, PromoteWaypoint, Collect,
                StartWorker, SkipCandidate, EndPass
<1>7. CASE Shutdown \/ (\E b \in Book : StartupGC(b) \/ TimePasses(b) \/ Enqueue(b)) \/ UNCHANGED vars
  BY <1>1, <1>7 DEF Shutdown, StartupGC, TimePasses, Enqueue, vars
<1> QED  BY <1>1, <1>2, <1>3, <1>4, <1>5, <1>6, <1>7, HandleKeepsCalls DEF Next, ClientSteps, Crash, Restart

LEMMA CallsInit == Init => CallsMade
  BY DEF Init, CallsMade, CallFits, IdleClient

-----------------------------------------------------------------------------
(* What each step of a worker does to its book. *)

KeepsJob(b)  == worker'[b].stage = worker[b].stage /\ worker'[b].cancelled = worker[b].cancelled
KeepsPlan(b) == KeepsJob(b) /\ worker'[b].next = worker[b].next
KeepsRow(b)  == db'[b].row = db[b].row /\ db'[b].state = db[b].state
SameRuns(b)  == db'[b].row = db[b].row /\ db'[b].ok = db[b].ok /\ db'[b].open = db[b].open
KeepsOk(b)   == KeepsRow(b) /\ db'[b].ok = db[b].ok
Gone(b)      == worker'[b].pc = "off" /\ worker'[b].cancelled = FALSE
Closes(b)    == db'[b].open = [db[b].open EXCEPT ![worker[b].stage] = Drop(db[b].open[worker[b].stage])]

LEMMA ExitIsGone == ASSUME TypeOK, NEW b \in Book, Exit(b) PROVE Gone(b) /\ ~Running(b)'
<1>1. worker'[b] = IdleWorker
  BY DEF TypeOK, WorkerOK, Exit
<1>2. IdleWorker.pc = "off" /\ IdleWorker.cancelled = FALSE
  BY DEF IdleWorker
<1> QED  BY <1>1, <1>2 DEF Gone, Running

LEMMA GoToGoes == ASSUME TypeOK, NEW b \in Book, NEW pc, GoTo(b, pc)
                  PROVE  worker'[b].pc = pc /\ worker'[b].out = worker[b].out /\ KeepsPlan(b)
  BY DEF TypeOK, WorkerOK, WorkerRec, GoTo, KeepsPlan, KeepsJob

LEMMA RunRowFields ==
    ASSUME TypeOK, NEW b \in Book, NEW n, NEW m
    PROVE  LET s == worker[b].stage IN
           /\ db' = [db EXCEPT ![b].open[s] = n] =>
                 KeepsOk(b) /\ db'[b].open = [db[b].open EXCEPT ![s] = n]
           /\ db' = [db EXCEPT ![b].open[s] = n, ![b].ok[s] = m] =>
                 /\ KeepsRow(b) /\ db'[b].open = [db[b].open EXCEPT ![s] = n]
                 /\ db'[b].ok = [db[b].ok EXCEPT ![s] = m]
  BY DEF TypeOK, DbOK, BookRow, KeepsOk, KeepsRow

LEMMA SkipDoes ==
    ASSUME TypeOK, NEW b \in Book, SkipStage(b)
    PROVE  /\ worker[b].pc = "begin" /\ HasSentinel(b, worker[b].stage)
           /\ worker'[b].pc = "advance" /\ worker'[b].out = disk[b].done[worker[b].stage] /\ KeepsPlan(b)
           /\ UNCHANGED <<db, disk, ghost>>
  BY DEF TypeOK, WorkerOK, WorkerRec, SkipStage, KeepsPlan, KeepsJob

LEMMA OpenDoes ==
    ASSUME TypeOK, NEW b \in Book, OpenRun(b)
    PROVE  LET s == worker[b].stage IN
           /\ worker[b].pc = "begin" /\ ~HasSentinel(b, s) /\ UNCHANGED <<disk, ghost>>
           /\ \/ /\ CanWrite(b) /\ worker'[b].pc = "exec" /\ KeepsPlan(b)
                 /\ KeepsOk(b) /\ db'[b].open = [db[b].open EXCEPT ![s] = Bump(db[b].open[s], 2)]
              \/ Gone(b) /\ UNCHANGED db
<1> DEFINE s == worker[b].stage
<1>1. worker[b].pc = "begin" /\ ~HasSentinel(b, s) /\ UNCHANGED <<disk, ghost>>
  BY DEF OpenRun
<1>2. CASE CanWrite(b)
  <2>1. worker'[b].pc = "exec" /\ KeepsPlan(b)
    BY <1>2, GoToGoes DEF OpenRun
  <2>2. db' = [db EXCEPT ![b].open[s] = Bump(db[b].open[s], 2)]
    BY <1>2 DEF OpenRun, TypeOK, DbOK, BookRow
  <2>3. KeepsOk(b) /\ db'[b].open = [db[b].open EXCEPT ![s] = Bump(db[b].open[s], 2)]
    BY <2>2, RunRowFields
  <2> QED  BY <1>1, <1>2, <2>1, <2>3
<1>3. CASE ~CanWrite(b)
  BY <1>1, <1>3, ExitIsGone DEF OpenRun
<1> QED  BY <1>2, <1>3

LEMMA SucceedDoes ==
    ASSUME TypeOK, NEW b \in Book, ExecSucceeds(b)
    PROVE  LET s == worker[b].stage IN
           /\ worker[b].pc = "exec" /\ InputsPresent(b, s) /\ UNCHANGED db
           /\ worker'[b].pc = "ran" /\ KeepsPlan(b) /\ worker'[b].out \in Mark
           /\ s \notin BranchStage => worker'[b].out = "main"
           /\ disk'[b].done = [disk[b].done EXCEPT ![s] = worker'[b].out]
           /\ disk'[b].art = disk[b].art \cup Outputs(s, worker'[b].out)
           /\ ghost'[b].passes = IF s = "fixing" THEN Bump(ghost[b].passes, MaxFixAttempts + 1)
                                 ELSE ghost[b].passes
<1> DEFINE s == worker[b].stage
<1>0. /\ worker \in [Book -> WorkerRec] /\ disk \in [Book -> WorkDir] /\ ghost \in [Book -> GhostRec]
  BY DEF TypeOK, WorkerOK, DiskOK
<1>1. worker[b].pc = "exec" /\ InputsPresent(b, s) /\ UNCHANGED db
  BY DEF ExecSucceeds
<1>2. PICK mark \in (IF s \in BranchStage THEN Mark ELSE {"main"}) :
          /\ disk' = [disk EXCEPT ![b] = WriteSentinel(disk[b], s, mark, Outputs(s, mark))]
          /\ worker' = [worker EXCEPT ![b].pc = "ran", ![b].out = mark]
  BY <1>0 DEF ExecSucceeds
<1>3. worker'[b].pc = "ran" /\ worker'[b].out = mark /\ KeepsPlan(b)
  BY <1>0, <1>2 DEF WorkerRec, KeepsPlan, KeepsJob
<1>4. disk'[b] = WriteSentinel(disk[b], s, mark, Outputs(s, mark))
  BY <1>0, <1>2
<1>5. disk'[b].done = [disk[b].done EXCEPT ![s] = mark] /\ disk'[b].art = disk[b].art \cup Outputs(s, mark)
  BY <1>0, <1>4 DEF WriteSentinel, WorkDir
<1>6. ghost'[b].passes = IF s = "fixing" THEN Bump(ghost[b].passes, MaxFixAttempts + 1) ELSE ghost[b].passes
  BY <1>0 DEF ExecSucceeds, GhostRec
<1>7. mark \in Mark /\ (s \notin BranchStage => mark = "main")
  BY DEF Mark
<1> QED  BY <1>1, <1>3, <1>5, <1>6, <1>7

LEMMA CancelDoes ==
    ASSUME TypeOK, NEW b \in Book, ExecCanceled(b)
    PROVE  /\ worker[b].pc = "exec" /\ worker[b].cancelled /\ UNCHANGED <<disk, ghost>>
           /\ Gone(b) /\ KeepsOk(b) /\ Closes(b)
<1>1. db' = [db EXCEPT ![b].open[worker[b].stage] = Drop(db[b].open[worker[b].stage])]
  BY DEF ExecCanceled, TypeOK, DbOK, BookRow
<1> QED  BY <1>1, RunRowFields, ExitIsGone DEF ExecCanceled, Closes

LEMMA EndDoes ==
    ASSUME TypeOK, NEW b \in Book, NEW out, ExecEnds(b, out)
    PROVE  /\ worker[b].pc = "exec" /\ UNCHANGED <<disk, ghost>>
           /\ worker'[b].pc = "failing" /\ worker'[b].out = out /\ KeepsPlan(b)
           /\ KeepsOk(b)
           /\ IF CanWrite(b) THEN Closes(b) ELSE db'[b].open = db[b].open
<1>0. worker \in [Book -> WorkerRec]
  BY DEF TypeOK, WorkerOK
<1>1. worker[b].pc = "exec" /\ UNCHANGED <<disk, ghost>>
  BY DEF ExecEnds
<1>2. worker'[b].pc = "failing" /\ worker'[b].out = out /\ KeepsPlan(b)
  BY <1>0 DEF ExecEnds, WorkerRec, KeepsPlan, KeepsJob
<1>3. CASE CanWrite(b)
  <2>1. db' = [db EXCEPT ![b].open[worker[b].stage] = Drop(db[b].open[worker[b].stage])]
    BY <1>3 DEF ExecEnds, TypeOK, DbOK, BookRow
  <2> QED  BY <1>1, <1>2, <1>3, <2>1, RunRowFields DEF Closes
<1>4. CASE ~CanWrite(b)
  BY <1>1, <1>2, <1>4 DEF ExecEnds, KeepsOk, KeepsRow
<1> QED  BY <1>3, <1>4

LEMMA RecordDoes ==
    ASSUME TypeOK, NEW b \in Book, RecordRun(b)
    PROVE  LET s == worker[b].stage IN
           /\ worker[b].pc = "ran" /\ UNCHANGED <<disk, ghost>>
           /\ \/ /\ ~HasSentinel(b, s) /\ worker'[b].pc = "failing" /\ KeepsPlan(b) /\ KeepsOk(b)
                 /\ worker'[b].out = "failed"
                 /\ IF CanWrite(b) THEN Closes(b) ELSE db'[b].open = db[b].open
              \/ /\ HasSentinel(b, s) /\ CanWrite(b)
                 /\ worker'[b].pc = "advance" /\ worker'[b].out = worker[b].out /\ KeepsPlan(b)
                 /\ KeepsRow(b) /\ Closes(b)
                 /\ db'[b].ok = [db[b].ok EXCEPT ![s] = Bump(db[b].ok[s], RunCap)]
              \/ HasSentinel(b, s) /\ ~CanWrite(b) /\ Gone(b) /\ UNCHANGED db
<1> DEFINE s == worker[b].stage
<1>0. worker \in [Book -> WorkerRec] /\ db \in [Book -> BookRow]
  BY DEF TypeOK, WorkerOK, DbOK
<1>1. worker[b].pc = "ran" /\ UNCHANGED <<disk, ghost>>
  BY DEF RecordRun
<1>2. CASE ~HasSentinel(b, s)
  <2>1. worker' = [worker EXCEPT ![b].pc = "failing", ![b].out = "failed"]
    BY <1>2 DEF RecordRun
  <2>2. worker'[b].pc = "failing" /\ worker'[b].out = "failed" /\ KeepsPlan(b)
    BY <1>0, <2>1 DEF WorkerRec, KeepsPlan, KeepsJob
  <2>3. CASE CanWrite(b)
    <3>1. db' = [db EXCEPT ![b].open[s] = Drop(db[b].open[s])]
      BY <1>0, <1>2, <2>3 DEF RecordRun, BookRow
    <3> QED  BY <1>1, <1>2, <2>2, <2>3, <3>1, RunRowFields DEF Closes
  <2>4. CASE ~CanWrite(b)
    BY <1>1, <1>2, <2>2, <2>4 DEF RecordRun, KeepsOk, KeepsRow
  <2> QED  BY <2>3, <2>4
<1>3. CASE HasSentinel(b, s) /\ CanWrite(b)
  <2>1. worker'[b].pc = "advance" /\ worker'[b].out = worker[b].out /\ KeepsPlan(b)
    BY <1>3, GoToGoes DEF RecordRun
  <2>2. db' = [db EXCEPT ![b].open[s] = Drop(db[b].open[s]), ![b].ok[s] = Bump(db[b].ok[s], RunCap)]
    BY <1>0, <1>3 DEF RecordRun, BookRow
  <2>3. /\ KeepsRow(b) /\ db'[b].open = [db[b].open EXCEPT ![s] = Drop(db[b].open[s])]
        /\ db'[b].ok = [db[b].ok EXCEPT ![s] = Bump(db[b].ok[s], RunCap)]
    BY <1>0, <2>2 DEF BookRow, KeepsRow
  <2> QED  BY <1>1, <1>3, <2>1, <2>3 DEF Closes
<1>4. CASE HasSentinel(b, s) /\ ~CanWrite(b)
  BY <1>1, <1>4, ExitIsGone DEF RecordRun
<1> QED  BY <1>2, <1>3, <1>4

LEMMA ParkDoes ==
    ASSUME TypeOK, NEW b \in Book, SetFailedOrParked(b)
    PROVE  worker[b].pc = "failing" /\ UNCHANGED <<disk, ghost>> /\ Gone(b) /\ SameRow(b)
  BY ExitIsGone, StatusKeepsRow DEF SetFailedOrParked

LEMMA AdvanceDoes ==
    ASSUME TypeOK, NEW b \in Book, Advance(b)
    PROVE  LET s    == worker[b].stage
               o    == OutcomeOf(worker[b].out, db[b].ok["fixing"])
               next == NextState(KindOf[b], s, o).state
           IN  /\ worker[b].pc = "advance" /\ UNCHANGED <<db, ghost>>
               /\ \/ Gone(b) /\ UNCHANGED disk /\ s = "auditing" /\ worker[b].cancelled
                  \/ /\ FixBudgetSpent(s, o) /\ UNCHANGED disk
                     /\ worker'[b].pc = "failing" /\ worker'[b].out = "fix_loop_exhausted" /\ KeepsPlan(b)
                  \/ /\ ~FixBudgetSpent(s, o) /\ KeepsJob(b)
                     /\ worker'[b].pc = "commit" /\ worker'[b].next = next
                     /\ disk' = [disk EXCEPT ![b] = RemoveSentinels(disk[b], {next})]
<1> DEFINE s    == worker[b].stage
           o    == OutcomeOf(worker[b].out, db[b].ok["fixing"])
           next == NextState(KindOf[b], s, o).state
<1>0. worker \in [Book -> WorkerRec] /\ disk \in [Book -> WorkDir]
  BY DEF TypeOK, WorkerOK, DiskOK
<1>1. worker[b].pc = "advance" /\ UNCHANGED <<db, ghost>>
  BY DEF Advance
<1>2. \/ Exit(b) /\ UNCHANGED disk /\ s = "auditing" /\ worker[b].cancelled
      \/ /\ FixBudgetSpent(s, o) /\ UNCHANGED disk
         /\ worker' = [worker EXCEPT ![b].pc = "failing", ![b].out = "fix_loop_exhausted"]
      \/ /\ ~FixBudgetSpent(s, o)
         /\ worker' = [worker EXCEPT ![b].pc = "commit", ![b].next = next]
         /\ disk' = [disk EXCEPT ![b] = RemoveSentinels(disk[b], {next})]
  BY <1>0 DEF Advance
<1> HIDE DEF s, o, next
<1>3. /\ worker' = [worker EXCEPT ![b].pc = "failing", ![b].out = "fix_loop_exhausted"] =>
            worker'[b].pc = "failing" /\ worker'[b].out = "fix_loop_exhausted" /\ KeepsPlan(b)
      /\ worker' = [worker EXCEPT ![b].pc = "commit", ![b].next = next] =>
            worker'[b].pc = "commit" /\ worker'[b].next = next /\ KeepsJob(b)
  BY <1>0 DEF WorkerRec, KeepsPlan, KeepsJob
<1> QED  BY <1>1, <1>2, <1>3, ExitIsGone DEF s, o, next

LEMMA CommitDoes ==
    ASSUME TypeOK, NEW b \in Book, Commit(b)
    PROVE  /\ worker[b].pc = "commit" /\ UNCHANGED <<disk, ghost>>
           /\ \/ /\ CanWrite(b) /\ SameRuns(b) /\ db'[b].state = worker[b].next
                 /\ \/ Gone(b)
                    \/ /\ worker[b].next = "done" /\ worker'[b].pc = "purge" /\ KeepsPlan(b)
              \/ ~CanWrite(b) /\ Gone(b) /\ UNCHANGED db
<1>0. db \in [Book -> BookRow]
  BY DEF TypeOK, DbOK
<1>1. worker[b].pc = "commit" /\ UNCHANGED <<disk, ghost>>
  BY DEF Commit
<1>2. CASE CanWrite(b)
  <2>1. db' = [db EXCEPT ![b].state = worker[b].next]
    BY <1>2 DEF Commit
  <2>2. SameRuns(b) /\ db'[b].state = worker[b].next
    BY <1>0, <2>1 DEF BookRow, SameRuns
  <2>3. Exit(b) \/ (worker[b].next = "done" /\ GoTo(b, "purge"))
    BY <1>2 DEF Commit
  <2> QED  BY <1>1, <1>2, <2>2, <2>3, ExitIsGone, GoToGoes
<1>3. CASE ~CanWrite(b)
  BY <1>1, <1>3, ExitIsGone DEF Commit
<1> QED  BY <1>2, <1>3

(* A reclaim removes sentinels, if any, of the stages it invalidates. *)
LEMMA ReclaimDoes ==
    ASSUME TypeOK, NEW b \in Book, ReclaimDone(b)
    PROVE  /\ \/ disk'[b].done = disk[b].done
              \/ disk'[b].done = [s \in Stage |-> IF s \in InvalidatedStages(KindOf[b]) THEN "absent"
                                                  ELSE disk[b].done[s]]
           /\ \A x \in Book \ {b} : disk'[x] = disk[x]
<1>0. disk \in [Book -> WorkDir]
  BY DEF TypeOK, DiskOK
<1> DEFINE swept == RemoveLayers(disk[b], Reclaimed(KindOf[b]))
<1>1. CASE disk' = [disk EXCEPT ![b] = RemoveSentinels(swept, InvalidatedStages(KindOf[b]))]
  <2>1. swept.done = disk[b].done /\ swept = [disk[b] EXCEPT !.art = swept.art]
    BY <1>0 DEF RemoveLayers, WorkDir
  <2>2. RemoveSentinels(swept, InvalidatedStages(KindOf[b])).done
          = [s \in Stage |-> IF s \in InvalidatedStages(KindOf[b]) THEN "absent" ELSE disk[b].done[s]]
    BY <1>0, <2>1, SentinelType DEF RemoveSentinels, WorkDir
  <2> QED  BY <1>0, <1>1, <2>2
<1>2. CASE \E gone \in SUBSET Reclaimed(KindOf[b]) : disk' = [disk EXCEPT ![b] = RemoveLayers(disk[b], gone)]
  BY <1>0, <1>2 DEF RemoveLayers, WorkDir
<1>3. \/ disk' = [disk EXCEPT ![b] = RemoveSentinels(swept, InvalidatedStages(KindOf[b]))]
      \/ \E gone \in SUBSET Reclaimed(KindOf[b]) : disk' = [disk EXCEPT ![b] = RemoveLayers(disk[b], gone)]
  BY <1>0 DEF ReclaimDone
<1> QED  BY <1>1, <1>2, <1>3

LEMMA ReclaimStepDoes ==
    ASSUME TypeOK, NEW b \in Book, AutoPurgeDone(b)
    PROVE  /\ worker[b].pc = "purge" /\ Gone(b) /\ UNCHANGED <<db, ghost>>
           /\ UNCHANGED disk \/ ReclaimDone(b)
  BY ExitIsGone DEF AutoPurgeDone

-----------------------------------------------------------------------------
(* What the loop and the control calls do to the book they move. *)

KeepsOpen(b) == KeepsRow(b) /\ db'[b].open = db[b].open

LEMMA SupersedeDoes ==
    ASSUME TypeOK, NEW b \in Book, NEW stages, db' = [db EXCEPT ![b] = Supersede(db[b], stages)]
    PROVE  /\ KeepsOpen(b)
           /\ db'[b].ok = [s \in Stage |-> IF s \in stages THEN 0 ELSE db[b].ok[s]]
           /\ \A x \in Book \ {b} : db'[x] = db[x]
<1>0. db \in [Book -> BookRow]
  BY DEF TypeOK, DbOK
<1>1. db'[b] = Supersede(db[b], stages)
  BY <1>0
<1>2. /\ Supersede(db[b], stages).row = db[b].row /\ Supersede(db[b], stages).state = db[b].state
      /\ Supersede(db[b], stages).open = db[b].open
      /\ Supersede(db[b], stages).ok = [s \in Stage |-> IF s \in stages THEN 0 ELSE db[b].ok[s]]
  BY <1>0 DEF Supersede, BookRow
<1> QED  BY <1>0, <1>1, <1>2 DEF KeepsOpen, KeepsRow

LEMMA ReadmitDoes ==
    ASSUME TypeOK, NEW b \in Book, NEW v, DropForReadmit(b, v)
    PROVE  /\ KeepsOpen(b)
           /\ db'[b].ok = [s \in Stage |-> IF s \in ReadmitSupersedes(v) THEN 0 ELSE db[b].ok[s]]
           /\ disk'[b].done = [s \in Stage |-> IF s \in {v.state} THEN "absent" ELSE disk[b].done[s]]
           /\ ghost'[b].passes = IF v.park = "fix_loop_exhausted" THEN 0 ELSE ghost[b].passes
<1>0. db \in [Book -> BookRow] /\ disk \in [Book -> WorkDir] /\ ghost \in [Book -> GhostRec]
  BY DEF TypeOK, DbOK, DiskOK
<1>1. db' = [db EXCEPT ![b] = Supersede(db[b], ReadmitSupersedes(v))]
  BY <1>0 DEF DropForReadmit
<1>2. disk'[b].done = [s \in Stage |-> IF s \in {v.state} THEN "absent" ELSE disk[b].done[s]]
  BY <1>0 DEF DropForReadmit, RemoveSentinels, WorkDir
<1>3. ghost'[b].passes = IF v.park = "fix_loop_exhausted" THEN 0 ELSE ghost[b].passes
  BY <1>0 DEF DropForReadmit, GhostRec
<1> QED  BY <1>1, <1>2, <1>3, SupersedeDoes

LEMMA StartDoes ==
    ASSUME TypeOK, NEW b \in Book, StartWorker(b)
    PROVE  /\ disp.pc = "fill" /\ b \in disp.todo /\ ~Running(b)
           /\ worker'[b].pc = "begin" /\ worker'[b].stage = disp.seen[b].state /\ worker'[b].cancelled = FALSE
           /\ UNCHANGED <<db, disk>> /\ ghost'[b].passes = ghost[b].passes
<1>0. worker \in [Book -> WorkerRec] /\ ghost \in [Book -> GhostRec]
  BY DEF TypeOK, WorkerOK
<1>1. worker'[b] = [IdleWorker EXCEPT !.pc = "begin", !.stage = disp.seen[b].state]
  BY <1>0 DEF StartWorker
<1>2. worker'[b].pc = "begin" /\ worker'[b].stage = disp.seen[b].state /\ worker'[b].cancelled = FALSE
  BY <1>1 DEF IdleWorker
<1>3. ghost'[b].passes = ghost[b].passes
  BY <1>0 DEF StartWorker, GhostRec
<1> QED  BY <1>2, <1>3 DEF StartWorker, IsNext, InFlight

LEMMA CloseDoes ==
    ASSUME TypeOK, NEW b \in Book, CloseRuns(b)
    PROVE  /\ disp.pc = "list" /\ b \in disp.todo /\ UNCHANGED <<disk, ghost>> /\ KeepsOk(b)
           /\ \/ Live(b) /\ db'[b].open = NoRuns /\ disp' = [disp EXCEPT !.todo = disp.todo \ {b}]
              \/ ~Live(b) /\ UNCHANGED db /\ disp'.pc = "dead"
<1>0. db \in [Book -> BookRow]
  BY DEF TypeOK, DbOK
<1>1. disp.pc = "list" /\ b \in disp.todo /\ UNCHANGED <<disk, ghost>>
  BY DEF CloseRuns
<1>2. CASE Live(b)
  <2>1. db' = [db EXCEPT ![b].open = NoRuns] /\ disp' = [disp EXCEPT !.todo = disp.todo \ {b}]
    BY <1>2 DEF CloseRuns, TypeOK, DispOK, DispRec
  <2>2. KeepsOk(b) /\ db'[b].open = NoRuns
    BY <1>0, <2>1 DEF BookRow, KeepsOk, KeepsRow
  <2> QED  BY <1>1, <1>2, <2>1, <2>2
<1>3. CASE ~Live(b)
  <2>1. UNCHANGED db /\ disp' = Dead
    BY <1>3 DEF CloseRuns
  <2> QED  BY <1>1, <1>3, <2>1 DEF Dead, IdleDisp, KeepsOk, KeepsRow
<1> QED  BY <1>2, <1>3

LEMMA RewindDoes ==
    ASSUME TypeOK, NEW b \in Book, SupersedeLost(b)
    PROVE  LET succ == disp.seen[b].succ IN
           /\ disp.pc = "rewind" /\ b \in disp.todo /\ UNCHANGED <<disk, worker, ghost>> /\ KeepsOpen(b)
           /\ \/ /\ Lost(b, succ) = {} /\ UNCHANGED db
                 /\ disp' = [disp EXCEPT !.todo = disp.todo \ {b}]
              \/ \E s \in Stage :
                    /\ EarliestLost(b, succ, s)
                    /\ db'[b].ok = [t \in Stage |-> IF t \in FromOn(s, succ) THEN 0 ELSE db[b].ok[t]]
                    /\ disp' = [disp EXCEPT !.pc = "place", !.todo = disp.todo \ {b}, !.book = b, !.stage = s]
<1> DEFINE succ == disp.seen[b].succ
<1>0. disp \in DispRec /\ db \in [Book -> BookRow] /\ succ \subseteq Stage
  BY DEF TypeOK, DispOK, DispRec, Views, DbOK
<1>1. disp.pc = "rewind" /\ b \in disp.todo /\ UNCHANGED <<disk, worker, ghost>>
  BY DEF SupersedeLost
<1>2. CASE Lost(b, succ) = {}
  <2>1. disp' = [disp EXCEPT !.todo = disp.todo \ {b}] /\ UNCHANGED db
    BY <1>0, <1>2 DEF SupersedeLost
  <2> QED  BY <1>1, <1>2, <2>1 DEF KeepsOpen, KeepsRow
<1>3. CASE Lost(b, succ) # {}
  <2>1. PICK s \in Lost(b, succ) :
            /\ EarliestLost(b, succ, s)
            /\ db' = [db EXCEPT ![b] = Supersede(db[b], FromOn(s, succ))]
            /\ disp' = [disp EXCEPT !.pc = "place", !.todo = disp.todo \ {b}, !.book = b, !.stage = s]
    BY <1>0, <1>3 DEF SupersedeLost
  <2>2. s \in Stage
    BY <1>0 DEF Lost
  <2>3. /\ KeepsOpen(b)
        /\ db'[b].ok = [t \in Stage |-> IF t \in FromOn(s, succ) THEN 0 ELSE db[b].ok[t]]
    BY <2>1, SupersedeDoes
  <2> QED  BY <1>1, <2>1, <2>2, <2>3
<1> QED  BY <1>2, <1>3

(* Neither the loop nor a call opens a run. *)
LEMMA LoopOpensNone ==
    ASSUME TypeOK, NEW b \in Book, LoopTouching(b)
    PROVE  /\ db'[b].open = db[b].open \/ (CloseRuns(b) /\ db'[b].open = NoRuns)
           /\ UNCHANGED worker \/ StartWorker(b)
<1>1. CASE ReadmitDue(b) \/ Recheck(b)
  <2>1. UNCHANGED worker /\ (UNCHANGED db \/ \E v : DropForReadmit(b, v))
    BY <1>1 DEF ReadmitDue, Recheck
  <2> QED  BY <2>1, ReadmitDoes DEF KeepsOpen
<1>2. CASE PromoteWaypoint(b)
  BY <1>2, StateWritten DEF PromoteWaypoint
<1>3. CASE StartWorker(b)
  BY <1>3, StartDoes
<1>4. CASE CloseRuns(b)
  BY <1>4, CloseDoes DEF CloseRuns
<1>5. CASE SupersedeLost(b)
  BY <1>5, RewindDoes DEF KeepsOpen
<1>6. CASE PlaceRewound
  BY <1>6, StateWritten DEF PlaceRewound
<1> QED  BY <1>1, <1>2, <1>3, <1>4, <1>5, <1>6 DEF LoopTouching

LEMMA CallOpensNone ==
    ASSUME TypeOK, NEW b \in Book, NEW c \in Client, Touching(c, b)
    PROVE  db'[b].open = db[b].open \/ db'[b].open = NoRuns
<1>0. db \in [Book -> BookRow] /\ client[c].book = b
  BY DEF TypeOK, DbOK, Touching
<1>1. CASE PurgePlace(c) \/ RerunPlace(c)
  BY <1>0, <1>1, StateWritten DEF PurgePlace, RerunPlace
<1>2. CASE DropSentinel(c)
  BY <1>0, <1>2, ReadmitDoes DEF DropSentinel, KeepsOpen
<1>3. CASE PurgeReconcile(c) \/ DropForRerun(c)
  <2>1. UNCHANGED db \/ \E stages : db' = [db EXCEPT ![b] = Supersede(db[b], stages)]
    BY <1>0, <1>3 DEF PurgeReconcile, DropForRerun
  <2> QED  BY <2>1, SupersedeDoes DEF KeepsOpen
<1>4. CASE DeleteRow(c)
  <2>1. UNCHANGED db \/ db' = [db EXCEPT ![b] = [db[b] EXCEPT !.row = "deleted", !.ok = NoRuns, !.open = NoRuns]]
    BY <1>0, <1>4 DEF DeleteRow
  <2> QED  BY <1>0, <2>1 DEF BookRow
<1>5. CASE CloseOrphan(c)
  <2>1. db' = [db EXCEPT ![b] = [db[b] EXCEPT !.open = NoRuns]]
    BY <1>0, <1>5 DEF CloseOrphan
  <2> QED  BY <1>0, <2>1 DEF BookRow
<1>6. CASE WipeDir(c) \/ PurgeSentinels(c)
  BY <1>6 DEF WipeDir, PurgeSentinels
<1> QED  BY <1>1, <1>2, <1>3, <1>4, <1>5, <1>6 DEF Touching

-----------------------------------------------------------------------------
(* One open run.  Where no call stops a worker, one is only cancelled by   *)
(* the shutdown of the daemon; then the runs it leaves open are the ones   *)
(* the next start closes before it starts anything.                        *)

NoStops == Ops \cap StopsWorker = {}

CancelsAtStop == \A b \in Book : /\ worker[b].cancelled => disp.pc = "stopping"
                                 /\ disp.pc = "stopping" /\ Running(b) => worker[b].cancelled

Leftover(b) == \/ disp.pc \in {"close", "stopping", "dead"}
               \/ disp.pc = "list" /\ b \in disp.todo
RunsAccounted ==
    \A b \in Book, s \in Stage :
        /\ db[b].open[s] <= 1
        /\ db[b].open[s] > 0 => (Executing(b) /\ worker[b].stage = s) \/ Leftover(b)

LEMMA WorkKeepsCancel ==
    ASSUME TypeOK, NEW b \in Book, Work(b)
    PROVE  Running(b) /\ (worker'[b].cancelled = worker[b].cancelled \/ Gone(b))
<1> USE DEF KeepsPlan, KeepsJob, Running
<1>1. CASE SkipStage(b) \/ OpenRun(b) \/ ExecSucceeds(b)
  BY <1>1, SkipDoes, OpenDoes, SucceedDoes
<1>2. CASE ExecCanceled(b) \/ SetFailedOrParked(b) \/ AutoPurgeDone(b)
  BY <1>2, CancelDoes, ParkDoes, ReclaimStepDoes
<1>3. CASE ExecFaults(b) \/ ExecGivesUp(b)
  <2>1. \E out : ExecEnds(b, out)
    BY <1>3 DEF ExecFaults, ExecGivesUp
  <2> QED  BY <2>1, EndDoes
<1>4. CASE RecordRun(b)
  BY <1>4, RecordDoes
<1>5. CASE Advance(b)
  BY <1>5, AdvanceDoes
<1>6. CASE Commit(b)
  BY <1>6, CommitDoes
<1> QED  BY <1>1, <1>2, <1>3, <1>4, <1>5, <1>6 DEF Work

LEMMA CancelStep ==
    ASSUME TypeOK, NoStops, CallsMade, CancelsAtStop, [Next]_vars
    PROVE  CancelsAtStop'
<1> SUFFICES ASSUME NEW b \in Book
             PROVE  /\ worker'[b].cancelled => disp'.pc = "stopping"
                    /\ disp'.pc = "stopping" /\ Running(b)' => worker'[b].cancelled
  BY DEF CancelsAtStop
<1>0. worker \in [Book -> WorkerRec]
  BY DEF TypeOK, WorkerOK
<1>1. CASE Reboot
  <2>1. worker'[b] = IdleWorker
    BY <1>1 DEF Reboot
  <2>2. IdleWorker.pc = "off" /\ IdleWorker.cancelled = FALSE
    BY DEF IdleWorker
  <2> QED  BY <2>1, <2>2 DEF Running
<1>2. CASE Shutdown
  <2>1. disp'.pc = "stopping"
    BY <1>2 DEF Shutdown, IdleDisp
  <2>2. worker'[b] = IF Running(b) THEN [worker[b] EXCEPT !.cancelled = TRUE] ELSE worker[b]
    BY <1>2 DEF Shutdown
  <2>3. Running(b) => worker'[b].cancelled = TRUE
    BY <1>0, <2>2 DEF WorkerRec
  <2>4. ~Running(b) => ~Running(b)'
    BY <2>2 DEF Running
  <2> QED  BY <2>1, <2>3, <2>4
<1>3. CASE Start
  <2>1. UNCHANGED worker /\ disp.pc # "stopping" /\ disp'.pc # "stopping"
    BY <1>3, StartPcs DEF Starting
  <2> QED  BY <2>1 DEF CancelsAtStop
<1>4. CASE Dispatch
  <2>1. disp.pc # "stopping" /\ disp'.pc # "stopping"
    BY <1>4, DispatchPcs
  <2>2. worker'[b] = worker[b] \/ worker'[b].cancelled = FALSE
    <3>1. ASSUME NEW x \in Book, StartWorker(x) PROVE worker'[b] = worker[b] \/ worker'[b].cancelled = FALSE
      <4>1. CASE x = b
        BY <3>1, <4>1, StartDoes
      <4>2. CASE x # b
        BY <1>0, <3>1, <4>2 DEF StartWorker
      <4> QED  BY <4>1, <4>2
    <3>2. CASE \A x \in Book : ~StartWorker(x)
      BY <1>4, <3>2 DEF Dispatch, StartPass, ReadmitDue, ClearDue, ListBooks, PromoteWaypoint, Collect,
                SkipCandidate, EndPass
    <3> QED  BY <3>1, <3>2
  <2> QED  BY <2>1, <2>2 DEF CancelsAtStop
<1>5. ASSUME UNCHANGED disp, worker'[b] = worker[b] \/ worker'[b].cancelled = worker[b].cancelled \/ Gone(b),
             Running(b)' => Running(b)
      PROVE  /\ worker'[b].cancelled => disp'.pc = "stopping"
             /\ disp'.pc = "stopping" /\ Running(b)' => worker'[b].cancelled
  BY <1>5 DEF CancelsAtStop, Gone, Running
<1>6. ASSUME NEW x \in Book, Work(x)
      PROVE  UNCHANGED disp /\ (worker'[b] = worker[b] \/ worker'[b].cancelled = worker[b].cancelled \/ Gone(b))
  BY <1>6, WorkIsLocal, WorkKeepsCancel
<1>7. ASSUME NEW c \in Client, Handle(c) PROVE UNCHANGED <<disp, worker>>
  <2>1. ~Signal(c)
    BY DEF Signal, CallsMade, CallFits, NoStops
  <2>2. UNCHANGED worker
    BY <1>7, <2>1 DEF Handle, WriteStatus, DropSentinel, ClearStatus, DeleteRow, WipeDir, ReserveForPurge, PurgeDirs,
        PurgeSentinels, PurgeReconcile, PurgePlace, Unreserve, Terminate, CloseOrphan, DropForRerun, RerunPlace
  <2> QED  BY <1>7, <2>2, HandleTouches
<1>8. CASE \/ UNCHANGED vars \/ \E x \in Book : StartupGC(x) \/ TimePasses(x) \/ Enqueue(x)
           \/ \E c \in Client, x \in Book, op \in OpName, s \in Stage \cup {NoState} : Call(c, op, x, s)
  <2>1. UNCHANGED <<disp, worker>>
    BY <1>8 DEF vars, StartupGC, TimePasses, Enqueue, Call
  <2> QED  BY <2>1 DEF CancelsAtStop, Running
<1>9. CASE \A x \in Book : ~StartWorker(x)
  <2>1. Running(b)' => Running(b)
    BY <1>9, OnlyStartAdds DEF NoNewWorker
  <2> QED  BY <2>1, <1>1, <1>2, <1>3, <1>4, <1>5, <1>6, <1>7, <1>8 DEF Next, ClientSteps, Crash, Restart
<1>10. CASE \E x \in Book : StartWorker(x)
  BY <1>4, <1>10 DEF Dispatch
<1> QED  BY <1>9, <1>10

(* What a crash or a stop left open stays the next start's to close. *)
LEMMA LeftoverStays ==
    ASSUME TypeOK, [Next]_vars, NEW b \in Book, Leftover(b)
    PROVE  \/ Leftover(b)'
           \/ CloseRuns(b) /\ Live(b)
           \/ \A s \in Stage : ~(db[b].open[s] > 0)
<1>0. disp \in DispRec
  BY DEF TypeOK, DispOK
<1>1. CASE Reboot \/ Shutdown
  BY <1>1 DEF Reboot, Shutdown, IdleDisp, Leftover
<1>2. CASE Dispatch
  BY <1>2, DispatchPcs DEF Leftover
<1>3. CASE UNCHANGED disp
  BY <1>3 DEF Leftover
<1>4. CASE Start
  <2>1. CASE ListOpenRuns
    <3> DEFINE todo == {x \in Book : \E s \in Stage : db[x].open[s] > 0}
    <3>1. disp' = [disp EXCEPT !.pc = "list", !.todo = todo]
      BY <2>1 DEF ListOpenRuns
    <3>2. disp'.pc = "list" /\ disp'.todo = todo
      BY <1>0, <3>1 DEF DispRec
    <3> QED  BY <3>2 DEF Leftover
  <2>2. ASSUME NEW x \in Book, x # b, CloseRuns(x) PROVE Leftover(b)'
    <3>1. disp' = [disp EXCEPT !.todo = disp.todo \ {x}] \/ disp'.pc = "dead"
      BY <2>2, CloseDoes
    <3>2. disp.pc = "list"
      BY <2>2 DEF CloseRuns
    <3> QED  BY <1>0, <2>2, <3>1, <3>2 DEF Leftover, DispRec
  <2>3. CASE CloseRuns(b)
    BY <2>3, CloseDoes DEF Leftover
  <2>4. ~ListForReconcile
    BY DEF ListForReconcile, Leftover
  <2>5. ~PlaceRewound /\ ~StartGC /\ ~ClearRechecked /\ ~Started
    BY DEF PlaceRewound, StartGC, ClearRechecked, Started, Leftover
  <2>6. \A x \in Book : ~SupersedeLost(x) /\ ~Recheck(x)
    BY DEF SupersedeLost, Recheck, Leftover
  <2> QED  BY <1>4, <2>1, <2>2, <2>3, <2>4, <2>5, <2>6 DEF Start
<1> QED  BY <1>1, <1>2, <1>3, <1>4, LoopSteps

LEMMA WorkAccounts ==
    ASSUME TypeOK, QuietStart, NoWorkOnDeleted, CancelsAtStop, RunsAccounted, NEW b \in Book, Work(b)
    PROVE  \A s \in Stage : /\ db'[b].open[s] <= 1
                            /\ db'[b].open[s] > 0 => (Executing(b)' /\ worker'[b].stage = s) \/ Leftover(b)'
<1> DEFINE w == worker[b].stage
<1>0. /\ db[b].open \in [Stage -> 0..2] /\ Running(b) /\ w \in Stage
      /\ Leftover(b)' <=> Leftover(b)
  BY WorkIsLocal, WorkKeepsCancel DEF TypeOK, DbOK, BookRow, WorkerOK, Leftover
<1>1. /\ disp.pc \in {"close", "dead", "list"} => FALSE
      /\ Leftover(b) => disp.pc = "stopping" /\ worker[b].cancelled
      /\ worker[b].cancelled => Leftover(b)
  BY <1>0 DEF QuietStart, Starting, CancelsAtStop, Leftover
<1>2. \A s \in Stage : db[b].open[s] <= 1 /\ (db[b].open[s] > 0 => (Executing(b) /\ w = s) \/ Leftover(b))
  BY DEF RunsAccounted
<1>3. CASE db'[b].open = db[b].open /\ (Leftover(b) \/ ~Executing(b))
  BY <1>0, <1>2, <1>3
<1>4. CASE Closes(b)
  <2>1. \A s \in Stage : db'[b].open[s] = IF s = w THEN Drop(db[b].open[s]) ELSE db[b].open[s]
    BY <1>0, <1>4 DEF Closes
  <2>2. Drop(db[b].open[w]) = 0
    BY <1>0, <1>2 DEF Drop
  <2>3. \A s \in Stage : db'[b].open[s] <= 1
    BY <1>2, <2>1, <2>2
  <2>4. \A s \in Stage : db'[b].open[s] > 0 => s # w /\ db[b].open[s] > 0
    BY <2>1, <2>2
  <2>5. \A s \in Stage : db'[b].open[s] > 0 => Leftover(b)
    BY <1>2, <2>4
  <2> QED  BY <1>0, <2>3, <2>5
<1>5. CASE SkipStage(b) \/ Advance(b) \/ Commit(b) \/ AutoPurgeDone(b) \/ SetFailedOrParked(b)
  <2>1. db'[b].open = db[b].open
    BY <1>5, SkipDoes, AdvanceDoes, CommitDoes, ReclaimStepDoes, ParkDoes DEF SameRuns, SameRow
  <2>2. ~Executing(b)
    BY <1>5 DEF SkipStage, Advance, Commit, AutoPurgeDone, SetFailedOrParked, Executing
  <2> QED  BY <1>3, <2>1, <2>2
<1>6. CASE OpenRun(b)
  <2>1. ~Executing(b)
    BY <1>6 DEF OpenRun, Executing
  <2>2. CASE Gone(b) /\ UNCHANGED db
    BY <1>3, <2>1, <2>2
  <2>3. CASE /\ CanWrite(b) /\ worker'[b].pc = "exec" /\ KeepsPlan(b)
             /\ db'[b].open = [db[b].open EXCEPT ![w] = Bump(db[b].open[w], 2)]
    <3>1. ~Leftover(b)
      BY <1>1, <2>3 DEF CanWrite
    <3>2. \A s \in Stage : db[b].open[s] = 0
      BY <1>0, <1>2, <2>1, <3>1
    <3>3. \A s \in Stage : db'[b].open[s] = IF s = w THEN 1 ELSE 0
      BY <1>0, <2>3, <3>2 DEF Bump
    <3>4. Executing(b)' /\ worker'[b].stage = w
      BY <2>3 DEF Executing, KeepsPlan, KeepsJob
    <3> QED  BY <3>3, <3>4
  <2> QED  BY <1>6, <2>2, <2>3, OpenDoes
<1>7. CASE ExecSucceeds(b)
  <2>1. UNCHANGED db /\ Executing(b)' /\ worker'[b].stage = w
    BY <1>7, SucceedDoes DEF Executing, KeepsPlan, KeepsJob
  <2> QED  BY <1>0, <1>2, <2>1
<1>8. CASE ExecCanceled(b)
  BY <1>4, <1>8, CancelDoes
<1>9. CASE ExecFaults(b) \/ ExecGivesUp(b)
  <2>1. PICK out : ExecEnds(b, out)
    BY <1>9 DEF ExecFaults, ExecGivesUp
  <2>2. Live(b) /\ (CanWrite(b) \/ Leftover(b))
    BY <1>1, <2>1 DEF ExecEnds, NoWorkOnDeleted, CanWrite
  <2> QED  BY <1>3, <1>4, <2>1, <2>2, EndDoes
<1>10. CASE RecordRun(b)
  <2>1. Live(b) /\ (CanWrite(b) \/ Leftover(b))
    BY <1>1, <1>10 DEF RecordRun, NoWorkOnDeleted, CanWrite
  <2>2. Closes(b) \/ (db'[b].open = db[b].open /\ ~CanWrite(b))
    BY <1>10, RecordDoes
  <2> QED  BY <1>3, <1>4, <2>1, <2>2
<1> QED  BY <1>5, <1>6, <1>7, <1>8, <1>9, <1>10 DEF Work

LEMMA RunsStep ==
    ASSUME TypeOK, QuietStart, NoWorkOnDeleted, CancelsAtStop, RunsAccounted, [Next]_vars
    PROVE  RunsAccounted'
<1> SUFFICES ASSUME NEW b \in Book
             PROVE  \A s \in Stage :
                       /\ db'[b].open[s] <= 1
                       /\ db'[b].open[s] > 0 => (Executing(b)' /\ worker'[b].stage = s) \/ Leftover(b)'
  BY DEF RunsAccounted
<1>0. db \in [Book -> BookRow] /\ worker \in [Book -> WorkerRec]
  BY DEF TypeOK, DbOK, WorkerOK
<1>1. \A s \in Stage : db[b].open[s] <= 1 /\ (db[b].open[s] > 0 => (Executing(b) /\ worker[b].stage = s) \/ Leftover(b))
  BY DEF RunsAccounted
<1>2. CASE db'[b].open = NoRuns
  BY <1>2 DEF NoRuns
<1>3. CASE CloseRuns(b) /\ db'[b].open # NoRuns
  BY <1>1, <1>3, CloseDoes DEF Leftover, QuietStart, Starting, Executing, Running
<1>4. CASE /\ ~CloseRuns(b) /\ db'[b].open = db[b].open
           /\ Executing(b) => Executing(b)' /\ worker'[b].stage = worker[b].stage
  <2>1. Leftover(b) => Leftover(b)' \/ \A s \in Stage : ~(db[b].open[s] > 0)
    BY <1>4, LeftoverStays
  <2> QED  BY <1>1, <1>4, <2>1
<1>5. CASE Work(b)
  BY <1>5, WorkAccounts
<1>6. CASE Untouched(b) /\ ~CloseRuns(b)
  BY <1>4, <1>6 DEF Untouched, SameRow, SameWork, Executing
<1>7. CASE StartupGC(b)
  <2>1. UNCHANGED <<db, disp, worker>>
    BY <1>7 DEF StartupGC
  <2> QED  BY <1>1, <2>1 DEF Executing, Leftover
<1>8. CASE Enqueue(b)
  <2>1. db' = [db EXCEPT ![b] = [db[b] EXCEPT !.row = "live"]] /\ UNCHANGED <<disp, worker>>
    BY <1>0, <1>8 DEF Enqueue
  <2>2. db'[b].open = db[b].open
    BY <1>0, <2>1 DEF BookRow
  <2> QED  BY <1>1, <2>1, <2>2 DEF Executing, Leftover
<1>9. CASE LoopTouching(b)
  <2>1. Executing(b) => Executing(b)' /\ worker'[b].stage = worker[b].stage
    BY <1>9, LoopOpensNone, StartDoes DEF Executing, Running
  <2> QED  BY <1>2, <1>3, <1>4, <1>9, <2>1, LoopOpensNone
<1>10. ASSUME NEW c \in Client, Handle(c), Touching(c, b)
       PROVE  db'[b].open = NoRuns \/ (db'[b].open = db[b].open /\ SameWork(b) /\ UNCHANGED disp)
  BY <1>10, HandleTouches, CallOpensNone
<1>11. CASE \E c \in Client : Handle(c) /\ Touching(c, b)
  <2>1. db'[b].open = NoRuns \/ (db'[b].open = db[b].open /\ SameWork(b) /\ UNCHANGED disp)
    BY <1>10, <1>11
  <2> QED  BY <1>1, <1>2, <2>1 DEF SameWork, Executing, Leftover
<1>12. CASE Reboot
  <2>1. UNCHANGED db /\ disp'.pc = "close"
    BY <1>12 DEF Reboot, IdleDisp
  <2> QED  BY <1>1, <2>1 DEF Leftover
<1> QED  BY <1>5, <1>6, <1>7, <1>8, <1>9, <1>11, <1>12, StepTouches DEF LoopTouching

(* At most one run of a stage is ever open, whatever crashes, shutdowns    *)
(* and faults fall between the steps of a worker, where no control call    *)
(* stops a worker (runStage, CloseOpenStageRuns in Start).                 *)
THEOREM RunsDoNotOverlap == ASSUME NoStops PROVE Spec => []OneOpenRun
<1>1. Init => CancelsAtStop /\ RunsAccounted
  <2> SUFFICES ASSUME Init PROVE CancelsAtStop /\ RunsAccounted
    OBVIOUS
  <2>1. worker = [b \in Book |-> IdleWorker] /\ disp.pc = "close" /\ \A b \in Book : db[b].open = NoRuns
    BY DEF Init, IdleDisp
  <2>2. IdleWorker.pc = "off" /\ IdleWorker.cancelled = FALSE
    BY DEF IdleWorker
  <2> QED  BY <2>1, <2>2 DEF CancelsAtStop, RunsAccounted, Running, NoRuns
<1>2. Init => QuietStart /\ CallsMade /\ TypeOK
  BY QuietInit, CallsInit, InitType
<1>3. TypeOK /\ QuietStart /\ CallsMade /\ CancelsAtStop /\ RunsAccounted /\ NoWorkOnDeleted /\ [Next]_vars
         => (TypeOK /\ QuietStart /\ CallsMade /\ CancelsAtStop /\ RunsAccounted)'
  BY NextType, StartStaysQuiet, CallsStep, CancelStep, RunsStep
<1>4. RunsAccounted => OneOpenRun
  BY DEF RunsAccounted, OneOpenRun
<1> QED  BY <1>1, <1>2, <1>3, <1>4, DeletedBooksRest, PTL DEF Spec

-----------------------------------------------------------------------------
(* Where a worker stands.  With no purge, rerun, retry or readmission by a *)
(* client, the stage a worker runs is the one its book stands at, unless   *)
(* it was started from a stale list: then its sentinel is there and the    *)
(* book stands where that sentinel leads, at a stage with none.  So a      *)
(* stale worker replays a branch and never executes.  Past the series lock *)
(* positions need not be told apart.                                       *)

Past(s)         == ~HoldsSeriesLock(s)
SamePlace(s, t) == s = t \/ (Past(s) /\ Past(t))
LeadsTo(b, s)   == NextState(KindOf[b], s, OutcomeOf(disk[b].done[s], 0)).state
Superseded(b, s) ==
    /\ s \in Stage /\ HasSentinel(b, s)
    /\ SamePlace(db[b].state, LeadsTo(b, s))
    /\ LeadsTo(b, s) \in Stage => ~HasSentinel(b, LeadsTo(b, s))

PlacedAs(b, w) ==
    /\ \/ SamePlace(w.stage, db[b].state)
       \/ Superseded(b, w.stage) /\ w.pc \in {"begin", "advance", "commit", "failing"}
    /\ w.pc = "exec" => ~HasSentinel(b, w.stage)
    /\ w.pc \in {"ran", "advance"} => w.out = disk[b].done[w.stage]
    /\ w.pc = "commit" => /\ HasSentinel(b, w.stage)
                          /\ w.next = LeadsTo(b, w.stage)
                          /\ w.next \in Stage => ~HasSentinel(b, w.next)
WorkerPlaced(b) == Live(b) /\ Running(b) => PlacedAs(b, worker[b])

(* What a pass read of a book, as far as it may be stale. *)
InPass    == disp.pc \in {"waypoints", "fill"}
ListedAs(b, s) == \/ SamePlace(s, db[b].state)
                  \/ Superseded(b, s) /\ (Running(b) => worker[b].stage = s)
Listed(b) == InPass /\ Live(b) /\ disp.seen[b].row = "live" => ListedAs(b, disp.seen[b].state)

(* Rows come and go: what was read stays explained. *)
RowsRead(b) ==
    /\ db[b].row = "new" => StartAt[b] = NotQueued /\ ~Running(b) /\ b \notin gc
    /\ db[b].row # "new" /\ StartAt[b] = NotQueued => "enqueue" \in Ops
    /\ InPass => /\ disp.seen[b].row = "live" => db[b].row # "new"
                 /\ disp.seen[b].row = "deleted" => db[b].row = "deleted"
                 /\ disp.seen[b].row = "new" => StartAt[b] = NotQueued
                 /\ b \in disp.todo => disp.seen[b].row = "live"

(* The startup GC only has finished books to visit. *)
Terminal(b) == disp.seen[b].row = "live" /\ IsTerminal(disp.seen[b].state)
GcPast(b) ==
    /\ b \in gc /\ Live(b) => Past(db[b].state)
    /\ disp.pc \in {"close", "list", "rewind", "place"} => b \notin gc
    /\ disp.pc \in {"rewind", "place"} /\ Terminal(b) =>
          /\ b \notin disp.todo /\ (disp.pc = "place" => disp.book # b)
          /\ db[b].row # "new" /\ (Live(b) => Past(db[b].state))

WipesDeleted == \A c \in Client : client[c].pc = "wipe" => db[client[c].book].row = "deleted"

PlaceInv == \A b \in Book : WorkerPlaced(b) /\ Listed(b) /\ RowsRead(b) /\ GcPast(b)

CalmOps == Ops \cap {"purge", "rerun", "retry", "readmit"} = {}

-----------------------------------------------------------------------------
(* The positions, read off the table. *)

LEMMA PastStates ==
    /\ \A s \in State : Past(s) <=> s \in {"ready", "contributing", "done"}
    /\ \A s \in Stage : Past(s) <=> s = "contributing"
<1>1. \A s \in State : Past(s) <=> s \in {"ready", "contributing", "done"}
  BY OrderOf DEF Past, HoldsSeriesLock, State
<1> QED  BY <1>1, StageList

LEMMA OrderedBeforePast == \A s : RequiresSeriesOrder(s) => s \in Stage /\ ~Past(s) /\ IsAgent(s)
<1>1. \A s : RequiresSeriesOrder(s) => s \in State \ {"queued", "ready", "done", "contributing"}
  BY DEF RequiresSeriesOrder, State
<1>2. \A s : RequiresSeriesOrder(s) => IsAgent(s)
  BY DEF RequiresSeriesOrder, IsAgent, LaneOf, Table, Row, State
<1> QED  BY <1>1, <1>2, PastStates, StageList

LEMMA NoFixesNotSpent == \A s, mark : ~FixBudgetSpent(s, OutcomeOf(mark, 0))
<1>1. \A mark : OutcomeOf(mark, 0).fixAttempts = 0
  BY DEF OutcomeOf
<1>2. ~(0 >= MaxFixAttempts)
  BY MaxFixAttemptsAssumption
<1> QED  BY <1>1, <1>2 DEF FixBudgetSpent

(* A branch taken does not depend on the passes counted, while the budget  *)
(* lasts; a successor is another state and never the queue.                *)
LEMMA NextIgnoresFixes ==
    ASSUME NEW kind \in Kind, NEW s \in Stage, NEW mark, NEW n \in Nat,
           ~FixBudgetSpent(s, OutcomeOf(mark, n))
    PROVE  NextState(kind, s, OutcomeOf(mark, n)).state = NextState(kind, s, OutcomeOf(mark, 0)).state
<1>1. ~FixBudgetSpent(s, OutcomeOf(mark, 0))
  BY NoFixesNotSpent
<1>2. TakesBranch(kind, s, OutcomeOf(mark, n)) = TakesBranch(kind, s, OutcomeOf(mark, 0))
  BY DEF TakesBranch, OutcomeOf
<1> QED  BY <1>1, <1>2 DEF NextState

LEMMA LeadsFacts ==
    ASSUME NEW b \in Book, NEW s \in Stage
    PROVE  /\ LeadsTo(b, s) \in State \ {s, "queued"}
           /\ Past(LeadsTo(b, s)) => s \in {"auditing", "contributing"}
           /\ s = "contributing" => LeadsTo(b, s) = "done"
           /\ LeadsTo(b, s) = "done" => s = "contributing"
<1> DEFINE o == OutcomeOf(disk[b].done[s], 0)
           t == LeadsTo(b, s)
<1>1. ~FixBudgetSpent(s, o)
  BY NoFixesNotSpent
<1>2. t = IF TakesBranch(KindOf[b], s, o) THEN Table[s].cond ELSE Table[s].main
  BY <1>1 DEF NextState, LeadsTo
<1>3. CASE TakesBranch(KindOf[b], s, o)
  <2>1. s \in {"extracting", "inspecting", "qa_sweep", "qa_adjudicating", "auditing"}
    BY <1>3, StageList DEF TakesBranch, State
  <2>2. t \in {"chapter_mapping", "markers_normalizing", "qa_adjudicating", "retranscribing", "fixing"}
        /\ t # s
    BY <1>2, <1>3, <2>1, CondOf
  <2>3. t \in State /\ ~Past(t)
    BY <2>2, PastStates DEF State
  <2> QED  BY <2>1, <2>2, <2>3
<1>4. CASE ~TakesBranch(KindOf[b], s, o)
  <2>1. t = Table[s].main
    BY <1>2, <1>4
  <2>2. s \in State \ {"queued", "ready", "done"}
    BY StageList
  <2>3. t \in State \ {s, "queued"}
    BY <2>1, <2>2, MainOf DEF State
  <2>4. t \in {"ready", "contributing", "done"} => s \in {"auditing", "contributing"}
    BY <2>1, <2>2, MainOf DEF State
  <2>5. (s = "contributing" => t = "done") /\ (t = "done" => s = "contributing")
    BY <2>1, <2>2, MainOf DEF State
  <2> QED  BY <2>3, <2>4, <2>5, PastStates
<1> QED  BY <1>3, <1>4

LEMMA PromotedTo ==
    ASSUME NEW kind \in Kind
    PROVE  /\ NextState(kind, "ready", OutcomeOf("main", 0)).state = "contributing"
           /\ NextState(kind, "queued", OutcomeOf("main", 0)).state \in {"inspecting", "extracting"}
  BY MainOf, CondOf DEF NextState, FixBudgetSpent, TakesBranch

LEMMA Waypoints == \A s \in State : IsWaypoint(s) => s \in {"queued", "ready"}
  BY StageList DEF IsWaypoint, IsTerminal, Stage

LEMMA SamePlaceFacts ==
    /\ \A s : SamePlace(s, s)
    /\ \A s, t : SamePlace(s, t) => SamePlace(t, s) /\ (Past(s) <=> Past(t))
    /\ \A s, t, u : SamePlace(s, t) /\ SamePlace(t, u) => SamePlace(s, u)
  BY DEF SamePlace

(* A reclaim leaves alone the sentinels a book past the lock is judged by. *)
LEMMA ReclaimKeepsPlace ==
    ASSUME TypeOK, NEW b \in Book, NEW s, Past(db[b].state), Superseded(b, s),
           ReclaimDone(b), UNCHANGED db
    PROVE  Superseded(b, s)'
<1>1. s \in {"auditing", "contributing"} /\ s \in Stage /\ LeadsTo(b, s) \in State
  BY LeadsFacts, SamePlaceFacts DEF Superseded
<1>2. disk'[b].done = disk[b].done
      \/ disk'[b].done = [t \in Stage |-> IF t \in InvalidatedStages(KindOf[b]) THEN "absent" ELSE disk[b].done[t]]
  BY ReclaimDoes
<1>3. \A t \in Stage : disk'[b].done[t] = disk[b].done[t] \/ disk'[b].done[t] = "absent"
  BY <1>2
<1>4. disk'[b].done[s] = disk[b].done[s]
  BY <1>1, <1>2 DEF InvalidatedStages
<1>5. LeadsTo(b, s)' = LeadsTo(b, s)
  BY <1>4 DEF LeadsTo
<1>6. LeadsTo(b, s) \in Stage /\ ~HasSentinel(b, LeadsTo(b, s)) => ~HasSentinel(b, LeadsTo(b, s))'
  BY <1>3, <1>5 DEF HasSentinel
<1> QED  BY <1>1, <1>4, <1>5, <1>6 DEF Superseded, HasSentinel

LEMMA SameSuperseded ==
    ASSUME NEW b, NEW s, db'[b].state = db[b].state, disk'[b].done = disk[b].done
    PROVE  /\ Superseded(b, s)' <=> Superseded(b, s)
           /\ LeadsTo(b, s)' = LeadsTo(b, s)
           /\ \A t : HasSentinel(b, t)' <=> HasSentinel(b, t)
  BY DEF Superseded, LeadsTo, HasSentinel

LEMMA PlacedIs ==
    ASSUME NEW b, NEW w, w = worker'[b]
    PROVE  WorkerPlaced(b)' <=> (Live(b)' /\ Running(b)' => PlacedAs(b, w)')
  BY DEF WorkerPlaced, PlacedAs, Superseded, LeadsTo, HasSentinel

LEMMA ListedIs ==
    ASSUME NEW b, NEW s, s = disp'.seen[b].state
    PROVE  Listed(b)' <=> (InPass' /\ Live(b)' /\ disp'.seen[b].row = "live" => ListedAs(b, s)')
  BY DEF Listed, ListedAs, Superseded, LeadsTo, HasSentinel

(* A book whose position, sentinels and worker stand still is as placed as *)
(* before.                                                                 *)
LEMMA ListedStays ==
    ASSUME NEW b \in Book, Listed(b), KeepsRow(b), disk'[b].done = disk[b].done,
           Running(b)' => Running(b) /\ worker'[b].stage = worker[b].stage,
           InPass' => InPass /\ disp'.seen[b] = disp.seen[b]
    PROVE  Listed(b)'
<1> DEFINE s == disp.seen[b].state
<1> SUFFICES ASSUME InPass', Live(b)', disp'.seen[b].row = "live" PROVE Listed(b)'
  BY DEF Listed
<1>1. InPass /\ Live(b) /\ disp'.seen[b] = disp.seen[b] /\ ListedAs(b, s)
  BY DEF KeepsRow, Live, Listed
<1>2. \E t : t = s
  OBVIOUS
<1>3. PICK t : t = s
  BY <1>2
<1>4. ListedAs(b, t)'
  <2>1. Superseded(b, t)' <=> Superseded(b, t)
    BY SameSuperseded DEF KeepsRow
  <2> QED  BY <1>1, <1>3, <2>1 DEF ListedAs, KeepsRow
<1> QED  BY <1>1, <1>3, <1>4, ListedIs

LEMMA PlacedStays ==
    ASSUME NEW b \in Book, WorkerPlaced(b), KeepsRow(b), disk'[b].done = disk[b].done,
           Running(b)' => SameWork(b)
    PROVE  WorkerPlaced(b)'
<1> SUFFICES ASSUME Live(b)', Running(b)' PROVE WorkerPlaced(b)'
  BY DEF WorkerPlaced
<1>1. Live(b) /\ Running(b) /\ PlacedAs(b, worker[b])
  BY DEF KeepsRow, Live, Running, SameWork, WorkerPlaced
<1>2. PICK w : w = worker'[b]
  OBVIOUS
<1>3. /\ Superseded(b, worker[b].stage) => Superseded(b, w.stage)'
      /\ LeadsTo(b, w.stage)' = LeadsTo(b, w.stage)
      /\ \A t : HasSentinel(b, t)' <=> HasSentinel(b, t)
  BY <1>2, SameSuperseded DEF KeepsRow, SameWork
<1>4. PlacedAs(b, w)'
  BY <1>1, <1>2, <1>3 DEF PlacedAs, KeepsRow, HasSentinel, SameWork
<1> QED  BY <1>2, <1>4, PlacedIs

-----------------------------------------------------------------------------
(* A worker keeps to its place. *)

LEMMA WorkerStage ==
    ASSUME TypeOK, NEW b \in Book, Work(b)
    PROVE  /\ Running(b) /\ worker[b].stage \in Stage /\ db[b].state \in State /\ disp.seen[b].state \in State
           /\ UNCHANGED disp
           /\ Running(b)' => worker'[b].stage = worker[b].stage
  BY WorkIsLocal, WorkKeepsCancel, WorkAddsNoWorker
     DEF TypeOK, WorkerOK, DbOK, BookRow, DispOK, DispRec, Views, NoNewWorker

(* The steps that move neither the position nor a sentinel. *)
LEMMA QuietWorkPlaced ==
    ASSUME TypeOK, NEW b \in Book, WorkerPlaced(b), Listed(b), Work(b),
           \/ SkipStage(b) \/ OpenRun(b) \/ ExecCanceled(b) \/ ExecFaults(b) \/ ExecGivesUp(b)
           \/ RecordRun(b) \/ SetFailedOrParked(b)
    PROVE  WorkerPlaced(b)' /\ Listed(b)' /\ KeepsRow(b) /\ disk' = disk
<1> DEFINE w == worker[b]
<1>0. Running(b) /\ UNCHANGED disp /\ (Running(b)' => worker'[b].stage = w.stage)
  BY WorkerStage
<1>1. ASSUME KeepsRow(b), disk' = disk PROVE Listed(b)' /\ KeepsRow(b)
  BY <1>0, <1>1, ListedStays DEF InPass
<1>2. ASSUME KeepsRow(b), disk' = disk, Gone(b) PROVE WorkerPlaced(b)'
  BY <1>2 DEF Gone, WorkerPlaced, Running
<1>3. PICK v : v = worker'[b]
  OBVIOUS
<1>s. PICK st : st = w.stage
  OBVIOUS
<1>4. ASSUME KeepsRow(b), disk' = disk, KeepsPlan(b), v.pc \in {"exec", "advance", "failing"},
             Live(b) => SamePlace(w.stage, db[b].state) \/ (Superseded(b, w.stage) /\ v.pc # "exec"),
             v.pc = "exec" => ~HasSentinel(b, w.stage),
             Live(b) => (v.pc = "advance" => v.out = disk[b].done[w.stage])
      PROVE  WorkerPlaced(b)'
  <2>1. /\ Superseded(b, st)' <=> Superseded(b, st)
        /\ HasSentinel(b, st)' <=> HasSentinel(b, st)
    BY <1>4, SameSuperseded DEF KeepsRow
  <2>2. v.stage = st /\ v.pc # "commit"
    BY <1>3, <1>4, <1>s DEF KeepsPlan, KeepsJob
  <2>3. Live(b)' <=> Live(b)
    BY <1>4 DEF Live, KeepsRow
  <2>4. Live(b)' => PlacedAs(b, v)'
    BY <1>4, <1>s, <2>1, <2>2, <2>3 DEF PlacedAs, KeepsRow
  <2> QED  BY <1>3, <2>4, PlacedIs
<1>5. Live(b) => PlacedAs(b, w)
  BY <1>0 DEF WorkerPlaced
<1>6. CASE SkipStage(b)
  <2>1. /\ w.pc = "begin" /\ v.pc = "advance" /\ v.out = disk[b].done[w.stage] /\ KeepsPlan(b)
        /\ KeepsRow(b) /\ disk' = disk
    BY <1>3, <1>6, SkipDoes DEF KeepsRow
  <2> QED  BY <1>1, <1>4, <1>5, <2>1 DEF PlacedAs
<1>7. CASE OpenRun(b)
  <2>1. /\ w.pc = "begin" /\ ~HasSentinel(b, w.stage) /\ KeepsRow(b) /\ disk' = disk
        /\ Gone(b) \/ (v.pc = "exec" /\ KeepsPlan(b))
    BY <1>3, <1>7, OpenDoes DEF KeepsRow, KeepsOk
  <2>2. Live(b) => SamePlace(w.stage, db[b].state)
    BY <1>5, <2>1 DEF PlacedAs, Superseded
  <2> QED  BY <1>1, <1>2, <1>4, <2>1, <2>2
<1>8. CASE ExecCanceled(b)
  BY <1>1, <1>2, <1>8, CancelDoes DEF KeepsOk
<1>9. CASE ExecFaults(b) \/ ExecGivesUp(b)
  <2>1. PICK out : ExecEnds(b, out)
    BY <1>9 DEF ExecFaults, ExecGivesUp
  <2>2. w.pc = "exec" /\ v.pc = "failing" /\ KeepsPlan(b) /\ KeepsRow(b) /\ disk' = disk
    BY <1>3, <2>1, EndDoes DEF KeepsOk
  <2> QED  BY <1>1, <1>4, <1>5, <2>2 DEF PlacedAs
<1>10. CASE RecordRun(b)
  <2>1. w.pc = "ran" /\ KeepsRow(b) /\ disk' = disk
    BY <1>10, RecordDoes DEF KeepsOk, KeepsRow
  <2>2. \/ Gone(b) \/ (KeepsPlan(b) /\ v.pc = "failing")
        \/ KeepsPlan(b) /\ v.pc = "advance" /\ v.out = w.out
    BY <1>3, <1>10, RecordDoes
  <2> QED  BY <1>1, <1>2, <1>4, <1>5, <2>1, <2>2 DEF PlacedAs
<1>11. CASE SetFailedOrParked(b)
  BY <1>1, <1>2, <1>11, ParkDoes DEF SameRow, KeepsRow
<1> QED  BY <1>6, <1>7, <1>8, <1>9, <1>10, <1>11

LEMMA SucceedPlaced ==
    ASSUME TypeOK, NEW b \in Book, WorkerPlaced(b), Listed(b), ExecSucceeds(b)
    PROVE  WorkerPlaced(b)' /\ Listed(b)' /\ KeepsRow(b)
<1> DEFINE w == worker[b]
<1>0. Work(b)
  BY DEF Work
<1>1. /\ Running(b) /\ UNCHANGED disp /\ w.stage \in Stage
      /\ w.pc = "exec" /\ UNCHANGED db /\ worker'[b].pc = "ran" /\ KeepsPlan(b)
      /\ disk'[b].done = [disk[b].done EXCEPT ![w.stage] = worker'[b].out]
  BY <1>0, SucceedDoes, WorkerStage
<1>2. disk[b].done \in [Stage -> Mark \cup {"absent"}]
  BY DEF TypeOK, DiskOK, WorkDir
<1>3. PICK v : v = worker'[b]
  OBVIOUS
<1>4. PICK s : s = disp.seen[b].state
  OBVIOUS
<1>5. Live(b)' <=> Live(b)
  BY <1>1 DEF Live
<1>6. Live(b) => SamePlace(w.stage, db[b].state) /\ ~HasSentinel(b, w.stage)
  BY <1>1 DEF WorkerPlaced, PlacedAs
<1>7. Live(b)' => PlacedAs(b, v)'
  <2>1. v.stage = w.stage /\ v.pc = "ran" /\ v.out = disk'[b].done[w.stage]
    BY <1>1, <1>2, <1>3 DEF KeepsPlan, KeepsJob
  <2> QED  BY <1>1, <1>5, <1>6, <2>1 DEF PlacedAs
<1>8. InPass /\ Live(b) /\ disp.seen[b].row = "live" => ListedAs(b, s)'
  <2>1. InPass /\ Live(b) /\ disp.seen[b].row = "live" => SamePlace(s, db[b].state)
    BY <1>1, <1>4, <1>6 DEF Listed, ListedAs, Superseded
  <2> QED  BY <1>1, <2>1 DEF ListedAs
<1> QED  BY <1>1, <1>3, <1>4, <1>5, <1>7, <1>8, PlacedIs, ListedIs DEF KeepsRow, InPass

LEMMA AdvancePlaced ==
    ASSUME TypeOK, NEW b \in Book, WorkerPlaced(b), Listed(b), Advance(b)
    PROVE  WorkerPlaced(b)' /\ Listed(b)' /\ KeepsRow(b)
<1> DEFINE w == worker[b]
<1>s. PICK st : st = w.stage
  OBVIOUS
<1>t. PICK t : t = LeadsTo(b, st)
  OBVIOUS
<1>0. Work(b)
  BY DEF Work
<1>1. /\ Running(b) /\ UNCHANGED <<db, disp>> /\ w.stage \in Stage /\ KindOf[b] \in Kind
      /\ Running(b)' => worker'[b].stage = w.stage
  BY <1>0, WorkerStage, AdvanceDoes, ConstantsAssumption
<1>2. /\ disk \in [Book -> WorkDir] /\ disk[b].done \in [Stage -> Mark \cup {"absent"}]
      /\ w.pc = "advance" /\ w.out \in Mark /\ db[b].ok["fixing"] \in Nat
  <2>1. w.pc = "advance"
    BY DEF Advance
  <2>2. "fixing" \in Stage
    BY StageList DEF State
  <2>3. db[b].ok["fixing"] \in Nat
    BY <2>2, RunCapType DEF TypeOK, DbOK, BookRow, RunCount
  <2> QED  BY <2>1, <2>3 DEF TypeOK, DiskOK, WorkDir, WorkerOK
<1>3. KeepsRow(b) /\ (Live(b)' <=> Live(b))
  BY <1>1 DEF KeepsRow, Live
<1>4. Live(b) => PlacedAs(b, w)
  BY <1>1 DEF WorkerPlaced
<1>5. CASE Gone(b) /\ UNCHANGED disk
  <2>1. WorkerPlaced(b)'
    BY <1>5 DEF Gone, WorkerPlaced, Running
  <2> QED  BY <1>1, <1>3, <1>5, <2>1, ListedStays DEF InPass
<1>6. CASE UNCHANGED disk /\ worker'[b].pc = "failing" /\ KeepsPlan(b)
  <2>1. PICK v : v = worker'[b]
    OBVIOUS
  <2>2. Superseded(b, st)' <=> Superseded(b, st)
    BY <1>3, <1>6, SameSuperseded DEF KeepsRow
  <2>3. v.stage = st /\ v.pc = "failing"
    BY <1>6, <1>s, <2>1 DEF KeepsPlan, KeepsJob
  <2>5. Live(b)' => PlacedAs(b, v)'
    BY <1>1, <1>2, <1>3, <1>4, <1>s, <2>2, <2>3 DEF PlacedAs
  <2>4. WorkerPlaced(b)'
    BY <2>1, <2>5, PlacedIs
  <2> QED  BY <1>1, <1>3, <1>6, <2>4, ListedStays DEF InPass
<1>7. ASSUME Live(b), KeepsJob(b), worker'[b].pc = "commit",
             ~FixBudgetSpent(st, OutcomeOf(w.out, db[b].ok["fixing"])),
             worker'[b].next = NextState(KindOf[b], st, OutcomeOf(w.out, db[b].ok["fixing"])).state,
             disk' = [disk EXCEPT ![b] = RemoveSentinels(disk[b], {worker'[b].next})]
      PROVE  WorkerPlaced(b)' /\ Listed(b)'
  <2>1. w.out = disk[b].done[st] /\ HasSentinel(b, st) /\ worker'[b].next = t
    <3>1. w.out = disk[b].done[st]
      BY <1>2, <1>4, <1>7, <1>s DEF PlacedAs
    <3>2. worker'[b].next = NextState(KindOf[b], st, OutcomeOf(w.out, 0)).state
      BY <1>1, <1>2, <1>7, <1>s, NextIgnoresFixes
    <3> QED  BY <1>2, <1>t, <3>1, <3>2 DEF LeadsTo, HasSentinel, Mark
  <2>2. disk'[b].done = [x \in Stage |-> IF x \in {t} THEN "absent" ELSE disk[b].done[x]]
    BY <1>2, <1>7, <2>1 DEF RemoveSentinels, WorkDir
  <2>3. t # st /\ disk'[b].done[st] = disk[b].done[st]
    BY <1>1, <1>s, <1>t, <2>2, LeadsFacts
  <2>4. LeadsTo(b, st)' = t /\ HasSentinel(b, st)' /\ (t \in Stage => ~HasSentinel(b, t)')
    BY <1>t, <2>1, <2>2, <2>3 DEF LeadsTo, HasSentinel
  <2>5. Superseded(b, st) => Superseded(b, st)'
    BY <1>1, <1>t, <2>4 DEF Superseded, HasSentinel
  <2>6. PICK v : v = worker'[b]
    OBVIOUS
  <2>7. v.stage = st /\ v.pc = "commit" /\ v.next = t
    BY <1>7, <1>s, <2>1, <2>6 DEF KeepsJob
  <2>8. PlacedAs(b, v)'
    <3>1. SamePlace(st, db[b].state) \/ Superseded(b, st)
      BY <1>4, <1>7, <1>s DEF PlacedAs
    <3>2. SamePlace(st, db'[b].state) \/ Superseded(b, st)'
      BY <1>1, <2>5, <3>1
    <3> QED  BY <2>4, <2>7, <3>2 DEF PlacedAs, HasSentinel
  <2>9. PICK s : s = disp.seen[b].state
    OBVIOUS
  <2>10. InPass /\ disp.seen[b].row = "live" => ListedAs(b, s)'
    <3>1. InPass /\ disp.seen[b].row = "live" =>
             SamePlace(s, db[b].state) \/ (s = st /\ Superseded(b, st))
      BY <1>1, <1>7, <1>s, <2>9 DEF Listed, ListedAs
    <3> QED  BY <1>1, <1>7, <1>s, <2>5, <3>1 DEF ListedAs, KeepsJob
  <2> QED  BY <1>1, <2>6, <2>8, <2>9, <2>10, PlacedIs, ListedIs DEF InPass
<1>8. ASSUME ~Live(b) PROVE WorkerPlaced(b)' /\ Listed(b)'
  BY <1>3, <1>8 DEF WorkerPlaced, Listed
<1>9. \/ Gone(b) /\ UNCHANGED disk
      \/ UNCHANGED disk /\ worker'[b].pc = "failing" /\ KeepsPlan(b)
      \/ /\ KeepsJob(b) /\ worker'[b].pc = "commit"
         /\ ~FixBudgetSpent(st, OutcomeOf(w.out, db[b].ok["fixing"]))
         /\ worker'[b].next = NextState(KindOf[b], st, OutcomeOf(w.out, db[b].ok["fixing"])).state
         /\ disk' = [disk EXCEPT ![b] = RemoveSentinels(disk[b], {worker'[b].next})]
  BY <1>s, AdvanceDoes
<1> QED  BY <1>3, <1>5, <1>6, <1>7, <1>8, <1>9

LEMMA CommitPlaced ==
    ASSUME TypeOK, NEW b \in Book, WorkerPlaced(b), Listed(b), Commit(b)
    PROVE  /\ WorkerPlaced(b)' /\ Listed(b)' /\ db'[b].row = db[b].row
           /\ Live(b) /\ Past(db[b].state) => Past(db'[b].state)
<1> DEFINE w == worker[b]
<1>s. PICK st : st = w.stage
  OBVIOUS
<1>t. PICK t : t = LeadsTo(b, st)
  OBVIOUS
<1>0. Work(b)
  BY DEF Work
<1>1. /\ Running(b) /\ UNCHANGED disp /\ w.stage \in Stage /\ UNCHANGED disk
      /\ Running(b)' => worker'[b].stage = w.stage
      /\ db'[b].row = db[b].row /\ w.pc = "commit"
  BY <1>0, WorkerStage, CommitDoes DEF SameRuns
<1>2. CASE ~CanWrite(b) /\ Gone(b) /\ UNCHANGED db
  <2>1. WorkerPlaced(b)'
    BY <1>2 DEF Gone, WorkerPlaced, Running
  <2> QED  BY <1>1, <1>2, <2>1, ListedStays DEF InPass, KeepsRow
<1>3. CASE /\ CanWrite(b) /\ db'[b].state = w.next
           /\ Gone(b) \/ (w.next = "done" /\ worker'[b].pc = "purge" /\ KeepsPlan(b))
  <2>1. Live(b) /\ Live(b)' /\ PlacedAs(b, w)
    BY <1>1, <1>3 DEF CanWrite, WorkerPlaced, Live
  <2>2. HasSentinel(b, st) /\ w.next = t /\ (t \in Stage => ~HasSentinel(b, t)) /\ db'[b].state = t
    BY <1>1, <1>3, <1>s, <1>t, <2>1 DEF PlacedAs
  <2>3. /\ t \in State /\ (Past(t) => st \in {"auditing", "contributing"})
        /\ st = "contributing" <=> t = "done"
    BY <1>1, <1>s, <1>t, LeadsFacts
  <2>4. LeadsTo(b, st)' = t /\ Superseded(b, st)'
    <3>1. LeadsTo(b, st)' = t
      BY <1>1, <1>t DEF LeadsTo
    <3> QED  BY <1>1, <1>s, <2>2, <3>1, SamePlaceFacts DEF Superseded, HasSentinel
  <2>5. Past(db[b].state) => Past(db'[b].state)
    <3>1. SamePlace(st, db[b].state) \/ SamePlace(db[b].state, t)
      BY <1>s, <1>t, <2>1 DEF PlacedAs, Superseded
    <3>2. Past(st) => Past(t)
      BY <1>1, <1>s, <2>3, PastStates DEF State
    <3> QED  BY <2>2, <3>1, <3>2, SamePlaceFacts
  <2>6. WorkerPlaced(b)'
    <3>1. CASE Gone(b)
      BY <3>1 DEF Gone, WorkerPlaced, Running
    <3>2. CASE w.next = "done" /\ worker'[b].pc = "purge" /\ KeepsPlan(b)
      <4>1. st = "contributing" /\ db'[b].state = "done"
        BY <2>2, <2>3, <3>2
      <4>2. SamePlace(st, db'[b].state)
        BY <4>1, PastStates DEF SamePlace, State
      <4>3. PICK v : v = worker'[b]
        OBVIOUS
      <4>4. v.stage = st /\ v.pc = "purge"
        BY <1>s, <3>2, <4>3 DEF KeepsPlan, KeepsJob
      <4>5. PlacedAs(b, v)'
        BY <4>2, <4>4 DEF PlacedAs
      <4> QED  BY <4>3, <4>5, PlacedIs
    <3> QED  BY <1>3, <3>1, <3>2
  <2>7. PICK s : s = disp.seen[b].state
    OBVIOUS
  <2>8. InPass /\ disp.seen[b].row = "live" => ListedAs(b, s)'
    <3> SUFFICES ASSUME InPass, disp.seen[b].row = "live" PROVE ListedAs(b, s)'
      OBVIOUS
    <3>1. SamePlace(s, db[b].state) \/ s = st
      BY <1>1, <1>s, <2>1, <2>7 DEF Listed, ListedAs
    <3>2. CASE s = st
      BY <1>1, <1>s, <2>4, <3>2 DEF ListedAs
    <3>3. CASE s # st /\ SamePlace(s, db[b].state)
      <4>1. SamePlace(st, db[b].state) \/ SamePlace(db[b].state, t)
        BY <1>s, <1>t, <2>1 DEF PlacedAs, Superseded
      <4>2. CASE SamePlace(db[b].state, t)
        BY <2>2, <3>3, <4>2, SamePlaceFacts DEF ListedAs
      <4>3. CASE SamePlace(st, db[b].state)
        <5>1. SamePlace(s, st)
          BY <3>3, <4>3, SamePlaceFacts
        <5>2. Past(s) /\ Past(st)
          BY <3>3, <5>1 DEF SamePlace
        <5>3. Past(t)
          BY <1>1, <1>s, <2>3, <5>2, PastStates DEF State
        <5> QED  BY <2>2, <5>2, <5>3 DEF ListedAs, SamePlace
      <4> QED  BY <4>1, <4>2, <4>3
    <3> QED  BY <3>1, <3>2, <3>3
  <2> QED  BY <1>1, <2>1, <2>5, <2>6, <2>7, <2>8, ListedIs DEF InPass
<1> QED  BY <1>2, <1>3, CommitDoes

LEMMA ReclaimPlaced ==
    ASSUME TypeOK, NEW b \in Book, WorkerPlaced(b), Listed(b), ReclaimDone(b), UNCHANGED <<db, disp>>,
           Live(b) => Past(db[b].state), ~Running(b)'
    PROVE  WorkerPlaced(b)' /\ Listed(b)'
<1>1. WorkerPlaced(b)'
  BY DEF WorkerPlaced
<1>2. PICK s : s = disp.seen[b].state
  OBVIOUS
<1>3. InPass /\ Live(b) /\ disp.seen[b].row = "live" => ListedAs(b, s)'
  <2> SUFFICES ASSUME InPass, Live(b), disp.seen[b].row = "live" PROVE ListedAs(b, s)'
    OBVIOUS
  <2>1. SamePlace(s, db[b].state) \/ Superseded(b, s)
    BY <1>2 DEF Listed, ListedAs
  <2>2. Superseded(b, s) => Superseded(b, s)'
    BY ReclaimKeepsPlace
  <2> QED  BY <2>1, <2>2 DEF ListedAs
<1> QED  BY <1>1, <1>2, <1>3, ListedIs DEF InPass, Live

LEMMA WorkKeepsPlace ==
    ASSUME TypeOK, NEW b \in Book, WorkerPlaced(b), Listed(b), Work(b)
    PROVE  /\ WorkerPlaced(b)' /\ Listed(b)' /\ db'[b].row = db[b].row
           /\ Live(b) /\ Past(db[b].state) => Past(db'[b].state)
<1>1. CASE AutoPurgeDone(b)
  <2>1. UNCHANGED <<db, disp>> /\ Gone(b) /\ worker[b].pc = "purge"
    BY <1>1, ReclaimStepDoes, WorkerStage DEF Work
  <2>2. ~Running(b)'
    BY <2>1 DEF Gone, Running
  <2>3. CASE UNCHANGED disk
    <3>1. WorkerPlaced(b)'
      BY <2>2 DEF WorkerPlaced
    <3>2. Listed(b)'
      BY <2>1, <2>2, <2>3, ListedStays DEF KeepsRow, InPass
    <3> QED  BY <2>1, <3>1, <3>2
  <2>4. CASE ReclaimDone(b) /\ ~UNCHANGED disk
    <3>1. Live(b) /\ db[b].state = "done"
      BY <1>1, <2>4 DEF AutoPurgeDone, IsTerminal
    <3>2. Past(db[b].state)
      BY <3>1, PastStates DEF State
    <3> QED  BY <2>1, <2>2, <2>4, <3>2, ReclaimPlaced
  <2> QED  BY <1>1, <2>3, <2>4, ReclaimStepDoes
<1>2. CASE ~AutoPurgeDone(b)
  BY <1>2, QuietWorkPlaced, SucceedPlaced, AdvancePlaced, CommitPlaced DEF Work, KeepsRow
<1> QED  BY <1>1, <1>2

-----------------------------------------------------------------------------
(* With the calls that send a book back left out, a call deletes a row,    *)
(* empties a deleted book's work dir or closes its orphaned runs.          *)

LEMMA CalmTouching ==
    ASSUME TypeOK, CallsMade, CalmOps, NEW b \in Book, NEW c \in Client, Handle(c), Touching(c, b)
    PROVE  DeleteRow(c) \/ WipeDir(c) \/ CloseOrphan(c)
<1>1. /\ client[c].pc # "idle" => client[c].op \in Ops
      /\ client[c].pc \in PurgePc => client[c].op = "purge"
  BY DEF CallsMade, CallFits, TypeOK, ClientOK
<1>2. ~DropSentinel(c) /\ ~PurgePlace(c) /\ ~DropForRerun(c) /\ ~RerunPlace(c)
  BY <1>1 DEF DropSentinel, PurgePlace, DropForRerun, RerunPlace, At, CalmOps
<1>3. ~PurgeSentinels(c) /\ ~PurgeReconcile(c)
  BY <1>1 DEF PurgeSentinels, PurgeReconcile, PurgePc, CalmOps
<1> QED  BY <1>2, <1>3 DEF Touching

LEMMA CalmCallDoes ==
    ASSUME TypeOK, CallsMade, WipesDeleted, CalmOps, NEW b \in Book, NEW c \in Client, Handle(c), Touching(c, b)
    PROVE  /\ SameWork(b) /\ UNCHANGED <<disp, gc>>
           /\ \/ KeepsRow(b) /\ db'[b].ok = db[b].ok /\ disk'[b].done = disk[b].done
              \/ db[b].row # "new" /\ db'[b].row = "deleted" /\ (Live(b) => ~InFlight(b))
<1>0. db \in [Book -> BookRow] /\ client[c].book = b
  BY DEF TypeOK, DbOK, Touching
<1>1. SameWork(b) /\ UNCHANGED <<disp, gc>>
  BY HandleTouches
<1>2. CASE DeleteRow(c)
  <2>1. UNCHANGED disk
    BY <1>2 DEF DeleteRow
  <2>2. CASE InFlight(b) \/ ~Live(b)
    BY <1>0, <1>1, <1>2, <2>1, <2>2 DEF DeleteRow, KeepsRow
  <2>3. CASE ~(InFlight(b) \/ ~Live(b))
    <3>1. db' = [db EXCEPT ![b] = [db[b] EXCEPT !.row = "deleted", !.ok = NoRuns, !.open = NoRuns]]
      BY <1>0, <1>2, <2>3 DEF DeleteRow
    <3>2. db'[b].row = "deleted"
      BY <1>0, <3>1 DEF BookRow
    <3> QED  BY <1>1, <2>3, <3>2 DEF Live
  <2> QED  BY <2>2, <2>3
<1>3. CASE WipeDir(c)
  <2>1. UNCHANGED db /\ db[b].row = "deleted"
    BY <1>0, <1>3 DEF WipeDir, WipesDeleted
  <2> QED  BY <1>1, <2>1 DEF Live
<1>4. CASE CloseOrphan(c)
  <2>1. db' = [db EXCEPT ![b].open = NoRuns] /\ UNCHANGED disk
    BY <1>0, <1>4 DEF CloseOrphan
  <2>2. KeepsRow(b) /\ db'[b].ok = db[b].ok
    BY <1>0, <2>1 DEF KeepsRow, BookRow
  <2> QED  BY <1>1, <2>1, <2>2
<1> QED  BY <1>2, <1>3, <1>4, CalmTouching

LEMMA WorkKeepsRowAlive ==
    ASSUME TypeOK, NEW b \in Book, Work(b)
    PROVE  db'[b].row = db[b].row
<1>1. CASE ExecFaults(b) \/ ExecGivesUp(b)
  <2>1. PICK out : ExecEnds(b, out)
    BY <1>1 DEF ExecFaults, ExecGivesUp
  <2> QED  BY <2>1, EndDoes DEF KeepsOk, KeepsRow
<1>2. CASE ~(ExecFaults(b) \/ ExecGivesUp(b))
  <2>1. CASE SkipStage(b) \/ OpenRun(b) \/ ExecSucceeds(b) \/ ExecCanceled(b)
    BY <2>1, SkipDoes, OpenDoes, SucceedDoes, CancelDoes DEF KeepsOk, KeepsRow
  <2>2. CASE RecordRun(b) \/ SetFailedOrParked(b) \/ Advance(b)
    BY <2>2, RecordDoes, ParkDoes, AdvanceDoes DEF KeepsOk, KeepsRow, SameRow
  <2>3. CASE Commit(b) \/ AutoPurgeDone(b)
    BY <2>3, CommitDoes, ReclaimStepDoes DEF SameRuns
  <2> QED  BY <1>2, <2>1, <2>2, <2>3 DEF Work
<1> QED  BY <1>1, <1>2

(* What the loop does to the row, the sentinels and the worker of the book *)
(* it touches.                                                             *)
LEMMA LoopDoes ==
    ASSUME TypeOK, NEW b \in Book, LoopTouching(b)
    PROVE  /\ db'[b].row = db[b].row
           /\ \/ ReadmitDue(b) /\ KeepsRow(b) /\ UNCHANGED worker /\ disp.pc = "due"
                   /\ (InFlight(b) => UNCHANGED disk) /\ ~InPass'
              \/ PromoteWaypoint(b) /\ UNCHANGED <<disk, worker>> /\ disp.pc = "waypoints"
              \/ StartWorker(b) /\ UNCHANGED <<db, disk>>
              \/ (PlaceRewound /\ disp.book = b /\ disp.pc = "place") /\ UNCHANGED worker /\ Starting /\ ~InPass'
              \/ KeepsRow(b) /\ UNCHANGED worker /\ Starting /\ ~InPass'
<1>0. db \in [Book -> BookRow] /\ disp \in DispRec
  BY DEF TypeOK, DbOK, DispOK
<1>1. CASE ReadmitDue(b)
  <2>1. disp.pc = "due" /\ disp'.pc \in {"due", "clear"} /\ UNCHANGED worker
    BY <1>0, <1>1 DEF ReadmitDue, DispRec
  <2>2. CASE InFlight(b)
    BY <1>1, <2>1, <2>2 DEF ReadmitDue, KeepsRow, InPass
  <2>3. CASE ~InFlight(b)
    <3>1. DropForReadmit(b, disp.seen[b])
      BY <1>1, <2>3 DEF ReadmitDue
    <3> QED  BY <1>1, <2>1, <2>3, <3>1, ReadmitDoes DEF KeepsOpen, KeepsRow, InPass
  <2> QED  BY <2>2, <2>3
<1>2. CASE PromoteWaypoint(b)
  <2>1. disp.pc = "waypoints" /\ UNCHANGED <<disk, worker>>
    BY <1>2 DEF PromoteWaypoint
  <2>2. db'[b].row = db[b].row
    BY <1>2, StateWritten DEF PromoteWaypoint
  <2> QED  BY <1>2, <2>1, <2>2
<1>3. CASE StartWorker(b)
  BY <1>3, StartDoes
<1>4. CASE PlaceRewound /\ disp.book = b
  <2>1. db'[b].row = db[b].row
    BY <1>4, StateWritten DEF PlaceRewound
  <2>2. disp.pc = "place" /\ disp'.pc \in {"rewind", "dead"} /\ UNCHANGED worker
    BY <1>0, <1>4 DEF PlaceRewound, Dead, IdleDisp, DispRec
  <2> QED  BY <1>4, <2>1, <2>2 DEF Starting, InPass
<1>5. CASE CloseRuns(b) \/ SupersedeLost(b) \/ Recheck(b)
  <2>1. Start
    BY <1>5 DEF Start
  <2>2. UNCHANGED worker /\ Starting /\ ~InPass'
    BY <2>1, StartPcs DEF Starting, InPass
  <2>3. KeepsRow(b)
    BY <1>5, CloseDoes, RewindDoes, ReadmitDoes DEF Recheck, KeepsOpen, KeepsOk
  <2> QED  BY <2>2, <2>3 DEF KeepsRow
<1> QED  BY <1>1, <1>2, <1>3, <1>4, <1>5 DEF LoopTouching

(* A row appears by being enqueued and goes by being deleted. *)
LEMMA RowSteps ==
    ASSUME TypeOK, CallsMade, WipesDeleted, CalmOps, [Next]_vars, NEW b \in Book
    PROVE  \/ db'[b].row = db[b].row
           \/ Enqueue(b) /\ db[b].row = "new" /\ db'[b].row = "live" /\ "enqueue" \in Ops
           \/ db[b].row # "new" /\ db'[b].row = "deleted" /\ (Live(b) => ~InFlight(b))
<1>0. db \in [Book -> BookRow]
  BY DEF TypeOK, DbOK
<1>1. CASE Enqueue(b)
  BY <1>0, <1>1 DEF Enqueue, BookRow
<1>2. CASE StartupGC(b) \/ Reboot
  BY <1>2 DEF StartupGC, Reboot
<1>3. CASE \E c \in Client : Handle(c) /\ Touching(c, b)
  BY <1>3, CalmCallDoes DEF KeepsRow
<1> QED  BY <1>1, <1>2, <1>3, StepTouches, WorkKeepsRowAlive, LoopDoes DEF Untouched, SameRow

(* What a pass read of a book changes when it lists the books or promotes  *)
(* that one.                                                               *)
LEMMA SeenSteps ==
    ASSUME TypeOK, [Next]_vars, InPass', NEW b \in Book
    PROVE  \/ ListBooks
           \/ /\ InPass /\ disp'.seen[b].row = disp.seen[b].row
              /\ b \in disp'.todo => b \in disp.todo \/ disp.seen[b].row = "live"
              /\ disp'.seen[b] = disp.seen[b] \/ PromoteWaypoint(b)
              /\ disp'.pc = "fill" /\ b \in disp'.todo =>
                    \/ Collect
                    \/ disp.pc = "fill" /\ b \in disp.todo /\ disp'.seen[b] = disp.seen[b]
<1>0. disp \in DispRec
  BY DEF TypeOK, DispOK
<1>1. CASE UNCHANGED disp
  BY <1>1 DEF InPass
<1>2. ~Start /\ ~Reboot /\ ~Shutdown
  <2>1. ~Reboot /\ ~Shutdown
    BY DEF Reboot, Shutdown, IdleDisp, InPass
  <2>2. ~Start
    BY StartPcs DEF Starting, InPass
  <2> QED  BY <2>1, <2>2
<1>3. CASE StartPass \/ ClearDue \/ EndPass \/ (\E x \in Book : ReadmitDue(x))
  <2>1. CASE StartPass
    <3>1. \E todo, seen : disp' = [disp EXCEPT !.pc = "due", !.todo = todo, !.seen = seen]
      BY <2>1 DEF StartPass
    <3> QED  BY <1>0, <3>1 DEF InPass, DispRec
  <2>2. CASE ClearDue
    BY <1>0, <2>2 DEF ClearDue, InPass, DispRec
  <2>3. ASSUME NEW x \in Book, ReadmitDue(x) PROVE FALSE
    BY <1>0, <2>3 DEF ReadmitDue, InPass, DispRec
  <2>4. CASE EndPass
    BY <2>4 DEF EndPass, IdleDisp, InPass
  <2> QED  BY <1>3, <2>1, <2>2, <2>3, <2>4
<1>4. CASE Collect
  <2>1. PICK todo, free : /\ disp' = [disp EXCEPT !.pc = "fill", !.todo = todo, !.free = free]
                          /\ \A x \in todo : disp.seen[x].row = "live"
    BY <1>4 DEF Collect
  <2>2. disp'.seen = disp.seen /\ disp'.todo = todo /\ disp.pc = "waypoints"
    BY <1>0, <1>4, <2>1 DEF Collect, DispRec
  <2> QED  BY <1>4, <2>1, <2>2 DEF InPass
<1>5. ASSUME NEW x \in Book, PromoteWaypoint(x)
      PROVE  /\ InPass /\ disp'.seen[b].row = disp.seen[b].row /\ disp'.pc # "fill"
             /\ b \in disp'.todo => b \in disp.todo
             /\ disp'.seen[b] = disp.seen[b] \/ PromoteWaypoint(b)
  <2>1. disp.pc = "waypoints" /\ disp.seen \in [Book -> Views]
    BY <1>0, <1>5 DEF PromoteWaypoint, DispRec
  <2>2. PICK s : disp' = [disp EXCEPT !.todo = disp.todo \ {x},
                             !.seen = IF Live(x) THEN [disp.seen EXCEPT ![x].state = s] ELSE disp.seen]
    BY <1>5 DEF PromoteWaypoint
  <2>3. /\ disp'.pc = disp.pc /\ disp'.todo = disp.todo \ {x}
        /\ disp'.seen = disp.seen \/ disp'.seen = [disp.seen EXCEPT ![x].state = s]
    BY <1>0, <2>2 DEF DispRec
  <2>4. disp'.seen[b].row = disp.seen[b].row
    BY <2>1, <2>3 DEF Views
  <2>5. x # b => disp'.seen[b] = disp.seen[b]
    BY <2>1, <2>3
  <2> QED  BY <1>5, <2>1, <2>3, <2>4, <2>5 DEF InPass
<1>6. ASSUME NEW x \in Book, StartWorker(x) \/ SkipCandidate(x)
      PROVE  disp.pc = "fill" /\ disp'.seen = disp.seen /\ (b \in disp'.todo => b \in disp.todo)
  <2>1. \E free : \/ disp' = [disp EXCEPT !.todo = disp.todo \ {x}, !.free = free]
                  \/ disp' = [disp EXCEPT !.todo = disp.todo \ {x}]
    BY <1>6 DEF StartWorker, SkipCandidate
  <2> QED  BY <1>0, <1>6, <2>1 DEF StartWorker, SkipCandidate, DispRec
<1>7. CASE Dispatch
  BY <1>3, <1>4, <1>5, <1>6, <1>7 DEF Dispatch, InPass
<1> QED  BY <1>1, <1>2, <1>7, LoopSteps

LEMMA ListDoes ==
    ASSUME TypeOK, ListBooks, NEW b \in Book
    PROVE  /\ UNCHANGED <<db, disk, worker, gc>> /\ disp.pc = "due" /\ disp'.pc = "waypoints"
           /\ disp'.seen[b].row = db[b].row /\ disp'.seen[b].state = db[b].state
           /\ b \in disp'.todo => Live(b)
<1>0. disp \in DispRec
  BY DEF TypeOK, DispOK
<1>1. PICK todo : /\ disp' = [disp EXCEPT !.pc = "waypoints", !.seen = [x \in Book |-> View(x)], !.todo = todo]
                  /\ \A x \in todo : Live(x)
  BY DEF ListBooks
<1>2. disp'.seen[b] = View(b) /\ disp'.todo = todo /\ disp'.pc = "waypoints"
  BY <1>0, <1>1 DEF DispRec
<1> QED  BY <1>1, <1>2 DEF ListBooks, View, DispOnly

(* A waypoint is promoted where it stood when it was listed. *)
LEMMA PromoteDoes ==
    ASSUME TypeOK, NEW b \in Book, WorkerPlaced(b), Listed(b), RowsRead(b), PromoteWaypoint(b)
    PROVE  /\ disp'.pc = disp.pc /\ UNCHANGED <<disk, worker>>
           /\ ~Live(b) => UNCHANGED db /\ disp'.seen = disp.seen
           /\ Live(b) => /\ disp'.seen[b].state = db'[b].state
                         /\ db'[b].state \in {"contributing", "inspecting", "extracting"}
                         /\ \/ Past(db[b].state) /\ Past(db'[b].state)
                            \/ ~Past(db[b].state) /\ ~Running(b)
<1>0. disp \in DispRec /\ disp.seen \in [Book -> Views] /\ KindOf[b] \in Kind
      /\ db[b].state \in State /\ disp.seen[b].state \in State
  BY ConstantsAssumption DEF TypeOK, DispOK, DispRec, Views, DbOK, BookRow
<1>1. PICK s : s = disp.seen[b].state
  OBVIOUS
<1>2. PICK next : next = NextState(KindOf[b], s, OutcomeOf("main", 0)).state
  OBVIOUS
<1>3. /\ disp.pc = "waypoints" /\ b \in disp.todo /\ UNCHANGED <<disk, worker>>
      /\ SetBookState(b, next, "none", NoCode)
      /\ disp' = [disp EXCEPT !.todo = disp.todo \ {b},
                              !.seen = IF Live(b) THEN [disp.seen EXCEPT ![b].state = next] ELSE disp.seen]
  BY <1>1, <1>2 DEF PromoteWaypoint
<1>4. IsWaypoint(s) /\ disp.seen[b].row = "live"
  BY <1>1, <1>3 DEF TypeOK, DispOK, RowsRead, InPass
<1>5. s \in {"queued", "ready"} /\ s \notin Stage
  BY <1>0, <1>1, <1>4, Waypoints DEF IsWaypoint, Stage
<1>6. disp'.pc = disp.pc /\ disp'.seen = IF Live(b) THEN [disp.seen EXCEPT ![b].state = next] ELSE disp.seen
  BY <1>0, <1>3 DEF DispRec
<1>7. ~Live(b) => UNCHANGED db /\ disp'.seen = disp.seen
  BY <1>3, <1>6 DEF SetBookState
<1>8. ASSUME Live(b)
      PROVE  /\ disp'.seen[b].state = db'[b].state
             /\ db'[b].state \in {"contributing", "inspecting", "extracting"}
             /\ \/ Past(db[b].state) /\ Past(db'[b].state)
                \/ ~Past(db[b].state) /\ ~Running(b)
  <2>1. db'[b].state = next
    BY <1>3, <1>8, StateWritten
  <2>2. disp'.seen[b].state = next
    BY <1>0, <1>6, <1>8 DEF Views
  <2>3. SamePlace(s, db[b].state)
    BY <1>1, <1>3, <1>4, <1>5, <1>8 DEF Listed, ListedAs, InPass, Superseded
  <2>4. CASE s = "ready"
    <3>1. next = "contributing"
      BY <1>0, <1>2, <2>4, PromotedTo
    <3> QED  BY <2>1, <2>2, <2>3, <2>4, <3>1, PastStates, SamePlaceFacts DEF State
  <2>5. CASE s = "queued"
    <3>1. db[b].state = "queued" /\ ~Past("queued")
      BY <2>3, <2>5, PastStates DEF SamePlace, State
    <3>2. ASSUME Running(b) PROVE FALSE
      <4>1. worker[b].stage \in Stage /\ PlacedAs(b, worker[b])
        BY <1>8, <3>2 DEF TypeOK, WorkerOK, WorkerPlaced
      <4>2. worker[b].stage # "queued"
        BY <4>1, StageList
      <4>3. Superseded(b, worker[b].stage)
        BY <3>1, <4>1, <4>2 DEF PlacedAs, SamePlace
      <4>4. LeadsTo(b, worker[b].stage) = "queued"
        BY <3>1, <4>3 DEF Superseded, SamePlace
      <4> QED  BY <4>1, <4>4, LeadsFacts
    <3>3. next \in {"inspecting", "extracting"}
      BY <1>0, <1>2, <2>5, PromotedTo
    <3> QED  BY <2>1, <2>2, <3>1, <3>2, <3>3
  <2> QED  BY <1>5, <2>4, <2>5
<1> QED  BY <1>3, <1>6, <1>7, <1>8

(* Only a rewind moves a book back over the series lock. *)
LEMMA PastStays ==
    ASSUME TypeOK, CallsMade, WipesDeleted, CalmOps, [Next]_vars, NEW b \in Book,
           WorkerPlaced(b), Listed(b), RowsRead(b),
           Live(b), Past(db[b].state), ~(disp.pc = "place" /\ disp.book = b)
    PROVE  Live(b)' => Past(db'[b].state)
<1>1. CASE LoopTouching(b)
  <2>1. CASE PromoteWaypoint(b)
    BY <2>1, PromoteDoes
  <2>2. CASE ~PromoteWaypoint(b)
    BY <1>1, <2>2, LoopDoes DEF KeepsRow
  <2> QED  BY <2>1, <2>2
<1>2. CASE \E c \in Client : Handle(c) /\ Touching(c, b)
  BY <1>2, CalmCallDoes DEF KeepsRow, Live
<1>3. CASE StartupGC(b) \/ Reboot
  BY <1>3 DEF StartupGC, Reboot
<1>4. CASE Enqueue(b)
  BY <1>4 DEF Enqueue, Live
<1> QED  BY <1>1, <1>2, <1>3, <1>4, StepTouches, WorkKeepsPlace DEF Untouched, SameRow

PlacedBook(b) == WorkerPlaced(b) /\ Listed(b) /\ RowsRead(b) /\ GcPast(b)

LEMMA WorkerPlacedStep ==
    ASSUME TypeOK, CallsMade, WipesDeleted, CalmOps, QuietStart, [Next]_vars, NEW b \in Book, PlacedBook(b)
    PROVE  WorkerPlaced(b)'
<1> USE DEF PlacedBook
<1>1. CASE Untouched(b)
  BY <1>1, PlacedStays DEF Untouched, SameRow, SameMarks, KeepsRow
<1>2. CASE Work(b)
  BY <1>2, WorkKeepsPlace
<1>3. CASE StartupGC(b)
  <2>1. b \in gc /\ UNCHANGED <<db, worker, disp>>
    BY <1>3 DEF StartupGC
  <2>2. CASE ~InFlight(b) /\ ReclaimDone(b)
    <3>1. ~Running(b)'
      BY <2>1, <2>2 DEF InFlight, Running
    <3> QED  BY <2>1, <2>2, <3>1, ReclaimPlaced DEF GcPast
  <2>3. CASE UNCHANGED disk
    BY <2>1, <2>3, PlacedStays DEF KeepsRow, SameWork
  <2> QED  BY <1>3, <2>2, <2>3 DEF StartupGC
<1>4. CASE Enqueue(b)
  <2>1. ~Running(b)'
    BY <1>4 DEF Enqueue, RowsRead, Running
  <2> QED  BY <2>1 DEF WorkerPlaced
<1>5. CASE LoopTouching(b)
  <2>1. CASE ReadmitDue(b)
    <3>1. KeepsRow(b) /\ UNCHANGED worker /\ (InFlight(b) => UNCHANGED disk)
      BY <1>5, <2>1, LoopDoes DEF PromoteWaypoint, StartWorker, PlaceRewound, ReadmitDue, Starting
    <3>2. CASE Running(b)
      BY <3>1, <3>2, PlacedStays DEF InFlight, SameWork
    <3>3. CASE ~Running(b)
      BY <3>1, <3>3 DEF WorkerPlaced, Running
    <3> QED  BY <3>2, <3>3
  <2>2. CASE PromoteWaypoint(b)
    <3>1. CASE ~Live(b)
      BY <2>2, <3>1, PromoteDoes DEF WorkerPlaced, Live
    <3>2. CASE Live(b) /\ ~Past(db[b].state)
      <4>1. ~Running(b)'
        BY <2>2, <3>2, PromoteDoes DEF Running
      <4> QED  BY <4>1 DEF WorkerPlaced
    <3>3. CASE Live(b) /\ Past(db[b].state)
      <4>1. UNCHANGED <<disk, worker>> /\ Past(db'[b].state)
        BY <2>2, <3>3, PromoteDoes
      <4> SUFFICES ASSUME Running(b)' PROVE WorkerPlaced(b)'
        BY DEF WorkerPlaced
      <4>2. Running(b) /\ PlacedAs(b, worker[b])
        BY <3>3, <4>1 DEF WorkerPlaced, Running
      <4>3. PICK w : w = worker'[b]
        OBVIOUS
      <4>4. w = worker[b]
        BY <4>1, <4>3
      <4>5. SamePlace(w.stage, db[b].state) => SamePlace(w.stage, db'[b].state)
        BY <3>3, <4>1, SamePlaceFacts DEF SamePlace
      <4>6. Superseded(b, w.stage) => Superseded(b, w.stage)'
        BY <3>3, <4>1, SamePlaceFacts DEF Superseded, LeadsTo, HasSentinel, SamePlace
      <4>7. PlacedAs(b, w)'
        BY <4>1, <4>2, <4>4, <4>5, <4>6 DEF PlacedAs, LeadsTo, HasSentinel
      <4> QED  BY <4>3, <4>7, PlacedIs
    <3> QED  BY <3>1, <3>2, <3>3
  <2>3. CASE StartWorker(b)
    <3>1. /\ disp.pc = "fill" /\ b \in disp.todo /\ UNCHANGED <<db, disk>>
          /\ worker'[b].pc = "begin" /\ worker'[b].stage = disp.seen[b].state
      BY <2>3, StartDoes
    <3>2. Live(b) => ListedAs(b, disp.seen[b].state)
      BY <3>1 DEF Listed, RowsRead, InPass
    <3>3. PICK w : w = worker'[b]
      OBVIOUS
    <3>4. Live(b) => PlacedAs(b, w)'
      BY <3>1, <3>2, <3>3 DEF ListedAs, PlacedAs, Superseded, LeadsTo, HasSentinel
    <3> QED  BY <3>1, <3>3, <3>4, PlacedIs DEF Live
  <2>4. CASE UNCHANGED worker /\ Starting
    BY <2>4 DEF QuietStart, WorkerPlaced, Running
  <2> QED  BY <1>5, <2>1, <2>2, <2>3, <2>4, LoopDoes
<1>6. CASE \E c \in Client : Handle(c) /\ Touching(c, b)
  <2>1. CASE KeepsRow(b) /\ disk'[b].done = disk[b].done /\ SameWork(b)
    BY <2>1, PlacedStays
  <2>2. CASE db'[b].row = "deleted"
    BY <2>2 DEF WorkerPlaced, Live
  <2> QED  BY <1>6, <2>1, <2>2, CalmCallDoes
<1>7. CASE Reboot
  <2>1. worker' = [x \in Book |-> IdleWorker] /\ IdleWorker.pc = "off"
    BY <1>7 DEF Reboot, IdleWorker
  <2>2. ~Running(b)'
    BY <2>1 DEF Running
  <2> QED  BY <2>2 DEF WorkerPlaced
<1> QED  BY <1>1, <1>2, <1>3, <1>4, <1>5, <1>6, <1>7, StepTouches

LEMMA ListedStep ==
    ASSUME TypeOK, CallsMade, WipesDeleted, CalmOps, QuietStart, [Next]_vars, NEW b \in Book, PlacedBook(b)
    PROVE  Listed(b)'
<1> USE DEF PlacedBook
<1> SUFFICES ASSUME InPass', Live(b)', disp'.seen[b].row = "live" PROVE Listed(b)'
  BY DEF Listed
<1>s. PICK s : s = disp'.seen[b].state
  OBVIOUS
<1>1. CASE ListBooks
  <2>1. s = db'[b].state
    BY <1>1, <1>s, ListDoes
  <2>2. ListedAs(b, s)'
    BY <2>1, SamePlaceFacts DEF ListedAs
  <2> QED  BY <1>s, <2>2, ListedIs
<1>2. CASE PromoteWaypoint(b) /\ disp'.seen[b] # disp.seen[b]
  <2>1. s = db'[b].state
    BY <1>2, <1>s, PromoteDoes
  <2>2. ListedAs(b, s)'
    BY <2>1, SamePlaceFacts DEF ListedAs
  <2> QED  BY <1>s, <2>2, ListedIs
<1>3. CASE PromoteWaypoint(b) /\ disp'.seen[b] = disp.seen[b]
  <2>1. s = db'[b].state
    BY <1>3, <1>s, PromoteDoes DEF Live
  <2>2. ListedAs(b, s)'
    BY <2>1, SamePlaceFacts DEF ListedAs
  <2> QED  BY <1>s, <2>2, ListedIs
<1>4. CASE InPass /\ disp'.seen[b] = disp.seen[b] /\ ~PromoteWaypoint(b)
  <2>1. CASE Untouched(b)
    BY <1>4, <2>1, ListedStays DEF Untouched, SameRow, SameMarks, SameWork, KeepsRow, Running
  <2>2. CASE Work(b)
    BY <2>2, WorkKeepsPlace
  <2>3. CASE StartupGC(b)
    <3>1. b \in gc /\ UNCHANGED <<db, worker, disp>>
      BY <2>3 DEF StartupGC
    <3>2. CASE ~InFlight(b) /\ ReclaimDone(b)
      <4>1. ~Running(b)'
        BY <3>1, <3>2 DEF InFlight, Running
      <4> QED  BY <3>1, <3>2, <4>1, ReclaimPlaced DEF GcPast
    <3>3. CASE UNCHANGED disk
      BY <1>4, <3>1, <3>3, ListedStays DEF KeepsRow, Running
    <3> QED  BY <2>3, <3>2, <3>3 DEF StartupGC
  <2>4. CASE Enqueue(b)
    BY <1>4, <2>4 DEF Enqueue, RowsRead
  <2>5. CASE LoopTouching(b)
    <3>1. StartWorker(b)
      BY <1>4, <2>5, LoopDoes
    <3>2. UNCHANGED <<db, disk>> /\ worker'[b].stage = disp.seen[b].state
      BY <3>1, StartDoes
    <3>3. ListedAs(b, s)
      BY <1>4, <1>s, <3>2 DEF Listed, Live
    <3>4. ListedAs(b, s)'
      BY <1>4, <1>s, <3>2, <3>3 DEF ListedAs, Superseded, LeadsTo, HasSentinel
    <3> QED  BY <1>s, <3>4, ListedIs
  <2>6. CASE \E c \in Client : Handle(c) /\ Touching(c, b)
    <3>1. KeepsRow(b) /\ disk'[b].done = disk[b].done /\ SameWork(b)
      BY <2>6, CalmCallDoes DEF Live
    <3> QED  BY <1>4, <3>1, ListedStays DEF SameWork, Running
  <2>7. CASE Reboot
    BY <2>7 DEF Reboot, InPass, IdleDisp
  <2> QED  BY <2>1, <2>2, <2>3, <2>4, <2>5, <2>6, <2>7, StepTouches
<1> QED  BY <1>1, <1>2, <1>3, <1>4, SeenSteps

(* What the start sequence and the startup GC have to go through.          *)
LEMMA GcSteps ==
    ASSUME TypeOK, [Next]_vars, NEW b \in Book, b \in gc'
    PROVE  b \in gc \/ (StartGC /\ Terminal(b))
<1>1. ASSUME NEW x \in Book, Work(x) PROVE UNCHANGED gc
  BY <1>1, WorkIsLocal
<1>2. ASSUME NEW x \in Book, StartupGC(x) \/ TimePasses(x) \/ Enqueue(x) PROVE gc' \subseteq gc
  BY <1>2 DEF StartupGC, TimePasses, Enqueue
<1>3. CASE Start
  BY <1>3 DEF Start, ListOpenRuns, CloseRuns, ListForReconcile, SupersedeLost, PlaceRewound, StartGC, Recheck,
              ClearRechecked, Started, DispOnly, Terminal
<1>4. CASE Dispatch
  BY <1>4 DEF Dispatch, DispOnly, StartPass, ReadmitDue, ClearDue, ListBooks, PromoteWaypoint, Collect,
              StartWorker, SkipCandidate, EndPass
<1>5. ASSUME NEW c \in Client, Handle(c) PROVE UNCHANGED gc
  BY <1>5, HandleTouches
<1>6. ASSUME NEW c \in Client, NEW x \in Book, NEW op \in OpName, NEW s \in Stage \cup {NoState}, Call(c, op, x, s)
      PROVE  UNCHANGED gc
  BY <1>6 DEF Call
<1>7. CASE Crash \/ Shutdown \/ Restart
  BY <1>7 DEF Crash, Shutdown, Restart, Reboot
<1> QED  BY <1>1, <1>2, <1>3, <1>4, <1>5, <1>6, <1>7 DEF Next, ClientSteps, vars

ReadsTable == disp.pc \in {"close", "list", "rewind", "place"}
Rewinding  == disp.pc \in {"rewind", "place"}

LEMMA StartReads ==
    ASSUME TypeOK, Start
    PROVE  /\ ReadsTable' => ReadsTable /\ UNCHANGED gc
           /\ Rewinding' => \/ ListForReconcile
                            \/ /\ Rewinding /\ disp'.seen = disp.seen /\ disp'.todo \subseteq disp.todo
                               /\ disp'.pc = "place" => disp'.book \in disp.todo /\ disp'.book \notin disp'.todo
<1>0. disp \in DispRec
  BY DEF TypeOK, DispOK
<1> USE DEF ReadsTable, Rewinding
<1>1. CASE ListOpenRuns
  <2>1. \E todo : disp' = [disp EXCEPT !.pc = "list", !.todo = todo]
    BY <1>1 DEF ListOpenRuns
  <2> QED  BY <1>0, <1>1, <2>1 DEF ListOpenRuns, DispRec, DispOnly
<1>2. CASE ListForReconcile
  BY <1>0, <1>2 DEF ListForReconcile, DispOnly
<1>3. CASE PlaceRewound
  BY <1>0, <1>3 DEF PlaceRewound, Dead, IdleDisp, DispRec, DispOnly
<1>4. CASE StartGC
  <2>1. \E todo, seen : disp' = [disp EXCEPT !.pc = "recheck", !.seen = seen, !.todo = todo]
    BY <1>4 DEF StartGC
  <2> QED  BY <1>0, <2>1 DEF DispRec
<1>5. CASE ClearRechecked
  BY <1>0, <1>5 DEF ClearRechecked, DispRec
<1>6. CASE Started
  BY <1>6 DEF Started, IdleDisp
<1>7. ASSUME NEW b \in Book, CloseRuns(b)
      PROVE  disp.pc = "list" /\ disp'.pc \in {"list", "dead"} /\ UNCHANGED gc
  BY <1>0, <1>7 DEF CloseRuns, Dead, IdleDisp, DispRec, DispOnly
<1>8. ASSUME NEW b \in Book, SupersedeLost(b)
      PROVE  /\ disp.pc = "rewind" /\ UNCHANGED gc /\ disp'.seen = disp.seen /\ disp'.todo \subseteq disp.todo
             /\ disp'.pc = "place" => disp'.book \in disp.todo /\ disp'.book \notin disp'.todo
  <2>1. \/ disp' = [disp EXCEPT !.todo = disp.todo \ {b}]
        \/ \E s : disp' = [disp EXCEPT !.pc = "place", !.todo = disp.todo \ {b}, !.book = b, !.stage = s]
    BY <1>8 DEF SupersedeLost
  <2>2. disp.pc = "rewind" /\ UNCHANGED gc /\ b \in disp.todo
    BY <1>8 DEF SupersedeLost, DispOnly
  <2>3. /\ disp'.seen = disp.seen /\ disp'.todo = disp.todo \ {b}
        /\ disp'.pc = disp.pc \/ (disp'.pc = "place" /\ disp'.book = b)
    BY <1>0, <2>1 DEF DispRec
  <2> QED  BY <2>2, <2>3
<1>9. ASSUME NEW b \in Book, Recheck(b) PROVE disp'.pc = "reclear"
  BY <1>0, <1>9 DEF Recheck, DispRec
<1> QED  BY <1>1, <1>2, <1>3, <1>4, <1>5, <1>6, <1>7, <1>8, <1>9 DEF Start

LEMMA RowsReadStep ==
    ASSUME TypeOK, CallsMade, WipesDeleted, CalmOps, [Next]_vars, NEW b \in Book, PlacedBook(b)
    PROVE  RowsRead(b)'
<1> USE DEF PlacedBook
<1>0. \/ db'[b].row = db[b].row
      \/ Enqueue(b) /\ db[b].row = "new" /\ db'[b].row = "live" /\ "enqueue" \in Ops
      \/ db[b].row # "new" /\ db'[b].row = "deleted"
  BY RowSteps
<1>1. db'[b].row = "new" => StartAt[b] = NotQueued /\ ~Running(b)' /\ b \notin gc'
  <2> SUFFICES ASSUME db'[b].row = "new" PROVE StartAt[b] = NotQueued /\ ~Running(b)' /\ b \notin gc'
    OBVIOUS
  <2>1. db[b].row = "new" /\ StartAt[b] = NotQueued /\ ~Running(b) /\ b \notin gc
    BY <1>0 DEF RowsRead
  <2>2. ~Running(b)'
    <3>1. ~StartWorker(b)
      BY <2>1, StartDoes DEF RowsRead, InPass
    <3>2. CASE Untouched(b)
      BY <2>1, <3>2 DEF Untouched, SameWork, Running
    <3>3. CASE Work(b)
      BY <2>1, <3>3, WorkerStage
    <3>4. CASE StartupGC(b) \/ Enqueue(b)
      BY <2>1, <3>4 DEF StartupGC, Enqueue, Running
    <3>5. CASE LoopTouching(b)
      BY <2>1, <3>1, <3>5, LoopDoes DEF Running
    <3>6. CASE \E c \in Client : Handle(c) /\ Touching(c, b)
      BY <2>1, <3>6, CalmCallDoes DEF SameWork, Running
    <3>7. CASE Reboot
      <4>1. worker' = [x \in Book |-> IdleWorker] /\ IdleWorker.pc = "off"
        BY <3>7 DEF Reboot, IdleWorker
      <4> QED  BY <4>1 DEF Running
    <3> QED  BY <3>2, <3>3, <3>4, <3>5, <3>6, <3>7, StepTouches
  <2>3. b \notin gc'
    <3> SUFFICES ASSUME b \in gc' PROVE FALSE
      OBVIOUS
    <3>1. StartGC /\ Terminal(b)
      BY <2>1, GcSteps
    <3> QED  BY <2>1, <3>1 DEF GcPast, StartGC
  <2> QED  BY <2>1, <2>2, <2>3
<1>2. db'[b].row # "new" /\ StartAt[b] = NotQueued => "enqueue" \in Ops
  BY <1>0 DEF RowsRead
<1>3. ASSUME InPass'
      PROVE  /\ disp'.seen[b].row = "live" => db'[b].row # "new"
             /\ disp'.seen[b].row = "deleted" => db'[b].row = "deleted"
             /\ disp'.seen[b].row = "new" => StartAt[b] = NotQueued
             /\ b \in disp'.todo => disp'.seen[b].row = "live"
  <2>1. CASE ListBooks
    BY <2>1, ListDoes DEF RowsRead, Live
  <2>2. CASE ~ListBooks
    <3>1. /\ InPass /\ disp'.seen[b].row = disp.seen[b].row
          /\ b \in disp'.todo => b \in disp.todo \/ disp.seen[b].row = "live"
      BY <1>3, <2>2, SeenSteps
    <3> QED  BY <1>0, <3>1 DEF RowsRead
  <2> QED  BY <2>1, <2>2
<1> QED  BY <1>1, <1>2, <1>3 DEF RowsRead

LEMMA GcPastStep ==
    ASSUME TypeOK, CallsMade, WipesDeleted, CalmOps, [Next]_vars, NEW b \in Book, PlacedBook(b)
    PROVE  GcPast(b)'
<1> USE DEF PlacedBook
<1>0. \/ db'[b].row = db[b].row
      \/ db[b].row = "new" /\ db'[b].row = "live"
      \/ db[b].row # "new" /\ db'[b].row = "deleted"
  BY RowSteps
<1>1. ASSUME b \in gc', Live(b)' PROVE Past(db'[b].state)
  <2>1. CASE b \in gc
    <3>1. Live(b) /\ Past(db[b].state) /\ disp.pc # "place"
      BY <1>0, <1>1, <2>1 DEF RowsRead, GcPast, Live
    <3> QED  BY <1>1, <3>1, PastStays
  <2>2. CASE StartGC /\ Terminal(b)
    BY <1>1, <2>2 DEF StartGC, GcPast, Live
  <2> QED  BY <1>1, <2>1, <2>2, GcSteps
<1>2. ReadsTable' => \/ ReadsTable /\ gc' \subseteq gc
                     \/ gc' = {}
  <2>1. CASE Reboot
    BY <2>1 DEF Reboot
  <2>2. CASE Shutdown
    BY <2>2 DEF Shutdown, ReadsTable, IdleDisp
  <2>3. CASE Dispatch
    BY <2>3, DispatchPcs DEF ReadsTable
  <2>4. CASE Start
    BY <2>4, StartReads
  <2>5. CASE UNCHANGED disp
    <3>1. ReadsTable' => ReadsTable
      BY <2>5 DEF ReadsTable
    <3>2. ~StartGC
      <4>1. ASSUME StartGC PROVE FALSE
        <5>1. disp.pc = "rewind" /\ \E todo, seen : disp' = [disp EXCEPT !.pc = "recheck", !.seen = seen, !.todo = todo]
          BY <4>1 DEF StartGC
        <5> QED  BY <2>5, <5>1 DEF TypeOK, DispOK, DispRec
      <4> QED  BY <4>1
    <3>3. gc' \subseteq Book
      BY NextType DEF TypeOK
    <3> QED  BY <3>1, <3>2, <3>3, GcSteps
  <2> QED  BY <2>1, <2>2, <2>3, <2>4, <2>5, LoopSteps
<1>3. ReadsTable' => b \notin gc'
  BY <1>2 DEF GcPast, ReadsTable
<1>4. ASSUME Rewinding', Terminal(b)'
      PROVE  /\ b \notin disp'.todo /\ (disp'.pc = "place" => disp'.book # b)
             /\ db'[b].row # "new" /\ (Live(b)' => Past(db'[b].state))
  <2>1. CASE ListForReconcile
    <3>1. disp \in DispRec
      BY DEF TypeOK, DispOK
    <3>2. disp' = [disp EXCEPT !.pc = "rewind", !.seen = [x \in Book |-> View(x)],
                     !.todo = {x \in Book : Live(x) /\ ~IsTerminal(db[x].state)}] /\ UNCHANGED db
      BY <2>1 DEF ListForReconcile
    <3>3. /\ disp'.pc = "rewind" /\ disp'.seen[b] = View(b)
          /\ disp'.todo = {x \in Book : Live(x) /\ ~IsTerminal(db[x].state)}
      BY <3>1, <3>2 DEF DispRec
    <3>4. Live(b) /\ IsTerminal(db[b].state)
      BY <1>4, <3>3 DEF Terminal, View, Live
    <3>5. Past(db[b].state)
      BY <3>4, PastStates DEF IsTerminal, State
    <3> QED  BY <3>2, <3>3, <3>4, <3>5 DEF Live
  <2>2. CASE /\ Rewinding /\ disp'.seen = disp.seen /\ disp'.todo \subseteq disp.todo
             /\ disp'.pc = "place" => (disp'.book \in disp.todo /\ disp'.book \notin disp'.todo) \/ disp' = disp
    <3>1. /\ b \notin disp.todo /\ (disp.pc = "place" => disp.book # b)
          /\ db[b].row # "new" /\ (Live(b) => Past(db[b].state))
      BY <1>4, <2>2 DEF GcPast, Terminal, Rewinding
    <3>2. Live(b)' => Live(b)
      BY <1>0, <3>1 DEF Live
    <3> QED  BY <1>0, <2>2, <3>1, <3>2, PastStays
  <2>3. CASE Reboot \/ Shutdown
    BY <1>4, <2>3 DEF Reboot, Shutdown, Rewinding, IdleDisp
  <2>4. CASE Dispatch
    BY <1>4, <2>4, DispatchPcs DEF Rewinding
  <2>5. CASE Start
    BY <1>4, <2>1, <2>2, <2>5, StartReads
  <2>6. CASE UNCHANGED disp
    BY <1>4, <2>2, <2>6 DEF Rewinding
  <2> QED  BY <2>3, <2>4, <2>5, <2>6, LoopSteps
<1> QED  BY <1>1, <1>3, <1>4 DEF GcPast, ReadsTable, Rewinding

LEMMA WipesStep ==
    ASSUME TypeOK, CallsMade, WipesDeleted, CalmOps, [Next]_vars
    PROVE  WipesDeleted'
<1> SUFFICES ASSUME NEW c \in Client, client'[c].pc = "wipe" PROVE db'[client'[c].book].row = "deleted"
  BY DEF WipesDeleted
<1>0. client \in [Client -> ClientRec] /\ (client[c].pc # "idle" => client[c].book \in Book)
  BY DEF TypeOK, ClientOK
<1>1. CASE client'[c] = client[c]
  <2>1. client[c].book \in Book /\ db[client[c].book].row = "deleted"
    BY <1>0, <1>1 DEF WipesDeleted
  <2> QED  BY <1>1, <2>1, RowSteps
<1>2. CASE DeleteRow(c)
  <2> DEFINE b == client[c].book
  <2>1. b \in Book
    BY <1>0, <1>2 DEF DeleteRow
  <2>2. client' = [client EXCEPT ![c] = IdleClient] \/ client' = [client EXCEPT ![c] = [client[c] EXCEPT !.pc = "wipe"]]
    BY <1>0, <1>2 DEF DeleteRow, Return, Then
  <2>3. IdleClient.pc = "idle"
    BY DEF IdleClient
  <2>4. client' # [client EXCEPT ![c] = IdleClient]
    BY <1>0, <2>3
  <2>5. client'[c].book = b
    BY <1>0, <2>2, <2>4 DEF ClientRec
  <2>6. db' = [db EXCEPT ![b] = [db[b] EXCEPT !.row = "deleted", !.ok = NoRuns, !.open = NoRuns]]
    BY <1>2, <2>4 DEF DeleteRow, Return
  <2>7. db'[b].row = "deleted"
    BY <2>1, <2>6 DEF TypeOK, DbOK, BookRow
  <2> QED  BY <2>5, <2>7
<1>3. CASE Handle(c) /\ ~DeleteRow(c)
  <2>1. \/ client' = [client EXCEPT ![c] = IdleClient]
        \/ \E pc \in ClientPc \ {"wipe"} : client' = [client EXCEPT ![c] = [client[c] EXCEPT !.pc = pc]]
        \/ \E s : client' = [client EXCEPT ![c] = [client[c] EXCEPT !.pc = "place", !.stage = s]]
    <3> USE DEF Return, Then, ClientPc
    <3>1. CASE WriteStatus(c) \/ Signal(c) \/ DropSentinel(c) \/ ClearStatus(c) \/ WipeDir(c) \/ ReserveForPurge(c)
      BY <1>0, <3>1 DEF WriteStatus, Signal, DropSentinel, ClearStatus, WipeDir, ReserveForPurge
    <3>2. CASE PurgeDirs(c) \/ PurgeSentinels(c) \/ PurgePlace(c) \/ Unreserve(c)
      BY <1>0, <3>2 DEF PurgeDirs, PurgeSentinels, PurgePlace, Unreserve
    <3>3. CASE PurgeReconcile(c)
      BY <1>0, <3>3 DEF PurgeReconcile
    <3>4. CASE Terminate(c) \/ CloseOrphan(c) \/ DropForRerun(c) \/ RerunPlace(c)
      BY <1>0, <3>4 DEF Terminate, CloseOrphan, DropForRerun, RerunPlace
    <3> QED  BY <1>3, <3>1, <3>2, <3>3, <3>4 DEF Handle
  <2>2. IdleClient.pc = "idle"
    BY DEF IdleClient
  <2>3. client'[c].pc # "wipe"
    BY <1>0, <2>1, <2>2 DEF ClientRec
  <2> QED  BY <2>3
<1>4. ASSUME NEW d \in Client, Handle(d), d # c PROVE client'[c] = client[c]
  <2>1. \E r : client' = [client EXCEPT ![d] = r]
    <3> USE DEF Return, Then
    <3>1. CASE WriteStatus(d) \/ Signal(d) \/ DropSentinel(d) \/ ClearStatus(d) \/ WipeDir(d) \/ ReserveForPurge(d)
      BY <1>0, <3>1 DEF WriteStatus, Signal, DropSentinel, ClearStatus, WipeDir, ReserveForPurge
    <3>2. CASE PurgeDirs(d) \/ PurgeSentinels(d) \/ PurgePlace(d) \/ Unreserve(d) \/ DeleteRow(d)
      BY <1>0, <3>2 DEF PurgeDirs, PurgeSentinels, PurgePlace, Unreserve, DeleteRow
    <3>3. CASE PurgeReconcile(d)
      BY <1>0, <3>3 DEF PurgeReconcile
    <3>4. CASE Terminate(d) \/ CloseOrphan(d) \/ DropForRerun(d) \/ RerunPlace(d)
      BY <1>0, <3>4 DEF Terminate, CloseOrphan, DropForRerun, RerunPlace
    <3> QED  BY <1>4, <3>1, <3>2, <3>3, <3>4 DEF Handle
  <2> QED  BY <1>0, <1>4, <2>1
<1>5. ASSUME NEW d \in Client, NEW b \in Book, NEW op \in OpName, NEW s \in Stage \cup {NoState}, Call(d, op, b, s)
      PROVE  client'[c] = client[c]
  <2>1. client' = [client EXCEPT ![d] = [pc |-> FirstStep(op), op |-> op, book |-> b, seen |-> View(b), stage |-> s]]
    BY <1>5 DEF Call
  <2>2. FirstStep(op) # "wipe"
    BY DEF FirstStep
  <2> QED  BY <1>0, <2>1, <2>2
<1>6. CASE Reboot
  BY <1>6 DEF Reboot, IdleClient
<1>7. CASE UNCHANGED client
  BY <1>1, <1>7
<1>8. ASSUME NEW b \in Book, Work(b) PROVE UNCHANGED client
  BY <1>8, WorkIsLocal
<1>9. CASE Start
  BY <1>7, <1>9, StartPcs
<1>10. CASE Dispatch
  BY <1>7, <1>10 DEF Dispatch, DispOnly, StartPass, ReadmitDue, ClearDue, ListBooks, PromoteWaypoint, Collect,
                StartWorker, SkipCandidate, EndPass
<1>11. CASE Shutdown \/ (\E b \in Book : StartupGC(b) \/ TimePasses(b) \/ Enqueue(b)) \/ UNCHANGED vars
  BY <1>7, <1>11 DEF Shutdown, StartupGC, TimePasses, Enqueue, vars
<1> QED  BY <1>1, <1>2, <1>3, <1>4, <1>5, <1>6, <1>7, <1>8, <1>9, <1>10, <1>11 DEF Next, ClientSteps, Crash, Restart

PlaceBase == TypeOK /\ QuietStart /\ CallsMade /\ WipesDeleted /\ PlaceInv

LEMMA PlaceStep == CalmOps /\ PlaceBase /\ [Next]_vars => PlaceBase'
<1> SUFFICES ASSUME CalmOps, PlaceBase, [Next]_vars PROVE PlaceBase'
  OBVIOUS
<1> USE DEF PlaceBase
<1>1. TypeOK' /\ QuietStart' /\ CallsMade' /\ WipesDeleted'
  BY NextType, StartStaysQuiet, CallsStep, WipesStep
<1>2. ASSUME NEW b \in Book PROVE (WorkerPlaced(b) /\ Listed(b) /\ RowsRead(b) /\ GcPast(b))'
  <2>1. PlacedBook(b)
    BY DEF PlaceInv, PlacedBook
  <2> QED  BY <2>1, WorkerPlacedStep, ListedStep, RowsReadStep, GcPastStep
<1> QED  BY <1>1, <1>2 DEF PlaceInv

LEMMA PlaceInit == Init => PlaceBase
<1> SUFFICES ASSUME Init PROVE PlaceBase
  OBVIOUS
<1>1. TypeOK /\ QuietStart /\ CallsMade
  BY InitType, QuietInit, CallsInit
<1>2. /\ worker = [b \in Book |-> IdleWorker] /\ disp.pc = "close" /\ gc = {}
      /\ client = [c \in Client |-> IdleClient]
      /\ \A b \in Book : db[b].row = IF StartAt[b] = NotQueued THEN "new" ELSE "live"
  BY DEF Init, IdleDisp
<1>3. IdleWorker.pc = "off" /\ IdleClient.pc = "idle"
  BY DEF IdleWorker, IdleClient
<1>4. \A b \in Book : ~Running(b)
  BY <1>2, <1>3 DEF Running
<1>5. WipesDeleted
  BY <1>2, <1>3 DEF WipesDeleted
<1>6. ASSUME NEW b \in Book PROVE WorkerPlaced(b) /\ Listed(b) /\ RowsRead(b) /\ GcPast(b)
  BY <1>2, <1>4 DEF WorkerPlaced, Listed, RowsRead, GcPast, InPass
<1> QED  BY <1>1, <1>5, <1>6 DEF PlaceBase, PlaceInv

-----------------------------------------------------------------------------
(* The series order.  A book in carryover-sensitive work, and one listed   *)
(* to start it, has no predecessor this side of the lock; a predecessor    *)
(* that crossed it stays across, and none is enqueued late.                *)

LatecomersLast ==
    "enqueue" \in Ops =>
        \A b, c \in Book : SameSeries(b, c) /\ Before(c, b) => StartAt[c] # NotQueued

Clear(b) == \A c \in Book : SameSeries(b, c) /\ Before(c, b) /\ Live(c) => Past(db[c].state)
Ordered(b) ==
    /\ Running(b) /\ RequiresSeriesOrder(worker[b].stage) => Clear(b)
    /\ disp.pc = "fill" /\ b \in disp.todo /\ RequiresSeriesOrder(disp.seen[b].state) => Clear(b)
SeriesInv == \A b \in Book : Ordered(b)

LEMMA ClearStays ==
    ASSUME CalmOps, LatecomersLast, PlaceBase, [Next]_vars, NEW b \in Book, Clear(b), disp.pc # "place"
    PROVE  Clear(b)'
<1> SUFFICES ASSUME NEW c \in Book, SameSeries(b, c), Before(c, b), Live(c)' PROVE Past(db'[c].state)
  BY DEF Clear, SameSeries, Before
<1>1. PlacedBook(c)
  BY DEF PlaceBase, PlaceInv, PlacedBook
<1>2. Live(c)
  <2>1. ~Enqueue(c)
    BY <1>1 DEF Enqueue, LatecomersLast, PlacedBook, RowsRead
  <2> QED  BY <2>1, RowSteps DEF PlaceBase, Live
<1> QED  BY <1>1, <1>2, PastStays DEF Clear, PlaceBase, PlacedBook

LEMMA CollectOrders ==
    ASSUME CalmOps, LatecomersLast, PlaceBase, Collect, NEW b \in Book,
           b \in disp'.todo, RequiresSeriesOrder(disp'.seen[b].state)
    PROVE  Clear(b)'
<1>0. disp \in DispRec /\ disp.seen \in [Book -> Views]
  BY DEF PlaceBase, TypeOK, DispOK, DispRec
<1>1. PICK todo, free :
         /\ disp' = [disp EXCEPT !.pc = "fill", !.todo = todo, !.free = free]
         /\ \A x \in todo : CanStart(disp.seen[x].state, disp.seen[x].status, HoldsLock(disp.seen, x))
  BY DEF Collect
<1>2. disp'.todo = todo /\ disp'.seen = disp.seen
  BY <1>0, <1>1 DEF DispRec
<1>3. HoldsLock(disp.seen, b)
  BY <1>1, <1>2, OrderedBeforePast DEF CanStart
<1> SUFFICES ASSUME NEW c \in Book, SameSeries(b, c), Before(c, b), Live(c) PROVE Past(db[c].state)
  BY DEF Clear, SameSeries, Before, Collect, Live
<1>4. PlacedBook(c) /\ InPass
  BY DEF PlaceBase, PlaceInv, PlacedBook, Collect, InPass
<1>5. disp.seen[c].row = "live"
  <2>1. disp.seen[c].row \in {"new", "live", "deleted"}
    BY <1>0 DEF Views
  <2> QED  BY <1>4, <2>1 DEF PlacedBook, RowsRead, LatecomersLast, Live
<1>6. ~Unfinished(disp.seen, c)
  BY <1>3 DEF HoldsLock
<1>7. Past(disp.seen[c].state) /\ ListedAs(c, disp.seen[c].state)
  BY <1>4, <1>5, <1>6 DEF Unfinished, Past, PlacedBook, Listed
<1>8. CASE SamePlace(disp.seen[c].state, db[c].state)
  BY <1>7, <1>8, SamePlaceFacts
<1>9. CASE Superseded(c, disp.seen[c].state)
  <2>1. LeadsTo(c, disp.seen[c].state) = "done"
    BY <1>7, <1>9, PastStates, LeadsFacts DEF Superseded
  <2> QED  BY <1>9, <2>1, PastStates, SamePlaceFacts DEF Superseded, State
<1> QED  BY <1>7, <1>8, <1>9 DEF ListedAs

LEMMA SeriesStep ==
    ASSUME CalmOps, LatecomersLast, PlaceBase, SeriesInv, [Next]_vars
    PROVE  SeriesInv'
<1> SUFFICES ASSUME NEW b \in Book PROVE Ordered(b)'
  BY DEF SeriesInv
<1>0. TypeOK /\ QuietStart /\ Ordered(b)
  BY DEF PlaceBase, SeriesInv
<1>1. ASSUME Running(b)', RequiresSeriesOrder(worker'[b].stage) PROVE Clear(b)'
  <2>1. CASE StartWorker(b)
    <3>1. disp.pc = "fill" /\ b \in disp.todo /\ worker'[b].stage = disp.seen[b].state
      BY <1>0, <2>1, StartDoes
    <3>2. Clear(b)
      BY <1>0, <1>1, <3>1 DEF Ordered
    <3> QED  BY <3>1, <3>2, ClearStays
  <2>2. CASE ~StartWorker(b)
    <3>1. Running(b) /\ worker'[b].stage = worker[b].stage
      <4>1. CASE \E x \in Book : StartWorker(x)
        <5>1. PICK x \in Book : StartWorker(x)
          BY <4>1
        <5>2. worker'[b] = worker[b]
          BY <1>0, <2>2, <5>1 DEF StartWorker, TypeOK, WorkerOK
        <5> QED  BY <1>1, <5>2 DEF Running
      <4>2. CASE \A x \in Book : ~StartWorker(x)
        BY <1>0, <1>1, <4>2, OnlyStartAdds DEF NoNewWorker
      <4> QED  BY <4>1, <4>2
    <3>2. Clear(b)
      BY <1>0, <1>1, <3>1 DEF Ordered
    <3>3. disp.pc # "place"
      BY <1>0, <3>1 DEF QuietStart, Starting
    <3> QED  BY <3>2, <3>3, ClearStays
  <2> QED  BY <2>1, <2>2
<1>2. ASSUME disp'.pc = "fill", b \in disp'.todo, RequiresSeriesOrder(disp'.seen[b].state) PROVE Clear(b)'
  <2>1. CASE Collect
    BY <1>2, <2>1, CollectOrders
  <2>2. CASE disp.pc = "fill" /\ b \in disp.todo /\ disp'.seen[b] = disp.seen[b]
    <3>1. Clear(b)
      BY <1>0, <1>2, <2>2 DEF Ordered
    <3> QED  BY <2>2, <3>1, ClearStays
  <2>3. ~ListBooks
    BY <1>0, <1>2, ListDoes
  <2>4. InPass'
    BY <1>2 DEF InPass
  <2> QED  BY <1>0, <1>2, <2>1, <2>2, <2>3, <2>4, SeenSteps
<1> QED  BY <1>1, <1>2 DEF Ordered

LEMMA SeriesHolds == ASSUME CalmOps, LatecomersLast PROVE Spec => [](PlaceBase /\ SeriesInv)
<1>1. Init => PlaceBase /\ SeriesInv
  <2> SUFFICES ASSUME Init PROVE PlaceBase /\ SeriesInv
    OBVIOUS
  <2>1. worker = [b \in Book |-> IdleWorker] /\ disp.pc = "close"
    BY DEF Init, IdleDisp
  <2>2. IdleWorker.pc = "off"
    BY DEF IdleWorker
  <2> QED  BY <2>1, <2>2, PlaceInit DEF SeriesInv, Ordered, Running
<1>2. (PlaceBase /\ SeriesInv) /\ [Next]_vars => (PlaceBase /\ SeriesInv)'
  BY PlaceStep, SeriesStep
<1> QED  BY <1>1, <1>2, PTL DEF Spec

(* The books of a series are authored in order: a book in carryover-       *)
(* sensitive work has no predecessor left this side of the series lock,    *)
(* through crashes, shutdowns and stale passes of the loop (lockHolders,   *)
(* CanStart), where no call retries, readmits, reruns or purges a book and *)
(* a book enqueued late comes last in its series.                          *)
THEOREM SeriesInOrder == ASSUME CalmOps, LatecomersLast PROVE Spec => []SeriesOrder
<1>1. SeriesInv => SeriesOrder
  BY DEF SeriesInv, Ordered, Clear, SeriesOrder, Authoring, Running, Past
<1> QED  BY <1>1, SeriesHolds, PTL

(* Two books of a series are never in carryover-sensitive work together,   *)
(* under the same hypotheses (fillLane, CanStart).                         *)
THEOREM OneAuthorPerSeries == ASSUME CalmOps, LatecomersLast PROVE Spec => []AuthoringExclusive
<1>1. PlaceBase /\ SeriesInv /\ NoWorkOnDeleted => AuthoringExclusive
  <2> SUFFICES ASSUME PlaceBase, SeriesInv, NoWorkOnDeleted PROVE AuthoringExclusive
    OBVIOUS
  <2>1. ASSUME NEW b \in Book, NEW c \in Book, Authoring(b), Authoring(c), SameSeries(b, c), Before(c, b)
        PROVE  FALSE
    <3>1. Running(b) /\ Running(c) /\ Live(c)
      BY <2>1 DEF Authoring, Running, NoWorkOnDeleted
    <3>2. Past(db[c].state)
      BY <2>1, <3>1 DEF SeriesInv, Ordered, Clear, Authoring
    <3>3. PlacedAs(c, worker[c])
      BY <3>1 DEF PlaceBase, PlaceInv, WorkerPlaced
    <3>4. SamePlace(worker[c].stage, db[c].state)
      BY <2>1, <3>3 DEF PlacedAs, Authoring
    <3> QED  BY <2>1, <3>2, <3>4, SamePlaceFacts, OrderedBeforePast DEF Authoring
  <2>2. ASSUME NEW b \in Book, NEW c \in Book, b # c PROVE Before(b, c) \/ Before(c, b)
    <3>1. PosOf[b] \in Int /\ PosOf[c] \in Int /\ b \in Nat /\ c \in Nat
      BY ConstantsAssumption
    <3> QED  BY <2>2, <3>1 DEF Before
  <2>3. \A b, c \in Book : SameSeries(b, c) => SameSeries(c, b)
    BY DEF SameSeries
  <2> QED  BY <2>1, <2>2, <2>3 DEF AuthoringExclusive
<1> QED  BY <1>1, SeriesHolds, DeletedBooksRest, PTL

-----------------------------------------------------------------------------
(* The fix loop.  Where no worker is stopped every fix pass is counted: a  *)
(* book stands at fixing without the sentinel of the last pass only while  *)
(* the budget lasts, and with it only while the worker of that pass is on  *)
(* its way to record it and go on.                                         *)

NoReboot == budget.crashes = 0 /\ disp.pc # "stopping"

Fixes(b)      == db[b].ok["fixing"]
Fixed(b)      == HasSentinel(b, "fixing")
Fixing(b, pc) == worker[b].stage = "fixing" /\ worker[b].pc \in pc

FixesCounted(b) ==
    /\ ghost[b].passes <= MaxFixAttempts
    /\ Live(b) =>
          /\ ghost[b].passes <= Fixes(b) \/ (Fixing(b, {"ran"}) /\ ghost[b].passes <= Fixes(b) + 1)
          /\ Fixing(b, {"ran"}) => Fixes(b) < MaxFixAttempts
          /\ worker[b].pc = "commit" /\ worker[b].next = "fixing" => Fixes(b) < MaxFixAttempts
          /\ db[b].state = "fixing" /\ ~Fixed(b) => Fixes(b) < MaxFixAttempts
          /\ db[b].state = "fixing" /\ Fixed(b) => Fixing(b, {"ran", "advance", "commit"})
NoneFixed(b) ==
    /\ db[b].row = "new" => db[b].state = "queued" /\ Fixes(b) = 0 /\ ghost[b].passes = 0
    /\ Starting /\ db[b].row # "deleted" => Fixes(b) = 0 /\ ghost[b].passes = 0 /\ ~Fixed(b)
DueToRetry(b) == disp.pc \in {"due", "clear"} /\ b \in disp.todo => disp.seen[b].park = "agent_rate_limited"
FixInv == \A b \in Book : FixesCounted(b) /\ NoneFixed(b) /\ DueToRetry(b)

(* A pass is counted as it is done, and the count is only ever dropped to  *)
(* none.                                                                   *)
LEMMA PassesStep ==
    ASSUME TypeOK, [Next]_vars, NEW b \in Book
    PROVE  ghost'[b].passes \in {ghost[b].passes, 0} \/ ExecSucceeds(b)
<1>0. ghost \in [Book -> GhostRec]
  BY DEF TypeOK
<1>1. ASSUME NEW x \in Book, Work(x), ~ExecSucceeds(b) PROVE ghost'[b].passes = ghost[b].passes
  <2>1. CASE x # b
    BY <1>1, <2>1, WorkIsLocal
  <2>2. CASE x = b
    BY <1>1, <2>2 DEF Work, SkipStage, OpenRun, ExecCanceled, ExecFaults, ExecGivesUp, ExecEnds, RecordRun,
                      SetFailedOrParked, Advance, Commit, AutoPurgeDone
  <2> QED  BY <2>1, <2>2
<1>2. ASSUME NEW x \in Book, StartupGC(x) \/ TimePasses(x) \/ Enqueue(x) PROVE UNCHANGED ghost
  BY <1>2 DEF StartupGC, TimePasses, Enqueue
<1>3. ASSUME NEW x, NEW n, ghost' = [ghost EXCEPT ![x] = [ghost[x] EXCEPT !.passes = n]], n \in {ghost[x].passes, 0}
      PROVE  ghost'[b].passes \in {ghost[b].passes, 0}
  BY <1>0, <1>3 DEF GhostRec
<1>4. ASSUME NEW x, NEW v, DropForReadmit(x, v) PROVE ghost'[b].passes \in {ghost[b].passes, 0}
  <2>1. \E n \in {ghost[x].passes, 0} : ghost' = [ghost EXCEPT ![x] = [ghost[x] EXCEPT !.passes = n]]
    BY <1>4 DEF DropForReadmit
  <2> QED  BY <1>3, <2>1
<1>5. ASSUME NEW x, NEW r, r.passes = ghost[x].passes, ghost' = [ghost EXCEPT ![x] = r]
      PROVE  ghost'[b].passes = ghost[b].passes
  BY <1>0, <1>5 DEF GhostRec
<1>6. CASE Start
  <2>1. UNCHANGED ghost \/ \E x \in Book : DropForReadmit(x, disp.seen[x])
    BY <1>6 DEF Start, ListOpenRuns, CloseRuns, ListForReconcile, SupersedeLost, PlaceRewound, StartGC, Recheck,
                ClearRechecked, Started
  <2> QED  BY <1>4, <2>1
<1>7. CASE Dispatch
  <2>1. ASSUME NEW x \in Book, StartWorker(x) PROVE ghost'[b].passes = ghost[b].passes
    <3>1. PICK late : ghost' = [ghost EXCEPT ![x] = [ghost[x] EXCEPT !.late = late]]
      BY <2>1 DEF StartWorker
    <3>2. [ghost[x] EXCEPT !.late = late].passes = ghost[x].passes
      BY <1>0 DEF GhostRec
    <3> QED  BY <1>5, <3>1, <3>2
  <2>2. CASE \A x \in Book : ~StartWorker(x)
    <3>1. UNCHANGED ghost \/ \E x \in Book : DropForReadmit(x, disp.seen[x])
      BY <1>7, <2>2 DEF Dispatch, StartPass, ReadmitDue, ClearDue, ListBooks, PromoteWaypoint, Collect,
                        SkipCandidate, EndPass
    <3> QED  BY <1>4, <3>1
  <2> QED  BY <2>1, <2>2
<1>8. ASSUME NEW c \in Client, Handle(c) PROVE ghost'[b].passes \in {ghost[b].passes, 0}
  <2>1. ASSUME NEW x, NEW held, Hold(x, held) PROVE ghost'[b].passes = ghost[b].passes
    <3>1. UNCHANGED ghost \/ ghost' = [ghost EXCEPT ![x] = [ghost[x] EXCEPT !.held = held, !.late = 0]]
      BY <2>1 DEF Hold
    <3>2. CASE x \in Book
      <4>1. [ghost[x] EXCEPT !.held = held, !.late = 0].passes = ghost[x].passes
        BY <1>0, <3>2 DEF GhostRec
      <4> QED  BY <1>5, <3>1, <4>1
    <3>3. CASE x \notin Book
      BY <1>0, <3>1, <3>3
    <3> QED  BY <3>2, <3>3
  <2>2. CASE WriteStatus(c) \/ ClearStatus(c)
    BY <2>1, <2>2 DEF WriteStatus, ClearStatus
  <2>3. CASE DropSentinel(c)
    BY <1>4, <2>3 DEF DropSentinel
  <2>4. CASE PurgeReconcile(c)
    <3>1. \/ UNCHANGED ghost
          \/ \E n \in {ghost[client[c].book].passes, 0} :
                ghost' = [ghost EXCEPT ![client[c].book] = [ghost[client[c].book] EXCEPT !.passes = n]]
      BY <2>4 DEF PurgeReconcile
    <3> QED  BY <1>3, <3>1
  <2>5. CASE DropForRerun(c)
    <3>1. ghost' = [ghost EXCEPT ![client[c].book] = [ghost[client[c].book] EXCEPT !.passes = 0]]
      BY <2>5 DEF DropForRerun
    <3> QED  BY <1>3, <3>1
  <2>6. CASE RerunPlace(c)
    <3> DEFINE x == client[c].book
    <3>1. PICK held, late : ghost' = [ghost EXCEPT ![x] = [ghost[x] EXCEPT !.held = held, !.late = late]]
      BY <2>6 DEF RerunPlace
    <3>2. x \in Book
      BY <2>6 DEF RerunPlace, At, TypeOK, ClientOK
    <3>3. [ghost[x] EXCEPT !.held = held, !.late = late].passes = ghost[x].passes
      BY <1>0, <3>2 DEF GhostRec
    <3> QED  BY <1>5, <3>1, <3>3
  <2>7. CASE Signal(c) \/ DeleteRow(c) \/ WipeDir(c) \/ ReserveForPurge(c) \/ PurgeDirs(c) \/ PurgeSentinels(c)
              \/ PurgePlace(c) \/ Unreserve(c) \/ Terminate(c) \/ CloseOrphan(c)
    BY <2>7 DEF Signal, DeleteRow, WipeDir, ReserveForPurge, PurgeDirs, PurgeSentinels,
                PurgePlace, Unreserve, Terminate, CloseOrphan
  <2> QED  BY <1>8, <2>2, <2>3, <2>4, <2>5, <2>6, <2>7 DEF Handle
<1>9. ASSUME NEW c \in Client, NEW x \in Book, NEW op \in OpName, NEW s \in Stage \cup {NoState}, Call(c, op, x, s)
      PROVE  UNCHANGED ghost
  BY <1>9 DEF Call
<1>10. CASE Crash \/ Shutdown \/ Restart
  BY <1>10 DEF Crash, Shutdown, Restart, Reboot
<1> QED  BY <1>1, <1>2, <1>6, <1>7, <1>8, <1>9, <1>10 DEF Next, ClientSteps, vars

LEMMA FixingFromAudit ==
    ASSUME NEW kind \in Kind, NEW s \in Stage, NEW mark, NEW n \in Nat,
           ~FixBudgetSpent(s, OutcomeOf(mark, n)), NextState(kind, s, OutcomeOf(mark, n)).state = "fixing"
    PROVE  s = "auditing" /\ n < MaxFixAttempts
<1> DEFINE o == OutcomeOf(mark, n)
<1>0. s \in State \ {"queued", "ready", "done"}
  BY StageList
<1>1. (IF TakesBranch(kind, s, o) THEN Table[s].cond ELSE Table[s].main) = "fixing"
  BY DEF NextState
<1>2. TakesBranch(kind, s, o)
  <2>1. Table[s].main # "fixing"
    BY <1>0, MainOf DEF State
  <2> QED  BY <1>1, <2>1
<1>3. s \in {"extracting", "inspecting", "qa_sweep", "qa_adjudicating", "auditing"}
  BY <1>0, <1>2 DEF TakesBranch, State
<1>4. s = "auditing"
  BY <1>1, <1>2, <1>3, CondOf
<1>5. ~o.auditPassed /\ o.fixAttempts = n
  BY <1>2, <1>4 DEF TakesBranch, OutcomeOf
<1> QED  BY <1>4, <1>5, MaxFixAttemptsAssumption DEF FixBudgetSpent

LEMMA DueStep ==
    ASSUME TypeOK, [Next]_vars, NEW b \in Book, DueToRetry(b)
    PROVE  DueToRetry(b)'
<1> SUFFICES ASSUME disp'.pc \in {"due", "clear"}, b \in disp'.todo PROVE disp'.seen[b].park = "agent_rate_limited"
  BY DEF DueToRetry
<1>0. disp \in DispRec
  BY DEF TypeOK, DispOK
<1>1. CASE Start \/ Reboot \/ Shutdown
  BY <1>1, StartPcs DEF Reboot, Shutdown, IdleDisp, Starting
<1>2. CASE UNCHANGED disp
  BY <1>2 DEF DueToRetry
<1>3. CASE StartPass
  <2>1. PICK due : /\ \A x \in due : x \in Book /\ db[x].park \in AutoReadmitCodes
                   /\ disp' = [disp EXCEPT !.pc = "due", !.todo = due,
                                   !.seen = [x \in Book |-> IF x \in due THEN View(x) ELSE NoView]]
    BY <1>3 DEF StartPass
  <2>2. disp'.todo = due /\ disp'.seen[b] = IF b \in due THEN View(b) ELSE NoView
    BY <1>0, <2>1 DEF DispRec
  <2> QED  BY <2>1, <2>2 DEF View, AutoReadmitCodes
<1>4. CASE ClearDue
  BY <1>0, <1>4 DEF ClearDue, DispRec, DueToRetry
<1>5. ASSUME NEW x \in Book, ReadmitDue(x)
      PROVE  disp.pc = "due" /\ disp'.seen = disp.seen /\ disp'.todo \subseteq disp.todo
  <2>1. \/ disp' = [disp EXCEPT !.todo = disp.todo \ {x}]
        \/ disp' = [disp EXCEPT !.pc = "clear", !.book = x, !.todo = disp.todo \ {x}]
    BY <1>5 DEF ReadmitDue
  <2> QED  BY <1>0, <1>5, <2>1 DEF ReadmitDue, DispRec
<1>6. CASE ListBooks
  BY <1>6, ListDoes
<1>7. CASE Collect
  <2>1. \E todo, free : disp' = [disp EXCEPT !.pc = "fill", !.todo = todo, !.free = free]
    BY <1>7 DEF Collect
  <2> QED  BY <1>0, <2>1 DEF DispRec
<1>8. CASE EndPass
  BY <1>8 DEF EndPass, IdleDisp
<1>9. ASSUME NEW x \in Book, PromoteWaypoint(x) \/ StartWorker(x) \/ SkipCandidate(x) PROVE FALSE
  <2>1. disp'.pc = disp.pc /\ disp.pc \in {"waypoints", "fill"}
    <3>1. \E todo, seen, free : \/ disp' = [disp EXCEPT !.todo = todo, !.seen = seen]
                                \/ disp' = [disp EXCEPT !.todo = todo, !.free = free]
                                \/ disp' = [disp EXCEPT !.todo = todo]
      BY <1>9 DEF PromoteWaypoint, StartWorker, SkipCandidate
    <3> QED  BY <1>0, <1>9, <3>1 DEF PromoteWaypoint, StartWorker, SkipCandidate, DispRec
  <2> QED  BY <2>1
<1> QED  BY <1>1, <1>2, <1>3, <1>4, <1>5, <1>6, <1>7, <1>8, <1>9, LoopSteps DEF Dispatch, DueToRetry

(* What every step keeps of the fix loop, one step of one book at a time.  *)
FixBase == /\ PlaceBase /\ NoWorkOnDeleted /\ NoReboot
           /\ \A b \in Book : ~worker[b].cancelled

LEMMA FixesType ==
    ASSUME TypeOK, NEW b \in Book
    PROVE  Fixes(b) \in Nat /\ ghost[b].passes \in Nat /\ "fixing" \in Stage /\ MaxFixAttempts \in Nat
<1>1. "fixing" \in Stage
  BY StageList DEF State
<1> QED  BY <1>1, RunCapType, MaxFixAttemptsAssumption DEF TypeOK, DbOK, BookRow, RunCount, GhostRec, Fixes

(* The position, the count and the sentinel stay, and the worker does not  *)
(* move unless it leaves a stage it was not fixing in.                     *)
LEMMA FixesStay ==
    ASSUME TypeOK, NEW b \in Book, FixesCounted(b), ghost'[b].passes \in {ghost[b].passes, 0},
           Live(b)' => /\ Live(b) /\ db'[b].state = db[b].state /\ Fixes(b)' = Fixes(b)
                       /\ Fixed(b)' <=> Fixed(b)
                       /\ \/ worker'[b].pc = worker[b].pc /\ worker'[b].stage = worker[b].stage
                                /\ worker'[b].next = worker[b].next
                          \/ /\ ~Fixing(b, {"ran", "advance", "commit"})
                             /\ ~(worker'[b].pc = "ran") /\ worker'[b].pc # "commit"
    PROVE  FixesCounted(b)'
<1>0. Fixes(b) \in Nat /\ ghost[b].passes \in Nat /\ MaxFixAttempts \in Nat
  BY FixesType
<1>1. ghost'[b].passes <= MaxFixAttempts
  BY <1>0 DEF FixesCounted
<1>2. ASSUME Live(b)'
      PROVE /\ ghost'[b].passes <= Fixes(b)' \/ (Fixing(b, {"ran"})' /\ ghost'[b].passes <= Fixes(b)' + 1)
            /\ Fixing(b, {"ran"})' => Fixes(b)' < MaxFixAttempts
            /\ worker'[b].pc = "commit" /\ worker'[b].next = "fixing" => Fixes(b)' < MaxFixAttempts
            /\ db'[b].state = "fixing" /\ ~Fixed(b)' => Fixes(b)' < MaxFixAttempts
            /\ db'[b].state = "fixing" /\ Fixed(b)' => Fixing(b, {"ran", "advance", "commit"})'
  <2>1. CASE worker'[b].pc = worker[b].pc /\ worker'[b].stage = worker[b].stage /\ worker'[b].next = worker[b].next
    BY <1>0, <1>2, <2>1 DEF FixesCounted, Fixing
  <2>2. CASE /\ ~Fixing(b, {"ran", "advance", "commit"}) /\ ~(worker'[b].pc = "ran") /\ worker'[b].pc # "commit"
    BY <1>0, <1>2, <2>2 DEF FixesCounted, Fixing
  <2> QED  BY <1>2, <2>1, <2>2
<1> QED  BY <1>1, <1>2 DEF FixesCounted

LEMMA FixQuietWork ==
    ASSUME TypeOK, NEW b \in Book, FixBase, FixesCounted(b),
           ghost'[b].passes \in {ghost[b].passes, 0},
           \/ SkipStage(b) \/ OpenRun(b) \/ ExecCanceled(b) \/ ExecFaults(b) \/ ExecGivesUp(b)
           \/ SetFailedOrParked(b) \/ AutoPurgeDone(b)
    PROVE  FixesCounted(b)'
<1> USE DEF Fixes, Fixed, HasSentinel, Live
<1>1. CASE SkipStage(b)
  BY <1>1, SkipDoes, FixesStay DEF Fixing
<1>2. CASE OpenRun(b)
  BY <1>2, OpenDoes, FixesStay DEF Fixing, Gone, KeepsOk, KeepsRow
<1>3. CASE ExecCanceled(b) \/ SetFailedOrParked(b)
  BY <1>3, CancelDoes, ParkDoes, FixesStay DEF Fixing, Gone, KeepsOk, KeepsRow, SameRow
<1>4. CASE ExecFaults(b) \/ ExecGivesUp(b)
  <2>1. PICK out : ExecEnds(b, out)
    BY <1>4 DEF ExecFaults, ExecGivesUp
  <2> QED  BY <2>1, EndDoes, FixesStay DEF Fixing, KeepsOk, KeepsRow
<1>5. CASE AutoPurgeDone(b)
  <2>1. worker[b].pc = "purge" /\ Gone(b) /\ UNCHANGED db /\ (UNCHANGED disk \/ ReclaimDone(b))
    BY <1>5, ReclaimStepDoes
  <2>2. "fixing" \in Stage /\ "fixing" \notin InvalidatedStages(KindOf[b])
    BY FixesType DEF InvalidatedStages
  <2>3. disk'[b].done["fixing"] = disk[b].done["fixing"]
    BY <2>1, <2>2, ReclaimDoes
  <2> QED  BY <2>1, <2>3, FixesStay DEF Fixing, Gone
<1> QED  BY <1>1, <1>2, <1>3, <1>4, <1>5

LEMMA FixSucceeds ==
    ASSUME TypeOK, NEW b \in Book, FixBase, FixesCounted(b), ExecSucceeds(b)
    PROVE  FixesCounted(b)'
<1> DEFINE s == worker[b].stage
<1>0. Fixes(b) \in Nat /\ ghost[b].passes \in Nat /\ MaxFixAttempts \in Nat /\ "fixing" \in Stage
  BY FixesType
<1>1. /\ worker[b].pc = "exec" /\ UNCHANGED db /\ worker'[b].pc = "ran" /\ worker'[b].stage = s
      /\ disk'[b].done = [disk[b].done EXCEPT ![s] = worker'[b].out] /\ worker'[b].out \in Mark
      /\ ghost'[b].passes = IF s = "fixing" THEN Bump(ghost[b].passes, MaxFixAttempts + 1) ELSE ghost[b].passes
  BY SucceedDoes DEF KeepsPlan, KeepsJob
<1>2. Live(b) /\ PlacedAs(b, worker[b]) /\ s \in Stage
  <2>1. Live(b) /\ Running(b)
    BY <1>1 DEF FixBase, NoWorkOnDeleted, Running
  <2> QED  BY <2>1 DEF FixBase, PlaceBase, PlaceInv, WorkerPlaced, TypeOK, WorkerOK
<1>3. CASE s = "fixing"
  <2>1. db[b].state = "fixing" /\ ~Fixed(b)
    BY <1>1, <1>2, <1>3, PastStates DEF PlacedAs, SamePlace, Fixed, State
  <2>2. Fixes(b) < MaxFixAttempts /\ ghost[b].passes <= Fixes(b)
    BY <1>1, <1>2, <2>1 DEF FixesCounted, Fixing
  <2>3. ghost'[b].passes = ghost[b].passes + 1
    BY <1>0, <1>1, <1>3, <2>2 DEF Bump
  <2>4. Fixes(b)' = Fixes(b) /\ Fixing(b, {"ran"})'
    BY <1>1, <1>3 DEF Fixes, Fixing
  <2>5. disk[b].done \in [Stage -> Mark \cup {"absent"}]
    BY DEF TypeOK, DiskOK, WorkDir
  <2>6. Fixed(b)'
    BY <1>0, <1>1, <1>3, <2>5 DEF Fixed, HasSentinel, Mark
  <2> QED  BY <1>0, <1>1, <1>3, <2>2, <2>3, <2>4, <2>6 DEF FixesCounted, Fixing
<1>4. CASE s # "fixing"
  <2>1. ghost'[b].passes = ghost[b].passes /\ (Fixed(b)' <=> Fixed(b)) /\ Fixes(b)' = Fixes(b)
    BY <1>0, <1>1, <1>4 DEF Fixed, HasSentinel, Fixes
  <2> QED  BY <1>0, <1>1, <1>2, <1>4, <2>1 DEF FixesCounted, Fixing
<1> QED  BY <1>3, <1>4

LEMMA FixRecorded ==
    ASSUME TypeOK, NEW b \in Book, FixBase, FixesCounted(b), RecordRun(b)
    PROVE  FixesCounted(b)'
<1> DEFINE s == worker[b].stage
<1>0. /\ Fixes(b) \in Nat /\ ghost[b].passes \in Nat /\ MaxFixAttempts \in Nat /\ "fixing" \in Stage
      /\ RunCap \in Nat /\ RunCap >= MaxFixAttempts
  BY FixesType, ConstantsAssumption DEF RunCap
<1>1. worker[b].pc = "ran" /\ UNCHANGED <<disk, ghost>>
  BY RecordDoes
<1>2. Live(b) /\ PlacedAs(b, worker[b]) /\ s \in Stage
  <2>1. Live(b) /\ Running(b)
    BY <1>1 DEF FixBase, NoWorkOnDeleted, Running
  <2> QED  BY <2>1 DEF FixBase, PlaceBase, PlaceInv, WorkerPlaced, TypeOK, WorkerOK
<1>3. HasSentinel(b, s)
  <2>1. worker[b].out = disk[b].done[s] /\ worker[b].out \in Mark
    BY <1>1, <1>2 DEF PlacedAs, TypeOK, WorkerOK
  <2> QED  BY <2>1 DEF HasSentinel, Mark
<1>4. CanWrite(b)
  BY <1>2 DEF CanWrite, FixBase
<1>5. /\ worker'[b].pc = "advance" /\ worker'[b].stage = s /\ db'[b].state = db[b].state /\ db'[b].row = db[b].row
      /\ db'[b].ok = [db[b].ok EXCEPT ![s] = Bump(db[b].ok[s], RunCap)]
  BY <1>3, <1>4, RecordDoes DEF KeepsPlan, KeepsJob, KeepsRow
<1>6. db[b].ok \in [Stage -> RunCount]
  BY DEF TypeOK, DbOK, BookRow
<1>7. Fixed(b)' <=> Fixed(b)
  BY <1>1 DEF Fixed, HasSentinel
<1>8. CASE s = "fixing"
  <2>1. Fixes(b) < MaxFixAttempts /\ ghost[b].passes <= Fixes(b) + 1
    BY <1>0, <1>1, <1>2, <1>8 DEF FixesCounted, Fixing
  <2>2. Fixes(b)' = Fixes(b) + 1
    BY <1>0, <1>5, <1>6, <1>8, <2>1 DEF Fixes, Bump
  <2>3. Fixed(b) /\ Fixing(b, {"advance"})'
    BY <1>3, <1>5, <1>8 DEF Fixed, Fixing
  <2> QED  BY <1>0, <1>1, <1>5, <1>7, <2>1, <2>2, <2>3 DEF FixesCounted, Fixing
<1>9. CASE s # "fixing"
  <2>1. Fixes(b)' = Fixes(b)
    BY <1>0, <1>5, <1>6, <1>9 DEF Fixes
  <2> QED  BY <1>0, <1>1, <1>2, <1>5, <1>7, <1>9, <2>1 DEF FixesCounted, Fixing, Live
<1> QED  BY <1>8, <1>9

LEMMA FixAdvances ==
    ASSUME TypeOK, NEW b \in Book, FixBase, FixesCounted(b), Advance(b)
    PROVE  FixesCounted(b)'
<1> DEFINE s == worker[b].stage
           o == OutcomeOf(worker[b].out, Fixes(b))
<1>0. /\ Fixes(b) \in Nat /\ ghost[b].passes \in Nat /\ MaxFixAttempts \in Nat /\ "fixing" \in Stage
      /\ KindOf[b] \in Kind /\ disk \in [Book -> WorkDir] /\ disk[b].done \in [Stage -> Mark \cup {"absent"}]
  BY FixesType, ConstantsAssumption DEF TypeOK, DiskOK, WorkDir
<1>1. worker[b].pc = "advance" /\ UNCHANGED <<db, ghost>> /\ ~worker[b].cancelled /\ s \in Stage
  BY AdvanceDoes DEF FixBase, TypeOK, WorkerOK, Running
<1>2. CASE FixBudgetSpent(s, o) /\ UNCHANGED disk /\ worker'[b].pc = "failing"
  <2>1. s # "fixing"
    BY <1>2 DEF FixBudgetSpent
  <2> QED  BY <1>1, <1>2, <2>1, FixesStay DEF Fixing, Fixes, Fixed, HasSentinel, Live
<1>3. CASE /\ ~FixBudgetSpent(s, o) /\ KeepsJob(b) /\ worker'[b].pc = "commit"
           /\ worker'[b].next = NextState(KindOf[b], s, o).state
           /\ disk' = [disk EXCEPT ![b] = RemoveSentinels(disk[b], {worker'[b].next})]
  <2>1. disk'[b].done = [t \in Stage |-> IF t \in {worker'[b].next} THEN "absent" ELSE disk[b].done[t]]
    BY <1>0, <1>3 DEF RemoveSentinels, WorkDir
  <2>2. CASE worker'[b].next = "fixing"
    <3>1. s = "auditing" /\ Fixes(b) < MaxFixAttempts
      BY <1>0, <1>1, <1>3, <2>2, FixingFromAudit
    <3>2. ~Fixed(b)'
      BY <1>0, <2>1, <2>2 DEF Fixed, HasSentinel
    <3> QED  BY <1>0, <1>1, <1>3, <3>1, <3>2 DEF FixesCounted, Fixing, Fixes, KeepsJob, Live
  <2>3. CASE worker'[b].next # "fixing"
    <3>1. Fixed(b)' <=> Fixed(b)
      BY <1>0, <2>1, <2>3 DEF Fixed, HasSentinel
    <3> QED  BY <1>0, <1>1, <1>3, <2>3, <3>1 DEF FixesCounted, Fixing, Fixes, KeepsJob, Live
  <2> QED  BY <2>2, <2>3
<1> QED  BY <1>1, <1>2, <1>3, AdvanceDoes DEF Fixes

LEMMA FixCommits ==
    ASSUME TypeOK, NEW b \in Book, FixBase, FixesCounted(b), Commit(b)
    PROVE  FixesCounted(b)'
<1>0. Fixes(b) \in Nat /\ ghost[b].passes \in Nat /\ MaxFixAttempts \in Nat /\ "fixing" \in Stage
  BY FixesType
<1>1. worker[b].pc = "commit" /\ UNCHANGED <<disk, ghost>> /\ worker'[b].pc \in {"off", "purge"}
  BY CommitDoes DEF Gone
<1>2. CASE ~Live(b)
  <2>1. UNCHANGED db
    BY <1>2, CommitDoes DEF CanWrite
  <2> QED  BY <1>1, <1>2, <2>1 DEF FixesCounted, Live
<1>3. CASE Live(b)
  <2>1. CanWrite(b)
    BY <1>3 DEF CanWrite, FixBase
  <2>2. SameRuns(b) /\ db'[b].state = worker[b].next
    BY <2>1, CommitDoes
  <2>3. PlacedAs(b, worker[b])
    BY <1>1, <1>3 DEF FixBase, PlaceBase, PlaceInv, WorkerPlaced, Running
  <2>4. Fixes(b)' = Fixes(b) /\ (Fixed(b)' <=> Fixed(b))
    BY <1>1, <2>2 DEF SameRuns, Fixes, Fixed, HasSentinel
  <2>5. worker[b].next = "fixing" => ~Fixed(b) /\ Fixes(b) < MaxFixAttempts
    BY <1>0, <1>1, <1>3, <2>3 DEF PlacedAs, FixesCounted, Fixed
  <2> QED  BY <1>0, <1>1, <1>3, <2>2, <2>4, <2>5 DEF FixesCounted, Fixing
<1> QED  BY <1>2, <1>3

LEMMA FixWork ==
    ASSUME TypeOK, NEW b \in Book, FixBase, FixesCounted(b), [Next]_vars, Work(b)
    PROVE  FixesCounted(b)'
<1>1. CASE ExecSucceeds(b)
  BY <1>1, FixSucceeds
<1>2. CASE ~ExecSucceeds(b)
  BY <1>2, PassesStep, FixQuietWork, FixRecorded, FixAdvances, FixCommits DEF Work
<1> QED  BY <1>1, <1>2

(* No step of the loop or of a call brings a fix pass about. *)
LEMMA LoopFixes ==
    ASSUME TypeOK, NEW b \in Book, LoopTouching(b)
    PROVE  Fixes(b)' \in {Fixes(b), 0} /\ (Fixed(b)' => Fixed(b))
<1>0. "fixing" \in Stage
  BY FixesType
<1>1. ASSUME NEW v, DropForReadmit(b, v) PROVE Fixes(b)' \in {Fixes(b), 0} /\ (Fixed(b)' => Fixed(b))
  <2>1. /\ db'[b].ok = [s \in Stage |-> IF s \in ReadmitSupersedes(v) THEN 0 ELSE db[b].ok[s]]
        /\ disk'[b].done = [s \in Stage |-> IF s \in {v.state} THEN "absent" ELSE disk[b].done[s]]
    BY <1>1, ReadmitDoes
  <2>2. db'[b].ok["fixing"] \in {db[b].ok["fixing"], 0}
    BY <1>0, <2>1
  <2>3. disk'[b].done["fixing"] \in {"absent", disk[b].done["fixing"]}
    BY <1>0, <2>1
  <2> QED  BY <2>2, <2>3 DEF Fixes, Fixed, HasSentinel
<1>2. CASE ReadmitDue(b)
  <2>1. DropForReadmit(b, disp.seen[b]) \/ UNCHANGED <<db, disk>>
    BY <1>2 DEF ReadmitDue
  <2> QED  BY <1>1, <2>1 DEF Fixes, Fixed, HasSentinel
<1>3. CASE PromoteWaypoint(b)
  BY <1>3, StateWritten DEF PromoteWaypoint, Fixes, Fixed, HasSentinel
<1>4. CASE StartWorker(b) \/ CloseRuns(b)
  BY <1>4, StartDoes, CloseDoes DEF KeepsOk, Fixes, Fixed, HasSentinel
<1>5. CASE SupersedeLost(b)
  BY <1>0, <1>5, RewindDoes DEF Fixes, Fixed, HasSentinel
<1>6. CASE Recheck(b)
  BY <1>1, <1>6 DEF Recheck
<1>7. CASE PlaceRewound
  BY <1>7, StateWritten DEF PlaceRewound, Fixes, Fixed, HasSentinel
<1> QED  BY <1>2, <1>3, <1>4, <1>5, <1>6, <1>7 DEF LoopTouching

LEMMA FixesFall ==
    ASSUME TypeOK, CallsMade, WipesDeleted, CalmOps, [Next]_vars, NEW b \in Book, ~Work(b)
    PROVE  \/ db[b].row # "new" /\ db'[b].row = "deleted"
           \/ Fixes(b)' \in {Fixes(b), 0} /\ (Fixed(b)' => Fixed(b))
<1>0. "fixing" \in Stage /\ db \in [Book -> BookRow]
  BY FixesType DEF TypeOK, DbOK
<1>1. CASE Untouched(b)
  BY <1>1 DEF Untouched, SameRow, SameMarks, Fixes, Fixed, HasSentinel
<1>2. CASE StartupGC(b)
  <2>1. UNCHANGED db /\ (ReclaimDone(b) \/ UNCHANGED disk)
    BY <1>2 DEF StartupGC
  <2> QED  BY <1>0, <2>1, ReclaimDoes DEF Fixes, Fixed, HasSentinel
<1>3. CASE Enqueue(b)
  <2>1. db' = [db EXCEPT ![b] = [db[b] EXCEPT !.row = "live"]] /\ UNCHANGED disk
    BY <1>0, <1>3 DEF Enqueue
  <2>2. db'[b].ok = db[b].ok
    BY <1>0, <2>1 DEF BookRow
  <2> QED  BY <2>1, <2>2 DEF Fixes, Fixed, HasSentinel
<1>4. CASE \E c \in Client : Handle(c) /\ Touching(c, b)
  BY <1>4, CalmCallDoes DEF Fixes, Fixed, HasSentinel
<1>5. CASE Reboot
  BY <1>5 DEF Reboot, Fixes, Fixed, HasSentinel
<1> QED  BY <1>1, <1>2, <1>3, <1>4, <1>5, StepTouches, LoopFixes

LEMMA NewStays ==
    ASSUME TypeOK, CallsMade, WipesDeleted, CalmOps, [Next]_vars, NEW b \in Book,
           ~Running(b), db[b].row = "new", db'[b].row = "new"
    PROVE  db'[b].state = db[b].state
<1>1. CASE Work(b)
  BY <1>1, WorkerStage
<1>2. CASE Enqueue(b)
  BY <1>2 DEF Enqueue, TypeOK, DbOK, BookRow
<1>3. CASE LoopTouching(b)
  <2>1. CASE PromoteWaypoint(b) \/ (PlaceRewound /\ disp.book = b)
    BY <2>1, StateWritten DEF PromoteWaypoint, PlaceRewound, SameRow, Live
  <2> QED  BY <1>3, <2>1, LoopDoes DEF KeepsRow
<1>4. CASE \E c \in Client : Handle(c) /\ Touching(c, b)
  BY <1>4, CalmCallDoes DEF KeepsRow
<1>5. CASE StartupGC(b) \/ Reboot
  BY <1>5 DEF StartupGC, Reboot
<1> QED  BY <1>1, <1>2, <1>3, <1>4, <1>5, StepTouches DEF Untouched, SameRow

LEMMA NoneFixedStep ==
    ASSUME CalmOps, FixBase, [Next]_vars, NEW b \in Book, NoneFixed(b)
    PROVE  NoneFixed(b)'
<1>0. TypeOK /\ QuietStart /\ CallsMade /\ WipesDeleted /\ RowsRead(b)
  BY DEF FixBase, PlaceBase, PlaceInv
<1>1. ASSUME db'[b].row = "new" PROVE db'[b].state = "queued" /\ Fixes(b)' = 0 /\ ghost'[b].passes = 0
  <2>1. db[b].row = "new" /\ ~Running(b)
    BY <1>0, <1>1, RowSteps DEF RowsRead
  <2>2. ~Work(b)
    BY <1>0, <2>1, WorkerStage
  <2>3. Fixes(b)' = 0
    BY <1>0, <1>1, <2>1, <2>2, FixesFall DEF NoneFixed
  <2>4. ghost'[b].passes = 0
    BY <1>0, <2>1, <2>2, PassesStep DEF NoneFixed, Work
  <2> QED  BY <1>0, <1>1, <2>1, <2>3, <2>4, NewStays DEF NoneFixed
<1>2. ASSUME Starting', db'[b].row # "deleted" PROVE Fixes(b)' = 0 /\ ghost'[b].passes = 0 /\ ~Fixed(b)'
  <2>1. Starting
    <3>1. ~Crash /\ ~Restart /\ ~Shutdown
      BY DEF FixBase, NoReboot, Crash, Restart, Shutdown, PlaceBase, TypeOK
    <3> QED  BY <1>0, <1>2, <3>1, LoopMoves, StartPcs, DispatchPcs DEF Starting
  <2>2. db[b].row # "deleted"
    BY <1>0, <1>2, RowSteps DEF Enqueue
  <2>3. ~Running(b)
    BY <1>0, <2>1 DEF QuietStart
  <2>4. ~Work(b)
    BY <1>0, <2>3, WorkerStage
  <2> QED  BY <1>0, <1>2, <2>1, <2>2, <2>4, FixesFall, PassesStep DEF NoneFixed, Work
<1> QED  BY <1>1, <1>2 DEF NoneFixed

LEMMA FixesStep ==
    ASSUME CalmOps, FixBase, [Next]_vars, NEW b \in Book, FixesCounted(b), NoneFixed(b), DueToRetry(b)
    PROVE  FixesCounted(b)'
<1>0. /\ TypeOK /\ QuietStart /\ CallsMade /\ WipesDeleted /\ RowsRead(b) /\ WorkerPlaced(b) /\ Listed(b)
      /\ Fixes(b) \in Nat /\ ghost[b].passes \in Nat /\ MaxFixAttempts \in Nat /\ MaxFixAttempts > 0
      /\ "fixing" \in Stage
  BY FixesType, MaxFixAttemptsAssumption DEF FixBase, PlaceBase, PlaceInv
<1>1. CASE Work(b)
  BY <1>0, <1>1, FixWork
<1>2. CASE ~Work(b)
  <2>0. ghost'[b].passes \in {ghost[b].passes, 0}
    BY <1>0, <1>2, PassesStep DEF Work
  <2>1. CASE Untouched(b)
    BY <1>0, <2>0, <2>1, FixesStay DEF Untouched, SameRow, SameMarks, SameWork, Fixes, Fixed, HasSentinel, Live
  <2>2. CASE StartupGC(b)
    <3>1. UNCHANGED <<db, worker>> /\ (ReclaimDone(b) \/ UNCHANGED disk)
      BY <2>2 DEF StartupGC
    <3>2. "fixing" \notin InvalidatedStages(KindOf[b])
      BY DEF InvalidatedStages
    <3>3. disk'[b].done["fixing"] = disk[b].done["fixing"]
      BY <1>0, <3>1, <3>2, ReclaimDoes
    <3> QED  BY <1>0, <2>0, <3>1, <3>3, FixesStay DEF Fixes, Fixed, HasSentinel, Live
  <2>3. CASE Enqueue(b)
    <3>1. db[b].row = "new" /\ db[b].state = "queued" /\ ghost[b].passes = 0 /\ worker[b].pc = "off"
      BY <1>0, <2>3 DEF Enqueue, NoneFixed, RowsRead, Running
    <3>2. db'[b].state = "queued" /\ worker' = worker
      BY <1>0, <2>3, <3>1 DEF Enqueue, TypeOK, DbOK, BookRow
    <3>3. db'[b].ok = db[b].ok
      BY <1>0, <2>3 DEF Enqueue, TypeOK, DbOK, BookRow
    <3>4. Fixes(b)' \in Nat
      BY <1>0, <3>3 DEF Fixes
    <3> QED  BY <1>0, <2>0, <3>1, <3>2, <3>4 DEF FixesCounted, Fixing
  <2>4. CASE ReadmitDue(b)
    <3>1. UNCHANGED worker /\ disp.pc = "due" /\ b \in disp.todo
      BY <2>4 DEF ReadmitDue
    <3>2. CASE UNCHANGED <<db, disk>>
      BY <1>0, <2>0, <3>1, <3>2, FixesStay DEF Fixes, Fixed, HasSentinel, Live
    <3>3. CASE ~InFlight(b) /\ DropForReadmit(b, disp.seen[b])
      <4>1. disp.seen[b].park = "agent_rate_limited"
        BY <3>1 DEF DueToRetry
      <4>2. "fixing" \notin ReadmitSupersedes(disp.seen[b])
        BY <4>1 DEF ReadmitSupersedes
      <4>3. KeepsRow(b) /\ Fixes(b)' = Fixes(b) /\ (Fixed(b)' => Fixed(b))
        <5>1. /\ KeepsOpen(b)
              /\ db'[b].ok = [s \in Stage |-> IF s \in ReadmitSupersedes(disp.seen[b]) THEN 0 ELSE db[b].ok[s]]
              /\ disk'[b].done = [s \in Stage |-> IF s \in {disp.seen[b].state} THEN "absent"
                                                  ELSE disk[b].done[s]]
          BY <1>0, <3>3, ReadmitDoes
        <5>2. db'[b].ok["fixing"] = db[b].ok["fixing"]
          BY <1>0, <4>2, <5>1
        <5>3. disk'[b].done["fixing"] \in {"absent", disk[b].done["fixing"]}
          BY <1>0, <5>1
        <5> QED  BY <5>1, <5>2, <5>3 DEF KeepsOpen, Fixes, Fixed, HasSentinel
      <4>4. worker[b].pc = "off"
        BY <3>3 DEF InFlight, Running
      <4>5. Live(b)' => Live(b)
        BY <4>3 DEF KeepsRow, Live
      <4> QED  BY <1>0, <2>0, <3>1, <4>3, <4>4, <4>5 DEF FixesCounted, Fixing, KeepsRow
    <3> QED  BY <2>4, <3>2, <3>3 DEF ReadmitDue
  <2>5. CASE PromoteWaypoint(b)
    <3>1. UNCHANGED <<disk, worker>> /\ Fixes(b)' = Fixes(b) /\ (Live(b)' => Live(b))
      BY <1>0, <2>5, StateWritten DEF PromoteWaypoint, Fixes, Live
    <3>2. Live(b) => db'[b].state # "fixing"
      BY <1>0, <2>5, PromoteDoes
    <3> QED  BY <1>0, <2>0, <3>1, <3>2 DEF FixesCounted, Fixing
  <2>6. CASE StartWorker(b)
    <3>1. ~Running(b) /\ worker'[b].pc = "begin" /\ UNCHANGED <<db, disk>>
      BY <1>0, <2>6, StartDoes
    <3> QED  BY <1>0, <2>0, <3>1, FixesStay DEF Fixing, Running, Fixes, Fixed, HasSentinel, Live
  <2>7. CASE LoopTouching(b) /\ Starting /\ UNCHANGED worker
    <3>1. worker[b].pc = "off" /\ (Live(b)' => Live(b))
      BY <1>0, <2>7, LoopDoes DEF QuietStart, Running, Live
    <3>2. Live(b)' => Fixes(b)' = 0 /\ ~Fixed(b)' /\ ghost'[b].passes = 0
      BY <1>0, <2>0, <2>7, <3>1, LoopFixes DEF NoneFixed, Live
    <3> QED  BY <1>0, <2>0, <2>7, <3>1, <3>2 DEF FixesCounted, Fixing
  <2>8. CASE \E c \in Client : Handle(c) /\ Touching(c, b)
    <3>1. /\ SameWork(b)
          /\ \/ KeepsRow(b) /\ db'[b].ok = db[b].ok /\ disk'[b].done = disk[b].done
             \/ db'[b].row = "deleted"
      BY <1>0, <2>8, CalmCallDoes
    <3> QED  BY <1>0, <2>0, <3>1, FixesStay DEF SameWork, KeepsRow, Fixes, Fixed, HasSentinel, Live
  <2>9. ~Crash /\ ~Restart
    BY DEF FixBase, NoReboot, Crash, Restart, PlaceBase, TypeOK
  <2> QED  BY <1>0, <1>2, <2>1, <2>2, <2>3, <2>4, <2>5, <2>6, <2>7, <2>8, <2>9, StepMoves, LoopDoes
<1> QED  BY <1>1, <1>2

LEMMA NoRebootStep == TypeOK /\ NoReboot /\ [Next]_vars => NoReboot'
<1> SUFFICES ASSUME TypeOK, NoReboot, [Next]_vars PROVE NoReboot'
  OBVIOUS
<1>0. budget \in [ops : Nat, faults : Nat, crashes : Nat, starts : Nat] /\ budget.crashes = 0
  BY DEF TypeOK, NoReboot
<1>1. ~Crash /\ ~Restart /\ ~Shutdown
  BY <1>0 DEF NoReboot, Crash, Restart, Shutdown
<1>2. disp'.pc # "stopping"
  BY <1>1, LoopMoves, StartPcs, DispatchPcs DEF NoReboot, Starting
<1>3. budget'.crashes = 0
  <2>0. ASSUME NEW k, UseFault(k) PROVE budget'.crashes = budget.crashes
    BY <1>0, <2>0 DEF UseFault
  <2>1. ASSUME NEW b \in Book, Work(b) PROVE budget'.crashes = budget.crashes
    BY <2>0, <2>1 DEF Work, SkipStage, OpenRun, ExecSucceeds, ExecCanceled, ExecFaults, ExecGivesUp, RecordRun,
                      SetFailedOrParked, Advance, Commit, AutoPurgeDone, ReclaimDone
  <2>2. ASSUME NEW b \in Book, StartupGC(b) \/ TimePasses(b) \/ Enqueue(b) PROVE budget'.crashes = budget.crashes
    BY <1>0, <2>0, <2>2 DEF StartupGC, TimePasses, Enqueue, ReclaimDone
  <2>3. CASE Start
    <3>1. CASE StartGC
      BY <1>0, <3>1 DEF StartGC
    <3>2. CASE ListOpenRuns \/ ListForReconcile \/ PlaceRewound \/ ClearRechecked \/ Started
      BY <1>0, <3>2 DEF ListOpenRuns, ListForReconcile, PlaceRewound, ClearRechecked, Started, DispOnly
    <3>3. ASSUME NEW b \in Book, CloseRuns(b) \/ SupersedeLost(b) \/ Recheck(b)
          PROVE  budget'.crashes = budget.crashes
      BY <3>3 DEF CloseRuns, SupersedeLost, Recheck, DispOnly
    <3> QED  BY <1>0, <2>3, <3>1, <3>2, <3>3 DEF Start
  <2>4. CASE Dispatch
    BY <1>0, <2>4 DEF Dispatch, DispOnly, StartPass, ReadmitDue, ClearDue, ListBooks, PromoteWaypoint, Collect,
                StartWorker, SkipCandidate, EndPass
  <2>5. ASSUME NEW c \in Client, Handle(c) PROVE budget'.crashes = budget.crashes
    <3>1. CASE PurgeDirs(c)
      BY <2>0, <3>1 DEF PurgeDirs
    <3>2. CASE ~PurgeDirs(c)
      BY <2>5, <3>2 DEF Handle, ClientOnly, WriteStatus, Signal, DropSentinel, ClearStatus, DeleteRow, WipeDir,
                ReserveForPurge, PurgeSentinels, PurgeReconcile, PurgePlace, Unreserve, Terminate, CloseOrphan,
                DropForRerun, RerunPlace
    <3> QED  BY <3>1, <3>2
  <2>6. ASSUME NEW c \in Client, NEW b \in Book, NEW op \in OpName, NEW s \in Stage \cup {NoState}, Call(c, op, b, s)
        PROVE  budget'.crashes = budget.crashes
    BY <1>0, <2>6 DEF Call
  <2> QED  BY <1>0, <1>1, <2>1, <2>2, <2>3, <2>4, <2>5, <2>6 DEF Next, ClientSteps, vars
<1> QED  BY <1>2, <1>3 DEF NoReboot

LEMMA FixInit == Init => FixInv
<1> SUFFICES ASSUME Init, NEW b \in Book PROVE FixesCounted(b) /\ NoneFixed(b) /\ DueToRetry(b)
  BY DEF FixInv
<1>0. "fixing" \in Stage /\ MaxFixAttempts \in Nat \ {0} /\ Order("fixing") = 17
  BY InitType, FixesType, MaxFixAttemptsAssumption, OrderOf DEF State
<1>1. "fixing" \notin DoneAtStart(b)
  BY <1>0 DEF DoneAtStart, Mainline
<1>2. /\ Fixes(b) = 0 /\ ghost[b].passes = 0 /\ ~Fixed(b)
      /\ db[b].row = "new" => db[b].state = "queued"
  BY <1>0, <1>1 DEF Init, Fixes, Fixed, HasSentinel
<1>3. worker[b].pc = "off" /\ disp.pc = "close"
  BY DEF Init, IdleWorker, IdleDisp
<1> QED  BY <1>0, <1>2, <1>3 DEF FixesCounted, NoneFixed, DueToRetry, Fixing

(* The audit and fix loop runs at most MaxFixAttempts fix passes, whatever *)
(* stages fail or are rate-limited, whatever is paused, resumed or deleted *)
(* meanwhile and however stale the lists are the loop starts stages from,  *)
(* while the process lives and no call stops a worker or retries, readmits,*)
(* reruns or purges a book (NextState, advance).                           *)
THEOREM FixLoopEnds == ASSUME CalmOps, NoStops, MaxCrashes = 0 PROVE Spec => []FixCap
<1>1. Init => FixInv /\ NoReboot /\ CancelsAtStop
  <2> SUFFICES ASSUME Init PROVE NoReboot /\ CancelsAtStop
    BY FixInit
  <2>1. worker = [b \in Book |-> IdleWorker] /\ disp.pc = "close" /\ budget.crashes = 0
    BY DEF Init, IdleDisp
  <2>2. IdleWorker.pc = "off" /\ IdleWorker.cancelled = FALSE
    BY DEF IdleWorker
  <2> QED  BY <2>1, <2>2 DEF NoReboot, CancelsAtStop
<1>2. PlaceBase /\ NoWorkOnDeleted /\ NoReboot /\ CancelsAtStop /\ FixInv /\ [Next]_vars
         => (NoReboot /\ CancelsAtStop /\ FixInv)'
  <2> SUFFICES ASSUME PlaceBase, NoWorkOnDeleted, NoReboot, CancelsAtStop, FixInv, [Next]_vars
               PROVE  (NoReboot /\ CancelsAtStop /\ FixInv)'
    OBVIOUS
  <2>1. FixBase
    BY DEF FixBase, CancelsAtStop, NoReboot, PlaceBase, TypeOK, WorkerOK, WorkerRec
  <2>2. TypeOK /\ CallsMade
    BY DEF PlaceBase
  <2>3. FixInv'
    BY <2>1, <2>2, FixesStep, NoneFixedStep, DueStep DEF FixInv
  <2> QED  BY <2>2, <2>3, NoRebootStep, CancelStep
<1>3. PlaceBase /\ [Next]_vars => PlaceBase'
  BY PlaceStep
<1>4. FixInv => FixCap
  BY DEF FixInv, FixesCounted, FixCap
<1> QED  BY <1>1, <1>2, <1>3, <1>4, PlaceInit, DeletedBooksRest, PTL DEF Spec

=============================================================================
