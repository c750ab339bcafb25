----------------------------- MODULE Scheduler -----------------------------
(***************************************************************************)
(* The daemon's scheduler (internal/scheduler) over its two durable        *)
(* stores: the books and stage_runs tables (internal/store) and each       *)
(* book's work dir with its stage sentinels (internal/scheduler/           *)
(* sentinel.go, internal/scratch).                                         *)
(*                                                                         *)
(* The actors are goroutines: one dispatch loop, one worker per book in    *)
(* flight, the startup GC, and the API handlers and the supervisor, which  *)
(* call the control functions (the Clients).  A step is one call on the    *)
(* database, on the work dir or under the scheduler's mutex: whatever a    *)
(* goroutine does between two of them may interleave with the others.      *)
(***************************************************************************)
EXTENDS PipelineStates, Integers, FiniteSets

CONSTANTS
    Book,           \* book ids, in creation order
    KindOf,         \* audio or ebook
    SeriesOf,       \* the series, NoSeries for none
    PosOf,          \* the position within the series
    Client,         \* concurrent control calls
    AgentCap,       \* configured agent lane width
    MaxQARounds,    \* adjudication rounds before the executor parks (5)
    AutoPurge,      \* contribution.auto_purge
    StartAt,        \* where each book is when the model starts
    Ops,            \* control calls the clients may make
    Faults,         \* kinds of executor and I/O faults that may happen
    MaxOps,         \* bounds: control calls,
    MaxFaults,      \*   faults,
    MaxCrashes,     \*   daemon crashes or shutdowns, and stages started
    MaxStarts       \*   (NoLimit for any number) in a behaviour

NoSeries  == ""
NoBook    == -1
NoLimit   == 99       \* for MaxStarts: stages are not counted
NotQueued == "new"      \* in StartAt: not enqueued yet

OpName == {"pause", "resume", "retry", "cancel", "delete", "purge", "enqueue",
           "readmit", "terminate", "rerun", "park"}

FaultName == {"fail", "rate_limit", "unavailable", "human", "io"}

ASSUME ConstantsAssumption ==
    /\ Book \subseteq Nat /\ IsFiniteSet(Book)
    /\ KindOf \in [Book -> Kind]
    /\ PosOf \in [Book -> Int]
    /\ SeriesOf \in [Book -> STRING]
    /\ AgentCap \in Nat \ {0}          \* New clamps it
    /\ MaxQARounds \in Nat \ {0}
    /\ AutoPurge \in BOOLEAN
    /\ StartAt \in [Book -> State \cup {NotQueued}]
    /\ Ops \subseteq OpName
    /\ Faults \subseteq FaultName
    /\ MaxOps \in Nat /\ MaxFaults \in Nat /\ MaxCrashes \in Nat
    /\ MaxStarts \in 0..NoLimit

VARIABLES
    db,         \* per book: its books row and its stage_runs rows, counted
    disk,       \* per book: its work dir (sentinels and stage artifacts)
    worker,     \* per book: the goroutine running one of its stages
    reserved,   \* books held by a pseudo-inflight entry
    disp,       \* the dispatch loop (and, before it, the start sequence)
    gc,         \* done books the startup GC has still to visit
    client,     \* the control calls in progress
    ghost,      \* per book: what the properties remember
    budget      \* what is left of the bounds

vars == <<db, disk, worker, reserved, disp, gc, client, ghost, budget>>

-----------------------------------------------------------------------------
(* The books row.  retry is books.retry_at: unset, in the future, elapsed. *)

Status   == {"none", "paused", "needs_attention", "failed"}
Retry    == {"none", "wait", "due"}
NoCode   == ""
ParkCode == {NoCode, "agent_rate_limited", "asr_unavailable", "media_tools_unavailable",
             "qa_no_converge", "fix_loop_exhausted", "supervisor_escalated", "other"}

(* Counts of stage_runs rows.  The code only compares them with the caps,  *)
(* so a count saturates at the larger one (or at 2, for open rows).        *)
RunCap   == IF MaxQARounds > MaxFixAttempts THEN MaxQARounds ELSE MaxFixAttempts
RunCount == 0..RunCap
Bump(n, cap) == IF n < cap THEN n + 1 ELSE n
Drop(n)      == IF n > 0 THEN n - 1 ELSE n

NoRuns       == [s \in Stage |-> 0]

Live(b) == db[b].row = "live"

(* Mutant: a retry instant outlives the park.                               *)
WithStaleRetry(row, status, code, retry) ==
    LET parked == status = "needs_attention"
    IN  [row EXCEPT !.status = status,
                    !.park   = IF parked THEN code ELSE NoCode,
                    !.retry  = IF parked THEN retry ELSE @]

(* SetBookStatusRetry and SetBookStatus: a code and a retry instant only   *)
(* ever sit beside needs_attention; a deleted row is not written.          *)
WithStatus(row, status, code, retry) ==
    LET parked == status = "needs_attention"
    IN  [row EXCEPT !.status = status,
                    !.park   = IF parked THEN code ELSE NoCode,
                    !.retry  = IF parked THEN retry ELSE "none"]

SetBookStatus(b, status, code, retry) ==
    db' = IF Live(b) THEN [db EXCEPT ![b] = WithStatus(@, status, code, retry)] ELSE db

(* SetBookState writes position and status together; retry_at survives a   *)
(* write that keeps needs_attention.                                       *)
SetBookState(b, s, status, code) ==
    db' = IF Live(b)
          THEN [db EXCEPT ![b] = [WithStatus(@, status, code, @.retry) EXCEPT !.state = s]]
          ELSE db

Succeeded(b) == {s \in Stage : db[b].ok[s] > 0}

(* SupersedeStageSuccesses, on a set of stages. *)
Supersede(row, stages) ==
    [row EXCEPT !.ok = [s \in Stage |-> IF s \in stages THEN 0 ELSE @[s]]]

(* What a ListBooks or GetBook call returns of one book. *)
View(b) == [row |-> db[b].row, state |-> db[b].state, status |-> db[b].status,
            park |-> db[b].park, retry |-> db[b].retry, succ |-> Succeeded(b)]
NoView  == [row |-> "new", state |-> "queued", status |-> "none",
            park |-> NoCode, retry |-> "none", succ |-> {}]
Views   == [row : {"new", "live", "deleted"}, state : State, status : Status,
            park : ParkCode, retry : Retry, succ : SUBSET Stage]

-----------------------------------------------------------------------------
(* The work dir.  A sentinel records the branch its stage decided: "main"  *)
(* or "cond", the side of its table row it leads to.                       *)

Mark     == {"main", "cond"}
Artifact == {"chapters", "raw", "extract", "text"}

HasSentinel(b, s) == disk[b].done[s] # "absent"

(* Mutant: the sentinels stay.                                              *)
KeepSentinels(dir, stages) == dir

(* Mutant: every sentinel goes.                                             *)
RemoveAllSentinels(dir, stages) == [dir EXCEPT !.done = [s \in Stage |-> "absent"]]

RemoveSentinels(dir, stages) ==
    [dir EXCEPT !.done = [s \in Stage |-> IF s \in stages THEN "absent" ELSE @[s]]]

RemoveLayers(dir, layers) == [dir EXCEPT !.art = @ \ layers]

WriteSentinel(dir, s, mark, outputs) ==
    [dir EXCEPT !.done[s] = mark, !.art = @ \cup outputs]

EmptyDir == [done |-> [s \in Stage |-> "absent"], art |-> {}]

(* Mutant: a missing chapters_mapped field reads as true.                   *)
OutcomeMapped(mark, fixes) ==
    [markersContiguous |-> mark = "main", qaClean |-> mark = "main",
     retranscribeNeeded |-> mark = "cond", auditPassed |-> mark = "main",
     chaptersMapped |-> TRUE, fixAttempts |-> fixes]

(* The Outcome a sentinel's mark stands for: the branch fields of the      *)
(* stage read back, plus the fix passes counted from the database.         *)
OutcomeOf(mark, fixes) ==
    [markersContiguous |-> mark = "main", qaClean |-> mark = "main",
     retranscribeNeeded |-> mark = "cond", auditPassed |-> mark = "main",
     chaptersMapped |-> mark = "main", fixAttempts |-> fixes]

(* What a stage reads of the reclaimable layers, and what it leaves there. *)
InputsPresent(b, s) ==
    LET art == disk[b].art
    IN  /\ s = "asr" => art \cap {"chapters", "raw"} # {}
        /\ s = "retranscribing" => "chapters" \in art
        /\ s = "chapter_mapping" => "extract" \in art
        /\ s = "fact_pass" /\ KindOf[b] = "ebook" => "text" \in art

Outputs(s, mark) ==
    CASE s = "splitting"       -> {"chapters"}
      [] s = "asr"             -> {"raw"}
      [] s = "extracting"      -> IF mark = "main" THEN {"extract", "text"} ELSE {"extract"}
      [] s = "chapter_mapping" -> {"text"}
      [] OTHER                 -> {}

(* scratch: the layers a purge reclaims and the stages it invalidates.     *)
Reclaimed(kind) == IF kind = "ebook" THEN {"chapters", "extract", "text"} ELSE {"chapters"}
(* Mutant: the sentinel of a removed layer stays.                           *)
NothingInvalidated(kind) == {}

InvalidatedStages(kind) ==
    IF kind = "ebook" THEN {"splitting", "extracting", "chapter_mapping"} ELSE {"splitting"}
PurgeRequired(kind) == kind = "ebook"
(* Mutant: an ebook is reclaimed only when configured.                      *)
PurgeConfigured(b) == AutoPurge

PurgeWanted(b)      == AutoPurge \/ PurgeRequired(KindOf[b])

-----------------------------------------------------------------------------
(* The in-flight table: a real worker or a reservation, never both. *)

IdleWorker  == [pc |-> "off", stage |-> "queued", next |-> "queued", out |-> "",
                cancelled |-> FALSE]
Running(b)  == worker[b].pc # "off"
(* Mutant: a reservation does not count as in flight.                       *)
OnlyRunning(b) == Running(b)

InFlight(b) == Running(b) \/ b \in reserved

Exit(b)      == worker' = [worker EXCEPT ![b] = IdleWorker]
GoTo(b, pc)  == worker' = [worker EXCEPT ![b].pc = pc]
CancelInflight(b) ==
    worker' = IF Running(b) THEN [worker EXCEPT ![b].cancelled = TRUE] ELSE worker

(* Mutant: a run is opened for a row that is gone.                          *)
CanWriteAnyway(b) == ~worker[b].cancelled

(* A database call on the worker's own context. *)
CanWrite(b) == ~worker[b].cancelled /\ Live(b)

UseFault(kind) ==
    /\ kind \in Faults
    /\ budget.faults > 0
    /\ budget' = [budget EXCEPT !.faults = @ - 1]

WorkerOnly == UNCHANGED <<reserved, disp, gc, client>>

-----------------------------------------------------------------------------
(* A stage worker (runStage and advance).                                  *)

(* The sentinel is already there: skip the stage, replay its branch. *)
SkipStage(b) ==
    /\ worker[b].pc = "begin"
    /\ HasSentinel(b, worker[b].stage)
    /\ worker' = [worker EXCEPT ![b].pc = "advance", ![b].out = disk[b].done[worker[b].stage]]
    /\ UNCHANGED <<db, disk, ghost, budget>> /\ WorkerOnly

OpenRun(b) ==
    LET s == worker[b].stage
    IN  /\ worker[b].pc = "begin"
        /\ ~HasSentinel(b, s)
        /\ IF CanWrite(b)
           THEN /\ GoTo(b, "exec")
                /\ db' = [db EXCEPT ![b].open[s] = Bump(@, 2)]
           ELSE Exit(b) /\ UNCHANGED db
        /\ UNCHANGED <<disk, ghost, budget>> /\ WorkerOnly

BranchStage == {"inspecting", "extracting", "qa_sweep", "qa_adjudicating", "auditing"}

(* The executor did the stage; writing the sentinel is its last act.  It   *)
(* may finish although it was told to stop.                                *)
ExecSucceeds(b) ==
    LET s == worker[b].stage
    IN  /\ worker[b].pc = "exec"
        /\ InputsPresent(b, s)
        /\ s = "qa_adjudicating" => db[b].ok[s] < MaxQARounds
        /\ \E mark \in (IF s \in BranchStage THEN Mark ELSE {"main"}) :
              /\ disk' = [disk EXCEPT ![b] = WriteSentinel(@, s, mark, Outputs(s, mark))]
              /\ worker' = [worker EXCEPT ![b].pc = "ran", ![b].out = mark]
        /\ ghost' = [ghost EXCEPT ![b].passes =
                        IF s = "fixing" THEN Bump(@, MaxFixAttempts + 1) ELSE @]
        /\ UNCHANGED <<db, budget>> /\ WorkerOnly

(* The executor saw the cancellation: the run is closed on a fresh context *)
(* and the stage is left to run again.                                     *)
ExecCanceled(b) ==
    /\ worker[b].pc = "exec"
    /\ worker[b].cancelled
    /\ db' = [db EXCEPT ![b].open[worker[b].stage] = Drop(@)]
    /\ Exit(b)
    /\ UNCHANGED <<disk, ghost, budget>> /\ WorkerOnly

(* An error or a park.  The run is closed on the worker's own context, the *)
(* status is set in the next step.                                         *)
ExecEnds(b, out) ==
    LET s == worker[b].stage
    IN  /\ worker[b].pc = "exec"
        /\ worker' = [worker EXCEPT ![b].pc = "failing", ![b].out = out]
        /\ db' = IF CanWrite(b) THEN [db EXCEPT ![b].open[s] = Drop(@)] ELSE db
        /\ UNCHANGED <<disk, ghost>> /\ WorkerOnly

(* The environment's failures (bounded), then the two the stage decides.   *)
ExecFaults(b) ==
    LET s == worker[b].stage
    IN  \/ UseFault("fail") /\ ExecEnds(b, "failed")
        \/ UseFault("human") /\ ExecEnds(b, "other")
        \/ IsAgent(s) /\ UseFault("rate_limit") /\ ExecEnds(b, "agent_rate_limited")
        \/ s \in {"inspecting", "splitting"} /\ UseFault("unavailable")
              /\ ExecEnds(b, "media_tools_unavailable")
        \/ LaneOf(s) = "asr" /\ UseFault("unavailable") /\ ExecEnds(b, "asr_unavailable")

(* A starved stage fails; the adjudicator parks at its round cap, and from *)
(* the third round on may park on a stall.                                 *)
ExecGivesUp(b) ==
    LET s == worker[b].stage
    IN  /\ \/ ~InputsPresent(b, s) /\ ExecEnds(b, "failed")
           \/ /\ s = "qa_adjudicating"
              /\ db[b].ok[s] >= 2 \/ db[b].ok[s] >= MaxQARounds
              /\ ExecEnds(b, "qa_no_converge")
        /\ UNCHANGED budget

(* Success: the sentinel must be there, then the run is recorded. *)
RecordRun(b) ==
    LET s == worker[b].stage
    IN  /\ worker[b].pc = "ran"
        /\ IF ~HasSentinel(b, s)
           THEN /\ worker' = [worker EXCEPT ![b].pc = "failing", ![b].out = "failed"]
                /\ db' = IF CanWrite(b) THEN [db EXCEPT ![b].open[s] = Drop(@)] ELSE db
           ELSE IF CanWrite(b)
           THEN /\ GoTo(b, "advance")
                /\ db' = [db EXCEPT ![b].open[s] = Drop(@), ![b].ok[s] = Bump(@, RunCap)]
           ELSE Exit(b) /\ UNCHANGED db
        /\ UNCHANGED <<disk, ghost, budget>> /\ WorkerOnly

(* setStatus: a write on a fresh context, whatever the status is by now. *)
SetFailedOrParked(b) ==
    LET out == worker[b].out
    IN  /\ worker[b].pc = "failing"
        /\ IF out = "failed" THEN SetBookStatus(b, "failed", NoCode, "none")
           ELSE SetBookStatus(b, "needs_attention", out,
                              IF out = "agent_rate_limited" THEN "wait" ELSE "none")
        /\ Exit(b)
        /\ UNCHANGED <<disk, ghost, budget>> /\ WorkerOnly

(* advance: the branch, or the park of a spent fix budget; then the        *)
(* successor's stale sentinel goes.                                        *)
Advance(b) ==
    LET s    == worker[b].stage
        o    == OutcomeOf(worker[b].out, db[b].ok["fixing"])
        next == NextState(KindOf[b], s, o).state
    IN  /\ worker[b].pc = "advance"
        /\ IF s = "auditing" /\ worker[b].cancelled
           THEN Exit(b) /\ UNCHANGED disk                \* counting the fixes failed
           ELSE IF FixBudgetSpent(s, o)
           THEN /\ worker' = [worker EXCEPT ![b].pc = "failing", ![b].out = "fix_loop_exhausted"]
                /\ UNCHANGED disk
           ELSE /\ worker' = [worker EXCEPT ![b].pc = "commit", ![b].next = next]
                /\ disk' = [disk EXCEPT ![b] = RemoveSentinels(@, {next})]
        /\ UNCHANGED <<db, ghost, budget>> /\ WorkerOnly

(* Mutant: the position is written with a clean status.                     *)
CommitStatus(b) ==
    /\ worker[b].pc = "commit"
    /\ IF CanWrite(b) THEN SetBookState(b, worker[b].next, "none", NoCode) ELSE UNCHANGED db
    /\ Exit(b)
    /\ UNCHANGED <<disk, ghost, budget>> /\ WorkerOnly

(* SetBookPipelineState: the position only, never the status. *)
Commit(b) ==
    LET next == worker[b].next
    IN  /\ worker[b].pc = "commit"
        /\ IF CanWrite(b)
           THEN /\ db' = [db EXCEPT ![b].state = next]
                /\ IF next = "done" /\ PurgeWanted(b) THEN GoTo(b, "purge") ELSE Exit(b)
           ELSE Exit(b) /\ UNCHANGED db
        /\ UNCHANGED <<disk, ghost, budget>> /\ WorkerOnly

(* The reclaim of a done book: it has nothing to reconcile.  RemoveAll may *)
(* fail half way, then the sentinels stay.                                 *)
ReclaimDone(b) ==
    \/ /\ disk' = [disk EXCEPT ![b] = RemoveSentinels(RemoveLayers(@, Reclaimed(KindOf[b])),
                                                      InvalidatedStages(KindOf[b]))]
       /\ UNCHANGED budget
    \/ /\ UseFault("io")
       /\ \E gone \in SUBSET Reclaimed(KindOf[b]) : disk' = [disk EXCEPT ![b] = RemoveLayers(@, gone)]

(* The row is read again: a book moved off done since is left alone.  One  *)
(* paused, failed or parked since the code would purge and rewind as well, *)
(* PurgeScratch's own steps: it needs a rerun that writes its older row    *)
(* between this worker's last write and here, and is left out.             *)
AutoPurgeDone(b) ==
    /\ worker[b].pc = "purge"
    /\ IF Live(b) /\ IsTerminal(db[b].state) THEN ReclaimDone(b) ELSE UNCHANGED <<disk, budget>>
    /\ Exit(b)
    /\ UNCHANGED <<db, ghost>> /\ WorkerOnly

Work(b) ==
    \/ SkipStage(b) \/ OpenRun(b) \/ ExecSucceeds(b) \/ ExecCanceled(b)
    \/ ExecFaults(b) \/ ExecGivesUp(b) \/ RecordRun(b) \/ SetFailedOrParked(b)
    \/ Advance(b) \/ Commit(b) \/ AutoPurgeDone(b)

-----------------------------------------------------------------------------
(* Rewinding (reconcileBook): the earliest stage the database calls done   *)
(* whose sentinel is gone, with every later success superseded.            *)

Lost(b, succ) == {s \in succ : ~HasSentinel(b, s)}
EarliestLost(b, succ, s) == s \in Lost(b, succ) /\ \A t \in Lost(b, succ) : Order(s) <= Order(t)
FromOn(s, succ) == {t \in succ : Order(t) >= Order(s)}

(* Readmission (readmit): drop the sentinel and, for the round-cap parks,  *)
(* the counters; then clear the status.  v is the row its caller read.     *)
ReadmitSupersedes(v) ==
    (IF v.park \in {"qa_no_converge", "fix_loop_exhausted"} THEN {v.state} ELSE {})
      \cup (IF v.park = "fix_loop_exhausted" THEN {"fixing"} ELSE {})

DropForReadmit(b, v) ==
    /\ disk' = [disk EXCEPT ![b] = RemoveSentinels(@, {v.state})]
    /\ db' = [db EXCEPT ![b] = Supersede(@, ReadmitSupersedes(v))]
    /\ ghost' = [ghost EXCEPT ![b].passes = IF v.park = "fix_loop_exhausted" THEN 0 ELSE @]

-----------------------------------------------------------------------------
(* The dispatch loop.  disp.todo is what is left of the list it walks,     *)
(* disp.seen the rows it read, disp.at the book (and stage) in hand.       *)

Slot == {"asr", "agent", "mechanical", "source"}
IdleDisp == [pc |-> "idle", todo |-> {}, book |-> NoBook, stage |-> NoState,
             seen |-> [b \in Book |-> NoView], free |-> [l \in Slot |-> 0]]

DispOnly == UNCHANGED <<gc, client, budget>>

(* Mutant: the loop re-admits no rate limit.                                *)
NoAutoReadmit == {}

(* A pass begins: the parks whose retry instant has elapsed. *)
AutoReadmitCodes == {"agent_rate_limited"}

StartPass ==
    LET due == {b \in Book : /\ Live(b)
                             /\ db[b].status = "needs_attention"
                             /\ db[b].retry = "due"
                             /\ db[b].park \in AutoReadmitCodes}
    IN  /\ disp.pc = "idle"
        /\ disp' = [disp EXCEPT !.pc = "due", !.todo = due,
                                !.seen = [b \in Book |-> IF b \in due THEN View(b) ELSE NoView]]
        /\ UNCHANGED <<db, disk, worker, reserved, ghost>> /\ DispOnly

ReadmitDue(b) ==
    /\ disp.pc = "due"
    /\ b \in disp.todo
    /\ IF InFlight(b)
       THEN /\ disp' = [disp EXCEPT !.todo = @ \ {b}]
            /\ UNCHANGED <<db, disk, reserved, ghost>>
       ELSE /\ reserved' = reserved \cup {b}
            /\ DropForReadmit(b, disp.seen[b])
            /\ disp' = [disp EXCEPT !.pc = "clear", !.book = b, !.todo = @ \ {b}]
    /\ UNCHANGED worker /\ DispOnly

ClearDue ==
    /\ disp.pc = "clear"
    /\ SetBookStatus(disp.book, "none", NoCode, "none")
    /\ reserved' = reserved \ {disp.book}
    /\ disp' = [disp EXCEPT !.pc = "due", !.book = NoBook]
    /\ UNCHANGED <<disk, worker, ghost>> /\ DispOnly

(* One ListBooks; the waypoints in it are promoted one write at a time. *)
ListBooks ==
    /\ disp.pc = "due" /\ disp.todo = {}
    /\ disp' = [disp EXCEPT !.pc = "waypoints", !.seen = [b \in Book |-> View(b)],
                  !.todo = {b \in Book : Live(b) /\ db[b].status = "none" /\ IsWaypoint(db[b].state)}]
    /\ UNCHANGED <<db, disk, worker, reserved, ghost>> /\ DispOnly

PromoteWaypoint(b) ==
    LET next == NextState(KindOf[b], disp.seen[b].state, OutcomeOf("main", 0)).state
    IN  /\ disp.pc = "waypoints"
        /\ b \in disp.todo
        /\ SetBookState(b, next, "none", NoCode)
        /\ disp' = [disp EXCEPT !.todo = @ \ {b},
                      !.seen = IF Live(b) THEN [disp.seen EXCEPT ![b].state = next] ELSE @]
        /\ UNCHANGED <<disk, worker, reserved, ghost>> /\ DispOnly

(* The series order: the lowest-position unfinished book of each series    *)
(* holds its lock, a book without a series its own.                        *)
Before(b, c) == PosOf[b] < PosOf[c] \/ (PosOf[b] = PosOf[c] /\ b < c)
SameSeries(b, c) == SeriesOf[b] = SeriesOf[c] /\ SeriesOf[b] # NoSeries
Unfinished(seen, b) == seen[b].row = "live" /\ HoldsSeriesLock(seen[b].state)
(* Mutant: every unfinished book holds a lock.                              *)
HoldsOwnLock(seen, b) == Unfinished(seen, b)

HoldsLock(seen, b) ==
    /\ Unfinished(seen, b)
    /\ \A c \in Book : SameSeries(b, c) /\ Unfinished(seen, c) => ~Before(c, b)

(* Three lanes, and a narrower slot of the mechanical one for the stages   *)
(* that read the library mount.                                            *)
UsesSlot(s, l) == IF l = "source" THEN ReadsSource(s) ELSE LaneOf(s) = l
Holders(l)     == {b \in Book : Running(b) /\ UsesSlot(worker[b].stage, l)}
SlotCap(l)     == CASE l = "agent" -> AgentCap [] l = "mechanical" -> 2 [] OTHER -> 1

(* The candidates and the free slots, from one look at the table.  *)
Collect ==
    /\ disp.pc = "waypoints" /\ disp.todo = {}
    /\ disp' = [disp EXCEPT !.pc = "fill",
          !.todo = {b \in Book : /\ disp.seen[b].row = "live"
                                 /\ ~InFlight(b)
                                 /\ CanStart(disp.seen[b].state, disp.seen[b].status,
                                             HoldsLock(disp.seen, b))},
          !.free = [l \in Slot |-> SlotCap(l) - Cardinality(Holders(l))]]
    /\ UNCHANGED <<db, disk, worker, reserved, ghost>> /\ DispOnly

(* The ordinal of a book within its series, over every listed book.        *)
BreadthRank(seen, b) ==
    Cardinality({c \in Book : seen[c].row = "live" /\ SameSeries(b, c) /\ Before(c, b)})

(* The order candidates are offered slots in: lanes in turn, corrective    *)
(* ASR first, full-book ASR breadth-first across the series, the rest by id. *)
LaneTurn(lane) == CASE lane = "asr" -> 0 [] lane = "agent" -> 1 [] OTHER -> 2
Offered(seen, b, c) ==
    LET s == seen[b].state
        t == seen[c].state
        turn == <<LaneTurn(LaneOf(s)), LaneTurn(LaneOf(t))>>
        rank == IF s = "asr" THEN <<BreadthRank(seen, b), BreadthRank(seen, c)>> ELSE <<0, 0>>
    IN  \/ turn[1] < turn[2]
        \/ turn[1] = turn[2] /\ s = "retranscribing" /\ t = "asr"
        \/ /\ turn[1] = turn[2]
           /\ (s = "retranscribing") = (t = "retranscribing")
           /\ rank[1] < rank[2] \/ (rank[1] = rank[2] /\ b < c)
IsNext(b) == b \in disp.todo /\ \A c \in disp.todo \ {b} : Offered(disp.seen, b, c)

(* Mutant: one worker more than the lane has slots.                         *)
HasRoomForOneMore(s) == \A l \in Slot : UsesSlot(s, l) => disp.free[l] >= 0

(* Mutant: the source slot is not asked for.                                *)
HasLaneRoom(s) == disp.free[LaneOf(s)] > 0

HasRoom(s) == \A l \in Slot : UsesSlot(s, l) => disp.free[l] > 0
(* Mutant: a start does not use its slots up.                               *)
KeepSlots(free, s) == free

TakeSlots(free, s) == [l \in Slot |-> IF UsesSlot(s, l) THEN free[l] - 1 ELSE free[l]]

StartWorker(b) ==
    LET s == disp.seen[b].state
    IN  /\ disp.pc = "fill"
        /\ IsNext(b)
        /\ HasRoom(s)
        /\ ~InFlight(b)
        /\ budget.starts # 0
        /\ budget' = [budget EXCEPT !.starts = IF @ = NoLimit THEN @ ELSE Drop(@)]
        /\ worker' = [worker EXCEPT ![b] = [IdleWorker EXCEPT !.pc = "begin", !.stage = s]]
        /\ disp' = [disp EXCEPT !.todo = @ \ {b}, !.free = TakeSlots(@, s)]
        /\ ghost' = [ghost EXCEPT ![b].late = IF ghost[b].held THEN Bump(@, 2) ELSE @]
        /\ UNCHANGED <<db, disk, reserved, gc, client>>

SkipCandidate(b) ==
    /\ disp.pc = "fill"
    /\ IsNext(b)
    /\ ~HasRoom(disp.seen[b].state) \/ InFlight(b) \/ budget.starts = 0
    /\ disp' = [disp EXCEPT !.todo = @ \ {b}]
    /\ UNCHANGED <<db, disk, worker, reserved, ghost>> /\ DispOnly

EndPass ==
    /\ disp.pc = "fill" /\ disp.todo = {}
    /\ disp' = IdleDisp
    /\ UNCHANGED <<db, disk, worker, reserved, ghost>> /\ DispOnly

Dispatch ==
    \/ StartPass \/ ClearDue \/ ListBooks \/ Collect \/ EndPass
    \/ \E b \in Book : ReadmitDue(b) \/ PromoteWaypoint(b) \/ StartWorker(b) \/ SkipCandidate(b)

-----------------------------------------------------------------------------
(* Start: close the interrupted runs, rewind the active books, start the   *)
(* GC, re-admit the parks a restart may have cured.  API calls are served  *)
(* meanwhile, and a write that no longer finds its row ends Start: the     *)
(* daemon goes on without a dispatch loop.                                 *)

Dead == [IdleDisp EXCEPT !.pc = "dead"]

ListOpenRuns ==
    /\ disp.pc = "close"
    /\ disp' = [disp EXCEPT !.pc = "list",
                  !.todo = {b \in Book : \E s \in Stage : db[b].open[s] > 0}]
    /\ UNCHANGED <<db, disk, worker, reserved, ghost>> /\ DispOnly

(* Mutant: the runs a crash interrupted stay open.                          *)
LeaveRuns(b) ==
    /\ disp.pc = "list"
    /\ b \in disp.todo
    /\ disp' = [disp EXCEPT !.todo = @ \ {b}]
    /\ UNCHANGED <<db, disk, worker, reserved, ghost>> /\ DispOnly

CloseRuns(b) ==
    /\ disp.pc = "list"
    /\ b \in disp.todo
    /\ IF Live(b)
       THEN /\ db' = [db EXCEPT ![b].open = NoRuns]
            /\ disp' = [disp EXCEPT !.todo = @ \ {b}]
       ELSE disp' = Dead /\ UNCHANGED db
    /\ UNCHANGED <<disk, worker, reserved, ghost>> /\ DispOnly

ListForReconcile ==
    /\ disp.pc = "list" /\ disp.todo = {}
    /\ disp' = [disp EXCEPT !.pc = "rewind", !.seen = [b \in Book |-> View(b)],
                  !.todo = {b \in Book : Live(b) /\ ~IsTerminal(db[b].state)}]
    /\ UNCHANGED <<db, disk, worker, reserved, ghost>> /\ DispOnly

SupersedeLost(b) ==
    LET succ == disp.seen[b].succ
    IN  /\ disp.pc = "rewind"
        /\ b \in disp.todo
        /\ IF Lost(b, succ) = {}
           THEN disp' = [disp EXCEPT !.todo = @ \ {b}] /\ UNCHANGED db
           ELSE \E s \in Lost(b, succ) :
                    /\ EarliestLost(b, succ, s)
                    /\ db' = [db EXCEPT ![b] = Supersede(@, FromOn(s, succ))]
                    /\ disp' = [disp EXCEPT !.pc = "place", !.todo = @ \ {b}, !.book = b, !.stage = s]
        /\ UNCHANGED <<disk, worker, reserved, ghost>> /\ DispOnly

PlaceRewound ==
    LET v == disp.seen[disp.book]
    IN  /\ disp.pc = "place"
        /\ SetBookState(disp.book, disp.stage, v.status, v.park)
        /\ disp' = IF Live(disp.book)
                   THEN [disp EXCEPT !.pc = "rewind", !.book = NoBook, !.stage = NoState]
                   ELSE Dead
        /\ UNCHANGED <<disk, worker, reserved, ghost>> /\ DispOnly

(* An escalation counts as recoverable when its message names a backend.   *)
RestartReadmitCodes == {"agent_rate_limited", "asr_unavailable", "media_tools_unavailable"}

StartGC ==
    LET parked(codes) == {b \in Book : Live(b) /\ db[b].status = "needs_attention"
                                                /\ db[b].park \in codes}
    IN  /\ disp.pc = "rewind" /\ disp.todo = {}
        /\ gc' = {b \in Book : /\ disp.seen[b].row = "live"
                               /\ IsTerminal(disp.seen[b].state)
                               /\ PurgeWanted(b)}
        /\ \E backend \in SUBSET parked({"supervisor_escalated"}) :
              disp' = [disp EXCEPT !.pc = "recheck", !.seen = [b \in Book |-> View(b)],
                                   !.todo = parked(RestartReadmitCodes) \cup backend]
        /\ UNCHANGED <<db, disk, worker, reserved, client, ghost, budget>>

(* This readmission takes no reservation: no worker exists yet. *)
Recheck(b) ==
    /\ disp.pc = "recheck"
    /\ b \in disp.todo
    /\ DropForReadmit(b, disp.seen[b])
    /\ disp' = [disp EXCEPT !.pc = "reclear", !.book = b, !.todo = @ \ {b}]
    /\ UNCHANGED <<worker, reserved>> /\ DispOnly

ClearRechecked ==
    /\ disp.pc = "reclear"
    /\ SetBookStatus(disp.book, "none", NoCode, "none")
    /\ disp' = [disp EXCEPT !.pc = "recheck", !.book = NoBook]
    /\ UNCHANGED <<disk, worker, reserved, ghost>> /\ DispOnly

Started ==
    /\ disp.pc = "recheck" /\ disp.todo = {}
    /\ disp' = IdleDisp
    /\ UNCHANGED <<db, disk, worker, reserved, ghost>> /\ DispOnly

Start == \/ ListOpenRuns \/ ListForReconcile \/ PlaceRewound \/ StartGC \/ ClearRechecked \/ Started
         \/ \E b \in Book : CloseRuns(b) \/ SupersedeLost(b) \/ Recheck(b)

(* The startup GC: terminal books only, under a reservation it takes and   *)
(* gives back within the step.                                             *)
StartupGC(b) ==
    /\ b \in gc
    /\ gc' = gc \ {b}
    /\ \/ /\ disp.pc # "stopping" /\ ~InFlight(b)
          /\ disk[b].art \cap Reclaimed(KindOf[b]) # {}
          /\ ReclaimDone(b)
       \/ /\ \/ disp.pc = "stopping" \/ InFlight(b)
             \/ disk[b].art \cap Reclaimed(KindOf[b]) = {}
          /\ UNCHANGED <<disk, budget>>
    /\ UNCHANGED <<db, worker, reserved, disp, client, ghost>>

-----------------------------------------------------------------------------
(* Control calls (control.go, supervisor.go).  A call reads the row, then  *)
(* acts on what it read.                                                   *)

IdleClient == [pc |-> "idle", op |-> "pause", book |-> NoBook, seen |-> NoView, stage |-> NoState]

Parked(v)  == v.status \in {"failed", "needs_attention"}

PurgeAllowed(v) == IsTerminal(v.state) \/ v.status = "paused" \/ Parked(v)

Accepts(op, b, v, s) ==
    CASE op = "pause"   -> v.status = "none"
      [] op = "resume"  -> v.status = "paused"
      [] op = "retry"   -> Parked(v)
      [] op = "readmit" -> Parked(v) /\ v.retry # "wait"
      [] op \in {"cancel", "park"} -> ~IsTerminal(v.state)
      [] op = "purge"   -> PurgeAllowed(v)
      [] op = "rerun"   -> /\ s \in Stage \ {"contributing"}
                           /\ Order(v.state) < Order("ready")
                           /\ db[b].ok["contributing"] = 0
      [] op \in {"delete", "terminate"} -> TRUE
      [] OTHER -> FALSE

FirstStep(op) ==
    CASE op \in {"pause", "resume", "cancel", "park"} -> "write"
      [] op \in {"retry", "readmit"} -> "drop"
      [] op = "rerun"     -> "signal"
      [] op = "delete"    -> "remove"
      [] op = "purge"     -> "reserve"
      [] op = "terminate" -> "decide"
      [] OTHER            -> "idle"

Call(c, op, b, s) ==
    /\ client[c].pc = "idle"
    /\ op \in Ops /\ budget.ops > 0
    /\ Live(b)
    /\ (op = "rerun") = (s # NoState)
    /\ Accepts(op, b, View(b), s)
    /\ client' = [client EXCEPT ![c] = [pc |-> FirstStep(op), op |-> op, book |-> b,
                                        seen |-> View(b), stage |-> s]]
    /\ budget' = [budget EXCEPT !.ops = @ - 1]
    /\ UNCHANGED <<db, disk, worker, reserved, disp, gc, ghost>>

(* CreateBook, then Notify. *)
Enqueue(b) ==
    /\ "enqueue" \in Ops /\ budget.ops > 0
    /\ db[b].row = "new"
    /\ db' = [db EXCEPT ![b].row = "live"]
    /\ budget' = [budget EXCEPT !.ops = @ - 1]
    /\ UNCHANGED <<disk, worker, reserved, disp, gc, client, ghost>>

At(c, ops, pc) == client[c].pc = pc /\ client[c].op \in ops
Return(c)      == client' = [client EXCEPT ![c] = IdleClient]
Then(c, pc)    == client' = [client EXCEPT ![c].pc = pc]
ClientOnly == UNCHANGED <<disp, gc, budget>>

(* The operator's last word, for the properties. *)
Hold(b, held) ==
    ghost' = IF Live(b) THEN [ghost EXCEPT ![b].held = held, ![b].late = 0] ELSE ghost

WriteStatus(c) ==
    LET b == client[c].book
        v == client[c].seen
        keeps == v.status = "needs_attention" /\ v.park # NoCode
    IN  /\ \/ /\ At(c, {"pause"}, "write")
              /\ SetBookStatus(b, "paused", v.park, "none")
              /\ Hold(b, TRUE) /\ Return(c)
           \/ /\ At(c, {"resume"}, "write")
              /\ SetBookStatus(b, "none", NoCode, "none")
              /\ Hold(b, FALSE) /\ Return(c)
           \/ /\ At(c, {"cancel"}, "write")
              /\ SetBookStatus(b, "failed", NoCode, "none")
              /\ Hold(b, TRUE) /\ Then(c, "signal")
           \/ /\ At(c, {"park"}, "write")
              /\ SetBookStatus(b, "needs_attention",
                               IF keeps THEN v.park ELSE "supervisor_escalated",
                               IF keeps THEN v.retry ELSE "none")
              /\ Then(c, "signal") /\ UNCHANGED ghost
        /\ UNCHANGED <<disk, worker, reserved>> /\ ClientOnly

Signal(c) ==
    /\ client[c].pc = "signal"
    /\ CancelInflight(client[c].book)
    /\ IF client[c].op = "rerun" THEN Then(c, "drop") ELSE Return(c)
    /\ UNCHANGED <<db, disk, reserved, ghost>> /\ ClientOnly

DropSentinel(c) ==
    /\ At(c, {"retry", "readmit"}, "drop")
    /\ DropForReadmit(client[c].book, client[c].seen)
    /\ Then(c, "clear")
    /\ UNCHANGED <<worker, reserved>> /\ ClientOnly

ClearStatus(c) ==
    /\ client[c].pc = "clear"
    /\ SetBookStatus(client[c].book, "none", NoCode, "none")
    /\ Hold(client[c].book, FALSE)
    /\ Return(c)
    /\ UNCHANGED <<disk, worker, reserved>> /\ ClientOnly

(* Delete: the in-flight check and the row's removal under one lock. *)
DeleteRow(c) ==
    LET b == client[c].book
    IN  /\ client[c].pc = "remove"
        /\ IF InFlight(b) \/ ~Live(b)
           THEN Return(c) /\ UNCHANGED db
           ELSE /\ db' = [db EXCEPT ![b] = [@ EXCEPT !.row = "deleted", !.ok = NoRuns, !.open = NoRuns]]
                /\ Then(c, "wipe")
        /\ UNCHANGED <<disk, worker, reserved, ghost>> /\ ClientOnly

WipeDir(c) ==
    /\ client[c].pc = "wipe"
    /\ disk' = [disk EXCEPT ![client[c].book] = EmptyDir]
    /\ Return(c)
    /\ UNCHANGED <<db, worker, reserved, ghost>> /\ ClientOnly

(* PurgeScratch: the row was read before the reservation. *)
ReserveForPurge(c) ==
    LET b == client[c].book
    IN  /\ client[c].pc = "reserve"
        /\ IF InFlight(b) THEN Return(c) /\ UNCHANGED reserved
           ELSE reserved' = reserved \cup {b} /\ Then(c, "dirs")
        /\ UNCHANGED <<db, disk, worker, ghost>> /\ ClientOnly

PurgeDirs(c) ==
    LET b == client[c].book
        layers == Reclaimed(KindOf[b])
    IN  /\ client[c].pc = "dirs"
        /\ \/ /\ disk' = [disk EXCEPT ![b] = RemoveLayers(@, layers)]
              /\ Then(c, "sentinels") /\ UNCHANGED budget
           \/ /\ UseFault("io")
              /\ \E gone \in SUBSET layers : disk' = [disk EXCEPT ![b] = RemoveLayers(@, gone)]
              /\ Then(c, "release")
        /\ UNCHANGED <<db, worker, reserved, disp, gc, ghost>>

PurgeSentinels(c) ==
    LET b == client[c].book
    IN  /\ client[c].pc = "sentinels"
        /\ disk' = [disk EXCEPT ![b] = RemoveSentinels(@, InvalidatedStages(KindOf[b]))]
        /\ Then(c, IF IsTerminal(client[c].seen.state) THEN "release" ELSE "reconcile")
        /\ UNCHANGED <<db, worker, reserved, ghost>> /\ ClientOnly

PurgeReconcile(c) ==
    LET b    == client[c].book
        succ == Succeeded(b)
    IN  /\ client[c].pc = "reconcile"
        /\ IF Lost(b, succ) = {}
           THEN Then(c, "release") /\ UNCHANGED <<db, ghost>>
           ELSE \E s \in Lost(b, succ) :
                    /\ EarliestLost(b, succ, s)
                    /\ db' = [db EXCEPT ![b] = Supersede(@, FromOn(s, succ))]
                    /\ ghost' = [ghost EXCEPT ![b].passes = IF "fixing" \in FromOn(s, succ) THEN 0 ELSE @]
                    /\ client' = [client EXCEPT ![c].pc = "place", ![c].stage = s]
        /\ UNCHANGED <<disk, worker, reserved>> /\ ClientOnly

(* The rewind writes the status read when the call began. *)
PurgePlace(c) ==
    LET v == client[c].seen
    IN  /\ At(c, {"purge"}, "place")
        /\ SetBookState(client[c].book, client[c].stage, v.status, v.park)
        /\ Then(c, "release")
        /\ UNCHANGED <<disk, worker, reserved, ghost>> /\ ClientOnly

Unreserve(c) ==
    /\ client[c].pc = "release"
    /\ reserved' = reserved \ {client[c].book}
    /\ Return(c)
    /\ UNCHANGED <<db, disk, worker, ghost>> /\ ClientOnly

(* terminate_requeue: cancel a worker, or close an orphaned run. *)
Terminate(c) ==
    /\ client[c].pc = "decide"
    /\ Then(c, IF InFlight(client[c].book) THEN "signal" ELSE "orphan")
    /\ UNCHANGED <<db, disk, worker, reserved, ghost>> /\ ClientOnly

CloseOrphan(c) ==
    /\ client[c].pc = "orphan"
    /\ db' = [db EXCEPT ![client[c].book].open = NoRuns]
    /\ IF client[c].seen.status = "none" THEN Return(c) ELSE Then(c, "clear")
    /\ UNCHANGED <<disk, worker, reserved, ghost>> /\ ClientOnly

(* supersede_rerun, after its cancel signal. *)
DropForRerun(c) ==
    LET b == client[c].book
        stages == {s \in Stage : Order(s) >= Order(client[c].stage)}
    IN  /\ At(c, {"rerun"}, "drop")
        /\ db' = [db EXCEPT ![b] = Supersede(@, stages)]
        /\ disk' = [disk EXCEPT ![b] = RemoveSentinels(@, stages)]
        /\ ghost' = [ghost EXCEPT ![b].passes = 0]
        /\ Then(c, "place")
        /\ UNCHANGED <<worker, reserved>> /\ ClientOnly

RerunPlace(c) ==
    LET b == client[c].book
        paused == client[c].seen.status = "paused"
    IN  /\ At(c, {"rerun"}, "place")
        /\ SetBookState(b, client[c].stage, IF paused THEN "paused" ELSE "none", NoCode)
        /\ ghost' = [ghost EXCEPT ![b].held = @ /\ paused,
                                  ![b].late = IF paused THEN @ ELSE 0]
        /\ Return(c)
        /\ UNCHANGED <<disk, worker, reserved>> /\ ClientOnly

Handle(c) ==
    \/ WriteStatus(c) \/ Signal(c) \/ DropSentinel(c) \/ ClearStatus(c)
    \/ DeleteRow(c) \/ WipeDir(c)
    \/ ReserveForPurge(c) \/ PurgeDirs(c) \/ PurgeSentinels(c)
    \/ PurgeReconcile(c) \/ PurgePlace(c) \/ Unreserve(c)
    \/ Terminate(c) \/ CloseOrphan(c) \/ DropForRerun(c) \/ RerunPlace(c)

-----------------------------------------------------------------------------
(* The environment.                                                        *)

(* A retry instant elapses. *)
TimePasses(b) ==
    /\ Live(b) /\ db[b].retry = "wait"
    /\ db' = [db EXCEPT ![b].retry = "due"]
    /\ UNCHANGED <<disk, worker, reserved, disp, gc, client, ghost, budget>>

(* A new process: everything in memory is gone. *)
Reboot ==
    /\ worker' = [b \in Book |-> IdleWorker]
    /\ reserved' = {}
    /\ disp' = [IdleDisp EXCEPT !.pc = "close"]
    /\ gc' = {}
    /\ client' = [c \in Client |-> IdleClient]
    /\ UNCHANGED <<db, disk, ghost>>

Crash ==
    /\ budget.crashes > 0
    /\ budget' = [budget EXCEPT !.crashes = @ - 1]
    /\ Reboot

(* A graceful stop cancels every worker; the process ends when they have   *)
(* all returned.                                                           *)
Shutdown ==
    /\ budget.crashes > 0
    /\ disp.pc # "stopping"
    /\ budget' = [budget EXCEPT !.crashes = @ - 1]
    /\ disp' = [IdleDisp EXCEPT !.pc = "stopping"]
    /\ reserved' = IF disp.pc = "clear" THEN reserved \ {disp.book} ELSE reserved
    /\ worker' = [b \in Book |-> IF Running(b) THEN [worker[b] EXCEPT !.cancelled = TRUE]
                                              ELSE worker[b]]
    /\ UNCHANGED <<db, disk, gc, client, ghost>>

Restart ==
    /\ disp.pc = "stopping" /\ gc = {}
    /\ \A b \in Book : ~Running(b)
    /\ Reboot
    /\ UNCHANGED budget

-----------------------------------------------------------------------------
(* Each book starts at StartAt, the mainline stages before it done.        *)

Mainline(kind) ==
    IF kind = "ebook" THEN {s \in Stage : Order(s) \in {11, 13, 14, 15, 16, 19}}
    ELSE {s \in Stage : Order(s) \in {1, 3, 4, 5, 6, 9, 10, 13, 14, 15, 16, 19}}

DoneAtStart(b) ==
    IF StartAt[b] = NotQueued THEN {}
    ELSE {s \in Mainline(KindOf[b]) : Order(s) < Order(StartAt[b])}

Init ==
    /\ db = [b \in Book |->
          [row    |-> IF StartAt[b] = NotQueued THEN "new" ELSE "live",
           state  |-> IF StartAt[b] = NotQueued THEN "queued" ELSE StartAt[b],
           status |-> "none", park |-> NoCode, retry |-> "none",
           ok     |-> [s \in Stage |-> IF s \in DoneAtStart(b) THEN 1 ELSE 0],
           open   |-> NoRuns]]
    /\ disk = [b \in Book |->
          [done |-> [s \in Stage |-> IF s \in DoneAtStart(b) THEN "main" ELSE "absent"],
           art  |-> (UNION {Outputs(s, "main") : s \in DoneAtStart(b)})
                      \ (IF StartAt[b] = "done" /\ PurgeWanted(b) THEN Reclaimed(KindOf[b]) ELSE {})]]
    /\ worker = [b \in Book |-> IdleWorker]
    /\ reserved = {}
    /\ disp = [IdleDisp EXCEPT !.pc = "close"]
    /\ gc = {}
    /\ client = [c \in Client |-> IdleClient]
    /\ ghost = [b \in Book |-> [held |-> FALSE, late |-> 0, passes |-> 0]]
    /\ budget = [ops |-> MaxOps, faults |-> MaxFaults, crashes |-> MaxCrashes,
                 starts |-> MaxStarts]

ClientSteps == \E c \in Client : \/ Handle(c)
                                 \/ \E b \in Book, op \in OpName, s \in Stage \cup {NoState} : Call(c, op, b, s)

Next == \/ \E b \in Book : Work(b) \/ StartupGC(b) \/ TimePasses(b) \/ Enqueue(b)
        \/ Start \/ Dispatch \/ ClientSteps
        \/ Crash \/ Shutdown \/ Restart

Spec == Init /\ [][Next]_vars

(* Every goroutine keeps running: the loop's ticker and wake-ups, a worker *)
(* whose executor returns in the end, a handler, the clock.                *)
Fairness == /\ WF_vars(Start) /\ WF_vars(Dispatch) /\ WF_vars(Restart)
            /\ \A b \in Book : WF_vars(Work(b)) /\ WF_vars(StartupGC(b)) /\ WF_vars(TimePasses(b))
            /\ \A c \in Client : WF_vars(Handle(c))

FairSpec == Spec /\ Fairness
=============================================================================
