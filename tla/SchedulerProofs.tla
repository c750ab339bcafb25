-------------------------- MODULE SchedulerProofs --------------------------
(***************************************************************************)
(* Proofs about the scheduler, for any set of books, series, lane width    *)
(* and budget: its types, the capacity of the lanes and of the source      *)
(* slot, the exclusion of the in-flight table and of deletion, and that it *)
(* implements the pool of slots.  Before them, the transition table it     *)
(* runs the books along.                                                   *)
(***************************************************************************)
EXTENDS SchedulerProperties, FiniteSetTheorems, TLAPS

-----------------------------------------------------------------------------
(* The transition table and NextState (internal/state), for every kind,    *)
(* state and outcome.                                                      *)

LEMMA StageList ==
    Stage = State \ {"queued", "ready", "done"}
  BY DEF State, Stage, IsStage, LaneOf, Table, Row

(* The table read row by row. *)
LEMMA OrderOf ==
    /\ Order("queued") = 0 /\ Order("inspecting") = 1 /\ Order("markers_normalizing") = 2
    /\ Order("splitting") = 3 /\ Order("asr") = 4 /\ Order("sanitizing") = 5
    /\ Order("qa_sweep") = 6 /\ Order("qa_adjudicating") = 7 /\ Order("retranscribing") = 8
    /\ Order("spelling_research") = 9 /\ Order("correcting") = 10 /\ Order("extracting") = 11
    /\ Order("chapter_mapping") = 12 /\ Order("fact_pass") = 13 /\ Order("synthesizing") = 14
    /\ Order("validating") = 15 /\ Order("auditing") = 16 /\ Order("fixing") = 17
    /\ Order("ready") = 18 /\ Order("contributing") = 19 /\ Order("done") = 20
  BY DEF Order, Table, Row, State

LEMMA MainOf ==
    /\ Table["queued"].main = "inspecting" /\ Table["inspecting"].main = "splitting"
    /\ Table["markers_normalizing"].main = "splitting" /\ Table["splitting"].main = "asr"
    /\ Table["asr"].main = "sanitizing" /\ Table["sanitizing"].main = "qa_sweep"
    /\ Table["qa_sweep"].main = "spelling_research" /\ Table["qa_adjudicating"].main = "spelling_research"
    /\ Table["retranscribing"].main = "qa_sweep" /\ Table["spelling_research"].main = "correcting"
    /\ Table["correcting"].main = "fact_pass" /\ Table["extracting"].main = "fact_pass"
    /\ Table["chapter_mapping"].main = "fact_pass" /\ Table["fact_pass"].main = "synthesizing"
    /\ Table["synthesizing"].main = "validating" /\ Table["validating"].main = "auditing"
    /\ Table["auditing"].main = "ready" /\ Table["fixing"].main = "validating"
    /\ Table["ready"].main = "contributing" /\ Table["contributing"].main = "done"
  BY DEF Table, Row, State

LEMMA CondOf ==
    /\ Table["queued"].cond = "extracting" /\ Table["inspecting"].cond = "markers_normalizing"
    /\ Table["qa_sweep"].cond = "qa_adjudicating" /\ Table["qa_adjudicating"].cond = "retranscribing"
    /\ Table["extracting"].cond = "chapter_mapping" /\ Table["auditing"].cond = "fixing"
  BY DEF Table, Row, State

(* Every successor the table names is a state. *)
LEMMA SuccessorsAreStates ==
    ASSUME NEW s \in State
    PROVE  /\ s # "done" => Table[s].main \in State
           /\ Table[s].cond \in State \cup {NoState}
           /\ Order(s) \in Nat
  BY DEF State, Table, Row, NoState, Order

(* A branch is only ever taken where the table has a second successor.     *)
LEMMA BranchExists ==
    ASSUME NEW kind \in Kind, NEW s \in State, NEW o, TakesBranch(kind, s, o)
    PROVE  Table[s].cond \in State
  BY DEF State, TakesBranch, Table, Row

(* NextState never leaves the table: an unfinished state has a legal       *)
(* successor whatever the stage reports, or stays where it is to be parked *)
(* (state.NextState, legalNext).                                           *)
THEOREM NextStateLegal ==
    ASSUME NEW kind \in Kind, NEW s \in State \ {"done"}, NEW o \in Outcome
    PROVE  /\ NextState(kind, s, o).state \in State
           /\ \/ NextState(kind, s, o).state \in Next_(s)
              \/ s = "auditing" /\ NextState(kind, s, o).state = s
                    /\ NextState(kind, s, o).status = "needs_attention"
<1>1. CASE FixBudgetSpent(s, o)
  <2>1. NextState(kind, s, o) = [state |-> s, status |-> "needs_attention"]
    BY <1>1 DEF NextState
  <2>2. s = "auditing"
    BY <1>1 DEF FixBudgetSpent
  <2> QED  BY <2>1, <2>2
<1>2. CASE ~FixBudgetSpent(s, o) /\ TakesBranch(kind, s, o)
  <2>1. NextState(kind, s, o).state = Table[s].cond
    BY <1>2 DEF NextState
  <2>2. Table[s].cond \in State
    BY <1>2, BranchExists
  <2> QED  BY <2>1, <2>2 DEF Next_, NoState, State
<1>3. CASE ~FixBudgetSpent(s, o) /\ ~TakesBranch(kind, s, o)
  <2>1. NextState(kind, s, o).state = Table[s].main
    BY <1>3 DEF NextState
  <2>2. Table[s].main \in State
    BY SuccessorsAreStates
  <2> QED  BY <2>1, <2>2 DEF Next_, NoState, State
<1> QED  BY <1>1, <1>2, <1>3

(* Only a loop goes back: retranscribing to qa_sweep, fixing to validating; *)
(* every other transition goes forward in the pipeline order, so a book    *)
(* can only run for ever through one of the two capped loops.              *)
THEOREM OnlyLoopsGoBack ==
    ASSUME NEW kind \in Kind, NEW s \in State \ {"done"}, NEW o \in Outcome,
           ~FixBudgetSpent(s, o)
    PROVE  \/ Order(NextState(kind, s, o).state) > Order(s)
           \/ s = "retranscribing" /\ NextState(kind, s, o).state = "qa_sweep"
           \/ s = "fixing" /\ NextState(kind, s, o).state = "validating"
<1>1. NextState(kind, s, o).state = IF TakesBranch(kind, s, o) THEN Table[s].cond ELSE Table[s].main
  BY DEF NextState
<1>2. CASE TakesBranch(kind, s, o)
  <2>1. s \in {"queued", "extracting", "inspecting", "qa_sweep", "qa_adjudicating", "auditing"}
    BY <1>2 DEF TakesBranch, State
  <2> QED  BY <1>1, <1>2, <2>1, OrderOf, CondOf
<1>3. CASE ~TakesBranch(kind, s, o)
  BY <1>1, <1>3, OrderOf, MainOf DEF State
<1> QED  BY <1>2, <1>3

-----------------------------------------------------------------------------
USE ConstantsAssumption, MaxFixAttemptsAssumption

-----------------------------------------------------------------------------
(* The operators the actions are built from keep the types.                *)

LEMMA RunCapType == RunCap \in Nat /\ RunCap >= 1
  BY DEF RunCap

LEMMA CountTypes ==
    /\ \A n \in RunCount : Bump(n, RunCap) \in RunCount /\ Drop(n) \in RunCount
    /\ \A n \in 0..2 : Bump(n, 2) \in 0..2 /\ Drop(n) \in 0..2
    /\ \A n \in Nat : Drop(n) \in Nat
    /\ \A n \in 0..(MaxFixAttempts + 1) : Bump(n, MaxFixAttempts + 1) \in 0..(MaxFixAttempts + 1)
  BY RunCapType DEF Bump, Drop, RunCount

LEMMA NoRunsType == NoRuns \in [Stage -> RunCount] /\ NoRuns \in [Stage -> 0..2]
  BY RunCapType DEF NoRuns, RunCount

(* A row is well formed when a park code or a retry instant stands only    *)
(* beside needs_attention.                                                 *)
RowOK(row) == /\ row \in BookRow
              /\ row.park # NoCode \/ row.retry # "none" => row.status = "needs_attention"

LEMMA DbOKRows == DbOK <=> /\ db = [b \in Book |-> db[b]]
                           /\ \A b \in Book : RowOK(db[b])
  BY DEF DbOK, RowOK

LEMMA WithStatusType ==
    ASSUME NEW row, RowOK(row), NEW status \in Status, NEW code \in ParkCode, NEW retry \in Retry
    PROVE  RowOK(WithStatus(row, status, code, retry))
  BY DEF RowOK, WithStatus, BookRow, Status, ParkCode, Retry, NoCode

LEMMA SupersedeType ==
    ASSUME NEW row, RowOK(row), NEW stages
    PROVE  RowOK(Supersede(row, stages))
  BY RunCapType DEF RowOK, Supersede, BookRow, RunCount

(* A write of one well-formed row keeps the table well formed. *)
LEMMA WriteRow ==
    ASSUME DbOK, NEW b \in Book, NEW row, RowOK(row), db' = [db EXCEPT ![b] = row]
    PROVE  DbOK'
  BY DEF DbOK, RowOK

LEMMA SetBookStatusType ==
    ASSUME DbOK, NEW b \in Book, NEW status \in Status, NEW code \in ParkCode, NEW retry \in Retry,
           SetBookStatus(b, status, code, retry)
    PROVE  DbOK'
<1>1. CASE Live(b)
  <2>1. db' = [db EXCEPT ![b] = WithStatus(db[b], status, code, retry)]
    BY <1>1 DEF SetBookStatus
  <2>2. RowOK(db[b])
    BY DEF DbOK, RowOK
  <2> QED  BY <2>1, <2>2, WithStatusType, WriteRow
<1>2. CASE ~Live(b)
  BY <1>2 DEF SetBookStatus, DbOK
<1> QED  BY <1>1, <1>2

LEMMA SetBookStateType ==
    ASSUME DbOK, NEW b \in Book, NEW s \in State, NEW status \in Status, NEW code \in ParkCode,
           SetBookState(b, s, status, code)
    PROVE  DbOK'
<1>1. CASE Live(b)
  <2> DEFINE row == WithStatus(db[b], status, code, db[b].retry)
  <2>1. db' = [db EXCEPT ![b] = [row EXCEPT !.state = s]]
    BY <1>1 DEF SetBookState
  <2>2. RowOK(db[b]) /\ db[b].retry \in Retry
    BY DEF DbOK, RowOK, BookRow
  <2>3. RowOK(row)
    BY <2>2, WithStatusType
  <2>4. RowOK([row EXCEPT !.state = s])
    BY <2>3 DEF RowOK, BookRow
  <2> QED  BY <2>1, <2>4, WriteRow
<1>2. CASE ~Live(b)
  BY <1>2 DEF SetBookState, DbOK
<1> QED  BY <1>1, <1>2

LEMMA ViewType ==
    /\ NoView \in Views
    /\ DbOK => \A b \in Book : View(b) \in Views
  BY DEF DbOK, View, Views, NoView, BookRow, Succeeded, State, Status, ParkCode, Retry, NoCode

LEMMA SentinelType ==
    ASSUME NEW dir \in WorkDir
    PROVE  /\ \A stages : RemoveSentinels(dir, stages) \in WorkDir
           /\ \A s : \A mark \in Mark, outputs \in SUBSET Artifact :
                 WriteSentinel(dir, s, mark, outputs) \in WorkDir
           /\ \A layers : RemoveLayers(dir, layers) \in WorkDir
  BY DEF RemoveLayers, RemoveSentinels, WriteSentinel, WorkDir

LEMMA OutputsType == \A s, mark : Outputs(s, mark) \in SUBSET Artifact
  BY DEF Outputs, Artifact

LEMMA RunRowsType ==
    ASSUME NEW row, RowOK(row), NEW s
    PROVE  /\ RowOK([row EXCEPT !.open[s] = Bump(@, 2)])
           /\ RowOK([row EXCEPT !.open[s] = Drop(@)])
           /\ RowOK([row EXCEPT !.open[s] = Drop(@), !.ok[s] = Bump(@, RunCap)])
           /\ RowOK([row EXCEPT !.open = NoRuns])
           /\ RowOK([row EXCEPT !.row = "deleted", !.ok = NoRuns, !.open = NoRuns])
           /\ RowOK([row EXCEPT !.row = "live"])
           /\ row.retry = "wait" => RowOK([row EXCEPT !.retry = "due"])
<1>1. RowOK([row EXCEPT !.open[s] = Bump(@, 2)])
  BY CountTypes DEF RowOK, BookRow
<1>2. RowOK([row EXCEPT !.open[s] = Drop(@)])
  BY CountTypes DEF RowOK, BookRow
<1>3. RowOK([row EXCEPT !.open[s] = Drop(@), !.ok[s] = Bump(@, RunCap)])
  BY CountTypes DEF RowOK, BookRow
<1>4. RowOK([row EXCEPT !.open = NoRuns])
  BY NoRunsType DEF RowOK, BookRow
<1>5. RowOK([row EXCEPT !.row = "deleted", !.ok = NoRuns, !.open = NoRuns])
  BY NoRunsType DEF RowOK, BookRow
<1>6. RowOK([row EXCEPT !.row = "live"])
  BY DEF RowOK, BookRow
<1>7. row.retry = "wait" => RowOK([row EXCEPT !.retry = "due"])
  BY DEF RowOK, BookRow, Retry
<1> QED  BY <1>1, <1>2, <1>3, <1>4, <1>5, <1>6, <1>7

(* What a completed or promoted state leads to is a state. *)
LEMMA NextStateType ==
    ASSUME NEW kind \in Kind, NEW s \in State \ {"done"}, NEW o
    PROVE  NextState(kind, s, o).state \in State
<1>1. CASE FixBudgetSpent(s, o)
  BY <1>1 DEF NextState
<1>2. CASE ~FixBudgetSpent(s, o) /\ TakesBranch(kind, s, o)
  BY <1>2, BranchExists DEF NextState
<1>3. CASE ~FixBudgetSpent(s, o) /\ ~TakesBranch(kind, s, o)
  BY <1>3, SuccessorsAreStates DEF NextState
<1> QED  BY <1>1, <1>2, <1>3

(* A stage runs in one of the three lanes, and their occupants are counted. *)
LEMMA CountsType ==
    \A l \in Slot : /\ IsFiniteSet(Holders(l)) /\ Cardinality(Holders(l)) \in Nat
                    /\ SlotCap(l) \in Nat
<1>1. \A S \in SUBSET Book : IsFiniteSet(S) /\ Cardinality(S) \in Nat
  BY FS_Subset, FS_CardinalityType
<1>2. \A l \in Slot : Holders(l) \in SUBSET Book
  BY DEF Holders
<1> QED  BY <1>1, <1>2 DEF SlotCap

-----------------------------------------------------------------------------
(* Every step keeps the database well formed. *)

LEMMA WorkKeepsDb ==
    ASSUME TypeOK, NEW b \in Book, Work(b)
    PROVE  DbOK'
<1> DEFINE s == worker[b].stage
<1>0. DbOK /\ RowOK(db[b])
  BY DEF TypeOK, DbOK, RowOK
<1>1. CASE OpenRun(b)
  <2>1. UNCHANGED db \/ db' = [db EXCEPT ![b] = [db[b] EXCEPT !.open[s] = Bump(@, 2)]]
    BY <1>1, <1>0 DEF OpenRun, DbOK
  <2> QED  BY <2>1, <1>0, RunRowsType, WriteRow DEF DbOK
<1>2. CASE \/ ExecCanceled(b) \/ ExecFaults(b) \/ ExecGivesUp(b)
  <2>1. UNCHANGED db \/ db' = [db EXCEPT ![b] = [db[b] EXCEPT !.open[s] = Drop(@)]]
    BY <1>2, <1>0 DEF ExecCanceled, ExecFaults, ExecGivesUp, ExecEnds, DbOK
  <2> QED  BY <2>1, <1>0, RunRowsType, WriteRow DEF DbOK
<1>3. CASE RecordRun(b)
  <2>1. \/ UNCHANGED db
        \/ db' = [db EXCEPT ![b] = [db[b] EXCEPT !.open[s] = Drop(@)]]
        \/ db' = [db EXCEPT ![b] = [db[b] EXCEPT !.open[s] = Drop(@), !.ok[s] = Bump(@, RunCap)]]
    BY <1>3, <1>0 DEF RecordRun, DbOK
  <2> QED  BY <2>1, <1>0, RunRowsType, WriteRow DEF DbOK
<1>4. CASE SetFailedOrParked(b)
  <2>1. worker[b].out \in ParkCode \cup {"failed"}
    BY <1>4 DEF SetFailedOrParked, TypeOK, WorkerOK
  <2>2. CASE worker[b].out = "failed"
    <3>1. SetBookStatus(b, "failed", NoCode, "none")
      BY <1>4, <2>2 DEF SetFailedOrParked
    <3> QED  BY <3>1, <1>0, SetBookStatusType DEF Status, ParkCode, Retry
  <2>3. CASE worker[b].out # "failed"
    <3>1. PICK retry \in Retry : SetBookStatus(b, "needs_attention", worker[b].out, retry)
      BY <1>4, <2>3 DEF SetFailedOrParked, Retry
    <3> QED  BY <3>1, <2>1, <2>3, <1>0, SetBookStatusType DEF Status
  <2> QED  BY <2>2, <2>3
<1>5. CASE Commit(b)
  <2>1. UNCHANGED db \/ db' = [db EXCEPT ![b] = [db[b] EXCEPT !.state = worker[b].next]]
    BY <1>5, <1>0 DEF Commit, DbOK
  <2>2. worker[b].next \in State
    BY DEF TypeOK, WorkerOK, WorkerRec
  <2>3. RowOK([db[b] EXCEPT !.state = worker[b].next])
    BY <1>0, <2>2 DEF RowOK, BookRow
  <2> QED  BY <2>1, <2>3, <1>0, WriteRow DEF DbOK
<1>6. CASE SkipStage(b) \/ ExecSucceeds(b) \/ Advance(b) \/ AutoPurgeDone(b)
  BY <1>6, <1>0 DEF SkipStage, ExecSucceeds, Advance, AutoPurgeDone, DbOK
<1> QED  BY <1>1, <1>2, <1>3, <1>4, <1>5, <1>6 DEF Work

(* What a readmission does to the rows of its book. *)
LEMMA ReadmitKeepsDb ==
    ASSUME DbOK, NEW b \in Book, NEW v, DropForReadmit(b, v)
    PROVE  DbOK'
<1>1. RowOK(db[b])
  BY DEF DbOK, RowOK
<1>2. db' = [db EXCEPT ![b] = Supersede(db[b], ReadmitSupersedes(v))]
  BY DEF DropForReadmit
<1> QED  BY <1>1, <1>2, SupersedeType, WriteRow

LEMMA DispatchKeepsDb ==
    ASSUME TypeOK, Dispatch
    PROVE  DbOK'
<1>0. DbOK /\ \A b \in Book : disp.seen[b] \in Views
  BY DEF TypeOK, DispOK, DispRec
<1>1. ASSUME NEW b \in Book, ReadmitDue(b) PROVE DbOK'
  <2>1. CASE InFlight(b)
    BY <1>0, <1>1, <2>1 DEF ReadmitDue, DbOK
  <2>2. CASE ~InFlight(b)
    BY <1>0, <1>1, <2>2, ReadmitKeepsDb DEF ReadmitDue
  <2> QED  BY <2>1, <2>2
<1>2. CASE ClearDue
  <2>1. disp.book \in Book
    BY <1>2 DEF ClearDue, TypeOK, DispOK
  <2>2. SetBookStatus(disp.book, "none", NoCode, "none")
    BY <1>2 DEF ClearDue
  <2> QED  BY <2>1, <2>2, <1>0, SetBookStatusType DEF Status, ParkCode, Retry
<1>3. ASSUME NEW b \in Book, PromoteWaypoint(b) PROVE DbOK'
  <2> DEFINE next == NextState(KindOf[b], disp.seen[b].state, OutcomeOf("main", 0)).state
  <2>1. disp.seen[b].state \in State \ {"done"}
    BY <1>0, <1>3 DEF PromoteWaypoint, TypeOK, DispOK, Views, IsWaypoint, IsTerminal
  <2>2. SetBookState(b, next, "none", NoCode)
    BY <1>3 DEF PromoteWaypoint
  <2>3. next \in State
    BY <2>1, NextStateType
  <2> QED  BY <2>2, <2>3, <1>0, SetBookStateType DEF Status, ParkCode
<1>4. CASE StartPass \/ ListBooks \/ Collect \/ EndPass \/ \E b \in Book : StartWorker(b) \/ SkipCandidate(b)
  BY <1>0, <1>4 DEF StartPass, ListBooks, Collect, EndPass, StartWorker, SkipCandidate, DbOK
<1> QED  BY <1>1, <1>2, <1>3, <1>4 DEF Dispatch

LEMMA StartKeepsDb ==
    ASSUME TypeOK, Start
    PROVE  DbOK'
<1>0. DbOK /\ \A b \in Book : RowOK(db[b]) /\ disp.seen[b] \in Views
  BY DEF TypeOK, DbOK, RowOK, DispOK, DispRec
<1>1. ASSUME NEW b \in Book, CloseRuns(b) PROVE DbOK'
  <2>1. UNCHANGED db \/ db' = [db EXCEPT ![b] = [db[b] EXCEPT !.open = NoRuns]]
    BY <1>1 DEF CloseRuns
  <2>2. RowOK([db[b] EXCEPT !.open = NoRuns])
    BY <1>0, RunRowsType
  <2>3. CASE UNCHANGED db
    BY <2>3, <1>0 DEF DbOK
  <2> QED  BY <2>1, <2>2, <2>3, <1>0, WriteRow
<1>2. ASSUME NEW b \in Book, SupersedeLost(b) PROVE DbOK'
  <2>1. UNCHANGED db \/ \E stages : db' = [db EXCEPT ![b] = Supersede(db[b], stages)]
    BY <1>2 DEF SupersedeLost
  <2> QED  BY <2>1, <1>0, SupersedeType, WriteRow DEF DbOK
<1>3. CASE PlaceRewound
  <2>1. disp.book \in Book /\ disp.stage \in State
    BY <1>3 DEF PlaceRewound, TypeOK, DispOK, Stage
  <2>2. disp.seen[disp.book].status \in Status /\ disp.seen[disp.book].park \in ParkCode
    BY <2>1, <1>0 DEF Views
  <2>3. SetBookState(disp.book, disp.stage, disp.seen[disp.book].status, disp.seen[disp.book].park)
    BY <1>3 DEF PlaceRewound
  <2> QED  BY <2>1, <2>2, <2>3, <1>0, SetBookStateType
<1>4. ASSUME NEW b \in Book, Recheck(b) PROVE DbOK'
  BY <1>0, <1>4, ReadmitKeepsDb DEF Recheck
<1>5. CASE ClearRechecked
  <2>1. disp.book \in Book
    BY <1>5 DEF ClearRechecked, TypeOK, DispOK
  <2>2. SetBookStatus(disp.book, "none", NoCode, "none")
    BY <1>5 DEF ClearRechecked
  <2> QED  BY <2>1, <2>2, <1>0, SetBookStatusType DEF Status, ParkCode, Retry
<1>6. CASE ListOpenRuns \/ ListForReconcile \/ StartGC \/ Started
  BY <1>0, <1>6 DEF ListOpenRuns, ListForReconcile, StartGC, Started, DbOK
<1> QED  BY <1>1, <1>2, <1>3, <1>4, <1>5, <1>6 DEF Start

LEMMA ClientKeepsDb ==
    ASSUME TypeOK, NEW c \in Client, Handle(c)
    PROVE  DbOK'
<1> DEFINE b == client[c].book
           v == client[c].seen
<1>0. DbOK /\ v \in Views
  BY DEF TypeOK, ClientOK, ClientRec
<1>a. v.status \in Status /\ v.park \in ParkCode /\ v.retry \in Retry
  BY <1>0 DEF Views
<1>b. client[c].pc # "idle" => b \in Book /\ RowOK(db[b])
  BY DEF TypeOK, ClientOK, DbOK, RowOK
<1>c. "paused" \in Status /\ "none" \in Status /\ "failed" \in Status /\ "needs_attention" \in Status
      /\ NoCode \in ParkCode /\ "supervisor_escalated" \in ParkCode /\ "none" \in Retry
  BY DEF Status, ParkCode, Retry
<1>1. CASE WriteStatus(c)
  <2>1. b \in Book
    BY <1>1, <1>b DEF WriteStatus, At
  <2>2. \E status \in Status, code \in ParkCode, retry \in Retry : SetBookStatus(b, status, code, retry)
    BY <1>1, <1>a, <1>c DEF WriteStatus
  <2> QED  BY <2>1, <2>2, <1>0, SetBookStatusType
<1>2. CASE DropSentinel(c)
  <2>1. b \in Book /\ DropForReadmit(b, v)
    BY <1>2, <1>b DEF DropSentinel, At
  <2> QED  BY <2>1, <1>0, ReadmitKeepsDb
<1>3. CASE ClearStatus(c)
  <2>1. b \in Book /\ SetBookStatus(b, "none", NoCode, "none")
    BY <1>3, <1>b DEF ClearStatus
  <2> QED  BY <2>1, <1>0, <1>c, SetBookStatusType
<1>4. CASE DeleteRow(c)
  <2>1. b \in Book /\ RowOK(db[b])
    BY <1>4, <1>b DEF DeleteRow
  <2>2. UNCHANGED db \/ db' = [db EXCEPT ![b] = [db[b] EXCEPT !.row = "deleted", !.ok = NoRuns, !.open = NoRuns]]
    BY <1>4 DEF DeleteRow
  <2> QED  BY <2>1, <2>2, <1>0, RunRowsType, WriteRow DEF DbOK
<1>5. CASE PurgeReconcile(c) \/ DropForRerun(c)
  <2>1. b \in Book /\ RowOK(db[b])
    BY <1>5, <1>b DEF PurgeReconcile, DropForRerun, At
  <2>2. UNCHANGED db \/ \E stages : db' = [db EXCEPT ![b] = Supersede(db[b], stages)]
    BY <1>5 DEF PurgeReconcile, DropForRerun
  <2> QED  BY <2>1, <2>2, <1>0, SupersedeType, WriteRow DEF DbOK
<1>6. CASE PurgePlace(c) \/ RerunPlace(c)
  <2>1. b \in Book /\ client[c].stage \in State
    BY <1>6, <1>b DEF PurgePlace, RerunPlace, At, TypeOK, ClientOK, Stage
  <2>2. \E status \in Status, code \in ParkCode : SetBookState(b, client[c].stage, status, code)
    BY <1>6, <1>a, <1>c DEF PurgePlace, RerunPlace
  <2> QED  BY <2>1, <2>2, <1>0, SetBookStateType
<1>7. CASE CloseOrphan(c)
  <2>1. b \in Book /\ RowOK(db[b])
    BY <1>7, <1>b DEF CloseOrphan
  <2>2. db' = [db EXCEPT ![b] = [db[b] EXCEPT !.open = NoRuns]]
    BY <1>7, <2>1, <1>0 DEF CloseOrphan, DbOK
  <2> QED  BY <2>1, <2>2, <1>0, RunRowsType, WriteRow
<1>8. CASE \/ Signal(c) \/ WipeDir(c) \/ ReserveForPurge(c) \/ PurgeDirs(c) \/ PurgeSentinels(c)
           \/ Unreserve(c) \/ Terminate(c)
  BY <1>8, <1>0 DEF Signal, WipeDir, ReserveForPurge, PurgeDirs, PurgeSentinels, Unreserve, Terminate, DbOK
<1> QED  BY <1>1, <1>2, <1>3, <1>4, <1>5, <1>6, <1>7, <1>8 DEF Handle

LEMMA NextKeepsDb ==
    ASSUME TypeOK, [Next]_vars
    PROVE  DbOK'
<1>0. DbOK /\ \A b \in Book : RowOK(db[b])
  BY DEF TypeOK, DbOK, RowOK
<1>1. ASSUME NEW b \in Book, Enqueue(b) PROVE DbOK'
  <2>1. db' = [db EXCEPT ![b] = [db[b] EXCEPT !.row = "live"]]
    BY <1>1, <1>0 DEF Enqueue, DbOK
  <2> QED  BY <2>1, <1>0, RunRowsType, WriteRow
<1>2. ASSUME NEW b \in Book, TimePasses(b) PROVE DbOK'
  <2>1. db' = [db EXCEPT ![b] = [db[b] EXCEPT !.retry = "due"]] /\ db[b].retry = "wait"
    BY <1>2, <1>0 DEF TimePasses, DbOK
  <2> QED  BY <2>1, <1>0, RunRowsType, WriteRow
<1>3. CASE \/ \E b \in Book : StartupGC(b)
           \/ Crash \/ Shutdown \/ Restart \/ UNCHANGED vars
           \/ \E c \in Client, b \in Book, op \in OpName, s \in Stage \cup {NoState} : Call(c, op, b, s)
  BY <1>0, <1>3 DEF StartupGC, Crash, Shutdown, Restart, Reboot, Call, vars, DbOK
<1> QED  BY <1>1, <1>2, <1>3, WorkKeepsDb, DispatchKeepsDb, StartKeepsDb, ClientKeepsDb DEF Next, ClientSteps

-----------------------------------------------------------------------------
(* Every step keeps the work dirs well formed. *)

LEMMA WriteDir ==
    ASSUME DiskOK, NEW b \in Book, NEW dir \in WorkDir, disk' = [disk EXCEPT ![b] = dir]
    PROVE  DiskOK'
  BY DEF DiskOK

LEMMA NextKeepsDisk ==
    ASSUME TypeOK, [Next]_vars
    PROVE  DiskOK'
<1>0. DiskOK /\ \A b \in Book : disk[b] \in WorkDir
  BY DEF TypeOK, DiskOK
<1>a. ASSUME NEW b \in Book, ReclaimDone(b) PROVE DiskOK'
  <2> DEFINE swept == RemoveSentinels(RemoveLayers(disk[b], Reclaimed(KindOf[b])), InvalidatedStages(KindOf[b]))
  <2>1. CASE disk' = [disk EXCEPT ![b] = swept]
    <3>1. RemoveLayers(disk[b], Reclaimed(KindOf[b])) \in WorkDir
      BY <1>0, SentinelType
    <3>2. swept \in WorkDir
      BY <3>1, SentinelType
    <3> QED  BY <2>1, <3>2, <1>0, WriteDir
  <2>2. CASE \E gone : disk' = [disk EXCEPT ![b] = RemoveLayers(disk[b], gone)]
    <3>1. PICK gone : disk' = [disk EXCEPT ![b] = RemoveLayers(disk[b], gone)]
      BY <2>2
    <3>2. RemoveLayers(disk[b], gone) \in WorkDir
      BY <1>0, SentinelType
    <3> QED  BY <3>1, <3>2, <1>0, WriteDir
  <2> QED  BY <1>a, <2>1, <2>2 DEF ReclaimDone
<1>b. ASSUME NEW b \in Book, NEW v, DropForReadmit(b, v) PROVE DiskOK'
  BY <1>0, <1>b, SentinelType, WriteDir DEF DropForReadmit
<1>1. ASSUME NEW b \in Book, Work(b) PROVE DiskOK'
  <2>1. CASE ExecSucceeds(b)
    <3> DEFINE done(mark) == WriteSentinel(disk[b], worker[b].stage, mark, Outputs(worker[b].stage, mark))
    <3>1. PICK mark \in Mark : disk' = [disk EXCEPT ![b] = done(mark)]
      BY <2>1 DEF ExecSucceeds, Mark
    <3>2. done(mark) \in WorkDir
      <4>1. Outputs(worker[b].stage, mark) \in SUBSET Artifact
        BY OutputsType
      <4> QED  BY <4>1, <1>0, SentinelType
    <3> QED  BY <3>1, <3>2, <1>0, WriteDir
  <2>2. CASE Advance(b)
    <3>1. UNCHANGED disk \/ \E stages : disk' = [disk EXCEPT ![b] = RemoveSentinels(disk[b], stages)]
      BY <2>2 DEF Advance
    <3> QED  BY <3>1, <1>0, SentinelType, WriteDir DEF DiskOK
  <2>3. CASE AutoPurgeDone(b)
    BY <1>0, <2>3, <1>a DEF AutoPurgeDone, DiskOK
  <2>4. CASE \/ SkipStage(b) \/ OpenRun(b) \/ ExecCanceled(b) \/ ExecFaults(b) \/ ExecGivesUp(b)
             \/ RecordRun(b) \/ SetFailedOrParked(b) \/ Commit(b)
    BY <2>4, <1>0 DEF SkipStage, OpenRun, ExecCanceled, ExecFaults, ExecGivesUp, ExecEnds, RecordRun,
                      SetFailedOrParked, Commit, DiskOK
  <2> QED  BY <1>1, <2>1, <2>2, <2>3, <2>4 DEF Work
<1>2. ASSUME NEW b \in Book, StartupGC(b) PROVE DiskOK'
  BY <1>0, <1>2, <1>a DEF StartupGC, DiskOK
<1>3. CASE Start \/ Dispatch
  <2>1. ASSUME NEW b \in Book, ReadmitDue(b) \/ Recheck(b) PROVE DiskOK'
    BY <2>1, <1>0, <1>b DEF ReadmitDue, Recheck, DiskOK
  <2>2. CASE \/ ListOpenRuns \/ ListForReconcile \/ PlaceRewound \/ StartGC \/ ClearRechecked \/ Started
             \/ \E b \in Book : CloseRuns(b) \/ SupersedeLost(b)
    BY <2>2, <1>0 DEF ListOpenRuns, CloseRuns, ListForReconcile, PlaceRewound, StartGC, ClearRechecked, Started,
                      SupersedeLost, DiskOK
  <2>3. CASE \/ StartPass \/ ClearDue \/ ListBooks \/ Collect \/ EndPass
             \/ \E b \in Book : PromoteWaypoint(b) \/ StartWorker(b) \/ SkipCandidate(b)
    BY <2>3, <1>0 DEF StartPass, ClearDue, ListBooks, Collect, EndPass, PromoteWaypoint, StartWorker,
                      SkipCandidate, DiskOK
  <2> QED  BY <1>3, <2>1, <2>2, <2>3 DEF Start, Dispatch
<1>4. ASSUME NEW c \in Client, Handle(c) PROVE DiskOK'
  <2> DEFINE b == client[c].book
  <2>0. client[c].pc # "idle" => b \in Book
    BY DEF TypeOK, ClientOK
  <2>1. CASE DropSentinel(c)
    BY <2>0, <2>1, <1>b DEF DropSentinel, At
  <2>2. CASE PurgeDirs(c)
    <3>1. b \in Book
      BY <2>0, <2>2 DEF PurgeDirs
    <3>2. \E gone : disk' = [disk EXCEPT ![b] = RemoveLayers(disk[b], gone)]
      BY <2>2 DEF PurgeDirs
    <3> QED  BY <3>1, <3>2, <1>0, SentinelType, WriteDir
  <2>3. CASE PurgeSentinels(c) \/ DropForRerun(c)
    <3>1. b \in Book /\ \E stages : disk' = [disk EXCEPT ![b] = RemoveSentinels(disk[b], stages)]
      BY <2>0, <2>3 DEF PurgeSentinels, DropForRerun, At
    <3> QED  BY <3>1, <1>0, SentinelType, WriteDir
  <2>4. CASE WipeDir(c)
    <3>1. EmptyDir \in WorkDir
      BY DEF EmptyDir, WorkDir
    <3> QED  BY <2>0, <2>4, <3>1, <1>0, WriteDir DEF WipeDir
  <2>5. CASE \/ WriteStatus(c) \/ Signal(c) \/ ClearStatus(c) \/ DeleteRow(c) \/ ReserveForPurge(c)
             \/ PurgeReconcile(c) \/ PurgePlace(c) \/ Unreserve(c) \/ Terminate(c) \/ CloseOrphan(c)
             \/ RerunPlace(c)
    BY <2>5, <1>0 DEF WriteStatus, Signal, ClearStatus, DeleteRow, ReserveForPurge, PurgeReconcile,
                      PurgePlace, Unreserve, Terminate, CloseOrphan, RerunPlace, DiskOK
  <2> QED  BY <1>4, <2>1, <2>2, <2>3, <2>4, <2>5 DEF Handle
<1>5. CASE \/ \E b \in Book : Enqueue(b) \/ TimePasses(b)
           \/ Crash \/ Shutdown \/ Restart \/ UNCHANGED vars
           \/ \E c \in Client, b \in Book, op \in OpName, s \in Stage \cup {NoState} : Call(c, op, b, s)
  BY <1>0, <1>5 DEF Enqueue, TimePasses, Crash, Shutdown, Restart, Reboot, Call, vars, DiskOK
<1> QED  BY <1>1, <1>2, <1>3, <1>4, <1>5 DEF Next, ClientSteps

-----------------------------------------------------------------------------
(* Every step keeps the workers well formed. *)

WorkerFits(w) ==
    /\ w \in WorkerRec
    /\ w.pc # "off" => w.stage \in Stage
    /\ w.pc = "failing" => w.out \in ParkCode \cup {"failed"}
    /\ w.pc \in {"ran", "advance"} => w.out \in Mark

LEMMA WriteWorker ==
    ASSUME WorkerOK, NEW b \in Book, NEW w, WorkerFits(w), worker' = [worker EXCEPT ![b] = w]
    PROVE  WorkerOK'
  BY DEF WorkerOK, WorkerFits, Running

LEMMA IdleFits == WorkerFits(IdleWorker)
  BY DEF WorkerFits, IdleWorker, WorkerRec, WorkerPc, WorkerOut, ParkCode, NoCode, State

LEMMA CancelFits ==
    ASSUME NEW w, WorkerFits(w)
    PROVE  WorkerFits([w EXCEPT !.cancelled = TRUE])
  BY DEF WorkerFits, WorkerRec

LEMMA WorkKeepsWorker ==
    ASSUME TypeOK, NEW b \in Book, Work(b)
    PROVE  WorkerOK'
<1> DEFINE w == worker[b]
<1>0. WorkerOK /\ WorkerFits(w) /\ worker \in [Book -> WorkerRec]
  BY DEF TypeOK, WorkerOK, WorkerFits, Running
<1>1. CASE SkipStage(b)
  <2>1. w.pc = "begin" /\ w.stage \in Stage /\ disk[b].done[w.stage] \in Mark
    BY <1>0, <1>1 DEF SkipStage, WorkerFits, HasSentinel, TypeOK, DiskOK, WorkDir
  <2>2. worker' = [worker EXCEPT ![b] = [w EXCEPT !.pc = "advance", !.out = disk[b].done[w.stage]]]
    BY <1>1, <1>0 DEF SkipStage
  <2>3. WorkerFits([w EXCEPT !.pc = "advance", !.out = disk[b].done[w.stage]])
    BY <1>0, <2>1 DEF WorkerFits, WorkerRec, WorkerPc, WorkerOut
  <2> QED  BY <2>2, <2>3, <1>0, WriteWorker
<1>2. CASE OpenRun(b)
  <2>1. \/ worker' = [worker EXCEPT ![b] = [w EXCEPT !.pc = "exec"]]
        \/ worker' = [worker EXCEPT ![b] = IdleWorker]
    BY <1>2, <1>0 DEF OpenRun, GoTo, Exit
  <2>2. WorkerFits([w EXCEPT !.pc = "exec"])
    BY <1>0, <1>2 DEF OpenRun, WorkerFits, WorkerRec, WorkerPc
  <2> QED  BY <2>1, <2>2, <1>0, IdleFits, WriteWorker
<1>3. CASE ExecSucceeds(b)
  <2>1. PICK mark \in Mark : worker' = [worker EXCEPT ![b] = [w EXCEPT !.pc = "ran", !.out = mark]]
    BY <1>3, <1>0 DEF ExecSucceeds, Mark
  <2>2. WorkerFits([w EXCEPT !.pc = "ran", !.out = mark])
    BY <1>0, <1>3 DEF ExecSucceeds, WorkerFits, WorkerRec, WorkerPc, WorkerOut
  <2> QED  BY <2>1, <2>2, <1>0, WriteWorker
<1>4. CASE ExecFaults(b) \/ ExecGivesUp(b)
  <2>1. PICK out \in ParkCode \cup {"failed"} : ExecEnds(b, out)
    BY <1>4 DEF ExecFaults, ExecGivesUp, ParkCode
  <2>2. worker' = [worker EXCEPT ![b] = [w EXCEPT !.pc = "failing", !.out = out]]
    BY <2>1, <1>0 DEF ExecEnds
  <2>3. WorkerFits([w EXCEPT !.pc = "failing", !.out = out])
    BY <1>0, <2>1 DEF ExecEnds, WorkerFits, WorkerRec, WorkerPc, WorkerOut
  <2> QED  BY <2>2, <2>3, <1>0, WriteWorker
<1>5. CASE RecordRun(b)
  <2>1. \/ worker' = [worker EXCEPT ![b] = [w EXCEPT !.pc = "failing", !.out = "failed"]]
        \/ worker' = [worker EXCEPT ![b] = [w EXCEPT !.pc = "advance"]]
        \/ worker' = [worker EXCEPT ![b] = IdleWorker]
    BY <1>5, <1>0 DEF RecordRun, GoTo, Exit
  <2>2. /\ WorkerFits([w EXCEPT !.pc = "failing", !.out = "failed"])
        /\ WorkerFits([w EXCEPT !.pc = "advance"])
    BY <1>0, <1>5 DEF RecordRun, WorkerFits, WorkerRec, WorkerPc, WorkerOut
  <2> QED  BY <2>1, <2>2, <1>0, IdleFits, WriteWorker
<1>6. CASE Advance(b)
  <2> DEFINE s == w.stage
             next == NextState(KindOf[b], s, OutcomeOf(w.out, db[b].ok["fixing"])).state
  <2>1. s \in State \ {"done"}
    BY <1>0, <1>6, StageList DEF Advance, WorkerFits, State
  <2>2. next \in State
    BY <2>1, NextStateType
  <2> HIDE DEF next
  <2>3. \/ worker' = [worker EXCEPT ![b] = [w EXCEPT !.pc = "failing", !.out = "fix_loop_exhausted"]]
        \/ worker' = [worker EXCEPT ![b] = [w EXCEPT !.pc = "commit", !.next = next]]
        \/ worker' = [worker EXCEPT ![b] = IdleWorker]
    BY <1>6, <1>0 DEF Advance, Exit, next
  <2>4. /\ WorkerFits([w EXCEPT !.pc = "failing", !.out = "fix_loop_exhausted"])
        /\ WorkerFits([w EXCEPT !.pc = "commit", !.next = next])
    BY <1>0, <1>6, <2>2 DEF Advance, WorkerFits, WorkerRec, WorkerPc, WorkerOut, ParkCode
  <2> QED  BY <2>3, <2>4, <1>0, IdleFits, WriteWorker
<1>7. CASE Commit(b)
  <2>1. \/ worker' = [worker EXCEPT ![b] = [w EXCEPT !.pc = "purge"]]
        \/ worker' = [worker EXCEPT ![b] = IdleWorker]
    BY <1>7, <1>0 DEF Commit, GoTo, Exit
  <2>2. WorkerFits([w EXCEPT !.pc = "purge"])
    BY <1>0, <1>7 DEF Commit, WorkerFits, WorkerRec, WorkerPc
  <2> QED  BY <2>1, <2>2, <1>0, IdleFits, WriteWorker
<1>8. CASE ExecCanceled(b) \/ SetFailedOrParked(b) \/ AutoPurgeDone(b)
  BY <1>8, <1>0, IdleFits, WriteWorker DEF ExecCanceled, SetFailedOrParked, AutoPurgeDone, Exit
<1> QED  BY <1>1, <1>2, <1>3, <1>4, <1>5, <1>6, <1>7, <1>8 DEF Work

LEMMA NextKeepsWorker ==
    ASSUME TypeOK, [Next]_vars
    PROVE  WorkerOK'
<1>0. /\ WorkerOK /\ worker \in [Book -> WorkerRec]
      /\ \A b \in Book : WorkerFits(worker[b])
  BY DEF TypeOK, WorkerOK, WorkerFits, Running
<1>1. ASSUME NEW b \in Book, StartWorker(b) PROVE WorkerOK'
  <2> DEFINE s == disp.seen[b].state
             w == [IdleWorker EXCEPT !.pc = "begin", !.stage = s]
  <2>1. s \in Stage
    BY <1>1 DEF StartWorker, IsNext, TypeOK, DispOK
  <2>2. WorkerFits(w)
    BY <2>1 DEF WorkerFits, IdleWorker, WorkerRec, WorkerPc, WorkerOut, ParkCode, NoCode, Stage, State
  <2> HIDE DEF w
  <2>3. worker' = [worker EXCEPT ![b] = w]
    BY <1>1 DEF StartWorker, w
  <2> QED  BY <2>2, <2>3, <1>0, WriteWorker
<1>2. ASSUME NEW c \in Client, Signal(c) PROVE WorkerOK'
  <2> DEFINE b == client[c].book
             w == [worker[b] EXCEPT !.cancelled = TRUE]
  <2>1. b \in Book
    BY <1>2 DEF Signal, TypeOK, ClientOK
  <2>2. WorkerFits(w)
    BY <1>0, <2>1, CancelFits
  <2>3. UNCHANGED worker \/ worker' = [worker EXCEPT ![b] = w]
    BY <1>0, <1>2, <2>1 DEF Signal, CancelInflight
  <2> QED  BY <2>1, <2>2, <2>3, <1>0, WriteWorker DEF WorkerOK, Running
<1>3. CASE Shutdown
  <2>1. worker' = [b \in Book |-> IF Running(b) THEN [worker[b] EXCEPT !.cancelled = TRUE] ELSE worker[b]]
    BY <1>3 DEF Shutdown
  <2>2. \A b \in Book : WorkerFits([worker[b] EXCEPT !.cancelled = TRUE])
    BY <1>0, CancelFits
  <2>3. \A b \in Book : WorkerFits(worker'[b])
    BY <2>1, <2>2, <1>0
  <2> QED  BY <2>1, <2>3 DEF WorkerOK, WorkerFits, Running
<1>4. CASE Crash \/ Restart
  <2>1. worker' = [b \in Book |-> IdleWorker]
    BY <1>4 DEF Crash, Restart, Reboot
  <2> QED  BY <2>1, IdleFits DEF WorkerOK, WorkerFits, Running
<1>5. CASE UNCHANGED worker
  BY <1>0, <1>5 DEF WorkerOK, Running
<1>6. ASSUME NEW c \in Client, Handle(c), ~Signal(c) PROVE UNCHANGED worker
  BY <1>6 DEF Handle, WriteStatus, DropSentinel, ClearStatus, DeleteRow, WipeDir, ReserveForPurge, PurgeDirs,
              PurgeSentinels, PurgeReconcile, PurgePlace, Unreserve, Terminate, CloseOrphan, DropForRerun,
              RerunPlace
<1>7. CASE Start
  BY <1>5, <1>7 DEF Start, ListOpenRuns, CloseRuns, ListForReconcile, SupersedeLost, PlaceRewound,
                    StartGC, Recheck,
                    ClearRechecked, Started
<1>8. CASE Dispatch
  <2>1. UNCHANGED worker \/ \E b \in Book : StartWorker(b)
    BY <1>8 DEF Dispatch, StartPass, ReadmitDue, ClearDue, ListBooks, PromoteWaypoint, Collect, SkipCandidate,
                EndPass
  <2> QED  BY <2>1, <1>1, <1>5
<1>9. CASE \/ \E b \in Book : StartupGC(b) \/ TimePasses(b) \/ Enqueue(b)
           \/ UNCHANGED vars
           \/ \E c \in Client, b \in Book, op \in OpName, s \in Stage \cup {NoState} : Call(c, op, b, s)
  BY <1>9, <1>5 DEF StartupGC, TimePasses, Enqueue, Call, vars
<1> QED  BY <1>2, <1>3, <1>4, <1>5, <1>6, <1>7, <1>8, <1>9, WorkKeepsWorker DEF Next, ClientSteps

-----------------------------------------------------------------------------
(* Every step keeps the dispatch loop well formed. *)

LEMMA DispFields ==
    ASSUME DispOK
    PROVE  /\ disp \in DispRec
           /\ disp.pc \in DispPc /\ disp.todo \in SUBSET Book /\ disp.book \in Book \cup {NoBook}
           /\ disp.stage \in Stage \cup {NoState} /\ disp.seen \in [Book -> Views] /\ disp.free \in [Slot -> Int]
  BY DEF DispOK, DispRec

LEMMA SnapshotType ==
    ASSUME DbOK
    PROVE  [b \in Book |-> View(b)] \in [Book -> Views]
  BY ViewType

LEMMA IdleDispType == IdleDisp \in DispRec
  BY ViewType DEF IdleDisp, DispRec, DispPc, NoBook, NoState

LEMMA IdleDispOK ==
    ASSUME NEW pc \in {"idle", "close", "stopping", "dead"}, disp' = [IdleDisp EXCEPT !.pc = pc]
    PROVE  DispOK'
<1>1. IdleDisp \in DispRec /\ IdleDisp.pc = "idle"
  BY IdleDispType DEF IdleDisp
<1>2. disp' \in DispRec /\ disp'.pc = pc
  BY <1>1 DEF DispRec, DispPc
<1> QED  BY <1>2 DEF DispOK

LEMMA IdleDispIsIdle == IdleDisp = [IdleDisp EXCEPT !.pc = "idle"]
  BY DEF IdleDisp

LEMMA DispatchKeepsDisp ==
    ASSUME TypeOK, Dispatch
    PROVE  DispOK'
<1>0. DispOK /\ DbOK
  BY DEF TypeOK
<1>a. /\ disp \in DispRec /\ disp.todo \in SUBSET Book /\ disp.seen \in [Book -> Views]
      /\ disp.free \in [Slot -> Int] /\ [b \in Book |-> View(b)] \in [Book -> Views]
  BY <1>0, DispFields, SnapshotType
<1>1. CASE StartPass
  <2> DEFINE due == {b \in Book : /\ Live(b) /\ db[b].status = "needs_attention" /\ db[b].retry = "due"
                                  /\ db[b].park \in AutoReadmitCodes}
             seen == [b \in Book |-> IF b \in due THEN View(b) ELSE NoView]
  <2>1. seen \in [Book -> Views]
    BY <1>0, ViewType
  <2> HIDE DEF due, seen
  <2>2. due \in SUBSET Book
    BY DEF due
  <2>3. disp' = [disp EXCEPT !.pc = "due", !.todo = due, !.seen = seen]
    BY <1>1 DEF StartPass, due, seen
  <2> QED  BY <2>1, <2>2, <2>3, <1>a DEF DispOK, DispRec, DispPc
<1>2. ASSUME NEW b \in Book, ReadmitDue(b) PROVE DispOK'
  <2>1. \/ disp' = [disp EXCEPT !.todo = @ \ {b}]
        \/ disp' = [disp EXCEPT !.pc = "clear", !.book = b, !.todo = @ \ {b}]
    BY <1>2 DEF ReadmitDue
  <2>2. disp.pc = "due"
    BY <1>2 DEF ReadmitDue
  <2>3. disp' \in DispRec /\ disp'.pc \in {"due", "clear"} /\ (disp'.pc = "clear" => disp'.book = b)
    BY <2>1, <2>2, <1>a DEF DispRec, DispPc
  <2> QED  BY <2>3 DEF DispOK
<1>3. CASE ClearDue
  BY <1>0, <1>a, <1>3 DEF ClearDue, DispOK, DispRec, DispPc
<1>4. CASE ListBooks
  <2> DEFINE points == {b \in Book : Live(b) /\ db[b].status = "none" /\ IsWaypoint(db[b].state)}
             seen == [b \in Book |-> View(b)]
  <2>1. \A b \in points : IsWaypoint(seen[b].state)
    BY DEF View
  <2>2. points \in SUBSET Book /\ seen \in [Book -> Views]
    BY <1>a
  <2> HIDE DEF points, seen
  <2>3. disp' = [disp EXCEPT !.pc = "waypoints", !.seen = seen, !.todo = points]
    BY <1>4 DEF ListBooks, points, seen
  <2> QED  BY <2>1, <2>2, <2>3, <1>a DEF DispOK, DispRec, DispPc
<1>5. ASSUME NEW b \in Book, PromoteWaypoint(b) PROVE DispOK'
  <2> DEFINE next == NextState(KindOf[b], disp.seen[b].state, OutcomeOf("main", 0)).state
             seen == IF Live(b) THEN [disp.seen EXCEPT ![b].state = next] ELSE disp.seen
  <2>1. disp.seen[b].state \in State \ {"done"} /\ disp.seen[b] \in Views
    BY <1>0, <1>a, <1>5 DEF PromoteWaypoint, DispOK, Views, IsWaypoint, IsTerminal
  <2>2. next \in State
    BY <2>1, NextStateType
  <2> HIDE DEF next
  <2>3. [disp.seen[b] EXCEPT !.state = next] \in Views
    BY <2>1, <2>2 DEF Views
  <2>4. seen \in [Book -> Views] /\ \A x \in Book \ {b} : seen[x] = disp.seen[x]
    BY <2>3, <1>a
  <2>5. disp' = [disp EXCEPT !.todo = @ \ {b}, !.seen = seen] /\ disp.pc = "waypoints"
    BY <1>5 DEF PromoteWaypoint, next
  <2> HIDE DEF seen
  <2>6. /\ disp' \in DispRec /\ disp'.pc = "waypoints"
        /\ disp'.todo = disp.todo \ {b} /\ disp'.seen = seen
    BY <2>4, <2>5, <1>a DEF DispRec
  <2>7. \A x \in disp'.todo : IsWaypoint(disp'.seen[x].state)
    BY <2>4, <2>5, <2>6, <1>0, <1>a DEF DispOK
  <2> QED  BY <2>6, <2>7 DEF DispOK
<1>6. CASE Collect
  <2> DEFINE ready == {b \in Book : /\ disp.seen[b].row = "live" /\ ~InFlight(b)
                                    /\ CanStart(disp.seen[b].state, disp.seen[b].status,
                                                HoldsLock(disp.seen, b))}
             free == [l \in Slot |-> SlotCap(l) - Cardinality(Holders(l))]
  <2>1. \A b \in ready : disp.seen[b].state \in Stage
    BY <1>a DEF CanStart, Stage, Views
  <2>2. free \in [Slot -> Int]
    BY CountsType
  <2>3. ready \in SUBSET Book
    OBVIOUS
  <2> HIDE DEF ready, free
  <2>4. disp' = [disp EXCEPT !.pc = "fill", !.todo = ready, !.free = free]
    BY <1>6 DEF Collect, ready, free
  <2> QED  BY <2>1, <2>2, <2>3, <2>4, <1>a DEF DispOK, DispRec, DispPc
<1>7. ASSUME NEW b \in Book, StartWorker(b) PROVE DispOK'
  <2> DEFINE left == TakeSlots(disp.free, disp.seen[b].state)
  <2>1. left \in [Slot -> Int]
    BY <1>a DEF TakeSlots
  <2> HIDE DEF left
  <2>2. disp' = [disp EXCEPT !.todo = @ \ {b}, !.free = left] /\ disp.pc = "fill"
    BY <1>7, <1>a DEF StartWorker, left
  <2>3. disp' \in DispRec
    BY <2>1, <2>2, <1>a DEF DispRec
  <2> QED  BY <2>2, <2>3, <1>0, <1>a DEF DispOK, DispRec
<1>8. ASSUME NEW b \in Book, SkipCandidate(b) PROVE DispOK'
  BY <1>0, <1>a, <1>8 DEF SkipCandidate, DispOK, DispRec
<1>9. CASE EndPass
  BY <1>9, IdleDispOK, IdleDispIsIdle DEF EndPass
<1> QED  BY <1>1, <1>2, <1>3, <1>4, <1>5, <1>6, <1>7, <1>8, <1>9 DEF Dispatch

LEMMA StartKeepsDisp ==
    ASSUME TypeOK, Start
    PROVE  DispOK'
<1>0. DispOK /\ DbOK
  BY DEF TypeOK
<1>a. /\ disp \in DispRec /\ disp.todo \in SUBSET Book /\ disp.seen \in [Book -> Views]
      /\ [b \in Book |-> View(b)] \in [Book -> Views]
  BY <1>0, DispFields, SnapshotType
<1>1. CASE ListOpenRuns
  <2>1. PICK todo \in SUBSET Book : disp' = [disp EXCEPT !.pc = "list", !.todo = todo]
    BY <1>1 DEF ListOpenRuns
  <2> QED  BY <2>1, <1>a DEF DispOK, DispRec, DispPc
<1>9. ASSUME NEW b \in Book, CloseRuns(b) PROVE DispOK'
  <2>1. CASE disp' = [disp EXCEPT !.todo = @ \ {b}]
    <3>1. disp.pc = "list"
      BY <1>9 DEF CloseRuns
    <3> QED  BY <2>1, <3>1, <1>a DEF DispOK, DispRec
  <2>2. CASE disp' = Dead
    BY <2>2, IdleDispOK DEF Dead
  <2> QED  BY <1>9, <2>1, <2>2 DEF CloseRuns
<1>2. CASE ListForReconcile
  <2> DEFINE active == {b \in Book : Live(b) /\ ~IsTerminal(db[b].state)}
             seen == [b \in Book |-> View(b)]
  <2>1. active \in SUBSET Book /\ seen \in [Book -> Views]
    BY <1>a
  <2> HIDE DEF active, seen
  <2>2. disp' = [disp EXCEPT !.pc = "rewind", !.seen = seen, !.todo = active]
    BY <1>2 DEF ListForReconcile, active, seen
  <2> QED  BY <2>1, <2>2, <1>a DEF DispOK, DispRec, DispPc
<1>3. ASSUME NEW b \in Book, SupersedeLost(b) PROVE DispOK'
  <2>1. disp.seen[b].succ \in SUBSET Stage
    BY <1>a DEF Views
  <2>2. \/ disp' = [disp EXCEPT !.todo = @ \ {b}]
        \/ \E s \in Stage : disp' = [disp EXCEPT !.pc = "place", !.todo = @ \ {b}, !.book = b, !.stage = s]
    BY <1>3, <2>1 DEF SupersedeLost, Lost
  <2>3. disp.pc = "rewind"
    BY <1>3 DEF SupersedeLost
  <2>4. CASE disp' = [disp EXCEPT !.todo = @ \ {b}]
    <3>1. disp' \in DispRec /\ disp'.pc = "rewind"
      BY <2>3, <2>4, <1>a DEF DispRec
    <3> QED  BY <3>1 DEF DispOK
  <2>5. ASSUME NEW s \in Stage, disp' = [disp EXCEPT !.pc = "place", !.todo = @ \ {b}, !.book = b, !.stage = s]
        PROVE  DispOK'
    <3>1. disp' \in DispRec /\ disp'.pc = "place" /\ disp'.book = b /\ disp'.stage = s
      BY <2>5, <1>a DEF DispRec, DispPc
    <3> QED  BY <3>1 DEF DispOK
  <2> QED  BY <2>2, <2>4, <2>5
<1>4. CASE PlaceRewound
  <2>1. CASE disp' = [disp EXCEPT !.pc = "rewind", !.book = NoBook, !.stage = NoState]
    BY <1>a, <2>1 DEF DispOK, DispRec, DispPc
  <2>2. CASE disp' = Dead
    BY <2>2, IdleDispOK DEF Dead
  <2> QED  BY <1>4, <2>1, <2>2 DEF PlaceRewound
<1>5. CASE StartGC
  <2> DEFINE seen == [b \in Book |-> View(b)]
  <2>1. seen \in [Book -> Views]
    BY <1>a
  <2> HIDE DEF seen
  <2>2. \E todo \in SUBSET Book : disp' = [disp EXCEPT !.pc = "recheck", !.seen = seen, !.todo = todo]
    BY <1>5 DEF StartGC, seen
  <2> QED  BY <2>1, <2>2, <1>a DEF DispOK, DispRec, DispPc
<1>6. ASSUME NEW b \in Book, Recheck(b) PROVE DispOK'
  BY <1>a, <1>6 DEF Recheck, DispOK, DispRec, DispPc
<1>7. CASE ClearRechecked
  BY <1>a, <1>7 DEF ClearRechecked, DispOK, DispRec, DispPc
<1>8. CASE Started
  BY <1>8, IdleDispOK, IdleDispIsIdle DEF Started
<1> QED  BY <1>1, <1>2, <1>3, <1>4, <1>5, <1>6, <1>7, <1>8, <1>9 DEF Start

LEMMA NextKeepsDisp ==
    ASSUME TypeOK, [Next]_vars
    PROVE  DispOK'
<1>1. CASE UNCHANGED disp
  BY <1>1 DEF TypeOK, DispOK
<1>2. CASE Crash \/ Restart \/ Shutdown
  BY <1>2, IdleDispOK DEF Crash, Restart, Shutdown, Reboot
<1>3. ASSUME NEW b \in Book, Work(b) PROVE UNCHANGED disp
  BY <1>3 DEF Work, WorkerOnly, SkipStage, OpenRun, ExecSucceeds, ExecCanceled, ExecFaults, ExecGivesUp,
              ExecEnds, RecordRun, SetFailedOrParked, Advance, Commit, AutoPurgeDone
<1>4. ASSUME NEW c \in Client, Handle(c) PROVE UNCHANGED disp
  BY <1>4 DEF Handle, ClientOnly, WriteStatus, Signal, DropSentinel, ClearStatus, DeleteRow, WipeDir,
              ReserveForPurge, PurgeDirs, PurgeSentinels, PurgeReconcile, PurgePlace, Unreserve, Terminate,
              CloseOrphan, DropForRerun, RerunPlace
<1>5. CASE \/ \E b \in Book : StartupGC(b) \/ TimePasses(b) \/ Enqueue(b)
           \/ UNCHANGED vars
           \/ \E c \in Client, b \in Book, op \in OpName, s \in Stage \cup {NoState} : Call(c, op, b, s)
  BY <1>5, <1>1 DEF StartupGC, TimePasses, Enqueue, Call, vars
<1> QED  BY <1>1, <1>2, <1>3, <1>4, <1>5, DispatchKeepsDisp, StartKeepsDisp DEF Next, ClientSteps

-----------------------------------------------------------------------------
(* Every step keeps the control calls well formed. *)

ClientFits(r) == /\ r \in ClientRec
                 /\ r.pc # "idle" => r.book \in Book
                 /\ r.pc = "place" \/ r.op = "rerun" => r.stage \in Stage
                 /\ r.pc \in {"reserve"} \cup PurgePc => r.op = "purge"
                 /\ r.pc = "place" => r.op \in {"purge", "rerun"}

LEMMA IdleClientFits == ClientFits(IdleClient)
  BY ViewType DEF ClientFits, IdleClient, ClientRec, ClientPc, PurgePc, OpName, NoState, NoBook

LEMMA ClientGoes ==
    ASSUME NEW r, ClientFits(r), r.pc # "idle",
           NEW pc \in ClientPc, pc # "place",
           pc \in {"reserve"} \cup PurgePc => r.op = "purge"
    PROVE  ClientFits([r EXCEPT !.pc = pc])
  BY DEF ClientFits, ClientRec

LEMMA WriteClient ==
    ASSUME ClientOK, NEW c \in Client, NEW r, ClientFits(r), client' = [client EXCEPT ![c] = r]
    PROVE  ClientOK'
  BY DEF ClientOK, ClientFits

LEMMA HandleKeepsClient ==
    ASSUME TypeOK, NEW c \in Client, Handle(c)
    PROVE  ClientOK'
<1> DEFINE r == client[c]
<1>0. ClientOK /\ ClientFits(r) /\ client \in [Client -> ClientRec]
  BY DEF TypeOK, ClientOK, ClientFits
<1>a. ASSUME Return(c) PROVE ClientOK'
  BY <1>0, <1>a, IdleClientFits, WriteClient DEF Return
<1>b. ASSUME NEW pc \in ClientPc, Then(c, pc), r.pc # "idle", pc # "place",
             pc \in {"reserve"} \cup PurgePc => r.op = "purge"
      PROVE  ClientOK'
  <2>1. ClientFits([r EXCEPT !.pc = pc])
    BY <1>0, <1>b, ClientGoes
  <2>2. client' = [client EXCEPT ![c] = [r EXCEPT !.pc = pc]]
    BY <1>0, <1>b DEF Then
  <2> QED  BY <1>0, <2>1, <2>2, WriteClient
<1>1. CASE WriteStatus(c)
  BY <1>1, <1>a, <1>b DEF WriteStatus, At, ClientPc, PurgePc
<1>2. CASE Signal(c)
  BY <1>2, <1>a, <1>b DEF Signal, ClientPc, PurgePc
<1>3. CASE DropSentinel(c)
  BY <1>3, <1>b DEF DropSentinel, At, ClientPc, PurgePc
<1>4. CASE ClearStatus(c) \/ WipeDir(c) \/ Unreserve(c)
  BY <1>4, <1>a DEF ClearStatus, WipeDir, Unreserve
<1>5. CASE DeleteRow(c)
  BY <1>5, <1>a, <1>b DEF DeleteRow, ClientPc, PurgePc
<1>6. CASE ReserveForPurge(c)
  <2>1. r.op = "purge"
    BY <1>6, <1>0 DEF ReserveForPurge, ClientFits
  <2> QED  BY <1>6, <1>a, <1>b, <2>1 DEF ReserveForPurge, ClientPc, PurgePc
<1>7. CASE PurgeDirs(c) \/ PurgeSentinels(c)
  <2>1. r.op = "purge" /\ r.pc # "idle"
    BY <1>7, <1>0 DEF PurgeDirs, PurgeSentinels, ClientFits, PurgePc
  <2>2. Then(c, "sentinels") \/ Then(c, "release") \/ Then(c, "reconcile")
    BY <1>7 DEF PurgeDirs, PurgeSentinels
  <2> QED  BY <2>1, <2>2, <1>b DEF ClientPc, PurgePc
<1>8. CASE PurgeReconcile(c)
  <2>1. r.op = "purge" /\ r.pc # "idle"
    BY <1>8, <1>0 DEF PurgeReconcile, ClientFits, PurgePc
  <2>2. \/ Then(c, "release")
        \/ \E s \in Stage : client' = [client EXCEPT ![c] = [r EXCEPT !.pc = "place", !.stage = s]]
    BY <1>8, <1>0 DEF PurgeReconcile, Lost, Succeeded
  <2>3. ASSUME NEW s \in Stage PROVE ClientFits([r EXCEPT !.pc = "place", !.stage = s])
    BY <1>0, <2>1 DEF ClientFits, ClientRec, ClientPc, PurgePc
  <2> QED  BY <1>0, <2>1, <2>2, <2>3, <1>b, WriteClient DEF ClientPc, PurgePc
<1>9. CASE PurgePlace(c)
  BY <1>9, <1>b DEF PurgePlace, At, ClientPc, PurgePc
<1>10. CASE Terminate(c)
  BY <1>10, <1>b DEF Terminate, ClientPc, PurgePc
<1>11. CASE CloseOrphan(c)
  BY <1>11, <1>a, <1>b DEF CloseOrphan, ClientPc, PurgePc
<1>12. CASE DropForRerun(c)
  <2>1. r.op = "rerun" /\ r.pc = "drop"
    BY <1>12 DEF DropForRerun, At
  <2>2. ClientFits([r EXCEPT !.pc = "place"])
    BY <2>1, <1>0 DEF ClientFits, ClientRec, ClientPc, PurgePc
  <2>3. client' = [client EXCEPT ![c] = [r EXCEPT !.pc = "place"]]
    BY <1>12, <1>0 DEF DropForRerun, Then
  <2> QED  BY <1>0, <2>2, <2>3, WriteClient
<1>13. CASE RerunPlace(c)
  BY <1>13, <1>a DEF RerunPlace
<1> QED  BY <1>1, <1>2, <1>3, <1>4, <1>5, <1>6, <1>7, <1>8, <1>9, <1>10, <1>11, <1>12, <1>13 DEF Handle

LEMMA NextKeepsClient ==
    ASSUME TypeOK, [Next]_vars
    PROVE  ClientOK'
<1>0. ClientOK /\ DbOK
  BY DEF TypeOK
<1>1. CASE UNCHANGED client
  BY <1>0, <1>1 DEF ClientOK
<1>2. CASE Crash \/ Restart
  <2>1. client' = [c \in Client |-> IdleClient]
    BY <1>2 DEF Crash, Restart, Reboot
  <2>2. \A c \in Client : ClientFits(client'[c])
    BY <2>1, IdleClientFits
  <2> QED  BY <2>1, <2>2 DEF ClientOK, ClientFits
<1>3. ASSUME NEW c \in Client, NEW b \in Book, NEW op \in OpName, NEW s \in Stage \cup {NoState},
             Call(c, op, b, s)
      PROVE  ClientOK'
  <2> DEFINE r == [pc |-> FirstStep(op), op |-> op, book |-> b, seen |-> View(b), stage |-> s]
  <2>1. r \in ClientRec
    BY <1>0, ViewType DEF ClientRec, FirstStep, ClientPc, OpName
  <2>2. op = "rerun" => s \in Stage
    BY <1>3 DEF Call
  <2>3. ClientFits(r)
    BY <2>1, <2>2 DEF ClientFits, FirstStep, OpName, PurgePc
  <2>4. client' = [client EXCEPT ![c] = r]
    BY <1>3 DEF Call
  <2> QED  BY <1>0, <2>3, <2>4, WriteClient
<1>4. ASSUME NEW b \in Book, Work(b) PROVE UNCHANGED client
  BY <1>4 DEF Work, WorkerOnly, SkipStage, OpenRun, ExecSucceeds, ExecCanceled, ExecFaults, ExecGivesUp,
              ExecEnds, RecordRun, SetFailedOrParked, Advance, Commit, AutoPurgeDone
<1>5. CASE Dispatch
  <2>1. UNCHANGED client
    BY <1>5 DEF Dispatch, DispOnly, StartPass, ReadmitDue, ClearDue, ListBooks, PromoteWaypoint, Collect,
                StartWorker, SkipCandidate, EndPass
  <2> QED  BY <2>1, <1>1
<1>6. CASE Start
  <2>1. UNCHANGED client
    BY <1>6 DEF Start, DispOnly, ListOpenRuns, CloseRuns, ListForReconcile, SupersedeLost, PlaceRewound,
                StartGC, Recheck,
                ClearRechecked, Started
  <2> QED  BY <2>1, <1>1
<1>7. CASE Shutdown \/ (\E b \in Book : StartupGC(b) \/ TimePasses(b) \/ Enqueue(b)) \/ UNCHANGED vars
  BY <1>7, <1>1 DEF Shutdown, StartupGC, TimePasses, Enqueue, vars
<1> QED  BY <1>1, <1>2, <1>3, <1>4, <1>5, <1>6, <1>7, HandleKeepsClient DEF Next, ClientSteps

-----------------------------------------------------------------------------
(* The reservations, the GC list, the ghosts and the bounds. *)

LEMMA NextKeepsSets ==
    ASSUME TypeOK, [Next]_vars
    PROVE  reserved' \in SUBSET Book /\ gc' \in SUBSET Book
<1>0. reserved \in SUBSET Book /\ gc \in SUBSET Book
  BY DEF TypeOK
<1>1. ASSUME NEW b \in Book, Work(b) PROVE UNCHANGED <<reserved, gc>>
  BY <1>1 DEF Work, WorkerOnly, SkipStage, OpenRun, ExecSucceeds, ExecCanceled, ExecFaults, ExecGivesUp,
              ExecEnds, RecordRun, SetFailedOrParked, Advance, Commit, AutoPurgeDone
<1>2. ASSUME NEW c \in Client, Handle(c), ~ReserveForPurge(c)
      PROVE  reserved' \subseteq reserved /\ UNCHANGED gc
  <2>1. CASE Unreserve(c)
    BY <2>1 DEF Unreserve, ClientOnly
  <2>2. CASE ~Unreserve(c)
    BY <1>2, <2>2 DEF Handle, ClientOnly, WriteStatus, Signal, DropSentinel, ClearStatus, DeleteRow, WipeDir,
                      PurgeDirs, PurgeSentinels, PurgeReconcile, PurgePlace, Terminate, CloseOrphan,
                      DropForRerun, RerunPlace
  <2> QED  BY <2>1, <2>2
<1>3. ASSUME NEW c \in Client, ReserveForPurge(c) PROVE reserved' \in SUBSET Book /\ UNCHANGED gc
  <2>1. client[c].book \in Book
    BY <1>3 DEF ReserveForPurge, TypeOK, ClientOK
  <2> QED  BY <1>0, <1>3, <2>1 DEF ReserveForPurge, ClientOnly
<1>4. CASE Dispatch
  <2>1. UNCHANGED gc
    BY <1>4 DEF Dispatch, DispOnly, StartPass, ReadmitDue, ClearDue, ListBooks, PromoteWaypoint, Collect,
                StartWorker, SkipCandidate, EndPass
  <2>2. \/ reserved' \subseteq reserved
        \/ \E b \in Book : reserved' = reserved \cup {b}
    BY <1>4 DEF Dispatch, StartPass, ReadmitDue, ClearDue, ListBooks, PromoteWaypoint, Collect,
                StartWorker, SkipCandidate, EndPass
  <2> QED  BY <1>0, <2>1, <2>2
<1>5. CASE Start
  <2>1. CASE StartGC
    BY <1>0, <2>1 DEF StartGC
  <2>2. CASE ~StartGC
    BY <1>0, <1>5, <2>2 DEF Start, DispOnly, ListOpenRuns, CloseRuns, ListForReconcile, SupersedeLost, PlaceRewound,
                            Recheck,
                            ClearRechecked, Started
  <2> QED  BY <2>1, <2>2
<1>6. CASE \/ Crash \/ Shutdown \/ Restart \/ UNCHANGED vars
           \/ \E b \in Book : StartupGC(b) \/ TimePasses(b) \/ Enqueue(b)
           \/ \E c \in Client, b \in Book, op \in OpName, s \in Stage \cup {NoState} : Call(c, op, b, s)
  BY <1>0, <1>6 DEF Crash, Shutdown, Restart, Reboot, StartupGC, TimePasses, Enqueue, Call, vars
<1> QED  BY <1>0, <1>1, <1>2, <1>3, <1>4, <1>5, <1>6 DEF Next, ClientSteps

LEMMA WriteGhost ==
    ASSUME ghost \in [Book -> GhostRec], NEW b \in Book, NEW g \in GhostRec, ghost' = [ghost EXCEPT ![b] = g]
    PROVE  ghost' \in [Book -> GhostRec]
  OBVIOUS

LEMMA GhostWrites ==
    ASSUME NEW g \in GhostRec
    PROVE  /\ \A late \in 0..2 : [g EXCEPT !.late = late] \in GhostRec
           /\ \A passes \in 0..(MaxFixAttempts + 1) : [g EXCEPT !.passes = passes] \in GhostRec
           /\ \A held \in BOOLEAN : [g EXCEPT !.held = held, !.late = 0] \in GhostRec
<1>1. \A late \in 0..2 : [g EXCEPT !.late = late] \in GhostRec
  BY DEF GhostRec
<1>2. \A passes \in 0..(MaxFixAttempts + 1) : [g EXCEPT !.passes = passes] \in GhostRec
  BY DEF GhostRec
<1>4. ASSUME NEW held \in BOOLEAN PROVE [g EXCEPT !.held = held, !.late = 0] \in GhostRec
  <2>1. [g EXCEPT !.held = held] \in GhostRec
    BY DEF GhostRec
  <2>2. \A h \in GhostRec : [h EXCEPT !.late = 0] \in GhostRec
    BY DEF GhostRec
  <2> QED  BY <2>1, <2>2
<1> QED  BY <1>1, <1>2, <1>4

LEMMA ReadmitKeepsGhost ==
    ASSUME TypeOK, NEW b \in Book, NEW v, DropForReadmit(b, v)
    PROVE  ghost' \in [Book -> GhostRec]
<1>0. ghost \in [Book -> GhostRec] /\ ghost[b].passes \in 0..(MaxFixAttempts + 1)
  BY DEF TypeOK, GhostRec
<1> DEFINE n == IF v.park = "fix_loop_exhausted" THEN 0 ELSE ghost[b].passes
<1>1. n \in 0..(MaxFixAttempts + 1)
  BY <1>0
<1> HIDE DEF n
<1>2. [ghost[b] EXCEPT !.passes = n] \in GhostRec
  BY <1>0, <1>1, GhostWrites
<1>3. ghost' = [ghost EXCEPT ![b] = [ghost[b] EXCEPT !.passes = n]]
  BY <1>0 DEF DropForReadmit, n
<1> QED  BY <1>0, <1>2, <1>3, WriteGhost

LEMMA WorkKeepsGhost ==
    ASSUME TypeOK, NEW b \in Book, Work(b)
    PROVE  ghost' \in [Book -> GhostRec]
<1> DEFINE g == ghost[b]
<1>0. ghost \in [Book -> GhostRec] /\ g \in GhostRec
  BY DEF TypeOK
<1>2. CASE ExecSucceeds(b)
  <2> DEFINE n == IF worker[b].stage = "fixing" THEN Bump(g.passes, MaxFixAttempts + 1) ELSE g.passes
  <2>1. n \in 0..(MaxFixAttempts + 1)
    BY <1>0, CountTypes DEF GhostRec
  <2> HIDE DEF n
  <2>2. [g EXCEPT !.passes = n] \in GhostRec
    BY <2>1, <1>0, GhostWrites
  <2>3. ghost' = [ghost EXCEPT ![b] = [g EXCEPT !.passes = n]]
    BY <1>0, <1>2 DEF ExecSucceeds, n
  <2> QED  BY <1>0, <2>2, <2>3, WriteGhost
<1>3. CASE UNCHANGED ghost
  BY <1>0, <1>3
<1> QED
  BY <1>2, <1>3 DEF Work, SkipStage, OpenRun, ExecCanceled, ExecFaults, ExecGivesUp, ExecEnds, RecordRun,
                     SetFailedOrParked, Advance, Commit, AutoPurgeDone

LEMMA HandleKeepsGhost ==
    ASSUME TypeOK, NEW c \in Client, Handle(c)
    PROVE  ghost' \in [Book -> GhostRec]
<1> DEFINE b == client[c].book
           g == ghost[b]
<1>0. /\ ghost \in [Book -> GhostRec]
      /\ client[c].pc # "idle" => b \in Book /\ g \in GhostRec
  BY DEF TypeOK, ClientOK
<1>1. ASSUME NEW held \in BOOLEAN, Hold(b, held), b \in Book PROVE ghost' \in [Book -> GhostRec]
  <2>1. [g EXCEPT !.held = held, !.late = 0] \in GhostRec
    BY <1>0, <1>1, GhostWrites
  <2>2. UNCHANGED ghost \/ ghost' = [ghost EXCEPT ![b] = [g EXCEPT !.held = held, !.late = 0]]
    BY <1>0, <1>1 DEF Hold
  <2> QED  BY <1>0, <1>1, <2>1, <2>2, WriteGhost
<1>2. CASE WriteStatus(c)
  <2>1. Hold(b, TRUE) \/ Hold(b, FALSE) \/ UNCHANGED ghost
    BY <1>2 DEF WriteStatus
  <2>2. b \in Book
    BY <1>0, <1>2 DEF WriteStatus, At
  <2> QED  BY <1>0, <1>1, <2>1, <2>2
<1>3. CASE ClearStatus(c)
  BY <1>0, <1>1, <1>3 DEF ClearStatus
<1>4. CASE DropSentinel(c)
  <2>1. b \in Book
    BY <1>0, <1>4 DEF DropSentinel, At
  <2> QED  BY <1>4, <2>1, ReadmitKeepsGhost DEF DropSentinel
<1>5. ASSUME NEW n \in 0..(MaxFixAttempts + 1), b \in Book, ghost' = [ghost EXCEPT ![b] = [g EXCEPT !.passes = n]]
      PROVE  ghost' \in [Book -> GhostRec]
  <2>1. [g EXCEPT !.passes = n] \in GhostRec
    BY <1>0, <1>5, GhostWrites
  <2> QED  BY <1>0, <1>5, <2>1, WriteGhost
<1>6. CASE PurgeReconcile(c)
  <2>1. b \in Book /\ g.passes \in 0..(MaxFixAttempts + 1) /\ 0 \in 0..(MaxFixAttempts + 1)
    BY <1>0, <1>6 DEF PurgeReconcile, GhostRec
  <2>2. \/ UNCHANGED ghost
        \/ ghost' = [ghost EXCEPT ![b] = [g EXCEPT !.passes = 0]]
        \/ ghost' = [ghost EXCEPT ![b] = [g EXCEPT !.passes = g.passes]]
    BY <1>0, <1>6 DEF PurgeReconcile
  <2> QED  BY <1>0, <1>5, <2>1, <2>2
<1>7. CASE DropForRerun(c)
  <2>1. b \in Book /\ 0 \in 0..(MaxFixAttempts + 1)
    BY <1>0, <1>7 DEF DropForRerun, At
  <2>2. ghost' = [ghost EXCEPT ![b] = [g EXCEPT !.passes = 0]]
    BY <1>0, <1>7 DEF DropForRerun
  <2> QED  BY <1>5, <2>1, <2>2
<1>8. CASE RerunPlace(c)
  <2> DEFINE paused == client[c].seen.status = "paused"
             held == g.held /\ paused
             late == IF paused THEN g.late ELSE 0
  <2>1. b \in Book /\ g \in GhostRec
    BY <1>0, <1>8 DEF RerunPlace, At
  <2>2. late \in 0..2 /\ held \in BOOLEAN
    BY <2>1 DEF GhostRec
  <2>3. ghost' = [ghost EXCEPT ![b] = [g EXCEPT !.held = held, !.late = late]]
    BY <1>0, <1>8 DEF RerunPlace
  <2> HIDE DEF held, late
  <2>4. [g EXCEPT !.held = held, !.late = late] \in GhostRec
    BY <2>1, <2>2 DEF GhostRec
  <2> QED  BY <1>0, <2>1, <2>3, <2>4, WriteGhost
<1>9. CASE UNCHANGED ghost
  BY <1>0, <1>9
<1> QED
  BY <1>2, <1>3, <1>4, <1>6, <1>7, <1>8, <1>9
     DEF Handle, Signal, DeleteRow, WipeDir, ReserveForPurge, PurgeDirs, PurgeSentinels, PurgePlace, Unreserve,
         Terminate, CloseOrphan

LEMMA NextKeepsGhost ==
    ASSUME TypeOK, [Next]_vars
    PROVE  ghost' \in [Book -> GhostRec]
<1>0. ghost \in [Book -> GhostRec]
  BY DEF TypeOK
<1>1. ASSUME NEW b \in Book, StartWorker(b) PROVE ghost' \in [Book -> GhostRec]
  <2> DEFINE g == ghost[b]
             late == IF g.held THEN Bump(g.late, 2) ELSE g.late
  <2>1. late \in 0..2
    BY <1>0, CountTypes DEF GhostRec
  <2> HIDE DEF late
  <2>2. [g EXCEPT !.late = late] \in GhostRec
    BY <1>0, <2>1, GhostWrites
  <2>3. ghost' = [ghost EXCEPT ![b] = [g EXCEPT !.late = late]]
    BY <1>0, <1>1 DEF StartWorker, late
  <2> QED  BY <1>0, <2>2, <2>3, WriteGhost
<1>2. ASSUME NEW b \in Book, ReadmitDue(b) PROVE ghost' \in [Book -> GhostRec]
  BY <1>0, <1>2, ReadmitKeepsGhost DEF ReadmitDue
<1>3. ASSUME NEW b \in Book, Recheck(b) PROVE ghost' \in [Book -> GhostRec]
  BY <1>3, ReadmitKeepsGhost DEF Recheck
<1>4. CASE UNCHANGED ghost
  BY <1>0, <1>4
<1>5. CASE Dispatch
  BY <1>1, <1>2, <1>4, <1>5 DEF Dispatch, StartPass, ClearDue, ListBooks, PromoteWaypoint, Collect,
                                SkipCandidate, EndPass
<1>6. CASE Start
  <2>1. UNCHANGED ghost \/ \E b \in Book : Recheck(b)
    BY <1>6 DEF Start, ListOpenRuns, CloseRuns, ListForReconcile, SupersedeLost, PlaceRewound,
                StartGC, ClearRechecked, Started
  <2> QED  BY <1>3, <1>4, <2>1
<1>7. CASE \/ Crash \/ Shutdown \/ Restart \/ UNCHANGED vars
           \/ \E b \in Book : StartupGC(b) \/ TimePasses(b) \/ Enqueue(b)
           \/ \E c \in Client, b \in Book, op \in OpName, s \in Stage \cup {NoState} : Call(c, op, b, s)
  BY <1>0, <1>7 DEF Crash, Shutdown, Restart, Reboot, StartupGC, TimePasses, Enqueue, Call, vars
<1> QED  BY <1>5, <1>6, <1>7, WorkKeepsGhost, HandleKeepsGhost DEF Next, ClientSteps

LEMMA NextKeepsBudget ==
    ASSUME TypeOK, [Next]_vars
    PROVE  budget' \in [ops : Nat, faults : Nat, crashes : Nat, starts : Nat]
<1> DEFINE Budget == [ops : Nat, faults : Nat, crashes : Nat, starts : Nat]
<1>0. budget \in Budget
  BY DEF TypeOK
<1>1. ASSUME NEW kind, UseFault(kind) PROVE budget' \in Budget
  <2>1. budget.faults \in Nat /\ budget.faults > 0 /\ budget' = [budget EXCEPT !.faults = budget.faults - 1]
    BY <1>0, <1>1 DEF UseFault
  <2>2. budget.faults - 1 \in Nat
    BY <2>1
  <2> QED  BY <1>0, <2>1, <2>2
<1>2. ASSUME NEW b \in Book, Work(b) PROVE budget' \in Budget
  BY <1>0, <1>1, <1>2 DEF Work, SkipStage, OpenRun, ExecSucceeds, ExecCanceled, ExecFaults, ExecGivesUp, RecordRun,
                          SetFailedOrParked, Advance, Commit, AutoPurgeDone, ReclaimDone
<1>3. ASSUME NEW b \in Book, StartWorker(b) PROVE budget' \in Budget
  <2> DEFINE n == IF budget.starts = NoLimit THEN budget.starts ELSE Drop(budget.starts)
  <2>1. n \in Nat
    BY <1>0, CountTypes DEF NoLimit
  <2> HIDE DEF n
  <2>2. budget' = [budget EXCEPT !.starts = n]
    BY <1>3 DEF StartWorker, n
  <2> QED  BY <1>0, <2>1, <2>2
<1>4. CASE Dispatch
  <2>1. UNCHANGED budget \/ \E b \in Book : StartWorker(b)
    BY <1>4 DEF Dispatch, DispOnly, StartPass, ReadmitDue, ClearDue, ListBooks, PromoteWaypoint, Collect,
                SkipCandidate, EndPass
  <2> QED  BY <1>0, <1>3, <2>1
<1>5. CASE Start
  <2>1. UNCHANGED budget
    BY <1>5 DEF Start, DispOnly, ListOpenRuns, CloseRuns, ListForReconcile, SupersedeLost, PlaceRewound,
                StartGC, Recheck,
                ClearRechecked, Started
  <2> QED  BY <1>0, <2>1
<1>6. ASSUME NEW c \in Client, Handle(c) PROVE budget' \in Budget
  <2>1. UNCHANGED budget \/ UseFault("io")
    BY <1>6 DEF Handle, ClientOnly, WriteStatus, Signal, DropSentinel, ClearStatus, DeleteRow, WipeDir,
                ReserveForPurge, PurgeDirs, PurgeSentinels, PurgeReconcile, PurgePlace, Unreserve, Terminate,
                CloseOrphan, DropForRerun, RerunPlace
  <2> QED  BY <1>0, <1>1, <2>1
<1>7. ASSUME NEW n \in Nat, n > 0 PROVE n - 1 \in Nat
  BY <1>7
<1>8. CASE Crash \/ Shutdown
  <2>1. budget.crashes > 0 /\ budget' = [budget EXCEPT !.crashes = budget.crashes - 1]
    BY <1>8 DEF Crash, Shutdown
  <2>2. budget.crashes - 1 \in Nat
    BY <1>0, <1>7, <2>1
  <2> QED  BY <1>0, <2>1, <2>2
<1>9. CASE \/ \E b \in Book : Enqueue(b)
           \/ \E c \in Client, b \in Book, op \in OpName, s \in Stage \cup {NoState} : Call(c, op, b, s)
  <2>1. budget.ops > 0 /\ budget' = [budget EXCEPT !.ops = budget.ops - 1]
    BY <1>9 DEF Enqueue, Call
  <2>2. budget.ops - 1 \in Nat
    BY <1>0, <1>7, <2>1
  <2> QED  BY <1>0, <2>1, <2>2
<1>10. CASE Restart \/ UNCHANGED vars \/ \E b \in Book : TimePasses(b)
  BY <1>0, <1>10 DEF Restart, Reboot, TimePasses, vars
<1>11. ASSUME NEW b \in Book, StartupGC(b) PROVE budget' \in Budget
  BY <1>0, <1>1, <1>11 DEF StartupGC, ReclaimDone
<1> QED  BY <1>2, <1>4, <1>5, <1>6, <1>8, <1>9, <1>10, <1>11 DEF Next, ClientSteps

-----------------------------------------------------------------------------

LEMMA InitType == Init => TypeOK
<1> SUFFICES ASSUME Init PROVE TypeOK
  OBVIOUS
<1>1. DbOK
  <2> DEFINE ok(b) == [s \in Stage |-> IF s \in DoneAtStart(b) THEN 1 ELSE 0]
             row(b) == [row    |-> IF StartAt[b] = NotQueued THEN "new" ELSE "live",
                        state  |-> IF StartAt[b] = NotQueued THEN "queued" ELSE StartAt[b],
                        status |-> "none", park |-> NoCode, retry |-> "none",
                        ok     |-> ok(b), open |-> NoRuns]
  <2>1. ASSUME NEW b \in Book PROVE row(b) \in BookRow
    <3>1. ok(b) \in [Stage -> RunCount] /\ NoRuns \in [Stage -> 0..2]
      BY RunCapType, NoRunsType DEF RunCount
    <3>2. StartAt[b] \in State \cup {NotQueued} /\ "queued" \in State
      BY DEF State
    <3> HIDE DEF ok
    <3> QED  BY <3>1, <3>2 DEF BookRow, Status, ParkCode, Retry, NoCode
  <2>2. db = [b \in Book |-> row(b)]
    BY DEF Init
  <2>3. \A b \in Book : row(b).park = NoCode /\ row(b).retry = "none"
    OBVIOUS
  <2> HIDE DEF row
  <2> QED  BY <2>1, <2>2, <2>3 DEF DbOK
<1>2. DiskOK
  <2> DEFINE done(b) == [s \in Stage |-> IF s \in DoneAtStart(b) THEN "main" ELSE "absent"]
             art(b) == (UNION {Outputs(s, "main") : s \in DoneAtStart(b)})
                         \ (IF StartAt[b] = "done" /\ PurgeWanted(b) THEN Reclaimed(KindOf[b]) ELSE {})
  <2>1. ASSUME NEW b \in Book PROVE done(b) \in [Stage -> Mark \cup {"absent"}] /\ art(b) \in SUBSET Artifact
    BY OutputsType DEF Mark
  <2>2. disk = [b \in Book |-> [done |-> done(b), art |-> art(b)]]
    BY DEF Init
  <2> HIDE DEF done, art
  <2> QED  BY <2>1, <2>2 DEF DiskOK, WorkDir
<1>3. WorkerOK
  BY IdleFits DEF Init, WorkerOK, WorkerFits, Running
<1>4. disp = [IdleDisp EXCEPT !.pc = "close"]
  BY DEF Init
<1>5. DispOK
  <2>1. IdleDisp \in DispRec
    BY IdleDispType
  <2>2. disp \in DispRec /\ disp.pc = "close"
    BY <1>4, <2>1 DEF DispRec, DispPc
  <2> QED  BY <2>2 DEF DispOK
<1>6. ClientOK
  BY IdleClientFits DEF Init, ClientOK, ClientFits
<1>7. ghost \in [Book -> GhostRec]
  BY DEF Init, GhostRec
<1>8. budget \in [ops : Nat, faults : Nat, crashes : Nat, starts : Nat]
  BY DEF Init, NoLimit
<1> QED  BY <1>1, <1>2, <1>3, <1>5, <1>6, <1>7, <1>8 DEF Init, TypeOK

LEMMA NextType == TypeOK /\ [Next]_vars => TypeOK'
  BY NextKeepsDb, NextKeepsDisk, NextKeepsWorker, NextKeepsDisp, NextKeepsClient, NextKeepsSets, NextKeepsGhost,
     NextKeepsBudget DEF TypeOK

(* Types: whatever the books, the calls, the faults and the crashes, a     *)
(* park code or a retry instant only stands beside needs_attention, a      *)
(* worker only runs an executable stage and the loop only walks such       *)
(* stages, and a control call keeps its book.                              *)
THEOREM TypeCorrect == Spec => []TypeOK
<1>1. Init => TypeOK
  BY InitType
<1>2. TypeOK /\ [Next]_vars => TypeOK'
  BY NextType
<1> QED  BY <1>1, <1>2, PTL DEF Spec

-----------------------------------------------------------------------------
(* Capacity.  While a pass fills the lanes, what it still has to give plus *)
(* what is held never exceeds a slot's width: between its look at the      *)
(* table and the end of the pass workers only leave.                       *)

FreeIsFree ==
    disp.pc = "fill" => \A l \in Slot : Cardinality(Holders(l)) + disp.free[l] <= SlotCap(l)

CapacityInv == LaneCapacity /\ OneSourceReader /\ FreeIsFree

NoNewWorker == \A b \in Book : Running(b)' => Running(b) /\ worker'[b].stage = worker[b].stage

LEMMA HoldersShrink ==
    ASSUME NoNewWorker
    PROVE  \A l \in Slot : Cardinality(Holders(l))' <= Cardinality(Holders(l)) /\ Cardinality(Holders(l))' \in Nat
<1>1. ASSUME NEW l \in Slot
      PROVE  Cardinality(Holders(l)') <= Cardinality(Holders(l)) /\ Cardinality(Holders(l)') \in Nat
  <2>1. Holders(l)' \subseteq Holders(l)
    BY DEF NoNewWorker, Holders
  <2>2. IsFiniteSet(Holders(l))
    BY CountsType
  <2> QED  BY <2>1, <2>2, FS_Subset, FS_CardinalityType
<1> QED  BY <1>1

LEMMA WorkAddsNoWorker ==
    ASSUME TypeOK, NEW b \in Book, Work(b)
    PROVE  NoNewWorker /\ UNCHANGED disp
<1>0. worker \in [Book -> WorkerRec]
  BY DEF TypeOK, WorkerOK
<1>1. Running(b)
  BY DEF Work, SkipStage, OpenRun, ExecSucceeds, ExecCanceled, ExecFaults, ExecGivesUp, ExecEnds, RecordRun,
         SetFailedOrParked, Advance, Commit, AutoPurgeDone, Running
<1>2. \A c \in Book \ {b} : worker'[c] = worker[c]
  BY <1>0 DEF Work, SkipStage, OpenRun, ExecSucceeds, ExecCanceled, ExecFaults, ExecGivesUp, ExecEnds, RecordRun,
         SetFailedOrParked, Advance, Commit, AutoPurgeDone, Exit, GoTo
<1>a. ASSUME NEW w, worker' = [worker EXCEPT ![b] = w], w.pc = "off" \/ w.stage = worker[b].stage
      PROVE  worker'[b].pc = "off" \/ worker'[b].stage = worker[b].stage
  BY <1>0, <1>a
<1>3. worker'[b].pc = "off" \/ worker'[b].stage = worker[b].stage
  <2> DEFINE r == worker[b]
  <2>0. /\ r \in WorkerRec /\ IdleWorker.pc = "off"
        /\ \A pc, out, next : /\ [r EXCEPT !.pc = pc].stage = r.stage
                             /\ [r EXCEPT !.pc = pc, !.out = out].stage = r.stage
                             /\ [r EXCEPT !.pc = pc, !.next = next].stage = r.stage
    BY <1>0 DEF IdleWorker, WorkerRec
  <2>1. CASE SkipStage(b)
    BY <1>a, <2>0, <2>1 DEF SkipStage
  <2>2. CASE ExecSucceeds(b)
    <3>1. PICK mark : worker' = [worker EXCEPT ![b] = [r EXCEPT !.pc = "ran", !.out = mark]]
      BY <1>0, <2>2 DEF ExecSucceeds
    <3> QED  BY <1>a, <2>0, <3>1
  <2>3. CASE RecordRun(b)
    <3>1. \/ worker' = [worker EXCEPT ![b] = IdleWorker]
          \/ worker' = [worker EXCEPT ![b] = [r EXCEPT !.pc = "advance"]]
          \/ worker' = [worker EXCEPT ![b] = [r EXCEPT !.pc = "failing", !.out = "failed"]]
      BY <1>0, <2>3 DEF RecordRun, GoTo, Exit
    <3> QED  BY <1>a, <2>0, <3>1
  <2>4. CASE Advance(b)
    <3>1. \/ worker' = [worker EXCEPT ![b] = IdleWorker]
          \/ \E next : worker' = [worker EXCEPT ![b] = [r EXCEPT !.pc = "commit", !.next = next]]
          \/ worker' = [worker EXCEPT ![b] = [r EXCEPT !.pc = "failing", !.out = "fix_loop_exhausted"]]
      BY <1>0, <2>4 DEF Advance, Exit
    <3> QED  BY <1>a, <2>0, <3>1
  <2>5. CASE ExecFaults(b) \/ ExecGivesUp(b)
    <3>1. PICK out : worker' = [worker EXCEPT ![b] = [r EXCEPT !.pc = "failing", !.out = out]]
      BY <1>0, <2>5 DEF ExecFaults, ExecGivesUp, ExecEnds
    <3> QED  BY <1>a, <2>0, <3>1
  <2>6. CASE OpenRun(b) \/ Commit(b)
    <3>1. \/ worker' = [worker EXCEPT ![b] = IdleWorker]
          \/ \E pc : worker' = [worker EXCEPT ![b] = [r EXCEPT !.pc = pc]]
      BY <1>0, <2>6 DEF OpenRun, Commit, GoTo, Exit
    <3> QED  BY <1>a, <2>0, <3>1
  <2>7. CASE ExecCanceled(b) \/ SetFailedOrParked(b) \/ AutoPurgeDone(b)
    BY <1>a, <2>0, <2>7 DEF ExecCanceled, SetFailedOrParked, AutoPurgeDone, Exit
  <2> QED  BY <2>1, <2>2, <2>3, <2>4, <2>5, <2>6, <2>7 DEF Work
<1>4. NoNewWorker
  BY <1>0, <1>1, <1>2, <1>3 DEF NoNewWorker, Running
<1>5. UNCHANGED disp
  BY DEF Work, WorkerOnly, SkipStage, OpenRun, ExecSucceeds, ExecCanceled, ExecFaults, ExecGivesUp, ExecEnds,
         RecordRun, SetFailedOrParked, Advance, Commit, AutoPurgeDone
<1> QED  BY <1>4, <1>5

LEMMA HandleAddsNoWorker ==
    ASSUME TypeOK, NEW c \in Client, Handle(c)
    PROVE  NoNewWorker /\ UNCHANGED disp
<1>0. worker \in [Book -> WorkerRec]
  BY DEF TypeOK, WorkerOK
<1>1. UNCHANGED disp
  BY DEF Handle, ClientOnly, WriteStatus, Signal, DropSentinel, ClearStatus, DeleteRow, WipeDir,
              ReserveForPurge, PurgeDirs, PurgeSentinels, PurgeReconcile, PurgePlace, Unreserve, Terminate,
              CloseOrphan, DropForRerun, RerunPlace
<1>2. CASE Signal(c)
  <2> DEFINE b == client[c].book
             w == [worker[b] EXCEPT !.cancelled = TRUE]
  <2>1. b \in Book
    BY <1>2 DEF Signal, TypeOK, ClientOK
  <2>2. w.pc = worker[b].pc /\ w.stage = worker[b].stage
    BY <1>0, <2>1 DEF WorkerRec
  <2>3. UNCHANGED worker \/ worker' = [worker EXCEPT ![b] = w]
    BY <1>0, <1>2, <2>1 DEF Signal, CancelInflight
  <2> HIDE DEF w
  <2>4. \A x \in Book : worker'[x].pc = worker[x].pc /\ worker'[x].stage = worker[x].stage
    BY <1>0, <2>1, <2>2, <2>3
  <2> QED  BY <1>1, <2>4 DEF NoNewWorker, Running
<1>3. CASE ~Signal(c)
  <2>1. UNCHANGED worker
    BY <1>3 DEF Handle, WriteStatus, DropSentinel, ClearStatus, DeleteRow, WipeDir, ReserveForPurge,
                      PurgeDirs, PurgeSentinels, PurgeReconcile, PurgePlace, Unreserve, Terminate, CloseOrphan,
                      DropForRerun, RerunPlace
  <2> QED  BY <1>1, <2>1 DEF NoNewWorker, Running
<1> QED  BY <1>2, <1>3

(* Every step but the start of a worker adds none, and every one but the   *)
(* look at the table leaves the free counts of a running pass alone.       *)
LEMMA OnlyStartAdds ==
    ASSUME TypeOK, [Next]_vars, \A b \in Book : ~StartWorker(b)
    PROVE  /\ NoNewWorker
           /\ disp'.pc = "fill" => \/ disp.pc = "fill" /\ disp'.free = disp.free
                                   \/ Collect
<1>0. worker \in [Book -> WorkerRec] /\ DispOK /\ disp \in DispRec
  BY DEF TypeOK, WorkerOK, DispOK
<1>1. CASE UNCHANGED <<worker, disp>>
  BY <1>1 DEF NoNewWorker, Running
<1>2. ASSUME NEW b \in Book, Work(b)
      PROVE  NoNewWorker /\ UNCHANGED disp
  BY <1>2, WorkAddsNoWorker
<1>3. ASSUME NEW c \in Client, Handle(c) PROVE NoNewWorker /\ UNCHANGED disp
  BY <1>3, HandleAddsNoWorker
<1>4. CASE Dispatch
  <2>1. UNCHANGED worker
    BY <1>4 DEF Dispatch, StartPass, ReadmitDue, ClearDue, ListBooks, PromoteWaypoint, Collect, SkipCandidate,
                EndPass
  <2>2. NoNewWorker
    BY <2>1 DEF NoNewWorker, Running
  <2>3. CASE \E b \in Book : SkipCandidate(b)
    <3>1. PICK b \in Book : disp' = [disp EXCEPT !.todo = @ \ {b}]
      BY <2>3 DEF SkipCandidate
    <3> QED  BY <1>0, <2>2, <3>1 DEF DispRec
  <2>4. CASE EndPass
    BY <2>2, <2>4 DEF EndPass, IdleDisp
  <2>5. CASE StartPass \/ ClearDue \/ ListBooks
    BY <1>0, <2>2, <2>5 DEF StartPass, ClearDue, ListBooks, DispRec
  <2>6. CASE \E b \in Book : ReadmitDue(b) \/ PromoteWaypoint(b)
    <3>1. CASE \E b \in Book : ReadmitDue(b)
      <4>1. disp'.pc \in {"due", "clear"}
        BY <1>0, <3>1 DEF ReadmitDue, DispRec
      <4> QED  BY <2>2, <4>1
    <3>2. CASE \E b \in Book : PromoteWaypoint(b)
      <4>1. disp'.pc = "waypoints"
        BY <1>0, <3>2 DEF PromoteWaypoint, DispRec
      <4> QED  BY <2>2, <4>1
    <3> QED  BY <2>6, <3>1, <3>2
  <2> QED  BY <1>4, <2>2, <2>3, <2>4, <2>5, <2>6 DEF Dispatch
<1>5. CASE Start
  <2>1. UNCHANGED worker
    BY <1>5 DEF Start, ListOpenRuns, CloseRuns, ListForReconcile, SupersedeLost, PlaceRewound, StartGC, Recheck,
                ClearRechecked, Started
  <2>2. disp'.pc # "fill"
    <3>1. CASE ListForReconcile
      BY <1>0, <3>1 DEF ListForReconcile, DispRec
    <3>7. CASE ListOpenRuns
      <4>1. \E todo : disp' = [disp EXCEPT !.pc = "list", !.todo = todo]
        BY <3>7 DEF ListOpenRuns
      <4> QED  BY <1>0, <4>1 DEF DispRec
    <3>8. ASSUME NEW b \in Book, CloseRuns(b) PROVE disp'.pc # "fill"
      BY <1>0, <3>8 DEF CloseRuns, Dead, IdleDisp, DispRec
    <3>9. CASE PlaceRewound
      BY <1>0, <3>9 DEF PlaceRewound, Dead, IdleDisp, DispRec
    <3>2. ASSUME NEW b \in Book, SupersedeLost(b) PROVE disp'.pc # "fill"
      <4>1. \/ disp' = [disp EXCEPT !.todo = @ \ {b}]
            \/ \E s : disp' = [disp EXCEPT !.pc = "place", !.todo = @ \ {b}, !.book = b, !.stage = s]
        BY <3>2 DEF SupersedeLost
      <4>2. disp.pc = "rewind"
        BY <3>2 DEF SupersedeLost
      <4> QED  BY <1>0, <4>1, <4>2 DEF DispRec
    <3>3. CASE StartGC
      <4>1. \E seen, todo : disp' = [disp EXCEPT !.pc = "recheck", !.seen = seen, !.todo = todo]
        BY <3>3 DEF StartGC
      <4> QED  BY <1>0, <4>1 DEF DispRec
    <3>4. ASSUME NEW b \in Book, Recheck(b) PROVE disp'.pc # "fill"
      BY <1>0, <3>4 DEF Recheck, DispRec
    <3>5. CASE ClearRechecked
      BY <1>0, <3>5 DEF ClearRechecked, DispRec
    <3>6. CASE Started
      BY <3>6 DEF Started, IdleDisp
    <3> QED  BY <1>5, <3>1, <3>2, <3>3, <3>4, <3>5, <3>6, <3>7, <3>8, <3>9 DEF Start
  <2> QED  BY <2>1, <2>2 DEF NoNewWorker, Running
<1>6. CASE Crash \/ Restart
  <2>1. worker' = [b \in Book |-> IdleWorker] /\ disp' = [IdleDisp EXCEPT !.pc = "close"]
    BY <1>6 DEF Crash, Restart, Reboot
  <2> QED  BY <2>1 DEF NoNewWorker, Running, IdleWorker, IdleDisp
<1>7. CASE Shutdown
  <2>1. disp'.pc # "fill"
    BY <1>7 DEF Shutdown, IdleDisp
  <2>2. worker' = [b \in Book |-> IF Running(b) THEN [worker[b] EXCEPT !.cancelled = TRUE] ELSE worker[b]]
    BY <1>7 DEF Shutdown
  <2>3. \A b \in Book : worker'[b].pc = worker[b].pc /\ worker'[b].stage = worker[b].stage
    BY <1>0, <2>2 DEF WorkerRec
  <2> QED  BY <2>1, <2>3 DEF NoNewWorker, Running
<1>8. CASE \/ UNCHANGED vars
           \/ \E b \in Book : StartupGC(b) \/ TimePasses(b) \/ Enqueue(b)
           \/ \E c \in Client, b \in Book, op \in OpName, s \in Stage \cup {NoState} : Call(c, op, b, s)
  BY <1>8, <1>1 DEF StartupGC, TimePasses, Enqueue, Call, vars
<1> QED  BY <1>2, <1>3, <1>4, <1>5, <1>6, <1>7, <1>8 DEF Next, ClientSteps

LEMMA CapacityStep ==
    ASSUME TypeOK, CapacityInv, [Next]_vars
    PROVE  CapacityInv'
<1> DEFINE Held(l) == Cardinality(Holders(l))
<1>0. /\ \A l \in Slot : Held(l) \in Nat /\ SlotCap(l) \in Nat /\ IsFiniteSet(Holders(l))
      /\ disp \in DispRec /\ disp.free \in [Slot -> Int] /\ worker \in [Book -> WorkerRec]
  BY CountsType DEF TypeOK, DispOK, DispRec, WorkerOK
<1>1. \A l \in Slot : Held(l) <= SlotCap(l)
  BY DEF CapacityInv, LaneCapacity, OneSourceReader, Slot
<1>2. ASSUME \A l \in Slot : Held(l)' <= SlotCap(l), FreeIsFree' PROVE CapacityInv'
  BY <1>2 DEF CapacityInv, LaneCapacity, OneSourceReader, Slot
<1>3. CASE \A b \in Book : ~StartWorker(b)
  <2>1. NoNewWorker
    BY <1>3, OnlyStartAdds
  <2>2. \A l \in Slot : Held(l)' <= Held(l) /\ Held(l)' \in Nat
    BY <2>1, HoldersShrink
  <2>3. \A l \in Slot : Held(l)' <= SlotCap(l)
    BY <1>0, <1>1, <2>2
  <2>4. CASE Collect
    <3>1. \A l \in Slot : disp'.free[l] = SlotCap(l) - Held(l)
      BY <1>0, <2>4 DEF Collect, DispRec
    <3>2. \A l \in Slot : Held(l)' + disp'.free[l] <= SlotCap(l)
      BY <1>0, <2>2, <3>1
    <3> QED  BY <1>2, <2>3, <3>2 DEF FreeIsFree
  <2>5. CASE disp.pc = "fill" /\ disp'.free = disp.free
    <3>1. \A l \in Slot : Held(l) + disp.free[l] <= SlotCap(l)
      BY <2>5 DEF CapacityInv, FreeIsFree
    <3>2. \A l \in Slot : disp.free[l] \in Int
      BY <1>0
    <3>3. \A l \in Slot : Held(l)' + disp.free[l] <= SlotCap(l)
      BY <1>0, <2>2, <3>1, <3>2
    <3> QED  BY <1>2, <2>3, <2>5, <3>3 DEF FreeIsFree
  <2>6. CASE disp'.pc # "fill"
    BY <1>2, <2>3, <2>6 DEF FreeIsFree
  <2> QED  BY <1>3, <2>4, <2>5, <2>6, OnlyStartAdds
<1>4. ASSUME NEW b \in Book, StartWorker(b) PROVE CapacityInv'
  <2> DEFINE s == disp.seen[b].state
  <2>1. ~Running(b) /\ disp.pc = "fill" /\ HasRoom(s) /\ disp' = [disp EXCEPT !.todo = @ \ {b}, !.free = TakeSlots(@, s)]
    BY <1>4 DEF StartWorker, InFlight
  <2>2. worker' = [worker EXCEPT ![b] = [IdleWorker EXCEPT !.pc = "begin", !.stage = s]]
    BY <1>4 DEF StartWorker
  <2>3. /\ Running(b)' /\ worker'[b].stage = s
        /\ \A c \in Book \ {b} : worker'[c] = worker[c]
    BY <1>0, <2>2 DEF Running, IdleWorker
  <2>4. ASSUME NEW l \in Slot
        PROVE  Held(l)' = (IF UsesSlot(s, l) THEN Held(l) + 1 ELSE Held(l))
    <3>1. CASE UsesSlot(s, l)
      <4>1. Holders(l)' = Holders(l) \cup {b} /\ b \notin Holders(l)
        BY <2>1, <2>3, <3>1 DEF Holders, Running
      <4> QED  BY <1>0, <3>1, <4>1, FS_AddElement
    <3>2. CASE ~UsesSlot(s, l)
      <4>1. Holders(l)' = Holders(l)
        BY <2>1, <2>3, <3>2 DEF Holders, Running
      <4> QED  BY <3>2, <4>1
    <3> QED  BY <3>1, <3>2
  <2>5. \A l \in Slot : disp'.free[l] = (IF UsesSlot(s, l) THEN disp.free[l] - 1 ELSE disp.free[l])
    BY <1>0, <2>1 DEF TakeSlots, DispRec
  <2>6. \A l \in Slot : disp.free[l] \in Int /\ Held(l) + disp.free[l] <= SlotCap(l)
    BY <1>0, <2>1 DEF CapacityInv, FreeIsFree
  <2>7. \A l \in Slot : UsesSlot(s, l) => disp.free[l] > 0
    BY <2>1 DEF HasRoom
  <2>8. \A l \in Slot : Held(l)' <= SlotCap(l) /\ Held(l)' + disp'.free[l] <= SlotCap(l)
    BY <1>0, <1>1, <2>4, <2>5, <2>6, <2>7
  <2> QED  BY <1>2, <2>8 DEF FreeIsFree
<1> QED  BY <1>3, <1>4

LEMMA CapacityStart == Init => CapacityInv
<1> SUFFICES ASSUME Init PROVE CapacityInv
  OBVIOUS
<1>1. \A l \in Slot : Holders(l) = {}
  BY DEF Init, Holders, Running, IdleWorker
<1>2. \A l \in Slot : Cardinality(Holders(l)) = 0 /\ SlotCap(l) \in Nat
  BY <1>1, FS_EmptySet, CountsType
<1>3. FreeIsFree
  BY DEF Init, FreeIsFree, IdleDisp
<1> QED  BY <1>2, <1>3 DEF CapacityInv, LaneCapacity, OneSourceReader, Slot

LEMMA CapacityHolds == Spec => []CapacityInv
<1>1. Init => TypeOK /\ CapacityInv
  BY InitType, CapacityStart
<1>2. (TypeOK /\ CapacityInv) /\ [Next]_vars => (TypeOK /\ CapacityInv)'
  BY NextType, CapacityStep
<1> QED  BY <1>1, <1>2, PTL DEF Spec

(* No lane ever runs more workers than it has slots, for any number of     *)
(* books and any agent width, although a pass fills the lanes from counts  *)
(* taken before the first start and workers come and go meanwhile          *)
(* (dispatch, fillLane).                                                   *)
THEOREM LanesNeverOverfilled == Spec => []LaneCapacity
<1>1. CapacityInv => LaneCapacity
  BY DEF CapacityInv
<1> QED  BY <1>1, CapacityHolds, PTL

(* Two workers never read the library mount together: the source slot is   *)
(* taken beside, not instead of, a mechanical one (fillMechanicalLane).    *)
THEOREM SourceReadAlone == Spec => []OneSourceReader
<1>1. CapacityInv => OneSourceReader
  BY DEF CapacityInv
<1> QED  BY <1>1, CapacityHolds, PTL

-----------------------------------------------------------------------------
(* The in-flight table excludes. *)

NoNewPurge == \A c \in Client, b \in Book : Purging(c, b)' => Purging(c, b)

LEMMA QuietStep ==
    ASSUME SlotExclusion, NoNewWorker, NoNewPurge, UNCHANGED reserved,
           disp'.pc = "clear" => UNCHANGED disp
    PROVE  SlotExclusion'
  BY DEF SlotExclusion, NoNewWorker, NoNewPurge

LEMMA HandleAddsNoPurge ==
    ASSUME TypeOK, NEW c \in Client, Handle(c), ~ReserveForPurge(c)
    PROVE  NoNewPurge
<1> DEFINE r == client[c]
           PurgingPc == PurgePc \cup {"place"}
<1>0. /\ client \in [Client -> ClientRec] /\ r \in ClientRec
      /\ r.pc \in PurgePc => r.op = "purge"
      /\ r.pc = "place" => r.op \in {"purge", "rerun"}
  BY DEF TypeOK, ClientOK
<1>1. ASSUME NEW r2, client' = [client EXCEPT ![c] = r2],
             r2.pc \notin PurgingPc \/ r2.op # "purge" \/ (r.pc \in PurgingPc /\ r2.op = r.op /\ r2.book = r.book)
      PROVE  NoNewPurge
  BY <1>0, <1>1 DEF NoNewPurge, Purging
<1>2. ASSUME Return(c) PROVE NoNewPurge
  BY <1>1, <1>2 DEF Return, IdleClient, PurgePc
<1>3. ASSUME NEW pc, Then(c, pc), pc \notin PurgingPc PROVE NoNewPurge
  <2>1. [r EXCEPT !.pc = pc].pc = pc
    BY <1>0 DEF ClientRec
  <2>2. client' = [client EXCEPT ![c] = [r EXCEPT !.pc = pc]]
    BY <1>0, <1>3 DEF Then
  <2> QED  BY <1>1, <1>3, <2>1, <2>2
<1>4. ASSUME NEW pc, NEW s, r.pc \in PurgingPc,
             client' = [client EXCEPT ![c] = [r EXCEPT !.pc = pc, !.stage = s]] \/ Then(c, pc)
      PROVE  NoNewPurge
  <2>1. /\ [r EXCEPT !.pc = pc, !.stage = s].op = r.op /\ [r EXCEPT !.pc = pc, !.stage = s].book = r.book
        /\ [r EXCEPT !.pc = pc].op = r.op /\ [r EXCEPT !.pc = pc].book = r.book
    BY <1>0 DEF ClientRec
  <2>2. CASE Then(c, pc)
    <3>1. client' = [client EXCEPT ![c] = [r EXCEPT !.pc = pc]]
      BY <1>0, <2>2 DEF Then
    <3> QED  BY <1>1, <1>4, <2>1, <3>1
  <2>3. CASE client' = [client EXCEPT ![c] = [r EXCEPT !.pc = pc, !.stage = s]]
    BY <1>1, <1>4, <2>1, <2>3
  <2> QED  BY <1>4, <2>2, <2>3
<1>5. CASE WriteStatus(c)
  <2>1. Return(c) \/ Then(c, "signal")
    BY <1>5 DEF WriteStatus
  <2> QED  BY <2>1, <1>2, <1>3 DEF PurgePc
<1>6. CASE Signal(c)
  <2>1. Return(c) \/ Then(c, "drop")
    BY <1>6 DEF Signal
  <2> QED  BY <2>1, <1>2, <1>3 DEF PurgePc
<1>7. CASE DropSentinel(c)
  BY <1>7, <1>3 DEF DropSentinel, PurgePc
<1>8. CASE ClearStatus(c) \/ WipeDir(c) \/ Unreserve(c) \/ RerunPlace(c)
  BY <1>8, <1>2 DEF ClearStatus, WipeDir, Unreserve, RerunPlace
<1>9. CASE DeleteRow(c)
  <2>1. Return(c) \/ Then(c, "wipe")
    BY <1>9 DEF DeleteRow
  <2> QED  BY <2>1, <1>2, <1>3 DEF PurgePc
<1>10. CASE PurgeDirs(c) \/ PurgeSentinels(c)
  <2>1. r.pc \in PurgingPc
    BY <1>10 DEF PurgeDirs, PurgeSentinels, PurgePc
  <2>2. Then(c, "sentinels") \/ Then(c, "release") \/ Then(c, "reconcile")
    BY <1>10 DEF PurgeDirs, PurgeSentinels
  <2> QED  BY <2>1, <2>2, <1>4
<1>11. CASE PurgeReconcile(c)
  <2>1. r.pc \in PurgingPc
    BY <1>11 DEF PurgeReconcile, PurgePc
  <2>2. \/ Then(c, "release")
        \/ \E s : client' = [client EXCEPT ![c] = [r EXCEPT !.pc = "place", !.stage = s]]
    BY <1>0, <1>11 DEF PurgeReconcile
  <2> QED  BY <2>1, <2>2, <1>4
<1>12. CASE PurgePlace(c)
  BY <1>12, <1>4 DEF PurgePlace, At
<1>13. CASE Terminate(c)
  <2>1. Then(c, "signal") \/ Then(c, "orphan")
    BY <1>13 DEF Terminate
  <2> QED  BY <2>1, <1>3 DEF PurgePc
<1>14. CASE CloseOrphan(c)
  <2>1. Return(c) \/ Then(c, "clear")
    BY <1>14 DEF CloseOrphan
  <2> QED  BY <2>1, <1>2, <1>3 DEF PurgePc
<1>15. CASE DropForRerun(c)
  <2>1. r.op = "rerun" /\ client' = [client EXCEPT ![c] = [r EXCEPT !.pc = "place"]]
    BY <1>0, <1>15 DEF DropForRerun, At, Then
  <2>2. [r EXCEPT !.pc = "place"].op = "rerun"
    BY <1>0, <2>1 DEF ClientRec
  <2> QED  BY <1>1, <2>1, <2>2
<1> QED
  BY <1>5, <1>6, <1>7, <1>8, <1>9, <1>10, <1>11, <1>12, <1>13, <1>14, <1>15 DEF Handle

LEMMA HandleKeepsSlots ==
    ASSUME TypeOK, SlotExclusion, NEW c \in Client, Handle(c)
    PROVE  SlotExclusion'
<1> DEFINE b == client[c].book
<1>0. /\ client \in [Client -> ClientRec]
      /\ client[c].pc # "idle" => b \in Book
      /\ client[c].pc \in {"reserve"} \cup PurgePc => client[c].op = "purge"
  BY DEF TypeOK, ClientOK
<1>1. UNCHANGED disp
  BY DEF Handle, ClientOnly, WriteStatus, Signal, DropSentinel, ClearStatus, DeleteRow, WipeDir,
         ReserveForPurge, PurgeDirs, PurgeSentinels, PurgeReconcile, PurgePlace, Unreserve, Terminate,
         CloseOrphan, DropForRerun, RerunPlace
<1>2. NoNewWorker
  BY HandleAddsNoWorker
<1>3. CASE ReserveForPurge(c)
  <2>1. CASE InFlight(b)
    <3>1. UNCHANGED reserved /\ client' = [client EXCEPT ![c] = IdleClient]
      BY <1>3, <2>1 DEF ReserveForPurge, Return
    <3>2. NoNewPurge
      BY <1>0, <3>1 DEF NoNewPurge, Purging, IdleClient, PurgePc
    <3> QED  BY <1>1, <1>2, <3>1, <3>2, QuietStep
  <2>2. CASE ~InFlight(b)
    <3>1. /\ reserved' = reserved \cup {b} /\ UNCHANGED worker
          /\ client' = [client EXCEPT ![c] = [client[c] EXCEPT !.pc = "dirs"]]
      BY <1>0, <1>3, <2>2 DEF ReserveForPurge, Then
    <3>2. b \in Book /\ ~Running(b) /\ b \notin reserved
      BY <1>0, <1>3, <2>2 DEF ReserveForPurge, InFlight
    <3>3. \A d \in Client : ~Purging(d, b)
      BY <3>2 DEF SlotExclusion
    <3>4. [client[c] EXCEPT !.pc = "dirs"].book = b
      BY <1>0 DEF ClientRec
    <3>5. \A d \in Client, x \in Book : Purging(d, x)' => Purging(d, x) \/ (d = c /\ x = b)
      BY <1>0, <3>1, <3>4 DEF Purging
    <3> QED  BY <1>1, <3>1, <3>2, <3>3, <3>5 DEF SlotExclusion, Running
  <2> QED  BY <2>1, <2>2
<1>4. CASE Unreserve(c)
  <2>1. reserved' = reserved \ {b} /\ client' = [client EXCEPT ![c] = IdleClient] /\ UNCHANGED worker
    BY <1>4 DEF Unreserve, Return
  <2>2. Purging(c, b) /\ b \in Book
    BY <1>0, <1>4 DEF Unreserve, Purging, PurgePc
  <2>3. \A d \in Client \ {c} : ~Purging(d, b)
    BY <2>2 DEF SlotExclusion
  <2>4. \A d \in Client, x \in Book : Purging(d, x)' => d # c /\ Purging(d, x)
    BY <1>0, <2>1 DEF Purging, IdleClient, PurgePc
  <2> QED  BY <1>1, <2>1, <2>2, <2>3, <2>4 DEF SlotExclusion, Running
<1>5. CASE ~ReserveForPurge(c) /\ ~Unreserve(c)
  <2>1. UNCHANGED reserved
    BY <1>5 DEF Handle, WriteStatus, Signal, DropSentinel, ClearStatus, DeleteRow, WipeDir, PurgeDirs,
                PurgeSentinels, PurgeReconcile, PurgePlace, Terminate, CloseOrphan, DropForRerun, RerunPlace
  <2>2. NoNewPurge
    BY <1>5, HandleAddsNoPurge
  <2> QED  BY <1>1, <1>2, <2>1, <2>2, QuietStep
<1> QED  BY <1>3, <1>4, <1>5

LEMMA ExclusionStep ==
    ASSUME TypeOK, SlotExclusion, [Next]_vars
    PROVE  SlotExclusion'
<1>0. /\ worker \in [Book -> WorkerRec] /\ disp \in DispRec /\ client \in [Client -> ClientRec]
      /\ disp.pc = "clear" => disp.book \in Book
  BY DEF TypeOK, WorkerOK, DispOK, ClientOK
<1>1. ASSUME UNCHANGED client PROVE NoNewPurge
  BY <1>1 DEF NoNewPurge, Purging
<1>2. ASSUME NEW b \in Book, StartWorker(b) PROVE SlotExclusion'
  <2>1. ~InFlight(b) /\ worker' = [worker EXCEPT ![b] = [IdleWorker EXCEPT !.pc = "begin", !.stage = disp.seen[b].state]]
    BY <1>2 DEF StartWorker
  <2>2. UNCHANGED <<client, reserved>> /\ disp'.pc = "fill"
    BY <1>0, <1>2 DEF StartWorker, DispRec
  <2>3. \A x \in Book : Running(x)' => Running(x) \/ x = b
    BY <1>0, <2>1 DEF Running
  <2>4. b \notin reserved
    BY <2>1 DEF InFlight
  <2> QED  BY <2>2, <2>3, <2>4 DEF SlotExclusion, Purging
<1>3. ASSUME NEW b \in Book, ReadmitDue(b) PROVE SlotExclusion'
  <2>1. UNCHANGED <<client, worker>>
    BY <1>3 DEF ReadmitDue, DispOnly
  <2>2. CASE InFlight(b)
    <3>1. UNCHANGED reserved /\ disp'.pc = "due"
      BY <1>0, <1>3, <2>2 DEF ReadmitDue, DispRec
    <3>2. NoNewWorker
      BY <2>1 DEF NoNewWorker, Running
    <3> QED  BY <1>1, <2>1, <3>1, <3>2, QuietStep
  <2>3. CASE ~InFlight(b)
    <3>1. reserved' = reserved \cup {b} /\ disp'.pc = "clear" /\ disp'.book = b
      BY <1>0, <1>3, <2>3 DEF ReadmitDue, DispRec
    <3>2. ~Running(b) /\ b \notin reserved
      BY <2>3 DEF InFlight
    <3>3. \A c \in Client : ~Purging(c, b)
      BY <3>2 DEF SlotExclusion
    <3> QED  BY <2>1, <3>1, <3>2, <3>3 DEF SlotExclusion, Purging, Running
  <2> QED  BY <2>2, <2>3
<1>4. CASE ClearDue
  <2>1. /\ UNCHANGED <<client, worker>> /\ reserved' = reserved \ {disp.book}
        /\ disp'.pc = "due" /\ disp.pc = "clear" /\ disp.book \in Book
    BY <1>0, <1>4 DEF ClearDue, DispOnly, DispRec
  <2>2. \A c \in Client : ~Purging(c, disp.book)
    BY <2>1 DEF SlotExclusion
  <2> QED  BY <2>1, <2>2 DEF SlotExclusion, Purging, Running
<1>5. CASE Crash \/ Restart
  <2>1. /\ worker' = [b \in Book |-> IdleWorker] /\ reserved' = {}
        /\ client' = [c \in Client |-> IdleClient] /\ disp' = [IdleDisp EXCEPT !.pc = "close"]
    BY <1>5 DEF Crash, Restart, Reboot
  <2>2. (\A b \in Book : ~Running(b)') /\ disp'.pc = "close"
    BY <2>1 DEF Running, IdleWorker, IdleDisp
  <2>3. \A b \in Book, c \in Client : ~Purging(c, b)'
    BY <2>1 DEF Purging, IdleClient, PurgePc
  <2> QED  BY <2>2, <2>3 DEF SlotExclusion
<1>6. CASE Shutdown
  <2>1. UNCHANGED client /\ disp'.pc = "stopping"
    BY <1>6 DEF Shutdown, IdleDisp
  <2>2. worker' = [b \in Book |-> IF Running(b) THEN [worker[b] EXCEPT !.cancelled = TRUE] ELSE worker[b]]
    BY <1>6 DEF Shutdown
  <2>3. \A b \in Book : worker'[b].pc = worker[b].pc
    BY <1>0, <2>2 DEF WorkerRec
  <2>4. /\ reserved' \subseteq reserved
        /\ \A b \in Book, c \in Client : Purging(c, b) /\ b \in reserved => b \in reserved'
    BY <1>0, <1>6 DEF Shutdown, SlotExclusion
  <2> QED  BY <2>1, <2>3, <2>4 DEF SlotExclusion, Purging, Running
<1>7. ASSUME NEW c \in Client, NEW b \in Book, NEW op \in OpName, NEW s \in Stage \cup {NoState},
             Call(c, op, b, s)
      PROVE  SlotExclusion'
  <2> DEFINE r == [pc |-> FirstStep(op), op |-> op, book |-> b, seen |-> View(b), stage |-> s]
  <2>1. client' = [client EXCEPT ![c] = r] /\ UNCHANGED <<worker, reserved, disp>>
    BY <1>7 DEF Call
  <2>2. r.pc \notin PurgePc \cup {"place"}
    BY DEF FirstStep, OpName, PurgePc
  <2> HIDE DEF r
  <2>3. NoNewPurge
    BY <1>0, <2>1, <2>2 DEF NoNewPurge, Purging
  <2>4. NoNewWorker
    BY <2>1 DEF NoNewWorker, Running
  <2> QED  BY <2>1, <2>3, <2>4, QuietStep
<1>8. ASSUME NEW b \in Book, Work(b) PROVE SlotExclusion'
  <2>1. UNCHANGED <<reserved, client>>
    BY <1>8 DEF Work, WorkerOnly, SkipStage, OpenRun, ExecSucceeds, ExecCanceled, ExecFaults, ExecGivesUp, ExecEnds,
                RecordRun, SetFailedOrParked, Advance, Commit, AutoPurgeDone
  <2> QED  BY <1>1, <1>8, <2>1, WorkAddsNoWorker, QuietStep
<1>9. CASE \/ StartPass \/ ListBooks \/ Collect \/ EndPass
           \/ \E b \in Book : PromoteWaypoint(b) \/ SkipCandidate(b)
  <2>1. UNCHANGED <<reserved, client, worker>>
    BY <1>9 DEF DispOnly, StartPass, ListBooks, Collect, EndPass, PromoteWaypoint, SkipCandidate
  <2>2. disp'.pc # "clear"
    <3>1. CASE StartPass \/ ListBooks \/ Collect
      BY <1>0, <3>1 DEF StartPass, ListBooks, Collect, DispRec
    <3>4. CASE EndPass
      BY <3>4 DEF EndPass, IdleDisp
    <3>2. ASSUME NEW b \in Book, PromoteWaypoint(b) PROVE disp'.pc # "clear"
      BY <1>0, <3>2 DEF PromoteWaypoint, DispRec
    <3>3. ASSUME NEW b \in Book, SkipCandidate(b) PROVE disp'.pc # "clear"
      BY <1>0, <3>3 DEF SkipCandidate, DispRec
    <3> QED  BY <1>9, <3>1, <3>2, <3>3, <3>4
  <2>3. NoNewWorker
    BY <2>1 DEF NoNewWorker, Running
  <2> QED  BY <1>1, <2>1, <2>2, <2>3, QuietStep
<1>10. CASE Start
  <2>1. UNCHANGED <<reserved, client, worker>>
    BY <1>10 DEF Start, DispOnly, ListOpenRuns, CloseRuns, ListForReconcile, SupersedeLost, PlaceRewound,
                 StartGC, Recheck,
                 ClearRechecked, Started
  <2>2. disp'.pc # "clear"
    <3>1. CASE ListForReconcile \/ ClearRechecked
      BY <1>0, <3>1 DEF ListForReconcile, ClearRechecked, DispRec
    <3>7. CASE ListOpenRuns
      <4>1. \E todo : disp' = [disp EXCEPT !.pc = "list", !.todo = todo]
        BY <3>7 DEF ListOpenRuns
      <4> QED  BY <1>0, <4>1 DEF DispRec
    <3>8. ASSUME NEW b \in Book, CloseRuns(b) PROVE disp'.pc # "clear"
      BY <1>0, <3>8 DEF CloseRuns, Dead, IdleDisp, DispRec
    <3>9. CASE PlaceRewound
      BY <1>0, <3>9 DEF PlaceRewound, Dead, IdleDisp, DispRec
    <3>2. ASSUME NEW b \in Book, SupersedeLost(b) PROVE disp'.pc # "clear"
      <4>1. \/ disp' = [disp EXCEPT !.todo = @ \ {b}]
            \/ \E s : disp' = [disp EXCEPT !.pc = "place", !.todo = @ \ {b}, !.book = b, !.stage = s]
        BY <3>2 DEF SupersedeLost
      <4>2. disp.pc = "rewind"
        BY <3>2 DEF SupersedeLost
      <4> QED  BY <1>0, <4>1, <4>2 DEF DispRec
    <3>3. CASE StartGC
      <4>1. \E seen, todo : disp' = [disp EXCEPT !.pc = "recheck", !.seen = seen, !.todo = todo]
        BY <3>3 DEF StartGC
      <4> QED  BY <1>0, <4>1 DEF DispRec
    <3>4. ASSUME NEW b \in Book, Recheck(b) PROVE disp'.pc # "clear"
      BY <1>0, <3>4 DEF Recheck, DispRec
    <3>5. CASE Started
      BY <3>5 DEF Started, IdleDisp
    <3> QED  BY <1>10, <3>1, <3>2, <3>3, <3>4, <3>5, <3>7, <3>8, <3>9 DEF Start
  <2>3. NoNewWorker
    BY <2>1 DEF NoNewWorker, Running
  <2> QED  BY <1>1, <2>1, <2>2, <2>3, QuietStep
<1>11. CASE UNCHANGED vars \/ \E b \in Book : StartupGC(b) \/ TimePasses(b) \/ Enqueue(b)
  <2>1. UNCHANGED <<reserved, client, worker, disp>>
    BY <1>11 DEF vars, StartupGC, TimePasses, Enqueue
  <2>2. NoNewWorker
    BY <2>1 DEF NoNewWorker, Running
  <2> QED  BY <1>1, <2>1, <2>2, QuietStep
<1>12. CASE Dispatch
  BY <1>2, <1>3, <1>4, <1>9, <1>12 DEF Dispatch
<1> QED
  BY <1>5, <1>6, <1>7, <1>8, <1>10, <1>11, <1>12, HandleKeepsSlots DEF Next, ClientSteps

(* The slot excludes for every set of books and concurrent calls: no step  *)
(* of a worker, a purge, a timed readmission, a shutdown or a restart      *)
(* makes two of them hold one book (startWorker, reserve, unreserve).      *)
THEOREM SlotsExclude == Spec => []SlotExclusion
<1>1. Init => TypeOK /\ SlotExclusion
  <2> SUFFICES ASSUME Init PROVE SlotExclusion
    BY InitType
  <2>1. reserved = {} /\ disp.pc = "close" /\ \A b \in Book : ~Running(b)
    BY DEF Init, IdleDisp, Running, IdleWorker
  <2>2. \A b \in Book, c \in Client : ~Purging(c, b)
    BY DEF Init, Purging, IdleClient, PurgePc
  <2> QED  BY <2>1, <2>2 DEF SlotExclusion
<1>2. (TypeOK /\ SlotExclusion) /\ [Next]_vars => (TypeOK /\ SlotExclusion)'
  BY NextType, ExclusionStep
<1>3. TypeOK /\ SlotExclusion => SlotExclusion
  OBVIOUS
<1> QED  BY <1>1, <1>2, <1>3, PTL DEF Spec

-----------------------------------------------------------------------------
(* A row is deleted only while nothing works on its book. *)

Executing(b) == worker[b].pc \in {"exec", "ran"}

LEMMA RowWrites ==
    ASSUME TypeOK, NEW x \in Book, Live(x)
    PROVE  /\ \A b, status, code, retry : SetBookStatus(b, status, code, retry) => Live(x)'
           /\ \A b, s, status, code : SetBookState(b, s, status, code) => Live(x)'
           /\ \A b, stages : db' = [db EXCEPT ![b] = Supersede(@, stages)] => Live(x)'
           /\ UNCHANGED db => Live(x)'
<1>0. db \in [Book -> BookRow]
  BY DEF TypeOK, DbOK
<1>1. ASSUME NEW b, NEW row, row.row = db[b].row, db' = [db EXCEPT ![b] = row]
      PROVE  Live(x)'
  BY <1>0, <1>1 DEF Live
<1>2. ASSUME NEW b \in Book
      PROVE  /\ \A status, code, retry : WithStatus(db[b], status, code, retry).row = db[b].row
             /\ \A status, code, retry, s :
                   [WithStatus(db[b], status, code, retry) EXCEPT !.state = s].row = db[b].row
             /\ \A stages : Supersede(db[b], stages).row = db[b].row
  BY <1>0 DEF WithStatus, Supersede, BookRow
<1>3. ASSUME NEW b, b \notin Book PROVE \A row : [db EXCEPT ![b] = row] = db
  BY <1>0, <1>3
<1>4. ASSUME NEW b, NEW status, NEW code, NEW retry, SetBookStatus(b, status, code, retry) PROVE Live(x)'
  <2>1. UNCHANGED db \/ db' = [db EXCEPT ![b] = WithStatus(db[b], status, code, retry)]
    BY <1>4 DEF SetBookStatus
  <2>2. CASE b \in Book
    BY <1>1, <1>2, <2>1, <2>2 DEF Live
  <2>3. CASE b \notin Book
    BY <1>3, <2>1, <2>3 DEF Live
  <2> QED  BY <2>2, <2>3
<1>5. ASSUME NEW b, NEW s, NEW status, NEW code, SetBookState(b, s, status, code) PROVE Live(x)'
  <2>1. \/ UNCHANGED db
        \/ db' = [db EXCEPT ![b] = [WithStatus(db[b], status, code, db[b].retry) EXCEPT !.state = s]]
    BY <1>5 DEF SetBookState
  <2> DEFINE row == [WithStatus(db[b], status, code, db[b].retry) EXCEPT !.state = s]
  <2>2. CASE b \in Book
    <3>1. row.row = db[b].row
      BY <1>2, <2>2
    <3> QED  BY <1>1, <2>1, <3>1 DEF Live
  <2>3. CASE b \notin Book
    BY <1>3, <2>1, <2>3 DEF Live
  <2> QED  BY <2>2, <2>3
<1>6. ASSUME NEW b, NEW stages, db' = [db EXCEPT ![b] = Supersede(@, stages)] PROVE Live(x)'
  <2>1. db' = [db EXCEPT ![b] = Supersede(db[b], stages)]
    BY <1>6
  <2>2. CASE b \in Book
    BY <1>1, <1>2, <2>1, <2>2 DEF Live
  <2>3. CASE b \notin Book
    BY <1>3, <2>1, <2>3 DEF Live
  <2> QED  BY <2>2, <2>3
<1> QED  BY <1>4, <1>5, <1>6 DEF Live

LEMMA OnlyDeleteDeletes ==
    ASSUME TypeOK, [Next]_vars, NEW x \in Book, Live(x)
    PROVE  Live(x)' \/ \E c \in Client : DeleteRow(c) /\ client[c].book = x
<1>0. db \in [Book -> BookRow]
  BY DEF TypeOK, DbOK
<1>1. ASSUME NEW b \in Book, NEW row, row.row = db[b].row, db' = [db EXCEPT ![b] = row]
      PROVE  Live(x)'
  BY <1>0, <1>1 DEF Live
<1>2. ASSUME NEW b \in Book, Work(b) PROVE Live(x)'
  <2>1. CASE SetFailedOrParked(b)
    BY <2>1, RowWrites DEF SetFailedOrParked
  <2>2. CASE ~SetFailedOrParked(b)
    <3> DEFINE s == worker[b].stage
               r == db[b]
    <3>1. /\ \A n : [r EXCEPT !.open[s] = n].row = r.row
          /\ \A n, m : [r EXCEPT !.open[s] = n, !.ok[s] = m].row = r.row
          /\ \A n : [r EXCEPT !.state = n].row = r.row
      BY <1>0 DEF BookRow
    <3>2. CASE Commit(b)
      <4>1. UNCHANGED db \/ \E n : db' = [db EXCEPT ![b] = [r EXCEPT !.state = n]]
        BY <1>0, <3>2 DEF Commit
      <4> QED  BY <1>1, <3>1, <4>1, RowWrites
    <3>3. CASE ~Commit(b)
      <4> DEFINE Opened(n) == db' = [db EXCEPT ![b] = [r EXCEPT !.open[s] = n]]
                 Counted(n, m) == db' = [db EXCEPT ![b] = [r EXCEPT !.open[s] = n, !.ok[s] = m]]
      <4>2. CASE OpenRun(b) \/ ExecCanceled(b) \/ ExecFaults(b) \/ ExecGivesUp(b)
        <5>1. UNCHANGED db \/ Opened(Bump(r.open[s], 2)) \/ Opened(Drop(r.open[s]))
          BY <1>0, <4>2 DEF OpenRun, ExecCanceled, ExecFaults, ExecGivesUp, ExecEnds
        <5> QED  BY <1>1, <3>1, <5>1, RowWrites
      <4>3. CASE RecordRun(b)
        <5>1. UNCHANGED db \/ Opened(Drop(r.open[s])) \/ Counted(Drop(r.open[s]), Bump(r.ok[s], RunCap))
          BY <1>0, <4>3 DEF RecordRun
        <5> QED  BY <1>1, <3>1, <5>1, RowWrites
      <4>4. CASE SkipStage(b) \/ ExecSucceeds(b) \/ Advance(b) \/ AutoPurgeDone(b)
        BY <4>4, RowWrites DEF SkipStage, ExecSucceeds, Advance, AutoPurgeDone
      <4> QED  BY <1>2, <2>2, <3>3, <4>2, <4>3, <4>4 DEF Work
    <3> QED  BY <3>2, <3>3
  <2> QED  BY <2>1, <2>2
<1>3. ASSUME NEW c \in Client, Handle(c), ~DeleteRow(c) PROVE Live(x)'
  <2>1. CASE WriteStatus(c) \/ ClearStatus(c) \/ PurgePlace(c) \/ RerunPlace(c)
    BY <2>1, RowWrites DEF WriteStatus, ClearStatus, PurgePlace, RerunPlace
  <2>2. CASE DropSentinel(c) \/ PurgeReconcile(c) \/ DropForRerun(c)
    BY <2>2, RowWrites DEF DropSentinel, DropForReadmit, PurgeReconcile, DropForRerun
  <2>3. CASE CloseOrphan(c)
    <3> DEFINE b == client[c].book
    <3>1. b \in Book
      BY <2>3 DEF CloseOrphan, TypeOK, ClientOK
    <3>2. [db[b] EXCEPT !.open = NoRuns].row = db[b].row
      BY <1>0, <3>1 DEF BookRow
    <3>3. db' = [db EXCEPT ![b] = [db[b] EXCEPT !.open = NoRuns]]
      BY <1>0, <2>3 DEF CloseOrphan
    <3> QED  BY <1>1, <3>1, <3>2, <3>3
  <2>4. CASE \/ Signal(c) \/ WipeDir(c) \/ ReserveForPurge(c) \/ PurgeDirs(c) \/ PurgeSentinels(c)
             \/ Unreserve(c) \/ Terminate(c)
    BY <2>4, RowWrites DEF Signal, WipeDir, ReserveForPurge, PurgeDirs, PurgeSentinels, Unreserve, Terminate
  <2> QED  BY <1>3, <2>1, <2>2, <2>3, <2>4 DEF Handle
<1>4. ASSUME NEW c \in Client, DeleteRow(c) PROVE Live(x)' \/ client[c].book = x
  <2>1. UNCHANGED db \/ \E row : db' = [db EXCEPT ![client[c].book] = row]
    BY <1>4 DEF DeleteRow
  <2> QED  BY <1>0, <2>1 DEF Live
<1>5. CASE Dispatch
  <2>1. CASE ClearDue \/ \E b \in Book : ReadmitDue(b) \/ PromoteWaypoint(b)
    BY <2>1, RowWrites DEF ClearDue, ReadmitDue, DropForReadmit, PromoteWaypoint
  <2>2. CASE StartPass \/ ListBooks \/ Collect \/ EndPass \/ \E b \in Book : StartWorker(b) \/ SkipCandidate(b)
    BY <2>2, RowWrites DEF StartPass, ListBooks, Collect, EndPass, StartWorker, SkipCandidate
  <2> QED  BY <1>5, <2>1, <2>2 DEF Dispatch
<1>6. CASE Start
  <2>1. ASSUME NEW b \in Book, CloseRuns(b) PROVE Live(x)'
    <3>1. [db[b] EXCEPT !.open = NoRuns].row = db[b].row
      BY <1>0 DEF BookRow
    <3> QED  BY <2>1, <3>1, <1>0 DEF CloseRuns, Live
  <2>2. CASE PlaceRewound \/ ClearRechecked \/ \E b \in Book : SupersedeLost(b) \/ Recheck(b)
    BY <2>2, RowWrites DEF PlaceRewound, ClearRechecked, SupersedeLost, Recheck, DropForReadmit
  <2>3. CASE ListOpenRuns \/ ListForReconcile \/ StartGC \/ Started
    BY <2>3, RowWrites DEF ListOpenRuns, ListForReconcile, StartGC, Started
  <2> QED  BY <1>6, <2>1, <2>2, <2>3 DEF Start
<1>7. ASSUME NEW b \in Book, Enqueue(b) \/ TimePasses(b) PROVE Live(x)'
  <2>1. /\ [db[b] EXCEPT !.row = "live"].row = "live"
        /\ [db[b] EXCEPT !.retry = "due"].row = db[b].row
    BY <1>0 DEF BookRow
  <2>2. \/ db' = [db EXCEPT ![b] = [db[b] EXCEPT !.row = "live"]]
        \/ db' = [db EXCEPT ![b] = [db[b] EXCEPT !.retry = "due"]]
    BY <1>0, <1>7 DEF Enqueue, TimePasses
  <2> QED  BY <1>0, <2>1, <2>2 DEF Live
<1>8. CASE \/ Crash \/ Shutdown \/ Restart \/ UNCHANGED vars \/ \E b \in Book : StartupGC(b)
           \/ \E c \in Client, b \in Book, op \in OpName, s \in Stage \cup {NoState} : Call(c, op, b, s)
  BY <1>8, RowWrites DEF Crash, Shutdown, Restart, Reboot, vars, StartupGC, Call
<1> QED  BY <1>2, <1>3, <1>4, <1>5, <1>6, <1>7, <1>8 DEF Next, ClientSteps

LEMMA ExecutingSteps ==
    ASSUME TypeOK, [Next]_vars, NEW x \in Book, Executing(x)'
    PROVE  Executing(x) \/ (OpenRun(x) /\ CanWrite(x) /\ Live(x)')
<1>0. worker \in [Book -> WorkerRec] /\ db \in [Book -> BookRow]
  BY DEF TypeOK, WorkerOK, DbOK
<1>1. ASSUME NEW b \in Book, Work(b) PROVE Executing(x) \/ (OpenRun(x) /\ CanWrite(x) /\ Live(x)')
  <2> DEFINE r == worker[b]
  <2>1. CASE b # x
    <3>1. worker'[x] = worker[x]
      BY <1>0, <1>1, <2>1 DEF Work, SkipStage, OpenRun, ExecSucceeds, ExecCanceled, ExecFaults, ExecGivesUp,
            ExecEnds, RecordRun, SetFailedOrParked, Advance, Commit, AutoPurgeDone, Exit, GoTo
    <3> QED  BY <3>1 DEF Executing
  <2>2. CASE b = x /\ OpenRun(x)
    <3>1. CASE CanWrite(x)
      <4>1. [db[x] EXCEPT !.open[worker[x].stage] = Bump(@, 2)].row = db[x].row
        BY <1>0 DEF BookRow
      <4>2. db' = [db EXCEPT ![x] = [db[x] EXCEPT !.open[worker[x].stage] = Bump(@, 2)]]
        BY <1>0, <2>2, <3>1 DEF OpenRun
      <4> QED  BY <1>0, <2>2, <3>1, <4>1, <4>2 DEF CanWrite, Live
    <3>2. CASE ~CanWrite(x)
      <4>1. worker' = [worker EXCEPT ![x] = IdleWorker]
        BY <2>2, <3>2 DEF OpenRun, Exit
      <4> QED  BY <1>0, <4>1 DEF Executing, IdleWorker
    <3> QED  BY <3>1, <3>2
  <2>3. CASE b = x /\ (ExecSucceeds(b) \/ ExecCanceled(b) \/ ExecFaults(b) \/ ExecGivesUp(b) \/ RecordRun(b))
    BY <2>3 DEF Executing, ExecSucceeds, ExecCanceled, ExecFaults, ExecGivesUp, ExecEnds, RecordRun
  <2>4. CASE b = x /\ (SkipStage(b) \/ SetFailedOrParked(b) \/ Advance(b) \/ Commit(b) \/ AutoPurgeDone(b))
    <3>1. /\ \A pc, out, next : /\ [r EXCEPT !.pc = pc].pc = pc
                                /\ [r EXCEPT !.pc = pc, !.out = out].pc = pc
                                /\ [r EXCEPT !.pc = pc, !.next = next].pc = pc
          /\ IdleWorker.pc = "off"
      BY <1>0 DEF WorkerRec, IdleWorker
    <3>2. CASE SkipStage(b)
      <4>1. worker'[b] = [r EXCEPT !.pc = "advance", !.out = disk[b].done[r.stage]]
        BY <1>0, <3>2 DEF SkipStage
      <4> QED  BY <2>4, <3>1, <4>1 DEF Executing
    <3>3. CASE SetFailedOrParked(b) \/ AutoPurgeDone(b)
      <4>1. worker'[b] = IdleWorker
        BY <1>0, <3>3 DEF SetFailedOrParked, AutoPurgeDone, Exit
      <4> QED  BY <2>4, <3>1, <4>1 DEF Executing
    <3>4. CASE Advance(b)
      <4>1. \/ worker'[b] = IdleWorker
            \/ \E next : worker'[b] = [r EXCEPT !.pc = "commit", !.next = next]
            \/ worker'[b] = [r EXCEPT !.pc = "failing", !.out = "fix_loop_exhausted"]
        BY <1>0, <3>4 DEF Advance, Exit
      <4>2. worker'[b].pc \in {"off", "commit", "failing"}
        <5>1. CASE worker'[b] = IdleWorker
          BY <3>1, <5>1
        <5>2. ASSUME NEW next, worker'[b] = [r EXCEPT !.pc = "commit", !.next = next] PROVE worker'[b].pc = "commit"
          BY <3>1, <5>2
        <5>3. CASE worker'[b] = [r EXCEPT !.pc = "failing", !.out = "fix_loop_exhausted"]
          BY <3>1, <5>3
        <5> QED  BY <4>1, <5>1, <5>2, <5>3
      <4> QED  BY <2>4, <4>2 DEF Executing
    <3>5. CASE Commit(b)
      <4>1. worker'[b] = IdleWorker \/ worker'[b] = [r EXCEPT !.pc = "purge"]
        BY <1>0, <3>5 DEF Commit, Exit, GoTo
      <4>2. worker'[b].pc \in {"off", "purge"}
        BY <3>1, <4>1
      <4> QED  BY <2>4, <4>2 DEF Executing
    <3> QED  BY <2>4, <3>2, <3>3, <3>4, <3>5
  <2> QED  BY <1>1, <2>1, <2>2, <2>3, <2>4 DEF Work
<1>2. ASSUME NEW b \in Book, StartWorker(b) PROVE Executing(x)
  <2>1. worker' = [worker EXCEPT ![b] = [IdleWorker EXCEPT !.pc = "begin", !.stage = disp.seen[b].state]]
    BY <1>2 DEF StartWorker
  <2> QED  BY <1>0, <2>1 DEF Executing, IdleWorker
<1>3. ASSUME UNCHANGED worker PROVE Executing(x)
  BY <1>3 DEF Executing
<1>4. ASSUME NEW c \in Client, Handle(c) PROVE Executing(x)
  <2>1. CASE Signal(c)
    <3>1. UNCHANGED worker \/ worker' = [worker EXCEPT ![client[c].book] = [worker[client[c].book] EXCEPT !.cancelled = TRUE]]
      BY <1>0, <2>1 DEF Signal, CancelInflight
    <3>2. worker'[x].pc = worker[x].pc
      BY <1>0, <3>1 DEF WorkerRec
    <3> QED  BY <3>2 DEF Executing
  <2>2. CASE ~Signal(c)
    <3>1. UNCHANGED worker
      BY <1>4, <2>2 DEF Handle, WriteStatus, DropSentinel, ClearStatus, DeleteRow, WipeDir, ReserveForPurge,
            PurgeDirs, PurgeSentinels, PurgeReconcile, PurgePlace, Unreserve, Terminate, CloseOrphan,
            DropForRerun, RerunPlace
    <3> QED  BY <1>3, <3>1
  <2> QED  BY <2>1, <2>2
<1>5. CASE Dispatch
  <2>1. UNCHANGED worker \/ \E b \in Book : StartWorker(b)
    BY <1>5 DEF Dispatch, StartPass, ReadmitDue, ClearDue, ListBooks, PromoteWaypoint, Collect, SkipCandidate,
                EndPass
  <2> QED  BY <2>1, <1>2, <1>3
<1>6. CASE Start
  <2>1. UNCHANGED worker
    BY <1>6 DEF Start, ListOpenRuns, CloseRuns, ListForReconcile, SupersedeLost, PlaceRewound, StartGC, Recheck,
                ClearRechecked, Started
  <2> QED  BY <2>1, <1>3
<1>7. CASE Crash \/ Restart
  <2>1. worker' = [b \in Book |-> IdleWorker]
    BY <1>7 DEF Crash, Restart, Reboot
  <2> QED  BY <2>1 DEF Executing, IdleWorker
<1>8. CASE Shutdown
  <2>1. worker' = [b \in Book |-> IF Running(b) THEN [worker[b] EXCEPT !.cancelled = TRUE] ELSE worker[b]]
    BY <1>8 DEF Shutdown
  <2>2. worker'[x].pc = worker[x].pc
    BY <1>0, <2>1 DEF WorkerRec
  <2> QED  BY <2>2 DEF Executing
<1>9. CASE \/ UNCHANGED vars \/ \E b \in Book : StartupGC(b) \/ TimePasses(b) \/ Enqueue(b)
           \/ \E c \in Client, b \in Book, op \in OpName, s \in Stage \cup {NoState} : Call(c, op, b, s)
  <2>1. UNCHANGED worker
    BY <1>9 DEF StartupGC, TimePasses, Enqueue, Call, vars
  <2> QED  BY <2>1, <1>3
<1> QED  BY <1>1, <1>4, <1>5, <1>6, <1>7, <1>8, <1>9 DEF Next, ClientSteps

(* No stage executes on a deleted book: Delete checks the in-flight table  *)
(* and removes the row under one lock, and a worker started from a stale   *)
(* list fails at its first write (Delete, runStage).                       *)
THEOREM DeletedBooksRest == Spec => []NoWorkOnDeleted
<1>1. Init => TypeOK /\ NoWorkOnDeleted
  <2> SUFFICES ASSUME Init PROVE NoWorkOnDeleted
    BY InitType
  <2>1. worker = [b \in Book |-> IdleWorker]
    BY DEF Init
  <2> QED  BY <2>1 DEF NoWorkOnDeleted, IdleWorker
<1>2. (TypeOK /\ NoWorkOnDeleted) /\ [Next]_vars => (TypeOK /\ NoWorkOnDeleted)'
  <2> SUFFICES ASSUME TypeOK, NoWorkOnDeleted, [Next]_vars PROVE NoWorkOnDeleted'
    BY NextType
  <2>1. ASSUME NEW b \in Book, Executing(b)' PROVE Live(b)'
    <3>1. CASE Executing(b)
      <4>1. Live(b) /\ Running(b)
        BY <3>1 DEF NoWorkOnDeleted, Executing, Running
      <4>2. \A c \in Client : ~(DeleteRow(c) /\ client[c].book = b /\ ~Live(b)')
        BY <4>1 DEF DeleteRow, InFlight, Live
      <4> QED  BY <4>1, <4>2, OnlyDeleteDeletes
    <3>2. CASE ~Executing(b)
      BY <2>1, <3>2, ExecutingSteps
    <3> QED  BY <3>1, <3>2
  <2> QED  BY <2>1 DEF NoWorkOnDeleted, Executing, Live
<1>3. TypeOK /\ NoWorkOnDeleted => NoWorkOnDeleted
  OBVIOUS
<1> QED  BY <1>1, <1>2, <1>3, PTL DEF Spec

-----------------------------------------------------------------------------
(* The scheduler implements the pool of slots: every step of it grants one *)
(* stage its slots, releases some, or leaves the pool alone.               *)

Assigned == [b \in Book |-> IF Running(b) THEN worker[b].stage ELSE NoState]

LEMMA NoStateIsNone == NoState \notin Stage
  BY DEF NoState, Stage, State

LEMMA HeldAreHolders == ASSUME TypeOK PROVE \A l \in Slot : Pool!Held(l) = Holders(l)
<1>1. \A b \in Book : Running(b) => worker[b].stage # NoState
  BY NoStateIsNone DEF TypeOK, WorkerOK
<1> QED  BY <1>1 DEF Pool!Held, Holders

LEMMA SameCardinality == \A S : Pool!Cardinality(S) = Cardinality(S)
  BY DEF Pool!Cardinality, Cardinality

LEMMA PoolStart == Init => Pool!Init
<1>1. ASSUME Init, NEW b \in Book PROVE ~Running(b)
  <2>1. worker[b].pc = "off"
    BY <1>1 DEF Init, IdleWorker
  <2> QED  BY <2>1 DEF Running
<1> QED  BY <1>1 DEF Pool!Init

(* The start of a worker grants: the pass has room left in every slot the  *)
(* stage needs, and what it has left plus what is held fits (FreeIsFree).  *)
LEMMA StartGrants ==
    ASSUME TypeOK, CapacityInv, NEW b \in Book, StartWorker(b)
    PROVE  \E s \in Stage : Pool!Grant(b, s)
<1>9. disp.seen[b].state \in Stage
  BY DEF StartWorker, IsNext, TypeOK, DispOK
<1>10. PICK s \in Stage : s = disp.seen[b].state
  BY <1>9
<1>0. worker \in [Book -> WorkerRec] /\ disp.free \in [Slot -> Int]
  BY DEF TypeOK, WorkerOK, DispOK, DispRec
<1>1. ~Running(b) /\ disp.pc = "fill" /\ b \in disp.todo /\ HasRoom(s)
  BY <1>10 DEF StartWorker, InFlight, IsNext
<1>3. worker' = [worker EXCEPT ![b] = [IdleWorker EXCEPT !.pc = "begin", !.stage = s]]
  BY <1>10 DEF StartWorker
<1>4. ASSUME NEW l \in Slot, UsesSlot(s, l) PROVE Cardinality(Holders(l)) < SlotCap(l)
  <2>1. disp.free[l] > 0 /\ disp.free[l] \in Int
    BY <1>0, <1>1, <1>4 DEF HasRoom
  <2>2. Cardinality(Holders(l)) + disp.free[l] <= SlotCap(l)
    BY <1>1 DEF CapacityInv, FreeIsFree
  <2> QED  BY <2>1, <2>2, CountsType
<1>5. Assigned' = [Assigned EXCEPT ![b] = s]
  BY <1>0, <1>3 DEF Assigned, Running, IdleWorker
<1>6. Assigned[b] = NoState
  BY <1>1 DEF Assigned
<1>7. \A l \in Slot : UsesSlot(s, l) => Pool!Cardinality(Pool!Held(l)) < SlotCap(l)
  BY <1>4, HeldAreHolders, SameCardinality
<1>8. Pool!Grant(b, s)
  BY <1>5, <1>6, <1>7 DEF Pool!Grant, Assigned
<1> QED  BY <1>8

(* Every other step keeps or releases. *)
LEMMA OthersRelease ==
    ASSUME TypeOK, NoNewWorker
    PROVE  \E gone \in SUBSET Book : Pool!Release(gone)
<1> DEFINE gone == {b \in Book : ~Running(b)'}
<1>1. Assigned' = [b \in Book |-> IF b \in gone THEN NoState ELSE Assigned[b]]
  BY DEF Assigned, NoNewWorker
<1> QED  BY <1>1 DEF Pool!Release, Assigned

LEMMA PoolStep ==
    ASSUME TypeOK, CapacityInv, [Next]_vars
    PROVE  Pool!Next
<1>1. ASSUME NEW b \in Book, StartWorker(b) PROVE Pool!Next
  <2>1. PICK s \in Stage : Pool!Grant(b, s)
    BY <1>1, StartGrants
  <2> QED  BY <2>1 DEF Pool!Next
<1>2. CASE \A b \in Book : ~StartWorker(b)
  <2>1. NoNewWorker
    BY <1>2, OnlyStartAdds
  <2>2. PICK gone \in SUBSET Book : Pool!Release(gone)
    BY <2>1, OthersRelease
  <2> QED  BY <2>2 DEF Pool!Next
<1> QED  BY <1>1, <1>2

(* The dispatcher implements the pool of slots, for any number of books    *)
(* and any agent width, across crashes and restarts (dispatch, fillLane,   *)
(* startWorker).                                                           *)
THEOREM SchedulerImplementsPool == Spec => ImplementsPool
<1>1. Init => Pool!Init
  BY PoolStart
<1>2. TypeOK /\ CapacityInv /\ [Next]_vars => Pool!Next
  BY PoolStep
<1> QED  BY <1>1, <1>2, TypeCorrect, CapacityHolds, PTL DEF Spec, ImplementsPool, Pool!Spec

=============================================================================
