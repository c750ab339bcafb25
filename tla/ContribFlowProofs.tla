-------------------------- MODULE ContribFlowProofs --------------------------
(***************************************************************************)
(* Proofs about the contributions of one book, for any number of operator  *)
(* calls, issues, crashes and lost answers: what is posted and to which    *)
(* work, and what a merged proposal is.                                    *)
(***************************************************************************)
EXTENDS ContribFlow, TLAPS, FiniteSetTheorems, SequenceTheorems

-----------------------------------------------------------------------------
(* The types.                                                              *)

PrState  == {"none", "open", "merged", "closed"}
WorkId   == Work \cup {NoWork}
IssueRec == [kind : RowKind, work : WorkId, open : BOOLEAN, pr : PrState,
             verdict : Verdict, names : {"unknown", "one", "several"}]
RowRec   == [status : RowStatus, issue : Nat, pr : Nat, verdict : Verdict, unlearned : BOOLEAN, aged : BOOLEAN]
BookRec  == [park : Park, msg : Msg, work : WorkId, done : BOOLEAN]
StagePc  == {"off", "resolve", "submit", "record", "park"}
StageRec == [pc : StagePc, work : WorkId, park : Park, msg : Msg,
             seen : [RowKind -> RowRec], todo : Seq(Sidecar)]
CallPc   == {"idle", "lock", "create", "record", "clear", "flip", "work", "readmit"}
CallRec  == [pc : CallPc, op : {"none", "submit", "work", "retry"}, park : Park]
PollerPc == {"idle", "rows", "verdict", "verdict_readmit", "verdict_write", "admit", "admit_wait",
             "admit_readmit", "learn", "learning", "tell"}
PollerRec == [pc : PollerPc, todo : SUBSET RowKind, seen : [RowKind -> RowRec], verdict : Verdict,
              pending : BOOLEAN, msg : Msg, work : WorkId, after : {"idle", "learn"}]
GhostRec == [settled : Nat, lost : Nat]

Typed ==
    /\ conf \in Confs /\ book \in BookRec /\ row \in [RowKind -> RowRec]
    /\ issue \in Seq(IssueRec) /\ catalog \in {"absent", "live", "retired"}
    /\ stage \in StageRec /\ call \in [Operator -> CallRec] /\ lock \in Operator \cup {NoOne}
    /\ poller \in PollerRec /\ ghost \in GhostRec /\ budget \in [ops : Nat, surprises : Nat]

(***************************************************************************)
(* The inductive invariant.                                                *)
(***************************************************************************)

Locked == {"create", "record", "clear", "flip"}

(* The calls that post and record a proposal hold the book's lock.         *)
LockInv == \A c \in Operator : call[c].pc \in Locked <=> lock = c

(* A row in flight names an issue of its kind, and the poller's copy of a  *)
(* row it is still to advance names the same one.                          *)
OpenInv ==
    /\ \A k \in RowKind : IsOpen(row[k]) => row[k].issue \in Opened(k)
    /\ poller.pc \notin {"rows", "verdict", "verdict_readmit", "verdict_write"} => poller.todo = {}
    /\ \A k \in poller.todo : /\ IsOpen(row[k]) /\ IsOpen(poller.seen[k])
                              /\ poller.seen[k].issue = row[k].issue

(* The stage's copies of the sidecar rows it is still to submit are of the *)
(* issues those rows name now; one it posted has no issue in its row yet.  *)
StageInv ==
    stage.pc \in {"submit", "record"} =>
       /\ \A i, j \in 1..Len(stage.todo) : stage.todo[i] = stage.todo[j] => i = j
       /\ \A i \in 1..Len(stage.todo) : stage.seen[stage.todo[i]].issue = row[stage.todo[i]].issue
       /\ stage.pc = "record" => /\ stage.todo # <<>> /\ row[Head(stage.todo)].issue = 0

(* What the row of the proposal says of the pull request it points at.     *)
SoundOn(issues, r) ==
    /\ r.status # "local"
    /\ r.status \in {"absent", "already_covered"} => r.pr = 0
    /\ r.status \in {"submitted", "pr_open", "merged"} =>
          r.issue \in 1..Len(issues) /\ issues[r.issue].kind = "core"
    /\ r.status \in {"pr_open", "merged"} => r.pr # 0
    /\ r.pr # 0 => r.pr \in 1..Len(issues) /\ issues[r.pr].kind = "core"
    /\ r.status = "merged" => issues[r.pr].pr = "merged"
    /\ r.status \in {"submitted", "closed"} /\ r.pr # 0 => issues[r.pr].pr = "closed"

RowSound(r) == SoundOn(issue, r)

(* The row of the proposal, against what its writers know of it: a call    *)
(* that posts found none in flight, the pointer that is cleared is of a    *)
(* closed pull request, and the poller's copy of the row is behind by that *)
(* clearing at most.                                                       *)
CoreInv ==
    LET r == row["core"]
        s == poller.seen["core"]
    IN  /\ RowSound(r)
        /\ \A c \in Operator : call[c].pc \in {"create", "record"} => ~InFlight(r)
        /\ \A c \in Operator : call[c].pc = "clear" =>
               r.status \in {"submitted", "closed"} /\ r.pr # 0 /\ r.issue \in Opened("core")
        /\ "core" \in poller.todo =>
               /\ RowSound(s) /\ s.status = r.status
               /\ s.pr = r.pr \/ (/\ r.pr = 0 /\ r.status = "submitted"
                                 /\ \A c \in Operator : call[c].pc # "clear")
        /\ poller.pc = "learning" =>
               r.status = "merged" /\ s.status = "merged" /\ s.pr # 0 /\ s.pr \in Opened("core")
               /\ issue[s.pr].pr = "merged"

(* A work id that the stage may resolve.                                   *)
Usable(w) ==
    /\ w # "placeholder"
    /\ w = "survivor" => conf.meta /\ catalog # "absent"
    /\ w = "learned" /\ ~conf.meta => Learnt

WorkInv ==
    /\ Usable(book.work) /\ Usable(poller.work)
    /\ stage.pc = "resolve" => Usable(stage.work)
    /\ stage.pc \in {"submit", "record"} =>
           Vouched(stage.work) \/ (stage.work = "placeholder" /\ conf.mode = "local")
    /\ PostedToPublished

(* The issues opened, against those a row names or is about to, those that *)
(* were settled and those nobody will name.                                *)
One(b) == IF b THEN 1 ELSE 0

CoreNamed    == InFlight(row["core"]) \/ \E c \in Operator : call[c].pc = "record"
SideNamed(k) == row[k].issue # 0 \/ (stage.pc = "record" /\ Head(stage.todo) = k)

CoreCount    == Cardinality(Opened("core")) <= One(CoreNamed) + ghost.settled + ghost.lost
SideCount(k) == Cardinality(Opened(k)) <= One(SideNamed(k)) + ghost.lost

CountInv == CoreCount /\ \A k \in Sidecar : SideCount(k)

ContribInv == Typed /\ LockInv /\ OpenInv /\ StageInv /\ CoreInv /\ WorkInv /\ CountInv

-----------------------------------------------------------------------------
(* The constants, the records and their fields.                            *)

LEMMA Constants ==
    /\ Operator \subseteq Nat /\ NoOne \notin Operator /\ "core" \in RowKind /\ "core" \notin Sidecar
    /\ Sidecar \subseteq RowKind /\ Dimensions \in Seq(Sidecar) /\ RowKind = Sidecar \cup {"core"}
    /\ \A i, j \in 1..Len(Dimensions) : Dimensions[i] = Dimensions[j] => i = j
    /\ MaxIssues \in Nat /\ \A c \in Confs : c.mode \in {"issue", "local"} /\ c.recorded \in {NoWork, "stale"}
    /\ Budgets \subseteq [ops : Nat, surprises : Nat]
<1>1. Dimensions \in Seq({"characters", "recaps"})
  BY ContribAssumption
<1>2. Len(Dimensions) \in Nat /\ \A i \in 1..Len(Dimensions) : Dimensions[i] \in {"characters", "recaps"}
  BY <1>1
<1>3. Dimensions \in Seq(Sidecar)
  BY <1>1, <1>2 DEF Sidecar
<1>4. Sidecar \subseteq {"characters", "recaps"}
  BY <1>2 DEF Sidecar
<1>5. "core" \notin Sidecar
  BY <1>4
<1>6. Operator \subseteq Nat /\ NoOne \notin Operator
  BY ContribAssumption DEF NoOne
<1>8. \A c \in Confs : c.mode \in {"issue", "local"} /\ c.recorded \in {NoWork, "stale"}
  BY ContribAssumption
<1> QED  BY <1>3, <1>5, <1>6, <1>8, ContribAssumption DEF RowKind

LEMMA RecordTypes ==
    /\ NoRow \in RowRec /\ IdleStage \in StageRec /\ IdleCall \in CallRec /\ IdlePoller \in PollerRec
<1>1. NoRow \in RowRec
  BY DEF NoRow, RowRec, RowStatus, Verdict
<1>2. "none" \in Park /\ "none" \in Msg /\ "none" \in Verdict /\ NoWork \in WorkId
  BY DEF Park, Msg, Verdict, WorkId
<1>3. [k \in RowKind |-> NoRow] \in [RowKind -> RowRec]
  BY <1>1
<1>4. IdleStage \in StageRec
  BY <1>2, <1>3, EmptySeq DEF IdleStage, StageRec, StagePc
<1>5. IdleCall \in CallRec
  BY <1>2 DEF IdleCall, CallRec, CallPc
<1>6. IdlePoller \in PollerRec
  BY <1>2, <1>3 DEF IdlePoller, PollerRec, PollerPc
<1> QED  BY <1>1, <1>4, <1>5, <1>6

LEMMA FieldTypes ==
    /\ \A r \in RowRec : r.status \in RowStatus /\ r.issue \in Nat /\ r.pr \in Nat /\ r.verdict \in Verdict
                         /\ r.unlearned \in BOOLEAN /\ r.aged \in BOOLEAN
    /\ \A s \in StageRec : s.pc \in StagePc /\ s.work \in WorkId /\ s.park \in Park /\ s.msg \in Msg
                           /\ s.seen \in [RowKind -> RowRec] /\ s.todo \in Seq(Sidecar)
    /\ \A c \in CallRec : c.pc \in CallPc /\ c.op \in {"none", "submit", "work", "retry"} /\ c.park \in Park
    /\ \A p \in PollerRec : p.pc \in PollerPc /\ p.todo \in SUBSET RowKind /\ p.seen \in [RowKind -> RowRec]
                            /\ p.verdict \in Verdict /\ p.pending \in BOOLEAN /\ p.msg \in Msg
                            /\ p.work \in WorkId /\ p.after \in {"idle", "learn"}
    /\ \A b \in BookRec : b.park \in Park /\ b.msg \in Msg /\ b.work \in WorkId /\ b.done \in BOOLEAN
    /\ \A i \in IssueRec : i.kind \in RowKind /\ i.work \in WorkId /\ i.open \in BOOLEAN /\ i.pr \in PrState
                           /\ i.verdict \in Verdict
    /\ \A g \in GhostRec : g.settled \in Nat /\ g.lost \in Nat
<1>1. \A r \in RowRec : r.status \in RowStatus /\ r.issue \in Nat /\ r.pr \in Nat /\ r.verdict \in Verdict
                         /\ r.unlearned \in BOOLEAN /\ r.aged \in BOOLEAN
  BY DEF RowRec
<1>2. \A s \in StageRec : s.pc \in StagePc /\ s.work \in WorkId /\ s.park \in Park /\ s.msg \in Msg
                           /\ s.seen \in [RowKind -> RowRec] /\ s.todo \in Seq(Sidecar)
  BY DEF StageRec
<1>3. \A c \in CallRec : c.pc \in CallPc /\ c.op \in {"none", "submit", "work", "retry"} /\ c.park \in Park
  BY DEF CallRec
<1>4. \A p \in PollerRec : p.pc \in PollerPc /\ p.todo \in SUBSET RowKind /\ p.seen \in [RowKind -> RowRec]
                            /\ p.verdict \in Verdict /\ p.pending \in BOOLEAN /\ p.msg \in Msg
                            /\ p.work \in WorkId /\ p.after \in {"idle", "learn"}
  BY DEF PollerRec
<1>5. \A b \in BookRec : b.park \in Park /\ b.msg \in Msg /\ b.work \in WorkId /\ b.done \in BOOLEAN
  BY DEF BookRec
<1>6. \A i \in IssueRec : i.kind \in RowKind /\ i.work \in WorkId /\ i.open \in BOOLEAN /\ i.pr \in PrState
                           /\ i.verdict \in Verdict
  BY DEF IssueRec
<1>7. \A g \in GhostRec : g.settled \in Nat /\ g.lost \in Nat
  BY DEF GhostRec
<1> QED  BY <1>1, <1>2, <1>3, <1>4, <1>5, <1>6, <1>7

-----------------------------------------------------------------------------
(* The issues.                                                             *)

(* Issues are added at the end, or one of them goes on.                    *)
Added(kind, w, n) ==
    /\ issue' \in Seq(IssueRec) /\ Len(issue') = Len(issue) + n /\ Len(issue') <= MaxIssues
    /\ \A i \in 1..Len(issue) : issue'[i] = issue[i]
    /\ \A i \in (Len(issue) + 1)..(Len(issue) + n) : issue'[i] = NewIssue(kind, w)

LEMMA NewIssueType == ASSUME NEW kind \in RowKind, NEW w \in WorkId PROVE NewIssue(kind, w) \in IssueRec
  BY DEF NewIssue, IssueRec, PrState, Verdict

LEMMA LostMore ==
    ASSUME NEW g \in GhostRec, NEW h, h = [g EXCEPT !.lost = @ + 1]
    PROVE  h \in GhostRec /\ h.settled = g.settled /\ h.lost = g.lost + 1
<1> DEFINE l == g.lost + 1
<1>1. l \in Nat /\ g.lost \in Nat /\ g.settled \in Nat
  BY FieldTypes
<1>2. h = [g EXCEPT !.lost = l] /\ l = g.lost + 1
  OBVIOUS
<1> HIDE DEF l
<1> QED  BY <1>1, <1>2 DEF GhostRec

LEMMA Surprised == ASSUME Typed, Surprise PROVE budget' \in [ops : Nat, surprises : Nat]
<1> DEFINE l == budget.surprises - 1
<1>1. budget \in [ops : Nat, surprises : Nat] /\ l \in Nat /\ budget' = [budget EXCEPT !.surprises = l]
  BY DEF Typed, Surprise
<1> HIDE DEF l
<1> QED  BY <1>1

(* An attempt to open an issue opens one more than the caller learns of    *)
(* when the answer was lost.                                               *)
LEMMA PostedAdds ==
    ASSUME Typed, NEW kind \in RowKind, NEW w \in WorkId, Posted(kind, w) \/ PostedTwice(kind, w)
    PROVE  \E n \in {1, 2} : Added(kind, w, n) /\ ghost' \in GhostRec
               /\ ghost'.settled = ghost.settled /\ ghost'.lost = ghost.lost + n - 1
               /\ budget' \in [ops : Nat, surprises : Nat]
<1> DEFINE new == NewIssue(kind, w)
<1>0. new \in IssueRec /\ issue \in Seq(IssueRec) /\ Len(issue) \in Nat /\ MaxIssues \in Nat
      /\ ghost \in GhostRec /\ ghost.settled \in Nat /\ ghost.lost \in Nat /\ budget \in [ops : Nat, surprises : Nat]
  BY NewIssueType, Constants, FieldTypes DEF Typed
<1> HIDE DEF new
<1>1. CASE Posted(kind, w)
  <2>1. issue' = Append(issue, new) /\ UNCHANGED <<ghost, budget>> /\ Len(issue) + 1 <= MaxIssues
    BY <1>1 DEF Posted, CanOpen, new
  <2>2. issue' \in Seq(IssueRec) /\ Len(issue') = Len(issue) + 1
        /\ (\A i \in 1..Len(issue) : issue'[i] = issue[i]) /\ issue'[Len(issue) + 1] = new
    BY <1>0, <2>1, AppendProperties
  <2>3. \A i \in (Len(issue) + 1)..(Len(issue) + 1) : i = Len(issue) + 1
    BY <1>0
  <2>4. Added(kind, w, 1)
    BY <1>0, <2>1, <2>2, <2>3 DEF Added, new
  <2> QED  BY <1>0, <2>1, <2>4
<1>2. CASE PostedTwice(kind, w)
  <2>1. issue' = issue \o <<new, new>> /\ Len(issue) + 2 <= MaxIssues
        /\ ghost' = [ghost EXCEPT !.lost = @ + 1] /\ budget.surprises > 0
        /\ budget' = [budget EXCEPT !.surprises = @ - 1]
    BY <1>2 DEF PostedTwice, CanOpen, LoseOne, Surprise, new
  <2>2. /\ <<new, new>> \in Seq(IssueRec) /\ Len(<<new, new>>) = 2
        /\ <<new, new>>[1] = new /\ <<new, new>>[2] = new
    BY <1>0
  <2>3. issue' \in Seq(IssueRec) /\ Len(issue') = Len(issue) + 2
        /\ (\A i \in 1..Len(issue) : issue'[i] = issue[i])
        /\ issue'[Len(issue) + 1] = new /\ issue'[Len(issue) + 2] = new
    BY <1>0, <2>1, <2>2
  <2>4. \A i \in (Len(issue) + 1)..(Len(issue) + 2) : i = Len(issue) + 1 \/ i = Len(issue) + 2
    BY <1>0
  <2>5. Added(kind, w, 2)
    BY <1>0, <2>1, <2>3, <2>4 DEF Added, new
  <2>6. ghost' \in GhostRec /\ ghost'.settled = ghost.settled /\ ghost'.lost = ghost.lost + 2 - 1
    BY <1>0, <2>1, LostMore
  <2>7. budget' \in [ops : Nat, surprises : Nat]
    BY <2>1, <1>2, Surprised DEF PostedTwice
  <2> QED  BY <2>5, <2>6, <2>7
<1> QED  BY <1>1, <1>2

LEMMA FailedPostAdds ==
    ASSUME Typed, NEW kind \in RowKind, NEW w \in WorkId, PostFails(kind, w)
    PROVE  /\ ghost' \in GhostRec /\ ghost'.settled = ghost.settled
           /\ \/ UNCHANGED issue /\ ghost'.lost = ghost.lost
              \/ Added(kind, w, 1) /\ ghost'.lost = ghost.lost + 1
           /\ budget' \in [ops : Nat, surprises : Nat]
<1> DEFINE new == NewIssue(kind, w)
<1>0. new \in IssueRec /\ issue \in Seq(IssueRec) /\ Len(issue) \in Nat /\ MaxIssues \in Nat
      /\ ghost \in GhostRec /\ ghost.settled \in Nat /\ ghost.lost \in Nat /\ budget \in [ops : Nat, surprises : Nat]
  BY NewIssueType, Constants, FieldTypes DEF Typed
<1> HIDE DEF new
<1>1. budget' \in [ops : Nat, surprises : Nat]
  BY Surprised DEF PostFails
<1>2. CASE UNCHANGED <<issue, ghost>>
  <2>1. ghost' = ghost /\ issue' = issue
    BY <1>2
  <2> QED  BY <1>0, <1>1, <2>1
<1>3. CASE CanOpen(1) /\ issue' = Append(issue, NewIssue(kind, w)) /\ LoseOne
  <2>1. issue' = Append(issue, new) /\ Len(issue) + 1 <= MaxIssues /\ ghost' = [ghost EXCEPT !.lost = @ + 1]
    BY <1>3 DEF CanOpen, LoseOne, new
  <2>2. issue' \in Seq(IssueRec) /\ Len(issue') = Len(issue) + 1
        /\ (\A i \in 1..Len(issue) : issue'[i] = issue[i]) /\ issue'[Len(issue) + 1] = new
    BY <1>0, <2>1, AppendProperties
  <2>3. \A i \in (Len(issue) + 1)..(Len(issue) + 1) : i = Len(issue) + 1
    BY <1>0
  <2>4. Added(kind, w, 1)
    BY <1>0, <2>1, <2>2, <2>3 DEF Added, new
  <2>5. ghost' \in GhostRec /\ ghost'.settled = ghost.settled /\ ghost'.lost = ghost.lost + 1
    BY <1>0, <2>1, LostMore
  <2> QED  BY <1>1, <2>4, <2>5
<1> QED  BY <1>2, <1>3 DEF PostFails

-----------------------------------------------------------------------------
(* The writes the actions are made of.                                     *)

LEMMA ParkWritten ==
    ASSUME Typed, NEW p \in Park, NEW m \in Msg, SetPark(p, m)
    PROVE  book' \in BookRec /\ book'.work = book.work
  BY DEF Typed, SetPark, BookRec

LEMMA WorkWritten ==
    ASSUME Typed, NEW w \in WorkId, SetWorkID(w)
    PROVE  book' \in BookRec /\ book'.work = w
  BY DEF Typed, SetWorkID, BookRec

LEMMA Readmitted == ASSUME Typed, Readmit PROVE book' \in BookRec /\ book'.work = book.work
<1>1. "none" \in Park /\ "none" \in Msg
  BY DEF Park, Msg
<1> QED  BY <1>1, ParkWritten DEF Typed, Readmit

(* What a row written to is.                                               *)
LEMMA Upserts ==
    ASSUME Typed, NEW k \in RowKind, NEW status \in RowStatus, NEW n \in Nat, Upsert(k, status, n)
    PROVE  /\ row' \in [RowKind -> RowRec] /\ \A j \in RowKind : j # k => row'[j] = row[j]
           /\ row'[k].status = status /\ row'[k].issue = n /\ row'[k].pr = row[k].pr
<1> DEFINE r == Upserted(row[k], status, n)
<1>1. row \in [RowKind -> RowRec] /\ row[k].pr \in Nat /\ NoRow \in RowRec
  BY FieldTypes, RecordTypes DEF Typed
<1>2. r \in RowRec /\ r.status = status /\ r.issue = n /\ r.pr = row[k].pr
  BY <1>1 DEF Upserted, NoRow, RowRec, Verdict
<1>3. row' = [row EXCEPT ![k] = r]
  BY DEF Upsert
<1> HIDE DEF r
<1> QED  BY <1>1, <1>2, <1>3

LEMMA SetsRow ==
    ASSUME Typed, NEW k \in RowKind, NEW status \in RowStatus, NEW pr \in Nat, NEW verdict \in Verdict,
           NEW unlearned \in BOOLEAN, SetRow(k, status, pr, verdict, unlearned)
    PROVE  /\ row' \in [RowKind -> RowRec] /\ \A j \in RowKind : j # k => row'[j] = row[j]
           /\ row'[k].status = status /\ row'[k].issue = row[k].issue /\ row'[k].pr = pr
<1> DEFINE r == [row[k] EXCEPT !.status = status, !.pr = pr, !.verdict = verdict, !.unlearned = unlearned,
                               !.aged = FALSE]
<1>1. row \in [RowKind -> RowRec] /\ row[k] \in RowRec
  BY DEF Typed
<1>2. r \in RowRec /\ r.status = status /\ r.issue = row[k].issue /\ r.pr = pr
  BY <1>1 DEF RowRec
<1>3. row' = [row EXCEPT ![k] = r]
  BY DEF SetRow
<1> HIDE DEF r
<1> QED  BY <1>1, <1>2, <1>3

LEMMA AgesRow ==
    ASSUME Typed, NEW k \in RowKind, NEW a \in BOOLEAN, row' = [row EXCEPT ![k].aged = a]
    PROVE  /\ row' \in [RowKind -> RowRec] /\ \A j \in RowKind : j # k => row'[j] = row[j]
           /\ row'[k].status = row[k].status /\ row'[k].issue = row[k].issue /\ row'[k].pr = row[k].pr
<1> DEFINE r == [row[k] EXCEPT !.aged = a]
<1>1. row \in [RowKind -> RowRec] /\ row[k] \in RowRec
  BY DEF Typed
<1>2. r \in RowRec /\ r.status = row[k].status /\ r.issue = row[k].issue /\ r.pr = row[k].pr
  BY <1>1 DEF RowRec
<1>3. row' = [row EXCEPT ![k] = r]
  OBVIOUS
<1> HIDE DEF r
<1> QED  BY <1>1, <1>2, <1>3

LEMMA StageParks ==
    ASSUME Typed, NEW p \in Park, NEW m \in Msg, ToPark(p, m)
    PROVE  stage' \in StageRec /\ stage'.pc = "park"
  BY DEF Typed, ToPark, StageRec, StagePc

LEMMA StageSubmits ==
    ASSUME Typed, NEW w \in WorkId, ToSubmit(w)
    PROVE  /\ stage' \in StageRec /\ stage'.pc = "submit" /\ stage'.work = w /\ stage'.todo = Dimensions
           /\ \A k \in Sidecar : stage'.seen[k] = row[k]
<1> DEFINE f == [row EXCEPT !["core"] = NoRow]
<1>1. f \in [RowKind -> RowRec] /\ \A k \in Sidecar : f[k] = row[k]
  BY RecordTypes, Constants DEF Typed
<1>2. stage' = [stage EXCEPT !.pc = "submit", !.work = w, !.todo = Dimensions, !.seen = f]
  BY DEF ToSubmit
<1> HIDE DEF f
<1> QED  BY <1>1, <1>2, Constants DEF Typed, StageRec, StagePc

LEMMA StageGoesOn ==
    ASSUME Typed, stage.todo # <<>>, NextDimension
    PROVE  /\ stage' \in StageRec /\ stage'.pc = "submit" /\ stage'.work = stage.work
           /\ stage'.todo = Tail(stage.todo) /\ Head(stage.todo) \in Sidecar
           /\ \A k \in Sidecar : k # Head(stage.todo) => stage'.seen[k] = stage.seen[k]
<1> DEFINE h == Head(stage.todo)
           t == Tail(stage.todo)
           f == [stage.seen EXCEPT ![h] = NoRow]
<1>1. stage \in StageRec /\ stage.todo \in Seq(Sidecar) /\ stage.seen \in [RowKind -> RowRec]
  BY FieldTypes DEF Typed
<1>2. h \in Sidecar /\ t \in Seq(Sidecar)
  BY <1>1
<1>3. f \in [RowKind -> RowRec] /\ \A k \in Sidecar : k # h => f[k] = stage.seen[k]
  BY <1>1, <1>2, RecordTypes, Constants
<1>4. stage' = [stage EXCEPT !.pc = "submit", !.todo = t, !.seen = f]
  BY <1>1 DEF NextDimension, StageRec
<1> HIDE DEF h, t, f
<1>5. stage' \in StageRec /\ stage'.pc = "submit" /\ stage'.work = stage.work /\ stage'.todo = t /\ stage'.seen = f
  BY <1>1, <1>2, <1>3, <1>4 DEF StageRec, StagePc
<1> QED  BY <1>2, <1>3, <1>5 DEF h, t

LEMMA PollerGoesOn ==
    ASSUME Typed, NEW pc \in PollerPc, GoOn(pc)
    PROVE  /\ poller' \in PollerRec /\ poller'.pc = pc /\ poller'.work = NoWork
           /\ pc \in {"idle", "learn"} => poller'.todo = {}
           /\ pc \notin {"idle", "learn"} => poller'.todo = poller.todo /\ poller'.seen = poller.seen
<1> DEFINE p == IF pc \in {"idle", "learn"} THEN IdlePoller ELSE poller
           v == IF pc = "rows" THEN "none" ELSE p.verdict
<1>1. p \in PollerRec /\ NoWork \in WorkId /\ "none" \in Msg
  BY RecordTypes DEF Typed, WorkId, Msg
<1>2. v \in Verdict
  BY <1>1, FieldTypes DEF Verdict
<1>3. poller' = [p EXCEPT !.pc = pc, !.verdict = v, !.work = NoWork, !.pending = FALSE, !.msg = "none"]
  BY <1>1 DEF GoOn, PollerRec
<1>4. pc \in {"idle", "learn"} => p.todo = {}
  BY DEF IdlePoller
<1>5. pc \notin {"idle", "learn"} => p = poller
  OBVIOUS
<1> HIDE DEF p, v
<1>6. /\ poller' \in PollerRec /\ poller'.pc = pc /\ poller'.work = NoWork /\ poller'.todo = p.todo
      /\ poller'.seen = p.seen
  BY <1>1, <1>2, <1>3 DEF PollerRec
<1> QED  BY <1>4, <1>5, <1>6

LEMMA CallGoesOn ==
    ASSUME Typed, NEW c \in Operator, NEW pc \in CallPc, Then(c, pc)
    PROVE  /\ call' \in [Operator -> CallRec] /\ call'[c].pc = pc
           /\ \A d \in Operator : d # c => call'[d] = call[d]
<1> DEFINE r == [call[c] EXCEPT !.pc = pc]
<1>1. call \in [Operator -> CallRec] /\ r \in CallRec /\ r.pc = pc /\ call' = [call EXCEPT ![c] = r]
  BY DEF Typed, Then, CallRec
<1> HIDE DEF r
<1> QED  BY <1>1

LEMMA CallReturns ==
    ASSUME Typed, NEW c \in Operator, Return(c)
    PROVE  /\ call' \in [Operator -> CallRec] /\ call'[c].pc = "idle"
           /\ \A d \in Operator : d # c => call'[d] = call[d]
<1>1. IdleCall \in CallRec /\ IdleCall.pc = "idle" /\ call \in [Operator -> CallRec]
  BY RecordTypes DEF Typed, IdleCall
<1> QED  BY <1>1 DEF Return

-----------------------------------------------------------------------------
(* Every step keeps the types.                                             *)

LEMMA Resolves ==
    ASSUME Typed, NEW w \in WorkId, Usable(w)
    PROVE  \/ Resolve(w) = NotFound
           \/ /\ Resolve(w) # NotFound /\ Resolve(w) \in WorkId /\ Usable(Resolve(w))
              /\ w # NoWork => Vouched(Resolve(w))
<1>1. catalog \in {"absent", "live", "retired"}
  BY DEF Typed
<1>2. CASE conf.meta /\ w \in {"stale", "placeholder"}
  BY <1>2 DEF Resolve
<1>3. CASE conf.meta /\ w = "learned"
  BY <1>1, <1>3 DEF Resolve, NotFound, WorkId, Work, Usable, Vouched
<1>4. CASE conf.meta /\ w \in {"manual", "survivor", NoWork}
  BY <1>1, <1>4 DEF Resolve, NotFound, WorkId, Work, Usable, Vouched, NoWork
<1>5. CASE ~conf.meta
  <2>1. Resolve(w) = w
    BY <1>5 DEF Resolve
  <2> QED  BY <1>5, <2>1 DEF NotFound, WorkId, Work, Usable, Vouched, NoWork
<1> QED  BY <1>2, <1>3, <1>4, <1>5 DEF WorkId, Work

(* What the look-up by identifier leaves the stage with.                   *)
LEMMA LooksUp ==
    ASSUME Typed, LookUp
    PROVE  /\ book' \in BookRec /\ stage' \in StageRec /\ stage'.pc \in {"submit", "park"}
           /\ budget' \in [ops : Nat, surprises : Nat]
           /\ Usable(book.work) => Usable(book'.work)
           /\ stage'.pc = "submit" =>
                 /\ stage'.todo = Dimensions /\ \A k \in Sidecar : stage'.seen[k] = row[k]
                 /\ Vouched(stage'.work) \/ (stage'.work = "placeholder" /\ conf.mode = "local")
<1>1. "learned" \in WorkId /\ "placeholder" \in WorkId
  BY DEF WorkId, Work
<1>2. budget' \in [ops : Nat, surprises : Nat]
  BY Surprised DEF LookUp, Typed
<1>3. CASE Identified /\ SetWorkID(Resolve("learned")) /\ ToSubmit(Resolve("learned"))
  <2>0. conf.meta /\ catalog # "absent" /\ Usable("learned")
    BY <1>3 DEF Identified, Usable
  <2>1. Resolve("learned") # NotFound
    BY <2>0 DEF Typed, Resolve, NotFound
  <2>2. Resolve("learned") \in WorkId /\ Usable(Resolve("learned")) /\ Vouched(Resolve("learned"))
    BY <1>1, <2>0, <2>1, Resolves DEF NoWork
  <2> QED  BY <1>2, <1>3, <2>2, WorkWritten, StageSubmits
<1>4. CASE NoMatch /\ conf.mode = "local"
  <2>1. ToSubmit("placeholder") /\ UNCHANGED book
    BY <1>4 DEF NoMatch
  <2> QED  BY <1>1, <1>2, <1>4, <2>1, StageSubmits DEF Typed
<1>5. CASE NoMatch /\ conf.mode # "local"
  <2>1. NeedsCore /\ UNCHANGED book
    BY <1>5 DEF NoMatch
  <2>2. \E p \in Park, m \in Msg : ToPark(p, m)
    <3>1. {"core_pending", "core_needed"} \subseteq Park /\ {"verdict", "submitted", "duplicate", "needed"} \subseteq Msg
      BY DEF Park, Msg
    <3>2. CASE InFlight(row["core"])
      BY <2>1, <3>1, <3>2 DEF NeedsCore
    <3>3. CASE ~InFlight(row["core"]) /\ row["core"].status = "already_covered"
      BY <2>1, <3>1, <3>3 DEF NeedsCore
    <3>4. CASE ~InFlight(row["core"]) /\ row["core"].status # "already_covered"
      BY <2>1, <3>1, <3>4 DEF NeedsCore
    <3> QED  BY <3>2, <3>3, <3>4
  <2>3. stage' \in StageRec /\ stage'.pc = "park"
    BY <2>2, StageParks
  <2> QED  BY <1>2, <2>1, <2>3 DEF Typed
<1> QED  BY <1>3, <1>4, <1>5 DEF LookUp

LEMMA StageTyped == ASSUME Typed, WorkInv, StageInv, UNCHANGED conf, Contribute PROVE Typed'
<1>0. /\ book \in BookRec /\ row \in [RowKind -> RowRec] /\ stage \in StageRec /\ issue \in Seq(IssueRec)
      /\ NoWork \in WorkId /\ "none" \in Park /\ "none" \in Msg
  BY DEF Typed, WorkId, Park, Msg
<1>1. CASE StartStage
  <2>1. stage' = [IdleStage EXCEPT !.pc = "resolve", !.work = book.work] /\ book.work \in WorkId
    BY <1>0, <1>1, FieldTypes DEF StartStage
  <2>2. stage' \in StageRec
    BY <2>1, RecordTypes DEF StageRec, StagePc
  <2> QED  BY <1>1, <2>2 DEF StartStage, Elsewhere, Others, Typed
<1>2. CASE ResolveWorkSlug
  <2>1. UNCHANGED <<row, issue, catalog, call, lock, poller, ghost>> /\ stage.pc = "resolve"
    BY <1>2 DEF ResolveWorkSlug, Elsewhere, Others
  <2>2. book' \in BookRec /\ stage' \in StageRec /\ budget' \in [ops : Nat, surprises : Nat]
    <3>1. stage.work \in WorkId /\ Usable(stage.work)
      BY <1>0, <2>1, FieldTypes DEF WorkInv
    <3>2. CASE LookUp
      BY <3>2, LooksUp
    <3>3. CASE stage.work # NoWork /\ Resolve(stage.work) # NotFound
      <4>1. Resolve(stage.work) \in WorkId
        BY <3>1, <3>3, Resolves
      <4>2. ToSubmit(Resolve(stage.work)) /\ (UNCHANGED book \/ SetWorkID(Resolve(stage.work))) /\ UNCHANGED budget
        BY <1>2, <3>3 DEF ResolveWorkSlug
      <4> QED  BY <1>0, <4>1, <4>2, StageSubmits, WorkWritten DEF Typed
    <3>4. CASE ToPark("core_pending", "release") /\ UNCHANGED <<book, budget>>
      BY <1>0, <3>4, StageParks DEF Park, Msg, Typed
    <3> QED  BY <1>2, <3>2, <3>3, <3>4 DEF ResolveWorkSlug
  <2> QED  BY <2>1, <2>2 DEF Typed
<1>3. CASE StageFails
  <2>1. /\ UNCHANGED <<book, row, issue, catalog, call, lock, poller, ghost>> /\ Surprise
        /\ \E p \in {"failed", "contrib_unavailable"} : ToPark(p, "none")
    BY <1>3 DEF StageFails, Elsewhere, Others
  <2>2. stage' \in StageRec
    BY <1>0, <2>1, StageParks DEF Park
  <2> QED  BY <2>1, <2>2, Surprised DEF Typed
<1>4. CASE ParkStage
  <2>1. SetPark(stage.park, stage.msg) /\ stage' = IdleStage /\ UNCHANGED <<row, issue, catalog, budget, call, lock, poller, ghost>>
    BY <1>4 DEF ParkStage, Elsewhere, Others
  <2>2. book' \in BookRec /\ stage' \in StageRec
    BY <1>0, <2>1, ParkWritten, FieldTypes, RecordTypes
  <2> QED  BY <2>1, <2>2 DEF Typed
<1>5. CASE SubmitNext
  <2>1. UNCHANGED <<book, catalog, call, lock, poller>> /\ stage.todo # <<>>
    BY <1>5 DEF SubmitNext, Others
  <2> DEFINE k == Head(stage.todo)
  <2>3. k \in RowKind /\ stage.work \in WorkId
    BY <1>0, <2>1, FieldTypes, Constants
  <2>4. CASE NextDimension /\ UNCHANGED <<issue, budget, ghost>> /\ (UNCHANGED row \/ Upsert(k, "already_covered", 0) \/ Upsert(k, "local", 0))
    <3>1. stage' \in StageRec
      BY <2>1, <2>4, StageGoesOn
    <3>2. row' \in [RowKind -> RowRec]
      BY <1>0, <2>3, <2>4, Upserts DEF RowStatus
    <3> QED  BY <2>1, <2>4, <3>1, <3>2 DEF Typed
  <2>5. CASE (Posted(k, stage.work) \/ PostedTwice(k, stage.work)) /\ stage' = [stage EXCEPT !.pc = "record"] /\ UNCHANGED row
    <3>1. stage' \in StageRec
      BY <1>0, <2>5 DEF StageRec, StagePc
    <3>2. issue' \in Seq(IssueRec) /\ ghost' \in GhostRec /\ budget' \in [ops : Nat, surprises : Nat]
      BY <2>3, <2>5, PostedAdds DEF Added
    <3> QED  BY <2>1, <2>5, <3>1, <3>2 DEF Typed
  <2>6. CASE PostFails(k, stage.work) /\ ToPark("failed", "none") /\ UNCHANGED row
    <3>1. stage' \in StageRec
      BY <1>0, <2>6, StageParks DEF Park
    <3>2. issue' \in Seq(IssueRec) /\ ghost' \in GhostRec /\ budget' \in [ops : Nat, surprises : Nat]
      BY <1>0, <2>3, <2>6, FailedPostAdds DEF Added
    <3> QED  BY <2>1, <2>6, <3>1, <3>2 DEF Typed
  <2> QED  BY <1>5, <2>4, <2>5, <2>6 DEF SubmitNext
<1>6. CASE RecordPosted
  <2>1. UNCHANGED <<book, issue, catalog, call, lock, poller>> /\ stage.pc = "record" /\ stage.todo # <<>>
    BY <1>6 DEF RecordPosted, Others, StageInv
  <2>2. CASE NextDimension /\ UNCHANGED <<budget, ghost>> /\ \E n \in 1..Len(issue) : Upsert(Head(stage.todo), "submitted", n)
    <3>1. stage' \in StageRec /\ Head(stage.todo) \in RowKind
      BY <2>1, <2>2, StageGoesOn, Constants
    <3>2. row' \in [RowKind -> RowRec]
      BY <2>2, <3>1, Upserts DEF RowStatus
    <3> QED  BY <2>1, <2>2, <3>1, <3>2 DEF Typed
  <2>3. CASE Surprise /\ LoseOne /\ ToPark("failed", "none") /\ UNCHANGED row
    <3>1. stage' \in StageRec
      BY <1>0, <2>3, StageParks DEF Park
    <3>2. ghost' \in GhostRec
      BY <2>3, LostMore DEF LoseOne, Typed
    <3>3. budget' \in [ops : Nat, surprises : Nat]
      BY <2>3, Surprised
    <3> QED  BY <2>1, <2>3, <3>1, <3>2, <3>3 DEF Typed
  <2> QED  BY <1>6, <2>2, <2>3 DEF RecordPosted
<1>7. CASE FinishStage
  <2>1. stage' = IdleStage /\ UNCHANGED <<row, issue, catalog, budget, call, lock, poller, ghost>>
        /\ book' = [book EXCEPT !.done = TRUE, !.park = "none", !.msg = "none"]
    BY <1>7 DEF FinishStage, Elsewhere, Others
  <2>2. book' \in BookRec /\ stage' \in StageRec
    BY <1>0, <2>1, RecordTypes DEF BookRec
  <2> QED  BY <2>1, <2>2 DEF Typed
<1> QED  BY <1>1, <1>2, <1>3, <1>4, <1>5, <1>6, <1>7 DEF Contribute

LEMMA CallTyped ==
    ASSUME Typed, LockInv, UNCHANGED conf, NEW c \in Operator,
           Handle(c) \/ \E op \in {"submit", "work", "retry"} : Request(c, op)
    PROVE  Typed'
<1>0. /\ book \in BookRec /\ row \in [RowKind -> RowRec] /\ call \in [Operator -> CallRec] /\ issue \in Seq(IssueRec)
      /\ call[c] \in CallRec /\ lock \in Operator \cup {NoOne} /\ "core" \in RowKind /\ NoWork \in WorkId
  BY Constants DEF Typed, WorkId
<1>1. CASE LockAndRead(c)
  <2>1. UNCHANGED <<book, row, issue, budget, ghost, catalog, stage, poller>> /\ lock' \in Operator \cup {NoOne}
    BY <1>0, <1>1 DEF LockAndRead, CallElsewhere
  <2>2. call' \in [Operator -> CallRec]
    <3>1. CASE Return(c)
      BY <3>1, CallReturns
    <3>2. CASE \E pc \in {"flip", "create"} : call' = [call EXCEPT ![c].pc = pc, ![c].park = book.park]
      <4>1. PICK pc \in {"flip", "create"} : call' = [call EXCEPT ![c].pc = pc, ![c].park = book.park]
        BY <3>2
      <4> DEFINE r == [call[c] EXCEPT !.pc = pc, !.park = book.park]
      <4>2. call' = [call EXCEPT ![c] = r]
        BY <1>0, <4>1
      <4>3. r \in CallRec
        BY <1>0, FieldTypes DEF CallRec, CallPc
      <4> HIDE DEF r
      <4> QED  BY <1>0, <4>2, <4>3
    <3> QED  BY <1>1, <3>1, <3>2 DEF LockAndRead
  <2> QED  BY <2>1, <2>2 DEF Typed
<1>2. CASE CreateCore(c)
  <2>1. UNCHANGED <<book, row, catalog, stage, poller>>
    BY <1>2 DEF CreateCore, CallElsewhere
  <2>2. issue' \in Seq(IssueRec) /\ ghost' \in GhostRec /\ budget' \in [ops : Nat, surprises : Nat]
    <3>1. CASE Posted("core", NoWork) \/ PostedTwice("core", NoWork)
      BY <1>0, <3>1, PostedAdds DEF Added
    <3>2. CASE PostFails("core", NoWork)
      BY <1>0, <3>2, FailedPostAdds DEF Added
    <3> QED  BY <1>2, <3>1, <3>2 DEF CreateCore
  <2>3. call' \in [Operator -> CallRec] /\ lock' \in Operator \cup {NoOne}
    BY <1>0, <1>2, CallGoesOn, CallReturns DEF CreateCore, Unlock, CallPc
  <2> QED  BY <2>1, <2>2, <2>3 DEF Typed
<1>3. CASE RecordCore(c)
  <2>1. UNCHANGED <<book, issue, catalog, stage, poller>>
    BY <1>3 DEF RecordCore, CallElsewhere
  <2>2. CASE /\ UNCHANGED <<lock, budget, ghost>> /\ \E n \in 1..Len(issue) : Upsert("core", "submitted", n)
             /\ Then(c, "clear") \/ Then(c, "flip")
    <3>1. row' \in [RowKind -> RowRec]
      BY <1>0, <2>2, Upserts DEF RowStatus
    <3>2. call' \in [Operator -> CallRec]
      BY <2>2, CallGoesOn DEF CallPc
    <3> QED  BY <2>1, <2>2, <3>1, <3>2 DEF Typed
  <2>3. CASE Surprise /\ LoseOne /\ Unlock(c) /\ UNCHANGED row
    <3>1. call' \in [Operator -> CallRec] /\ lock' \in Operator \cup {NoOne}
      BY <2>3, CallReturns DEF Unlock
    <3>2. ghost' \in GhostRec
      BY <2>3, LostMore DEF LoseOne, Typed
    <3>3. budget' \in [ops : Nat, surprises : Nat]
      BY <2>3, Surprised
    <3> QED  BY <2>1, <2>3, <3>1, <3>2, <3>3 DEF Typed
  <2> QED  BY <1>3, <2>2, <2>3 DEF RecordCore
<1>4. CASE ClearPointer(c)
  <2>1. UNCHANGED <<book, issue, lock, budget, ghost, catalog, stage, poller>> /\ SetRow("core", "submitted", 0, "none", FALSE)
        /\ Then(c, "flip")
    BY <1>4 DEF ClearPointer, CallElsewhere
  <2>2. row' \in [RowKind -> RowRec] /\ call' \in [Operator -> CallRec]
    BY <1>0, <2>1, SetsRow, CallGoesOn DEF RowStatus, Verdict, CallPc
  <2> QED  BY <2>1, <2>2 DEF Typed
<1>5. CASE FlipPark(c)
  <2>1. UNCHANGED <<row, issue, budget, ghost, catalog, stage, poller>> /\ Unlock(c)
        /\ (UNCHANGED book \/ SetPark("core_pending", "submitted"))
    BY <1>5 DEF FlipPark, CallElsewhere
  <2>2. book' \in BookRec /\ call' \in [Operator -> CallRec] /\ lock' \in Operator \cup {NoOne}
    BY <1>0, <2>1, CallReturns, ParkWritten DEF Unlock, Park, Msg
  <2> QED  BY <2>1, <2>2 DEF Typed
<1>6. CASE SetWork(c)
  <2>1. UNCHANGED <<row, issue, lock, budget, ghost, catalog, stage, poller>> /\ SetWorkID("manual")
        /\ (Then(c, "readmit") \/ Return(c))
    BY <1>6 DEF SetWork, CallElsewhere
  <2>2. book' \in BookRec /\ call' \in [Operator -> CallRec]
    BY <1>0, <2>1, CallReturns, CallGoesOn, WorkWritten DEF CallPc, WorkId, Work
  <2> QED  BY <2>1, <2>2 DEF Typed
<1>7. CASE ReadmitBook(c)
  <2>1. UNCHANGED <<row, issue, lock, budget, ghost, catalog, stage, poller>> /\ Readmit /\ Return(c)
    BY <1>7 DEF ReadmitBook, CallElsewhere
  <2>2. book' \in BookRec /\ call' \in [Operator -> CallRec]
    BY <2>1, CallReturns, Readmitted
  <2> QED  BY <2>1, <2>2 DEF Typed
<1>8. ASSUME NEW op \in {"submit", "work", "retry"}, Request(c, op) PROVE Typed'
  <2>1. UNCHANGED <<book, row, issue, lock, ghost, catalog, stage, poller>> /\ budget.ops > 0
    BY <1>8 DEF Request, CallElsewhere
  <2> DEFINE pc == CASE op = "submit" -> "lock" [] op = "work" -> "work" [] OTHER -> "readmit"
             r  == [IdleCall EXCEPT !.op = op, !.park = book.park, !.pc = pc]
             l  == budget.ops - 1
  <2>2. call' = [call EXCEPT ![c] = r] /\ budget' = [budget EXCEPT !.ops = l]
    BY <1>8 DEF Request
  <2>3. pc \in CallPc
    BY DEF CallPc
  <2>4. l \in Nat /\ budget \in [ops : Nat, surprises : Nat]
    BY <2>1 DEF Typed
  <2> HIDE DEF pc, l
  <2>5. r \in CallRec
    BY <1>0, <2>3, RecordTypes, FieldTypes DEF CallRec
  <2> HIDE DEF r
  <2>6. call' \in [Operator -> CallRec] /\ budget' \in [ops : Nat, surprises : Nat]
    BY <1>0, <2>2, <2>4, <2>5
  <2> QED  BY <2>1, <2>6 DEF Typed
<1> QED  BY <1>1, <1>2, <1>3, <1>4, <1>5, <1>6, <1>7, <1>8 DEF Handle

(* A crash loses the issue of every call that posted one without recording *)
(* it, of which there is at most one for the lock, and the stage's.        *)
LEMMA CrashLoses ==
    ASSUME Typed, LockInv, Crash
    PROVE  \E n \in Nat :
              /\ ghost' = [ghost EXCEPT !.lost = n] /\ n >= ghost.lost
              /\ (\E c \in Operator : call[c].pc = "record") => n >= ghost.lost + 1
              /\ stage.pc = "record" => n >= ghost.lost + 1
<1> DEFINE S == {c \in Operator : call[c].pc = "record"}
           a == Cardinality(S)
           b == IF stage.pc = "record" THEN 1 ELSE 0
           n == ghost.lost + a + b
<1>1. S \subseteq {lock}
  BY DEF LockInv, Locked
<1>2. IsFiniteSet(S)
  BY <1>1, FS_Singleton, FS_Subset
<1>3. a \in Nat /\ (S # {} => a >= 1)
  BY <1>2, FS_CardinalityType, FS_EmptySet
<1>4. b \in Nat /\ (stage.pc = "record" => b = 1)
  OBVIOUS
<1>5. ghost.lost \in Nat
  BY FieldTypes DEF Typed
<1>6. ghost' = [ghost EXCEPT !.lost = n]
  BY <1>5 DEF Crash, Typed, GhostRec
<1>7. (\E c \in Operator : call[c].pc = "record") => S # {}
  OBVIOUS
<1> HIDE DEF S, a, b
<1>8. n \in Nat /\ n >= ghost.lost /\ (S # {} => n >= ghost.lost + 1) /\ (b = 1 => n >= ghost.lost + 1)
  BY <1>3, <1>4, <1>5
<1> HIDE DEF n
<1> QED  BY <1>4, <1>6, <1>7, <1>8

LEMMA OutsideTyped ==
    ASSUME Typed, LockInv, UNCHANGED conf, GitHub \/ CatalogMoves \/ Crash \/ \E k \in RowKind : IntervalPasses(k)
    PROVE  Typed'
<1>0. issue \in Seq(IssueRec) /\ row \in [RowKind -> RowRec] /\ ghost \in GhostRec /\ call \in [Operator -> CallRec]
  BY DEF Typed
<1>1. CASE GitHub
  <2>1. PICK n \in 1..Len(issue) : BotAnswers(n) \/ BotOpensPR(n) \/ MaintainerCloses(n)
    BY <1>1 DEF GitHub
  <2>2. UNCHANGED <<book, row, stage, call, lock, poller, ghost, catalog>> /\ issue[n] \in IssueRec
    BY <1>0, <2>1 DEF BotAnswers, BotOpensPR, MaintainerCloses, Outside
  <2>3. budget' \in [ops : Nat, surprises : Nat]
    BY <2>1, Surprised DEF BotAnswers, BotOpensPR, MaintainerCloses, UseEvent, Typed
  <2>4. \E r \in IssueRec : issue' = [issue EXCEPT ![n] = r]
    <3>1. CASE BotAnswers(n)
      <4>1. PICK v \in Verdict : issue' = [issue EXCEPT ![n].verdict = v]
        BY <3>1 DEF BotAnswers
      <4>2. [issue[n] EXCEPT !.verdict = v] \in IssueRec
        BY <2>2 DEF IssueRec
      <4> QED  BY <1>0, <4>1, <4>2
    <3>2. CASE BotOpensPR(n)
      <4>1. issue' = [issue EXCEPT ![n].pr = "open"]
        BY <3>2 DEF BotOpensPR
      <4>2. [issue[n] EXCEPT !.pr = "open"] \in IssueRec
        BY <2>2 DEF IssueRec, PrState
      <4> QED  BY <1>0, <4>1, <4>2
    <3>3. CASE MaintainerCloses(n)
      <4>1. \/ \E names \in {"one", "several"} :
                  issue' = [issue EXCEPT ![n].pr = "merged", ![n].names = names, ![n].open = FALSE]
            \/ issue' = [issue EXCEPT ![n].pr = "closed", ![n].open = FALSE]
            \/ issue' = [issue EXCEPT ![n].open = FALSE]
        BY <3>3 DEF MaintainerCloses
      <4>2. ASSUME NEW names \in {"one", "several"},
                   issue' = [issue EXCEPT ![n].pr = "merged", ![n].names = names, ![n].open = FALSE]
            PROVE  \E r \in IssueRec : issue' = [issue EXCEPT ![n] = r]
        <5>1. [issue[n] EXCEPT !.pr = "merged", !.names = names, !.open = FALSE] \in IssueRec
          BY <2>2 DEF IssueRec, PrState
        <5>2. issue' = [issue EXCEPT ![n] = [issue[n] EXCEPT !.pr = "merged", !.names = names, !.open = FALSE]]
          BY <1>0, <4>2
        <5> QED  BY <5>1, <5>2
      <4>3. CASE issue' = [issue EXCEPT ![n].pr = "closed", ![n].open = FALSE]
        <5>1. [issue[n] EXCEPT !.pr = "closed", !.open = FALSE] \in IssueRec
          BY <2>2 DEF IssueRec, PrState
        <5>2. issue' = [issue EXCEPT ![n] = [issue[n] EXCEPT !.pr = "closed", !.open = FALSE]]
          BY <1>0, <4>3
        <5> QED  BY <5>1, <5>2
      <4>4. CASE issue' = [issue EXCEPT ![n].open = FALSE]
        <5>1. [issue[n] EXCEPT !.open = FALSE] \in IssueRec
          BY <2>2 DEF IssueRec, PrState
        <5> QED  BY <1>0, <4>4, <5>1
      <4> QED  BY <4>1, <4>2, <4>3, <4>4
    <3> QED  BY <2>1, <3>1, <3>2, <3>3
  <2>5. issue' \in Seq(IssueRec)
    BY <1>0, <2>4
  <2> QED  BY <2>2, <2>3, <2>5 DEF Typed
<1>2. CASE CatalogMoves
  BY <1>2 DEF CatalogMoves, Outside, Typed
<1>3. CASE Crash
  <2>1. UNCHANGED <<book, row, issue, catalog>> /\ Surprise /\ stage' = IdleStage /\ poller' = IdlePoller /\ lock' = NoOne
        /\ call' = [c \in Operator |-> IdleCall]
    BY <1>3 DEF Crash
  <2>2. ghost' \in GhostRec
    <3>1. PICK n \in Nat : ghost' = [ghost EXCEPT !.lost = n]
      BY <1>3, CrashLoses
    <3> QED  BY <1>0, <3>1 DEF GhostRec
  <2>3. budget' \in [ops : Nat, surprises : Nat]
    BY <2>1, Surprised
  <2> QED  BY <2>1, <2>2, <2>3, RecordTypes DEF Typed
<1>4. CASE \E k \in RowKind : IntervalPasses(k)
  <2>1. PICK k \in RowKind : IntervalPasses(k)
    BY <1>4
  <2>2. row' \in [RowKind -> RowRec]
    BY <2>1, AgesRow DEF IntervalPasses
  <2> QED  BY <2>1, <2>2 DEF IntervalPasses, Typed
<1> QED  BY <1>1, <1>2, <1>3, <1>4

(* What the poller makes of a row it listed.                               *)
LEMMA Polls ==
    ASSUME Typed, NEW r \in RowRec, IsOpen(r), r.issue \in 1..Len(issue)
    PROVE  /\ PollIssue(r).status \in RowStatus \ {"absent", "local"} /\ PollIssue(r).pr \in Nat
           /\ PollIssue(r).verdict \in Verdict
           /\ PollIssue(r).pr \in {r.pr, r.issue, 0}
           /\ PollIssue(r).pr = 0 => r.pr = 0
           /\ r.pr # 0 => PollIssue(r).pr = r.pr
           /\ PollIssue(r).pr # 0 =>
                 PollIssue(r).status = CASE issue[PollIssue(r).pr].pr = "merged" -> "merged"
                                         [] issue[PollIssue(r).pr].pr = "closed" -> "closed"
                                         [] OTHER -> "pr_open"
           /\ PollIssue(r).pr = 0 =>
                 PollIssue(r).status \in {"submitted", "closed", "already_covered"} \/ PollIssue(r).status = r.status
<1> DEFINE it == issue[r.issue]
<1>1. it \in IssueRec /\ r.pr \in Nat /\ r.issue \in Nat /\ r.verdict \in Verdict /\ r.status \in {"submitted", "pr_open"}
  BY FieldTypes DEF Typed, IsOpen
<1>2. it.pr \in PrState /\ it.verdict \in Verdict /\ "none" \in Verdict
  BY <1>1, FieldTypes DEF Verdict
<1>3. CASE r.pr # 0
  BY <1>1, <1>3 DEF PollIssue, PrTarget, Target, RowStatus
<1>4. CASE r.pr = 0 /\ it.pr # "none"
  BY <1>1, <1>2, <1>4 DEF PollIssue, PrTarget, Target, RowStatus
<1>5. CASE r.pr = 0 /\ it.pr = "none" /\ it.verdict # "none"
  BY <1>1, <1>2, <1>5 DEF PollIssue, Target, RowStatus
<1>6. CASE r.pr = 0 /\ it.pr = "none" /\ it.verdict = "none" /\ ~it.open
  <2>1. PollIssue(r) = Target("closed", 0, "none")
    BY <1>6 DEF PollIssue
  <2> QED  BY <1>1, <1>2, <1>6, <2>1 DEF Target, RowStatus
<1>7. CASE r.pr = 0 /\ it.pr = "none" /\ it.verdict = "none" /\ it.open
  BY <1>1, <1>2, <1>7 DEF PollIssue, Target, RowStatus
<1> QED  BY <1>3, <1>4, <1>5, <1>6, <1>7

LEMMA SettledMore ==
    ASSUME NEW g \in GhostRec, NEW h, h = [g EXCEPT !.settled = @ + 1]
    PROVE  h \in GhostRec /\ h.settled = g.settled + 1 /\ h.lost = g.lost
<1> DEFINE l == g.settled + 1
<1>1. l \in Nat /\ g.lost \in Nat /\ g.settled \in Nat
  BY FieldTypes
<1>2. h = [g EXCEPT !.settled = l] /\ l = g.settled + 1
  OBVIOUS
<1> HIDE DEF l
<1> QED  BY <1>1, <1>2 DEF GhostRec

(* What the poller keeps of a row it advanced: nothing but the verdict.    *)
LEMMA RowAdvanced ==
    ASSUME Typed, NEW k \in RowKind, AdvanceRow(k), PollIssue(poller.seen[k]).verdict \in Verdict
    PROVE  /\ poller' \in PollerRec /\ poller'.pc \in {"rows", "verdict"} /\ poller'.todo = poller.todo \ {k}
           /\ \A j \in RowKind : j # k => poller'.seen[j] = poller.seen[j]
           /\ poller'.work = poller.work
<1> DEFINE t  == PollIssue(poller.seen[k])
           f  == [poller.seen EXCEPT ![k] = NoRow]
           d  == poller.todo \ {k}
           ch == t # Target(poller.seen[k].status, poller.seen[k].pr, poller.seen[k].verdict)
           pc == IF k = "core" /\ ch /\ t.verdict \notin {"none", poller.seen[k].verdict} THEN "verdict" ELSE "rows"
           v  == IF k = "core" THEN t.verdict ELSE poller.verdict
<1>1. poller \in PollerRec /\ poller.seen \in [RowKind -> RowRec] /\ poller.todo \in SUBSET RowKind
  BY FieldTypes DEF Typed
<1>2. f \in [RowKind -> RowRec] /\ (\A j \in RowKind : j # k => f[j] = poller.seen[j]) /\ d \in SUBSET RowKind
  BY <1>1, RecordTypes
<1>3. v \in Verdict
  BY <1>1, FieldTypes
<1>4. pc \in {"rows", "verdict"}
  OBVIOUS
<1>5. poller' = [poller EXCEPT !.todo = d, !.seen = f, !.pc = pc, !.verdict = v]
  BY <1>1 DEF AdvanceRow, PollerRec
<1> HIDE DEF t, f, d, ch, pc, v
<1>6. /\ poller' \in PollerRec /\ poller'.pc = pc /\ poller'.todo = d /\ poller'.seen = f
      /\ poller'.work = poller.work
  BY <1>1, <1>2, <1>3, <1>4, <1>5 DEF PollerRec, PollerPc
<1>7. d = poller.todo \ {k}
  BY DEF d
<1> QED  BY <1>2, <1>4, <1>6, <1>7

LEMMA PollTyped ==
    ASSUME Typed, OpenInv, CoreInv, WorkInv, UNCHANGED conf, Poll \/ \E k \in RowKind : SkipRow(k)
    PROVE  Typed'
<1>0. /\ book \in BookRec /\ row \in [RowKind -> RowRec] /\ poller \in PollerRec /\ issue \in Seq(IssueRec)
      /\ ghost \in GhostRec /\ "core" \in RowKind /\ NoWork \in WorkId
      /\ poller.seen \in [RowKind -> RowRec] /\ poller.work \in WorkId /\ poller.todo \in SUBSET RowKind
      /\ poller.after \in {"idle", "learn"} /\ "learned" \in WorkId
  BY Constants, FieldTypes DEF Typed, WorkId, Work
<1>1. ASSUME UNCHANGED <<row, ghost, issue, catalog, stage, call, lock, budget>>, book' \in BookRec, poller' \in PollerRec
      PROVE  Typed'
  BY <1>1 DEF Typed
<1>2. CASE ListOpen
  <2> DEFINE d == {k \in RowKind : Due(row[k])}
             f == [k \in RowKind |-> IF Due(row[k]) THEN row[k] ELSE NoRow]
  <2>1. poller' = [IdlePoller EXCEPT !.pc = "rows", !.todo = d, !.seen = f] /\ d \in SUBSET RowKind
    BY <1>2 DEF ListOpen
  <2>2. f \in [RowKind -> RowRec]
    BY <1>0, RecordTypes
  <2> HIDE DEF d, f
  <2>3. poller' \in PollerRec
    BY <2>1, <2>2, RecordTypes DEF PollerRec, PollerPc
  <2> QED  BY <1>0, <1>1, <1>2, <2>3 DEF ListOpen, PollElsewhere
<1>3. CASE ReadForVerdict
  <2>1. \E pc \in PollerPc : GoOn(pc)
    BY <1>3 DEF ReadForVerdict, PollerPc
  <2> QED  BY <1>0, <1>1, <1>3, <2>1, PollerGoesOn DEF ReadForVerdict, PollElsewhere
<1>4. CASE FollowVerdict
  <2>1. GoOn("rows") /\ (Readmit \/ SetPark("core_pending", "verdict"))
    BY <1>4 DEF FollowVerdict
  <2>2. book' \in BookRec /\ poller' \in PollerRec
    BY <2>1, Readmitted, ParkWritten, PollerGoesOn DEF Park, Msg, PollerPc
  <2> QED  BY <1>1, <1>4, <2>2 DEF FollowVerdict, PollElsewhere
<1>5. CASE ListAwaiting
  <2> DEFINE b == book.park = "core_pending"
  <2>1. b \in BOOLEAN /\ book.msg \in Msg /\ book.work \in WorkId
    BY <1>0, FieldTypes
  <2>2. poller' = [IdlePoller EXCEPT !.pc = "admit", !.after = "learn", !.pending = b, !.msg = book.msg, !.work = book.work]
    BY <1>5 DEF ListAwaiting, Listed
  <2> HIDE DEF b
  <2>3. poller' \in PollerRec
    BY <2>1, <2>2, RecordTypes DEF PollerRec, PollerPc
  <2> QED  BY <1>0, <1>1, <1>5, <2>3 DEF ListAwaiting, PollElsewhere
<1>6. CASE AdmitWhenLive
  <2>1. \E pc \in PollerPc : GoOn(pc)
    BY <1>0, <1>6 DEF AdmitWhenLive, PollerPc
  <2>2. UNCHANGED book \/ (Resolve(poller.work) # NotFound /\ SetWorkID(Resolve(poller.work)))
    BY <1>6 DEF AdmitWhenLive
  <2>3. book' \in BookRec
    BY <1>0, <2>2, Resolves, WorkWritten DEF WorkInv
  <2> QED  BY <1>1, <1>6, <2>1, <2>3, PollerGoesOn DEF AdmitWhenLive, PollElsewhere
<1>7. CASE FinishAdmit
  <2>1. GoOn(poller.after) /\ (Readmit \/ SetPark("core_pending", "release"))
    BY <1>7 DEF FinishAdmit
  <2>2. book' \in BookRec /\ poller' \in PollerRec
    BY <1>0, <2>1, Readmitted, ParkWritten, PollerGoesOn DEF Park, Msg, PollerPc
  <2> QED  BY <1>1, <1>7, <2>2 DEF FinishAdmit, PollElsewhere
<1>8. CASE ListUnresolved
  <2> DEFINE b == book.park = "core_pending"
             f == [IdlePoller.seen EXCEPT !["core"] = row["core"]]
  <2>1. b \in BOOLEAN /\ book.msg \in Msg /\ IdlePoller \in PollerRec /\ f \in [RowKind -> RowRec]
    BY <1>0, FieldTypes, RecordTypes
  <2>2. poller' = [IdlePoller EXCEPT !.pc = "learning", !.msg = book.msg, !.seen = f, !.pending = b]
    BY <1>8, <2>1 DEF ListUnresolved, PollerRec
  <2> HIDE DEF b, f
  <2>3. poller' \in PollerRec
    BY <2>1, <2>2 DEF PollerRec, PollerPc
  <2> QED  BY <1>0, <1>1, <1>8, <2>3 DEF ListUnresolved, PollElsewhere
<1>9. CASE EndTick
  BY <1>0, <1>1, <1>9, RecordTypes DEF EndTick, PollElsewhere
<1>10. CASE LearnWork
  <2>1. UNCHANGED <<ghost, issue, catalog, stage, call, lock, budget>> /\ poller.pc = "learning"
    BY <1>10 DEF LearnWork, PollElsewhere
  <2>2. CASE issue[poller.seen["core"].pr].names = "one"
    <3> DEFINE f == [poller.seen EXCEPT !["core"] = NoRow]
    <3>1. SetWorkID("learned") /\ UNCHANGED row
          /\ poller' = [poller EXCEPT !.pc = "admit", !.after = "idle", !.work = "learned", !.seen = f]
      BY <1>0, <1>10, <2>2 DEF LearnWork, PollerRec
    <3>2. f \in [RowKind -> RowRec]
      BY <1>0, RecordTypes
    <3> HIDE DEF f
    <3>3. poller' \in PollerRec /\ book' \in BookRec
      BY <1>0, <3>1, <3>2, WorkWritten DEF PollerRec, PollerPc
    <3> QED  BY <1>1, <2>1, <3>1, <3>3
  <2>3. CASE issue[poller.seen["core"].pr].names # "one"
    <3> DEFINE r == poller.seen["core"]
    <3>1. SetRow("core", r.status, r.pr, r.verdict, TRUE) /\ UNCHANGED book
          /\ (poller' = [IdlePoller EXCEPT !.pc = "tell"] \/ poller' = IdlePoller)
      BY <1>10, <2>3 DEF LearnWork
    <3>2. row' \in [RowKind -> RowRec]
      BY <1>0, <3>1, FieldTypes, SetsRow
    <3>3. poller' \in PollerRec
      BY <3>1, RecordTypes DEF PollerRec, PollerPc
    <3> QED  BY <2>1, <3>1, <3>2, <3>3 DEF Typed
  <2> QED  BY <2>2, <2>3
<1>11. CASE TellUnlearned
  <2>1. SetPark("core_pending", "unlearned") /\ poller' = IdlePoller
    BY <1>11 DEF TellUnlearned
  <2> QED  BY <1>1, <1>11, <2>1, ParkWritten, RecordTypes DEF TellUnlearned, PollElsewhere, Park, Msg
<1>12. ASSUME NEW k \in RowKind, AdvanceRow(k) PROVE Typed'
  <2> DEFINE r == poller.seen[k]
             t == PollIssue(r)
  <2>1. UNCHANGED <<book, issue, catalog, stage, call, lock, budget>> /\ k \in poller.todo
    BY <1>12 DEF AdvanceRow, PollElsewhere
  <2>2. r \in RowRec /\ IsOpen(r) /\ r.issue \in 1..Len(issue)
    BY <1>0, <2>1 DEF OpenInv, Opened
  <2>3. t.status \in RowStatus /\ t.pr \in Nat /\ t.verdict \in Verdict
    BY <2>2, Polls
  <2>4. row' \in [RowKind -> RowRec]
    <3>1. row[k].unlearned \in BOOLEAN /\ row[k].aged \in BOOLEAN
      BY <1>0, FieldTypes
    <3>2. \/ SetRow(k, t.status, t.pr, t.verdict, row[k].unlearned)
          \/ \E a \in BOOLEAN : row' = [row EXCEPT ![k].aged = a]
      BY <1>0, <1>12, <3>1 DEF AdvanceRow, RowRec
    <3> HIDE DEF t
    <3> QED  BY <2>3, <3>1, <3>2, SetsRow, AgesRow
  <2>5. ghost' \in GhostRec
    BY <1>0, <1>12, SettledMore DEF AdvanceRow
  <2>6. poller' \in PollerRec
    BY <1>0, <1>12, <2>3, RowAdvanced
  <2> QED  BY <2>1, <2>4, <2>5, <2>6 DEF Typed
<1>13. ASSUME NEW k \in RowKind, SkipRow(k) PROVE Typed'
  <2> DEFINE f == [poller.seen EXCEPT ![k] = NoRow]
             d == poller.todo \ {k}
  <2>1. poller' = [poller EXCEPT !.todo = d, !.seen = f] /\ f \in [RowKind -> RowRec] /\ d \in SUBSET RowKind
    BY <1>0, <1>13, RecordTypes DEF SkipRow, PollerRec
  <2> HIDE DEF f, d
  <2>2. poller' \in PollerRec
    BY <1>0, <2>1 DEF PollerRec
  <2>3. budget' \in [ops : Nat, surprises : Nat]
    BY <1>13, Surprised DEF SkipRow
  <2> QED  BY <1>0, <1>13, <2>2, <2>3 DEF SkipRow, Typed
<1> QED  BY <1>2, <1>3, <1>4, <1>5, <1>6, <1>7, <1>8, <1>9, <1>10, <1>11, <1>12, <1>13 DEF Poll

(***************************************************************************)
(* Who writes what.                                                        *)
(***************************************************************************)

Serve(c) == Handle(c) \/ \E op \in {"submit", "work", "retry"} : Request(c, op)
Turn     == Poll \/ \E k \in RowKind : SkipRow(k)
World    == GitHub \/ CatalogMoves \/ Crash \/ \E k \in RowKind : IntervalPasses(k)

LEMMA Actors ==
    ASSUME Next
    PROVE  UNCHANGED conf /\ (Contribute \/ (\E c \in Operator : Serve(c)) \/ Turn \/ World)
  BY DEF Next, Step, Serve, Turn, World

LEMMA StageWrites == ASSUME Contribute PROVE UNCHANGED <<catalog, call, lock, poller>>
  BY DEF Contribute, StartStage, ResolveWorkSlug, StageFails, ParkStage, SubmitNext, RecordPosted, FinishStage,
         Elsewhere, Others

LEMMA CallWrites ==
    ASSUME NEW c \in Operator, Serve(c)
    PROVE  UNCHANGED <<catalog, stage, poller>>
  BY DEF Serve, Handle, Request, LockAndRead, CreateCore, RecordCore, ClearPointer, FlipPark, SetWork, ReadmitBook,
         CallElsewhere

LEMMA TurnWrites == ASSUME Turn PROVE UNCHANGED <<issue, catalog, stage, call, lock>>
<1>1. ASSUME NEW k \in RowKind, SkipRow(k) PROVE UNCHANGED <<issue, catalog, stage, call, lock>>
  BY <1>1 DEF SkipRow
<1>2. ASSUME NEW k \in RowKind, AdvanceRow(k) PROVE UNCHANGED <<issue, catalog, stage, call, lock>>
  BY <1>2 DEF AdvanceRow, PollElsewhere
<1>3. CASE Poll /\ ~\E k \in RowKind : AdvanceRow(k)
  BY <1>3 DEF Poll, ListOpen, ReadForVerdict, FollowVerdict, ListAwaiting, AdmitWhenLive, FinishAdmit, ListUnresolved,
              EndTick, LearnWork, TellUnlearned, PollElsewhere
<1> QED  BY <1>1, <1>2, <1>3 DEF Turn

LEMMA GitHubWrites ==
    ASSUME Typed, GitHub
    PROVE  UNCHANGED <<catalog, book, row, stage, call, lock, poller, ghost>>
  BY DEF GitHub, BotAnswers, BotOpensPR, MaintainerCloses, Outside

LEMMA NextTyped == ASSUME ContribInv, Next PROVE Typed'
<1>1. Typed /\ LockInv /\ OpenInv /\ StageInv /\ CoreInv /\ WorkInv
  BY DEF ContribInv
<1> QED  BY <1>1, Actors, StageTyped, CallTyped, PollTyped, OutsideTyped DEF Serve, Turn, World

-----------------------------------------------------------------------------
(* Issues are never forgotten, what they are for is never changed, and     *)
(* their pull requests are merged or closed for good.                      *)
Kept ==
    /\ Len(issue) \in Nat /\ Len(issue') \in Nat /\ Len(issue) <= Len(issue')
    /\ \A i \in 1..Len(issue) :
          /\ issue'[i].kind = issue[i].kind /\ issue'[i].work = issue[i].work
          /\ issue[i].pr \in {"merged", "closed"} => issue'[i].pr = issue[i].pr /\ issue'[i].names = issue[i].names

LEMMA AddedKept == ASSUME Typed, NEW kind, NEW w, NEW n \in Nat, Added(kind, w, n) PROVE Kept
<1>1. Len(issue) \in Nat
  BY DEF Typed
<1> QED  BY <1>1 DEF Added, Kept

LEMMA UnchangedKept == ASSUME Typed, UNCHANGED issue PROVE Kept
<1>1. Len(issue) \in Nat
  BY DEF Typed
<1> QED  BY <1>1 DEF Kept

LEMMA GitHubKept == ASSUME Typed, GitHub PROVE Kept /\ Len(issue') = Len(issue)
<1>1. PICK n \in 1..Len(issue) : BotAnswers(n) \/ BotOpensPR(n) \/ MaintainerCloses(n)
  BY DEF GitHub
<1>2. issue \in Seq(IssueRec) /\ Len(issue) \in Nat /\ issue[n] \in IssueRec
  BY <1>1 DEF Typed
<1>3. ASSUME NEW r, issue' = [issue EXCEPT ![n] = r], r.kind = issue[n].kind, r.work = issue[n].work,
             issue[n].pr \in {"merged", "closed"} => r.pr = issue[n].pr /\ r.names = issue[n].names
      PROVE  Kept /\ Len(issue') = Len(issue)
  <2>1. Len(issue') = Len(issue) /\ issue'[n] = r /\ \A i \in 1..Len(issue) : i # n => issue'[i] = issue[i]
    BY <1>2, <1>3
  <2> QED  BY <1>2, <1>3, <2>1 DEF Kept
<1>4. ASSUME NEW v, issue' = [issue EXCEPT ![n].verdict = v] PROVE Kept /\ Len(issue') = Len(issue)
  <2> DEFINE r == [issue[n] EXCEPT !.verdict = v]
  <2>1. issue' = [issue EXCEPT ![n] = r] /\ r.kind = issue[n].kind /\ r.work = issue[n].work /\ r.pr = issue[n].pr
        /\ r.names = issue[n].names
    BY <1>2, <1>4 DEF IssueRec
  <2> HIDE DEF r
  <2> QED  BY <1>3, <2>1
<1>5. CASE issue' = [issue EXCEPT ![n].pr = "open"] /\ issue[n].pr = "none"
  <2> DEFINE r == [issue[n] EXCEPT !.pr = "open"]
  <2>1. issue' = [issue EXCEPT ![n] = r] /\ r.kind = issue[n].kind /\ r.work = issue[n].work
    BY <1>2, <1>5 DEF IssueRec
  <2> HIDE DEF r
  <2> QED  BY <1>3, <1>5, <2>1
<1>6. ASSUME NEW names, issue[n].pr = "open",
             issue' = [issue EXCEPT ![n].pr = "merged", ![n].names = names, ![n].open = FALSE]
      PROVE  Kept /\ Len(issue') = Len(issue)
  <2> DEFINE r == [issue[n] EXCEPT !.pr = "merged", !.names = names, !.open = FALSE]
  <2>1. issue' = [issue EXCEPT ![n] = r] /\ r.kind = issue[n].kind /\ r.work = issue[n].work
    BY <1>2, <1>6 DEF IssueRec
  <2> HIDE DEF r
  <2> QED  BY <1>3, <1>6, <2>1
<1>7. CASE issue[n].pr = "open" /\ issue' = [issue EXCEPT ![n].pr = "closed", ![n].open = FALSE]
  <2> DEFINE r == [issue[n] EXCEPT !.pr = "closed", !.open = FALSE]
  <2>1. issue' = [issue EXCEPT ![n] = r] /\ r.kind = issue[n].kind /\ r.work = issue[n].work
    BY <1>2, <1>7 DEF IssueRec
  <2> HIDE DEF r
  <2> QED  BY <1>3, <1>7, <2>1
<1>8. CASE issue' = [issue EXCEPT ![n].open = FALSE]
  <2> DEFINE r == [issue[n] EXCEPT !.open = FALSE]
  <2>1. issue' = [issue EXCEPT ![n] = r] /\ r.kind = issue[n].kind /\ r.work = issue[n].work /\ r.pr = issue[n].pr
        /\ r.names = issue[n].names
    BY <1>2, <1>8 DEF IssueRec
  <2> HIDE DEF r
  <2> QED  BY <1>3, <2>1
<1>9. CASE BotAnswers(n)
  BY <1>4, <1>9 DEF BotAnswers
<1>10. CASE BotOpensPR(n)
  BY <1>5, <1>10 DEF BotOpensPR
<1>11. CASE MaintainerCloses(n)
  BY <1>6, <1>7, <1>8, <1>11 DEF MaintainerCloses
<1> QED  BY <1>1, <1>9, <1>10, <1>11

(* An attempt to open an issue of a kind, and what it cost.                *)
Attempt(kind, w) ==
    \/ Posted(kind, w) \/ PostedTwice(kind, w)
    \/ PostFails(kind, w)

LEMMA AttemptKept ==
    ASSUME Typed, NEW kind \in RowKind, NEW w \in WorkId, Attempt(kind, w)
    PROVE  Kept
<1>1. CASE Posted(kind, w) \/ PostedTwice(kind, w)
  BY <1>1, PostedAdds, AddedKept
<1>2. CASE PostFails(kind, w)
  BY <1>2, FailedPostAdds, AddedKept, UnchangedKept
<1> QED  BY <1>1, <1>2 DEF Attempt

LEMMA IssuesKept == ASSUME Typed, Next PROVE Kept
<1>1. CASE Contribute
  <2>1. CASE SubmitNext
    <3>1. Head(stage.todo) \in RowKind /\ stage.work \in WorkId
      BY <2>1, FieldTypes, Constants DEF SubmitNext, Typed
    <3>2. UNCHANGED issue \/ Attempt(Head(stage.todo), stage.work)
      BY <2>1 DEF SubmitNext, Attempt
    <3> QED  BY <3>1, <3>2, AttemptKept, UnchangedKept
  <2>2. CASE Contribute /\ ~SubmitNext
    <3>1. UNCHANGED issue
      BY <2>2 DEF Contribute, StartStage, ResolveWorkSlug, StageFails, ParkStage, RecordPosted, FinishStage
    <3> QED  BY <3>1, UnchangedKept
  <2> QED  BY <1>1, <2>1, <2>2
<1>2. ASSUME NEW c \in Operator, Serve(c) PROVE Kept
  <2>1. CASE CreateCore(c)
    <3>1. Attempt("core", NoWork)
      BY <2>1 DEF CreateCore, Attempt
    <3> QED  BY <3>1, AttemptKept, Constants DEF WorkId
  <2>2. CASE Serve(c) /\ ~CreateCore(c)
    <3>1. UNCHANGED issue
      BY <2>2 DEF Serve, Handle, Request, LockAndRead, RecordCore, ClearPointer, FlipPark, SetWork, ReadmitBook
    <3> QED  BY <3>1, UnchangedKept
  <2> QED  BY <1>2, <2>1, <2>2
<1>3. CASE Turn
  BY <1>3, TurnWrites, UnchangedKept
<1>4. CASE World
  <2>1. CASE GitHub
    BY <2>1, GitHubKept
  <2>2. CASE CatalogMoves \/ Crash \/ \E k \in RowKind : IntervalPasses(k)
    BY <2>2, UnchangedKept DEF CatalogMoves, Crash, IntervalPasses
  <2> QED  BY <1>4, <2>1, <2>2 DEF World
<1> QED  BY <1>1, <1>2, <1>3, <1>4, Actors

LEMMA OpenedKept == ASSUME Kept, NEW kind PROVE Opened(kind) \subseteq Opened(kind)'
  BY DEF Kept, Opened

LEMMA LearntStays == ASSUME Kept, Learnt PROVE Learnt'
<1>1. PICK n \in Opened("core") : issue[n].pr = "merged" /\ issue[n].names = "one"
  BY DEF Learnt
<1>2. n \in Opened("core")' /\ issue'[n].pr = "merged" /\ issue'[n].names = "one"
  BY <1>1, OpenedKept DEF Kept, Opened
<1> QED  BY <1>2 DEF Learnt

-----------------------------------------------------------------------------
(* The lock is held by the call that proposes, and by nobody else.         *)
LEMMA LockKept == ASSUME ContribInv, Next PROVE LockInv'
<1>0. Typed /\ LockInv /\ NoOne \notin Operator /\ call \in [Operator -> CallRec] /\ lock \in Operator \cup {NoOne}
  BY Constants DEF ContribInv, Typed
<1>1. CASE UNCHANGED <<call, lock>>
  BY <1>0, <1>1 DEF LockInv
<1>2. ASSUME NEW c \in Operator, Serve(c) PROVE LockInv'
  <2>1. ASSUME NEW pc \in CallPc, call'[c].pc = pc, \A d \in Operator : d # c => call'[d] = call[d],
               \/ UNCHANGED lock /\ (pc \in Locked <=> call[c].pc \in Locked)
               \/ lock = NoOne /\ lock' = c /\ pc \in Locked
               \/ lock = c /\ lock' = NoOne /\ pc \notin Locked
        PROVE  LockInv'
    BY <1>0, <2>1 DEF LockInv
  <2>2. CASE LockAndRead(c)
    <3>1. CASE Return(c) /\ UNCHANGED lock
      BY <1>0, <2>1, <2>2, <3>1, CallReturns DEF LockAndRead, Locked, CallPc
    <3>2. ASSUME NEW pc \in {"flip", "create"}, lock = NoOne, lock' = c,
                 call' = [call EXCEPT ![c].pc = pc, ![c].park = book.park]
          PROVE  LockInv'
      <4>1. call'[c].pc = pc /\ \A d \in Operator : d # c => call'[d] = call[d]
        BY <1>0, <3>2 DEF CallRec
      <4> QED  BY <2>1, <3>2, <4>1 DEF Locked, CallPc
    <3> QED  BY <2>2, <3>1, <3>2 DEF LockAndRead
  <2>3. CASE CreateCore(c)
    <3>1. call[c].pc = "create" /\ lock = c
      BY <1>0, <2>3 DEF CreateCore, LockInv, Locked
    <3>2. CASE Then(c, "record") /\ UNCHANGED lock
      BY <1>0, <2>1, <3>1, <3>2, CallGoesOn DEF Locked, CallPc
    <3>3. CASE Unlock(c)
      BY <1>0, <2>1, <3>1, <3>3, CallReturns DEF Unlock, Locked, CallPc
    <3> QED  BY <2>3, <3>2, <3>3 DEF CreateCore
  <2>4. CASE RecordCore(c)
    <3>1. call[c].pc = "record" /\ lock = c
      BY <1>0, <2>4 DEF RecordCore, LockInv, Locked
    <3>2. CASE UNCHANGED lock /\ \E pc \in {"clear", "flip"} : Then(c, pc)
      BY <1>0, <2>1, <3>1, <3>2, CallGoesOn DEF Locked, CallPc
    <3>3. CASE Unlock(c)
      BY <1>0, <2>1, <3>1, <3>3, CallReturns DEF Unlock, Locked, CallPc
    <3> QED  BY <2>4, <3>2, <3>3 DEF RecordCore
  <2>5. CASE ClearPointer(c)
    BY <1>0, <2>1, <2>5, CallGoesOn DEF ClearPointer, Locked, CallPc
  <2>6. CASE FlipPark(c)
    <3>1. call[c].pc = "flip" /\ lock = c
      BY <1>0, <2>6 DEF FlipPark, LockInv, Locked
    <3> QED  BY <1>0, <2>1, <2>6, <3>1, CallReturns DEF FlipPark, Unlock, Locked, CallPc
  <2>7. CASE SetWork(c)
    BY <1>0, <2>1, <2>7, CallGoesOn, CallReturns DEF SetWork, Locked, CallPc
  <2>8. CASE ReadmitBook(c)
    BY <1>0, <2>1, <2>8, CallReturns DEF ReadmitBook, Locked, CallPc
  <2>9. ASSUME NEW op \in {"submit", "work", "retry"}, Request(c, op) PROVE LockInv'
    <3>1. UNCHANGED lock /\ call[c].pc = "idle"
      BY <2>9 DEF Request
    <3>2. \E pc \in {"lock", "work", "readmit"} : call' = [call EXCEPT ![c] = [IdleCall EXCEPT !.op = op, !.park = book.park, !.pc = pc]]
      BY <2>9 DEF Request
    <3>3. \E pc \in {"lock", "work", "readmit"} : call'[c].pc = pc /\ \A d \in Operator : d # c => call'[d] = call[d]
      BY <1>0, <3>2 DEF IdleCall
    <3> QED  BY <2>1, <3>1, <3>3 DEF Locked, CallPc
  <2> QED  BY <1>2, <2>2, <2>3, <2>4, <2>5, <2>6, <2>7, <2>8, <2>9 DEF Serve, Handle
<1>3. CASE Crash
  BY <1>0, <1>3 DEF Crash, LockInv, Locked, IdleCall
<1>4. CASE World /\ ~Crash
  BY <1>0, <1>1, <1>4, GitHubWrites DEF World, CatalogMoves, Outside, IntervalPasses
<1> QED  BY <1>1, <1>2, <1>3, <1>4, Actors, StageWrites, TurnWrites

(***************************************************************************)
(* What the rows become.                                                   *)
(***************************************************************************)

(* A row the poller advances names the issue it named; its status and its  *)
(* pull request are as they were, or as GitHub said of the listed row.     *)
LEMMA RowPolled ==
    ASSUME Typed, OpenInv, NEW k \in RowKind, AdvanceRow(k)
    PROVE  LET t == PollIssue(poller.seen[k])
           IN  /\ k \in poller.todo /\ poller.seen[k] \in RowRec /\ IsOpen(poller.seen[k]) /\ IsOpen(row[k])
               /\ poller.seen[k].issue \in 1..Len(issue)
               /\ (\A j \in RowKind : j # k => row'[j] = row[j]) /\ row'[k].issue = row[k].issue
               /\ \/ UNCHANGED ghost /\ row'[k].status = row[k].status /\ row'[k].pr = row[k].pr
                  \/ /\ row'[k].status = t.status /\ row'[k].pr = t.pr
                     /\ ghost' = IF k = "core" /\ t.status \in {"closed", "already_covered"}
                                 THEN [ghost EXCEPT !.settled = @ + 1] ELSE ghost
<1> DEFINE t  == PollIssue(poller.seen[k])
           ch == t # Target(poller.seen[k].status, poller.seen[k].pr, poller.seen[k].verdict)
<1>1. k \in poller.todo
  BY DEF AdvanceRow
<1>2. row \in [RowKind -> RowRec] /\ poller.seen \in [RowKind -> RowRec] /\ row[k].aged \in BOOLEAN
      /\ row[k].unlearned \in BOOLEAN
  BY FieldTypes DEF Typed
<1>3. /\ poller.seen[k] \in RowRec /\ IsOpen(poller.seen[k]) /\ IsOpen(row[k])
      /\ poller.seen[k].issue \in 1..Len(issue)
  BY <1>1, <1>2 DEF OpenInv, Opened
<1>4. t.status \in RowStatus /\ t.pr \in Nat /\ t.verdict \in Verdict
  BY <1>3, Polls
<1>5. CASE ch
  <2>1. SetRow(k, t.status, t.pr, t.verdict, row[k].unlearned)
    BY <1>5 DEF AdvanceRow
  <2>2. ghost' = IF k = "core" /\ t.status \in {"closed", "already_covered"}
                 THEN [ghost EXCEPT !.settled = @ + 1] ELSE ghost
    BY <1>5 DEF AdvanceRow
  <2> HIDE DEF t, ch
  <2>3. (\A j \in RowKind : j # k => row'[j] = row[j]) /\ row'[k].issue = row[k].issue
        /\ row'[k].status = t.status /\ row'[k].pr = t.pr
    BY <1>2, <1>4, <2>1, SetsRow
  <2> QED  BY <1>1, <1>3, <2>2, <2>3 DEF t
<1>6. CASE ~ch
  <2>1. UNCHANGED ghost
    BY <1>6 DEF AdvanceRow
  <2>2. \E a \in BOOLEAN : row' = [row EXCEPT ![k].aged = a]
    BY <1>2, <1>6 DEF AdvanceRow, RowRec
  <2>3. (\A j \in RowKind : j # k => row'[j] = row[j]) /\ row'[k].issue = row[k].issue
        /\ row'[k].status = row[k].status /\ row'[k].pr = row[k].pr
    BY <2>2, AgesRow
  <2> QED  BY <1>1, <1>3, <2>1, <2>3
<1> QED  BY <1>5, <1>6

LEMMA RowLearned ==
    ASSUME Typed, LearnWork
    PROVE  \/ UNCHANGED row
           \/ /\ \A j \in RowKind : j # "core" => row'[j] = row[j]
              /\ row'["core"].issue = row["core"].issue
              /\ row'["core"].status = poller.seen["core"].status /\ row'["core"].pr = poller.seen["core"].pr
<1> DEFINE r == poller.seen["core"]
<1>1. UNCHANGED row \/ SetRow("core", r.status, r.pr, r.verdict, TRUE)
  BY DEF LearnWork
<1>2. r \in RowRec /\ "core" \in RowKind
  BY Constants, FieldTypes DEF Typed
<1>3. r.status \in RowStatus /\ r.pr \in Nat /\ r.verdict \in Verdict
  BY <1>2, FieldTypes
<1>4. CASE SetRow("core", r.status, r.pr, r.verdict, TRUE)
  <2> HIDE DEF r
  <2>1. /\ \A j \in RowKind : j # "core" => row'[j] = row[j]
        /\ row'["core"].issue = row["core"].issue /\ row'["core"].status = r.status /\ row'["core"].pr = r.pr
    BY <1>2, <1>3, <1>4, SetsRow, ZenonT(30)
  <2> QED  BY <2>1 DEF r
<1> QED  BY <1>1, <1>4

LEMMA TurnRows ==
    ASSUME Turn
    PROVE  UNCHANGED <<row, ghost>> \/ (LearnWork /\ UNCHANGED ghost) \/ \E k \in RowKind : AdvanceRow(k)
<1>1. ASSUME NEW k \in RowKind, SkipRow(k) PROVE UNCHANGED <<row, ghost>>
  BY <1>1 DEF SkipRow
<1>2. CASE LearnWork
  BY <1>2 DEF LearnWork
<1>3. CASE Poll /\ ~LearnWork /\ ~\E k \in RowKind : AdvanceRow(k)
  BY <1>3 DEF Poll, ListOpen, ReadForVerdict, FollowVerdict, ListAwaiting, AdmitWhenLive, FinishAdmit, ListUnresolved,
              EndTick, TellUnlearned
<1> QED  BY <1>1, <1>2, <1>3 DEF Turn

(* A call writes the row of the proposal only, on two of its steps.        *)
LEMMA CoreRecorded ==
    ASSUME Typed, NEW c \in Operator, RecordCore(c)
    PROVE  /\ \A d \in Operator : d # c => call'[d] = call[d]
           /\ \A j \in RowKind : j # "core" => row'[j] = row[j]
           /\ \/ /\ \E n \in Opened("core") : row'["core"].issue = n
                 /\ row'["core"].status = "submitted" /\ row'["core"].pr = row["core"].pr
                 /\ call'[c].pc = (IF row["core"].pr # 0 THEN "clear" ELSE "flip")
                 /\ UNCHANGED ghost
              \/ /\ UNCHANGED row /\ call'[c].pc = "idle"
                 /\ ghost'.settled = ghost.settled /\ ghost'.lost = ghost.lost + 1
<1>1. CASE Unlock(c) /\ LoseOne /\ UNCHANGED row
  <2>1. call'[c].pc = "idle" /\ \A d \in Operator : d # c => call'[d] = call[d]
    BY <1>1, CallReturns DEF Unlock
  <2>2. ghost'.settled = ghost.settled /\ ghost'.lost = ghost.lost + 1
    BY <1>1, LostMore DEF LoseOne, Typed
  <2> QED  BY <1>1, <2>1, <2>2
<1>2. CASE /\ \E n \in Opened("core") : Upsert("core", "submitted", n)
           /\ Then(c, IF row["core"].pr # 0 THEN "clear" ELSE "flip") /\ UNCHANGED ghost
  <2>1. PICK n \in Opened("core") : Upsert("core", "submitted", n)
    BY <1>2
  <2>2. n \in Nat /\ "core" \in RowKind /\ "submitted" \in RowStatus
    BY <2>1, Constants DEF Opened, RowStatus
  <2>3. row'["core"].issue = n /\ row'["core"].status = "submitted" /\ row'["core"].pr = row["core"].pr
        /\ \A j \in RowKind : j # "core" => row'[j] = row[j]
    BY <2>1, <2>2, Upserts
  <2>4. /\ call'[c].pc = (IF row["core"].pr # 0 THEN "clear" ELSE "flip")
        /\ \A d \in Operator : d # c => call'[d] = call[d]
    BY <1>2, CallGoesOn DEF CallPc
  <2> QED  BY <1>2, <2>1, <2>3, <2>4
<1> QED  BY <1>1, <1>2 DEF RecordCore, Opened

LEMMA PointerCleared ==
    ASSUME Typed, NEW c \in Operator, ClearPointer(c)
    PROVE  /\ row'["core"].issue = row["core"].issue /\ row'["core"].status = "submitted" /\ row'["core"].pr = 0
           /\ \A j \in RowKind : j # "core" => row'[j] = row[j]
           /\ call'[c].pc = "flip" /\ \A d \in Operator : d # c => call'[d] = call[d]
<1>1. SetRow("core", "submitted", 0, "none", FALSE) /\ Then(c, "flip")
  BY DEF ClearPointer
<1>2. "core" \in RowKind /\ "submitted" \in RowStatus /\ "none" \in Verdict /\ 0 \in Nat /\ "flip" \in CallPc
  BY Constants DEF RowStatus, Verdict, CallPc
<1>3. /\ row'["core"].issue = row["core"].issue /\ row'["core"].status = "submitted" /\ row'["core"].pr = 0
      /\ \A j \in RowKind : j # "core" => row'[j] = row[j]
  BY <1>1, <1>2, SetsRow, Zenon
<1>4. call'[c].pc = "flip" /\ \A d \in Operator : d # c => call'[d] = call[d]
  BY <1>1, <1>2, CallGoesOn
<1> QED  BY <1>3, <1>4

LEMMA CallRows ==
    ASSUME NEW c \in Operator, Serve(c)
    PROVE  UNCHANGED row \/ RecordCore(c) \/ ClearPointer(c)
  BY DEF Serve, Handle, Request, LockAndRead, CreateCore, FlipPark, SetWork, ReadmitBook

LEMMA WorldRows ==
    ASSUME Typed, World, NEW k \in RowKind
    PROVE  row'[k].status = row[k].status /\ row'[k].issue = row[k].issue /\ row'[k].pr = row[k].pr
<1>1. UNCHANGED row \/ \E j \in RowKind : row' = [row EXCEPT ![j].aged = TRUE]
  BY GitHubWrites DEF World, CatalogMoves, Outside, Crash, IntervalPasses
<1> QED  BY <1>1, AgesRow

(* What the stage makes of the dimension it is at.                         *)
LEMMA RowSubmitted ==
    ASSUME Typed, StageInv, Contribute
    PROVE  \/ /\ UNCHANGED row
              /\ RecordPosted => UNCHANGED issue /\ ghost'.settled = ghost.settled /\ ghost'.lost = ghost.lost + 1
           \/ LET k == Head(stage.todo)
              IN  /\ stage.pc \in {"submit", "record"} /\ stage.todo # <<>> /\ NextDimension
                  /\ k \in Sidecar /\ row[k].issue = 0 /\ row'[k].pr = row[k].pr
                  /\ \A j \in RowKind : j # k => row'[j] = row[j]
                  /\ \/ SubmitNext /\ row'[k].issue = 0 /\ row'[k].status \in {"already_covered", "local"}
                        /\ UNCHANGED <<issue, ghost>>
                     \/ RecordPosted /\ row'[k].issue \in Opened(k) /\ row'[k].status = "submitted"
                        /\ UNCHANGED <<issue, ghost>>
<1> DEFINE k == Head(stage.todo)
<1>1. stage \in StageRec /\ stage.todo \in Seq(Sidecar)
  BY FieldTypes DEF Typed
<1>2. CASE SubmitNext
  <2>1. stage.todo # <<>> /\ stage.pc = "submit"
    BY <1>2 DEF SubmitNext
  <2>0. ~RecordPosted
    BY <2>1 DEF RecordPosted
  <2>2. k \in Sidecar /\ k \in RowKind /\ 1 \in 1..Len(stage.todo) /\ k = stage.todo[1]
    BY <1>1, <2>1, Constants
  <2>3. stage.seen[k].issue = row[k].issue
    BY <2>1, <2>2 DEF StageInv
  <2>4. CASE /\ ~RowSettled(stage.seen[k]) /\ (Upsert(k, "already_covered", 0) \/ Upsert(k, "local", 0))
             /\ NextDimension /\ UNCHANGED <<issue, ghost>>
    <3>1. row[k].issue = 0
      BY <2>3, <2>4 DEF RowSettled
    <3>2. /\ row'[k].pr = row[k].pr /\ (\A j \in RowKind : j # k => row'[j] = row[j]) /\ row'[k].issue = 0
          /\ row'[k].status \in {"already_covered", "local"}
      BY <2>2, <2>4, Upserts DEF RowStatus
    <3> QED  BY <1>2, <2>1, <2>2, <2>4, <3>1, <3>2
  <2> QED  BY <1>2, <2>0, <2>4 DEF SubmitNext
<1>3. CASE RecordPosted
  <2>1. stage.pc = "record" /\ UNCHANGED issue
    BY <1>3 DEF RecordPosted
  <2>2. stage.todo # <<>> /\ row[k].issue = 0
    BY <2>1 DEF StageInv
  <2>3. k \in Sidecar /\ k \in RowKind
    BY <1>1, <2>2, Constants
  <2>4. CASE LoseOne /\ UNCHANGED row
    <3>1. ghost'.settled = ghost.settled /\ ghost'.lost = ghost.lost + 1
      BY <2>4, LostMore DEF LoseOne, Typed
    <3> QED  BY <2>1, <2>4, <3>1
  <2>5. CASE NextDimension /\ UNCHANGED ghost /\ \E n \in Opened(k) : Upsert(k, "submitted", n)
    <3>1. PICK n \in Opened(k) : Upsert(k, "submitted", n)
      BY <2>5
    <3>2. n \in Nat
      BY <3>1 DEF Opened
    <3>3. /\ row'[k].pr = row[k].pr /\ (\A j \in RowKind : j # k => row'[j] = row[j]) /\ row'[k].issue \in Opened(k)
          /\ row'[k].status = "submitted"
      BY <2>3, <3>1, <3>2, Upserts DEF RowStatus
    <3> QED  BY <1>3, <2>1, <2>2, <2>3, <2>5, <3>3
  <2> QED  BY <1>3, <2>4, <2>5 DEF RecordPosted, Opened
<1>4. CASE Contribute /\ ~SubmitNext /\ ~RecordPosted
  BY <1>4 DEF Contribute, StartStage, ResolveWorkSlug, StageFails, ParkStage, FinishStage
<1> QED  BY <1>2, <1>3, <1>4

(* The poller's list is made once in a tick, and only gets shorter.        *)
LEMMA ListShrinks ==
    ASSUME Typed, OpenInv, Turn, ~ListOpen
    PROVE  /\ poller'.todo \subseteq poller.todo /\ \A k \in poller'.todo : poller'.seen[k] = poller.seen[k]
           /\ poller'.pc \notin {"rows", "verdict", "verdict_readmit", "verdict_write"} => poller'.todo = {}
           /\ poller'.pc = "learning" => ListUnresolved
<1>0. poller \in PollerRec /\ poller.todo \in SUBSET RowKind /\ IdlePoller.todo = {} /\ IdlePoller.pc = "idle"
  BY FieldTypes DEF Typed, IdlePoller
<1>1. CASE ReadForVerdict \/ FollowVerdict
  <2>1. \E pc \in {"rows", "verdict_readmit", "verdict_write"} : GoOn(pc)
    BY <1>1 DEF ReadForVerdict, FollowVerdict
  <2>2. /\ poller'.todo = poller.todo /\ poller'.seen = poller.seen
        /\ poller'.pc \in {"rows", "verdict_readmit", "verdict_write"}
    BY <2>1, PollerGoesOn DEF PollerPc
  <2> QED  BY <2>2
<1>2. CASE ListAwaiting \/ EndTick \/ TellUnlearned
  <2>1. poller' = IdlePoller \/ Listed("admit", "learn")
    BY <1>2 DEF ListAwaiting, EndTick, TellUnlearned
  <2>2. poller'.todo = {} /\ poller'.pc \in {"idle", "admit"}
    BY <1>0, <2>1, RecordTypes DEF Listed, PollerRec
  <2> QED  BY <2>2
<1>3. CASE AdmitWhenLive \/ FinishAdmit
  <2>1. /\ poller.todo = {} /\ poller.after \in {"idle", "learn"}
        /\ \E pc \in {"admit_wait", "admit_readmit", poller.after} : GoOn(pc)
    BY <1>3, FieldTypes DEF AdmitWhenLive, FinishAdmit, OpenInv, Typed
  <2>2. PICK pc \in {"admit_wait", "admit_readmit", poller.after} : GoOn(pc)
    BY <2>1
  <2>3. pc \in PollerPc \ {"learning"}
    BY <2>1, <2>2 DEF PollerPc
  <2>4. poller'.todo = {} /\ poller'.pc # "learning"
    BY <2>1, <2>2, <2>3, PollerGoesOn
  <2> QED  BY <2>4
<1>4. CASE ListUnresolved
  <2>1. poller'.todo = {}
    BY <1>4 DEF ListUnresolved, IdlePoller
  <2> QED  BY <1>4, <2>1
<1>5. CASE LearnWork
  <2>1. poller.todo = {}
    BY <1>5 DEF LearnWork, OpenInv
  <2>2. \/ poller' = IdlePoller \/ poller' = [IdlePoller EXCEPT !.pc = "tell"]
        \/ poller' = [poller EXCEPT !.pc = "admit", !.after = "idle", !.work = "learned", !.seen["core"] = NoRow]
    BY <1>5 DEF LearnWork
  <2>3. poller'.todo = {} /\ poller'.pc \in {"idle", "tell", "admit"}
    BY <1>0, <2>1, <2>2, RecordTypes DEF PollerRec
  <2> QED  BY <2>3
<1>6. ASSUME NEW k \in RowKind, AdvanceRow(k)
      PROVE  /\ poller'.todo \subseteq poller.todo /\ \A j \in poller'.todo : poller'.seen[j] = poller.seen[j]
             /\ poller'.pc \in {"rows", "verdict"}
  <2>1. poller.seen[k] \in RowRec /\ IsOpen(poller.seen[k]) /\ poller.seen[k].issue \in 1..Len(issue)
    BY <1>6, RowPolled
  <2>2. PollIssue(poller.seen[k]).verdict \in Verdict
    BY <2>1, Polls
  <2>3. /\ poller'.pc \in {"rows", "verdict"} /\ poller'.todo = poller.todo \ {k}
        /\ \A j \in RowKind : j # k => poller'.seen[j] = poller.seen[j]
    BY <1>6, <2>2, RowAdvanced
  <2> QED  BY <1>0, <2>3
<1>7. ASSUME NEW k \in RowKind, SkipRow(k)
      PROVE  /\ poller'.todo \subseteq poller.todo /\ \A j \in poller'.todo : poller'.seen[j] = poller.seen[j]
             /\ poller'.pc = "rows"
  <2>1. poller' = [poller EXCEPT !.todo = @ \ {k}, !.seen[k] = NoRow] /\ poller.pc = "rows"
    BY <1>7 DEF SkipRow
  <2>2. poller'.todo = poller.todo \ {k} /\ poller'.pc = "rows" /\ \A j \in RowKind : j # k => poller'.seen[j] = poller.seen[j]
    BY <1>0, <2>1 DEF PollerRec
  <2> QED  BY <1>0, <2>2
<1>8. \/ ReadForVerdict \/ FollowVerdict \/ ListAwaiting \/ EndTick \/ TellUnlearned \/ AdmitWhenLive \/ FinishAdmit
      \/ ListUnresolved \/ LearnWork \/ (\E k \in RowKind : AdvanceRow(k)) \/ \E k \in RowKind : SkipRow(k)
  BY DEF Turn, Poll
<1> QED  BY <1>1, <1>2, <1>3, <1>4, <1>5, <1>6, <1>7, <1>8

-----------------------------------------------------------------------------
(* The rows in flight.                                                     *)
LEMMA OpenKept == ASSUME ContribInv, Next PROVE OpenInv'
<1>0. /\ Typed /\ OpenInv /\ StageInv /\ CoreInv /\ Kept /\ "core" \in RowKind /\ "core" \notin Sidecar
      /\ row \in [RowKind -> RowRec] /\ poller.todo \in SUBSET RowKind
  BY Constants, IssuesKept, FieldTypes DEF ContribInv, Typed
<1>1. \A k \in RowKind : Opened(k) \subseteq Opened(k)'
  BY <1>0, OpenedKept
<1>2. \A k \in RowKind : 0 \notin Opened(k)
  BY DEF Opened
(* Steps that leave the poller its list: the rows on it stay open. *)
<1> DEFINE Same(k)  == row'[k].status = row[k].status /\ row'[k].issue = row[k].issue
           Fresh(k) == ~IsOpen(row[k]) /\ (IsOpen(row'[k]) => row'[k].issue \in Opened(k)')
           Still(k) == IsOpen(row'[k]) /\ row'[k].issue = row[k].issue /\ row[k].issue \in Opened(k)
<1>3. ASSUME UNCHANGED poller, \A k \in RowKind : Same(k) \/ Fresh(k) \/ Still(k)
      PROVE  OpenInv'
  <2>1. \A k \in RowKind : IsOpen(row'[k]) => row'[k].issue \in Opened(k)'
    BY <1>0, <1>1, <1>3 DEF OpenInv, IsOpen
  <2>2. \A k \in poller.todo : IsOpen(row'[k]) /\ row'[k].issue = row[k].issue
    BY <1>0, <1>3 DEF OpenInv, IsOpen
  <2> QED  BY <1>0, <1>3, <2>1, <2>2 DEF OpenInv
<1>a. ASSUME UNCHANGED <<poller, row>> PROVE OpenInv'
  <2>1. \A k \in RowKind : Same(k)
    BY <1>a
  <2> HIDE DEF Same, Fresh, Still
  <2> QED  BY <1>3, <1>a, <2>1
<1>4. CASE Contribute
  <2>1. UNCHANGED poller
    BY <1>4, StageWrites
  <2>2. CASE UNCHANGED row
    BY <1>a, <2>1, <2>2
  <2>3. CASE ~UNCHANGED row
    <3>1. PICK k \in Sidecar :
             /\ row[k].issue = 0 /\ \A j \in RowKind : j # k => row'[j] = row[j]
             /\ \/ row'[k].status \in {"already_covered", "local"}
                \/ row'[k].issue \in Opened(k) /\ row'[k].status = "submitted"
      BY <1>0, <1>4, <2>3, RowSubmitted
    <3>2. k \in RowKind
      BY <3>1, Constants
    <3>3. ~IsOpen(row[k])
      BY <1>0, <1>2, <3>1, <3>2 DEF OpenInv
    <3>4. IsOpen(row'[k]) => row'[k].issue \in Opened(k)'
      <4>1. CASE row'[k].status \in {"already_covered", "local"}
        BY <4>1 DEF IsOpen
      <4>2. CASE row'[k].issue \in Opened(k)
        <5>1. Opened(k) \subseteq Opened(k)'
          BY <1>1, <3>2
        <5> QED  BY <4>2, <5>1
      <4> QED  BY <3>1, <4>1, <4>2
    <3>5. Fresh(k)
      BY <3>3, <3>4
    <3>6. \A j \in RowKind : j # k => Same(j)
      BY <3>1
    <3> HIDE DEF Same, Fresh, Still
    <3> QED  BY <1>3, <2>1, <3>5, <3>6
  <2> QED  BY <2>2, <2>3
<1>5. ASSUME NEW c \in Operator, Serve(c) PROVE OpenInv'
  <2>1. UNCHANGED poller
    BY <1>5, CallWrites
  <2>2. CASE UNCHANGED row
    BY <1>a, <2>1, <2>2
  <2>3. CASE RecordCore(c) /\ ~UNCHANGED row
    <3>1. ~IsOpen(row["core"])
      BY <1>0, <2>3 DEF CoreInv, RecordCore, InFlight, IsOpen
    <3>2. row'["core"].issue \in Opened("core") /\ \A j \in RowKind : j # "core" => row'[j] = row[j]
      BY <1>0, <2>3, CoreRecorded
    <3>3. Fresh("core")
      BY <1>0, <1>1, <3>1, <3>2
    <3>4. \A j \in RowKind : j # "core" => Same(j)
      BY <3>2
    <3> HIDE DEF Same, Fresh, Still
    <3> QED  BY <1>3, <2>1, <3>3, <3>4
  <2>4. CASE ClearPointer(c)
    <3>1. row["core"].issue \in Opened("core")
      BY <1>0, <2>4 DEF CoreInv, ClearPointer
    <3>2. /\ row'["core"].issue = row["core"].issue /\ row'["core"].status = "submitted"
          /\ \A j \in RowKind : j # "core" => row'[j] = row[j]
      BY <1>0, <2>4, PointerCleared
    <3>3. IsOpen(row'["core"])
      BY <3>2 DEF IsOpen
    <3>4. Still("core")
      BY <3>1, <3>2, <3>3
    <3>5. \A j \in RowKind : j # "core" => Same(j)
      BY <3>2
    <3> HIDE DEF Same, Fresh, Still
    <3> QED  BY <1>3, <2>1, <3>4, <3>5
  <2> QED  BY <1>5, <2>2, <2>3, <2>4, CallRows
<1>6. CASE World /\ ~Crash
  <2>1. UNCHANGED poller
    BY <1>0, <1>6, GitHubWrites DEF World, CatalogMoves, Outside, IntervalPasses
  <2>2. \A k \in RowKind : Same(k)
    BY <1>0, <1>6, WorldRows
  <2> HIDE DEF Same, Fresh, Still
  <2> QED  BY <1>3, <2>1, <2>2
<1>7. CASE Crash
  <2>1. UNCHANGED row /\ poller' = IdlePoller
    BY <1>7 DEF Crash
  <2> QED  BY <1>0, <1>1, <2>1 DEF OpenInv, IdlePoller
<1>8. CASE Turn
  <2>1. UNCHANGED issue
    BY <1>8, TurnWrites
  <2>2. CASE ListOpen
    <3>1. UNCHANGED row
      BY <2>2 DEF ListOpen
    <3>2. /\ poller'.pc = "rows" /\ poller'.todo = {k \in RowKind : Due(row[k])}
          /\ \A k \in RowKind : Due(row[k]) => poller'.seen[k] = row[k]
      BY <2>2 DEF ListOpen, IdlePoller
    <3>3. \A k \in poller'.todo : IsOpen(row[k]) /\ poller'.seen[k] = row[k]
      BY <3>2 DEF Due
    <3> QED  BY <1>0, <1>1, <3>1, <3>2, <3>3 DEF OpenInv
  <2>3. CASE ~ListOpen
    <3>1. /\ poller'.todo \subseteq poller.todo /\ \A k \in poller'.todo : poller'.seen[k] = poller.seen[k]
          /\ poller'.pc \notin {"rows", "verdict", "verdict_readmit", "verdict_write"} => poller'.todo = {}
      BY <1>0, <1>8, <2>3, ListShrinks
    <3>2. \A j \in RowKind : row'[j].issue = row[j].issue /\ (IsOpen(row'[j]) => IsOpen(row[j]))
      <4>1. ASSUME NEW k \in RowKind, AdvanceRow(k)
            PROVE  \A j \in RowKind : row'[j].issue = row[j].issue /\ (IsOpen(row'[j]) => IsOpen(row[j]))
        BY <1>0, <4>1, RowPolled
      <4>2. CASE LearnWork
        <5>1. \A k \in RowKind : row'[k].status = row[k].status /\ row'[k].issue = row[k].issue
          BY <1>0, <4>2, RowLearned DEF CoreInv, LearnWork
        <5> QED  BY <5>1 DEF IsOpen
      <4> QED  BY <1>8, <4>1, <4>2, TurnRows
    <3>3. \A j \in RowKind : IsOpen(row'[j]) => row'[j].issue \in Opened(j)'
      BY <1>0, <1>1, <3>2 DEF OpenInv
    <3>4. \A j \in poller'.todo : IsOpen(row'[j])
      <4>1. ASSUME NEW k \in RowKind, AdvanceRow(k) PROVE \A j \in poller'.todo : IsOpen(row'[j])
        <5>1. (\A j \in RowKind : j # k => row'[j] = row[j]) /\ k \notin poller'.todo
          BY <1>0, <4>1, RowPolled, RowAdvanced, Polls
        <5> QED  BY <1>0, <3>1, <5>1 DEF OpenInv
      <4>2. CASE LearnWork
        BY <1>0, <3>1, <4>2 DEF OpenInv, LearnWork
      <4> QED  BY <1>0, <1>8, <3>1, <4>1, <4>2, TurnRows DEF OpenInv
    <3>5. \A j \in poller'.todo : IsOpen(poller'.seen[j]) /\ poller'.seen[j].issue = row'[j].issue
      BY <1>0, <3>1, <3>2 DEF OpenInv
    <3> QED  BY <3>1, <3>3, <3>4, <3>5 DEF OpenInv
  <2> QED  BY <2>2, <2>3
<1> QED  BY <1>4, <1>5, <1>6, <1>7, <1>8, Actors

-----------------------------------------------------------------------------
(* The dimensions the stage is still to submit.                            *)
LEMMA StageKept == ASSUME ContribInv, Next PROVE StageInv'
<1>0. /\ Typed /\ OpenInv /\ StageInv /\ CoreInv /\ "core" \in RowKind /\ "core" \notin Sidecar /\ Sidecar \subseteq RowKind
      /\ row \in [RowKind -> RowRec] /\ stage \in StageRec /\ stage.todo \in Seq(Sidecar) /\ Len(stage.todo) \in Nat
  BY Constants, FieldTypes DEF ContribInv, Typed
<1>1. ASSUME UNCHANGED stage, \A k \in Sidecar : row'[k].issue = row[k].issue PROVE StageInv'
  <2>1. \A i \in 1..Len(stage.todo) : stage.todo[i] \in Sidecar
    BY <1>0
  <2>2. stage.todo # <<>> => Head(stage.todo) \in Sidecar
    BY <1>0
  <2> QED  BY <1>0, <1>1, <2>1, <2>2 DEF StageInv
<1>2. ASSUME stage'.pc \notin {"submit", "record"} PROVE StageInv'
  BY <1>2 DEF StageInv
<1>3. ASSUME NEW w, stage'.todo = Dimensions, stage'.pc = "submit", UNCHANGED row,
             \A k \in Sidecar : stage'.seen[k] = row[k]
      PROVE  StageInv'
  <2>1. \A i \in 1..Len(Dimensions) : Dimensions[i] \in Sidecar
    BY DEF Sidecar
  <2>2. \A i \in 1..Len(Dimensions) : stage'.seen[Dimensions[i]].issue = row'[Dimensions[i]].issue
    BY <1>3, <2>1
  <2> QED  BY <1>3, <2>2, Constants DEF StageInv
<1>4. ASSUME stage.pc \in {"submit", "record"}, stage.todo # <<>>, NextDimension,
             \A j \in RowKind : j # Head(stage.todo) => row'[j] = row[j]
      PROVE  StageInv'
  <2> DEFINE h == Head(stage.todo)
             t == Tail(stage.todo)
  <2>1. /\ stage'.pc = "submit" /\ stage'.todo = t /\ h \in Sidecar
        /\ \A k \in Sidecar : k # h => stage'.seen[k] = stage.seen[k]
    BY <1>0, <1>4, StageGoesOn
  <2>2. /\ Len(t) \in Nat /\ Len(t) = Len(stage.todo) - 1 /\ h = stage.todo[1]
        /\ \A i \in 1..Len(t) : t[i] = stage.todo[i + 1] /\ i + 1 \in 1..Len(stage.todo)
    BY <1>0, <1>4
  <2> HIDE DEF h, t
  <2>3. /\ \A i, j \in 1..Len(stage.todo) : stage.todo[i] = stage.todo[j] => i = j
        /\ \A i \in 1..Len(stage.todo) : stage.seen[stage.todo[i]].issue = row[stage.todo[i]].issue
    BY <1>0, <1>4 DEF StageInv
  <2>4. \A i \in 1..Len(t) : t[i] # h
    <3> SUFFICES ASSUME NEW i \in 1..Len(t), t[i] = h PROVE FALSE
      OBVIOUS
    <3>1. i \in Nat /\ i + 1 \in 1..Len(stage.todo) /\ 1 \in 1..Len(stage.todo) /\ stage.todo[i + 1] = stage.todo[1]
      BY <1>0, <2>2
    <3>2. i + 1 = 1
      BY <2>3, <3>1
    <3> QED  BY <3>2
  <2>5. \A i \in 1..Len(t) : t[i] \in Sidecar /\ t[i] \in RowKind
    BY <1>0, <2>2
  <2>6. \A i, j \in 1..Len(t) : t[i] = t[j] => i = j
    <3> SUFFICES ASSUME NEW i \in 1..Len(t), NEW j \in 1..Len(t), t[i] = t[j] PROVE i = j
      OBVIOUS
    <3>1. i + 1 \in 1..Len(stage.todo) /\ j + 1 \in 1..Len(stage.todo) /\ stage.todo[i + 1] = stage.todo[j + 1]
      BY <2>2
    <3>2. i + 1 = j + 1
      BY <2>3, <3>1
    <3> QED  BY <2>2, <3>2
  <2>7. \A i \in 1..Len(t) : stage'.seen[t[i]].issue = row'[t[i]].issue
    <3> SUFFICES ASSUME NEW i \in 1..Len(t) PROVE stage'.seen[t[i]].issue = row'[t[i]].issue
      OBVIOUS
    <3>1. stage'.seen[t[i]] = stage.seen[t[i]] /\ row'[t[i]] = row[t[i]]
      BY <1>4, <2>1, <2>4, <2>5 DEF h
    <3>2. stage.seen[t[i]].issue = row[t[i]].issue
      BY <2>2, <2>3
    <3> QED  BY <3>1, <3>2
  <2> QED  BY <2>1, <2>6, <2>7 DEF StageInv
<1>5. CASE Contribute
  <2>1. CASE StartStage \/ ParkStage \/ FinishStage
    <3>1. stage'.pc \in {"off", "resolve"}
      <4>1. IdleStage.pc = "off" /\ \A w : [IdleStage EXCEPT !.pc = "resolve", !.work = w].pc = "resolve"
        BY RecordTypes DEF IdleStage
      <4> QED  BY <2>1, <4>1 DEF StartStage, ParkStage, FinishStage
    <3> QED  BY <1>2, <3>1
  <2>2. CASE ResolveWorkSlug
    <3>1. UNCHANGED row /\ stage.pc = "resolve" /\ (LookUp \/ (\E w \in WorkId : ToSubmit(w)) \/ ToPark("core_pending", "release"))
      <4>1. stage.work \in WorkId /\ Usable(stage.work)
        BY <1>0, <2>2, FieldTypes DEF ContribInv, WorkInv, ResolveWorkSlug
      <4> QED  BY <1>0, <2>2, <4>1, Resolves DEF ResolveWorkSlug
    <3>2. CASE LookUp
      <4>1. /\ stage'.pc \in {"submit", "park"}
            /\ stage'.pc = "submit" => stage'.todo = Dimensions /\ \A k \in Sidecar : stage'.seen[k] = row[k]
        BY <1>0, <3>2, LooksUp
      <4> QED  BY <1>2, <1>3, <3>1, <4>1
    <3>3. ASSUME NEW w \in WorkId, ToSubmit(w) PROVE StageInv'
      BY <1>0, <1>3, <3>1, <3>3, StageSubmits
    <3>4. CASE ToPark("core_pending", "release")
      BY <1>0, <1>2, <3>4, StageParks DEF Park, Msg
    <3> QED  BY <3>1, <3>2, <3>3, <3>4
  <2>3. CASE StageFails
    <3>1. stage'.pc = "park"
      BY <1>0, <2>3 DEF StageFails, ToPark, StageRec
    <3> QED  BY <1>2, <3>1
  <2>4. CASE SubmitNext \/ RecordPosted
    <3>1. CASE ~UNCHANGED row
      <4>1. stage.pc \in {"submit", "record"} /\ stage.todo # <<>> /\ NextDimension
            /\ \A j \in RowKind : j # Head(stage.todo) => row'[j] = row[j]
        BY <1>0, <1>5, <3>1, RowSubmitted
      <4> QED  BY <1>4, <4>1
    <3>2. CASE UNCHANGED row /\ NextDimension
      <4>1. stage.pc \in {"submit", "record"} /\ stage.todo # <<>>
        BY <1>0, <2>4 DEF SubmitNext, RecordPosted, StageInv
      <4> QED  BY <1>4, <3>2, <4>1
    <3>3. CASE UNCHANGED row /\ ~NextDimension
      <4>1. SubmitNext \/ ToPark("failed", "none")
        BY <2>4, <3>3 DEF RecordPosted
      <4>2. CASE \E p, m : ToPark(p, m)
        <5>1. stage'.pc = "park"
          BY <1>0, <4>2 DEF ToPark, StageRec
        <5> QED  BY <1>2, <5>1
      <4>3. CASE SubmitNext /\ stage' = [stage EXCEPT !.pc = "record"] /\ ~RowSettled(stage.seen[Head(stage.todo)])
        <5>1. stage'.pc = "record" /\ stage'.todo = stage.todo /\ stage'.seen = stage.seen
          BY <1>0, <4>3 DEF StageRec
        <5>2. stage.todo # <<>> /\ stage.pc = "submit"
          BY <4>3 DEF SubmitNext
        <5>3. 1 \in 1..Len(stage.todo) /\ Head(stage.todo) = stage.todo[1]
          BY <1>0, <5>2
        <5>4. row[Head(stage.todo)].issue = 0
          BY <1>0, <4>3, <5>2, <5>3 DEF StageInv, RowSettled
        <5> QED  BY <1>0, <3>3, <5>1, <5>2, <5>4 DEF StageInv
      <4> QED  BY <3>3, <4>1, <4>2, <4>3 DEF SubmitNext
    <3> QED  BY <3>1, <3>2, <3>3
  <2> QED  BY <1>5, <2>1, <2>2, <2>3, <2>4 DEF Contribute
<1>6. ASSUME NEW c \in Operator, Serve(c) PROVE StageInv'
  <2>1. UNCHANGED stage
    BY <1>6, CallWrites
  <2>2. \A k \in Sidecar : row'[k].issue = row[k].issue
    BY <1>0, <1>6, CallRows, CoreRecorded, PointerCleared
  <2> QED  BY <1>1, <2>1, <2>2
<1>7. CASE Turn
  <2>1. UNCHANGED stage
    BY <1>7, TurnWrites
  <2>2. \A k \in Sidecar : row'[k].issue = row[k].issue
    <3>1. ASSUME NEW j \in RowKind, AdvanceRow(j) PROVE \A k \in Sidecar : row'[k].issue = row[k].issue
      BY <1>0, <3>1, RowPolled
    <3> QED  BY <1>0, <1>7, <3>1, TurnRows, RowLearned
  <2> QED  BY <1>1, <2>1, <2>2
<1>8. CASE World /\ ~Crash
  <2>1. UNCHANGED stage
    BY <1>0, <1>8, GitHubWrites DEF World, CatalogMoves, Outside, IntervalPasses
  <2> QED  BY <1>0, <1>1, <1>8, <2>1, WorldRows
<1>9. CASE Crash
  BY <1>2, <1>9 DEF Crash, IdleStage
<1> QED  BY <1>5, <1>6, <1>7, <1>8, <1>9, Actors

-----------------------------------------------------------------------------
(* The row of the proposal.                                                *)

LEMMA SoundStays ==
    ASSUME Kept, NEW r, r.issue \in Nat, r.pr \in Nat, RowSound(r), NEW q,
           q.status = r.status, q.issue = r.issue, q.pr = r.pr
    PROVE  SoundOn(issue', q)
<1>1. SoundOn(issue, r)
  BY DEF RowSound
<1>2. r.issue \in 1..Len(issue) => r.issue \in 1..Len(issue') /\ issue'[r.issue].kind = issue[r.issue].kind
  BY DEF Kept
<1>3. r.pr \in 1..Len(issue) =>
         /\ r.pr \in 1..Len(issue') /\ issue'[r.pr].kind = issue[r.pr].kind
         /\ issue[r.pr].pr \in {"merged", "closed"} => issue'[r.pr].pr = issue[r.pr].pr
  BY DEF Kept
<1> QED  BY <1>1, <1>2, <1>3 DEF SoundOn

(* A row the poller advanced says what the pull request it names says.     *)
LEMMA SoundPolled ==
    ASSUME Typed, NEW r \in RowRec, IsOpen(r), r.issue \in 1..Len(issue), issue[r.issue].kind = "core", RowSound(r),
           NEW q, q.status = PollIssue(r).status, q.pr = PollIssue(r).pr, q.issue = r.issue
    PROVE  SoundOn(issue, q)
<1> DEFINE t == PollIssue(r)
<1>1. /\ t.status \in RowStatus \ {"absent", "local"} /\ t.pr \in {r.pr, r.issue, 0} /\ (t.pr = 0 => r.pr = 0)
      /\ t.pr # 0 => t.status = CASE issue[t.pr].pr = "merged" -> "merged"
                               [] issue[t.pr].pr = "closed" -> "closed"
                               [] OTHER -> "pr_open"
      /\ t.pr = 0 => t.status \in {"submitted", "closed", "already_covered"} \/ t.status = r.status
  BY Polls
<1>2. SoundOn(issue, r) /\ r.status \in {"submitted", "pr_open"}
  BY DEF RowSound, IsOpen
<1> HIDE DEF t
<1>3. CASE t.pr = 0
  <2>1. t.status \in {"submitted", "closed", "already_covered"}
    BY <1>1, <1>2, <1>3 DEF SoundOn
  <2> QED  BY <1>3, <2>1 DEF SoundOn, t
<1>4. CASE t.pr # 0
  <2>1. t.pr \in 1..Len(issue) /\ issue[t.pr].kind = "core"
    BY <1>1, <1>2, <1>4 DEF SoundOn
  <2>2. \/ issue[t.pr].pr = "merged" /\ t.status = "merged"
        \/ issue[t.pr].pr = "closed" /\ t.status = "closed"
        \/ t.status = "pr_open"
    BY <1>1, <1>4
  <2> QED  BY <1>4, <2>1, <2>2 DEF SoundOn, t
<1> QED  BY <1>3, <1>4

LEMMA CoreKept == ASSUME ContribInv, Next PROVE CoreInv'
<1>0. /\ Typed /\ LockInv /\ OpenInv /\ StageInv /\ CoreInv /\ Kept /\ "core" \in RowKind /\ "core" \notin Sidecar
      /\ row \in [RowKind -> RowRec] /\ row["core"] \in RowRec /\ poller.seen["core"] \in RowRec
  BY Constants, IssuesKept, FieldTypes DEF ContribInv, Typed
<1> DEFINE r == row["core"]
           s == poller.seen["core"]
           Busy == {"create", "record", "clear"}
<1>1. /\ r.status \in RowStatus /\ r.issue \in Nat /\ r.pr \in Nat
      /\ s.status \in RowStatus /\ s.issue \in Nat /\ s.pr \in Nat
  BY <1>0, FieldTypes
<1>2. /\ RowSound(r)
      /\ \A c \in Operator : call[c].pc \in {"create", "record"} => ~InFlight(r)
      /\ \A c \in Operator : call[c].pc = "clear" =>
             r.status \in {"submitted", "closed"} /\ r.pr # 0 /\ r.issue \in Opened("core")
      /\ "core" \in poller.todo =>
             /\ RowSound(s) /\ s.status = r.status
             /\ s.pr = r.pr \/ (/\ r.pr = 0 /\ r.status = "submitted"
                               /\ \A c \in Operator : call[c].pc # "clear")
      /\ poller.pc = "learning" =>
             r.status = "merged" /\ s.status = "merged" /\ s.pr # 0 /\ s.pr \in Opened("core")
             /\ issue[s.pr].pr = "merged"
  BY <1>0 DEF CoreInv
<1>3. Opened("core") \subseteq Opened("core")'
  BY <1>0, OpenedKept
<1>4. "core" \in poller.todo => IsOpen(r) /\ s.issue = r.issue
  BY <1>0 DEF OpenInv
<1>5. IsOpen(r) => r.status \in {"submitted", "pr_open"} /\ InFlight(r) /\ r.issue \in Opened("core")
  BY <1>0 DEF IsOpen, InFlight, OpenInv
<1>6. s.pr \in Opened("core") /\ issue[s.pr].pr = "merged" => s.pr \in Opened("core")' /\ issue'[s.pr].pr = "merged"
  BY <1>0, <1>3 DEF Kept, Opened
(* Steps that leave the row alone, and read nothing of it. *)
<1>7. ASSUME row'["core"].status = r.status, row'["core"].issue = r.issue, row'["core"].pr = r.pr,
             \A c \in Operator : call'[c].pc \in {"create", "record"} => ~InFlight(r),
             \A c \in Operator : call'[c].pc = "clear" => call[c].pc = "clear",
             "core" \in poller'.todo => "core" \in poller.todo /\ poller'.seen["core"] = s,
             poller'.pc = "learning" => poller.pc = "learning" /\ poller'.seen["core"] = s
      PROVE  CoreInv'
  <2>1. SoundOn(issue', row'["core"])
    BY <1>0, <1>1, <1>2, <1>7, SoundStays
  <2>2. \A c \in Operator : call'[c].pc \in {"create", "record"} => ~InFlight(row'["core"])
    BY <1>7 DEF InFlight
  <2>3. \A c \in Operator : call'[c].pc = "clear" =>
           row'["core"].status \in {"submitted", "closed"} /\ row'["core"].pr # 0 /\ row'["core"].issue \in Opened("core")'
    BY <1>2, <1>3, <1>7
  <2>4. "core" \in poller'.todo => SoundOn(issue', poller'.seen["core"])
    BY <1>0, <1>1, <1>2, <1>7, SoundStays
  <2>5. "core" \in poller'.todo =>
           /\ poller'.seen["core"].status = row'["core"].status
           /\ poller'.seen["core"].pr = row'["core"].pr
              \/ (/\ row'["core"].pr = 0 /\ row'["core"].status = "submitted"
                  /\ \A c \in Operator : call'[c].pc # "clear")
    BY <1>2, <1>7
  <2>6. poller'.pc = "learning" =>
           /\ row'["core"].status = "merged" /\ poller'.seen["core"].status = "merged" /\ poller'.seen["core"].pr # 0
           /\ poller'.seen["core"].pr \in Opened("core")' /\ issue'[poller'.seen["core"].pr].pr = "merged"
    BY <1>2, <1>6, <1>7
  <2> QED  BY <2>1, <2>2, <2>3, <2>4, <2>5, <2>6 DEF CoreInv, RowSound
<1>8. CASE Contribute
  <2>1. UNCHANGED <<call, poller>>
    BY <1>8, StageWrites
  <2>2. row'["core"] = row["core"]
    BY <1>0, <1>8, RowSubmitted
  <2> QED  BY <1>2, <1>7, <2>1, <2>2
<1>9. ASSUME NEW c \in Operator, Serve(c) PROVE CoreInv'
  <2>1. UNCHANGED poller /\ call \in [Operator -> CallRec]
    BY <1>0, <1>9, CallWrites DEF Typed
  <2>2. \A d \in Operator : call[d].pc \in Busy => call[d].pc \in Locked
    BY DEF Locked
  <2>3. ASSUME UNCHANGED row, \A d \in Operator : d # c => call'[d] = call[d], call'[c].pc # "clear",
               call'[c].pc \in {"create", "record"} => ~InFlight(r)
        PROVE  CoreInv'
    BY <1>2, <1>7, <2>1, <2>3
  <2>4. CASE LockAndRead(c)
    <3>1. UNCHANGED row
      BY <2>4 DEF LockAndRead
    <3>2. InFlight(r) => r.issue # 0
      BY <1>2 DEF InFlight, RowSound, SoundOn
    <3>3. CASE Return(c)
      BY <1>0, <2>3, <3>1, <3>3, CallReturns
    <3>4. CASE call' = [call EXCEPT ![c].pc = "flip", ![c].park = book.park]
      <4>1. call'[c].pc = "flip" /\ \A d \in Operator : d # c => call'[d] = call[d]
        BY <2>1, <3>4 DEF CallRec
      <4> QED  BY <2>3, <3>1, <4>1
    <3>5. CASE call' = [call EXCEPT ![c].pc = "create", ![c].park = book.park] /\ ~(InFlight(r) /\ r.issue # 0)
      <4>1. call'[c].pc = "create" /\ \A d \in Operator : d # c => call'[d] = call[d]
        BY <2>1, <3>5 DEF CallRec
      <4> QED  BY <2>3, <3>1, <3>2, <3>5, <4>1
    <3> QED  BY <2>4, <3>3, <3>4, <3>5 DEF LockAndRead
  <2>5. CASE CreateCore(c)
    <3>1. UNCHANGED row /\ ~InFlight(r) /\ (Then(c, "record") \/ Return(c))
      BY <1>2, <2>5 DEF CreateCore, Unlock
    <3>2. call'[c].pc \in {"record", "idle"} /\ \A d \in Operator : d # c => call'[d] = call[d]
      BY <1>0, <3>1, CallGoesOn, CallReturns DEF CallPc
    <3> QED  BY <2>3, <3>1, <3>2
  <2>6. CASE RecordCore(c)
    <3>1. call[c].pc = "record" /\ ~InFlight(r) /\ lock = c
      BY <1>0, <1>2, <2>6 DEF RecordCore, LockInv, Locked
    <3>2. \A d \in Operator : d # c => call[d].pc \notin Busy
      BY <1>0, <2>2, <3>1 DEF LockInv
    <3>a. CASE UNCHANGED row /\ call'[c].pc = "idle" /\ \A d \in Operator : d # c => call'[d] = call[d]
      BY <2>3, <3>a
    <3>b. CASE /\ row'["core"].issue \in Opened("core") /\ row'["core"].status = "submitted" /\ row'["core"].pr = r.pr
               /\ call'[c].pc = (IF r.pr # 0 THEN "clear" ELSE "flip") /\ \A d \in Operator : d # c => call'[d] = call[d]
      <4>4. UNCHANGED issue
        BY <2>6 DEF RecordCore
      <4>5. r.pr # 0 => r.pr \in 1..Len(issue) /\ issue[r.pr].kind = "core" /\ issue[r.pr].pr = "closed"
        BY <1>1, <1>2, <3>1 DEF RowSound, SoundOn, InFlight, RowStatus
      <4>6. SoundOn(issue, row'["core"])
        BY <3>b, <4>5 DEF SoundOn, Opened
      <4>7. "core" \notin poller.todo /\ poller.pc # "learning"
        BY <1>2, <1>4, <1>5, <3>1 DEF InFlight
      <4>8. \A d \in Operator : call'[d].pc \notin {"create", "record"}
        BY <3>2, <3>b
      <4>9. \A d \in Operator : call'[d].pc = "clear" =>
               row'["core"].status \in {"submitted", "closed"} /\ row'["core"].pr # 0 /\ row'["core"].issue \in Opened("core")'
        BY <1>3, <3>2, <3>b
      <4> QED  BY <2>1, <4>4, <4>6, <4>7, <4>8, <4>9 DEF CoreInv, RowSound
    <3> QED  BY <1>0, <2>6, <3>a, <3>b, CoreRecorded
  <2>7. CASE ClearPointer(c)
    <3>1. call[c].pc = "clear" /\ r.status \in {"submitted", "closed"} /\ r.issue \in Opened("core") /\ lock = c
      BY <1>0, <1>2, <2>7 DEF ClearPointer, LockInv, Locked
    <3>2. \A d \in Operator : d # c => call[d].pc \notin Busy
      BY <1>0, <2>2, <3>1 DEF LockInv
    <3>3. /\ row'["core"].issue = r.issue /\ row'["core"].status = "submitted" /\ row'["core"].pr = 0
          /\ call'[c].pc = "flip" /\ \A d \in Operator : d # c => call'[d] = call[d]
      BY <1>0, <2>7, PointerCleared
    <3>4. UNCHANGED issue
      BY <2>7 DEF ClearPointer
    <3>5. SoundOn(issue, row'["core"])
      BY <3>1, <3>3 DEF SoundOn, Opened
    <3>6. \A d \in Operator : call'[d].pc \notin Busy
      BY <3>2, <3>3
    <3>7. "core" \in poller.todo => RowSound(s) /\ s.status = "submitted"
      BY <1>2, <1>4, <1>5, <3>1
    <3>8. poller.pc # "learning"
      BY <1>2, <3>1
    <3> QED  BY <2>1, <3>3, <3>4, <3>5, <3>6, <3>7, <3>8 DEF CoreInv, RowSound
  <2>8. CASE FlipPark(c) \/ ReadmitBook(c)
    <3>1. UNCHANGED row /\ Return(c)
      BY <2>8 DEF FlipPark, ReadmitBook, Unlock
    <3> QED  BY <1>0, <2>3, <3>1, CallReturns
  <2>9. CASE SetWork(c)
    <3>1. UNCHANGED row /\ (Then(c, "readmit") \/ Return(c))
      BY <2>9 DEF SetWork
    <3>2. call'[c].pc \in {"readmit", "idle"} /\ \A d \in Operator : d # c => call'[d] = call[d]
      BY <1>0, <3>1, CallGoesOn, CallReturns DEF CallPc
    <3> QED  BY <2>3, <3>1, <3>2
  <2>10. ASSUME NEW op \in {"submit", "work", "retry"}, Request(c, op) PROVE CoreInv'
    <3>1. UNCHANGED row /\ \E pc \in {"lock", "work", "readmit"} :
                              call' = [call EXCEPT ![c] = [IdleCall EXCEPT !.op = op, !.park = book.park, !.pc = pc]]
      BY <2>10 DEF Request
    <3>2. call'[c].pc \in {"lock", "work", "readmit"} /\ \A d \in Operator : d # c => call'[d] = call[d]
      BY <2>1, <3>1 DEF IdleCall
    <3> QED  BY <2>3, <3>1, <3>2
  <2> QED  BY <1>9, <2>4, <2>5, <2>6, <2>7, <2>8, <2>9, <2>10 DEF Serve, Handle
<1>10. CASE Turn
  <2>1. UNCHANGED <<issue, call>>
    BY <1>10, TurnWrites
  <2>2. CASE ListOpen
    <3>1. UNCHANGED row /\ poller'.pc = "rows" /\ ("core" \in poller'.todo => poller'.seen["core"] = r)
      BY <1>0, <2>2 DEF ListOpen, IdlePoller
    <3>2. SoundOn(issue', row'["core"]) /\ ("core" \in poller'.todo => SoundOn(issue', poller'.seen["core"]))
      BY <1>2, <2>1, <3>1 DEF RowSound
    <3>3. "core" \in poller'.todo => poller'.seen["core"] = row'["core"]
      BY <3>1
    <3>4. poller'.pc # "learning"
      BY <3>1
    <3>5. \A c \in Operator : call'[c].pc = "clear" =>
             row'["core"].status \in {"submitted", "closed"} /\ row'["core"].pr # 0 /\ row'["core"].issue \in Opened("core")'
      BY <1>2, <1>3, <2>1, <3>1
    <3>6. \A c \in Operator : call'[c].pc \in {"create", "record"} => ~InFlight(row'["core"])
      BY <1>2, <2>1, <3>1
    <3> QED  BY <3>2, <3>3, <3>4, <3>5, <3>6 DEF CoreInv, RowSound
  <2>3. CASE ListUnresolved
    <3>1. UNCHANGED row /\ poller'.todo = {} /\ poller'.seen["core"] = r /\ r.status = "merged" /\ r.pr # 0
      BY <1>0, <2>3, RecordTypes DEF ListUnresolved, IdlePoller, Unresolved
    <3>2. r.pr \in Opened("core") /\ issue[r.pr].pr = "merged"
      BY <1>2, <3>1 DEF RowSound, SoundOn, Opened
    <3> QED  BY <1>2, <1>3, <2>1, <3>1, <3>2 DEF CoreInv, RowSound
  <2>4. CASE ~ListOpen /\ ~ListUnresolved
    <3>1. /\ "core" \in poller'.todo => "core" \in poller.todo /\ poller'.seen["core"] = s
          /\ poller'.pc # "learning"
      BY <1>0, <1>10, <2>4, ListShrinks
    <3>2. CASE row'["core"].status = r.status /\ row'["core"].issue = r.issue /\ row'["core"].pr = r.pr
      BY <1>2, <1>7, <2>1, <3>1, <3>2
    <3>3. CASE LearnWork /\ ~UNCHANGED row
      <4>1. /\ row'["core"].issue = r.issue /\ row'["core"].status = "merged" /\ row'["core"].pr = s.pr
            /\ r.status = "merged" /\ s.pr # 0 /\ s.pr \in Opened("core") /\ issue[s.pr].pr = "merged"
            /\ poller.todo = {}
        BY <1>0, <1>2, <3>3, RowLearned DEF LearnWork, OpenInv
      <4>2. SoundOn(issue, row'["core"])
        BY <1>2, <4>1 DEF RowSound, SoundOn, Opened
      <4>3. \A c \in Operator : call[c].pc \notin Busy
        BY <1>2, <4>1 DEF InFlight
      <4> QED  BY <2>1, <3>1, <4>1, <4>2, <4>3 DEF CoreInv, RowSound
    <3>4. CASE AdvanceRow("core") /\ ~(row'["core"].status = r.status /\ row'["core"].pr = r.pr)
      <4> DEFINE t == PollIssue(s)
      <4>1. /\ "core" \in poller.todo /\ IsOpen(s) /\ s.issue \in 1..Len(issue)
            /\ row'["core"].issue = r.issue /\ row'["core"].status = t.status /\ row'["core"].pr = t.pr
        BY <1>0, <3>4, RowPolled
      <4>2. RowSound(s) /\ s.status = r.status /\ s.issue = r.issue /\ IsOpen(r) /\ r.issue \in Opened("core")
        BY <1>2, <1>4, <1>5, <4>1
      <4>3. SoundOn(issue, row'["core"])
        BY <1>0, <4>1, <4>2, SoundPolled DEF Opened
      <4>4. \A c \in Operator : call[c].pc \notin {"create", "record"}
        BY <1>2, <1>5, <4>2
      <4>5. ASSUME NEW c \in Operator, call[c].pc = "clear"
            PROVE  row'["core"].status \in {"submitted", "closed"} /\ row'["core"].pr # 0
        <5>1. r.status = "submitted" /\ s.status = "submitted" /\ s.pr # 0
          BY <1>2, <1>5, <4>1, <4>2, <4>5
        <5>2. issue[s.pr].pr = "closed"
          BY <4>2, <5>1 DEF RowSound, SoundOn
        <5>3. t.pr = s.pr /\ t.status = "closed"
          BY <1>0, <4>1, <5>1, <5>2, Polls
        <5> QED  BY <4>1, <5>1, <5>3
      <4>6. "core" \notin poller'.todo
        BY <1>0, <3>4, <4>1, Polls, RowAdvanced
      <4> QED  BY <2>1, <3>1, <4>1, <4>2, <4>3, <4>4, <4>5, <4>6 DEF CoreInv, RowSound, Opened
    <3>5. ASSUME NEW k \in RowKind, AdvanceRow(k) PROVE k = "core" \/ row'["core"] = r
      BY <1>0, <3>5, RowPolled
    <3>6. AdvanceRow("core") => row'["core"].issue = r.issue
      BY <1>0, RowPolled
    <3> QED  BY <1>10, <3>2, <3>3, <3>4, <3>5, <3>6, TurnRows
  <2> QED  BY <2>2, <2>3, <2>4
<1>11. CASE World /\ ~Crash
  <2>1. UNCHANGED <<call, poller>>
    BY <1>0, <1>11, GitHubWrites DEF World, CatalogMoves, Outside, IntervalPasses
  <2>2. row'["core"].status = r.status /\ row'["core"].issue = r.issue /\ row'["core"].pr = r.pr
    BY <1>0, <1>11, WorldRows
  <2> QED  BY <1>2, <1>7, <2>1, <2>2
<1>12. CASE Crash
  <2>1. UNCHANGED row /\ poller' = IdlePoller /\ call' = [c \in Operator |-> IdleCall]
    BY <1>12 DEF Crash
  <2>2. poller'.todo = {} /\ poller'.pc = "idle" /\ \A c \in Operator : call'[c].pc = "idle"
    BY <2>1 DEF IdlePoller, IdleCall
  <2> QED  BY <1>7, <2>1, <2>2
<1> QED  BY <1>8, <1>9, <1>10, <1>11, <1>12, Actors

-----------------------------------------------------------------------------
(* The works.                                                              *)

LEMMA AttemptAdds ==
    ASSUME Typed, NEW kind \in RowKind, NEW w \in WorkId, Attempt(kind, w)
    PROVE  \A i \in (Len(issue) + 1)..Len(issue') : issue'[i] = NewIssue(kind, w)
<1>0. Len(issue) \in Nat
  BY DEF Typed
<1>1. CASE Posted(kind, w) \/ PostedTwice(kind, w)
  BY <1>0, <1>1, PostedAdds DEF Added
<1>2. CASE PostFails(kind, w)
  BY <1>0, <1>2, FailedPostAdds DEF Added
<1> QED  BY <1>1, <1>2 DEF Attempt

LEMMA PublishedStays ==
    ASSUME Typed, Kept, UNCHANGED conf, PostedToPublished, catalog # "absent" => catalog' # "absent",
           \A i \in (Len(issue) + 1)..Len(issue') : issue'[i].kind \in Sidecar => Vouched(issue'[i].work)
    PROVE  PostedToPublished'
<1> DEFINE Still(w) == IF conf.meta THEN w = "manual" \/ (w \in {"learned", "survivor"} /\ catalog' # "absent")
                       ELSE w \in {"stale", "manual"} \/ (w = "learned" /\ Learnt')
<1>1. \A w : Vouched(w) => Still(w)
  BY LearntStays DEF Vouched
<1> HIDE DEF Still
<1>2. ASSUME NEW i \in 1..Len(issue'), issue'[i].kind \in Sidecar PROVE Still(issue'[i].work)
  <2>1. i \in 1..Len(issue) \/ i \in (Len(issue) + 1)..Len(issue')
    BY DEF Kept
  <2>2. CASE i \in 1..Len(issue)
    <3>1. Vouched(issue[i].work) /\ issue'[i].work = issue[i].work
      BY <1>2, <2>2 DEF Kept, PostedToPublished
    <3> QED  BY <1>1, <3>1
  <2> QED  BY <1>1, <1>2, <2>1, <2>2
<1> QED  BY <1>2 DEF PostedToPublished, Vouched, Still

LEMMA NothingPosted ==
    ASSUME Typed, Kept, UNCHANGED conf, PostedToPublished, catalog # "absent" => catalog' # "absent",
           Len(issue') = Len(issue)
    PROVE  PostedToPublished'
<1>1. Len(issue) \in Nat
  BY DEF Typed
<1> QED  BY <1>1, PublishedStays

(* The poller learns a work of a merged proposal only. *)
LEMMA LearnsMerged ==
    ASSUME CoreInv, LearnWork, issue[poller.seen["core"].pr].names = "one" PROVE Usable("learned")
<1>1. poller.seen["core"].pr \in Opened("core") /\ issue[poller.seen["core"].pr].pr = "merged"
  BY DEF CoreInv, LearnWork
<1>2. Learnt
  BY <1>1 DEF Learnt
<1> QED  BY <1>2 DEF Usable

LEMMA WorkKept == ASSUME ContribInv, Next PROVE WorkInv'
<1>0. /\ Typed /\ StageInv /\ CoreInv /\ Kept /\ WorkInv /\ UNCHANGED conf /\ (Learnt => Learnt')
      /\ book \in BookRec /\ book.work \in WorkId /\ stage \in StageRec /\ poller \in PollerRec /\ poller.work \in WorkId
  BY IssuesKept, LearntStays, Actors, FieldTypes DEF ContribInv, Typed
<1>1. /\ Usable(book.work) /\ Usable(poller.work)
      /\ stage.pc = "resolve" => Usable(stage.work)
      /\ stage.pc \in {"submit", "record"} =>
             Vouched(stage.work) \/ (stage.work = "placeholder" /\ conf.mode = "local")
      /\ PostedToPublished
  BY <1>0 DEF WorkInv
<1>2. Usable(NoWork)
  BY DEF Usable, NoWork
<1>3. ASSUME UNCHANGED <<stage, issue, catalog>>, Usable(book'.work), Usable(poller'.work) PROVE WorkInv'
  <2>1. PostedToPublished'
    BY <1>0, <1>1, <1>3, NothingPosted
  <2> QED  BY <1>0, <1>1, <1>3, <2>1 DEF WorkInv, Usable, Vouched
<1>4. CASE Contribute
  <2>1. UNCHANGED <<catalog, poller>>
    BY <1>4, StageWrites
  <2>2. ASSUME UNCHANGED issue, Usable(book'.work), stage'.pc = "resolve" => Usable(stage'.work),
               stage'.pc \in {"submit", "record"} =>
                  Vouched(stage'.work) \/ (stage'.work = "placeholder" /\ conf.mode = "local")
        PROVE  WorkInv'
    <3>1. PostedToPublished'
      BY <1>0, <1>1, <2>1, <2>2, NothingPosted
    <3> QED  BY <1>0, <1>1, <2>1, <2>2, <3>1 DEF WorkInv, Usable, Vouched
  <2>3. CASE StartStage
    <3>1. UNCHANGED <<book, issue>> /\ stage'.pc = "resolve" /\ stage'.work = book.work
      BY <2>3, RecordTypes DEF StartStage, IdleStage
    <3> QED  BY <1>1, <2>2, <3>1
  <2>4. CASE ResolveWorkSlug
    <3>1. stage.work \in WorkId /\ Usable(stage.work) /\ UNCHANGED issue
      BY <1>0, <1>1, <2>4, FieldTypes DEF ResolveWorkSlug
    <3>2. CASE LookUp
      BY <1>0, <1>1, <2>2, <3>1, <3>2, LooksUp
    <3>3. CASE stage.work # NoWork /\ Resolve(stage.work) # NotFound
      <4>1. Resolve(stage.work) \in WorkId /\ Usable(Resolve(stage.work)) /\ Vouched(Resolve(stage.work))
        BY <1>0, <3>1, <3>3, Resolves
      <4>2. ToSubmit(Resolve(stage.work)) /\ (UNCHANGED book \/ SetWorkID(Resolve(stage.work)))
        BY <2>4, <3>3 DEF ResolveWorkSlug
      <4>3. stage'.pc = "submit" /\ stage'.work = Resolve(stage.work)
        BY <1>0, <4>1, <4>2, StageSubmits
      <4>4. Usable(book'.work)
        BY <1>0, <1>1, <4>1, <4>2, WorkWritten
      <4> QED  BY <2>2, <3>1, <4>1, <4>3, <4>4
    <3>4. CASE ToPark("core_pending", "release") /\ UNCHANGED book
      <4>1. stage'.pc = "park"
        BY <1>0, <3>4, StageParks DEF Park, Msg
      <4> QED  BY <1>1, <2>2, <3>1, <3>4, <4>1
    <3> QED  BY <2>4, <3>2, <3>3, <3>4 DEF ResolveWorkSlug
  <2>5. CASE StageFails
    <3>1. UNCHANGED <<book, issue>> /\ stage'.pc = "park"
      BY <1>0, <2>5 DEF StageFails, ToPark, StageRec
    <3> QED  BY <1>1, <2>2, <3>1
  <2>6. CASE ParkStage
    <3>1. SetPark(stage.park, stage.msg) /\ UNCHANGED issue /\ stage'.pc = "off"
      BY <2>6 DEF ParkStage, IdleStage
    <3>2. book'.work = book.work
      BY <1>0, <3>1, ParkWritten, FieldTypes
    <3> QED  BY <1>1, <2>2, <3>1, <3>2
  <2>7. CASE SubmitNext
    <3> DEFINE k == Head(stage.todo)
    <3>1. UNCHANGED book /\ stage.pc = "submit" /\ stage.todo # <<>>
      BY <2>7 DEF SubmitNext
    <3>2. k \in RowKind /\ stage.work \in WorkId
      BY <1>0, <3>1, FieldTypes, Constants
    <3>3. CASE NextDimension /\ UNCHANGED issue
      <4>1. stage'.pc = "submit" /\ stage'.work = stage.work
        BY <1>0, <3>1, <3>3, StageGoesOn
      <4> QED  BY <1>1, <2>2, <3>1, <3>3, <4>1
    <3>4. CASE /\ conf.mode = "issue" /\ Attempt(k, stage.work)
               /\ (stage' = [stage EXCEPT !.pc = "record"] \/ ToPark("failed", "none"))
      <4>1. stage'.work = stage.work /\ stage'.pc \in {"record", "park"}
        BY <1>0, <3>4 DEF ToPark, StageRec
      <4>2. Vouched(stage.work)
        BY <1>1, <3>1, <3>4
      <4>3. \A i \in (Len(issue) + 1)..Len(issue') : issue'[i].work = stage.work
        <5>1. \A i \in (Len(issue) + 1)..Len(issue') : issue'[i] = NewIssue(k, stage.work)
          BY <1>0, <3>2, <3>4, AttemptAdds
        <5>2. NewIssue(k, stage.work).work = stage.work
          BY DEF NewIssue
        <5> QED  BY <5>1, <5>2
      <4>4. PostedToPublished'
        BY <1>0, <1>1, <2>1, <4>2, <4>3, PublishedStays
      <4> QED  BY <1>0, <1>1, <2>1, <3>1, <4>1, <4>2, <4>4 DEF WorkInv, Usable, Vouched
    <3> QED  BY <2>7, <3>3, <3>4 DEF SubmitNext, Attempt
  <2>8. CASE RecordPosted
    <3>1. UNCHANGED <<book, issue>> /\ stage.pc = "record" /\ (NextDimension \/ ToPark("failed", "none"))
      BY <2>8 DEF RecordPosted
    <3>2. stage.todo # <<>>
      BY <1>0, <3>1 DEF StageInv
    <3>3. stage'.pc = "park" \/ (stage'.pc = "submit" /\ stage'.work = stage.work)
      BY <1>0, <3>1, <3>2, StageGoesOn, StageParks DEF Park, Msg
    <3> QED  BY <1>1, <2>2, <3>1, <3>3
  <2>9. CASE FinishStage
    <3>1. UNCHANGED issue /\ stage'.pc = "off" /\ book'.work = book.work
      BY <1>0, <2>9 DEF FinishStage, IdleStage, BookRec
    <3> QED  BY <1>1, <2>2, <3>1
  <2> QED  BY <1>4, <2>3, <2>4, <2>5, <2>6, <2>7, <2>8, <2>9 DEF Contribute
<1>5. ASSUME NEW c \in Operator, Serve(c) PROVE WorkInv'
  <2>1. UNCHANGED <<catalog, stage, poller>>
    BY <1>5, CallWrites
  <2>2. CASE CreateCore(c)
    <3>1. Attempt("core", NoWork) /\ UNCHANGED book
      BY <2>2 DEF CreateCore, Attempt
    <3>2. \A i \in (Len(issue) + 1)..Len(issue') : issue'[i].kind = "core"
      <4>1. NoWork \in WorkId /\ "core" \in RowKind
        BY Constants DEF WorkId
      <4>2. \A i \in (Len(issue) + 1)..Len(issue') : issue'[i] = NewIssue("core", NoWork)
        BY <1>0, <3>1, <4>1, AttemptAdds
      <4>3. NewIssue("core", NoWork).kind = "core"
        BY DEF NewIssue
      <4> QED  BY <4>2, <4>3
    <3>3. PostedToPublished'
      BY <1>0, <1>1, <2>1, <3>2, PublishedStays, Constants
    <3> QED  BY <1>0, <1>1, <2>1, <3>1, <3>3 DEF WorkInv, Usable, Vouched
  <2>3. CASE Serve(c) /\ ~CreateCore(c)
    <3>1. UNCHANGED issue
      BY <2>3 DEF Serve, Handle, Request, LockAndRead, RecordCore, ClearPointer, FlipPark, SetWork, ReadmitBook
    <3>2. UNCHANGED book \/ SetPark("core_pending", "submitted") \/ SetWorkID("manual") \/ Readmit
      BY <2>3 DEF Serve, Handle, Request, LockAndRead, RecordCore, ClearPointer, FlipPark, SetWork, ReadmitBook
    <3>3. "core_pending" \in Park /\ "submitted" \in Msg /\ "manual" \in WorkId /\ Usable("manual")
      BY DEF Park, Msg, WorkId, Work, Usable
    <3>4. Usable(book'.work)
      BY <1>0, <1>1, <3>2, <3>3, ParkWritten, WorkWritten, Readmitted
    <3> QED  BY <1>1, <1>3, <2>1, <3>1, <3>4
  <2> QED  BY <1>5, <2>2, <2>3
<1>6. CASE Turn
  <2>1. UNCHANGED <<stage, issue, catalog>>
    BY <1>6, TurnWrites
  <2>2. Usable(book'.work)
    <3>1. CASE AdmitWhenLive
      BY <1>0, <1>1, <3>1, Resolves, WorkWritten DEF AdmitWhenLive
    <3>2. CASE LearnWork
      <4>1. UNCHANGED book \/ (SetWorkID("learned") /\ Usable("learned"))
        BY <1>0, <3>2, LearnsMerged DEF LearnWork
      <4> QED  BY <1>0, <1>1, <4>1, WorkWritten DEF WorkId, Work
    <3>3. CASE Turn /\ ~AdmitWhenLive /\ ~LearnWork
      <4>1. UNCHANGED book \/ Readmit \/ \E m \in {"verdict", "release", "unlearned"} : SetPark("core_pending", m)
        <5>1. ASSUME NEW k \in RowKind, SkipRow(k) \/ AdvanceRow(k) PROVE UNCHANGED book
          BY <5>1 DEF SkipRow, AdvanceRow
        <5>2. CASE ListOpen \/ ReadForVerdict \/ FollowVerdict \/ ListAwaiting \/ FinishAdmit \/ ListUnresolved \/ EndTick
                   \/ TellUnlearned
          BY <5>2 DEF ListOpen, ReadForVerdict, FollowVerdict, ListAwaiting, FinishAdmit, ListUnresolved, EndTick, TellUnlearned
        <5> QED  BY <3>3, <5>1, <5>2 DEF Turn, Poll
      <4>2. "core_pending" \in Park /\ {"verdict", "release", "unlearned"} \subseteq Msg
        BY DEF Park, Msg
      <4>3. book'.work = book.work
        BY <1>0, <4>1, <4>2, ParkWritten, Readmitted
      <4> QED  BY <1>1, <4>3
    <3> QED  BY <1>6, <3>1, <3>2, <3>3
  <2>3. Usable(poller'.work)
    <3>1. CASE ReadForVerdict \/ FollowVerdict \/ AdmitWhenLive \/ FinishAdmit
      <4>1. \E pc \in PollerPc : GoOn(pc)
        BY <1>0, <3>1, FieldTypes DEF ReadForVerdict, FollowVerdict, AdmitWhenLive, FinishAdmit, PollerPc
      <4> QED  BY <1>0, <1>2, <4>1, PollerGoesOn
    <3>2. CASE ListOpen \/ ListUnresolved \/ EndTick \/ TellUnlearned
      <4>1. poller'.work = NoWork
        <5>1. IdlePoller.work = NoWork
          BY DEF IdlePoller
        <5>2. CASE ListOpen
          BY <5>1, <5>2, RecordTypes DEF ListOpen, PollerRec
        <5>3. CASE ListUnresolved
          BY <5>1, <5>3, RecordTypes DEF ListUnresolved, PollerRec
        <5>4. CASE EndTick \/ TellUnlearned
          BY <5>1, <5>4 DEF EndTick, TellUnlearned
        <5> QED  BY <3>2, <5>2, <5>3, <5>4
      <4> QED  BY <1>2, <4>1
    <3>3. CASE ListAwaiting
      <4>1. poller'.work = book.work
        BY <3>3, RecordTypes DEF ListAwaiting, Listed, PollerRec
      <4> QED  BY <1>1, <4>1
    <3>4. CASE LearnWork
      <4>1. IdlePoller.work = NoWork
        BY DEF IdlePoller
      <4>2. \/ poller' = IdlePoller \/ poller' = [IdlePoller EXCEPT !.pc = "tell"]
            \/ poller' = [poller EXCEPT !.pc = "admit", !.after = "idle", !.work = "learned", !.seen["core"] = NoRow]
        BY <3>4 DEF LearnWork
      <4>3. poller'.work = NoWork \/ (poller'.work = "learned" /\ issue[poller.seen["core"].pr].names = "one")
        BY <1>0, <3>4, <4>1, <4>2, RecordTypes DEF PollerRec, LearnWork
      <4> QED  BY <1>0, <1>2, <3>4, <4>3, LearnsMerged
    <3>5. ASSUME NEW k \in RowKind, SkipRow(k) \/ AdvanceRow(k) PROVE poller'.work = poller.work
      <4>1. CASE SkipRow(k)
        BY <1>0, <4>1 DEF SkipRow, PollerRec
      <4>2. CASE AdvanceRow(k)
        BY <1>0, <4>2 DEF AdvanceRow, PollerRec
      <4> QED  BY <3>5, <4>1, <4>2
    <3> QED  BY <1>1, <1>6, <3>1, <3>2, <3>3, <3>4, <3>5 DEF Turn, Poll
  <2> QED  BY <1>3, <2>1, <2>2, <2>3
<1>7. CASE GitHub
  <2>1. UNCHANGED <<catalog, book, stage, poller>> /\ Len(issue') = Len(issue)
    BY <1>0, <1>7, GitHubWrites, GitHubKept
  <2>2. PostedToPublished'
    BY <1>0, <1>1, <2>1, NothingPosted
  <2> QED  BY <1>0, <1>1, <2>1, <2>2 DEF WorkInv, Usable, Vouched
<1>8. CASE CatalogMoves
  <2>1. UNCHANGED <<book, stage, poller, issue>> /\ catalog' # "absent"
    BY <1>8 DEF CatalogMoves, Outside
  <2>2. PostedToPublished'
    BY <1>0, <1>1, <2>1, NothingPosted
  <2> QED  BY <1>0, <1>1, <2>1, <2>2 DEF WorkInv, Usable, Vouched
<1>9. CASE Crash
  <2>1. UNCHANGED <<book, issue, catalog>> /\ stage'.pc = "off" /\ poller'.work = NoWork
    BY <1>9 DEF Crash, IdleStage, IdlePoller
  <2>2. PostedToPublished'
    BY <1>0, <1>1, <2>1, NothingPosted
  <2> QED  BY <1>0, <1>1, <1>2, <2>1, <2>2 DEF WorkInv, Usable
<1>10. CASE \E k \in RowKind : IntervalPasses(k)
  <2>1. UNCHANGED <<book, stage, issue, catalog, poller>>
    BY <1>10 DEF IntervalPasses
  <2> QED  BY <1>1, <1>3, <2>1
<1> QED  BY <1>4, <1>5, <1>6, <1>7, <1>8, <1>9, <1>10, Actors DEF World

-----------------------------------------------------------------------------
(* The number of issues.                                                   *)

LEMMA OpenedFinite == ASSUME Typed, NEW k PROVE IsFiniteSet(Opened(k)) /\ Cardinality(Opened(k)) \in Nat
<1>1. Len(issue) \in Nat
  BY DEF Typed
<1>2. IsFiniteSet(1..Len(issue)) /\ Opened(k) \subseteq 1..Len(issue)
  BY <1>1, FS_Interval DEF Opened
<1> QED  BY <1>2, FS_Subset, FS_CardinalityType

LEMMA AddOne ==
    ASSUME NEW S, NEW x, IsFiniteSet(S)
    PROVE  /\ IsFiniteSet(S \cup {x}) /\ Cardinality(S \cup {x}) \in Nat
           /\ Cardinality(S \cup {x}) <= Cardinality(S) + 1
<1>1. Cardinality(S) \in Nat /\ IsFiniteSet(S \cup {x})
      /\ Cardinality(S \cup {x}) = IF x \in S THEN Cardinality(S) ELSE Cardinality(S) + 1
  BY FS_CardinalityType, FS_AddElement
<1> QED  BY <1>1

LEMMA OpenedSame ==
    ASSUME Typed, Kept, Len(issue') = Len(issue), NEW k PROVE Opened(k)' = Opened(k)
  BY DEF Kept, Opened

(* An attempt counts for its kind only, and once unless it loses an issue. *)
LEMMA AttemptCounts ==
    ASSUME Typed, NEW kind \in RowKind, NEW w \in WorkId, Attempt(kind, w)
    PROVE  /\ \A k \in RowKind : k # kind => Opened(k)' = Opened(k)
           /\ ghost'.lost \in Nat /\ ghost'.lost >= ghost.lost /\ ghost'.settled = ghost.settled
           /\ Cardinality(Opened(kind)') \in Nat
           /\ Cardinality(Opened(kind)') <= Cardinality(Opened(kind)) + 1 + ghost'.lost - ghost.lost
           /\ PostFails(kind, w) => Cardinality(Opened(kind)') <= Cardinality(Opened(kind)) + ghost'.lost - ghost.lost
<1>0. /\ Len(issue) \in Nat /\ ghost.lost \in Nat /\ IsFiniteSet(Opened(kind)) /\ Cardinality(Opened(kind)) \in Nat
      /\ NewIssue(kind, w).kind = kind
  BY FieldTypes, OpenedFinite DEF Typed, NewIssue
<1>1. ASSUME Added(kind, w, 1)
      PROVE  /\ \A k \in RowKind : k # kind => Opened(k)' = Opened(k)
             /\ Cardinality(Opened(kind)') \in Nat /\ Cardinality(Opened(kind)') <= Cardinality(Opened(kind)) + 1
  <2>1. /\ Len(issue') = Len(issue) + 1 /\ \A i \in 1..Len(issue) : issue'[i].kind = issue[i].kind
        /\ issue'[Len(issue) + 1].kind = kind
    BY <1>0, <1>1 DEF Added
  <2>2. \A k \in RowKind : k # kind => Opened(k)' = Opened(k)
    BY <1>0, <2>1 DEF Opened
  <2>3. Opened(kind)' = Opened(kind) \cup {Len(issue) + 1}
    BY <1>0, <2>1 DEF Opened
  <2>4. Cardinality(Opened(kind) \cup {Len(issue) + 1}) \in Nat
        /\ Cardinality(Opened(kind) \cup {Len(issue) + 1}) <= Cardinality(Opened(kind)) + 1
    BY <1>0, AddOne
  <2> QED  BY <2>2, <2>3, <2>4
<1>2. ASSUME Added(kind, w, 2)
      PROVE  /\ \A k \in RowKind : k # kind => Opened(k)' = Opened(k)
             /\ Cardinality(Opened(kind)') \in Nat /\ Cardinality(Opened(kind)') <= Cardinality(Opened(kind)) + 2
  <2>1. /\ Len(issue') = Len(issue) + 2 /\ \A i \in 1..Len(issue) : issue'[i].kind = issue[i].kind
        /\ issue'[Len(issue) + 1].kind = kind /\ issue'[Len(issue) + 2].kind = kind
    BY <1>0, <1>2 DEF Added
  <2>2. \A k \in RowKind : k # kind => Opened(k)' = Opened(k)
    BY <1>0, <2>1 DEF Opened
  <2> DEFINE o == Opened(kind) \cup {Len(issue) + 1}
  <2>3. Opened(kind)' = o \cup {Len(issue) + 2}
    BY <1>0, <2>1 DEF Opened
  <2>4. IsFiniteSet(o) /\ Cardinality(o) \in Nat /\ Cardinality(o) <= Cardinality(Opened(kind)) + 1
    BY <1>0, AddOne
  <2> HIDE DEF o
  <2>5. Cardinality(o \cup {Len(issue) + 2}) \in Nat /\ Cardinality(o \cup {Len(issue) + 2}) <= Cardinality(o) + 1
    BY <2>4, AddOne
  <2>6. Cardinality(o \cup {Len(issue) + 2}) <= Cardinality(Opened(kind)) + 2
    BY <1>0, <2>4, <2>5
  <2> QED  BY <2>2, <2>3, <2>5, <2>6
<1>3. ASSUME Posted(kind, w) \/ PostedTwice(kind, w)
      PROVE  /\ \A k \in RowKind : k # kind => Opened(k)' = Opened(k)
             /\ ghost'.lost \in Nat /\ ghost'.lost >= ghost.lost /\ ghost'.settled = ghost.settled
             /\ Cardinality(Opened(kind)') \in Nat
             /\ Cardinality(Opened(kind)') <= Cardinality(Opened(kind)) + 1 + ghost'.lost - ghost.lost
  <2>1. PICK n \in {1, 2} : /\ Added(kind, w, n) /\ ghost'.settled = ghost.settled
                            /\ ghost'.lost = ghost.lost + n - 1
    BY <1>3, PostedAdds
  <2>3. CASE n = 1
    BY <1>0, <1>1, <2>1, <2>3
  <2>4. CASE n = 2
    BY <1>0, <1>2, <2>1, <2>4
  <2> QED  BY <2>1, <2>3, <2>4
<1>4. ASSUME PostFails(kind, w)
      PROVE  /\ \A k \in RowKind : k # kind => Opened(k)' = Opened(k)
             /\ ghost'.lost \in Nat /\ ghost'.lost >= ghost.lost /\ ghost'.settled = ghost.settled
             /\ Cardinality(Opened(kind)') \in Nat
             /\ Cardinality(Opened(kind)') <= Cardinality(Opened(kind)) + ghost'.lost - ghost.lost
  <2>1. /\ ghost'.settled = ghost.settled
        /\ \/ UNCHANGED issue /\ ghost'.lost = ghost.lost
           \/ Added(kind, w, 1) /\ ghost'.lost = ghost.lost + 1
    BY <1>4, FailedPostAdds
  <2>2. CASE UNCHANGED issue /\ ghost'.lost = ghost.lost
    <3>1. \A k \in RowKind : Opened(k)' = Opened(k)
      BY <2>2 DEF Opened
    <3> QED  BY <1>0, <2>1, <2>2, <3>1
  <2>3. CASE Added(kind, w, 1) /\ ghost'.lost = ghost.lost + 1
    BY <1>0, <1>1, <2>1, <2>3
  <2> QED  BY <2>1, <2>2, <2>3
<1>5. CASE PostFails(kind, w)
  <2>1. Cardinality(Opened(kind)') <= Cardinality(Opened(kind)) + 1 + ghost'.lost - ghost.lost
    BY <1>0, <1>4, <1>5
  <2> QED  BY <1>4, <1>5, <2>1
<1>6. CASE ~PostFails(kind, w)
  BY <1>3, <1>6 DEF Attempt
<1> QED  BY <1>5, <1>6

LEMMA CountKept == ASSUME ContribInv, Next PROVE CountInv'
<1>0. /\ Typed /\ LockInv /\ OpenInv /\ StageInv /\ CoreInv /\ CoreCount /\ (\A k \in Sidecar : SideCount(k)) /\ Kept
      /\ "core" \in RowKind /\ "core" \notin Sidecar /\ Sidecar \subseteq RowKind
      /\ ghost.settled \in Nat /\ ghost.lost \in Nat /\ ghost'.settled \in Nat /\ ghost'.lost \in Nat
      /\ row \in [RowKind -> RowRec] /\ call \in [Operator -> CallRec] /\ stage \in StageRec
  BY Constants, IssuesKept, NextTyped, FieldTypes DEF ContribInv, CountInv, Typed
<1>1. \A k \in RowKind : Cardinality(Opened(k)) \in Nat
  BY <1>0, OpenedFinite
(* Steps that open no issue of the kind: what named its issue still does,  *)
(* or it was settled or lost.                                              *)
<1>2. ASSUME Opened("core")' = Opened("core"), ghost'.settled >= ghost.settled, ghost'.lost >= ghost.lost,
             \/ CoreNamed => CoreNamed'
             \/ ghost'.settled >= ghost.settled + 1
             \/ ghost'.lost >= ghost.lost + 1
      PROVE  CoreCount'
  <2> DEFINE a == Cardinality(Opened("core"))
  <2>1. Cardinality(Opened("core")') = a
    BY <1>2
  <2>2. a \in Nat /\ a <= (IF CoreNamed THEN 1 ELSE 0) + ghost.settled + ghost.lost
    BY <1>0, <1>1 DEF CoreCount, One
  <2> HIDE DEF a
  <2>3. a <= (IF CoreNamed' THEN 1 ELSE 0) + ghost'.settled + ghost'.lost
    <3>1. CASE CoreNamed /\ CoreNamed'
      BY <1>0, <1>2, <2>2, <3>1
    <3>2. CASE ~CoreNamed
      BY <1>0, <1>2, <2>2, <3>2
    <3>3. CASE CoreNamed /\ ~CoreNamed'
      BY <1>0, <1>2, <2>2, <3>3
    <3> QED  BY <3>1, <3>2, <3>3
  <2> QED  BY <2>1, <2>3 DEF CoreCount, One
<1>3. ASSUME NEW k \in Sidecar, Opened(k)' = Opened(k), ghost'.lost >= ghost.lost,
             (SideNamed(k) => SideNamed(k)') \/ ghost'.lost >= ghost.lost + 1
      PROVE  SideCount(k)'
  <2> DEFINE a == Cardinality(Opened(k))
  <2>1. Cardinality(Opened(k)') = a
    BY <1>3
  <2>2. a \in Nat /\ a <= (IF SideNamed(k) THEN 1 ELSE 0) + ghost.lost
    BY <1>0, <1>1 DEF SideCount, One
  <2> HIDE DEF a
  <2>3. a <= (IF SideNamed(k)' THEN 1 ELSE 0) + ghost'.lost
    <3>1. CASE SideNamed(k) /\ SideNamed(k)'
      BY <1>0, <1>3, <2>2, <3>1
    <3>2. CASE ~SideNamed(k)
      BY <1>0, <1>3, <2>2, <3>2
    <3>3. CASE SideNamed(k) /\ ~SideNamed(k)'
      BY <1>0, <1>3, <2>2, <3>3
    <3> QED  BY <3>1, <3>2, <3>3
  <2> QED  BY <2>1, <2>3 DEF SideCount, One
<1>4. UNCHANGED issue => \A k \in RowKind : Opened(k)' = Opened(k)
  BY DEF Opened
<1>5. CASE Contribute
  <2>1. UNCHANGED call
    BY <1>5, StageWrites
  <2>2. row'["core"] = row["core"]
    BY <1>0, <1>5, RowSubmitted
  <2>3. CoreNamed => CoreNamed'
    BY <2>1, <2>2 DEF CoreNamed
  <2>4. \A k \in Sidecar : row[k].issue # 0 => row'[k].issue # 0
    BY <1>0, <1>5, RowSubmitted
  <2>5. CASE RecordPosted
    <3>1. /\ UNCHANGED issue
          /\ \/ ghost'.settled = ghost.settled /\ ghost'.lost = ghost.lost + 1
             \/ UNCHANGED ghost /\ row'[Head(stage.todo)].issue \in Opened(Head(stage.todo))
      BY <1>0, <1>5, <2>5, RowSubmitted DEF SubmitNext, RecordPosted
    <3>2. CASE ghost'.settled = ghost.settled /\ ghost'.lost = ghost.lost + 1
      BY <1>0, <1>2, <1>3, <1>4, <2>3, <3>1, <3>2 DEF CountInv
    <3>3. CASE UNCHANGED ghost /\ row'[Head(stage.todo)].issue \in Opened(Head(stage.todo))
      <4>1. row'[Head(stage.todo)].issue # 0
        BY <3>3 DEF Opened
      <4>2. \A k \in Sidecar : SideNamed(k) => SideNamed(k)'
        BY <2>4, <4>1 DEF SideNamed
      <4> QED  BY <1>0, <1>2, <1>3, <1>4, <2>3, <3>1, <3>3, <4>2 DEF CountInv
    <3> QED  BY <3>1, <3>2, <3>3
  <2>6. CASE ~RecordPosted /\ UNCHANGED <<issue, ghost>>
    <3>1. stage.pc # "record"
      BY <1>5, <2>6 DEF Contribute, StartStage, ResolveWorkSlug, StageFails, ParkStage, SubmitNext, FinishStage
    <3>2. \A k \in Sidecar : SideNamed(k) => SideNamed(k)'
      BY <2>4, <3>1 DEF SideNamed
    <3> QED  BY <1>0, <1>2, <1>3, <1>4, <2>3, <2>6, <3>2 DEF CountInv
  <2>7. CASE SubmitNext /\ ~UNCHANGED <<issue, ghost>>
    <3>1. stage.pc = "submit" /\ stage.todo # <<>>
      BY <2>7 DEF SubmitNext
    <3>a. stage.todo \in Seq(Sidecar)
      BY <1>0, FieldTypes DEF Typed
    <3>b. Head(stage.todo) \in Sidecar /\ Head(stage.todo) = stage.todo[1] /\ 1 \in 1..Len(stage.todo)
      BY <3>1, <3>a
    <3>2. PICK h \in Sidecar : h = Head(stage.todo) /\ h = stage.todo[1] /\ 1 \in 1..Len(stage.todo)
      BY <3>b
    <3>3. h \in RowKind /\ stage.work \in WorkId
      BY <1>0, <3>2, FieldTypes
    <3>4. /\ ~RowSettled(stage.seen[h]) /\ UNCHANGED row
          /\ \/ (Posted(h, stage.work) \/ PostedTwice(h, stage.work)) /\ stage' = [stage EXCEPT !.pc = "record"]
             \/ PostFails(h, stage.work)
      BY <2>7, <3>2 DEF SubmitNext
    <3>5. Attempt(h, stage.work)
      BY <3>4 DEF Attempt
    <3>6. ~SideNamed(h)
      BY <1>0, <3>1, <3>2, <3>4 DEF StageInv, RowSettled, SideNamed
    <3>7. PostFails(h, stage.work) \/ SideNamed(h)'
      <4>1. CASE stage' = [stage EXCEPT !.pc = "record"]
        <5>1. stage'.pc = "record" /\ stage'.todo = stage.todo
          BY <1>0, <4>1 DEF StageRec
        <5> QED  BY <3>2, <5>1 DEF SideNamed
      <4> QED  BY <3>4, <4>1
    <3>8. /\ \A k \in RowKind : k # h => Opened(k)' = Opened(k)
          /\ ghost'.lost >= ghost.lost /\ ghost'.settled = ghost.settled
          /\ Cardinality(Opened(h)') \in Nat
          /\ Cardinality(Opened(h)') <= Cardinality(Opened(h)) + 1 + ghost'.lost - ghost.lost
          /\ PostFails(h, stage.work) => Cardinality(Opened(h)') <= Cardinality(Opened(h)) + ghost'.lost - ghost.lost
      BY <1>0, <3>3, <3>5, AttemptCounts
    <3>9. CoreCount'
      <4>1. Opened("core")' = Opened("core")
        BY <1>0, <3>2, <3>8
      <4> QED  BY <1>0, <1>2, <2>3, <3>8, <4>1
    <3>10. SideCount(h)'
      <4> DEFINE a == Cardinality(Opened(h))
                 b == Cardinality(Opened(h)')
      <4>1. a \in Nat /\ b \in Nat /\ a <= ghost.lost
        BY <1>0, <1>1, <3>3, <3>6, <3>8 DEF SideCount, One
      <4>2. b <= a + 1 + ghost'.lost - ghost.lost /\ (SideNamed(h)' \/ b <= a + ghost'.lost - ghost.lost)
        BY <3>7, <3>8
      <4> HIDE DEF a, b
      <4>3. b <= (IF SideNamed(h)' THEN 1 ELSE 0) + ghost'.lost
        <5>1. CASE SideNamed(h)'
          BY <1>0, <4>1, <4>2, <5>1
        <5>2. CASE ~SideNamed(h)'
          BY <1>0, <4>1, <4>2, <5>2
        <5> QED  BY <5>1, <5>2
      <4> QED  BY <4>3 DEF SideCount, One, b
    <3>11. ASSUME NEW k \in Sidecar, k # h PROVE SideCount(k)'
      <4>1. SideNamed(k) => SideNamed(k)'
        BY <3>1, <3>4 DEF SideNamed
      <4> QED  BY <1>0, <1>3, <3>8, <3>11, <4>1
    <3> QED  BY <3>9, <3>10, <3>11 DEF CountInv
  <2>8. ~SubmitNext /\ ~RecordPosted => UNCHANGED <<issue, ghost>>
    BY <1>5 DEF Contribute, StartStage, ResolveWorkSlug, StageFails, ParkStage, FinishStage, Elsewhere
  <2>9. SubmitNext => ~RecordPosted
    BY DEF SubmitNext, RecordPosted
  <2> QED  BY <2>5, <2>6, <2>7, <2>8, <2>9
<1>6. ASSUME NEW c \in Operator, Serve(c) PROVE CountInv'
  <2>1. UNCHANGED stage
    BY <1>6, CallWrites
  <2>2. \A k \in Sidecar : row'[k] = row[k]
    BY <1>0, <1>6, CallRows, CoreRecorded, PointerCleared
  <2>3. \A k \in Sidecar : SideNamed(k) => SideNamed(k)'
    BY <2>1, <2>2 DEF SideNamed
  <2>4. CASE CreateCore(c)
    <3>1. Attempt("core", NoWork) /\ UNCHANGED row /\ call[c].pc = "create" /\ (Then(c, "record") \/ PostFails("core", NoWork))
      BY <2>4 DEF CreateCore, Attempt
    <3>2. NoWork \in WorkId
      BY DEF WorkId
    <3>3. ~CoreNamed
      <4>1. lock = c /\ ~InFlight(row["core"])
        BY <1>0, <3>1 DEF LockInv, Locked, CoreInv
      <4>2. \A d \in Operator : call[d].pc # "record"
        BY <1>0, <3>1, <4>1 DEF LockInv, Locked
      <4> QED  BY <4>1, <4>2 DEF CoreNamed
    <3>4. CoreNamed' \/ PostFails("core", NoWork)
      <4>1. CASE Then(c, "record")
        <5>1. call'[c].pc = "record"
          BY <1>0, <4>1, CallGoesOn DEF CallPc
        <5> QED  BY <5>1 DEF CoreNamed
      <4> QED  BY <3>1, <4>1
    <3>5. /\ \A k \in RowKind : k # "core" => Opened(k)' = Opened(k)
          /\ ghost'.lost >= ghost.lost /\ ghost'.settled = ghost.settled
          /\ Cardinality(Opened("core")') \in Nat
          /\ Cardinality(Opened("core")') <= Cardinality(Opened("core")) + 1 + ghost'.lost - ghost.lost
          /\ PostFails("core", NoWork) =>
                Cardinality(Opened("core")') <= Cardinality(Opened("core")) + ghost'.lost - ghost.lost
      BY <1>0, <3>1, <3>2, AttemptCounts
    <3>6. CoreCount'
      <4> DEFINE a == Cardinality(Opened("core"))
                 b == Cardinality(Opened("core")')
      <4>1. a \in Nat /\ b \in Nat /\ a <= ghost.settled + ghost.lost
        BY <1>0, <1>1, <3>3, <3>5 DEF CoreCount, One
      <4>2. b <= a + 1 + ghost'.lost - ghost.lost /\ (CoreNamed' \/ b <= a + ghost'.lost - ghost.lost)
        BY <3>4, <3>5
      <4> HIDE DEF a, b
      <4>3. b <= (IF CoreNamed' THEN 1 ELSE 0) + ghost'.settled + ghost'.lost
        <5>1. CASE CoreNamed'
          BY <1>0, <3>5, <4>1, <4>2, <5>1
        <5>2. CASE ~CoreNamed'
          BY <1>0, <3>5, <4>1, <4>2, <5>2
        <5> QED  BY <5>1, <5>2
      <4> QED  BY <4>3 DEF CoreCount, One, b
    <3>7. ASSUME NEW k \in Sidecar PROVE SideCount(k)'
      BY <1>0, <1>3, <2>3, <3>5, <3>7
    <3> QED  BY <3>6, <3>7 DEF CountInv
  <2>6. CASE RecordCore(c)
    <3>1. UNCHANGED issue
      BY <2>6 DEF RecordCore
    <3>2. \/ ghost'.settled = ghost.settled /\ ghost'.lost = ghost.lost + 1
          \/ UNCHANGED ghost /\ row'["core"].status = "submitted"
      BY <1>0, <2>6, CoreRecorded
    <3>3. row'["core"].status = "submitted" => CoreNamed'
      BY DEF CoreNamed, InFlight
    <3> QED  BY <1>0, <1>2, <1>3, <1>4, <2>3, <3>1, <3>2, <3>3 DEF CountInv
  <2>5. CASE ~CreateCore(c) /\ ~RecordCore(c)
    <3>1. UNCHANGED <<issue, ghost>>
      BY <1>6, <2>5 DEF Serve, Handle, Request, LockAndRead, ClearPointer, FlipPark, SetWork, ReadmitBook
    <3>2. CoreNamed => CoreNamed'
      <4>1. CASE ClearPointer(c)
        <5>1. row'["core"].status = "submitted"
          BY <1>0, <4>1, PointerCleared
        <5> QED  BY <5>1 DEF CoreNamed, InFlight
      <4>2. CASE ~ClearPointer(c)
        <5>1. UNCHANGED row
          BY <1>6, <2>5, <4>2, CallRows
        <5>2. call[c].pc # "record" /\ \A d \in Operator : d # c => call'[d] = call[d]
          <6>1. ASSUME NEW op \in {"submit", "work", "retry"}, Request(c, op)
                PROVE  call[c].pc # "record" /\ \A d \in Operator : d # c => call'[d] = call[d]
            BY <1>0, <6>1 DEF Request
          <6>2. CASE LockAndRead(c) \/ FlipPark(c) \/ SetWork(c) \/ ReadmitBook(c)
            BY <1>0, <6>2 DEF LockAndRead, FlipPark, SetWork, ReadmitBook, Unlock, Return, Then
          <6> QED  BY <1>6, <2>5, <4>2, <6>1, <6>2 DEF Serve, Handle
        <5> QED  BY <5>1, <5>2 DEF CoreNamed
      <4> QED  BY <4>1, <4>2
    <3> QED  BY <1>0, <1>2, <1>3, <1>4, <2>3, <3>1, <3>2 DEF CountInv
  <2> QED  BY <2>4, <2>5, <2>6
<1>7. CASE Turn
  <2>1. UNCHANGED <<issue, call, stage>>
    BY <1>7, TurnWrites
  <2>2. \A k \in RowKind : row'[k].issue = row[k].issue
    <3>1. ASSUME NEW j \in RowKind, AdvanceRow(j) PROVE \A k \in RowKind : row'[k].issue = row[k].issue
      BY <1>0, <3>1, RowPolled
    <3> QED  BY <1>0, <1>7, <3>1, TurnRows, RowLearned
  <2>3. \A k \in Sidecar : SideNamed(k) => SideNamed(k)'
    BY <1>0, <2>1, <2>2 DEF SideNamed
  <2>4. /\ ghost'.settled >= ghost.settled /\ ghost'.lost = ghost.lost
        /\ (CoreNamed => CoreNamed') \/ ghost'.settled >= ghost.settled + 1
    <3>1. CASE UNCHANGED <<row, ghost>>
      BY <1>0, <2>1, <3>1 DEF CoreNamed
    <3>2. CASE LearnWork /\ UNCHANGED ghost
      <4>1. UNCHANGED row \/ row'["core"].status = "merged"
        <5>1. poller.pc = "learning"
          BY <3>2 DEF LearnWork
        <5>2. poller.seen["core"].status = "merged"
          BY <1>0, <5>1 DEF CoreInv
        <5> QED  BY <1>0, <3>2, <5>2, RowLearned
      <4> QED  BY <1>0, <2>1, <3>2, <4>1 DEF CoreNamed, InFlight
    <3>3. ASSUME NEW k \in RowKind, AdvanceRow(k), k # "core"
          PROVE  UNCHANGED ghost /\ row'["core"] = row["core"]
      BY <1>0, <3>3, RowPolled
    <3>4. CASE AdvanceRow("core")
      <4> DEFINE t == PollIssue(poller.seen["core"])
      <4>1. /\ poller.seen["core"] \in RowRec /\ IsOpen(poller.seen["core"]) /\ IsOpen(row["core"])
            /\ poller.seen["core"].issue \in 1..Len(issue)
            /\ \/ UNCHANGED ghost /\ row'["core"].status = row["core"].status
               \/ /\ row'["core"].status = t.status
                  /\ ghost' = IF t.status \in {"closed", "already_covered"}
                              THEN [ghost EXCEPT !.settled = @ + 1] ELSE ghost
        BY <1>0, <3>4, RowPolled
      <4>2. t.status \in RowStatus \ {"absent", "local"}
        BY <1>0, <4>1, Polls
      <4> HIDE DEF t
      <4>3. CASE UNCHANGED ghost /\ row'["core"].status = row["core"].status
        BY <1>0, <2>1, <4>3 DEF CoreNamed, InFlight
      <4>4. CASE row'["core"].status = t.status /\ t.status \in {"closed", "already_covered"}
                 /\ ghost' = [ghost EXCEPT !.settled = @ + 1]
        <5>1. ghost'.settled = ghost.settled + 1 /\ ghost'.lost = ghost.lost
          BY <4>4, SettledMore, <1>0 DEF Typed
        <5> QED  BY <1>0, <5>1
      <4>5. CASE row'["core"].status = t.status /\ t.status \notin {"closed", "already_covered"} /\ ghost' = ghost
        BY <1>0, <4>2, <4>5 DEF CoreNamed, InFlight, RowStatus
      <4> QED  BY <4>1, <4>3, <4>4, <4>5
    <3>5. ASSUME NEW k \in RowKind, AdvanceRow(k), k # "core"
          PROVE  /\ ghost'.settled >= ghost.settled /\ ghost'.lost = ghost.lost
                 /\ (CoreNamed => CoreNamed')
      BY <1>0, <2>1, <3>3, <3>5 DEF CoreNamed
    <3> QED  BY <1>7, <3>1, <3>2, <3>4, <3>5, TurnRows
  <2>5. ghost'.lost >= ghost.lost
    BY <1>0, <2>4
  <2> QED  BY <1>0, <1>2, <1>3, <1>4, <2>1, <2>3, <2>4, <2>5 DEF CountInv
<1>8. CASE World
  <2>1. \A k \in RowKind : Opened(k)' = Opened(k)
    <3>1. CASE GitHub
      BY <1>0, <3>1, GitHubKept, OpenedSame
    <3>2. CASE CatalogMoves \/ Crash \/ \E k \in RowKind : IntervalPasses(k)
      BY <1>4, <3>2 DEF CatalogMoves, Crash, IntervalPasses
    <3> QED  BY <1>8, <3>1, <3>2 DEF World
  <2>2. \A k \in RowKind : row'[k].status = row[k].status /\ row'[k].issue = row[k].issue
    BY <1>0, <1>8, WorldRows
  <2>3. InFlight(row["core"]) => InFlight(row'["core"])
    BY <1>0, <2>2 DEF InFlight
  <2>4. CASE ~Crash
    <3>1. UNCHANGED <<call, stage, ghost>>
      BY <1>0, <1>8, <2>4, GitHubWrites DEF World, CatalogMoves, Outside, IntervalPasses
    <3>2. (CoreNamed => CoreNamed') /\ \A k \in Sidecar : SideNamed(k) => SideNamed(k)'
      BY <1>0, <2>2, <2>3, <3>1 DEF CoreNamed, SideNamed
    <3> QED  BY <1>0, <1>2, <1>3, <2>1, <3>1, <3>2 DEF CountInv
  <2>5. CASE Crash
    <3>1. /\ ghost'.lost >= ghost.lost /\ ghost'.settled = ghost.settled
          /\ (\E c \in Operator : call[c].pc = "record") => ghost'.lost >= ghost.lost + 1
          /\ stage.pc = "record" => ghost'.lost >= ghost.lost + 1
      <4>1. PICK n \in Nat :
              /\ ghost' = [ghost EXCEPT !.lost = n] /\ n >= ghost.lost
              /\ (\E c \in Operator : call[c].pc = "record") => n >= ghost.lost + 1
              /\ stage.pc = "record" => n >= ghost.lost + 1
        BY <1>0, <2>5, CrashLoses
      <4>2. ghost'.lost = n /\ ghost'.settled = ghost.settled
        BY <1>0, <4>1 DEF Typed, GhostRec
      <4> QED  BY <4>1, <4>2
    <3>2. (CoreNamed => CoreNamed') \/ ghost'.lost >= ghost.lost + 1
      BY <2>3, <3>1 DEF CoreNamed
    <3>3. \A k \in Sidecar : (SideNamed(k) => SideNamed(k)') \/ ghost'.lost >= ghost.lost + 1
      BY <1>0, <2>2, <3>1 DEF SideNamed
    <3>4. ghost'.settled >= ghost.settled
      BY <1>0, <3>1
    <3> QED  BY <1>0, <1>2, <1>3, <2>1, <3>1, <3>2, <3>3, <3>4 DEF CountInv
  <2> QED  BY <2>4, <2>5
<1> QED  BY <1>5, <1>6, <1>7, <1>8, Actors

-----------------------------------------------------------------------------
(* The theorems.                                                           *)

LEMMA ContribInit == Init => ContribInv
<1> SUFFICES ASSUME Init PROVE ContribInv
  OBVIOUS
<1>1. book = [park |-> "none", msg |-> "none", work |-> conf.recorded, done |-> FALSE]
  BY DEF Init
<1>2. /\ row = [k \in RowKind |-> NoRow] /\ issue = <<>> /\ catalog = "absent" /\ stage = IdleStage
      /\ call = [c \in Operator |-> IdleCall] /\ lock = NoOne /\ poller = IdlePoller
      /\ ghost = [settled |-> 0, lost |-> 0] /\ budget \in Budgets /\ conf \in Confs
  BY DEF Init
<1>3. conf.recorded \in WorkId /\ Usable(conf.recorded)
  BY <1>2, Constants DEF Usable, NoWork, WorkId, Work
<1>4. book \in BookRec
  BY <1>1, <1>3 DEF BookRec, Park, Msg
<1>5. Len(issue) = 0 /\ issue \in Seq(IssueRec) /\ \A k : Opened(k) = {}
  BY <1>2, EmptySeq DEF Opened
<1>6. ghost \in GhostRec
  BY <1>2 DEF GhostRec
<1>7. Typed
  BY <1>2, <1>4, <1>5, <1>6, RecordTypes, Constants DEF Typed
<1>8. /\ NoRow.status = "absent" /\ NoRow.issue = 0 /\ NoRow.pr = 0 /\ IdleStage.pc = "off"
      /\ IdlePoller.pc = "idle" /\ IdlePoller.todo = {} /\ IdlePoller.work = NoWork /\ IdleCall.pc = "idle"
  BY DEF NoRow, IdleStage, IdlePoller, IdleCall
<1>9. LockInv
  BY <1>2, <1>8, Constants DEF LockInv, Locked
<1>10. OpenInv
  BY <1>2, <1>8 DEF OpenInv, IsOpen
<1>11. StageInv
  BY <1>2, <1>8 DEF StageInv
<1>12. CoreInv
  BY <1>2, <1>8, Constants DEF CoreInv, RowSound, SoundOn
<1>13. WorkInv
  <2>1. Usable(NoWork)
    BY DEF Usable, NoWork
  <2>2. Usable(book.work) /\ Usable(poller.work)
    BY <1>1, <1>2, <1>3, <1>8, <2>1
  <2>3. PostedToPublished
    BY <1>5 DEF PostedToPublished
  <2> QED  BY <1>2, <1>8, <2>2, <2>3 DEF WorkInv
<1>14. CountInv
  <2>1. Cardinality({}) = 0
    BY FS_EmptySet
  <2>a. ghost.settled = 0 /\ ghost.lost = 0 /\ \A k : Cardinality(Opened(k)) = 0
    BY <1>2, <1>5, <2>1
  <2>b. One(CoreNamed) \in {0, 1}
    BY DEF One
  <2>2. CoreCount
    BY <2>a, <2>b DEF CoreCount
  <2>3. ASSUME NEW k \in Sidecar PROVE SideCount(k)
    <3>1. One(SideNamed(k)) \in {0, 1}
      BY DEF One
    <3> QED  BY <2>a, <3>1 DEF SideCount
  <2> QED  BY <2>2, <2>3 DEF CountInv
<1> QED  BY <1>7, <1>9, <1>10, <1>11, <1>12, <1>13, <1>14 DEF ContribInv

LEMMA ContribStep == ContribInv /\ [Next]_vars => ContribInv'
<1> SUFFICES ASSUME ContribInv, [Next]_vars PROVE ContribInv'
  OBVIOUS
<1>1. CASE Next
  BY <1>1, NextTyped, LockKept, OpenKept, StageKept, CoreKept, WorkKept, CountKept DEF ContribInv
<1>2. CASE UNCHANGED vars
  BY <1>2 DEF vars, ContribInv, Typed, LockInv, OpenInv, StageInv, CoreInv, RowSound, WorkInv, Usable, Vouched,
              Learnt, PostedToPublished, CountInv, CoreCount, SideCount, CoreNamed, SideNamed, Opened
<1> QED  BY <1>1, <1>2

LEMMA ContribHolds == Spec => []ContribInv
  BY ContribInit, ContribStep, PTL DEF Spec

-----------------------------------------------------------------------------
(* What a contribution promises.                                           *)

(* Every public issue is opened once: a new proposal only after the last   *)
(* one was settled (SubmitCore), a sidecar's issue once (submitIssue,      *)
(* rowSettled); only a lost answer, or a crash or an error between an      *)
(* issue and its row, posts again, and once for each.                      *)
THEOREM EveryIssueOpenedOnce == Spec => []PostedOnce
<1>1. ContribInv => PostedOnce
  <2> SUFFICES ASSUME ContribInv PROVE PostedOnce
    OBVIOUS
  <2>1. Typed /\ CountInv
    BY DEF ContribInv
  <2>2. ghost.settled \in Nat /\ ghost.lost \in Nat
    BY <2>1, FieldTypes DEF Typed
  <2>3. Cardinality(Opened("core")) \in Nat /\ \A k \in Sidecar : Cardinality(Opened(k)) \in Nat
    BY <2>1, OpenedFinite
  <2>4. One(CoreNamed) \in {0, 1} /\ \A k \in Sidecar : One(SideNamed(k)) \in {0, 1}
    BY DEF One
  <2>5. Cardinality(Opened("core")) <= 1 + ghost.settled + ghost.lost
    BY <2>1, <2>2, <2>3, <2>4 DEF CountInv, CoreCount
  <2>6. ASSUME NEW k \in Sidecar PROVE Cardinality(Opened(k)) <= 1 + ghost.lost
    BY <2>1, <2>2, <2>3, <2>4 DEF CountInv, SideCount
  <2> QED  BY <2>5, <2>6 DEF PostedOnce
<1> QED  BY <1>1, ContribHolds, PTL

(* With the lookups on, a sidecar is contributed to a work the published   *)
(* catalogue holds or held, or that a human named: never to an unreleased  *)
(* work, nor to the slug recorded at enqueue and gone since.  With them    *)
(* off, to no work that neither the scan, nor a human, nor a merged        *)
(* proposal named (resolveWorkSlug).                                       *)
THEOREM SidecarsNamePublishedWorks == Spec => []PostedToPublished
<1>1. ContribInv => PostedToPublished
  BY DEF ContribInv, WorkInv
<1> QED  BY <1>1, ContribHolds, PTL

(* The row says merged only of a proposal whose pull request was merged,   *)
(* although the poller writes what it read of an earlier row (advanceRow). *)
THEOREM MergedRowsAreMerged == Spec => []MergedIsTrue
<1>1. ContribInv => MergedIsTrue
  BY DEF ContribInv, CoreInv, RowSound, SoundOn, MergedIsTrue
<1> QED  BY <1>1, ContribHolds, PTL

(* A merged proposal's row stays merged and keeps its issue: no submission *)
(* that read an earlier row replaces it (SubmitCore reads it under the     *)
(* lock), and no poll that listed an earlier row reverts it (advanceRow,   *)
(* flagUnlearned).                                                         *)
THEOREM MergedRowsStayMerged == Spec => MergedIsFinal
<1> DEFINE StaysMerged == row["core"].status = "merged" =>
                      (row["core"].status)' = "merged" /\ (row["core"].issue)' = row["core"].issue
<1>1. ContribInv /\ [Next]_vars => StaysMerged
  <2> SUFFICES ASSUME ContribInv, [Next]_vars, row["core"].status = "merged"
               PROVE  row'["core"].status = "merged" /\ row'["core"].issue = row["core"].issue
    OBVIOUS
  <2>0. Typed /\ OpenInv /\ StageInv /\ CoreInv /\ InFlight(row["core"]) /\ ~IsOpen(row["core"])
    BY DEF ContribInv, InFlight, IsOpen
  <2>1. CASE UNCHANGED vars
    BY <2>1 DEF vars
  <2>2. CASE Contribute
    BY <2>0, <2>2, RowSubmitted, Constants
  <2>3. ASSUME NEW c \in Operator, Serve(c) PROVE UNCHANGED row
    <3>1. CASE RecordCore(c)
      BY <2>0, <3>1 DEF RecordCore, CoreInv
    <3>2. CASE ClearPointer(c)
      BY <2>0, <3>2 DEF ClearPointer, CoreInv
    <3> QED  BY <2>3, <3>1, <3>2, CallRows
  <2>4. CASE Turn
    <3>1. CASE LearnWork
      <4>1. poller.seen["core"].status = "merged"
        BY <2>0, <3>1 DEF LearnWork, CoreInv
      <4> QED  BY <2>0, <3>1, <4>1, RowLearned
    <3>2. ASSUME NEW k \in RowKind, AdvanceRow(k) PROVE row'["core"] = row["core"]
      BY <2>0, <3>2, RowPolled, Constants
    <3> QED  BY <2>4, <3>1, <3>2, TurnRows
  <2>5. CASE World
    BY <2>0, <2>5, WorldRows, Constants
  <2> QED  BY <2>1, <2>2, <2>3, <2>4, <2>5, Actors
<1> QED  BY <1>1, ContribHolds, PTL DEF Spec, MergedIsFinal
=============================================================================
