---------------------------- MODULE ContribFlow ----------------------------
(***************************************************************************)
(* How a finished book's sidecars reach the public repositories: the       *)
(* contributing stage (internal/pipeline/contrib_stage.go), the operator's *)
(* work proposal and manual work (internal/contrib/service.go), the intake *)
(* poller (internal/contrib/poller.go), and the rows they share            *)
(* (internal/store/contributions.go).  GitHub, its intake bot and the      *)
(* published catalogue are the environment.                                *)
(*                                                                         *)
(* One book: books share nothing here but the turns of the poller.         *)
(***************************************************************************)
EXTENDS Integers, FiniteSets, Sequences

CONSTANTS
    Operator,       \* slots for concurrent API calls
    Dimensions,     \* the sidecar kinds, in the order they are submitted
    Confs,          \* contribution.mode, whether metadata lookups are on and
                    \*   the catalogue knows the work by its ASIN or ISBN, and
                    \*   books.work_id as the scan or an override recorded it
    MaxIssues,      \* bounds: issues opened on both repositories,
    Budgets         \*   operator calls; answers of the bot, failed requests
                    \*   and crashes together

Sidecar == {Dimensions[i] : i \in 1..Len(Dimensions)}
RowKind == Sidecar \cup {"core"}

(* Work ids: recorded at enqueue and gone since; set by a human; the one   *)
(* the merged proposal created, and its survivor after a merge upstream.   *)
NoWork == ""
Work   == {"stale", "manual", "learned", "survivor", "placeholder"}

ASSUME ContribAssumption ==
    /\ Dimensions \in Seq({"characters", "recaps"})
    /\ \A i, j \in 1..Len(Dimensions) : Dimensions[i] = Dimensions[j] => i = j
    /\ Operator \subseteq Nat \ {0}
    /\ Confs \subseteq [mode : {"issue", "local"}, meta : BOOLEAN, match : BOOLEAN,
                        recorded : {NoWork, "stale"}]
    /\ MaxIssues \in Nat /\ Budgets \subseteq [ops : Nat, surprises : Nat]

VARIABLES
    conf,       \* the configuration and what the scan recorded
    book,       \* the books row: park code, message, work id; done once contributed
    row,        \* the contributions rows, one per kind
    issue,      \* the issues on GitHub, in the order they were opened
    catalog,    \* the new work in the published catalogue
    stage,      \* the worker running the contributing stage
    call,       \* the API calls in progress
    lock,       \* the book's SubmitCore mutex
    poller,     \* the intake poller
    ghost,      \* settled proposals, for the properties
    budget      \* what is left of the bounds

vars == <<conf, book, row, issue, catalog, stage, call, lock, poller, ghost, budget>>

-----------------------------------------------------------------------------
(* Rows and books.                                                         *)

Verdict   == {"none", "duplicate", "human", "invalid"}
Park      == {"none", "failed", "contrib_unavailable", "core_needed", "core_pending"}
Msg       == {"none", "needed", "duplicate", "submitted", "release", "verdict", "unlearned"}
RowStatus == {"absent", "submitted", "pr_open", "merged", "closed", "local", "already_covered"}

(* issue and pr are indices into the issues (pr: whose intake PR it is);   *)
(* aged: the row was not written for longer than the re-check interval.    *)
NoRow == [status |-> "absent", issue |-> 0, pr |-> 0, verdict |-> "none",
          unlearned |-> FALSE, aged |-> FALSE]

IsOpen(r)     == r.status \in {"submitted", "pr_open"}
(* Mutant: a merged proposal is not in flight.                             *)
InFlight(r)   == r.status \in {"submitted", "pr_open", "merged"}
AwaitsWork(b) == b.park \in {"core_needed", "core_pending"}

(* UpsertContribution keeps the pointer of the row it replaces. *)
Upserted(old, status, n) ==
    [NoRow EXCEPT !.status = status, !.issue = n, !.pr = old.pr]

Upsert(k, status, n) == row' = [row EXCEPT ![k] = Upserted(@, status, n)]

(* SetContributionStatus writes whatever the row is by now. *)
SetRow(k, status, pr, verdict, unlearned) ==
    row' = [row EXCEPT ![k] = [@ EXCEPT !.status = status, !.pr = pr, !.verdict = verdict,
                               !.unlearned = unlearned, !.aged = FALSE]]

SetPark(p, m) == book' = [book EXCEPT !.park = p, !.msg = m]
SetWorkID(w)  == book' = [book EXCEPT !.work = w]

(* Readmit is the scheduler's Retry: only a parked book is re-admitted. *)
Readmit == IF book.park = "none" THEN UNCHANGED book ELSE SetPark("none", "none")

(* The catalogue answers a work under the slug it is live under.  With the *)
(* lookups off (ErrDisabled) nothing can be verified and any slug will do. *)
NotFound == "not_found"
Resolve(w) ==
    CASE ~conf.meta -> w
      [] conf.meta /\ w \in {"stale", "placeholder"} -> NotFound
      [] conf.meta /\ w = "learned" -> (CASE catalog = "absent"  -> NotFound
                                           [] catalog = "live"    -> "learned"
                                           [] catalog = "retired" -> "survivor")
      [] OTHER -> w

-----------------------------------------------------------------------------
(* Opening an issue.  The client repeats a request once after a 5xx answer *)
(* and a request may time out after it took effect, so an attempt opens    *)
(* none, one or two issues and the caller learns of the last one or of     *)
(* none at all.                                                            *)

NewIssue(kind, w) == [kind |-> kind, work |-> w, open |-> TRUE, pr |-> "none",
                      verdict |-> "none", names |-> "unknown"]

CanOpen(n) == Len(issue) + n <= MaxIssues

Posted(kind, w) ==
    CanOpen(1) /\ issue' = Append(issue, NewIssue(kind, w)) /\ UNCHANGED <<budget, ghost>>

(* An issue was opened that no row will name. *)
LoseOne == ghost' = [ghost EXCEPT !.lost = @ + 1]

Surprise == budget.surprises > 0 /\ budget' = [budget EXCEPT !.surprises = @ - 1]

PostedTwice(kind, w) ==
    Surprise /\ CanOpen(2) /\ issue' = issue \o <<NewIssue(kind, w), NewIssue(kind, w)>> /\ LoseOne

PostFails(kind, w) ==
    Surprise /\ \/ UNCHANGED <<issue, ghost>>
                \/ CanOpen(1) /\ issue' = Append(issue, NewIssue(kind, w)) /\ LoseOne

-----------------------------------------------------------------------------
(* The contributing stage.                                                 *)

IdleStage == [pc |-> "off", work |-> NoWork, park |-> "none", msg |-> "none",
              seen |-> [k \in RowKind |-> NoRow], todo |-> <<>>]

Others    == UNCHANGED <<call, lock, poller>>
Elsewhere == Others /\ UNCHANGED ghost

(* The scheduler starts the stage of a runnable book, with the row it listed. *)
StartStage ==
    /\ stage.pc = "off" /\ ~book.done /\ book.park = "none"
    /\ stage' = [IdleStage EXCEPT !.pc = "resolve", !.work = book.work]
    /\ UNCHANGED <<book, row, issue, catalog, budget>> /\ Elsewhere

ToPark(p, m) == stage' = [stage EXCEPT !.pc = "park", !.park = p, !.msg = m]

(* The rows as they are when the submission starts.  The dimensions the    *)
(* catalogue covers were read before: any, but none of the placeholder.    *)
ToSubmit(w)  == stage' = [stage EXCEPT !.pc = "submit", !.work = w, !.todo = Dimensions,
                                      !.seen = [row EXCEPT !["core"] = NoRow]]

(* needsCore: no work upstream, so a proposal is needed or followed. *)
NeedsCore ==
    LET r == row["core"]
    IN  CASE InFlight(r) -> ToPark("core_pending", IF r.verdict \in {"human", "invalid"}
                                                   THEN "verdict" ELSE "submitted")
          [] r.status = "already_covered" -> ToPark("core_needed", "duplicate")
          [] OTHER -> ToPark("core_needed", "needed")

(* lookupByIdentifier, then the placeholder or the proposal.  A lookup     *)
(* that fails counts as one that found nothing.                            *)
Identified == conf.meta /\ conf.match /\ catalog # "absent"

NoMatch == UNCHANGED book /\ IF conf.mode = "local" THEN ToSubmit("placeholder") ELSE NeedsCore

LookUp ==
    \/ Identified /\ SetWorkID(Resolve("learned")) /\ ToSubmit(Resolve("learned")) /\ UNCHANGED budget
    \/ Identified /\ Surprise /\ NoMatch
    \/ ~Identified /\ NoMatch /\ UNCHANGED budget

(* Mutant: an unreleased work is contributed to all the same.              *)
ResolvesUnreleased ==
    /\ stage.pc = "resolve"
    /\ IF stage.work # NoWork THEN ToSubmit(stage.work) /\ UNCHANGED <<book, budget>> ELSE LookUp
    /\ UNCHANGED <<row, issue, catalog>> /\ Elsewhere

(* resolveWorkSlug: verify the recorded work; without it, look it up. *)
ResolveWorkSlug ==
    /\ stage.pc = "resolve"
    /\ IF stage.work = NoWork THEN LookUp
       ELSE IF Resolve(stage.work) # NotFound
       THEN /\ IF Resolve(stage.work) = stage.work THEN UNCHANGED book
               ELSE SetWorkID(Resolve(stage.work))
            /\ ToSubmit(Resolve(stage.work)) /\ UNCHANGED budget
       ELSE IF row["core"].status = "merged"
       THEN ToPark("core_pending", "release") /\ UNCHANGED <<book, budget>>
       ELSE LookUp
    /\ UNCHANGED <<row, issue, catalog>> /\ Elsewhere

(* The recorded work cannot be verified, a file or a row not be written;   *)
(* or there is no credential.                                              *)
StageFails ==
    /\ Surprise
    /\ \/ stage.pc \in {"resolve", "submit"} /\ ToPark("failed", "none")
       \/ stage.pc = "submit" /\ stage.todo = Dimensions /\ conf.mode = "issue"
          /\ ToPark("contrib_unavailable", "none")
    /\ UNCHANGED <<book, row, issue, catalog>> /\ Elsewhere

ParkStage ==
    /\ stage.pc = "park"
    /\ SetPark(stage.park, stage.msg)
    /\ stage' = IdleStage
    /\ UNCHANGED <<row, issue, catalog, budget>> /\ Elsewhere

(* Mutant: only a row still open counts as posted.                         *)
OpenRowSettled(r) == IsOpen(r)

(* rowSettled: it was posted (it has a URL), exported, or is covered. *)
RowSettled(r) == r.issue # 0 \/ r.status \in {"local", "already_covered"}

NextDimension ==
    stage' = [stage EXCEPT !.pc = "submit", !.todo = Tail(@), !.seen[Head(stage.todo)] = NoRow]

(* One dimension of submitIssue or submitLocal. *)
SubmitNext ==
    /\ stage.pc = "submit" /\ stage.todo # <<>>
    /\ LET k == Head(stage.todo)
       IN  \/ RowSettled(stage.seen[k]) /\ NextDimension /\ UNCHANGED <<row, issue, budget, ghost>>
           \/ /\ ~RowSettled(stage.seen[k]) /\ stage.work # "placeholder" /\ conf.meta
              /\ Upsert(k, "already_covered", 0) /\ NextDimension /\ UNCHANGED <<issue, budget, ghost>>
           \/ /\ ~RowSettled(stage.seen[k]) /\ conf.mode = "local"
              /\ Upsert(k, "local", 0) /\ NextDimension /\ UNCHANGED <<issue, budget, ghost>>
           \/ /\ ~RowSettled(stage.seen[k]) /\ conf.mode = "issue"
              /\ \/ /\ Posted(k, stage.work) \/ PostedTwice(k, stage.work)
                    /\ stage' = [stage EXCEPT !.pc = "record"]
                 \/ PostFails(k, stage.work) /\ ToPark("failed", "none")
              /\ UNCHANGED row
    /\ UNCHANGED <<book, catalog>> /\ Others

(* The row of the issue just opened; when the write fails the stage does,  *)
(* and nothing names the issue.                                            *)
RecordPosted ==
    /\ stage.pc = "record"
    /\ \/ /\ LET k == Head(stage.todo)
                  mine == {n \in 1..Len(issue) : issue[n].kind = k}
              IN  \E n \in mine : (\A m \in mine : m <= n) /\ Upsert(k, "submitted", n)
          /\ NextDimension
          /\ UNCHANGED <<budget, ghost>>
       \/ Surprise /\ LoseOne /\ ToPark("failed", "none") /\ UNCHANGED row
    /\ UNCHANGED <<book, issue, catalog>> /\ Others

(* The sentinel; the scheduler then moves the book on. *)
FinishStage ==
    /\ stage.pc = "submit" /\ stage.todo = <<>>
    /\ book' = [book EXCEPT !.done = TRUE, !.park = "none", !.msg = "none"]
    /\ stage' = IdleStage
    /\ UNCHANGED <<row, issue, catalog, budget>> /\ Elsewhere

Contribute == \/ StartStage \/ ResolveWorkSlug \/ StageFails \/ ParkStage
              \/ SubmitNext \/ RecordPosted \/ FinishStage

-----------------------------------------------------------------------------
(* API calls: the work proposal, a work set by hand, a retry.              *)

IdleCall == [pc |-> "idle", op |-> "none", park |-> "none"]
NoOne    == 0

Return(c)     == call' = [call EXCEPT ![c] = IdleCall]
Then(c, pc)   == call' = [call EXCEPT ![c].pc = pc]
Unlock(c)     == Return(c) /\ lock' = NoOne
CallElsewhere == UNCHANGED <<catalog, stage, poller>>

(* A handler reads the book; SubmitCore is offered only while the book is  *)
(* parked core_needed (handleContributeCore).                              *)
Request(c, op) ==
    /\ call[c].pc = "idle" /\ budget.ops > 0 /\ ~book.done
    /\ \A d \in Operator : d < c => call[d].pc # "idle"
    /\ op = "submit" => book.park = "core_needed"
    /\ op = "retry" => book.park # "none"
    /\ call' = [call EXCEPT ![c] = [IdleCall EXCEPT !.op = op, !.park = book.park,
                  !.pc = CASE op = "submit" -> "lock" [] op = "work" -> "work" [] OTHER -> "readmit"]]
    /\ budget' = [budget EXCEPT !.ops = @ - 1]
    /\ UNCHANGED <<book, row, issue, lock, ghost>> /\ CallElsewhere

(* Mutant: the book and its rows are not read again under the lock.        *)
LockWithoutReread(c) ==
    /\ call[c].pc = "lock" /\ lock = NoOne
    /\ lock' = c /\ Then(c, "create")
    /\ UNCHANGED <<book, row, issue, budget, ghost>> /\ CallElsewhere

(* The lock, then the book and its rows as they are now: a proposal in     *)
(* flight is reused, a book that moved on is refused.                      *)
LockAndRead(c) ==
    /\ call[c].pc = "lock" /\ lock = NoOne
    /\ \/ /\ InFlight(row["core"]) /\ row["core"].issue # 0
          /\ lock' = c
          /\ call' = [call EXCEPT ![c].pc = "flip", ![c].park = book.park]
       \/ /\ ~(InFlight(row["core"]) /\ row["core"].issue # 0)
          /\ book.park = "core_needed"
          /\ lock' = c
          /\ call' = [call EXCEPT ![c].pc = "create", ![c].park = book.park]
       \/ /\ ~(InFlight(row["core"]) /\ row["core"].issue # 0)
          /\ book.park # "core_needed"
          /\ Return(c) /\ UNCHANGED lock
    /\ UNCHANGED <<book, row, issue, budget, ghost>> /\ CallElsewhere

CreateCore(c) ==
    /\ call[c].pc = "create"
    /\ \/ /\ Posted("core", NoWork) \/ PostedTwice("core", NoWork)
          /\ Then(c, "record") /\ UNCHANGED lock
       \/ PostFails("core", NoWork) /\ Unlock(c)
    /\ UNCHANGED <<book, row>> /\ CallElsewhere

RecordCore(c) ==
    /\ call[c].pc = "record"
    /\ \/ /\ LET mine == {n \in 1..Len(issue) : issue[n].kind = "core"}
              IN  \E n \in mine : (\A m \in mine : m <= n) /\ Upsert("core", "submitted", n)
          /\ Then(c, IF row["core"].pr # 0 THEN "clear" ELSE "flip")
          /\ UNCHANGED <<lock, budget, ghost>>
       \/ Surprise /\ LoseOne /\ Unlock(c) /\ UNCHANGED row
    /\ UNCHANGED <<book, issue>> /\ CallElsewhere

(* The replaced row's pointer goes in a write of its own. *)
ClearPointer(c) ==
    /\ call[c].pc = "clear"
    /\ SetRow("core", "submitted", 0, "none", FALSE)
    /\ Then(c, "flip")
    /\ UNCHANGED <<book, issue, lock, budget, ghost>> /\ CallElsewhere

(* Mutant: the mutex is not given back.                                    *)
FlipKeepsLock(c) ==
    /\ call[c].pc = "flip"
    /\ IF call[c].park = "core_pending" THEN UNCHANGED book ELSE SetPark("core_pending", "submitted")
    /\ Return(c)
    /\ UNCHANGED <<row, issue, lock, budget, ghost>> /\ CallElsewhere

(* ensureCorePending, on the park read under the lock. *)
FlipPark(c) ==
    /\ call[c].pc = "flip"
    /\ IF call[c].park = "core_pending" THEN UNCHANGED book ELSE SetPark("core_pending", "submitted")
    /\ Unlock(c)
    /\ UNCHANGED <<row, issue, budget, ghost>> /\ CallElsewhere

(* SetWork: a slug the catalogue holds, then the re-admission of a book    *)
(* that was waiting for a work when the call was made.                     *)
SetWork(c) ==
    /\ call[c].pc = "work"
    /\ SetWorkID("manual")
    /\ IF call[c].park \in {"core_needed", "core_pending"} THEN Then(c, "readmit") ELSE Return(c)
    /\ UNCHANGED <<row, issue, lock, budget, ghost>> /\ CallElsewhere

ReadmitBook(c) ==
    /\ call[c].pc = "readmit"
    /\ Readmit /\ Return(c)
    /\ UNCHANGED <<row, issue, lock, budget, ghost>> /\ CallElsewhere

Handle(c) == \/ LockAndRead(c) \/ CreateCore(c) \/ RecordCore(c) \/ ClearPointer(c)
             \/ FlipPark(c) \/ SetWork(c) \/ ReadmitBook(c)

-----------------------------------------------------------------------------
(* The poller: one tick advances the open rows it listed, then re-checks   *)
(* the books waiting for a release, then learns the works of merged        *)
(* proposals.                                                              *)

IdlePoller == [pc |-> "idle", todo |-> {}, seen |-> [k \in RowKind |-> NoRow],
               verdict |-> "none", pending |-> FALSE, msg |-> "none", work |-> NoWork,
               after |-> "idle"]
PollElsewhere == UNCHANGED <<issue, catalog, stage, call, lock, budget>>

(* A row waiting for a human is re-checked once an interval has passed. *)
Due(r) == IsOpen(r) /\ (r.verdict \in {"human", "invalid"} => r.aged)

ListOpen ==
    /\ poller.pc = "idle"
    /\ \E k \in RowKind : Due(row[k])
    /\ poller' = [IdlePoller EXCEPT !.pc = "rows", !.todo = {k \in RowKind : Due(row[k])},
                     !.seen = [k \in RowKind |-> IF Due(row[k]) THEN row[k] ELSE NoRow]]
    /\ UNCHANGED <<book, row, ghost>> /\ PollElsewhere

Target(status, pr, verdict) == [status |-> status, pr |-> pr, verdict |-> verdict]

(* Mutant: a closed pull request is taken for a merged one.                *)
PrTargetMerged(n, verdict) ==
    Target(CASE issue[n].pr \in {"merged", "closed"} -> "merged" [] OTHER -> "pr_open", n, verdict)

PrTarget(n, verdict) ==
    Target(CASE issue[n].pr = "merged" -> "merged" [] issue[n].pr = "closed" -> "closed"
             [] OTHER -> "pr_open", n, verdict)

(* pollIssueMode, on the row as it was listed: the known intake PR, the PR *)
(* of the issue's branch, the bot's verdict, a closed issue, or nothing.   *)
PollIssue(r) ==
    LET it == issue[r.issue]
    IN  CASE r.pr # 0            -> PrTarget(r.pr, r.verdict)
          [] r.pr = 0 /\ it.pr # "none" -> PrTarget(r.issue, "none")
          [] r.pr = 0 /\ it.pr = "none" /\ it.verdict # "none" ->
                Target(CASE it.verdict = "duplicate" -> "already_covered"
                         [] it.verdict # "duplicate" /\ ~it.open -> "closed"
                         [] OTHER -> "submitted", 0, it.verdict)
          [] r.pr = 0 /\ it.pr = "none" /\ it.verdict = "none" /\ ~it.open ->
                Target("closed", 0, "none")
          [] OTHER -> Target(r.status, 0, "none")

(* advanceRow.  A core row with a verdict it did not have is followed up. *)
AdvanceRow(k) ==
    LET r == poller.seen[k]
        t == PollIssue(r)
        changed == t # Target(r.status, r.pr, r.verdict)
    IN  /\ poller.pc = "rows" /\ k \in poller.todo
        /\ IF changed THEN SetRow(k, t.status, t.pr, t.verdict, row[k].unlearned)
           ELSE row' = [row EXCEPT ![k].aged = @ /\ t.verdict = "none"]
        /\ ghost' = IF k = "core" /\ changed /\ t.status \in {"closed", "already_covered"}
                    THEN [ghost EXCEPT !.settled = @ + 1] ELSE ghost
        /\ poller' = [poller EXCEPT !.todo = @ \ {k}, !.seen[k] = NoRow,
                        !.pc = IF k = "core" /\ changed /\ t.verdict \notin {"none", r.verdict}
                               THEN "verdict" ELSE "rows",
                        !.verdict = IF k = "core" THEN t.verdict ELSE @]
        /\ UNCHANGED book /\ PollElsewhere

(* A request fails: the row waits for the next tick. *)
SkipRow(k) ==
    /\ poller.pc = "rows" /\ k \in poller.todo
    /\ Surprise
    /\ poller' = [poller EXCEPT !.todo = @ \ {k}, !.seen[k] = NoRow]
    /\ UNCHANGED <<book, row, ghost, issue, catalog, stage, call, lock>>

(* What a step read is forgotten with the step. *)
GoOn(pc) ==
    poller' = [(IF pc \in {"idle", "learn"} THEN IdlePoller ELSE poller) EXCEPT !.pc = pc,
                 !.verdict = IF pc = "rows" THEN "none" ELSE @,
                 !.work = NoWork, !.pending = FALSE, !.msg = "none"]

(* coreVerdictFollowUp: read the book, then act on what was read. *)
ReadForVerdict ==
    /\ poller.pc = "verdict"
    /\ GoOn(CASE book.park # "core_pending" -> "rows"
              [] book.park = "core_pending" /\ poller.verdict = "duplicate" -> "verdict_readmit"
              [] OTHER -> "verdict_write")
    /\ UNCHANGED <<book, row, ghost>> /\ PollElsewhere

FollowVerdict ==
    /\ \/ poller.pc = "verdict_readmit" /\ Readmit
       \/ poller.pc = "verdict_write" /\ SetPark("core_pending", "verdict")
    /\ GoOn("rows")
    /\ UNCHANGED <<row, ghost>> /\ PollElsewhere

(* ListBooksAwaitingRelease and ListBooksWithUnresolvedMergedCore.         *)
Awaiting   == book.work # NoWork /\ book.park = "core_pending" /\ row["core"].status = "merged"
Unresolved == LET r == row["core"]
              IN  book.work = NoWork /\ r.status = "merged" /\ r.pr # 0 /\ ~r.unlearned

(* The book as a list returns it. *)
Listed(pc, after) ==
    poller' = [IdlePoller EXCEPT !.pc = pc, !.after = after, !.pending = book.park = "core_pending",
                                 !.msg = book.msg, !.work = book.work]

(* A list without a row is the same step as the next list of the tick.     *)
RowsDone == \/ poller.pc = "idle" /\ \A k \in RowKind : ~Due(row[k])
            \/ poller.pc = "rows" /\ poller.todo = {}

ListAwaiting ==
    /\ RowsDone /\ Awaiting
    /\ Listed("admit", "learn")
    /\ UNCHANGED <<book, row, ghost>> /\ PollElsewhere

(* Mutant: a book is never let through the gate.                           *)
AdmitNever ==
    /\ poller.pc = "admit"
    /\ GoOn(poller.after)
    /\ UNCHANGED <<book, row, ghost>> /\ PollElsewhere

(* admitWhenLive: the gate, on the listed book. *)
AdmitWhenLive ==
    LET live == Resolve(poller.work)
    IN  /\ poller.pc = "admit"
        /\ IF live = NotFound
           THEN /\ GoOn(IF poller.pending /\ poller.msg # "release" THEN "admit_wait" ELSE poller.after)
                /\ UNCHANGED book
           ELSE /\ GoOn(IF poller.pending THEN "admit_readmit" ELSE poller.after)
                /\ IF live = poller.work THEN UNCHANGED book ELSE SetWorkID(live)
        /\ UNCHANGED <<row, ghost>> /\ PollElsewhere

FinishAdmit ==
    /\ \/ poller.pc = "admit_wait" /\ SetPark("core_pending", "release")
       \/ poller.pc = "admit_readmit" /\ Readmit
    /\ GoOn(poller.after)
    /\ UNCHANGED <<row, ghost>> /\ PollElsewhere

ListUnresolved ==
    /\ poller.pc = "learn" \/ (RowsDone /\ ~Awaiting)
    /\ Unresolved
    /\ poller' = [IdlePoller EXCEPT !.pc = "learning", !.msg = book.msg, !.seen["core"] = row["core"],
                                    !.pending = book.park = "core_pending"]
    /\ UNCHANGED <<book, row, ghost>> /\ PollElsewhere

EndTick ==
    /\ poller.pc = "learn" \/ (poller.pc = "rows" /\ poller.todo = {} /\ ~Awaiting)
    /\ ~Unresolved
    /\ poller' = IdlePoller
    /\ UNCHANGED <<book, row, ghost>> /\ PollElsewhere

(* learnCreatedWork names one work, or a reason for a human. *)
LearnWork ==
    LET r == poller.seen["core"]
    IN  /\ poller.pc = "learning"
        /\ IF issue[r.pr].names = "one"
           THEN /\ SetWorkID("learned")
                /\ poller' = [poller EXCEPT !.pc = "admit", !.after = "idle", !.work = "learned",
                                            !.seen["core"] = NoRow]
                /\ UNCHANGED row
           ELSE /\ SetRow("core", r.status, r.pr, r.verdict, TRUE)
                /\ UNCHANGED book
                /\ IF poller.pending THEN poller' = [IdlePoller EXCEPT !.pc = "tell"]
                   ELSE poller' = IdlePoller
        /\ UNCHANGED ghost /\ PollElsewhere

TellUnlearned ==
    /\ poller.pc = "tell"
    /\ SetPark("core_pending", "unlearned")
    /\ poller' = IdlePoller
    /\ UNCHANGED <<row, ghost>> /\ PollElsewhere

Poll == \/ ListOpen \/ ReadForVerdict \/ FollowVerdict \/ ListAwaiting \/ AdmitWhenLive
        \/ FinishAdmit \/ ListUnresolved \/ EndTick \/ LearnWork \/ TellUnlearned
        \/ \E k \in RowKind : AdvanceRow(k)

-----------------------------------------------------------------------------
(* GitHub, its bot and maintainers, the catalogue, the clock, crashes.     *)
(* Nothing follows from what GitHub does once the book is done.            *)

UseEvent == ~book.done /\ Surprise
Outside  == UNCHANGED <<book, row, stage, call, lock, poller, ghost>>

(* A duplicate is settled; the other verdicts may give way to a PR. *)
BotAnswers(n) ==
    /\ issue[n].open /\ issue[n].pr = "none" /\ issue[n].verdict # "duplicate"
    /\ UseEvent
    /\ \E v \in Verdict \ {"none"} : issue' = [issue EXCEPT ![n].verdict = v]
    /\ UNCHANGED catalog /\ Outside

BotOpensPR(n) ==
    /\ issue[n].open /\ issue[n].pr = "none" /\ issue[n].verdict # "duplicate"
    /\ UseEvent
    /\ issue' = [issue EXCEPT ![n].pr = "open"]
    /\ UNCHANGED catalog /\ Outside

MaintainerCloses(n) ==
    /\ issue[n].open /\ ~book.done
    /\ \/ /\ issue[n].pr = "open"
          /\ \E names \in {"one", "several"} :
                issue' = [issue EXCEPT ![n].pr = "merged", ![n].names = names, ![n].open = FALSE]
       \/ issue[n].pr = "open" /\ issue' = [issue EXCEPT ![n].pr = "closed", ![n].open = FALSE]
       \/ issue[n].pr = "none" /\ issue' = [issue EXCEPT ![n].open = FALSE]
    /\ UNCHANGED <<catalog, budget>> /\ Outside

(* A release carries the merged work, or one that somebody else added;     *)
(* later upstream may merge it away.                                       *)
CatalogMoves ==
    /\ \/ /\ catalog = "absent" /\ catalog' = "live"
          /\ conf.match \/ \E n \in 1..Len(issue) : issue[n].kind = "core" /\ issue[n].pr = "merged"
       \/ catalog = "live" /\ catalog' = "retired"
    /\ UNCHANGED <<issue, budget>> /\ Outside

IntervalPasses(k) ==
    /\ IsOpen(row[k]) /\ row[k].verdict # "none" /\ ~row[k].aged
    /\ row' = [row EXCEPT ![k].aged = TRUE]
    /\ UNCHANGED <<book, issue, catalog, stage, call, lock, poller, ghost, budget>>

Crash ==
    /\ Surprise
    /\ stage' = IdleStage /\ poller' = IdlePoller /\ lock' = NoOne
    /\ call' = [c \in Operator |-> IdleCall]
    /\ ghost' = [ghost EXCEPT !.lost = @ + Cardinality({c \in Operator : call[c].pc = "record"})
                                         + (IF stage.pc = "record" THEN 1 ELSE 0)]
    /\ UNCHANGED <<book, row, issue, catalog>>

Init ==
    /\ conf \in Confs
    /\ book = [park |-> "none", msg |-> "none", work |-> conf.recorded, done |-> FALSE]
    /\ row = [k \in RowKind |-> NoRow]
    /\ issue = <<>>
    /\ catalog = "absent"
    /\ stage = IdleStage
    /\ call = [c \in Operator |-> IdleCall]
    /\ lock = NoOne
    /\ poller = IdlePoller
    /\ ghost = [settled |-> 0, lost |-> 0]
    /\ budget \in Budgets

GitHub == \E n \in 1..Len(issue) : BotAnswers(n) \/ BotOpensPR(n) \/ MaintainerCloses(n)

Step == \/ Contribute \/ Poll \/ GitHub \/ CatalogMoves \/ Crash
        \/ \E k \in RowKind : SkipRow(k) \/ IntervalPasses(k)
        \/ \E c \in Operator : Handle(c) \/ \E op \in {"submit", "work", "retry"} : Request(c, op)

Next == Step /\ UNCHANGED conf

Spec == Init /\ [][Next]_vars

(* The scheduler and the poller keep turning, a handler runs to its end,   *)
(* time passes.  Nobody has to act: not GitHub, not an operator.           *)
Fairness == /\ WF_vars(Contribute /\ UNCHANGED conf) /\ WF_vars(Poll /\ UNCHANGED conf)
            /\ \A c \in Operator : WF_vars(Handle(c) /\ UNCHANGED conf)
            /\ \A k \in RowKind : WF_vars(IntervalPasses(k) /\ UNCHANGED conf)

FairSpec == Spec /\ Fairness

-----------------------------------------------------------------------------
(* What a contribution promises.                                           *)

Opened(kind) == {n \in 1..Len(issue) : issue[n].kind = kind}

ContribTypeOK ==
    /\ book \in [park : Park, msg : Msg, work : Work \cup {NoWork}, done : BOOLEAN]
    /\ row \in [RowKind -> [status : RowStatus, issue : 0..MaxIssues, pr : 0..MaxIssues,
                            verdict : Verdict, unlearned : BOOLEAN, aged : BOOLEAN]]
    /\ \A k \in RowKind : IsOpen(row[k]) => row[k].issue \in Opened(k)
    /\ \A c \in Operator : call[c].pc \in {"create", "record", "clear", "flip"} <=> lock = c

(* Every public issue is opened once.  A new proposal only after the last  *)
(* one was settled, whatever double clicks, retries and restarts there are *)
(* (SubmitCore); each sidecar once, whatever parks and re-runs the stage   *)
(* goes through (submitIssue, rowSettled).  Only a lost answer of GitHub,  *)
(* or a row that a crash or an error kept from being written, posts again. *)
(* Reads of the store do not fail here: existingCoreRow, bookContributions *)
(* and hasMergedCoreRow take a failed one for no row.                      *)
PostedOnce ==
    /\ Cardinality(Opened("core")) <= 1 + ghost.settled + ghost.lost
    /\ \A k \in Sidecar : Cardinality(Opened(k)) <= 1 + ghost.lost

(* The work a sidecar may be posted to.  With lookups on, one a human set  *)
(* or the catalogue holds or held.  With them off nothing is verified: the *)
(* recorded one, one a human set, one that a merged proposal created.      *)
Learnt == \E n \in Opened("core") : issue[n].pr = "merged" /\ issue[n].names = "one"
Vouched(w) ==
    IF conf.meta THEN w = "manual" \/ (w \in {"learned", "survivor"} /\ catalog # "absent")
    ELSE w \in {"stale", "manual"} \/ (w = "learned" /\ Learnt)

(* A sidecar never names an unreleased work, which the community intake    *)
(* refuses, nor a slug recorded at enqueue that is gone; and where lookups *)
(* are off, never a work that nobody and nothing named (resolveWorkSlug).  *)
PostedToPublished ==
    \A n \in 1..Len(issue) : issue[n].kind \in Sidecar => Vouched(issue[n].work)

(* The row says merged only of a proposal whose pull request was merged,   *)
(* and stays so: no submission replaces it, no late poll reverts it.       *)
MergedIsFinal ==
    [][row["core"].status = "merged" =>
           row["core"].status' = "merged" /\ row["core"].issue' = row["core"].issue]_vars
MergedIsTrue ==
    row["core"].status = "merged" => row["core"].pr # 0 /\ issue[row["core"].pr].pr = "merged"

(* A pending book whose proposal was merged and released is re-admitted,   *)
(* or its row tells that a human must set the work; unless a poll that     *)
(* read the replaced row settled the proposal, or the book still carries a *)
(* recorded work that is gone (Poll, admitWhenLive).                       *)
Merged == LET r == row["core"]
          IN  IsOpen(r) /\ r.pr \in {0, r.issue} /\ issue[r.issue].pr = "merged"
Published == book.park = "core_pending" /\ Merged /\ catalog # "absent"
Resumed   == book.park # "core_pending" \/ row["core"].unlearned \/ row["core"].status = "closed"
PendingResumes == (Published /\ book.work # "stale") ~> Resumed

(* ReleaseWaitMsg promises it of every book: "the book resumes             *)
(* automatically".  No run checks it: TLC refutes it in flows, with a      *)
(* recorded work that is gone (README, section 5).                         *)
ProposedResumes == Published ~> Resumed
=============================================================================
