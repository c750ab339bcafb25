------------------------------ MODULE Supervisor ------------------------------
(***************************************************************************)
(* The health monitor (internal/supervisor): a tick or a manual check      *)
(* samples the scheduler, confirms an incident on a fresh read, decides,   *)
(* records the decision in the ledger (internal/store/supervisor.go) and   *)
(* applies it (scheduler/supervisor.go); an operator may ask the model     *)
(* beside it.  One book of two stages stands for the production pipeline;  *)
(* what a control call does in between its own steps is Scheduler's part.  *)
(* Everything happens within one recovery window and one hour of calls.    *)
(***************************************************************************)
EXTENDS Integers, FiniteSets, Sequences

CONSTANTS
    SupPolicy,      \* the cases to check: [auto, model, modelAuto, failover], what the
                    \*   model's backend tells of a cost (reports, priced), and
                    \*   bounds: runs, asks, events (faults, operator calls, crashes)
    SupAttempts,    \* MaxAttempts
    SupRepeats,     \* MaxErrorRepeats
    SupModelCalls,  \* MaxModelCalls of one diagnosis
    SupHourly,      \* InvocationsPerHour
    SupBudget,      \* cost budget, in calls: each costs one; 0 is none
    SupFailures,    \* how a stage may fail: error classes,
    SupParks,       \*   park codes,
    SupHealth       \*   and what may be wrong with an open run

ASSUME SupAssumption ==
    /\ SupPolicy \subseteq [auto : BOOLEAN, model : BOOLEAN, modelAuto : BOOLEAN, failover : BOOLEAN,
                            reports : BOOLEAN, priced : BOOLEAN, runs : Nat, asks : Nat, events : Nat]
    /\ {SupAttempts, SupRepeats, SupModelCalls, SupHourly} \subseteq Nat \ {0}
    /\ SupBudget \in Nat

VARIABLES
    sPolicy,    \* the configuration
    sBook,      \* the books row: stage (3 is done), status, park code
    sRun,       \* its stage runs, oldest first
    sWork,      \* its worker: none, admitted (in the in-flight map), or running
    sLost,      \* stages whose sentinel or artifact is missing
    sLedger,    \* supervisor_runs
    sLane,      \* the goroutines: the checks and the manual question
    sCheck,     \* checkMu
    sModel,     \* modelMu
    sGhost,     \* what was really done, for the properties
    sLeft       \* what is left of the bounds

supVars == <<sPolicy, sBook, sRun, sWork, sLost, sLedger, sLane, sCheck, sModel, sGhost, sLeft>>

Checker == {"tick", "manual"}
Lane    == Checker \cup {"ask"}
Nobody  == "nobody"

-----------------------------------------------------------------------------
(* Decisions.                                                              *)

FailureKind == {"authentication_failure", "rate_limit", "backend_unavailable", "unclassified"}
HealthKind  == {"stale_heartbeat", "no_progress", "missing_process", "cost_limit"}
SupKind     == FailureKind \cup HealthKind \cup
               {"repeated_error", "artifact_invalid", "parked_recovery"}

Transient == {"agent_unavailable", "agent_rate_limited"}
Retryable == {"qa_no_converge", "fix_loop_exhausted", "supervisor_budget"}
Unsure    == {"markers_not_confident"}
External  == {"book_budget", "core_needed"}
ParkCodes == Transient \cup Retryable \cup Unsure \cup External \cup {"supervisor_escalated"}

(* What goes wrong has a name of its own; a dead process is found, it is   *)
(* not what a run says of itself.                                          *)
ASSUME SupCodes ==
    /\ SupFailures \subseteq FailureKind /\ SupParks \subseteq ParkCodes
    /\ SupHealth \subseteq (HealthKind \ {"missing_process"}) \cup {"gone"}

Priority(k) ==
    CASE k = "missing_process" -> 100     [] k = "stale_heartbeat" -> 95
      [] k = "parked_recovery" -> 92      [] k = "cost_limit" -> 90
      [] k = "authentication_failure" -> 85 [] k = "backend_unavailable" -> 84
      [] k = "rate_limit" -> 83           [] k = "repeated_error" -> 80
      [] k = "artifact_invalid" -> 75     [] k = "no_progress" -> 70
      [] k = "unclassified" -> 60

(* autoRecoveryActions: what the cap over all kinds counts.                *)
Recovery == {"retry", "readmit", "supersede_rerun", "requeue", "fallback_backend"}

(* The playbook, before any cap. *)
PlannedAction(i, p) ==
    CASE i.kind = "parked_recovery" ->
           (CASE i.park \in Transient -> "readmit"
              [] i.park \in Retryable -> "retry"
              [] i.park = "supervisor_escalated" -> IF p.model THEN "ask_model" ELSE "retry"
              [] i.park \in Unsure -> IF p.model THEN "ask_model" ELSE "park_escalate"
              [] OTHER -> "observe")
      [] i.kind \in {"missing_process", "stale_heartbeat"} -> "terminate_requeue"
      [] i.kind = "cost_limit" -> "stop_budget"
      [] i.kind = "rate_limit" -> "readmit"
      [] i.kind = "backend_unavailable" -> IF p.failover THEN "fallback_backend" ELSE "park_escalate"
      [] i.kind = "artifact_invalid" -> IF i.protected THEN "park_escalate" ELSE "supersede_rerun"
      [] i.kind \in {"authentication_failure", "repeated_error"} -> "park_escalate"
      [] OTHER -> IF p.model THEN "ask_model" ELSE "park_escalate"

(* Attempts of the family exhausted, or the cap over all kinds binding.    *)
FamilySpent(i, a, attempts) ==
    /\ attempts >= SupAttempts
    /\ IF i.kind = "parked_recovery" THEN a # "observe"
       ELSE a \in {"retry", "readmit", "requeue", "terminate_requeue", "supersede_rerun"}

CapBinds(a, recoveries, protected, p) ==
    recoveries >= SupAttempts /\ a \in Recovery /\ p.auto /\ ~protected

Decide(i, attempts, recoveries, p) ==
    LET plan     == PlannedAction(i, p)
        escalate == FamilySpent(i, plan, attempts) \/ CapBinds(plan, recoveries, i.protected, p)
        action   == IF escalate THEN "park_escalate" ELSE plan
        approval == escalate \/ plan = "park_escalate" \/ (i.kind = "parked_recovery" /\ plan = "observe")
    IN  [action |-> action, approval |-> approval,
         automatic |-> /\ p.auto /\ ~i.protected
                       /\ action \notin {"observe", "ask_model"}
                       /\ ~approval \/ (action = "park_escalate" /\ i.kind # "no_progress")]

-----------------------------------------------------------------------------
(* Classification of a book, given an occupancy sample: whether the book   *)
(* had a worker and how many runs were started before it.                  *)

IsOpenRun(r)    == r.result = "open"
OpenRuns        == {n \in 1..Len(sRun) : IsOpenRun(sRun[n])}
LiveRuns(stage) == {n \in 1..Len(sRun) : sRun[n].stage = stage /\ ~sRun[n].superseded}
Latest(S)       == IF S = {} THEN 0 ELSE CHOOSE n \in S : \A m \in S : m <= n

Paused == sBook.status = "paused"
Parked == sBook.status = "needs_attention" /\ sBook.park # ""
Found(kind, run, fp, prot) ==
    [kind |-> kind, run |-> run, fp |-> fp, park |-> "", protected |-> prot \/ Paused]

(* Mutant: the order of the two reads is ignored.                          *)
SampleIsNow(sample, n) == FALSE

(* A run started since the sample is not expected in it. *)
AdmittedAfterSample(sample, n) == n > sample.runs

OpenRunIncidents(sample) ==
    {Found("missing_process", n, <<>>, FALSE) :
        n \in {n \in OpenRuns : \/ ~sample.active /\ ~AdmittedAfterSample(sample, n)
                                \/ sample.active /\ sRun[n].health = "gone"}}
    \cup {Found(sRun[n].health, n, <<>>, FALSE) :
        n \in {n \in OpenRuns : sRun[n].health \in HealthKind}}

(* classifyFailures: the last run of the stage failed, as so many before.  *)
FailureIncidents ==
    LET n     == Latest(LiveRuns(sBook.stage))
        same  == {m \in LiveRuns(sBook.stage) :
                    \A l \in LiveRuns(sBook.stage) : l >= m => sRun[l].error = sRun[n].error}
    IN  IF n = 0 \/ sRun[n].result # "failed" \/ sRun[n].error = "" THEN {}
        ELSE {Found(IF sRun[n].error # "unclassified" THEN sRun[n].error
                    ELSE IF Cardinality(same) >= SupRepeats THEN "repeated_error"
                    ELSE "unclassified", n, <<sRun[n].error>>, FALSE)}

(* classifyParked: the fingerprint is the park code, the stage and the     *)
(* error of the run that names the incident; never the book's message.     *)
ParkIncidents ==
    LET n == Latest(LiveRuns(sBook.stage))
    IN  IF ~Parked THEN {}
        ELSE {[Found("parked_recovery", n, <<sBook.park, IF n = 0 THEN "" ELSE sRun[n].error>>, FALSE)
                 EXCEPT !.park = sBook.park]}

(* collectArtifactStatuses: the newest success of every other stage that   *)
(* has no run open.                                                        *)
ArtifactIncidents ==
    {Found("artifact_invalid", Latest({n \in LiveRuns(s) : sRun[n].result = "ok"}), <<>>, sBook.stage = 3) :
        s \in {s \in sLost : /\ s # sBook.stage
                             /\ \A n \in OpenRuns : sRun[n].stage # s
                             /\ \E n \in LiveRuns(s) : sRun[n].result = "ok"}}

Classify(sample) ==
    OpenRunIncidents(sample) \cup FailureIncidents \cup ParkIncidents \cup ArtifactIncidents

IsPrimary(i, S) == i \in S /\ \A j \in S : Priority(j.kind) <= Priority(i.kind)

-----------------------------------------------------------------------------
(* The ledger.                                                             *)

Entry(by, i, d) ==
    [by |-> by, kind |-> i.kind, run |-> i.run, fp |-> i.fp, action |-> d.action,
     automatic |-> d.automatic, state |-> "decided",
     asked |-> FALSE, calls |-> 0, rep |-> 0, mea |-> 0]

Handled(e) == e.by \in Checker

(* Mutant: the run is left out of the incident's key.                      *)
SeenInAnyRun(i) == \E n \in 1..Len(sLedger) : LET e == sLedger[n]
                 IN Handled(e) /\ e.kind = i.kind /\ e.fp = i.fp

Seen(i)    == \E n \in 1..Len(sLedger) : LET e == sLedger[n]
                 IN Handled(e) /\ e.kind = i.kind /\ e.run = i.run /\ e.fp = i.fp

FamilyCount(i) ==
    Cardinality({n \in 1..Len(sLedger) : LET e == sLedger[n]
                    IN Handled(e) /\ e.kind = i.kind /\ e.fp = i.fp
                       /\ (e.run = 0 \/ i.run = 0 \/ sRun[e.run].stage = sRun[i.run].stage)})

(* Mutant: what was recovered before is not counted.                       *)
CountNone == 0

(* CountAutoRecoveriesSince. *)
CountAutoRecoveries ==
    Cardinality({n \in 1..Len(sLedger) : LET e == sLedger[n]
                    IN e.automatic /\ e.state = "completed" /\ e.action \in Recovery})

CallsThisHour == Cardinality(UNION {{n} \X (1..sLedger[n].calls) : n \in 1..Len(sLedger)})

(* What an entry says of its calls: rep of them had a cost reported, mea   *)
(* had tokens to estimate one from, at a known price.  A cost is complete  *)
(* when all of them had it; an entry without that, whose backend was       *)
(* asked, is unknown.                                                      *)
ProviderCostComplete(e) == e.calls > 0 /\ e.rep = e.calls
EstimateComplete(e)     == e.calls > 0 /\ e.mea = e.calls

Unknown(e)  == e.asked /\ ~ProviderCostComplete(e) /\ ~EstimateComplete(e)
UnknownCost == \E n \in 1..Len(sLedger) : Unknown(sLedger[n])

(* SupervisorSpend: the complete cost, or what is known of it.             *)
CostOf(e) ==
    CASE ProviderCostComplete(e) -> e.rep
      [] ~ProviderCostComplete(e) /\ EstimateComplete(e) -> e.mea
      [] OTHER -> IF e.rep > 0 THEN e.rep ELSE e.mea
SupervisorSpend == Cardinality(UNION {{n} \X (1..CostOf(sLedger[n])) : n \in 1..Len(sLedger)})

-----------------------------------------------------------------------------
(* The playbook applied to the book: SupervisorApply.                      *)

SetBook(stage, status, park) == sBook' = [stage |-> stage, status |-> status, park |-> park]
Kept == UNCHANGED <<sBook, sRun, sWork, sLost>>

(* A book on its way back already, by the window of its transient park,    *)
(* may be left to it.                                                      *)
WindowRetained(a) == a = "readmit" /\ Parked /\ sBook.park \in Transient /\ Kept

Readmitted ==
    /\ IF sBook.status \in {"failed", "needs_attention"} THEN SetBook(sBook.stage, "", "") ELSE UNCHANGED sBook
    /\ UNCHANGED <<sRun, sWork, sLost>>

(* A worker is cancelled; without one the open runs are closed. *)
CloseOpenRuns ==
    [n \in 1..Len(sRun) |-> IF IsOpenRun(sRun[n]) THEN [sRun[n] EXCEPT !.result = "failed", !.health = "ok"] ELSE sRun[n]]

TerminateRequeue ==
    IF sWork # "none"
    THEN /\ sWork' = "none" /\ sRun' = CloseOpenRuns
         /\ UNCHANGED <<sBook, sLost>>
    ELSE /\ sRun' = CloseOpenRuns
         /\ SetBook(sBook.stage, "", "")
         /\ UNCHANGED <<sWork, sLost>>

(* Refused for a finished book; a pause is kept. *)
SupersedeRerun(stage) ==
    /\ sBook.stage # 3
    /\ sRun' = [n \in 1..Len(sRun) |->
                  LET r == IF sWork = "none" \/ ~IsOpenRun(sRun[n]) THEN sRun[n]
                           ELSE [sRun[n] EXCEPT !.result = "failed", !.health = "ok"]
                  IN  IF r.stage >= stage /\ r.result = "ok" THEN [r EXCEPT !.superseded = TRUE] ELSE r]
    /\ sWork' = "none"
    /\ sLost' = {s \in sLost : s < stage}
    /\ SetBook(stage, IF Paused THEN "paused" ELSE "", "")

(* A book that is parked keeps its code and so its way back. *)
ParkBook(code) ==
    /\ sBook.stage # 3
    /\ SetBook(sBook.stage, "needs_attention", IF Parked THEN sBook.park ELSE code)
    /\ sWork' = "none"
    /\ sRun' = IF sWork = "none" THEN sRun ELSE CloseOpenRuns
    /\ UNCHANGED sLost

StageOf(i) == IF i.run = 0 THEN sBook.stage ELSE sRun[i.run].stage

Refused(a) == a \in {"supersede_rerun", "stop_budget", "park_escalate"} /\ sBook.stage = 3
Apply(a, i) ==
    CASE a \in {"retry", "readmit"} -> Readmitted \/ WindowRetained(a)
      [] a = "terminate_requeue" -> TerminateRequeue
      [] a = "supersede_rerun" -> IF Refused(a) THEN Kept ELSE SupersedeRerun(StageOf(i))
      [] a = "stop_budget" -> IF Refused(a) THEN Kept ELSE ParkBook("supervisor_budget")
      [] a = "park_escalate" -> IF Refused(a) THEN Kept ELSE ParkBook("supervisor_escalated")
      [] OTHER -> Kept

-----------------------------------------------------------------------------
(* A check.                                                                *)

(* What is asked by hand is an unclassified incident of the book. *)
Question == [kind |-> "unclassified", run |-> 0, fp |-> <<>>, park |-> "", protected |-> FALSE]
IdleLane == [pc |-> "idle", active |-> FALSE, runs |-> 0, inc |-> Question,
             action |-> "observe", automatic |-> FALSE, approval |-> FALSE, entry |-> 0,
             left |-> 0, asked |-> FALSE, made |-> 0, rep |-> 0, mea |-> 0]
To(l, pc)  == sLane' = [sLane EXCEPT ![l].pc = pc]
Rest(l)    == sLane' = [sLane EXCEPT ![l] = IdleLane]
Sample     == [active |-> sWork # "none", runs |-> Len(sRun)]

SupConst == UNCHANGED <<sPolicy>>

(* A manual check that finds the monitor idle is like a tick. *)
MayCheck(l) == sLane[l].pc = "idle" /\ (l = "manual" => sLane["tick"].pc # "idle")

(* Mutant: a second check does not wait for the first.                     *)
StartUnguarded(l) ==
    /\ MayCheck(l) /\ Classify(Sample) # {}
    /\ sLane' = [sLane EXCEPT ![l] = [IdleLane EXCEPT !.pc = "confirm", !.active = Sample.active,
                                                      !.runs = Sample.runs]]
    /\ sCheck' = l
    /\ UNCHANGED <<sLedger, sModel, sGhost, sLeft>> /\ Kept /\ SupConst

(* The lock, the batch reads and the occupancy sample.  A book without an  *)
(* incident in them is passed over.                                        *)
StartCheck(l) ==
    /\ MayCheck(l) /\ sCheck = Nobody /\ Classify(Sample) # {}
    /\ sLane' = [sLane EXCEPT ![l] = [IdleLane EXCEPT !.pc = "confirm", !.active = Sample.active,
                                                      !.runs = Sample.runs]]
    /\ sCheck' = l
    /\ UNCHANGED <<sLedger, sModel, sGhost, sLeft>> /\ Kept /\ SupConst

EndCheck(l) == Rest(l) /\ sCheck' = IF sCheck = l THEN Nobody ELSE sCheck

(* freshSnapshot: the book and its runs are read again, the sample is not. *)
(* handleIncident, up to the decision: what was handled before is left.    *)
Confirm(l) ==
    LET sample == [active |-> sLane[l].active, runs |-> sLane[l].runs]
        found  == {i \in Classify(sample) : IsPrimary(i, Classify(sample))}
    IN  /\ sLane[l].pc = "confirm"
        /\ \/ /\ found = {} \/ \E i \in found : Seen(i)
              /\ EndCheck(l)
           \/ /\ \E i \in {i \in found : ~Seen(i)} :
                    LET d == Decide(i, FamilyCount(i), CountAutoRecoveries, sPolicy)
                    IN  sLane' = [sLane EXCEPT ![l] = [IdleLane EXCEPT !.pc = "record", !.inc = i,
                                    !.action = d.action, !.automatic = d.automatic, !.approval = d.approval]]
              /\ UNCHANGED sCheck
        /\ UNCHANGED <<sLedger, sModel, sGhost, sLeft>> /\ Kept /\ SupConst

(* StartSupervisorRun: the decision is in the ledger before it is applied. *)
RecordDecision(l) ==
    LET d == [action |-> sLane[l].action, automatic |-> sLane[l].automatic]
    IN  /\ sLane[l].pc = "record"
        /\ sLedger' = Append(sLedger, Entry(l, sLane[l].inc, d))
        /\ sLane' = [sLane EXCEPT ![l].entry = Len(sLedger) + 1,
                       ![l].pc = IF d.action = "ask_model" THEN "model"
                                 ELSE IF d.automatic THEN "apply" ELSE "finish"]
        /\ UNCHANGED <<sCheck, sModel, sGhost, sLeft>> /\ Kept /\ SupConst

ApplyAction(l) ==
    /\ sLane[l].pc = "apply"
    /\ Apply(sLane[l].action, sLane[l].inc)
    /\ sLane' = [sLane EXCEPT ![l].pc = IF Refused(sLane[l].action) THEN "failed" ELSE "applied"]
    /\ sGhost' = IF sLane[l].action \in Recovery /\ ~Refused(sLane[l].action) /\ ~sLane[l].inc.protected
                 THEN [sGhost EXCEPT !.applied = @ + 1] ELSE sGhost
    /\ UNCHANGED <<sLedger, sCheck, sModel, sLeft>> /\ SupConst

Outcome(l) ==
    CASE sLane[l].pc = "applied" -> "completed"
      [] sLane[l].pc = "failed"  -> "failed"
      [] OTHER -> IF sLane[l].approval THEN "approval_required" ELSE "decided"

(* FinishSupervisorRun closes the entry and gives the locks back. *)
Finish(l) ==
    /\ sLane[l].pc \in {"finish", "applied", "failed"}
    /\ sLedger' = [sLedger EXCEPT ![sLane[l].entry] =
                     [@ EXCEPT !.state = Outcome(l), !.action = sLane[l].action,
                               !.automatic = sLane[l].automatic,
                               !.asked = sLane[l].asked, !.calls = sLane[l].made,
                               !.rep = sLane[l].rep, !.mea = sLane[l].mea]]
    /\ EndCheck(l)
    /\ sModel' = IF sModel = l THEN Nobody ELSE sModel
    /\ UNCHANGED <<sGhost, sLeft>> /\ Kept /\ SupConst

-----------------------------------------------------------------------------
(* The model lane, of a check or of a manual question.                     *)

(* A question asked without a check under way meets nobody. *)
Ask ==
    /\ sLane["ask"].pc = "idle" /\ sPolicy.model /\ sLeft.asks > 0
    /\ sCheck # Nobody
    /\ sLeft' = [sLeft EXCEPT !.asks = @ - 1]
    /\ sLedger' = Append(sLedger, Entry("ask", Question, [action |-> "ask_model", automatic |-> FALSE]))
    /\ sLane' = [sLane EXCEPT !["ask"] = [IdleLane EXCEPT !.pc = "model", !.entry = Len(sLedger) + 1]]
    /\ UNCHANGED <<sCheck, sModel, sGhost>> /\ Kept /\ SupConst

Smaller(a, b) == IF a < b THEN a ELSE b
Affordable(cost) == SupBudget = 0 \/ cost < SupBudget

(* The backend can tell a cost, and neither the hour's calls nor the       *)
(* budget are used up; nor is there a cost that nobody knows.              *)
ModelBudgetAllows ==
    /\ sPolicy.reports \/ sPolicy.priced
    /\ CallsThisHour < SupHourly /\ ~UnknownCost /\ Affordable(SupervisorSpend)

(* Mutant: diagnoses do not wait for one another.                          *)
BeginWithoutLock(l) ==
    /\ sLane[l].pc = "model"
    /\ sModel' = l
    /\ sLane' = [sLane EXCEPT ![l] =
                   [@ EXCEPT !.asked = TRUE, !.pc = IF ModelBudgetAllows THEN "call" ELSE "finish",
                             !.left = Smaller(SupModelCalls, SupHourly - CallsThisHour)]]
    /\ UNCHANGED <<sLedger, sCheck, sGhost, sLeft>> /\ Kept /\ SupConst

(* modelMu, then the budgets. *)
BeginDiagnosis(l) ==
    /\ sLane[l].pc = "model" /\ sModel = Nobody
    /\ sModel' = l
    /\ sLane' = [sLane EXCEPT ![l] =
                   [@ EXCEPT !.asked = TRUE, !.pc = IF ModelBudgetAllows THEN "call" ELSE "finish",
                             !.left = Smaller(SupModelCalls, SupHourly - CallsThisHour)]]
    /\ UNCHANGED <<sLedger, sCheck, sGhost, sLeft>> /\ Kept /\ SupConst

(* modelUsageCost of what this diagnosis used so far: a cost reported for  *)
(* some of its calls is taken for that of all of them.                     *)
UsageCost(r)  == IF r.rep > 0 THEN r.rep ELSE r.mea
UsageKnown(r) == r.rep > 0 \/ sPolicy.priced

(* Mutant: a call is repeated whatever was spent.                          *)
RetryUnpriced(called) == called.left > 0 /\ UsageKnown(called)

(* A failed call is repeated while the calls and the budget last.          *)
MayRetry(called) ==
    called.left > 0 /\ UsageKnown(called) /\ Affordable(SupervisorSpend + UsageCost(called))

AfterCall(r, rep, mea) == [r EXCEPT !.made = @ + 1, !.left = @ - 1, !.rep = @ + rep, !.mea = @ + mea]

(* The advice of a good call obeys the same cap as the playbook. *)
Advised(called, action, human) ==
    LET automatic == sPolicy.auto /\ sPolicy.modelAuto /\ ~human
        capped    == automatic /\ CapBinds(action, CountAutoRecoveries, called.inc.protected, sPolicy)
    IN  [called EXCEPT !.action = IF capped THEN "park_escalate" ELSE action,
                       !.approval = human \/ capped, !.automatic = automatic /\ ~capped,
                       !.pc = IF automatic /\ ~capped THEN "apply" ELSE "finish"]

(* One call, whose cost may be reported, estimated from its tokens, or     *)
(* lost.  The ledger learns of it when the entry is finished.              *)
Diagnose(l) ==
    /\ sLane[l].pc = "call"
    /\ \E rep, mea \in {0, 1} :
          LET called == AfterCall(sLane[l], rep, mea)
          IN  /\ rep = 1 => sPolicy.reports
              /\ mea = 1 => sPolicy.priced
              /\ sGhost' = [sGhost EXCEPT !.calls = @ + 1, !.reported = @ + rep]
              /\ \/ sLane' = [sLane EXCEPT ![l] =
                        [called EXCEPT !.pc = IF MayRetry(called) THEN "call" ELSE "failed"]]
                 \/ \E action \in {"retry", "park_escalate"}, human \in BOOLEAN :
                        sLane' = [sLane EXCEPT ![l] = Advised(called, action, human)]
    /\ UNCHANGED <<sLedger, sCheck, sModel, sLeft>> /\ Kept /\ SupConst

CheckStep(l) == \/ StartCheck(l) \/ Confirm(l) \/ RecordDecision(l)
LaneStep(l)  == \/ ApplyAction(l) \/ Finish(l) \/ BeginDiagnosis(l) \/ Diagnose(l)

-----------------------------------------------------------------------------
(* The book meanwhile: its worker, the operator, faults, a crash.          *)

BookOnly == UNCHANGED <<sLedger, sLane, sCheck, sModel, sGhost>> /\ SupConst
Event    == sLeft.events > 0 /\ sLeft' = [sLeft EXCEPT !.events = @ - 1]

(* The in-flight map has the book before the run row exists. *)
Admit ==
    /\ sWork = "none" /\ sBook.status = "" /\ sBook.stage < 3 /\ Len(sRun) < sPolicy.runs
    /\ sWork' = "admitted"
    /\ UNCHANGED <<sBook, sRun, sLost, sLeft>> /\ BookOnly

OpenStageRun ==
    /\ sWork = "admitted"
    /\ sWork' = "running"
    /\ sRun' = Append(sRun, [stage |-> sBook.stage, result |-> "open", error |-> "",
                             superseded |-> FALSE, health |-> "ok"])
    /\ UNCHANGED <<sBook, sLost, sLeft>> /\ BookOnly

Current == Latest(OpenRuns)
EndRun(result, error) ==
    sRun' = [sRun EXCEPT ![Current] = [@ EXCEPT !.result = result, !.error = error, !.health = "ok"]]

StageEnds ==
    /\ sWork = "running"
    /\ sWork' = "none"
    /\ \/ /\ EndRun("ok", "") /\ SetBook(sBook.stage + 1, sBook.status, sBook.park)
          /\ sLost' = sLost \ {sBook.stage}
       \/ /\ \E e \in SupFailures : EndRun("failed", e)
          /\ SetBook(sBook.stage, "failed", "") /\ UNCHANGED sLost
       \/ /\ \E c \in SupParks :
                SetBook(sBook.stage, "needs_attention", c)
          /\ EndRun("failed", "unclassified") /\ UNCHANGED sLost
    /\ UNCHANGED sLeft /\ BookOnly

(* A stuck or dead process, a run beyond a limit, a row that could not be  *)
(* closed, an artifact that is gone.                                       *)
Trouble ==
    /\ Event
    /\ \/ /\ sWork = "running" /\ sRun[Current].health = "ok"
          /\ \E h \in SupHealth : sRun' = [sRun EXCEPT ![Current].health = h]
          /\ UNCHANGED <<sWork, sLost>>
       \/ sWork = "running" /\ sWork' = "none" /\ UNCHANGED <<sRun, sLost>>
       \/ \E s \in {1, 2} : s \notin sLost /\ LiveRuns(s) # {} /\ sLost' = sLost \cup {s} /\ UNCHANGED <<sRun, sWork>>
    /\ UNCHANGED sBook /\ BookOnly

Operate ==
    /\ Event
    /\ \/ sBook.status \in {"failed", "needs_attention"} /\ SetBook(sBook.stage, "", "")
       \/ sBook.status = "" /\ sBook.stage < 3 /\ SetBook(sBook.stage, "paused", "")
       \/ Paused /\ SetBook(sBook.stage, "", "")
    /\ UNCHANGED <<sRun, sWork, sLost>> /\ BookOnly

Uncounted == {l \in Lane : sLane[l].pc = "applied" /\ sLane[l].action \in Recovery}
Lost(l)   == sLane[l].made

(* The goroutines are gone; the reconcile of the next start closes what    *)
(* was open.                                                               *)
SupCrash ==
    /\ Event
    /\ sLane' = [l \in Lane |-> IdleLane] /\ sCheck' = Nobody /\ sModel' = Nobody
    /\ sWork' = "none" /\ sRun' = CloseOpenRuns
    /\ sGhost' = [sGhost EXCEPT !.uncounted = @ + Cardinality(Uncounted),
                                !.lostCalls = @ + Lost("tick") + Lost("manual") + Lost("ask")]
    /\ UNCHANGED <<sBook, sLost, sLedger>> /\ SupConst

SupInit ==
    /\ sPolicy \in SupPolicy
    /\ sBook = [stage |-> 1, status |-> "", park |-> ""]
    /\ sRun = <<>> /\ sWork = "none" /\ sLost = {} /\ sLedger = <<>>
    /\ sLane = [l \in Lane |-> IdleLane]
    /\ sCheck = Nobody /\ sModel = Nobody
    /\ sGhost = [applied |-> 0, uncounted |-> 0, calls |-> 0, reported |-> 0, lostCalls |-> 0]
    /\ sLeft = [asks |-> sPolicy.asks, events |-> sPolicy.events]

SupNext ==
    \/ Admit \/ OpenStageRun \/ StageEnds \/ Trouble \/ Operate \/ SupCrash \/ Ask
    \/ \E l \in Checker : CheckStep(l)
    \/ \E l \in Lane : LaneStep(l)

(* The ticker keeps turning, a lane runs to its end: each call has a       *)
(* timeout.  The book's worker and the operators owe nothing.              *)
SupFairness == /\ WF_supVars(CheckStep("tick")) /\ WF_supVars(CheckStep("manual"))
               /\ \A l \in Lane : WF_supVars(LaneStep(l))

SupSpec == SupInit /\ [][SupNext]_supVars /\ SupFairness

-----------------------------------------------------------------------------
(* What the supervisor promises.                                           *)

SupTypeOK ==
    /\ sBook.stage \in 1..3 /\ sBook.park \in ParkCodes \cup {""}
    /\ \A n \in 1..Len(sLedger) : sLedger[n].kind \in SupKind /\ sLedger[n].run \in 0..Len(sRun)
    /\ \A l \in Checker : sLane[l].pc \notin {"idle"} => sCheck = l
    /\ \A l \in Lane : sLane[l].pc \in {"call"} => sModel = l

(* One incident is handled once, whoever finds it and after any restart:   *)
(* a persistent failure does not act at every tick (HasIncident, checkMu). *)
IncidentHandledOnce ==
    \A m, n \in 1..Len(sLedger) :
        LET d == sLedger[m] e == sLedger[n]
        IN  (m < n /\ Handled(d) /\ Handled(e)) => <<d.kind, d.run, d.fp>> # <<e.kind, e.run, e.fp>>

(* Within the window a book is re-admitted or re-run automatically at most *)
(* MaxAttempts times, over all kinds and both lanes.  What is not counted  *)
(* in time: a crash before the entry is closed, and a question asked by    *)
(* hand, which reads the count beside a check.  The cap does not bind for  *)
(* a protected incident (capAutoRecovery), whose automatic advice is       *)
(* applied all the same (runModel): it is no part of the promise.          *)
RecoveriesCapped ==
    sGhost.applied <= SupAttempts + sGhost.uncounted + (sPolicy.asks - sLeft.asks)

(* From both lanes together the model is called within an hour's           *)
(* allowance, and the calls whose cost was reported stay within the        *)
(* budget.  A cost that is lost counts as nothing while its diagnosis      *)
(* still tries, and stops the next one: all calls exceed the budget by     *)
(* less than one diagnosis.  Calls of an entry a crash left open are       *)
(* forgotten (runModel, modelBudgetAllows, SupervisorSpend).               *)
ModelCallsBounded ==
    /\ sGhost.calls <= SupHourly + sGhost.lostCalls
    /\ SupBudget > 0 =>
          /\ sGhost.reported <= SupBudget + sGhost.lostCalls
          /\ sGhost.calls <= SupBudget + (SupModelCalls - 1) + sGhost.lostCalls

(* What the supervisor spends on a book, in recoveries and in model calls, *)
(* stays within its caps although both lanes read them from the ledger.    *)
CapsHold == RecoveriesCapped /\ ModelCallsBounded

(* Unknown-cost calls are counted apart so that callers refuse another     *)
(* call: a cost is unknown only where a call was made (SupervisorSpend).   *)
(* No run checks it: TLC refutes it in services (README, section 5).       *)
OnlyCallsAreUnknown ==
    \A n \in 1..Len(sLedger) : Unknown(sLedger[n]) => sLedger[n].calls > 0

(* A run that a worker executes is never reported as orphaned because the  *)
(* occupancy sample is older than the run (admittedAfterRuntimeSample).    *)
HealthyNotAccused ==
    [][\A l \in Checker :
          (sLane[l].pc = "confirm" /\ sLane'[l].pc = "record" /\ sLane'[l].inc.kind = "missing_process") =>
              LET n == sLane'[l].inc.run
              IN  sRun[n].health = "gone" \/ sWork # "running" \/ n # Current]_supVars

(* A parked book is never forgotten: the ledger gets an entry about the    *)
(* run that parked it, unless it is un-parked first, or a run left open    *)
(* outranks it (check, primaryIncident, incidentKey).                      *)
PlanOwed ==
    /\ Parked /\ OpenRuns = {}
    /\ \A m \in 1..Len(sLedger) :
          Handled(sLedger[m]) => sLedger[m].run # Latest(LiveRuns(sBook.stage))
ParkedGetsPlan == PlanOwed ~> ~PlanOwed
=============================================================================
