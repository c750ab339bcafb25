------------------------------ MODULE Authoring ------------------------------
(***************************************************************************)
(* The authoring tail of one book: synthesizing, validating, auditing and  *)
(* fixing, with the trajectory that lets a jittering audit end             *)
(* (internal/pipeline: synthesis_stage, validate_stage, audit_stage,       *)
(* audit_history, fix_stage, sidecars), run by the scheduler's runStage,   *)
(* advance and reconcileBook.  Files are written one at a time.            *)
(***************************************************************************)
EXTENDS Integers, Sequences
LOCAL INSTANCE FiniteSetsExt

CONSTANTS
    AuMaxFix,     \* state.MaxFixAttempts
    AuAcceptFix,  \* auditAcceptMaxFix
    AuSlack,      \* auditAcceptActionableSlack
    AuTexts,      \* what an agent may write, by its defects
    AuReports,    \* what an auditor may report: [pass, blocker, fix]
    AuReruns,     \* stages the supervisor may rerun
    AuCases       \* bounds: [cuts, crashes, reruns, moves]

AuFile   == {"characters", "recaps"}
AuDefect == {"verbatim", "schema", "previously"}

ASSUME AuAssumption ==
    /\ {AuMaxFix, AuAcceptFix, AuSlack} \subseteq Nat
    /\ AuTexts \subseteq [AuFile -> SUBSET AuDefect]
    /\ AuReports \subseteq [pass : BOOLEAN, blocker : Nat, fix : Nat]
    /\ AuReruns \subseteq {"synthesizing", "validating", "auditing", "fixing"}
    /\ AuCases \subseteq [cuts : Nat, crashes : Nat, reruns : Nat, moves : Nat]

VARIABLES
    auStage,     \* the book's position; "ready" ends the loop
    auPc,        \* the next step of its worker; "idle": none runs
    auSentinel,  \* each stage's sentinel, with AuditPassed
    auDone,      \* successes of each stage that are not superseded
    auFile,      \* the sidecars: [defects, canonical]
    auCheck,     \* validation_report.json: [clean]
    auReport,    \* audit.json
    auRounds,    \* audit_rounds.json
    auAccepted,  \* audit_accepted.json stands
    auOpener,    \* isSeriesOpener: no predecessor has a knowledge sheet
    auLocal,     \* locals of the running stage
    auGhost,     \* which files read these sidecars; who wrote since a full audit
    auLeft       \* what is left of the bounds

auVars == <<auStage, auPc, auSentinel, auDone, auFile, auCheck, auReport, auRounds,
            auAccepted, auOpener, auLocal, auGhost, auLeft>>

AuStages == {"synthesizing", "validating", "auditing", "fixing"}
AuOrder  == [synthesizing |-> 1, validating |-> 2, auditing |-> 3, fixing |-> 4, ready |-> 5]
AuOnward == [synthesizing |-> "validating", validating |-> "auditing", fixing |-> "validating"]
AuFrom(s) == {t \in AuStages : AuOrder[t] >= AuOrder[s]}

NoFile   == [defects |-> {}, canonical |-> FALSE]
AuIdle   == [verify |-> FALSE, passed |-> FALSE, next |-> "none", opener |-> FALSE,
             out |-> [f \in AuFile |-> {}]]
NoReport == [pass |-> FALSE, blocker |-> 0, fix |-> 0]
AuGoto(pc) == auPc' = pc

AuBooks == UNCHANGED <<auStage, auSentinel, auDone>>
AuTrail == UNCHANGED <<auRounds, auAccepted>>
AuTexted == UNCHANGED <<auFile, auGhost, auOpener, auLeft>>

-----------------------------------------------------------------------------
(* runStage around each stage: a sentinel skips the execution, its         *)
(* success is recorded after it, advance drops the next one's.             *)

AuDispatch ==
    /\ auPc = "idle" /\ auStage # "ready"
    /\ IF auSentinel[auStage] # "none"
       THEN AuGoto("advance") /\ auLocal' = [AuIdle EXCEPT !.passed = auSentinel[auStage] = "passed"]
       ELSE AuGoto("work") /\ auLocal' = AuIdle
    /\ UNCHANGED <<auCheck, auReport>> /\ AuBooks /\ AuTrail /\ AuTexted

AuWriteSentinel ==
    /\ auPc = "sentinel"
    /\ auSentinel' = [auSentinel EXCEPT ![auStage] = IF auLocal.passed THEN "passed" ELSE "written"]
    /\ AuGoto("record")
    /\ UNCHANGED <<auStage, auDone, auCheck, auReport, auLocal>> /\ AuTrail /\ AuTexted

AuRecord ==
    /\ auPc = "record"
    /\ auDone' = [auDone EXCEPT ![auStage] = @ + 1]
    /\ AuGoto("advance")
    /\ UNCHANGED <<auStage, auSentinel, auCheck, auReport, auLocal>> /\ AuTrail /\ AuTexted

(* The state after auditing (state.NextState).                             *)
AuAfter ==
    IF auStage # "auditing" THEN AuOnward[auStage]
    ELSE IF auLocal.passed THEN "ready" ELSE "fixing"

(* Mutant: the next stage's sentinel of an earlier round stays.            *)
AuKeepNext(next) == auSentinel

AuDropNext(next) == IF next \in AuStages THEN [auSentinel EXCEPT ![next] = "none"] ELSE auSentinel

AuAdvance ==
    /\ auPc = "advance"
    /\ IF AuAfter = "fixing" /\ auDone["fixing"] >= AuMaxFix
       THEN AuGoto("parked") /\ UNCHANGED <<auSentinel, auLocal>>
       ELSE /\ auSentinel' = AuDropNext(AuAfter)
            /\ auLocal' = [auLocal EXCEPT !.next = AuAfter]
            /\ AuGoto("commit")
    /\ UNCHANGED <<auStage, auDone, auCheck, auReport>> /\ AuTrail /\ AuTexted

AuCommit ==
    /\ auPc = "commit"
    /\ auStage' = auLocal.next /\ auLocal' = AuIdle
    /\ AuGoto("idle")
    /\ UNCHANGED <<auSentinel, auDone, auCheck, auReport>> /\ AuTrail /\ AuTexted

-----------------------------------------------------------------------------
(* Synthesizing and fixing: an agent writes both sidecars, the structural  *)
(* contract lets them through, and they are moved one after the other.     *)

(* validateSidecars: an opener carries no "previously" recap.              *)
Structural(defects, opener) == IF opener THEN defects \cap {"previously"} ELSE {}

AuInputs ==
    /\ auStage \in {"synthesizing", "validating", "fixing"} /\ auPc = "work"
    /\ auLocal' = [auLocal EXCEPT !.opener = auOpener]
    /\ AuGoto(IF auStage = "validating" THEN "canonicalize" ELSE "write")
    /\ UNCHANGED <<auCheck, auReport>> /\ AuBooks /\ AuTrail /\ AuTexted

Author ==
    /\ auPc = "write"
    /\ \E out \in AuTexts :
        /\ \A f \in AuFile : Structural(out[f], auLocal.opener) = {}
        /\ auLocal' = [auLocal EXCEPT !.out = out]
    /\ AuGoto("characters")
    /\ UNCHANGED <<auCheck, auReport>> /\ AuBooks /\ AuTrail /\ AuTexted

HarvestSidecar ==
    /\ auPc \in AuFile
    /\ auFile' = [auFile EXCEPT ![auPc] = [defects |-> auLocal.out[auPc], canonical |-> FALSE]]
    /\ auGhost' = [checked |-> FALSE, read |-> FALSE, writers |-> auGhost.writers \cup {auStage}]
    /\ IF auPc = "characters" THEN AuGoto("recaps") /\ UNCHANGED auLocal
                               ELSE AuGoto("sentinel") /\ auLocal' = AuIdle
    /\ UNCHANGED <<auCheck, auReport, auOpener, auLeft>> /\ AuBooks /\ AuTrail

-----------------------------------------------------------------------------
(* Validating.  A file the n-gram check would refuse is not measured; that *)
(* is an error of its own.                                                 *)

Canonicalize ==
    /\ auPc = "canonicalize"
    /\ auFile' = [f \in AuFile |-> [auFile[f] EXCEPT !.canonical = TRUE]]
    /\ AuGoto("measure")
    /\ UNCHANGED <<auCheck, auReport, auOpener, auLocal, auGhost, auLeft>> /\ AuBooks /\ AuTrail

Overlaps(defects) == IF "schema" \in defects THEN {"schema"} ELSE defects \cap {"verbatim"}

AuErrors(f) == Overlaps(auFile[f].defects) \cup Structural(auFile[f].defects, auLocal.opener)

Measure ==
    /\ auPc = "measure"
    /\ auCheck' = [clean |-> \A f \in AuFile : AuErrors(f) = {}]
    /\ auGhost' = [auGhost EXCEPT !.checked = TRUE]
    /\ auLocal' = AuIdle
    /\ AuGoto("sentinel")
    /\ UNCHANGED <<auReport, auFile, auOpener, auLeft>> /\ AuBooks /\ AuTrail

-----------------------------------------------------------------------------
(* Auditing.                                                               *)

(* Mutant: the trajectory of an earlier life is kept.                      *)
AuNeverFresh == FALSE

AuFreshLoop == auDone["auditing"] = 0

(* removeAuditTrajectory, then auditReentryAccept: an accepted round is    *)
(* verified, unless the last fix broke the sidecars.                       *)
AuditBegins ==
    /\ auStage = "auditing" /\ auPc = "work"
    /\ auRounds' = IF AuFreshLoop THEN <<>> ELSE auRounds
    /\ auAccepted' = (auAccepted /\ ~AuFreshLoop /\ auCheck.clean)
    /\ auLocal' = [auLocal EXCEPT !.verify = auAccepted']
    /\ AuGoto("audit")
    /\ UNCHANGED <<auCheck, auReport>> /\ AuBooks /\ AuTexted

(* The pass the code derives from the auditor's own.                       *)
EffectivePass(rep) == rep.pass /\ rep.blocker = 0 /\ rep.fix = 0 /\ auCheck.clean

Audits(rep) ==
    /\ auReport' = rep
    /\ UNCHANGED <<auFile, auCheck, auOpener, auLeft>> /\ AuBooks

FullAudit ==
    /\ auPc = "audit" /\ ~auLocal.verify
    /\ \E rep \in AuReports :
        /\ Audits(rep)
        /\ auLocal' = [auLocal EXCEPT !.passed = EffectivePass(rep)]
        /\ AuGoto(IF EffectivePass(rep) THEN "sentinel" ELSE "round")
    /\ auGhost' = [auGhost EXCEPT !.read = TRUE, !.writers = {}]
    /\ AuTrail

(* A failed verification takes the marker back.                            *)
VerifyAccepted ==
    /\ auPc = "audit" /\ auLocal.verify
    /\ \E rep \in AuReports :
        /\ Audits(rep)
        /\ auAccepted' = (rep.pass /\ rep.blocker = 0 /\ rep.fix = 0)
        /\ auLocal' = [auLocal EXCEPT !.passed = auAccepted']
    /\ auGhost' = [auGhost EXCEPT !.read = TRUE]
    /\ AuGoto("sentinel")
    /\ UNCHANGED auRounds

AppendRound ==
    /\ auPc = "round"
    /\ auRounds' = Append(auRounds, [blocker |-> auReport.blocker, fix |-> auReport.fix])
    /\ AuGoto("judge")
    /\ UNCHANGED <<auCheck, auReport, auAccepted, auLocal>> /\ AuBooks /\ AuTexted

Actionable(round)     == round.blocker + round.fix
MinActionable(rounds) == Min({Actionable(rounds[i]) : i \in DOMAIN rounds})

AcceptTrajectory(prior) ==
    /\ auReport.blocker = 0 /\ auCheck.clean
    /\ auDone["auditing"] + 1 >= 2
    /\ auReport.fix \in 1..AuAcceptFix
    /\ prior # <<>> /\ Actionable(auReport) <= MinActionable(prior) + AuSlack
    /\ auDone["fixing"] < AuMaxFix

JudgeTrajectory ==
    /\ auPc = "judge"
    /\ auAccepted' = (auAccepted \/ AcceptTrajectory(SubSeq(auRounds, 1, Len(auRounds) - 1)))
    /\ AuGoto("sentinel")
    /\ UNCHANGED <<auRounds, auCheck, auReport, auLocal>> /\ AuBooks /\ AuTexted

-----------------------------------------------------------------------------
(* What disturbs it.                                                       *)

Supersede4(stages) == [s \in AuStages |-> IF s \in stages THEN 0 ELSE auDone[s]]
Unwrite(stages)    == [s \in AuStages |-> IF s \in stages THEN "none" ELSE auSentinel[s]]
AuSpend(kind)      == auLeft[kind] > 0 /\ auLeft' = [auLeft EXCEPT ![kind] = @ - 1]
AuSame             == UNCHANGED <<auFile, auCheck, auReport, auOpener, auGhost>>

(* A pause, a cancellation or an error is noticed where the context is     *)
(* used; a retry then drops the sentinel, a resume does not.               *)
AuCut ==
    /\ auPc \in {"work", "write", "audit", "judge", "record", "advance", "commit"}
    /\ AuSpend("cuts")
    /\ auSentinel' \in {auSentinel, Unwrite({auStage})}
    /\ auLocal' = AuIdle
    /\ AuGoto("idle")
    /\ UNCHANGED <<auStage, auDone>> /\ AuTrail /\ AuSame

(* A crash, then the boot's reconciliation: the earliest stage the rows    *)
(* call done whose sentinel is gone, with every later success superseded.  *)
AuCrash ==
    /\ auPc # "idle"
    /\ AuSpend("crashes")
    /\ LET lost == {s \in AuStages : auDone[s] > 0 /\ auSentinel[s] = "none"}
       IN  IF lost = {} THEN UNCHANGED <<auStage, auDone>>
           ELSE \E s \in lost :
                  /\ lost \subseteq AuFrom(s)
                  /\ auStage' = s /\ auDone' = Supersede4(AuFrom(s))
    /\ auLocal' = AuIdle
    /\ AuGoto(IF auPc = "parked" THEN "parked" ELSE "idle")
    /\ UNCHANGED auSentinel /\ AuTrail /\ AuSame

(* supervisorSupersedeRerun of a stage the book has been through.          *)
AuRerun ==
    /\ auPc \in {"idle", "work", "write", "audit", "parked"} /\ auStage # "ready"
    /\ AuSpend("reruns")
    /\ \E s \in AuReruns :
        /\ AuOrder[s] <= AuOrder[auStage]
        /\ auStage' = s
        /\ auDone' = Supersede4(AuFrom(s)) /\ auSentinel' = Unwrite(AuFrom(s))
    /\ auLocal' = AuIdle
    /\ AuGoto("idle") /\ AuTrail /\ AuSame

(* readmit of a book parked fix_loop_exhausted.                            *)
AuRetry ==
    /\ auPc = "parked"
    /\ AuSpend("cuts")
    /\ auSentinel' = Unwrite({"auditing"}) /\ auDone' = Supersede4({"auditing", "fixing"})
    /\ auRounds' = <<>> /\ auAccepted' = FALSE
    /\ AuGoto("idle")
    /\ UNCHANGED <<auStage, auLocal>> /\ AuSame

(* A predecessor of the series gets its knowledge sheet, or loses it.      *)
PredecessorMoves ==
    /\ AuSpend("moves")
    /\ auOpener' = ~auOpener
    /\ UNCHANGED <<auStage, auPc, auSentinel, auDone, auFile, auCheck, auReport, auRounds,
                   auAccepted, auLocal, auGhost>>

-----------------------------------------------------------------------------
AuInit ==
    /\ auStage = "synthesizing" /\ auPc = "idle"
    /\ auSentinel = [s \in AuStages |-> "none"] /\ auDone = [s \in AuStages |-> 0]
    /\ auFile = [f \in AuFile |-> NoFile] /\ auCheck = [clean |-> FALSE]
    /\ auReport = NoReport /\ auRounds = <<>> /\ auAccepted = FALSE
    /\ auOpener = FALSE /\ auLocal = AuIdle
    /\ auGhost = [checked |-> FALSE, read |-> FALSE, writers |-> {}]
    /\ auLeft \in AuCases

AuStep ==
    \/ AuDispatch \/ AuWriteSentinel \/ AuRecord \/ AuAdvance \/ AuCommit
    \/ AuInputs \/ Author \/ HarvestSidecar \/ Canonicalize \/ Measure
    \/ AuditBegins \/ FullAudit \/ VerifyAccepted \/ AppendRound \/ JudgeTrajectory

AuNext == AuStep \/ AuCut \/ AuCrash \/ AuRerun \/ AuRetry \/ PredecessorMoves

AuSpec == AuInit /\ [][AuNext]_auVars /\ WF_auVars(AuStep)

-----------------------------------------------------------------------------
AuTypeOK ==
    /\ auStage \in AuStages \cup {"ready"}
    /\ auPc \in AuFile \cup {"idle", "work", "write", "canonicalize", "measure", "audit", "round",
                             "judge", "sentinel", "record", "advance", "commit", "parked"}
    /\ auSentinel \in [AuStages -> {"none", "written", "passed"}]
    /\ auDone \in [AuStages -> Nat]
    /\ auFile \in [AuFile -> [defects : SUBSET AuDefect, canonical : BOOLEAN]]
    /\ auCheck \in [clean : BOOLEAN]
    /\ auReport \in [pass : BOOLEAN, blocker : Nat, fix : Nat]
    /\ auRounds \in Seq([blocker : Nat, fix : Nat])
    /\ {auAccepted, auOpener} \subseteq BOOLEAN
    /\ auLocal.next \in AuStages \cup {"ready", "none"}
    /\ auGhost \in [checked : BOOLEAN, read : BOOLEAN, writers : SUBSET AuStages]
    /\ auLeft \in [cuts : Nat, crashes : Nat, reruns : Nat, moves : Nat]

(* What leaves the loop is what was examined: the validation report and    *)
(* audit.json are about these very sidecars and find nothing, they are in  *)
(* canonical form, and a full audit read them or, on an accepted           *)
(* trajectory, what one fixing pass made of what it read                   *)
(* (audit_stage.go:115, 148).                                              *)
ShippedAudited ==
    auStage = "ready" =>
        /\ auGhost.checked /\ auCheck.clean
        /\ auGhost.read /\ auReport.pass /\ Actionable(auReport) = 0
        /\ \A f \in AuFile : auFile[f].canonical
        /\ auGhost.writers \subseteq IF auAccepted THEN {"fixing"} ELSE {}
=============================================================================
