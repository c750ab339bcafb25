------------------------------- MODULE QALoop -------------------------------
(***************************************************************************)
(* The transcript repair loop of one book: qa_sweep finds degenerated      *)
(* chapters, qa_adjudicating accepts or plans a repair for each,           *)
(* retranscribing carries the plan out and the sweep runs again            *)
(* (internal/pipeline/agent_stage.go and pipeline.go, internal/repair,     *)
(* internal/qa).  Files are written one at a time; Cut is a crash, a pause *)
(* or a failed stage, after which the stage starts over on what is there.  *)
(***************************************************************************)
EXTENDS Integers, FiniteSets

CONSTANTS
    QAChapter,    \* chapter numbers
    QAFindings,   \* what the detectors may find in one transcript
    QARounds,     \* maxQARounds
    QACases       \* bounds of each case, and whether the book comes back from a later
                  \*   stage with a corrected text: [cuts, retries, rewound]

ASSUME QAAssumption ==
    /\ QAChapter \subseteq Nat
    /\ QAFindings \subseteq SUBSET {"tail", "mid", "whole", "loose"}
    /\ QARounds \in Nat \ {0}
    /\ QACases \subseteq [cuts : Nat, retries : Nat, rewound : BOOLEAN]

VARIABLES
    qStage,     \* the book's position; the stage after the loop is "spelling"
    qPc,        \* the next step of the stage
    qLayer,     \* a chapter's transcript layers: raw, json, text, repaired, corrected
    qHeard,     \* what the detectors find in its first transcript, and in the
                \*   one retranscribe/ holds, and whether that one is better
    qReport,    \* qa_report.json: the findings of each chapter
    qPlan,      \* qa_plan.json
    qAccepted,  \* qa_accepted.json: who accepted a chapter first
    qVerdict,   \* tail_verdicts.json: the last clip of each chapter
    qStalled,   \* the retranscribe_stalled marker
    qDone,      \* successful adjudications since the last retry
    qLocal,     \* locals of the running stage
    qGhost,     \* for the properties: repair rounds without effect, splices whose
                \*   verdict has not been written
    qLeft       \* what is left of the bounds

qVars == <<qStage, qPc, qLayer, qHeard, qReport, qPlan, qAccepted, qVerdict,
           qStalled, qDone, qLocal, qGhost, qLeft>>

(* A mid_clip names its window, which may miss what the sweep found.       *)
Disposition == {"none", "accept", "retranscribe", "tail_clip", "mid_clip", "off_clip"}

(* A text knows the raw it was made from and the window spliced into it.   *)
NoText       == [of |-> "none", clip |-> "none"]
Text(of, k)  == [of |-> of, clip |-> k]
NoVerdict    == [clip |-> "none", good |-> FALSE]
WindowOf == [tail_clip |-> "tail", mid_clip |-> "mid", off_clip |-> "off"]
IsMid(w)     == w \in {"mid", "off"}

Findings(ch) == IF qLayer[ch].json = "first" THEN qHeard[ch].first ELSE qHeard[ch].fresh

(* requiredChapters and allowedChapters. *)
Required(f) == f \cap {"tail", "mid", "whole"} # {}
Allowed(f)  == f # {}

-----------------------------------------------------------------------------
(* The sweep reads the json layer, which a splice does not touch.          *)

QAConst == UNCHANGED qHeard
Files   == UNCHANGED <<qLayer, qVerdict, qHeard>>

Idle == [draft |-> [ch \in QAChapter |-> "none"], ledger |-> [ch \in QAChapter |-> "none"],
         todo |-> {}, at |-> 0, moved |-> FALSE, seen |-> [ch \in QAChapter |-> NoVerdict]]

Enter(stage) == qStage' = stage /\ qPc' = "begin" /\ qLocal' = Idle

QASweep ==
    /\ qStage = "qa_sweep"
    /\ qReport' = [ch \in QAChapter |-> Findings(ch)]
    /\ Enter(IF \A ch \in QAChapter : ~Allowed(Findings(ch)) THEN "spelling" ELSE "qa_adjudicating")
    /\ UNCHANGED <<qPlan, qAccepted, qStalled, qDone, qGhost, qLeft>> /\ Files

-----------------------------------------------------------------------------
(* Adjudication.                                                           *)

(* clipTailVerdictCurrent, clipMidVerdictCurrent; tailClipAlreadyDone.     *)
(* Any window in the middle stands for any other.                          *)
CurrentVerdict(v, w) == v.good /\ IsMid(v.clip) = IsMid(w)
AlreadyDone(v, ch, w) == CurrentVerdict(v, w) /\ qLayer[ch].repaired # NoText

(* Mutant: a splice anywhere in the chapter covers what was found.         *)
CoveredAnywhere(f, v) == v.clip # "none" /\ f \subseteq {"tail", "mid"}

(* tailOnlyChapters: a tail window covers what it covers, a mid window     *)
(* what lies within it.                                                    *)
Covered(f, v) == v.clip # "none" /\ f \subseteq {v.clip}

AutoAccepted ==
    {ch \in QAChapter : /\ Required(qReport[ch])
                        /\ Covered(qReport[ch], qVerdict[ch])
                        /\ AlreadyDone(qVerdict[ch], ch, qVerdict[ch].clip)}

(* Mutant: what was accepted in an earlier round is asked again.           *)
FoldNothing == {}

(* The ledger's entries; a mechanical one that is not proved again goes.   *)
Folded == {ch \in QAChapter : Allowed(qReport[ch]) /\ qAccepted[ch] = "agent"}

(* The plan as far as the stage knows it without the agent, and with what  *)
(* the agent may add: every required chapter has an entry, no other than   *)
(* an allowed one.                                                         *)
Drafts ==
    LET given == AutoAccepted \cup Folded
        open  == {ch \in QAChapter : Allowed(qReport[ch])} \ given
    IN  {p \in [QAChapter -> Disposition] :
            \A ch \in QAChapter :
                IF ch \in given THEN p[ch] = "accept"
                ELSE IF ch \in open THEN Required(qReport[ch]) => p[ch] # "none"
                ELSE p[ch] = "none"}

LedgerOf(p) ==
    [ch \in QAChapter |->
        LET kept == IF qAccepted[ch] = "auto" /\ Allowed(qReport[ch]) /\ ch \notin AutoAccepted
                    THEN "none" ELSE qAccepted[ch]
        IN  IF p[ch] # "accept" \/ kept # "none" THEN kept
            ELSE IF ch \in AutoAccepted \cup Folded THEN "auto" ELSE "agent"]

Least2(n) == IF n < 2 THEN n ELSE 2

(* Mutant: no cap on the rounds.                                           *)
NeverCapped == FALSE

RoundsSpent == qDone >= QARounds

Stalled == qStalled >= 2

(* The first round after a retry forgets the marker. *)
ParkNoConverge ==
    /\ qStage = "qa_adjudicating" /\ qPc = "begin"
    /\ RoundsSpent \/ (qDone > 0 /\ Stalled)
    /\ qStalled' = 0
    /\ qPc' = IF RoundsSpent THEN "capped" ELSE "stalled"
    /\ UNCHANGED <<qStage, qReport, qPlan, qAccepted, qDone, qLocal, qGhost, qLeft>> /\ Files

Adjudicate ==
    /\ qStage = "qa_adjudicating" /\ qPc = "begin"
    /\ ~RoundsSpent /\ (qDone > 0 => ~Stalled)
    /\ qStalled' = IF qDone = 0 THEN 0 ELSE qStalled
    /\ \E p \in Drafts : qLocal' = [qLocal EXCEPT !.draft = p, !.ledger = LedgerOf(p)]
    /\ qPc' = "ledger"
    /\ UNCHANGED <<qStage, qReport, qPlan, qAccepted, qDone, qGhost, qLeft>> /\ Files

WriteLedger ==
    /\ qStage = "qa_adjudicating" /\ qPc = "ledger"
    /\ qAccepted' = qLocal.ledger
    /\ qPc' = "plan"
    /\ UNCHANGED <<qStage, qReport, qPlan, qStalled, qDone, qLocal, qGhost, qLeft>> /\ Files

WritePlan ==
    /\ qStage = "qa_adjudicating" /\ qPc = "plan"
    /\ qPlan' = qLocal.draft
    /\ qPc' = "sentinel"
    /\ UNCHANGED <<qStage, qReport, qAccepted, qStalled, qDone, qLocal, qGhost, qLeft>> /\ Files

(* The sentinel carries RetranscribeNeeded; the count beyond the cap is    *)
(* never read.                                                             *)
Work(p) == {ch \in QAChapter : p[ch] \notin {"none", "accept"}}
EndAdjudication ==
    /\ qStage = "qa_adjudicating" /\ qPc = "sentinel"
    /\ qDone' = IF qDone < QARounds THEN qDone + 1 ELSE qDone
    /\ Enter(IF Work(qLocal.draft) # {} THEN "retranscribing" ELSE "spelling")
    /\ UNCHANGED <<qReport, qPlan, qAccepted, qStalled, qGhost, qLeft>> /\ Files

(* A retry of the parked book supersedes its successes (ResumesStage).     *)
QARetry ==
    /\ qPc \in {"capped", "stalled"} /\ qLeft.retries > 0
    /\ qLeft' = [qLeft EXCEPT !.retries = @ - 1]
    /\ qDone' = 0 /\ Enter("qa_adjudicating")
    /\ qGhost' = [qGhost EXCEPT !.idle = 0]
    /\ UNCHANGED <<qReport, qPlan, qAccepted, qStalled>> /\ Files

-----------------------------------------------------------------------------
(* Retranscription, entry by entry.                                        *)

StageUp(pc) == qStage = "retranscribing" /\ qPc = pc
Here        == qLocal.at
Goto(pc)    == qPc' = pc /\ UNCHANGED <<qStage, qReport, qPlan, qAccepted, qDone, qLeft>>
Repair      == UNCHANGED <<qStalled>> /\ QAConst

BeginRepairs ==
    /\ StageUp("begin")
    /\ qLocal' = [Idle EXCEPT !.todo = Work(qPlan), !.seen = qVerdict]
    /\ qGhost' = [qGhost EXCEPT !.changed = FALSE]
    /\ Goto("entry") /\ UNCHANGED qStalled /\ Files

(* The entries are sorted by chapter.                                      *)
NextEntry ==
    /\ StageUp("entry") /\ qLocal.todo # {}
    /\ LET ch == CHOOSE c \in qLocal.todo : \A d \in qLocal.todo : c <= d
       IN  /\ qLocal' = [qLocal EXCEPT !.at = ch, !.todo = @ \ {ch}]
           /\ Goto(IF qPlan[ch] = "retranscribe" THEN "listen" ELSE "clip")
    /\ UNCHANGED <<qStalled, qGhost>> /\ Files

(* A fresh raw an interrupted run left is reused.                          *)
Listen ==
    /\ StageUp("listen")
    /\ IF qHeard[Here].have THEN UNCHANGED qHeard
       ELSE \E f \in QAFindings, better \in BOOLEAN :
               qHeard' = [qHeard EXCEPT ![Here] = [@ EXCEPT !.have = TRUE, !.fresh = f, !.better = better]]
    /\ Goto("decide") /\ UNCHANGED <<qLayer, qVerdict, qStalled, qLocal, qGhost>>

(* AdoptFresh: compared with itself a transcript is kept.                  *)
Adopts(ch) == qHeard[ch].better /\ qLayer[ch].json # "fresh"

Judge ==
    /\ StageUp("decide")
    /\ Goto(IF Adopts(Here) THEN "raw" ELSE "entry")
    /\ UNCHANGED <<qStalled, qLocal, qGhost>> /\ Files

SetLayer(field, value) == qLayer' = [qLayer EXCEPT ![Here][field] = value]

AdoptRaw ==
    /\ StageUp("raw") /\ SetLayer("raw", "fresh") /\ Goto("json")
    /\ qGhost' = [qGhost EXCEPT !.changed = TRUE]
    /\ UNCHANGED <<qVerdict, qLocal>> /\ Repair

(* deriveChapterLayers. *)
DeriveJson ==
    /\ StageUp("json") /\ SetLayer("json", "fresh") /\ Goto("text")
    /\ UNCHANGED <<qVerdict, qLocal, qGhost>> /\ Repair

DeriveText ==
    /\ StageUp("text") /\ SetLayer("text", "fresh") /\ Goto("drop")
    /\ UNCHANGED <<qVerdict, qLocal, qGhost>> /\ Repair

(* removeChapterDerived.                                                   *)
WithoutDerived(layer) == [layer EXCEPT !.repaired = NoText, !.corrected = NoText]

DropDerived ==
    /\ StageUp("drop")
    /\ qLayer' = [qLayer EXCEPT ![Here] = WithoutDerived(@)]
    /\ qLocal' = [qLocal EXCEPT !.moved = TRUE]
    /\ Goto("entry") /\ UNCHANGED <<qVerdict, qGhost>> /\ Repair

(* clipChapter.  A verdict that is not current takes the derived layers    *)
(* with it before the new cut.                                             *)
Window   == WindowOf[qPlan[Here]]
ClipDone == AlreadyDone(qLocal.seen[Here], Here, Window)

ReuseClip ==
    /\ StageUp("clip") /\ ClipDone
    /\ qLocal' = [qLocal EXCEPT !.moved = TRUE]
    /\ Goto("entry") /\ UNCHANGED <<qStalled, qGhost>> /\ Files

(* A window out of range is refused before anything is touched, also one   *)
(* done before (clipWindowOutOfRange, agent_stage.go:1980, 1992); a tail   *)
(* may have no loop to find.                                               *)
PrepareClip ==
    /\ StageUp("clip")
    /\ \/ Goto("entry") /\ UNCHANGED qLayer
       \/ /\ ~ClipDone
          /\ qLayer' = IF qLocal.seen[Here] # NoVerdict /\ ~CurrentVerdict(qLocal.seen[Here], Window)
                       THEN [qLayer EXCEPT ![Here] = WithoutDerived(@)] ELSE qLayer
          /\ Goto("cut") \/ (Window = "tail" /\ Goto("entry"))
    /\ UNCHANGED <<qVerdict, qLocal, qGhost>> /\ Repair

(* ClipAndSplice, ClipAndSpliceWindow: a window that failed before is not  *)
(* cut again (it may be another window); the fresh clip loops, or is       *)
(* spliced into the text of the json layer.                                *)
Cutting ==
    /\ StageUp("cut")
    /\ \/ qVerdict[Here] = [clip |-> Window, good |-> FALSE] /\ Goto("entry") /\ UNCHANGED qVerdict
       \/ /\ qVerdict' = [qVerdict EXCEPT ![Here] = [clip |-> Window, good |-> FALSE]]
          /\ Goto("entry")
       \/ Goto("splice") /\ UNCHANGED qVerdict
    /\ UNCHANGED <<qLayer, qLocal, qGhost>> /\ Repair

WriteRepaired ==
    /\ StageUp("splice")
    /\ SetLayer("repaired", Text(qLayer[Here].json, Window))
    /\ qGhost' = [qGhost EXCEPT !.changed = TRUE, !.torn = @ \cup {Here}]
    /\ Goto("verdict") /\ UNCHANGED <<qVerdict, qLocal>> /\ Repair

MergeVerdict ==
    /\ StageUp("verdict")
    /\ qVerdict' = [qVerdict EXCEPT ![Here] = [clip |-> Window, good |-> TRUE]]
    /\ qGhost' = [qGhost EXCEPT !.torn = @ \ {Here}]
    /\ Goto("uncorrect") /\ UNCHANGED <<qLayer, qLocal>> /\ Repair

DropCorrected ==
    /\ StageUp("uncorrect") /\ SetLayer("corrected", NoText)
    /\ qLocal' = [qLocal EXCEPT !.moved = TRUE]
    /\ Goto("entry") /\ UNCHANGED <<qVerdict, qGhost>> /\ Repair

(* Mutant: a round that moved something leaves the marker.                 *)
CountEveryRound(moved) == qStalled + 1

(* The marker counts rounds in a row that neither spliced nor adopted.     *)
StalledAfter(moved) == IF moved THEN 0 ELSE qStalled + 1

MarkRound ==
    /\ StageUp("entry") /\ qLocal.todo = {}
    /\ qStalled' = StalledAfter(qLocal.moved)
    /\ qGhost' = [qGhost EXCEPT !.idle = IF qGhost.changed THEN 0 ELSE Least2(@ + 1)]
    /\ Goto("sentinel") /\ UNCHANGED qLocal /\ Files

EndRepairs ==
    /\ StageUp("sentinel")
    /\ Enter("qa_sweep")
    /\ UNCHANGED <<qReport, qPlan, qAccepted, qStalled, qDone, qGhost, qLeft>> /\ Files

-----------------------------------------------------------------------------
(* The stage is cut short and starts over.                                 *)
Cut ==
    /\ qStage \in {"qa_adjudicating", "retranscribing"} /\ qPc \notin {"begin", "capped", "stalled"}
    /\ qLeft.cuts > 0
    /\ qLeft' = [qLeft EXCEPT !.cuts = @ - 1]
    /\ qGhost' = [qGhost EXCEPT !.cut = TRUE]
    /\ Enter(qStage)
    /\ UNCHANGED <<qReport, qPlan, qAccepted, qStalled, qDone>> /\ Files

QAInit ==
    /\ qStage = "qa_sweep" /\ qPc = "begin" /\ qLocal = Idle
    /\ qLeft \in QACases
    /\ qLayer = [ch \in QAChapter |->
                    [raw |-> "first", json |-> "first", text |-> "first", repaired |-> NoText,
                     corrected |-> IF qLeft.rewound THEN Text("first", "none") ELSE NoText]]
    /\ qHeard \in [QAChapter -> [first : QAFindings, have : {FALSE}, fresh : {{}}, better : {FALSE}]]
    /\ qReport = [ch \in QAChapter |-> {}]
    /\ qPlan = [ch \in QAChapter |-> "none"]
    /\ qAccepted = [ch \in QAChapter |-> "none"]
    /\ qVerdict = [ch \in QAChapter |-> NoVerdict]
    /\ qStalled = 0 /\ qDone = 0
    /\ qGhost = [idle |-> 0, changed |-> FALSE, cut |-> FALSE, torn |-> {}]

QAStep ==
    \/ QASweep \/ ParkNoConverge \/ Adjudicate \/ WriteLedger \/ WritePlan \/ EndAdjudication
    \/ BeginRepairs \/ NextEntry \/ Listen \/ Judge \/ AdoptRaw \/ DeriveJson \/ DeriveText
    \/ DropDerived \/ ReuseClip \/ PrepareClip \/ Cutting \/ WriteRepaired \/ MergeVerdict
    \/ DropCorrected \/ MarkRound \/ EndRepairs

QANext == QAStep \/ QARetry \/ Cut

(* The worker of a dispatched stage runs.                                  *)
QAFairness == WF_qVars(QAStep)
QASpec == QAInit /\ [][QANext]_qVars /\ QAFairness

-----------------------------------------------------------------------------
(* What the loop promises.                                                 *)

QAParked == qPc \in {"capped", "stalled"}

QATypeOK ==
    /\ \A ch \in QAChapter :
          /\ qLayer[ch].json = "fresh" => qLayer[ch].raw = "fresh" /\ qHeard[ch].have
          /\ qLayer[ch].text = "fresh" => qLayer[ch].json = "fresh"
          /\ qPlan[ch] \in Disposition /\ qAccepted[ch] \in {"none", "agent", "auto"}
    /\ qStalled <= 2 \/ qGhost.cut
    /\ QAParked => qStage = "qa_adjudicating"

(* Once the agent has accepted a chapter no later round changes any of its *)
(* layers, however often the stage is cut short ("Agent decisions stay     *)
(* valid because repairs only ever touch PLANNED non-accept chapters").    *)
AcceptedStays ==
    [][\A ch \in QAChapter : qAccepted[ch] = "agent" => qLayer'[ch] = qLayer[ch]]_qVars

(* A splice that a cut parted from its verdict stands beside the verdict   *)
(* of an earlier one, if there was any.                                    *)
Torn(ch) == ch \in qGhost.torn /\ qLayer[ch].repaired # NoText

(* No chapter leaves the loop degenerated and unseen: the agent accepted   *)
(* it, or the text that replaced it covers all the sweep finds, also after *)
(* repairs that displaced one another or were cut short, unless the cut    *)
(* parted a splice from its verdict.                                       *)
ExitCovered ==
    qStage = "spelling" =>
        \A ch \in QAChapter :
            Required(Findings(ch)) =>
                \/ qAccepted[ch] = "agent"
                \/ Findings(ch) \subseteq {qLayer[ch].repaired.clip}
                \/ Torn(ch)

(* A book is parked for want of progress only after two repair rounds in a *)
(* row that wrote no transcript; with a stage cut short it is not so (the  *)
(* marker counts the round twice).                                         *)
StallEarned == qPc = "stalled" /\ ~qGhost.cut => qGhost.idle = 2

(* The loop ends: the book goes on or is parked for a human.               *)
QASettles == qStage # "spelling" ~> qStage = "spelling" \/ QAParked

(* What the stages after the loop read was made from the raw transcript    *)
(* the chapter has now ("so re-deciding a reused raw never corrupts a      *)
(* chapter", agent_stage.go:2204).                                         *)
TextOfCurrentRaw ==
    qStage = "spelling" =>
        \A ch \in QAChapter : LET l == qLayer[ch]
            IN  l.text = l.raw /\ l.repaired.of \in {"none", l.raw} /\ l.corrected.of \in {"none", l.raw}
=============================================================================
