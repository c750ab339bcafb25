----------------------------- MODULE FlowProofs -------------------------------
(***************************************************************************)
(* What three flows keep: the transcript repair loop and the authoring     *)
(* tail of one book, and the folder scans of the Library.  For each the    *)
(* inductive invariant, the proof that every step preserves it, and the    *)
(* properties the runs check.                                              *)
(***************************************************************************)
EXTENDS QALoop, Authoring, FolderScan, WellFoundedInduction, SequenceTheorems, TLAPS

-----------------------------------------------------------------------------
(* The repair loop's inductive invariant.                                  *)

Origin  == {"none", "first", "fresh"}
Clip    == {"none", "tail", "mid", "off"}
Derived == [of : Origin, clip : Clip]
Verdict == [clip : Clip, good : BOOLEAN]
Accepter == {"none", "agent", "auto"}

LayerTyped == qLayer \in [QAChapter -> [raw : Origin, json : Origin, text : Origin,
                                        repaired : Derived, corrected : Derived]]
PapersTyped ==
    /\ qPlan \in [QAChapter -> Disposition]
    /\ qAccepted \in [QAChapter -> Accepter]
VerdictTyped == qVerdict \in [QAChapter -> Verdict]
CountTyped == qStalled \in Nat /\ qDone \in Nat
LocalTyped ==
    qLocal \in [draft : [QAChapter -> Disposition], ledger : [QAChapter -> Accepter],
                todo : SUBSET QAChapter, at : QAChapter \cup {0}, moved : BOOLEAN,
                seen : [QAChapter -> Verdict]]
GhostTyped == qGhost \in [idle : 0..2, changed : BOOLEAN, cut : BOOLEAN, torn : SUBSET QAChapter]

QATyped == LayerTyped /\ PapersTyped /\ VerdictTyped /\ CountTyped /\ LocalTyped /\ GhostTyped

JudgePc  == {"begin", "ledger", "plan", "sentinel", "capped", "stalled"}
ListenPc == {"listen", "decide", "raw", "json", "text", "drop"}
ClipPc   == {"clip", "cut", "splice", "verdict", "uncorrect"}

(* A stage stands at one of its own steps; a repair works on a chapter     *)
(* the plan lists, a clip on one with a window.                            *)
StageInv ==
    /\ qStage \in {"qa_sweep", "spelling"} => qPc = "begin"
    /\ qStage = "qa_adjudicating" => qPc \in JudgePc
    /\ qStage = "retranscribing" =>
          /\ qPc \in {"begin", "entry", "sentinel"} \cup ListenPc \cup ClipPc
          /\ qLocal.todo \subseteq Work(qPlan)
          /\ qPc \in ListenPc \cup ClipPc => qLocal.at \in Work(qPlan)
          /\ qPc \in ClipPc => qPlan[qLocal.at] \in DOMAIN WindowOf
    /\ qStage \in {"qa_sweep", "qa_adjudicating", "retranscribing", "spelling"}

(* The report an adjudication reads is the last sweep's, of the layers     *)
(* that are still there.                                                   *)
ReportInv == qStage = "qa_adjudicating" => \A ch \in QAChapter : qReport[ch] = Findings(ch)

(* What an adjudication will write: nothing the agent accepted is planned, *)
(* nothing required is left out, and an acceptance has its reason.         *)
DraftInv ==
    qStage = "qa_adjudicating" /\ qPc \in {"ledger", "plan", "sentinel"} =>
        \A ch \in QAChapter :
            /\ qLocal.draft[ch] \notin {"none", "accept"} => qLocal.ledger[ch] # "agent"
            /\ Required(qReport[ch]) => qLocal.draft[ch] # "none"
            /\ qLocal.draft[ch] = "accept" /\ qLocal.ledger[ch] # "agent" => ch \in AutoAccepted

PlanInv ==
    /\ qStage = "qa_adjudicating" /\ qPc \in {"plan", "sentinel"} => qAccepted = qLocal.ledger
    /\ qStage = "qa_adjudicating" /\ qPc = "sentinel" => qPlan = qLocal.draft
    /\ qStage = "retranscribing" =>
          \A ch \in QAChapter : qPlan[ch] \notin {"none", "accept"} => qAccepted[ch] # "agent"

(* A good verdict names the window that was spliced, but for a splice a    *)
(* cut parted from its own.                                                *)
ClipInv ==
    /\ \A ch \in QAChapter \ qGhost.torn :
          qVerdict[ch].good /\ qLayer[ch].repaired # NoText =>
              qLayer[ch].repaired.clip = qVerdict[ch].clip
    /\ qStage = "retranscribing" /\ qPc = "verdict" => qLayer[Here].repaired.clip = Window

(* The marker counts no round that wrote something.                        *)
QuietPc == {"entry", "listen", "decide", "raw", "clip", "cut", "splice"}
StallInv ==
    /\ qPc \in {"capped", "stalled"} => qStalled = 0
    /\ ~qGhost.cut =>
          /\ Least2(qStalled) <= qGhost.idle
          /\ qPc = "stalled" => qGhost.idle = 2
          /\ qStage = "retranscribing" /\ qPc \in QuietPc /\ qGhost.changed => qLocal.moved

QAInv == QATyped /\ StageInv /\ ReportInv /\ DraftInv /\ PlanInv /\ ClipInv /\ StallInv /\ ExitCovered

-----------------------------------------------------------------------------
(* About the operators.                                                    *)

LEMMA LeastChapter ==
    ASSUME NEW T, T \subseteq Nat, T # {}
    PROVE  LET c == CHOOSE c \in T : \A d \in T : c <= d IN c \in T
<1> DEFINE R == {ss \in Nat \X Nat : ss[1] < ss[2]}
<1>1. \E x \in T : \A y \in T : ~(<<y, x>> \in R)
  <2>1. IsWellFoundedOn(R, Nat)
    BY NatLessThanWellFounded DEF OpToRel
  <2> QED  BY <2>1, WFMin
<1>2. PICK x \in T : \A y \in T : ~(<<y, x>> \in R)
  BY <1>1
<1>3. \A d \in T : x <= d
  <2> SUFFICES ASSUME NEW d \in T, d < x PROVE FALSE
    OBVIOUS
  <2>1. <<d, x>> \in R
    OBVIOUS
  <2> QED  BY <1>2, <2>1
<1> QED  BY <1>3

LEMMA LayersOfText ==
    /\ NoText \in Derived
    /\ \A of \in Origin, k \in Clip : Text(of, k) \in Derived /\ Text(of, k).clip = k
    /\ NoVerdict \in Verdict
    /\ \A k \in DOMAIN WindowOf : WindowOf[k] \in {"tail", "mid", "off"}
BY DEF NoText, Text, NoVerdict, Derived, Verdict, Origin, Clip, WindowOf

LEMMA IdleTyped ==
    /\ Idle \in [draft : [QAChapter -> Disposition], ledger : [QAChapter -> Accepter],
                 todo : SUBSET QAChapter, at : QAChapter \cup {0}, moved : BOOLEAN,
                 seen : [QAChapter -> Verdict]]
    /\ Idle.todo = {} /\ Idle.moved = FALSE
BY LayersOfText DEF Idle, Disposition, Accepter

-----------------------------------------------------------------------------
(* It holds at the start.                                                  *)

LEMMA QAInitInv == QAInit => QAInv
<1> SUFFICES ASSUME QAInit PROVE QAInv
  OBVIOUS
<1>1. QATyped
  <2>1. LocalTyped
    BY IdleTyped DEF QAInit, LocalTyped
  <2>2. LayerTyped
    BY LayersOfText DEF QAInit, LayerTyped, Origin, Clip
  <2>3. PapersTyped /\ VerdictTyped /\ CountTyped
    BY LayersOfText DEF QAInit, PapersTyped, VerdictTyped, CountTyped, Disposition, Accepter
  <2>4. GhostTyped
    BY DEF QAInit, GhostTyped
  <2> QED  BY <2>1, <2>2, <2>3, <2>4 DEF QATyped
<1>2. StageInv /\ ReportInv /\ DraftInv /\ PlanInv
  BY DEF QAInit, StageInv, ReportInv, DraftInv, PlanInv
<1>3. ClipInv
  BY DEF QAInit, ClipInv, NoText, NoVerdict
<1>4. StallInv
  BY DEF QAInit, StallInv, Least2
<1>5. ExitCovered
  BY DEF QAInit, ExitCovered
<1> QED  BY <1>1, <1>2, <1>3, <1>4, <1>5 DEF QAInv

-----------------------------------------------------------------------------
(* Every step keeps the types.                                             *)

LEMMA LayerTypedKept ==
    ASSUME QATyped, StageInv, QANext PROVE LayerTyped'
<1> USE DEF QATyped
<1>1. CASE qLayer' = qLayer
  BY <1>1 DEF LayerTyped
<1> DEFINE L == [raw : Origin, json : Origin, text : Origin, repaired : Derived, corrected : Derived]
<1>2. ASSUME NEW ch \in QAChapter, NEW l \in L, qLayer' = [qLayer EXCEPT ![ch] = l]
      PROVE  LayerTyped'
  BY <1>2 DEF LayerTyped
<1>3. \A l \in L : WithoutDerived(l) \in L
  BY LayersOfText DEF WithoutDerived
<1>4. ASSUME qStage = "retranscribing", qPc \in ListenPc \cup ClipPc PROVE Here \in QAChapter
  BY <1>4 DEF StageInv, Here, Work
<1>5. CASE AdoptRaw
  <2>1. qLayer' = [qLayer EXCEPT ![Here]["raw"] = "fresh"] /\ Here \in QAChapter
    BY <1>4, <1>5 DEF AdoptRaw, SetLayer, StageUp, ListenPc
  <2> QED  BY <2>1 DEF LayerTyped, Origin
<1>6. CASE DeriveJson
  <2>1. qLayer' = [qLayer EXCEPT ![Here]["json"] = "fresh"] /\ Here \in QAChapter
    BY <1>4, <1>6 DEF DeriveJson, SetLayer, StageUp, ListenPc
  <2> QED  BY <2>1 DEF LayerTyped, Origin
<1>7. CASE DeriveText
  <2>1. qLayer' = [qLayer EXCEPT ![Here]["text"] = "fresh"] /\ Here \in QAChapter
    BY <1>4, <1>7 DEF DeriveText, SetLayer, StageUp, ListenPc
  <2> QED  BY <2>1 DEF LayerTyped, Origin
<1>8. CASE DropCorrected
  <2>1. qLayer' = [qLayer EXCEPT ![Here]["corrected"] = NoText] /\ Here \in QAChapter
    BY <1>4, <1>8 DEF DropCorrected, SetLayer, StageUp, ClipPc
  <2> QED  BY <2>1, LayersOfText DEF LayerTyped
<1>9. CASE WriteRepaired
  <2>1. /\ qLayer' = [qLayer EXCEPT ![Here]["repaired"] = Text(qLayer[Here].json, Window)]
        /\ Here \in QAChapter
    BY <1>4, <1>9 DEF WriteRepaired, SetLayer, StageUp, ClipPc
  <2>2. qLayer[Here].json \in Origin /\ Window \in Clip
    BY <1>9, <2>1, LayersOfText DEF LayerTyped, Window, StageInv, WriteRepaired, StageUp, ClipPc, Clip, Here
  <2> QED  BY <2>1, <2>2, LayersOfText DEF LayerTyped
<1>10. CASE DropDerived \/ (PrepareClip /\ qLayer' # qLayer)
  <2>1. qLayer' = [qLayer EXCEPT ![Here] = WithoutDerived(qLayer[Here])] /\ Here \in QAChapter
    BY <1>4, <1>10 DEF DropDerived, PrepareClip, StageUp, ListenPc, ClipPc, LayerTyped
  <2> QED  BY <1>2, <1>3, <2>1 DEF LayerTyped
<1> QED
  BY <1>1, <1>5, <1>6, <1>7, <1>8, <1>9, <1>10
  DEF QANext, QAStep, QASweep, ParkNoConverge, Adjudicate, WriteLedger, WritePlan, EndAdjudication,
      QARetry, BeginRepairs, NextEntry, Listen, Judge, ReuseClip, Cutting, MergeVerdict, MarkRound,
      EndRepairs, Cut, Files

(* The steps that leave the locals, or what adjudication keeps, alone.     *)
LocalQuiet ==
    ParkNoConverge \/ WriteLedger \/ WritePlan \/ Listen \/ Judge \/ AdoptRaw \/ DeriveJson
    \/ DeriveText \/ PrepareClip \/ Cutting \/ WriteRepaired \/ MergeVerdict \/ MarkRound
Entering == QASweep \/ EndAdjudication \/ QARetry \/ EndRepairs \/ Cut

LEMMA LedgerTyped ==
    ASSUME PapersTyped, NEW p \in [QAChapter -> Disposition]
    PROVE  LedgerOf(p) \in [QAChapter -> Accepter]
BY DEF PapersTyped, LedgerOf, Accepter

LEMMA LocalTypedKept ==
    ASSUME QATyped, StageInv, QANext PROVE LocalTyped'
<1> DEFINE R == [draft : [QAChapter -> Disposition], ledger : [QAChapter -> Accepter],
                 todo : SUBSET QAChapter, at : QAChapter \cup {0}, moved : BOOLEAN,
                 seen : [QAChapter -> Verdict]]
<1>1. qLocal \in R
  BY DEF QATyped, LocalTyped
<1>2. SUFFICES qLocal' \in R
  BY <1>2 DEF LocalTyped
<1>3. CASE LocalQuiet
  <2>1. qLocal' = qLocal
    BY <1>3 DEF LocalQuiet, ParkNoConverge, WriteLedger, WritePlan, Listen, Judge, AdoptRaw, DeriveJson,
        DeriveText, PrepareClip, Cutting, WriteRepaired, MergeVerdict, MarkRound
  <2> QED  BY <1>1, <2>1
<1>4. CASE Entering
  <2>1. qLocal' = Idle
    BY <1>4 DEF Entering, QASweep, EndAdjudication, QARetry, EndRepairs, Cut, Enter
  <2> QED  BY <2>1, IdleTyped
<1>5. CASE Adjudicate
  <2>1. PICK p \in Drafts : qLocal' = [qLocal EXCEPT !.draft = p, !.ledger = LedgerOf(p)]
    BY <1>5 DEF Adjudicate
  <2>2. p \in [QAChapter -> Disposition]
    BY <2>1 DEF Drafts
  <2>3. LedgerOf(p) \in [QAChapter -> Accepter]
    BY <2>2, LedgerTyped DEF QATyped
  <2> HIDE DEF Drafts
  <2> QED  BY <1>1, <2>1, <2>2, <2>3
<1>6. CASE BeginRepairs
  <2>1. qLocal' = [Idle EXCEPT !.todo = Work(qPlan), !.seen = qVerdict]
    BY <1>6 DEF BeginRepairs
  <2>2. Work(qPlan) \in SUBSET QAChapter /\ qVerdict \in [QAChapter -> Verdict]
    BY DEF Work, QATyped, VerdictTyped
  <2>3. Idle \in R
    BY IdleTyped
  <2> QED  BY <2>1, <2>2, <2>3
<1>7. CASE NextEntry
  <2> DEFINE c == CHOOSE c \in qLocal.todo : \A d \in qLocal.todo : c <= d
             rest == qLocal.todo \ {c}
  <2>1. qLocal' = [qLocal EXCEPT !.at = c, !.todo = rest]
    BY <1>7 DEF NextEntry
  <2>2. qLocal.todo \subseteq QAChapter /\ qLocal.todo # {}
    BY <1>1, <1>7 DEF NextEntry
  <2>3. c \in qLocal.todo
    BY <2>2, LeastChapter, QAAssumption DEF QAAssumption
  <2>4. c \in QAChapter /\ rest \in SUBSET QAChapter
    BY <2>2, <2>3
  <2> HIDE DEF c, rest
  <2> QED  BY <1>1, <2>1, <2>4
<1>8. CASE DropDerived \/ ReuseClip \/ DropCorrected
  <2>1. qLocal' = [qLocal EXCEPT !.moved = TRUE]
    BY <1>8 DEF DropDerived, ReuseClip, DropCorrected
  <2> DEFINE b == TRUE
  <2>2. b \in BOOLEAN /\ qLocal' = [qLocal EXCEPT !.moved = b]
    BY <2>1
  <2> HIDE DEF b
  <2> QED  BY <1>1, <2>2
<1> QED
  BY <1>3, <1>4, <1>5, <1>6, <1>7, <1>8 DEF QANext, QAStep, LocalQuiet, Entering

LEMMA PapersTypedKept ==
    ASSUME QATyped, StageInv, QANext PROVE PapersTyped' /\ VerdictTyped' /\ CountTyped'
<1> USE DEF QATyped
<1>1. PapersTyped'
  <2>1. CASE WriteLedger
    BY <2>1 DEF WriteLedger, PapersTyped, LocalTyped
  <2>2. CASE WritePlan
    BY <2>2 DEF WritePlan, PapersTyped, LocalTyped
  <2>3. CASE qPlan' = qPlan /\ qAccepted' = qAccepted
    BY <2>3 DEF PapersTyped
  <2> QED
    BY <2>1, <2>2, <2>3
    DEF QANext, QAStep, QASweep, ParkNoConverge, Adjudicate, EndAdjudication, QARetry, BeginRepairs, NextEntry,
        Listen, Judge, AdoptRaw, DeriveJson, DeriveText, DropDerived, ReuseClip, PrepareClip, Cutting,
        WriteRepaired, MergeVerdict, DropCorrected, MarkRound, EndRepairs, Cut, Goto
<1>2. VerdictTyped'
  <2>1. CASE qVerdict' = qVerdict
    BY <2>1 DEF VerdictTyped
  <2>2. CASE (Cutting /\ qVerdict' # qVerdict) \/ MergeVerdict
    <3>1. Here \in QAChapter /\ Window \in Clip
      BY <2>2, LayersOfText DEF Cutting, MergeVerdict, StageUp, StageInv, ClipPc, Window, Here, Work, Clip
    <3>2. PICK b \in BOOLEAN : qVerdict' = [qVerdict EXCEPT ![Here] = [clip |-> Window, good |-> b]]
      BY <2>2 DEF Cutting, MergeVerdict
    <3>3. [clip |-> Window, good |-> b] \in Verdict
      BY <3>1 DEF Verdict
    <3> DEFINE v == [clip |-> Window, good |-> b]
    <3> HIDE DEF v
    <3> QED  BY <3>1, <3>2, <3>3 DEF VerdictTyped, v
  <2> QED
    BY <2>1, <2>2
    DEF QANext, QAStep, QASweep, ParkNoConverge, Adjudicate, WriteLedger, WritePlan, EndAdjudication, QARetry,
        BeginRepairs, NextEntry, Listen, Judge, AdoptRaw, DeriveJson, DeriveText, DropDerived, ReuseClip,
        PrepareClip, WriteRepaired, DropCorrected, MarkRound, EndRepairs, Cut, Files
<1>3. CountTyped'
  <2>1. CASE qStalled' = qStalled /\ qDone' = qDone
    BY <2>1 DEF CountTyped
  <2>2. CASE ParkNoConverge \/ Adjudicate \/ EndAdjudication \/ QARetry
    <3>1. qStalled' \in {0, qStalled} /\ qDone' \in {0, qDone, qDone + 1}
      BY <2>2 DEF ParkNoConverge, Adjudicate, EndAdjudication, QARetry
    <3> QED  BY <3>1 DEF CountTyped
  <2>3. CASE MarkRound
    BY <2>3 DEF CountTyped, MarkRound, StalledAfter, Goto
  <2> QED
    BY <2>1, <2>2, <2>3
    DEF QANext, QAStep, QASweep, WriteLedger, WritePlan, BeginRepairs, NextEntry, Listen, Judge, AdoptRaw,
        DeriveJson, DeriveText, DropDerived, ReuseClip, PrepareClip, Cutting, WriteRepaired, MergeVerdict,
        DropCorrected, EndRepairs, Cut, Goto, Repair
<1> QED  BY <1>1, <1>2, <1>3

LEMMA GhostTypedKept ==
    ASSUME QATyped, StageInv, QANext PROVE GhostTyped'
<1> DEFINE G == [idle : 0..2, changed : BOOLEAN, cut : BOOLEAN, torn : SUBSET QAChapter]
<1>1. qGhost \in G
  BY DEF QATyped, GhostTyped
<1>2. SUFFICES qGhost' \in G
  BY <1>2 DEF GhostTyped
<1> DEFINE yes == TRUE
           no == FALSE
<1>3. yes \in BOOLEAN /\ no \in BOOLEAN
  OBVIOUS
<1>4. CASE qGhost' = qGhost
  BY <1>1, <1>4
<1>5. CASE QARetry \/ MarkRound
  <2>1. PICK n \in 0..2 : qGhost' = [qGhost EXCEPT !.idle = n]
    <3>1. CASE QARetry
      BY <3>1 DEF QARetry
    <3>2. CASE MarkRound
      <4> DEFINE n == IF qGhost.changed THEN 0 ELSE Least2(qGhost.idle + 1)
      <4>1. n \in 0..2 /\ qGhost' = [qGhost EXCEPT !.idle = n]
        BY <1>1, <3>2 DEF MarkRound, Least2
      <4> QED  BY <4>1
    <3> QED  BY <1>5, <3>1, <3>2
  <2> QED  BY <1>1, <2>1
<1>6. CASE BeginRepairs
  <2>1. qGhost' = [qGhost EXCEPT !.changed = no]
    BY <1>6 DEF BeginRepairs
  <2> HIDE DEF no
  <2> QED  BY <1>1, <1>3, <2>1
<1>7. CASE AdoptRaw
  <2>1. qGhost' = [qGhost EXCEPT !.changed = yes]
    BY <1>7 DEF AdoptRaw
  <2> HIDE DEF yes
  <2> QED  BY <1>1, <1>3, <2>1
<1>8. CASE WriteRepaired
  <2> DEFINE t == qGhost.torn \cup {Here}
  <2>1. qGhost' = [qGhost EXCEPT !.changed = yes, !.torn = t]
    BY <1>8 DEF WriteRepaired
  <2>2. t \in SUBSET QAChapter
    BY <1>1, <1>8 DEF WriteRepaired, StageUp, StageInv, ClipPc, Here, Work
  <2> HIDE DEF yes, t
  <2> QED  BY <1>1, <1>3, <2>1, <2>2
<1>9. CASE MergeVerdict
  <2> DEFINE t == qGhost.torn \ {Here}
  <2>1. qGhost' = [qGhost EXCEPT !.torn = t]
    BY <1>9 DEF MergeVerdict
  <2>2. t \in SUBSET QAChapter
    BY <1>1
  <2> HIDE DEF t
  <2> QED  BY <1>1, <2>1, <2>2
<1>10. CASE Cut
  <2>1. qGhost' = [qGhost EXCEPT !.cut = yes]
    BY <1>10 DEF Cut
  <2> HIDE DEF yes
  <2> QED  BY <1>1, <1>3, <2>1
<1> QED
  BY <1>4, <1>5, <1>6, <1>7, <1>8, <1>9, <1>10
  DEF QANext, QAStep, QASweep, ParkNoConverge, Adjudicate, WriteLedger, WritePlan, EndAdjudication, NextEntry,
      Listen, Judge, DeriveJson, DeriveText, DropDerived, ReuseClip, PrepareClip, Cutting, DropCorrected,
      EndRepairs

LEMMA QATypedKept ==
    ASSUME QATyped, StageInv, QANext PROVE QATyped'
BY LayerTypedKept, LocalTypedKept, PapersTypedKept, GhostTypedKept DEF QATyped

-----------------------------------------------------------------------------
(* Where the stage stands, and on which chapter.                           *)

LEMMA StageKept ==
    ASSUME QATyped, StageInv, QANext PROVE StageInv'
<1>1. \A ch \in Work(qPlan) : qPlan[ch] # "retranscribe" => qPlan[ch] \in DOMAIN WindowOf
  BY DEF QATyped, PapersTyped, Work, Disposition, WindowOf
<1>2. CASE Entering
  <2>1. qPc' = "begin" /\ qLocal' = Idle
    BY <1>2 DEF Entering, QASweep, EndAdjudication, QARetry, EndRepairs, Cut, Enter
  <2>2. qStage' \in {"qa_sweep", "qa_adjudicating", "retranscribing", "spelling"}
    BY <1>2 DEF Entering, QASweep, EndAdjudication, QARetry, EndRepairs, Cut, Enter
  <2> QED  BY <2>1, <2>2, IdleTyped DEF StageInv, JudgePc, ListenPc, ClipPc
<1>3. CASE ParkNoConverge \/ Adjudicate \/ WriteLedger \/ WritePlan
  BY <1>3 DEF ParkNoConverge, Adjudicate, WriteLedger, WritePlan, StageInv, JudgePc
<1>4. CASE BeginRepairs
  <2>1. qLocal' = [Idle EXCEPT !.todo = Work(qPlan), !.seen = qVerdict]
    BY <1>4 DEF BeginRepairs
  <2>2. qLocal'.todo = Work(qPlan) /\ qPlan' = qPlan /\ qStage' = "retranscribing" /\ qPc' = "entry"
    BY <1>4, <2>1 DEF BeginRepairs, Goto, StageUp, Idle
  <2> QED  BY <2>2 DEF StageInv, Work, ListenPc, ClipPc
<1>5. CASE NextEntry
  <2> DEFINE c == CHOOSE c \in qLocal.todo : \A d \in qLocal.todo : c <= d
  <2>1. /\ qLocal' = [qLocal EXCEPT !.at = c, !.todo = qLocal.todo \ {c}]
        /\ qPc' = IF qPlan[c] = "retranscribe" THEN "listen" ELSE "clip"
        /\ qPlan' = qPlan /\ qStage' = "retranscribing"
    BY <1>5 DEF NextEntry, Goto, StageUp
  <2>2. qLocal.todo \subseteq Work(qPlan) /\ Work(qPlan) \subseteq QAChapter /\ qLocal.todo # {}
    BY <1>5 DEF NextEntry, StageUp, StageInv, Work
  <2>3. c \in qLocal.todo
    BY <2>2, LeastChapter, QAAssumption DEF QAAssumption
  <2> HIDE DEF c
  <2>4. qLocal'.at = c /\ qLocal'.todo = qLocal.todo \ {c}
    BY <2>1 DEF QATyped, LocalTyped
  <2>5. Work(qPlan)' = Work(qPlan)
    BY <2>1 DEF Work
  <2> QED  BY <1>1, <2>1, <2>2, <2>3, <2>4, <2>5 DEF StageInv, ListenPc, ClipPc
<1>6. CASE /\ Listen \/ Judge \/ AdoptRaw \/ DeriveJson \/ DeriveText \/ DropDerived \/ ReuseClip \/ PrepareClip
           \/ Cutting \/ WriteRepaired \/ MergeVerdict \/ DropCorrected \/ MarkRound
  <2>1. /\ qLocal' = qLocal \/ qLocal' = [qLocal EXCEPT !.moved = TRUE]
        /\ qPlan' = qPlan /\ qStage = "retranscribing" /\ qStage' = "retranscribing"
    BY <1>6 DEF Listen, Judge, AdoptRaw, DeriveJson, DeriveText, DropDerived, ReuseClip, PrepareClip, Cutting,
        WriteRepaired, MergeVerdict, DropCorrected, MarkRound, Goto, StageUp
  <2>2. Work(qPlan)' = Work(qPlan)
    BY <2>1 DEF Work
  <2>3. /\ qPc' \in {"begin", "entry", "sentinel"} \cup ListenPc \cup ClipPc
        /\ qPc' \in ListenPc \cup ClipPc => qPc \in ListenPc \cup ClipPc
        /\ qPc' \in ClipPc => qPc \in ClipPc
    BY <1>6 DEF Listen, Judge, AdoptRaw, DeriveJson, DeriveText, DropDerived, ReuseClip, PrepareClip, Cutting,
        WriteRepaired, MergeVerdict, DropCorrected, MarkRound, Goto, StageUp, ListenPc, ClipPc
  <2>4. qLocal'.todo = qLocal.todo /\ qLocal'.at = qLocal.at
    BY <2>1 DEF QATyped, LocalTyped
  <2> QED  BY <2>1, <2>2, <2>3, <2>4 DEF StageInv
<1> QED  BY <1>2, <1>3, <1>4, <1>5, <1>6 DEF QANext, QAStep, Entering

-----------------------------------------------------------------------------
(* What an adjudication reads and decides.                                 *)

LEMMA ReportKept ==
    ASSUME StageInv, ReportInv, QANext PROVE ReportInv'
<1> SUFFICES ASSUME qStage' = "qa_adjudicating", NEW ch \in QAChapter PROVE qReport'[ch] = Findings(ch)'
  BY DEF ReportInv
<1>1. CASE QASweep
  BY <1>1 DEF QASweep, Findings, Files
<1>2. CASE ParkNoConverge \/ Adjudicate \/ WriteLedger \/ WritePlan \/ QARetry \/ Cut
  <2>1. qStage = "qa_adjudicating" /\ UNCHANGED <<qReport, qLayer, qHeard>>
    BY <1>2 DEF ParkNoConverge, Adjudicate, WriteLedger, WritePlan, QARetry, Cut, Enter, Files, StageInv, ListenPc, ClipPc
  <2> QED  BY <2>1 DEF ReportInv, Findings
<1> QED
  BY <1>1, <1>2
  DEF QANext, QAStep, EndAdjudication, BeginRepairs, NextEntry, Listen, Judge, AdoptRaw, DeriveJson, DeriveText,
      DropDerived, ReuseClip, PrepareClip, Cutting, WriteRepaired, MergeVerdict, DropCorrected, MarkRound,
      EndRepairs, Goto, StageUp, Enter

(* A draft has a reason for every acceptance, leaves nothing required out  *)
(* and plans nothing the agent accepted before.                            *)
LEMMA DraftsJustified ==
    ASSUME PapersTyped, NEW p \in Drafts, NEW ch \in QAChapter
    PROVE  /\ p[ch] \notin {"none", "accept"} => LedgerOf(p)[ch] # "agent"
           /\ Required(qReport[ch]) => p[ch] # "none"
           /\ p[ch] = "accept" /\ LedgerOf(p)[ch] # "agent" => ch \in AutoAccepted
BY DEF Drafts, LedgerOf, Folded, PapersTyped, Accepter, Required, Allowed

LEMMA DraftKept ==
    ASSUME QATyped, StageInv, DraftInv, QANext PROVE DraftInv'
<1> SUFFICES ASSUME qStage' = "qa_adjudicating", qPc' \in {"ledger", "plan", "sentinel"}, NEW ch \in QAChapter
             PROVE  /\ qLocal'.draft[ch] \notin {"none", "accept"} => qLocal'.ledger[ch] # "agent"
                    /\ Required(qReport'[ch]) => qLocal'.draft[ch] # "none"
                    /\ qLocal'.draft[ch] = "accept" /\ qLocal'.ledger[ch] # "agent" => ch \in AutoAccepted'
  BY DEF DraftInv
<1>1. CASE Adjudicate
  <2>1. PICK p \in Drafts : qLocal' = [qLocal EXCEPT !.draft = p, !.ledger = LedgerOf(p)]
    BY <1>1 DEF Adjudicate
  <2>2. qLocal'.draft = p /\ qLocal'.ledger = LedgerOf(p)
    BY <2>1 DEF QATyped, LocalTyped
  <2>3. qReport' = qReport /\ AutoAccepted' = AutoAccepted
    BY <1>1 DEF Adjudicate, Files, AutoAccepted, AlreadyDone
  <2> QED  BY <2>2, <2>3, DraftsJustified DEF QATyped
<1>2. CASE WriteLedger \/ WritePlan
  <2>1. /\ qStage = "qa_adjudicating" /\ qPc \in {"ledger", "plan"}
        /\ UNCHANGED <<qLocal, qReport, qVerdict, qLayer>>
    BY <1>2 DEF WriteLedger, WritePlan, Files
  <2>2. AutoAccepted' = AutoAccepted
    BY <2>1 DEF AutoAccepted, AlreadyDone
  <2> QED  BY <2>1, <2>2 DEF DraftInv
<1> QED
  BY <1>1, <1>2
  DEF QANext, QAStep, QASweep, ParkNoConverge, EndAdjudication, QARetry, BeginRepairs, NextEntry, Listen, Judge,
      AdoptRaw, DeriveJson, DeriveText, DropDerived, ReuseClip, PrepareClip, Cutting, WriteRepaired, MergeVerdict,
      DropCorrected, MarkRound, EndRepairs, Cut, Goto, StageUp, Enter

LEMMA PlanKept ==
    ASSUME QATyped, StageInv, DraftInv, PlanInv, QANext PROVE PlanInv'
<1>1. CASE WriteLedger \/ WritePlan
  BY <1>1 DEF WriteLedger, WritePlan, PlanInv
<1>2. CASE EndAdjudication
  BY <1>2 DEF EndAdjudication, PlanInv, DraftInv, Enter
<1>3. CASE ParkNoConverge \/ Adjudicate \/ QASweep \/ EndRepairs \/ QARetry
  BY <1>3 DEF ParkNoConverge, Adjudicate, QASweep, EndRepairs, QARetry, PlanInv, Enter
<1>4. CASE qStage = "retranscribing" /\ UNCHANGED <<qStage, qPlan, qAccepted>>
  BY <1>4 DEF PlanInv
<1>5. CASE Cut
  BY <1>5 DEF Cut, Enter, PlanInv
<1> QED
  BY <1>1, <1>2, <1>3, <1>4, <1>5
  DEF QANext, QAStep, BeginRepairs, NextEntry, Listen, Judge, AdoptRaw, DeriveJson, DeriveText, DropDerived,
      ReuseClip, PrepareClip, Cutting, WriteRepaired, MergeVerdict, DropCorrected, MarkRound, Goto, StageUp

-----------------------------------------------------------------------------
(* A good verdict and the splice it is about.                              *)

LEMMA ClipKept ==
    ASSUME QATyped, StageInv, ClipInv, QANext PROVE ClipInv'
<1> DEFINE Fits(ch) == qVerdict[ch].good /\ qLayer[ch].repaired # NoText =>
                           qLayer[ch].repaired.clip = qVerdict[ch].clip
<1>0. \A ch \in QAChapter \ qGhost.torn : Fits(ch)
  BY DEF ClipInv
<1>1. ASSUME qStage = "retranscribing", qPc \in ListenPc \cup ClipPc PROVE Here \in QAChapter
  BY <1>1 DEF StageInv, Here, Work
<1>2. CASE /\ UNCHANGED <<qLayer, qVerdict>> /\ qGhost'.torn = qGhost.torn
           /\ qStage' = "retranscribing" => qPc' # "verdict"
  BY <1>2 DEF ClipInv
<1>3. CASE AdoptRaw \/ DeriveJson \/ DeriveText \/ DropCorrected
  <2>1. PICK f \in {"raw", "json", "text", "corrected"}, v \in Origin \cup {NoText} :
            qLayer' = [qLayer EXCEPT ![Here][f] = v]
    BY <1>3 DEF AdoptRaw, DeriveJson, DeriveText, DropCorrected, SetLayer, Origin
  <2>2. \A ch \in QAChapter : qLayer'[ch].repaired = qLayer[ch].repaired
    BY <2>1 DEF QATyped, LayerTyped
  <2>3. qVerdict' = qVerdict /\ qPc' # "verdict"
    BY <1>3 DEF AdoptRaw, DeriveJson, DeriveText, DropCorrected, Goto
  <2>4. qGhost'.torn = qGhost.torn
    BY <1>3 DEF AdoptRaw, DeriveJson, DeriveText, DropCorrected, QATyped, GhostTyped
  <2> QED  BY <2>2, <2>3, <2>4 DEF ClipInv
<1>4. CASE DropDerived \/ (PrepareClip /\ qLayer' # qLayer)
  <2>1. qLayer' = [qLayer EXCEPT ![Here] = WithoutDerived(qLayer[Here])] /\ Here \in QAChapter
    BY <1>1, <1>4 DEF DropDerived, PrepareClip, StageUp, ListenPc, ClipPc, QATyped, LayerTyped
  <2>2. \A ch \in QAChapter : qLayer'[ch].repaired \in {qLayer[ch].repaired, NoText}
    BY <2>1 DEF QATyped, LayerTyped, WithoutDerived
  <2>3. qVerdict' = qVerdict /\ qPc' # "verdict" /\ qGhost' = qGhost
    BY <1>4 DEF DropDerived, PrepareClip, Goto
  <2> QED  BY <2>2, <2>3 DEF ClipInv
<1>5. CASE Cutting
  <2>1. Here \in QAChapter
    BY <1>1, <1>5 DEF Cutting, StageUp, ClipPc
  <2>2. qLayer' = qLayer /\ qPc' # "verdict" /\ qGhost' = qGhost
    BY <1>5 DEF Cutting, Goto
  <2>3. CASE qVerdict' = qVerdict
    BY <2>2, <2>3 DEF ClipInv
  <2>4. CASE qVerdict' = [qVerdict EXCEPT ![Here] = [clip |-> Window, good |-> FALSE]]
    <3>1. \A ch \in QAChapter : ch # Here => qVerdict'[ch] = qVerdict[ch]
      BY <2>4 DEF QATyped, VerdictTyped
    <3>2. ~qVerdict'[Here].good
      BY <2>1, <2>4 DEF QATyped, VerdictTyped
    <3> QED  BY <2>2, <3>1, <3>2 DEF ClipInv
  <2> QED  BY <1>5, <2>3, <2>4 DEF Cutting
<1>6. CASE WriteRepaired
  <2>1. /\ qLayer' = [qLayer EXCEPT ![Here]["repaired"] = Text(qLayer[Here].json, Window)]
        /\ Here \in QAChapter
    BY <1>1, <1>6 DEF WriteRepaired, SetLayer, StageUp, ClipPc
  <2>2. \A ch \in QAChapter : ch # Here => qLayer'[ch] = qLayer[ch]
    BY <2>1 DEF QATyped, LayerTyped
  <2>3. qLayer'[Here].repaired.clip = Window
    BY <2>1 DEF QATyped, LayerTyped, Text
  <2>4. qVerdict' = qVerdict /\ Here' = Here /\ Window' = Window
    BY <1>6 DEF WriteRepaired, Goto, Here, Window
  <2>5. qGhost'.torn = qGhost.torn \cup {Here}
    <3> DEFINE yes == TRUE
               t   == qGhost.torn \cup {Here}
    <3>1. qGhost' = [qGhost EXCEPT !.changed = yes, !.torn = t]
      BY <1>6 DEF WriteRepaired
    <3> HIDE DEF yes, t
    <3>2. qGhost'.torn = t
      BY <3>1 DEF QATyped, GhostTyped
    <3> QED  BY <3>2 DEF t
  <2> QED  BY <2>2, <2>3, <2>4, <2>5 DEF ClipInv
<1>7. CASE MergeVerdict
  <2>1. /\ qVerdict' = [qVerdict EXCEPT ![Here] = [clip |-> Window, good |-> TRUE]]
        /\ qGhost' = [qGhost EXCEPT !.torn = @ \ {Here}]
        /\ qLayer' = qLayer /\ qPc' = "uncorrect" /\ Here \in QAChapter
        /\ qLayer[Here].repaired.clip = Window
    BY <1>1, <1>7 DEF MergeVerdict, StageUp, ClipPc, Goto, ClipInv
  <2>2. \A ch \in QAChapter : ch # Here => qVerdict'[ch] = qVerdict[ch]
    BY <2>1 DEF QATyped, VerdictTyped
  <2>3. qVerdict'[Here].clip = Window
    BY <2>1 DEF QATyped, VerdictTyped
  <2>4. qGhost'.torn = qGhost.torn \ {Here}
    BY <2>1 DEF QATyped, GhostTyped
  <2> QED  BY <2>1, <2>2, <2>3, <2>4 DEF ClipInv
<1>8. CASE QARetry \/ MarkRound \/ BeginRepairs \/ Cut
  <2>1. UNCHANGED <<qLayer, qVerdict>> /\ qPc' # "verdict"
    BY <1>8 DEF QARetry, MarkRound, BeginRepairs, Cut, Files, Goto, Enter
  <2>2. qGhost'.torn = qGhost.torn
    BY <1>8 DEF QARetry, MarkRound, BeginRepairs, Cut, QATyped, GhostTyped
  <2> QED  BY <1>2, <2>1, <2>2
<1>9. CASE /\ QASweep \/ ParkNoConverge \/ Adjudicate \/ WriteLedger \/ WritePlan \/ EndAdjudication \/ NextEntry
           \/ Listen \/ Judge \/ ReuseClip \/ (PrepareClip /\ qLayer' = qLayer) \/ EndRepairs
  <2>1. UNCHANGED <<qLayer, qVerdict, qGhost>> /\ qPc' # "verdict"
    BY <1>9 DEF QASweep, ParkNoConverge, Adjudicate, WriteLedger, WritePlan, EndAdjudication, NextEntry, Listen,
        Judge, ReuseClip, PrepareClip, EndRepairs, Files, Goto, Enter
  <2> QED  BY <1>2, <2>1
<1> QED
  BY <1>3, <1>4, <1>5, <1>6, <1>7, <1>8, <1>9 DEF QANext, QAStep

-----------------------------------------------------------------------------
(* The marker.                                                             *)

LEMMA StallKept ==
    ASSUME QATyped, StageInv, StallInv, QANext PROVE StallInv'
<1>1. CASE /\ UNCHANGED <<qStalled, qGhost>>
           /\ qPc' \notin {"capped", "stalled"}
           /\ qStage' = "retranscribing" /\ qPc' \in QuietPc =>
                 qLocal'.moved \/ (qStage = "retranscribing" /\ qPc \in QuietPc /\ qLocal'.moved = qLocal.moved)
  BY <1>1 DEF StallInv
<1>2. CASE ParkNoConverge
  BY <1>2 DEF ParkNoConverge, StallInv, Stalled, Least2, QATyped, CountTyped, GhostTyped
<1>3. CASE Adjudicate
  BY <1>3 DEF Adjudicate, StallInv, Least2, QATyped, CountTyped, GhostTyped
<1>4. CASE QASweep \/ WriteLedger \/ WritePlan \/ EndAdjudication \/ EndRepairs
  <2>1. UNCHANGED <<qStalled, qGhost>> /\ qPc' \notin QuietPc /\ qPc' \notin {"capped", "stalled"}
    BY <1>4 DEF QASweep, WriteLedger, WritePlan, EndAdjudication, EndRepairs, Enter, QuietPc
  <2> QED  BY <1>1, <2>1
<1>5. CASE QARetry
  <2>1. qStalled' = 0 /\ qPc' = "begin" /\ qGhost' = [qGhost EXCEPT !.idle = 0]
    BY <1>5 DEF QARetry, Enter, StallInv
  <2>2. qGhost'.idle = 0
    BY <2>1 DEF QATyped, GhostTyped
  <2> QED  BY <2>1, <2>2 DEF StallInv, Least2, QuietPc
<1>6. CASE Cut
  <2>1. qPc' = "begin" /\ qGhost'.cut
    BY <1>6 DEF Cut, Enter, QATyped, GhostTyped
  <2> QED  BY <2>1 DEF StallInv
<1>7. CASE BeginRepairs
  <2> DEFINE no == FALSE
  <2>1. qStalled' = qStalled /\ qPc' = "entry" /\ qGhost' = [qGhost EXCEPT !.changed = no]
    BY <1>7 DEF BeginRepairs, Goto
  <2> HIDE DEF no
  <2>2. qGhost'.changed = no /\ qGhost'.cut = qGhost.cut /\ qGhost'.idle = qGhost.idle
    BY <2>1 DEF QATyped, GhostTyped
  <2> QED  BY <2>1, <2>2 DEF StallInv, no
<1>8. CASE NextEntry \/ Listen \/ Judge \/ PrepareClip \/ Cutting
  <2>1. /\ UNCHANGED <<qStalled, qGhost>> /\ qPc' \notin {"capped", "stalled"}
        /\ qStage = "retranscribing" /\ qPc \in QuietPc
    BY <1>8 DEF NextEntry, Listen, Judge, PrepareClip, Cutting, Goto, StageUp, QuietPc, Repair
  <2>2. qLocal'.moved = qLocal.moved
    BY <1>8 DEF NextEntry, Listen, Judge, PrepareClip, Cutting, QATyped, LocalTyped
  <2> QED  BY <1>1, <2>1, <2>2
<1>9. CASE DropDerived \/ ReuseClip \/ DropCorrected
  <2>1. UNCHANGED <<qStalled, qGhost>> /\ qPc' \notin {"capped", "stalled"}
    BY <1>9 DEF DropDerived, ReuseClip, DropCorrected, Goto, Repair
  <2>2. qLocal'.moved
    BY <1>9 DEF DropDerived, ReuseClip, DropCorrected, QATyped, LocalTyped
  <2> QED  BY <1>1, <2>1, <2>2
<1>10. CASE AdoptRaw \/ WriteRepaired \/ MergeVerdict \/ DeriveJson \/ DeriveText
  <2>1. qStalled' = qStalled /\ qPc' \notin {"capped", "stalled"} /\ qPc' \notin QuietPc
    BY <1>10 DEF AdoptRaw, WriteRepaired, MergeVerdict, DeriveJson, DeriveText, Goto, Repair, QuietPc
  <2>2. qGhost'.cut = qGhost.cut /\ qGhost'.idle = qGhost.idle
    BY <1>10 DEF AdoptRaw, WriteRepaired, MergeVerdict, DeriveJson, DeriveText, QATyped, GhostTyped
  <2> QED  BY <2>1, <2>2 DEF StallInv
<1>11. CASE MarkRound
  <2> DEFINE n == IF qGhost.changed THEN 0 ELSE Least2(qGhost.idle + 1)
  <2>1. /\ qPc' = "sentinel" /\ qGhost' = [qGhost EXCEPT !.idle = n]
        /\ qStalled' = IF qLocal.moved THEN 0 ELSE qStalled + 1
        /\ qStage = "retranscribing" /\ qPc \in QuietPc
    BY <1>11 DEF MarkRound, Goto, StageUp, StalledAfter, QuietPc
  <2>2. qGhost.cut \/ Least2(qStalled') <= n
    <3>1. CASE qLocal.moved
      BY <2>1, <3>1 DEF Least2, QATyped, GhostTyped
    <3>2. CASE ~qLocal.moved /\ ~qGhost.cut
      <4>1. ~qGhost.changed /\ Least2(qStalled) <= qGhost.idle
        BY <2>1, <3>2 DEF StallInv
      <4>2. qStalled' = qStalled + 1 /\ n = Least2(qGhost.idle + 1)
        BY <2>1, <3>2, <4>1
      <4> QED  BY <4>1, <4>2 DEF Least2, QATyped, CountTyped, GhostTyped
    <3> QED  BY <3>1, <3>2
  <2> HIDE DEF n
  <2>3. qGhost'.cut = qGhost.cut /\ qGhost'.idle = n
    BY <2>1 DEF QATyped, GhostTyped
  <2> QED  BY <2>1, <2>2, <2>3 DEF StallInv, QuietPc
<1> QED
  BY <1>2, <1>3, <1>4, <1>5, <1>6, <1>7, <1>8, <1>9, <1>10, <1>11 DEF QANext, QAStep

-----------------------------------------------------------------------------
(* Leaving the loop.                                                       *)

LEMMA ExitKept ==
    ASSUME QATyped, StageInv, ReportInv, DraftInv, PlanInv, ClipInv, ExitCovered, QANext PROVE ExitCovered'
<1> SUFFICES ASSUME qStage' = "spelling", NEW ch \in QAChapter, Required(Findings(ch))'
             PROVE  \/ qAccepted'[ch] = "agent"
                    \/ Findings(ch)' \subseteq {qLayer'[ch].repaired.clip}
                    \/ Torn(ch)'
  BY DEF ExitCovered
<1>1. CASE QASweep
  <2>1. Findings(ch)' = Findings(ch)
    BY <1>1 DEF QASweep, Files, Findings
  <2>2. Findings(ch) = {}
    BY <1>1 DEF QASweep, Enter, Allowed
  <2> QED  BY <2>1, <2>2 DEF Required
<1>2. CASE EndAdjudication
  <2>1. UNCHANGED <<qLayer, qVerdict, qHeard, qGhost, qAccepted>>
    BY <1>2 DEF EndAdjudication, Files
  <2>2. Findings(ch)' = Findings(ch)
    BY <2>1 DEF Findings
  <2>3. qReport[ch] = Findings(ch) /\ qLocal.draft[ch] # "none" /\ qAccepted = qLocal.ledger
    BY <1>2, <2>2 DEF EndAdjudication, ReportInv, DraftInv, PlanInv
  <2>4. qLocal.draft[ch] = "accept"
    BY <1>2, <2>3 DEF EndAdjudication, Enter, Work
  <2>5. qAccepted[ch] = "agent" \/ ch \in AutoAccepted
    BY <1>2, <2>3, <2>4 DEF EndAdjudication, DraftInv
  <2>6. ASSUME ch \in AutoAccepted, ~Torn(ch) PROVE Findings(ch) \subseteq {qLayer[ch].repaired.clip}
    <3>1. /\ Findings(ch) \subseteq {qVerdict[ch].clip}
          /\ qVerdict[ch].good /\ qLayer[ch].repaired # NoText
      BY <2>3, <2>6 DEF AutoAccepted, Covered, AlreadyDone, CurrentVerdict
    <3> QED  BY <2>6, <3>1 DEF ClipInv, Torn
  <2> QED  BY <2>1, <2>2, <2>5, <2>6 DEF Torn
<1> QED
  BY <1>1, <1>2
  DEF QANext, QAStep, ParkNoConverge, Adjudicate, WriteLedger, WritePlan, QARetry, BeginRepairs, NextEntry, Listen,
      Judge, AdoptRaw, DeriveJson, DeriveText, DropDerived, ReuseClip, PrepareClip, Cutting, WriteRepaired,
      MergeVerdict, DropCorrected, MarkRound, EndRepairs, Cut, Goto, StageUp, Enter

-----------------------------------------------------------------------------
(* The loop's theorems.                                                    *)

LEMMA QANextInv == ASSUME QAInv, [QANext]_qVars PROVE QAInv'
<1>1. CASE QANext
  BY <1>1, QATypedKept, StageKept, ReportKept, DraftKept, PlanKept, ClipKept, StallKept, ExitKept DEF QAInv
<1>2. CASE UNCHANGED qVars
  BY <1>2
  DEF qVars, QAInv, QATyped, LayerTyped, PapersTyped, VerdictTyped, CountTyped, LocalTyped, GhostTyped, StageInv,
      ReportInv, DraftInv, PlanInv, ClipInv, StallInv, ExitCovered, Findings, AutoAccepted, AlreadyDone, Here,
      Window, Torn, Work
<1> QED  BY <1>1, <1>2

(* Type correctness of the repair loop, with everything else that holds of *)
(* every state of it: the invariant the three results below rest on.       *)
THEOREM LoopInvariant == QASpec => []QAInv
<1>1. QAInit => QAInv
  BY QAInitInv
<1>2. QAInv /\ [QANext]_qVars => QAInv'
  BY QANextInv, QAAssumption
<1> QED  BY <1>1, <1>2, PTL DEF QASpec

(* No chapter leaves the loop degenerated and unseen, however many         *)
(* chapters and rounds there are and wherever the stages are cut short,    *)
(* but for a splice that a cut parted from its verdict                     *)
(* (autoAcceptRepairedTails, the exit of qa_adjudicating and of qa_sweep). *)
THEOREM NothingLeavesUnseen == QASpec => []ExitCovered
<1>1. QAInv => ExitCovered
  BY DEF QAInv
<1> QED  BY <1>1, LoopInvariant, PTL

(* Without a cut a splice is parted from its verdict only while the stage  *)
(* stands between the two.                                                 *)
TornInv == ~qGhost.cut => \/ qGhost.torn = {}
                          \/ qStage = "retranscribing" /\ qPc = "verdict" /\ qGhost.torn = {Here}

UncutExit ==
    qStage = "spelling" /\ ~qGhost.cut =>
        \A ch \in QAChapter :
            Required(Findings(ch)) => qAccepted[ch] = "agent" \/ Findings(ch) \subseteq {qLayer[ch].repaired.clip}

LEMMA TornKept ==
    ASSUME QAInv, TornInv, [QANext]_qVars PROVE TornInv'
<1>1. GhostTyped
  BY DEF QAInv, QATyped
<1>2. CASE UNCHANGED qVars
  BY <1>2 DEF qVars, TornInv, Here
<1>3. CASE WriteRepaired
  <2>1. qGhost' = [qGhost EXCEPT !.changed = TRUE, !.torn = @ \cup {Here}]
    BY <1>3 DEF WriteRepaired
  <2>2. qGhost'.cut = qGhost.cut /\ qGhost'.torn = qGhost.torn \cup {Here}
    BY <1>1, <2>1 DEF GhostTyped
  <2>3. qStage' = "retranscribing" /\ qPc = "splice" /\ qPc' = "verdict" /\ Here' = Here
    BY <1>3 DEF WriteRepaired, StageUp, Goto, Here
  <2> QED  BY <2>2, <2>3 DEF TornInv
<1>4. CASE MergeVerdict
  <2>1. qGhost' = [qGhost EXCEPT !.torn = @ \ {Here}]
    BY <1>4 DEF MergeVerdict
  <2>2. qGhost'.cut = qGhost.cut /\ qGhost'.torn = qGhost.torn \ {Here}
    BY <1>1, <2>1 DEF GhostTyped
  <2> QED  BY <2>2 DEF TornInv
<1>5. CASE Cut
  <2>1. qGhost' = [qGhost EXCEPT !.cut = TRUE]
    BY <1>5 DEF Cut
  <2>2. qGhost'.cut
    BY <1>1, <2>1 DEF GhostTyped
  <2> QED  BY <2>2 DEF TornInv
<1>6. CASE AdoptRaw \/ MarkRound \/ BeginRepairs \/ QARetry
  <2>1. qPc \in {"raw", "entry", "begin", "capped", "stalled"}
    BY <1>6 DEF AdoptRaw, MarkRound, BeginRepairs, QARetry, StageUp
  <2>2. qGhost'.cut = qGhost.cut /\ qGhost'.torn = qGhost.torn
    BY <1>1, <1>6 DEF AdoptRaw, MarkRound, BeginRepairs, QARetry, GhostTyped
  <2> QED  BY <2>1, <2>2 DEF TornInv
<1>7. CASE \/ QASweep \/ ParkNoConverge \/ Adjudicate \/ WriteLedger \/ WritePlan \/ EndAdjudication
           \/ NextEntry \/ Listen \/ Judge \/ DeriveJson \/ DeriveText
           \/ DropDerived \/ ReuseClip \/ PrepareClip \/ Cutting \/ DropCorrected \/ EndRepairs
  <2>1. qStage # "retranscribing" \/ qPc # "verdict"
    BY <1>7
    DEF QASweep, ParkNoConverge, Adjudicate, WriteLedger, WritePlan, EndAdjudication, NextEntry,
        Listen, Judge, DeriveJson, DeriveText, DropDerived, ReuseClip, PrepareClip, Cutting, DropCorrected,
        EndRepairs, StageUp
  <2>2. qGhost' = qGhost
    BY <1>7
    DEF QASweep, ParkNoConverge, Adjudicate, WriteLedger, WritePlan, EndAdjudication, NextEntry,
        Listen, Judge, DeriveJson, DeriveText, DropDerived, ReuseClip, PrepareClip, Cutting, DropCorrected,
        EndRepairs, StageUp
  <2> QED  BY <2>1, <2>2 DEF TornInv
<1> QED  BY <1>2, <1>3, <1>4, <1>5, <1>6, <1>7 DEF QANext, QAStep

(* With no stage cut short, every finding of a chapter that leaves is      *)
(* accepted by the agent or lies in the window that was spliced: there is  *)
(* no splice without its verdict (ClipAndSplice, MergeTailVerdict).        *)
THEOREM UncutLoopsLeaveNothing == QASpec => []UncutExit
<1>1. QAInit => TornInv
  BY DEF QAInit, TornInv
<1>2. QAInv /\ TornInv /\ [QANext]_qVars => TornInv'
  BY TornKept
<1>3. QAInv /\ TornInv => UncutExit
  BY DEF QAInv, ExitCovered, TornInv, UncutExit, Torn
<1>4. QASpec => []TornInv
  BY <1>1, <1>2, LoopInvariant, PTL DEF QASpec
<1> QED  BY <1>3, <1>4, LoopInvariant, PTL

(* A book that is parked as stalled has had two repair rounds in a row     *)
(* that wrote no transcript (the retranscribe_stalled marker), unless a    *)
(* stage was cut short.                                                    *)
THEOREM StallsAreEarned == QASpec => []StallEarned
<1>1. QAInv => StallEarned
  BY DEF QAInv, StallInv, StallEarned
<1> QED  BY <1>1, LoopInvariant, PTL

(* What the agent accepted no later round touches: every step that writes  *)
(* a layer works on a chapter the plan lists, and the plan lists none the  *)
(* agent accepted (foldPriorAccepts).                                      *)
THEOREM AcceptedIsLeftAlone == QASpec => AcceptedStays
<1> DEFINE A == \A ch \in QAChapter : qAccepted[ch] = "agent" => qLayer'[ch] = qLayer[ch]
<1>1. ASSUME QAInv, QANext PROVE A
  <2> SUFFICES ASSUME NEW ch \in QAChapter, qAccepted[ch] = "agent", qLayer' # qLayer
               PROVE  qLayer'[ch] = qLayer[ch]
    OBVIOUS
  <2>1. /\ qStage = "retranscribing" /\ qPc \in ListenPc \cup ClipPc
        /\ \/ \E f \in {"raw", "json", "text", "repaired", "corrected"} :
                 \E v : qLayer' = [qLayer EXCEPT ![Here][f] = v]
           \/ qLayer' = [qLayer EXCEPT ![Here] = WithoutDerived(@)]
    BY <1>1
    DEF QANext, QAStep, QASweep, ParkNoConverge, Adjudicate, WriteLedger, WritePlan, EndAdjudication, QARetry,
        BeginRepairs, NextEntry, Listen, Judge, AdoptRaw, DeriveJson, DeriveText, DropDerived, ReuseClip,
        PrepareClip, Cutting, WriteRepaired, MergeVerdict, DropCorrected, MarkRound, EndRepairs, Cut, Files,
        StageUp, SetLayer, ListenPc, ClipPc
  <2>2. qPlan[Here] \notin {"none", "accept"} /\ Here \in QAChapter
    BY <1>1, <2>1 DEF QAInv, StageInv, Here, Work
  <2>3. ch # Here
    BY <1>1, <2>1, <2>2 DEF QAInv, PlanInv
  <2> QED  BY <1>1, <2>1, <2>3 DEF QAInv, QATyped, LayerTyped
<1>2. ASSUME UNCHANGED qVars PROVE A
  BY <1>2 DEF qVars
<1>3. QAInv /\ [QANext]_qVars => [A]_qVars
  BY <1>1, <1>2
<1>4. QASpec => [][A]_qVars
  BY <1>3, LoopInvariant, PTL DEF QASpec
<1> QED  BY <1>4 DEF AcceptedStays

-----------------------------------------------------------------------------
(* The authoring loop's inductive invariant.                               *)

AuLocals == [verify : BOOLEAN, passed : BOOLEAN, next : AuStages \cup {"ready", "none"},
             opener : BOOLEAN, out : [AuFile -> SUBSET AuDefect]]
AuGhosts == [checked : BOOLEAN, read : BOOLEAN, writers : SUBSET AuStages]
AuBounds == [cuts : Nat, crashes : Nat, reruns : Nat, moves : Nat]

LoopTyped == AuTypeOK /\ auLocal \in AuLocals

(* A worker stands at a step of its own stage; one that has written its    *)
(* sentinel has it, one that advances has dropped the next stage's.        *)
WorkerInv ==
    /\ auStage = "ready" => auPc = "idle"
    /\ auPc \in AuFile \cup {"write"} => auStage \in {"synthesizing", "fixing"}
    /\ auPc \in {"canonicalize", "measure"} => auStage = "validating"
    /\ auPc \in {"audit", "round", "judge"} => auStage = "auditing"
    /\ auPc \in {"record", "advance", "commit"} => auSentinel[auStage] # "none"
    /\ auPc = "commit" =>
          /\ auLocal.next = AuAfter
          /\ auLocal.next \in AuStages => auSentinel[auLocal.next] = "none"

Validated == auGhost.checked /\ \A f \in AuFile : auFile[f].canonical

(* An audit reads validated sidecars, also when a restart moves the book   *)
(* back to it: a missing sentinel of auditing means that validating was    *)
(* about to hand over.                                                     *)
ValidatedInv ==
    /\ auStage = "auditing" => Validated
    /\ auStage = "validating" =>
          /\ auSentinel["validating"] # "none" \/ auPc \in {"sentinel", "record", "advance", "commit"} => Validated
          /\ auDone["auditing"] > 0 /\ auSentinel["auditing"] = "none" => Validated
    /\ auPc = "measure" => \A f \in AuFile : auFile[f].canonical
    /\ auStage = "fixing" /\ auDone["auditing"] > 0 => auSentinel["auditing"] # "none"
    /\ auStage = "synthesizing" => auDone["auditing"] = 0

(* Only a fixing pass has written since the audit an acceptance is about.  *)
WriterInv ==
    /\ auAccepted /\ auDone["auditing"] > 0 => auGhost.writers \subseteq {"fixing"}
    /\ auAccepted /\ auStage = "auditing" /\ auPc \in {"audit", "round", "judge", "sentinel", "record"} =>
          auGhost.writers \subseteq {"fixing"}
    /\ auPc \in {"round", "judge"} => auGhost.writers = {} /\ ~auLocal.passed
    /\ auPc = "audit" /\ auLocal.verify => auAccepted /\ auCheck.clean

Examined ==
    /\ Validated /\ auCheck.clean
    /\ auGhost.read /\ auReport.pass /\ Actionable(auReport) = 0
    /\ auGhost.writers \subseteq IF auAccepted THEN {"fixing"} ELSE {}

(* A passed audit is about what is there.                                  *)
PassedInv ==
    auStage = "auditing" =>
        /\ auPc \in {"work", "audit", "round", "judge", "sentinel"} => auSentinel["auditing"] = "none"
        /\ auSentinel["auditing"] = "passed" => Examined
        /\ auPc \in {"sentinel", "record", "advance", "commit"} /\ auLocal.passed => Examined

AuInv == LoopTyped /\ WorkerInv /\ ValidatedInv /\ WriterInv /\ PassedInv /\ ShippedAudited

-----------------------------------------------------------------------------
(* Every step keeps the types.                                             *)

LEMMA LocalUpdates ==
    /\ AuIdle \in AuLocals
    /\ \A l \in AuLocals :
          /\ \A b \in BOOLEAN : /\ [l EXCEPT !.verify = b] \in AuLocals
                                /\ [l EXCEPT !.passed = b] \in AuLocals
                                /\ [l EXCEPT !.opener = b] \in AuLocals
          /\ \A n \in AuStages \cup {"ready", "none"} : [l EXCEPT !.next = n] \in AuLocals
          /\ \A o \in [AuFile -> SUBSET AuDefect] : [l EXCEPT !.out = o] \in AuLocals
<1>1. AuIdle \in AuLocals
  BY DEF AuIdle, AuLocals, AuStages, AuFile
<1>2. ASSUME NEW l \in AuLocals, NEW b \in BOOLEAN
      PROVE  /\ [l EXCEPT !.verify = b] \in AuLocals
             /\ [l EXCEPT !.passed = b] \in AuLocals
             /\ [l EXCEPT !.opener = b] \in AuLocals
  BY <1>2 DEF AuLocals
<1>3. ASSUME NEW l \in AuLocals
      PROVE  /\ \A n \in AuStages \cup {"ready", "none"} : [l EXCEPT !.next = n] \in AuLocals
             /\ \A o \in [AuFile -> SUBSET AuDefect] : [l EXCEPT !.out = o] \in AuLocals
  BY <1>3 DEF AuLocals
<1> QED  BY <1>1, <1>2, <1>3

LEMMA GhostUpdates ==
    \A g \in AuGhosts : \A b \in BOOLEAN :
        /\ [g EXCEPT !.checked = b] \in AuGhosts
        /\ [g EXCEPT !.read = b] \in AuGhosts
        /\ [g EXCEPT !.read = b, !.writers = {}] \in AuGhosts
        /\ \A s \in AuStages : [checked |-> b, read |-> b, writers |-> g.writers \cup {s}] \in AuGhosts
BY DEF AuGhosts

LEMMA BoundsKept ==
    \A kind \in {"cuts", "crashes", "reruns", "moves"} :
        AuSpend(kind) /\ auLeft \in AuBounds => auLeft' \in AuBounds
<1> SUFFICES ASSUME NEW kind \in {"cuts", "crashes", "reruns", "moves"}, AuSpend(kind), auLeft \in AuBounds
             PROVE  auLeft' \in AuBounds
  OBVIOUS
<1> DEFINE n == auLeft[kind] - 1
<1>1. n \in Nat /\ auLeft' = [auLeft EXCEPT ![kind] = n]
  BY DEF AuSpend, AuBounds
<1> HIDE DEF n
<1> QED  BY <1>1 DEF AuBounds

(* The stage, what the workers recorded of it and where the worker is.     *)
LEMMA PlaceKept ==
    ASSUME LoopTyped, WorkerInv, AuNext
    PROVE  /\ auStage' \in AuStages \cup {"ready"}
           /\ auSentinel' \in [AuStages -> {"none", "written", "passed"}]
           /\ auDone' \in [AuStages -> Nat]
<1> USE DEF LoopTyped, AuTypeOK
<1>1. CASE UNCHANGED <<auStage, auSentinel, auDone>>
  BY <1>1
<1>2. CASE AuWriteSentinel
  BY <1>2 DEF AuWriteSentinel, WorkerInv
<1>3. CASE AuRecord
  BY <1>3 DEF AuRecord, WorkerInv
<1>4. CASE AuAdvance
  BY <1>4 DEF AuAdvance, AuDropNext
<1>5. CASE AuCommit
  <2>1. auStage' = auLocal.next /\ UNCHANGED <<auSentinel, auDone>> /\ auLocal.next = AuAfter
    BY <1>5 DEF AuCommit, WorkerInv
  <2>2. auStage \in AuStages
    BY <1>5 DEF AuCommit, WorkerInv
  <2> QED  BY <2>1, <2>2 DEF AuAfter, AuOnward, AuStages
<1>6. CASE AuCut
  BY <1>6 DEF AuCut, Unwrite
<1>7. CASE AuCrash
  BY <1>7 DEF AuCrash, Supersede4
<1>8. CASE AuRerun
  <2>1. PICK s \in AuReruns : auStage' = s /\ auDone' = Supersede4(AuFrom(s)) /\ auSentinel' = Unwrite(AuFrom(s))
    BY <1>8 DEF AuRerun
  <2> QED  BY <2>1, AuAssumption DEF AuAssumption, AuStages, Supersede4, Unwrite
<1>9. CASE AuRetry
  BY <1>9 DEF AuRetry, Supersede4, Unwrite
<1> QED
  BY <1>1, <1>2, <1>3, <1>4, <1>5, <1>6, <1>7, <1>8, <1>9
  DEF AuNext, AuStep, AuDispatch, AuInputs, Author, HarvestSidecar, Canonicalize, Measure, AuditBegins, FullAudit,
      VerifyAccepted, AppendRound, JudgeTrajectory, PredecessorMoves, AuBooks, Audits

LEMMA PcKept ==
    ASSUME AuTypeOK, AuNext
    PROVE  auPc' \in AuFile \cup {"idle", "work", "write", "canonicalize", "measure", "audit", "round",
                                  "judge", "sentinel", "record", "advance", "commit", "parked"}
BY DEF AuTypeOK, AuNext, AuStep, AuDispatch, AuWriteSentinel, AuRecord, AuAdvance, AuCommit, AuInputs, Author,
       HarvestSidecar, Canonicalize, Measure, AuditBegins, FullAudit, VerifyAccepted, AppendRound,
       JudgeTrajectory, AuCut, AuCrash, AuRerun, AuRetry, PredecessorMoves, AuGoto, AuFile

LEMMA LocalsKept ==
    ASSUME LoopTyped, WorkerInv, AuNext PROVE auLocal' \in AuLocals
<1>1. auLocal \in AuLocals
  BY DEF LoopTyped
<1>2. CASE AuDispatch
  <2> DEFINE b == auSentinel[auStage] = "passed"
  <2>1. b \in BOOLEAN /\ auLocal' \in {AuIdle, [AuIdle EXCEPT !.passed = b]}
    BY <1>2 DEF AuDispatch
  <2> HIDE DEF b
  <2> QED  BY <2>1, LocalUpdates
<1>3. CASE AuAdvance
  <2>1. auStage \in AuStages
    BY <1>3 DEF AuAdvance, WorkerInv, LoopTyped, AuTypeOK
  <2>2. AuAfter \in AuStages \cup {"ready", "none"}
    BY <2>1 DEF AuAfter, AuOnward, AuStages
  <2>3. auLocal' \in {auLocal, [auLocal EXCEPT !.next = AuAfter]}
    BY <1>3 DEF AuAdvance
  <2> QED  BY <1>1, <2>2, <2>3, LocalUpdates
<1>4. CASE AuInputs
  BY <1>1, <1>4, LocalUpdates DEF AuInputs, LoopTyped, AuTypeOK
<1>5. CASE Author
  <2>1. PICK out \in AuTexts : auLocal' = [auLocal EXCEPT !.out = out]
    BY <1>5 DEF Author
  <2> QED  BY <1>1, <2>1, LocalUpdates, AuAssumption DEF AuAssumption
<1>6. CASE AuditBegins
  <2>1. auAccepted' \in BOOLEAN /\ auLocal' = [auLocal EXCEPT !.verify = auAccepted']
    BY <1>6 DEF AuditBegins
  <2> QED  BY <1>1, <2>1, LocalUpdates
<1>7. CASE FullAudit
  <2>1. PICK rep \in AuReports : auLocal' = [auLocal EXCEPT !.passed = EffectivePass(rep)]
    BY <1>7 DEF FullAudit
  <2> DEFINE b == EffectivePass(rep)
  <2>2. b \in BOOLEAN
    BY DEF EffectivePass
  <2> HIDE DEF b
  <2>3. auLocal' = [auLocal EXCEPT !.passed = b]
    BY <2>1 DEF b
  <2> QED  BY <1>1, <2>2, <2>3, LocalUpdates
<1>8. CASE VerifyAccepted
  <2>1. auAccepted' \in BOOLEAN /\ auLocal' = [auLocal EXCEPT !.passed = auAccepted']
    BY <1>8 DEF VerifyAccepted
  <2> QED  BY <1>1, <2>1, LocalUpdates
<1>9. CASE auLocal' \in {AuIdle, auLocal}
  BY <1>1, <1>9, LocalUpdates
<1> QED
  BY <1>2, <1>3, <1>4, <1>5, <1>6, <1>7, <1>8, <1>9
  DEF AuNext, AuStep, AuWriteSentinel, AuRecord, AuCommit, HarvestSidecar, Canonicalize, Measure, AppendRound,
      JudgeTrajectory, AuCut, AuCrash, AuRerun, AuRetry, PredecessorMoves

LEMMA GhostsKept ==
    ASSUME AuTypeOK, WorkerInv, AuNext PROVE auGhost' \in AuGhosts
<1> DEFINE yes == TRUE
           no  == FALSE
<1>1. auGhost \in AuGhosts /\ yes \in BOOLEAN /\ no \in BOOLEAN
  BY DEF AuTypeOK, AuGhosts
<1>2. CASE HarvestSidecar
  <2>1. auGhost' = [checked |-> no, read |-> no, writers |-> auGhost.writers \cup {auStage}] /\ auStage \in AuStages
    BY <1>2 DEF HarvestSidecar, WorkerInv, AuStages
  <2> HIDE DEF no
  <2> QED  BY <1>1, <2>1, GhostUpdates
<1>3. CASE Measure
  <2>1. auGhost' = [auGhost EXCEPT !.checked = yes]
    BY <1>3 DEF Measure
  <2> HIDE DEF yes
  <2> QED  BY <1>1, <2>1, GhostUpdates
<1>4. CASE FullAudit
  <2>1. auGhost' = [auGhost EXCEPT !.read = yes, !.writers = {}]
    BY <1>4 DEF FullAudit
  <2> HIDE DEF yes
  <2> QED  BY <1>1, <2>1, GhostUpdates
<1>5. CASE VerifyAccepted
  <2>1. auGhost' = [auGhost EXCEPT !.read = yes]
    BY <1>5 DEF VerifyAccepted
  <2> HIDE DEF yes
  <2> QED  BY <1>1, <2>1, GhostUpdates
<1>6. CASE auGhost' = auGhost
  BY <1>1, <1>6
<1> QED
  BY <1>2, <1>3, <1>4, <1>5, <1>6
  DEF AuNext, AuStep, AuDispatch, AuWriteSentinel, AuRecord, AuAdvance, AuCommit, AuInputs, Author, Canonicalize,
      AuditBegins, AppendRound, JudgeTrajectory, AuCut, AuCrash, AuRerun, AuRetry, PredecessorMoves, AuTexted, AuSame

LEMMA MarkFits ==
    ASSUME NEW S, NEW file \in [defects : S, canonical : BOOLEAN], NEW b \in BOOLEAN
    PROVE  [file EXCEPT !.canonical = b] \in [defects : S, canonical : BOOLEAN]
OBVIOUS

LEMMA FilesKept ==
    ASSUME LoopTyped, AuNext
    PROVE  /\ auFile' \in [AuFile -> [defects : SUBSET AuDefect, canonical : BOOLEAN]]
           /\ auCheck' \in [clean : BOOLEAN]
           /\ auReport' \in [pass : BOOLEAN, blocker : Nat, fix : Nat]
<1> USE DEF LoopTyped, AuTypeOK
<1>1. auFile' \in [AuFile -> [defects : SUBSET AuDefect, canonical : BOOLEAN]]
  <2>1. CASE HarvestSidecar
    <3> DEFINE no == FALSE
               v  == [defects |-> auLocal.out[auPc], canonical |-> no]
    <3>1. auFile' = [auFile EXCEPT ![auPc] = v] /\ auPc \in AuFile
      BY <2>1 DEF HarvestSidecar
    <3>2. auLocal.out[auPc] \in SUBSET AuDefect /\ no \in BOOLEAN
      BY <3>1 DEF AuLocals
    <3> HIDE DEF no
    <3>3. v \in [defects : SUBSET AuDefect, canonical : BOOLEAN]
      BY <3>2
    <3> HIDE DEF v
    <3> QED  BY <3>1, <3>3
  <2>2. CASE Canonicalize
    <3> DEFINE yes == TRUE
    <3>1. auFile' = [f \in AuFile |-> [auFile[f] EXCEPT !.canonical = yes]] /\ yes \in BOOLEAN
      BY <2>2 DEF Canonicalize
    <3> HIDE DEF yes
    <3>2. ASSUME NEW f \in AuFile
          PROVE  [auFile[f] EXCEPT !.canonical = yes] \in [defects : SUBSET AuDefect, canonical : BOOLEAN]
      <4>1. auFile[f] \in [defects : SUBSET AuDefect, canonical : BOOLEAN]
        OBVIOUS
      <4> QED  BY <3>1, <4>1, MarkFits
    <3> QED  BY <3>1, <3>2
  <2>3. CASE auFile' = auFile
    BY <2>3
  <2> QED
    BY <2>1, <2>2, <2>3
    DEF AuNext, AuStep, AuDispatch, AuWriteSentinel, AuRecord, AuAdvance, AuCommit, AuInputs, Author, Measure,
        AuditBegins, FullAudit, VerifyAccepted, AppendRound, JudgeTrajectory, AuCut, AuCrash, AuRerun, AuRetry,
        PredecessorMoves, AuTexted, AuSame, Audits
<1>2. auCheck' \in [clean : BOOLEAN]
  <2>1. CASE Measure
    <3> DEFINE b == \A f \in AuFile : AuErrors(f) = {}
    <3>1. auCheck' = [clean |-> b] /\ b \in BOOLEAN
      BY <2>1 DEF Measure
    <3> HIDE DEF b
    <3> QED  BY <3>1
  <2>2. CASE auCheck' = auCheck
    BY <2>2
  <2> QED
    BY <2>1, <2>2
    DEF AuNext, AuStep, AuDispatch, AuWriteSentinel, AuRecord, AuAdvance, AuCommit, AuInputs, Author, HarvestSidecar,
        Canonicalize, AuditBegins, FullAudit, VerifyAccepted, AppendRound, JudgeTrajectory, AuCut, AuCrash, AuRerun,
        AuRetry, PredecessorMoves, AuSame, Audits
<1>3. auReport' \in [pass : BOOLEAN, blocker : Nat, fix : Nat]
  <2>1. CASE FullAudit \/ VerifyAccepted
    BY <2>1, AuAssumption DEF FullAudit, VerifyAccepted, Audits, AuAssumption
  <2>2. CASE auReport' = auReport
    BY <2>2
  <2> QED
    BY <2>1, <2>2
    DEF AuNext, AuStep, AuDispatch, AuWriteSentinel, AuRecord, AuAdvance, AuCommit, AuInputs, Author, HarvestSidecar,
        Canonicalize, Measure, AuditBegins, AppendRound, JudgeTrajectory, AuCut, AuCrash, AuRerun, AuRetry,
        PredecessorMoves, AuSame
<1> QED  BY <1>1, <1>2, <1>3

LEMMA TrailKept ==
    ASSUME AuTypeOK, AuNext
    PROVE  /\ auRounds' \in Seq([blocker : Nat, fix : Nat])
           /\ {auAccepted', auOpener'} \subseteq BOOLEAN
           /\ auLeft' \in AuBounds
<1> USE DEF AuTypeOK
<1>1. auRounds' \in Seq([blocker : Nat, fix : Nat])
  <2>1. CASE AppendRound
    <3>1. [blocker |-> auReport.blocker, fix |-> auReport.fix] \in [blocker : Nat, fix : Nat]
      OBVIOUS
    <3>2. auRounds' = Append(auRounds, [blocker |-> auReport.blocker, fix |-> auReport.fix])
      BY <2>1 DEF AppendRound
    <3> QED  BY <3>1, <3>2, AppendProperties
  <2>2. CASE auRounds' \in {auRounds, <<>>}
    <3>1. <<>> \in Seq([blocker : Nat, fix : Nat])
      BY EmptySeq
    <3> QED  BY <2>2, <3>1
  <2> QED
    BY <2>1, <2>2
    DEF AuNext, AuStep, AuDispatch, AuWriteSentinel, AuRecord, AuAdvance, AuCommit, AuInputs, Author, HarvestSidecar,
        Canonicalize, Measure, AuditBegins, FullAudit, VerifyAccepted, JudgeTrajectory, AuCut, AuCrash, AuRerun,
        AuRetry, PredecessorMoves, AuTrail
<1>2. {auAccepted', auOpener'} \subseteq BOOLEAN
  <2>1. auOpener' \in BOOLEAN
    BY DEF AuNext, AuStep, AuDispatch, AuWriteSentinel, AuRecord, AuAdvance, AuCommit, AuInputs, Author,
        HarvestSidecar, Canonicalize, Measure, AuditBegins, FullAudit, VerifyAccepted, AppendRound,
        JudgeTrajectory, AuCut, AuCrash, AuRerun, AuRetry, PredecessorMoves, AuTexted, AuSame, Audits
  <2>2. CASE AuditBegins \/ VerifyAccepted \/ JudgeTrajectory \/ AuRetry
    BY <2>1, <2>2 DEF AuditBegins, VerifyAccepted, JudgeTrajectory, AuRetry, AcceptTrajectory
  <2>3. CASE auAccepted' = auAccepted
    BY <2>1, <2>3
  <2> QED
    BY <2>2, <2>3
    DEF AuNext, AuStep, AuDispatch, AuWriteSentinel, AuRecord, AuAdvance, AuCommit, AuInputs, Author, HarvestSidecar,
        Canonicalize, Measure, FullAudit, AppendRound, AuCut, AuCrash, AuRerun, PredecessorMoves, AuTrail
<1>3. auLeft' \in AuBounds
  <2>1. auLeft \in AuBounds
    BY DEF AuBounds
  <2>2. CASE AuCut \/ AuCrash \/ AuRerun \/ AuRetry \/ PredecessorMoves
    BY <2>1, <2>2, BoundsKept DEF AuCut, AuCrash, AuRerun, AuRetry, PredecessorMoves
  <2>3. CASE auLeft' = auLeft
    BY <2>1, <2>3
  <2> QED
    BY <2>2, <2>3
    DEF AuNext, AuStep, AuDispatch, AuWriteSentinel, AuRecord, AuAdvance, AuCommit, AuInputs, Author, HarvestSidecar,
        Canonicalize, Measure, AuditBegins, FullAudit, VerifyAccepted, AppendRound, JudgeTrajectory, AuTexted, Audits
<1> QED  BY <1>1, <1>2, <1>3

LEMMA LoopTypedKept ==
    ASSUME LoopTyped, WorkerInv, AuNext PROVE LoopTyped'
<1>1. AuTypeOK
  BY DEF LoopTyped
<1>2. auLocal'.next \in AuStages \cup {"ready", "none"} /\ auLocal' \in AuLocals
  BY LocalsKept DEF AuLocals
<1> QED
  BY <1>1, <1>2, PlaceKept, PcKept, GhostsKept, FilesKept, TrailKept DEF LoopTyped, AuTypeOK, AuGhosts, AuBounds

-----------------------------------------------------------------------------
(* Where the worker stands.                                                *)

LEMMA WorkerKept ==
    ASSUME LoopTyped, WorkerInv, AuNext PROVE WorkerInv'
<1> USE DEF LoopTyped, AuTypeOK
<1>1. CASE AuDispatch
  BY <1>1 DEF AuDispatch, WorkerInv, AuBooks, AuGoto, AuFile
<1>2. CASE AuWriteSentinel
  BY <1>2 DEF AuWriteSentinel, WorkerInv, AuGoto, AuFile
<1>3. CASE AuRecord
  BY <1>3 DEF AuRecord, WorkerInv, AuGoto, AuFile
<1>4. CASE AuAdvance
  <2>1. CASE auPc' = "parked" /\ UNCHANGED <<auStage, auSentinel>>
    BY <1>4, <2>1 DEF WorkerInv, AuFile, AuAdvance
  <2>2. CASE auPc' = "commit"
    <3>1. /\ auStage \in AuStages /\ auStage' = auStage
          /\ auSentinel' = AuDropNext(AuAfter)
          /\ auLocal' = [auLocal EXCEPT !.next = AuAfter]
          /\ auSentinel[auStage] # "none"
      BY <1>4, <2>2 DEF AuAdvance, WorkerInv, AuGoto
    <3>2. auLocal'.next = AuAfter /\ auLocal'.passed = auLocal.passed
      BY <3>1 DEF AuLocals
    <3>3. AuAfter' = AuAfter /\ AuAfter # auStage /\ AuAfter \in AuStages \cup {"ready"}
      BY <3>1, <3>2 DEF AuAfter, AuOnward, AuStages
    <3>4. auSentinel'[auStage] # "none" /\ (AuAfter \in AuStages => auSentinel'[AuAfter] = "none")
      BY <3>1, <3>3 DEF AuDropNext
    <3> QED  BY <2>2, <3>1, <3>2, <3>3, <3>4 DEF WorkerInv, AuFile, AuStages
  <2> QED  BY <1>4, <2>1, <2>2 DEF AuAdvance, AuGoto
<1>5. CASE AuCommit
  BY <1>5 DEF AuCommit, WorkerInv, AuGoto, AuFile
<1>6. CASE AuInputs \/ Author \/ HarvestSidecar \/ Canonicalize \/ Measure
  BY <1>6 DEF AuInputs, Author, HarvestSidecar, Canonicalize, Measure, WorkerInv, AuBooks, AuGoto, AuFile
<1>7. CASE AuditBegins \/ FullAudit \/ VerifyAccepted \/ AppendRound \/ JudgeTrajectory
  BY <1>7
  DEF AuditBegins, FullAudit, VerifyAccepted, AppendRound, JudgeTrajectory, Audits, WorkerInv, AuBooks, AuGoto, AuFile
<1>8. CASE AuCut \/ AuRetry
  BY <1>8 DEF AuCut, AuRetry, WorkerInv, AuGoto, AuFile
<1>9. CASE AuCrash
  <2>1. auPc' \in {"parked", "idle"} /\ auStage # "ready"
    BY <1>9 DEF AuCrash, WorkerInv, AuGoto
  <2>2. auStage' = auStage \/ auStage' \in AuStages
    BY <1>9 DEF AuCrash
  <2> QED  BY <2>1, <2>2 DEF WorkerInv, AuFile, AuStages
<1>10. CASE AuRerun
  BY <1>10 DEF AuRerun, WorkerInv, AuGoto, AuFile
<1>11. CASE PredecessorMoves
  BY <1>11 DEF PredecessorMoves, WorkerInv, AuAfter
<1> QED
  BY <1>1, <1>2, <1>3, <1>4, <1>5, <1>6, <1>7, <1>8, <1>9, <1>10, <1>11 DEF AuNext, AuStep

-----------------------------------------------------------------------------
(* What an audit reads was validated.                                      *)

(* A restart moves the book back to a stage that had lost its sentinel,    *)
(* and to none past it.                                                    *)
LEMMA CrashGoesBack ==
    ASSUME LoopTyped, WorkerInv, AuCrash
    PROVE  /\ auPc' \in {"idle", "parked"} /\ auStage # "ready"
           /\ UNCHANGED <<auSentinel, auFile, auCheck, auReport, auAccepted, auGhost>>
           /\ \/ UNCHANGED <<auStage, auDone>>
              \/ \E s \in AuStages :
                    /\ auStage' = s /\ auDone[s] > 0 /\ auSentinel[s] = "none"
                    /\ \A t \in AuStages : AuOrder[t] >= AuOrder[s] => auDone'[t] = 0
                    /\ \A t \in AuStages : AuOrder[t] < AuOrder[s] =>
                          auDone'[t] = auDone[t] /\ (auDone[t] = 0 \/ auSentinel[t] # "none")
<1>1. auPc' \in {"idle", "parked"} /\ auStage # "ready"
  BY DEF AuCrash, WorkerInv, AuGoto
<1>2. UNCHANGED <<auSentinel, auFile, auCheck, auReport, auAccepted, auGhost>>
  BY DEF AuCrash, AuTrail, AuSame
<1> DEFINE lost == {s \in AuStages : auDone[s] > 0 /\ auSentinel[s] = "none"}
<1>3. \/ UNCHANGED <<auStage, auDone>>
      \/ \E s \in lost : lost \subseteq AuFrom(s) /\ auStage' = s /\ auDone' = Supersede4(AuFrom(s))
  BY DEF AuCrash
<1>4. ASSUME NEW s \in lost, lost \subseteq AuFrom(s), auStage' = s, auDone' = Supersede4(AuFrom(s))
      PROVE  /\ s \in AuStages /\ auStage' = s /\ auDone[s] > 0 /\ auSentinel[s] = "none"
             /\ \A t \in AuStages : AuOrder[t] >= AuOrder[s] => auDone'[t] = 0
             /\ \A t \in AuStages : AuOrder[t] < AuOrder[s] =>
                   auDone'[t] = auDone[t] /\ (auDone[t] = 0 \/ auSentinel[t] # "none")
  <2>1. \A t \in AuStages : t \in AuFrom(s) <=> AuOrder[t] >= AuOrder[s]
    BY DEF AuFrom
  <2>2. \A t \in AuStages : auDone'[t] = IF t \in AuFrom(s) THEN 0 ELSE auDone[t]
    BY <1>4 DEF Supersede4
  <2>3. \A t \in AuStages : auDone[t] \in Nat /\ AuOrder[t] \in Nat
    BY DEF LoopTyped, AuTypeOK, AuStages, AuOrder
  <2>4. ASSUME NEW t \in AuStages, AuOrder[t] < AuOrder[s] PROVE t \notin AuFrom(s)
    BY <2>1, <2>3, <2>4
  <2>5. ASSUME NEW t \in AuStages, AuOrder[t] < AuOrder[s] PROVE auDone[t] = 0 \/ auSentinel[t] # "none"
    BY <1>4, <2>3, <2>4, <2>5
  <2> QED  BY <1>4, <2>1, <2>2, <2>4, <2>5
<1>5. \/ UNCHANGED <<auStage, auDone>>
      \/ \E s \in AuStages :
            /\ auStage' = s /\ auDone[s] > 0 /\ auSentinel[s] = "none"
            /\ \A t \in AuStages : AuOrder[t] >= AuOrder[s] => auDone'[t] = 0
            /\ \A t \in AuStages : AuOrder[t] < AuOrder[s] =>
                  auDone'[t] = auDone[t] /\ (auDone[t] = 0 \/ auSentinel[t] # "none")
  BY <1>3, <1>4
<1> QED  BY <1>1, <1>2, <1>5

(* A rerun takes back everything from its stage on.                        *)
LEMMA RerunTakesBack ==
    ASSUME LoopTyped, AuRerun, "auditing" \notin AuReruns
    PROVE  /\ UNCHANGED <<auFile, auCheck, auReport, auAccepted, auGhost>>
           /\ auPc' = "idle"
           /\ auStage' \in {"synthesizing", "validating", "fixing"}
           /\ auStage' \in {"synthesizing", "validating"} =>
                 auDone'["auditing"] = 0 /\ auSentinel'["validating"] = "none"
           /\ auStage' = "fixing" =>
                 /\ auStage = "fixing"
                 /\ auDone'["auditing"] = auDone["auditing"] /\ auSentinel'["auditing"] = auSentinel["auditing"]
<1>1. PICK s \in AuReruns : /\ AuOrder[s] <= AuOrder[auStage] /\ auStage' = s
                            /\ auDone' = Supersede4(AuFrom(s)) /\ auSentinel' = Unwrite(AuFrom(s))
  BY DEF AuRerun
<1>2. s \in {"synthesizing", "validating", "fixing"}
  BY <1>1, AuAssumption DEF AuAssumption
<1>3. auStage \in AuStages
  BY DEF AuRerun, LoopTyped, AuTypeOK
<1>4. s \in {"synthesizing", "validating"} => "auditing" \in AuFrom(s) /\ "validating" \in AuFrom(s)
  BY DEF AuFrom, AuOrder, AuStages
<1>5. s = "fixing" => "auditing" \notin AuFrom(s) /\ auStage = "fixing"
  BY <1>1, <1>3 DEF AuFrom, AuOrder, AuStages
<1>6. UNCHANGED <<auFile, auCheck, auReport, auAccepted, auGhost>> /\ auPc' = "idle"
  BY DEF AuRerun, AuTrail, AuSame, AuGoto
<1>7. "auditing" \in AuStages /\ "validating" \in AuStages
  BY DEF AuStages
<1> QED  BY <1>1, <1>2, <1>4, <1>5, <1>6, <1>7 DEF Supersede4, Unwrite

LEMMA ValidatedKept ==
    ASSUME LoopTyped, WorkerInv, ValidatedInv, AuNext, "auditing" \notin AuReruns PROVE ValidatedInv'
<1> USE DEF LoopTyped, AuTypeOK
<1>1. CASE AuDispatch
  BY <1>1 DEF AuDispatch, ValidatedInv, Validated, AuBooks, AuTexted, AuGoto
<1>2. CASE AuWriteSentinel
  BY <1>2 DEF AuWriteSentinel, WorkerInv, ValidatedInv, Validated, AuTexted, AuGoto
<1>3. CASE AuRecord
  BY <1>3 DEF AuRecord, WorkerInv, ValidatedInv, Validated, AuTexted, AuGoto
<1>4. CASE AuAdvance
  BY <1>4 DEF AuAdvance, WorkerInv, ValidatedInv, Validated, AuTexted, AuGoto, AuDropNext, AuAfter, AuOnward, AuStages
<1>5. CASE AuCommit
  BY <1>5 DEF AuCommit, WorkerInv, ValidatedInv, Validated, AuTexted, AuGoto, AuAfter, AuOnward, AuStages
<1>6. CASE AuInputs \/ Author
  BY <1>6 DEF AuInputs, Author, WorkerInv, ValidatedInv, Validated, AuBooks, AuTexted, AuGoto
<1>7. CASE HarvestSidecar
  BY <1>7 DEF HarvestSidecar, WorkerInv, ValidatedInv, AuBooks, AuGoto
<1>8. CASE Canonicalize
  BY <1>8 DEF Canonicalize, WorkerInv, ValidatedInv, Validated, AuBooks, AuGoto
<1>9. CASE Measure
  BY <1>9 DEF Measure, WorkerInv, ValidatedInv, Validated, AuBooks, AuGoto, AuGhosts
<1>10. CASE AuditBegins \/ FullAudit \/ VerifyAccepted \/ AppendRound \/ JudgeTrajectory
  <2>1. /\ auStage' = "auditing" /\ auStage = "auditing" /\ UNCHANGED <<auSentinel, auDone, auFile>>
        /\ auGhost'.checked = auGhost.checked /\ auPc' # "measure"
    BY <1>10
    DEF AuditBegins, FullAudit, VerifyAccepted, AppendRound, JudgeTrajectory, Audits, WorkerInv, AuBooks, AuTexted, AuGoto
  <2> QED  BY <2>1 DEF ValidatedInv, Validated
<1>11. CASE AuCut \/ AuRetry
  BY <1>11 DEF AuCut, AuRetry, ValidatedInv, Validated, AuSame, AuGoto, Unwrite, Supersede4, AuStages
<1>12. CASE AuCrash
  BY <1>12, CrashGoesBack DEF ValidatedInv, Validated, AuStages, AuOrder
<1>13. CASE AuRerun
  BY <1>13, RerunTakesBack DEF ValidatedInv, Validated
<1>14. CASE PredecessorMoves
  BY <1>14 DEF PredecessorMoves, ValidatedInv, Validated
<1> QED
  BY <1>1, <1>2, <1>3, <1>4, <1>5, <1>6, <1>7, <1>8, <1>9, <1>10, <1>11, <1>12, <1>13, <1>14 DEF AuNext, AuStep

-----------------------------------------------------------------------------
(* Who wrote since the audit, and what a passed audit is worth.            *)

LEMMA WriterKept ==
    ASSUME LoopTyped, WorkerInv, ValidatedInv, WriterInv, AuNext, "auditing" \notin AuReruns PROVE WriterInv'
<1> USE DEF LoopTyped, AuTypeOK
<1>1. CASE AuDispatch
  BY <1>1 DEF AuDispatch, WriterInv, AuBooks, AuTexted, AuTrail, AuGoto
<1>2. CASE AuWriteSentinel
  BY <1>2 DEF AuWriteSentinel, WriterInv, AuTexted, AuTrail, AuGoto
<1>3. CASE AuRecord
  BY <1>3 DEF AuRecord, WorkerInv, WriterInv, AuTexted, AuTrail, AuGoto, AuStages
<1>4. CASE AuAdvance \/ AuCommit
  BY <1>4 DEF AuAdvance, AuCommit, WriterInv, AuTexted, AuTrail, AuGoto
<1>5. CASE AuInputs \/ Author
  BY <1>5 DEF AuInputs, Author, WorkerInv, WriterInv, AuBooks, AuTexted, AuTrail, AuGoto
<1>6. CASE HarvestSidecar
  <2>1. /\ auStage \in {"synthesizing", "fixing"} /\ auGhost'.writers = auGhost.writers \cup {auStage}
        /\ UNCHANGED <<auStage, auDone, auAccepted>> /\ auPc' \in {"recaps", "sentinel"}
    BY <1>6 DEF HarvestSidecar, WorkerInv, AuBooks, AuTrail, AuGoto
  <2> QED  BY <2>1 DEF ValidatedInv, WriterInv
<1>7. CASE Canonicalize \/ Measure
  <2>1. /\ auStage' = "validating" /\ UNCHANGED <<auDone, auAccepted>> /\ auPc' \in {"measure", "sentinel"}
        /\ auGhost'.writers = auGhost.writers
    BY <1>7 DEF Canonicalize, Measure, WorkerInv, AuBooks, AuTrail, AuGoto
  <2> QED  BY <2>1 DEF WriterInv
<1>8. CASE AuditBegins
  <2>1. /\ UNCHANGED <<auStage, auDone, auCheck, auGhost>> /\ auPc' = "audit"
        /\ auAccepted' = (auAccepted /\ ~AuFreshLoop /\ auCheck.clean)
        /\ auLocal' = [auLocal EXCEPT !.verify = auAccepted']
    BY <1>8 DEF AuditBegins, AuBooks, AuTexted, AuGoto
  <2>2. auLocal'.verify = auAccepted'
    BY <2>1 DEF AuLocals
  <2>3. auAccepted' => auAccepted /\ auDone["auditing"] > 0 /\ auCheck.clean
    <3>1. ~AuFreshLoop => auDone["auditing"] > 0
      BY DEF AuFreshLoop, AuStages
    <3>2. auAccepted' => auAccepted /\ ~AuFreshLoop /\ auCheck.clean
      BY <2>1
    <3> QED  BY <3>1, <3>2
  <2> QED  BY <2>1, <2>2, <2>3 DEF WriterInv
<1>9. CASE FullAudit
  <2>1. PICK rep \in AuReports :
           /\ auLocal' = [auLocal EXCEPT !.passed = EffectivePass(rep)]
           /\ auPc' = IF EffectivePass(rep) THEN "sentinel" ELSE "round"
    BY <1>9 DEF FullAudit, AuGoto
  <2>2. auGhost'.writers = {}
    BY <1>9 DEF FullAudit
  <2>3. auPc' = "round" => ~auLocal'.passed
    BY <2>1 DEF AuLocals
  <2>4. auPc' \in {"sentinel", "round"}
    BY <2>1
  <2> QED  BY <2>2, <2>3, <2>4 DEF WriterInv
<1>10. CASE VerifyAccepted
  <2>1. auPc' = "sentinel" /\ UNCHANGED <<auStage, auDone>> /\ auGhost'.writers = auGhost.writers /\ auStage = "auditing"
    BY <1>10 DEF VerifyAccepted, Audits, AuBooks, AuGoto, WorkerInv
  <2>2. auAccepted /\ auGhost.writers \subseteq {"fixing"}
    BY <1>10, <2>1 DEF VerifyAccepted, WriterInv
  <2> QED  BY <2>1, <2>2 DEF WriterInv
<1>11. CASE AppendRound \/ JudgeTrajectory
  BY <1>11 DEF AppendRound, JudgeTrajectory, WriterInv, AuBooks, AuTexted, AuGoto
<1>12. CASE AuCut \/ AuRetry
  BY <1>12 DEF AuCut, AuRetry, WriterInv, AuTrail, AuSame, AuGoto
<1>13. CASE AuCrash
  BY <1>13, CrashGoesBack DEF WriterInv, AuStages, AuOrder
<1>14. CASE AuRerun
  BY <1>14, RerunTakesBack DEF WriterInv
<1>15. CASE PredecessorMoves
  BY <1>15 DEF PredecessorMoves, WriterInv
<1> QED
  BY <1>1, <1>2, <1>3, <1>4, <1>5, <1>6, <1>7, <1>8, <1>9, <1>10, <1>11, <1>12, <1>13, <1>14, <1>15 DEF AuNext, AuStep

LEMMA PassedKept ==
    ASSUME LoopTyped, WorkerInv, ValidatedInv, WriterInv, PassedInv, AuNext, "auditing" \notin AuReruns
    PROVE  PassedInv'
<1> USE DEF LoopTyped, AuTypeOK
<1>1. CASE AuDispatch
  <2>1. /\ UNCHANGED <<auStage, auSentinel, auGhost, auFile, auCheck, auReport, auAccepted>>
        /\ auPc' = IF auSentinel[auStage] # "none" THEN "advance" ELSE "work"
        /\ auSentinel[auStage] # "none" => auLocal' = [AuIdle EXCEPT !.passed = auSentinel[auStage] = "passed"]
    BY <1>1 DEF AuDispatch, AuBooks, AuTexted, AuTrail, AuGoto
  <2>2. Examined' = Examined
    BY <2>1 DEF Examined, Validated
  <2>3. auSentinel[auStage] # "none" => (auLocal'.passed <=> auSentinel[auStage] = "passed")
    <3> DEFINE b == auSentinel[auStage] = "passed"
    <3>1. b \in BOOLEAN /\ AuIdle \in AuLocals
      BY LocalUpdates
    <3>2. auSentinel[auStage] # "none" => auLocal' = [AuIdle EXCEPT !.passed = b]
      BY <2>1
    <3> HIDE DEF b
    <3>3. auSentinel[auStage] # "none" => auLocal'.passed = b
      BY <3>1, <3>2 DEF AuLocals
    <3> QED  BY <3>3 DEF b
  <2> QED  BY <2>1, <2>2, <2>3 DEF PassedInv
<1>2. CASE AuWriteSentinel
  <2>1. /\ UNCHANGED <<auStage, auLocal, auGhost, auFile, auCheck, auReport, auAccepted>>
        /\ auPc = "sentinel" /\ auPc' = "record"
        /\ auSentinel' = [auSentinel EXCEPT ![auStage] = IF auLocal.passed THEN "passed" ELSE "written"]
    BY <1>2 DEF AuWriteSentinel, AuTexted, AuTrail, AuGoto
  <2>2. Examined' = Examined
    BY <2>1 DEF Examined, Validated
  <2> QED  BY <2>1, <2>2 DEF PassedInv, AuStages
<1>3. CASE AuRecord
  BY <1>3 DEF AuRecord, PassedInv, Examined, Validated, AuTexted, AuTrail, AuGoto
<1>4. CASE AuAdvance
  <2>1. /\ UNCHANGED <<auStage, auGhost, auFile, auCheck, auReport, auAccepted>>
        /\ auPc = "advance" /\ auPc' \in {"parked", "commit"}
        /\ auLocal' = auLocal \/ auLocal' = [auLocal EXCEPT !.next = AuAfter]
        /\ auSentinel' = auSentinel \/ auSentinel' = AuDropNext(AuAfter)
    BY <1>4 DEF AuAdvance, AuTexted, AuTrail, AuGoto
  <2>2. Examined' = Examined
    BY <2>1 DEF Examined, Validated
  <2>3. auLocal'.passed = auLocal.passed
    BY <2>1 DEF AuLocals
  <2>4. auSentinel'["auditing"] \in {auSentinel["auditing"], "none"}
    BY <2>1 DEF AuDropNext, AuStages
  <2> QED  BY <2>1, <2>2, <2>3, <2>4 DEF PassedInv
<1>5. CASE AuCommit
  <2>1. auPc = "commit" /\ auPc' = "idle" /\ auStage' = auLocal.next /\ auSentinel' = auSentinel
    BY <1>5 DEF AuCommit, AuGoto
  <2>2. auStage' = "auditing" => auSentinel'["auditing"] = "none"
    BY <2>1 DEF WorkerInv, AuStages
  <2> QED  BY <2>1, <2>2 DEF PassedInv
<1>6. CASE AuInputs \/ Author \/ HarvestSidecar \/ Canonicalize \/ Measure
  <2>1. auStage' # "auditing"
    BY <1>6 DEF AuInputs, Author, HarvestSidecar, Canonicalize, Measure, WorkerInv, AuBooks
  <2> QED  BY <2>1 DEF PassedInv
<1>7. CASE AuditBegins \/ AppendRound
  BY <1>7 DEF AuditBegins, AppendRound, PassedInv, AuBooks, AuGoto
<1>8. CASE FullAudit
  <2>1. PICK rep \in AuReports :
           /\ auReport' = rep /\ UNCHANGED <<auFile, auCheck, auStage, auSentinel>>
           /\ auLocal' = [auLocal EXCEPT !.passed = EffectivePass(rep)]
    BY <1>8 DEF FullAudit, Audits, AuBooks
  <2>2. /\ auPc' \in {"sentinel", "round"} /\ auPc = "audit" /\ auStage = "auditing"
        /\ auGhost' = [auGhost EXCEPT !.read = TRUE, !.writers = {}]
    BY <1>8 DEF FullAudit, AuGoto, WorkerInv
  <2>3. auGhost'.read /\ auGhost'.writers = {} /\ auGhost'.checked = auGhost.checked
    <3> DEFINE yes == TRUE
    <3>1. auGhost' = [auGhost EXCEPT !.read = yes, !.writers = {}]
      BY <2>2
    <3> HIDE DEF yes
    <3>2. auGhost'.read = yes /\ auGhost'.writers = {} /\ auGhost'.checked = auGhost.checked
      BY <3>1
    <3> QED  BY <3>2 DEF yes
  <2>4. auLocal'.passed => EffectivePass(rep)
    <3> DEFINE b == EffectivePass(rep)
    <3>1. auLocal' = [auLocal EXCEPT !.passed = b]
      BY <2>1
    <3> HIDE DEF b
    <3>2. auLocal'.passed = b
      BY <3>1 DEF AuLocals
    <3> QED  BY <3>2 DEF b
  <2>5. Validated'
    BY <2>1, <2>2, <2>3 DEF ValidatedInv, Validated
  <2>6. EffectivePass(rep) => Examined'
    BY <2>1, <2>3, <2>5 DEF EffectivePass, Examined, Actionable
  <2>7. auSentinel'["auditing"] = "none"
    BY <2>1, <2>2 DEF PassedInv
  <2> QED  BY <2>2, <2>4, <2>6, <2>7 DEF PassedInv
<1>9. CASE VerifyAccepted
  <2>1. PICK rep \in AuReports :
           /\ auReport' = rep /\ UNCHANGED <<auFile, auCheck, auStage, auSentinel>>
           /\ auAccepted' = (rep.pass /\ rep.blocker = 0 /\ rep.fix = 0)
           /\ auLocal' = [auLocal EXCEPT !.passed = auAccepted']
    BY <1>9 DEF VerifyAccepted, Audits, AuBooks
  <2>2. /\ auPc' = "sentinel" /\ auPc = "audit" /\ auStage = "auditing"
        /\ auGhost' = [auGhost EXCEPT !.read = TRUE]
        /\ auAccepted /\ auCheck.clean /\ auGhost.writers \subseteq {"fixing"}
    BY <1>9 DEF VerifyAccepted, AuGoto, WorkerInv, WriterInv
  <2>3. auGhost'.read /\ auGhost'.writers = auGhost.writers /\ auGhost'.checked = auGhost.checked
    <3> DEFINE yes == TRUE
    <3>1. auGhost' = [auGhost EXCEPT !.read = yes]
      BY <2>2
    <3> HIDE DEF yes
    <3>2. auGhost'.read = yes /\ auGhost'.writers = auGhost.writers /\ auGhost'.checked = auGhost.checked
      BY <3>1
    <3> QED  BY <3>2 DEF yes
  <2>4. auLocal'.passed = auAccepted'
    BY <2>1 DEF AuLocals
  <2>5. Validated'
    BY <2>1, <2>2, <2>3 DEF ValidatedInv, Validated
  <2>6. auAccepted' => Examined'
    <3>1. auAccepted' => rep.pass /\ rep.blocker = 0 /\ rep.fix = 0
      BY <2>1
    <3>2. auReport' = rep /\ auCheck'.clean /\ auGhost'.writers \subseteq {"fixing"}
      BY <2>1, <2>2, <2>3
    <3> QED  BY <2>3, <2>5, <3>1, <3>2 DEF Examined, Actionable
  <2>7. auSentinel'["auditing"] = "none"
    BY <2>1, <2>2 DEF PassedInv
  <2> QED  BY <2>2, <2>4, <2>6, <2>7 DEF PassedInv
<1>10. CASE JudgeTrajectory
  <2>1. UNCHANGED <<auStage, auSentinel, auLocal>> /\ auPc = "judge" /\ auPc' = "sentinel" /\ ~auLocal.passed
    BY <1>10 DEF JudgeTrajectory, AuBooks, AuGoto, WriterInv
  <2> QED  BY <2>1 DEF PassedInv
<1>11. CASE AuCut
  <2>1. /\ UNCHANGED <<auStage, auGhost, auFile, auCheck, auReport, auAccepted>> /\ auPc' = "idle"
        /\ auSentinel' \in {auSentinel, Unwrite({auStage})}
    BY <1>11 DEF AuCut, AuTrail, AuSame, AuGoto
  <2>2. Examined' = Examined
    BY <2>1 DEF Examined, Validated
  <2>3. auSentinel'["auditing"] \in {auSentinel["auditing"], "none"}
    BY <2>1 DEF Unwrite, AuStages
  <2> QED  BY <2>1, <2>2, <2>3 DEF PassedInv
<1>12. CASE AuCrash
  <2>1. Examined' = Examined /\ auPc' \in {"idle", "parked"} /\ auSentinel' = auSentinel
    BY <1>12, CrashGoesBack DEF Examined, Validated
  <2>2. auStage' = "auditing" => auStage = "auditing" \/ auSentinel["auditing"] = "none"
    BY <1>12, CrashGoesBack
  <2> QED  BY <2>1, <2>2 DEF PassedInv
<1>13. CASE AuRerun
  BY <1>13, RerunTakesBack DEF PassedInv
<1>14. CASE AuRetry
  <2>1. auSentinel'["auditing"] = "none" /\ auPc' = "idle"
    BY <1>14 DEF AuRetry, Unwrite, AuStages, AuGoto
  <2> QED  BY <2>1 DEF PassedInv
<1>15. CASE PredecessorMoves
  BY <1>15 DEF PredecessorMoves, PassedInv, Examined, Validated
<1> QED
  BY <1>1, <1>2, <1>3, <1>4, <1>5, <1>6, <1>7, <1>8, <1>9, <1>10, <1>11, <1>12, <1>13, <1>14, <1>15 DEF AuNext, AuStep

LEMMA ShippedKept ==
    ASSUME LoopTyped, WorkerInv, PassedInv, ShippedAudited, AuNext PROVE ShippedAudited'
<1> SUFFICES ASSUME auStage' = "ready" PROVE Examined'
  BY DEF ShippedAudited, Examined, Validated
<1>1. CASE AuCommit
  <2>1. /\ auPc = "commit" /\ auLocal.next = "ready" /\ auLocal.next = AuAfter
        /\ UNCHANGED <<auGhost, auFile, auCheck, auReport, auAccepted>>
    BY <1>1 DEF AuCommit, WorkerInv, AuTexted, AuTrail
  <2>2. auStage \in AuStages
    BY <2>1 DEF WorkerInv, LoopTyped, AuTypeOK
  <2>3. auStage = "auditing" /\ auLocal.passed
    BY <2>1, <2>2 DEF AuAfter, AuOnward, AuStages
  <2>4. Examined
    BY <2>1, <2>3 DEF PassedInv
  <2> QED  BY <2>1, <2>4 DEF Examined, Validated
<1>2. CASE AuCrash
  BY <1>2, CrashGoesBack DEF AuStages
<1>3. CASE AuRerun
  BY <1>3, AuAssumption DEF AuRerun, AuAssumption
<1>4. CASE PredecessorMoves
  BY <1>4 DEF PredecessorMoves, ShippedAudited, Examined, Validated
<1>5. ASSUME auStage' = auStage, auPc # "idle" PROVE FALSE
  BY <1>5 DEF WorkerInv
<1> QED
  BY <1>1, <1>2, <1>3, <1>4, <1>5
  DEF AuNext, AuStep, AuDispatch, AuWriteSentinel, AuRecord, AuAdvance, AuInputs, Author, HarvestSidecar,
      Canonicalize, Measure, AuditBegins, FullAudit, VerifyAccepted, AppendRound, JudgeTrajectory, AuCut, AuRetry,
      AuBooks, Audits, AuFile

-----------------------------------------------------------------------------
(* The loop's theorems.                                                    *)

LEMMA AuInitInv == AuInit => AuInv
<1> SUFFICES ASSUME AuInit PROVE AuInv
  OBVIOUS
<1>1. LoopTyped
  <2>1. auLocal \in AuLocals
    BY LocalUpdates DEF AuInit
  <2>2. auRounds \in Seq([blocker : Nat, fix : Nat])
    BY EmptySeq DEF AuInit
  <2>3. auLeft \in [cuts : Nat, crashes : Nat, reruns : Nat, moves : Nat]
    BY AuAssumption DEF AuInit, AuAssumption
  <2>4. auLocal.next = "none"
    BY DEF AuInit, AuIdle
  <2> QED
    BY <2>1, <2>2, <2>3, <2>4 DEF AuInit, LoopTyped, AuTypeOK, NoFile, NoReport, AuStages, AuFile
<1>2. WorkerInv /\ ValidatedInv /\ WriterInv /\ PassedInv /\ ShippedAudited
  BY DEF AuInit, WorkerInv, ValidatedInv, WriterInv, PassedInv, ShippedAudited, AuFile, AuStages
<1> QED  BY <1>1, <1>2 DEF AuInv

LEMMA AuNextInv ==
    ASSUME AuInv, [AuNext]_auVars, "auditing" \notin AuReruns PROVE AuInv'
<1>1. CASE AuNext
  BY <1>1, LoopTypedKept, WorkerKept, ValidatedKept, WriterKept, PassedKept, ShippedKept DEF AuInv
<1>2. CASE UNCHANGED auVars
  BY <1>2
  DEF auVars, AuInv, LoopTyped, AuTypeOK, WorkerInv, ValidatedInv, WriterInv, PassedInv, ShippedAudited, Examined,
      Validated, AuAfter
<1> QED  BY <1>1, <1>2

(* What ships was validated and audited as it is, for any texts, reports,  *)
(* attempts and any number of interruptions, crashes and reruns, but a     *)
(* supervisor's rerun of auditing, which may reach sidecars nobody         *)
(* validated (validate_stage.go:31, audit_stage.go:115, 148).              *)
THEOREM ShipsOnlyAudited ==
    ASSUME "auditing" \notin AuReruns PROVE AuSpec => []ShippedAudited
<1>1. AuInit => AuInv
  BY AuInitInv
<1>2. AuInv /\ [AuNext]_auVars => AuInv'
  BY AuNextInv
<1>3. AuInv => ShippedAudited
  BY DEF AuInv
<1> QED  BY <1>1, <1>2, <1>3, PTL DEF AuSpec

-----------------------------------------------------------------------------
(* The folder scans' inductive invariant.                                  *)

Ident  == [tags : {"", "streamed", "final", "cached"}, match : BOOLEAN]
Cover  == [ident : Ident, verdict : {"none", "down", "manual", "own"}, newer : BOOLEAN]
JobSet == [status : {"walking", "corroborated", "coverage", "done", "error"},
           rows : [ScanFolders -> Rows], books : SUBSET ScanFolders, saved : BOOLEAN,
           crossed : SUBSET ScanFolders, hidden : [ScanFolders -> BOOLEAN],
           ident : [ScanFolders -> Ident], asked : [ScanFolders -> Ident],
           cover : [ScanFolders -> Cover], workers : SUBSET (ScanFolders \X Ident)]
CallSet == [pc : {"wrote", "applied"}, folder : ScanFolders, row : Rows]
Patch   == [set : BOOLEAN, hidden : BOOLEAN, match : BOOLEAN]

ScanTyped ==
    /\ sRow \in [ScanFolders -> Rows]
    /\ sCall = NoCall \/ sCall \in CallSet
    /\ sJobs \in Seq(JobSet)
    /\ sPatch \in [ScanFolders -> Patch]
    /\ sTorn \subseteq ScanFolders

Wrote(f)  == sCall.pc = "wrote" /\ sCall.folder = f
Called(f) == sCall.pc \in {"wrote", "applied"} /\ sCall.folder = f

(* A book a scan lists is resolved, or a worker for the identity it has    *)
(* now is under way; a finished scan lists all and has no workers.         *)
ResolvedSoon(job) ==
    /\ job.status \in {"walking", "corroborated", "coverage"} =>
          \A f \in job.books : /\ job.asked[f] = job.ident[f]
                               /\ <<f, job.ident[f]>> \in job.workers \/ Resolved(job, f)
    /\ job.status = "walking" => \A f \in ScanFolders \ job.books : job.asked[f].tags = ""
    /\ job.status \in {"corroborated", "coverage", "done"} => job.books = ScanFolders
    /\ job.status = "done" => job.workers = {} /\ \A f \in ScanFolders : Resolved(job, f)
    /\ \A f \in ScanFolders : job.cover[f].verdict = "own" => ~job.cover[f].ident.match

(* A folder without a patch has had no call in this process: what a scan   *)
(* has read of it is what the row says.                                    *)
ReadAsStored(job, f) ==
    ~sPatch[f].set /\ ~Wrote(f) =>
        /\ job.status \in {"walking", "corroborated"} => job.rows[f] = sRow[f]
        /\ f \in job.books => job.hidden[f] = sRow[f].hidden

(* A scan that was not crossed has the match it read, unless it had ended: *)
(* then the patch is newer than its verdict.                               *)
MatchSeen(job, f) ==
    /\ job.status = "corroborated" /\ f \notin job.crossed => job.rows[f] = sRow[f]
    /\ job.status = "coverage" /\ f \notin job.crossed => job.ident[f].match = sRow[f].match
    /\ job.status = "done" /\ f \notin job.crossed \cup sTorn /\ ~Wrote(f) /\ sRow[f].match =>
          \/ job.ident[f].match
          \/ sPatch[f].match /\ ~job.cover[f].newer
          \/ job.cover[f].verdict # "own"

JobsInv == \A j \in Job : /\ ResolvedSoon(sJobs[j])
                          /\ \A f \in ScanFolders : ReadAsStored(sJobs[j], f) /\ MatchSeen(sJobs[j], f)

PatchInv ==
    /\ sCall # NoCall => sCall.row = sRow[sCall.folder]
    /\ \A f \in ScanFolders \ sTorn : sPatch[f].set /\ ~Wrote(f) => sPatch[f].hidden = sRow[f].hidden
    /\ \A f \in ScanFolders : sPatch[f].match => sPatch[f].set

(* The saved scan says what the rows say, but for the call under way.      *)
CacheInv ==
    /\ sCache.books # {} => Finished # {}
    /\ sCache.books # {} =>
          \A f \in ScanFolders :
              /\ sCache.verdict[f] \in {"down", "manual", "own"} /\ sCache.hidden[f] \in BOOLEAN
              /\ f \notin sTorn /\ ~Called(f) =>
                    /\ sCache.hidden[f] = sRow[f].hidden
                    /\ sRow[f].match /\ f \notin sCache.crossed => sCache.verdict[f] # "own"
    /\ sCache.books \in {{}, ScanFolders} /\ sCache.crossed \subseteq ScanFolders

ScanInv == ScanTyped /\ JobsInv /\ PatchInv /\ CacheInv

-----------------------------------------------------------------------------
(* Jobs and folders.                                                       *)

LEMMA MappedJobs ==
    ASSUME NEW S, NEW s \in Seq(S), NEW t \in [1..Len(s) -> S]
    PROVE  t \in Seq(S) /\ Len(t) = Len(s) /\ Len(s) \in Nat /\ DOMAIN s = 1..Len(s)
<1>1. Len(s) \in Nat /\ DOMAIN s = 1..Len(s)
  BY LenProperties
<1>2. t \in Seq(S)
  BY <1>1, SeqDef
<1>3. DOMAIN t = 1..Len(t) /\ Len(t) \in Nat /\ DOMAIN t = 1..Len(s)
  BY <1>2, LenProperties
<1> QED  BY <1>1, <1>2, <1>3

LEMMA NewestIsOne ==
    ASSUME NEW k \in Nat, NEW S, S \subseteq 1..k, S # {}
    PROVE  Max(S) \in S
<1> DEFINE T == {k - n : n \in S}
           R == {ss \in Nat \X Nat : ss[1] < ss[2]}
<1>1. T \subseteq Nat /\ T # {}
  <2>1. \A n \in S : n \in Nat /\ k - n \in Nat
    OBVIOUS
  <2> QED  BY <2>1
<1>2. PICK x \in T : \A y \in T : ~(<<y, x>> \in R)
  <2>1. IsWellFoundedOn(R, Nat)
    BY NatLessThanWellFounded DEF OpToRel
  <2> QED  BY <1>1, <2>1, WFMin
<1>3. PICK n \in S : x = k - n
  OBVIOUS
<1>4. \A m \in S : n >= m
  <2> SUFFICES ASSUME NEW m \in S, m > n PROVE FALSE
    OBVIOUS
  <2>1. k - m \in T /\ k - m \in Nat /\ k - n \in Nat /\ k - m < k - n
    OBVIOUS
  <2>2. <<k - m, k - n>> \in R
    BY <2>1
  <2> QED  BY <1>2, <1>3, <2>1, <2>2
<1>5. Max(S) = CHOOSE a \in S : \A b \in S : a >= b
  BY DEF Max
<1> QED  BY <1>3, <1>4, <1>5

LEMMA JobsTyped ==
    ASSUME ScanTyped
    PROVE  Len(sJobs) \in Nat /\ sJobs \in [Job -> JobSet] /\ \A j \in Job : sJobs[j] \in JobSet
<1>1. Len(sJobs) \in Nat /\ DOMAIN sJobs = 1..Len(sJobs) /\ sJobs \in Seq(JobSet)
  BY LenProperties DEF ScanTyped
<1>2. \A j \in 1..Len(sJobs) : sJobs[j] \in JobSet
  BY <1>1, ElementOfSeq
<1>3. sJobs \in [1..Len(sJobs) -> JobSet]
  BY <1>1, LenProperties
<1> QED  BY <1>1, <1>2, <1>3 DEF Job

(* What a dispatch of workers changes in a job.                            *)
LEMMA DispatchedJob ==
    ASSUME NEW job \in JobSet, NEW fs \in SUBSET ScanFolders
    PROVE  LET new == Dispatched(job, fs)
           IN  /\ new \in JobSet
               /\ new.status = job.status /\ new.rows = job.rows /\ new.books = job.books /\ new.saved = job.saved
               /\ new.crossed = job.crossed /\ new.hidden = job.hidden /\ new.ident = job.ident /\ new.cover = job.cover
               /\ \A f \in ScanFolders : new.asked[f] = IF f \in fs THEN job.ident[f] ELSE job.asked[f]
               /\ \A f \in ScanFolders : \A i \in Ident :
                     <<f, i>> \in new.workers <=>
                         <<f, i>> \in job.workers \/ (f \in fs /\ i = job.ident[f] /\ job.asked[f] # job.ident[f])
<1> DEFINE n == {f \in fs : job.asked[f] # job.ident[f]}
           a == [f \in ScanFolders |-> IF f \in n THEN job.ident[f] ELSE job.asked[f]]
           w == job.workers \cup {<<f, job.ident[f]>> : f \in n}
           new == Dispatched(job, fs)
<1>1. new = [job EXCEPT !.asked = a, !.workers = w]
  BY DEF Dispatched, JobSet
<1>2. a \in [ScanFolders -> Ident] /\ w \in SUBSET (ScanFolders \X Ident)
  BY DEF JobSet
<1>3. \A f \in ScanFolders : a[f] = IF f \in fs THEN job.ident[f] ELSE job.asked[f]
  OBVIOUS
<1>4. \A f \in ScanFolders : \A i \in Ident :
         <<f, i>> \in w <=>
             <<f, i>> \in job.workers \/ (f \in fs /\ i = job.ident[f] /\ job.asked[f] # job.ident[f])
  OBVIOUS
<1> HIDE DEF n, a, w, new
<1>5. /\ new \in JobSet /\ new.asked = a /\ new.workers = w
      /\ new.status = job.status /\ new.rows = job.rows /\ new.books = job.books /\ new.saved = job.saved
      /\ new.crossed = job.crossed /\ new.hidden = job.hidden /\ new.ident = job.ident /\ new.cover = job.cover
  BY <1>1, <1>2 DEF JobSet
<1> QED  BY <1>3, <1>4, <1>5 DEF new

(* A step of one job changes what it says of that one.                     *)
LEMMA OneJob ==
    ASSUME ScanTyped, JobsInv, UNCHANGED <<sRow, sCall, sPatch, sTorn>>,
           NEW j \in Job, NEW job \in JobSet, Change(j, job),
           ResolvedSoon(job), \A f \in ScanFolders : ReadAsStored(job, f) /\ MatchSeen(job, f)
    PROVE  ScanTyped' /\ JobsInv' /\ Job' = Job /\ sJobs'[j] = job /\ \A i \in Job : i # j => sJobs'[i] = sJobs[i]
<1>1. sJobs \in [Job -> JobSet] /\ sJobs \in Seq(JobSet) /\ Job = 1..Len(sJobs)
  BY JobsTyped DEF ScanTyped, Job
<1>2. sJobs' \in [Job -> JobSet] /\ sJobs'[j] = job /\ \A i \in Job : i # j => sJobs'[i] = sJobs[i]
  BY <1>1 DEF Change
<1>3. sJobs' \in Seq(JobSet) /\ Len(sJobs') = Len(sJobs)
  BY <1>1, <1>2, MappedJobs
<1>4. ScanTyped' /\ Job' = Job
  BY <1>3 DEF ScanTyped, Job
<1>5. ASSUME NEW i \in Job, NEW f \in ScanFolders
      PROVE  ReadAsStored(sJobs[i], f)' /\ MatchSeen(sJobs[i], f)'
  BY <1>2 DEF JobsInv, ReadAsStored, MatchSeen, Wrote
<1>6. ASSUME NEW i \in Job PROVE ResolvedSoon(sJobs[i])'
  <2>1. sJobs'[i] = job \/ (sJobs'[i] = sJobs[i] /\ ResolvedSoon(sJobs[i]))
    BY <1>2 DEF JobsInv
  <2> QED  BY <2>1
<1>7. JobsInv'
  BY <1>4, <1>5, <1>6 DEF JobsInv
<1> QED  BY <1>2, <1>4, <1>7

LEMMA OneJobCache ==
    ASSUME CacheInv, UNCHANGED <<sRow, sCall, sTorn, sCache>>, Job' = Job, NEW j \in Job,
           sJobs[j].status = "done" => sJobs'[j].status = "done", \A i \in Job : i # j => sJobs'[i] = sJobs[i]
    PROVE  CacheInv'
<1>1. Finished # {} => Finished' # {}
  BY DEF Finished
<1> QED  BY <1>1 DEF CacheInv, Called

-----------------------------------------------------------------------------
(* The steps of a job.                                                     *)

LEMMA StreamKeeps ==
    ASSUME ScanTyped, JobsInv, PatchInv, CacheInv, NEW j \in Job, NEW f \in ScanFolders, StreamBook(j, f)
    PROVE  ScanTyped' /\ JobsInv' /\ CacheInv'
<1> DEFINE job == sJobs[j]
           h   == [job.hidden EXCEPT ![f] = job.rows[f].hidden]
           id  == [job.ident EXCEPT ![f] = [tags |-> "streamed", match |-> job.rows[f].match]]
           b   == job.books \cup {f}
           mid == [job EXCEPT !.books = b, !.hidden = h, !.ident = id]
           new == Dispatched(mid, {f})
<1>1. job \in JobSet /\ job.status = "walking" /\ f \notin job.books
  BY JobsTyped DEF StreamBook
<1>2. Change(j, new) /\ UNCHANGED <<sRow, sCall, sPatch, sTorn, sCache>>
  BY <1>1 DEF StreamBook, JobSet
<1>3. h \in [ScanFolders -> BOOLEAN] /\ id \in [ScanFolders -> Ident] /\ b \in SUBSET ScanFolders
  <2>1. job.rows[f] \in Rows
    BY <1>1 DEF JobSet
  <2>2. [tags |-> "streamed", match |-> job.rows[f].match] \in Ident /\ job.rows[f].hidden \in BOOLEAN
    BY <2>1 DEF Rows, Ident
  <2> QED  BY <1>1, <2>2 DEF JobSet
<1>4. /\ h[f] = job.rows[f].hidden /\ id[f].tags = "streamed"
      /\ \A g \in ScanFolders : g # f => h[g] = job.hidden[g] /\ id[g] = job.ident[g]
  BY <1>1 DEF JobSet
<1> HIDE DEF h, id, b
<1>5. /\ mid \in JobSet /\ mid.books = b /\ mid.hidden = h /\ mid.ident = id
      /\ mid.status = job.status /\ mid.rows = job.rows /\ mid.asked = job.asked /\ mid.cover = job.cover
      /\ mid.workers = job.workers
  BY <1>1, <1>3 DEF JobSet
<1> HIDE DEF mid
<1>6. /\ new \in JobSet /\ new.status = "walking" /\ new.rows = job.rows /\ new.books = b
      /\ new.hidden = h /\ new.ident = id /\ new.cover = job.cover
      /\ \A g \in ScanFolders : new.asked[g] = IF g = f THEN id[g] ELSE job.asked[g]
      /\ \A g \in ScanFolders : \A i \in Ident :
            <<g, i>> \in new.workers <=> <<g, i>> \in job.workers \/ (g = f /\ i = id[g] /\ job.asked[g] # id[g])
  BY <1>1, <1>5, DispatchedJob
<1> HIDE DEF new
<1>7. ResolvedSoon(job) /\ \A g \in ScanFolders : ReadAsStored(job, g)
  BY DEF JobsInv
<1>8. ResolvedSoon(new)
  <2>1. ASSUME NEW g \in b
        PROVE  new.asked[g] = new.ident[g] /\ (<<g, new.ident[g]>> \in new.workers \/ Resolved(new, g))
    <3>1. g \in ScanFolders /\ id[g] \in Ident
      BY <1>3, <2>1
    <3>2. CASE g = f
      <4>1. job.asked[f].tags = ""
        BY <1>1, <1>7 DEF ResolvedSoon
      <4> QED  BY <1>4, <1>6, <3>1, <3>2, <4>1
    <3>3. CASE g # f
      <4>1. g \in job.books
        BY <2>1, <3>3 DEF b
      <4>2. job.asked[g] = job.ident[g] /\ (<<g, job.ident[g]>> \in job.workers \/ Resolved(job, g))
        BY <1>1, <1>7, <4>1 DEF ResolvedSoon
      <4> QED  BY <1>4, <1>6, <3>1, <3>3, <4>2 DEF Resolved
    <3> QED  BY <3>2, <3>3
  <2>2. \A g \in ScanFolders \ b : new.asked[g].tags = ""
    BY <1>1, <1>6, <1>7 DEF ResolvedSoon, b
  <2>3. \A g \in ScanFolders : new.cover[g].verdict = "own" => ~new.cover[g].ident.match
    BY <1>6, <1>7 DEF ResolvedSoon
  <2> QED  BY <1>6, <2>1, <2>2, <2>3 DEF ResolvedSoon
<1>9. \A g \in ScanFolders : ReadAsStored(new, g) /\ MatchSeen(new, g)
  BY <1>1, <1>4, <1>6, <1>7 DEF ReadAsStored, MatchSeen, b
<1> QED  BY <1>1, <1>2, <1>6, <1>8, <1>9, OneJob, OneJobCache

LEMMA RereadKeeps ==
    ASSUME ScanTyped, JobsInv, PatchInv, CacheInv, NEW j \in Job, RereadRows(j)
    PROVE  ScanTyped' /\ JobsInv' /\ CacheInv'
<1> DEFINE job == sJobs[j]
           new == [job EXCEPT !.status = "corroborated", !.rows = sRow]
<1>1. job \in JobSet /\ job.status = "walking" /\ job.books = ScanFolders
  BY JobsTyped DEF RereadRows
<1>2. Change(j, new) /\ UNCHANGED <<sRow, sCall, sPatch, sTorn, sCache>>
  BY DEF RereadRows
<1>3. /\ new \in JobSet /\ new.status = "corroborated" /\ new.rows = sRow /\ new.books = job.books
      /\ new.hidden = job.hidden /\ new.ident = job.ident /\ new.cover = job.cover
      /\ new.asked = job.asked /\ new.workers = job.workers
  BY <1>1 DEF JobSet, ScanTyped
<1> HIDE DEF new
<1>4. ResolvedSoon(job) /\ \A g \in ScanFolders : ReadAsStored(job, g)
  BY DEF JobsInv
<1>5. ResolvedSoon(new)
  <2>1. \A g \in ScanFolders : Resolved(new, g) <=> Resolved(job, g)
    BY <1>3 DEF Resolved
  <2>2. \A g \in ScanFolders : /\ new.asked[g] = new.ident[g]
                               /\ <<g, new.ident[g]>> \in new.workers \/ Resolved(new, g)
    BY <1>1, <1>3, <1>4, <2>1 DEF ResolvedSoon
  <2>3. \A g \in ScanFolders : new.cover[g].verdict = "own" => ~new.cover[g].ident.match
    BY <1>3, <1>4 DEF ResolvedSoon
  <2> QED  BY <1>1, <1>3, <2>2, <2>3 DEF ResolvedSoon
<1>6. \A g \in ScanFolders : ReadAsStored(new, g) /\ MatchSeen(new, g)
  BY <1>1, <1>3, <1>4 DEF ReadAsStored, MatchSeen
<1> QED  BY <1>1, <1>2, <1>3, <1>5, <1>6, OneJob, OneJobCache

LEMMA FinalKeeps ==
    ASSUME ScanTyped, JobsInv, PatchInv, CacheInv, NEW j \in Job, ApplyFinal(j)
    PROVE  ScanTyped' /\ JobsInv' /\ CacheInv'
<1> DEFINE job == sJobs[j]
<1>1. job \in JobSet /\ job.status = "corroborated"
  BY JobsTyped DEF ApplyFinal
<1>2. PICK changed \in SUBSET ScanFolders :
         Change(j, Dispatched(
           [job EXCEPT !.status = "coverage", !.rows = [f \in ScanFolders |-> NoOverride],
                       !.hidden = [f \in ScanFolders |-> job.rows[f].hidden],
                       !.ident = [f \in ScanFolders |->
                                    [tags |-> IF f \in changed THEN "final" ELSE "streamed",
                                     match |-> job.rows[f].match]]], ScanFolders))
  BY DEF ApplyFinal
<1> DEFINE h   == [f \in ScanFolders |-> job.rows[f].hidden]
           r   == [f \in ScanFolders |-> NoOverride]
           id  == [f \in ScanFolders |-> [tags |-> IF f \in changed THEN "final" ELSE "streamed",
                                          match |-> job.rows[f].match]]
           mid == [job EXCEPT !.status = "coverage", !.rows = r, !.hidden = h, !.ident = id]
           new == Dispatched(mid, ScanFolders)
<1>3. Change(j, new) /\ UNCHANGED <<sRow, sCall, sPatch, sTorn, sCache>>
  BY <1>2 DEF ApplyFinal
<1>4. h \in [ScanFolders -> BOOLEAN] /\ id \in [ScanFolders -> Ident] /\ r \in [ScanFolders -> Rows]
  <2>1. \A f \in ScanFolders : job.rows[f] \in Rows
    BY <1>1 DEF JobSet
  <2>2. \A f \in ScanFolders : job.rows[f].hidden \in BOOLEAN /\ job.rows[f].match \in BOOLEAN
    BY <2>1 DEF Rows
  <2>3. NoOverride \in Rows
    BY DEF NoOverride, Rows
  <2>4. \A f \in ScanFolders : [tags |-> IF f \in changed THEN "final" ELSE "streamed",
                                match |-> job.rows[f].match] \in Ident
    BY <2>2 DEF Ident
  <2> QED  BY <2>2, <2>3, <2>4
<1>5. \A f \in ScanFolders : h[f] = job.rows[f].hidden /\ id[f].match = job.rows[f].match
  OBVIOUS
<1> HIDE DEF h, id, r
<1>6. /\ mid \in JobSet /\ mid.status = "coverage" /\ mid.hidden = h /\ mid.ident = id /\ mid.books = job.books
      /\ mid.crossed = job.crossed /\ mid.asked = job.asked /\ mid.cover = job.cover /\ mid.workers = job.workers
  BY <1>1, <1>4 DEF JobSet
<1> HIDE DEF mid
<1>7. /\ new \in JobSet /\ new.status = "coverage" /\ new.books = job.books /\ new.crossed = job.crossed
      /\ new.hidden = h /\ new.ident = id /\ new.cover = job.cover
      /\ \A g \in ScanFolders : new.asked[g] = id[g]
      /\ \A g \in ScanFolders : \A i \in Ident :
            <<g, i>> \in new.workers <=> <<g, i>> \in job.workers \/ (i = id[g] /\ job.asked[g] # id[g])
  BY <1>1, <1>6, DispatchedJob
<1> HIDE DEF new
<1>8. ResolvedSoon(job) /\ \A g \in ScanFolders : ReadAsStored(job, g) /\ MatchSeen(job, g)
  BY DEF JobsInv
<1>9. ResolvedSoon(new)
  <2>1. job.books = ScanFolders
    BY <1>1, <1>8 DEF ResolvedSoon
  <2>2. ASSUME NEW g \in ScanFolders
        PROVE  <<g, new.ident[g]>> \in new.workers \/ Resolved(new, g)
    <3>1. job.asked[g] = job.ident[g] /\ (<<g, job.ident[g]>> \in job.workers \/ Resolved(job, g))
      BY <1>1, <1>8, <2>1 DEF ResolvedSoon
    <3>2. id[g] \in Ident
      BY <1>4
    <3> QED  BY <1>7, <3>1, <3>2 DEF Resolved
  <2>3. \A g \in ScanFolders : new.cover[g].verdict = "own" => ~new.cover[g].ident.match
    BY <1>7, <1>8 DEF ResolvedSoon
  <2> QED  BY <1>7, <2>1, <2>2, <2>3 DEF ResolvedSoon
<1>10. \A g \in ScanFolders : ReadAsStored(new, g) /\ MatchSeen(new, g)
  BY <1>1, <1>5, <1>7, <1>8 DEF ReadAsStored, MatchSeen
<1> QED  BY <1>1, <1>3, <1>7, <1>9, <1>10, OneJob, OneJobCache

LEMMA FailKeeps ==
    ASSUME ScanTyped, JobsInv, PatchInv, CacheInv, NEW j \in Job, ScanFails(j)
    PROVE  ScanTyped' /\ JobsInv' /\ CacheInv'
<1> DEFINE job == sJobs[j]
           r   == [f \in ScanFolders |-> NoOverride]
           a   == [f \in ScanFolders |-> NoIdent]
           new == [job EXCEPT !.status = "error", !.rows = r, !.asked = a]
<1>1. job \in JobSet /\ job.status = "walking"
  BY JobsTyped DEF ScanFails
<1>2. Change(j, new) /\ UNCHANGED <<sRow, sCall, sPatch, sTorn, sCache>>
  BY DEF ScanFails
<1>3. r \in [ScanFolders -> Rows] /\ a \in [ScanFolders -> Ident]
  BY DEF NoOverride, Rows, NoIdent, Ident
<1> HIDE DEF r, a
<1>4. /\ new \in JobSet /\ new.status = "error" /\ new.books = job.books
      /\ new.hidden = job.hidden /\ new.cover = job.cover
  BY <1>1, <1>3 DEF JobSet
<1> HIDE DEF new
<1>5. ResolvedSoon(job) /\ \A g \in ScanFolders : ReadAsStored(job, g)
  BY DEF JobsInv
<1>6. ResolvedSoon(new)
  <2>1. \A g \in ScanFolders : new.cover[g].verdict = "own" => ~new.cover[g].ident.match
    BY <1>4, <1>5 DEF ResolvedSoon
  <2> QED  BY <1>4, <2>1 DEF ResolvedSoon
<1>7. \A g \in ScanFolders : ReadAsStored(new, g) /\ MatchSeen(new, g)
  BY <1>1, <1>4, <1>5 DEF ReadAsStored, MatchSeen
<1> QED  BY <1>1, <1>2, <1>4, <1>6, <1>7, OneJob, OneJobCache

LEMMA ResolveKeeps ==
    ASSUME ScanTyped, JobsInv, PatchInv, CacheInv, NEW j \in Job, NEW w \in sJobs[j].workers, ResolveBook(j, w[1], w[2])
    PROVE  ScanTyped' /\ JobsInv' /\ CacheInv'
<1> DEFINE job  == sJobs[j]
           f    == w[1]
           id   == w[2]
           left == job.workers \ {<<f, id>>}
           done == [job EXCEPT !.workers = left]
<1>1. job \in JobSet /\ f \in ScanFolders /\ id \in Ident /\ w = <<f, id>>
  BY JobsTyped DEF JobSet
<1>2. ResolvedSoon(job) /\ \A g \in ScanFolders : ReadAsStored(job, g) /\ MatchSeen(job, g)
  BY DEF JobsInv
<1>3. job.status # "done"
  BY <1>2 DEF ResolvedSoon
<1>4. UNCHANGED <<sRow, sCall, sPatch, sTorn, sCache>>
  BY DEF ResolveBook
<1>5. /\ done \in JobSet /\ done.status = job.status /\ done.rows = job.rows /\ done.books = job.books
      /\ done.crossed = job.crossed /\ done.hidden = job.hidden /\ done.ident = job.ident /\ done.asked = job.asked
      /\ done.cover = job.cover /\ done.workers = left
  BY <1>1 DEF JobSet
<1>6. \A g \in ScanFolders : \A i \in Ident : <<g, i>> \in left <=> <<g, i>> \in job.workers /\ ~(g = f /\ i = id)
  OBVIOUS
<1> HIDE DEF done, left
<1>7. CASE job.ident[f] # id /\ Change(j, done)
  <2>1. \A g \in ScanFolders : Resolved(done, g) <=> Resolved(job, g)
    BY <1>5 DEF Resolved
  <2>2. ASSUME NEW g \in job.books, job.status \in {"walking", "corroborated", "coverage"}
        PROVE  done.asked[g] = done.ident[g] /\ (<<g, done.ident[g]>> \in done.workers \/ Resolved(done, g))
    <3>1. g \in ScanFolders /\ job.ident[g] \in Ident
      BY <1>1 DEF JobSet
    <3>2. job.asked[g] = job.ident[g] /\ (<<g, job.ident[g]>> \in job.workers \/ Resolved(job, g))
      BY <1>2, <2>2 DEF ResolvedSoon
    <3> QED  BY <1>5, <1>6, <1>7, <2>1, <3>1, <3>2
  <2>3. \A g \in ScanFolders : done.cover[g].verdict = "own" => ~done.cover[g].ident.match
    BY <1>2, <1>5 DEF ResolvedSoon
  <2>4. ResolvedSoon(done)
    BY <1>2, <1>3, <1>5, <2>2, <2>3 DEF ResolvedSoon
  <2>5. \A g \in ScanFolders : ReadAsStored(done, g) /\ MatchSeen(done, g)
    BY <1>2, <1>3, <1>5 DEF ReadAsStored, MatchSeen
  <2> QED  BY <1>3, <1>4, <1>5, <1>7, <2>4, <2>5, OneJob, OneJobCache
<1>8. CASE /\ job.ident[f] = id
           /\ \E verdict \in {"down", IF id.match THEN "manual" ELSE "own"} :
                 Change(j, [done EXCEPT !.cover[f] = [ident |-> id, verdict |-> verdict, newer |-> TRUE]])
  <2>1. PICK verdict \in {"down", IF id.match THEN "manual" ELSE "own"} :
                 Change(j, [done EXCEPT !.cover[f] = [ident |-> id, verdict |-> verdict, newer |-> TRUE]])
    BY <1>8
  <2> DEFINE yes == TRUE
             c   == [ident |-> id, verdict |-> verdict, newer |-> yes]
             cov == [done.cover EXCEPT ![f] = c]
             new == [done EXCEPT !.cover = cov]
  <2>2. Change(j, new)
    BY <1>5, <2>1 DEF JobSet
  <2>3. yes \in BOOLEAN
    OBVIOUS
  <2> HIDE DEF yes
  <2>4. c \in Cover /\ c.ident = id /\ c.verdict # "none" /\ (c.verdict = "own" => ~id.match)
    BY <1>1, <2>1, <2>3 DEF Cover, Ident
  <2> HIDE DEF c
  <2>5. cov \in [ScanFolders -> Cover] /\ cov[f] = c /\ \A g \in ScanFolders : g # f => cov[g] = job.cover[g]
    BY <1>1, <1>5, <2>4 DEF JobSet
  <2> HIDE DEF cov
  <2>6. /\ new \in JobSet /\ new.status = job.status /\ new.rows = job.rows /\ new.books = job.books
        /\ new.crossed = job.crossed /\ new.hidden = job.hidden /\ new.ident = job.ident /\ new.asked = job.asked
        /\ new.cover = cov /\ new.workers = left
    BY <1>5, <2>5 DEF JobSet
  <2> HIDE DEF new
  <2>7. Resolved(new, f) /\ \A g \in ScanFolders : g # f => (Resolved(new, g) <=> Resolved(job, g))
    BY <1>8, <2>4, <2>5, <2>6 DEF Resolved
  <2>8. ASSUME NEW g \in job.books, job.status \in {"walking", "corroborated", "coverage"}
        PROVE  new.asked[g] = new.ident[g] /\ (<<g, new.ident[g]>> \in new.workers \/ Resolved(new, g))
    <3>1. g \in ScanFolders /\ job.ident[g] \in Ident
      BY <1>1 DEF JobSet
    <3>2. job.asked[g] = job.ident[g] /\ (<<g, job.ident[g]>> \in job.workers \/ Resolved(job, g))
      BY <1>2, <2>8 DEF ResolvedSoon
    <3> QED  BY <1>6, <2>6, <2>7, <3>1, <3>2
  <2>9. \A g \in ScanFolders : new.cover[g].verdict = "own" => ~new.cover[g].ident.match
    BY <1>2, <2>4, <2>5, <2>6 DEF ResolvedSoon
  <2>10. ResolvedSoon(new)
    BY <1>2, <1>3, <2>6, <2>8, <2>9 DEF ResolvedSoon
  <2>11. \A g \in ScanFolders : ReadAsStored(new, g) /\ MatchSeen(new, g)
    BY <1>2, <1>3, <2>6 DEF ReadAsStored, MatchSeen
  <2> QED  BY <1>3, <1>4, <2>2, <2>6, <2>10, <2>11, OneJob, OneJobCache
<1> QED  BY <1>7, <1>8 DEF ResolveBook, StillThatBook, done, left

LEMMA FinishKeeps ==
    ASSUME ScanTyped, JobsInv, PatchInv, CacheInv, NEW j \in Job, FinishScan(j)
    PROVE  ScanTyped' /\ JobsInv' /\ CacheInv'
<1> DEFINE job == sJobs[j]
           a   == [f \in ScanFolders |-> NoIdent]
           new == [job EXCEPT !.status = "done", !.asked = a]
<1>1. job \in JobSet /\ job.status = "coverage" /\ job.workers = {}
  BY JobsTyped DEF FinishScan
<1>2. Change(j, new) /\ UNCHANGED <<sRow, sCall, sPatch, sTorn, sCache>>
  BY DEF FinishScan
<1>3. a \in [ScanFolders -> Ident]
  BY DEF NoIdent, Ident
<1> HIDE DEF a
<1>4. /\ new \in JobSet /\ new.status = "done" /\ new.books = job.books /\ new.crossed = job.crossed
      /\ new.hidden = job.hidden /\ new.ident = job.ident /\ new.cover = job.cover /\ new.workers = {}
  BY <1>1, <1>3 DEF JobSet
<1> HIDE DEF new
<1>5. ResolvedSoon(job) /\ \A g \in ScanFolders : ReadAsStored(job, g) /\ MatchSeen(job, g)
  BY DEF JobsInv
<1>6. ResolvedSoon(new)
  <2>1. \A g \in ScanFolders : Resolved(new, g) <=> Resolved(job, g)
    BY <1>4 DEF Resolved
  <2>2. job.books = ScanFolders /\ \A g \in ScanFolders : Resolved(job, g)
    BY <1>1, <1>5 DEF ResolvedSoon
  <2>3. \A g \in ScanFolders : new.cover[g].verdict = "own" => ~new.cover[g].ident.match
    BY <1>4, <1>5 DEF ResolvedSoon
  <2> QED  BY <1>4, <2>1, <2>2, <2>3 DEF ResolvedSoon
<1>7. \A g \in ScanFolders : ReadAsStored(new, g) /\ MatchSeen(new, g)
  BY <1>1, <1>4, <1>5 DEF ReadAsStored, MatchSeen
<1> QED  BY <1>1, <1>2, <1>4, <1>6, <1>7, OneJob, OneJobCache

-----------------------------------------------------------------------------
(* What is shown and saved.                                                *)

LEMMA NewestShown ==
    ASSUME ScanTyped, JobsInv, PatchInv, Finished # {}
    PROVE  LET job == sJobs[Max(Finished)]
           IN  /\ Max(Finished) \in Job /\ job \in JobSet /\ job.books = ScanFolders
               /\ \A f \in ScanFolders :
                     /\ Resolved(job, f)
                     /\ ShownHidden(job, f) \in BOOLEAN
                     /\ ShownVerdict(job, f) \in {"down", "manual", "own"}
                     /\ f \notin sTorn /\ ~Wrote(f) =>
                           /\ ShownHidden(job, f) = sRow[f].hidden
                           /\ sRow[f].match /\ f \notin job.crossed => ShownVerdict(job, f) # "own"
<1> DEFINE m   == Max(Finished)
           job == sJobs[m]
<1>1. m \in Job /\ job.status = "done"
  <2>1. Finished \subseteq 1..Len(sJobs) /\ Len(sJobs) \in Nat
    BY JobsTyped DEF Finished, Job
  <2>2. m \in Finished
    BY <2>1, NewestIsOne
  <2> QED  BY <2>2 DEF Finished
<1>2. job \in JobSet /\ ResolvedSoon(job) /\ \A f \in ScanFolders : ReadAsStored(job, f) /\ MatchSeen(job, f)
  BY <1>1, JobsTyped DEF JobsInv
<1> HIDE DEF m
<1>3. job.books = ScanFolders /\ \A f \in ScanFolders : Resolved(job, f)
  BY <1>1, <1>2 DEF ResolvedSoon
<1>4. ASSUME NEW f \in ScanFolders
      PROVE  /\ ShownHidden(job, f) \in BOOLEAN
             /\ ShownVerdict(job, f) \in {"down", "manual", "own"}
             /\ f \notin sTorn /\ ~Wrote(f) =>
                   /\ ShownHidden(job, f) = sRow[f].hidden
                   /\ sRow[f].match /\ f \notin job.crossed => ShownVerdict(job, f) # "own"
  <2>1. ShownHidden(job, f) \in BOOLEAN
    <3>1. sPatch[f].hidden \in BOOLEAN /\ job.hidden[f] \in BOOLEAN
      BY <1>2 DEF ScanTyped, Patch, JobSet
    <3> QED  BY <3>1 DEF ShownHidden
  <2>2. job.cover[f].verdict \in {"down", "manual", "own"} /\ Resolved(job, f)
    <3>1. job.cover[f] \in Cover
      BY <1>2 DEF JobSet
    <3> QED  BY <1>3, <3>1 DEF Resolved, Cover
  <2>3. ShownVerdict(job, f) = IF sPatch[f].match /\ ~job.cover[f].newer THEN "manual" ELSE job.cover[f].verdict
    BY <2>2 DEF ShownVerdict
  <2>4. ASSUME f \notin sTorn, ~Wrote(f) PROVE ShownHidden(job, f) = sRow[f].hidden
    BY <1>2, <1>3, <2>4 DEF ShownHidden, PatchInv, ReadAsStored
  <2>5. ASSUME f \notin sTorn, ~Wrote(f), sRow[f].match, f \notin job.crossed
        PROVE  ShownVerdict(job, f) # "own"
    <3>1. \/ job.ident[f].match
          \/ sPatch[f].match /\ ~job.cover[f].newer
          \/ job.cover[f].verdict # "own"
      BY <1>1, <1>2, <2>5 DEF MatchSeen
    <3>2. job.cover[f].ident = job.ident[f] /\ (job.cover[f].verdict = "own" => ~job.cover[f].ident.match)
      BY <1>2, <2>2 DEF Resolved, ResolvedSoon
    <3> QED  BY <2>3, <3>1, <3>2
  <2> QED  BY <2>1, <2>2, <2>3, <2>4, <2>5
<1> QED  BY <1>1, <1>2, <1>3, <1>4 DEF m

LEMMA SavedFits ==
    ASSUME ScanTyped, JobsInv, PatchInv, CacheInv
    PROVE  /\ Saved.books # {} => Finished # {}
           /\ Saved.books \in {{}, ScanFolders} /\ Saved.crossed \subseteq ScanFolders
           /\ Saved.books # {} =>
                 \A f \in ScanFolders :
                    /\ Saved.verdict[f] \in {"down", "manual", "own"} /\ Saved.hidden[f] \in BOOLEAN
                    /\ f \notin sTorn /\ ~Wrote(f) =>
                          /\ Saved.hidden[f] = sRow[f].hidden
                          /\ sRow[f].match /\ f \notin Saved.crossed => Saved.verdict[f] # "own"
<1>1. CASE Finished = {}
  BY <1>1 DEF Saved, CacheInv
<1>2. CASE Finished # {}
  <2> DEFINE job == sJobs[Max(Finished)]
  <2>1. /\ Saved.books = job.books /\ Saved.crossed = job.crossed
        /\ Saved.hidden = [f \in job.books |-> ShownHidden(job, f)]
        /\ Saved.verdict = [f \in job.books |-> ShownVerdict(job, f)]
    BY <1>2 DEF Saved
  <2>2. job \in JobSet /\ job.books = ScanFolders /\ job.crossed \subseteq ScanFolders
    BY <1>2, NewestShown DEF JobSet
  <2>3. \A f \in ScanFolders : Saved.hidden[f] = ShownHidden(job, f) /\ Saved.verdict[f] = ShownVerdict(job, f)
    BY <2>1, <2>2
  <2>4. \A f \in ScanFolders :
           /\ ShownHidden(job, f) \in BOOLEAN
           /\ ShownVerdict(job, f) \in {"down", "manual", "own"}
           /\ f \notin sTorn /\ ~Wrote(f) =>
                 /\ ShownHidden(job, f) = sRow[f].hidden
                 /\ sRow[f].match /\ f \notin job.crossed => ShownVerdict(job, f) # "own"
    BY <1>2, NewestShown
  <2> HIDE DEF job
  <2> QED  BY <1>2, <2>1, <2>2, <2>3, <2>4
<1> QED  BY <1>1, <1>2

LEMMA SaveKeeps ==
    ASSUME ScanTyped, JobsInv, PatchInv, CacheInv, NEW j \in Job, SaveFinished(j)
    PROVE  ScanTyped' /\ JobsInv' /\ CacheInv'
<1> DEFINE job == sJobs[j]
           yes == TRUE
           new == [job EXCEPT !.saved = yes]
<1>1. job \in JobSet /\ job.status = "done" /\ yes \in BOOLEAN
  BY JobsTyped DEF SaveFinished
<1>2. Change(j, new) /\ sCache' = Saved /\ UNCHANGED <<sRow, sCall, sPatch, sTorn>>
  BY DEF SaveFinished
<1> HIDE DEF yes
<1>3. /\ new \in JobSet /\ new.status = "done" /\ new.books = job.books /\ new.crossed = job.crossed
      /\ new.hidden = job.hidden /\ new.ident = job.ident /\ new.cover = job.cover /\ new.workers = job.workers
  BY <1>1 DEF JobSet
<1> HIDE DEF new
<1>4. ResolvedSoon(job) /\ \A g \in ScanFolders : ReadAsStored(job, g) /\ MatchSeen(job, g)
  BY DEF JobsInv
<1>5. ResolvedSoon(new)
  <2>1. \A g \in ScanFolders : Resolved(new, g) <=> Resolved(job, g)
    BY <1>3 DEF Resolved
  <2>2. \A g \in ScanFolders : new.cover[g].verdict = "own" => ~new.cover[g].ident.match
    BY <1>3, <1>4 DEF ResolvedSoon
  <2> QED  BY <1>1, <1>3, <1>4, <2>1, <2>2 DEF ResolvedSoon
<1>6. \A g \in ScanFolders : ReadAsStored(new, g) /\ MatchSeen(new, g)
  BY <1>1, <1>3, <1>4 DEF ReadAsStored, MatchSeen
<1>7. ScanTyped' /\ JobsInv' /\ Job' = Job /\ sJobs'[j] = new
  BY <1>2, <1>3, <1>5, <1>6, OneJob
<1>8. Finished' # {}
  BY <1>3, <1>7 DEF Finished
<1>9. CacheInv'
  BY <1>2, <1>8, SavedFits DEF CacheInv, Called, Wrote
<1> QED  BY <1>7, <1>9

-----------------------------------------------------------------------------
(* The steps of a call.                                                    *)

LEMMA AllJobs ==
    ASSUME ScanTyped, sJobs' \in [Job -> JobSet]
    PROVE  sJobs' \in Seq(JobSet) /\ Job' = Job
<1>1. Job = 1..Len(sJobs)
  BY DEF Job
<1>2. sJobs' \in Seq(JobSet) /\ Len(sJobs') = Len(sJobs)
  BY <1>1, MappedJobs DEF ScanTyped
<1> QED  BY <1>2 DEF Job

LEMMA WriteRowKeeps ==
    ASSUME ScanTyped, JobsInv, PatchInv, CacheInv, NEW f \in ScanFolders, NEW row \in Rows, WriteRow(f, row)
    PROVE  ScanTyped' /\ JobsInv' /\ PatchInv' /\ CacheInv'
<1> DEFINE X(job) == IF Resolving(job) THEN job.crossed \cup {f} ELSE job.crossed \ {f}
           N(job) == [job EXCEPT !.crossed = X(job)]
<1>1. /\ sCall = NoCall /\ sRow' = [sRow EXCEPT ![f] = row] /\ sCall' = [pc |-> "wrote", folder |-> f, row |-> row]
      /\ sJobs' = [j \in Job |-> N(sJobs[j])] /\ UNCHANGED <<sPatch, sCache, sTorn>>
  BY DEF WriteRow
<1>2. \A job \in JobSet :
         /\ N(job) \in JobSet /\ N(job).status = job.status /\ N(job).rows = job.rows /\ N(job).books = job.books
         /\ N(job).hidden = job.hidden /\ N(job).ident = job.ident /\ N(job).asked = job.asked
         /\ N(job).cover = job.cover /\ N(job).workers = job.workers /\ N(job).crossed = X(job)
  <2> SUFFICES ASSUME NEW job \in JobSet
               PROVE  /\ N(job) \in JobSet /\ N(job).status = job.status /\ N(job).rows = job.rows
                      /\ N(job).books = job.books /\ N(job).hidden = job.hidden /\ N(job).ident = job.ident
                      /\ N(job).asked = job.asked /\ N(job).cover = job.cover /\ N(job).workers = job.workers
                      /\ N(job).crossed = X(job)
    OBVIOUS
  <2> DEFINE x == X(job)
  <2>1. x \in SUBSET ScanFolders
    BY DEF JobSet
  <2> HIDE DEF x, X
  <2>2. N(job) = [job EXCEPT !.crossed = x]
    BY DEF x
  <2> QED  BY <2>1, <2>2 DEF JobSet, x
<1> HIDE DEF N
<1>3. \A j \in Job : sJobs[j] \in JobSet /\ sJobs'[j] = N(sJobs[j])
  BY <1>1, JobsTyped
<1>4. sJobs' \in Seq(JobSet) /\ Job' = Job
  BY <1>1, <1>2, <1>3, AllJobs
<1>5. ScanTyped'
  BY <1>1, <1>4 DEF ScanTyped, CallSet
<1>6. sRow'[f] = row /\ \A g \in ScanFolders : g # f => sRow'[g] = sRow[g]
  BY <1>1 DEF ScanTyped
<1>7. Wrote(f)' /\ Called(f)' /\ \A g \in ScanFolders : ~Wrote(g) /\ (g # f => ~Wrote(g)' /\ ~Called(g)' /\ ~Called(g))
  BY <1>1 DEF Wrote, Called, NoCall
<1>8. ASSUME NEW j \in Job PROVE ResolvedSoon(sJobs'[j])
  <2> DEFINE job == sJobs[j]
             new == sJobs'[j]
  <2>1. /\ new.status = job.status /\ new.books = job.books /\ new.ident = job.ident /\ new.asked = job.asked
        /\ new.cover = job.cover /\ new.workers = job.workers /\ ResolvedSoon(job)
    BY <1>2, <1>3 DEF JobsInv
  <2> HIDE DEF job, new
  <2> QED  BY <2>1 DEF ResolvedSoon, Resolved, new
<1>9. ASSUME NEW j \in Job, NEW g \in ScanFolders PROVE ReadAsStored(sJobs[j], g)' /\ MatchSeen(sJobs[j], g)'
  <2> DEFINE job == sJobs[j]
             new == sJobs'[j]
  <2>1. /\ new.status = job.status /\ new.books = job.books /\ new.ident = job.ident /\ new.rows = job.rows
        /\ new.cover = job.cover /\ new.hidden = job.hidden /\ new.crossed = X(job)
        /\ ReadAsStored(job, g) /\ MatchSeen(job, g)
    BY <1>2, <1>3 DEF JobsInv
  <2>2. new.status \in {"corroborated", "coverage"} => f \in new.crossed
    BY <2>1 DEF Resolving
  <2>3. g # f => (g \in new.crossed <=> g \in job.crossed)
    BY <2>1
  <2> HIDE DEF job, new, X
  <2>4. CASE g = f
    BY <1>7, <2>2, <2>4 DEF ReadAsStored, MatchSeen, new
  <2>5. CASE g # f
    BY <1>1, <1>6, <1>7, <2>1, <2>3, <2>5 DEF ReadAsStored, MatchSeen, new
  <2> QED  BY <2>4, <2>5
<1>10. JobsInv'
  BY <1>4, <1>8, <1>9 DEF JobsInv
<1>11. PatchInv'
  <2>1. sCall'.row = row /\ sCall'.folder = f
    BY <1>1
  <2> QED  BY <1>1, <1>6, <1>7, <2>1 DEF PatchInv
<1>12. CacheInv'
  <2>1. \A j \in Job : sJobs'[j].status = sJobs[j].status
    BY <1>2, <1>3
  <2>2. Finished # {} => Finished' # {}
    BY <1>4, <2>1 DEF Finished
  <2>3. \A g \in ScanFolders : ~Called(g)' => ~Called(g) /\ sRow'[g] = sRow[g]
    BY <1>6, <1>7
  <2> QED  BY <1>1, <2>2, <2>3 DEF CacheInv
<1> QED  BY <1>5, <1>10, <1>11, <1>12

LEMMA ApplyOverrideKeeps ==
    ASSUME ScanTyped, JobsInv, PatchInv, CacheInv, ApplyOverride
    PROVE  ScanTyped' /\ JobsInv' /\ PatchInv' /\ CacheInv'
<1> DEFINE f == sCall.folder
           no == FALSE
           yes == TRUE
           c(job) == [job.cover[f] EXCEPT !.newer = no]
           C(job) == [job.cover EXCEPT ![f] = c(job)]
           N(job) == [job EXCEPT !.cover = C(job)]
           p == [set |-> yes, hidden |-> sCall.row.hidden, match |-> sCall.row.match]
<1>1. sCall.pc = "wrote" /\ sCall \in CallSet /\ f \in ScanFolders /\ sCall.row = sRow[f] /\ sRow[f] \in Rows
  BY DEF ApplyOverride, NoCall, ScanTyped, CallSet, PatchInv
<1>2. /\ sCall' = [sCall EXCEPT !.pc = "applied"] /\ sPatch' = [sPatch EXCEPT ![f] = p] /\ sTorn' = sTorn \ {f}
      /\ UNCHANGED <<sRow, sCache>>
  BY DEF ApplyOverride
<1>3. sJobs' = [j \in Job |-> N(sJobs[j])]
  <2>1. \A j \in Job : [sJobs[j] EXCEPT !.cover[sCall.folder].newer = FALSE] = N(sJobs[j])
    BY <1>1, JobsTyped DEF JobSet
  <2>2. sJobs' = [j \in Job |-> [sJobs[j] EXCEPT !.cover[sCall.folder].newer = FALSE]]
    BY DEF ApplyOverride
  <2> HIDE DEF N
  <2> QED  BY <2>1, <2>2
<1>4. no \in BOOLEAN /\ yes \in BOOLEAN /\ ~no /\ yes
  OBVIOUS
<1> HIDE DEF no, yes
<1>5. \A job \in JobSet :
         /\ c(job) \in Cover /\ ~c(job).newer
         /\ c(job).ident = job.cover[f].ident /\ c(job).verdict = job.cover[f].verdict
  <2> SUFFICES ASSUME NEW job \in JobSet
               PROVE  /\ c(job) \in Cover /\ ~c(job).newer
                      /\ c(job).ident = job.cover[f].ident /\ c(job).verdict = job.cover[f].verdict
    OBVIOUS
  <2>1. job.cover[f] \in Cover
    BY <1>1 DEF JobSet
  <2>2. c(job) \in Cover /\ c(job).newer = no
        /\ c(job).ident = job.cover[f].ident /\ c(job).verdict = job.cover[f].verdict
    BY <1>4, <2>1 DEF Cover
  <2> QED  BY <1>4, <2>2
<1> HIDE DEF c
<1>6. \A job \in JobSet :
         /\ C(job) \in [ScanFolders -> Cover] /\ C(job)[f] = c(job)
         /\ \A g \in ScanFolders : g # f => C(job)[g] = job.cover[g]
  BY <1>1, <1>5 DEF JobSet
<1> HIDE DEF C
<1>7. \A job \in JobSet :
         /\ N(job) \in JobSet /\ N(job).status = job.status /\ N(job).rows = job.rows /\ N(job).books = job.books
         /\ N(job).hidden = job.hidden /\ N(job).ident = job.ident /\ N(job).asked = job.asked
         /\ N(job).cover = C(job) /\ N(job).workers = job.workers /\ N(job).crossed = job.crossed
  BY <1>6 DEF JobSet
<1> HIDE DEF N
<1>8. \A j \in Job : sJobs[j] \in JobSet /\ sJobs'[j] = N(sJobs[j])
  BY <1>3, JobsTyped
<1>9. sJobs' \in Seq(JobSet) /\ Job' = Job
  BY <1>3, <1>7, <1>8, AllJobs
<1>10. p \in Patch /\ p.set /\ p.hidden = sRow[f].hidden /\ p.match = sRow[f].match
  <2>1. sCall.row.hidden \in BOOLEAN /\ sCall.row.match \in BOOLEAN
    BY <1>1 DEF Rows
  <2> QED  BY <1>1, <1>4, <2>1 DEF Patch
<1> HIDE DEF p
<1>11. /\ sPatch' \in [ScanFolders -> Patch] /\ sPatch'[f] = p
       /\ \A g \in ScanFolders : g # f => sPatch'[g] = sPatch[g]
  BY <1>1, <1>2, <1>10 DEF ScanTyped
<1>12. sCall' \in CallSet /\ sCall'.pc = "applied" /\ sCall'.folder = f /\ sCall'.row = sRow[f]
  BY <1>1, <1>2 DEF CallSet
<1>13. ScanTyped'
  BY <1>2, <1>9, <1>11, <1>12 DEF ScanTyped
<1>14. \A g \in ScanFolders : ~Wrote(g)' /\ (g = f => Called(g)') /\ (g # f => ~Wrote(g) /\ ~Called(g) /\ ~Called(g)')
  BY <1>1, <1>12 DEF Wrote, Called
<1> HIDE DEF f
<1>15. ASSUME NEW j \in Job PROVE ResolvedSoon(sJobs'[j])
  <2> DEFINE job == sJobs[j]
             new == sJobs'[j]
  <2>1. /\ new.status = job.status /\ new.books = job.books /\ new.ident = job.ident /\ new.asked = job.asked
        /\ new.workers = job.workers /\ ResolvedSoon(job) /\ job \in JobSet /\ new.cover = C(job)
    BY <1>7, <1>8 DEF JobsInv
  <2>2. \A g \in ScanFolders : /\ new.cover[g].ident = job.cover[g].ident
                               /\ new.cover[g].verdict = job.cover[g].verdict
    BY <1>5, <1>6, <2>1
  <2>3. \A g \in ScanFolders : Resolved(new, g) <=> Resolved(job, g)
    BY <2>1, <2>2 DEF Resolved
  <2>4. job.books \subseteq ScanFolders
    BY <2>1 DEF JobSet
  <2> HIDE DEF job, new
  <2>5. ResolvedSoon(new)
    BY <2>1, <2>2, <2>3, <2>4 DEF ResolvedSoon
  <2> QED  BY <2>5 DEF new
<1>16. ASSUME NEW j \in Job, NEW g \in ScanFolders PROVE ReadAsStored(sJobs[j], g)' /\ MatchSeen(sJobs[j], g)'
  <2> DEFINE job == sJobs[j]
             new == sJobs'[j]
  <2>1. /\ new.status = job.status /\ new.books = job.books /\ new.ident = job.ident /\ new.rows = job.rows
        /\ new.hidden = job.hidden /\ new.crossed = job.crossed /\ new.cover = C(job) /\ job \in JobSet
        /\ ReadAsStored(job, g) /\ MatchSeen(job, g)
    BY <1>7, <1>8 DEF JobsInv
  <2> HIDE DEF job, new
  <2>2. CASE g = f
    <3>1. ~new.cover[g].newer /\ sPatch'[g].set /\ sPatch'[g].match = sRow[g].match
      BY <1>5, <1>6, <1>10, <1>11, <2>1, <2>2
    <3> QED  BY <1>2, <2>1, <2>2, <3>1 DEF ReadAsStored, MatchSeen, new
  <2>3. CASE g # f
    <3>1. sPatch'[g] = sPatch[g] /\ new.cover[g] = job.cover[g] /\ (g \in sTorn' <=> g \in sTorn) /\ ~Wrote(g)
      BY <1>2, <1>6, <1>11, <1>14, <2>1, <2>3
    <3> QED  BY <1>2, <2>1, <3>1 DEF ReadAsStored, MatchSeen, new
  <2> QED  BY <2>2, <2>3
<1>17. JobsInv'
  BY <1>9, <1>15, <1>16 DEF JobsInv
<1>18. PatchInv'
  BY <1>2, <1>10, <1>11, <1>12, <1>14 DEF PatchInv
<1>19. CacheInv'
  <2>1. Finished # {} => Finished' # {}
    BY <1>7, <1>8, <1>9 DEF Finished
  <2>2. \A g \in ScanFolders : g \notin sTorn' /\ ~Called(g)' => g \notin sTorn /\ ~Called(g)
    BY <1>2, <1>14
  <2> QED  BY <1>2, <2>1, <2>2 DEF CacheInv
<1> QED  BY <1>13, <1>17, <1>18, <1>19

LEMMA SavePatchedKeeps ==
    ASSUME ScanTyped, JobsInv, PatchInv, CacheInv, SavePatched
    PROVE  ScanTyped' /\ JobsInv' /\ PatchInv' /\ CacheInv'
<1>1. /\ sCall.pc = "applied" /\ sCall' = NoCall /\ sCache' = Saved
      /\ sRow' = sRow /\ sJobs' = sJobs /\ sPatch' = sPatch /\ sTorn' = sTorn
  BY DEF SavePatched
<1>2. \A f \in ScanFolders : ~Wrote(f) /\ ~Wrote(f)'
  BY <1>1 DEF Wrote, NoCall
<1>3. Job' = Job /\ Finished' = Finished
  BY <1>1 DEF Job, Finished
<1>4. ScanTyped'
  BY <1>1 DEF ScanTyped
<1>5. JobsInv'
  <2>1. \A j \in Job : ResolvedSoon(sJobs'[j])
    BY <1>1 DEF JobsInv
  <2>2. ASSUME NEW j \in Job, NEW f \in ScanFolders PROVE ReadAsStored(sJobs[j], f)' /\ MatchSeen(sJobs[j], f)'
    <3>1. ReadAsStored(sJobs[j], f) /\ MatchSeen(sJobs[j], f)
      BY DEF JobsInv
    <3> QED  BY <1>1, <1>2, <3>1 DEF ReadAsStored, MatchSeen
  <2> QED  BY <1>3, <2>1, <2>2 DEF JobsInv
<1>6. PatchInv'
  BY <1>1, <1>2 DEF PatchInv
<1>7. CacheInv'
  BY <1>1, <1>2, <1>3, SavedFits DEF CacheInv
<1> QED  BY <1>4, <1>5, <1>6, <1>7

-----------------------------------------------------------------------------
(* A scan begins, and the program restarts.                                *)

LEMMA StartKeeps ==
    ASSUME ScanTyped, JobsInv, PatchInv, CacheInv, Start
    PROVE  ScanTyped' /\ JobsInv' /\ PatchInv' /\ CacheInv'
<1> DEFINE no == FALSE
           new == [status |-> "walking", rows |-> sRow, books |-> {}, saved |-> no, crossed |-> {},
                   hidden |-> [f \in ScanFolders |-> no], ident |-> [f \in ScanFolders |-> NoIdent],
                   asked |-> [f \in ScanFolders |-> NoIdent], cover |-> [f \in ScanFolders |-> NoCover],
                   workers |-> {}]
           n == Len(sJobs)
<1>1. sJobs' = Append(sJobs, new) /\ UNCHANGED <<sRow, sCall, sPatch, sCache, sTorn>>
  BY DEF Start
<1>2. NoIdent \in Ident /\ NoCover \in Cover
  BY DEF NoIdent, NoCover, Ident, Cover
<1>3. no \in BOOLEAN /\ sRow \in [ScanFolders -> Rows]
  BY DEF ScanTyped
<1> HIDE DEF no
<1>4. new \in JobSet
  BY <1>2, <1>3 DEF JobSet
<1>5. /\ new.status = "walking" /\ new.rows = sRow /\ new.books = {}
      /\ \A f \in ScanFolders : new.asked[f] = NoIdent /\ new.cover[f] = NoCover
  OBVIOUS
<1> HIDE DEF new
<1>6. /\ n \in Nat /\ sJobs' \in Seq(JobSet) /\ Len(sJobs') = n + 1
      /\ sJobs'[n + 1] = new /\ \A j \in 1..n : sJobs'[j] = sJobs[j]
  BY <1>1, <1>4, LenProperties, AppendProperties DEF ScanTyped
<1> HIDE DEF n
<1>7. Job = 1..n /\ Job' = 1..(n + 1) /\ Job \subseteq Job' /\ n + 1 \in Job'
  BY <1>6 DEF Job, n
<1>8. \A j \in Job' : j \in Job \/ j = n + 1
  BY <1>6, <1>7
<1>9. ResolvedSoon(new)
  <2>1. \A f \in ScanFolders : new.asked[f].tags = "" /\ new.cover[f].verdict = "none"
    <3>1. NoIdent.tags = "" /\ NoCover.verdict = "none"
      BY DEF NoIdent, NoCover
    <3> QED  BY <1>5, <3>1
  <2> QED  BY <1>5, <2>1 DEF ResolvedSoon
<1>10. \A j \in Job' : ResolvedSoon(sJobs'[j])
  BY <1>6, <1>7, <1>8, <1>9 DEF JobsInv
<1>11. ASSUME NEW j \in Job', NEW f \in ScanFolders PROVE ReadAsStored(sJobs[j], f)' /\ MatchSeen(sJobs[j], f)'
  <2>1. CASE j \in Job
    <3>1. sJobs'[j] = sJobs[j] /\ ReadAsStored(sJobs[j], f) /\ MatchSeen(sJobs[j], f)
      BY <1>6, <1>7, <2>1 DEF JobsInv
    <3> QED  BY <1>1, <3>1 DEF ReadAsStored, MatchSeen, Wrote
  <2>2. CASE j = n + 1
    <3>1. sJobs'[j] = new
      BY <1>6, <2>2
    <3> QED  BY <1>1, <1>5, <3>1 DEF ReadAsStored, MatchSeen
  <2> QED  BY <1>8, <2>1, <2>2
<1>12. ScanTyped'
  BY <1>1, <1>6 DEF ScanTyped
<1>13. JobsInv'
  BY <1>10, <1>11 DEF JobsInv
<1>14. PatchInv'
  BY <1>1 DEF PatchInv, Wrote
<1>15. CacheInv'
  <2>1. Finished # {} => Finished' # {}
    BY <1>6, <1>7 DEF Finished
  <2> QED  BY <1>1, <2>1 DEF CacheInv, Called
<1> QED  BY <1>12, <1>13, <1>14, <1>15

(* What a restart makes of the saved scan.                                 *)
LEMMA RestoredFits ==
    ASSUME CacheInv, sCache.books # {}
    PROVE  /\ RestoredJob \in JobSet /\ ResolvedSoon(RestoredJob) /\ RestoredJob.status = "done"
           /\ RestoredJob.crossed = sCache.crossed
           /\ \A f \in ScanFolders : /\ ~RestoredJob.cover[f].newer
                                     /\ sCache.verdict[f] # "own" => RestoredJob.cover[f].verdict # "own"
<1> DEFINE no == FALSE
           yes == TRUE
           v(f) == IF sCache.verdict[f] = "manual" THEN "down" ELSE sCache.verdict[f]
           cover == [f \in ScanFolders |-> [ident |-> RestoredIdent, newer |-> no, verdict |-> v(f)]]
           job == [status |-> "done", rows |-> [f \in ScanFolders |-> NoOverride], books |-> sCache.books,
                   saved |-> yes, crossed |-> sCache.crossed, hidden |-> [f \in ScanFolders |-> no],
                   ident |-> [f \in ScanFolders |-> RestoredIdent],
                   asked |-> [f \in ScanFolders |-> NoIdent], cover |-> cover, workers |-> {}]
<1>1. RestoredJob = job
  BY DEF RestoredJob
<1>2. no \in BOOLEAN /\ yes \in BOOLEAN /\ ~no
  OBVIOUS
<1> HIDE DEF no, yes
<1>3. \A f \in ScanFolders : v(f) \in {"down", "own"} /\ (sCache.verdict[f] # "own" => v(f) # "own")
  BY DEF CacheInv
<1> HIDE DEF v
<1>4. RestoredIdent \in Ident /\ ~RestoredIdent.match
  BY DEF RestoredIdent, Ident
<1>5. NoIdent \in Ident /\ NoOverride \in Rows
  BY DEF NoIdent, NoOverride, Ident, Rows
<1>6. cover \in [ScanFolders -> Cover]
  BY <1>2, <1>3, <1>4 DEF Cover
<1>7. \A f \in ScanFolders : /\ cover[f].ident = RestoredIdent /\ ~cover[f].newer
                             /\ cover[f].verdict = v(f)
  BY <1>2
<1> HIDE DEF cover
<1>8. sCache.books = ScanFolders /\ sCache.crossed \subseteq ScanFolders
  BY DEF CacheInv
<1>9. job \in JobSet
  BY <1>2, <1>4, <1>5, <1>6, <1>8 DEF JobSet
<1>10. /\ job.status = "done" /\ job.books = ScanFolders /\ job.workers = {} /\ job.cover = cover
       /\ job.crossed = sCache.crossed /\ \A f \in ScanFolders : job.ident[f] = RestoredIdent
  BY <1>8
<1> HIDE DEF job
<1>11. \A f \in ScanFolders : Resolved(job, f)
  BY <1>3, <1>7, <1>10 DEF Resolved
<1>12. \A f \in ScanFolders : ~job.cover[f].ident.match
  BY <1>4, <1>7, <1>10
<1>13. ResolvedSoon(job)
  BY <1>10, <1>11, <1>12 DEF ResolvedSoon
<1> QED  BY <1>1, <1>3, <1>7, <1>9, <1>10, <1>13

LEMMA RestartKeeps ==
    ASSUME ScanTyped, JobsInv, PatchInv, CacheInv, Restart
    PROVE  ScanTyped' /\ JobsInv' /\ PatchInv' /\ CacheInv'
<1>1. sCall' = NoCall /\ sRow' = sRow /\ sCache' = sCache
  BY DEF Restart
<1>2. /\ sTorn' \subseteq ScanFolders
      /\ \A f \in ScanFolders : f \notin sTorn' => f \notin sTorn /\ ~Called(f)
  <2>1. CASE sCall = NoCall
    BY <2>1 DEF Restart, Called, NoCall, ScanTyped
  <2>2. CASE sCall # NoCall
    <3>1. sCall.folder \in ScanFolders /\ sTorn' = sTorn \cup {sCall.folder} /\ sTorn \subseteq ScanFolders
      BY <2>2 DEF Restart, ScanTyped, CallSet
    <3> QED  BY <3>1 DEF Called
  <2> QED  BY <2>1, <2>2
<1>3. \A f \in ScanFolders : ~Wrote(f)' /\ ~Called(f)'
  BY <1>1 DEF Wrote, Called, NoCall
<1>4. CASE sCache.books = {}
  <2>1. sJobs' = <<>> /\ sPatch' = [f \in ScanFolders |-> NoPatch]
    BY <1>4 DEF Restart
  <2>2. sJobs' \in Seq(JobSet) /\ Len(sJobs') = 0
    BY <2>1, EmptySeq
  <2>3. Job' = {}
    BY <2>2 DEF Job
  <2>4. NoPatch \in Patch /\ ~NoPatch.set /\ ~NoPatch.match
    BY DEF NoPatch, Patch
  <2>5. sPatch' \in [ScanFolders -> Patch] /\ \A f \in ScanFolders : ~sPatch'[f].set /\ ~sPatch'[f].match
    BY <2>1, <2>4
  <2>6. ScanTyped'
    BY <1>1, <1>2, <2>2, <2>5 DEF ScanTyped
  <2>7. JobsInv'
    BY <2>3 DEF JobsInv
  <2>8. PatchInv'
    BY <1>1, <2>5 DEF PatchInv
  <2>9. CacheInv'
    BY <1>1, <1>4 DEF CacheInv
  <2> QED  BY <2>6, <2>7, <2>8, <2>9
<1>5. CASE sCache.books # {}
  <2> DEFINE yes == TRUE
             p(f) == [set |-> yes, hidden |-> sCache.hidden[f], match |-> sCache.verdict[f] = "manual"]
  <2>1. sJobs' = <<RestoredJob>> /\ sPatch' = [f \in ScanFolders |-> p(f)]
    BY <1>5 DEF Restart
  <2>2. RestoredJob \in JobSet
    BY <1>5, RestoredFits
  <2>3. sJobs' \in Seq(JobSet) /\ Len(sJobs') = 1 /\ sJobs'[1] = RestoredJob
    BY <2>1, <2>2
  <2>4. Job' = {1}
    BY <2>3 DEF Job
  <2>5. yes \in BOOLEAN /\ yes
    OBVIOUS
  <2> HIDE DEF yes
  <2>6. \A f \in ScanFolders : /\ p(f) \in Patch /\ p(f).set /\ p(f).hidden = sCache.hidden[f]
                               /\ p(f).match <=> sCache.verdict[f] = "manual"
    <3> SUFFICES ASSUME NEW f \in ScanFolders
                 PROVE  /\ p(f) \in Patch /\ p(f).set /\ p(f).hidden = sCache.hidden[f]
                        /\ p(f).match <=> sCache.verdict[f] = "manual"
      OBVIOUS
    <3> DEFINE m == sCache.verdict[f] = "manual"
    <3>1. m \in BOOLEAN /\ sCache.hidden[f] \in BOOLEAN
      BY <1>5 DEF CacheInv
    <3>2. p(f) = [set |-> yes, hidden |-> sCache.hidden[f], match |-> m]
      OBVIOUS
    <3>3. (sCache.verdict[f] = "manual") <=> m
      OBVIOUS
    <3> HIDE DEF m, p
    <3> QED  BY <2>5, <3>1, <3>2, <3>3 DEF Patch
  <2> HIDE DEF p
  <2>7. \A f \in ScanFolders : sPatch'[f] = p(f)
    BY <2>1
  <2>8. ScanTyped'
    BY <1>1, <1>2, <2>1, <2>3, <2>6 DEF ScanTyped
  <2>9. JobsInv'
    <3>1. ResolvedSoon(sJobs'[1])
      BY <1>5, <2>3, RestoredFits
    <3>2. ASSUME NEW f \in ScanFolders PROVE ReadAsStored(sJobs[1], f)' /\ MatchSeen(sJobs[1], f)'
      <4>1. sPatch'[f].set
        BY <2>6, <2>7
      <4>2. ReadAsStored(sJobs[1], f)'
        BY <4>1 DEF ReadAsStored
      <4>3. /\ sJobs'[1].status = "done" /\ sJobs'[1].crossed = sCache.crossed
            /\ sCache.verdict[f] # "own" => sJobs'[1].cover[f].verdict # "own"
        BY <1>5, <2>3, RestoredFits
      <4>4. f \notin sTorn' /\ sRow[f].match /\ f \notin sCache.crossed => sCache.verdict[f] # "own"
        BY <1>2, <1>5 DEF CacheInv
      <4>5. MatchSeen(sJobs[1], f)'
        BY <1>1, <4>3, <4>4 DEF MatchSeen
      <4> QED  BY <4>2, <4>5
    <3> QED  BY <2>4, <3>1, <3>2 DEF JobsInv
  <2>10. PatchInv'
    <3>1. \A f \in ScanFolders : f \notin sTorn' => sPatch'[f].hidden = sRow'[f].hidden
      BY <1>1, <1>2, <1>5, <2>6, <2>7 DEF CacheInv
    <3> QED  BY <1>1, <2>6, <2>7, <3>1 DEF PatchInv
  <2>11. CacheInv'
    <3>1. 1 \in Finished'
      BY <1>5, <2>3, <2>4, RestoredFits DEF Finished
    <3> QED  BY <1>1, <1>2, <3>1 DEF CacheInv
  <2> QED  BY <2>8, <2>9, <2>10, <2>11
<1> QED  BY <1>4, <1>5

-----------------------------------------------------------------------------
(* What the Library shows.                                                 *)

LEMMA ScanInitInv == ScanInit => ScanInv
<1> SUFFICES ASSUME ScanInit PROVE ScanInv
  OBVIOUS
<1>1. NoOverride \in Rows /\ NoPatch \in Patch /\ ~NoPatch.set /\ ~NoPatch.match
  BY DEF NoOverride, NoPatch, Rows, Patch
<1>2. sJobs \in Seq(JobSet) /\ Len(sJobs) = 0
  BY EmptySeq DEF ScanInit
<1>3. ScanTyped
  BY <1>1, <1>2 DEF ScanInit, ScanTyped
<1>4. JobsInv
  BY <1>2 DEF JobsInv, Job
<1>5. PatchInv
  BY <1>1 DEF ScanInit, PatchInv
<1>6. sCache.books = {} /\ sCache.crossed = {}
  BY DEF ScanInit
<1>7. CacheInv
  BY <1>6 DEF CacheInv
<1> QED  BY <1>3, <1>4, <1>5, <1>7 DEF ScanInv

(* A step of a job changes no row, call or patch.                          *)
LEMMA JobStepKeeps ==
    ASSUME ScanTyped, JobsInv, PatchInv, CacheInv, NEW j \in Job, ScanStep(j)
    PROVE  ScanTyped' /\ JobsInv' /\ PatchInv' /\ CacheInv'
<1>1. UNCHANGED <<sRow, sCall, sPatch, sTorn>>
  BY DEF ScanStep, StreamBook, RereadRows, ApplyFinal, ScanFails, ResolveBook, FinishScan, SaveFinished
<1>2. PatchInv'
  BY <1>1 DEF PatchInv, Wrote
<1>3. ScanTyped' /\ JobsInv' /\ CacheInv'
  <2>1. ASSUME NEW f \in ScanFolders, StreamBook(j, f) PROVE ScanTyped' /\ JobsInv' /\ CacheInv'
    BY <2>1, StreamKeeps
  <2>2. ASSUME RereadRows(j) PROVE ScanTyped' /\ JobsInv' /\ CacheInv'
    BY <2>2, RereadKeeps
  <2>3. ASSUME ApplyFinal(j) PROVE ScanTyped' /\ JobsInv' /\ CacheInv'
    BY <2>3, FinalKeeps
  <2>4. ASSUME ScanFails(j) PROVE ScanTyped' /\ JobsInv' /\ CacheInv'
    BY <2>4, FailKeeps
  <2>5. ASSUME FinishScan(j) PROVE ScanTyped' /\ JobsInv' /\ CacheInv'
    BY <2>5, FinishKeeps
  <2>6. ASSUME SaveFinished(j) PROVE ScanTyped' /\ JobsInv' /\ CacheInv'
    BY <2>6, SaveKeeps
  <2>7. ASSUME NEW w \in sJobs[j].workers, ResolveBook(j, w[1], w[2]) PROVE ScanTyped' /\ JobsInv' /\ CacheInv'
    <3>1. w[1] \in ScanFolders /\ w[2] \in Ident
      BY JobsTyped DEF JobSet
    <3> QED  BY <2>7, <3>1, ResolveKeeps
  <2> QED  BY <2>1, <2>2, <2>3, <2>4, <2>5, <2>6, <2>7 DEF ScanStep
<1> QED  BY <1>2, <1>3

LEMMA ScanNextInv == ScanInv /\ [ScanNext]_sVars => ScanInv'
<1> SUFFICES ASSUME ScanInv, [ScanNext]_sVars PROVE ScanTyped' /\ JobsInv' /\ PatchInv' /\ CacheInv'
  BY DEF ScanInv
<1>1. ScanTyped /\ JobsInv /\ PatchInv /\ CacheInv
  BY DEF ScanInv
<1>2. CASE Start
  BY <1>1, <1>2, StartKeeps
<1>3. CASE Restart
  BY <1>1, <1>3, RestartKeeps
<1>4. CASE ApplyOverride
  BY <1>1, <1>4, ApplyOverrideKeeps
<1>5. CASE SavePatched
  BY <1>1, <1>5, SavePatchedKeeps
<1>6. ASSUME NEW j \in Job, ScanStep(j) PROVE ScanTyped' /\ JobsInv' /\ PatchInv' /\ CacheInv'
  BY <1>1, <1>6, JobStepKeeps
<1>7. ASSUME NEW f \in ScanFolders, NEW row \in Rows, WriteRow(f, row)
      PROVE  ScanTyped' /\ JobsInv' /\ PatchInv' /\ CacheInv'
  BY <1>1, <1>7, WriteRowKeeps
<1>8. CASE UNCHANGED sVars
  <2>1. UNCHANGED <<sRow, sCall, sJobs, sPatch, sCache, sTorn>>
    BY <1>8 DEF sVars
  <2>2. Job' = Job /\ Finished' = Finished
    BY <2>1 DEF Job, Finished
  <2>3. \A j \in Job : ResolvedSoon(sJobs'[j])
    BY <1>1, <2>1 DEF JobsInv
  <2>4. \A j \in Job : \A f \in ScanFolders : ReadAsStored(sJobs[j], f)' /\ MatchSeen(sJobs[j], f)'
    BY <1>1, <2>1 DEF JobsInv, ReadAsStored, MatchSeen, Wrote
  <2>5. ScanTyped' /\ PatchInv' /\ CacheInv'
    BY <1>1, <2>1, <2>2 DEF ScanTyped, PatchInv, CacheInv, Wrote, Called
  <2> QED  BY <2>2, <2>3, <2>4, <2>5 DEF JobsInv
<1> QED  BY <1>2, <1>3, <1>4, <1>5, <1>6, <1>7, <1>8 DEF ScanNext

LEMMA ScanInvShows == ScanInv => ScanShowsOverrides
<1> SUFFICES ASSUME ScanInv PROVE VerdictsComplete /\ OverridesShown
  BY DEF ScanShowsOverrides
<1>1. ScanTyped /\ JobsInv /\ PatchInv /\ CacheInv
  BY DEF ScanInv
<1>2. VerdictsComplete
  <2>1. ASSUME NEW j \in Finished, NEW f \in sJobs[j].books PROVE Resolved(sJobs[j], f)
    <3>1. j \in Job /\ sJobs[j].status = "done"
      BY DEF Finished
    <3>2. sJobs[j] \in JobSet /\ ResolvedSoon(sJobs[j])
      BY <1>1, <3>1, JobsTyped DEF JobsInv
    <3> QED  BY <3>1, <3>2 DEF ResolvedSoon
  <2> QED  BY <2>1 DEF VerdictsComplete
<1>3. OverridesShown
  <2> SUFFICES ASSUME sCall = NoCall, Finished # {}, NEW f \in sJobs[Max(Finished)].books \ sTorn
               PROVE  /\ ShownHidden(sJobs[Max(Finished)], f) = sRow[f].hidden
                      /\ sRow[f].match /\ f \notin sJobs[Max(Finished)].crossed =>
                            ShownVerdict(sJobs[Max(Finished)], f) # "own"
    BY DEF OverridesShown
  <2>1. ~Wrote(f)
    BY DEF Wrote, NoCall
  <2>2. f \in ScanFolders
    BY <1>1, NewestShown
  <2> QED  BY <1>1, <2>1, <2>2, NewestShown
<1> QED  BY <1>2, <1>3

(* Whatever the number of folders, scans, calls and restarts: a finished   *)
(* scan has a verdict for every book it lists, and with no call under way  *)
(* the newest one shows every folder as the operator's stored overrides    *)
(* say (scan.go run, applyFinal and resolveWorker, overrides.go Upsert,    *)
(* scan_cache.go restoreCache).                                            *)
THEOREM ScansShowOverrides == ScanSpec => []ScanShowsOverrides
<1>1. ScanSpec => []ScanInv
  BY ScanInitInv, ScanNextInv, PTL DEF ScanSpec
<1> QED  BY <1>1, ScanInvShows, PTL
=============================================================================
