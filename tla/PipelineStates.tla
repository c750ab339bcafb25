--------------------------- MODULE PipelineStates ---------------------------
(***************************************************************************)
(* The per-book pipeline state machine (internal/state): the transition    *)
(* table, the lane a state runs in, the branch rules of NextState, the     *)
(* dispatch guard CanStart and the series order.  Pure operators: the      *)
(* scheduler modules are built from them.                                  *)
(***************************************************************************)
EXTENDS Naturals

CONSTANT MaxFixAttempts      \* fix passes before an audit failure parks (3)

ASSUME MaxFixAttemptsAssumption == MaxFixAttempts \in Nat \ {0}

Kind == {"audio", "ebook"}

NoState == ""

(* A row of the table: at most two successors, the conditional or loop     *)
(* target and the mainline one.                                            *)
Row(lane, cond, main, order) ==
    [lane |-> lane, cond |-> cond, main |-> main, order |-> order]

State ==
    {"queued", "inspecting", "markers_normalizing", "splitting", "asr", "sanitizing",
     "qa_sweep", "qa_adjudicating", "retranscribing", "spelling_research", "correcting",
     "extracting", "chapter_mapping", "fact_pass", "synthesizing", "validating",
     "auditing", "fixing", "ready", "contributing", "done"}

Table == [s \in State |->
    CASE s = "queued"              -> Row("none",       "extracting",          "inspecting",        0)
      [] s = "inspecting"          -> Row("mechanical", "markers_normalizing", "splitting",         1)
      [] s = "markers_normalizing" -> Row("agent",      NoState,               "splitting",         2)
      [] s = "splitting"           -> Row("mechanical", NoState,               "asr",               3)
      [] s = "asr"                 -> Row("asr",        NoState,               "sanitizing",        4)
      [] s = "sanitizing"          -> Row("mechanical", NoState,               "qa_sweep",          5)
      [] s = "qa_sweep"            -> Row("mechanical", "qa_adjudicating",     "spelling_research", 6)
      [] s = "qa_adjudicating"     -> Row("agent",      "retranscribing",      "spelling_research", 7)
      [] s = "retranscribing"      -> Row("asr",        NoState,               "qa_sweep",          8)
      [] s = "spelling_research"   -> Row("agent",      NoState,               "correcting",        9)
      [] s = "correcting"          -> Row("mechanical", NoState,               "fact_pass",        10)
      [] s = "extracting"          -> Row("mechanical", "chapter_mapping",     "fact_pass",        11)
      [] s = "chapter_mapping"     -> Row("agent",      NoState,               "fact_pass",        12)
      [] s = "fact_pass"           -> Row("agent",      NoState,               "synthesizing",     13)
      [] s = "synthesizing"        -> Row("agent",      NoState,               "validating",       14)
      [] s = "validating"          -> Row("mechanical", NoState,               "auditing",         15)
      [] s = "auditing"            -> Row("agent",      "fixing",              "ready",            16)
      [] s = "fixing"              -> Row("agent",      NoState,               "validating",       17)
      [] s = "ready"               -> Row("none",       NoState,               "contributing",     18)
      [] s = "contributing"        -> Row("mechanical", NoState,               "done",             19)
      [] s = "done"                -> Row("none",       NoState,               NoState,            20)]

Order(s)   == Table[s].order
LaneOf(s)  == Table[s].lane
Next_(s)   == {Table[s].cond, Table[s].main} \ {NoState}

IsTerminal(s)  == s = "done"
IsStage(s)     == LaneOf(s) # "none"
IsAgent(s)     == LaneOf(s) = "agent"
IsWaypoint(s)  == ~IsStage(s) /\ ~IsTerminal(s)

Stage == {s \in State : IsStage(s)}

(* Stages that open the original library item rather than the work dir. *)
ReadsSource(s) == s \in {"inspecting", "splitting", "extracting"}

HoldsSeriesLock(s)     == Order(s) < Order("ready")
RequiresSeriesOrder(s) == s \in {"spelling_research", "fact_pass", "synthesizing",
                                 "auditing", "fixing"}

(* The branch decisions of a completed stage. *)
Outcome == [markersContiguous : BOOLEAN, qaClean : BOOLEAN, retranscribeNeeded : BOOLEAN,
            auditPassed : BOOLEAN, chaptersMapped : BOOLEAN, fixAttempts : Nat]

TakesBranch(kind, s, o) ==
    CASE s = "queued"          -> kind = "ebook"
      [] s = "extracting"      -> ~o.chaptersMapped
      [] s = "inspecting"      -> ~o.markersContiguous
      [] s = "qa_sweep"        -> ~o.qaClean
      [] s = "qa_adjudicating" -> o.retranscribeNeeded
      [] s = "auditing"        -> ~o.auditPassed
      [] OTHER                 -> FALSE

(* Mutant: one fix pass too many.                                           *)
FixBudgetOneMore(s, o) ==
    s = "auditing" /\ ~o.auditPassed /\ o.fixAttempts > MaxFixAttempts

FixBudgetSpent(s, o) ==
    s = "auditing" /\ ~o.auditPassed /\ o.fixAttempts >= MaxFixAttempts

(* The forward transition: the next state, or the same state with a park   *)
(* when the audit still fails and the fix budget is spent.                 *)
NextState(kind, s, o) ==
    IF FixBudgetSpent(s, o)
    THEN [state |-> s, status |-> "needs_attention"]
    ELSE [state  |-> IF TakesBranch(kind, s, o) THEN Table[s].cond ELSE Table[s].main,
          status |-> "none"]

(* Mutant: the series lock is not asked for.                                *)
CanStartUnlocked(s, status, lowestInSeries) == status = "none" /\ IsStage(s)

(* May a book be dispatched to its lane now? *)
CanStart(s, status, lowestInSeries) ==
    /\ status = "none"
    /\ IsStage(s)
    /\ (IsAgent(s) /\ RequiresSeriesOrder(s)) => lowestInSeries
=============================================================================
