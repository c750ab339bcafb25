----------------------------- MODULE MCServices -----------------------------
(* What works on a book beside its stages' executor: the supervisor, the   *)
(* transcript QA loop, the fact pass.  They share no state this model      *)
(* keeps, so a behaviour runs one of them; the others rest where no step   *)
(* that is owed fairness is enabled.                                       *)
EXTENDS Supervisor, QALoop, FactPass

VARIABLE part

Part == {"supervisor", "qa", "facts"}

(* Without a model and with faults; with a model whose cost can be estimated *)
(* and a question asked by hand; with one that only reports its cost, over *)
(* two runs or one with an event.                                          *)
MCPolicies ==
    {[auto |-> TRUE, model |-> FALSE, modelAuto |-> FALSE, failover |-> FALSE, reports |-> FALSE, priced |-> FALSE,
      runs |-> 3, asks |-> 0, events |-> 1],
     [auto |-> TRUE, model |-> TRUE, modelAuto |-> TRUE, failover |-> TRUE, reports |-> TRUE, priced |-> TRUE,
      runs |-> 1, asks |-> 1, events |-> 0]}
    \cup {[auto |-> TRUE, model |-> TRUE, modelAuto |-> TRUE, failover |-> TRUE, reports |-> TRUE, priced |-> FALSE,
      runs |-> n, asks |-> 0, events |-> 2 - n] : n \in 1..2}

MCFindings == {{}, {"mid"}, {"tail", "mid"}}
MCCuts     == {[cuts |-> 0, retries |-> 1, rewound |-> FALSE], [cuts |-> 1, retries |-> 0, rewound |-> TRUE]}

MCRetries == [invalid |-> 1, rate |-> 1, gone |-> 0]
MCPasses  == {[budget |-> 0, runs |-> 2, faults |-> 1, layouts |-> 1],
              [budget |-> 1, runs |-> 2, faults |-> 1, layouts |-> 1]}

Resting(p, bounds, choices) == part # p => bounds = CHOOSE c \in choices : TRUE

(* A loop that is not run is at its end, a pass is not dispatched again.   *)
QARest ==
    /\ qStage = "spelling" /\ qPc = "begin" /\ qLocal = Idle
    /\ qLeft = [cuts |-> 0, retries |-> 0, rewound |-> FALSE]
    /\ qLayer = [ch \in QAChapter |-> [raw |-> "first", json |-> "first", text |-> "first",
                                       repaired |-> NoText, corrected |-> NoText]]
    /\ qHeard = [ch \in QAChapter |-> [first |-> {}, have |-> FALSE, fresh |-> {}, better |-> FALSE]]
    /\ qReport = [ch \in QAChapter |-> {}] /\ qPlan = [ch \in QAChapter |-> "none"]
    /\ qAccepted = [ch \in QAChapter |-> "none"] /\ qVerdict = [ch \in QAChapter |-> NoVerdict]
    /\ qStalled = 0 /\ qDone = 0 /\ qGhost = [idle |-> 0, changed |-> FALSE, cut |-> FALSE, torn |-> {}]

(* Nobody holds the check lock of a supervisor at rest, and nobody gets it. *)
SupRest ==
    /\ sPolicy = CHOOSE p \in SupPolicy : TRUE
    /\ sBook = [stage |-> 1, status |-> "", park |-> ""]
    /\ sRun = <<>> /\ sWork = "none" /\ sLost = {} /\ sLedger = <<>>
    /\ sLane = [l \in Lane |-> IdleLane] /\ sCheck = "rest" /\ sModel = Nobody
    /\ sGhost = [applied |-> 0, uncounted |-> 0, calls |-> 0, reported |-> 0, lostCalls |-> 0]
    /\ sLeft = [asks |-> 0, events |-> 0]

ServicesInit ==
    /\ part \in Part
    /\ IF part = "supervisor" THEN SupInit ELSE SupRest
    /\ IF part = "qa" THEN QAInit ELSE QARest
    /\ FPInit /\ Resting("facts", fLeft, FPCases)

ServicesNext ==
    /\ UNCHANGED part
    /\ \/ part = "supervisor" /\ SupNext /\ UNCHANGED <<qVars, fVars>>
       \/ part = "qa" /\ QANext /\ UNCHANGED <<supVars, fVars>>
       \/ part = "facts" /\ FPNext /\ UNCHANGED <<supVars, qVars>>

ServicesSpec ==
    /\ ServicesInit /\ [][ServicesNext]_<<part, supVars, qVars, fVars>>
    /\ QAFairness /\ FPFairness /\ SupFairness

ServicesTypeOK == SupTypeOK /\ QATypeOK /\ FPTypeOK
=============================================================================
