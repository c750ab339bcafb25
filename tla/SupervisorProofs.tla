--------------------------- MODULE SupervisorProofs ---------------------------
(***************************************************************************)
(* Proofs about the health monitor, for any policy, caps and budgets, any  *)
(* number of checks, questions and crashes: an incident is handled once,   *)
(* the caps on recoveries and model calls hold, a healthy run is not       *)
(* accused.                                                                *)
(***************************************************************************)
EXTENDS Supervisor, TLAPS, FiniteSetTheorems, SequenceTheorems, WellFoundedInduction

LEMMA SupConstants ==
    /\ SupPolicy \subseteq [auto : BOOLEAN, model : BOOLEAN, modelAuto : BOOLEAN, failover : BOOLEAN,
                            reports : BOOLEAN, priced : BOOLEAN, runs : Nat, asks : Nat, events : Nat]
    /\ SupAttempts \in Nat \ {0} /\ SupRepeats \in Nat \ {0}
    /\ SupModelCalls \in Nat \ {0} /\ SupHourly \in Nat \ {0} /\ SupBudget \in Nat
  BY SupAssumption

-----------------------------------------------------------------------------
(* The inductive invariant: what the lanes and the ledger are.             *)

LanePc   == {"idle", "confirm", "record", "model", "call", "apply", "applied", "failed", "finish"}
Action   == Recovery \cup {"terminate_requeue", "stop_budget", "park_escalate", "observe", "ask_model"}
Code     == ParkCodes \cup FailureKind \cup {""}
Incident == [kind : SupKind, run : Nat, fp : Seq(Code), park : Code, protected : BOOLEAN]
LaneRec  == [pc : LanePc, active : BOOLEAN, runs : Nat, inc : Incident, action : Action,
             automatic : BOOLEAN, approval : BOOLEAN, entry : Nat, left : Int,
             asked : BOOLEAN, made : Nat, rep : Nat, mea : Nat]
EntryState == {"decided", "completed", "failed", "approval_required"}
EntryRec == [by : Lane, kind : SupKind, run : Nat, fp : Seq(Code), action : Action,
             automatic : BOOLEAN, state : EntryState,
             asked : BOOLEAN, calls : Nat, rep : Nat, mea : Nat]

LanesTyped ==
    /\ sPolicy \in SupPolicy
    /\ sLane \in [Lane -> LaneRec] /\ sLedger \in Seq(EntryRec)
    /\ sCheck \in Lane \cup {Nobody} /\ sModel \in Lane \cup {Nobody}
    /\ sGhost \in [applied : Nat, uncounted : Nat, calls : Nat, reported : Nat, lostCalls : Nat]
    /\ sLeft \in [asks : Nat, events : Nat] /\ sLeft.asks <= sPolicy.asks

(* Who holds checkMu and modelMu.                                          *)
Locked ==
    /\ \A l \in Checker : sLane[l].pc # "idle" => sCheck = l
    /\ \A l \in Lane : sLane[l].pc = "call" \/ sLane[l].made > 0 => sModel = l
    /\ sLane["ask"].pc \notin {"confirm", "record"}

(* The entry of a decision that is being carried out is the lane's own and *)
(* counts nothing yet; calls are made once it is written.                  *)
Decided == {"model", "call", "apply", "applied", "failed", "finish"}
OpenEntries ==
    \A l \in Lane :
       /\ sLane[l].pc \in Decided =>
             /\ sLane[l].entry \in 1..Len(sLedger)
             /\ LET e == sLedger[sLane[l].entry]
                IN  e.by = l /\ e.state = "decided" /\ e.calls = 0
       /\ sLane[l].pc \in {"idle", "confirm", "record", "model"} => sLane[l].made = 0
       /\ sLane[l].pc \in {"apply", "applied"} => sLane[l].automatic

(* What is about to be recorded was not handled before.                    *)
FreshDecision == \A l \in Checker : sLane[l].pc = "record" => ~Seen(sLane[l].inc)

OnceInv == LanesTyped /\ Locked /\ OpenEntries /\ FreshDecision /\ IncidentHandledOnce

(* Every recovery is counted, or about to be, or was lost in a crash; what *)
(* is decided but not applied has its place below the cap.                 *)
Pending == \E l \in Checker : /\ sLane[l].pc \in {"record", "apply"} /\ sLane[l].automatic
                              /\ sLane[l].action \in Recovery /\ ~sLane[l].inc.protected
AskOpen == sLane["ask"].pc \in {"model", "call", "apply"}
One(b)  == IF b THEN 1 ELSE 0
Asked   == sPolicy.asks - sLeft.asks

RecoveriesCounted == sGhost.applied <= CountAutoRecoveries + Cardinality(Uncounted) + sGhost.uncounted
RecoveriesOwed ==
    /\ sGhost.applied + One(Pending) + One(AskOpen) <= SupAttempts + sGhost.uncounted + Asked
    /\ sLane["ask"].pc # "idle" => Asked >= 1
RecoveryInv == RecoveriesCounted /\ RecoveriesOwed

(* Every call is in the ledger, or made by the lane that holds modelMu, or *)
(* was lost in a crash; that lane's calls stay below the hour's allowance, *)
(* and it began below the budget.                                          *)
Made == sLane["tick"].made + sLane["manual"].made + sLane["ask"].made
CallsCounted == sGhost.calls = CallsThisHour + Made + sGhost.lostCalls
Spendable(calls) == calls <= SupHourly /\ (SupBudget > 0 => calls <= SupBudget + (SupModelCalls - 1))
Spending ==
    /\ Spendable(CallsThisHour)
    /\ \A l \in Lane :
          /\ sLane[l].pc = "call" =>
                /\ sLane[l].left >= 1
                /\ CallsThisHour + sLane[l].made + sLane[l].left <= SupHourly
                /\ sLane[l].made + sLane[l].left <= SupModelCalls
                /\ Affordable(CallsThisHour)
          /\ sLane[l].made > 0 => sLane[l].made <= SupModelCalls /\ Spendable(CallsThisHour + sLane[l].made)
    /\ \A n \in 1..Len(sLedger) : sLedger[n].calls <= SupModelCalls
CallsInv == CallsCounted /\ Spending

(* What is said of a cost is said of a call, of a backend that was asked.  *)
Used(r, calls) == r.rep <= calls /\ r.mea <= calls /\ (calls > 0 => r.asked)
LaneUsage == \A l \in Lane : Used(sLane[l], sLane[l].made) /\ (sLane[l].pc = "call" => sLane[l].asked)
RowUsage  == \A n \in 1..Len(sLedger) : Used(sLedger[n], sLedger[n].calls)

(* The reports of the ledger and of the lane that holds modelMu are below  *)
(* the budget: it went on only while what it knew was.                     *)
Reports   == Cardinality(UNION {{n} \X (1..sLedger[n].rep) : n \in 1..Len(sLedger)})
Reporting == sLane["tick"].rep + sLane["manual"].rep + sLane["ask"].rep
ReportsCounted == sGhost.reported <= Reports + Reporting + sGhost.lostCalls
ReportsWithin ==
    SupBudget > 0 =>
        /\ Reports <= SupBudget
        /\ \A l \in Lane : /\ Reports + sLane[l].rep <= SupBudget
                           /\ sLane[l].pc = "call" => Reports + sLane[l].rep < SupBudget
UsageInv == LaneUsage /\ RowUsage /\ ReportsCounted /\ ReportsWithin

-----------------------------------------------------------------------------
(* The inductive invariant: the book and what is said of it.               *)

RunRec == [stage : 1..3, result : {"open", "ok", "failed"}, error : FailureKind \cup {""},
           superseded : BOOLEAN, health : (HealthKind \ {"missing_process"}) \cup {"ok", "gone"}]

BookStatus == {"", "paused", "failed", "needs_attention"}

BookTyped ==
    /\ sBook \in [stage : 1..3, status : BookStatus, park : ParkCodes \cup {""}]
    /\ sRun \in Seq(RunRec) /\ sWork \in {"none", "admitted", "running"}
    /\ sWork # "none" => sBook.stage # 3

(* What is said of a run is said of one there is.                          *)
RunsThere ==
    /\ \A l \in Lane : sLane[l].inc.run <= Len(sRun)
    /\ \A n \in 1..Len(sLedger) : sLedger[n].run <= Len(sRun)

(* The run at work is the newest; it began after the sample of a check     *)
(* that saw no worker.                                                     *)
RunningIsLast ==
    /\ sWork = "running" => Len(sRun) \in OpenRuns
    /\ \A l \in Checker : sLane[l].pc = "confirm" =>
          /\ sLane[l].runs <= Len(sRun)
          /\ ~sLane[l].active /\ sWork = "running" => sLane[l].runs < Len(sRun)

BookInv == BookTyped /\ RunsThere /\ RunningIsLast

-----------------------------------------------------------------------------
(* The newest of some runs.                                                *)

LEMMA LatestIsLast ==
    ASSUME NEW k \in Nat, NEW S \in SUBSET (1..k), S # {}
    PROVE  Latest(S) \in S /\ \A m \in S : m <= Latest(S)
<1> DEFINE T == {k - n : n \in S}
<1>1. T \in SUBSET Nat /\ T # {}
  <2>1. \A n \in S : n \in Nat /\ k - n \in Nat
    OBVIOUS
  <2> QED  BY <2>1
<1>2. PICK x \in T : \A y \in T : ~(<<y, x>> \in OpToRel(<, Nat))
  BY <1>1, WFMin, NatLessThanWellFounded
<1>3. PICK n \in S : x = k - n
  OBVIOUS
<1>4. \A m \in S : m <= n
  <2> SUFFICES ASSUME NEW m \in S, m > n PROVE FALSE
    OBVIOUS
  <2>1. k - m \in T /\ k - m \in Nat /\ k - n \in Nat /\ k - m < k - n
    OBVIOUS
  <2>2. <<k - m, k - n>> \in OpToRel(<, Nat)
    BY <2>1 DEF OpToRel
  <2> QED  BY <1>2, <1>3, <2>1, <2>2
<1>5. Latest(S) = CHOOSE j \in S : \A m \in S : m <= j
  BY DEF Latest
<1> QED  BY <1>3, <1>4, <1>5

-----------------------------------------------------------------------------
(* The ledger.                                                             *)

LEMMA SetOne ==
    /\ \A k \in Nat : IsFiniteSet(1..k) /\ Cardinality(1..k) = k
    /\ \A k \in Nat : \A S \in SUBSET (1..k) : IsFiniteSet(S) /\ Cardinality(S) \in Nat
<1>1. ASSUME NEW k \in Nat PROVE IsFiniteSet(1..k) /\ Cardinality(1..k) = k
  <2>1. 1 \in Int /\ k \in Int /\ (IF 1 > k THEN 0 ELSE k - 1 + 1) = k
    OBVIOUS
  <2> QED  BY <2>1, FS_Interval
<1>2. ASSUME NEW k \in Nat, NEW S \in SUBSET (1..k) PROVE IsFiniteSet(S) /\ Cardinality(S) \in Nat
  BY <1>1, FS_Subset, FS_CardinalityType
<1> QED  BY <1>1, <1>2

CallsOf(ledger)    == UNION {{n} \X (1..ledger[n].calls) : n \in 1..Len(ledger)}
CountedIn(ledger)  == {n \in 1..Len(ledger) : /\ ledger[n].automatic /\ ledger[n].state = "completed"
                                              /\ ledger[n].action \in Recovery}

LEMMA LedgerCounts ==
    CallsThisHour = Cardinality(CallsOf(sLedger)) /\ CountAutoRecoveries = Cardinality(CountedIn(sLedger))
  BY DEF CallsThisHour, CallsOf, CountAutoRecoveries, CountedIn

LEMMA EntryType == \A e \in EntryRec : e.calls \in Nat /\ e.automatic \in BOOLEAN /\ e.by \in Lane
  BY DEF EntryRec

LEMMA CallsFinite ==
    ASSUME NEW ledger \in Seq(EntryRec), \A n \in 1..Len(ledger) : ledger[n].calls <= SupModelCalls
    PROVE  IsFiniteSet(CallsOf(ledger)) /\ Cardinality(CallsOf(ledger)) \in Nat
<1>1. Len(ledger) \in Nat /\ \A n \in 1..Len(ledger) : ledger[n].calls \in Nat
  BY EntryType
<1>2. CallsOf(ledger) \in SUBSET ((1..Len(ledger)) \X (1..SupModelCalls))
  BY <1>1, SupConstants DEF CallsOf
<1>3. IsFiniteSet((1..Len(ledger)) \X (1..SupModelCalls))
  BY <1>1, SetOne, SupConstants, FS_Product
<1> QED  BY <1>2, <1>3, FS_Subset, FS_CardinalityType

LEMMA CountedFinite ==
    ASSUME NEW ledger \in Seq(EntryRec)
    PROVE  IsFiniteSet(CountedIn(ledger)) /\ Cardinality(CountedIn(ledger)) \in Nat
<1>1. CountedIn(ledger) \in SUBSET (1..Len(ledger)) /\ Len(ledger) \in Nat
  BY DEF CountedIn
<1> QED  BY <1>1, SetOne

(* A decision that is only recorded counts nothing.                        *)
LEMMA RecordedCountsNothing ==
    ASSUME LanesTyped, NEW e \in EntryRec, e.state = "decided", e.calls = 0, sLedger' = Append(sLedger, e)
    PROVE  /\ sLedger' \in Seq(EntryRec) /\ Len(sLedger') = Len(sLedger) + 1
           /\ \A n \in 1..Len(sLedger) : sLedger'[n] = sLedger[n]
           /\ sLedger'[Len(sLedger) + 1] = e
           /\ CallsThisHour' = CallsThisHour /\ CountAutoRecoveries' = CountAutoRecoveries
<1>1. sLedger \in Seq(EntryRec) /\ Len(sLedger) \in Nat
  BY DEF LanesTyped
<1>2. /\ sLedger' \in Seq(EntryRec) /\ Len(sLedger') = Len(sLedger) + 1
      /\ \A n \in 1..Len(sLedger) : sLedger'[n] = sLedger[n]
      /\ sLedger'[Len(sLedger) + 1] = e
  BY <1>1, AppendProperties
<1>3. 1..Len(sLedger') = 1..Len(sLedger) \cup {Len(sLedger) + 1}
  BY <1>1, <1>2
<1>4. CallsOf(sLedger') = CallsOf(sLedger)
  <2>1. {Len(sLedger) + 1} \X (1..sLedger'[Len(sLedger) + 1].calls) = {}
    BY <1>2
  <2> QED  BY <1>2, <1>3, <2>1 DEF CallsOf
<1>5. CountedIn(sLedger') = CountedIn(sLedger)
  BY <1>2, <1>3 DEF CountedIn
<1>6. CallsThisHour' = Cardinality(CallsOf(sLedger')) /\ CountAutoRecoveries' = Cardinality(CountedIn(sLedger'))
  BY DEF CallsThisHour, CallsOf, CountAutoRecoveries, CountedIn
<1> QED  BY <1>2, <1>4, <1>5, <1>6, LedgerCounts

(* Closing an entry counts its calls, and a recovery that was made.        *)
LEMMA ClosedCountsItsOwn ==
    ASSUME LanesTyped, NEW n \in 1..Len(sLedger), sLedger[n].state = "decided", sLedger[n].calls = 0,
           NEW e \in EntryRec, e.calls <= SupModelCalls, sLedger' = [sLedger EXCEPT ![n] = e],
           \A m \in 1..Len(sLedger) : sLedger[m].calls <= SupModelCalls
    PROVE  /\ sLedger' \in Seq(EntryRec) /\ Len(sLedger') = Len(sLedger)
           /\ \A m \in 1..Len(sLedger) : sLedger'[m] = IF m = n THEN e ELSE sLedger[m]
           /\ CallsThisHour' = CallsThisHour + e.calls
           /\ CountAutoRecoveries' = CountAutoRecoveries
                 + One(e.automatic /\ e.state = "completed" /\ e.action \in Recovery)
<1>1. sLedger \in Seq(EntryRec) /\ Len(sLedger) \in Nat
  BY DEF LanesTyped
<1>2. /\ sLedger' \in Seq(EntryRec) /\ Len(sLedger') = Len(sLedger)
      /\ \A m \in 1..Len(sLedger) : sLedger'[m] = IF m = n THEN e ELSE sLedger[m]
  BY <1>1
<1>3. CallsThisHour' = CallsThisHour + e.calls
  <2> DEFINE own == {n} \X (1..e.calls)
  <2>1. e.calls \in Nat
    BY EntryType
  <2>2. CallsOf(sLedger') = CallsOf(sLedger) \cup own
    BY <1>1, <1>2, <2>1 DEF CallsOf
  <2>3. CallsOf(sLedger) \cap own = {}
    <3>1. \A t \in CallsOf(sLedger) : t[1] # n
      BY <1>1 DEF CallsOf
    <3>2. \A t \in own : t[1] = n
      OBVIOUS
    <3> QED  BY <3>1, <3>2
  <2>4. IsFiniteSet(own) /\ Cardinality(own) = e.calls
    <3>1. IsFiniteSet({n}) /\ Cardinality({n}) = 1
      BY FS_Singleton
    <3>2. IsFiniteSet(own) /\ Cardinality(own) = Cardinality({n}) * Cardinality(1..e.calls)
      BY <2>1, <3>1, SetOne, FS_Product
    <3> QED  BY <2>1, <3>1, <3>2, SetOne
  <2>5. IsFiniteSet(CallsOf(sLedger)) /\ Cardinality(CallsOf(sLedger)) \in Nat
    BY <1>1, CallsFinite
  <2>6. Cardinality(CallsOf(sLedger) \cup own)
           = Cardinality(CallsOf(sLedger)) + Cardinality(own) - Cardinality(CallsOf(sLedger) \cap own)
    BY <2>4, <2>5, FS_Union
  <2>7. Cardinality(CallsOf(sLedger) \cap own) = 0
    BY <2>3, FS_EmptySet
  <2>8. CallsThisHour' = Cardinality(CallsOf(sLedger'))
    BY DEF CallsThisHour, CallsOf
  <2>9. CallsThisHour = Cardinality(CallsOf(sLedger))
    BY LedgerCounts
  <2>10. Cardinality(CallsOf(sLedger')) = Cardinality(CallsOf(sLedger)) + e.calls
    <3>1. Cardinality(CallsOf(sLedger')) = Cardinality(CallsOf(sLedger) \cup own)
      BY <2>2
    <3>2. \A a, b \in Nat : a + b - 0 = a + b
      OBVIOUS
    <3> HIDE DEF own
    <3> QED  BY <2>1, <2>4, <2>5, <2>6, <2>7, <3>1, <3>2
  <2> QED  BY <2>8, <2>9, <2>10
<1>4. CountAutoRecoveries' = CountAutoRecoveries
                 + One(e.automatic /\ e.state = "completed" /\ e.action \in Recovery)
  <2>1. n \notin CountedIn(sLedger)
    BY DEF CountedIn
  <2>2. CountAutoRecoveries' = Cardinality(CountedIn(sLedger'))
    BY DEF CountAutoRecoveries, CountedIn
  <2>3. IsFiniteSet(CountedIn(sLedger)) /\ Cardinality(CountedIn(sLedger)) \in Nat
    BY <1>1, CountedFinite
  <2>4. CASE e.automatic /\ e.state = "completed" /\ e.action \in Recovery
    <3>1. CountedIn(sLedger') = CountedIn(sLedger) \cup {n}
      BY <1>1, <1>2, <2>4 DEF CountedIn
    <3>2. Cardinality(CountedIn(sLedger')) = Cardinality(CountedIn(sLedger)) + 1
      <4>1. ASSUME NEW S, IsFiniteSet(S), n \notin S PROVE Cardinality(S \cup {n}) = Cardinality(S) + 1
        BY <4>1, FS_AddElement
      <4> QED  BY <2>1, <2>3, <3>1, <4>1
    <3>3. One(e.automatic /\ e.state = "completed" /\ e.action \in Recovery) = 1
      BY <2>4 DEF One
    <3>4. CountAutoRecoveries = Cardinality(CountedIn(sLedger))
      BY LedgerCounts
    <3> QED  BY <2>2, <3>2, <3>3, <3>4
  <2>5. CASE ~(e.automatic /\ e.state = "completed" /\ e.action \in Recovery)
    <3>1. CountedIn(sLedger') = CountedIn(sLedger)
      BY <1>1, <1>2, <2>1, <2>5 DEF CountedIn
    <3> QED  BY <2>2, <2>3, <2>5, <3>1, LedgerCounts DEF One
  <2> QED  BY <2>4, <2>5
<1> QED  BY <1>2, <1>3, <1>4

-----------------------------------------------------------------------------
(* What a check finds.                                                     *)

LEMMA Codes ==
    /\ FailureKind \cup HealthKind \subseteq SupKind
    /\ {"repeated_error", "artifact_invalid", "parked_recovery", "missing_process", "unclassified"} \subseteq SupKind
    /\ FailureKind \cup ParkCodes \subseteq Code /\ "" \in Code
    /\ Recovery \subseteq Action /\ "missing_process" \notin FailureKind
<1>1. FailureKind \cup HealthKind \subseteq SupKind
  BY DEF SupKind
<1>2. {"repeated_error", "artifact_invalid", "parked_recovery", "missing_process", "unclassified"} \subseteq SupKind
  BY DEF SupKind, FailureKind, HealthKind
<1>3. "missing_process" \notin FailureKind
  BY DEF FailureKind
<1> QED  BY <1>1, <1>2, <1>3 DEF Action, Code

LEMMA RunsType ==
    ASSUME BookTyped
    PROVE  /\ Len(sRun) \in Nat
           /\ \A n \in 1..Len(sRun) : sRun[n] \in RunRec /\ sRun[n].error \in FailureKind \cup {""}
           /\ OpenRuns \subseteq 1..Len(sRun)
           /\ \A s : LiveRuns(s) \in SUBSET (1..Len(sRun))
<1>1. sRun \in Seq(RunRec)
  BY DEF BookTyped
<1>2. \A r \in RunRec : r.error \in FailureKind \cup {""}
  BY DEF RunRec
<1>3. Len(sRun) \in Nat /\ \A n \in 1..Len(sRun) : sRun[n] \in RunRec
  BY <1>1
<1> QED  BY <1>2, <1>3 DEF OpenRuns, LiveRuns

LEMMA LatestRun ==
    ASSUME BookTyped, NEW S \in SUBSET (1..Len(sRun))
    PROVE  /\ Latest(S) \in Nat /\ Latest(S) <= Len(sRun)
           /\ S # {} => Latest(S) \in S /\ \A m \in S : m <= Latest(S)
<1>1. Len(sRun) \in Nat
  BY RunsType
<1>2. CASE S = {}
  BY <1>1, <1>2 DEF Latest
<1>3. CASE S # {}
  <2>1. Latest(S) \in S /\ \A m \in S : m <= Latest(S)
    BY <1>1, <1>3, LatestIsLast
  <2>2. Latest(S) \in 1..Len(sRun)
    BY <2>1
  <2> QED  BY <1>1, <2>1, <2>2
<1> QED  BY <1>2, <1>3

LEMMA ClassifyType ==
    ASSUME BookTyped, NEW sample, NEW i \in Classify(sample)
    PROVE  i \in Incident /\ i.run <= Len(sRun)
<1>1. <<>> \in Seq(Code) /\ Len(sRun) \in Nat
  BY RunsType, EmptySeq
<1>2. CASE i \in OpenRunIncidents(sample)
  <2>1. PICK n \in OpenRuns, k \in SupKind : i = Found(k, n, <<>>, FALSE)
    BY <1>2, Codes DEF OpenRunIncidents
  <2>2. n \in Nat /\ n <= Len(sRun)
    <3>1. n \in 1..Len(sRun)
      BY RunsType
    <3> QED  BY <1>1, <3>1
  <2> QED  BY <1>1, <2>1, <2>2, Codes DEF Found, Incident
<1>3. CASE i \in FailureIncidents
  <2> DEFINE n == Latest(LiveRuns(sBook.stage))
  <2>1. n # 0 /\ sRun[n].error # "" /\ \E k \in {sRun[n].error, "repeated_error", "unclassified"} :
            i = Found(k, n, <<sRun[n].error>>, FALSE)
    BY <1>3 DEF FailureIncidents
  <2>2. n \in 1..Len(sRun)
    <3>1. LiveRuns(sBook.stage) # {}
      BY <2>1 DEF Latest
    <3> QED  BY <3>1, RunsType, LatestIsLast
  <2>3. sRun[n].error \in FailureKind
    BY <2>1, <2>2, RunsType
  <2>4. <<sRun[n].error>> \in Seq(Code) /\ {sRun[n].error, "repeated_error", "unclassified"} \subseteq SupKind
    <3>1. sRun[n].error \in Code /\ sRun[n].error \in SupKind
      BY <2>3, Codes
    <3> HIDE DEF n
    <3>2. <<sRun[n].error>> \in Seq(Code)
      BY <3>1
    <3>3. {sRun[n].error, "repeated_error", "unclassified"} \subseteq SupKind
      BY <3>1, Codes
    <3> QED  BY <3>2, <3>3
  <2>5. n \in Nat /\ n <= Len(sRun)
    BY <1>1, <2>2
  <2> HIDE DEF n
  <2>6. PICK k \in SupKind : i = [kind |-> k, run |-> n, fp |-> <<sRun[n].error>>, park |-> "",
                                  protected |-> FALSE \/ Paused]
    BY <2>1, <2>4 DEF Found
  <2> QED  BY <2>4, <2>5, <2>6, Codes DEF Incident
<1>4. CASE i \in ParkIncidents
  <2> DEFINE n == Latest(LiveRuns(sBook.stage))
             err == IF n = 0 THEN "" ELSE sRun[n].error
  <2>1. Parked /\ i = [Found("parked_recovery", n, <<sBook.park, err>>, FALSE) EXCEPT !.park = sBook.park]
    BY <1>4 DEF ParkIncidents
  <2>2. n \in Nat /\ n <= Len(sRun)
    BY RunsType, LatestRun
  <2>3. err \in Code /\ sBook.park \in Code
    <3>1. n # 0 => sRun[n].error \in Code
      <4>1. n # 0 => n \in 1..Len(sRun)
        BY <1>1, <2>2
      <4> HIDE DEF n
      <4> QED  BY <4>1, RunsType, Codes
    <3>2. sBook.park \in Code
      BY Codes DEF BookTyped
    <3> HIDE DEF n
    <3>3. err \in Code
      BY <3>1, Codes
    <3> QED  BY <3>2, <3>3
  <2> HIDE DEF n, err
  <2>4. <<sBook.park, err>> \in Seq(Code)
    BY <2>3
  <2>5. i = [kind |-> "parked_recovery", run |-> n, fp |-> <<sBook.park, err>>, park |-> sBook.park,
             protected |-> FALSE \/ Paused]
    BY <2>1 DEF Found
  <2> QED  BY <2>2, <2>3, <2>4, <2>5, Codes DEF Incident
<1>5. CASE i \in ArtifactIncidents
  <2>1. PICK s \in sLost : /\ \E n \in LiveRuns(s) : sRun[n].result = "ok"
                           /\ i = Found("artifact_invalid", Latest({n \in LiveRuns(s) : sRun[n].result = "ok"}),
                                        <<>>, sBook.stage = 3)
    BY <1>5 DEF ArtifactIncidents
  <2> DEFINE S == {n \in LiveRuns(s) : sRun[n].result = "ok"}
  <2>2. S \in SUBSET (1..Len(sRun)) /\ S # {}
    BY <2>1, RunsType
  <2> HIDE DEF S
  <2>3. Latest(S) \in Nat /\ Latest(S) <= Len(sRun)
    BY <2>2, LatestRun
  <2>4. i = [kind |-> "artifact_invalid", run |-> Latest(S), fp |-> <<>>, park |-> "",
             protected |-> (sBook.stage = 3) \/ Paused]
    BY <2>1 DEF S, Found
  <2> QED  BY <1>1, <2>3, <2>4, Codes DEF Incident
<1> QED  BY <1>2, <1>3, <1>4, <1>5 DEF Classify

-----------------------------------------------------------------------------
(* What is decided.                                                        *)

LEMMA PlannedType == ASSUME NEW i \in Incident, NEW p \in SupPolicy PROVE PlannedAction(i, p) \in Action
<1>1. i.kind \in SupKind
  BY DEF Incident
<1> QED  BY <1>1 DEF PlannedAction, Action, Recovery, SupKind, FailureKind, HealthKind

(* The cap stops an automatic recovery of an incident that is not          *)
(* protected.                                                              *)
LEMMA DecideObeysCap ==
    ASSUME NEW i \in Incident, NEW attempts \in Nat, NEW recoveries \in Nat, NEW p \in SupPolicy
    PROVE  LET d == Decide(i, attempts, recoveries, p)
           IN  /\ d.action \in Action /\ d.automatic \in BOOLEAN /\ d.approval \in BOOLEAN
               /\ d.automatic => d.action # "ask_model"
               /\ d.automatic /\ d.action \in Recovery /\ ~i.protected => recoveries < SupAttempts
<1> DEFINE plan     == PlannedAction(i, p)
           escalate == FamilySpent(i, plan, attempts) \/ CapBinds(plan, recoveries, i.protected, p)
           action   == IF escalate THEN "park_escalate" ELSE plan
           approval == escalate \/ plan = "park_escalate" \/ (i.kind = "parked_recovery" /\ plan = "observe")
           automatic == /\ p.auto /\ ~i.protected
                        /\ action \notin {"observe", "ask_model"}
                        /\ ~approval \/ (action = "park_escalate" /\ i.kind # "no_progress")
<1>1. Decide(i, attempts, recoveries, p) = [action |-> action, approval |-> approval, automatic |-> automatic]
  BY DEF Decide
<1>2. plan \in Action
  BY PlannedType
<1>3. action \in Action /\ approval \in BOOLEAN /\ automatic \in BOOLEAN /\ (automatic => action # "ask_model")
  BY <1>2 DEF Action
<1>4. automatic /\ action \in Recovery /\ ~i.protected => recoveries < SupAttempts
  BY SupConstants DEF CapBinds, Recovery
<1> HIDE DEF plan, escalate, action, approval, automatic
<1> QED  BY <1>1, <1>3, <1>4

-----------------------------------------------------------------------------
(* What a step does to its lane.                                           *)

LEMMA Idle ==
    /\ IdleLane \in LaneRec /\ IdleLane.pc = "idle" /\ IdleLane.made = 0
    /\ IdleLane.rep = 0 /\ IdleLane.mea = 0
    /\ IdleLane.inc = Question /\ Question \in Incident /\ Question.run = 0
<1>1. Question \in Incident /\ Question.run = 0
  BY EmptySeq, Codes DEF Question, Incident
<1>2. "observe" \in Action /\ "idle" \in LanePc
  BY DEF Action, LanePc
<1> QED  BY <1>1, <1>2 DEF IdleLane, LaneRec

LEMMA LaneType ==
    \A r \in LaneRec : /\ r.pc \in LanePc /\ r.inc \in Incident /\ r.action \in Action
                       /\ r.entry \in Nat /\ r.made \in Nat /\ r.left \in Int
                       /\ r.automatic \in BOOLEAN /\ r.approval \in BOOLEAN
                       /\ r.asked \in BOOLEAN /\ r.rep \in Nat /\ r.mea \in Nat
  BY DEF LaneRec

LEMMA IncidentType ==
    \A i \in Incident : i.kind \in SupKind /\ i.run \in Nat /\ i.fp \in Seq(Code) /\ i.protected \in BOOLEAN
  BY DEF Incident

OneLane(l, r) ==
    /\ sLane' \in [Lane -> LaneRec] /\ sLane'[l] = r
    /\ \A m \in Lane \ {l} : sLane'[m] = sLane[m]

LEMMA LaneSet ==
    ASSUME LanesTyped, NEW l \in Lane, NEW r \in LaneRec, sLane' = [sLane EXCEPT ![l] = r]
    PROVE  OneLane(l, r)
  BY DEF LanesTyped, OneLane

LEMMA Lanes == Checker \subseteq Lane /\ "ask" \in Lane /\ "ask" \notin Checker /\ Lane = Checker \cup {"ask"}
               /\ Nobody \notin Lane /\ Checker = {"tick", "manual"}
  BY DEF Lane, Checker, Nobody

LEMMA StartCheckDoes ==
    ASSUME LanesTyped, BookTyped, NEW l \in Checker, StartCheck(l)
    PROVE  LET r == [IdleLane EXCEPT !.pc = "confirm", !.active = Sample.active, !.runs = Sample.runs]
           IN  OneLane(l, r) /\ r.pc = "confirm" /\ r.made = 0 /\ r.inc = Question
               /\ r.active = (sWork # "none") /\ r.runs = Len(sRun)
<1> DEFINE r == [IdleLane EXCEPT !.pc = "confirm", !.active = Sample.active, !.runs = Sample.runs]
<1>1. Sample.active \in BOOLEAN /\ Sample.runs \in Nat /\ Sample.active = (sWork # "none") /\ Sample.runs = Len(sRun)
  BY RunsType DEF Sample
<1>2. r \in LaneRec /\ r.pc = "confirm" /\ r.made = 0 /\ r.inc = Question
      /\ r.active = Sample.active /\ r.runs = Sample.runs
  BY <1>1, Idle DEF LaneRec, LanePc
<1>3. sLane' = [sLane EXCEPT ![l] = r]
  BY DEF StartCheck
<1> HIDE DEF r
<1>4. OneLane(l, r)
  BY <1>2, <1>3, LaneSet, Lanes
<1> QED  BY <1>1, <1>2, <1>4 DEF r

LEMMA RestDoes ==
    ASSUME LanesTyped, NEW l \in Lane, Rest(l)
    PROVE  OneLane(l, IdleLane)
  BY Idle, LaneSet DEF Rest

(* A decision about an incident that was not handled before, within the    *)
(* cap.                                                                    *)
ConfirmsTo(l, r) ==
    /\ r \in LaneRec /\ r.pc = "record" /\ r.made = 0 /\ r.inc.run <= Len(sRun) /\ ~Seen(r.inc)
    /\ r.automatic /\ r.action \in Recovery /\ ~r.inc.protected => CountAutoRecoveries < SupAttempts
    /\ r.inc \in Classify([active |-> sLane[l].active, runs |-> sLane[l].runs])
    /\ r.automatic => r.action # "ask_model"

LEMMA CountsAreNat ==
    ASSUME LanesTyped, NEW i
    PROVE  FamilyCount(i) \in Nat /\ CountAutoRecoveries \in Nat
<1>1. sLedger \in Seq(EntryRec) /\ Len(sLedger) \in Nat
  BY DEF LanesTyped
<1>2. CountAutoRecoveries \in Nat
  BY <1>1, CountedFinite, LedgerCounts
<1> DEFINE S == {n \in 1..Len(sLedger) : LET e == sLedger[n]
                    IN Handled(e) /\ e.kind = i.kind /\ e.fp = i.fp
                       /\ (e.run = 0 \/ i.run = 0 \/ sRun[e.run].stage = sRun[i.run].stage)}
<1>3. FamilyCount(i) = Cardinality(S) /\ S \in SUBSET (1..Len(sLedger))
  BY DEF FamilyCount
<1> HIDE DEF S
<1> QED  BY <1>1, <1>2, <1>3, SetOne

LEMMA ConfirmDoes ==
    ASSUME LanesTyped, BookTyped, NEW l \in Checker, Confirm(l)
    PROVE  \/ Rest(l) /\ sCheck' = IF sCheck = l THEN Nobody ELSE sCheck
           \/ /\ UNCHANGED sCheck
              /\ \E r : OneLane(l, r) /\ ConfirmsTo(l, r)
<1> DEFINE sample == [active |-> sLane[l].active, runs |-> sLane[l].runs]
           found  == {i \in Classify(sample) : IsPrimary(i, Classify(sample))}
<1>1. CASE EndCheck(l)
  BY <1>1 DEF EndCheck
<1>2. ASSUME UNCHANGED sCheck, NEW i \in {i \in found : ~Seen(i)},
             LET d == Decide(i, FamilyCount(i), CountAutoRecoveries, sPolicy)
             IN  sLane' = [sLane EXCEPT ![l] = [IdleLane EXCEPT !.pc = "record", !.inc = i,
                             !.action = d.action, !.automatic = d.automatic, !.approval = d.approval]]
      PROVE  \E r : OneLane(l, r) /\ ConfirmsTo(l, r)
  <2> DEFINE d == Decide(i, FamilyCount(i), CountAutoRecoveries, sPolicy)
             r == [IdleLane EXCEPT !.pc = "record", !.inc = i,
                             !.action = d.action, !.automatic = d.automatic, !.approval = d.approval]
  <2>1. i \in Classify(sample) /\ ~Seen(i)
    OBVIOUS
  <2>2. i \in Incident /\ i.run <= Len(sRun)
    BY <2>1, ClassifyType
  <2>3. /\ d.action \in Action /\ d.automatic \in BOOLEAN /\ d.approval \in BOOLEAN
        /\ d.automatic => d.action # "ask_model"
        /\ d.automatic /\ d.action \in Recovery /\ ~i.protected => CountAutoRecoveries < SupAttempts
    BY <2>2, CountsAreNat, DecideObeysCap DEF LanesTyped
  <2> HIDE DEF d
  <2>4. /\ r \in LaneRec /\ r.pc = "record" /\ r.made = 0 /\ r.inc = i
        /\ r.action = d.action /\ r.automatic = d.automatic
    BY <2>2, <2>3, Idle DEF LaneRec, LanePc
  <2>5. sLane' = [sLane EXCEPT ![l] = r]
    BY <1>2 DEF d
  <2> HIDE DEF r, sample
  <2>6. OneLane(l, r)
    BY <2>4, <2>5, LaneSet, Lanes
  <2>7. ConfirmsTo(l, r)
    BY <2>1, <2>2, <2>3, <2>4 DEF ConfirmsTo, sample
  <2> QED  BY <2>6, <2>7
<1> QED  BY <1>1, <1>2 DEF Confirm

(* The next program counter of a lane that keeps the rest.                 *)
LEMMA KeepsRest ==
    ASSUME LanesTyped, NEW l \in Lane, NEW pc \in LanePc,
           sLane' = [sLane EXCEPT ![l] = [@ EXCEPT !.pc = pc]]
    PROVE  OneLane(l, [sLane[l] EXCEPT !.pc = pc])
<1>1. sLane[l] \in LaneRec
  BY DEF LanesTyped
<1>2. [sLane[l] EXCEPT !.pc = pc] \in LaneRec
  BY <1>1 DEF LaneRec
<1>3. sLane' = [sLane EXCEPT ![l] = [sLane[l] EXCEPT !.pc = pc]]
  BY DEF LanesTyped
<1> QED  BY <1>2, <1>3, LaneSet

LEMMA RecordDoes ==
    ASSUME LanesTyped, NEW l \in Checker, RecordDecision(l)
    PROVE  LET e == Entry(l, sLane[l].inc, [action |-> sLane[l].action, automatic |-> sLane[l].automatic])
           IN  /\ e \in EntryRec /\ e.by = l /\ e.state = "decided" /\ e.calls = 0
               /\ <<e.kind, e.run, e.fp>> = <<sLane[l].inc.kind, sLane[l].inc.run, sLane[l].inc.fp>>
               /\ sLedger' = Append(sLedger, e)
               /\ \E pc \in {"model", "apply", "finish"} :
                     /\ OneLane(l, [sLane[l] EXCEPT !.pc = pc, !.entry = Len(sLedger) + 1])
                     /\ pc = "apply" => sLane[l].automatic
                     /\ pc = "model" => sLane[l].action = "ask_model"
<1>1. sLane[l] \in LaneRec /\ sLane[l].inc \in Incident /\ Len(sLedger) + 1 \in Nat /\ l \in Lane
      /\ sLane \in [Lane -> LaneRec]
  BY Lanes, LaneType DEF LanesTyped
<1> DEFINE d == [action |-> sLane[l].action, automatic |-> sLane[l].automatic]
           e == Entry(l, sLane[l].inc, d)
<1>2. /\ e \in EntryRec /\ e.by = l /\ e.state = "decided" /\ e.calls = 0
      /\ <<e.kind, e.run, e.fp>> = <<sLane[l].inc.kind, sLane[l].inc.run, sLane[l].inc.fp>>
  BY <1>1, LaneType, IncidentType DEF Entry, EntryRec, EntryState
<1>3. sLedger' = Append(sLedger, e)
  BY DEF RecordDecision
<1> DEFINE pc == IF d.action = "ask_model" THEN "model" ELSE IF d.automatic THEN "apply" ELSE "finish"
<1>4. pc \in {"model", "apply", "finish"} /\ pc \in LanePc
      /\ (pc = "apply" => sLane[l].automatic) /\ (pc = "model" => sLane[l].action = "ask_model")
  BY DEF LanePc
<1>5. sLane' = [sLane EXCEPT ![l].entry = Len(sLedger) + 1, ![l].pc = pc]
  BY DEF RecordDecision
<1> HIDE DEF pc, e
<1> DEFINE r == [sLane[l] EXCEPT !.pc = pc, !.entry = Len(sLedger) + 1]
<1>6. r \in LaneRec /\ sLane' = [sLane EXCEPT ![l] = r]
  BY <1>1, <1>4, <1>5 DEF LaneRec
<1>7. OneLane(l, r)
  BY <1>1, <1>6, LaneSet
<1> QED  BY <1>2, <1>3, <1>4, <1>7 DEF e

LEMMA ApplyDoes ==
    ASSUME LanesTyped, NEW l \in Lane, ApplyAction(l)
    PROVE  \E pc \in {"applied", "failed"} :
              /\ OneLane(l, [sLane[l] EXCEPT !.pc = pc])
              /\ sGhost' = [sGhost EXCEPT !.applied = @ + One(/\ pc = "applied" /\ sLane[l].action \in Recovery
                                                              /\ ~sLane[l].inc.protected)]
<1> DEFINE pc == IF Refused(sLane[l].action) THEN "failed" ELSE "applied"
<1>1. sLane' = [sLane EXCEPT ![l] = [@ EXCEPT !.pc = pc]] /\ pc \in LanePc /\ pc \in {"applied", "failed"}
  BY DEF ApplyAction, LanePc
<1>2. OneLane(l, [sLane[l] EXCEPT !.pc = pc])
  BY <1>1, KeepsRest
<1>3. sGhost' = [sGhost EXCEPT !.applied = @ + One(/\ pc = "applied" /\ sLane[l].action \in Recovery
                                                   /\ ~sLane[l].inc.protected)]
  BY DEF ApplyAction, One, LanesTyped
<1> QED  BY <1>1, <1>2, <1>3

(* The diagnosis is refused, or begins within both budgets.                *)
Begun(l, r) ==
    /\ r \in LaneRec /\ r.pc \in {"call", "finish"} /\ r.asked
    /\ r.entry = sLane[l].entry /\ r.inc = sLane[l].inc /\ r.made = sLane[l].made
    /\ r.rep = sLane[l].rep /\ r.mea = sLane[l].mea
    /\ r.pc = "call" => /\ r.left >= 1 /\ r.left <= SupModelCalls /\ CallsThisHour + r.left <= SupHourly
                        /\ ~UnknownCost /\ Affordable(SupervisorSpend)

LEMMA BeginDoes ==
    ASSUME LanesTyped, Spending, NEW l \in Lane, BeginDiagnosis(l)
    PROVE  \E r : OneLane(l, r) /\ Begun(l, r)
<1>1. sLane[l] \in LaneRec /\ sLane \in [Lane -> LaneRec]
  BY DEF LanesTyped
<1> DEFINE pc   == IF ModelBudgetAllows THEN "call" ELSE "finish"
           left == Smaller(SupModelCalls, SupHourly - CallsThisHour)
           r    == [sLane[l] EXCEPT !.asked = TRUE, !.pc = pc, !.left = left]
<1>2. CallsThisHour \in Nat
  BY CallsFinite, LedgerCounts DEF LanesTyped, Spending
<1>3. left \in Int /\ left <= SupModelCalls /\ CallsThisHour + left <= SupHourly
      /\ (CallsThisHour < SupHourly => left >= 1)
  BY <1>2, SupConstants DEF Smaller
<1>4. pc \in LanePc /\ pc \in {"call", "finish"} /\ (pc = "call" => ModelBudgetAllows)
  BY DEF LanePc
<1>5. sLane' = [sLane EXCEPT ![l] = r]
  BY DEF BeginDiagnosis
<1> HIDE DEF pc, left
<1>6. r \in LaneRec /\ r.pc = pc /\ r.left = left /\ r.asked /\ r.entry = sLane[l].entry /\ r.inc = sLane[l].inc
      /\ r.made = sLane[l].made /\ r.rep = sLane[l].rep /\ r.mea = sLane[l].mea
  BY <1>1, <1>3, <1>4 DEF LaneRec
<1> HIDE DEF r
<1>7. OneLane(l, r)
  BY <1>5, <1>6, LaneSet
<1>8. Begun(l, r)
  BY <1>3, <1>4, <1>6 DEF Begun, ModelBudgetAllows
<1> QED  BY <1>7, <1>8

(* One call more, and then another one within the budgets, or the advice   *)
(* within the cap, or nothing.                                             *)
Called(l, r) ==
    /\ r \in LaneRec /\ r.pc \in {"call", "failed", "apply", "finish"}
    /\ r.made = sLane[l].made + 1 /\ r.entry = sLane[l].entry /\ r.inc = sLane[l].inc
    /\ r.rep - sLane[l].rep \in {0, 1} /\ r.mea - sLane[l].mea \in {0, 1} /\ r.asked = sLane[l].asked
    /\ sGhost' = [sGhost EXCEPT !.calls = @ + 1, !.reported = @ + (r.rep - sLane[l].rep)]
    /\ r.pc = "call" => /\ r.left = sLane[l].left - 1 /\ r.left >= 1
                        /\ Affordable(SupervisorSpend + UsageCost(r))
    /\ r.pc = "apply" => /\ r.automatic
                         /\ r.action \in Recovery /\ ~r.inc.protected => CountAutoRecoveries < SupAttempts

LEMMA DiagnoseDoes ==
    ASSUME LanesTyped, NEW l \in Lane, Diagnose(l)
    PROVE  \E r : OneLane(l, r) /\ Called(l, r)
<1>0. sLane[l] \in LaneRec /\ sLane[l].left \in Int /\ sLane[l].made \in Nat /\ sPolicy \in SupPolicy
      /\ sLane[l].rep \in Nat /\ sLane[l].mea \in Nat /\ CountAutoRecoveries \in Nat
  BY LaneType, CountsAreNat DEF LanesTyped
<1>1. PICK rep \in {0, 1}, mea \in {0, 1} :
        /\ sGhost' = [sGhost EXCEPT !.calls = @ + 1, !.reported = @ + rep]
        /\ LET called == AfterCall(sLane[l], rep, mea)
           IN  \/ sLane' = [sLane EXCEPT ![l] =
                      [called EXCEPT !.pc = IF MayRetry(called) THEN "call" ELSE "failed"]]
               \/ \E action \in {"retry", "park_escalate"}, human \in BOOLEAN :
                      sLane' = [sLane EXCEPT ![l] = Advised(called, action, human)]
  BY DEF Diagnose
<1> DEFINE called == AfterCall(sLane[l], rep, mea)
<1>2. /\ called \in LaneRec /\ called.made = sLane[l].made + 1 /\ called.left = sLane[l].left - 1
      /\ called.inc = sLane[l].inc /\ called.entry = sLane[l].entry /\ called.asked = sLane[l].asked
      /\ called.rep = sLane[l].rep + rep /\ called.mea = sLane[l].mea + mea
  <2> DEFINE a == sLane[l].made + 1  b == sLane[l].left - 1  c == sLane[l].rep + rep  d == sLane[l].mea + mea
  <2>1. called = [sLane[l] EXCEPT !.made = a, !.left = b, !.rep = c, !.mea = d]
    BY DEF AfterCall
  <2>2. a \in Nat /\ b \in Int /\ c \in Nat /\ d \in Nat
    BY <1>0
  <2> HIDE DEF called, a, b, c, d
  <2>3. /\ called \in LaneRec /\ called.made = a /\ called.left = b /\ called.rep = c /\ called.mea = d
        /\ called.inc = sLane[l].inc /\ called.entry = sLane[l].entry /\ called.asked = sLane[l].asked
    BY <1>0, <2>1, <2>2 DEF LaneRec
  <2> QED  BY <2>3 DEF a, b, c, d
<1>5. ASSUME NEW r, r.rep = called.rep, r.mea = called.mea
      PROVE  /\ r.rep - sLane[l].rep \in {0, 1} /\ r.mea - sLane[l].mea \in {0, 1}
             /\ sGhost' = [sGhost EXCEPT !.calls = @ + 1, !.reported = @ + (r.rep - sLane[l].rep)]
  <2>1. \A x \in Nat : \A y \in {0, 1} : (x + y) - x = y
    OBVIOUS
  <2>2. r.rep - sLane[l].rep = rep /\ r.mea - sLane[l].mea = mea
    BY <1>0, <1>2, <1>5, <2>1
  <2> QED  BY <1>1, <2>2
<1>3. CASE sLane' = [sLane EXCEPT ![l] = [called EXCEPT !.pc = IF MayRetry(called) THEN "call" ELSE "failed"]]
  <2> DEFINE pc == IF MayRetry(called) THEN "call" ELSE "failed"
             r  == [called EXCEPT !.pc = pc]
  <2>1. pc \in {"call", "failed"} /\ (pc = "call" => MayRetry(called))
    OBVIOUS
  <2>2. sLane' = [sLane EXCEPT ![l] = r]
    BY <1>3
  <2> HIDE DEF pc, called
  <2>3. r \in LaneRec /\ r.pc = pc /\ r.made = called.made /\ r.left = called.left /\ r.inc = called.inc
        /\ r.entry = called.entry /\ r.asked = called.asked /\ r.rep = called.rep /\ r.mea = called.mea
    BY <1>2, <2>1 DEF LaneRec, LanePc
  <2>4. OneLane(l, r)
    BY <2>2, <2>3, LaneSet
  <2> HIDE DEF r
  <2>5. UsageCost(r) = UsageCost(called)
    BY <2>3 DEF UsageCost
  <2>7. r.pc = "call" => /\ r.left = sLane[l].left - 1 /\ r.left >= 1
                         /\ Affordable(SupervisorSpend + UsageCost(r))
    BY <1>0, <1>2, <2>1, <2>3, <2>5 DEF MayRetry
  <2>8. /\ r.rep - sLane[l].rep \in {0, 1} /\ r.mea - sLane[l].mea \in {0, 1}
        /\ sGhost' = [sGhost EXCEPT !.calls = @ + 1, !.reported = @ + (r.rep - sLane[l].rep)]
    BY <1>5, <2>3
  <2>6. Called(l, r)
    BY <1>2, <2>1, <2>3, <2>7, <2>8 DEF Called
  <2> QED  BY <2>4, <2>6
<1>4. ASSUME NEW advice \in {"retry", "park_escalate"}, NEW human \in BOOLEAN,
             sLane' = [sLane EXCEPT ![l] = Advised(called, advice, human)]
      PROVE  \E r : OneLane(l, r) /\ Called(l, r)
  <2> DEFINE auto   == sPolicy.auto /\ sPolicy.modelAuto /\ ~human
             capped == auto /\ CapBinds(advice, CountAutoRecoveries, called.inc.protected, sPolicy)
             action == IF capped THEN "park_escalate" ELSE advice
             approval == human \/ capped
             goes   == auto /\ ~capped
             pc     == IF goes THEN "apply" ELSE "finish"
             r      == [called EXCEPT !.action = action, !.approval = approval, !.automatic = goes, !.pc = pc]
  <2>1. action \in Action /\ approval \in BOOLEAN /\ goes \in BOOLEAN /\ pc \in {"apply", "finish"} /\ (pc = "apply" => goes)
    BY DEF Action, Recovery
  <2>2. goes /\ action \in Recovery /\ ~sLane[l].inc.protected => CountAutoRecoveries < SupAttempts
    <3>1. sPolicy.auto => (~capped => ~auto \/ ~(CountAutoRecoveries >= SupAttempts) \/ action \notin Recovery \/ sLane[l].inc.protected)
      BY <1>2 DEF CapBinds
    <3> QED  BY <1>0, <3>1, SupConstants
  <2>3. sLane' = [sLane EXCEPT ![l] = r]
    BY <1>4 DEF Advised
  <2> HIDE DEF action, approval, goes, pc, called
  <2>4. r \in LaneRec /\ r.pc = pc /\ r.made = called.made /\ r.inc = called.inc /\ r.entry = called.entry
        /\ r.action = action /\ r.automatic = goes /\ r.asked = called.asked /\ r.rep = called.rep /\ r.mea = called.mea
    BY <1>2, <2>1 DEF LaneRec, LanePc
  <2>5. OneLane(l, r)
    BY <2>3, <2>4, LaneSet
  <2> HIDE DEF r
  <2>7. /\ r.rep - sLane[l].rep \in {0, 1} /\ r.mea - sLane[l].mea \in {0, 1}
        /\ sGhost' = [sGhost EXCEPT !.calls = @ + 1, !.reported = @ + (r.rep - sLane[l].rep)]
    BY <1>5, <2>4
  <2>6. Called(l, r)
    BY <1>2, <2>1, <2>2, <2>4, <2>7 DEF Called
  <2> QED  BY <2>5, <2>6
<1> QED  BY <1>1, <1>3, <1>4, Zenon

(* The entry gets its outcome and its calls; what it is about stays.       *)
Closed(l, e) ==
    LET was == sLedger[sLane[l].entry]
    IN  /\ e \in EntryRec /\ e.by = was.by /\ e.kind = was.kind /\ e.run = was.run /\ e.fp = was.fp
        /\ e.calls = sLane[l].made /\ e.automatic = sLane[l].automatic /\ e.action = sLane[l].action
        /\ e.asked = sLane[l].asked /\ e.rep = sLane[l].rep /\ e.mea = sLane[l].mea
        /\ e.state = "completed" <=> sLane[l].pc = "applied"

LEMMA FinishDoes ==
    ASSUME LanesTyped, OpenEntries, NEW l \in Lane, Finish(l)
    PROVE  /\ OneLane(l, IdleLane)
           /\ \E e : Closed(l, e) /\ sLedger' = [sLedger EXCEPT ![sLane[l].entry] = e]
<1> DEFINE was == sLedger[sLane[l].entry]
           e   == [was EXCEPT !.state = Outcome(l), !.action = sLane[l].action, !.automatic = sLane[l].automatic,
                              !.asked = sLane[l].asked, !.calls = sLane[l].made,
                              !.rep = sLane[l].rep, !.mea = sLane[l].mea]
<1>1. OneLane(l, IdleLane)
  BY RestDoes DEF Finish, EndCheck
<1>2. sLane[l].entry \in 1..Len(sLedger) /\ was \in EntryRec /\ sLane[l] \in LaneRec
  BY DEF LanesTyped, OpenEntries, Decided, Finish
<1>3. Outcome(l) \in EntryState /\ (Outcome(l) = "completed" <=> sLane[l].pc = "applied")
  BY DEF Outcome, EntryState
<1>4. Closed(l, e)
  <2>1. sLane[l].action \in Action /\ sLane[l].automatic \in BOOLEAN /\ sLane[l].made \in Nat
        /\ sLane[l].asked \in BOOLEAN /\ sLane[l].rep \in Nat /\ sLane[l].mea \in Nat
    BY <1>2, LaneType
  <2> HIDE DEF was
  <2>2. /\ e \in EntryRec /\ e.by = was.by /\ e.kind = was.kind /\ e.run = was.run /\ e.fp = was.fp
        /\ e.calls = sLane[l].made /\ e.automatic = sLane[l].automatic /\ e.action = sLane[l].action
        /\ e.asked = sLane[l].asked /\ e.rep = sLane[l].rep /\ e.mea = sLane[l].mea
        /\ e.state = Outcome(l)
    BY <1>2, <1>3, <2>1 DEF EntryRec
  <2> HIDE DEF e
  <2> QED  BY <1>3, <2>2 DEF Closed, was
<1>5. sLedger' = [sLedger EXCEPT ![sLane[l].entry] = e]
  BY <1>2 DEF Finish, LanesTyped
<1> QED  BY <1>1, <1>4, <1>5

LEMMA AskDoes ==
    ASSUME LanesTyped, Ask
    PROVE  LET e == Entry("ask", Question, [action |-> "ask_model", automatic |-> FALSE])
           IN  /\ e \in EntryRec /\ e.by = "ask" /\ e.state = "decided" /\ e.calls = 0 /\ e.run = 0
               /\ sLedger' = Append(sLedger, e)
               /\ OneLane("ask", [IdleLane EXCEPT !.pc = "model", !.entry = Len(sLedger) + 1])
<1> DEFINE e == Entry("ask", Question, [action |-> "ask_model", automatic |-> FALSE])
           r == [IdleLane EXCEPT !.pc = "model", !.entry = Len(sLedger) + 1]
<1>1. "ask_model" \in Action /\ Len(sLedger) + 1 \in Nat
  BY DEF Action, LanesTyped
<1>2. e \in EntryRec /\ e.by = "ask" /\ e.state = "decided" /\ e.calls = 0 /\ e.run = 0
  BY <1>1, Idle, Lanes, IncidentType DEF Entry, EntryRec, EntryState
<1>3. r \in LaneRec
  BY <1>1, Idle DEF LaneRec, LanePc
<1>4. OneLane("ask", r)
  BY <1>3, Lanes, LaneSet DEF Ask
<1> QED  BY <1>2, <1>4 DEF Ask

-----------------------------------------------------------------------------
(* The lanes and the ledger: one step after the other.                     *)

(* The steps of the book leave lanes and ledger alone.                     *)
BookStep == Admit \/ OpenStageRun \/ StageEnds \/ Trouble \/ Operate

LEMMA BookStepLeaves ==
    ASSUME LanesTyped, BookStep
    PROVE  /\ UNCHANGED <<sLedger, sLane, sCheck, sModel, sGhost, sPolicy>>
           /\ sLeft' \in [asks : Nat, events : Nat] /\ sLeft'.asks = sLeft.asks
<1>1. BookOnly /\ (UNCHANGED sLeft \/ Event)
  BY Zenon DEF BookStep, Admit, OpenStageRun, StageEnds, Trouble, Operate
<1>2. UNCHANGED <<sLedger, sLane, sCheck, sModel, sGhost, sPolicy>>
  BY <1>1 DEF BookOnly, SupConst
<1>3. sLeft \in [asks : Nat, events : Nat]
  BY DEF LanesTyped
<1>4. sLeft' \in [asks : Nat, events : Nat] /\ sLeft'.asks = sLeft.asks
  BY <1>1, <1>3 DEF Event
<1> QED  BY <1>2, <1>4

LEMMA CrashLeaves ==
    ASSUME LanesTyped, SupCrash
    PROVE  /\ sLane' \in [Lane -> LaneRec] /\ \A l \in Lane : sLane'[l] = IdleLane
           /\ sCheck' = Nobody /\ sModel' = Nobody /\ UNCHANGED <<sLedger, sPolicy>>
           /\ sLeft' \in [asks : Nat, events : Nat] /\ sLeft'.asks = sLeft.asks
           /\ Cardinality(Uncounted) \in Nat /\ Made \in Nat
           /\ sGhost' \in [applied : Nat, uncounted : Nat, calls : Nat, reported : Nat, lostCalls : Nat]
           /\ sGhost'.applied = sGhost.applied /\ sGhost'.uncounted = sGhost.uncounted + Cardinality(Uncounted)
           /\ sGhost'.calls = sGhost.calls /\ sGhost'.lostCalls = sGhost.lostCalls + Made
<1>0. sLane \in [Lane -> LaneRec] /\ sGhost \in [applied : Nat, uncounted : Nat, calls : Nat, reported : Nat, lostCalls : Nat]
      /\ sLeft \in [asks : Nat, events : Nat]
  BY DEF LanesTyped
<1>1. Cardinality(Uncounted) \in Nat
  <2>1. Uncounted \in SUBSET Lane /\ Lane = {"tick", "manual", "ask"}
    BY DEF Uncounted, Lane, Checker
  <2>2. IsFiniteSet({"tick"}) /\ IsFiniteSet({"tick"} \cup {"manual"})
    BY FS_Singleton, FS_AddElement
  <2>3. IsFiniteSet({"tick"} \cup {"manual"} \cup {"ask"}) /\ Lane = {"tick"} \cup {"manual"} \cup {"ask"}
    BY <2>1, <2>2, FS_AddElement
  <2>4. IsFiniteSet(Lane)
    BY <2>3
  <2> QED  BY <2>1, <2>4, FS_Subset, FS_CardinalityType
<1>2. \A l \in Lane : sLane[l].made \in Nat
  BY <1>0, LaneType
<1>3. Made \in Nat
  BY <1>2, Lanes DEF Made
<1>4. sGhost' = [sGhost EXCEPT !.uncounted = @ + Cardinality(Uncounted), !.lostCalls = @ + Made]
  <2>1. sGhost.lostCalls \in Nat
    BY <1>0
  <2>2. sGhost.lostCalls + Lost("tick") + Lost("manual") + Lost("ask") = sGhost.lostCalls + Made
    BY <1>2, <2>1, Lanes DEF Lost, Made
  <2> QED  BY <2>2 DEF SupCrash
<1>5. /\ sGhost' \in [applied : Nat, uncounted : Nat, calls : Nat, reported : Nat, lostCalls : Nat]
      /\ sGhost'.applied = sGhost.applied /\ sGhost'.uncounted = sGhost.uncounted + Cardinality(Uncounted)
      /\ sGhost'.calls = sGhost.calls /\ sGhost'.lostCalls = sGhost.lostCalls + Made
  <2>1. ASSUME NEW u \in Nat, NEW m \in Nat, sGhost' = [sGhost EXCEPT !.uncounted = @ + u, !.lostCalls = @ + m]
        PROVE  /\ sGhost' \in [applied : Nat, uncounted : Nat, calls : Nat, reported : Nat, lostCalls : Nat]
               /\ sGhost'.applied = sGhost.applied /\ sGhost'.uncounted = sGhost.uncounted + u
               /\ sGhost'.calls = sGhost.calls /\ sGhost'.lostCalls = sGhost.lostCalls + m
    <3> DEFINE a == sGhost.uncounted + u  b == sGhost.lostCalls + m
    <3>1. a \in Nat /\ b \in Nat
      BY <1>0
    <3>2. sGhost' = [sGhost EXCEPT !.uncounted = a, !.lostCalls = b]
      BY <1>0, <2>1
    <3> HIDE DEF a, b
    <3>3. /\ sGhost' \in [applied : Nat, uncounted : Nat, calls : Nat, reported : Nat, lostCalls : Nat]
          /\ sGhost'.applied = sGhost.applied /\ sGhost'.uncounted = a
          /\ sGhost'.calls = sGhost.calls /\ sGhost'.lostCalls = b
      BY <1>0, <3>1, <3>2
    <3> QED  BY <3>3 DEF a, b
  <2> QED  BY <1>1, <1>3, <1>4, <2>1
<1>6. sLane' \in [Lane -> LaneRec] /\ \A l \in Lane : sLane'[l] = IdleLane
  BY Idle DEF SupCrash
<1>7. sLeft' \in [asks : Nat, events : Nat] /\ sLeft'.asks = sLeft.asks
  BY <1>0 DEF SupCrash, Event
<1> QED  BY <1>1, <1>3, <1>5, <1>6, <1>7 DEF SupCrash, SupConst

(* Only one check is under way.                                            *)
LEMMA OneCheck ==
    ASSUME Locked, NEW l \in Checker, sLane[l].pc # "idle"
    PROVE  sCheck = l /\ \A m \in Checker \ {l} : sLane[m].pc = "idle"
  BY DEF Locked

LEMMA StartCheckKeepsOnce ==
    ASSUME OnceInv, BookTyped, NEW l \in Checker, StartCheck(l)
    PROVE  OnceInv'
<1>0. LanesTyped /\ Locked /\ OpenEntries /\ FreshDecision /\ IncidentHandledOnce
  BY DEF OnceInv
<1>1. PICK r : OneLane(l, r) /\ r.pc = "confirm" /\ r.made = 0
  BY <1>0, StartCheckDoes
<1>2. sCheck = Nobody /\ sCheck' = l /\ UNCHANGED <<sLedger, sModel, sGhost, sLeft, sPolicy>>
  BY DEF StartCheck, SupConst
<1>3. LanesTyped'
  BY <1>0, <1>1, <1>2, Lanes DEF LanesTyped, OneLane
<1>4. Locked'
  BY <1>0, <1>1, <1>2, Lanes DEF Locked, OneLane
<1>5. OpenEntries' /\ FreshDecision' /\ IncidentHandledOnce'
  BY <1>0, <1>1, <1>2, Lanes DEF OpenEntries, FreshDecision, IncidentHandledOnce, OneLane, Decided, Seen
<1> QED  BY <1>3, <1>4, <1>5 DEF OnceInv

LEMMA ConfirmKeepsOnce ==
    ASSUME OnceInv, BookTyped, NEW l \in Checker, Confirm(l)
    PROVE  OnceInv'
<1>0. LanesTyped /\ Locked /\ OpenEntries /\ FreshDecision /\ IncidentHandledOnce
  BY DEF OnceInv
<1>1. UNCHANGED <<sLedger, sModel, sGhost, sLeft, sPolicy>> /\ sLane[l].pc = "confirm"
  BY DEF Confirm, SupConst
<1>2. CASE Rest(l) /\ sCheck' = IF sCheck = l THEN Nobody ELSE sCheck
  <2>1. OneLane(l, IdleLane)
    BY <1>0, <1>2, RestDoes, Lanes
  <2>2. \A m \in Checker \ {l} : sLane[m].pc = "idle"
    BY <1>0, <1>1, OneCheck
  <2>3. LanesTyped' /\ Locked'
    BY <1>0, <1>1, <1>2, <2>1, <2>2, Idle, Lanes DEF LanesTyped, Locked, OneLane
  <2>4. OpenEntries' /\ FreshDecision' /\ IncidentHandledOnce'
    BY <1>0, <1>1, <2>1, Idle, Lanes DEF OpenEntries, FreshDecision, IncidentHandledOnce, OneLane, Decided, Seen
  <2> QED  BY <2>3, <2>4 DEF OnceInv
<1>3. ASSUME UNCHANGED sCheck, NEW r, OneLane(l, r), ConfirmsTo(l, r) PROVE OnceInv'
  <2>1. r.pc = "record" /\ r.made = 0 /\ ~Seen(r.inc)
    BY <1>3 DEF ConfirmsTo
  <2>2. LanesTyped' /\ Locked'
    BY <1>0, <1>1, <1>3, <2>1, Lanes DEF LanesTyped, Locked, OneLane
  <2>3. OpenEntries' /\ IncidentHandledOnce'
    BY <1>0, <1>1, <1>3, <2>1, Lanes DEF OpenEntries, IncidentHandledOnce, OneLane, Decided
  <2>4. FreshDecision'
    BY <1>0, <1>1, <1>3, <2>1, Lanes DEF FreshDecision, OneLane, Seen
  <2> QED  BY <2>2, <2>3, <2>4 DEF OnceInv
<1> QED  BY <1>0, <1>2, <1>3, ConfirmDoes

LEMMA RecordKeepsOnce ==
    ASSUME OnceInv, NEW l \in Checker, RecordDecision(l)
    PROVE  OnceInv'
<1>0. LanesTyped /\ Locked /\ OpenEntries /\ FreshDecision /\ IncidentHandledOnce
  BY DEF OnceInv
<1>1. UNCHANGED <<sCheck, sModel, sGhost, sLeft, sPolicy>> /\ sLane[l].pc = "record" /\ sLane[l] \in LaneRec
  BY <1>0, Lanes DEF RecordDecision, SupConst, LanesTyped
<1>2. PICK e \in EntryRec : /\ e.by = l /\ e.state = "decided" /\ e.calls = 0 /\ sLedger' = Append(sLedger, e)
                            /\ <<e.kind, e.run, e.fp>> = <<sLane[l].inc.kind, sLane[l].inc.run, sLane[l].inc.fp>>
  <2> DEFINE d == Entry(l, sLane[l].inc, [action |-> sLane[l].action, automatic |-> sLane[l].automatic])
  <2>1. /\ d \in EntryRec /\ d.by = l /\ d.state = "decided" /\ d.calls = 0 /\ sLedger' = Append(sLedger, d)
        /\ <<d.kind, d.run, d.fp>> = <<sLane[l].inc.kind, sLane[l].inc.run, sLane[l].inc.fp>>
    BY <1>0, RecordDoes
  <2> HIDE DEF d
  <2> QED  BY <2>1
<1>3. PICK pc \in {"model", "apply", "finish"} :
          /\ OneLane(l, [sLane[l] EXCEPT !.pc = pc, !.entry = Len(sLedger) + 1])
          /\ pc = "apply" => sLane[l].automatic
  BY <1>0, RecordDoes
<1>4. /\ sLane' \in [Lane -> LaneRec] /\ sLane'[l].pc = pc /\ sLane'[l].entry = Len(sLedger) + 1
      /\ sLane'[l].made = sLane[l].made /\ sLane'[l].automatic = sLane[l].automatic
      /\ \A m \in Lane \ {l} : sLane'[m] = sLane[m]
  BY <1>1, <1>3 DEF OneLane, LaneRec
<1>5. /\ sLedger' \in Seq(EntryRec) /\ Len(sLedger') = Len(sLedger) + 1 /\ Len(sLedger) \in Nat
      /\ \A n \in 1..Len(sLedger) : sLedger'[n] = sLedger[n]
      /\ sLedger'[Len(sLedger) + 1] = e
  BY <1>0, <1>2, RecordedCountsNothing DEF LanesTyped
<1>6. \A m \in Checker \ {l} : sLane[m].pc = "idle"
  BY <1>0, <1>1, OneCheck
<1>7. LanesTyped' /\ Locked'
  <2>1. LanesTyped'
    BY <1>0, <1>1, <1>4, <1>5 DEF LanesTyped
  <2>2. sLane'[l].pc \notin {"call", "idle"} /\ sLane[l].pc # "idle" /\ l \in Checker /\ l # "ask"
    BY <1>0, <1>1, <1>4, Lanes
  <2>3. \A m \in Lane : sLane'[m].pc = "call" \/ sLane'[m].made > 0 => sModel' = m
    BY <1>0, <1>1, <1>4, <2>2 DEF Locked
  <2>4. \A m \in Checker : sLane'[m].pc # "idle" => sCheck' = m
    BY <1>0, <1>1, <1>4, <2>2, Lanes DEF Locked
  <2>5. sLane'["ask"].pc \notin {"confirm", "record"}
    BY <1>0, <1>4, <2>2, Lanes DEF Locked
  <2> QED  BY <2>1, <2>3, <2>4, <2>5 DEF Locked
<1>8. OpenEntries'
  BY <1>0, <1>1, <1>2, <1>3, <1>4, <1>5, Lanes DEF OpenEntries, Decided
<1>9. FreshDecision'
  BY <1>3, <1>4, <1>6, Lanes DEF FreshDecision
<1>10. IncidentHandledOnce'
  <2>1. \A n \in 1..Len(sLedger) : Handled(sLedger[n]) =>
            <<sLedger[n].kind, sLedger[n].run, sLedger[n].fp>> # <<e.kind, e.run, e.fp>>
    BY <1>0, <1>1, <1>2 DEF FreshDecision, Seen
  <2>2. 1..Len(sLedger') = 1..Len(sLedger) \cup {Len(sLedger) + 1}
    BY <1>5
  <2>3. ASSUME NEW m \in 1..Len(sLedger'), NEW n \in 1..Len(sLedger'), m < n,
               Handled(sLedger'[m]), Handled(sLedger'[n])
        PROVE  <<sLedger'[m].kind, sLedger'[m].run, sLedger'[m].fp>>
                  # <<sLedger'[n].kind, sLedger'[n].run, sLedger'[n].fp>>
    <3>1. m \in 1..Len(sLedger)
      BY <1>5, <2>3
    <3>2. CASE n \in 1..Len(sLedger)
      BY <1>0, <1>5, <2>3, <3>1, <3>2 DEF IncidentHandledOnce
    <3>3. CASE n = Len(sLedger) + 1
      BY <1>5, <2>1, <2>3, <3>1, <3>3
    <3> QED  BY <2>2, <3>2, <3>3
  <2> QED  BY <2>3 DEF IncidentHandledOnce, Handled
<1> QED  BY <1>7, <1>8, <1>9, <1>10 DEF OnceInv

(* A lane that carries its decision out keeps entry and incident.          *)
LEMMA LaneKeepsOnce ==
    ASSUME OnceInv, NEW l \in Lane, NEW r, OneLane(l, r), UNCHANGED <<sLedger, sCheck, sPolicy, sLeft>>,
           sLane[l].pc \in Decided, r.pc \in Decided, r.entry = sLane[l].entry,
           r.pc = "call" \/ r.made > 0 => sModel' = l, r.pc = "model" => r.made = 0,
           r.pc \in {"apply", "applied"} => r.automatic,
           sModel' = sModel \/ (sModel = Nobody /\ sModel' = l),
           sGhost' \in [applied : Nat, uncounted : Nat, calls : Nat, reported : Nat, lostCalls : Nat]
    PROVE  OnceInv'
<1>0. LanesTyped /\ Locked /\ OpenEntries /\ FreshDecision /\ IncidentHandledOnce
  BY DEF OnceInv
<1>1. LanesTyped'
  BY <1>0, Lanes DEF LanesTyped, OneLane
<1>2. Locked'
  <2>1. \A m \in Lane \ {l} : sLane[m].pc = "call" \/ sLane[m].made > 0 => sModel' = m
    BY <1>0, Lanes DEF Locked
  <2> QED  BY <1>0, <2>1, Lanes DEF Locked, OneLane, Decided
<1>3. OpenEntries'
  <2>1. sLane'[l] = r /\ r.pc \notin {"idle", "confirm", "record"}
    BY DEF OneLane, Decided
  <2>2. \A m \in Lane \ {l} : sLane'[m] = sLane[m]
    BY DEF OneLane
  <2>3. /\ sLane'[l].entry \in 1..Len(sLedger)
        /\ LET e == sLedger[sLane'[l].entry] IN e.by = l /\ e.state = "decided" /\ e.calls = 0
    BY <1>0, <2>1 DEF OpenEntries
  <2>4. sLedger' = sLedger /\ (r.pc \in {"apply", "applied"} => r.automatic) /\ (r.pc = "model" => r.made = 0)
    OBVIOUS
  <2> QED  BY <1>0, <2>1, <2>2, <2>3, <2>4 DEF OpenEntries
<1>4. FreshDecision'
  <2>1. ASSUME NEW m \in Checker, sLane'[m].pc = "record" PROVE sLane[m].pc = "record" /\ sLane'[m].inc = sLane[m].inc
    BY <1>0, <2>1, Lanes DEF OneLane, Decided
  <2>2. ASSUME NEW i, ~Seen(i) PROVE ~Seen(i)'
    BY <2>2 DEF Seen, Handled
  <2> QED  BY <1>0, <2>1, <2>2 DEF FreshDecision
<1>5. IncidentHandledOnce'
  BY <1>0 DEF IncidentHandledOnce, Handled
<1> QED  BY <1>1, <1>2, <1>3, <1>4, <1>5 DEF OnceInv

LEMMA ApplyKeepsOnce ==
    ASSUME OnceInv, NEW l \in Lane, ApplyAction(l)
    PROVE  OnceInv'
<1>0. LanesTyped /\ Locked /\ OpenEntries /\ sLane[l].pc = "apply" /\ sLane[l] \in LaneRec
  BY DEF OnceInv, ApplyAction, LanesTyped
<1>1. PICK pc \in {"applied", "failed"} : OneLane(l, [sLane[l] EXCEPT !.pc = pc])
        /\ sGhost' = [sGhost EXCEPT !.applied = @ + One(/\ pc = "applied" /\ sLane[l].action \in Recovery
                                                        /\ ~sLane[l].inc.protected)]
  BY <1>0, ApplyDoes
<1> DEFINE r == [sLane[l] EXCEPT !.pc = pc]
<1>2. r.pc = pc /\ r.entry = sLane[l].entry /\ r.made = sLane[l].made /\ r.automatic = sLane[l].automatic
  BY <1>0 DEF LaneRec
<1>3. sLane[l].automatic /\ (sLane[l].made > 0 => sModel = l)
  BY <1>0 DEF OpenEntries, Locked
<1>4. sGhost' \in [applied : Nat, uncounted : Nat, calls : Nat, reported : Nat, lostCalls : Nat]
  <2>1. \A b : One(b) \in Nat
    BY DEF One
  <2>2. sGhost \in [applied : Nat, uncounted : Nat, calls : Nat, reported : Nat, lostCalls : Nat]
    BY <1>0 DEF LanesTyped
  <2>3. ASSUME NEW n \in Nat, sGhost' = [sGhost EXCEPT !.applied = @ + n]
        PROVE  sGhost' \in [applied : Nat, uncounted : Nat, calls : Nat, reported : Nat, lostCalls : Nat]
    BY <2>2, <2>3
  <2> QED  BY <1>1, <2>1, <2>3
<1>5. UNCHANGED <<sLedger, sCheck, sModel, sPolicy, sLeft>>
  BY DEF ApplyAction, SupConst
<1>6. sLane[l].pc \in Decided /\ pc \in Decided /\ pc \notin {"call", "model", "apply"}
  BY <1>0 DEF Decided
<1> HIDE DEF r
<1> QED  BY <1>1, <1>2, <1>3, <1>4, <1>5, <1>6, LaneKeepsOnce DEF r

LEMMA BeginKeepsOnce ==
    ASSUME OnceInv, Spending, NEW l \in Lane, BeginDiagnosis(l)
    PROVE  OnceInv'
<1>0. LanesTyped /\ OpenEntries /\ sLane[l].pc = "model" /\ sLane[l] \in LaneRec /\ sLane[l].made = 0
  BY DEF OnceInv, BeginDiagnosis, LanesTyped, OpenEntries
<1>1. sModel = Nobody /\ sModel' = l /\ UNCHANGED <<sLedger, sCheck, sPolicy, sLeft, sGhost>>
      /\ sGhost' \in [applied : Nat, uncounted : Nat, calls : Nat, reported : Nat, lostCalls : Nat]
  BY <1>0 DEF BeginDiagnosis, SupConst, LanesTyped
<1>2. PICK r : OneLane(l, r) /\ r.pc \in {"finish", "call"} /\ r.entry = sLane[l].entry /\ r.made = 0
  BY <1>0, BeginDoes DEF Begun
<1>3. sLane[l].pc \in Decided /\ r.pc \in Decided /\ r.pc \notin {"model", "apply", "applied"}
  BY <1>0, <1>2 DEF Decided
<1> QED  BY <1>1, <1>2, <1>3, LaneKeepsOnce

LEMMA DiagnoseKeepsOnce ==
    ASSUME OnceInv, NEW l \in Lane, Diagnose(l)
    PROVE  OnceInv'
<1>0. LanesTyped /\ Locked /\ sLane[l].pc = "call" /\ sModel = l
  BY DEF OnceInv, Diagnose, Locked
<1>1. PICK r : OneLane(l, r) /\ Called(l, r)
  BY <1>0, DiagnoseDoes
<1>2. sModel' = sModel /\ UNCHANGED <<sLedger, sCheck, sPolicy, sLeft>>
      /\ \E rep \in {0, 1} : sGhost' = [sGhost EXCEPT !.calls = @ + 1, !.reported = @ + rep]
  BY DEF Diagnose, SupConst
<1>3. sGhost' \in [applied : Nat, uncounted : Nat, calls : Nat, reported : Nat, lostCalls : Nat]
  <2>1. PICK rep \in {0, 1} : sGhost' = [sGhost EXCEPT !.calls = @ + 1, !.reported = @ + rep]
    BY <1>2
  <2>2. sGhost \in [applied : Nat, uncounted : Nat, calls : Nat, reported : Nat, lostCalls : Nat]
    BY <1>0 DEF LanesTyped
  <2>3. sGhost.calls + 1 \in Nat /\ sGhost.reported + rep \in Nat
    BY <2>2
  <2> QED  BY <2>1, <2>2, <2>3
<1>4. sLane[l].pc \in Decided /\ r.pc \in Decided /\ r.pc \notin {"model", "applied"} /\ r.entry = sLane[l].entry
      /\ (r.pc = "apply" => r.automatic)
  BY <1>0, <1>1 DEF Decided, Called
<1> QED  BY <1>0, <1>1, <1>2, <1>3, <1>4, LaneKeepsOnce

LEMMA FinishKeepsOnce ==
    ASSUME OnceInv, Spending, NEW l \in Lane, Finish(l)
    PROVE  OnceInv'
<1>0. LanesTyped /\ Locked /\ OpenEntries /\ FreshDecision /\ IncidentHandledOnce
  BY DEF OnceInv
<1>1. OneLane(l, IdleLane) /\ \E e : Closed(l, e) /\ sLedger' = [sLedger EXCEPT ![sLane[l].entry] = e]
  BY <1>0, FinishDoes
<1>2. PICK e : Closed(l, e) /\ sLedger' = [sLedger EXCEPT ![sLane[l].entry] = e]
  BY <1>1
<1> DEFINE k == sLane[l].entry
<1>3. k \in 1..Len(sLedger) /\ sLedger[k].by = l /\ e \in EntryRec
      /\ e.by = l /\ e.kind = sLedger[k].kind /\ e.run = sLedger[k].run /\ e.fp = sLedger[k].fp
  BY <1>0, <1>2 DEF OpenEntries, Finish, Decided, Closed
<1>4. /\ sLedger' \in Seq(EntryRec) /\ Len(sLedger') = Len(sLedger)
      /\ \A n \in 1..Len(sLedger) : sLedger'[n] = IF n = k THEN e ELSE sLedger[n]
  BY <1>0, <1>2, <1>3 DEF LanesTyped
<1>5. /\ sCheck' = (IF sCheck = l THEN Nobody ELSE sCheck) /\ sModel' = (IF sModel = l THEN Nobody ELSE sModel)
      /\ UNCHANGED <<sPolicy, sLeft, sGhost>>
  BY DEF Finish, EndCheck, SupConst
<1>6. LanesTyped'
  BY <1>0, <1>1, <1>4, <1>5 DEF LanesTyped, OneLane
<1>7. Locked'
  BY <1>0, <1>1, <1>5, Idle, Lanes DEF Locked, OneLane
<1>8. OpenEntries'
  BY <1>0, <1>1, <1>3, <1>4, Idle DEF OpenEntries, OneLane, Decided
<1> HIDE DEF k
<1>9. \A i : Seen(i)' => Seen(i)
  BY <1>3, <1>4 DEF Seen, Handled
<1>10. FreshDecision'
  BY <1>0, <1>1, <1>9, Idle, Lanes DEF FreshDecision, OneLane
<1>11. IncidentHandledOnce'
  BY <1>0, <1>3, <1>4 DEF IncidentHandledOnce, Handled
<1> QED  BY <1>6, <1>7, <1>8, <1>10, <1>11 DEF OnceInv

LEMMA AskKeepsOnce == ASSUME OnceInv, Ask PROVE OnceInv'
<1>0. LanesTyped /\ Locked /\ OpenEntries /\ FreshDecision /\ IncidentHandledOnce
  BY DEF OnceInv
<1> DEFINE r == [IdleLane EXCEPT !.pc = "model", !.entry = Len(sLedger) + 1]
<1>1. PICK e \in EntryRec : e.by = "ask" /\ e.state = "decided" /\ e.calls = 0 /\ sLedger' = Append(sLedger, e)
  <2> DEFINE d == Entry("ask", Question, [action |-> "ask_model", automatic |-> FALSE])
  <2>1. d \in EntryRec /\ d.by = "ask" /\ d.state = "decided" /\ d.calls = 0 /\ sLedger' = Append(sLedger, d)
    BY <1>0, AskDoes
  <2> HIDE DEF d
  <2> QED  BY <2>1
<1>2. OneLane("ask", r) /\ r.pc = "model" /\ r.made = 0 /\ r.entry = Len(sLedger) + 1
  BY <1>0, AskDoes, Idle DEF LaneRec
<1>3. /\ sLedger' \in Seq(EntryRec) /\ Len(sLedger') = Len(sLedger) + 1 /\ Len(sLedger) \in Nat
      /\ \A n \in 1..Len(sLedger) : sLedger'[n] = sLedger[n]
      /\ sLedger'[Len(sLedger) + 1] = e
  BY <1>0, <1>1, RecordedCountsNothing DEF LanesTyped
<1>4. /\ UNCHANGED <<sCheck, sModel, sGhost, sPolicy>> /\ sLane["ask"].pc = "idle"
      /\ sLeft' = [sLeft EXCEPT !.asks = @ - 1] /\ sLeft.asks > 0
  BY DEF Ask, SupConst
<1>5. sLeft' \in [asks : Nat, events : Nat] /\ sLeft'.asks <= sPolicy.asks
  <2>1. sLeft \in [asks : Nat, events : Nat] /\ sLeft.asks <= sPolicy.asks /\ sPolicy.asks \in Nat
    BY <1>0, SupConstants DEF LanesTyped
  <2> QED  BY <1>4, <2>1
<1> HIDE DEF r
<1>6. LanesTyped'
  BY <1>0, <1>2, <1>3, <1>4, <1>5 DEF LanesTyped, OneLane
<1>7. Locked'
  BY <1>0, <1>2, <1>4, Lanes DEF Locked, OneLane
<1>8. OpenEntries'
  BY <1>0, <1>1, <1>2, <1>3, Lanes DEF OpenEntries, OneLane, Decided
<1>9. 1..Len(sLedger') = 1..Len(sLedger) \cup {Len(sLedger) + 1} /\ ~Handled(e)
  BY <1>1, <1>3, Lanes DEF Handled
<1>10. \A i : Seen(i)' => Seen(i)
  BY <1>3, <1>9 DEF Seen, Handled
<1>11. FreshDecision'
  BY <1>0, <1>2, <1>10, Lanes DEF FreshDecision, OneLane
<1>12. IncidentHandledOnce'
  BY <1>0, <1>3, <1>9 DEF IncidentHandledOnce, Handled
<1> QED  BY <1>6, <1>7, <1>8, <1>11, <1>12 DEF OnceInv

LEMMA OthersKeepOnce ==
    ASSUME OnceInv, BookStep \/ SupCrash \/ UNCHANGED supVars
    PROVE  OnceInv'
<1>0. LanesTyped /\ Locked /\ OpenEntries /\ FreshDecision /\ IncidentHandledOnce
  BY DEF OnceInv
<1>1. CASE BookStep \/ UNCHANGED supVars
  <2>1. /\ UNCHANGED <<sLedger, sLane, sCheck, sModel, sGhost, sPolicy>>
        /\ sLeft' \in [asks : Nat, events : Nat] /\ sLeft'.asks = sLeft.asks
    BY <1>0, <1>1, BookStepLeaves DEF supVars, LanesTyped
  <2> QED  BY <1>0, <2>1 DEF OnceInv, LanesTyped, Locked, OpenEntries, FreshDecision, IncidentHandledOnce, Seen
<1>2. CASE SupCrash
  <2>1. /\ sLane' \in [Lane -> LaneRec] /\ \A l \in Lane : sLane'[l] = IdleLane
        /\ sCheck' = Nobody /\ sModel' = Nobody /\ UNCHANGED <<sLedger, sPolicy>>
        /\ sLeft' \in [asks : Nat, events : Nat] /\ sLeft'.asks = sLeft.asks
        /\ sGhost' \in [applied : Nat, uncounted : Nat, calls : Nat, reported : Nat, lostCalls : Nat]
    BY <1>0, <1>2, CrashLeaves
  <2>2. IdleLane.pc = "idle" /\ IdleLane.made = 0
    BY Idle DEF IdleLane
  <2>3. LanesTyped'
    BY <1>0, <2>1 DEF LanesTyped
  <2>4. Locked' /\ OpenEntries'
    BY <2>1, <2>2, Lanes DEF Locked, OpenEntries, Decided
  <2>5. FreshDecision' /\ IncidentHandledOnce'
    BY <1>0, <2>1, <2>2, Lanes DEF FreshDecision, IncidentHandledOnce, Handled
  <2> QED  BY <2>3, <2>4, <2>5 DEF OnceInv
<1> QED  BY <1>1, <1>2

-----------------------------------------------------------------------------
(* The book and its runs: one step after the other.                        *)

(* What a step may do to the book: no run goes away, and the worker        *)
(* executes the newest, which is the one it executed before or a new one.  *)
BookMoves ==
    /\ BookTyped' /\ Len(sRun') >= Len(sRun)
    /\ sWork' = "running" =>
          /\ Len(sRun') \in OpenRuns'
          /\ sWork = "running" \/ Len(sRun') > Len(sRun)

LEMMA StageType == ASSUME BookTyped PROVE sBook.stage \in Int /\ 1 <= sBook.stage /\ sBook.stage <= 3
<1>1. sBook.stage \in 1..3
  BY DEF BookTyped
<1> QED  BY <1>1

LEMMA NewBook ==
    ASSUME sBook' \in [stage : 1..3, status : BookStatus, park : ParkCodes \cup {""}],
           sRun' \in Seq(RunRec), sWork' \in {"none", "admitted", "running"}, sWork' # "none" => sBook'.stage # 3
    PROVE  BookTyped'
  BY DEF BookTyped

LEMMA SameRuns ==
    ASSUME BookTyped, BookTyped', Len(sRun') = Len(sRun), sWork' = "running" => sWork = "running" /\ Len(sRun') \in OpenRuns'
    PROVE  BookMoves
<1>1. Len(sRun) \in Nat
  BY RunsType
<1>2. Len(sRun') >= Len(sRun)
  BY <1>1
<1> QED  BY <1>2 DEF BookMoves

LEMMA BookKept ==
    ASSUME BookInv, LanesTyped', BookMoves,
           \A l \in Lane : sLane'[l].inc.run <= Len(sRun),
           \A n \in 1..Len(sLedger') : sLedger'[n].run <= Len(sRun),
           \A l \in Checker : sLane'[l].pc = "confirm" =>
              /\ sLane'[l].runs <= Len(sRun)
              /\ ~sLane'[l].active /\ sWork = "running" => sLane'[l].runs < Len(sRun)
    PROVE  BookInv'
<1>1. BookTyped /\ BookTyped' /\ Len(sRun) \in Nat /\ Len(sRun') \in Nat /\ Len(sRun') >= Len(sRun)
  <2>1. BookTyped /\ BookTyped' /\ Len(sRun') >= Len(sRun)
    BY DEF BookInv, BookMoves
  <2>2. sRun \in Seq(RunRec) /\ sRun' \in Seq(RunRec)
    BY <2>1 DEF BookTyped
  <2> QED  BY <2>1, <2>2
<1>2. \A l \in Lane : sLane'[l].inc.run \in Nat /\ sLane'[l].runs \in Nat
  BY LaneType, IncidentType DEF LanesTyped, LaneRec
<1>3. \A n \in 1..Len(sLedger') : sLedger'[n].run \in Nat
  <2>1. sLedger' \in Seq(EntryRec)
    BY DEF LanesTyped
  <2>2. \A n \in 1..Len(sLedger') : sLedger'[n] \in EntryRec
    BY <2>1
  <2> QED  BY <2>2 DEF EntryRec
<1>4. RunsThere'
  BY <1>1, <1>2, <1>3 DEF RunsThere
<1>5. RunningIsLast'
  BY <1>1, <1>2, Lanes DEF RunningIsLast, BookMoves
<1> QED  BY <1>1, <1>4, <1>5 DEF BookInv

LEMMA BookUntouched == ASSUME BookInv, UNCHANGED <<sBook, sRun, sWork>> PROVE BookMoves
<1>1. BookTyped /\ BookTyped' /\ RunningIsLast
  BY DEF BookInv, BookTyped
<1>2. OpenRuns' = OpenRuns /\ Len(sRun') = Len(sRun)
  BY DEF OpenRuns, IsOpenRun
<1>3. sWork = "running" => Len(sRun) \in OpenRuns
  BY <1>1 DEF RunningIsLast
<1> QED  BY <1>1, <1>2, <1>3, SameRuns

(* Runs are rewritten one by one.                                          *)
LEMMA RunsRewritten ==
    ASSUME BookTyped, NEW f(_), \A n \in 1..Len(sRun) : f(n) \in RunRec,
           sRun' = [n \in 1..Len(sRun) |-> f(n)]
    PROVE  sRun' \in Seq(RunRec) /\ Len(sRun') = Len(sRun)
<1>1. Len(sRun) \in Nat
  BY RunsType
<1>2. sRun' \in [1..Len(sRun) -> RunRec]
  OBVIOUS
<1>3. sRun' \in Seq(RunRec)
  BY <1>1, <1>2
<1>4. Len(sRun') = Len(sRun)
  BY <1>1, <1>2
<1> QED  BY <1>3, <1>4

LEMMA RunClosed ==
    ASSUME NEW r \in RunRec
    PROVE  [r EXCEPT !.result = "failed", !.health = "ok"] \in RunRec
  BY DEF RunRec

LEMMA RunSuperseded == ASSUME NEW r \in RunRec PROVE [r EXCEPT !.superseded = TRUE] \in RunRec
  BY DEF RunRec

LEMMA OpenRunsClosed ==
    ASSUME BookTyped, sRun' = CloseOpenRuns
    PROVE  sRun' \in Seq(RunRec) /\ Len(sRun') = Len(sRun)
<1> DEFINE f(n) == IF IsOpenRun(sRun[n]) THEN [sRun[n] EXCEPT !.result = "failed", !.health = "ok"] ELSE sRun[n]
<1>1. \A n \in 1..Len(sRun) : f(n) \in RunRec
  BY RunsType, RunClosed
<1>2. sRun' = [n \in 1..Len(sRun) |-> f(n)]
  BY DEF CloseOpenRuns
<1> HIDE DEF f
<1> QED  BY <1>1, <1>2, RunsRewritten

LEMMA BookSet ==
    ASSUME NEW stage \in 1..3, NEW status \in BookStatus, NEW park \in ParkCodes \cup {""},
           SetBook(stage, status, park)
    PROVE  sBook' \in [stage : 1..3, status : BookStatus, park : ParkCodes \cup {""}] /\ sBook'.stage = stage
  BY DEF SetBook

LEMMA BookType ==
    ASSUME BookTyped
    PROVE  sBook.stage \in 1..3 /\ sBook.status \in BookStatus /\ sBook.park \in ParkCodes \cup {""}
           /\ sBook \in [stage : 1..3, status : BookStatus, park : ParkCodes \cup {""}]
           /\ {"", "paused", "needs_attention", "failed"} \subseteq BookStatus
  BY DEF BookTyped, BookStatus

LEMMA ApplyMovesBook ==
    ASSUME BookInv, NEW a \in Action, NEW i \in Incident, i.run <= Len(sRun), Apply(a, i)
    PROVE  BookMoves
<1>0. BookTyped /\ Len(sRun) \in Nat /\ sRun \in Seq(RunRec)
  BY RunsType DEF BookInv, BookTyped
<1>1. CASE Kept
  BY <1>1, BookUntouched DEF Kept
<1>2. CASE Readmitted
  <2>1. UNCHANGED <<sRun, sWork>>
    BY <1>2 DEF Readmitted
  <2>2. sBook' \in [stage : 1..3, status : BookStatus, park : ParkCodes \cup {""}] /\ sBook'.stage = sBook.stage
    BY <1>0, <1>2, BookType, BookSet DEF Readmitted
  <2>3. sWork' # "none" => sBook'.stage # 3
    BY <1>0, <2>1, <2>2 DEF BookTyped
  <2>4. BookTyped'
    BY <1>0, <2>1, <2>2, <2>3 DEF BookTyped
  <2>5. Len(sRun') = Len(sRun) /\ OpenRuns' = OpenRuns
    BY <2>1 DEF OpenRuns, IsOpenRun
  <2>6. sWork = "running" => Len(sRun) \in OpenRuns
    BY DEF BookInv, RunningIsLast
  <2> QED  BY <1>0, <2>1, <2>4, <2>5, <2>6, SameRuns
<1>3. CASE TerminateRequeue
  <2>1. sRun' = CloseOpenRuns /\ sWork' = "none"
    BY <1>3 DEF TerminateRequeue
  <2>2. sRun' \in Seq(RunRec) /\ Len(sRun') = Len(sRun)
    BY <1>0, <2>1, OpenRunsClosed
  <2>3. sBook' \in [stage : 1..3, status : BookStatus, park : ParkCodes \cup {""}]
    BY <1>0, <1>3, BookType, BookSet DEF TerminateRequeue
  <2>4. BookTyped'
    BY <2>1, <2>2, <2>3, NewBook
  <2> QED  BY <1>0, <2>1, <2>2, <2>4, SameRuns
<1>4. CASE SupersedeRerun(StageOf(i))
  <2> DEFINE r(n) == IF sWork = "none" \/ ~IsOpenRun(sRun[n]) THEN sRun[n]
                     ELSE [sRun[n] EXCEPT !.result = "failed", !.health = "ok"]
             f(n) == IF r(n).stage >= StageOf(i) /\ r(n).result = "ok" THEN [r(n) EXCEPT !.superseded = TRUE] ELSE r(n)
  <2>1. \A n \in 1..Len(sRun) : r(n) \in RunRec
    BY <1>0, RunsType, RunClosed
  <2>2. sRun' = [n \in 1..Len(sRun) |-> f(n)] /\ sWork' = "none"
        /\ SetBook(StageOf(i), IF Paused THEN "paused" ELSE "", "")
    BY <1>4 DEF SupersedeRerun
  <2> HIDE DEF r
  <2>3. \A n \in 1..Len(sRun) : f(n) \in RunRec
    BY <2>1, RunSuperseded
  <2>4. sRun' \in Seq(RunRec) /\ Len(sRun') = Len(sRun)
    <3> HIDE DEF f
    <3>1. sRun' = [n \in 1..Len(sRun) |-> f(n)]
      BY <2>2
    <3>2. BookTyped
      BY <1>0
    <3> QED  BY <2>3, <3>1, <3>2, RunsRewritten
  <2>5. StageOf(i) \in 1..3
    <3>1. i.run \in Nat /\ (i.run # 0 => i.run \in 1..Len(sRun))
      BY <1>0, IncidentType
    <3>2. \A x \in RunRec : x.stage \in 1..3
      BY DEF RunRec
    <3> QED  BY <1>0, <3>1, <3>2, BookType, RunsType DEF StageOf
  <2>6. sBook' \in [stage : 1..3, status : BookStatus, park : ParkCodes \cup {""}]
    <3>1. CASE Paused
      BY <1>0, <2>2, <2>5, <3>1, BookType, BookSet
    <3>2. CASE ~Paused
      BY <1>0, <2>2, <2>5, <3>2, BookType, BookSet
    <3> QED  BY <3>1, <3>2
  <2>7. BookTyped'
    BY <2>2, <2>4, <2>6, NewBook
  <2>8. sWork' # "running" /\ Len(sRun') = Len(sRun)
    BY <2>2, <2>4
  <2> QED  BY <1>0, <2>7, <2>8, SameRuns
<1>5. ASSUME NEW c \in ParkCodes, ParkBook(c) PROVE BookMoves
  <2> DEFINE park == IF Parked THEN sBook.park ELSE c
  <2>1. sWork' = "none" /\ SetBook(sBook.stage, "needs_attention", park)
        /\ sRun' = IF sWork = "none" THEN sRun ELSE CloseOpenRuns
    BY <1>5 DEF ParkBook
  <2>2. park \in ParkCodes \cup {""}
    BY <1>0, BookType
  <2> HIDE DEF park
  <2>3. sBook' \in [stage : 1..3, status : BookStatus, park : ParkCodes \cup {""}]
    BY <1>0, <2>1, <2>2, BookType, BookSet
  <2>4. sRun' \in Seq(RunRec) /\ Len(sRun') = Len(sRun)
    BY <1>0, <2>1, OpenRunsClosed
  <2>5. BookTyped'
    BY <2>1, <2>3, <2>4, NewBook
  <2> QED  BY <1>0, <2>1, <2>4, <2>5, SameRuns
<1>6. "supervisor_budget" \in ParkCodes /\ "supervisor_escalated" \in ParkCodes
  BY DEF ParkCodes, Retryable
<1>7. \/ Kept \/ Readmitted \/ TerminateRequeue \/ SupersedeRerun(StageOf(i))
      \/ ParkBook("supervisor_budget") \/ ParkBook("supervisor_escalated")
  BY Zenon DEF Apply, WindowRetained
<1> QED  BY <1>1, <1>2, <1>3, <1>4, <1>5, <1>6, <1>7

LEMMA NextStage == \A n \in Int : 1 <= n /\ n <= 3 /\ n # 3 => n + 1 \in 1..3
  OBVIOUS

LEMMA RunSet ==
    ASSUME sRun \in Seq(RunRec), NEW k \in 1..Len(sRun), NEW r \in RunRec, sRun' = [sRun EXCEPT ![k] = r]
    PROVE  sRun' \in Seq(RunRec) /\ Len(sRun') = Len(sRun)
  OBVIOUS

LEMMA BookStepMovesBook ==
    ASSUME BookInv, BookStep
    PROVE  BookMoves
<1>0. BookTyped /\ Len(sRun) \in Nat /\ sRun \in Seq(RunRec) /\ RunningIsLast
  BY RunsType DEF BookInv, BookTyped
<1>1. CASE Admit
  <2>1. sWork' = "admitted" /\ UNCHANGED <<sBook, sRun>> /\ sBook.stage # 3
    <3>1. sWork' = "admitted" /\ UNCHANGED <<sBook, sRun>> /\ sBook.stage < 3
      BY <1>1 DEF Admit
    <3>2. sBook.stage \in Int
      BY <1>0, StageType
    <3> QED  BY <3>1, <3>2
  <2>2. BookTyped'
    BY <1>0, <2>1, NewBook DEF BookTyped
  <2> QED  BY <1>0, <2>1, <2>2, SameRuns
<1>2. CASE OpenStageRun
  <2> DEFINE r == [stage |-> sBook.stage, result |-> "open", error |-> "", superseded |-> FALSE, health |-> "ok"]
  <2>1. r \in RunRec /\ r.result = "open"
    BY <1>0, BookType DEF RunRec
  <2>2. sRun' = Append(sRun, r) /\ sWork' = "running" /\ UNCHANGED sBook /\ sWork = "admitted"
    BY <1>2 DEF OpenStageRun
  <2> HIDE DEF r
  <2>3. sRun' \in Seq(RunRec) /\ Len(sRun') = Len(sRun) + 1 /\ sRun'[Len(sRun) + 1] = r
    BY <1>0, <2>1, <2>2, AppendProperties
  <2>4. BookTyped'
    BY <1>0, <2>2, <2>3 DEF BookTyped
  <2>5. Len(sRun') \in OpenRuns'
    BY <1>0, <2>1, <2>3 DEF OpenRuns, IsOpenRun
  <2> QED  BY <1>0, <2>3, <2>4, <2>5 DEF BookMoves
<1>3. CASE StageEnds
  <2>1. sWork = "running" /\ sWork' = "none" /\ sBook.stage # 3 /\ Current \in 1..Len(sRun)
    <3>1. OpenRuns # {} /\ sWork = "running" /\ sWork' = "none"
      BY <1>0, <1>3 DEF StageEnds, RunningIsLast
    <3> QED  BY <1>0, <3>1, RunsType, LatestRun DEF Current, BookTyped
  <2>2. PICK res \in {"ok", "failed"}, err \in FailureKind \cup {""} : EndRun(res, err)
    <3>1. SupFailures \subseteq FailureKind /\ "unclassified" \in FailureKind
      BY SupCodes DEF FailureKind
    <3> QED  BY <1>3, <3>1 DEF StageEnds
  <2>3. sRun' \in Seq(RunRec) /\ Len(sRun') = Len(sRun)
    <3> DEFINE r == [sRun[Current] EXCEPT !.result = res, !.error = err, !.health = "ok"]
    <3>1. r \in RunRec
      BY <2>1, <1>0, RunsType DEF RunRec
    <3>2. sRun' = [sRun EXCEPT ![Current] = r]
      BY <2>2 DEF EndRun
    <3> HIDE DEF r
    <3>3. sRun \in Seq(RunRec) /\ Current \in 1..Len(sRun) /\ Len(sRun) \in Nat
      BY <1>0, <2>1
    <3> QED  BY <3>1, <3>2, <3>3, RunSet
  <2>4. sBook' \in [stage : 1..3, status : BookStatus, park : ParkCodes \cup {""}]
    <3>1. sBook.stage + 1 \in 1..3 /\ SupParks \subseteq ParkCodes
      <4>1. sBook.stage \in Int /\ 1 <= sBook.stage /\ sBook.stage <= 3 /\ sBook.stage # 3
        BY <1>0, <2>1, StageType
      <4>2. sBook.stage + 1 \in 1..3
        BY <4>1, NextStage
      <4> QED  BY <4>2, SupCodes
    <3>2. CASE SetBook(sBook.stage + 1, sBook.status, sBook.park)
      BY <1>0, <3>1, <3>2, BookType, BookSet
    <3>3. CASE SetBook(sBook.stage, "failed", "")
      BY <1>0, <3>3, BookType, BookSet
    <3>4. ASSUME NEW c \in SupParks, SetBook(sBook.stage, "needs_attention", c)
          PROVE  sBook' \in [stage : 1..3, status : BookStatus, park : ParkCodes \cup {""}]
      BY <1>0, <3>1, <3>4, BookType, BookSet
    <3> QED  BY <1>3, <3>2, <3>3, <3>4, Zenon DEF StageEnds
  <2>5. BookTyped'
    BY <2>1, <2>3, <2>4, NewBook
  <2> QED  BY <1>0, <2>1, <2>3, <2>5, SameRuns
<1>4. CASE Trouble
  <2>1. CASE /\ sWork = "running"
             /\ \E h \in SupHealth : sRun' = [sRun EXCEPT ![Current].health = h]
             /\ UNCHANGED <<sBook, sWork>>
    <3>1. Len(sRun) \in OpenRuns /\ Current \in 1..Len(sRun)
      <4>1. Len(sRun) \in OpenRuns
        BY <1>0, <2>1 DEF RunningIsLast
      <4> QED  BY <1>0, <4>1, RunsType, LatestRun DEF Current
    <3>2. PICK h \in (HealthKind \ {"missing_process"}) \cup {"gone"} : sRun' = [sRun EXCEPT ![Current] = [sRun[Current] EXCEPT !.health = h]]
      <4>1. SupHealth \subseteq (HealthKind \ {"missing_process"}) \cup {"gone"}
        BY SupCodes
      <4> QED  BY <2>1, <4>1
    <3> DEFINE r == [sRun[Current] EXCEPT !.health = h]
    <3>3. r \in RunRec /\ r.result = sRun[Current].result
      BY <1>0, <3>1, RunsType DEF RunRec
    <3> HIDE DEF r
    <3>4. sRun' \in Seq(RunRec) /\ Len(sRun') = Len(sRun) /\ \A n \in 1..Len(sRun) : sRun'[n].result = sRun[n].result
      BY <1>0, <3>1, <3>2, <3>3 DEF r
    <3>5. BookTyped'
      BY <1>0, <2>1, <3>4 DEF BookTyped
    <3>6. OpenRuns' = OpenRuns
      BY <3>4 DEF OpenRuns, IsOpenRun
    <3> QED  BY <1>0, <2>1, <3>1, <3>4, <3>5, <3>6, SameRuns
  <2>2. CASE sWork' = "none" /\ UNCHANGED <<sRun, sBook>>
    <3>1. BookTyped'
      BY <1>0, <2>2 DEF BookTyped
    <3> QED  BY <1>0, <2>2, <3>1, SameRuns
  <2>3. CASE UNCHANGED <<sRun, sWork, sBook>>
    BY <2>3, BookUntouched
  <2> QED  BY <1>4, <2>1, <2>2, <2>3 DEF Trouble
<1>5. CASE Operate
  <2>1. UNCHANGED <<sRun, sWork>> /\ \E s \in BookStatus : SetBook(sBook.stage, s, "")
    BY <1>0, <1>5, BookType DEF Operate
  <2>2. sBook' \in [stage : 1..3, status : BookStatus, park : ParkCodes \cup {""}] /\ sBook'.stage = sBook.stage
    BY <1>0, <2>1, BookType, BookSet
  <2>3. BookTyped'
    BY <1>0, <2>1, <2>2 DEF BookTyped
  <2>4. Len(sRun') = Len(sRun) /\ OpenRuns' = OpenRuns
    BY <2>1 DEF OpenRuns, IsOpenRun
  <2>5. sWork = "running" => Len(sRun) \in OpenRuns
    BY <1>0 DEF RunningIsLast
  <2> QED  BY <1>0, <2>1, <2>3, <2>4, <2>5, SameRuns
<1> QED  BY <1>1, <1>2, <1>3, <1>4, <1>5 DEF BookStep

LEMMA SameWhatIsSaid ==
    ASSUME BookInv, LanesTyped, LanesTyped', BookMoves, NEW l \in Lane, NEW r, OneLane(l, r), r.pc # "confirm",
           r.inc.run <= Len(sRun),
           \A n \in 1..Len(sLedger') : sLedger'[n].run <= Len(sRun)
    PROVE  BookInv'
<1>1. \A m \in Lane : sLane'[m].inc.run <= Len(sRun)
  BY DEF BookInv, RunsThere, OneLane
<1>2. \A m \in Checker : sLane'[m].pc = "confirm" => sLane'[m] = sLane[m]
  BY Lanes DEF OneLane
<1>3. \A m \in Checker : sLane'[m].pc = "confirm" =>
              /\ sLane'[m].runs <= Len(sRun)
              /\ ~sLane'[m].active /\ sWork = "running" => sLane'[m].runs < Len(sRun)
  BY <1>2 DEF BookInv, RunningIsLast
<1> QED  BY <1>1, <1>3, BookKept

LEMMA CheckKeepsBook ==
    ASSUME OnceInv, OnceInv', BookInv, NEW l \in Checker, CheckStep(l)
    PROVE  BookInv'
<1>0. LanesTyped /\ LanesTyped' /\ BookTyped /\ Len(sRun) \in Nat /\ l \in Lane
      /\ (\A n \in 1..Len(sLedger) : sLedger[n].run <= Len(sRun)) /\ \A m \in Lane : sLane[m].inc.run <= Len(sRun)
  BY RunsType, Lanes DEF OnceInv, BookInv, RunsThere
<1>1. BookMoves
  BY BookUntouched DEF CheckStep, StartCheck, Confirm, RecordDecision, Kept
<1>2. CASE StartCheck(l)
  <2>1. PICK r : OneLane(l, r) /\ r.inc = Question /\ r.active = (sWork # "none") /\ r.runs = Len(sRun)
    BY <1>0, <1>2, StartCheckDoes
  <2>2. \A m \in Lane : sLane'[m].inc.run <= Len(sRun)
    BY <1>0, <2>1, Idle DEF OneLane
  <2>3. \A m \in Checker : sLane'[m].pc = "confirm" =>
              /\ sLane'[m].runs <= Len(sRun)
              /\ ~sLane'[m].active /\ sWork = "running" => sLane'[m].runs < Len(sRun)
    <3>1. sLane'[l].runs = Len(sRun) /\ Len(sRun) <= Len(sRun) /\ (~sLane'[l].active => sWork # "running")
      <4>1. sLane'[l] = r /\ Len(sRun) <= Len(sRun)
        BY <1>0, <2>1 DEF OneLane
      <4> QED  BY <2>1, <4>1, Zenon
    <3>2. \A m \in Checker \ {l} : sLane'[m] = sLane[m]
      BY <2>1, Lanes DEF OneLane
    <3>3. \A m \in Checker : sLane[m].pc = "confirm" =>
              /\ sLane[m].runs <= Len(sRun)
              /\ ~sLane[m].active /\ sWork = "running" => sLane[m].runs < Len(sRun)
      BY DEF BookInv, RunningIsLast
    <3>4. ASSUME NEW m \in Checker, sLane'[m].pc = "confirm"
          PROVE  /\ sLane'[m].runs <= Len(sRun)
                 /\ ~sLane'[m].active /\ sWork = "running" => sLane'[m].runs < Len(sRun)
      <4>1. CASE m = l
        BY <3>1, <4>1
      <4>2. CASE m # l
        <5>1. sLane'[m] = sLane[m]
          BY <3>2, <4>2
        <5> QED  BY <3>3, <3>4, <5>1
      <4> QED  BY <4>1, <4>2
    <3> QED  BY <3>4
  <2>4. UNCHANGED sLedger
    BY <1>2 DEF StartCheck
  <2> QED  BY <1>0, <1>1, <2>2, <2>3, <2>4, BookKept
<1>3. CASE Confirm(l)
  <2>1. UNCHANGED sLedger
    BY <1>3 DEF Confirm
  <2>2. PICK r : OneLane(l, r) /\ r.pc # "confirm" /\ r.inc.run <= Len(sRun)
    <3>1. CASE Rest(l)
      BY <1>0, <3>1, RestDoes, Idle
    <3>2. ASSUME NEW r, OneLane(l, r), ConfirmsTo(l, r)
          PROVE  r.pc # "confirm" /\ r.inc.run <= Len(sRun)
      BY <3>2 DEF ConfirmsTo
    <3> QED  BY <1>0, <1>3, <3>1, <3>2, ConfirmDoes
  <2> QED  BY <1>0, <1>1, <2>1, <2>2, SameWhatIsSaid
<1>4. CASE RecordDecision(l)
  <2>1. PICK e \in EntryRec : e.run = sLane[l].inc.run /\ sLedger' = Append(sLedger, e)
    <3> DEFINE d == Entry(l, sLane[l].inc, [action |-> sLane[l].action, automatic |-> sLane[l].automatic])
    <3>1. d \in EntryRec /\ d.run = sLane[l].inc.run /\ sLedger' = Append(sLedger, d)
      BY <1>0, <1>4, RecordDoes DEF Entry
    <3> HIDE DEF d
    <3> QED  BY <3>1
  <2>2. \A n \in 1..Len(sLedger') : sLedger'[n].run <= Len(sRun)
    <3>1. sLedger \in Seq(EntryRec) /\ sLane[l].inc.run <= Len(sRun)
      BY <1>0 DEF LanesTyped
    <3>2. /\ Len(sLedger') = Len(sLedger) + 1 /\ sLedger'[Len(sLedger) + 1] = e
          /\ \A n \in 1..Len(sLedger) : sLedger'[n] = sLedger[n]
      BY <2>1, <3>1, AppendProperties
    <3> QED  BY <1>0, <2>1, <3>1, <3>2
  <2>3. PICK r : OneLane(l, r) /\ r.pc # "confirm" /\ r.inc = sLane[l].inc
    <3>1. sLane[l] \in LaneRec
      BY <1>0 DEF LanesTyped
    <3>2. ASSUME NEW pc \in {"model", "apply", "finish"}
          PROVE  LET r == [sLane[l] EXCEPT !.pc = pc, !.entry = Len(sLedger) + 1] IN r.pc # "confirm" /\ r.inc = sLane[l].inc
      BY <3>1 DEF LaneRec
    <3>3. PICK pc \in {"model", "apply", "finish"} : OneLane(l, [sLane[l] EXCEPT !.pc = pc, !.entry = Len(sLedger) + 1])
      BY <1>0, <1>4, RecordDoes
    <3> QED  BY <3>2, <3>3
  <2> QED  BY <1>0, <1>1, <2>2, <2>3, SameWhatIsSaid
<1> QED  BY <1>2, <1>3, <1>4 DEF CheckStep

LEMMA LaneKeepsBook ==
    ASSUME OnceInv, OnceInv', Spending, BookInv, NEW l \in Lane, LaneStep(l)
    PROVE  BookInv'
<1>0. LanesTyped /\ LanesTyped' /\ OpenEntries /\ BookTyped /\ Len(sRun) \in Nat /\ sLane[l] \in LaneRec
      /\ (\A n \in 1..Len(sLedger) : sLedger[n].run <= Len(sRun)) /\ sLane[l].inc.run <= Len(sRun)
  BY RunsType, Lanes DEF OnceInv, BookInv, RunsThere, LanesTyped
<1>1. CASE ApplyAction(l)
  <2>1. BookMoves
    <3>1. Apply(sLane[l].action, sLane[l].inc) /\ sLane[l].action \in Action /\ sLane[l].inc \in Incident
      BY <1>0, <1>1, LaneType DEF ApplyAction
    <3> QED  BY <1>0, <3>1, ApplyMovesBook
  <2>2. PICK r : OneLane(l, r) /\ r.pc # "confirm" /\ r.inc = sLane[l].inc
    <3>1. ASSUME NEW pc \in {"applied", "failed"}
          PROVE  LET r == [sLane[l] EXCEPT !.pc = pc] IN r.pc # "confirm" /\ r.inc = sLane[l].inc
      BY <1>0 DEF LaneRec
    <3>2. PICK pc \in {"applied", "failed"} : OneLane(l, [sLane[l] EXCEPT !.pc = pc])
      BY <1>0, <1>1, ApplyDoes
    <3> QED  BY <3>1, <3>2
  <2>3. UNCHANGED sLedger
    BY <1>1 DEF ApplyAction
  <2> QED  BY <1>0, <2>1, <2>2, <2>3, SameWhatIsSaid
<1>2. CASE Finish(l)
  <2>1. BookMoves
    BY <1>2, BookUntouched DEF Finish, Kept
  <2>2. OneLane(l, IdleLane) /\ \E e : Closed(l, e) /\ sLedger' = [sLedger EXCEPT ![sLane[l].entry] = e]
    BY <1>0, <1>2, FinishDoes
  <2>3. PICK e : Closed(l, e) /\ sLedger' = [sLedger EXCEPT ![sLane[l].entry] = e]
    BY <2>2
  <2>4. \A n \in 1..Len(sLedger') : sLedger'[n].run <= Len(sRun)
    <3>1. sLane[l].entry \in 1..Len(sLedger)
      BY <1>0, <1>2 DEF OpenEntries, Finish, Decided
    <3>2. e.run = sLedger[sLane[l].entry].run /\ sLedger \in Seq(EntryRec)
      BY <1>0, <2>3 DEF Closed, LanesTyped
    <3>3. Len(sLedger') = Len(sLedger) /\ \A n \in 1..Len(sLedger) : sLedger'[n].run = sLedger[n].run
      BY <2>3, <3>1, <3>2
    <3> QED  BY <1>0, <3>3
  <2> QED  BY <1>0, <2>1, <2>2, <2>4, Idle, SameWhatIsSaid
<1>3. CASE BeginDiagnosis(l)
  <2>1. BookMoves /\ UNCHANGED sLedger
    BY <1>3, BookUntouched DEF BeginDiagnosis, Kept
  <2>2. PICK r : OneLane(l, r) /\ r.pc # "confirm" /\ r.inc = sLane[l].inc
    BY <1>0, <1>3, BeginDoes DEF Begun
  <2> QED  BY <1>0, <2>1, <2>2, SameWhatIsSaid
<1>4. CASE Diagnose(l)
  <2>1. BookMoves /\ UNCHANGED sLedger
    BY <1>4, BookUntouched DEF Diagnose, Kept
  <2>2. PICK r : OneLane(l, r) /\ Called(l, r)
    BY <1>0, <1>4, DiagnoseDoes
  <2>3. r.pc # "confirm" /\ r.inc = sLane[l].inc
    BY <2>2 DEF Called
  <2> QED  BY <1>0, <2>1, <2>2, <2>3, SameWhatIsSaid
<1> QED  BY <1>1, <1>2, <1>3, <1>4 DEF LaneStep

LEMMA OthersKeepBook ==
    ASSUME OnceInv, OnceInv', BookInv, BookStep \/ Ask \/ SupCrash \/ UNCHANGED supVars
    PROVE  BookInv'
<1>0. LanesTyped /\ LanesTyped' /\ BookTyped /\ Len(sRun) \in Nat
      /\ (\A n \in 1..Len(sLedger) : sLedger[n].run <= Len(sRun)) /\ (\A m \in Lane : sLane[m].inc.run <= Len(sRun))
      /\ \A m \in Checker : sLane[m].pc = "confirm" =>
              /\ sLane[m].runs <= Len(sRun)
              /\ ~sLane[m].active /\ sWork = "running" => sLane[m].runs < Len(sRun)
  BY RunsType, Lanes DEF OnceInv, BookInv, RunsThere, RunningIsLast
<1>1. CASE BookStep \/ UNCHANGED supVars
  <2>1. BookMoves
    BY <1>1, BookStepMovesBook, BookUntouched DEF supVars
  <2>2. UNCHANGED <<sLedger, sLane>>
    BY <1>0, <1>1, BookStepLeaves DEF supVars
  <2> QED  BY <1>0, <2>1, <2>2, BookKept
<1>2. CASE Ask
  <2>1. BookMoves
    BY <1>2, BookUntouched DEF Ask, Kept
  <2> DEFINE e == Entry("ask", Question, [action |-> "ask_model", automatic |-> FALSE])
             r == [IdleLane EXCEPT !.pc = "model", !.entry = Len(sLedger) + 1]
  <2>2. e \in EntryRec /\ e.run = 0 /\ sLedger' = Append(sLedger, e) /\ OneLane("ask", r)
    BY <1>0, <1>2, AskDoes
  <2>3. r.pc = "model" /\ r.inc = Question
    BY Idle DEF LaneRec
  <2> HIDE DEF e, r
  <2>4. \A n \in 1..Len(sLedger') : sLedger'[n].run <= Len(sRun)
    <3>1. sLedger \in Seq(EntryRec) /\ Len(sLedger) \in Nat
      BY <1>0 DEF LanesTyped
    <3>2. /\ Len(sLedger') = Len(sLedger) + 1 /\ sLedger'[Len(sLedger) + 1] = e
          /\ \A n \in 1..Len(sLedger) : sLedger'[n] = sLedger[n]
      BY <2>2, <3>1, AppendProperties
    <3>3. 1..Len(sLedger') = 1..Len(sLedger) \cup {Len(sLedger) + 1} /\ e.run <= Len(sRun)
      BY <1>0, <2>2, <3>1, <3>2
    <3> QED  BY <1>0, <3>2, <3>3
  <2> QED  BY <1>0, <2>1, <2>2, <2>3, <2>4, Idle, Lanes, SameWhatIsSaid
<1>3. CASE SupCrash
  <2>1. (\A m \in Lane : sLane'[m] = IdleLane) /\ UNCHANGED sLedger
    BY <1>0, <1>3, CrashLeaves
  <2>2. sRun' = CloseOpenRuns /\ sWork' = "none" /\ UNCHANGED sBook
    BY <1>3 DEF SupCrash
  <2>3. sRun' \in Seq(RunRec) /\ Len(sRun') = Len(sRun)
    BY <1>0, <2>2, OpenRunsClosed
  <2>4. BookTyped'
    BY <1>0, <2>2, <2>3, NewBook DEF BookTyped
  <2>5. BookMoves
    BY <1>0, <2>2, <2>3, <2>4, SameRuns
  <2> QED  BY <1>0, <2>1, <2>5, Idle, Lanes, BookKept
<1> QED  BY <1>1, <1>2, <1>3

-----------------------------------------------------------------------------
(* Sums over the ledger.                                                   *)

Pairs(c, k) == UNION {{n} \X (1..c[n]) : n \in 1..k}

LEMMA PairsFinite ==
    ASSUME NEW k \in Nat, NEW b \in Nat, NEW c \in [1..k -> Nat], \A n \in 1..k : c[n] <= b
    PROVE  IsFiniteSet(Pairs(c, k)) /\ Cardinality(Pairs(c, k)) \in Nat
<1>1. Pairs(c, k) \in SUBSET ((1..k) \X (1..b))
  BY DEF Pairs
<1>2. IsFiniteSet((1..k) \X (1..b))
  BY SetOne, FS_Product
<1> QED  BY <1>1, <1>2, FS_Subset, FS_CardinalityType

LEMMA PairsMonotone ==
    ASSUME NEW k \in Nat, NEW b \in Nat, NEW c \in [1..k -> Nat], NEW d \in [1..k -> Nat],
           \A n \in 1..k : c[n] <= d[n] /\ d[n] <= b
    PROVE  Cardinality(Pairs(c, k)) <= Cardinality(Pairs(d, k))
<1>1. Pairs(c, k) \in SUBSET Pairs(d, k)
  <2>1. \A n \in 1..k : 1..c[n] \subseteq 1..d[n]
    OBVIOUS
  <2> QED  BY <2>1 DEF Pairs
<1>2. IsFiniteSet(Pairs(d, k))
  BY PairsFinite
<1> QED  BY <1>1, <1>2, FS_Subset

(* What is counted anew adds to the sum.                                   *)
LEMMA PairsMove ==
    ASSUME NEW k \in Nat, NEW b \in Nat, NEW c \in [1..k -> Nat], NEW d \in [1..k -> Nat], NEW n \in 1..k,
           c[n] = 0, \A m \in 1..k : c[m] <= b, \A m \in (1..k) \ {n} : d[m] = c[m]
    PROVE  Cardinality(Pairs(d, k)) = Cardinality(Pairs(c, k)) + d[n]
<1> DEFINE own == {n} \X (1..d[n])
<1>0. \A m \in 1..k : {m} \X (1..d[m]) = ({m} \X (1..c[m])) \cup (IF m = n THEN own ELSE {})
  <2> SUFFICES ASSUME NEW m \in 1..k
               PROVE  {m} \X (1..d[m]) = ({m} \X (1..c[m])) \cup (IF m = n THEN own ELSE {})
    OBVIOUS
  <2>1. CASE m = n
    <3>1. 1..c[n] = {}
      OBVIOUS
    <3>2. {n} \X (1..c[n]) = {}
      BY <3>1
    <3> QED  BY <2>1, <3>2
  <2>2. CASE m # n
    BY <2>2
  <2> QED  BY <2>1, <2>2
<1>1. Pairs(d, k) = Pairs(c, k) \cup own
  <2> HIDE DEF own
  <2>1. Pairs(d, k) = UNION {({m} \X (1..c[m])) \cup (IF m = n THEN own ELSE {}) : m \in 1..k}
    BY <1>0 DEF Pairs
  <2>2. \A t : t \in Pairs(d, k) <=> \E m \in 1..k : t \in {m} \X (1..c[m]) \/ (m = n /\ t \in own)
    BY <2>1
  <2>3. \A t : t \in Pairs(c, k) <=> \E m \in 1..k : t \in {m} \X (1..c[m])
    BY DEF Pairs
  <2> QED  BY <2>2, <2>3
<1>2. Pairs(c, k) \cap own = {}
  <2>1. \A t \in Pairs(c, k) : t[1] # n
    BY DEF Pairs
  <2>2. \A t \in own : t[1] = n
    OBVIOUS
  <2> QED  BY <2>1, <2>2
<1>3. IsFiniteSet(own) /\ Cardinality(own) = d[n]
  <2>1. IsFiniteSet({n}) /\ Cardinality({n}) = 1 /\ d[n] \in Nat
    BY FS_Singleton
  <2>2. IsFiniteSet(own) /\ Cardinality(own) = Cardinality({n}) * Cardinality(1..d[n])
    BY <2>1, SetOne, FS_Product
  <2> QED  BY <2>1, <2>2, SetOne
<1>4. IsFiniteSet(Pairs(c, k)) /\ Cardinality(Pairs(c, k)) \in Nat
  BY PairsFinite
<1>5. Cardinality(Pairs(c, k) \cup own)
         = Cardinality(Pairs(c, k)) + Cardinality(own) - Cardinality(Pairs(c, k) \cap own)
  BY <1>3, <1>4, FS_Union
<1>6. Cardinality(Pairs(c, k) \cap own) = 0
  BY <1>2, FS_EmptySet
<1> HIDE DEF own
<1> QED  BY <1>1, <1>3, <1>4, <1>5, <1>6

CallsIn(ledger)   == [n \in 1..Len(ledger) |-> ledger[n].calls]
ReportsIn(ledger) == [n \in 1..Len(ledger) |-> ledger[n].rep]
CostsIn(ledger)   == [n \in 1..Len(ledger) |-> CostOf(ledger[n])]

(* What an entry costs is between its reports and its calls, and is its    *)
(* calls when it is known.                                                 *)
LEMMA CostBetween ==
    ASSUME NEW e \in EntryRec, Used(e, e.calls)
    PROVE  /\ CostOf(e) \in Nat /\ e.rep \in Nat /\ e.calls \in Nat
           /\ e.rep <= CostOf(e) /\ CostOf(e) <= e.calls
           /\ ~Unknown(e) => CostOf(e) = e.calls
<1>1. e.rep \in Nat /\ e.mea \in Nat /\ e.calls \in Nat /\ e.asked \in BOOLEAN
  BY DEF EntryRec
<1> QED  BY <1>1 DEF Used, CostOf, Unknown, ProviderCostComplete, EstimateComplete

LEMMA Tallies ==
    ASSUME LanesTyped, Spending, RowUsage
    PROVE  /\ Len(sLedger) \in Nat
           /\ CallsIn(sLedger) \in [1..Len(sLedger) -> Nat] /\ ReportsIn(sLedger) \in [1..Len(sLedger) -> Nat]
           /\ CostsIn(sLedger) \in [1..Len(sLedger) -> Nat]
           /\ \A n \in 1..Len(sLedger) : /\ ReportsIn(sLedger)[n] <= CostsIn(sLedger)[n]
                                         /\ CostsIn(sLedger)[n] <= SupModelCalls
           /\ CallsThisHour = Cardinality(Pairs(CallsIn(sLedger), Len(sLedger)))
           /\ Reports = Cardinality(Pairs(ReportsIn(sLedger), Len(sLedger)))
           /\ SupervisorSpend = Cardinality(Pairs(CostsIn(sLedger), Len(sLedger)))
<1>1. Len(sLedger) \in Nat /\ \A n \in 1..Len(sLedger) : sLedger[n] \in EntryRec
  BY DEF LanesTyped
<1>2. \A n \in 1..Len(sLedger) : /\ CostOf(sLedger[n]) \in Nat /\ sLedger[n].rep \in Nat /\ sLedger[n].calls \in Nat
                                 /\ sLedger[n].rep <= CostOf(sLedger[n]) /\ CostOf(sLedger[n]) <= sLedger[n].calls
                                 /\ sLedger[n].calls <= SupModelCalls
  BY <1>1, CostBetween DEF RowUsage, Spending
<1>3. \A n \in 1..Len(sLedger) : CostOf(sLedger[n]) <= SupModelCalls
  BY <1>2, SupConstants
<1>4. CallsThisHour = Cardinality(Pairs(CallsIn(sLedger), Len(sLedger)))
  BY DEF CallsThisHour, Pairs, CallsIn
<1>5. Reports = Cardinality(Pairs(ReportsIn(sLedger), Len(sLedger)))
  BY DEF Reports, Pairs, ReportsIn
<1>6. SupervisorSpend = Cardinality(Pairs(CostsIn(sLedger), Len(sLedger)))
  BY DEF SupervisorSpend, Pairs, CostsIn
<1> QED  BY <1>1, <1>2, <1>3, <1>4, <1>5, <1>6 DEF CallsIn, ReportsIn, CostsIn

(* What is spent is at least what was reported; when no cost is unknown it *)
(* is one for each call.                                                   *)
LEMMA ReportsAreSpent ==
    ASSUME LanesTyped, Spending, RowUsage
    PROVE  Reports \in Nat /\ SupervisorSpend \in Nat /\ Reports <= SupervisorSpend
<1>1. SupModelCalls \in Nat
  BY SupConstants
<1>2. \A n \in 1..Len(sLedger) : ReportsIn(sLedger)[n] <= SupModelCalls
  BY <1>1, Tallies
<1> QED  BY <1>1, <1>2, Tallies, PairsFinite, PairsMonotone

LEMMA KnownIsSpent ==
    ASSUME LanesTyped, Spending, RowUsage, ~UnknownCost
    PROVE  CallsThisHour = SupervisorSpend
<1>1. \A n \in 1..Len(sLedger) : sLedger[n] \in EntryRec
  BY DEF LanesTyped
<1>2. \A n \in 1..Len(sLedger) : CostOf(sLedger[n]) = sLedger[n].calls
  BY <1>1, CostBetween DEF RowUsage, UnknownCost
<1>3. CallsIn(sLedger) = CostsIn(sLedger)
  BY <1>2 DEF CallsIn, CostsIn
<1> QED  BY <1>3, Tallies

-----------------------------------------------------------------------------
(* The calls of the model: one step after the other.                       *)

LEMMA GhostType ==
    ASSUME LanesTyped
    PROVE  /\ sGhost.applied \in Nat /\ sGhost.uncounted \in Nat /\ sGhost.calls \in Nat
           /\ sGhost.reported \in Nat /\ sGhost.lostCalls \in Nat
  BY DEF LanesTyped

LEMMA CallsNat == ASSUME LanesTyped, Spending PROVE CallsThisHour \in Nat
  BY CallsFinite, LedgerCounts DEF LanesTyped, Spending

LEMMA MadeMoves ==
    ASSUME LanesTyped, NEW l \in Lane, NEW r \in LaneRec, OneLane(l, r)
    PROVE  Made \in Nat /\ Made' = Made + r.made - sLane[l].made /\ sLane[l].made \in Nat /\ r.made \in Nat
<1>1. \A m \in Lane : sLane[m].made \in Nat
  BY LaneType DEF LanesTyped
<1>2. r.made \in Nat
  BY LaneType
<1>3. \A m \in Lane : sLane'[m].made = IF m = l THEN r.made ELSE sLane[m].made
  BY DEF OneLane
<1>4. "tick" \in Lane /\ "manual" \in Lane /\ "ask" \in Lane
  BY Lanes
<1> DEFINE a == sLane["tick"].made  b == sLane["manual"].made  c == sLane["ask"].made
<1>5. a \in Nat /\ b \in Nat /\ c \in Nat
  BY <1>1, <1>4
<1>6. Made = a + b + c
  BY DEF Made
<1>7. Made' = (IF l = "tick" THEN r.made ELSE a) + (IF l = "manual" THEN r.made ELSE b) + (IF l = "ask" THEN r.made ELSE c)
  BY <1>3, <1>4 DEF Made
<1>8. sLane[l].made = IF l = "tick" THEN a ELSE IF l = "manual" THEN b ELSE c
  BY Lanes
<1> HIDE DEF a, b, c
<1>9. l = "tick" \/ l = "manual" \/ l = "ask"
  BY Lanes
<1>10. Made \in Nat
  BY <1>5, <1>6
<1>11. CASE l = "tick"
  BY <1>1, <1>2, <1>5, <1>6, <1>7, <1>8, <1>10, <1>11
<1>12. CASE l = "manual"
  BY <1>1, <1>2, <1>5, <1>6, <1>7, <1>8, <1>10, <1>12
<1>13. CASE l = "ask"
  BY <1>1, <1>2, <1>5, <1>6, <1>7, <1>8, <1>10, <1>13
<1> QED  BY <1>9, <1>11, <1>12, <1>13

(* Who made calls holds modelMu: what is made is what one lane made.       *)
LEMMA OneCaller ==
    ASSUME LanesTyped, Locked, NEW l \in Lane, sModel = l
    PROVE  Made = sLane[l].made /\ \A m \in Lane \ {l} : sLane[m].made = 0 /\ sLane[m].pc # "call"
<1>1. \A m \in Lane : sLane[m].made \in Nat
  BY LaneType DEF LanesTyped
<1>2. \A m \in Lane \ {l} : sLane[m].made = 0 /\ sLane[m].pc # "call"
  BY <1>1 DEF Locked
<1>3. l = "tick" \/ l = "manual" \/ l = "ask"
  BY Lanes
<1>4. "tick" \in Lane /\ "manual" \in Lane /\ "ask" \in Lane
  BY Lanes
<1> DEFINE a == sLane["tick"].made  b == sLane["manual"].made  c == sLane["ask"].made
<1>5. Made = a + b + c /\ a \in Nat /\ b \in Nat /\ c \in Nat
  BY <1>1, <1>4 DEF Made
<1>6. /\ l = "tick" => b = 0 /\ c = 0 /\ sLane[l].made = a
      /\ l = "manual" => a = 0 /\ c = 0 /\ sLane[l].made = b
      /\ l = "ask" => a = 0 /\ b = 0 /\ sLane[l].made = c
  BY <1>2, <1>4
<1> HIDE DEF a, b, c
<1>7. Made = sLane[l].made
  BY <1>3, <1>5, <1>6
<1> QED  BY <1>2, <1>7

LEMMA NoCaller ==
    ASSUME LanesTyped, Locked, sModel \notin Lane
    PROVE  Made = 0 /\ \A m \in Lane : sLane[m].made = 0 /\ sLane[m].pc # "call"
<1>1. \A m \in Lane : sLane[m].made \in Nat
  BY LaneType DEF LanesTyped
<1>2. \A m \in Lane : sLane[m].made = 0 /\ sLane[m].pc # "call"
  BY <1>1 DEF Locked
<1> QED  BY <1>2, Lanes DEF Made

(* A step of a lane that counts what it makes.                             *)
LEMMA CallsKept ==
    ASSUME LanesTyped, LanesTyped', CallsInv, NEW l \in Lane, NEW r, OneLane(l, r),
           CallsThisHour' = CallsThisHour, \A n \in 1..Len(sLedger') : sLedger'[n].calls <= SupModelCalls,
           sGhost'.calls = sGhost.calls + r.made - sLane[l].made, sGhost'.lostCalls = sGhost.lostCalls,
           r.pc = "call" => /\ r.left >= 1
                            /\ CallsThisHour + r.made + r.left <= SupHourly
                            /\ r.made + r.left <= SupModelCalls
                            /\ Affordable(CallsThisHour),
           r.made > 0 => r.made <= SupModelCalls /\ Spendable(CallsThisHour + r.made)
    PROVE  CallsInv'
<1>1. r \in LaneRec
  BY DEF OneLane
<1>2. Made \in Nat /\ Made' = Made + r.made - sLane[l].made /\ sLane[l].made \in Nat /\ r.made \in Nat
  BY <1>1, MadeMoves
<1>3. CallsThisHour \in Nat /\ sGhost.calls \in Nat /\ sGhost.lostCalls \in Nat
  BY CallsNat, GhostType DEF CallsInv
<1>4. CallsCounted'
  <2>1. sGhost.calls = CallsThisHour + Made + sGhost.lostCalls
    BY DEF CallsInv, CallsCounted
  <2> DEFINE c == sGhost.calls  h == CallsThisHour  m == Made  k == sGhost.lostCalls
             x == r.made  y == sLane[l].made
  <2>2. c \in Nat /\ h \in Nat /\ m \in Nat /\ k \in Nat /\ x \in Nat /\ y \in Nat /\ c = h + m + k
    BY <1>2, <1>3, <2>1
  <2>5. sGhost'.calls = c + x - y
    OBVIOUS
  <2> HIDE DEF c, h, m, k, x, y
  <2>6. sGhost'.calls = h + (m + x - y) + k
    BY <2>2, <2>5
  <2>3. sGhost'.calls = CallsThisHour + (Made + r.made - sLane[l].made) + sGhost.lostCalls
    BY <2>6 DEF h, m, k, x, y
  <2>4. sGhost'.calls = CallsThisHour' + Made' + sGhost'.lostCalls
    BY <1>2, <2>3
  <2> QED  BY <2>4 DEF CallsCounted
<1>5. Spending'
  BY DEF CallsInv, Spending, OneLane
<1> QED  BY <1>4, <1>5 DEF CallsInv

LEMMA CheckKeepsCalls ==
    ASSUME OnceInv, OnceInv', CallsInv, BookTyped, NEW l \in Checker, CheckStep(l)
    PROVE  CallsInv'
<1>0. LanesTyped /\ LanesTyped' /\ OpenEntries /\ Spending /\ l \in Lane /\ sLane[l] \in LaneRec
      /\ sGhost.calls \in Nat
  BY Lanes, GhostType DEF OnceInv, CallsInv, LanesTyped
<1>1. sLane[l].made = 0 /\ UNCHANGED sGhost
  BY <1>0 DEF CheckStep, StartCheck, Confirm, RecordDecision, MayCheck, OpenEntries
<1>2. /\ CallsThisHour' = CallsThisHour
      /\ \A n \in 1..Len(sLedger') : sLedger'[n].calls <= SupModelCalls
  <2>1. CASE UNCHANGED sLedger
    BY <1>0, <2>1 DEF CallsThisHour, Spending
  <2>2. CASE RecordDecision(l)
    <3> DEFINE e == Entry(l, sLane[l].inc, [action |-> sLane[l].action, automatic |-> sLane[l].automatic])
    <3>1. e \in EntryRec /\ e.state = "decided" /\ e.calls = 0 /\ sLedger' = Append(sLedger, e)
      BY <1>0, <2>2, RecordDoes
    <3> HIDE DEF e
    <3>2. /\ Len(sLedger') = Len(sLedger) + 1 /\ sLedger'[Len(sLedger) + 1] = e
          /\ \A n \in 1..Len(sLedger) : sLedger'[n] = sLedger[n]
          /\ CallsThisHour' = CallsThisHour
      BY <1>0, <3>1, RecordedCountsNothing
    <3>3. Len(sLedger) \in Nat
      BY <1>0 DEF LanesTyped
    <3>4. 1..Len(sLedger') = 1..Len(sLedger) \cup {Len(sLedger) + 1} /\ e.calls <= SupModelCalls
      BY <3>1, <3>2, <3>3, SupConstants
    <3> QED  BY <1>0, <3>2, <3>4 DEF Spending
  <2> QED  BY <2>1, <2>2 DEF CheckStep, StartCheck, Confirm
<1>3. PICK r : OneLane(l, r) /\ r.pc # "call" /\ r.made = 0
  <2>1. CASE StartCheck(l)
    <3>1. PICK r : OneLane(l, r) /\ r.pc = "confirm" /\ r.made = 0
      BY <1>0, <2>1, StartCheckDoes
    <3> QED  BY <3>1
  <2>2. CASE Confirm(l)
    <3>1. CASE Rest(l)
      BY <1>0, <3>1, RestDoes, Idle
    <3>2. ASSUME NEW r, OneLane(l, r), ConfirmsTo(l, r)
          PROVE  r.pc # "call" /\ r.made = 0
      BY <3>2 DEF ConfirmsTo
    <3> QED  BY <1>0, <2>2, <3>1, <3>2, ConfirmDoes
  <2>3. CASE RecordDecision(l)
    <3>1. ASSUME NEW pc \in {"model", "apply", "finish"}
          PROVE  LET r == [sLane[l] EXCEPT !.pc = pc, !.entry = Len(sLedger) + 1] IN r.pc # "call" /\ r.made = 0
      BY <1>0, <1>1 DEF LaneRec
    <3>2. PICK pc \in {"model", "apply", "finish"} : OneLane(l, [sLane[l] EXCEPT !.pc = pc, !.entry = Len(sLedger) + 1])
      BY <1>0, <2>3, RecordDoes
    <3> QED  BY <3>1, <3>2
  <2> QED  BY <2>1, <2>2, <2>3 DEF CheckStep
<1> QED  BY <1>0, <1>1, <1>2, <1>3, CallsKept

LEMMA FinishKeepsCalls ==
    ASSUME OnceInv, OnceInv', CallsInv, NEW l \in Lane, Finish(l)
    PROVE  CallsInv'
<1>0. LanesTyped /\ LanesTyped' /\ Locked /\ OpenEntries /\ Spending /\ CallsCounted /\ sLane[l] \in LaneRec
      /\ sGhost.calls \in Nat /\ sGhost.lostCalls \in Nat /\ CallsThisHour \in Nat
  BY GhostType, CallsNat DEF OnceInv, CallsInv, LanesTyped
<1>1. OneLane(l, IdleLane) /\ \E e : Closed(l, e) /\ sLedger' = [sLedger EXCEPT ![sLane[l].entry] = e]
  BY <1>0, FinishDoes
<1>2. PICK e : Closed(l, e) /\ sLedger' = [sLedger EXCEPT ![sLane[l].entry] = e]
  BY <1>1
<1> DEFINE k == sLane[l].entry
<1>3. k \in 1..Len(sLedger) /\ sLedger[k].state = "decided" /\ sLedger[k].calls = 0
  BY <1>0 DEF OpenEntries, Finish, Decided
<1>4. e \in EntryRec /\ e.calls = sLane[l].made /\ sLane[l].made \in Nat
  BY <1>0, <1>2, LaneType DEF Closed
<1>5. e.calls <= SupModelCalls
  BY <1>0, <1>4, SupConstants DEF Spending
<1> HIDE DEF k
<1>6. /\ Len(sLedger') = Len(sLedger)
      /\ \A m \in 1..Len(sLedger) : sLedger'[m] = IF m = k THEN e ELSE sLedger[m]
      /\ CallsThisHour' = CallsThisHour + e.calls
  <2>1. sLedger' = [sLedger EXCEPT ![k] = e]
    BY <1>2 DEF k
  <2>2. \A m \in 1..Len(sLedger) : sLedger[m].calls <= SupModelCalls
    BY <1>0 DEF Spending
  <2> QED  BY <1>0, <1>3, <1>4, <1>5, <2>1, <2>2, ClosedCountsItsOwn
<1>7. UNCHANGED sGhost
  BY DEF Finish
<1>8. Made \in Nat /\ Made' = Made - sLane[l].made
  <2>1. IdleLane \in LaneRec /\ IdleLane.made = 0
    BY Idle
  <2> QED  BY <1>0, <1>1, <1>4, <2>1, MadeMoves
<1>9. CallsCounted'
  BY <1>0, <1>4, <1>6, <1>7, <1>8 DEF CallsCounted
<1>10. Spendable(CallsThisHour')
  <2>1. CASE sLane[l].made = 0
    BY <1>0, <1>4, <1>6, <2>1 DEF Spending
  <2>2. CASE sLane[l].made > 0
    BY <1>0, <1>4, <1>6, <2>2 DEF Spending
  <2> QED  BY <1>4, <2>1, <2>2
<1>11. \A n \in 1..Len(sLedger') : sLedger'[n].calls <= SupModelCalls
  BY <1>0, <1>5, <1>6 DEF Spending
<1>12. sLane'[l] = IdleLane /\ \A m \in Lane \ {l} : sLane'[m] = sLane[m]
  BY <1>1 DEF OneLane
<1>13. ASSUME NEW m \in Lane
       PROVE  /\ sLane'[m].pc = "call" =>
                 /\ sLane'[m].left >= 1
                 /\ CallsThisHour' + sLane'[m].made + sLane'[m].left <= SupHourly
                 /\ sLane'[m].made + sLane'[m].left <= SupModelCalls
                 /\ Affordable(CallsThisHour')
              /\ sLane'[m].made > 0 => sLane'[m].made <= SupModelCalls /\ Spendable(CallsThisHour' + sLane'[m].made)
  <2>1. CASE m = l
    BY <1>12, <2>1, Idle
  <2>2. CASE m # l /\ sLane[l].made = 0
    <3>1. CallsThisHour' = CallsThisHour
      BY <1>0, <1>4, <1>6, <2>2
    <3> QED  BY <1>0, <1>12, <2>2, <3>1 DEF Spending
  <2>3. CASE m # l /\ sLane[l].made > 0
    <3>1. sLane[m].made = 0 /\ sLane[m].pc # "call"
      BY <1>0, <2>3, OneCaller DEF Locked
    <3> QED  BY <1>12, <2>3, <3>1
  <2> QED  BY <1>4, <2>1, <2>2, <2>3
<1>14. Spending'
  BY <1>10, <1>11, <1>13 DEF Spending
<1> QED  BY <1>9, <1>14 DEF CallsInv

LEMMA LaneKeepsCalls ==
    ASSUME OnceInv, OnceInv', CallsInv, UsageInv, NEW l \in Lane,
           ApplyAction(l) \/ BeginDiagnosis(l) \/ Diagnose(l)
    PROVE  CallsInv'
<1>0. LanesTyped /\ LanesTyped' /\ OpenEntries /\ Spending /\ sLane[l] \in LaneRec
      /\ sGhost.calls \in Nat /\ sLane[l].made \in Nat /\ CallsThisHour \in Nat /\ sLane[l].left \in Int
      /\ sGhost \in [applied : Nat, uncounted : Nat, calls : Nat, reported : Nat, lostCalls : Nat]
  BY Lanes, GhostType, LaneType, CallsNat DEF OnceInv, CallsInv, LanesTyped
<1>1. /\ CallsThisHour' = CallsThisHour
      /\ \A n \in 1..Len(sLedger') : sLedger'[n].calls <= SupModelCalls
  <2>1. UNCHANGED sLedger
    BY DEF ApplyAction, BeginDiagnosis, Diagnose
  <2> QED  BY <1>0, <2>1 DEF CallsThisHour, Spending
<1>2. CASE ApplyAction(l)
  <2>1. PICK pc \in {"applied", "failed"} :
              /\ OneLane(l, [sLane[l] EXCEPT !.pc = pc])
              /\ sGhost' = [sGhost EXCEPT !.applied = @ + One(/\ pc = "applied" /\ sLane[l].action \in Recovery
                                                              /\ ~sLane[l].inc.protected)]
    BY <1>0, <1>2, ApplyDoes
  <2> DEFINE r == [sLane[l] EXCEPT !.pc = pc]
  <2>2. r.pc # "call" /\ r.made = sLane[l].made
    BY <1>0 DEF LaneRec
  <2>3. sGhost'.calls = sGhost.calls /\ sGhost'.lostCalls = sGhost.lostCalls
    BY <1>0, <2>1
  <2>4. sGhost'.calls = sGhost.calls + r.made - sLane[l].made
    BY <1>0, <2>2, <2>3
  <2> HIDE DEF r
  <2>5. r.made > 0 => r.made <= SupModelCalls /\ Spendable(CallsThisHour + r.made)
    BY <1>0, <2>2 DEF Spending
  <2>6. OneLane(l, r)
    BY <2>1 DEF r
  <2> QED  BY <1>0, <1>1, <2>2, <2>3, <2>4, <2>5, <2>6, CallsKept
<1>3. CASE BeginDiagnosis(l)
  <2>1. sLane[l].made = 0 /\ UNCHANGED sGhost
    BY <1>0, <1>3 DEF BeginDiagnosis, OpenEntries
  <2>2. PICK r : /\ OneLane(l, r) /\ r.made = 0
                 /\ r.pc = "call" => /\ r.left >= 1 /\ r.left \in Int /\ r.left <= SupModelCalls
                                     /\ CallsThisHour + r.left <= SupHourly /\ Affordable(CallsThisHour)
    <3>1. PICK r : OneLane(l, r) /\ Begun(l, r)
      BY <1>0, <1>3, BeginDoes
    <3>2. r.made = 0 /\ r.left \in Int
      BY <2>1, <3>1, LaneType DEF Begun
    <3>3. r.pc = "call" => CallsThisHour = SupervisorSpend
      BY <1>0, <3>1, KnownIsSpent DEF Begun, UsageInv
    <3> QED  BY <3>1, <3>2, <3>3 DEF Begun
  <2>3. sGhost'.calls = sGhost.calls + r.made - sLane[l].made /\ sGhost'.lostCalls = sGhost.lostCalls
    BY <1>0, <2>1, <2>2
  <2>4. r.pc = "call" => /\ r.left >= 1
                         /\ CallsThisHour + r.made + r.left <= SupHourly
                         /\ r.made + r.left <= SupModelCalls
                         /\ Affordable(CallsThisHour)
    <3>1. r.pc = "call" => CallsThisHour + r.made = CallsThisHour /\ r.made + r.left = r.left
      BY <1>0, <2>2
    <3> QED  BY <2>2, <3>1
  <2> QED  BY <1>0, <1>1, <2>2, <2>3, <2>4, CallsKept
<1>4. CASE Diagnose(l)
  <2>1. PICK r : OneLane(l, r) /\ Called(l, r)
    BY <1>0, <1>4, DiagnoseDoes
  <2>2. /\ sGhost'.calls = sGhost.calls + 1 /\ sGhost'.lostCalls = sGhost.lostCalls
        /\ sLane[l].pc = "call"
    BY <1>0, <1>4, <2>1 DEF Diagnose, Called
  <2>3. r.made = sLane[l].made + 1 /\ r.made \in Nat
    BY <1>0, <2>1 DEF Called
  <2>4. sGhost'.calls = sGhost.calls + r.made - sLane[l].made /\ sGhost'.lostCalls = sGhost.lostCalls
    BY <1>0, <2>2, <2>3
  <2>5. /\ sLane[l].left >= 1
        /\ CallsThisHour + sLane[l].made + sLane[l].left <= SupHourly
        /\ sLane[l].made + sLane[l].left <= SupModelCalls
        /\ Affordable(CallsThisHour)
    BY <1>0, <2>2 DEF Spending
  <2>6. r.pc = "call" => r.left = sLane[l].left - 1 /\ r.left >= 1
    BY <2>1 DEF Called
  <2>7. r.pc = "call" => /\ r.left >= 1
                         /\ CallsThisHour + r.made + r.left <= SupHourly
                         /\ r.made + r.left <= SupModelCalls
                         /\ Affordable(CallsThisHour)
    <3>1. CallsThisHour + r.made = CallsThisHour + sLane[l].made + 1
      BY <1>0, <2>3
    <3> QED  BY <1>0, <2>3, <2>5, <2>6, <3>1, SupConstants
  <2>8. r.made <= SupModelCalls /\ Spendable(CallsThisHour + r.made)
    BY <1>0, <2>3, <2>5, SupConstants DEF Affordable, Spendable
  <2> QED  BY <1>0, <1>1, <2>1, <2>4, <2>7, <2>8, CallsKept
<1> QED  BY <1>2, <1>3, <1>4

LEMMA OthersKeepCalls ==
    ASSUME OnceInv, OnceInv', CallsInv, BookStep \/ Ask \/ SupCrash \/ UNCHANGED supVars
    PROVE  CallsInv'
<1>0. LanesTyped /\ LanesTyped' /\ OpenEntries /\ Spending /\ CallsCounted /\ Len(sLedger) \in Nat
      /\ sGhost.calls \in Nat /\ sGhost.lostCalls \in Nat /\ CallsThisHour \in Nat
  BY GhostType, CallsNat DEF OnceInv, CallsInv, LanesTyped
<1>1. CASE BookStep \/ UNCHANGED supVars
  <2>1. UNCHANGED <<sLedger, sLane, sGhost>>
    BY <1>0, <1>1, BookStepLeaves DEF supVars
  <2> QED  BY <2>1 DEF CallsInv, CallsCounted, Spending, CallsThisHour, Made
<1>2. CASE Ask
  <2> DEFINE e == Entry("ask", Question, [action |-> "ask_model", automatic |-> FALSE])
             r == [IdleLane EXCEPT !.pc = "model", !.entry = Len(sLedger) + 1]
  <2>1. e \in EntryRec /\ e.state = "decided" /\ e.calls = 0 /\ sLedger' = Append(sLedger, e) /\ OneLane("ask", r)
    BY <1>0, <1>2, AskDoes
  <2>2. r.pc = "model" /\ r.made = 0
    BY Idle DEF LaneRec
  <2> HIDE DEF e, r
  <2>3. /\ Len(sLedger') = Len(sLedger) + 1 /\ sLedger'[Len(sLedger) + 1] = e
        /\ \A n \in 1..Len(sLedger) : sLedger'[n] = sLedger[n]
        /\ CallsThisHour' = CallsThisHour
    BY <1>0, <2>1, RecordedCountsNothing
  <2>4. 1..Len(sLedger') = 1..Len(sLedger) \cup {Len(sLedger) + 1} /\ e.calls <= SupModelCalls
    BY <1>0, <2>1, <2>3, SupConstants
  <2>5. \A n \in 1..Len(sLedger') : sLedger'[n].calls <= SupModelCalls
    BY <1>0, <2>3, <2>4 DEF Spending
  <2>6. UNCHANGED sGhost /\ sLane["ask"].made = 0
    BY <1>0, <1>2, Lanes DEF Ask, OpenEntries
  <2>7. sGhost'.calls = sGhost.calls + r.made - sLane["ask"].made
    BY <1>0, <2>2, <2>6
  <2> QED  BY <1>0, <2>1, <2>2, <2>3, <2>5, <2>6, <2>7, Lanes, CallsKept
<1>3. CASE SupCrash
  <2>1. /\ \A l \in Lane : sLane'[l] = IdleLane
        /\ UNCHANGED sLedger /\ Made \in Nat
        /\ sGhost'.calls = sGhost.calls /\ sGhost'.lostCalls = sGhost.lostCalls + Made
    BY <1>0, <1>3, CrashLeaves
  <2>2. CallsThisHour' = CallsThisHour
    BY <2>1 DEF CallsThisHour
  <2>3. Made' = 0
    BY <2>1, Idle, Lanes DEF Made
  <2>4. CallsCounted'
    BY <1>0, <2>1, <2>2, <2>3 DEF CallsCounted
  <2>5. Spending'
    BY <1>0, <2>1, <2>2, Idle DEF Spending
  <2> QED  BY <2>4, <2>5 DEF CallsInv
<1> QED  BY <1>1, <1>2, <1>3

-----------------------------------------------------------------------------
(* What is reported of the calls: one step after the other.                *)

LEMMA ReportingMoves ==
    ASSUME LanesTyped, NEW l \in Lane, NEW r \in LaneRec, OneLane(l, r)
    PROVE  /\ Reporting \in Nat /\ Reporting' = Reporting + r.rep - sLane[l].rep
           /\ sLane[l].rep \in Nat /\ r.rep \in Nat
<1>1. \A m \in Lane : sLane[m].rep \in Nat
  BY LaneType DEF LanesTyped
<1>2. r.rep \in Nat
  BY LaneType
<1>3. \A m \in Lane : sLane'[m].rep = IF m = l THEN r.rep ELSE sLane[m].rep
  BY DEF OneLane
<1>4. "tick" \in Lane /\ "manual" \in Lane /\ "ask" \in Lane
  BY Lanes
<1> DEFINE a == sLane["tick"].rep  b == sLane["manual"].rep  c == sLane["ask"].rep
<1>5. a \in Nat /\ b \in Nat /\ c \in Nat
  BY <1>1, <1>4
<1>6. Reporting = a + b + c
  BY DEF Reporting
<1>7. Reporting' = (IF l = "tick" THEN r.rep ELSE a) + (IF l = "manual" THEN r.rep ELSE b) + (IF l = "ask" THEN r.rep ELSE c)
  BY <1>3, <1>4 DEF Reporting
<1>8. sLane[l].rep = IF l = "tick" THEN a ELSE IF l = "manual" THEN b ELSE c
  BY Lanes
<1> HIDE DEF a, b, c
<1>9. l = "tick" \/ l = "manual" \/ l = "ask"
  BY Lanes
<1>10. Reporting \in Nat
  BY <1>5, <1>6
<1>11. CASE l = "tick"
  BY <1>1, <1>2, <1>5, <1>6, <1>7, <1>8, <1>10, <1>11
<1>12. CASE l = "manual"
  BY <1>1, <1>2, <1>5, <1>6, <1>7, <1>8, <1>10, <1>12
<1>13. CASE l = "ask"
  BY <1>1, <1>2, <1>5, <1>6, <1>7, <1>8, <1>10, <1>13
<1> QED  BY <1>9, <1>11, <1>12, <1>13

(* A step of a lane, beside a ledger that reports the same or what the     *)
(* lane reported.                                                          *)
LEMMA UsageKept ==
    ASSUME LanesTyped, UsageInv, Reports \in Nat, RowUsage', NEW l \in Lane, NEW r, OneLane(l, r),
           NEW filed \in Nat, Reports' = Reports + filed, filed > 0 => \A m \in Lane \ {l} : sLane[m].rep = 0 /\ sLane[m].pc # "call",
           NEW gained \in Nat, r.rep + filed = sLane[l].rep + gained,
           sGhost'.reported = sGhost.reported + gained, sGhost'.lostCalls = sGhost.lostCalls,
           Used(r, r.made), r.pc = "call" => r.asked,
           SupBudget > 0 => /\ Reports + filed + r.rep <= SupBudget
                            /\ r.pc = "call" => Reports + filed + r.rep < SupBudget
    PROVE  UsageInv'
<1>1. r \in LaneRec /\ \A m \in Lane : sLane[m].rep \in Nat
  BY LaneType DEF OneLane, LanesTyped
<1>2. Reporting \in Nat /\ Reporting' = Reporting + r.rep - sLane[l].rep /\ sLane[l].rep \in Nat /\ r.rep \in Nat
  BY <1>1, ReportingMoves
<1>3. sGhost.reported \in Nat /\ sGhost.lostCalls \in Nat /\ SupBudget \in Nat
  BY GhostType, SupConstants
<1>4. LaneUsage'
  BY DEF UsageInv, LaneUsage, OneLane, Used
<1>5. ReportsCounted'
  <2> DEFINE x == r.rep  y == sLane[l].rep  rs == Reports  ri == Reporting  g == sGhost.reported  k == sGhost.lostCalls
  <2>1. g <= rs + ri + k
    BY DEF UsageInv, ReportsCounted
  <2>2. x \in Nat /\ y \in Nat /\ rs \in Nat /\ ri \in Nat /\ g \in Nat /\ k \in Nat /\ x + filed = y + gained
    BY <1>2, <1>3
  <2>3. sGhost'.reported = g + gained /\ sGhost'.lostCalls = k /\ Reports' = rs + filed /\ Reporting' = ri + x - y
    BY <1>2
  <2> HIDE DEF x, y, rs, ri, g, k
  <2>4. g + gained <= (rs + filed) + (ri + x - y) + k
    BY <2>1, <2>2
  <2> QED  BY <2>3, <2>4 DEF ReportsCounted
<1>6. ReportsWithin'
  <2> SUFFICES ASSUME SupBudget > 0
               PROVE  /\ Reports' <= SupBudget
                      /\ \A m \in Lane : /\ Reports' + sLane'[m].rep <= SupBudget
                                         /\ sLane'[m].pc = "call" => Reports' + sLane'[m].rep < SupBudget
    BY DEF ReportsWithin
  <2>1. Reports' <= SupBudget
    BY <1>2, <1>3
  <2>2. ASSUME NEW m \in Lane
        PROVE  /\ Reports' + sLane'[m].rep <= SupBudget
               /\ sLane'[m].pc = "call" => Reports' + sLane'[m].rep < SupBudget
    <3>1. CASE m = l
      <4>1. sLane'[m] = r
        BY <3>1 DEF OneLane
      <4> QED  BY <4>1
    <3>2. CASE m # l
      <4>1. sLane'[m] = sLane[m] /\ sLane[m].rep \in Nat
        BY <1>1, <3>2 DEF OneLane
      <4>2. CASE filed = 0
        <5>1. Reports' = Reports
          BY <4>2
        <5> QED  BY <4>1, <5>1 DEF UsageInv, ReportsWithin
      <4>3. CASE filed > 0
        BY <1>3, <2>1, <3>2, <4>1, <4>3
      <4> QED  BY <4>2, <4>3
    <3> QED  BY <3>1, <3>2
  <2> QED  BY <2>1, <2>2
<1> QED  BY <1>4, <1>5, <1>6 DEF UsageInv

(* A decision that is only recorded reports nothing.                       *)
LEMMA RecordedReportsNothing ==
    ASSUME LanesTyped, RowUsage, NEW e \in EntryRec, e.calls = 0, e.rep = 0, e.mea = 0, ~e.asked,
           sLedger' = Append(sLedger, e)
    PROVE  Reports' = Reports /\ RowUsage'
<1>1. Len(sLedger) \in Nat /\ sLedger \in Seq(EntryRec)
  BY DEF LanesTyped
<1>2. /\ Len(sLedger') = Len(sLedger) + 1 /\ sLedger'[Len(sLedger) + 1] = e
      /\ \A n \in 1..Len(sLedger) : sLedger'[n] = sLedger[n]
  BY <1>1, AppendProperties
<1>3. 1..Len(sLedger') = 1..Len(sLedger) \cup {Len(sLedger) + 1}
  BY <1>1, <1>2
<1>4. {Len(sLedger) + 1} \X (1..sLedger'[Len(sLedger) + 1].rep) = {}
  BY <1>2
<1>5. UNION {{n} \X (1..sLedger'[n].rep) : n \in 1..Len(sLedger')}
         = UNION {{n} \X (1..sLedger[n].rep) : n \in 1..Len(sLedger)}
  BY <1>2, <1>3, <1>4
<1>6. RowUsage'
  BY <1>2, <1>3 DEF RowUsage, Used
<1> QED  BY <1>5, <1>6 DEF Reports

(* An entry of nothing yet, and a lane that has used nothing.              *)
LEMMA NewEntry ==
    \A by, i, d : LET e == Entry(by, i, d) IN e.calls = 0 /\ e.rep = 0 /\ e.mea = 0 /\ ~e.asked
  BY DEF Entry

LEMMA CheckUsesNothing ==
    ASSUME LanesTyped, LaneUsage, OpenEntries, NEW l \in Checker, CheckStep(l)
    PROVE  sLane'[l].made = 0 /\ sLane'[l].rep = 0 /\ sLane'[l].mea = 0 /\ sLane'[l].pc # "call"
<1>1. sLane \in [Lane -> LaneRec] /\ l \in Lane /\ sLane[l] \in LaneRec
  BY Lanes DEF LanesTyped
<1>2. CASE StartCheck(l)
  <2>1. sLane'[l] = [IdleLane EXCEPT !.pc = "confirm", !.active = Sample.active, !.runs = Sample.runs]
    BY <1>1, <1>2 DEF StartCheck
  <2> QED  BY <2>1, Idle DEF LaneRec
<1>3. CASE Confirm(l)
  <2>1. CASE Rest(l)
    BY <1>1, <2>1, Idle DEF Rest
  <2>2. ASSUME NEW i, NEW a, NEW b, NEW c,
               sLane' = [sLane EXCEPT ![l] = [IdleLane EXCEPT !.pc = "record", !.inc = i,
                                                !.action = a, !.automatic = b, !.approval = c]]
        PROVE  sLane'[l].made = 0 /\ sLane'[l].rep = 0 /\ sLane'[l].mea = 0 /\ sLane'[l].pc # "call"
    BY <1>1, <2>2, Idle DEF LaneRec
  <2>3. \/ Rest(l)
        \/ \E i, a, b, c : sLane' = [sLane EXCEPT ![l] = [IdleLane EXCEPT !.pc = "record", !.inc = i,
                                           !.action = a, !.automatic = b, !.approval = c]]
    <3>1. \/ Rest(l)
          \/ \E i : \E d : sLane' = [sLane EXCEPT ![l] = [IdleLane EXCEPT !.pc = "record", !.inc = i,
                                  !.action = d.action, !.automatic = d.automatic, !.approval = d.approval]]
      BY <1>3, Zenon DEF Confirm, EndCheck
    <3> QED  BY <3>1, Zenon
  <2> QED  BY <2>1, <2>2, <2>3
<1>4. CASE RecordDecision(l)
  <2>1. sLane[l].made = 0 /\ sLane[l].rep \in Nat /\ sLane[l].mea \in Nat
    BY <1>1, <1>4, LaneType DEF RecordDecision, OpenEntries
  <2>2. sLane[l].rep = 0 /\ sLane[l].mea = 0
    BY <1>1, <2>1 DEF LaneUsage, Used
  <2>3. \E pc \in {"model", "apply", "finish"} :
          sLane'[l] = [sLane[l] EXCEPT !.entry = Len(sLedger) + 1, !.pc = pc]
    BY <1>1, <1>4 DEF RecordDecision
  <2> QED  BY <1>1, <2>1, <2>2, <2>3 DEF LaneRec
<1> QED  BY <1>2, <1>3, <1>4 DEF CheckStep

LEMMA CheckKeepsUsage ==
    ASSUME OnceInv, OnceInv', CallsInv, UsageInv, NEW l \in Checker, CheckStep(l)
    PROVE  UsageInv'
<1>0. LanesTyped /\ LanesTyped' /\ OpenEntries /\ Spending /\ LaneUsage /\ RowUsage /\ l \in Lane /\ sLane[l] \in LaneRec
      /\ Reports \in Nat /\ sLane[l].rep \in Nat /\ sLane[l].made = 0
  <2>1. LanesTyped /\ LanesTyped' /\ OpenEntries /\ Spending /\ LaneUsage /\ RowUsage /\ l \in Lane
    BY Lanes DEF OnceInv, CallsInv, UsageInv
  <2>2. sLane[l] \in LaneRec /\ sLane[l].rep \in Nat
    BY <2>1, LaneType DEF LanesTyped
  <2>3. sLane[l].pc \in {"idle", "confirm", "record"}
    BY DEF CheckStep, StartCheck, Confirm, RecordDecision, MayCheck
  <2> QED  BY <2>1, <2>2, <2>3, ReportsAreSpent DEF OpenEntries
<1> DEFINE r == sLane'[l]
<1>1. OneLane(l, r)
  <2>1. sLane' \in [Lane -> LaneRec]
    BY <1>0 DEF LanesTyped
  <2>2. \A m \in Lane \ {l} : sLane'[m] = sLane[m]
    BY <1>0 DEF CheckStep, StartCheck, Confirm, RecordDecision, EndCheck, Rest, LanesTyped
  <2> QED  BY <2>1, <2>2 DEF OneLane
<1>2. r.made = 0 /\ r.rep = 0 /\ r.mea = 0 /\ r.pc # "call" /\ Used(r, r.made)
  BY <1>0, CheckUsesNothing DEF Used
<1>3. sLane[l].rep = 0
  BY <1>0 DEF LaneUsage, Used
<1>4. Reports' = Reports /\ RowUsage'
  <2>1. CASE UNCHANGED sLedger
    BY <1>0, <2>1 DEF Reports, RowUsage
  <2>2. CASE RecordDecision(l)
    <3> DEFINE e == Entry(l, sLane[l].inc, [action |-> sLane[l].action, automatic |-> sLane[l].automatic])
    <3>1. e \in EntryRec /\ sLedger' = Append(sLedger, e)
      BY <1>0, <2>2, RecordDoes
    <3>2. e.calls = 0 /\ e.rep = 0 /\ e.mea = 0 /\ ~e.asked
      BY NewEntry
    <3> HIDE DEF e
    <3> QED  BY <1>0, <3>1, <3>2, RecordedReportsNothing
  <2> QED  BY <2>1, <2>2 DEF CheckStep, StartCheck, Confirm
<1>5. UNCHANGED sGhost /\ sGhost.reported \in Nat
  BY <1>0, GhostType DEF CheckStep, StartCheck, Confirm, RecordDecision
<1>6. SupBudget > 0 => Reports <= SupBudget
  BY DEF UsageInv, ReportsWithin
<1> HIDE DEF r
<1>7. /\ Reports' = Reports + 0 /\ r.rep + 0 = sLane[l].rep + 0
      /\ sGhost'.reported = sGhost.reported + 0 /\ sGhost'.lostCalls = sGhost.lostCalls
      /\ Reports + 0 + r.rep = Reports
  BY <1>0, <1>2, <1>3, <1>4, <1>5
<1> QED  BY <1>0, <1>1, <1>2, <1>4, <1>6, <1>7, UsageKept

LEMMA LaneKeepsUsage ==
    ASSUME OnceInv, CallsInv, UsageInv, NEW l \in Lane, ApplyAction(l) \/ BeginDiagnosis(l) \/ Diagnose(l)
    PROVE  UsageInv'
<1>0. LanesTyped /\ OpenEntries /\ Spending /\ LaneUsage /\ RowUsage /\ sLane[l] \in LaneRec
      /\ Reports \in Nat /\ SupervisorSpend \in Nat /\ Reports <= SupervisorSpend
      /\ sLane[l].rep \in Nat /\ sLane[l].mea \in Nat /\ sLane[l].made \in Nat /\ sGhost.reported \in Nat
      /\ Used(sLane[l], sLane[l].made) /\ SupBudget \in Nat
  <2>1. LanesTyped /\ OpenEntries /\ Spending /\ LaneUsage /\ RowUsage
    BY DEF OnceInv, CallsInv, UsageInv
  <2>2. sLane[l] \in LaneRec
    BY <2>1 DEF LanesTyped
  <2> QED  BY <2>1, <2>2, LaneType, ReportsAreSpent, GhostType, SupConstants DEF LaneUsage
<1>1. Reports' = Reports + 0 /\ RowUsage'
  <2>1. UNCHANGED sLedger
    BY DEF ApplyAction, BeginDiagnosis, Diagnose
  <2> QED  BY <1>0, <2>1 DEF Reports, RowUsage
<1>2. SupBudget > 0 => /\ Reports + sLane[l].rep <= SupBudget
                       /\ sLane[l].pc = "call" => Reports + sLane[l].rep < SupBudget
  BY DEF UsageInv, ReportsWithin
<1>3. CASE ApplyAction(l)
  <2>1. PICK pc \in {"applied", "failed"} :
              /\ OneLane(l, [sLane[l] EXCEPT !.pc = pc])
              /\ sGhost' = [sGhost EXCEPT !.applied = @ + One(/\ pc = "applied" /\ sLane[l].action \in Recovery
                                                              /\ ~sLane[l].inc.protected)]
    BY <1>0, <1>3, ApplyDoes
  <2> DEFINE r == [sLane[l] EXCEPT !.pc = pc]
  <2>2. r.pc # "call" /\ r.made = sLane[l].made /\ r.rep = sLane[l].rep /\ r.mea = sLane[l].mea /\ r.asked = sLane[l].asked
    BY <1>0 DEF LaneRec
  <2>3. OneLane(l, r)
    BY <2>1
  <2>4. sGhost'.reported = sGhost.reported /\ sGhost'.lostCalls = sGhost.lostCalls
    BY <1>0, <2>1 DEF LanesTyped
  <2> HIDE DEF r
  <2>5. Used(r, r.made)
    BY <1>0, <2>2 DEF Used
  <2>6. r.rep + 0 = sLane[l].rep + 0 /\ sGhost'.reported = sGhost.reported + 0 /\ Reports + 0 + r.rep = Reports + sLane[l].rep
    BY <1>0, <2>2, <2>4
  <2> QED  BY <1>0, <1>1, <1>2, <2>2, <2>3, <2>4, <2>5, <2>6, UsageKept
<1>4. CASE BeginDiagnosis(l)
  <2>1. PICK r : OneLane(l, r) /\ Begun(l, r)
    BY <1>0, <1>4, BeginDoes
  <2>2. sLane[l].made = 0 /\ UNCHANGED sGhost
    BY <1>0, <1>4 DEF BeginDiagnosis, OpenEntries
  <2>3. sLane[l].rep = 0 /\ sLane[l].mea = 0
    BY <1>0, <2>2 DEF Used
  <2>4. r.made = 0 /\ r.rep = 0 /\ r.mea = 0 /\ r.asked /\ Used(r, r.made)
    BY <2>1, <2>2, <2>3 DEF Begun, Used
  <2>5. SupBudget > 0 /\ r.pc = "call" => Reports < SupBudget
    BY <1>0, <2>1 DEF Begun, Affordable
  <2>6. /\ r.rep + 0 = sLane[l].rep + 0 /\ sGhost'.reported = sGhost.reported + 0
        /\ sGhost'.lostCalls = sGhost.lostCalls /\ Reports + 0 + r.rep = Reports + sLane[l].rep
        /\ Reports + 0 + r.rep = Reports
    BY <1>0, <2>2, <2>3, <2>4
  <2> QED  BY <1>0, <1>1, <1>2, <2>1, <2>4, <2>5, <2>6, UsageKept
<1>5. CASE Diagnose(l)
  <2>1. PICK r : OneLane(l, r) /\ Called(l, r)
    BY <1>0, <1>5, DiagnoseDoes
  <2> DEFINE gained == r.rep - sLane[l].rep
  <2>2. r \in LaneRec /\ r.rep \in Nat /\ r.mea \in Nat /\ r.made = sLane[l].made + 1 /\ gained \in {0, 1}
        /\ r.mea - sLane[l].mea \in {0, 1} /\ r.asked = sLane[l].asked
    BY <2>1, LaneType DEF Called
  <2>3. sLane[l].pc = "call" /\ sLane[l].asked
    BY <1>0, <1>5 DEF Diagnose, LaneUsage
  <2>4. Used(r, r.made)
    BY <1>0, <2>2, <2>3 DEF Used
  <2>5. sGhost' = [sGhost EXCEPT !.calls = @ + 1, !.reported = @ + gained]
    BY <2>1 DEF Called
  <2>6. sGhost'.reported = sGhost.reported + gained /\ sGhost'.lostCalls = sGhost.lostCalls /\ gained \in Nat
    <3>1. gained \in Nat
      BY <2>2
    <3> HIDE DEF gained
    <3>2. sGhost \in [applied : Nat, uncounted : Nat, calls : Nat, reported : Nat, lostCalls : Nat]
      BY <1>0 DEF LanesTyped
    <3> QED  BY <2>5, <3>1, <3>2
  <2>7. r.rep + 0 = sLane[l].rep + gained /\ Reports + 0 + r.rep = Reports + r.rep
    BY <1>0, <2>2
  <2>8. SupBudget > 0 => Reports + r.rep <= SupBudget
    BY <1>0, <1>2, <2>2, <2>3
  <2>9. SupBudget > 0 /\ r.pc = "call" => Reports + r.rep < SupBudget
    <3>1. r.pc = "call" => Affordable(SupervisorSpend + UsageCost(r))
      BY <2>1 DEF Called
    <3>2. r.rep <= UsageCost(r) /\ UsageCost(r) \in Nat
      BY <2>2 DEF UsageCost
    <3> QED  BY <1>0, <2>2, <3>1, <3>2 DEF Affordable
  <2>10. r.asked
    BY <2>2, <2>3
  <2> HIDE DEF gained
  <2> QED  BY <1>0, <1>1, <2>1, <2>4, <2>6, <2>7, <2>8, <2>9, <2>10, UsageKept
<1> QED  BY <1>3, <1>4, <1>5

LEMMA FinishKeepsUsage ==
    ASSUME OnceInv, OnceInv', CallsInv, CallsInv', UsageInv, NEW l \in Lane, Finish(l)
    PROVE  UsageInv'
<1>0. LanesTyped /\ LanesTyped' /\ Locked /\ OpenEntries /\ Spending /\ Spending' /\ LaneUsage /\ RowUsage /\ sLane[l] \in LaneRec
      /\ Reports \in Nat /\ sLane[l].rep \in Nat /\ sLane[l].made \in Nat /\ sGhost.reported \in Nat
      /\ Used(sLane[l], sLane[l].made) /\ \A m \in Lane : Used(sLane[m], sLane[m].made) /\ sLane[m].rep \in Nat
  <2>1. LanesTyped /\ LanesTyped' /\ Locked /\ OpenEntries /\ Spending /\ Spending' /\ LaneUsage /\ RowUsage
    BY DEF OnceInv, CallsInv, UsageInv
  <2>2. \A m \in Lane : sLane[m] \in LaneRec
    BY <2>1 DEF LanesTyped
  <2> QED  BY <2>1, <2>2, LaneType, ReportsAreSpent, GhostType DEF LaneUsage
<1>1. OneLane(l, IdleLane) /\ \E e : Closed(l, e) /\ sLedger' = [sLedger EXCEPT ![sLane[l].entry] = e]
  BY <1>0, FinishDoes
<1>2. PICK e : Closed(l, e) /\ sLedger' = [sLedger EXCEPT ![sLane[l].entry] = e]
  BY <1>1
<1> DEFINE k == sLane[l].entry
<1>3. k \in 1..Len(sLedger) /\ sLedger[k].calls = 0
  BY <1>0 DEF OpenEntries, Finish, Decided
<1>4. /\ e \in EntryRec /\ e.calls = sLane[l].made /\ e.rep = sLane[l].rep /\ e.mea = sLane[l].mea
      /\ e.asked = sLane[l].asked
  BY <1>2 DEF Closed
<1> HIDE DEF k
<1>5. /\ Len(sLedger') = Len(sLedger) /\ Len(sLedger) \in Nat
      /\ \A m \in 1..Len(sLedger) : sLedger'[m] = IF m = k THEN e ELSE sLedger[m]
  <2>1. sLedger \in Seq(EntryRec) /\ sLedger' = [sLedger EXCEPT ![k] = e]
    BY <1>0, <1>2 DEF LanesTyped, k
  <2> QED  BY <1>3, <2>1
<1>6. RowUsage'
  BY <1>0, <1>4, <1>5 DEF RowUsage, Used
<1>7. Reports' = Reports + e.rep
  <2> DEFINE c == ReportsIn(sLedger)  d == ReportsIn(sLedger')  n == Len(sLedger)
  <2>1. n \in Nat /\ c \in [1..n -> Nat] /\ d \in [1..n -> Nat] /\ SupModelCalls \in Nat
        /\ Reports = Cardinality(Pairs(c, n)) /\ (\A m \in 1..n : c[m] <= SupModelCalls)
    <3>1. n \in Nat /\ c \in [1..n -> Nat] /\ SupModelCalls \in Nat /\ Reports = Cardinality(Pairs(c, n))
          /\ CostsIn(sLedger) \in [1..n -> Nat]
          /\ \A m \in 1..n : c[m] <= CostsIn(sLedger)[m] /\ CostsIn(sLedger)[m] <= SupModelCalls
      BY <1>0, Tallies, SupConstants
    <3>2. \A m \in 1..Len(sLedger') : sLedger'[m] \in EntryRec
      BY <1>0 DEF LanesTyped
    <3>3. \A m \in 1..Len(sLedger') : sLedger'[m].rep \in Nat
      BY <3>2 DEF EntryRec
    <3>4. d \in [1..n -> Nat]
      BY <1>5, <3>3 DEF ReportsIn
    <3> HIDE DEF c, d, n
    <3> QED  BY <3>1, <3>4
  <2>2. Reports' = Cardinality(Pairs(d, n))
    BY <1>5 DEF Reports, Pairs, ReportsIn
  <2>3. c[k] = 0
    <3>1. sLedger[k].rep <= sLedger[k].calls /\ sLedger[k] \in EntryRec
      <4>1. Used(sLedger[k], sLedger[k].calls)
        BY <1>0, <1>3 DEF RowUsage
      <4>2. sLedger \in Seq(EntryRec)
        BY <1>0 DEF LanesTyped
      <4>3. sLedger[k] \in EntryRec
        BY <1>3, <4>2
      <4> QED  BY <4>1, <4>3 DEF Used
    <3>2. sLedger[k].rep = 0
      BY <1>3, <3>1 DEF EntryRec
    <3> QED  BY <1>3, <3>2 DEF ReportsIn
  <2>4. d[k] = e.rep /\ \A m \in (1..n) \ {k} : d[m] = c[m]
    BY <1>3, <1>5 DEF ReportsIn
  <2> HIDE DEF c, d, n
  <2>5. k \in 1..n
    BY <1>3 DEF n
  <2>6. Cardinality(Pairs(d, n)) = Cardinality(Pairs(c, n)) + d[k]
    BY <2>1, <2>3, <2>4, <2>5, PairsMove
  <2> QED  BY <2>1, <2>2, <2>4, <2>6
<1>8. e.rep > 0 => \A m \in Lane \ {l} : sLane[m].rep = 0 /\ sLane[m].pc # "call"
  <2> SUFFICES ASSUME e.rep > 0, NEW m \in Lane \ {l} PROVE sLane[m].rep = 0 /\ sLane[m].pc # "call"
    OBVIOUS
  <2>1. sLane[l].made > 0
    BY <1>0, <1>4 DEF Used
  <2>2. sModel = l
    BY <1>0, <2>1 DEF Locked
  <2>3. sLane[m].made = 0 /\ sLane[m].pc # "call"
    BY <1>0, <2>2, OneCaller
  <2> QED  BY <1>0, <2>3 DEF Used
<1>9. UNCHANGED sGhost
  BY DEF Finish
<1>10. IdleLane.rep = 0 /\ IdleLane.pc # "call" /\ Used(IdleLane, IdleLane.made)
  BY Idle DEF Used
<1>11. SupBudget > 0 => Reports + sLane[l].rep <= SupBudget
  BY DEF UsageInv, ReportsWithin
<1>12. e.rep \in Nat /\ IdleLane.rep + e.rep = sLane[l].rep + 0 /\ sGhost'.reported = sGhost.reported + 0
       /\ sGhost'.lostCalls = sGhost.lostCalls /\ Reports + e.rep + IdleLane.rep = Reports + sLane[l].rep
  BY <1>0, <1>4, <1>9, <1>10
<1> QED  BY <1>0, <1>1, <1>6, <1>7, <1>8, <1>10, <1>11, <1>12, UsageKept

LEMMA OthersKeepUsage ==
    ASSUME OnceInv, CallsInv, UsageInv, BookStep \/ Ask \/ SupCrash \/ UNCHANGED supVars
    PROVE  UsageInv'
<1>0. LanesTyped /\ OpenEntries /\ Spending /\ LaneUsage /\ RowUsage /\ ReportsCounted /\ ReportsWithin
      /\ Reports \in Nat /\ sGhost.reported \in Nat /\ sGhost.lostCalls \in Nat
      /\ \A m \in Lane : sLane[m] \in LaneRec /\ Used(sLane[m], sLane[m].made)
  <2>1. LanesTyped /\ OpenEntries /\ Spending /\ LaneUsage /\ RowUsage /\ ReportsCounted /\ ReportsWithin
    BY DEF OnceInv, CallsInv, UsageInv
  <2> QED  BY <2>1, ReportsAreSpent, GhostType DEF LaneUsage, LanesTyped
<1>1. CASE BookStep \/ UNCHANGED supVars
  <2>1. UNCHANGED <<sLedger, sLane, sGhost>>
    BY <1>0, <1>1, BookStepLeaves DEF supVars
  <2> QED  BY <2>1 DEF UsageInv, LaneUsage, RowUsage, ReportsCounted, ReportsWithin, Reports, Reporting
<1>2. CASE Ask
  <2> DEFINE e == Entry("ask", Question, [action |-> "ask_model", automatic |-> FALSE])
             r == [IdleLane EXCEPT !.pc = "model", !.entry = Len(sLedger) + 1]
  <2>1. e \in EntryRec /\ sLedger' = Append(sLedger, e) /\ OneLane("ask", r)
    BY <1>0, <1>2, AskDoes
  <2>2. e.calls = 0 /\ e.rep = 0 /\ e.mea = 0 /\ ~e.asked
    BY NewEntry
  <2>3. r.pc # "call" /\ r.made = 0 /\ r.rep = 0 /\ r.mea = 0 /\ Used(r, r.made)
    BY Idle DEF LaneRec, Used
  <2> HIDE DEF e, r
  <2>4. Reports' = Reports /\ RowUsage'
    BY <1>0, <2>1, <2>2, RecordedReportsNothing
  <2>5. UNCHANGED sGhost /\ sLane["ask"].made = 0
    BY <1>0, <1>2, Lanes DEF Ask, OpenEntries
  <2>6. "ask" \in Lane /\ sLane["ask"].rep = 0
    BY <1>0, <2>5, Lanes, LaneType DEF Used
  <2>7. SupBudget > 0 => Reports <= SupBudget
    BY <1>0 DEF ReportsWithin
  <2>8. /\ Reports' = Reports + 0 /\ r.rep + 0 = sLane["ask"].rep + 0
        /\ sGhost'.reported = sGhost.reported + 0 /\ sGhost'.lostCalls = sGhost.lostCalls
        /\ Reports + 0 + r.rep = Reports
    BY <1>0, <2>3, <2>4, <2>5, <2>6
  <2> QED  BY <1>0, <2>1, <2>3, <2>4, <2>6, <2>7, <2>8, UsageKept
<1>3. CASE SupCrash
  <2>1. /\ \A l \in Lane : sLane'[l] = IdleLane
        /\ UNCHANGED sLedger /\ Made \in Nat /\ sGhost'.lostCalls = sGhost.lostCalls + Made
    BY <1>0, <1>3, CrashLeaves
  <2>2. sGhost'.reported = sGhost.reported
    BY <1>0, <1>3 DEF SupCrash, LanesTyped
  <2>3. Reports' = Reports /\ RowUsage'
    BY <1>0, <2>1 DEF Reports, RowUsage
  <2>4. Reporting' = 0
    BY <2>1, Idle, Lanes DEF Reporting
  <2>5. Reporting <= Made /\ Reporting \in Nat
    <3>1. \A m \in Lane : sLane[m].rep \in Nat /\ sLane[m].made \in Nat /\ sLane[m].rep <= sLane[m].made
      BY <1>0, LaneType DEF Used
    <3> QED  BY <3>1, Lanes DEF Reporting, Made
  <2>6. ReportsCounted'
    BY <1>0, <2>1, <2>2, <2>3, <2>4, <2>5 DEF ReportsCounted
  <2>7. LaneUsage'
    BY <2>1, Idle DEF LaneUsage, Used
  <2>8. ReportsWithin'
    BY <1>0, <2>1, <2>3, Idle DEF ReportsWithin
  <2> QED  BY <2>3, <2>6, <2>7, <2>8 DEF UsageInv
<1> QED  BY <1>1, <1>2, <1>3

LEMMA CallsWithinBudget ==
    ASSUME OnceInv, CallsInv, UsageInv
    PROVE  ModelCallsBounded
<1>0. LanesTyped /\ Locked /\ Spending /\ CallsCounted /\ RowUsage /\ LaneUsage
      /\ sGhost.calls \in Nat /\ sGhost.lostCalls \in Nat /\ CallsThisHour \in Nat
      /\ sGhost.reported \in Nat /\ Reports \in Nat
      /\ \A m \in Lane : sLane[m].made \in Nat /\ sLane[m].rep \in Nat
  <2>1. LanesTyped /\ Locked /\ Spending /\ CallsCounted /\ RowUsage /\ LaneUsage
    BY DEF OnceInv, CallsInv, UsageInv
  <2>2. \A m \in Lane : sLane[m] \in LaneRec
    BY <2>1 DEF LanesTyped
  <2> QED  BY <2>1, <2>2, GhostType, CallsNat, LaneType, ReportsAreSpent
<1>1. Made \in Nat /\ Spendable(CallsThisHour + Made)
  <2>1. CASE sModel \in Lane
    <3>1. Made = sLane[sModel].made /\ Made \in Nat
      BY <1>0, <2>1, OneCaller
    <3>2. CASE Made = 0
      BY <1>0, <3>1, <3>2 DEF Spending
    <3>3. CASE Made > 0
      BY <1>0, <2>1, <3>1, <3>3 DEF Spending
    <3> QED  BY <3>1, <3>2, <3>3
  <2>2. CASE sModel \notin Lane
    <3>1. Made = 0
      BY <1>0, <2>2, NoCaller
    <3> QED  BY <1>0, <3>1 DEF Spending
  <2> QED  BY <2>1, <2>2
<1>2. SupBudget > 0 => Reports + Reporting <= SupBudget
  <2> SUFFICES ASSUME SupBudget > 0 PROVE Reports + Reporting <= SupBudget
    OBVIOUS
  <2>1. Reports <= SupBudget /\ \A m \in Lane : Reports + sLane[m].rep <= SupBudget
    BY DEF UsageInv, ReportsWithin
  <2>2. \A m \in Lane : sLane[m].made = 0 => sLane[m].rep = 0
    BY <1>0 DEF LaneUsage, Used
  <2>3. CASE sModel \in Lane
    <3>1. \A m \in Lane \ {sModel} : sLane[m].rep = 0
      BY <1>0, <2>2, <2>3, OneCaller
    <3>2. Reporting = sLane[sModel].rep
      <4>1. sModel = "tick" \/ sModel = "manual" \/ sModel = "ask"
        BY <2>3, Lanes
      <4>2. CASE sModel = "tick"
        BY <1>0, <3>1, <4>2, Lanes DEF Reporting
      <4>3. CASE sModel = "manual"
        BY <1>0, <3>1, <4>3, Lanes DEF Reporting
      <4>4. CASE sModel = "ask"
        BY <1>0, <3>1, <4>4, Lanes DEF Reporting
      <4> QED  BY <4>1, <4>2, <4>3, <4>4
    <3> QED  BY <2>1, <2>3, <3>2
  <2>4. CASE sModel \notin Lane
    <3>1. Reporting = 0
      BY <1>0, <2>2, <2>4, NoCaller, Lanes DEF Reporting
    <3> QED  BY <1>0, <2>1, <3>1
  <2> QED  BY <2>3, <2>4
<1>3. Reporting \in Nat
  BY <1>0, Lanes DEF Reporting
<1>4. sGhost.reported <= Reports + Reporting + sGhost.lostCalls
  BY DEF UsageInv, ReportsCounted
<1>5. SupBudget > 0 => sGhost.reported <= SupBudget + sGhost.lostCalls
  BY <1>0, <1>2, <1>3, <1>4, SupConstants
<1>6. /\ sGhost.calls <= SupHourly + sGhost.lostCalls
      /\ SupBudget > 0 => sGhost.calls <= SupBudget + (SupModelCalls - 1) + sGhost.lostCalls
  BY <1>0, <1>1, SupConstants DEF CallsCounted, Spendable
<1> QED  BY <1>5, <1>6 DEF ModelCallsBounded

-----------------------------------------------------------------------------
(* The recoveries: one step after the other.                               *)

Owes(r)      == r.pc = "applied" /\ r.action \in Recovery
IsPending(r) == r.pc \in {"record", "apply"} /\ r.automatic /\ r.action \in Recovery /\ ~r.inc.protected

LEMMA LanesFinite == IsFiniteSet(Lane)
<1>1. IsFiniteSet({"tick"}) /\ IsFiniteSet({"tick"} \cup {"manual"})
  BY FS_Singleton, FS_AddElement
<1>2. IsFiniteSet({"tick"} \cup {"manual"} \cup {"ask"}) /\ Lane = {"tick"} \cup {"manual"} \cup {"ask"}
  BY <1>1, FS_AddElement, Lanes
<1> QED  BY <1>2

LEMMA UncountedNat == IsFiniteSet(Uncounted) /\ Cardinality(Uncounted) \in Nat
<1>1. Uncounted \in SUBSET Lane
  BY DEF Uncounted
<1> QED  BY <1>1, LanesFinite, FS_Subset, FS_CardinalityType

LEMMA OneIs == /\ \A b \in BOOLEAN : One(b) \in Nat /\ One(b) <= 1
               /\ One(TRUE) = 1 /\ One(FALSE) = 0
  BY DEF One

(* What one lane owes is one more or one less.                             *)
LEMMA UncountedMoves ==
    ASSUME LanesTyped, NEW l \in Lane, NEW r, OneLane(l, r)
    PROVE  /\ Owes(r) /\ ~Owes(sLane[l]) => Cardinality(Uncounted') = Cardinality(Uncounted) + 1
           /\ ~Owes(r) /\ Owes(sLane[l]) => Cardinality(Uncounted') = Cardinality(Uncounted) - 1
           /\ (Owes(r) <=> Owes(sLane[l])) => Cardinality(Uncounted') = Cardinality(Uncounted)
<1>1. Uncounted = {m \in Lane : Owes(sLane[m])} /\ Uncounted' = {m \in Lane : Owes(sLane'[m])}
  BY DEF Uncounted, Owes
<1>2. sLane'[l] = r /\ \A m \in Lane \ {l} : sLane'[m] = sLane[m]
  BY DEF OneLane
<1>3. IsFiniteSet(Uncounted)
  BY UncountedNat
<1>4. CASE Owes(r) /\ ~Owes(sLane[l])
  <2>1. Uncounted' = Uncounted \cup {l} /\ l \notin Uncounted
    BY <1>1, <1>2, <1>4
  <2> QED  BY <1>3, <1>4, <2>1, FS_AddElement
<1>5. CASE ~Owes(r) /\ Owes(sLane[l])
  <2>1. Uncounted' = Uncounted \ {l} /\ l \in Uncounted
    BY <1>1, <1>2, <1>5
  <2> QED  BY <1>3, <1>5, <2>1, FS_RemoveElement
<1>6. CASE Owes(r) <=> Owes(sLane[l])
  <2>1. Uncounted' = Uncounted
    BY <1>1, <1>2, <1>6
  <2> QED  BY <1>6, <2>1
<1> QED  BY <1>4, <1>5, <1>6

LEMMA PendingIs == Pending <=> \E l \in Checker : IsPending(sLane[l])
  BY DEF Pending, IsPending

LEMMA PendingMoves ==
    ASSUME LanesTyped, NEW l \in Lane, NEW r, OneLane(l, r)
    PROVE  /\ l \notin Checker \/ ~IsPending(r) \/ IsPending(sLane[l]) => (Pending' => Pending)
           /\ (\A m \in Checker \ {l} : sLane[m].pc = "idle") /\ ~(l \in Checker /\ IsPending(r)) => ~Pending'
<1>1. Pending' <=> \E m \in Checker : IsPending(sLane'[m])
  BY DEF Pending, IsPending
<1>2. \A m \in Checker : IsPending(sLane'[m]) <=> IF m = l THEN IsPending(r) ELSE IsPending(sLane[m])
  BY Lanes DEF OneLane
<1>3. \A m \in Lane : sLane[m].pc = "idle" => ~IsPending(sLane[m])
  BY DEF IsPending
<1> QED  BY <1>1, <1>2, <1>3, PendingIs, Lanes, Zenon

LEMMA AskedType == ASSUME LanesTyped PROVE Asked \in Nat
<1>1. sPolicy.asks \in Nat /\ sLeft.asks \in Nat /\ sLeft.asks <= sPolicy.asks
  BY SupConstants DEF LanesTyped
<1> QED  BY <1>1 DEF Asked

(* Room for one more: a check that decides below the cap is the only one,  *)
(* and what the question of an operator adds was asked for.                *)
LEMMA Room ==
    ASSUME LanesTyped, Locked, RecoveryInv, NEW l \in Checker, sLane[l].pc \in {"confirm", "call"},
           CountAutoRecoveries < SupAttempts
    PROVE  sGhost.applied + 1 + One(AskOpen) <= SupAttempts + sGhost.uncounted + Asked
<1>1. Uncounted \subseteq {"ask"}
  <2>1. \A m \in Checker : ~Owes(sLane[m])
    BY OneCheck DEF Owes
  <2> QED  BY <2>1, Lanes DEF Uncounted, Owes
<1>2. CountAutoRecoveries \in Nat /\ Asked \in Nat /\ Cardinality(Uncounted) \in Nat
      /\ sGhost.applied \in Nat /\ sGhost.uncounted \in Nat /\ SupAttempts \in Nat
  BY CountsAreNat, AskedType, UncountedNat, GhostType, SupConstants
<1>3. Cardinality(Uncounted) + One(AskOpen) <= Asked
  <2>1. CASE "ask" \in Uncounted
    <3>1. sLane["ask"].pc = "applied"
      BY <2>1 DEF Uncounted
    <3>2. ~AskOpen /\ Asked >= 1
      BY <3>1 DEF AskOpen, RecoveryInv, RecoveriesOwed
    <3>3. Cardinality(Uncounted) = 1
      <4>1. Uncounted = {"ask"}
        BY <1>1, <2>1
      <4> QED  BY <4>1, FS_Singleton
    <3> QED  BY <1>2, <3>2, <3>3 DEF One
  <2>2. CASE "ask" \notin Uncounted
    <3>1. Uncounted = {}
      BY <1>1, <2>2
    <3>2. Cardinality(Uncounted) = 0
      BY <3>1, FS_EmptySet
    <3>3. AskOpen => Asked >= 1
      BY DEF AskOpen, RecoveryInv, RecoveriesOwed
    <3> QED  BY <1>2, <3>2, <3>3 DEF One
  <2> QED  BY <2>1, <2>2
<1>4. sGhost.applied <= CountAutoRecoveries + Cardinality(Uncounted) + sGhost.uncounted
  BY DEF RecoveryInv, RecoveriesCounted
<1>5. One(AskOpen) \in Nat
  BY DEF One
<1> QED  BY <1>2, <1>3, <1>4, <1>5

(* A step that applies nothing.                                            *)
LEMMA NothingApplied ==
    ASSUME LanesTyped, LanesTyped', RecoveryInv, NEW l \in Lane, NEW r, OneLane(l, r),
           sGhost'.applied = sGhost.applied, sGhost'.uncounted = sGhost.uncounted,
           CountAutoRecoveries' = CountAutoRecoveries, Owes(r) <=> Owes(sLane[l]), Asked' = Asked,
           \/ Pending' => Pending
           \/ sGhost.applied + 1 + One(AskOpen) <= SupAttempts + sGhost.uncounted + Asked,
           AskOpen' => AskOpen, sLane'["ask"].pc # "idle" => sLane["ask"].pc # "idle"
    PROVE  RecoveryInv'
<1>1. Cardinality(Uncounted') = Cardinality(Uncounted)
  BY UncountedMoves
<1>2. RecoveriesCounted'
  BY <1>1 DEF RecoveryInv, RecoveriesCounted
<1>3. sGhost.applied \in Nat /\ sGhost.uncounted \in Nat /\ Asked \in Nat /\ SupAttempts \in Nat
  BY GhostType, AskedType, SupConstants
<1> DEFINE p == One(Pending)  q == One(AskOpen)
           pp == One(Pending')  qq == One(AskOpen')
<1>4. p \in {0, 1} /\ q \in {0, 1} /\ pp \in {0, 1} /\ qq \in {0, 1} /\ qq <= q
      /\ (pp <= p \/ sGhost.applied + 1 + q <= SupAttempts + sGhost.uncounted + Asked)
  BY DEF One
<1>5. sGhost.applied + p + q <= SupAttempts + sGhost.uncounted + Asked
  BY DEF RecoveryInv, RecoveriesOwed
<1> HIDE DEF p, q, pp, qq
<1>6. sGhost.applied + pp + qq <= SupAttempts + sGhost.uncounted + Asked
  BY <1>3, <1>4, <1>5
<1>7. sGhost'.applied + One(Pending') + One(AskOpen') <= SupAttempts + sGhost'.uncounted + Asked'
  BY <1>6 DEF pp, qq
<1>8. sLane'["ask"].pc # "idle" => Asked' >= 1
  BY DEF RecoveryInv, RecoveriesOwed
<1>9. RecoveriesOwed'
  BY <1>7, <1>8 DEF RecoveriesOwed
<1> QED  BY <1>2, <1>9 DEF RecoveryInv

LEMMA AskOpenMoves ==
    ASSUME LanesTyped, NEW l \in Lane, NEW r, OneLane(l, r)
    PROVE  /\ l # "ask" => (AskOpen' <=> AskOpen) /\ (sLane'["ask"].pc # "idle" => sLane["ask"].pc # "idle")
           /\ l = "ask" => (AskOpen' <=> r.pc \in {"model", "call", "apply"}) /\ sLane'["ask"].pc = r.pc
  BY Lanes DEF OneLane, AskOpen

LEMMA CheckKeepsRecoveries ==
    ASSUME OnceInv, OnceInv', RecoveryInv, BookTyped, NEW l \in Checker, CheckStep(l)
    PROVE  RecoveryInv'
<1>0. LanesTyped /\ LanesTyped' /\ Locked /\ l \in Lane /\ l # "ask" /\ sLane[l] \in LaneRec
  BY Lanes DEF OnceInv, LanesTyped
<1>1. UNCHANGED <<sGhost, sPolicy, sLeft>> /\ sLane[l].pc \in {"idle", "confirm", "record"}
  BY DEF CheckStep, StartCheck, Confirm, RecordDecision, MayCheck, SupConst
<1>2. Asked' = Asked
  BY <1>1 DEF Asked
<1>3. CountAutoRecoveries' = CountAutoRecoveries
  <2>1. CASE UNCHANGED sLedger
    BY <2>1 DEF CountAutoRecoveries
  <2>2. CASE RecordDecision(l)
    <3> DEFINE e == Entry(l, sLane[l].inc, [action |-> sLane[l].action, automatic |-> sLane[l].automatic])
    <3>1. e \in EntryRec /\ e.state = "decided" /\ e.calls = 0 /\ sLedger' = Append(sLedger, e)
      BY <1>0, <2>2, RecordDoes
    <3> HIDE DEF e
    <3> QED  BY <1>0, <3>1, RecordedCountsNothing
  <2> QED  BY <2>1, <2>2 DEF CheckStep, StartCheck, Confirm
<1>4. PICK r : /\ OneLane(l, r) /\ r.pc # "applied"
               /\ \/ ~IsPending(r) \/ IsPending(sLane[l])
                  \/ sLane[l].pc = "confirm" /\ CountAutoRecoveries < SupAttempts
  <2>1. CASE StartCheck(l)
    <3>1. PICK r : OneLane(l, r) /\ r.pc = "confirm" /\ r.made = 0
      BY <1>0, <2>1, StartCheckDoes
    <3> QED  BY <3>1 DEF IsPending
  <2>2. CASE Confirm(l)
    <3>1. CASE Rest(l)
      BY <1>0, <3>1, RestDoes, Idle DEF IsPending
    <3>2. ASSUME NEW r, OneLane(l, r), ConfirmsTo(l, r)
          PROVE  r.pc # "applied" /\ (~IsPending(r) \/ CountAutoRecoveries < SupAttempts)
      BY <3>2 DEF ConfirmsTo, IsPending
    <3>3. sLane[l].pc = "confirm"
      BY <2>2 DEF Confirm
    <3> QED  BY <1>0, <2>2, <3>1, <3>2, <3>3, ConfirmDoes
  <2>3. CASE RecordDecision(l)
    <3>1. sLane[l].pc = "record"
      BY <2>3 DEF RecordDecision
    <3>2. ASSUME NEW pc \in {"model", "apply", "finish"}
          PROVE  LET r == [sLane[l] EXCEPT !.pc = pc, !.entry = Len(sLedger) + 1]
                 IN  r.pc # "applied" /\ (~IsPending(r) \/ IsPending(sLane[l]))
      BY <1>0, <3>1 DEF LaneRec, IsPending
    <3>3. PICK pc \in {"model", "apply", "finish"} : OneLane(l, [sLane[l] EXCEPT !.pc = pc, !.entry = Len(sLedger) + 1])
      BY <1>0, <2>3, RecordDoes
    <3> QED  BY <3>2, <3>3
  <2> QED  BY <2>1, <2>2, <2>3 DEF CheckStep
<1>5. \/ Pending' => Pending
      \/ sGhost.applied + 1 + One(AskOpen) <= SupAttempts + sGhost.uncounted + Asked
  BY <1>0, <1>4, PendingMoves, Room
<1>6. Owes(r) <=> Owes(sLane[l])
  BY <1>1, <1>4 DEF Owes
<1> QED  BY <1>0, <1>1, <1>2, <1>3, <1>4, <1>5, <1>6, AskOpenMoves, NothingApplied

LEMMA ApplyKeepsRecoveries ==
    ASSUME OnceInv, OnceInv', RecoveryInv, NEW l \in Lane, ApplyAction(l)
    PROVE  RecoveryInv'
<1>0. LanesTyped /\ LanesTyped' /\ Locked /\ OpenEntries /\ sLane[l] \in LaneRec /\ sLane[l].pc = "apply"
      /\ sLane[l].automatic
      /\ sGhost \in [applied : Nat, uncounted : Nat, calls : Nat, reported : Nat, lostCalls : Nat]
  BY Lanes DEF OnceInv, LanesTyped, OpenEntries, ApplyAction
<1>1. PICK pc \in {"applied", "failed"} :
              /\ OneLane(l, [sLane[l] EXCEPT !.pc = pc])
              /\ sGhost' = [sGhost EXCEPT !.applied = @ + One(/\ pc = "applied" /\ sLane[l].action \in Recovery
                                                              /\ ~sLane[l].inc.protected)]
  BY <1>0, ApplyDoes
<1> DEFINE r == [sLane[l] EXCEPT !.pc = pc]
           counts == pc = "applied" /\ sLane[l].action \in Recovery /\ ~sLane[l].inc.protected
           g == One(counts)
<1>2. r.pc = pc /\ r.action = sLane[l].action /\ OneLane(l, r)
  BY <1>0, <1>1 DEF LaneRec
<1>3. g \in {0, 1} /\ (g = 1 => counts) /\ sGhost' = [sGhost EXCEPT !.applied = @ + g]
  BY <1>1 DEF One
<1> HIDE DEF r, g
<1>4. sGhost'.applied = sGhost.applied + g /\ sGhost'.uncounted = sGhost.uncounted
  BY <1>0, <1>3
<1>5. Asked' = Asked /\ CountAutoRecoveries' = CountAutoRecoveries
  BY DEF ApplyAction, SupConst, Asked, CountAutoRecoveries
<1>6. CountAutoRecoveries \in Nat /\ Asked \in Nat /\ Cardinality(Uncounted) \in Nat
      /\ sGhost.applied \in Nat /\ sGhost.uncounted \in Nat /\ SupAttempts \in Nat
  BY <1>0, CountsAreNat, AskedType, UncountedNat, GhostType, SupConstants
<1>7. /\ Cardinality(Uncounted') = Cardinality(Uncounted) + 1 \/ Cardinality(Uncounted') = Cardinality(Uncounted)
      /\ g = 1 => Cardinality(Uncounted') = Cardinality(Uncounted) + 1
  <2>1. ~Owes(sLane[l])
    BY <1>0 DEF Owes
  <2>2. g = 1 => Owes(r)
    BY <1>2, <1>3 DEF Owes
  <2> QED  BY <1>0, <1>2, <2>1, <2>2, UncountedMoves
<1>8. RecoveriesCounted'
  <2>1. sGhost.applied <= CountAutoRecoveries + Cardinality(Uncounted) + sGhost.uncounted
    BY DEF RecoveryInv, RecoveriesCounted
  <2>2. sGhost'.applied <= CountAutoRecoveries' + Cardinality(Uncounted') + sGhost'.uncounted
    BY <1>3, <1>4, <1>5, <1>6, <1>7, <2>1
  <2> QED  BY <2>2 DEF RecoveriesCounted
<1> DEFINE p == One(Pending)  q == One(AskOpen)  pp == One(Pending')  qq == One(AskOpen')
<1>9. p \in {0, 1} /\ q \in {0, 1} /\ pp \in {0, 1} /\ qq \in {0, 1}
  BY DEF One
<1>10. (Pending' => Pending) /\ (AskOpen' => AskOpen)
  <2>1. ~IsPending(r)
    BY <1>2 DEF IsPending
  <2>2. r.pc \notin {"model", "call", "apply"}
    BY <1>2
  <2> QED  BY <1>0, <1>2, <2>1, <2>2, PendingMoves, AskOpenMoves
<1>11. pp <= p /\ qq <= q
  BY <1>10 DEF One
<1>12. g = 1 => (p = 1 /\ pp = 0) \/ (q = 1 /\ qq = 0)
  <2> SUFFICES ASSUME g = 1 PROVE (p = 1 /\ pp = 0) \/ (q = 1 /\ qq = 0)
    OBVIOUS
  <2>1. CASE l \in Checker
    <3>1. IsPending(sLane[l])
      BY <1>0, <1>3 DEF IsPending
    <3>2. ~IsPending(r)
      BY <1>2 DEF IsPending
    <3>3. \A m \in Checker \ {l} : sLane[m].pc = "idle"
      BY <1>0, <2>1, OneCheck
    <3>4. Pending /\ ~Pending'
      BY <1>0, <1>2, <2>1, <3>1, <3>2, <3>3, PendingIs, PendingMoves
    <3> QED  BY <3>4 DEF One
  <2>2. CASE l = "ask"
    <3>1. AskOpen /\ ~AskOpen'
      <4>1. AskOpen
        BY <1>0, <2>2 DEF AskOpen
      <4>2. r.pc \notin {"model", "call", "apply"}
        BY <1>2
      <4> QED  BY <1>0, <1>2, <2>2, <4>1, <4>2, AskOpenMoves
    <3> QED  BY <3>1 DEF One
  <2> QED  BY <2>1, <2>2, Lanes
<1>13. RecoveriesOwed'
  <2>1. sGhost.applied + p + q <= SupAttempts + sGhost.uncounted + Asked
    BY DEF RecoveryInv, RecoveriesOwed
  <2> HIDE DEF p, q, pp, qq
  <2>2. sGhost'.applied + pp + qq <= SupAttempts + sGhost'.uncounted + Asked'
    BY <1>3, <1>4, <1>5, <1>6, <1>9, <1>11, <1>12, <2>1
  <2>3. sLane'["ask"].pc # "idle" => Asked' >= 1
    <3>1. sLane'["ask"].pc # "idle" => sLane["ask"].pc # "idle"
      BY <1>0, <1>2, AskOpenMoves
    <3> QED  BY <1>5, <3>1 DEF RecoveryInv, RecoveriesOwed
  <2> QED  BY <2>2, <2>3 DEF RecoveriesOwed, pp, qq
<1> QED  BY <1>8, <1>13 DEF RecoveryInv

LEMMA FinishKeepsRecoveries ==
    ASSUME OnceInv, OnceInv', Spending, RecoveryInv, NEW l \in Lane, Finish(l)
    PROVE  RecoveryInv'
<1>0. LanesTyped /\ LanesTyped' /\ OpenEntries /\ Spending /\ sLane[l] \in LaneRec
      /\ sLane[l].pc \in {"finish", "applied", "failed"} /\ sLane[l].made \in Nat
      /\ UNCHANGED <<sGhost, sPolicy, sLeft>>
  BY LaneType DEF OnceInv, LanesTyped, Finish, SupConst
<1>1. OneLane(l, IdleLane) /\ \E e : Closed(l, e) /\ sLedger' = [sLedger EXCEPT ![sLane[l].entry] = e]
  BY <1>0, FinishDoes
<1>2. PICK e : Closed(l, e) /\ sLedger' = [sLedger EXCEPT ![sLane[l].entry] = e]
  BY <1>1
<1> DEFINE k == sLane[l].entry
<1>3. k \in 1..Len(sLedger) /\ sLedger[k].state = "decided" /\ sLedger[k].calls = 0
  BY <1>0 DEF OpenEntries, Decided
<1>4. e \in EntryRec /\ e.calls <= SupModelCalls
  BY <1>0, <1>2, SupConstants DEF Closed, Spending
<1> DEFINE counts == e.automatic /\ e.state = "completed" /\ e.action \in Recovery
<1>5. counts <=> Owes(sLane[l])
  BY <1>0, <1>2 DEF Closed, OpenEntries, Owes
<1> HIDE DEF k
<1>6. CountAutoRecoveries' = CountAutoRecoveries + One(counts)
  <2>1. sLedger' = [sLedger EXCEPT ![k] = e]
    BY <1>2 DEF k
  <2>2. \A m \in 1..Len(sLedger) : sLedger[m].calls <= SupModelCalls
    BY <1>0 DEF Spending
  <2> QED  BY <1>0, <1>3, <1>4, <2>1, <2>2, ClosedCountsItsOwn
<1> HIDE DEF counts
<1>7. CountAutoRecoveries \in Nat /\ Cardinality(Uncounted) \in Nat
  BY <1>0, CountsAreNat, UncountedNat
<1>8. CountAutoRecoveries' + Cardinality(Uncounted') = CountAutoRecoveries + Cardinality(Uncounted)
  <2>1. ~Owes(IdleLane)
    BY Idle DEF Owes
  <2>2. CASE counts
    <3>1. Cardinality(Uncounted') = Cardinality(Uncounted) - 1
      BY <1>0, <1>1, <1>5, <2>1, <2>2, UncountedMoves
    <3> QED  BY <1>6, <1>7, <2>2, <3>1 DEF One
  <2>3. CASE ~counts
    <3>1. Cardinality(Uncounted') = Cardinality(Uncounted)
      BY <1>0, <1>1, <1>5, <2>1, <2>3, UncountedMoves
    <3> QED  BY <1>6, <1>7, <2>3, <3>1 DEF One
  <2> QED  BY <2>2, <2>3
<1>9. RecoveriesCounted'
  <2>1. sGhost.applied <= CountAutoRecoveries + Cardinality(Uncounted) + sGhost.uncounted
    BY DEF RecoveryInv, RecoveriesCounted
  <2>2. sGhost.applied <= CountAutoRecoveries' + Cardinality(Uncounted') + sGhost.uncounted
    BY <1>8, <2>1
  <2> QED  BY <1>0, <2>2 DEF RecoveriesCounted
<1>10. (Pending' => Pending) /\ (AskOpen' => AskOpen) /\ (sLane'["ask"].pc # "idle" => sLane["ask"].pc # "idle")
  <2>1. ~IsPending(IdleLane) /\ IdleLane.pc = "idle"
    BY Idle DEF IsPending
  <2> QED  BY <1>0, <1>1, <2>1, PendingMoves, AskOpenMoves
<1>11. RecoveriesOwed'
  <2>1. sGhost.applied \in Nat /\ sGhost.uncounted \in Nat /\ Asked \in Nat /\ SupAttempts \in Nat /\ Asked' = Asked
    BY <1>0, GhostType, AskedType, SupConstants DEF Asked
  <2> DEFINE p == One(Pending)  q == One(AskOpen)  pp == One(Pending')  qq == One(AskOpen')
  <2>2. p \in {0, 1} /\ q \in {0, 1} /\ pp \in {0, 1} /\ qq \in {0, 1} /\ pp <= p /\ qq <= q
    BY <1>10 DEF One
  <2>3. sGhost.applied + p + q <= SupAttempts + sGhost.uncounted + Asked
    BY DEF RecoveryInv, RecoveriesOwed
  <2> HIDE DEF p, q, pp, qq
  <2>4. sGhost.applied + pp + qq <= SupAttempts + sGhost.uncounted + Asked
    BY <2>1, <2>2, <2>3
  <2>5. sLane'["ask"].pc # "idle" => Asked' >= 1
    BY <1>10, <2>1 DEF RecoveryInv, RecoveriesOwed
  <2> QED  BY <1>0, <2>1, <2>4, <2>5 DEF RecoveriesOwed, pp, qq
<1> QED  BY <1>9, <1>11 DEF RecoveryInv

LEMMA DiagnosisKeepsRecoveries ==
    ASSUME OnceInv, OnceInv', Spending, RecoveryInv, NEW l \in Lane, BeginDiagnosis(l) \/ Diagnose(l)
    PROVE  RecoveryInv'
<1>0. LanesTyped /\ LanesTyped' /\ Locked /\ sLane[l] \in LaneRec
      /\ sGhost \in [applied : Nat, uncounted : Nat, calls : Nat, reported : Nat, lostCalls : Nat]
  BY DEF OnceInv, LanesTyped
<1>1. UNCHANGED <<sPolicy, sLeft, sLedger>> /\ sLane[l].pc \in {"model", "call"}
  BY DEF BeginDiagnosis, Diagnose, SupConst
<1>2. Asked' = Asked /\ CountAutoRecoveries' = CountAutoRecoveries
  BY <1>1 DEF Asked, CountAutoRecoveries
<1>3. sGhost'.applied = sGhost.applied /\ sGhost'.uncounted = sGhost.uncounted
  BY <1>0 DEF BeginDiagnosis, Diagnose
<1>4. PICK r : /\ OneLane(l, r) /\ r.pc # "applied"
               /\ \/ ~IsPending(r)
                  \/ sLane[l].pc = "call" /\ CountAutoRecoveries < SupAttempts
  <2>1. CASE BeginDiagnosis(l)
    BY <1>0, <2>1, BeginDoes DEF Begun, IsPending
  <2>2. CASE Diagnose(l)
    <3>1. PICK r : OneLane(l, r) /\ Called(l, r)
      BY <1>0, <2>2, DiagnoseDoes
    <3>2. r.pc # "applied" /\ (~IsPending(r) \/ CountAutoRecoveries < SupAttempts)
      BY <3>1 DEF Called, IsPending
    <3>3. sLane[l].pc = "call"
      BY <2>2 DEF Diagnose
    <3> QED  BY <3>1, <3>2, <3>3
  <2> QED  BY <2>1, <2>2
<1>5. \/ Pending' => Pending
      \/ sGhost.applied + 1 + One(AskOpen) <= SupAttempts + sGhost.uncounted + Asked
  <2>1. CASE l \notin Checker \/ ~IsPending(r)
    BY <1>0, <1>4, <2>1, PendingMoves
  <2>2. CASE l \in Checker /\ IsPending(r)
    BY <1>0, <1>4, <2>2, Room
  <2> QED  BY <2>1, <2>2
<1>6. Owes(r) <=> Owes(sLane[l])
  BY <1>1, <1>4 DEF Owes
<1>7. (AskOpen' => AskOpen) /\ (sLane'["ask"].pc # "idle" => sLane["ask"].pc # "idle")
  <2>1. l = "ask" => AskOpen
    BY <1>1 DEF AskOpen
  <2>2. l = "ask" => sLane["ask"].pc # "idle"
    BY <1>1
  <2> QED  BY <1>0, <1>4, <2>1, <2>2, AskOpenMoves
<1> QED  BY <1>0, <1>2, <1>3, <1>4, <1>5, <1>6, <1>7, NothingApplied

LEMMA OthersKeepRecoveries ==
    ASSUME OnceInv, OnceInv', RecoveryInv, BookStep \/ Ask \/ SupCrash \/ UNCHANGED supVars
    PROVE  RecoveryInv'
<1>0. LanesTyped /\ LanesTyped' /\ Locked
      /\ sGhost.applied \in Nat /\ sGhost.uncounted \in Nat /\ Asked \in Nat /\ SupAttempts \in Nat
      /\ CountAutoRecoveries \in Nat /\ Cardinality(Uncounted) \in Nat
  BY GhostType, AskedType, SupConstants, CountsAreNat, UncountedNat DEF OnceInv
<1>1. CASE BookStep \/ UNCHANGED supVars
  <2>1. UNCHANGED <<sLedger, sLane, sGhost, sPolicy>> /\ sLeft'.asks = sLeft.asks
    BY <1>0, <1>1, BookStepLeaves DEF supVars
  <2>2. /\ CountAutoRecoveries' = CountAutoRecoveries /\ Uncounted' = Uncounted /\ Asked' = Asked
        /\ (Pending' <=> Pending) /\ (AskOpen' <=> AskOpen)
    BY <2>1 DEF CountAutoRecoveries, Uncounted, Asked, Pending, AskOpen
  <2>3. One(Pending') = One(Pending) /\ One(AskOpen') = One(AskOpen)
    BY <2>2 DEF One
  <2>4. RecoveriesCounted'
    BY <2>1, <2>2 DEF RecoveryInv, RecoveriesCounted
  <2>5. RecoveriesOwed'
    BY <2>1, <2>2, <2>3 DEF RecoveryInv, RecoveriesOwed
  <2> QED  BY <2>4, <2>5 DEF RecoveryInv
<1>2. CASE Ask
  <2> DEFINE e == Entry("ask", Question, [action |-> "ask_model", automatic |-> FALSE])
             r == [IdleLane EXCEPT !.pc = "model", !.entry = Len(sLedger) + 1]
  <2>1. e \in EntryRec /\ e.state = "decided" /\ e.calls = 0 /\ sLedger' = Append(sLedger, e) /\ OneLane("ask", r)
    BY <1>0, <1>2, AskDoes
  <2>2. r.pc = "model"
    BY Idle DEF LaneRec
  <2> HIDE DEF e, r
  <2>3. CountAutoRecoveries' = CountAutoRecoveries
    BY <1>0, <2>1, RecordedCountsNothing
  <2>4. sLane["ask"].pc = "idle" /\ UNCHANGED <<sGhost, sPolicy>> /\ sLeft' = [sLeft EXCEPT !.asks = @ - 1]
    BY <1>2 DEF Ask, SupConst
  <2>5. Asked' = Asked + 1
    <3>1. sPolicy.asks \in Nat /\ sLeft.asks \in Nat /\ sLeft \in [asks : Nat, events : Nat]
      BY <1>0, SupConstants DEF LanesTyped
    <3>2. sLeft'.asks = sLeft.asks - 1
      BY <2>4, <3>1
    <3> QED  BY <2>4, <3>1, <3>2 DEF Asked
  <2>6. Cardinality(Uncounted') = Cardinality(Uncounted)
    <3>1. ~Owes(r) /\ ~Owes(sLane["ask"])
      BY <2>2, <2>4 DEF Owes
    <3> QED  BY <1>0, <2>1, <3>1, Lanes, UncountedMoves
  <2>7. RecoveriesCounted'
    BY <2>3, <2>4, <2>6 DEF RecoveryInv, RecoveriesCounted
  <2> DEFINE p == One(Pending)  q == One(AskOpen)  pp == One(Pending')  qq == One(AskOpen')
  <2>8. p \in {0, 1} /\ q = 0 /\ pp \in {0, 1} /\ qq \in {0, 1} /\ pp <= p
    <3>1. ~AskOpen
      BY <2>4 DEF AskOpen
    <3>2. Pending' => Pending
      BY <1>0, <2>1, Lanes, PendingMoves
    <3> QED  BY <3>1, <3>2 DEF One
  <2>9. sGhost.applied + p + q <= SupAttempts + sGhost.uncounted + Asked
    BY DEF RecoveryInv, RecoveriesOwed
  <2> HIDE DEF p, q, pp, qq
  <2>10. sGhost.applied + pp + qq <= SupAttempts + sGhost.uncounted + Asked' /\ Asked' >= 1
    BY <1>0, <2>5, <2>8, <2>9
  <2>11. RecoveriesOwed'
    BY <2>4, <2>10 DEF RecoveriesOwed, pp, qq
  <2> QED  BY <2>7, <2>11 DEF RecoveryInv
<1>3. CASE SupCrash
  <2>1. /\ \A l \in Lane : sLane'[l] = IdleLane
        /\ UNCHANGED <<sLedger, sPolicy>> /\ sLeft'.asks = sLeft.asks
        /\ sGhost'.applied = sGhost.applied /\ sGhost'.uncounted = sGhost.uncounted + Cardinality(Uncounted)
    BY <1>0, <1>3, CrashLeaves
  <2>2. ~Pending' /\ ~AskOpen' /\ Uncounted' = {}
    BY <2>1, Idle, Lanes DEF Pending, AskOpen, Uncounted
  <2>3. One(Pending') = 0 /\ One(AskOpen') = 0 /\ Cardinality(Uncounted') = 0
    BY <2>2, FS_EmptySet DEF One
  <2>4. CountAutoRecoveries' = CountAutoRecoveries /\ Asked' = Asked
    BY <2>1 DEF CountAutoRecoveries, Asked
  <2>5. sGhost.applied <= CountAutoRecoveries + Cardinality(Uncounted) + sGhost.uncounted
    BY DEF RecoveryInv, RecoveriesCounted
  <2>6. RecoveriesCounted'
    BY <1>0, <2>1, <2>3, <2>4, <2>5 DEF RecoveriesCounted
  <2>7. One(Pending) \in {0, 1} /\ One(AskOpen) \in {0, 1}
        /\ sGhost.applied + One(Pending) + One(AskOpen) <= SupAttempts + sGhost.uncounted + Asked
    BY DEF RecoveryInv, RecoveriesOwed, One
  <2>8. sLane'["ask"].pc = "idle"
    BY <2>1, Idle, Lanes
  <2>9. RecoveriesOwed'
    BY <1>0, <2>1, <2>3, <2>4, <2>7, <2>8 DEF RecoveriesOwed
  <2> QED  BY <2>6, <2>9 DEF RecoveryInv
<1> QED  BY <1>1, <1>2, <1>3

LEMMA RecoveriesWithinCap ==
    ASSUME OnceInv, RecoveryInv
    PROVE  RecoveriesCapped
<1>1. sGhost.applied \in Nat /\ sGhost.uncounted \in Nat /\ Asked \in Nat /\ SupAttempts \in Nat
  BY GhostType, AskedType, SupConstants DEF OnceInv
<1>2. One(Pending) \in {0, 1} /\ One(AskOpen) \in {0, 1}
      /\ sGhost.applied + One(Pending) + One(AskOpen) <= SupAttempts + sGhost.uncounted + Asked
  BY DEF RecoveryInv, RecoveriesOwed, One
<1>3. sGhost.applied <= SupAttempts + sGhost.uncounted + Asked
  BY <1>1, <1>2
<1> QED  BY <1>3 DEF RecoveriesCapped, Asked

-----------------------------------------------------------------------------
(* The invariant of the health monitor.                                    *)

SupInv == OnceInv /\ BookInv /\ CallsInv /\ UsageInv /\ RecoveryInv

LEMMA SupInitially == SupInit => SupInv
<1> SUFFICES ASSUME SupInit PROVE SupInv
  OBVIOUS
<1>1. sPolicy \in SupPolicy /\ sPolicy.asks \in Nat /\ sPolicy.events \in Nat
  BY SupConstants DEF SupInit
<1>2. /\ sLedger = <<>> /\ sRun = <<>> /\ sLane = [l \in Lane |-> IdleLane] /\ sCheck = Nobody /\ sModel = Nobody
      /\ sGhost = [applied |-> 0, uncounted |-> 0, calls |-> 0, reported |-> 0, lostCalls |-> 0]
      /\ sLeft = [asks |-> sPolicy.asks, events |-> sPolicy.events]
      /\ sWork = "none" /\ sBook = [stage |-> 1, status |-> "", park |-> ""]
  BY DEF SupInit
<1>3. sLedger \in Seq(EntryRec) /\ Len(sLedger) = 0 /\ sRun \in Seq(RunRec) /\ Len(sRun) = 0
  BY <1>2, EmptySeq
<1>4. \A l \in Lane : sLane[l] = IdleLane
  BY <1>2
<1>11. /\ sGhost \in [applied : Nat, uncounted : Nat, calls : Nat, reported : Nat, lostCalls : Nat]
       /\ sGhost.applied = 0 /\ sGhost.uncounted = 0 /\ sGhost.calls = 0
       /\ sGhost.reported = 0 /\ sGhost.lostCalls = 0
  BY <1>2
<1>12. sLeft \in [asks : Nat, events : Nat] /\ sLeft.asks = sPolicy.asks
  BY <1>1, <1>2
<1>13. sLane \in [Lane -> LaneRec]
  BY <1>2, Idle
<1>5. LanesTyped
  <2>1. sLeft.asks <= sPolicy.asks
    BY <1>1, <1>12
  <2> QED  BY <1>1, <1>2, <1>3, <1>11, <1>12, <1>13, <2>1 DEF LanesTyped
<1>6. Locked /\ OpenEntries /\ FreshDecision /\ IncidentHandledOnce
  BY <1>3, <1>4, Idle, Lanes DEF Locked, OpenEntries, FreshDecision, IncidentHandledOnce, Decided
<1>7. BookInv
  <2>1. BookTyped
    <3>1. sBook \in [stage : 1..3, status : BookStatus, park : ParkCodes \cup {""}]
      <4>1. "" \in BookStatus /\ "" \in ParkCodes \cup {""} /\ 1 \in 1..3
        BY DEF BookStatus
      <4> QED  BY <1>2, <4>1
    <3> QED  BY <1>2, <1>3, <3>1 DEF BookTyped
  <2>2. RunsThere /\ RunningIsLast
    <3>1. \A l \in Lane : sLane[l].inc.run = 0 /\ sLane[l].pc # "confirm"
      BY <1>4, Idle
    <3>2. RunsThere
      BY <1>3, <3>1 DEF RunsThere
    <3>3. RunningIsLast
      BY <1>2, <3>1, Lanes DEF RunningIsLast
    <3> QED  BY <3>2, <3>3
  <2> QED  BY <2>1, <2>2 DEF BookInv
<1>8. CallsThisHour = 0 /\ CountAutoRecoveries = 0
  <2>1. CallsOf(sLedger) = {} /\ CountedIn(sLedger) = {}
    BY <1>3 DEF CallsOf, CountedIn
  <2> QED  BY <2>1, LedgerCounts, FS_EmptySet
<1>9. CallsInv
  <2>1. Made = 0
    BY <1>4, Idle, Lanes DEF Made
  <2>2. CallsCounted
    BY <1>8, <1>11, <2>1 DEF CallsCounted
  <2>3. Spending
    BY <1>3, <1>4, <1>8, Idle, SupConstants DEF Spending, Spendable
  <2> QED  BY <2>2, <2>3 DEF CallsInv
<1>14. UsageInv
  <2>1. LaneUsage
    BY <1>4, Idle DEF LaneUsage, Used
  <2>2. RowUsage
    BY <1>3 DEF RowUsage
  <2>3. Reports = 0
    <3>1. UNION {{n} \X (1..sLedger[n].rep) : n \in 1..Len(sLedger)} = {}
      BY <1>3
    <3> QED  BY <3>1, FS_EmptySet DEF Reports
  <2>4. Reporting = 0
    BY <1>4, Idle, Lanes DEF Reporting
  <2>5. ReportsCounted
    BY <1>11, <2>3, <2>4 DEF ReportsCounted
  <2>6. ReportsWithin
    BY <1>4, <2>3, Idle, SupConstants DEF ReportsWithin
  <2> QED  BY <2>1, <2>2, <2>5, <2>6 DEF UsageInv
<1>10. RecoveryInv
  <2>1. Uncounted = {} /\ ~Pending /\ ~AskOpen
    BY <1>4, Idle, Lanes DEF Uncounted, Pending, AskOpen
  <2>2. Cardinality(Uncounted) = 0 /\ One(Pending) = 0 /\ One(AskOpen) = 0
    BY <2>1, FS_EmptySet DEF One
  <2>3. Asked = 0
    BY <1>1, <1>12 DEF Asked
  <2>4. RecoveriesCounted /\ RecoveriesOwed
    BY <1>4, <1>8, <1>11, <2>2, <2>3, Idle, Lanes, SupConstants DEF RecoveriesCounted, RecoveriesOwed
  <2> QED  BY <2>4 DEF RecoveryInv
<1> QED  BY <1>5, <1>6, <1>7, <1>9, <1>10, <1>14 DEF SupInv, OnceInv

LEMMA SupStepKeeps == SupInv /\ [SupNext]_supVars => SupInv'
<1> SUFFICES ASSUME SupInv, [SupNext]_supVars PROVE SupInv'
  OBVIOUS
<1>0. OnceInv /\ BookInv /\ CallsInv /\ UsageInv /\ RecoveryInv /\ Spending /\ BookTyped
  BY DEF SupInv, CallsInv, BookInv
<1>1. ASSUME NEW l \in Checker, CheckStep(l) PROVE SupInv'
  <2>1. OnceInv'
    BY <1>0, <1>1, StartCheckKeepsOnce, ConfirmKeepsOnce, RecordKeepsOnce DEF CheckStep
  <2> QED  BY <1>0, <1>1, <2>1, CheckKeepsBook, CheckKeepsCalls, CheckKeepsUsage, CheckKeepsRecoveries DEF SupInv
<1>2. ASSUME NEW l \in Lane, LaneStep(l) PROVE SupInv'
  <2>1. OnceInv'
    BY <1>0, <1>2, ApplyKeepsOnce, BeginKeepsOnce, DiagnoseKeepsOnce, FinishKeepsOnce DEF LaneStep
  <2>2. BookInv'
    BY <1>0, <1>2, <2>1, LaneKeepsBook
  <2>3. CallsInv'
    BY <1>0, <1>2, <2>1, LaneKeepsCalls, FinishKeepsCalls DEF LaneStep
  <2>4. RecoveryInv'
    BY <1>0, <1>2, <2>1, ApplyKeepsRecoveries, FinishKeepsRecoveries, DiagnosisKeepsRecoveries DEF LaneStep
  <2>5. UsageInv'
    BY <1>0, <1>2, <2>1, <2>3, LaneKeepsUsage, FinishKeepsUsage DEF LaneStep
  <2> QED  BY <2>1, <2>2, <2>3, <2>4, <2>5 DEF SupInv
<1>3. CASE BookStep \/ Ask \/ SupCrash \/ UNCHANGED supVars
  <2>1. OnceInv'
    BY <1>0, <1>3, AskKeepsOnce, OthersKeepOnce
  <2> QED  BY <1>0, <1>3, <2>1, OthersKeepBook, OthersKeepCalls, OthersKeepUsage, OthersKeepRecoveries DEF SupInv
<1> QED  BY <1>1, <1>2, <1>3 DEF SupNext, BookStep

(* Whatever the policy and however checks, questions, operators and        *)
(* crashes interleave, the invariant holds.                                *)
LEMMA SupInvHolds == SupSpec => []SupInv
  BY SupInitially, SupStepKeeps, PTL DEF SupSpec

(* One incident is handled once: no two entries of the ledger, written by  *)
(* a tick or a manual check, before or after a restart, are about the same *)
(* kind, run and fingerprint (HasIncident under checkMu).                  *)
THEOREM IncidentsHandledOnce == SupSpec => []IncidentHandledOnce
<1>1. SupInv => IncidentHandledOnce
  BY DEF SupInv, OnceInv
<1> QED  BY <1>1, SupInvHolds, PTL

(* The caps hold for all of MaxAttempts, InvocationsPerHour, MaxModelCalls *)
(* and the cost budget: what is applied automatically and what the model   *)
(* is asked stay within them, reported cost within the budget, and all     *)
(* calls, those of lost cost too, within less than one diagnosis of it;    *)
(* but for what a crash or a question asked by hand takes from the count   *)
(* (capAutoRecovery, modelBudgetAllows, runModel).                         *)
THEOREM SupervisorStaysWithinCaps == SupSpec => []CapsHold
<1>1. SupInv => CapsHold
  BY CallsWithinBudget, RecoveriesWithinCap DEF SupInv, CapsHold
<1> QED  BY <1>1, SupInvHolds, PTL

(* The types of the book, the ledger and the lanes, and that a check holds *)
(* checkMu and a call to the model holds modelMu.                          *)
THEOREM SupervisorTyped == SupSpec => []SupTypeOK
<1>1. SupInv => SupTypeOK
  <2> SUFFICES ASSUME SupInv PROVE SupTypeOK
    OBVIOUS
  <2>1. LanesTyped /\ Locked /\ BookTyped /\ RunsThere
    BY DEF SupInv, OnceInv, BookInv
  <2>2. sBook.stage \in 1..3 /\ sBook.park \in ParkCodes \cup {""}
    BY <2>1, BookType
  <2>3. \A n \in 1..Len(sLedger) : sLedger[n].kind \in SupKind /\ sLedger[n].run \in Nat
    <3>1. \A n \in 1..Len(sLedger) : sLedger[n] \in EntryRec
      BY <2>1 DEF LanesTyped
    <3> QED  BY <3>1 DEF EntryRec
  <2>4. \A n \in 1..Len(sLedger) : sLedger[n].run \in 0..Len(sRun)
    <3>1. Len(sRun) \in Nat /\ \A n \in 1..Len(sLedger) : sLedger[n].run <= Len(sRun)
      BY <2>1, RunsType DEF RunsThere
    <3>2. \A k \in Nat : k <= Len(sRun) => k \in 0..Len(sRun)
      BY <3>1
    <3> QED  BY <2>3, <3>1, <3>2
  <2> QED  BY <2>1, <2>2, <2>3, <2>4 DEF SupTypeOK, Locked
<1> QED  BY <1>1, SupInvHolds, PTL

-----------------------------------------------------------------------------
(* A healthy run is not accused.                                           *)

LEMMA RunningIsCurrent ==
    ASSUME BookInv, sWork = "running"
    PROVE  Current = Len(sRun)
<1>1. BookTyped /\ Len(sRun) \in OpenRuns /\ Len(sRun) \in Nat
  BY RunsType DEF BookInv, RunningIsLast
<1>2. OpenRuns \in SUBSET (1..Len(sRun)) /\ OpenRuns # {}
  BY <1>1, RunsType
<1>3. Latest(OpenRuns) \in Nat /\ Latest(OpenRuns) <= Len(sRun) /\ Len(sRun) <= Latest(OpenRuns)
  BY <1>1, <1>2, LatestRun
<1> QED  BY <1>1, <1>3 DEF Current

(* Only what is said of the processes says that one is missing.            *)
LEMMA MissingProcess ==
    ASSUME BookTyped, NEW sample, NEW i \in Classify(sample), i.kind = "missing_process"
    PROVE  /\ i.run \in OpenRuns
           /\ \/ ~sample.active /\ ~AdmittedAfterSample(sample, i.run)
              \/ sRun[i.run].health = "gone"
<1>1. CASE i \in OpenRunIncidents(sample)
  <2>1. PICK n \in OpenRuns, k \in SupKind :
          /\ i = Found(k, n, <<>>, FALSE)
          /\ \/ /\ k = "missing_process"
                /\ \/ ~sample.active /\ ~AdmittedAfterSample(sample, n)
                   \/ sRun[n].health = "gone"
             \/ k = sRun[n].health
    BY <1>1, Codes DEF OpenRunIncidents
  <2>2. i.kind = k /\ i.run = n
    BY <2>1 DEF Found
  <2>3. sRun[n].health # "missing_process"
    <3>1. n \in 1..Len(sRun)
      BY RunsType
    <3>2. sRun[n] \in RunRec
      BY <3>1, RunsType
    <3> QED  BY <3>2 DEF RunRec, HealthKind
  <2> QED  BY <2>1, <2>2, <2>3
<1>2. CASE i \in FailureIncidents
  <2> DEFINE n == Latest(LiveRuns(sBook.stage))
  <2>1. n # 0 /\ sRun[n].error # "" /\ i.kind \in {sRun[n].error, "repeated_error", "unclassified"}
    <3>1. n # 0 /\ sRun[n].error # "" /\ \E k \in {sRun[n].error, "repeated_error", "unclassified"} :
            i = Found(k, n, <<sRun[n].error>>, FALSE)
      BY <1>2 DEF FailureIncidents
    <3> HIDE DEF n
    <3>2. PICK k \in {sRun[n].error, "repeated_error", "unclassified"} :
            i = [kind |-> k, run |-> n, fp |-> <<sRun[n].error>>, park |-> "", protected |-> FALSE \/ Paused]
      BY <3>1 DEF Found
    <3> QED  BY <3>1, <3>2
  <2>2. n \in 1..Len(sRun)
    <3>1. LiveRuns(sBook.stage) # {}
      BY <2>1 DEF Latest
    <3> QED  BY <3>1, RunsType, LatestIsLast
  <2>3. sRun[n].error \in FailureKind
    BY <2>1, <2>2, RunsType
  <2> QED  BY <2>1, <2>3, Codes
<1>3. CASE i \in ParkIncidents
  <2>1. i.kind = "parked_recovery"
    BY <1>3 DEF ParkIncidents, Found
  <2> QED  BY <2>1
<1>4. CASE i \in ArtifactIncidents
  <2>1. i.kind = "artifact_invalid"
    <3>1. \E n : i = [kind |-> "artifact_invalid", run |-> n, fp |-> <<>>, park |-> "",
                      protected |-> (sBook.stage = 3) \/ Paused]
      BY <1>4 DEF ArtifactIncidents, Found
    <3>2. PICK n : i = [kind |-> "artifact_invalid", run |-> n, fp |-> <<>>, park |-> "",
                        protected |-> (sBook.stage = 3) \/ Paused]
      BY <3>1
    <3> QED  BY <3>2
  <2> QED  BY <2>1
<1> QED  BY <1>1, <1>2, <1>3, <1>4 DEF Classify

NotAccused(l) ==
    (sLane[l].pc = "confirm" /\ sLane'[l].pc = "record" /\ sLane'[l].inc.kind = "missing_process") =>
        LET n == sLane'[l].inc.run
        IN  sRun[n].health = "gone" \/ sWork # "running" \/ n # Current

LEMMA ConfirmAccusesNoneAtWork ==
    ASSUME SupInv, NEW l \in Checker, Confirm(l), sLane'[l].pc = "record", sLane'[l].inc.kind = "missing_process"
    PROVE  sRun[sLane'[l].inc.run].health = "gone" \/ sWork # "running" \/ sLane'[l].inc.run # Current
<1>0. LanesTyped /\ BookTyped /\ BookInv /\ RunningIsLast /\ Len(sRun) \in Nat /\ sLane[l].pc = "confirm"
      /\ sLane[l].runs \in Nat
  <2>1. LanesTyped /\ BookTyped /\ BookInv /\ RunningIsLast
    BY DEF SupInv, OnceInv, BookInv
  <2>2. sLane[l].runs \in Nat
    BY <2>1, Lanes DEF LanesTyped, LaneRec
  <2> QED  BY <2>1, <2>2, RunsType DEF Confirm
<1> DEFINE i == sLane'[l].inc
           sample == [active |-> sLane[l].active, runs |-> sLane[l].runs]
<1>1. PICK r : OneLane(l, r) /\ ConfirmsTo(l, r)
  <2>1. ~Rest(l)
    <3>1. Rest(l) => sLane'[l].pc = "idle"
      BY <1>0, RestDoes, Idle, Lanes DEF OneLane
    <3> QED  BY <3>1
  <2> QED  BY <1>0, <2>1, ConfirmDoes
<1>2. i \in Classify(sample)
  BY <1>1 DEF OneLane, ConfirmsTo
<1>3. sample.active = sLane[l].active /\ sample.runs = sLane[l].runs
  OBVIOUS
<1> HIDE DEF sample
<1>4. /\ i.run \in OpenRuns
      /\ \/ ~sample.active /\ ~AdmittedAfterSample(sample, i.run)
         \/ sRun[i.run].health = "gone"
  BY <1>0, <1>2, MissingProcess
<1>5. CASE ~sample.active /\ ~AdmittedAfterSample(sample, i.run) /\ sWork = "running"
  <2>1. i.run \in Nat
    <3>1. i.run \in 1..Len(sRun)
      BY <1>0, <1>4, RunsType
    <3> QED  BY <1>0, <3>1
  <2>2. i.run <= sLane[l].runs
    BY <1>0, <1>3, <1>5, <2>1 DEF AdmittedAfterSample
  <2>3. sLane[l].runs < Len(sRun)
    BY <1>0, <1>3, <1>5 DEF RunningIsLast
  <2>4. Current = Len(sRun)
    BY <1>0, <1>5, RunningIsCurrent
  <2> QED  BY <1>0, <2>1, <2>2, <2>3, <2>4
<1> QED  BY <1>4, <1>5

LEMMA StepAccusesNone ==
    ASSUME SupInv, SupNext, NEW l \in Checker
    PROVE  NotAccused(l)
<1>0. LanesTyped /\ OpenEntries /\ Spending /\ BookTyped /\ l \in Lane
  BY Lanes DEF SupInv, OnceInv, CallsInv, BookInv
<1> SUFFICES ASSUME sLane[l].pc = "confirm", sLane'[l].pc = "record", sLane'[l].inc.kind = "missing_process"
             PROVE  Confirm(l)
  BY ConfirmAccusesNoneAtWork DEF NotAccused
<1>1. sLane'[l] # sLane[l]
  OBVIOUS
<1>2. ASSUME NEW m \in Checker, CheckStep(m) PROVE Confirm(l)
  <2>1. m = l
    <3> SUFFICES ASSUME m # l PROVE sLane'[l] = sLane[l]
      BY <1>1
    <3> QED  BY <1>0, <1>2, Lanes DEF CheckStep, StartCheck, Confirm, RecordDecision, EndCheck, Rest, LanesTyped
  <2> QED  BY <1>2, <2>1 DEF CheckStep, StartCheck, RecordDecision, MayCheck
<1>3. ASSUME NEW m \in Lane, LaneStep(m) PROVE FALSE
  <2>1. sLane[m].pc \in Decided
    BY <1>3 DEF LaneStep, ApplyAction, Finish, BeginDiagnosis, Diagnose, Decided
  <2>2. m # l
    BY <2>1 DEF Decided
  <2>3. sLane'[l] = sLane[l]
    <3>1. CASE ApplyAction(m)
      BY <1>0, <2>2, <3>1, ApplyDoes DEF OneLane
    <3>2. CASE Finish(m)
      BY <1>0, <2>2, <3>2, FinishDoes DEF OneLane
    <3>3. CASE BeginDiagnosis(m)
      BY <1>0, <2>2, <3>3, BeginDoes DEF OneLane
    <3>4. CASE Diagnose(m)
      BY <1>0, <2>2, <3>4, DiagnoseDoes DEF OneLane
    <3> QED  BY <1>3, <3>1, <3>2, <3>3, <3>4 DEF LaneStep
  <2> QED  BY <1>1, <2>3
<1>4. CASE BookStep
  BY <1>0, <1>1, <1>4, BookStepLeaves
<1>5. CASE Ask
  BY <1>0, <1>1, <1>5, AskDoes, Lanes DEF OneLane
<1>6. CASE SupCrash
  BY <1>0, <1>6, CrashLeaves, Idle
<1> QED  BY <1>2, <1>3, <1>4, <1>5, <1>6 DEF SupNext, BookStep

(* A run that a worker executes is not reported as orphaned on the ground  *)
(* of an occupancy sample older than the run: every check that decides     *)
(* about a missing process, in any interleaving with the worker            *)
(* (admittedAfterRuntimeSample, classifyOpenRun).                          *)
THEOREM HealthyRunsNotAccused == SupSpec => HealthyNotAccused
<1>1. SupInv /\ [SupNext]_supVars => [\A l \in Checker : NotAccused(l)]_supVars
  BY StepAccusesNone
<1>2. (\A l \in Checker : NotAccused(l)) <=>
      \A l \in Checker :
          (sLane[l].pc = "confirm" /\ sLane'[l].pc = "record" /\ sLane'[l].inc.kind = "missing_process") =>
              LET n == sLane'[l].inc.run
              IN  sRun[n].health = "gone" \/ sWork # "running" \/ n # Current
  BY DEF NotAccused
<1> QED  BY <1>1, <1>2, SupInvHolds, PTL DEF SupSpec, HealthyNotAccused
=============================================================================
