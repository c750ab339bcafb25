------------------------------ MODULE FactPass ------------------------------
(***************************************************************************)
(* The fact pass of one book (internal/pipeline/factpass_stage.go): worker *)
(* goroutines buy the facts of independent chunks from the agent, an       *)
(* assembly reads them all.  Each purchase is a runAgent                   *)
(* (agent_stage.go) with the retries of internal/agent/retry.go and the    *)
(* invocation rows of internal/store/invocations.go; the slots are shared  *)
(* with the agent stages of other books.                                   *)
(***************************************************************************)
EXTENDS Integers, FiniteSets

CONSTANTS
    FPChunks,    \* number of chunks in the plan
    FPWorkers,   \* agentWorkers
    FPSlots,     \* agentSlots, the cap over all stages
    FPRetries,   \* repeats of an attempt, by what went wrong
    FPCases      \* agent.book_budget_usd, an invocation costing 1 (0 is none),
                 \*   and bounds: [budget, runs, faults, layouts]

Fault == {"invalid", "rate", "gone"}

ASSUME FPAssumption ==
    /\ {FPChunks, FPWorkers, FPSlots} \subseteq Nat \ {0}
    /\ FPRetries \in [Fault -> Nat]
    /\ FPCases \subseteq [budget : Nat, runs : Nat, faults : Nat, layouts : Nat]

VARIABLES
    fPc,         \* the goroutine of the stage
    fResult,     \* how the stage ended last
    fNext,       \* the next chunk to hand out
    fWorker,     \* the workers, and the assembly
    fCancelled,  \* the context of the run
    fError,      \* its first error
    fOthers,     \* slots other books hold
    fFacts,      \* per chunk, the chapter layout its facts are about; 0: no file
    fFinal,      \* the same of knowledge-final.md
    fStamp,      \* .universe
    fLayout,     \* the fingerprint of the book's manifest
    fSpent,      \* cost recorded for the book
    fLost,       \* cost of invocations a crash left unrecorded
    fLeft        \* the budget, and what is left of the bounds

fVars == <<fPc, fResult, fNext, fWorker, fCancelled, fError, fOthers, fFacts, fFinal,
           fStamp, fLayout, fSpent, fLost, fLeft>>

Chunk    == 1..FPChunks
Worker   == 1..FPWorkers
Assembly == 0
Buyer    == Worker \cup {Assembly}

Free   == [pc |-> "free", chunk |-> 0, tries |-> [k \in Fault |-> 0]]
Absent == [Free EXCEPT !.pc = "absent"]

Disk  == <<fFacts, fFinal, fStamp>>
Money == <<fSpent, fLost>>

-----------------------------------------------------------------------------
(* One purchase.                                                           *)

Holding    == {w \in Buyer : fWorker[w].pc \in {"run", "sleep"}}

(* Mutant: the stage holds a slot of its own while its workers wait.       *)
StageHoldsOne == Cardinality(Holding) + fOthers + 1 < FPSlots

(* Mutant: one slot too many is given out. *)
OneSlotMore == Cardinality(Holding) + fOthers <= FPSlots

SlotFree   == Cardinality(Holding) + fOthers < FPSlots
Step(w, pc) == fWorker' = [fWorker EXCEPT ![w].pc = pc]
Stage      == UNCHANGED <<fPc, fResult, fNext>>

(* The first error of a worker is the stage's and stops the others.        *)
Fails(w, code) ==
    /\ fWorker' = [fWorker EXCEPT ![w] = Free]
    /\ fError' = IF fError = "" THEN code ELSE fError
    /\ fCancelled' = TRUE

(* Mutant: the budget is not looked at.                                    *)
WithinNoBudget == TRUE

WithinBudget == fLeft.budget = 0 \/ fSpent < fLeft.budget

(* The budget is read, then the backend looked for, before a slot is asked *)
(* for; a cancelled context fails the read.                                *)
Preflight(w) ==
    /\ fWorker[w].pc = "preflight"
    /\ \/ fCancelled /\ Fails(w, "cancelled") /\ UNCHANGED fLeft
       \/ ~fCancelled /\ ~WithinBudget /\ Fails(w, "budget") /\ UNCHANGED fLeft
       \/ /\ ~fCancelled /\ WithinBudget
          /\ \/ Step(w, "slot") /\ UNCHANGED <<fError, fCancelled, fLeft>>
             \/ fLeft.faults > 0 /\ Fails(w, "unavailable") /\ fLeft' = [fLeft EXCEPT !.faults = @ - 1]
    /\ Stage /\ UNCHANGED <<fOthers, fLayout>> /\ UNCHANGED Disk /\ UNCHANGED Money

(* Waiting for a slot a cancelled purchase leaves with nothing spent, or   *)
(* takes the slot all the same.                                            *)
AcquireSlot(w) ==
    /\ fWorker[w].pc = "slot"
    /\ \/ SlotFree /\ Step(w, "run") /\ UNCHANGED <<fError, fCancelled>>
       \/ fCancelled /\ Fails(w, "cancelled")
    /\ Stage /\ UNCHANGED <<fOthers, fLayout, fLeft>> /\ UNCHANGED Disk /\ UNCHANGED Money

Charged == fSpent' = fSpent + 1 /\ UNCHANGED fLost
Tried(w, k) == fWorker[w].tries[k] < FPRetries[k]

(* An attempt ends: its row and the sums of the run are written together,  *)
(* whatever came of it.  A slot is kept through the repeats.               *)
Attempt(w) ==
    /\ fWorker[w].pc = "run"
    /\ Charged
    /\ \/ /\ ~fCancelled /\ Step(w, "harvest")
          /\ UNCHANGED <<fError, fCancelled, fLeft>>
       \/ fCancelled /\ Fails(w, "cancelled") /\ UNCHANGED fLeft
       \/ \E k \in Fault :
             /\ ~fCancelled /\ fLeft.faults > 0
             /\ fLeft' = [fLeft EXCEPT !.faults = @ - 1]
             /\ IF Tried(w, k)
                THEN /\ fWorker' = [fWorker EXCEPT ![w].tries[k] = @ + 1,
                                                   ![w].pc = IF k = "invalid" THEN "run" ELSE "sleep"]
                     /\ UNCHANGED <<fError, fCancelled>>
                ELSE Fails(w, k)
    /\ Stage /\ UNCHANGED <<fOthers, fLayout>> /\ UNCHANGED Disk

Wake(w) ==
    /\ fWorker[w].pc = "sleep"
    /\ \/ Step(w, "run") /\ UNCHANGED <<fError, fCancelled>>
       \/ fCancelled /\ Fails(w, "cancelled")
    /\ Stage /\ UNCHANGED <<fOthers, fLayout, fLeft>> /\ UNCHANGED Disk /\ UNCHANGED Money

(* The validated file is moved into facts/; the slot is back by then.      *)
Harvest(w) ==
    /\ fWorker[w].pc = "harvest"
    /\ IF w = Assembly
       THEN fFinal' = fLayout /\ UNCHANGED fFacts
       ELSE fFacts' = [fFacts EXCEPT ![fWorker[w].chunk] = fLayout] /\ UNCHANGED fFinal
    /\ fWorker' = [fWorker EXCEPT ![w] = Free]
    /\ Stage /\ UNCHANGED <<fCancelled, fError, fOthers, fStamp, fLayout, fLeft>> /\ UNCHANGED Money

Purchase(w) == Preflight(w) \/ AcquireSlot(w) \/ Attempt(w) \/ Wake(w) \/ Harvest(w)

-----------------------------------------------------------------------------
(* The stage.                                                              *)

Buying == UNCHANGED <<fOthers, fLayout, fLeft>> /\ UNCHANGED Money
StageAt(pc) == fPc' = pc /\ UNCHANGED fResult

(* discardStaleFacts.  Facts without a stamp are adopted.                  *)
StampMatches == fStamp = fLayout

ReadStamp ==
    /\ fPc = "begin"
    /\ StageAt(IF StampMatches THEN "plan" ELSE IF fStamp = 0 THEN "stamp" ELSE "remove")
    /\ UNCHANGED <<fNext, fWorker, fCancelled, fError>> /\ UNCHANGED Disk /\ Buying

(* Mutant: the assembly is forgotten.                                      *)
RemoveChunks ==
    /\ fPc = "remove"
    /\ fFacts' = [c \in Chunk |-> 0] /\ StageAt("stamp")
    /\ UNCHANGED <<fNext, fWorker, fCancelled, fError, fFinal, fStamp>> /\ Buying

(* One file at a time, the chunks' before the assembly's.                  *)
RemoveStale ==
    LET left == {c \in Chunk : fFacts[c] # 0}
    IN  /\ fPc = "remove"
        /\ IF left # {}
           THEN /\ fFacts' = [c \in Chunk |-> IF \A d \in left : c <= d THEN 0 ELSE fFacts[c]]
                /\ StageAt("remove") /\ UNCHANGED fFinal
           ELSE fFinal' = 0 /\ StageAt("stamp") /\ UNCHANGED fFacts
        /\ UNCHANGED <<fNext, fWorker, fCancelled, fError, fStamp>> /\ Buying

WriteStamp ==
    /\ fPc = "stamp" /\ fStamp' = fLayout /\ StageAt("plan")
    /\ UNCHANGED <<fNext, fWorker, fCancelled, fError, fFacts, fFinal>> /\ Buying

Missing == {c \in Chunk : fFacts[c] = 0}

StartWorkers ==
    /\ fPc = "plan"
    /\ fWorker' = [w \in Buyer |-> IF w \in Worker /\ w > Cardinality(Missing) THEN Absent ELSE Free]
    /\ fNext' = 1 /\ StageAt("send")
    /\ UNCHANGED <<fCancelled, fError>> /\ UNCHANGED Disk /\ Buying

SkipComplete ==
    /\ fPc = "send" /\ fNext \in Chunk \ Missing
    /\ fNext' = fNext + 1 /\ StageAt("send")
    /\ UNCHANGED <<fWorker, fCancelled, fError>> /\ UNCHANGED Disk /\ Buying

SendJob(w) ==
    /\ fPc = "send" /\ fNext \in Missing /\ fWorker[w].pc = "free"
    /\ fWorker' = [fWorker EXCEPT ![w] = [Free EXCEPT !.pc = "preflight", !.chunk = fNext]]
    /\ fNext' = fNext + 1 /\ StageAt("send")
    /\ UNCHANGED <<fCancelled, fError>> /\ UNCHANGED Disk /\ Buying

CloseJobs ==
    /\ fPc = "send" /\ (fNext \notin Chunk \/ (fCancelled /\ fNext \in Missing))
    /\ StageAt("wait")
    /\ UNCHANGED <<fNext, fWorker, fCancelled, fError>> /\ UNCHANGED Disk /\ Buying

Ends(result) == fPc' = "idle" /\ fResult' = result
Quiet == \A w \in Buyer : fWorker[w].pc \in {"free", "absent"}

(* wg.Wait, then the errors, then the assembly unless it is there.         *)
AfterWorkers ==
    /\ fPc = "wait" /\ Quiet
    /\ IF fError # "" THEN Ends(fError) /\ UNCHANGED fWorker
       ELSE IF fCancelled THEN Ends("cancelled") /\ UNCHANGED fWorker
       ELSE IF fFinal = 0
       THEN /\ fWorker' = [fWorker EXCEPT ![Assembly] = [Free EXCEPT !.pc = "preflight"]]
            /\ StageAt("assemble")
       ELSE Ends("done") /\ UNCHANGED fWorker
    /\ UNCHANGED <<fNext, fCancelled, fError>> /\ UNCHANGED Disk /\ Buying

AfterAssembly ==
    /\ fPc = "assemble" /\ Quiet
    /\ Ends(IF fError # "" THEN fError ELSE "done")
    /\ UNCHANGED <<fNext, fWorker, fCancelled, fError>> /\ UNCHANGED Disk /\ Buying

Coordinate == \/ ReadStamp \/ RemoveStale \/ WriteStamp \/ StartWorkers \/ SkipComplete
              \/ (\E w \in Worker : SendJob(w)) \/ CloseJobs \/ AfterWorkers \/ AfterAssembly

-----------------------------------------------------------------------------
(* Around it: the scheduler dispatches the stage again, a pause or a       *)
(* shutdown cancels it, the process dies, an earlier stage run again gives *)
(* the book another chapter layout, other books use the slots.             *)

Dispatch ==
    /\ fPc = "idle" /\ fResult # "done" /\ fLeft.runs > 0
    /\ fLeft' = [fLeft EXCEPT !.runs = @ - 1]
    /\ StageAt("begin") /\ fCancelled' = FALSE /\ fError' = ""
    /\ fWorker' = [w \in Buyer |-> Free] /\ fNext' = 1
    /\ UNCHANGED <<fOthers, fLayout>> /\ UNCHANGED Disk /\ UNCHANGED Money

CancelStage ==
    /\ fPc \notin {"idle"} /\ ~fCancelled /\ fLeft.faults > 0
    /\ fLeft' = [fLeft EXCEPT !.faults = @ - 1]
    /\ fCancelled' = TRUE
    /\ UNCHANGED <<fPc, fResult, fNext, fWorker, fError, fOthers, fLayout>> /\ UNCHANGED Disk /\ UNCHANGED Money

FPCrash ==
    /\ fPc # "idle" /\ fLeft.faults > 0
    /\ fLeft' = [fLeft EXCEPT !.faults = @ - 1]
    /\ fLost' = fLost + Cardinality({w \in Buyer : fWorker[w].pc = "run"})
    /\ Ends("crashed") /\ fWorker' = [w \in Buyer |-> Free]
    /\ fNext' = 1 /\ fCancelled' = FALSE /\ fError' = "" /\ fOthers' = 0
    /\ UNCHANGED <<fLayout, fSpent>> /\ UNCHANGED Disk

NewLayout ==
    /\ fPc = "idle" /\ fResult # "done" /\ fLeft.layouts > 0
    /\ fLeft' = [fLeft EXCEPT !.layouts = @ - 1]
    /\ fLayout' = 3 - fLayout
    /\ Stage /\ UNCHANGED <<fWorker, fCancelled, fError, fOthers>> /\ UNCHANGED Disk /\ UNCHANGED Money

OthersTake ==
    /\ fPc # "idle" /\ SlotFree /\ fOthers' = fOthers + 1
    /\ Stage /\ UNCHANGED <<fWorker, fCancelled, fError, fLayout, fLeft>> /\ UNCHANGED Disk /\ UNCHANGED Money

OthersReturn ==
    /\ fOthers > 0 /\ fOthers' = fOthers - 1
    /\ Stage /\ UNCHANGED <<fWorker, fCancelled, fError, fLayout, fLeft>> /\ UNCHANGED Disk /\ UNCHANGED Money

FPInit ==
    /\ fPc = "idle" /\ fResult = "new" /\ fNext = 1
    /\ fWorker = [w \in Buyer |-> Free]
    /\ fCancelled = FALSE /\ fError = "" /\ fOthers = 0
    /\ fFacts = [c \in Chunk |-> 0] /\ fFinal = 0 /\ fStamp = 0 /\ fLayout = 1
    /\ fSpent = 0 /\ fLost = 0 /\ fLeft \in FPCases

FPNext ==
    \/ Coordinate
    \/ Dispatch \/ CancelStage \/ FPCrash \/ NewLayout \/ OthersTake \/ OthersReturn
    \/ \E w \in Buyer : Purchase(w)

(* The goroutines run; whoever waits for a slot is served in turn (a       *)
(* channel), and other books' calls end: each has a timeout.               *)
FPFairness ==
    /\ WF_fVars(Coordinate) /\ WF_fVars(OthersReturn)
    /\ \A w \in Buyer : WF_fVars(Purchase(w)) /\ SF_fVars(AcquireSlot(w))

FPSpec == FPInit /\ [][FPNext]_fVars /\ FPFairness

-----------------------------------------------------------------------------
(* What the fact pass promises.                                            *)

FPTypeOK ==
    /\ Cardinality(Holding) + fOthers <= FPSlots
    /\ fPc = "idle" => Quiet
    /\ fFinal # 0 => fFinal \in {1, 2}

(* When the pass is done every chunk's facts and the assembly are about    *)
(* the chapters the book has now, also after runs on another layout that   *)
(* failed, were cut short, or died between the removal of the old files    *)
(* and the new stamp.                                                      *)
FactsOfThisLayout ==
    fResult = "done" => fFinal = fLayout /\ \A c \in Chunk : fFacts[c] = fLayout

(* The cost passes the book's budget by no more than the purchases that    *)
(* were begun below it, repeats included: one for each worker; a call that *)
(* was running at a crash is not counted in time.                          *)
AttemptsOfOne == 1 + FPRetries["invalid"] + FPRetries["rate"] + FPRetries["gone"]
OvershootBounded ==
    fLeft.budget > 0 => fSpent <= fLeft.budget - 1 + FPWorkers * AttemptsOfOne

(* A dispatched pass ends, with whatever result: no worker, and not the    *)
(* goroutine that hands out the chunks, waits for ever.                    *)
FactPassEnds == fPc # "idle" ~> fPc = "idle"
=============================================================================
