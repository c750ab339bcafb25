--------------------------- MODULE FactPassProofs ---------------------------
(***************************************************************************)
(* Proofs about the fact pass, for any number of chunks, workers, slots,   *)
(* repeats and faults: the slots, the layout its facts are about, the      *)
(* overshoot of the budget.                                                *)
(***************************************************************************)
EXTENDS FactPass, TLAPS, FiniteSetTheorems

LEMMA FPConstants ==
    /\ FPChunks \in Nat \ {0} /\ FPWorkers \in Nat \ {0} /\ FPSlots \in Nat \ {0}
    /\ FPRetries \in [Fault -> Nat] /\ Fault = {"invalid", "rate", "gone"}
    /\ FPCases \subseteq [budget : Nat, runs : Nat, faults : Nat, layouts : Nat]
  BY FPAssumption DEF Fault

USE FPConstants

-----------------------------------------------------------------------------
(* The inductive invariant.                                                *)

StagePc  == {"idle", "begin", "remove", "stamp", "plan", "send", "wait", "assemble"}
BuyerPc  == {"free", "absent", "preflight", "slot", "run", "sleep", "harvest"}
ErrorCode == {"", "cancelled", "budget", "unavailable"} \cup Fault
Layout   == {1, 2}
BuyerRec == [pc : BuyerPc, chunk : 0..FPChunks, tries : [Fault -> Nat]]

Busy(w) == fWorker[w].pc \notin {"free", "absent"}

Typed ==
    /\ fPc \in StagePc /\ fNext \in Nat \ {0}
    /\ fWorker \in [Buyer -> BuyerRec]
    /\ fCancelled \in BOOLEAN /\ fError \in ErrorCode /\ fOthers \in Nat
    /\ fFacts \in [Chunk -> Layout \cup {0}] /\ {fFinal, fStamp} \subseteq Layout \cup {0}
    /\ fLayout \in Layout
    /\ fSpent \in Nat /\ fLost \in Nat
    /\ fLeft \in [budget : Nat, runs : Nat, faults : Nat, layouts : Nat]

(* Who may be at work in which part of the stage.                          *)
AtWork ==
    /\ \A w \in Worker : Busy(w) => fPc \in {"send", "wait"} /\ fWorker[w].chunk \in Chunk
    /\ Busy(Assembly) => fPc = "assemble"

SlotsKept == Cardinality(Holding) + fOthers <= FPSlots

(* The files there are bear the stamp; past the stamp it is the book's.    *)
Stamped ==
    /\ \A c \in Chunk : fFacts[c] \in {0, fStamp}
    /\ fFinal \in {0, fStamp}
    /\ fPc = "stamp" => fFinal = 0 /\ \A c \in Chunk : fFacts[c] = 0
    /\ fPc \in {"plan", "send", "wait", "assemble"} => fStamp = fLayout

(* Nothing that was handed out is forgotten: its file is there or a worker *)
(* is at it, unless the pass is failing.                                   *)
InHand(c) == \E w \in Worker : Busy(w) /\ fWorker[w].chunk = c
NoneForgotten ==
    /\ fPc \in {"send", "wait"} /\ fError = "" =>
           \A c \in Chunk : c < fNext => fFacts[c] # 0 \/ InHand(c)
    /\ fPc = "wait" /\ ~fCancelled => fNext > FPChunks
    /\ fPc = "assemble" => \A c \in Chunk : fFacts[c] # 0
    /\ fPc = "assemble" /\ fError = "" => fFinal # 0 \/ Busy(Assembly)

(* A finished pass stays finished.                                         *)
DoneRests == fResult = "done" => fPc = "idle"

(* The attempts a purchase begun within the budget may still make.         *)
TriesOf(w) == fWorker[w].tries["invalid"] + fWorker[w].tries["rate"] + fWorker[w].tries["gone"]
Begun(w)   == fWorker[w].pc \in {"slot", "run", "sleep"}
Owed       == {t \in Buyer \X (1..AttemptsOfOne) : Begun(t[1]) /\ t[2] + TriesOf(t[1]) <= AttemptsOfOne}

TriesBounded == \A w \in Buyer, k \in Fault : fWorker[w].tries[k] <= FPRetries[k]

SpentAndOwed ==
    fLeft.budget > 0 => fSpent + Cardinality(Owed) <= fLeft.budget - 1 + FPWorkers * AttemptsOfOne

LayoutInv == Typed /\ AtWork /\ Stamped /\ NoneForgotten /\ DoneRests /\ FactsOfThisLayout
BudgetInv == TriesBounded /\ SpentAndOwed
FPInv == LayoutInv /\ SlotsKept /\ BudgetInv

-----------------------------------------------------------------------------
(* What the records of the buyers are.                                     *)

LEMMA BuyerFacts ==
    /\ Assembly \in Buyer /\ Assembly \notin Worker /\ Worker \subseteq Buyer
    /\ Buyer = Worker \cup {Assembly} /\ Buyer = 0..FPWorkers
    /\ Free \in BuyerRec /\ Absent \in BuyerRec
    /\ Free.pc = "free" /\ Absent.pc = "absent"
  BY DEF Buyer, Worker, Assembly, Free, Absent, BuyerRec, BuyerPc

LEMMA QuietIsNotBusy == Quiet <=> \A w \in Buyer : ~Busy(w)
  BY DEF Quiet, Busy

LEMMA SameWorkers ==
    ASSUME UNCHANGED fWorker
    PROVE  /\ \A w \in Buyer : (Busy(w)' <=> Busy(w)) /\ fWorker'[w] = fWorker[w]
           /\ (Busy(Assembly)' <=> Busy(Assembly))
           /\ \A c \in Chunk : (InHand(c)' <=> InHand(c))
  BY DEF Busy, InHand

(* Steps that no worker takes part in.                                     *)
LEMMA NobodyMoves ==
    ASSUME AtWork, UNCHANGED fWorker, fPc' = fPc \/ \A w \in Buyer : ~Busy(w)
    PROVE  AtWork'
  BY BuyerFacts DEF AtWork, Busy

LEMMA NothingHandedOut == ASSUME fPc' \notin {"send", "wait", "assemble"} PROVE NoneForgotten'
  BY DEF NoneForgotten

LEMMA NothingForgotten ==
    ASSUME NoneForgotten, UNCHANGED <<fPc, fNext, fWorker, fError, fFacts, fFinal>>,
           ~fCancelled' => ~fCancelled
    PROVE  NoneForgotten'
<1>1. fPc' = "wait" /\ ~fCancelled' => fNext' > FPChunks
  BY Zenon DEF NoneForgotten
<1>2. /\ fPc' \in {"send", "wait"} /\ fError' = "" =>
            \A c \in Chunk : c < fNext' => fFacts'[c] # 0 \/ InHand(c)'
      /\ fPc' = "assemble" => \A c \in Chunk : fFacts'[c] # 0
      /\ fPc' = "assemble" /\ fError' = "" => fFinal' # 0 \/ Busy(Assembly)'
  BY SameWorkers DEF NoneForgotten
<1> QED  BY <1>1, <1>2, Zenon DEF NoneForgotten

(* A buyer that only goes from one program counter to another.             *)
LEMMA StepType ==
    ASSUME Typed, NEW w \in Buyer, NEW pc \in BuyerPc, Step(w, pc)
    PROVE  /\ fWorker' \in [Buyer -> BuyerRec]
           /\ fWorker'[w] = [fWorker[w] EXCEPT !.pc = pc]
           /\ \A v \in Buyer \ {w} : fWorker'[v] = fWorker[v]
  BY DEF Typed, Step, BuyerRec

(* A buyer that fails is free, and the pass fails with it.                 *)
LEMMA FailsType ==
    ASSUME Typed, NEW w \in Buyer, NEW code \in ErrorCode \ {""}, Fails(w, code)
    PROVE  /\ fWorker' \in [Buyer -> BuyerRec]
           /\ fWorker'[w] = Free
           /\ \A v \in Buyer \ {w} : fWorker'[v] = fWorker[v]
           /\ fError' \in ErrorCode \ {""}
           /\ fCancelled' = TRUE
<1>1. fWorker' = [fWorker EXCEPT ![w] = Free]
  BY DEF Fails
<1>2. fError' \in ErrorCode \ {""}
  BY DEF Typed, Fails
<1>3. fWorker' \in [Buyer -> BuyerRec] /\ fWorker'[w] = Free
      /\ \A v \in Buyer \ {w} : fWorker'[v] = fWorker[v]
  BY <1>1, BuyerFacts DEF Typed
<1> QED  BY <1>2, <1>3 DEF Fails

-----------------------------------------------------------------------------
(* The layout of the facts: a purchase.                                    *)

(* What a purchase may do to its buyer and to the pass before the file is  *)
(* moved: go on with its chunk, or fail.                                   *)
GoesOn(w) ==
    /\ fWorker' \in [Buyer -> BuyerRec]
    /\ Busy(w) /\ Busy(w)' /\ fWorker'[w].chunk = fWorker[w].chunk
    /\ \A v \in Buyer \ {w} : fWorker'[v] = fWorker[v]
    /\ UNCHANGED <<fError, fCancelled>>
GivesUp(w) ==
    /\ fWorker' \in [Buyer -> BuyerRec]
    /\ fWorker'[w] = Free
    /\ \A v \in Buyer \ {w} : fWorker'[v] = fWorker[v]
    /\ fError' \in ErrorCode \ {""} /\ fCancelled' = TRUE

LEMMA PurchaseKeepsFiles ==
    ASSUME LayoutInv, NEW w \in Buyer, GoesOn(w) \/ GivesUp(w),
           Stage, UNCHANGED <<fOthers, fLayout>>, UNCHANGED Disk,
           fSpent' \in Nat, fLost' \in Nat, fLeft' \in [budget : Nat, runs : Nat, faults : Nat, layouts : Nat]
    PROVE  LayoutInv'
<1>1. Typed'
  BY DEF GoesOn, GivesUp, LayoutInv, Typed, Stage, Disk
<1>2. \A v \in Buyer : Busy(v)' => Busy(v) /\ fWorker'[v].chunk = fWorker[v].chunk
  BY BuyerFacts DEF GoesOn, GivesUp, Busy
<1>3. AtWork'
  BY <1>2, BuyerFacts DEF LayoutInv, AtWork, Stage
<1>4. Stamped'
  BY DEF LayoutInv, Stamped, Stage, Disk
<1>5. NoneForgotten'
  <2>1. fError' = "" => /\ fError = "" /\ \A v \in Buyer : Busy(v) => Busy(v)' /\ fWorker'[v].chunk = fWorker[v].chunk
    BY DEF GoesOn, GivesUp, Busy
  <2>2. fError' = "" => \A c \in Chunk : InHand(c) => InHand(c)'
    BY <2>1, BuyerFacts DEF InHand
  <2>3. ~fCancelled' => ~fCancelled
    BY DEF GoesOn, GivesUp
  <2> QED  BY <2>1, <2>2, <2>3, BuyerFacts DEF LayoutInv, NoneForgotten, Stage, Disk
<1>6. DoneRests' /\ FactsOfThisLayout'
  BY DEF LayoutInv, DoneRests, FactsOfThisLayout, Stage, Disk
<1> QED  BY <1>1, <1>3, <1>4, <1>5, <1>6 DEF LayoutInv

(* Every failure of a purchase has a code of its own.                      *)
LEMMA CodesAreErrors ==
    /\ {"cancelled", "budget", "unavailable"} \subseteq ErrorCode \ {""}
    /\ Fault \subseteq ErrorCode \ {""}
  BY DEF ErrorCode, Fault

LEMMA StepGoesOn ==
    ASSUME Typed, NEW w \in Buyer, Busy(w), NEW pc \in BuyerPc \ {"free", "absent"}, Step(w, pc),
           UNCHANGED <<fError, fCancelled>>
    PROVE  GoesOn(w)
<1>1. /\ fWorker' \in [Buyer -> BuyerRec]
      /\ fWorker'[w] = [fWorker[w] EXCEPT !.pc = pc]
      /\ \A v \in Buyer \ {w} : fWorker'[v] = fWorker[v]
  BY StepType
<1>2. fWorker[w] \in BuyerRec
  BY DEF Typed
<1>3. fWorker'[w].pc = pc /\ fWorker'[w].chunk = fWorker[w].chunk
  BY <1>1, <1>2 DEF BuyerRec
<1> QED  BY <1>1, <1>3 DEF GoesOn, Busy

LEMMA FailsGivesUp ==
    ASSUME Typed, NEW w \in Buyer, NEW code \in ErrorCode \ {""}, Fails(w, code)
    PROVE  GivesUp(w)
  BY FailsType DEF GivesUp

LEMMA FaultSpent ==
    ASSUME Typed, fLeft.faults > 0, fLeft' = [fLeft EXCEPT !.faults = @ - 1]
    PROVE  /\ fLeft' \in [budget : Nat, runs : Nat, faults : Nat, layouts : Nat]
           /\ fLeft'.budget = fLeft.budget
  BY DEF Typed

LEMMA AttemptGoesOn ==
    ASSUME LayoutInv, NEW w \in Buyer, Attempt(w)
    PROVE  GoesOn(w) \/ GivesUp(w)
<1>1. Typed /\ Busy(w)
  BY DEF LayoutInv, Attempt, Busy
<1>2. CASE Step(w, "harvest") /\ UNCHANGED <<fError, fCancelled>>
  BY <1>1, <1>2, StepGoesOn DEF BuyerPc
<1>3. CASE Fails(w, "cancelled")
  BY <1>1, <1>3, FailsGivesUp, CodesAreErrors
<1>4. ASSUME NEW k \in Fault, Fails(w, k) PROVE GivesUp(w)
  BY <1>1, <1>4, FailsGivesUp, CodesAreErrors
<1>5. ASSUME NEW k \in Fault, UNCHANGED <<fError, fCancelled>>,
             fWorker' = [fWorker EXCEPT ![w].tries[k] = @ + 1,
                                        ![w].pc = IF k = "invalid" THEN "run" ELSE "sleep"]
      PROVE  GoesOn(w)
  <2>1. fWorker \in [Buyer -> BuyerRec]
    BY <1>1 DEF Typed
  <2> DEFINE rec == [fWorker[w] EXCEPT !.tries[k] = @ + 1, !.pc = IF k = "invalid" THEN "run" ELSE "sleep"]
  <2>5. fWorker[w] \in BuyerRec
    BY <2>1
  <2>6. [fWorker[w].tries EXCEPT ![k] = @ + 1] \in [Fault -> Nat]
    BY <2>5 DEF BuyerRec
  <2>2. rec \in BuyerRec /\ rec.pc \in {"run", "sleep"} /\ rec.chunk = fWorker[w].chunk
    BY <2>5, <2>6 DEF BuyerRec, BuyerPc
  <2>3. fWorker' = [fWorker EXCEPT ![w] = rec]
    BY <1>5, <2>1 DEF BuyerRec
  <2>4. fWorker' \in [Buyer -> BuyerRec] /\ fWorker'[w] = rec /\ \A v \in Buyer \ {w} : fWorker'[v] = fWorker[v]
    BY <2>1, <2>2, <2>3
  <2> QED  BY <1>1, <1>5, <2>2, <2>4 DEF GoesOn, Busy
<1> QED  BY <1>2, <1>3, <1>4, <1>5 DEF Attempt

LEMMA PurchaseMoves ==
    ASSUME LayoutInv, NEW w \in Buyer, Preflight(w) \/ AcquireSlot(w) \/ Attempt(w) \/ Wake(w)
    PROVE  GoesOn(w) \/ GivesUp(w)
<1>0. Typed /\ Busy(w)
  BY DEF LayoutInv, Preflight, AcquireSlot, Attempt, Wake, Busy
<1>1. CASE Preflight(w)
  BY <1>0, <1>1, StepGoesOn, FailsGivesUp, CodesAreErrors DEF Preflight, BuyerPc
<1>2. CASE AcquireSlot(w)
  BY <1>0, <1>2, StepGoesOn, FailsGivesUp, CodesAreErrors DEF AcquireSlot, BuyerPc
<1>3. CASE Wake(w)
  BY <1>0, <1>3, StepGoesOn, FailsGivesUp, CodesAreErrors DEF Wake, BuyerPc
<1> QED  BY <1>1, <1>2, <1>3, AttemptGoesOn

LEMMA PurchaseKeepsLayout ==
    ASSUME LayoutInv, NEW w \in Buyer, Preflight(w) \/ AcquireSlot(w) \/ Attempt(w) \/ Wake(w)
    PROVE  LayoutInv'
<1>1. Typed /\ fSpent \in Nat /\ fLost \in Nat /\ fLeft \in [budget : Nat, runs : Nat, faults : Nat, layouts : Nat]
  BY DEF LayoutInv, Typed
<1>2. Stage /\ UNCHANGED <<fOthers, fLayout>> /\ UNCHANGED Disk
  BY DEF Preflight, AcquireSlot, Attempt, Wake
<1>3. fSpent' \in Nat /\ fLost' \in Nat
  BY <1>1 DEF Preflight, AcquireSlot, Attempt, Wake, Charged, Money
<1>4. fLeft' \in [budget : Nat, runs : Nat, faults : Nat, layouts : Nat]
  BY <1>1, FaultSpent DEF Preflight, AcquireSlot, Attempt, Wake
<1> QED  BY <1>2, <1>3, <1>4, PurchaseMoves, PurchaseKeepsFiles

(* The moved file bears the layout of the stamp: the stage is past it.     *)
LEMMA HarvestKeepsLayout ==
    ASSUME LayoutInv, NEW w \in Buyer, Harvest(w)
    PROVE  LayoutInv'
<1>0. Typed /\ AtWork /\ Stamped /\ NoneForgotten /\ DoneRests /\ Busy(w)
  BY DEF LayoutInv, Harvest, Busy
<1>1. fWorker' \in [Buyer -> BuyerRec] /\ fWorker'[w] = Free /\ \A v \in Buyer \ {w} : fWorker'[v] = fWorker[v]
  BY <1>0, BuyerFacts DEF Harvest, Typed
<1>2. fPc \in {"send", "wait", "assemble"} /\ fStamp = fLayout /\ fLayout # 0
  BY <1>0, BuyerFacts DEF AtWork, Stamped, Typed, Layout
<1>3. CASE w = Assembly
  <2>1. fFinal' = fLayout /\ UNCHANGED fFacts /\ fPc = "assemble"
    BY <1>0, <1>3 DEF Harvest, AtWork
  <2>2. Typed' /\ AtWork' /\ Stamped' /\ DoneRests' /\ FactsOfThisLayout'
    BY <1>0, <1>1, <1>2, <2>1, BuyerFacts
       DEF Harvest, Typed, AtWork, Stamped, DoneRests, FactsOfThisLayout, Stage, Busy, Money
  <2>3. NoneForgotten'
    BY <1>0, <1>2, <2>1 DEF NoneForgotten, Harvest, Stage
  <2> QED  BY <2>2, <2>3 DEF LayoutInv
<1>4. CASE w # Assembly
  <2> DEFINE d == fWorker[w].chunk
  <2>1. w \in Worker /\ d \in Chunk /\ fPc \in {"send", "wait"}
    BY <1>0, <1>4, BuyerFacts DEF AtWork
  <2>2. fFacts' = [fFacts EXCEPT ![d] = fLayout] /\ UNCHANGED fFinal
    BY <1>4 DEF Harvest
  <2>3. Typed'
    BY <1>0, <1>1, <2>1, <2>2 DEF Harvest, Typed, Stage, Money
  <2>4. AtWork' /\ Stamped' /\ DoneRests' /\ FactsOfThisLayout'
    BY <1>0, <1>1, <1>2, <2>1, <2>2, BuyerFacts
       DEF Harvest, Typed, AtWork, Stamped, DoneRests, FactsOfThisLayout, Stage, Busy, Money
  <2>5. \A c \in Chunk : InHand(c) => InHand(c)' \/ c = d
    BY <1>0, <1>1, BuyerFacts DEF InHand, Busy
  <2>6. fFacts'[d] # 0 /\ \A c \in Chunk : fFacts[c] # 0 => fFacts'[c] # 0
    BY <1>0, <1>2, <2>1, <2>2 DEF Typed
  <2>7. NoneForgotten'
    BY <1>0, <2>1, <2>5, <2>6 DEF NoneForgotten, Harvest, Stage
  <2> QED  BY <2>3, <2>4, <2>7 DEF LayoutInv
<1> QED  BY <1>3, <1>4

-----------------------------------------------------------------------------
(* The layout of the facts: the stage and its surroundings.                *)

LEMMA BuyersFinite ==
    /\ IsFiniteSet(Buyer) /\ IsFiniteSet(Holding) /\ Cardinality(Holding) \in Nat
    /\ \A S \in SUBSET Buyer : IsFiniteSet(S) /\ Cardinality(S) \in Nat
<1>0. IsFiniteSet(0..FPWorkers)
  BY FPConstants, FS_Interval
<1>1. IsFiniteSet(Buyer)
  BY <1>0, BuyerFacts
<1>2. \A S \in SUBSET Buyer : IsFiniteSet(S) /\ Cardinality(S) \in Nat
  BY <1>1, FS_Subset, FS_CardinalityType
<1>3. Holding \in SUBSET Buyer
  BY DEF Holding
<1> QED  BY <1>1, <1>2, <1>3

LEMMA ReadStampKeepsLayout == ASSUME LayoutInv, ReadStamp PROVE LayoutInv'
<1>1. Typed' /\ AtWork' /\ DoneRests' /\ FactsOfThisLayout' /\ NoneForgotten'
  BY DEF LayoutInv, Typed, AtWork, DoneRests, FactsOfThisLayout, NoneForgotten, ReadStamp,
         StageAt, Disk, Buying, Money, Busy, StagePc
<1>2. Stamped'
  BY DEF LayoutInv, Stamped, ReadStamp, StampMatches, StageAt, Disk, Buying
<1> QED  BY <1>1, <1>2 DEF LayoutInv

LEMMA RemoveStaleKeepsLayout == ASSUME LayoutInv, RemoveStale PROVE LayoutInv'
<1> DEFINE left == {c \in Chunk : fFacts[c] # 0}
<1>0. Typed /\ AtWork /\ DoneRests /\ Stamped /\ FactsOfThisLayout /\ fPc = "remove"
  BY DEF LayoutInv, RemoveStale
<1>1. CASE left # {}
  <2>1. /\ fFacts' = [c \in Chunk |-> IF \A d \in left : c <= d THEN 0 ELSE fFacts[c]]
        /\ fPc' = "remove" /\ UNCHANGED <<fFinal, fResult>>
        /\ UNCHANGED <<fNext, fWorker, fCancelled, fError, fStamp, fOthers, fLayout, fLeft, fSpent, fLost>>
    BY <1>1 DEF RemoveStale, StageAt, Buying, Money
  <2>2. \A c \in Chunk : fFacts'[c] \in {0, fFacts[c]}
    BY <2>1
  <2>3. fFacts' \in [Chunk -> Layout \cup {0}]
    BY <1>0, <2>1 DEF Typed
  <2> QED  BY <1>0, <2>1, <2>2, <2>3
           DEF LayoutInv, Typed, AtWork, Stamped, DoneRests, FactsOfThisLayout, NoneForgotten, Busy
<1>2. CASE left = {}
  <2>1. /\ fFinal' = 0 /\ fPc' = "stamp"
        /\ UNCHANGED <<fFacts, fResult, fNext, fWorker, fCancelled, fError, fStamp, fOthers, fLayout, fLeft, fSpent, fLost>>
    BY <1>2 DEF RemoveStale, StageAt, Buying, Money
  <2>2. \A c \in Chunk : fFacts[c] = 0
    BY <1>2
  <2> QED  BY <1>0, <2>1, <2>2
           DEF LayoutInv, Typed, AtWork, Stamped, DoneRests, FactsOfThisLayout, NoneForgotten, Busy, StagePc, Layout
<1> QED  BY <1>1, <1>2

LEMMA WriteStampKeepsLayout == ASSUME LayoutInv, WriteStamp PROVE LayoutInv'
  BY DEF LayoutInv, Typed, AtWork, Stamped, DoneRests, FactsOfThisLayout, NoneForgotten, Busy,
         WriteStamp, StageAt, Buying, Money, StagePc, Layout

LEMMA StartWorkersKeepsLayout == ASSUME LayoutInv, StartWorkers PROVE LayoutInv'
<1>1. fWorker' \in [Buyer -> BuyerRec] /\ \A w \in Buyer : ~Busy(w)'
  BY BuyerFacts DEF StartWorkers, Busy
<1>2. Typed'
  BY <1>1 DEF LayoutInv, Typed, StartWorkers, StageAt, Disk, Buying, Money, StagePc
<1>3. AtWork' /\ Stamped' /\ DoneRests' /\ FactsOfThisLayout'
  BY <1>1, BuyerFacts DEF LayoutInv, AtWork, Stamped, DoneRests, FactsOfThisLayout, StartWorkers, StageAt, Disk, Buying
<1>4. NoneForgotten'
  <2>1. fPc' = "send" /\ fNext' = 1
    BY DEF StartWorkers, StageAt
  <2>2. \A c \in Chunk : ~(c < 1)
    BY DEF Chunk
  <2> QED  BY <2>1, <2>2 DEF NoneForgotten
<1> QED  BY <1>2, <1>3, <1>4 DEF LayoutInv

LEMMA SkipCompleteKeepsLayout == ASSUME LayoutInv, SkipComplete PROVE LayoutInv'
<1>1. Typed' /\ AtWork' /\ Stamped' /\ DoneRests' /\ FactsOfThisLayout'
  BY DEF LayoutInv, Typed, AtWork, Stamped, DoneRests, FactsOfThisLayout, Busy,
         SkipComplete, StageAt, Disk, Buying, Money, StagePc
<1>2. fFacts[fNext] # 0 /\ fNext' = fNext + 1 /\ fPc = "send" /\ fPc' = "send"
  BY DEF SkipComplete, Missing, StageAt
<1>3. UNCHANGED <<fWorker, fError, fCancelled, fFacts>>
  BY DEF SkipComplete, Disk
<1>4. \A c \in Chunk : c < fNext + 1 => c < fNext \/ c = fNext
  BY DEF LayoutInv, Typed, Chunk
<1>5. NoneForgotten'
  BY <1>2, <1>3, <1>4 DEF LayoutInv, NoneForgotten, InHand, Busy
<1> QED  BY <1>1, <1>5 DEF LayoutInv

LEMMA SendJobKeepsLayout == ASSUME LayoutInv, NEW w \in Worker, SendJob(w) PROVE LayoutInv'
<1> DEFINE rec == [Free EXCEPT !.pc = "preflight", !.chunk = fNext]
<1>0. Typed /\ AtWork /\ Stamped /\ DoneRests /\ FactsOfThisLayout /\ NoneForgotten
  BY DEF LayoutInv
<1>1. /\ fPc = "send" /\ fNext \in Chunk /\ ~Busy(w) /\ fWorker' = [fWorker EXCEPT ![w] = rec]
      /\ fNext' = fNext + 1 /\ fPc' = "send"
      /\ UNCHANGED <<fResult, fCancelled, fError, fFacts, fFinal, fStamp, fOthers, fLayout, fLeft, fSpent, fLost>>
  BY DEF SendJob, Missing, StageAt, Disk, Buying, Money, Busy
<1>2. rec \in BuyerRec /\ rec.pc = "preflight" /\ rec.chunk = fNext
  <2>1. fNext \in 0..FPChunks
    BY <1>1, FPConstants DEF Chunk
  <2> QED  BY <2>1, BuyerFacts DEF BuyerRec, BuyerPc
<1>3. /\ fWorker' \in [Buyer -> BuyerRec] /\ fWorker'[w] = rec
      /\ \A v \in Buyer \ {w} : fWorker'[v] = fWorker[v]
  BY <1>0, <1>1, <1>2, BuyerFacts DEF Typed
<1>4. Typed' /\ AtWork' /\ Stamped' /\ DoneRests' /\ FactsOfThisLayout'
  <2>1. Typed'
    BY <1>0, <1>1, <1>3 DEF Typed
  <2>2. AtWork'
    BY <1>0, <1>1, <1>2, <1>3, BuyerFacts DEF AtWork, Busy
  <2>3. Stamped' /\ DoneRests' /\ FactsOfThisLayout'
    BY <1>0, <1>1 DEF Stamped, DoneRests, FactsOfThisLayout
  <2> QED  BY <2>1, <2>2, <2>3
<1>5. \A c \in Chunk : c < fNext + 1 => c < fNext \/ c = fNext
  BY <1>0 DEF Typed, Chunk
<1>6. \A c \in Chunk : c = fNext \/ InHand(c) => InHand(c)'
  <2>1. Busy(w)' /\ fWorker'[w].chunk = fNext
    BY <1>2, <1>3 DEF Busy
  <2>2. \A v \in Worker : Busy(v) => Busy(v)' /\ fWorker'[v].chunk = fWorker[v].chunk
    BY <1>1, <1>3, BuyerFacts DEF Busy
  <2> QED  BY <2>1, <2>2 DEF InHand
<1>7. \A c \in Chunk : (fError = "" /\ c < fNext + 1) => (fFacts[c] # 0 \/ InHand(c)')
  BY <1>0, <1>1, <1>5, <1>6 DEF NoneForgotten
<1>8. NoneForgotten'
  BY <1>1, <1>7 DEF NoneForgotten
<1> QED  BY <1>4, <1>8 DEF LayoutInv

LEMMA CloseJobsKeepsLayout == ASSUME LayoutInv, CloseJobs PROVE LayoutInv'
<1>0. Typed /\ AtWork /\ Stamped /\ DoneRests /\ FactsOfThisLayout /\ NoneForgotten
  BY DEF LayoutInv
<1>1. /\ fPc = "send" /\ fPc' = "wait" /\ (fNext \notin Chunk \/ fCancelled)
      /\ UNCHANGED <<fResult, fNext, fWorker, fCancelled, fError, fFacts, fFinal, fStamp, fOthers, fLayout, fLeft, fSpent, fLost>>
  BY DEF CloseJobs, StageAt, Disk, Buying, Money
<1>2. fNext \notin Chunk => fNext > FPChunks
  BY <1>0 DEF Typed, Chunk
<1>3. Typed' /\ AtWork' /\ Stamped' /\ DoneRests' /\ FactsOfThisLayout'
  <2>1. Typed'
    BY <1>0, <1>1 DEF Typed, StagePc
  <2>2. AtWork'
    BY <1>0, <1>1 DEF AtWork, Busy
  <2>3. Stamped' /\ DoneRests' /\ FactsOfThisLayout'
    BY <1>0, <1>1 DEF Stamped, DoneRests, FactsOfThisLayout
  <2> QED  BY <2>1, <2>2, <2>3
<1>4. NoneForgotten'
  <2>1. ~fCancelled' => fNext' > FPChunks
    BY <1>1, <1>2, Zenon
  <2>2. fError' = "" => \A c \in Chunk : c < fNext' => fFacts'[c] # 0 \/ InHand(c)'
    BY <1>0, <1>1, SameWorkers DEF NoneForgotten
  <2>3. fPc' = "wait"
    BY <1>1
  <2> QED  BY <2>1, <2>2, <2>3, Zenon DEF NoneForgotten
<1> QED  BY <1>3, <1>4 DEF LayoutInv

(* wg.Wait: with every job handed out and no worker left, no chunk is      *)
(* missing.                                                                *)
LEMMA AfterWorkersKeepsLayout == ASSUME LayoutInv, AfterWorkers PROVE LayoutInv'
<1>0. Typed /\ AtWork /\ Stamped /\ DoneRests /\ FactsOfThisLayout /\ NoneForgotten
  BY DEF LayoutInv
<1>1. /\ fPc = "wait" /\ \A w \in Buyer : ~Busy(w)
      /\ UNCHANGED <<fNext, fCancelled, fError, fFacts, fFinal, fStamp, fOthers, fLayout, fLeft, fSpent, fLost>>
  BY QuietIsNotBusy DEF AfterWorkers, Disk, Buying, Money
<1>2. ASSUME fError = "", ~fCancelled PROVE \A c \in Chunk : fFacts[c] # 0
  <2>1. \A c \in Chunk : c < fNext
    <3>1. fNext > FPChunks
      BY <1>0, <1>1, <1>2, Zenon DEF NoneForgotten
    <3> QED  BY <1>0, <3>1, FPConstants DEF Typed, Chunk
  <2>2. \A c \in Chunk : ~InHand(c)
    BY <1>1, BuyerFacts DEF InHand
  <2> QED  BY <1>0, <1>1, <1>2, <2>1, <2>2 DEF NoneForgotten
<1>3. CASE fError # ""
  <2>1. fPc' = "idle" /\ fResult' = fError /\ fResult' # "done" /\ UNCHANGED fWorker
    BY <1>0, <1>3 DEF AfterWorkers, Ends, Typed, ErrorCode, Fault
  <2>2. Typed'
    BY <1>0, <1>1, <2>1 DEF Typed, StagePc
  <2>3. AtWork' /\ NoneForgotten'
    BY <1>0, <1>1, <2>1, NobodyMoves, NothingHandedOut
  <2>4. Stamped' /\ DoneRests' /\ FactsOfThisLayout'
    BY <1>0, <1>1, <2>1 DEF Stamped, DoneRests, FactsOfThisLayout
  <2> QED  BY <2>2, <2>3, <2>4 DEF LayoutInv
<1>4. CASE fError = "" /\ fCancelled
  <2>1. fPc' = "idle" /\ fResult' = "cancelled" /\ UNCHANGED fWorker
    BY <1>4 DEF AfterWorkers, Ends
  <2>2. Typed'
    BY <1>0, <1>1, <2>1 DEF Typed, StagePc
  <2>3. AtWork' /\ NoneForgotten'
    BY <1>0, <1>1, <2>1, NobodyMoves, NothingHandedOut
  <2>4. Stamped' /\ DoneRests' /\ FactsOfThisLayout'
    BY <1>0, <1>1, <2>1 DEF Stamped, DoneRests, FactsOfThisLayout
  <2> QED  BY <2>2, <2>3, <2>4 DEF LayoutInv
<1>5. CASE fError = "" /\ ~fCancelled /\ fFinal = 0
  <2> DEFINE rec == [Free EXCEPT !.pc = "preflight"]
  <2>1. fWorker' = [fWorker EXCEPT ![Assembly] = rec] /\ fPc' = "assemble" /\ UNCHANGED fResult
    BY <1>5 DEF AfterWorkers, StageAt
  <2>2. rec \in BuyerRec /\ rec.pc = "preflight"
    BY BuyerFacts DEF BuyerRec, BuyerPc
  <2>3. /\ fWorker' \in [Buyer -> BuyerRec] /\ Busy(Assembly)'
        /\ \A w \in Worker : ~Busy(w)'
    BY <1>0, <1>1, <2>1, <2>2, BuyerFacts DEF Typed, Busy
  <2>4. Typed' /\ AtWork' /\ Stamped' /\ DoneRests' /\ FactsOfThisLayout'
    BY <1>0, <1>1, <2>1, <2>3 DEF Typed, AtWork, Stamped, DoneRests, FactsOfThisLayout, StagePc
  <2>5. NoneForgotten'
    BY <1>1, <1>2, <1>5, <2>1, <2>3 DEF NoneForgotten
  <2> QED  BY <2>4, <2>5 DEF LayoutInv
<1>6. CASE fError = "" /\ ~fCancelled /\ fFinal # 0
  <2>1. fPc' = "idle" /\ fResult' = "done" /\ UNCHANGED fWorker
    BY <1>6 DEF AfterWorkers, Ends
  <2>2. fFinal = fLayout /\ \A c \in Chunk : fFacts[c] = fLayout
    BY <1>0, <1>1, <1>2, <1>6 DEF Stamped
  <2>3. FactsOfThisLayout'
    BY <1>1, <2>2 DEF FactsOfThisLayout
  <2>4. Typed' /\ AtWork' /\ Stamped' /\ DoneRests' /\ NoneForgotten'
    BY <1>0, <1>1, <2>1, BuyerFacts DEF Typed, AtWork, Stamped, DoneRests, NoneForgotten, Busy, StagePc
  <2> QED  BY <2>3, <2>4 DEF LayoutInv
<1> QED  BY <1>0, <1>3, <1>4, <1>5, <1>6 DEF Typed

LEMMA AfterAssemblyKeepsLayout == ASSUME LayoutInv, AfterAssembly PROVE LayoutInv'
<1>0. Typed /\ AtWork /\ Stamped /\ DoneRests /\ FactsOfThisLayout /\ NoneForgotten
  BY DEF LayoutInv
<1>1. /\ fPc = "assemble" /\ fPc' = "idle" /\ \A w \in Buyer : ~Busy(w)
      /\ fResult' = (IF fError # "" THEN fError ELSE "done")
      /\ UNCHANGED <<fNext, fWorker, fCancelled, fError, fFacts, fFinal, fStamp, fOthers, fLayout, fLeft, fSpent, fLost>>
  BY QuietIsNotBusy DEF AfterAssembly, Ends, Disk, Buying, Money
<1>2. Typed' /\ AtWork' /\ Stamped' /\ DoneRests' /\ NoneForgotten'
  BY <1>0, <1>1, BuyerFacts DEF Typed, AtWork, Stamped, DoneRests, NoneForgotten, Busy, StagePc
<1>3. fResult' = "done" => fError = ""
  BY <1>0, <1>1 DEF Typed, ErrorCode, Fault
<1>4. FactsOfThisLayout'
  BY <1>0, <1>1, <1>3, BuyerFacts DEF FactsOfThisLayout, NoneForgotten, Stamped
<1> QED  BY <1>2, <1>4 DEF LayoutInv

LEMMA CoordinateKeepsLayout == ASSUME LayoutInv, Coordinate PROVE LayoutInv'
  BY ReadStampKeepsLayout, RemoveStaleKeepsLayout, WriteStampKeepsLayout, StartWorkersKeepsLayout,
     SkipCompleteKeepsLayout, SendJobKeepsLayout, CloseJobsKeepsLayout, AfterWorkersKeepsLayout,
     AfterAssemblyKeepsLayout DEF Coordinate

LEMMA FreshWorkers ==
    ASSUME fWorker' = [w \in Buyer |-> Free]
    PROVE  fWorker' \in [Buyer -> BuyerRec] /\ \A w \in Buyer : ~Busy(w)'
  BY BuyerFacts DEF Busy

LEMMA SurroundingsKeepLayout ==
    ASSUME LayoutInv, Dispatch \/ CancelStage \/ FPCrash \/ NewLayout \/ OthersTake \/ OthersReturn
    PROVE  LayoutInv'
<1>0. Typed /\ AtWork /\ Stamped /\ DoneRests /\ FactsOfThisLayout /\ NoneForgotten
  BY DEF LayoutInv
<1>1. CASE Dispatch
  <2>1. fWorker' \in [Buyer -> BuyerRec] /\ \A w \in Buyer : ~Busy(w)'
    BY <1>1, FreshWorkers DEF Dispatch
  <2>2. Typed'
    <3>1. fLeft' \in [budget : Nat, runs : Nat, faults : Nat, layouts : Nat]
      <4>1. fLeft \in [budget : Nat, runs : Nat, faults : Nat, layouts : Nat]
        BY <1>0 DEF Typed
      <4>2. fLeft' = [fLeft EXCEPT !.runs = @ - 1] /\ fLeft.runs > 0
        BY <1>1 DEF Dispatch
      <4> QED  BY <4>1, <4>2
    <3>2. /\ fPc' \in StagePc /\ fNext' = 1 /\ fCancelled' \in BOOLEAN /\ fError' \in ErrorCode
          /\ UNCHANGED <<fOthers, fLayout, fFacts, fFinal, fStamp, fSpent, fLost>>
      BY <1>1 DEF Dispatch, StageAt, Disk, Money, StagePc, ErrorCode
    <3> QED  BY <1>0, <2>1, <3>1, <3>2 DEF Typed
  <2>3. AtWork' /\ Stamped' /\ DoneRests' /\ FactsOfThisLayout' /\ NoneForgotten'
    BY <1>0, <1>1, <2>1, BuyerFacts
       DEF AtWork, Stamped, DoneRests, FactsOfThisLayout, NoneForgotten, Dispatch, StageAt, Disk
  <2> QED  BY <2>2, <2>3 DEF LayoutInv
<1>2. CASE CancelStage
  <2>1. /\ fCancelled' = TRUE /\ fLeft' \in [budget : Nat, runs : Nat, faults : Nat, layouts : Nat]
        /\ UNCHANGED <<fPc, fResult, fNext, fWorker, fError, fFacts, fFinal, fStamp, fOthers, fLayout, fSpent, fLost>>
    BY <1>0, <1>2, FaultSpent DEF CancelStage, Disk, Money
  <2>2. Typed'
    BY <1>0, <2>1 DEF Typed
  <2>3. AtWork' /\ NoneForgotten'
    BY <1>0, <2>1, NobodyMoves, NothingForgotten
  <2>4. Stamped' /\ DoneRests' /\ FactsOfThisLayout'
    BY <1>0, <2>1 DEF Stamped, DoneRests, FactsOfThisLayout
  <2> QED  BY <2>2, <2>3, <2>4 DEF LayoutInv
<1>3. CASE FPCrash
  <2>1. fWorker' \in [Buyer -> BuyerRec] /\ \A w \in Buyer : ~Busy(w)'
    BY <1>3, FreshWorkers DEF FPCrash
  <2>2. fLost' \in Nat
    <3>1. {w \in Buyer : fWorker[w].pc = "run"} \in SUBSET Buyer
      OBVIOUS
    <3>2. Cardinality({w \in Buyer : fWorker[w].pc = "run"}) \in Nat
      BY <3>1, BuyersFinite
    <3>3. fLost' = fLost + Cardinality({w \in Buyer : fWorker[w].pc = "run"}) /\ fLost \in Nat
      BY <1>0, <1>3 DEF FPCrash, Typed
    <3> QED  BY <3>2, <3>3
  <2>3. Typed'
    <3>1. fLeft' \in [budget : Nat, runs : Nat, faults : Nat, layouts : Nat]
      BY <1>0, <1>3, FaultSpent DEF FPCrash
    <3>2. /\ fPc' \in StagePc /\ fNext' = 1 /\ fCancelled' \in BOOLEAN /\ fError' \in ErrorCode /\ fOthers' = 0
          /\ UNCHANGED <<fLayout, fFacts, fFinal, fStamp, fSpent>>
      BY <1>3 DEF FPCrash, Ends, Disk, StagePc, ErrorCode
    <3> QED  BY <1>0, <2>1, <2>2, <3>1, <3>2 DEF Typed
  <2>4. AtWork' /\ Stamped' /\ DoneRests' /\ FactsOfThisLayout' /\ NoneForgotten'
    BY <1>0, <1>3, <2>1, BuyerFacts
       DEF AtWork, Stamped, DoneRests, FactsOfThisLayout, NoneForgotten, FPCrash, Ends, Disk
  <2> QED  BY <2>3, <2>4 DEF LayoutInv
<1>4. CASE NewLayout
  <2>1. 3 - fLayout \in Layout
    BY <1>0 DEF Typed, Layout
  <2> QED  BY <1>0, <1>4, <2>1
           DEF LayoutInv, Typed, AtWork, Stamped, DoneRests, FactsOfThisLayout, NoneForgotten,
               InHand, Busy, NewLayout, Stage, Disk, Money
<1>5. CASE OthersTake
  <2>1. /\ fOthers' \in Nat
        /\ UNCHANGED <<fPc, fResult, fNext, fWorker, fCancelled, fError, fFacts, fFinal, fStamp, fLayout, fSpent, fLost, fLeft>>
    BY <1>0, <1>5 DEF OthersTake, Typed, Stage, Disk, Money
  <2>2. Typed'
    BY <1>0, <2>1 DEF Typed
  <2>3. AtWork' /\ NoneForgotten'
    BY <1>0, <2>1, NobodyMoves, NothingForgotten
  <2>4. Stamped' /\ DoneRests' /\ FactsOfThisLayout'
    BY <1>0, <2>1 DEF Stamped, DoneRests, FactsOfThisLayout
  <2> QED  BY <2>2, <2>3, <2>4 DEF LayoutInv
<1>6. CASE OthersReturn
  <2>1. /\ fOthers' \in Nat
        /\ UNCHANGED <<fPc, fResult, fNext, fWorker, fCancelled, fError, fFacts, fFinal, fStamp, fLayout, fSpent, fLost, fLeft>>
    BY <1>0, <1>6 DEF OthersReturn, Typed, Stage, Disk, Money
  <2>2. Typed'
    BY <1>0, <2>1 DEF Typed
  <2>3. AtWork' /\ NoneForgotten'
    BY <1>0, <2>1, NobodyMoves, NothingForgotten
  <2>4. Stamped' /\ DoneRests' /\ FactsOfThisLayout'
    BY <1>0, <2>1 DEF Stamped, DoneRests, FactsOfThisLayout
  <2> QED  BY <2>2, <2>3, <2>4 DEF LayoutInv
<1> QED  BY <1>1, <1>2, <1>3, <1>4, <1>5, <1>6

LEMMA LayoutInvStarts == ASSUME FPInit PROVE LayoutInv
<1>1. fWorker \in [Buyer -> BuyerRec] /\ \A w \in Buyer : ~Busy(w)
  BY BuyerFacts DEF FPInit, Busy
<1>2. Typed
  <2>1. fLeft \in [budget : Nat, runs : Nat, faults : Nat, layouts : Nat]
    BY FPConstants DEF FPInit
  <2>2. fFacts \in [Chunk -> Layout \cup {0}]
    BY DEF FPInit
  <2>3. /\ fPc \in StagePc /\ fCancelled \in BOOLEAN /\ fError \in ErrorCode /\ fLayout \in Layout
        /\ fFinal = 0 /\ fStamp = 0 /\ fNext = 1 /\ fOthers = 0 /\ fSpent = 0 /\ fLost = 0
    BY DEF FPInit, StagePc, ErrorCode, Layout
  <2> QED  BY <1>1, <2>1, <2>2, <2>3 DEF Typed
<1>3. AtWork /\ Stamped /\ NoneForgotten /\ DoneRests /\ FactsOfThisLayout
  BY <1>1, BuyerFacts DEF FPInit, AtWork, Stamped, NoneForgotten, DoneRests, FactsOfThisLayout
<1> QED  BY <1>2, <1>3 DEF LayoutInv

LEMMA LayoutInvKept == ASSUME LayoutInv, [FPNext]_fVars PROVE LayoutInv'
<1>1. CASE Coordinate
  BY <1>1, CoordinateKeepsLayout
<1>2. CASE Dispatch \/ CancelStage \/ FPCrash \/ NewLayout \/ OthersTake \/ OthersReturn
  BY <1>2, SurroundingsKeepLayout
<1>3. ASSUME NEW w \in Buyer, Purchase(w) PROVE LayoutInv'
  BY <1>3, PurchaseKeepsLayout, HarvestKeepsLayout DEF Purchase
<1>4. CASE UNCHANGED fVars
  BY <1>4 DEF LayoutInv, Typed, AtWork, Stamped, DoneRests, FactsOfThisLayout, NoneForgotten,
              InHand, Busy, fVars
<1> QED  BY <1>1, <1>2, <1>3, <1>4 DEF FPNext

(* A pass that is done has facts and an assembly about the chapters the    *)
(* book has now, for any number of chunks and workers and however runs     *)
(* failed, were cut or crashed before (discardStaleFacts, runFactPass).    *)
THEOREM FactsAreOfThisLayout == FPSpec => []FactsOfThisLayout
<1>1. FPInit => LayoutInv
  BY LayoutInvStarts
<1>2. LayoutInv /\ [FPNext]_fVars => LayoutInv'
  BY LayoutInvKept
<1>3. LayoutInv => FactsOfThisLayout
  BY DEF LayoutInv
<1> QED  BY <1>1, <1>2, <1>3, PTL DEF FPSpec

-----------------------------------------------------------------------------
(* The slots.                                                              *)

LEMMA HoldingShrinks ==
    ASSUME Typed, SlotsKept, Holding' \subseteq Holding, fOthers' \in Nat, fOthers' <= fOthers
    PROVE  SlotsKept'
<1>1. IsFiniteSet(Holding) /\ Cardinality(Holding) \in Nat
  BY BuyersFinite
<1>2. Cardinality(Holding') \in Nat /\ Cardinality(Holding') <= Cardinality(Holding)
  <2>1. Holding' \in SUBSET Holding
    OBVIOUS
  <2> QED  BY <1>1, <2>1, FS_Subset, FS_CardinalityType
<1>3. Cardinality(Holding)' = Cardinality(Holding')
  OBVIOUS
<1> QED  BY <1>1, <1>2, <1>3 DEF SlotsKept, Typed

LEMMA OneMoves ==
    ASSUME NEW w \in Buyer, \A v \in Buyer \ {w} : fWorker'[v] = fWorker[v]
    PROVE  /\ Holding' \subseteq Holding \cup {w}
           /\ w \in Holding \/ fWorker'[w].pc \notin {"run", "sleep"} => Holding' \subseteq Holding
<1>1. Holding' = {v \in Buyer : fWorker'[v].pc \in {"run", "sleep"}}
  BY DEF Holding
<1> QED  BY <1>1 DEF Holding

LEMMA PurchaseKeepsSlots ==
    ASSUME LayoutInv, SlotsKept, NEW w \in Buyer, Purchase(w)
    PROVE  SlotsKept'
<1>1. Typed /\ fOthers \in Nat /\ fOthers' = fOthers /\ fWorker \in [Buyer -> BuyerRec]
  BY DEF LayoutInv, Typed, Purchase, Preflight, AcquireSlot, Attempt, Wake, Harvest
<1>2. \A v \in Buyer \ {w} : fWorker'[v] = fWorker[v]
  <2>1. CASE Harvest(w)
    BY <1>1, <2>1 DEF Harvest
  <2> QED  BY <2>1, PurchaseMoves DEF Purchase, GoesOn, GivesUp
<1>3. CASE w \in Holding \/ fWorker'[w].pc \notin {"run", "sleep"}
  <2>1. Holding' \subseteq Holding
    BY <1>2, <1>3, OneMoves
  <2> QED  BY <1>1, <2>1, HoldingShrinks
<1>4. CASE w \notin Holding /\ fWorker'[w].pc \in {"run", "sleep"}
  <2>1. fWorker[w].pc \notin {"run", "sleep"}
    BY <1>4 DEF Holding
  <2>2. \A code : ~Fails(w, code)
    BY <1>1, <1>4, BuyerFacts DEF Fails
  <2>3. \A pc : Step(w, pc) => fWorker'[w].pc = pc
    BY <1>1 DEF Step, BuyerRec
  <2>4. SlotFree
    BY <1>1, <1>4, <2>1, <2>2, <2>3, BuyerFacts DEF Purchase, Preflight, AcquireSlot, Attempt, Wake, Harvest
  <2>5. Holding' \subseteq Holding \cup {w}
    BY <1>2, OneMoves
  <2>6. Cardinality(Holding') <= Cardinality(Holding) + 1 /\ Cardinality(Holding') \in Nat
    <3>1. IsFiniteSet(Holding \cup {w}) /\ Cardinality(Holding \cup {w}) = Cardinality(Holding) + 1
      BY <1>4, BuyersFinite, FS_AddElement
    <3>2. Holding' \in SUBSET (Holding \cup {w})
      BY <2>5
    <3> QED  BY <3>1, <3>2, FS_Subset, FS_CardinalityType
  <2>7. Cardinality(Holding)' = Cardinality(Holding')
    OBVIOUS
  <2> QED  BY <1>1, <2>4, <2>6, <2>7, BuyersFinite DEF SlotFree, SlotsKept
<1> QED  BY <1>3, <1>4

LEMMA SlotsKeptKept == ASSUME LayoutInv, SlotsKept, [FPNext]_fVars PROVE SlotsKept'
<1>0. Typed /\ fOthers \in Nat /\ fWorker \in [Buyer -> BuyerRec]
  BY DEF LayoutInv, Typed
<1>1. CASE UNCHANGED fWorker /\ fOthers' \in Nat /\ fOthers' <= fOthers
  <2>1. Holding' \subseteq Holding
    BY <1>1 DEF Holding
  <2> QED  BY <1>0, <1>1, <2>1, HoldingShrinks
<1>2. CASE fOthers' \in Nat /\ fOthers' <= fOthers /\ \A w \in Buyer : fWorker'[w].pc \in {"run", "sleep"} => fWorker'[w] = fWorker[w]
  <2>1. Holding' \subseteq Holding
    BY <1>2 DEF Holding
  <2> QED  BY <1>0, <1>2, <2>1, HoldingShrinks
<1>3. CASE OthersTake
  <2>1. UNCHANGED fWorker /\ SlotFree /\ fOthers' = fOthers + 1
    BY <1>3 DEF OthersTake
  <2>2. Holding' = Holding
    BY <2>1 DEF Holding
  <2> QED  BY <1>0, <2>1, <2>2, BuyersFinite DEF SlotFree, SlotsKept
<1>4. ASSUME NEW w \in Buyer, Purchase(w) PROVE SlotsKept'
  BY <1>4, PurchaseKeepsSlots
<1>5. CASE Coordinate
  <2>1. fOthers' \in Nat /\ fOthers' <= fOthers
    <3>1. Buying
      BY <1>5, Zenon DEF Coordinate, ReadStamp, RemoveStale, WriteStamp, StartWorkers, SkipComplete,
                         SendJob, CloseJobs, AfterWorkers, AfterAssembly
    <3> QED  BY <1>0, <3>1 DEF Buying
  <2>2. UNCHANGED fWorker \/ \A w \in Buyer : fWorker'[w].pc \in {"run", "sleep"} => fWorker'[w] = fWorker[w]
    <3>1. CASE StartWorkers
      BY <3>1, BuyerFacts DEF StartWorkers
    <3>2. ASSUME NEW w \in Worker, SendJob(w)
          PROVE  \A v \in Buyer : fWorker'[v].pc \in {"run", "sleep"} => fWorker'[v] = fWorker[v]
      <4> DEFINE rec == [Free EXCEPT !.pc = "preflight", !.chunk = fNext]
      <4>1. rec.pc = "preflight" /\ fWorker' = [fWorker EXCEPT ![w] = rec]
        BY <3>2, BuyerFacts DEF SendJob, BuyerRec
      <4> QED  BY <1>0, <4>1, BuyerFacts
    <3>3. CASE AfterWorkers
      <4> DEFINE rec == [Free EXCEPT !.pc = "preflight"]
      <4>1. rec.pc = "preflight" /\ (UNCHANGED fWorker \/ fWorker' = [fWorker EXCEPT ![Assembly] = rec])
        BY <3>3, BuyerFacts DEF AfterWorkers, BuyerRec
      <4> QED  BY <1>0, <4>1, BuyerFacts
    <3> QED  BY <1>5, <3>1, <3>2, <3>3
             DEF Coordinate, ReadStamp, RemoveStale, WriteStamp, SkipComplete, CloseJobs, AfterAssembly
  <2> QED  BY <1>1, <1>2, <2>1, <2>2
<1>6. CASE Dispatch \/ FPCrash
  <2>1. fWorker' = [w \in Buyer |-> Free] /\ (fOthers' = fOthers \/ fOthers' = 0)
    BY <1>6 DEF Dispatch, FPCrash
  <2>2. fOthers' \in Nat /\ fOthers' <= fOthers
    BY <1>0, <2>1
  <2>3. \A w \in Buyer : fWorker'[w].pc \notin {"run", "sleep"}
    BY <2>1, BuyerFacts
  <2> QED  BY <1>2, <2>2, <2>3
<1>7. CASE CancelStage \/ NewLayout \/ OthersReturn \/ UNCHANGED fVars
  BY <1>0, <1>1, <1>7 DEF CancelStage, NewLayout, OthersReturn, fVars
<1> QED  BY <1>3, <1>4, <1>5, <1>6, <1>7 DEF FPNext

(* The workers of the pass and the other books' calls never hold more than *)
(* agentSlots between them, and no worker outlives the stage (wg.Wait).    *)
THEOREM SlotsNeverExceeded == FPSpec => []FPTypeOK
<1>1. FPInit => LayoutInv /\ SlotsKept
  <2>1. FPInit => LayoutInv
    BY LayoutInvStarts
  <2>2. ASSUME FPInit PROVE SlotsKept
    <3>1. Holding = {} /\ fOthers = 0
      BY <2>2, BuyerFacts DEF FPInit, Holding
    <3> QED  BY <3>1, FS_EmptySet DEF SlotsKept
  <2> QED  BY <2>1, <2>2
<1>2. LayoutInv /\ SlotsKept /\ [FPNext]_fVars => (LayoutInv /\ SlotsKept)'
  BY LayoutInvKept, SlotsKeptKept
<1>3. LayoutInv /\ SlotsKept => FPTypeOK
  BY QuietIsNotBusy, BuyerFacts DEF LayoutInv, Typed, AtWork, SlotsKept, FPTypeOK, Layout
<1> QED  BY <1>1, <1>2, <1>3, PTL DEF FPSpec

-----------------------------------------------------------------------------
(* The budget.                                                             *)

LEMMA Attempts == AttemptsOfOne \in Nat \ {0} /\ FPWorkers * AttemptsOfOne \in Nat
  BY DEF AttemptsOfOne

LEMMA TriesOfType ==
    ASSUME Typed, NEW w \in Buyer
    PROVE  /\ \A k \in Fault : fWorker[w].tries[k] \in Nat
           /\ TriesOf(w) \in Nat
<1>1. fWorker[w].tries \in [Fault -> Nat]
  BY DEF Typed, BuyerRec
<1> QED  BY <1>1 DEF TriesOf

LEMMA OwedFinite ==
    /\ IsFiniteSet(Worker \X (1..AttemptsOfOne))
    /\ Cardinality(Worker \X (1..AttemptsOfOne)) = FPWorkers * AttemptsOfOne
    /\ IsFiniteSet({Assembly} \X (1..AttemptsOfOne))
    /\ Cardinality({Assembly} \X (1..AttemptsOfOne)) = AttemptsOfOne
    /\ IsFiniteSet(Buyer \X (1..AttemptsOfOne))
<1>1. IsFiniteSet(1..AttemptsOfOne) /\ Cardinality(1..AttemptsOfOne) = AttemptsOfOne
  <2>1. 1 \in Int /\ AttemptsOfOne \in Int /\ ~(1 > AttemptsOfOne) /\ AttemptsOfOne - 1 + 1 = AttemptsOfOne
    BY Attempts
  <2> QED  BY <2>1, FS_Interval
<1>2. IsFiniteSet(Worker) /\ Cardinality(Worker) = FPWorkers
  <2>1. 1 \in Int /\ FPWorkers \in Int /\ ~(1 > FPWorkers) /\ FPWorkers - 1 + 1 = FPWorkers
    BY FPConstants
  <2> QED  BY <2>1, FS_Interval DEF Worker
<1>3. IsFiniteSet({Assembly}) /\ Cardinality({Assembly}) = 1
  BY FS_Singleton
<1>4. 1 * AttemptsOfOne = AttemptsOfOne
  BY Attempts
<1>5. /\ IsFiniteSet(Worker \X (1..AttemptsOfOne))
      /\ Cardinality(Worker \X (1..AttemptsOfOne)) = FPWorkers * AttemptsOfOne
  BY <1>1, <1>2, FS_Product
<1>6. /\ IsFiniteSet({Assembly} \X (1..AttemptsOfOne))
      /\ Cardinality({Assembly} \X (1..AttemptsOfOne)) = AttemptsOfOne
  <2>1. /\ IsFiniteSet({Assembly} \X (1..AttemptsOfOne))
        /\ Cardinality({Assembly} \X (1..AttemptsOfOne)) = Cardinality({Assembly}) * Cardinality(1..AttemptsOfOne)
    BY <1>1, <1>3, FS_Product
  <2> QED  BY <1>1, <1>3, <1>4, <2>1
<1>7. IsFiniteSet(Buyer \X (1..AttemptsOfOne))
  BY <1>1, BuyersFinite, FS_Product
<1> QED  BY <1>5, <1>6, <1>7

LEMMA OwedCounts ==
    /\ IsFiniteSet(Owed) /\ Cardinality(Owed) \in Nat
    /\ \A S \in SUBSET Owed : IsFiniteSet(S) /\ Cardinality(S) \in Nat /\ Cardinality(S) <= Cardinality(Owed)
<1>1. Owed \in SUBSET (Buyer \X (1..AttemptsOfOne))
  BY DEF Owed
<1>2. IsFiniteSet(Owed)
  BY <1>1, OwedFinite, FS_Subset
<1> QED  BY <1>2, FS_Subset, FS_CardinalityType

(* No purchase begins and none loses an attempt: nothing more is owed.     *)
LEMMA NoMoreOwed ==
    ASSUME Typed, SpentAndOwed, fSpent' = fSpent, fLeft'.budget = fLeft.budget,
           \A v \in Buyer : Begun(v)' => Begun(v) /\ TriesOf(v)' = TriesOf(v)
    PROVE  SpentAndOwed'
<1>1. Owed' \in SUBSET Owed
  BY DEF Owed
<1>2. Cardinality(Owed') \in Nat /\ Cardinality(Owed') <= Cardinality(Owed)
  BY <1>1, OwedCounts
<1>3. Cardinality(Owed)' = Cardinality(Owed')
  OBVIOUS
<1>4. fLeft.budget \in Nat /\ fSpent \in Nat
  BY DEF Typed
<1> QED  BY <1>2, <1>3, <1>4, OwedCounts, Attempts DEF SpentAndOwed

(* A purchase begins within the budget: with its own, the other begun ones *)
(* are the workers', or it is the assembly's alone.                        *)
LEMMA BeginsWithinBudget ==
    ASSUME Typed, AtWork, AtWork', UNCHANGED <<fPc, fSpent, fLeft>>, WithinBudget, 
           NEW w \in Buyer, Busy(w)
    PROVE  SpentAndOwed'
<1>1. \A v \in Buyer : Begun(v)' => Busy(v)'
  BY DEF Begun, Busy
<1>2. Owed' \subseteq Worker \X (1..AttemptsOfOne) \/ Owed' \subseteq {Assembly} \X (1..AttemptsOfOne)
  <2>1. (\A v \in Buyer : Busy(v)' => v \in Worker) \/ (\A v \in Buyer : Busy(v)' => v = Assembly)
    BY BuyerFacts DEF AtWork
  <2>2. Owed' = {t \in Buyer \X (1..AttemptsOfOne) : Begun(t[1])' /\ t[2] + TriesOf(t[1])' <= AttemptsOfOne}
    BY DEF Owed
  <2> QED  BY <1>1, <2>1, <2>2
<1>3. Cardinality(Owed') \in Nat /\ Cardinality(Owed') <= FPWorkers * AttemptsOfOne
  <2>1. AttemptsOfOne <= FPWorkers * AttemptsOfOne
    BY Attempts, FPConstants
  <2>2. CASE Owed' \subseteq Worker \X (1..AttemptsOfOne)
    <3>1. Owed' \in SUBSET (Worker \X (1..AttemptsOfOne))
      BY <2>2
    <3> QED  BY <3>1, OwedFinite, FS_Subset, FS_CardinalityType
  <2>3. CASE Owed' \subseteq {Assembly} \X (1..AttemptsOfOne)
    <3>1. Owed' \in SUBSET ({Assembly} \X (1..AttemptsOfOne))
      BY <2>3
    <3>2. Cardinality(Owed') \in Nat /\ Cardinality(Owed') <= AttemptsOfOne
      BY <3>1, OwedFinite, FS_Subset, FS_CardinalityType
    <3> QED  BY <2>1, <3>2, Attempts
  <2> QED  BY <1>2, <2>2, <2>3
<1>4. Cardinality(Owed)' = Cardinality(Owed')
  OBVIOUS
<1>5. fLeft.budget \in Nat /\ fSpent \in Nat
  BY DEF Typed
<1>6. fLeft.budget > 0 => fSpent <= fLeft.budget - 1
  BY <1>5 DEF WithinBudget
<1> QED  BY <1>3, <1>4, <1>5, <1>6, Attempts DEF SpentAndOwed

(* An attempt is charged, and owed no longer.                              *)
LEMMA AttemptIsOwed ==
    ASSUME LayoutInv, BudgetInv, NEW w \in Buyer, Attempt(w)
    PROVE  BudgetInv'
<1>1. Typed /\ TriesBounded /\ SpentAndOwed /\ fWorker \in [Buyer -> BuyerRec] /\ Begun(w)
  BY DEF LayoutInv, BudgetInv, Typed, Attempt, Begun
<1>2. fSpent' = fSpent + 1 /\ fLeft'.budget = fLeft.budget /\ fLeft.budget \in Nat /\ fSpent \in Nat
  BY <1>1, FaultSpent DEF Attempt, Charged, Typed
<1>3. \A v \in Buyer \ {w} : fWorker'[v] = fWorker[v]
  BY PurchaseMoves DEF GoesOn, GivesUp
<1>4. /\ \A k \in Fault : fWorker'[w].tries[k] <= FPRetries[k]
      /\ Begun(w)' => TriesOf(w)' = TriesOf(w) + 1
  <2>1. CASE Step(w, "harvest")
    <3>1. fWorker'[w] = [fWorker[w] EXCEPT !.pc = "harvest"] /\ fWorker[w] \in BuyerRec
      BY <1>1, <2>1, StepType DEF BuyerPc
    <3>2. fWorker'[w].pc = "harvest" /\ fWorker'[w].tries = fWorker[w].tries
      BY <3>1 DEF BuyerRec
    <3> QED  BY <1>1, <3>2 DEF TriesBounded, Begun
  <2>2. CASE \E code : Fails(w, code)
    <3>1. fWorker'[w] = Free
      BY <1>1, <2>2 DEF Fails
    <3>2. Free.pc = "free" /\ \A k \in Fault : Free.tries[k] = 0
      BY DEF Free
    <3> QED  BY <3>1, <3>2, FPConstants DEF Begun
  <2>3. ASSUME NEW k \in Fault, Tried(w, k),
               fWorker' = [fWorker EXCEPT ![w].tries[k] = @ + 1,
                                          ![w].pc = IF k = "invalid" THEN "run" ELSE "sleep"]
        PROVE  /\ \A j \in Fault : fWorker'[w].tries[j] <= FPRetries[j]
               /\ TriesOf(w)' = TriesOf(w) + 1
    <3>1. fWorker[w] \in BuyerRec /\ fWorker[w].tries \in [Fault -> Nat]
      BY <1>1 DEF BuyerRec
    <3>2. fWorker'[w].tries = [fWorker[w].tries EXCEPT ![k] = @ + 1]
      BY <1>1, <2>3, <3>1 DEF BuyerRec
    <3>3. \A j \in Fault : fWorker'[w].tries[j] = fWorker[w].tries[j] + (IF j = k THEN 1 ELSE 0)
      BY <3>1, <3>2
    <3>4. \A j \in Fault : fWorker[w].tries[j] <= FPRetries[j] /\ fWorker[w].tries[j] \in Nat /\ FPRetries[j] \in Nat
      BY <1>1, <3>1, FPConstants DEF TriesBounded
    <3>5. \A j \in Fault : fWorker'[w].tries[j] <= FPRetries[j]
      BY <2>3, <3>3, <3>4 DEF Tried
    <3>6. TriesOf(w)' = TriesOf(w) + 1
      <4>1. k = "invalid" \/ k = "rate" \/ k = "gone"
        BY DEF Fault
      <4> QED  BY <3>3, <3>4, <4>1 DEF TriesOf, Fault
    <3> QED  BY <3>5, <3>6
  <2> QED  BY <2>1, <2>2, <2>3 DEF Attempt
<1>5. TriesBounded'
  BY <1>1, <1>3, <1>4 DEF TriesBounded
<1> DEFINE token == <<w, AttemptsOfOne - TriesOf(w)>>
<1>6. token \in Owed
  <2>1. TriesOf(w) \in Nat /\ TriesOf(w) <= AttemptsOfOne - 1
    <3>1. \A k \in Fault : fWorker[w].tries[k] <= FPRetries[k] /\ fWorker[w].tries[k] \in Nat /\ FPRetries[k] \in Nat
      BY <1>1, TriesOfType, FPConstants DEF TriesBounded
    <3> QED  BY <3>1 DEF TriesOf, AttemptsOfOne, Fault
  <2>2. AttemptsOfOne - TriesOf(w) \in 1..AttemptsOfOne
    BY <2>1, Attempts
  <2>3. (AttemptsOfOne - TriesOf(w)) + TriesOf(w) <= AttemptsOfOne
    BY <2>1, Attempts
  <2> QED  BY <1>1, <2>2, <2>3 DEF Owed
<1>7. Owed' \subseteq Owed \ {token}
  <2>1. ASSUME NEW v \in Buyer, NEW n \in 1..AttemptsOfOne, Begun(v)', n + TriesOf(v)' <= AttemptsOfOne
        PROVE  Begun(v) /\ n + TriesOf(v) <= AttemptsOfOne /\ <<v, n>> # token
    <3>1. CASE v = w
      <4>1. TriesOf(w)' = TriesOf(w) + 1 /\ TriesOf(w) \in Nat
        BY <1>1, <1>4, <2>1, <3>1, TriesOfType
      <4>2. n + TriesOf(w) <= AttemptsOfOne /\ n # AttemptsOfOne - TriesOf(w)
        BY <2>1, <3>1, <4>1, Attempts
      <4> QED  BY <1>1, <3>1, <4>2
    <3>2. CASE v # w
      BY <1>3, <2>1, <3>2 DEF Begun, TriesOf
    <3> QED  BY <3>1, <3>2
  <2>2. Owed' = {t \in Buyer \X (1..AttemptsOfOne) : Begun(t[1])' /\ t[2] + TriesOf(t[1])' <= AttemptsOfOne}
    BY DEF Owed
  <2> HIDE DEF token
  <2> QED  BY <2>1, <2>2 DEF Owed
<1>8. Cardinality(Owed') \in Nat /\ Cardinality(Owed') <= Cardinality(Owed) - 1
  <2>1. IsFiniteSet(Owed \ {token}) /\ Cardinality(Owed \ {token}) = Cardinality(Owed) - 1
    BY <1>6, OwedCounts, FS_RemoveElement
  <2>2. Owed' \in SUBSET (Owed \ {token})
    BY <1>7
  <2> QED  BY <2>1, <2>2, FS_Subset, FS_CardinalityType
<1>9. SpentAndOwed'
  <2>1. Cardinality(Owed)' = Cardinality(Owed')
    OBVIOUS
  <2> QED  BY <1>1, <1>2, <1>8, <2>1, OwedCounts, Attempts DEF SpentAndOwed
<1> QED  BY <1>5, <1>9 DEF BudgetInv

(* A buyer that steps on keeps its tries; one that is free has none.       *)
LEMMA TriesKept ==
    ASSUME Typed, TriesBounded,
           \A v \in Buyer : \/ fWorker'[v].tries = fWorker[v].tries
                            \/ \A k \in Fault : fWorker'[v].tries[k] = 0
    PROVE  TriesBounded'
  BY FPConstants DEF TriesBounded

LEMMA NoTries == \A k \in Fault : Free.tries[k] = 0 /\ Absent.tries[k] = 0
  BY DEF Free, Absent

LEMMA PurchaseKeepsBudget ==
    ASSUME LayoutInv, BudgetInv, NEW w \in Buyer, Purchase(w)
    PROVE  BudgetInv'
<1>0. Typed /\ AtWork /\ TriesBounded /\ SpentAndOwed /\ fWorker \in [Buyer -> BuyerRec] /\ fWorker[w] \in BuyerRec
  BY DEF LayoutInv, BudgetInv, Typed
<1>1. ASSUME NEW pc \in BuyerPc, Step(w, pc)
      PROVE  /\ TriesBounded'
             /\ \A v \in Buyer : TriesOf(v)' = TriesOf(v)
             /\ \A v \in Buyer \ {w} : Begun(v)' => Begun(v)
  <2>1. fWorker'[w] = [fWorker[w] EXCEPT !.pc = pc] /\ \A v \in Buyer \ {w} : fWorker'[v] = fWorker[v]
    BY <1>0, <1>1, StepType
  <2>2. \A v \in Buyer : fWorker'[v].tries = fWorker[v].tries
    BY <1>0, <2>1 DEF BuyerRec
  <2> QED  BY <1>0, <2>1, <2>2, TriesKept DEF TriesOf, Begun
<1>2. ASSUME fWorker' = [fWorker EXCEPT ![w] = Free]
      PROVE  TriesBounded' /\ \A v \in Buyer : Begun(v)' => Begun(v) /\ TriesOf(v)' = TriesOf(v)
  <2>1. fWorker'[w] = Free /\ \A v \in Buyer \ {w} : fWorker'[v] = fWorker[v]
    BY <1>0, <1>2, BuyerFacts
  <2> QED  BY <1>0, <2>1, NoTries, BuyerFacts, TriesKept DEF Begun, TriesOf
<1>3. CASE Preflight(w)
  <2>1. fSpent' = fSpent /\ fLeft'.budget = fLeft.budget /\ fPc' = fPc /\ Busy(w)
    BY <1>0, <1>3, FaultSpent DEF Preflight, Money, Stage, Busy
  <2>2. CASE Step(w, "slot") /\ WithinBudget /\ UNCHANGED fLeft
    <3>1. AtWork'
      BY <1>3, PurchaseKeepsLayout DEF LayoutInv
    <3> QED  BY <1>0, <1>1, <2>1, <2>2, <3>1, BeginsWithinBudget DEF BudgetInv, BuyerPc
  <2>3. CASE \E code : Fails(w, code)
    BY <1>0, <1>2, <2>1, <2>3, NoMoreOwed DEF Fails, BudgetInv
  <2> QED  BY <1>3, <2>2, <2>3 DEF Preflight
<1>4. CASE AcquireSlot(w) \/ Wake(w)
  <2>1. fSpent' = fSpent /\ UNCHANGED fLeft /\ Begun(w)
    BY <1>4 DEF AcquireSlot, Wake, Money, Begun
  <2>2. CASE Step(w, "run")
    BY <1>0, <1>1, <2>1, <2>2, NoMoreOwed DEF BudgetInv, BuyerPc
  <2>3. CASE \E code : Fails(w, code)
    BY <1>0, <1>2, <2>1, <2>3, NoMoreOwed DEF Fails, BudgetInv
  <2> QED  BY <1>4, <2>2, <2>3 DEF AcquireSlot, Wake
<1>5. CASE Harvest(w)
  BY <1>0, <1>2, <1>5, NoMoreOwed DEF Harvest, Money, BudgetInv
<1> QED  BY <1>3, <1>4, <1>5, AttemptIsOwed DEF Purchase

LEMMA BudgetInvKept == ASSUME LayoutInv, BudgetInv, [FPNext]_fVars PROVE BudgetInv'
<1>0. Typed /\ TriesBounded /\ SpentAndOwed /\ fWorker \in [Buyer -> BuyerRec]
  BY DEF LayoutInv, BudgetInv, Typed
<1>1. ASSUME NEW w \in Buyer, Purchase(w) PROVE BudgetInv'
  BY <1>1, PurchaseKeepsBudget
<1>2. ASSUME fSpent' = fSpent, fLeft'.budget = fLeft.budget,
             \A v \in Buyer : fWorker'[v] = fWorker[v]
                              \/ (~Begun(v)' /\ \A k \in Fault : fWorker'[v].tries[k] = 0)
      PROVE  BudgetInv'
  <2>1. TriesBounded'
    BY <1>0, <1>2, TriesKept
  <2>2. \A v \in Buyer : Begun(v)' => Begun(v) /\ TriesOf(v)' = TriesOf(v)
    BY <1>2 DEF Begun, TriesOf
  <2> QED  BY <1>0, <1>2, <2>1, <2>2, NoMoreOwed DEF BudgetInv
<1>3. fLeft'.budget = fLeft.budget \/ \E w \in Buyer : Purchase(w)
  <2>1. fLeft \in [budget : Nat, runs : Nat, faults : Nat, layouts : Nat]
    BY <1>0 DEF Typed
  <2>2. Coordinate => UNCHANGED fLeft
    BY Zenon DEF Coordinate, ReadStamp, RemoveStale, WriteStamp, StartWorkers, SkipComplete,
                 SendJob, CloseJobs, AfterWorkers, AfterAssembly, Buying
  <2> QED  BY <2>1, <2>2 DEF FPNext, Dispatch, CancelStage, FPCrash, NewLayout, OthersTake, OthersReturn, fVars
<1>4. fSpent' = fSpent \/ \E w \in Buyer : Purchase(w)
  <2>1. Coordinate => UNCHANGED Money
    BY Zenon DEF Coordinate, ReadStamp, RemoveStale, WriteStamp, StartWorkers, SkipComplete,
                 SendJob, CloseJobs, AfterWorkers, AfterAssembly, Buying
  <2> QED  BY <2>1 DEF FPNext, Dispatch, CancelStage, FPCrash, NewLayout, OthersTake, OthersReturn, fVars, Money
<1>5. \/ \E w \in Buyer : Purchase(w)
      \/ \A v \in Buyer : fWorker'[v] = fWorker[v]
                           \/ (~Begun(v)' /\ \A k \in Fault : fWorker'[v].tries[k] = 0)
  <2> DEFINE Settled == \A v \in Buyer : fWorker'[v] = fWorker[v]
                                         \/ (~Begun(v)' /\ \A k \in Fault : fWorker'[v].tries[k] = 0)
  <2>1. CASE StartWorkers \/ Dispatch \/ FPCrash
    <3>1. \A v \in Buyer : fWorker'[v] = Free \/ fWorker'[v] = Absent
      BY <2>1 DEF StartWorkers, Dispatch, FPCrash
    <3> QED  BY <3>1, NoTries, BuyerFacts DEF Begun
  <2>2. ASSUME NEW w \in Worker, SendJob(w) PROVE Settled
    <3> DEFINE rec == [Free EXCEPT !.pc = "preflight", !.chunk = fNext]
    <3>1. rec.pc = "preflight" /\ rec.tries = Free.tries /\ fWorker' = [fWorker EXCEPT ![w] = rec]
      BY <2>2, BuyerFacts DEF SendJob, BuyerRec
    <3> QED  BY <1>0, <3>1, NoTries, BuyerFacts DEF Begun
  <2>3. CASE AfterWorkers
    <3> DEFINE rec == [Free EXCEPT !.pc = "preflight"]
    <3>1. /\ rec.pc = "preflight" /\ rec.tries = Free.tries
          /\ UNCHANGED fWorker \/ fWorker' = [fWorker EXCEPT ![Assembly] = rec]
      BY <2>3, BuyerFacts DEF AfterWorkers, BuyerRec
    <3> QED  BY <1>0, <3>1, NoTries, BuyerFacts DEF Begun
  <2>4. CASE UNCHANGED fWorker
    BY <2>4
  <2> QED  BY <2>1, <2>2, <2>3, <2>4
           DEF FPNext, Coordinate, ReadStamp, RemoveStale, WriteStamp, SkipComplete, CloseJobs, AfterAssembly,
               CancelStage, NewLayout, OthersTake, OthersReturn, fVars
<1> QED  BY <1>1, <1>2, <1>3, <1>4, <1>5

LEMMA BudgetInvStarts == ASSUME FPInit PROVE BudgetInv
<1>1. fWorker = [w \in Buyer |-> Free] /\ fSpent = 0 /\ fLeft.budget \in Nat
  BY FPConstants DEF FPInit
<1>2. TriesBounded
  BY <1>1, NoTries, FPConstants DEF TriesBounded
<1>3. Owed = {}
  BY <1>1, BuyerFacts DEF Owed, Begun
<1>4. Cardinality(Owed) = 0
  BY <1>3, FS_EmptySet
<1>5. SpentAndOwed
  BY <1>1, <1>4, Attempts DEF SpentAndOwed
<1> QED  BY <1>2, <1>5 DEF BudgetInv

(* The recorded cost of a book passes its budget by no more than one       *)
(* purchase of each worker, repeats included, begun while it was below     *)
(* (checkBudget before runAgent), whatever the repeats and the faults.     *)
THEOREM BudgetOvershootBounded == FPSpec => []OvershootBounded
<1>1. FPInit => LayoutInv /\ BudgetInv
  BY LayoutInvStarts, BudgetInvStarts
<1>2. LayoutInv /\ BudgetInv /\ [FPNext]_fVars => (LayoutInv /\ BudgetInv)'
  BY LayoutInvKept, BudgetInvKept
<1>3. ASSUME LayoutInv, BudgetInv PROVE OvershootBounded
  <2>1. fSpent \in Nat /\ fLeft \in [budget : Nat, runs : Nat, faults : Nat, layouts : Nat]
    BY <1>3 DEF LayoutInv, Typed
  <2>2. fLeft.budget \in Nat /\ Cardinality(Owed) \in Nat
    BY <2>1, OwedCounts
  <2> QED  BY <1>3, <2>1, <2>2, Attempts DEF BudgetInv, SpentAndOwed, OvershootBounded
<1> QED  BY <1>1, <1>2, <1>3, PTL DEF FPSpec
=============================================================================
