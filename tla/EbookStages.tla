----------------------------- MODULE EbookStages -----------------------------
(***************************************************************************)
(* The ebook half of one book: extracting (internal/pipeline/              *)
(* extract_stage.go), chapter_mapping (chaptermap_stage.go), the chapter   *)
(* universe they derive (internal/ebook/chapters.go) and the chunk plan    *)
(* (chunkplan.go), with crashes, a newer label vocabulary after a restart, *)
(* a replaced epub, a purge step by step and a stage rerun.                *)
(*                                                                         *)
(* A section of an epub is [label, num, spine, words]: what its toc label  *)
(* is, the number it states, the spine document it was cut from.           *)
(***************************************************************************)
EXTENDS Integers, FiniteSets, Sequences
LOCAL INSTANCE SequencesExt
LOCAL INSTANCE FiniteSetsExt

CONSTANTS
    EbMinChapters,   \* minChapters
    EbOutlier,       \* ordinalOutlierRatio
    EbBudget,        \* chunkWordBudget
    EbMinFinal,      \* chunkMinFinalWords
    EbCases          \* [epub, other, answers, left]: what is extracted, what an
                     \*   epub is replaced by, the agent's maps, the bounds

(* "none": no toc entry; "dialect": a number only a newer parser reads;    *)
(* "apparatus": a name of front or back matter.                            *)
EbLabel == {"none", "strict", "loose", "dialect", "title", "apparatus"}
EbFault == {"crashes", "reruns", "replaces", "purges", "parks"}

ASSUME EbAssumption ==
    /\ {EbMinChapters, EbOutlier, EbBudget, EbMinFinal} \subseteq Nat \ {0}
    /\ \A c \in EbCases :
        /\ c.left \in [EbFault -> Nat]
        /\ {c.epub, c.other} \subseteq Seq([label : EbLabel, num : Nat, spine : Nat, words : Nat])

VARIABLES
    eBook,   \* [stage, pc, sentinel, done]
    eDisk,   \* [split, universe, text, manifest, plan]: the work dir
    eLocal,  \* [universe, then, mapped]: of the running stage
    eWorld   \* [case, epub, parser, left, purge, park, cut]: purge is its next
             \*   step, park the status it has read; cut: one ended half-way

eVars == <<eBook, eDisk, eLocal, eWorld>>

EbOrder == [extracting |-> 1, mapping |-> 2, tail |-> 3]
EbStages == {"extracting", "mapping"}
EbFrom(s) == {t \in EbStages : EbOrder[t] >= EbOrder[s]}
EbPurgeStep == {"none", "split", "text", "extracting", "mapping", "reconcile"}

NoUniverse == [docs |-> <<>>, contiguous |-> FALSE]
EbIdle     == [universe |-> NoUniverse, then |-> "sentinel", mapped |-> FALSE]

-----------------------------------------------------------------------------
(* BuildUniverse: what the labels state, whether it is trusted as a whole, *)
(* the edges quarantined, the rest numbered or folded into a number.       *)

Reads(s, parser) == s.label \in {"strict", "loose"} \/ (s.label = "dialect" /\ parser = "new")

Doc(s, num, by) == [label |-> s.label, spine |-> s.spine, words |-> s.words, stated |-> s.num,
                    num |-> num, by |-> by, out |-> FALSE]
Labeled(d) == d.label # "none"

Stated(secs, parser) ==
    [i \in DOMAIN secs |->
        IF ~Reads(secs[i], parser) THEN Doc(secs[i], 0, "")
        ELSE Doc(secs[i], secs[i].num, IF secs[i].label = "loose" THEN "loose" ELSE "strict")]

Nums(docs, by) == [i \in DOMAIN SelectSeq(docs, LAMBDA d : d.by \in by) |->
                      SelectSeq(docs, LAMBDA d : d.by \in by)[i].num]

(* extract.Contiguous: a run from 0 or 1, long enough to be one. *)
RunOfNumbers(nums) ==
    /\ Len(nums) >= EbMinChapters /\ nums[1] \in {0, 1}
    /\ \A i \in DOMAIN nums : nums[i] = nums[1] + i - 1

(* Loose readings count when they extend the run and all of it agrees.     *)
TrustedLoose(docs) ==
    /\ RunOfNumbers(Nums(docs, {"strict", "loose"}))
    /\ Len(Nums(docs, {"strict", "loose"})) > Len(Nums(docs, {"strict"}))

DropLoose(docs) ==
    [i \in DOMAIN docs |-> IF docs[i].by = "loose" THEN [docs[i] EXCEPT !.num = 0, !.by = ""] ELSE docs[i]]

ShiftZeroBased(docs) ==
    IF \E i \in DOMAIN docs : docs[i].by # "" /\ docs[i].num = 0
    THEN [i \in DOMAIN docs |-> IF docs[i].by = "" THEN docs[i] ELSE [docs[i] EXCEPT !.num = @ + 1]]
    ELSE docs

Numbered(docs) == {i \in DOMAIN docs : docs[i].num > 0}

(* The numbered sections and the unlabelled rest of the last one's spine   *)
(* document; without numbers, all but the apparatus at the edges.          *)
StorySpan(docs) ==
    LET rest(j) == \A i \in (Max(Numbered(docs)) + 1)..j :
                      /\ docs[i].num = 0 /\ ~Labeled(docs[i])
                      /\ docs[i].spine = docs[i - 1].spine
    IN  Min(Numbered(docs))..Max({j \in Max(Numbered(docs))..Len(docs) : rest(j)})

TitledStorySpan(docs) ==
    LET story == {i \in DOMAIN docs : docs[i].label \notin {"none", "apparatus"}}
    IN  IF story = {} THEN {} ELSE Min(story)..Max(story)

QuarantineEdges(docs, span) ==
    [i \in DOMAIN docs |-> IF i \in span THEN docs[i]
                           ELSE [docs[i] EXCEPT !.num = 0, !.by = "", !.out = TRUE]]

AssignOrdinals(docs, span) ==
    [i \in DOMAIN docs |->
        IF i \in span /\ Labeled(docs[i])
        THEN [docs[i] EXCEPT !.num = Cardinality({j \in span : j <= i /\ Labeled(docs[j])}), !.by = "ordinal"]
        ELSE docs[i]]

(* An interlude belongs to the chapter it precedes, an unlabelled section  *)
(* to the one it continues.                                                *)
FoldForward(docs, span) ==
    LET after(i) == {j \in span : j > i /\ docs[j].num > 0}
    IN  [i \in DOMAIN docs |->
            IF i \in span /\ docs[i].num = 0 /\ Labeled(docs[i]) /\ after(i) # {}
            THEN [docs[i] EXCEPT !.num = docs[Min(after(i))].num, !.by = "interstitial"] ELSE docs[i]]

FoldBack(docs, span) ==
    LET before(i) == {j \in span : j < i /\ docs[j].num > 0}
    IN  [i \in DOMAIN docs |->
            IF i \in span /\ docs[i].num = 0 /\ before(i) # {}
            THEN [docs[i] EXCEPT !.num = docs[Max(before(i))].num, !.by = "continuation"] ELSE docs[i]]


FoldContinuations(docs, span) == FoldBack(FoldForward(docs, span), span)

(* CollectChapters: the numbers in order, each with its sections.          *)
ChapterNums(docs) == SetToSortSeq({docs[i].num : i \in Numbered(docs)}, <)
SectionsOf(docs, num) == {i \in DOMAIN docs : docs[i].num = num /\ ~docs[i].out}
WordsOf(docs, num) == FoldLeft(LAMBDA sum, i : sum + docs[i].words, 0, SetToSeq(SectionsOf(docs, num)))

(* ordinalSizeOutlier, against the upper median. *)
SizeOutlier(docs) ==
    LET chs    == ChapterNums(docs)
        sizes  == SortSeq([i \in DOMAIN chs |-> WordsOf(docs, chs[i])], <)
        median == sizes[(Len(sizes) \div 2) + 1]
    IN  \E i \in DOMAIN chs : WordsOf(docs, chs[i]) * EbOutlier < median

BuildUniverse(secs, parser) ==
    LET read     == Stated(secs, parser)
        loose    == TrustedLoose(read)
        strict   == RunOfNumbers(Nums(read, {"strict"}))
        kept     == IF loose THEN read ELSE DropLoose(read)
        docs     == IF loose \/ strict THEN ShiftZeroBased(kept) ELSE kept
        numbered == Numbered(docs) # {}
        span     == IF numbered THEN StorySpan(docs) ELSE TitledStorySpan(docs)
        edged    == QuarantineEdges(docs, span)
        final    == FoldContinuations(IF numbered THEN edged ELSE AssignOrdinals(edged, span), span)
    IN  [docs |-> final,
         contiguous |-> /\ Len(ChapterNums(final)) >= EbMinChapters
                        /\ IF numbered THEN loose \/ strict ELSE ~SizeOutlier(final)]

(* planChunks: a chunk closes when its words reach the budget; a last one  *)
(* that stayed too small joins the one before.                             *)
PlanChunks(docs) ==
    LET Take(acc, num) ==
            LET words == acc.words + WordsOf(docs, num)
                from  == IF acc.from = 0 THEN num ELSE acc.from
            IN  IF words >= EbBudget
                THEN [chunks |-> Append(acc.chunks, [from |-> from, to |-> num, words |-> words]),
                      from |-> 0, words |-> 0]
                ELSE [acc EXCEPT !.from = from, !.words = words]
        walk == FoldLeft(Take, [chunks |-> <<>>, from |-> 0, words |-> 0], ChapterNums(docs))
        all  == IF walk.from = 0 THEN walk.chunks
                ELSE Append(walk.chunks, [from |-> walk.from, to |-> Last(ChapterNums(docs)),
                                          words |-> walk.words])
        n    == Len(all)
    IN  IF n > 1 /\ all[n].words < EbMinFinal
        THEN [i \in 1..(n - 1) |-> [from |-> all[i].from, to |-> IF i = n - 1 THEN all[n].to ELSE all[i].to]]
        ELSE [i \in 1..n |-> [from |-> all[i].from, to |-> all[i].to]]

-----------------------------------------------------------------------------
(* The stages.                                                             *)

EbIn(stage, pc) == eBook.stage = stage /\ eBook.pc = pc
EbGo(pc)        == eBook' = [eBook EXCEPT !.pc = pc]
EbPark(code)    == EbGo(code) /\ eLocal' = EbIdle
EbParks         == {"ebook_unreadable", "ebook_no_chapters", "ebook_chapters_not_confident", "failed", "tail_park"}
EbSpend(kind)   == eWorld.left[kind] > 0 /\ eWorld' = [eWorld EXCEPT !.left[kind] = @ - 1]

(* A purge holds the slot of the book in the in-flight table. *)
Reserved == eWorld.purge # "none"

EbDispatch ==
    /\ eBook.pc = "idle" /\ eBook.stage \in EbStages /\ ~Reserved
    /\ IF eBook.sentinel[eBook.stage] = "none"
       THEN EbGo("work") /\ eLocal' = EbIdle
       ELSE EbGo("advance") /\ eLocal' = [EbIdle EXCEPT !.mapped = eBook.sentinel[eBook.stage] = "mapped"]
    /\ UNCHANGED <<eDisk, eWorld>>

EbSentinel ==
    /\ eBook.pc = "sentinel"
    /\ eBook' = [eBook EXCEPT !.pc = "advance",
                              !.sentinel[eBook.stage] = IF eLocal.mapped THEN "mapped" ELSE "written"]
    /\ UNCHANGED <<eDisk, eLocal, eWorld>>

EbAdvance ==
    /\ eBook.pc = "advance"
    /\ LET next == IF eBook.stage = "extracting" /\ ~eLocal.mapped THEN "mapping" ELSE "tail"
       IN  eBook' = [stage |-> next, pc |-> "idle", done |-> eBook.done \cup {eBook.stage},
                     sentinel |-> [s \in EbStages |-> IF s = next THEN "none" ELSE eBook.sentinel[s]]]
    /\ eLocal' = EbIdle /\ UNCHANGED <<eDisk, eWorld>>

(* extract.Split; a file that cannot be read parks the book. *)
SplitEpub ==
    /\ EbIn("extracting", "work")
    /\ \/ /\ eDisk' = [eDisk EXCEPT !.split = eWorld.epub] /\ EbGo("derive")
          /\ eWorld' = [eWorld EXCEPT !.cut = FALSE] /\ UNCHANGED eLocal
       \/ EbSpend("parks") /\ EbPark("ebook_unreadable") /\ UNCHANGED eDisk

(* The draft is recorded whatever it is; only a contiguous one is used. *)
DeriveUniverse ==
    LET u == BuildUniverse(eDisk.split, eWorld.parser)
    IN  /\ EbIn("extracting", "derive")
        /\ eDisk' = [eDisk EXCEPT !.universe = u]
        /\ IF ChapterNums(u.docs) = <<>> /\ Len(SelectSeq(u.docs, Labeled)) < 2
           THEN EbPark("ebook_no_chapters")
           ELSE /\ EbGo(IF u.contiguous THEN "wipe" ELSE "sentinel")
                /\ eLocal' = [EbIdle EXCEPT !.universe = IF u.contiguous THEN u ELSE NoUniverse,
                                            !.mapped = u.contiguous]
        /\ UNCHANGED eWorld

AgentMapped(u) == \E i \in DOMAIN u.docs : u.docs[i].by = "agent"

Materialize(u, then) == EbGo("wipe") /\ eLocal' = [EbIdle EXCEPT !.universe = u, !.then = then]

OwnSections(docs) ==
    [i \in DOMAIN docs |-> [label |-> docs[i].label, num |-> docs[i].stated,
                            spine |-> docs[i].spine, words |-> docs[i].words]]

(* A map harvested before a crash is used again; a draft is derived again  *)
(* from the recorded sections; only then an agent is asked.                *)
ResumeOrReparse ==
    LET draft   == eDisk.universe
        rebuilt == BuildUniverse(OwnSections(draft.docs), eWorld.parser)
    IN  /\ EbIn("mapping", "work")
        /\ IF draft.contiguous /\ AgentMapped(draft) THEN Materialize(draft, "sentinel")
           ELSE IF ~draft.contiguous /\ rebuilt.contiguous THEN Materialize(rebuilt, "record")
           ELSE EbGo("agent") /\ UNCHANGED eLocal
        /\ UNCHANGED <<eDisk, eWorld>>

(* validateChapterMap: numbers 1..N, every section in exactly one place.   *)
ValidChapterMap(map, docs) ==
    LET mapped == UNION {map.chapters[i].files : i \in DOMAIN map.chapters}
    IN  /\ Len(map.chapters) >= 2
        /\ \A i \in DOMAIN map.chapters : map.chapters[i].num > 0 /\ map.chapters[i].files # {}
        /\ {map.chapters[i].num : i \in DOMAIN map.chapters} = 1..Len(map.chapters)
        /\ \A i, j \in DOMAIN map.chapters : i # j => map.chapters[i].files \cap map.chapters[j].files = {}
        /\ mapped \cap map.quarantine = {}
        /\ mapped \cup map.quarantine = DOMAIN docs

ApplyChapterMap(draft, map) ==
    LET holds(i) == {k \in DOMAIN map.chapters : i \in map.chapters[k].files}
    IN  [docs |-> [i \in DOMAIN draft.docs |->
            IF holds(i) # {}
            THEN [draft.docs[i] EXCEPT !.num = map.chapters[Max(holds(i))].num, !.by = "agent", !.out = FALSE]
            ELSE [draft.docs[i] EXCEPT !.num = 0, !.by = "", !.out = TRUE]],
         contiguous |-> TRUE]

(* An invalid map is refused by the runner, which asks again or gives up.  *)
MapChapters ==
    /\ EbIn("mapping", "agent")
    /\ \/ \E map \in eWorld.case.answers :
            /\ ValidChapterMap(map, eDisk.universe.docs)
            /\ eLocal' = [EbIdle EXCEPT !.universe = ApplyChapterMap(eDisk.universe, map)]
            /\ EbGo("keep")
       \/ EbPark("ebook_chapters_not_confident")
       \/ EbPark("failed")
    /\ UNCHANGED <<eDisk, eWorld>>

KeepMap ==
    /\ EbIn("mapping", "keep")
    /\ eDisk' = [eDisk EXCEPT !.universe = eLocal.universe]
    /\ EbGo("wipe") /\ UNCHANGED <<eLocal, eWorld>>

RecordUniverse ==
    /\ EbIn("mapping", "record")
    /\ eDisk' = [eDisk EXCEPT !.universe = eLocal.universe]
    /\ EbGo("sentinel") /\ UNCHANGED <<eLocal, eWorld>>

(* materializeEbookChapters: the old text goes first, then the text of     *)
(* each chapter, the manifest, the chunk plan.                             *)
WipeText ==
    /\ eBook.pc = "wipe"
    /\ eDisk' = [eDisk EXCEPT !.text = {}]
    /\ EbGo("text") /\ UNCHANGED <<eLocal, eWorld>>

TextOf(u, split) ==
    {[num |-> u.docs[i].num, part |-> split[i]] : i \in Numbered(u.docs)}

(* A file of a chapter is replaced, the other files stay. *)
TextOver(old, new) == {t \in old : \A x \in new : x.num # t.num} \cup new

WriteText ==
    /\ eBook.pc = "text"
    /\ IF eDisk.split = <<>> THEN EbPark("failed") /\ UNCHANGED eDisk
       ELSE /\ eDisk' = [eDisk EXCEPT !.text = TextOver(@, TextOf(eLocal.universe, eDisk.split))]
            /\ EbGo("manifest") /\ UNCHANGED eLocal
    /\ UNCHANGED eWorld

WriteEbookManifest ==
    /\ eBook.pc = "manifest"
    /\ eDisk' = [eDisk EXCEPT !.manifest = ChapterNums(eLocal.universe.docs)]
    /\ EbGo("plan") /\ UNCHANGED <<eLocal, eWorld>>

WriteEbookPlan ==
    /\ eBook.pc = "plan"
    /\ eDisk' = [eDisk EXCEPT !.plan = PlanChunks(eLocal.universe.docs)]
    /\ EbGo(eLocal.then) /\ UNCHANGED <<eLocal, eWorld>>

-----------------------------------------------------------------------------
(* What disturbs it.                                                       *)

EbUnwrite(stages) == [s \in EbStages |-> IF s \in stages THEN "none" ELSE eBook.sentinel[s]]

EbReconciled(book) ==
    LET lost == {s \in book.done : book.sentinel[s] = "none"}
        s    == CHOOSE x \in lost : lost \subseteq EbFrom(x)
    IN  IF lost = {} THEN book ELSE [book EXCEPT !.stage = s, !.done = @ \ EbFrom(s)]

(* A crash while the text is written leaves some of it, and ends a purge   *)
(* where it stands; the daemon that starts again may read more labels.     *)
EbCrash ==
    /\ eWorld.left.crashes > 0
    /\ \E parser \in {eWorld.parser, "new"} :
        eWorld' = [eWorld EXCEPT !.left.crashes = @ - 1, !.parser = parser, !.purge = "none",
                                 !.cut = @ \/ eWorld.purge \notin {"none", "split"}]
    /\ \E n \in {0, 1} :
        eDisk' = [eDisk EXCEPT !.text = IF eBook.pc # "text" \/ eDisk.split = <<>> THEN @
                                        ELSE TextOver(@, {t \in TextOf(eLocal.universe, eDisk.split) : t.num <= n})]
    /\ eBook' = EbReconciled([eBook EXCEPT !.pc = IF @ \in EbParks THEN @ ELSE "idle"])
    /\ eLocal' = EbIdle

EbRerun ==
    /\ eBook.pc \in {"idle", "work", "agent"} \cup EbParks /\ ~Reserved
    /\ EbSpend("reruns")
    /\ \E s \in EbStages :
        /\ EbOrder[s] <= EbOrder[eBook.stage]
        /\ eBook' = [stage |-> s, pc |-> "idle", done |-> eBook.done \ EbFrom(s), sentinel |-> EbUnwrite(EbFrom(s))]
    /\ eLocal' = EbIdle /\ UNCHANGED eDisk

(* The purge of a parked book takes the split, then the text, then both    *)
(* sentinels, then moves the book back, with the status it read at first.  *)
EbBeginPurge ==
    /\ eBook.pc \in EbParks /\ ~Reserved /\ eWorld.left.purges > 0
    /\ eWorld' = [eWorld EXCEPT !.left.purges = @ - 1, !.purge = "split", !.park = eBook.pc]
    /\ UNCHANGED <<eBook, eDisk, eLocal>>

EbPurgeSplit ==
    /\ eWorld.purge = "split"
    /\ eWorld' = [eWorld EXCEPT !.purge = "text"]
    /\ eDisk' = [eDisk EXCEPT !.split = <<>>]
    /\ UNCHANGED <<eBook, eLocal>>

EbPurgeText ==
    /\ eWorld.purge = "text"
    /\ \E n \in {0, 1} :
        /\ eDisk' = [eDisk EXCEPT !.text = {t \in @ : t.num <= n}]
        /\ eWorld' = [eWorld EXCEPT !.purge = IF n = 0 THEN "extracting" ELSE @]
    /\ UNCHANGED <<eBook, eLocal>>

(* A sentinel that cannot be removed stays, and nobody is told. *)
EbPurgeSentinel ==
    /\ eWorld.purge \in EbStages
    /\ \E gone \in BOOLEAN :
        /\ eBook' = IF gone THEN [eBook EXCEPT !.sentinel[eWorld.purge] = "none"] ELSE eBook
        /\ eWorld' = [eWorld EXCEPT !.purge = IF @ = "extracting" THEN "mapping" ELSE "reconcile",
                                    !.cut = @ \/ (eWorld.purge = "extracting" /\ ~gone)]
    /\ UNCHANGED <<eDisk, eLocal>>

EbPurgeReconcile ==
    /\ eWorld.purge = "reconcile"
    /\ LET back == EbReconciled(eBook)
       IN  eBook' = IF back = eBook THEN eBook ELSE [back EXCEPT !.pc = eWorld.park]
    /\ eWorld' = [eWorld EXCEPT !.purge = "none"]
    /\ UNCHANGED <<eDisk, eLocal>>

(* An error of a removal ends it before the sentinels, one of the store    *)
(* before the book is moved back.                                          *)
EbPurgeFails ==
    /\ eWorld.purge \in {"split", "text", "extracting", "reconcile"}
    /\ eWorld' = [eWorld EXCEPT !.purge = "none", !.cut = @ \/ eWorld.purge # "split"]
    /\ UNCHANGED <<eBook, eDisk, eLocal>>

EbPurge ==
    EbBeginPurge \/ EbPurgeSplit \/ EbPurgeText \/ EbPurgeSentinel \/ EbPurgeReconcile \/ EbPurgeFails

(* Retry reads and writes the row alone: no reservation refuses it. *)
EbRetry ==
    /\ eBook.pc \in EbParks
    /\ eBook' = [eBook EXCEPT !.pc = "idle",
                              !.sentinel = EbUnwrite(IF eBook.stage = "tail" THEN {} ELSE {eBook.stage})]
    /\ UNCHANGED <<eDisk, eLocal, eWorld>>

TailParks ==
    /\ EbIn("tail", "idle") /\ ~Reserved /\ EbSpend("parks")
    /\ EbGo("tail_park") /\ UNCHANGED <<eDisk, eLocal>>

EpubReplaced ==
    /\ eWorld.left.replaces > 0
    /\ eWorld' = [eWorld EXCEPT !.epub = eWorld.case.other, !.left.replaces = @ - 1]
    /\ UNCHANGED <<eBook, eDisk, eLocal>>

-----------------------------------------------------------------------------
EbInit ==
    /\ eBook = [stage |-> "extracting", pc |-> "idle", sentinel |-> [s \in EbStages |-> "none"], done |-> {}]
    /\ eDisk = [split |-> <<>>, universe |-> NoUniverse, text |-> {}, manifest |-> <<>>, plan |-> <<>>]
    /\ eLocal = EbIdle
    /\ \E c \in EbCases : eWorld = [case |-> c, epub |-> c.epub, parser |-> "old", left |-> c.left,
                                    purge |-> "none", park |-> "", cut |-> FALSE]

EbStep ==
    \/ EbDispatch \/ EbSentinel \/ EbAdvance \/ SplitEpub \/ DeriveUniverse \/ ResumeOrReparse
    \/ MapChapters \/ KeepMap \/ RecordUniverse \/ WipeText \/ WriteText \/ WriteEbookManifest \/ WriteEbookPlan

EbNext == EbStep \/ EbCrash \/ EbRerun \/ EbPurge \/ EbRetry \/ TailParks \/ EpubReplaced

EbSpec == EbInit /\ [][EbNext]_eVars

-----------------------------------------------------------------------------
EbTypeOK ==
    /\ eBook.stage \in EbStages \cup {"tail"} /\ eBook.done \subseteq EbStages
    /\ eBook.sentinel \in [EbStages -> {"none", "written", "mapped"}]
    /\ eLocal.then \in {"sentinel", "record"} /\ eWorld.left \in [EbFault -> Nat]
    /\ eBook.pc \in {"wipe", "text", "manifest", "plan"} => eLocal.universe.contiguous
    /\ eWorld.purge \in EbPurgeStep /\ eWorld.cut \in BOOLEAN
    /\ Reserved => eBook.pc \in EbParks \cup {"idle"} /\ eWorld.park \in EbParks

(* What the authoring tail reads is one book: the manifest and the chunk   *)
(* plan come from the recorded universe, one that passed its gate, the text*)
(* is of the sections that universe was derived from and of no other epub, *)
(* and it is whole, whatever was interrupted, re-read or purged on the way,*)
(* unless a purge was cut between the first removal and the book's way back*)
(* (materializeEbookChapters, purgeScratchInner).                          *)
MaterialAgrees ==
    /\ eDisk.universe.contiguous
    /\ eDisk.manifest = ChapterNums(eDisk.universe.docs)
    /\ eDisk.plan = PlanChunks(eDisk.universe.docs)
    /\ eDisk.text \subseteq TextOf(eDisk.universe, OwnSections(eDisk.universe.docs))
    /\ eDisk.split # <<>> => eDisk.text = TextOf(eDisk.universe, eDisk.split)

TailReads == eBook.stage = "tail" /\ eBook.pc = "idle" /\ ~Reserved
BookOfOneSplit == TailReads => MaterialAgrees /\ (~eWorld.cut => eDisk.split # <<>>)

(* What the comment on a purge promises, a cut one included: a Retry does  *)
(* not feed the next stage an empty directory (control.go:226-229).  No    *)
(* run checks it: TLC refutes it in flows (README, section 5).             *)
TailReadsWholeText ==
    TailReads => eDisk.text = TextOf(eDisk.universe, OwnSections(eDisk.universe.docs))

(* The chapters are 1..N, and the chunks of the plan cover them in order.  *)
ChaptersOneToN ==
    LET plan == eDisk.plan
        n    == Len(eDisk.manifest)
    IN  /\ eDisk.manifest = [i \in 1..n |-> i] /\ n >= 2
        /\ plan # <<>> /\ plan[1].from = 1 /\ plan[Len(plan)].to = n
        /\ \A i \in DOMAIN plan : /\ plan[i].from <= plan[i].to
                                  /\ i > 1 => plan[i].from = plan[i - 1].to + 1

(* A section is read in one chapter or is excluded, and no reader meets it *)
(* under the number of a chapter that is over: derived numbers never       *)
(* decrease along the book, an interlude is not counted to the chapter     *)
(* before it (ebook.go:3, foldContinuations).                              *)
NoEarlyReveal ==
    LET docs == eDisk.universe.docs
    IN  /\ \A i \in DOMAIN docs : docs[i].out <=> docs[i].num = 0
        /\ ~AgentMapped(eDisk.universe) =>
            /\ \A i, j \in Numbered(docs) : i < j => docs[i].num <= docs[j].num
            /\ \A i, j \in Numbered(docs) :
                  (i < j /\ docs[i].by \in {"strict", "loose", "ordinal"} /\ Labeled(docs[j])) =>
                      docs[i].num < docs[j].num

EbookWhole == BookOfOneSplit /\ (TailReads => ChaptersOneToN /\ NoEarlyReveal)
=============================================================================
