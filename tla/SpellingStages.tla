---------------------------- MODULE SpellingStages ----------------------------
(***************************************************************************)
(* The names of an audiobook: spelling_research and correcting             *)
(* (internal/pipeline/spelling_stage.go), the correction and sheet engines *)
(* (internal/spelling), the series carryover and the series glossary       *)
(* (internal/metaops/glossary.go), with crashes, reruns, a repaired        *)
(* transcript, a predecessor that finishes or goes, and an unreachable     *)
(* catalogue.                                                              *)
(*                                                                         *)
(* A transcript is the set of name forms of each chapter; a form is        *)
(* [name, noble], noble when it stands behind a title and "d'".            *)
(***************************************************************************)
EXTENDS Integers, FiniteSets, Sequences
LOCAL INSTANCE SequencesExt
LOCAL INSTANCE FiniteSetsExt

CONSTANT SpCases  \* a sequence of [text, repaired, titles, ends, pred, series,
                  \*   outputs, left]: two transcripts, the marker titles, the
                  \*   chunk ends, the finished volume before, the names of the
                  \*   series' volumes with this one's place, how names are
                  \*   sorted and the caps of a glossary, the agent's outputs,
                  \*   the bounds

SpFault == {"crashes", "reruns", "moves", "parks"}

ASSUME SpAssumption ==
    \A i \in DOMAIN SpCases : LET c == SpCases[i] IN
        /\ c.left \in [SpFault -> Nat] /\ c.series.self \in DOMAIN c.series.names
        /\ c.series.names \in Seq(SUBSET STRING)
        /\ c.series.caps \in [siblings : Nat, fetches : Nat, names : Nat]
        /\ {c.text, c.repaired} \subseteq Seq(SUBSET [name : STRING, noble : BOOLEAN]) \ {<<>>}
        /\ DOMAIN c.repaired = DOMAIN c.text
        /\ c.ends \in Seq(Nat) \ {<<>>}
        /\ \A k, l \in DOMAIN c.ends : k < l => c.ends[k] < c.ends[l]

VARIABLES
    spBook,   \* [stage, pc, sentinel, done]
    spDisk,   \* [text, plan, refs, corrections, spellings, corrected, sheets]
    spLocal,  \* [corpus, out, at]: of the running stage
    spWorld   \* [case, pred, cache, left]

spVars == <<spBook, spDisk, spLocal, spWorld>>

SpCase == SpCases[spWorld.case]

SpOrder == [spelling |-> 1, correcting |-> 2, tail |-> 3]
SpStages == {"spelling", "correcting"}
SpFrom(s) == {t \in SpStages : SpOrder[t] >= SpOrder[s]}

NoCorrections == [rules |-> <<>>, cites |-> {}]
NoSpellings   == [ends |-> <<>>, ledger |-> {}, preamble |-> {}, unresolved |-> {},
                  clusters |-> {}, nonMerges |-> {}]
NoLedger      == [here |-> FALSE, names |-> {}]
NoRefs        == [glossary |-> {}, texts |-> {}, ledger |-> NoLedger, rules |-> FALSE]
NoCorpus      == [text |-> <<>>, refs |-> NoRefs]
SpIdle        == [corpus |-> NoCorpus, out |-> [corrections |-> NoCorrections, spellings |-> NoSpellings],
                  at |-> 1]

-----------------------------------------------------------------------------
(* The engines.                                                            *)

NamesOf(forms) == {f.name : f \in forms}
Layer(text)    == UNION {text[c] : c \in DOMAIN text}

(* A bare rule also matches inside a noble form; a phrase rule only a whole*)
(* noble form, which it makes plain.                                       *)
Matches(rule, form) == form.name = rule.from /\ (rule.phrase => form.noble)
Rewritten(rule, form) == [name |-> rule.to, noble |-> form.noble /\ ~rule.phrase]

Apply(forms, rules) ==
    FoldLeft(LAMBDA fs, rule : {f \in fs : ~Matches(rule, f)}
                                 \cup {Rewritten(rule, f) : f \in {x \in fs : Matches(rule, x)}},
             forms, rules)
Corrected(text, rules) == [c \in DOMAIN text |-> Apply(text[c], rules)]

Fires(rule, text) == \E f \in Layer(text) : Matches(rule, f)

(* What attests a name: the corrected layer itself and the cited files.    *)
Reference(layer, cites, titles, refs) ==
    NamesOf(Layer(layer)) \cup (IF "titles" \in cites THEN titles ELSE {})
                          \cup (IF "refs" \in cites THEN refs.glossary \cup refs.texts ELSE {})

(* The four gates of Check over a corrected layer. *)
GatesHold(corrections, layer, titles, refs) ==
    /\ \A r \in ToSet(corrections.rules) :
        /\ ~Fires(r, layer)
        /\ r.to \in NamesOf(Layer(layer))
        /\ r.to \in Reference(layer, corrections.cites, titles, refs)
    /\ \A f \in Layer(layer) : ~f.noble

HeardIn(layer, name) == {c \in DOMAIN layer : name \in NamesOf(layer[c])}
FirstUse(layer, name) == Min(HeardIn(layer, name) \cup {Len(layer) + 1})

HeardBy(layer, name, end) == HeardIn(layer, name) # {} /\ FirstUse(layer, name) <= end

(* The rows of the sheet for the chunk that ends here. *)
SheetRows(ledger, layer, end) == {e \in ledger : e.carryover \/ FirstUse(layer, e.canonical) <= end}

LedgerUnheard(ledger, layer) == \E e \in ledger : ~e.carryover /\ HeardIn(layer, e.canonical) = {}

Late(layer, name, end) == HeardIn(layer, name) # {} /\ FirstUse(layer, name) > end

NoteLeaks(spellings, layer, end) ==
    \E other \in spellings.ledger, e \in SheetRows(spellings.ledger, layer, end) :
        other.canonical \in e.note \ {e.canonical} /\ Late(layer, other.canonical, end)

CarryoverFalse(spellings, prior) ==
    \E e \in spellings.ledger : e.carryover /\ ~(prior.here /\ e.canonical \in prior.names)

PreambleLeaks(spellings, layer) ==
    \E e \in spellings.ledger :
        e.canonical \in spellings.preamble /\ Late(layer, e.canonical, spellings.ends[1])

SheetsAudited(spellings, layer, prior) ==
    /\ ~LedgerUnheard(spellings.ledger, layer)
    /\ \A end \in ToSet(spellings.ends) : ~NoteLeaks(spellings, layer, end)
    /\ ~CarryoverFalse(spellings, prior) /\ ~PreambleLeaks(spellings, layer)

(* validateSpellingOutputs: the plan's chunks, no citation of the agent's  *)
(* own files, then the engines run dry in a copy of the inputs.            *)
CitesAllowed(corrections) == corrections.cites \subseteq {"titles", "refs"}
NoDeadRule(corrections, text) == \A r \in ToSet(corrections.rules) : Fires(r, text)
DryRunHolds(out, text, titles, refs) ==
    LET layer == Corrected(text, out.corrections.rules)
    IN  /\ GatesHold(out.corrections, layer, titles, refs)
        /\ NoDeadRule(out.corrections, text)
        /\ SheetsAudited(out.spellings, layer, refs.ledger)

ValidOutputs(out, corpus, titles, plan) ==
    /\ out.spellings.ends = plan /\ CitesAllowed(out.corrections)
    /\ DryRunHolds(out, corpus.text, titles, corpus.refs)

-----------------------------------------------------------------------------
SpIn(stage, pc) == spBook.stage = stage /\ spBook.pc = pc
SpGo(pc)        == spBook' = [spBook EXCEPT !.pc = pc]
SpPark(code)    == SpGo(code) /\ spLocal' = SpIdle
SpParks         == {"spelling_gate_failure", "failed"}
SpSpend(kind)   == spWorld' = [spWorld EXCEPT !.left[kind] = @ - 1]
SpMay(kind)     == spWorld.left[kind] > 0

SpDispatch ==
    /\ spBook.pc = "idle" /\ spBook.stage \in SpStages
    /\ SpGo(IF spBook.stage \in spBook.sentinel THEN "advance" ELSE "work")
    /\ spLocal' = SpIdle /\ UNCHANGED <<spDisk, spWorld>>

SpSentinel ==
    /\ spBook.pc = "sentinel"
    /\ spBook' = [spBook EXCEPT !.pc = "advance", !.sentinel = @ \cup {spBook.stage}]
    /\ UNCHANGED <<spDisk, spLocal, spWorld>>

SpAdvance ==
    /\ spBook.pc = "advance"
    /\ LET next == IF spBook.stage = "spelling" THEN "correcting" ELSE "tail"
       IN  spBook' = [stage |-> next, pc |-> "idle", done |-> spBook.done \cup {spBook.stage},
                      sentinel |-> spBook.sentinel \ {next}]
    /\ spLocal' = SpIdle /\ UNCHANGED <<spDisk, spWorld>>

(* The chunk plan is computed once and kept. *)
KeepPlan ==
    /\ SpIn("spelling", "work")
    /\ spDisk' = [spDisk EXCEPT !.plan = IF @ = <<>> THEN SpCase.ends ELSE @]
    /\ SpGo("find") /\ UNCHANGED <<spLocal, spWorld>>

(* Mutant: the ledger before the texts that attest its names. *)
LedgerFirst == <<"ledger", "texts", "rules">>

(* What is copied from the volume before, in this order. *)
CarryoverOrder == <<"texts", "ledger", "rules">>

(* findSeriesPredecessor: a ledger staged before stands for the whole      *)
(* carryover.                                                              *)
FindPredecessor ==
    /\ SpIn("spelling", "find")
    /\ SpGo(IF spWorld.pred /\ ~spDisk.refs.ledger.here THEN CarryoverOrder[1] ELSE "glossary")
    /\ UNCHANGED <<spDisk, spLocal, spWorld>>

Carried == [texts  |-> spDisk.refs.texts \cup SpCase.pred.texts,
            ledger |-> SpCase.pred.ledger,
            rules  |-> TRUE]

CopyCarryover ==
    \E i \in DOMAIN CarryoverOrder :
        /\ SpIn("spelling", CarryoverOrder[i])
        /\ spDisk' = [spDisk EXCEPT !.refs[CarryoverOrder[i]] = Carried[CarryoverOrder[i]]]
        /\ SpGo(IF i = Len(CarryoverOrder) THEN "glossary" ELSE CarryoverOrder[i + 1])
        /\ UNCHANGED <<spLocal, spWorld>>

(* SeriesGlossary: the names of the volumes before this one, in their      *)
(* order, as far as the caps go (maxGlossaryFetches, maxGlossarySiblings,  *)
(* which counts the volumes read that had names, and maxGlossaryNames).    *)
Earlier == 1..(SpCase.series.self - 1)
GlossaryOf(volumes) == UNION {SpCase.series.names[v] : v \in volumes}

Contributing(reached, v) == {u \in reached : u < v /\ SpCase.series.names[u] # {}}
Fetched(reached) ==
    {v \in Earlier : /\ v - 1 < SpCase.series.caps.fetches
                     /\ Cardinality(Contributing(reached, v)) < SpCase.series.caps.siblings}

SortsBefore(m, n) ==
    \E i, j \in DOMAIN SpCase.series.sorted : i < j /\ SpCase.series.sorted[i] = m /\ SpCase.series.sorted[j] = n
Shortened(names) == {n \in names : Cardinality({m \in names : SortsBefore(m, n)}) < SpCase.series.caps.names}

NoCache == [here |-> FALSE, names |-> {}]

(* Only an answer from every volume that was asked is remembered.          *)
Remember(reached) ==
    IF Fetched(reached) \subseteq reached
    THEN [here |-> TRUE, names |-> Shortened(GlossaryOf(Fetched(reached)))] ELSE spWorld.cache

(* The remembered names for an hour, then whatever can be reached.  A run  *)
(* without a glossary leaves none behind.                                  *)
FetchGlossary ==
    /\ SpIn("spelling", "glossary")
    /\ \/ spWorld.cache.here
          /\ spDisk' = [spDisk EXCEPT !.refs.glossary = spWorld.cache.names]
          /\ UNCHANGED spWorld
       \/ \E reached \in SUBSET Earlier :
          /\ spDisk' = [spDisk EXCEPT !.refs.glossary = Shortened(GlossaryOf(Fetched(reached) \cap reached))]
          /\ spWorld' = [spWorld EXCEPT !.cache = Remember(reached)]
       \/ spDisk' = [spDisk EXCEPT !.refs.glossary = {}] /\ UNCHANGED spWorld
    /\ SpGo("corpus") /\ UNCHANGED spLocal

BuildCorpus ==
    /\ SpIn("spelling", "corpus")
    /\ spLocal' = [spLocal EXCEPT !.corpus = [text |-> spDisk.text, refs |-> spDisk.refs]]
    /\ SpGo("agent") /\ UNCHANGED <<spDisk, spWorld>>

(* An output that is refused is asked again, or the runner gives up. *)
Research ==
    /\ SpIn("spelling", "agent")
    /\ \/ \E out \in SpCase.outputs :
            /\ ValidOutputs(out, spLocal.corpus, SpCase.titles, spDisk.plan)
            /\ spLocal' = [spLocal EXCEPT !.out = out]
            /\ SpGo("harvest") /\ UNCHANGED spWorld
       \/ SpMay("parks") /\ SpSpend("parks") /\ SpPark("failed")
    /\ UNCHANGED spDisk

HarvestCorrections ==
    /\ SpIn("spelling", "harvest")
    /\ spDisk' = [spDisk EXCEPT !.corrections = spLocal.out.corrections]
    /\ SpGo("harvest_ledger") /\ UNCHANGED <<spLocal, spWorld>>

HarvestSpellings ==
    /\ SpIn("spelling", "harvest_ledger")
    /\ spDisk' = [spDisk EXCEPT !.spellings = spLocal.out.spellings]
    /\ SpGo("sentinel") /\ UNCHANGED <<spLocal, spWorld>>

LoadData ==
    /\ SpIn("correcting", "work")
    /\ spLocal' = [SpIdle EXCEPT !.out = [corrections |-> spDisk.corrections, spellings |-> spDisk.spellings]]
    /\ SpGo("apply") /\ UNCHANGED <<spDisk, spWorld>>

(* One chapter of Apply, from the transcript, never from the corrected layer. *)
ApplyChapter ==
    LET c == spLocal.at
    IN  /\ SpIn("correcting", "apply")
        /\ spDisk' = [spDisk EXCEPT !.corrected[c] = Apply(spDisk.text[c], spLocal.out.corrections.rules)]
        /\ spLocal' = [spLocal EXCEPT !.at = @ + 1]
        /\ SpGo(IF c = Len(spDisk.text) THEN "check" ELSE "apply")
        /\ UNCHANGED spWorld

CheckLayer ==
    /\ SpIn("correcting", "check")
    /\ IF GatesHold(spLocal.out.corrections, spDisk.corrected, SpCase.titles, spDisk.refs)
       THEN SpGo("sheets") /\ spLocal' = [spLocal EXCEPT !.at = 1]
       ELSE SpPark("spelling_gate_failure")
    /\ UNCHANGED <<spDisk, spWorld>>

(* GenerateSheets: rows, their notes, the preamble and the open names that *)
(* were heard, one file per chunk; the sheets before one that fails its    *)
(* gate stay.                                                              *)
SheetOf(spellings, layer, end) ==
    LET rows == SheetRows(spellings.ledger, layer, end)
    IN  {e.canonical : e \in rows} \cup (UNION {e.note : e \in rows}) \cup spellings.preamble
           \cup {n \in spellings.unresolved : HeardBy(layer, n, end)}

(* The text beside it, whose words no gate reads: the variants of a row,   *)
(* a cluster once its names were heard, a pair once it is in the ledger.   *)
FreeText(spellings, layer, end) ==
    LET met == {e.canonical : e \in {e \in spellings.ledger : HeardBy(layer, e.canonical, end)}}
    IN  (UNION {e.variants : e \in SheetRows(spellings.ledger, layer, end)})
           \cup (UNION {c.text : c \in {c \in spellings.clusters : \A n \in c.names : HeardBy(layer, n, end)}})
           \cup (UNION {m.text : m \in {m \in spellings.nonMerges : m.pair \subseteq met}})

WriteSheet ==
    LET sp    == spLocal.out.spellings
        layer == spDisk.corrected
        end   == sp.ends[spLocal.at]
    IN  /\ SpIn("correcting", "sheets")
        /\ IF LedgerUnheard(sp.ledger, layer) \/ NoteLeaks(sp, layer, end)
           THEN SpPark("failed") /\ UNCHANGED spDisk
           ELSE /\ spDisk' = [spDisk EXCEPT !.sheets = {s \in @ : s.end # end}
                               \cup {[end |-> end, names |-> SheetOf(sp, layer, end),
                                       free |-> FreeText(sp, layer, end)]}]
                /\ spLocal' = [spLocal EXCEPT !.at = @ + 1]
                /\ SpGo(IF spLocal.at = Len(sp.ends) THEN "sentinel" ELSE "sheets")
        /\ UNCHANGED spWorld

-----------------------------------------------------------------------------
(* What disturbs it.                                                       *)

SpReconciled(book) ==
    LET lost == book.done \ book.sentinel
        s    == CHOOSE x \in lost : lost \subseteq SpFrom(x)
    IN  IF lost = {} THEN book ELSE [book EXCEPT !.stage = s, !.done = @ \ SpFrom(s)]

(* The work dir stays, the remembered glossaries do not. *)
SpCrash ==
    /\ spBook.pc # "idle" /\ SpMay("crashes")
    /\ spBook' = SpReconciled([spBook EXCEPT !.pc = IF @ \in SpParks THEN @ ELSE "idle"])
    /\ spLocal' = SpIdle
    /\ spWorld' = [spWorld EXCEPT !.left.crashes = @ - 1, !.cache = NoCache]
    /\ UNCHANGED spDisk

(* A rerun of one of the two, or of a stage before them that repairs the   *)
(* transcript.                                                             *)
SpRerun ==
    /\ SpMay("reruns") /\ spBook.pc \in {"idle", "work", "agent", "apply"} \cup SpParks
    /\ \E s \in SpStages, text \in {spDisk.text, SpCase.repaired} :
        /\ SpOrder[s] <= SpOrder[spBook.stage]
        /\ text = spDisk.text \/ s = "spelling"
        /\ spDisk' = [spDisk EXCEPT !.text = text]
        /\ spBook' = [stage |-> s, pc |-> "idle", done |-> spBook.done \ SpFrom(s),
                      sentinel |-> spBook.sentinel \ SpFrom(s)]
    /\ spLocal' = SpIdle /\ SpSpend("reruns")

SpRetry ==
    /\ spBook.pc \in SpParks
    /\ spBook' = [spBook EXCEPT !.pc = "idle", !.sentinel = @ \ {spBook.stage}]
    /\ UNCHANGED <<spDisk, spLocal, spWorld>>

(* The volume before this one finishes, or is deleted. *)
PredecessorMoved ==
    /\ SpMay("moves")
    /\ spWorld' = [spWorld EXCEPT !.pred = ~@, !.left.moves = @ - 1]
    /\ UNCHANGED <<spBook, spDisk, spLocal>>

SpInit ==
    /\ spBook = [stage |-> "spelling", pc |-> "idle", sentinel |-> {}, done |-> {}]
    /\ spLocal = SpIdle
    /\ \E c \in DOMAIN SpCases, pred \in BOOLEAN :
        spWorld = [case |-> c, pred |-> pred, cache |-> NoCache, left |-> SpCases[c].left]
    /\ spDisk = [text |-> SpCase.text, plan |-> <<>>, refs |-> NoRefs, corrections |-> NoCorrections,
                 spellings |-> NoSpellings, corrected |-> [ch \in DOMAIN SpCase.text |-> {}], sheets |-> {}]

SpNext ==
    \/ SpDispatch \/ SpSentinel \/ SpAdvance \/ KeepPlan \/ FindPredecessor \/ CopyCarryover
    \/ FetchGlossary \/ BuildCorpus \/ Research \/ HarvestCorrections \/ HarvestSpellings
    \/ LoadData \/ ApplyChapter \/ CheckLayer \/ WriteSheet
    \/ SpCrash \/ SpRerun \/ SpRetry \/ PredecessorMoved

SpSpec == SpInit /\ [][SpNext]_spVars

-----------------------------------------------------------------------------
SpTypeOK ==
    /\ spBook.stage \in SpStages \cup {"tail"} /\ spBook.done \cup spBook.sentinel \subseteq SpStages
    /\ spLocal.at \in 1..(Len(spDisk.text) + Len(SpCase.ends) + 1) /\ spWorld.left \in [SpFault -> Nat]

(* What the fact pass is handed is what was validated: the corrected layer *)
(* is the recorded rules over the transcript of now, the two files of the  *)
(* agent still pass together, and correcting never has to refuse rules its *)
(* dry run accepted (spelling_stage.go:654).                               *)
CorrectionsStand ==
    /\ spBook.pc # "spelling_gate_failure"
    /\ spBook.stage = "tail" /\ spBook.pc = "idle" =>
        /\ spDisk.corrected = Corrected(spDisk.text, spDisk.corrections.rules)
        /\ ValidOutputs([corrections |-> spDisk.corrections, spellings |-> spDisk.spellings],
                        [text |-> spDisk.text, refs |-> spDisk.refs], SpCase.titles, spDisk.plan)

NotMet(name, end) ==
    /\ name \in {e.canonical : e \in spDisk.spellings.ledger}
    /\ FirstUse(spDisk.corrected, name) > end /\ name \notin SpCase.pred.ledger.names

(* Each chunk has its sheet, and the rows, notes, preamble and open names  *)
(* of a sheet name no one the reader of its chunk has not met, in this     *)
(* book or in the volume before: also when the transcript, the rules or    *)
(* the carryover changed since the agent wrote them (sheets.go:51-54,      *)
(* sheetaudit.go:20).  The text nothing reads is LateNamesKept's part.     *)
SheetsSpoilNothing ==
    spBook.stage = "tail" /\ spBook.pc = "idle" =>
        /\ {s.end : s \in spDisk.sheets} = ToSet(spDisk.plan)
        /\ \A s \in spDisk.sheets : \A name \in s.names : ~NotMet(name, s.end)

(* A name heard only in a later chapter never stands on a sheet, anywhere  *)
(* in it (GenerateSheets, sheets.go:56-60).  No run checks it: TLC refutes *)
(* it in flows (README, section 5).                                        *)
LateNamesKept ==
    spBook.stage = "tail" /\ spBook.pc = "idle" =>
        \A s \in spDisk.sheets : \A name \in s.names \cup s.free : ~NotMet(name, s.end)

(* The staged ledger is the mark of a whole carryover: the texts that      *)
(* attest its names are there, whatever was interrupted; a glossary has no *)
(* name of a later volume, and a remembered one has what the caps allow of *)
(* every volume before, as if all had answered (populateSpellingRefs,      *)
(* SeriesGlossary).                                                        *)
ReferencesWhole ==
    /\ spDisk.refs.ledger.here => SpCase.pred.texts \subseteq spDisk.refs.texts
    /\ spWorld.cache.here => spWorld.cache.names = Shortened(GlossaryOf(Fetched(Earlier)))
    /\ spDisk.refs.glossary \subseteq GlossaryOf(Earlier)

SpellingKept == CorrectionsStand /\ SheetsSpoilNothing /\ ReferencesWhole
=============================================================================
