----------------------------- MODULE AudioStages -----------------------------
(***************************************************************************)
(* The audio half of one book: inspecting, markers_normalizing, splitting, *)
(* asr, sanitizing (internal/pipeline, internal/audio, internal/asr,       *)
(* internal/transcript), with what can happen to them: an interruption     *)
(* anywhere, a restart with a newer parser, a source that is replaced or   *)
(* offline, a scratch purge, a stage rerun by the supervisor.  Times are   *)
(* whole seconds, a recording lasts a few of them.                         *)
(***************************************************************************)
EXTENDS Integers, Sequences
LOCAL INSTANCE SequencesExt

CONSTANTS
    AsInterior,  \* audio.MaxInteriorGapSec
    AsEdge,      \* audio.MaxEdgeGapSec
    AsAttempts,  \* splitTransientMaxAttempts
    AsCases      \* a sequence of [source, other, answers, left]: recordings, verdicts, bounds

AsStyle   == {"markers", "files"}
AsFault   == {"cuts", "crashes", "reruns", "replaces", "purges", "outages"}
NoNumber  == -1

ASSUME AsAssumption ==
    /\ {AsInterior, AsEdge, AsAttempts} \subseteq Nat \ {0}
    /\ \A c \in DOMAIN AsCases :
        /\ {AsCases[c].source.style, AsCases[c].other.style} \subseteq AsStyle
        /\ AsCases[c].left \in [AsFault -> Nat]

VARIABLES
    asBook,    \* [stage, pc, sentinel, done]
    asDisk,    \* [probe, manifest, staged, flac, raw, info, text]: the work dir
    asLocal,   \* locals of the running stage
    asWorld,   \* [case, source, parser, left]
    asDeclared \* the exclusions of the verdict the manifest came with

asVars == <<asBook, asDisk, asLocal, asWorld, asDeclared>>

AsStages == {"inspecting", "markers", "splitting", "asr", "sanitizing"}
AsOrder  == [inspecting |-> 1, markers |-> 2, splitting |-> 3, asr |-> 4, sanitizing |-> 5, end |-> 6]
AsFrom(s) == {t \in AsStages : AsOrder[t] >= AsOrder[s]}

NoManifest == [style |-> "none", length |-> 0, chapters |-> <<>>]
NoAnswer   == [chapters |-> <<>>, excluded |-> <<>>]
NoInfo     == [under |-> NoManifest, empty |-> {}]
NoneStaged == [size |-> 0, bytes |-> "none"]
AsIdle     == [attempt |-> 1, reads |-> "none", answer |-> NoAnswer, usable |-> FALSE, num |-> NoNumber,
               noContext |-> FALSE, again |-> FALSE, silent |-> FALSE, empty |-> {}]

AsIn(stage, pc)  == asBook.stage = stage /\ asBook.pc = pc
AsGo(pc)         == asBook' = [asBook EXCEPT !.pc = pc]
AsKeep           == UNCHANGED <<asWorld, asDeclared>>
Source           == asWorld.source
Chapters         == asDisk.manifest.chapters

-----------------------------------------------------------------------------
(* The chapter map (internal/audio).  A marker is [num, from, to, dialect]:*)
(* num is what its title states, dialect that only a newer parser reads it.*)

Recognized(markers, parser) ==
    SelectSeq(markers, LAMBDA m : m.num # NoNumber /\ (m.dialect => parser = "new"))

(* positionalChapters: a table that states no number but tiles.            *)
Tiles(markers) ==
    /\ markers # <<>>
    /\ \A i \in DOMAIN markers :
        /\ markers[i].from < markers[i].to
        /\ i > 1 => markers[i].from - markers[i - 1].to < AsInterior

Chapter(num, m) == [num |-> num, from |-> m.from, to |-> m.to]

ChaptersOf(markers, parser) ==
    LET numbered == Recognized(markers, parser)
    IN  IF numbered # <<>> THEN [i \in DOMAIN numbered |-> Chapter(numbered[i].num, numbered[i])]
        ELSE IF Tiles(markers) THEN [i \in DOMAIN markers |-> Chapter(i, markers[i])]
        ELSE <<>>

AsContiguous(chs) ==
    /\ chs # <<>> /\ chs[1].num \in {0, 1}
    /\ \A i \in DOMAIN chs : chs[i].num = chs[1].num + i - 1

MergedCover(chs) ==
    FoldLeft(LAMBDA out, iv :
                 IF out = <<>> \/ iv.from > Last(out).to THEN Append(out, [from |-> iv.from, to |-> iv.to])
                 ELSE IF iv.to > Last(out).to
                      THEN Append(Front(out), [from |-> Last(out).from, to |-> iv.to]) ELSE out,
             <<>>, SortSeq(SelectSeq(chs, LAMBDA c : c.from < c.to), LAMBDA a, b : a.from < b.from))

UnmappedSpans(chs, length) ==
    LET cover == MergedCover(chs)
        Span(from, to, at) == [from |-> from, to |-> to, at |-> at]
        n == Len(cover)
    IN  IF length <= 0 THEN {}
        ELSE IF n = 0 THEN {Span(0, length, "interior")}
        ELSE {s \in {Span(0, cover[1].from, "leading"), Span(cover[n].to, length, "trailing")} \cup
                    {Span(cover[i].to, cover[i + 1].from, "interior") : i \in 1..(n - 1)} :
                s.to - s.from >= 1}

Tolerated(s) == s.to - s.from < IF s.at = "interior" THEN AsInterior ELSE AsEdge

(* Inspect: the manifest of a recording, and MarkerStats.Usable.           *)
DraftOf(rec, parser) ==
    [style |-> rec.style, length |-> rec.length,
     chapters |-> IF rec.style = "files" THEN [i \in DOMAIN rec.markers |-> Chapter(i, rec.markers[i])]
                  ELSE ChaptersOf(rec.markers, parser)]

(* Mutant: a map that numbers 1..N is usable, whatever it left out.        *)
NumbersOnly(rec, parser) == rec.style = "files" \/ AsContiguous(DraftOf(rec, parser).chapters)

Usable(rec, parser) ==
    LET chs == DraftOf(rec, parser).chapters
    IN  \/ rec.style = "files"
        \/ AsContiguous(chs) /\ \A s \in UnmappedSpans(chs, rec.length) : Tolerated(s)

(* exclusionsCover, swept over the declarations in order of their start;   *)
(* a second may be missing at each boundary.                               *)
ExclusionsCover(s, excluded) ==
    LET ordered == SortSeq(excluded, LAMBDA a, b : a.from < b.from)
        Step(acc, e) ==
            IF acc.verdict # "open" \/ e.to < s.from - 1 THEN acc
            ELSE IF e.from > acc.to + 1 THEN [acc EXCEPT !.verdict = "no"]
            ELSE LET to == IF e.to > acc.to THEN e.to ELSE acc.to
                 IN  [to |-> to, verdict |-> IF to >= s.to - 1 THEN "yes" ELSE "open"]
    IN  FoldLeft(Step, [to |-> s.from, verdict |-> "open"], ordered).verdict = "yes"

(* validateMarkersManifest, of a confident verdict.                        *)
ValidMap(answer, draft, rec) ==
    /\ AsContiguous(answer.chapters)
    /\ \A i \in DOMAIN answer.chapters :
        LET ch == answer.chapters[i]
        IN  0 <= ch.from /\ ch.from < ch.to /\ ch.to <= draft.length + 1
    /\ \A s \in UnmappedSpans(answer.chapters, rec.length) :
        Tolerated(s) \/ ExclusionsCover(s, answer.excluded)

-----------------------------------------------------------------------------
(* Around a stage: the sentinel skips it, its success moves the book on.   *)

AsNext(stage) ==
    CASE stage = "inspecting" -> IF asLocal.usable THEN "splitting" ELSE "markers"
      [] stage = "markers" -> "splitting" [] stage = "splitting" -> "asr"
      [] stage = "asr" -> "sanitizing" [] OTHER -> "end"

AsDispatch ==
    /\ asBook.pc = "idle" /\ asBook.stage # "end"
    /\ IF asBook.sentinel[asBook.stage] = "none"
       THEN AsGo("work") /\ asLocal' = AsIdle
       ELSE AsGo("advance") /\ asLocal' = [AsIdle EXCEPT !.usable = asBook.sentinel[asBook.stage] = "usable"]
    /\ UNCHANGED asDisk /\ AsKeep

AsSentinel ==
    /\ asBook.pc = "sentinel"
    /\ asBook' = [asBook EXCEPT !.pc = "advance",
                                !.sentinel[asBook.stage] = IF asLocal.usable THEN "usable" ELSE "written"]
    /\ UNCHANGED <<asDisk, asLocal>> /\ AsKeep

(* The success is recorded, the next stage's old sentinel dropped.         *)
AsAdvance ==
    /\ asBook.pc = "advance"
    /\ LET next == AsNext(asBook.stage)
       IN  asBook' = [stage |-> next, pc |-> "idle", done |-> asBook.done \cup {asBook.stage},
                      sentinel |-> [s \in AsStages |-> IF s = next THEN "none" ELSE asBook.sentinel[s]]]
    /\ asLocal' = AsIdle
    /\ UNCHANGED asDisk /\ AsKeep

AsParks == {"failed", "media_tools_unavailable", "asr_unavailable", "markers_not_confident",
            "asr_decode_timeout", "manifest_changed"}
AsPark(code) == AsGo(code) /\ asLocal' = AsIdle

AsSpend(kind) == asWorld.left[kind] > 0 /\ asWorld' = [asWorld EXCEPT !.left[kind] = @ - 1]

(* ensureTools: without ffmpeg or ffprobe the book waits for them.         *)
ToolsMissing ==
    /\ asBook.pc = "work" /\ asBook.stage \in {"inspecting", "splitting"}
    /\ AsSpend("outages")
    /\ AsPark("media_tools_unavailable")
    /\ UNCHANGED <<asDisk, asDeclared>>

(* readyASR, Select: no backend is there, or none gets ready.              *)
BackendMissing ==
    /\ AsIn("asr", "work")
    /\ AsSpend("outages")
    /\ AsPark("asr_unavailable")
    /\ UNCHANGED <<asDisk, asDeclared>>

-----------------------------------------------------------------------------
(* Inspecting and normalizing the markers.                                 *)

Inspect ==
    /\ AsIn("inspecting", "work")
    /\ asDisk' = [asDisk EXCEPT !.probe = Source, !.manifest = DraftOf(Source, asWorld.parser)]
    /\ asLocal' = [asLocal EXCEPT !.usable = Usable(Source, asWorld.parser)]
    /\ asDeclared' = <<>>
    /\ AsGo("sentinel") /\ UNCHANGED asWorld

(* A draft that does not number is parsed again before an agent is paid.   *)
ReparseMarkers ==
    /\ AsIn("markers", "work")
    /\ IF asDisk.manifest.style = "markers" /\ ~AsContiguous(Chapters)
       THEN /\ asDisk' = [asDisk EXCEPT !.manifest = DraftOf(asDisk.probe, asWorld.parser)]
            /\ asDeclared' = <<>>
            /\ AsGo(IF Usable(asDisk.probe, asWorld.parser) THEN "sentinel" ELSE "agent")
       ELSE AsGo("agent") /\ UNCHANGED <<asDisk, asDeclared>>
    /\ UNCHANGED <<asLocal, asWorld>>

MapMarkers ==
    /\ AsIn("markers", "agent")
    /\ \E answer \in AsCases[asWorld.case].answers :
        IF answer.confident
        THEN /\ ValidMap(answer, asDisk.manifest, asDisk.probe)
             /\ asLocal' = [asLocal EXCEPT !.answer = answer] /\ AsGo("harvest")
        ELSE AsPark("markers_not_confident")
    /\ UNCHANGED asDisk /\ AsKeep

HarvestMap ==
    /\ AsIn("markers", "harvest")
    /\ asDisk' = [asDisk EXCEPT !.manifest.chapters = asLocal.answer.chapters]
    /\ asDeclared' = asLocal.answer.excluded
    /\ AsGo("sentinel") /\ UNCHANGED <<asLocal, asWorld>>

-----------------------------------------------------------------------------
(* Splitting.  A FLAC that is there is not cut again; a staged copy of the *)
(* source is reused when its size still fits, or the source is offline.    *)

Uncut == {i \in DOMAIN Chapters : ~\E f \in asDisk.flac : f.num = Chapters[i].num}
First(indices) == CHOOSE i \in indices : \A j \in indices : i <= j

SplitBegins ==
    /\ AsIn("splitting", "work")
    /\ IF AsContiguous(Chapters) THEN AsGo("stage") /\ UNCHANGED asLocal ELSE AsPark("failed")
    /\ UNCHANGED asDisk /\ AsKeep

StageSource ==
    /\ AsIn("splitting", "stage")
    /\ \E online, copied \in BOOLEAN :
        LET hit    == asDisk.staged.size > 0 /\ (online => asDisk.staged.size = Source.size)
            stages == asDisk.manifest.style = "markers" /\ Uncut # {}
        IN  /\ IF online /\ copied THEN UNCHANGED asWorld ELSE stages /\ AsSpend("outages")
            /\ asDisk' = IF stages /\ ~hit /\ online /\ copied
                         THEN [asDisk EXCEPT !.staged = [size |-> Source.size, bytes |-> Source.bytes]]
                         ELSE asDisk
            /\ asLocal' = [asLocal EXCEPT !.reads = IF stages /\ (hit \/ (online /\ copied))
                                                    THEN "staged" ELSE "source"]
    /\ AsGo("cut") /\ UNCHANGED asDeclared

(* splitChapter: an interval of the file the split reads from.             *)
Flac(ch) == [num |-> ch.num, from |-> ch.from, to |-> ch.to,
             bytes |-> IF asLocal.reads = "staged" THEN asDisk.staged.bytes ELSE Source.bytes]

CutChapter ==
    /\ AsIn("splitting", "cut")
    /\ IF Uncut = {}
       THEN asDisk' = [asDisk EXCEPT !.staged = NoneStaged] /\ AsGo("sentinel")
       ELSE asDisk' = [asDisk EXCEPT !.flac = @ \cup {Flac(Chapters[First(Uncut)])}] /\ UNCHANGED asBook
    /\ UNCHANGED asLocal /\ AsKeep

(* splitWithRetries: an interrupted read starts the split over.            *)
CutFails ==
    /\ AsIn("splitting", "cut") /\ Uncut # {} /\ asLocal.reads = "source"
    /\ AsSpend("outages")
    /\ \/ /\ asLocal.attempt < AsAttempts
          /\ asLocal' = [asLocal EXCEPT !.attempt = @ + 1] /\ AsGo("stage")
       \/ AsPark("failed")
    /\ UNCHANGED <<asDisk, asDeclared>>

-----------------------------------------------------------------------------
(* Transcribing, chapter by chapter, under the manifest asr.json names.    *)

(* Mutant: asr.json is written when the stage ends, not when it starts.    *)
ProvenanceLater == asDisk.info

ProvenanceAtStart == [under |-> asDisk.manifest, empty |-> {}]

AsrBegins ==
    /\ AsIn("asr", "work")
    /\ IF Chapters = <<>> THEN AsPark("failed")
       ELSE IF asDisk.info.under \notin {NoManifest, asDisk.manifest} THEN AsPark("manifest_changed")
       ELSE AsGo("provenance") /\ UNCHANGED asLocal
    /\ UNCHANGED asDisk /\ AsKeep

WriteProvenance ==
    /\ AsIn("asr", "provenance")
    /\ asDisk' = [asDisk EXCEPT !.info = ProvenanceAtStart]
    /\ AsGo("chapter") /\ UNCHANGED asLocal /\ AsKeep

RawOf(num)    == {r \in asDisk.raw : r.num = num}
Unheard       == {i \in DOMAIN Chapters : ~\E r \in RawOf(Chapters[i].num) : r.whole}
Frozen(raws)  == {[r EXCEPT !.frozen = TRUE] : r \in raws}

(* Raws that are complete are kept, and frozen again on the way.           *)
NextChapter ==
    /\ AsIn("asr", "chapter")
    /\ IF Unheard = {}
       THEN /\ asDisk' = [asDisk EXCEPT !.raw = Frozen(@)]
            /\ AsGo("finish") /\ UNCHANGED asLocal
       ELSE \E todo \in Unheard :
              LET num  == Chapters[todo].num
                  over == {r \in asDisk.raw : r.num < num}
              IN  /\ \A i \in Unheard : todo <= i
                  /\ asDisk' = [asDisk EXCEPT !.raw = (Frozen(over) \cup (@ \ over)) \ RawOf(num)]
                  /\ IF \E f \in asDisk.flac : f.num = num
                     THEN /\ AsGo("decode")
                          /\ asLocal' = [asLocal EXCEPT !.num = num, !.noContext = FALSE,
                                                        !.again = FALSE, !.silent = FALSE]
                     ELSE AsPark("failed")
    /\ AsKeep

Heard(whole, silent) ==
    [asDisk EXCEPT !.raw = (@ \ RawOf(asLocal.num)) \cup
        {[num |-> asLocal.num, under |-> asDisk.manifest, whole |-> whole, silent |-> silent, frozen |-> FALSE,
          of |-> CHOOSE f \in asDisk.flac : f.num = asLocal.num]}]

(* One decode of transcribeChapter: it fills the raw, runs out of its time,*)
(* hears nothing, or breaks.                                               *)
DecodeHears ==
    /\ AsIn("asr", "decode")
    /\ asDisk' = Heard(TRUE, FALSE)
    /\ AsGo("freeze") /\ UNCHANGED asLocal /\ AsKeep

DecodeSilent ==
    /\ AsIn("asr", "decode")
    /\ asDisk' = Heard(TRUE, TRUE)
    /\ IF asLocal.again THEN AsGo("freeze") /\ asLocal' = [asLocal EXCEPT !.silent = TRUE]
                        ELSE UNCHANGED asBook /\ asLocal' = [asLocal EXCEPT !.again = TRUE]
    /\ AsKeep

DecodeSlow ==
    /\ AsIn("asr", "decode")
    /\ asDisk' = [asDisk EXCEPT !.raw = @ \ RawOf(asLocal.num)]
    /\ IF asLocal.noContext THEN AsPark("asr_decode_timeout")
                            ELSE UNCHANGED asBook /\ asLocal' = [asLocal EXCEPT !.noContext = TRUE]
    /\ AsKeep

DecodeBreaks ==
    /\ AsIn("asr", "decode")
    /\ asDisk' = Heard(FALSE, FALSE) /\ AsPark("failed") /\ AsKeep

Freeze ==
    /\ AsIn("asr", "freeze")
    /\ asDisk' = [asDisk EXCEPT !.raw = (@ \ RawOf(asLocal.num)) \cup Frozen(RawOf(asLocal.num))]
    /\ asLocal' = [asLocal EXCEPT !.empty = @ \cup IF asLocal.silent THEN {asLocal.num} ELSE {}]
    /\ AsGo("chapter") /\ AsKeep

FinishAsr ==
    /\ AsIn("asr", "finish")
    /\ asDisk' = [asDisk EXCEPT !.info = [under |-> asDisk.manifest, empty |-> asLocal.empty]]
    /\ AsGo("sentinel") /\ UNCHANGED asLocal /\ AsKeep

(* Every raw on disk is derived again, each time.                          *)
Sanitize ==
    /\ AsIn("sanitizing", "work")
    /\ IF asDisk.raw = {} \/ \E r \in asDisk.raw : ~r.whole
       THEN AsPark("failed") /\ UNCHANGED asDisk
       ELSE /\ asDisk' = [asDisk EXCEPT !.text = {[num |-> r.num, under |-> r.under] : r \in asDisk.raw}]
            /\ AsGo("sentinel") /\ UNCHANGED asLocal
    /\ AsKeep

-----------------------------------------------------------------------------
(* What disturbs it.                                                       *)

AsUnwrite(stages) == [s \in AsStages |-> IF s \in stages THEN "none" ELSE asBook.sentinel[s]]
PartialRaws == {asDisk} \cup IF AsIn("asr", "decode") THEN {Heard(FALSE, FALSE)} ELSE {}

(* A pause, a cancellation, a shutdown: noticed where the context is.      *)
AsCut ==
    /\ asBook.pc \in {"work", "agent", "stage", "cut", "chapter", "decode"}
    /\ AsSpend("cuts")
    /\ asDisk' \in PartialRaws
    /\ asLocal' = AsIdle
    /\ AsGo("idle") /\ UNCHANGED asDeclared

(* A crash, or an upgrade: reconcileBook goes back to the first stage that *)
(* succeeded and whose sentinel is gone.                                   *)
Reconciled(book) ==
    LET lost == {s \in book.done : book.sentinel[s] = "none"}
        s    == CHOOSE x \in lost : lost \subseteq AsFrom(x)
    IN  IF lost = {} THEN book
        ELSE [book EXCEPT !.stage = s, !.done = @ \ AsFrom(s)]

AsCrash ==
    /\ asBook.pc # "idle"
    /\ asWorld.left.crashes > 0
    /\ \E parser \in {asWorld.parser, "new"} :
        asWorld' = [asWorld EXCEPT !.left.crashes = @ - 1, !.parser = parser]
    /\ asDisk' \in PartialRaws
    /\ asBook' = Reconciled([asBook EXCEPT !.pc = IF @ \in AsParks THEN @ ELSE "idle"])
    /\ asLocal' = AsIdle /\ UNCHANGED asDeclared

AsRerun ==
    /\ asBook.stage # "end" /\ asBook.pc \in {"idle", "work", "agent", "cut", "chapter", "decode"} \cup AsParks
    /\ AsSpend("reruns")
    /\ asDisk' \in PartialRaws
    /\ \E s \in AsStages :
        /\ AsOrder[s] <= AsOrder[asBook.stage]
        /\ asBook' = [stage |-> s, pc |-> "idle", done |-> asBook.done \ AsFrom(s),
                      sentinel |-> AsUnwrite(AsFrom(s))]
    /\ asLocal' = AsIdle /\ UNCHANGED asDeclared

AsPurge ==
    /\ asBook.pc \in AsParks
    /\ AsSpend("purges")
    /\ asDisk' = [asDisk EXCEPT !.flac = {}, !.staged = NoneStaged]
    /\ asBook' = Reconciled([asBook EXCEPT !.sentinel = AsUnwrite({"splitting"})])
    /\ UNCHANGED <<asLocal, asDeclared>>

AsRetry ==
    /\ asBook.pc \in AsParks
    /\ asBook' = [asBook EXCEPT !.pc = "idle", !.sentinel = AsUnwrite({asBook.stage})]
    /\ UNCHANGED <<asDisk, asLocal>> /\ AsKeep

SourceReplaced ==
    /\ asWorld.left.replaces > 0
    /\ asWorld' = [asWorld EXCEPT !.source = AsCases[asWorld.case].other, !.left.replaces = @ - 1]
    /\ UNCHANGED <<asBook, asDisk, asLocal, asDeclared>>

-----------------------------------------------------------------------------
AsInit ==
    /\ asBook = [stage |-> "inspecting", pc |-> "idle", sentinel |-> [s \in AsStages |-> "none"], done |-> {}]
    /\ \E case \in DOMAIN AsCases, parser \in {"old", "new"} :
        /\ asDisk = [probe |-> AsCases[case].source, manifest |-> NoManifest, staged |-> NoneStaged,
                     flac |-> {}, raw |-> {}, info |-> NoInfo, text |-> {}]
        /\ asWorld = [case |-> case, source |-> AsCases[case].source, parser |-> parser,
                    left |-> AsCases[case].left]
    /\ asLocal = AsIdle /\ asDeclared = <<>>

AsStep ==
    \/ AsDispatch \/ AsSentinel \/ AsAdvance \/ ToolsMissing \/ BackendMissing
    \/ Inspect \/ ReparseMarkers \/ MapMarkers \/ HarvestMap
    \/ SplitBegins \/ StageSource \/ CutChapter \/ CutFails
    \/ AsrBegins \/ WriteProvenance \/ NextChapter \/ DecodeHears \/ DecodeSilent \/ DecodeSlow
    \/ DecodeBreaks \/ Freeze \/ FinishAsr \/ Sanitize

AsNextStep == AsStep \/ AsCut \/ AsCrash \/ AsRerun \/ AsPurge \/ AsRetry \/ SourceReplaced

AsSpec == AsInit /\ [][AsNextStep]_asVars

-----------------------------------------------------------------------------
AsTypeOK ==
    /\ asBook.stage \in AsStages \cup {"end"} /\ asBook.done \subseteq AsStages
    /\ asBook.sentinel \in [AsStages -> {"none", "written", "usable"}]
    /\ asDisk.manifest.style \in AsStyle \cup {"none"}
    /\ \A f \in asDisk.flac, g \in asDisk.flac : f.num = g.num => f = g
    /\ \A r \in asDisk.raw, q \in asDisk.raw : r.num = q.num => r = q
    /\ asLocal.attempt \in 1..AsAttempts /\ asLocal.reads \in {"none", "staged", "source"}
    /\ asWorld.left \in [AsFault -> Nat]

(* No narration is lost between the recording and the chapters: once the   *)
(* book is past its map, each second of it is in a chapter, in a gap short *)
(* enough for where it is, or in what the verdict declares, give or take   *)
(* the second a boundary may be off (audio.go:107, agent_stage.go:640).    *)
InChapter(t)  == \E i \in DOMAIN Chapters : Chapters[i].from <= t /\ t < Chapters[i].to
Declared(t)   == \E i \in DOMAIN asDeclared : asDeclared[i].from <= t /\ t < asDeclared[i].to
Lost(a, b)    == a < b /\ \A t \in a..(b - 1) : ~InChapter(t)
GapAround(t)  == CHOOSE r \in {g \in (0..t) \X ((t + 1)..asDisk.manifest.length) : Lost(g[1], g[2])} :
                     \A a \in 0..t, b \in (t + 1)..asDisk.manifest.length :
                         Lost(a, b) => r[1] <= a /\ b <= r[2]
ShortGap(t)   ==
    LET r == GapAround(t)
        edge == (r[1] = 0) # (r[2] = asDisk.manifest.length)
    IN  r[2] - r[1] < IF edge THEN AsEdge ELSE AsInterior

NarrationKept ==
    AsOrder[asBook.stage] > AsOrder["markers"] /\ asDisk.manifest.style = "markers" =>
        /\ AsContiguous(Chapters)
        /\ \A t \in 0..(asDisk.manifest.length - 1) :
            \/ InChapter(t) \/ ShortGap(t) \/ Declared(t)
            \/ InChapter(t - 1) \/ Declared(t - 1) \/ InChapter(t + 1) \/ Declared(t + 1)

(* The transcripts of a book that has been through asr are complete, frozen*)
(* and of one chapter map, the one its manifest holds (pipeline.go:608).   *)
RawsOfOneLayout ==
    AsOrder[asBook.stage] > AsOrder["asr"] =>
        /\ asDisk.info.under = asDisk.manifest
        /\ {r.num : r \in asDisk.raw} = {Chapters[i].num : i \in DOMAIN Chapters}
        /\ \A r \in asDisk.raw : r.whole /\ r.frozen /\ r.under = asDisk.manifest
        /\ asBook.stage = "end" => asDisk.text = {[num |-> r.num, under |-> r.under] : r \in asDisk.raw}
=============================================================================
