----------------------------- MODULE StageProofs ------------------------------
(***************************************************************************)
(* What the stages that prepare a book's text keep: the audio stages, whose*)
(* raw transcripts are of one chapter map, the name stages, whose corrected*)
(* layer and sheets keep the names of the book and its series, and the     *)
(* ebook stages, whose text, manifest and plan are of one split.  For each *)
(* the inductive invariant, the proof that every step preserves it, and    *)
(* the property a run checks.                                              *)
(***************************************************************************)
EXTENDS FlowProofs, AudioStages, SpellingStages, EbookStages, FiniteSetTheorems
LOCAL INSTANCE SequencesExt
LOCAL INSTANCE FiniteSetsExt

-----------------------------------------------------------------------------
(* The audio stages: where a book stands.  A stage that has its sentinel is*)
(* skipped, and one it goes back to has none.                              *)

AsWorking == {"work", "agent", "harvest", "stage", "cut", "provenance", "chapter", "decode", "freeze", "finish"}
AsPc      == {"idle", "sentinel", "advance"} \cup AsWorking \cup AsParks

AsBookOK ==
    /\ asBook \in [stage : AsStages \cup {"end"}, pc : AsPc,
                   sentinel : [AsStages -> {"none", "written", "usable"}], done : SUBSET AsStages]
    /\ \A s \in asBook.done : AsOrder[s] < AsOrder[asBook.stage]
    /\ asBook.stage = "end" => asBook.pc = "idle"
    /\ asBook.stage # "end" =>
          /\ asBook.sentinel[asBook.stage] # "none" => asBook.pc \in {"idle", "advance"}
          /\ asBook.pc = "advance" => asBook.sentinel[asBook.stage] # "none"

(* The raws on disk are of one chapter map, the one asr.json names, and    *)
(* what is derived from them is complete where a sentinel or a later stage *)
(* relies on it.                                                           *)
NumsOf(manifest) == {manifest.chapters[i].num : i \in DOMAIN manifest.chapters}
Transcribed ==
    /\ asDisk.info.under = asDisk.manifest
    /\ NumsOf(asDisk.manifest) \subseteq {r.num : r \in asDisk.raw}
    /\ \A r \in asDisk.raw : r.whole /\ r.frozen
AsDerived == asDisk.text = {[num |-> r.num, under |-> r.under] : r \in asDisk.raw}

AsShaped ==
    /\ DOMAIN asDisk = {"probe", "manifest", "staged", "flac", "raw", "info", "text"}
    /\ DOMAIN asLocal = DOMAIN AsIdle
    /\ \A r \in asDisk.raw : DOMAIN r = {"num", "under", "whole", "silent", "frozen", "of"}
AsOneMap ==
    /\ asDisk.info.under = NoManifest => asDisk.raw = {}
    /\ \A r \in asDisk.raw : r.under = asDisk.info.under /\ r.num \in NumsOf(r.under)
    /\ \A r, q \in asDisk.raw : r.num = q.num => r = q
AsListening ==
    asBook.stage = "asr" =>
        /\ asBook.pc \in {"provenance", "chapter", "decode", "freeze", "finish"} => asDisk.manifest # NoManifest
        /\ asBook.pc = "provenance" => asDisk.info.under \in {NoManifest, asDisk.manifest}
        /\ asBook.pc \in {"chapter", "decode", "freeze", "finish"} => asDisk.info.under = asDisk.manifest
        /\ asBook.pc = "decode" => asLocal.num \in NumsOf(asDisk.manifest)
AsPast(stage, pc) == \/ AsOrder[asBook.stage] > AsOrder[stage]
                     \/ asBook.stage = stage /\ (asBook.sentinel[stage] # "none" \/ asBook.pc \in pc)
AsComplete ==
    /\ AsPast("asr", {"finish", "sentinel"}) => Transcribed
    /\ AsPast("sanitizing", {"sentinel"}) => AsDerived

AsInv == AsBookOK /\ AsShaped /\ AsOneMap /\ AsListening /\ AsComplete

LEMMA LeastLost ==
    ASSUME NEW lost \in SUBSET AsStages, lost # {}
    PROVE  (CHOOSE x \in lost : lost \subseteq AsFrom(x)) \in lost
<1>1. \A s, t \in AsStages : t \in AsFrom(s) <=> AsOrder[t] >= AsOrder[s]
  BY DEF AsFrom
<1>2. \E x \in lost : \A t \in lost : AsOrder[x] <= AsOrder[t]
  <2>1. CASE "inspecting" \in lost
    BY <2>1 DEF AsStages, AsOrder
  <2>2. CASE "inspecting" \notin lost /\ "markers" \in lost
    BY <2>2 DEF AsStages, AsOrder
  <2>3. CASE lost \cap {"inspecting", "markers"} = {} /\ "splitting" \in lost
    BY <2>3 DEF AsStages, AsOrder
  <2>4. CASE lost \cap {"inspecting", "markers", "splitting"} = {} /\ "asr" \in lost
    BY <2>4 DEF AsStages, AsOrder
  <2>5. CASE lost \cap {"inspecting", "markers", "splitting", "asr"} = {}
    <3>1. lost = {"sanitizing"}
      BY <2>5 DEF AsStages
    <3> QED  BY <3>1 DEF AsOrder
  <2> QED  BY <2>1, <2>2, <2>3, <2>4, <2>5
<1>3. \A s \in AsStages : AsOrder[s] \in Nat
  BY DEF AsStages, AsOrder
<1>4. \E x \in lost : lost \subseteq AsFrom(x)
  BY <1>1, <1>2, <1>3
<1> QED  BY <1>4

(* Where reconcileBook sends a book. *)
LEMMA GoesBack ==
    ASSUME AsBookOK, NEW b2, asBook' = Reconciled(b2),
           b2.stage = asBook.stage, b2.done = asBook.done, b2.pc \in {"idle"} \cup AsParks,
           b2 \in [stage : AsStages \cup {"end"}, pc : AsPc,
                   sentinel : [AsStages -> {"none", "written", "usable"}], done : SUBSET AsStages],
           asBook.stage # "end",
           b2.pc # "idle" => b2.sentinel[b2.stage] = "none"
    PROVE  /\ AsBookOK' /\ asBook'.pc = b2.pc
           /\ \/ asBook' = b2
              \/ /\ AsOrder[asBook'.stage] < AsOrder[asBook.stage]
                 /\ asBook'.stage \in AsStages /\ asBook'.sentinel[asBook'.stage] = "none"
<1> DEFINE lost == {s \in b2.done : b2.sentinel[s] = "none"}
           least == CHOOSE x \in lost : lost \subseteq AsFrom(x)
<1>0. \A s \in AsStages \cup {"end"} : AsOrder[s] \in Nat
  BY DEF AsStages, AsOrder
<1>1. CASE lost = {}
  <2>1. asBook' = b2
    BY <1>1 DEF Reconciled
  <2> QED  BY <1>0, <2>1 DEF AsBookOK, AsParks
<1>2. CASE lost # {}
  <2>1. least \in lost
    BY <1>2, LeastLost
  <2>2. asBook' = [b2 EXCEPT !.stage = least, !.done = @ \ AsFrom(least)]
    BY <1>2 DEF Reconciled
  <2> HIDE DEF lost, least
  <2>3. least \in AsStages /\ AsOrder[least] < AsOrder[asBook.stage] /\ b2.sentinel[least] = "none"
    BY <2>1 DEF lost, AsBookOK
  <2>4. /\ asBook'.stage = least /\ asBook'.pc = b2.pc /\ asBook'.sentinel = b2.sentinel
        /\ asBook'.done = b2.done \ AsFrom(least)
        /\ asBook' \in [stage : AsStages \cup {"end"}, pc : AsPc,
                   sentinel : [AsStages -> {"none", "written", "usable"}], done : SUBSET AsStages]
    BY <2>2, <2>3
  <2>5. \A s \in asBook'.done : AsOrder[s] < AsOrder[least]
    BY <1>0, <2>3, <2>4 DEF AsFrom
  <2>6. asBook'.pc # "advance" /\ least # "end"
    BY <2>3, <2>4 DEF AsParks, AsStages
  <2> QED  BY <2>3, <2>4, <2>5, <2>6 DEF AsBookOK
<1> QED  BY <1>1, <1>2

(* Each step moves a book within its stage, or does one of four things. *)
AsPcMove ==
    /\ asBook' = [asBook EXCEPT !.pc = asBook'.pc] /\ asBook.stage # "end"
    /\ asBook.sentinel[asBook.stage] = "none" /\ asBook'.pc \in AsPc \ {"advance"}
AsWork ==
    \/ ToolsMissing \/ BackendMissing \/ Inspect \/ ReparseMarkers \/ MapMarkers \/ HarvestMap
    \/ SplitBegins \/ StageSource \/ CutChapter \/ CutFails
    \/ AsrBegins \/ WriteProvenance \/ NextChapter \/ DecodeHears \/ DecodeSilent \/ DecodeSlow
    \/ DecodeBreaks \/ Freeze \/ FinishAsr \/ Sanitize \/ AsCut

LEMMA WorkMoves == ASSUME AsBookOK, AsWork PROVE AsPcMove
<1>1. asBook.pc \in AsWorking /\ \E p \in AsPc \ {"advance"} : asBook' = [asBook EXCEPT !.pc = p]
  <2>0. asBook.pc \in AsPc /\ asBook = [asBook EXCEPT !.pc = asBook.pc]
    BY DEF AsBookOK
  <2>1. CASE ToolsMissing \/ BackendMissing \/ Inspect \/ MapMarkers \/ HarvestMap \/ SplitBegins
    BY <2>1 DEF ToolsMissing, BackendMissing, Inspect, MapMarkers, HarvestMap, SplitBegins, AsIn, AsGo, AsPark,
                AsWorking, AsPc, AsParks
  <2>2. CASE ReparseMarkers
    BY <2>2 DEF ReparseMarkers, AsIn, AsGo, AsWorking, AsPc
  <2>3. CASE StageSource
    BY <2>3 DEF StageSource, AsIn, AsGo, AsWorking, AsPc
  <2>4. CASE CutChapter \/ CutFails
    BY <2>0, <2>4 DEF CutChapter, CutFails, AsIn, AsGo, AsPark, AsWorking, AsPc, AsParks
  <2>5. CASE AsrBegins \/ WriteProvenance
    BY <2>5 DEF AsrBegins, WriteProvenance, AsIn, AsGo, AsPark, AsWorking, AsPc, AsParks
  <2>6. CASE NextChapter
    <3>1. \E p \in {"finish", "decode", "failed"} : AsGo(p)
      BY <2>6 DEF NextChapter, AsPark
    <3> QED  BY <2>6, <3>1 DEF NextChapter, AsIn, AsGo, AsWorking, AsPc, AsParks
  <2>7. CASE DecodeHears \/ DecodeSilent \/ DecodeSlow \/ DecodeBreaks
    BY <2>0, <2>7 DEF DecodeHears, DecodeSilent, DecodeSlow, DecodeBreaks, AsIn, AsGo, AsPark, AsWorking, AsPc, AsParks
  <2>8. CASE Freeze \/ FinishAsr \/ Sanitize
    BY <2>8 DEF Freeze, FinishAsr, Sanitize, AsIn, AsGo, AsPark, AsWorking, AsPc, AsParks
  <2>9. CASE AsCut
    BY <2>9 DEF AsCut, AsGo, AsWorking, AsPc
  <2> QED  BY <2>1, <2>2, <2>3, <2>4, <2>5, <2>6, <2>7, <2>8, <2>9 DEF AsWork
<1>2. asBook.stage # "end" /\ asBook.sentinel[asBook.stage] = "none"
  BY <1>1 DEF AsBookOK, AsWorking
<1> QED  BY <1>1, <1>2 DEF AsPcMove, AsBookOK

LEMMA BookKept ==
    ASSUME AsBookOK, [AsNextStep]_asVars
    PROVE  AsBookOK'
<1>1. CASE AsPcMove
  BY <1>1 DEF AsPcMove, AsBookOK
<1>2. CASE AsDispatch
  BY <1>2 DEF AsDispatch, AsGo, AsBookOK, AsPc, AsWorking
<1>3. CASE AsSentinel
  BY <1>3 DEF AsSentinel, AsBookOK, AsPc
<1>4. CASE AsAdvance
  <2>1. PICK next : next = AsNext(asBook.stage)
    OBVIOUS
  <2>2. /\ next \in AsStages \cup {"end"} /\ asBook.stage \in AsStages
        /\ AsOrder[asBook.stage] < AsOrder[next]
    BY <1>4, <2>1 DEF AsAdvance, AsBookOK, AsNext, AsStages, AsOrder
  <2>3. asBook' = [stage |-> next, pc |-> "idle", done |-> asBook.done \cup {asBook.stage},
                   sentinel |-> [s \in AsStages |-> IF s = next THEN "none" ELSE asBook.sentinel[s]]]
    BY <1>4, <2>1 DEF AsAdvance
  <2>4. \A s \in AsStages \cup {"end"} : AsOrder[s] \in Nat
    BY DEF AsStages, AsOrder
  <2>5. \A s \in asBook'.done : AsOrder[s] < AsOrder[next]
    BY <2>2, <2>3, <2>4 DEF AsBookOK
  <2> QED  BY <2>2, <2>3, <2>5 DEF AsBookOK, AsPc
<1>5. CASE AsCrash
  <2>1. PICK b2 : b2 = [asBook EXCEPT !.pc = IF @ \in AsParks THEN @ ELSE "idle"]
    OBVIOUS
  <2>2. asBook' = Reconciled(b2) /\ asBook.stage # "end"
    BY <1>5, <2>1 DEF AsCrash, AsBookOK
  <2>3. b2.pc # "idle" => asBook.sentinel[asBook.stage] = "none"
    BY <2>1, <2>2 DEF AsBookOK, AsParks
  <2> QED  BY <2>1, <2>2, <2>3, GoesBack DEF AsBookOK, AsPc
<1>6. CASE AsPurge
  <2>1. PICK b2 : b2 = [asBook EXCEPT !.sentinel = AsUnwrite({"splitting"})]
    OBVIOUS
  <2>2. asBook' = Reconciled(b2) /\ asBook.pc \in AsParks /\ asBook.stage # "end"
    BY <1>6, <2>1 DEF AsPurge, AsBookOK, AsParks
  <2>3. asBook.sentinel[asBook.stage] = "none"
    BY <2>2 DEF AsBookOK, AsParks
  <2>4. b2 = [asBook EXCEPT !.sentinel = [s \in AsStages |-> IF s = "splitting" THEN "none" ELSE asBook.sentinel[s]]]
    BY <2>1 DEF AsUnwrite
  <2> QED  BY <2>2, <2>3, <2>4, GoesBack DEF AsBookOK, AsPc
<1>7. CASE AsRerun
  <2>1. PICK s \in AsStages :
            asBook' = [stage |-> s, pc |-> "idle", done |-> asBook.done \ AsFrom(s),
                       sentinel |-> AsUnwrite(AsFrom(s))]
    BY <1>7 DEF AsRerun
  <2>2. \A t \in AsStages \cup {"end"} : AsOrder[t] \in Nat
    BY DEF AsStages, AsOrder
  <2>3. \A t \in asBook'.done : AsOrder[t] < AsOrder[s]
    BY <2>1, <2>2 DEF AsBookOK, AsFrom
  <2> QED  BY <2>1, <2>3 DEF AsBookOK, AsPc, AsUnwrite, AsStages
<1>8. CASE AsRetry
  BY <1>8 DEF AsRetry, AsBookOK, AsPc, AsParks, AsUnwrite
<1>9. CASE SourceReplaced \/ UNCHANGED asVars
  BY <1>9 DEF SourceReplaced, asVars, AsBookOK
<1> QED  BY <1>1, <1>2, <1>3, <1>4, <1>5, <1>6, <1>7, <1>8, <1>9, WorkMoves DEF AsNextStep, AsStep, AsWork

-----------------------------------------------------------------------------
(* What the steps do to the transcripts.                                   *)

(* Nothing the transcripts hang on is touched. *)
AsSameRaws ==
    /\ DOMAIN asDisk' = DOMAIN asDisk
    /\ asDisk'.raw = asDisk.raw /\ asDisk'.info = asDisk.info
AsSameMap == AsSameRaws /\ asDisk'.manifest = asDisk.manifest /\ asDisk'.text = asDisk.text

(* A chapter's raw is written again, whole or not. *)
AsRewritten ==
    \E whole, silent \in BOOLEAN : AsIn("asr", "decode") /\ asDisk' = Heard(whole, silent)

LEMMA SameMapKept ==
    ASSUME AsShaped, AsOneMap, AsSameRaws
    PROVE  AsOneMap'
  BY DEF AsOneMap, AsSameRaws

LEMMA RewrittenDoes ==
    ASSUME AsBookOK, AsShaped, AsOneMap, AsListening, AsRewritten
    PROVE  /\ DOMAIN asDisk' = DOMAIN asDisk
           /\ \A r \in asDisk'.raw : DOMAIN r = {"num", "under", "whole", "silent", "frozen", "of"}
           /\ AsOneMap'
           /\ asDisk'.manifest = asDisk.manifest /\ asDisk'.info = asDisk.info /\ asDisk'.text = asDisk.text
           /\ asBook.stage = "asr" /\ asBook.sentinel["asr"] = "none"
<1>1. PICK new : /\ asDisk' = [asDisk EXCEPT !.raw = (@ \ RawOf(asLocal.num)) \cup {new}]
                 /\ new.num = asLocal.num /\ new.under = asDisk.manifest
                 /\ DOMAIN new = {"num", "under", "whole", "silent", "frozen", "of"}
  <2>1. PICK whole \in BOOLEAN, silent \in BOOLEAN : asDisk' = Heard(whole, silent)
    BY DEF AsRewritten
  <2>2. PICK new : new = [num |-> asLocal.num, under |-> asDisk.manifest, whole |-> whole, silent |-> silent,
                          frozen |-> FALSE, of |-> CHOOSE f \in asDisk.flac : f.num = asLocal.num]
    OBVIOUS
  <2>3. asDisk' = [asDisk EXCEPT !.raw = (@ \ RawOf(asLocal.num)) \cup {new}]
    BY <2>1, <2>2 DEF Heard
  <2> HIDE <2>2
  <2>4. /\ new.num = asLocal.num /\ new.under = asDisk.manifest
        /\ DOMAIN new = {"num", "under", "whole", "silent", "frozen", "of"}
    BY <2>2
  <2> QED  BY <2>3, <2>4
<1>2. asBook.stage = "asr" /\ asBook.pc = "decode" /\ asBook.sentinel["asr"] = "none"
  BY DEF AsRewritten, AsIn, AsBookOK
<1>3. /\ asDisk.info.under = asDisk.manifest /\ asDisk.manifest # NoManifest
      /\ asLocal.num \in NumsOf(asDisk.manifest)
  BY <1>2 DEF AsListening
<1>4. /\ asDisk'.raw = (asDisk.raw \ RawOf(asLocal.num)) \cup {new} /\ DOMAIN asDisk' = DOMAIN asDisk
      /\ asDisk'.manifest = asDisk.manifest /\ asDisk'.info = asDisk.info /\ asDisk'.text = asDisk.text
  BY <1>1 DEF AsShaped
<1>5. \A r \in asDisk'.raw : (r \in asDisk.raw /\ r.num # asLocal.num) \/ r = new
  BY <1>4 DEF RawOf
<1>6. AsOneMap'
  BY <1>1, <1>3, <1>4, <1>5 DEF AsOneMap
<1> QED  BY <1>1, <1>2, <1>4, <1>5, <1>6 DEF AsShaped

(* Raws that are frozen again. *)
LEMMA FrozenAre ==
    ASSUME AsShaped, NEW raws \in SUBSET asDisk.raw
    PROVE  \A r \in Frozen(raws) :
              /\ DOMAIN r = {"num", "under", "whole", "silent", "frozen", "of"} /\ r.frozen
              /\ \E o \in raws : r.num = o.num /\ r.under = o.under /\ r.whole = o.whole
                                 /\ r = [o EXCEPT !.frozen = TRUE]
<1> SUFFICES ASSUME NEW o \in raws
             PROVE  LET r == [o EXCEPT !.frozen = TRUE]
                    IN  /\ DOMAIN r = {"num", "under", "whole", "silent", "frozen", "of"} /\ r.frozen
                        /\ r.num = o.num /\ r.under = o.under /\ r.whole = o.whole
  BY DEF Frozen
<1> QED  BY DEF AsShaped

LEMMA RefrozenKeep ==
    ASSUME AsShaped, AsOneMap, NEW raws \in SUBSET asDisk.raw, NEW kept \in SUBSET asDisk.raw,
           NEW new \in SUBSET (Frozen(raws) \cup kept), raws \cap kept = {},
           asDisk' = [asDisk EXCEPT !.raw = new]
    PROVE  /\ DOMAIN asDisk' = DOMAIN asDisk
           /\ \A r \in asDisk'.raw : DOMAIN r = {"num", "under", "whole", "silent", "frozen", "of"}
           /\ AsOneMap'
           /\ asDisk'.manifest = asDisk.manifest /\ asDisk'.info = asDisk.info /\ asDisk'.text = asDisk.text
<1>1. /\ asDisk'.raw = new /\ DOMAIN asDisk' = DOMAIN asDisk
      /\ asDisk'.manifest = asDisk.manifest /\ asDisk'.info = asDisk.info /\ asDisk'.text = asDisk.text
  BY DEF AsShaped
<1>2. \A r \in asDisk'.raw : \E o \in asDisk.raw :
          /\ r.num = o.num /\ r.under = o.under
          /\ (o \in raws /\ r = [o EXCEPT !.frozen = TRUE]) \/ (o \in kept /\ r = o)
  BY <1>1, FrozenAre
<1>3. \A r \in asDisk'.raw : r.under = asDisk.info.under /\ r.num \in NumsOf(r.under)
  BY <1>2 DEF AsOneMap
<1>4. ASSUME NEW r \in asDisk'.raw, NEW q \in asDisk'.raw, r.num = q.num PROVE r = q
  <2>1. PICK o \in asDisk.raw : /\ r.num = o.num
                                /\ (o \in raws /\ r = [o EXCEPT !.frozen = TRUE]) \/ (o \in kept /\ r = o)
    BY <1>2
  <2>2. PICK p \in asDisk.raw : /\ q.num = p.num
                                /\ (p \in raws /\ q = [p EXCEPT !.frozen = TRUE]) \/ (p \in kept /\ q = p)
    BY <1>2
  <2>3. o = p
    BY <1>4, <2>1, <2>2 DEF AsOneMap
  <2>4. PICK z : z = [o EXCEPT !.frozen = TRUE]
    OBVIOUS
  <2>5. (o \in raws /\ r = z) \/ (o \in kept /\ r = o)
    BY <2>1, <2>4
  <2>6. (o \in raws /\ q = z) \/ (o \in kept /\ q = o)
    BY <2>2, <2>3, <2>4
  <2>7. ~(o \in raws /\ o \in kept)
    OBVIOUS
  <2> HIDE <2>4
  <2> QED  BY <2>5, <2>6, <2>7
<1>5. asDisk'.info.under = NoManifest => asDisk'.raw = {}
  BY <1>1, <1>2 DEF AsOneMap
<1>6. AsOneMap'
  BY <1>1, <1>3, <1>4, <1>5 DEF AsOneMap
<1>7. \A r \in asDisk'.raw : DOMAIN r = {"num", "under", "whole", "silent", "frozen", "of"}
  BY <1>1, FrozenAre DEF AsShaped
<1> QED  BY <1>1, <1>6, <1>7

-----------------------------------------------------------------------------
(* Where a step leaves a book that is past its transcription.              *)

AsMoves == \/ AsDispatch \/ AsSentinel \/ AsAdvance \/ AsCrash \/ AsRerun \/ AsPurge \/ AsRetry
           \/ SourceReplaced \/ UNCHANGED asVars

LEMMA PastBefore ==
    ASSUME AsBookOK, [AsNextStep]_asVars, AsMoves,
           NEW s \in {"asr", "sanitizing"}, NEW pcs \in SUBSET {"finish", "sentinel"}, "sentinel" \in pcs,
           AsPast(s, pcs)'
    PROVE  AsPast(s, pcs)
<1>0. /\ s \in AsStages /\ AsOrder["asr"] = 4 /\ AsOrder["sanitizing"] = 5 /\ AsOrder["end"] = 6
      /\ \A t \in AsStages \cup {"end"} : AsOrder[t] \in Nat
      /\ \A t \in AsStages \cup {"end"} : AsOrder[t] > AsOrder["asr"] <=> t \in {"sanitizing", "end"}
      /\ \A t \in AsStages \cup {"end"} : AsOrder[t] > AsOrder["sanitizing"] <=> t = "end"
  BY DEF AsStages, AsOrder
<1>1. /\ asBook.stage \in AsStages \cup {"end"} /\ asBook'.stage \in AsStages \cup {"end"}
      /\ asBook'.pc \in AsPc
  BY BookKept DEF AsBookOK
<1>2. ASSUME asBook' = asBook PROVE AsPast(s, pcs)
  BY <1>2 DEF AsPast
<1>3. ASSUME asBook.stage # "end", asBook'.pc \notin pcs,
             \/ asBook'.stage = asBook.stage /\ \A t \in AsStages : asBook'.sentinel[t] \in {"none", asBook.sentinel[t]}
             \/ AsOrder[asBook'.stage] <= AsOrder[asBook.stage] /\ asBook'.stage \in AsStages
                /\ asBook'.sentinel[asBook'.stage] = "none"
      PROVE AsPast(s, pcs)
  <2>1. CASE AsOrder[asBook'.stage] > AsOrder[s]
    <3>2. AsOrder[asBook'.stage] \in Nat /\ AsOrder[asBook.stage] \in Nat /\ AsOrder[s] \in Nat
      BY <1>0, <1>1
    <3>1. AsOrder[asBook'.stage] <= AsOrder[asBook.stage]
      <4>1. CASE asBook'.stage = asBook.stage
        BY <3>2, <4>1
      <4>2. CASE asBook'.stage # asBook.stage
        BY <1>3, <4>2
      <4> QED  BY <4>1, <4>2
    <3>3. AsOrder[asBook.stage] > AsOrder[s]
      BY <2>1, <3>1, <3>2
    <3> QED  BY <3>3 DEF AsPast
  <2>2. CASE asBook'.stage = s /\ asBook'.sentinel[s] # "none"
    <3>1. asBook.stage = s /\ asBook.sentinel[s] # "none"
      BY <1>0, <1>3, <2>2
    <3> QED  BY <3>1 DEF AsPast
  <2> QED  BY <1>3, <2>1, <2>2 DEF AsPast
<1>4. CASE AsDispatch
  BY <1>0, <1>4 DEF AsDispatch, AsGo, AsPast, AsBookOK
<1>5. CASE AsSentinel
  <2>1. asBook.pc = "sentinel" /\ asBook'.stage = asBook.stage /\ asBook'.pc = "advance"
    BY <1>5 DEF AsSentinel, AsBookOK
  <2> QED  BY <2>1 DEF AsPast
<1>6. CASE AsAdvance
  <2>1. PICK next : next = AsNext(asBook.stage)
    OBVIOUS
  <2>2. /\ asBook'.stage = next /\ asBook'.pc = "idle" /\ asBook.pc = "advance"
        /\ next \in AsStages => asBook'.sentinel[next] = "none"
    BY <1>6, <2>1 DEF AsAdvance
  <2>3. asBook.stage \in AsStages /\ asBook.sentinel[asBook.stage] # "none"
    BY <2>2 DEF AsBookOK
  <2>4. /\ asBook.stage = "sanitizing" => next = "end"
        /\ asBook.stage = "asr" => next = "sanitizing"
        /\ asBook.stage \notin {"asr", "sanitizing"} => next \in {"markers", "splitting", "asr"}
    BY <2>1, <2>3 DEF AsNext, AsStages
  <2>5. AsOrder[next] > AsOrder[s]
    BY <1>0, <2>2 DEF AsPast
  <2>6. next \in AsStages \cup {"end"}
    BY <1>1, <2>2
  <2>7. CASE s = "sanitizing"
    BY <1>0, <2>3, <2>4, <2>5, <2>6, <2>7 DEF AsPast
  <2>8. CASE s = "asr"
    <3>1. next \in {"sanitizing", "end"}
      BY <1>0, <2>5, <2>6, <2>8
    <3>2. asBook.stage \in {"asr", "sanitizing"}
      BY <2>4, <3>1
    <3> QED  BY <1>0, <2>3, <2>8, <3>2 DEF AsPast
  <2> QED  BY <2>7, <2>8
<1>7. CASE AsCrash
  <2>1. PICK b2 : b2 = [asBook EXCEPT !.pc = IF @ \in AsParks THEN @ ELSE "idle"]
    OBVIOUS
  <2>2. asBook' = Reconciled(b2) /\ asBook.stage # "end"
    BY <1>7, <2>1 DEF AsCrash, AsBookOK
  <2>3. b2.pc # "idle" => asBook.sentinel[asBook.stage] = "none"
    BY <2>1, <2>2 DEF AsBookOK, AsParks
  <2>4. /\ b2 \in [stage : AsStages \cup {"end"}, pc : AsPc,
                   sentinel : [AsStages -> {"none", "written", "usable"}], done : SUBSET AsStages]
        /\ b2.stage = asBook.stage /\ b2.done = asBook.done /\ b2.sentinel = asBook.sentinel
        /\ b2.pc \in {"idle"} \cup AsParks
    BY <2>1 DEF AsBookOK, AsPc
  <2>5. /\ asBook'.pc = b2.pc
        /\ \/ asBook' = b2
           \/ /\ AsOrder[asBook'.stage] < AsOrder[asBook.stage]
              /\ asBook'.stage \in AsStages /\ asBook'.sentinel[asBook'.stage] = "none"
    BY <2>2, <2>3, <2>4, GoesBack
  <2>6. asBook'.pc \notin pcs
    BY <2>4, <2>5 DEF AsParks
  <2>7. CASE asBook' = b2
    BY <1>3, <2>2, <2>4, <2>6, <2>7
  <2>8. CASE AsOrder[asBook'.stage] < AsOrder[asBook.stage] /\ asBook'.stage \in AsStages
             /\ asBook'.sentinel[asBook'.stage] = "none"
    <3>1. AsOrder[asBook'.stage] <= AsOrder[asBook.stage]
      <4>1. AsOrder[asBook'.stage] \in Nat /\ AsOrder[asBook.stage] \in Nat
        BY <1>0, <1>1
      <4>2. \A m, n \in Nat : m < n => m <= n
        OBVIOUS
      <4> QED  BY <2>8, <4>1, <4>2
    <3> QED  BY <1>3, <2>2, <2>6, <2>8, <3>1
  <2> QED  BY <2>5, <2>7, <2>8
<1>8. CASE AsPurge
  <2>1. PICK b2 : b2 = [asBook EXCEPT !.sentinel = AsUnwrite({"splitting"})]
    OBVIOUS
  <2>2. asBook' = Reconciled(b2) /\ asBook.pc \in AsParks /\ asBook.stage # "end"
    BY <1>8, <2>1 DEF AsPurge, AsBookOK, AsParks
  <2>3. asBook.sentinel[asBook.stage] = "none"
    BY <2>2 DEF AsBookOK, AsParks
  <2>4. b2 = [asBook EXCEPT !.sentinel = [t \in AsStages |-> IF t = "splitting" THEN "none" ELSE asBook.sentinel[t]]]
    BY <2>1 DEF AsUnwrite
  <2>5. /\ b2 \in [stage : AsStages \cup {"end"}, pc : AsPc,
                   sentinel : [AsStages -> {"none", "written", "usable"}], done : SUBSET AsStages]
        /\ b2.stage = asBook.stage /\ b2.done = asBook.done /\ b2.pc = asBook.pc
        /\ \A t \in AsStages : b2.sentinel[t] \in {"none", asBook.sentinel[t]}
        /\ b2.sentinel[b2.stage] = "none"
    BY <2>2, <2>3, <2>4 DEF AsBookOK, AsPc
  <2>6. /\ asBook'.pc = b2.pc
        /\ \/ asBook' = b2
           \/ /\ AsOrder[asBook'.stage] < AsOrder[asBook.stage]
              /\ asBook'.stage \in AsStages /\ asBook'.sentinel[asBook'.stage] = "none"
    BY <2>2, <2>5, GoesBack
  <2>7. asBook'.pc \notin pcs
    BY <2>2, <2>5, <2>6 DEF AsParks
  <2>8. CASE asBook' = b2
    BY <1>3, <2>2, <2>5, <2>7, <2>8
  <2>9. CASE AsOrder[asBook'.stage] < AsOrder[asBook.stage] /\ asBook'.stage \in AsStages
             /\ asBook'.sentinel[asBook'.stage] = "none"
    <3>1. AsOrder[asBook'.stage] <= AsOrder[asBook.stage]
      <4>1. AsOrder[asBook'.stage] \in Nat /\ AsOrder[asBook.stage] \in Nat
        BY <1>0, <1>1
      <4>2. \A m, n \in Nat : m < n => m <= n
        OBVIOUS
      <4> QED  BY <2>9, <4>1, <4>2
    <3> QED  BY <1>3, <2>2, <2>7, <2>9, <3>1
  <2> QED  BY <2>6, <2>8, <2>9
<1>9. CASE AsRerun
  <2>1. PICK t \in AsStages :
            /\ AsOrder[t] <= AsOrder[asBook.stage] /\ asBook.stage # "end"
            /\ asBook' = [stage |-> t, pc |-> "idle", done |-> asBook.done \ AsFrom(t),
                          sentinel |-> AsUnwrite(AsFrom(t))]
    BY <1>9 DEF AsRerun
  <2>2. asBook'.sentinel[t] = "none"
    BY <1>0, <2>1 DEF AsUnwrite, AsFrom
  <2> QED  BY <1>0, <1>1, <1>3, <2>1, <2>2
<1>10. CASE AsRetry
  <2>1. /\ asBook.stage # "end" /\ asBook'.stage = asBook.stage /\ asBook'.pc = "idle"
        /\ \A t \in AsStages : asBook'.sentinel[t] \in {"none", asBook.sentinel[t]}
    BY <1>10 DEF AsRetry, AsBookOK, AsParks, AsUnwrite
  <2> QED  BY <1>3, <2>1
<1>11. CASE SourceReplaced \/ UNCHANGED asVars
  BY <1>2, <1>11 DEF SourceReplaced, asVars
<1> QED  BY <1>4, <1>5, <1>6, <1>7, <1>8, <1>9, <1>10, <1>11 DEF AsMoves

(* Completeness is only to be shown where a step makes it due. *)
LEMMA CompleteKept ==
    ASSUME AsBookOK, AsComplete, [AsNextStep]_asVars,
           AsMoves \/ /\ asBook'.stage = asBook.stage /\ asBook'.sentinel = asBook.sentinel
                      /\ asBook.stage = "asr" => asBook'.pc \notin {"finish", "sentinel"}
                      /\ asBook.stage = "sanitizing" => asBook'.pc # "sentinel",
           \/ AsSameMap
           \/ /\ asBook.stage = "asr" /\ asBook.sentinel["asr"] = "none"
              /\ asBook.pc \notin {"finish", "sentinel"}
           \/ asBook.stage \in {"inspecting", "markers"}
    PROVE  AsComplete'
<1>0. /\ AsOrder["inspecting"] = 1 /\ AsOrder["markers"] = 2 /\ AsOrder["asr"] = 4 /\ AsOrder["sanitizing"] = 5
  BY DEF AsOrder
<1>1. AsPast("asr", {"finish", "sentinel"})' => AsPast("asr", {"finish", "sentinel"})
  <2>1. CASE AsMoves
    BY <2>1, PastBefore
  <2>2. CASE ~AsMoves
    BY <2>2 DEF AsPast
  <2> QED  BY <2>1, <2>2
<1>2. AsPast("sanitizing", {"sentinel"})' => AsPast("sanitizing", {"sentinel"})
  <2>1. CASE AsMoves
    BY <2>1, PastBefore
  <2>2. CASE ~AsMoves
    BY <2>2 DEF AsPast
  <2> QED  BY <2>1, <2>2
<1>3. CASE AsSameMap
  BY <1>1, <1>2, <1>3 DEF AsComplete, AsSameMap, AsSameRaws, Transcribed, AsDerived
<1>4. CASE asBook.stage = "asr" /\ asBook.sentinel["asr"] = "none" /\ asBook.pc \notin {"finish", "sentinel"}
  BY <1>0, <1>1, <1>2, <1>4 DEF AsComplete, AsPast
<1>5. CASE asBook.stage \in {"inspecting", "markers"}
  BY <1>0, <1>1, <1>2, <1>5 DEF AsComplete, AsPast
<1> QED  BY <1>3, <1>4, <1>5

LEMMA LocalShaped ==
    ASSUME AsShaped, [AsNextStep]_asVars
    PROVE  DOMAIN asLocal' = DOMAIN AsIdle
<1>0. DOMAIN asLocal = DOMAIN AsIdle
  BY DEF AsShaped
<1>1. CASE asLocal' = asLocal \/ asLocal' = AsIdle
  BY <1>0, <1>1
<1>2. CASE AsDispatch
  BY <1>2 DEF AsDispatch, AsIdle
<1>3. CASE Inspect
  BY <1>0, <1>3 DEF Inspect
<1>4. CASE MapMarkers
  BY <1>0, <1>4 DEF MapMarkers, AsPark
<1>5. CASE StageSource
  <2>1. \E v : asLocal' = [asLocal EXCEPT !.reads = v]
    BY <1>5 DEF StageSource
  <2> QED  BY <1>0, <2>1
<1>6. CASE CutFails
  BY <1>0, <1>6 DEF CutFails, AsPark
<1>7. CASE NextChapter
  <2>1. asLocal' = asLocal \/ asLocal' = AsIdle
        \/ \E n : asLocal' = [asLocal EXCEPT !.num = n, !.noContext = FALSE, !.again = FALSE, !.silent = FALSE]
    BY <1>7 DEF NextChapter, AsPark
  <2> QED  BY <1>0, <2>1
<1>8. CASE DecodeSilent
  BY <1>0, <1>8 DEF DecodeSilent
<1>9. CASE DecodeSlow
  BY <1>0, <1>9 DEF DecodeSlow, AsPark
<1>10. CASE Freeze
  <2>1. \E v : asLocal' = [asLocal EXCEPT !.empty = v]
    BY <1>10 DEF Freeze
  <2> QED  BY <1>0, <2>1
<1>11. CASE SplitBegins \/ AsrBegins \/ Sanitize \/ ToolsMissing \/ BackendMissing \/ DecodeBreaks
  BY <1>1, <1>11 DEF SplitBegins, AsrBegins, Sanitize, ToolsMissing, BackendMissing, DecodeBreaks, AsPark
<1>12. CASE AsSentinel \/ AsAdvance \/ ReparseMarkers \/ HarvestMap \/ CutChapter \/ WriteProvenance
            \/ DecodeHears \/ FinishAsr
  BY <1>1, <1>12 DEF AsSentinel, AsAdvance, ReparseMarkers, HarvestMap, CutChapter, WriteProvenance, DecodeHears,
                     FinishAsr
<1>13. CASE AsCut \/ AsCrash \/ AsRerun \/ AsPurge \/ AsRetry \/ SourceReplaced \/ UNCHANGED asVars
  BY <1>1, <1>13 DEF AsCut, AsCrash, AsRerun, AsPurge, AsRetry, SourceReplaced, asVars
<1> QED  BY <1>2, <1>3, <1>4, <1>5, <1>6, <1>7, <1>8, <1>9, <1>10, <1>11, <1>12, <1>13 DEF AsNextStep, AsStep

(* Steps that touch no transcript. *)
LEMMA QuietKept ==
    ASSUME AsInv, [AsNextStep]_asVars,
           \/ AsDispatch \/ AsSentinel \/ AsAdvance \/ ToolsMissing \/ BackendMissing \/ MapMarkers \/ SplitBegins
           \/ AsrBegins \/ AsRetry \/ SourceReplaced \/ StageSource \/ CutChapter \/ CutFails \/ AsPurge
           \/ UNCHANGED asVars
    PROVE  (AsShaped /\ AsOneMap /\ AsListening /\ AsComplete)'
<1> USE DEF AsInv
<1>1. AsSameMap
  <2>1. CASE UNCHANGED asDisk
    BY <2>1 DEF AsSameMap, AsSameRaws
  <2>2. CASE StageSource
    <3>1. asDisk' = asDisk \/ \E v : asDisk' = [asDisk EXCEPT !.staged = v]
      BY <2>2 DEF StageSource
    <3> QED  BY <3>1 DEF AsSameMap, AsSameRaws, AsShaped
  <2>3. CASE CutChapter
    <3>1. \E v : asDisk' = [asDisk EXCEPT !.staged = v] \/ asDisk' = [asDisk EXCEPT !.flac = v]
      BY <2>3 DEF CutChapter
    <3> QED  BY <3>1 DEF AsSameMap, AsSameRaws, AsShaped
  <2>4. CASE AsPurge
    BY <2>4 DEF AsPurge, AsSameMap, AsSameRaws, AsShaped
  <2> QED  BY <2>1, <2>2, <2>3, <2>4 DEF AsDispatch, AsSentinel, AsAdvance, ToolsMissing, BackendMissing, MapMarkers,
              SplitBegins, AsrBegins, AsRetry, SourceReplaced, CutFails, asVars, AsKeep
<1>2. AsShaped'
  BY <1>1, LocalShaped DEF AsSameMap, AsSameRaws, AsShaped
<1>3. AsOneMap'
  BY <1>1, SameMapKept DEF AsSameMap
<1>4. AsListening'
  <2>1. CASE AsrBegins
    <3>1. asBook.stage = "asr" /\ asBook'.stage = "asr"
      BY <2>1 DEF AsrBegins, AsIn, AsGo, AsPark, AsBookOK
    <3>2. asBook'.pc \in {"failed", "manifest_changed", "provenance"}
      BY <2>1 DEF AsrBegins, AsGo, AsPark, AsBookOK
    <3>3. asBook'.pc = "provenance" => Chapters # <<>> /\ asDisk.info.under \in {NoManifest, asDisk.manifest}
      BY <2>1 DEF AsrBegins, AsGo, AsPark, AsBookOK
    <3>4. Chapters # <<>> => asDisk.manifest # NoManifest
      BY DEF Chapters, NoManifest
    <3> QED  BY <1>1, <3>1, <3>2, <3>3, <3>4 DEF AsListening, AsSameMap, AsSameRaws
  <2>2. CASE SourceReplaced \/ UNCHANGED asVars
    BY <2>2 DEF SourceReplaced, asVars, AsListening
  <2>3. CASE AsDispatch \/ AsSentinel \/ AsAdvance \/ AsRetry
    <3>1. asBook'.pc \in {"work", "advance", "idle"}
      <4>1. CASE AsDispatch
        BY <4>1 DEF AsDispatch, AsGo, AsBookOK
      <4>2. CASE AsSentinel \/ AsRetry
        BY <4>2 DEF AsSentinel, AsRetry, AsBookOK
      <4>3. CASE AsAdvance
        BY <4>3 DEF AsAdvance
      <4> QED  BY <2>3, <4>1, <4>2, <4>3
    <3> QED  BY <3>1 DEF AsListening
  <2>4. CASE ToolsMissing \/ BackendMissing \/ MapMarkers \/ SplitBegins \/ CutFails
    <3>1. asBook'.pc \in AsParks \cup {"harvest", "stage"}
      BY <2>4 DEF ToolsMissing, BackendMissing, MapMarkers, SplitBegins, CutFails, AsGo, AsPark, AsBookOK, AsParks
    <3> QED  BY <3>1 DEF AsListening, AsParks
  <2>5. CASE StageSource \/ CutChapter
    <3>1. asBook'.stage = "splitting"
      BY <2>5 DEF StageSource, CutChapter, AsIn, AsGo, AsBookOK
    <3> QED  BY <3>1 DEF AsListening
  <2>6. CASE AsPurge
    <3>1. asBook'.pc \in AsParks
      <4>1. PICK b2 : b2 = [asBook EXCEPT !.sentinel = AsUnwrite({"splitting"})]
        OBVIOUS
      <4>2. asBook' = Reconciled(b2) /\ b2.pc \in AsParks
        BY <2>6, <4>1 DEF AsPurge, AsBookOK
      <4>3. asBook'.pc = b2.pc
        BY <4>1, <4>2 DEF Reconciled, AsBookOK
      <4> QED  BY <4>2, <4>3
    <3> QED  BY <3>1 DEF AsListening, AsParks
  <2> QED  BY <2>1, <2>2, <2>3, <2>4, <2>5, <2>6
<1>5. AsComplete'
  <2>1. CASE AsMoves
    BY <1>1, <2>1, CompleteKept
  <2>2. CASE ~AsMoves
    <3>1. AsPcMove
      BY <2>2, WorkMoves DEF AsMoves, AsWork
    <3>2. /\ asBook'.stage = asBook.stage /\ asBook'.sentinel = asBook.sentinel
          /\ asBook.stage # "end" /\ asBook.sentinel[asBook.stage] = "none"
      BY <3>1 DEF AsPcMove, AsBookOK
    <3>3. /\ asBook.stage = "asr" => asBook'.pc \notin {"finish", "sentinel"}
          /\ asBook.stage = "sanitizing" => asBook'.pc # "sentinel"
      <4>1. CASE ToolsMissing \/ BackendMissing \/ MapMarkers \/ SplitBegins \/ AsrBegins \/ CutFails
        BY <4>1 DEF ToolsMissing, BackendMissing, MapMarkers, SplitBegins, AsrBegins, CutFails, AsGo, AsPark, AsBookOK
      <4>2. CASE StageSource \/ CutChapter
        BY <4>2 DEF StageSource, CutChapter, AsIn
      <4> QED  BY <2>2, <4>1, <4>2 DEF AsMoves
    <3> QED  BY <1>1, <3>2, <3>3, CompleteKept
  <2> QED  BY <2>1, <2>2
<1> QED  BY <1>2, <1>3, <1>4, <1>5

(* Steps that change the map, before anything is heard under it. *)
LEMMA MapKept ==
    ASSUME AsInv, [AsNextStep]_asVars, Inspect \/ ReparseMarkers \/ HarvestMap
    PROVE  (AsShaped /\ AsOneMap /\ AsListening /\ AsComplete)'
<1> USE DEF AsInv
<1>1. asBook.stage \in {"inspecting", "markers"}
  BY DEF Inspect, ReparseMarkers, HarvestMap, AsIn
<1>2. AsPcMove /\ asBook'.stage = asBook.stage /\ asBook'.sentinel = asBook.sentinel
  BY WorkMoves DEF AsWork, AsPcMove, AsBookOK
<1>3. AsSameRaws
  <2>1. asDisk' = asDisk \/ (\E v : asDisk' = [asDisk EXCEPT !.manifest = v])
          \/ (\E v, w : asDisk' = [asDisk EXCEPT !.probe = v, !.manifest = w])
    BY DEF Inspect, ReparseMarkers, HarvestMap
  <2> QED  BY <2>1 DEF AsShaped, AsSameRaws
<1>4. AsShaped'
  BY <1>3, LocalShaped DEF AsShaped, AsSameRaws
<1>5. AsComplete'
  BY <1>1, <1>2, CompleteKept
<1> QED  BY <1>1, <1>2, <1>3, <1>4, <1>5, SameMapKept DEF AsListening

LEMMA CutsDo ==
    ASSUME AsInv, AsCut \/ AsCrash \/ AsRerun
    PROVE  asBook'.pc \in {"idle"} \cup AsParks /\ (asDisk' = asDisk \/ AsRewritten)
<1> USE DEF AsInv
<1>1. asDisk' = asDisk \/ AsRewritten
  <2>1. asDisk' \in PartialRaws
    BY DEF AsCut, AsCrash, AsRerun
  <2> QED  BY <2>1 DEF PartialRaws, AsRewritten
<1>2. CASE AsCut
  BY <1>1, <1>2 DEF AsCut, AsGo, AsBookOK
<1>3. CASE AsCrash
  <2>1. PICK b2 : b2 = [asBook EXCEPT !.pc = IF @ \in AsParks THEN @ ELSE "idle"]
    OBVIOUS
  <2>2. asBook' = Reconciled(b2) /\ b2.pc \in {"idle"} \cup AsParks
    BY <1>3, <2>1 DEF AsCrash, AsBookOK
  <2>3. asBook'.pc = b2.pc
    BY <2>1, <2>2 DEF Reconciled, AsBookOK
  <2> QED  BY <1>1, <2>2, <2>3
<1>4. CASE AsRerun
  BY <1>1, <1>4 DEF AsRerun
<1> QED  BY <1>2, <1>3, <1>4

(* Steps that may leave a raw behind, whole or not. *)
LEMMA RewriteKept ==
    ASSUME AsInv, [AsNextStep]_asVars,
           DecodeHears \/ DecodeSilent \/ DecodeBreaks \/ AsCut \/ AsCrash \/ AsRerun
    PROVE  (AsShaped /\ AsOneMap /\ AsListening /\ AsComplete)'
<1> USE DEF AsInv
<1>1. asDisk' = asDisk \/ AsRewritten
  <2>1. CASE DecodeHears \/ DecodeSilent \/ DecodeBreaks
    BY <2>1 DEF DecodeHears, DecodeSilent, DecodeBreaks, AsRewritten
  <2> QED  BY <2>1, CutsDo
<1>2. /\ \/ asBook'.pc \in {"idle", "freeze"} \cup AsParks
         \/ asBook'.pc = "decode" /\ asLocal'.num = asLocal.num
      /\ asBook'.pc \in {"freeze", "decode"} => AsRewritten /\ asBook'.stage = "asr"
  <2>1. CASE AsCut \/ AsCrash \/ AsRerun
    BY <2>1, CutsDo DEF AsParks
  <2>2. CASE DecodeHears \/ DecodeBreaks
    BY <2>2 DEF DecodeHears, DecodeBreaks, AsRewritten, AsIn, AsGo, AsPark, AsBookOK, AsParks
  <2>3. CASE DecodeSilent
    BY <2>3 DEF DecodeSilent, AsRewritten, AsIn, AsGo, AsBookOK, AsShaped, AsIdle
  <2> QED  BY <2>1, <2>2, <2>3
<1>3. /\ AsShaped' /\ AsOneMap' /\ asDisk'.manifest = asDisk.manifest /\ asDisk'.info = asDisk.info
  <2>1. CASE AsRewritten
    BY <2>1, RewrittenDoes, LocalShaped DEF AsShaped
  <2>2. CASE asDisk' = asDisk
    BY <2>2, LocalShaped, SameMapKept DEF AsShaped, AsSameRaws
  <2> QED  BY <1>1, <2>1, <2>2
<1>4. AsListening'
  <2>1. CASE asBook'.pc \in {"idle"} \cup AsParks
    BY <2>1 DEF AsListening, AsParks
  <2>2. CASE asBook'.pc \in {"freeze", "decode"}
    <3>1. asBook.stage = "asr" /\ asBook.pc = "decode"
      BY <1>2, <2>2 DEF AsRewritten, AsIn
    <3>2. /\ asDisk.manifest # NoManifest /\ asDisk.info.under = asDisk.manifest
          /\ asLocal.num \in NumsOf(asDisk.manifest)
      BY <3>1 DEF AsListening
    <3>3. asBook'.pc = "decode" => asLocal'.num \in NumsOf(asDisk'.manifest)
      BY <1>2, <1>3, <3>2 DEF AsParks
    <3> QED  BY <1>3, <2>2, <3>2, <3>3 DEF AsListening
  <2> QED  BY <1>2, <2>1, <2>2
<1>5. AsComplete'
  <2>1. AsMoves \/ /\ asBook'.stage = asBook.stage /\ asBook'.sentinel = asBook.sentinel
                   /\ asBook'.pc \notin {"finish", "sentinel"}
    <3>1. CASE AsCrash \/ AsRerun
      BY <3>1 DEF AsMoves
    <3>2. CASE DecodeHears \/ DecodeSilent \/ DecodeBreaks \/ AsCut
      <4>1. AsPcMove
        BY <3>2, WorkMoves DEF AsWork
      <4> QED  BY <1>2, <4>1 DEF AsPcMove, AsBookOK, AsParks
    <3> QED  BY <3>1, <3>2
  <2>2. \/ AsSameMap
        \/ /\ asBook.stage = "asr" /\ asBook.sentinel["asr"] = "none"
           /\ asBook.pc \notin {"finish", "sentinel"}
    <3>1. CASE AsRewritten
      BY <3>1, RewrittenDoes DEF AsRewritten, AsIn
    <3>2. CASE asDisk' = asDisk
      BY <3>2 DEF AsSameMap, AsSameRaws
    <3> QED  BY <1>1, <3>1, <3>2
  <2> QED  BY <2>1, <2>2, CompleteKept
<1> QED  BY <1>3, <1>4, <1>5

(* Steps that freeze raws or take them away. *)
LEMMA RefreezeKept ==
    ASSUME AsInv, [AsNextStep]_asVars, NextChapter \/ DecodeSlow \/ Freeze
    PROVE  (AsShaped /\ AsOneMap /\ AsListening /\ AsComplete)'
<1> USE DEF AsInv
<1>0. /\ asBook.stage = "asr" /\ asBook.pc \in {"chapter", "decode", "freeze"} /\ asBook.sentinel["asr"] = "none"
      /\ asDisk.manifest # NoManifest /\ asDisk.info.under = asDisk.manifest
  BY DEF NextChapter, DecodeSlow, Freeze, AsIn, AsBookOK, AsListening
<1>1. asBook'.stage = "asr" /\ asBook'.sentinel = asBook.sentinel
  BY <1>0, WorkMoves DEF AsWork, AsPcMove, AsBookOK
<1>2. PICK raws \in SUBSET asDisk.raw, kept \in SUBSET asDisk.raw : \E new :
          /\ new \in SUBSET (Frozen(raws) \cup kept) /\ raws \cap kept = {}
          /\ asDisk' = [asDisk EXCEPT !.raw = new]
  <2>1. CASE NextChapter
    <3>1. CASE Unheard = {}
      <4>1. asDisk' = [asDisk EXCEPT !.raw = Frozen(asDisk.raw)]
        BY <2>1, <3>1 DEF NextChapter
      <4>2. PICK new : new = Frozen(asDisk.raw)
        OBVIOUS
      <4>3. asDisk' = [asDisk EXCEPT !.raw = new]
        BY <4>1, <4>2
      <4>4. PICK kept \in SUBSET asDisk.raw : kept = {}
        OBVIOUS
      <4>5. new \in SUBSET (Frozen(asDisk.raw) \cup kept) /\ asDisk.raw \cap kept = {}
        BY <4>2, <4>4
      <4> QED  BY <4>3, <4>5
    <3>2. CASE Unheard # {}
      <4>0. PICK over \in SUBSET asDisk.raw : \E gone :
                asDisk' = [asDisk EXCEPT !.raw = (Frozen(over) \cup (@ \ over)) \ gone]
        BY <2>1, <3>2 DEF NextChapter
      <4>1. PICK gone : asDisk' = [asDisk EXCEPT !.raw = (Frozen(over) \cup (@ \ over)) \ gone]
        BY <4>0
      <4>2. PICK new : new = (Frozen(over) \cup (asDisk.raw \ over)) \ gone
        OBVIOUS
      <4>3. asDisk' = [asDisk EXCEPT !.raw = new]
        BY <4>1, <4>2
      <4>4. new \in SUBSET (Frozen(over) \cup (asDisk.raw \ over))
        BY <4>2
      <4> QED  BY <4>3, <4>4
    <3> QED  BY <3>1, <3>2
  <2>2. CASE DecodeSlow
    <3>1. asDisk' = [asDisk EXCEPT !.raw = asDisk.raw \ RawOf(asLocal.num)]
      BY <2>2 DEF DecodeSlow
    <3>2. PICK new : new = asDisk.raw \ RawOf(asLocal.num)
      OBVIOUS
    <3>3. asDisk' = [asDisk EXCEPT !.raw = new]
      BY <3>1, <3>2
    <3>4. PICK raws \in SUBSET asDisk.raw : raws = {}
      OBVIOUS
    <3>5. new \in SUBSET (Frozen(raws) \cup asDisk.raw) /\ raws \cap asDisk.raw = {}
      BY <3>2, <3>4
    <3> QED  BY <3>3, <3>5
  <2>3. CASE Freeze
    <3>1. PICK raws \in SUBSET asDisk.raw : raws = RawOf(asLocal.num)
      BY DEF RawOf
    <3>2. PICK new : new = (asDisk.raw \ raws) \cup Frozen(raws)
      OBVIOUS
    <3>3. asDisk' = [asDisk EXCEPT !.raw = new]
      BY <2>3, <3>1, <3>2 DEF Freeze
    <3>4. new \in SUBSET (Frozen(raws) \cup (asDisk.raw \ raws))
      BY <3>2
    <3> QED  BY <3>3, <3>4
  <2> QED  BY <2>1, <2>2, <2>3
<1>2a. PICK new : /\ new \in SUBSET (Frozen(raws) \cup kept) /\ raws \cap kept = {}
                  /\ asDisk' = [asDisk EXCEPT !.raw = new]
  BY <1>2
<1>3. /\ AsShaped' /\ AsOneMap' /\ asDisk'.manifest = asDisk.manifest /\ asDisk'.info = asDisk.info
      /\ asDisk'.text = asDisk.text
  BY <1>2a, RefrozenKeep, LocalShaped DEF AsShaped
<1>4. AsListening'
  <2>1. asBook'.pc = "decode" => asLocal'.num \in NumsOf(asDisk.manifest)
    <3>1. CASE NextChapter /\ Unheard = {}
      BY <3>1 DEF NextChapter, AsGo, AsBookOK
    <3>2. CASE NextChapter /\ Unheard # {}
      <4>1. PICK todo \in Unheard :
                \/ asLocal' = [asLocal EXCEPT !.num = Chapters[todo].num, !.noContext = FALSE, !.again = FALSE,
                                              !.silent = FALSE]
                \/ asBook' = [asBook EXCEPT !.pc = "failed"]
        BY <3>2 DEF NextChapter, AsPark, AsGo
      <4>2. Chapters[todo].num \in NumsOf(asDisk.manifest)
        BY DEF Unheard, Chapters, NumsOf
      <4> QED  BY <4>1, <4>2 DEF AsShaped, AsIdle, AsBookOK
    <3>3. CASE DecodeSlow
      <4>1. asLocal.num \in NumsOf(asDisk.manifest)
        BY <3>3 DEF DecodeSlow, AsIn, AsListening
      <4>2. asBook'.pc = "decode" => asLocal' = [asLocal EXCEPT !.noContext = TRUE]
        BY <3>3 DEF DecodeSlow, AsPark, AsGo, AsBookOK
      <4> QED  BY <4>1, <4>2 DEF AsShaped, AsIdle
    <3>4. CASE Freeze
      BY <3>4 DEF Freeze, AsGo, AsBookOK
    <3> QED  BY <3>1, <3>2, <3>3, <3>4
  <2>2. asBook'.pc # "provenance"
    BY DEF NextChapter, DecodeSlow, Freeze, AsGo, AsPark, AsBookOK, AsIn
  <2> QED  BY <1>0, <1>3, <2>1, <2>2 DEF AsListening
<1>5. AsComplete'
  <2>1. CASE asBook'.pc \notin {"finish", "sentinel"}
    BY <1>0, <1>1, <2>1, CompleteKept
  <2>2. CASE asBook'.pc \in {"finish", "sentinel"}
    <3>1. NextChapter /\ Unheard = {}
      BY <1>0, <2>2 DEF NextChapter, DecodeSlow, Freeze, AsGo, AsPark, AsBookOK, AsIn
    <3>2. asDisk' = [asDisk EXCEPT !.raw = Frozen(asDisk.raw)]
      BY <3>1 DEF NextChapter
    <3>3. asDisk'.raw = Frozen(asDisk.raw)
      BY <3>2 DEF AsShaped
    <3>4. \A i \in DOMAIN Chapters : \E r \in asDisk.raw : r.num = Chapters[i].num /\ r.whole
      BY <3>1 DEF Unheard, RawOf
    <3>5. \A o \in asDisk.raw : o.whole
      <4> SUFFICES ASSUME NEW o \in asDisk.raw PROVE o.whole
        OBVIOUS
      <4>1. PICK i \in DOMAIN Chapters : o.num = Chapters[i].num
        BY <1>0 DEF AsOneMap, NumsOf, Chapters
      <4>2. PICK r \in asDisk.raw : r.num = Chapters[i].num /\ r.whole
        BY <3>4
      <4> QED  BY <4>1, <4>2 DEF AsOneMap
    <3>6. \A r \in asDisk'.raw : r.whole /\ r.frozen
      BY <3>3, <3>5, FrozenAre
    <3>7. NumsOf(asDisk.manifest) \subseteq {r.num : r \in asDisk'.raw}
      <4> SUFFICES ASSUME NEW i \in DOMAIN Chapters PROVE \E r \in asDisk'.raw : r.num = Chapters[i].num
        BY DEF NumsOf, Chapters
      <4>1. PICK o \in asDisk.raw : o.num = Chapters[i].num
        BY <3>4
      <4>2. [o EXCEPT !.frozen = TRUE] \in asDisk'.raw
        BY <3>3 DEF Frozen
      <4>3. [o EXCEPT !.frozen = TRUE].num = o.num
        BY DEF AsShaped
      <4> QED  BY <4>1, <4>2, <4>3
    <3>8. Transcribed'
      BY <1>0, <1>3, <3>6, <3>7 DEF Transcribed
    <3>9. ~AsPast("sanitizing", {"sentinel"})'
      BY <1>1 DEF AsPast, AsOrder
    <3> QED  BY <3>8, <3>9 DEF AsComplete
  <2> QED  BY <2>1, <2>2
<1> QED  BY <1>3, <1>4, <1>5

(* Steps that write what the raws are heard under, or are derived to. *)
LEMMA WriteKept ==
    ASSUME AsInv, [AsNextStep]_asVars, WriteProvenance \/ FinishAsr \/ Sanitize
    PROVE  (AsShaped /\ AsOneMap /\ AsListening /\ AsComplete)'
<1> USE DEF AsInv
<1>0. AsPcMove /\ asBook'.stage = asBook.stage /\ asBook'.sentinel = asBook.sentinel
  BY WorkMoves DEF AsWork, AsPcMove, AsBookOK
<1>1. CASE WriteProvenance
  <2>1. /\ asBook.stage = "asr" /\ asBook.pc = "provenance" /\ asBook'.pc = "chapter"
        /\ asDisk' = [asDisk EXCEPT !.info = [under |-> asDisk.manifest, empty |-> {}]]
    BY <1>1 DEF WriteProvenance, ProvenanceAtStart, AsIn, AsGo, AsBookOK
  <2>2. /\ DOMAIN asDisk' = DOMAIN asDisk /\ asDisk'.raw = asDisk.raw /\ asDisk'.manifest = asDisk.manifest
        /\ asDisk'.info.under = asDisk.manifest
    BY <2>1 DEF AsShaped
  <2>3. asDisk.info.under \in {NoManifest, asDisk.manifest} /\ asDisk.manifest # NoManifest
    BY <2>1 DEF AsListening
  <2>4. asDisk.raw = {} \/ asDisk.info.under = asDisk.manifest
    BY <2>3 DEF AsOneMap
  <2>5. AsOneMap'
    BY <2>2, <2>3, <2>4 DEF AsOneMap
  <2>6. AsShaped'
    BY <2>2, LocalShaped DEF AsShaped
  <2>7. AsComplete'
    BY <1>0, <2>1, CompleteKept DEF AsPcMove
  <2> QED  BY <1>0, <2>1, <2>2, <2>3, <2>5, <2>6, <2>7 DEF AsListening
<1>2. CASE FinishAsr
  <2>1. /\ asBook.stage = "asr" /\ asBook.pc = "finish" /\ asBook'.pc = "sentinel"
        /\ asBook.sentinel["asr"] = "none"
        /\ asDisk' = [asDisk EXCEPT !.info = [under |-> asDisk.manifest, empty |-> asLocal.empty]]
    BY <1>2 DEF FinishAsr, AsIn, AsGo, AsBookOK
  <2>2. /\ DOMAIN asDisk' = DOMAIN asDisk /\ asDisk'.raw = asDisk.raw /\ asDisk'.manifest = asDisk.manifest
        /\ asDisk'.info.under = asDisk.manifest
    BY <2>1 DEF AsShaped
  <2>3. asDisk.info.under = asDisk.manifest
    BY <2>1 DEF AsListening
  <2>4. AsOneMap'
    BY <2>2, <2>3 DEF AsOneMap
  <2>5. AsShaped'
    BY <2>2, LocalShaped DEF AsShaped
  <2>6. Transcribed'
    <3>1. Transcribed
      BY <2>1 DEF AsComplete, AsPast
    <3> QED  BY <2>2, <3>1 DEF Transcribed
  <2>7. ~AsPast("sanitizing", {"sentinel"})'
    BY <1>0, <2>1 DEF AsPast, AsOrder
  <2> QED  BY <1>0, <2>1, <2>4, <2>5, <2>6, <2>7 DEF AsListening, AsComplete
<1>3. CASE Sanitize
  <2>1. asBook.stage = "sanitizing"
    BY <1>3 DEF Sanitize, AsIn
  <2>2. CASE asDisk' = asDisk /\ asBook'.pc = "failed"
    <3>1. AsSameMap
      BY <2>2 DEF AsSameMap, AsSameRaws
    <3> QED  BY <1>0, <2>1, <2>2, <3>1, SameMapKept, LocalShaped, CompleteKept
             DEF AsShaped, AsListening, AsSameMap
  <2>3. CASE asDisk' = [asDisk EXCEPT !.text = {[num |-> r.num, under |-> r.under] : r \in asDisk.raw}]
    <3>1. /\ DOMAIN asDisk' = DOMAIN asDisk /\ asDisk'.raw = asDisk.raw /\ asDisk'.manifest = asDisk.manifest
          /\ asDisk'.info = asDisk.info
          /\ asDisk'.text = {[num |-> r.num, under |-> r.under] : r \in asDisk.raw}
      BY <2>3 DEF AsShaped
    <3>2. AsOneMap' /\ AsShaped'
      BY <3>1, SameMapKept, LocalShaped DEF AsSameRaws, AsShaped
    <3>3. AsDerived'
      BY <3>1 DEF AsDerived
    <3>4. Transcribed'
      <4>1. Transcribed
        BY <2>1 DEF AsComplete, AsPast, AsOrder
      <4> QED  BY <3>1, <4>1 DEF Transcribed
    <3> QED  BY <1>0, <2>1, <3>2, <3>3, <3>4 DEF AsListening, AsComplete
  <2> QED  BY <1>3, <2>2, <2>3 DEF Sanitize, AsPark, AsGo, AsBookOK
<1> QED  BY <1>1, <1>2, <1>3

LEMMA AsInvInit == AsInit => AsInv
<1> SUFFICES ASSUME AsInit PROVE AsInv
  OBVIOUS
<1>1. /\ asBook = [stage |-> "inspecting", pc |-> "idle", sentinel |-> [s \in AsStages |-> "none"], done |-> {}]
      /\ asDisk.raw = {} /\ asDisk.info = NoInfo /\ asLocal = AsIdle
      /\ DOMAIN asDisk = {"probe", "manifest", "staged", "flac", "raw", "info", "text"}
  BY DEF AsInit
<1>2. AsBookOK
  BY <1>1 DEF AsBookOK, AsStages, AsPc
<1>3. AsComplete
  BY <1>1 DEF AsComplete, AsPast, AsOrder
<1> QED  BY <1>1, <1>2, <1>3 DEF AsInv, AsShaped, AsOneMap, AsListening

LEMMA AsInvStep == AsInv /\ [AsNextStep]_asVars => AsInv'
<1> SUFFICES ASSUME AsInv, [AsNextStep]_asVars PROVE AsInv'
  OBVIOUS
<1>1. AsBookOK'
  BY BookKept DEF AsInv
<1>2. (AsShaped /\ AsOneMap /\ AsListening /\ AsComplete)'
  BY QuietKept, MapKept, RewriteKept, RefreezeKept, WriteKept DEF AsNextStep, AsStep
<1> QED  BY <1>1, <1>2 DEF AsInv

(* For every recording, every verdict on its markers, every number of      *)
(* interruptions, restarts, reruns, purges, outages and replacements of the*)
(* source: a book past asr has all its chapters transcribed, complete and  *)
(* frozen, under the one map its manifest holds (pipeline.go:608).         *)
THEOREM TranscriptsOfOneMap == AsSpec => []RawsOfOneLayout
<1>1. AsInv => RawsOfOneLayout
  <2> SUFFICES ASSUME AsInv, AsOrder[asBook.stage] > AsOrder["asr"]
               PROVE  /\ asDisk.info.under = asDisk.manifest
                      /\ {r.num : r \in asDisk.raw} = {Chapters[i].num : i \in DOMAIN Chapters}
                      /\ \A r \in asDisk.raw : r.whole /\ r.frozen /\ r.under = asDisk.manifest
                      /\ asBook.stage = "end" => AsDerived
    BY DEF RawsOfOneLayout, AsDerived
  <2>1. Transcribed
    BY DEF AsInv, AsComplete, AsPast
  <2>2. asBook.stage = "end" => AsDerived
    BY DEF AsInv, AsComplete, AsPast, AsOrder
  <2>3. \A r \in asDisk.raw : r.under = asDisk.manifest /\ r.num \in NumsOf(asDisk.manifest)
    BY <2>1 DEF AsInv, AsOneMap, Transcribed
  <2>4. NumsOf(asDisk.manifest) = {Chapters[i].num : i \in DOMAIN Chapters}
    BY DEF NumsOf, Chapters
  <2>5. {r.num : r \in asDisk.raw} = NumsOf(asDisk.manifest)
    BY <2>1, <2>3 DEF Transcribed
  <2> QED  BY <2>1, <2>2, <2>3, <2>4, <2>5 DEF Transcribed
<1> QED  BY <1>1, AsInvInit, AsInvStep, PTL DEF AsSpec

-----------------------------------------------------------------------------
(* The names of a book: where its stages stand.  What a stage has done is  *)
(* there as long as the book is past it.                                   *)

SpWorking == {"work", "find", "texts", "ledger", "rules", "glossary", "corpus", "agent", "harvest",
              "harvest_ledger", "apply", "check", "sheets"}
SpPc      == {"idle", "sentinel", "advance", "failed"} \cup SpWorking

SpBookOK ==
    /\ spBook \in [stage : SpStages \cup {"tail"}, pc : SpPc, sentinel : SUBSET SpStages, done : SUBSET SpStages]
    /\ spBook.done \subseteq spBook.sentinel
    /\ \A s \in spBook.done : SpOrder[s] < SpOrder[spBook.stage]
    /\ spBook.stage = "tail" => spBook.pc = "idle"
    /\ spBook.stage \in spBook.sentinel => spBook.pc \in {"idle", "advance"}
    /\ spBook.pc = "advance" => spBook.stage \in spBook.sentinel

SpShaped ==
    /\ DOMAIN spDisk = {"text", "plan", "refs", "corrections", "spellings", "corrected", "sheets"}
    /\ DOMAIN spDisk.refs = {"glossary", "texts", "ledger", "rules"}
    /\ DOMAIN spLocal = {"corpus", "out", "at"}
    /\ DOMAIN spWorld = {"case", "pred", "cache", "left"} /\ spWorld.case \in DOMAIN SpCases
    /\ spDisk.text \in {SpCase.text, SpCase.repaired}
    /\ spDisk.corrected = [c \in DOMAIN SpCase.text |-> spDisk.corrected[c]]

(* The references: the texts are there before the ledger that needs them,  *)
(* and the glossary is of earlier volumes only.                            *)
SpReferred ==
    /\ spDisk.refs.ledger \in {NoLedger, SpCase.pred.ledger}
    /\ spDisk.refs.ledger.here => SpCase.pred.texts \subseteq spDisk.refs.texts
    /\ spBook.stage = "spelling" /\ spBook.pc \in {"ledger", "rules"} =>
          SpCase.pred.texts \subseteq spDisk.refs.texts
    /\ spWorld.cache.here => spWorld.cache.names = Shortened(GlossaryOf(Fetched(Earlier)))
    /\ spDisk.refs.glossary \subseteq GlossaryOf(Earlier)

(* The agent's outputs are valid against what it was given, and what it was*)
(* given is what is still there.                                           *)
SpValidFor(corrections, spellings, text, refs, plan, titles) ==
    ValidOutputs([corrections |-> corrections, spellings |-> spellings], [text |-> text, refs |-> refs], titles, plan)
SpValid(corrections, spellings) ==
    SpValidFor(corrections, spellings, spDisk.text, spDisk.refs, spDisk.plan, SpCase.titles)
SpAt(pcs) == spBook.stage = "spelling" /\ spBook.pc \in pcs
SpResearched == spBook.stage # "spelling" \/ "spelling" \in spBook.sentinel \/ SpAt({"sentinel"})
SpResearch ==
    /\ spDisk.plan = <<>> => SpAt({"idle", "work"}) /\ "spelling" \notin spBook.sentinel
    /\ spDisk.plan \in {<<>>, SpCase.ends}
    /\ SpAt({"agent"}) => spLocal.corpus = [text |-> spDisk.text, refs |-> spDisk.refs]
    /\ SpAt({"harvest", "harvest_ledger"}) => SpValid(spLocal.out.corrections, spLocal.out.spellings)
    /\ SpAt({"harvest_ledger"}) => spDisk.corrections = spLocal.out.corrections
    /\ SpResearched => SpValid(spDisk.corrections, spDisk.spellings)

(* Correcting: chapter by chapter, then chunk by chunk.  A sheet of an     *)
(* earlier run stands for a chunk of the same plan until it is replaced.   *)
SpDoing(pcs) == spBook.stage = "correcting" /\ spBook.pc \in pcs
SpSettled ==
    \/ spBook.stage = "tail"
    \/ spBook.stage = "correcting" /\ "correcting" \in spBook.sentinel
    \/ SpDoing({"sentinel"})
SpNamed(s, spellings) == s.names = SheetOf(spellings, spDisk.corrected, s.end)
SpCorrect ==
    /\ SpDoing({"apply", "check", "sheets"}) =>
          spLocal.out = [corrections |-> spDisk.corrections, spellings |-> spDisk.spellings]
    /\ SpDoing({"apply"}) =>
          /\ spLocal.at \in DOMAIN SpCase.text
          /\ \A c \in 1..(spLocal.at - 1) : spDisk.corrected[c] = Apply(spDisk.text[c], spDisk.corrections.rules)
    /\ SpDoing({"check", "sheets"}) \/ SpSettled =>
          spDisk.corrected = Corrected(spDisk.text, spDisk.corrections.rules)
    /\ \A s \in spDisk.sheets : \E i \in DOMAIN SpCase.ends : s.end = SpCase.ends[i]
    /\ SpDoing({"sheets"}) =>
          /\ spLocal.at \in DOMAIN SpCase.ends
          /\ \A i \in 1..(spLocal.at - 1) :
                /\ \E s \in spDisk.sheets : s.end = SpCase.ends[i]
                /\ \A s \in spDisk.sheets : s.end = SpCase.ends[i] => SpNamed(s, spDisk.spellings)
    /\ SpSettled =>
          /\ \A i \in DOMAIN SpCase.ends : \E s \in spDisk.sheets : s.end = SpCase.ends[i]
          /\ \A s \in spDisk.sheets : SpNamed(s, spDisk.spellings)

SpInv == SpBookOK /\ SpShaped /\ SpReferred /\ SpResearch /\ SpCorrect

LEMMA SpConstants ==
    ASSUME SpShaped
    PROVE  /\ Len(SpCase.text) \in Nat \ {0} /\ DOMAIN SpCase.text = 1..Len(SpCase.text)
           /\ spDisk.text \in Seq(SUBSET [name : STRING, noble : BOOLEAN])
           /\ Len(spDisk.text) = Len(SpCase.text) /\ DOMAIN spDisk.text = DOMAIN SpCase.text
           /\ SpCase.ends \in Seq(Nat) /\ SpCase.ends # <<>> /\ Len(SpCase.ends) \in Nat \ {0}
           /\ DOMAIN SpCase.ends = 1..Len(SpCase.ends)
           /\ \A k, l \in DOMAIN SpCase.ends : k < l => SpCase.ends[k] < SpCase.ends[l]
<1>1. PICK c : c = SpCase
  OBVIOUS
<1>2. /\ {c.text, c.repaired} \subseteq Seq(SUBSET [name : STRING, noble : BOOLEAN]) \ {<<>>}
      /\ DOMAIN c.repaired = DOMAIN c.text /\ c.ends \in Seq(Nat) \ {<<>>}
      /\ \A k, l \in DOMAIN c.ends : k < l => c.ends[k] < c.ends[l]
  BY <1>1, SpAssumption DEF SpShaped, SpCase
<1>3. Len(c.text) = Len(c.repaired) /\ Len(c.text) \in Nat /\ DOMAIN c.text = 1..Len(c.text)
  BY <1>2
<1>4. Len(c.text) # 0 /\ Len(c.ends) # 0
  BY <1>2
<1> QED  BY <1>1, <1>2, <1>3, <1>4 DEF SpShaped

(* Which case a book is does not change. *)
LEMMA SpSameCase ==
    ASSUME SpShaped, [SpNext]_spVars
    PROVE  SpCase' = SpCase /\ spWorld'.case = spWorld.case /\ DOMAIN spWorld' = DOMAIN spWorld
<1>1. \/ spWorld' = spWorld
      \/ \E v : spWorld' = [spWorld EXCEPT !.left = v]
      \/ \E v : spWorld' = [spWorld EXCEPT !.cache = v]
      \/ \E v, w : spWorld' = [spWorld EXCEPT !.left = v, !.cache = w]
      \/ \E v, w : spWorld' = [spWorld EXCEPT !.pred = v, !.left = w]
  <2>1. CASE SpDispatch \/ SpSentinel \/ SpAdvance \/ KeepPlan \/ FindPredecessor \/ CopyCarryover \/ BuildCorpus
             \/ HarvestCorrections \/ HarvestSpellings \/ LoadData \/ ApplyChapter \/ CheckLayer \/ WriteSheet
             \/ SpRetry \/ UNCHANGED spVars
    BY <2>1 DEF SpDispatch, SpSentinel, SpAdvance, KeepPlan, FindPredecessor, CopyCarryover, BuildCorpus,
                HarvestCorrections, HarvestSpellings, LoadData, ApplyChapter, CheckLayer, WriteSheet, SpRetry, spVars
  <2>2. CASE FetchGlossary
    BY <2>2 DEF FetchGlossary
  <2>3. CASE Research \/ SpRerun
    BY <2>3 DEF Research, SpRerun, SpSpend
  <2>4. CASE SpCrash
    <3>1. PICK left, cache : spWorld' = [spWorld EXCEPT !.left = left, !.cache = cache]
      BY <2>4 DEF SpCrash
    <3> QED  BY <3>1
  <2>5. CASE PredecessorMoved
    <3>1. PICK pred, left : spWorld' = [spWorld EXCEPT !.pred = pred, !.left = left]
      BY <2>5 DEF PredecessorMoved
    <3> QED  BY <3>1
  <2> QED  BY <2>1, <2>2, <2>3, <2>4, <2>5 DEF SpNext
<1>2. spWorld'.case = spWorld.case /\ DOMAIN spWorld' = DOMAIN spWorld
  BY <1>1 DEF SpShaped
<1> QED  BY <1>2 DEF SpCase

(* The dry run was of the same inputs: the check of the corrected layer has*)
(* nothing to refuse.                                                      *)
LEMMA CheckPasses ==
    ASSUME SpInv, CheckLayer
    PROVE  /\ spBook.stage = "correcting" /\ spBook.pc = "check"
           /\ spBook' = [spBook EXCEPT !.pc = "sheets"] /\ spLocal' = [spLocal EXCEPT !.at = 1]
<1> USE DEF SpInv
<1>1. SpDoing({"check"}) /\ SpDoing({"apply", "check", "sheets"}) /\ SpDoing({"check", "sheets"}) /\ SpResearched
  BY DEF CheckLayer, SpIn, SpDoing, SpResearched
<1>2. SpValid(spDisk.corrections, spDisk.spellings)
  BY <1>1 DEF SpResearch
<1>3. GatesHold(spDisk.corrections, Corrected(spDisk.text, spDisk.corrections.rules), SpCase.titles, spDisk.refs)
  BY <1>2 DEF SpValid, SpValidFor, ValidOutputs, DryRunHolds
<1>4. GatesHold(spLocal.out.corrections, spDisk.corrected, SpCase.titles, spDisk.refs)
  BY <1>1, <1>3 DEF SpCorrect
<1> QED  BY <1>1, <1>4 DEF CheckLayer, SpGo, SpDoing

LEMMA SpBookKept ==
    ASSUME SpInv, [SpNext]_spVars
    PROVE  SpBookOK'
<1> USE DEF SpInv
<1>0. SpOrder = [spelling |-> 1, correcting |-> 2, tail |-> 3] /\ SpStages = {"spelling", "correcting"}
  BY DEF SpOrder, SpStages
<1>1. ASSUME spBook.stage # "tail", spBook.stage \notin spBook.sentinel,
             NEW pc \in SpPc \ {"advance"}, spBook' = [spBook EXCEPT !.pc = pc]
      PROVE  SpBookOK'
  BY <1>1 DEF SpBookOK
<1>2. spBook.pc \notin {"idle", "advance"} => spBook.stage # "tail" /\ spBook.stage \notin spBook.sentinel
  BY DEF SpBookOK
<1>3. spBook = [spBook EXCEPT !.pc = spBook.pc]
  BY DEF SpBookOK
<1>4. CASE KeepPlan \/ FindPredecessor \/ FetchGlossary \/ BuildCorpus \/ HarvestCorrections \/ HarvestSpellings \/ LoadData
  BY <1>1, <1>2, <1>4 DEF KeepPlan, FindPredecessor, FetchGlossary, BuildCorpus, HarvestCorrections, HarvestSpellings,
                          LoadData, SpIn, SpGo, CarryoverOrder, SpPc, SpWorking
<1>5. CASE CopyCarryover
  BY <1>1, <1>2, <1>5 DEF CopyCarryover, SpIn, SpGo, CarryoverOrder, SpPc, SpWorking
<1>6. CASE Research \/ ApplyChapter
  BY <1>1, <1>2, <1>6 DEF Research, ApplyChapter, SpIn, SpGo, SpPark, SpPc, SpWorking
<1>7. CASE CheckLayer
  BY <1>1, <1>2, <1>7, CheckPasses DEF SpPc, SpWorking
<1>8. CASE WriteSheet
  BY <1>1, <1>2, <1>8 DEF WriteSheet, SpIn, SpGo, SpPark, SpPc, SpWorking
<1>9. CASE SpDispatch
  BY <1>9 DEF SpDispatch, SpGo, SpBookOK, SpPc, SpWorking, SpStages
<1>10. CASE SpSentinel
  BY <1>10 DEF SpSentinel, SpBookOK, SpPc
<1>11. CASE SpAdvance
  <2>1. PICK next : next = IF spBook.stage = "spelling" THEN "correcting" ELSE "tail"
    OBVIOUS
  <2>2. spBook' = [stage |-> next, pc |-> "idle", done |-> spBook.done \cup {spBook.stage},
                   sentinel |-> spBook.sentinel \ {next}]
    BY <1>11, <2>1 DEF SpAdvance
  <2>3. /\ spBook.stage \in spBook.sentinel /\ spBook.stage \in SpStages /\ next \in SpStages \cup {"tail"}
        /\ next \notin spBook.done /\ SpOrder[spBook.stage] < SpOrder[next]
        /\ \A s \in spBook.done : SpOrder[s] < SpOrder[next]
    BY <1>0, <1>11, <2>1 DEF SpAdvance, SpBookOK
  <2> QED  BY <1>0, <2>2, <2>3 DEF SpBookOK, SpPc
<1>12. CASE SpCrash
  <2>1. PICK b2 : b2 = [spBook EXCEPT !.pc = IF @ \in SpParks THEN @ ELSE "idle"]
    OBVIOUS
  <2>2. spBook' = SpReconciled(b2)
    BY <1>12, <2>1 DEF SpCrash
  <2>3. b2.done \ b2.sentinel = {}
    BY <2>1 DEF SpBookOK
  <2>4. spBook' = b2
    BY <2>2, <2>3 DEF SpReconciled
  <2> QED  BY <1>2, <2>1, <2>4 DEF SpBookOK, SpPc, SpParks, SpWorking
<1>13. CASE SpRerun
  <2>1. PICK s \in SpStages :
            /\ SpOrder[s] <= SpOrder[spBook.stage]
            /\ spBook' = [stage |-> s, pc |-> "idle", done |-> spBook.done \ SpFrom(s),
                          sentinel |-> spBook.sentinel \ SpFrom(s)]
    BY <1>13 DEF SpRerun
  <2>2. \A t \in spBook'.done : SpOrder[t] < SpOrder[s]
    BY <1>0, <2>1 DEF SpFrom, SpBookOK
  <2> QED  BY <2>1, <2>2 DEF SpBookOK, SpPc, SpStages
<1>14. CASE SpRetry
  BY <1>2, <1>14 DEF SpRetry, SpBookOK, SpPc, SpParks
<1>15. CASE PredecessorMoved \/ UNCHANGED spVars
  BY <1>15 DEF PredecessorMoved, spVars, SpBookOK
<1> QED  BY <1>4, <1>5, <1>6, <1>7, <1>8, <1>9, <1>10, <1>11, <1>12, <1>13, <1>14, <1>15 DEF SpNext

-----------------------------------------------------------------------------
(* What the steps of the two stages do.                                    *)

SpWork == \/ KeepPlan \/ FindPredecessor \/ CopyCarryover \/ FetchGlossary \/ BuildCorpus \/ Research
          \/ HarvestCorrections \/ HarvestSpellings \/ LoadData \/ ApplyChapter \/ CheckLayer \/ WriteSheet

LEMMA SpWorkDoes ==
    ASSUME SpInv, SpWork
    PROVE  /\ spBook'.stage = spBook.stage /\ spBook'.sentinel = spBook.sentinel
           /\ spBook.stage \in SpStages /\ spBook.stage \notin spBook.sentinel /\ spBook.pc \in SpWorking
<1> USE DEF SpInv
<1>1. spBook.pc \in SpWorking /\ \E pc : spBook' = [spBook EXCEPT !.pc = pc]
  <2>0. spBook = [spBook EXCEPT !.pc = spBook.pc]
    BY DEF SpBookOK
  <2>1. CASE KeepPlan \/ FindPredecessor \/ FetchGlossary \/ BuildCorpus \/ HarvestCorrections \/ HarvestSpellings
             \/ LoadData
    BY <2>1 DEF KeepPlan, FindPredecessor, FetchGlossary, BuildCorpus, HarvestCorrections, HarvestSpellings,
                LoadData, SpIn, SpGo, SpWorking
  <2>2. CASE CopyCarryover
    <3>1. PICK i \in {1, 2, 3} : /\ spBook.pc = CarryoverOrder[i]
                                 /\ spBook' = [spBook EXCEPT !.pc = IF i = 3 THEN "glossary" ELSE CarryoverOrder[i + 1]]
      BY <2>2 DEF CopyCarryover, SpIn, SpGo, CarryoverOrder
    <3> QED  BY <3>1 DEF CarryoverOrder, SpWorking
  <2>3. CASE Research \/ ApplyChapter \/ CheckLayer \/ WriteSheet
    BY <2>3 DEF Research, ApplyChapter, CheckLayer, WriteSheet, SpIn, SpGo, SpPark, SpWorking
  <2> QED  BY <2>1, <2>2, <2>3 DEF SpWork
<1>2. spBook.stage # "tail" /\ spBook.stage \notin spBook.sentinel
  BY <1>1 DEF SpBookOK, SpWorking
<1> QED  BY <1>1, <1>2 DEF SpBookOK

LEMMA SpDiskDoes ==
    ASSUME SpInv, [SpNext]_spVars
    PROVE  /\ DOMAIN spDisk' = DOMAIN spDisk
           /\ KeepPlan \/ spDisk'.plan = spDisk.plan
           /\ CopyCarryover \/ FetchGlossary \/ spDisk'.refs = spDisk.refs
           /\ HarvestCorrections \/ spDisk'.corrections = spDisk.corrections
           /\ HarvestSpellings \/ spDisk'.spellings = spDisk.spellings
           /\ ApplyChapter \/ spDisk'.corrected = spDisk.corrected
           /\ WriteSheet \/ spDisk'.sheets = spDisk.sheets
           /\ SpRerun \/ spDisk'.text = spDisk.text
<1> USE DEF SpInv
<1>1. CASE spDisk' = spDisk
  BY <1>1
<1>2. CASE KeepPlan
  <2>1. \E v : spDisk' = [spDisk EXCEPT !.plan = v]
    BY <1>2 DEF KeepPlan
  <2> QED  BY <1>2, <2>1 DEF SpShaped
<1>3. CASE CopyCarryover \/ FetchGlossary
  <2>1. \E v : spDisk' = [spDisk EXCEPT !.refs = v]
    <3>1. CASE CopyCarryover
      <4>1. PICK i \in DOMAIN CarryoverOrder :
                spDisk' = [spDisk EXCEPT !.refs[CarryoverOrder[i]] = Carried[CarryoverOrder[i]]]
        BY <3>1 DEF CopyCarryover
      <4> QED  BY <4>1
    <3>2. CASE FetchGlossary
      BY <3>2 DEF FetchGlossary
    <3> QED  BY <1>3, <3>1, <3>2
  <2> QED  BY <1>3, <2>1 DEF SpShaped
<1>4. CASE HarvestCorrections \/ HarvestSpellings
  BY <1>4 DEF HarvestCorrections, HarvestSpellings, SpShaped
<1>5. CASE ApplyChapter
  <2>1. \E v : spDisk' = [spDisk EXCEPT !.corrected = v]
    BY <1>5 DEF ApplyChapter
  <2> QED  BY <1>5, <2>1 DEF SpShaped
<1>6. CASE WriteSheet
  <2>1. spDisk' = spDisk \/ \E v : spDisk' = [spDisk EXCEPT !.sheets = v]
    BY <1>6 DEF WriteSheet
  <2> QED  BY <1>6, <2>1 DEF SpShaped
<1>7. CASE SpRerun
  <2>1. \E v : spDisk' = [spDisk EXCEPT !.text = v]
    BY <1>7 DEF SpRerun
  <2> QED  BY <1>7, <2>1 DEF SpShaped
<1> QED  BY <1>1, <1>2, <1>3, <1>4, <1>5, <1>6, <1>7
         DEF SpNext, SpDispatch, SpSentinel, SpAdvance, FindPredecessor, BuildCorpus, Research, LoadData, CheckLayer,
             SpCrash, SpRetry, PredecessorMoved, spVars

LEMMA SpLocalDoes ==
    ASSUME SpInv, [SpNext]_spVars
    PROVE  DOMAIN spLocal' = {"corpus", "out", "at"}
<1> USE DEF SpInv
<1>1. CASE spLocal' = spLocal \/ spLocal' = SpIdle
  BY <1>1 DEF SpShaped, SpIdle
<1>2. CASE LoadData
  <2>1. \E v : spLocal' = [SpIdle EXCEPT !.out = v]
    BY <1>2 DEF LoadData
  <2> QED  BY <2>1 DEF SpIdle
<1>3. CASE BuildCorpus \/ Research \/ ApplyChapter \/ CheckLayer \/ WriteSheet
  <2>1. \/ spLocal' = spLocal \/ spLocal' = SpIdle
        \/ \E v : spLocal' = [spLocal EXCEPT !.corpus = v]
        \/ \E v : spLocal' = [spLocal EXCEPT !.out = v]
        \/ \E v : spLocal' = [spLocal EXCEPT !.at = v]
    <3>1. CASE BuildCorpus
      BY <3>1 DEF BuildCorpus
    <3>2. CASE Research
      BY <3>2 DEF Research, SpPark
    <3>3. CASE ApplyChapter
      BY <3>3 DEF ApplyChapter
    <3>4. CASE CheckLayer
      BY <3>4 DEF CheckLayer, SpPark
    <3>5. CASE WriteSheet
      BY <3>5 DEF WriteSheet, SpPark
    <3> QED  BY <1>3, <3>1, <3>2, <3>3, <3>4, <3>5
  <2> QED  BY <1>1, <2>1 DEF SpShaped
<1> QED  BY <1>1, <1>2, <1>3
         DEF SpNext, SpDispatch, SpSentinel, SpAdvance, KeepPlan, FindPredecessor, CopyCarryover, FetchGlossary,
             HarvestCorrections, HarvestSpellings, SpCrash, SpRerun, SpRetry, PredecessorMoved, spVars

LEMMA SpShapedKept ==
    ASSUME SpInv, [SpNext]_spVars
    PROVE  SpShaped'
<1> USE DEF SpInv
<1>1. DOMAIN spDisk'.refs = DOMAIN spDisk.refs
  <2>1. CASE CopyCarryover
    <3>1. PICK i \in DOMAIN CarryoverOrder :
              spDisk' = [spDisk EXCEPT !.refs[CarryoverOrder[i]] = Carried[CarryoverOrder[i]]]
      BY <2>1 DEF CopyCarryover
    <3>2. PICK f : f = CarryoverOrder[i]
      OBVIOUS
    <3>3. PICK v : v = Carried[f]
      OBVIOUS
    <3>4. spDisk' = [spDisk EXCEPT !.refs[f] = v]
      BY <3>1, <3>2, <3>3
    <3> HIDE <3>1, <3>2, <3>3
    <3> QED  BY <3>4 DEF SpShaped
  <2>2. CASE FetchGlossary
    <3>1. \E v : spDisk' = [spDisk EXCEPT !.refs.glossary = v]
      BY <2>2 DEF FetchGlossary
    <3> QED  BY <3>1 DEF SpShaped
  <2> QED  BY <2>1, <2>2, SpDiskDoes
<1>2. spDisk'.text \in {SpCase.text, SpCase.repaired}
  <2>1. CASE SpRerun
    <3>1. PICK v \in {spDisk.text, SpCase.repaired} : spDisk' = [spDisk EXCEPT !.text = v]
      BY <2>1 DEF SpRerun
    <3> QED  BY <3>1 DEF SpShaped
  <2> QED  BY <2>1, SpDiskDoes DEF SpShaped
<1>3. spDisk'.corrected = [c \in DOMAIN SpCase.text |-> spDisk'.corrected[c]]
  <2>1. CASE ApplyChapter
    <3>1. PICK at, v : spDisk' = [spDisk EXCEPT !.corrected[at] = v]
      BY <2>1 DEF ApplyChapter
    <3>2. spDisk'.corrected = [spDisk.corrected EXCEPT ![at] = v]
      BY <3>1 DEF SpShaped
    <3>3. PICK f : f = spDisk.corrected
      OBVIOUS
    <3>4. PICK g : g = spDisk'.corrected
      OBVIOUS
    <3>5. f = [c \in DOMAIN SpCase.text |-> f[c]] /\ g = [f EXCEPT ![at] = v]
      BY <3>2, <3>3, <3>4 DEF SpShaped
    <3>6. g = [c \in DOMAIN SpCase.text |-> g[c]]
      BY <3>5
    <3> QED  BY <3>4, <3>6
  <2> QED  BY <2>1, SpDiskDoes DEF SpShaped
<1> QED  BY <1>1, <1>2, <1>3, SpSameCase, SpDiskDoes, SpLocalDoes DEF SpShaped

(* The references. *)
LEMMA EarlierNames ==
    ASSUME NEW vs, NEW ws, vs \subseteq ws
    PROVE  GlossaryOf(vs) \subseteq GlossaryOf(ws)
  BY DEF GlossaryOf

LEMMA ShortenedNames ==
    ASSUME NEW vs, vs \subseteq Earlier
    PROVE  Shortened(GlossaryOf(vs)) \subseteq GlossaryOf(Earlier)
  BY EarlierNames DEF Shortened

(* When every volume asked has answered, the caps ended the list where they*)
(* would have with all of them there.                                      *)
LEMMA AnsweredIsWhole ==
    ASSUME SpShaped, NEW reached \in SUBSET Earlier, Fetched(reached) \subseteq reached
    PROVE  Fetched(reached) = Fetched(Earlier)
<1>1. PICK n \in Nat : Earlier = 1..n
  <2>1. PICK c : c = SpCase
    OBVIOUS
  <2>2. c.series.names \in Seq(SUBSET STRING) /\ c.series.self \in DOMAIN c.series.names
        /\ c.series.caps \in [siblings : Nat, fetches : Nat, names : Nat]
    BY <2>1, SpAssumption DEF SpShaped, SpCase
  <2>3. c.series.self - 1 \in Nat
    BY <2>2
  <2> QED  BY <2>1, <2>3 DEF Earlier
<1>2. SpCase.series.caps.fetches \in Nat /\ SpCase.series.caps.siblings \in Nat
  <2>1. SpCase.series.caps \in [siblings : Nat, fetches : Nat, names : Nat]
    BY SpAssumption DEF SpShaped, SpCase
  <2> QED  BY <2>1
<1>3. ASSUME NEW S \in SUBSET Earlier, NEW T \in SUBSET Earlier, S \subseteq T
      PROVE  /\ Cardinality(S) \in Nat /\ Cardinality(T) \in Nat
             /\ Cardinality(S) <= Cardinality(T)
  <2>1. IsFiniteSet(1..n)
    BY FS_Interval
  <2>2. IsFiniteSet(T)
    BY <1>1, <2>1, FS_Subset
  <2> QED  BY <1>3, <2>2, FS_Subset, FS_CardinalityType
<1>4. \A R \in SUBSET Earlier : \A v \in Earlier :
         v \in Fetched(R) <=> /\ v - 1 < SpCase.series.caps.fetches
                             /\ Cardinality(Contributing(R, v)) < SpCase.series.caps.siblings
  BY DEF Fetched
<1>5. \A R \in SUBSET Earlier : \A v : Contributing(R, v) \in SUBSET Earlier
  BY DEF Contributing
<1>6. ASSUME NEW v \in Earlier, v \in Fetched(Earlier) PROVE v \in Fetched(reached)
  <2>1. Contributing(reached, v) \subseteq Contributing(Earlier, v)
    BY DEF Contributing
  <2>2. /\ Cardinality(Contributing(reached, v)) \in Nat /\ Cardinality(Contributing(Earlier, v)) \in Nat
        /\ Cardinality(Contributing(reached, v)) <= Cardinality(Contributing(Earlier, v))
    BY <1>3, <1>5, <2>1
  <2>3. Cardinality(Contributing(reached, v)) < SpCase.series.caps.siblings
    BY <1>2, <1>4, <1>6, <2>2
  <2> QED  BY <1>4, <1>6, <2>3
<1>7. ASSUME NEW v \in Earlier, v \in Fetched(reached) PROVE v \in Fetched(Earlier)
  <2>1. ASSUME NEW u \in Earlier, u < v PROVE u \in reached
    <3>1. Contributing(reached, u) \subseteq Contributing(reached, v)
      <4>1. \A x \in reached : x < u => x < v
        BY <1>1, <2>1
      <4> QED  BY <4>1 DEF Contributing
    <3>2. /\ Cardinality(Contributing(reached, u)) \in Nat /\ Cardinality(Contributing(reached, v)) \in Nat
          /\ Cardinality(Contributing(reached, u)) <= Cardinality(Contributing(reached, v))
      BY <1>3, <1>5, <3>1
    <3>3. Cardinality(Contributing(reached, u)) < SpCase.series.caps.siblings
      BY <1>2, <1>4, <1>7, <3>2
    <3>4. u - 1 < SpCase.series.caps.fetches
      BY <1>1, <1>2, <1>4, <1>7, <2>1
    <3> QED  BY <1>4, <3>3, <3>4
  <2>2. Contributing(Earlier, v) = Contributing(reached, v)
    BY <2>1 DEF Contributing
  <2> QED  BY <1>4, <1>7, <2>2
<1>8. Fetched(reached) \subseteq Earlier /\ Fetched(Earlier) \subseteq Earlier
  BY DEF Fetched
<1> QED  BY <1>6, <1>7, <1>8

LEMMA SpReferredKept ==
    ASSUME SpInv, [SpNext]_spVars
    PROVE  SpReferred'
<1> USE DEF SpInv
<1>0. SpCase' = SpCase /\ Earlier' = Earlier /\ GlossaryOf(Earlier)' = GlossaryOf(Earlier)
      /\ Shortened(GlossaryOf(Fetched(Earlier)))' = Shortened(GlossaryOf(Fetched(Earlier)))
  <2>1. SpCase' = SpCase /\ Earlier' = Earlier /\ GlossaryOf(Earlier)' = GlossaryOf(Earlier)
    BY SpSameCase DEF Earlier, GlossaryOf
  <2>2. Fetched(Earlier)' = Fetched(Earlier)
    BY <2>1 DEF Fetched, Contributing
  <2>3. GlossaryOf(Fetched(Earlier))' = GlossaryOf(Fetched(Earlier))
    BY <2>1, <2>2 DEF GlossaryOf
  <2>4. Shortened(GlossaryOf(Fetched(Earlier)))' = Shortened(GlossaryOf(Fetched(Earlier)))
    BY <2>1, <2>3 DEF Shortened, SortsBefore
  <2> QED  BY <2>1, <2>4
<1>1. spWorld'.cache.here => spWorld'.cache.names = Shortened(GlossaryOf(Fetched(Earlier)))
  <2>1. CASE FetchGlossary
    <3>1. spWorld' = spWorld \/ \E reached \in SUBSET Earlier : spWorld' = [spWorld EXCEPT !.cache = Remember(reached)]
      BY <2>1 DEF FetchGlossary
    <3>2. CASE \E reached \in SUBSET Earlier : spWorld' = [spWorld EXCEPT !.cache = Remember(reached)]
      <4>1. PICK reached \in SUBSET Earlier : spWorld' = [spWorld EXCEPT !.cache = Remember(reached)]
        BY <3>2
      <4>2. spWorld'.cache = Remember(reached)
        BY <4>1 DEF SpShaped
      <4>3. CASE Fetched(reached) \subseteq reached
        BY <4>2, <4>3, AnsweredIsWhole DEF Remember
      <4>4. CASE ~(Fetched(reached) \subseteq reached)
        BY <4>2, <4>4 DEF Remember, SpReferred
      <4> QED  BY <4>3, <4>4
    <3> QED  BY <3>1, <3>2 DEF SpReferred
  <2>2. CASE SpCrash
    <3>1. PICK left : spWorld' = [spWorld EXCEPT !.left = left, !.cache = NoCache]
      BY <2>2 DEF SpCrash
    <3> QED  BY <3>1 DEF SpShaped, NoCache
  <2>3. CASE spWorld' = spWorld \/ \E v : spWorld' = [spWorld EXCEPT !.left = v]
    BY <2>3 DEF SpShaped, SpReferred
  <2>4. CASE PredecessorMoved
    <3>1. PICK pred, left : spWorld' = [spWorld EXCEPT !.pred = pred, !.left = left]
      BY <2>4 DEF PredecessorMoved
    <3> QED  BY <3>1 DEF SpShaped, SpReferred
  <2> QED  BY <2>1, <2>2, <2>3, <2>4
           DEF SpNext, SpDispatch, SpSentinel, SpAdvance, KeepPlan, FindPredecessor, CopyCarryover, BuildCorpus,
               Research, HarvestCorrections, HarvestSpellings, LoadData, ApplyChapter, CheckLayer, WriteSheet,
               SpRerun, SpRetry, SpSpend, spVars
<1>2. CASE CopyCarryover
  <2>1. PICK i \in {1, 2, 3} :
            /\ spBook.stage = "spelling" /\ spBook.pc = CarryoverOrder[i]
            /\ spDisk' = [spDisk EXCEPT !.refs[CarryoverOrder[i]] = Carried[CarryoverOrder[i]]]
            /\ spBook' = [spBook EXCEPT !.pc = IF i = 3 THEN "glossary" ELSE CarryoverOrder[i + 1]]
    BY <1>2 DEF CopyCarryover, SpIn, SpGo, CarryoverOrder
  <2>2. CASE i = 1
    <3>1. spDisk' = [spDisk EXCEPT !.refs.texts = spDisk.refs.texts \cup SpCase.pred.texts]
      BY <2>1, <2>2 DEF CarryoverOrder, Carried
    <3>2. /\ spDisk'.refs.texts = spDisk.refs.texts \cup SpCase.pred.texts
          /\ spDisk'.refs.ledger = spDisk.refs.ledger /\ spDisk'.refs.glossary = spDisk.refs.glossary
      BY <3>1 DEF SpShaped
    <3> QED  BY <1>0, <1>1, <3>2 DEF SpReferred
  <2>3. CASE i = 2
    <3>1. spDisk' = [spDisk EXCEPT !.refs.ledger = SpCase.pred.ledger]
      BY <2>1, <2>3 DEF CarryoverOrder, Carried
    <3>2. /\ spDisk'.refs.texts = spDisk.refs.texts
          /\ spDisk'.refs.ledger = SpCase.pred.ledger /\ spDisk'.refs.glossary = spDisk.refs.glossary
      BY <3>1 DEF SpShaped
    <3>3. SpCase.pred.texts \subseteq spDisk.refs.texts
      BY <2>1, <2>3 DEF SpReferred, CarryoverOrder
    <3> QED  BY <1>0, <1>1, <3>2, <3>3 DEF SpReferred
  <2>4. CASE i = 3
    <3>1. spDisk' = [spDisk EXCEPT !.refs.rules = TRUE]
      BY <2>1, <2>4 DEF CarryoverOrder, Carried
    <3>2. /\ spDisk'.refs.texts = spDisk.refs.texts
          /\ spDisk'.refs.ledger = spDisk.refs.ledger /\ spDisk'.refs.glossary = spDisk.refs.glossary
      BY <3>1 DEF SpShaped
    <3>3. spBook'.pc = "glossary"
      BY <2>1, <2>4 DEF SpBookOK
    <3> QED  BY <1>0, <1>1, <3>2, <3>3 DEF SpReferred
  <2> QED  BY <2>2, <2>3, <2>4
<1>3. CASE FetchGlossary
  <2>1. PICK v : /\ spDisk' = [spDisk EXCEPT !.refs.glossary = v]
                 /\ v \subseteq GlossaryOf(Earlier)
    <3>1. CASE spWorld.cache.here /\ spDisk' = [spDisk EXCEPT !.refs.glossary = spWorld.cache.names]
      <4>1. Fetched(Earlier) \subseteq Earlier
        BY DEF Fetched
      <4> QED  BY <3>1, <4>1, ShortenedNames DEF SpReferred
    <3>2. CASE \E reached \in SUBSET Earlier :
                  spDisk' = [spDisk EXCEPT !.refs.glossary = Shortened(GlossaryOf(Fetched(reached) \cap reached))]
      <4>1. PICK reached \in SUBSET Earlier :
                  spDisk' = [spDisk EXCEPT !.refs.glossary = Shortened(GlossaryOf(Fetched(reached) \cap reached))]
        BY <3>2
      <4>2. Fetched(reached) \cap reached \subseteq Earlier
        OBVIOUS
      <4> QED  BY <4>1, <4>2, ShortenedNames
    <3>3. CASE spDisk' = [spDisk EXCEPT !.refs.glossary = {}]
      <4>1. PICK v \in SUBSET GlossaryOf(Earlier) : v = {}
        OBVIOUS
      <4>2. spDisk' = [spDisk EXCEPT !.refs.glossary = v]
        BY <3>3, <4>1
      <4> QED  BY <4>1, <4>2
    <3> QED  BY <1>3, <3>1, <3>2, <3>3 DEF FetchGlossary
  <2>2. /\ spDisk'.refs.texts = spDisk.refs.texts
        /\ spDisk'.refs.ledger = spDisk.refs.ledger /\ spDisk'.refs.glossary = v
    BY <2>1 DEF SpShaped
  <2>3. spBook'.pc = "corpus"
    BY <1>3 DEF FetchGlossary, SpGo, SpBookOK
  <2> QED  BY <1>0, <1>1, <2>1, <2>2, <2>3 DEF SpReferred
<1>4. CASE FindPredecessor
  <2>1. spBook'.pc \in {"texts", "glossary"} /\ spDisk' = spDisk
    BY <1>4 DEF FindPredecessor, SpGo, SpBookOK, CarryoverOrder
  <2> QED  BY <1>0, <1>1, <2>1 DEF SpReferred
<1>5. ASSUME ~CopyCarryover, ~FetchGlossary,
             spBook'.pc \notin {"ledger", "rules"} \/ spBook' = spBook
      PROVE  SpReferred'
  BY <1>0, <1>1, <1>5, SpDiskDoes DEF SpReferred
<1>6. CASE KeepPlan \/ BuildCorpus \/ Research \/ HarvestCorrections \/ HarvestSpellings \/ LoadData \/ ApplyChapter
           \/ CheckLayer \/ WriteSheet
  <2>1. spBook'.pc \notin {"ledger", "rules"}
    <3>1. CASE KeepPlan \/ BuildCorpus \/ Research \/ HarvestCorrections \/ HarvestSpellings \/ LoadData
      BY <3>1 DEF KeepPlan, BuildCorpus, Research, HarvestCorrections, HarvestSpellings, LoadData, SpGo, SpPark, SpBookOK
    <3>2. CASE ApplyChapter \/ WriteSheet
      BY <3>2 DEF ApplyChapter, WriteSheet, SpGo, SpPark, SpBookOK
    <3>3. CASE CheckLayer
      BY <3>3, CheckPasses DEF SpBookOK
    <3> QED  BY <1>6, <3>1, <3>2, <3>3
  <2>2. ~CopyCarryover /\ ~FetchGlossary
    BY <2>1, <1>2, <1>3, <1>6
       DEF KeepPlan, BuildCorpus, Research, HarvestCorrections, HarvestSpellings, LoadData, ApplyChapter, CheckLayer,
           WriteSheet, CopyCarryover, FetchGlossary, SpIn, CarryoverOrder
  <2> QED  BY <1>5, <2>1, <2>2
<1>7. CASE SpDispatch \/ SpSentinel \/ SpAdvance \/ SpCrash \/ SpRerun \/ SpRetry \/ PredecessorMoved \/ UNCHANGED spVars
  <2>1. spBook'.pc \in {"advance", "work", "idle", "failed"} \/ spBook' = spBook
    <3>1. CASE SpCrash
      <4>1. PICK b2 : b2 = [spBook EXCEPT !.pc = IF @ \in SpParks THEN @ ELSE "idle"]
        OBVIOUS
      <4>2. spBook' = SpReconciled(b2)
        BY <3>1, <4>1 DEF SpCrash
      <4>3. b2.done \ b2.sentinel = {}
        BY <4>1 DEF SpBookOK
      <4> QED  BY <4>1, <4>2, <4>3 DEF SpReconciled, SpBookOK, SpParks, SpPc, SpWorking
    <3>2. CASE SpDispatch \/ SpSentinel \/ SpRetry
      BY <3>2 DEF SpDispatch, SpSentinel, SpRetry, SpGo, SpBookOK
    <3>3. CASE SpAdvance \/ SpRerun
      BY <3>3 DEF SpAdvance, SpRerun
    <3> QED  BY <1>7, <3>1, <3>2, <3>3 DEF PredecessorMoved, spVars
  <2>2. spDisk'.refs = spDisk.refs
    <3>1. CASE SpRerun
      <4>1. \E v : spDisk' = [spDisk EXCEPT !.text = v]
        BY <3>1 DEF SpRerun
      <4> QED  BY <4>1 DEF SpShaped
    <3> QED  BY <1>7, <3>1 DEF SpDispatch, SpSentinel, SpAdvance, SpCrash, SpRetry, PredecessorMoved, spVars
  <2> QED  BY <1>0, <1>1, <2>1, <2>2 DEF SpReferred
<1> QED  BY <1>2, <1>3, <1>4, <1>6, <1>7 DEF SpNext

-----------------------------------------------------------------------------
(* What was researched stays what was validated.                           *)

(* Where the steps around a stage leave the book. *)
SpAround == SpDispatch \/ SpSentinel \/ SpAdvance \/ SpCrash \/ SpRetry \/ PredecessorMoved \/ UNCHANGED spVars

LEMMA SpAroundDoes ==
    ASSUME SpInv, SpAround
    PROVE  /\ spDisk' = spDisk
           /\ \/ spBook' = spBook /\ spLocal' = spLocal
              \/ spBook'.pc \in {"advance", "work", "idle", "failed"}
           /\ \/ spBook'.stage = spBook.stage /\ spBook'.sentinel \subseteq spBook.sentinel
              \/ SpSentinel /\ spBook.pc = "sentinel" /\ spBook'.stage = spBook.stage
                 /\ spBook'.sentinel = spBook.sentinel \cup {spBook.stage}
              \/ /\ spBook.stage \in spBook.sentinel /\ spBook'.pc = "idle"
                 /\ spBook'.stage = IF spBook.stage = "spelling" THEN "correcting" ELSE "tail"
                 /\ spBook'.sentinel \subseteq spBook.sentinel \ {spBook'.stage}
           /\ spBook'.stage = "tail" => spBook'.pc = "idle"
<1> USE DEF SpInv
<1>0. spBook'.stage = "tail" => spBook'.pc = "idle"
  BY SpBookKept DEF SpAround, SpNext, SpBookOK
<1>1. CASE SpDispatch
  BY <1>0, <1>1 DEF SpDispatch, SpGo, SpBookOK
<1>2. CASE SpSentinel
  BY <1>0, <1>2 DEF SpSentinel, SpBookOK
<1>3. CASE SpAdvance
  <2>1. PICK next : next = IF spBook.stage = "spelling" THEN "correcting" ELSE "tail"
    OBVIOUS
  <2>2. spBook' = [stage |-> next, pc |-> "idle", done |-> spBook.done \cup {spBook.stage},
                   sentinel |-> spBook.sentinel \ {next}]
    BY <1>3, <2>1 DEF SpAdvance
  <2>3. spBook.stage \in spBook.sentinel /\ spDisk' = spDisk
    BY <1>3 DEF SpAdvance, SpBookOK
  <2> QED  BY <1>0, <2>1, <2>2, <2>3
<1>4. CASE SpCrash
  <2>1. PICK b2 : b2 = [spBook EXCEPT !.pc = IF @ \in SpParks THEN @ ELSE "idle"]
    OBVIOUS
  <2>2. spBook' = SpReconciled(b2) /\ spDisk' = spDisk
    BY <1>4, <2>1 DEF SpCrash
  <2>3. b2.done \ b2.sentinel = {}
    BY <2>1 DEF SpBookOK
  <2>4. spBook' = b2
    BY <2>2, <2>3 DEF SpReconciled
  <2> QED  BY <1>0, <2>1, <2>2, <2>4 DEF SpBookOK, SpParks, SpPc, SpWorking
<1>5. CASE SpRetry
  BY <1>0, <1>5 DEF SpRetry, SpBookOK
<1>6. CASE PredecessorMoved \/ UNCHANGED spVars
  BY <1>0, <1>6 DEF PredecessorMoved, spVars
<1> QED  BY <1>1, <1>2, <1>3, <1>4, <1>5, <1>6 DEF SpAround

LEMMA SpResearchKept ==
    ASSUME SpInv, [SpNext]_spVars
    PROVE  SpResearch'
<1> USE DEF SpInv
<1>0. SpCase' = SpCase /\ SpCase.ends # <<>>
  BY SpSameCase, SpConstants
<1>1. CASE SpAround
  <2>1. spDisk' = spDisk
    BY <1>1, SpAroundDoes
  <2>2. SpResearched' => SpResearched
    BY <1>1, SpAroundDoes DEF SpResearched, SpAt, SpBookOK
  <2>3. SpResearched' => SpValid(spDisk.corrections, spDisk.spellings)'
    BY <1>0, <2>1, <2>2 DEF SpResearch, SpValid
  <2>5. /\ SpAt({"agent"})' => SpAt({"agent"}) /\ spLocal' = spLocal
        /\ SpAt({"harvest", "harvest_ledger"})' => SpAt({"harvest", "harvest_ledger"}) /\ spLocal' = spLocal
        /\ SpAt({"harvest_ledger"})' => SpAt({"harvest_ledger"}) /\ spLocal' = spLocal
    BY <1>1, SpAroundDoes DEF SpAt
  <2>6. ASSUME spDisk'.plan = <<>> PROVE SpAt({"idle", "work"})' /\ "spelling" \notin spBook'.sentinel
    <3>1. SpAt({"idle", "work"}) /\ "spelling" \notin spBook.sentinel
      BY <2>1, <2>6 DEF SpResearch
    <3>2. spBook'.stage = spBook.stage /\ spBook'.sentinel \subseteq spBook.sentinel
      BY <1>1, <3>1, SpAroundDoes DEF SpAt
    <3>3. spBook'.pc \in {"idle", "work"}
      BY <1>1, <3>1
         DEF SpAround, SpDispatch, SpSentinel, SpAdvance, SpCrash, SpRetry, PredecessorMoved, spVars, SpAt, SpGo, SpBookOK,
             SpReconciled, SpParks
    <3> QED  BY <3>1, <3>2, <3>3 DEF SpAt
  <2> QED  BY <1>0, <2>1, <2>3, <2>5, <2>6 DEF SpResearch, SpValid
<1>2. CASE SpRerun
  <2>1. PICK s \in SpStages, text \in {spDisk.text, SpCase.repaired} :
            /\ text = spDisk.text \/ s = "spelling"
            /\ SpOrder[s] <= SpOrder[spBook.stage]
            /\ spDisk' = [spDisk EXCEPT !.text = text]
            /\ spBook' = [stage |-> s, pc |-> "idle", done |-> spBook.done \ SpFrom(s),
                          sentinel |-> spBook.sentinel \ SpFrom(s)]
    BY <1>2 DEF SpRerun
  <2>2. s \in SpFrom(s) /\ "correcting" \in SpFrom(s)
    BY <2>1 DEF SpFrom, SpStages, SpOrder
  <2>3. /\ spBook'.stage = s /\ spBook'.pc = "idle" /\ spBook'.sentinel = spBook.sentinel \ SpFrom(s)
        /\ spDisk'.plan = spDisk.plan
        /\ s # "spelling" => spDisk'.text = spDisk.text
        /\ spDisk'.refs = spDisk.refs
        /\ spDisk'.corrections = spDisk.corrections /\ spDisk'.spellings = spDisk.spellings
    BY <2>1 DEF SpShaped
  <2>4. s # "spelling" => spBook.stage # "spelling"
    BY <2>1 DEF SpStages, SpOrder
  <2>5. SpResearched' => s # "spelling"
    BY <2>2, <2>3 DEF SpResearched, SpAt
  <2>6. spDisk.plan = <<>> => s = "spelling"
    BY <2>1, <2>4 DEF SpResearch, SpAt
  <2>7. SpResearched' => SpValid(spDisk.corrections, spDisk.spellings)'
    BY <1>0, <2>3, <2>4, <2>5 DEF SpResearch, SpResearched, SpValid
  <2>8. /\ ~SpAt({"agent"})' /\ ~SpAt({"harvest", "harvest_ledger"})' /\ ~SpAt({"harvest_ledger"})'
        /\ s = "spelling" => SpAt({"idle", "work"})' /\ "spelling" \notin spBook'.sentinel
    BY <2>2, <2>3 DEF SpAt
  <2> QED  BY <1>0, <2>3, <2>6, <2>7, <2>8 DEF SpResearch
<1>3. ASSUME SpWork
      PROVE  spBook'.stage = spBook.stage /\ spBook'.sentinel = spBook.sentinel
             /\ spBook.stage \notin spBook.sentinel /\ spBook.stage \in SpStages
  BY <1>3, SpWorkDoes
<1>4. CASE KeepPlan
  <2>1. spDisk' = [spDisk EXCEPT !.plan = IF spDisk.plan = <<>> THEN SpCase.ends ELSE spDisk.plan]
    BY <1>4 DEF KeepPlan
  <2>2. spDisk'.plan # <<>> /\ spDisk'.plan \in {<<>>, SpCase.ends}
    BY <1>0, <2>1 DEF SpShaped, SpResearch
  <2>3. spBook'.pc = "find" /\ spBook.stage = "spelling"
    BY <1>4 DEF KeepPlan, SpIn, SpGo, SpBookOK
  <2> QED  BY <1>0, <1>3, <1>4, <2>2, <2>3 DEF SpResearch, SpResearched, SpAt, SpWork
<1>5. CASE FindPredecessor \/ CopyCarryover \/ FetchGlossary
  <2>1. spBook.stage = "spelling" /\ spBook'.pc \in {"texts", "ledger", "rules", "glossary", "corpus"}
        /\ spBook.pc \in {"find", "texts", "ledger", "rules", "glossary"}
    <3>1. CASE FindPredecessor \/ FetchGlossary
      BY <3>1 DEF FindPredecessor, FetchGlossary, SpIn, SpGo, SpBookOK, CarryoverOrder
    <3>2. CASE CopyCarryover
      <4>1. PICK i \in {1, 2, 3} :
                /\ spBook.stage = "spelling" /\ spBook.pc = CarryoverOrder[i]
                /\ spBook' = [spBook EXCEPT !.pc = IF i = 3 THEN "glossary" ELSE CarryoverOrder[i + 1]]
        BY <3>2 DEF CopyCarryover, SpIn, SpGo, CarryoverOrder
      <4> QED  BY <4>1 DEF SpBookOK, CarryoverOrder
    <3> QED  BY <1>5, <3>1, <3>2
  <2>2. spDisk'.plan = spDisk.plan /\ spDisk.plan # <<>>
    BY <1>5, <2>1, SpDiskDoes DEF SpResearch, SpAt, KeepPlan, SpIn
  <2> QED  BY <1>0, <1>3, <1>5, <2>1, <2>2 DEF SpResearch, SpResearched, SpAt, SpWork
<1>6. CASE BuildCorpus
  <2>1. /\ spBook.stage = "spelling" /\ spBook.pc = "corpus" /\ spBook'.pc = "agent" /\ spDisk' = spDisk
        /\ spLocal' = [spLocal EXCEPT !.corpus = [text |-> spDisk.text, refs |-> spDisk.refs]]
    BY <1>6 DEF BuildCorpus, SpIn, SpGo, SpBookOK
  <2>2. spLocal'.corpus = [text |-> spDisk.text, refs |-> spDisk.refs]
    BY <2>1 DEF SpShaped
  <2> QED  BY <1>0, <1>3, <1>6, <2>1, <2>2 DEF SpResearch, SpResearched, SpAt, SpWork
<1>7. CASE Research
  <2>1. spBook.stage = "spelling" /\ spBook.pc = "agent" /\ spDisk' = spDisk
    BY <1>7 DEF Research, SpIn
  <2>2. \/ spBook'.pc = "failed"
        \/ \E out : /\ ValidOutputs(out, spLocal.corpus, SpCase.titles, spDisk.plan) /\ spBook'.pc = "harvest"
                    /\ spLocal' = [spLocal EXCEPT !.out = out]
    BY <1>7 DEF Research, SpGo, SpPark, SpBookOK
  <2>3. CASE spBook'.pc = "failed"
    BY <1>0, <1>3, <1>7, <2>1, <2>3 DEF SpResearch, SpResearched, SpAt, SpWork
  <2>4. CASE \E out : /\ ValidOutputs(out, spLocal.corpus, SpCase.titles, spDisk.plan) /\ spBook'.pc = "harvest"
                      /\ spLocal' = [spLocal EXCEPT !.out = out]
    <3>1. PICK out : /\ ValidOutputs(out, spLocal.corpus, SpCase.titles, spDisk.plan) /\ spBook'.pc = "harvest"
                     /\ spLocal' = [spLocal EXCEPT !.out = out]
      BY <2>4
    <3>2. spLocal.corpus = [text |-> spDisk.text, refs |-> spDisk.refs]
      BY <2>1 DEF SpResearch, SpAt
    <3>3. SpValid(out.corrections, out.spellings)
      BY <3>1, <3>2 DEF SpValid, SpValidFor, ValidOutputs, DryRunHolds
    <3>4. SpValid(spLocal.out.corrections, spLocal.out.spellings)'
      BY <1>0, <2>1, <3>1, <3>3 DEF SpValid, SpShaped
    <3> QED  BY <1>0, <1>3, <1>7, <2>1, <3>1, <3>4 DEF SpResearch, SpResearched, SpAt, SpWork
  <2> QED  BY <2>2, <2>3, <2>4
<1>8. CASE HarvestCorrections
  <2>1. /\ spBook.stage = "spelling" /\ spBook.pc = "harvest" /\ spBook'.pc = "harvest_ledger" /\ spLocal' = spLocal
        /\ spDisk' = [spDisk EXCEPT !.corrections = spLocal.out.corrections]
    BY <1>8 DEF HarvestCorrections, SpIn, SpGo, SpBookOK
  <2>2. /\ spDisk'.corrections = spLocal.out.corrections /\ spDisk'.text = spDisk.text
        /\ spDisk'.refs = spDisk.refs /\ spDisk'.plan = spDisk.plan
    BY <2>1 DEF SpShaped
  <2>3. SpValid(spLocal.out.corrections, spLocal.out.spellings)'
    BY <1>0, <2>1, <2>2 DEF SpResearch, SpAt, SpValid
  <2> QED  BY <1>0, <1>3, <1>8, <2>1, <2>2, <2>3 DEF SpResearch, SpResearched, SpAt, SpWork
<1>9. CASE HarvestSpellings
  <2>1. /\ spBook.stage = "spelling" /\ spBook.pc = "harvest_ledger" /\ spBook'.pc = "sentinel"
        /\ spDisk' = [spDisk EXCEPT !.spellings = spLocal.out.spellings]
    BY <1>9 DEF HarvestSpellings, SpIn, SpGo, SpBookOK
  <2>2. /\ spDisk'.spellings = spLocal.out.spellings /\ spDisk'.text = spDisk.text
        /\ spDisk'.refs = spDisk.refs /\ spDisk'.plan = spDisk.plan /\ spDisk'.corrections = spDisk.corrections
    BY <2>1 DEF SpShaped
  <2>3. SpValid(spLocal.out.corrections, spLocal.out.spellings) /\ spDisk.corrections = spLocal.out.corrections
    BY <2>1 DEF SpResearch, SpAt
  <2>4. SpValid(spDisk.corrections, spDisk.spellings)'
    BY <1>0, <2>2, <2>3 DEF SpValid
  <2> QED  BY <1>0, <1>3, <1>9, <2>1, <2>2, <2>4 DEF SpResearch, SpResearched, SpAt, SpWork
<1>10. CASE LoadData \/ ApplyChapter \/ CheckLayer \/ WriteSheet
  <2>1. spBook.stage = "correcting"
    BY <1>10 DEF LoadData, ApplyChapter, CheckLayer, WriteSheet, SpIn
  <2>2. /\ spDisk'.text = spDisk.text /\ spDisk'.refs = spDisk.refs /\ spDisk'.plan = spDisk.plan
        /\ spDisk'.corrections = spDisk.corrections /\ spDisk'.spellings = spDisk.spellings
    <3>1. DOMAIN spDisk = {"text", "plan", "refs", "corrections", "spellings", "corrected", "sheets"}
      BY DEF SpShaped
    <3>2. spDisk' = spDisk \/ (\E v : spDisk' = [spDisk EXCEPT !.corrected = v])
          \/ \E v : spDisk' = [spDisk EXCEPT !.sheets = v]
      <4>1. CASE ApplyChapter
        BY <4>1 DEF ApplyChapter
      <4>2. CASE WriteSheet
        BY <4>2 DEF WriteSheet
      <4> QED  BY <1>10, <4>1, <4>2 DEF LoadData, CheckLayer
    <3> QED  BY <3>1, <3>2
  <2>3. SpValid(spDisk.corrections, spDisk.spellings)'
    BY <1>0, <2>1, <2>2 DEF SpResearch, SpResearched, SpValid
  <2> QED  BY <1>0, <1>3, <1>10, <2>1, <2>2, <2>3 DEF SpResearch, SpAt, SpWork
<1> QED  BY <1>1, <1>2, <1>4, <1>5, <1>6, <1>7, <1>8, <1>9, <1>10 DEF SpNext, SpAround

-----------------------------------------------------------------------------
(* What was applied stays what was recorded.                               *)

LEMMA SpCorrectAround ==
    ASSUME SpInv, [SpNext]_spVars, SpAround \/ SpRerun
    PROVE  SpCorrect'
<1> USE DEF SpInv
<1>0. SpCase' = SpCase
  BY SpSameCase
<1>1. CASE SpAround
  <2>1. spDisk' = spDisk
    BY <1>1, SpAroundDoes
  <2>2. /\ SpDoing({"apply", "check", "sheets"})' => SpDoing({"apply", "check", "sheets"}) /\ spLocal' = spLocal
        /\ SpDoing({"apply"})' => SpDoing({"apply"}) /\ spLocal' = spLocal
        /\ SpDoing({"check", "sheets"})' => SpDoing({"check", "sheets"})
        /\ SpDoing({"sheets"})' => SpDoing({"sheets"}) /\ spLocal' = spLocal
    BY <1>1, SpAroundDoes DEF SpDoing
  <2>3. SpSettled' => SpSettled
    BY <1>1, SpAroundDoes DEF SpSettled, SpDoing, SpBookOK, SpStages
  <2> QED  BY <1>0, <2>1, <2>2, <2>3 DEF SpCorrect, SpNamed
<1>2. CASE SpRerun
  <2>1. PICK s \in SpStages, text \in {spDisk.text, SpCase.repaired} :
            /\ spDisk' = [spDisk EXCEPT !.text = text]
            /\ spBook' = [stage |-> s, pc |-> "idle", done |-> spBook.done \ SpFrom(s),
                          sentinel |-> spBook.sentinel \ SpFrom(s)]
    BY <1>2 DEF SpRerun
  <2>2. "correcting" \in SpFrom(s) /\ s # "tail"
    BY <2>1 DEF SpFrom, SpStages, SpOrder
  <2>3. ~SpSettled' /\ spBook'.pc = "idle" /\ spDisk'.sheets = spDisk.sheets
    BY <2>1, <2>2 DEF SpSettled, SpDoing, SpShaped
  <2> QED  BY <1>0, <2>3 DEF SpCorrect, SpDoing
<1> QED  BY <1>1, <1>2

LEMMA SpCorrectKept ==
    ASSUME SpInv, [SpNext]_spVars
    PROVE  SpCorrect'
<1> USE DEF SpInv
<1>0. SpCase' = SpCase
  BY SpSameCase
<1>1. CASE SpAround \/ SpRerun
  BY <1>1, SpCorrectAround
<1>2. CASE KeepPlan \/ FindPredecessor \/ CopyCarryover \/ FetchGlossary \/ BuildCorpus \/ Research
           \/ HarvestCorrections \/ HarvestSpellings
  <2>1. spBook'.stage = "spelling"
    <3>1. spBook.stage = "spelling"
      BY <1>2 DEF KeepPlan, FindPredecessor, CopyCarryover, FetchGlossary, BuildCorpus, Research, HarvestCorrections,
                  HarvestSpellings, SpIn
    <3> QED  BY <1>2, <3>1, SpWorkDoes DEF SpWork
  <2>2. spDisk'.sheets = spDisk.sheets
    <3>1. ~WriteSheet
      BY <1>2 DEF KeepPlan, FindPredecessor, CopyCarryover, FetchGlossary, BuildCorpus, Research, HarvestCorrections,
                  HarvestSpellings, SpIn, WriteSheet
    <3> QED  BY <3>1, SpDiskDoes
  <2> QED  BY <1>0, <2>1, <2>2 DEF SpCorrect, SpDoing, SpSettled
<1>3. ASSUME SpWork, spBook.stage = "correcting"
      PROVE  /\ spBook'.stage = "correcting" /\ "correcting" \notin spBook'.sentinel
             /\ SpSettled' => spBook'.pc = "sentinel"
  BY <1>3, SpWorkDoes DEF SpSettled, SpDoing
<1>4. CASE LoadData
  <2>1. /\ spBook.stage = "correcting" /\ spBook'.pc = "apply" /\ spDisk' = spDisk
        /\ spLocal' = [SpIdle EXCEPT !.out = [corrections |-> spDisk.corrections, spellings |-> spDisk.spellings]]
    BY <1>4 DEF LoadData, SpIn, SpGo, SpBookOK
  <2>2. spLocal'.out = [corrections |-> spDisk.corrections, spellings |-> spDisk.spellings] /\ spLocal'.at = 1
    BY <2>1 DEF SpIdle
  <2>3. 1 \in DOMAIN SpCase.text
    BY SpConstants
  <2> QED  BY <1>0, <1>3, <1>4, <2>1, <2>2, <2>3 DEF SpCorrect, SpDoing, SpWork
<1>5. CASE ApplyChapter
  <2>0. PICK at, rules : at = spLocal.at /\ rules = spDisk.corrections.rules
    OBVIOUS
  <2>1. /\ spBook.stage = "correcting" /\ spBook.pc = "apply"
        /\ spBook'.pc = IF at = Len(spDisk.text) THEN "check" ELSE "apply"
        /\ spLocal' = [spLocal EXCEPT !.at = at + 1]
        /\ spDisk' = [spDisk EXCEPT !.corrected[at] = Apply(spDisk.text[at], spLocal.out.corrections.rules)]
    BY <1>5, <2>0 DEF ApplyChapter, SpIn, SpGo, SpBookOK
  <2>2. /\ spLocal.out = [corrections |-> spDisk.corrections, spellings |-> spDisk.spellings]
        /\ at \in DOMAIN SpCase.text
        /\ \A c \in 1..(at - 1) : spDisk.corrected[c] = Apply(spDisk.text[c], rules)
    BY <2>0, <2>1 DEF SpCorrect, SpDoing
  <2>3. PICK n \in Nat : /\ n = Len(SpCase.text) /\ DOMAIN SpCase.text = 1..n /\ Len(spDisk.text) = n
                         /\ DOMAIN spDisk.text = 1..n
    BY SpConstants
  <2>4. PICK v : v = Apply(spDisk.text[at], rules)
    OBVIOUS
  <2>5. /\ spLocal'.at = at + 1 /\ spLocal'.out = spLocal.out
        /\ spDisk'.corrected = [spDisk.corrected EXCEPT ![at] = v]
        /\ spDisk'.text = spDisk.text /\ spDisk'.corrections = spDisk.corrections
        /\ spDisk'.spellings = spDisk.spellings /\ spDisk'.sheets = spDisk.sheets
    <3>1. spLocal.out.corrections.rules = rules
      BY <2>0, <2>2
    <3>2. spDisk' = [spDisk EXCEPT !.corrected[at] = v]
      BY <2>1, <2>4, <3>1
    <3> QED  BY <2>1, <3>2 DEF SpShaped
  <2>6. \A c \in 1..at : spDisk'.corrected[c] = Apply(spDisk.text[c], rules)
    <3>1. DOMAIN spDisk.corrected = 1..n /\ at \in 1..n
      BY <2>2, <2>3 DEF SpShaped
    <3>2. \A c \in 1..at : c = at \/ c \in 1..(at - 1)
      BY <3>1
    <3>3. spDisk'.corrected[at] = v /\ \A c \in 1..(at - 1) : spDisk'.corrected[c] = spDisk.corrected[c]
      BY <2>5, <3>1
    <3> QED  BY <2>2, <2>4, <3>2, <3>3
  <2>7. at = n => spDisk'.corrected = Corrected(spDisk.text, rules)
    <3> SUFFICES ASSUME at = n PROVE spDisk'.corrected = Corrected(spDisk.text, rules)
      OBVIOUS
    <3>1. PICK f : f = spDisk'.corrected
      OBVIOUS
    <3>2. f = [c \in 1..n |-> f[c]]
      BY <1>0, <2>3, <3>1, SpShapedKept DEF SpShaped
    <3>3. \A c \in 1..n : f[c] = Apply(spDisk.text[c], rules)
      BY <2>6, <3>1
    <3>4. f = [c \in 1..n |-> Apply(spDisk.text[c], rules)]
      BY <3>2, <3>3
    <3> QED  BY <2>3, <3>1, <3>4 DEF Corrected
  <2>8. /\ at # n => at + 1 \in DOMAIN SpCase.text
        /\ (at + 1) - 1 = at
    BY <2>2, <2>3
  <2>9. spLocal'.out = [corrections |-> spDisk'.corrections, spellings |-> spDisk'.spellings]
    BY <2>2, <2>5
  <2> HIDE <2>0, <2>1, <2>2, <2>4
  <2>10. SpDoing({"apply"})' => at # n
    BY <2>1, <2>3 DEF SpDoing
  <2>11. SpDoing({"check", "sheets"})' => at = n
    BY <2>1, <2>3 DEF SpDoing
  <2>12. ~SpSettled' /\ ~SpDoing({"sheets"})'
    BY <1>3, <1>5, <2>1 DEF SpDoing, SpWork
  <2>13. rules = spDisk'.corrections.rules
    BY <2>0, <2>5
  <2> QED  BY <1>0, <2>5, <2>6, <2>7, <2>8, <2>9, <2>10, <2>11, <2>12, <2>13 DEF SpCorrect
<1>6. CASE CheckLayer
  <2>1. /\ spBook.stage = "correcting" /\ spBook.pc = "check" /\ spBook'.pc = "sheets"
        /\ spLocal' = [spLocal EXCEPT !.at = 1] /\ spDisk' = spDisk
    BY <1>6, CheckPasses DEF CheckLayer, SpBookOK
  <2>2. spLocal'.at = 1 /\ spLocal'.out = spLocal.out /\ 1 \in DOMAIN SpCase.ends
    BY <2>1, SpConstants DEF SpShaped
  <2>3. SpDoing({"apply", "check", "sheets"}) /\ SpDoing({"check", "sheets"})
    BY <2>1 DEF SpDoing
  <2> QED  BY <1>0, <1>3, <1>6, <2>1, <2>2, <2>3 DEF SpCorrect, SpDoing, SpWork, SpNamed
<1>7. CASE WriteSheet
  <2>0. PICK at, sp : at = spLocal.at /\ sp = spDisk.spellings
    OBVIOUS
  <2>1. /\ spBook.stage = "correcting" /\ spBook.pc = "sheets"
        /\ SpDoing({"apply", "check", "sheets"}) /\ SpDoing({"check", "sheets"}) /\ SpDoing({"sheets"}) /\ SpResearched
    BY <1>7 DEF WriteSheet, SpIn, SpDoing, SpResearched
  <2>2. /\ spLocal.out.spellings = sp /\ at \in DOMAIN SpCase.ends
        /\ sp.ends = SpCase.ends
    <3>1. sp.ends = spDisk.plan
      BY <2>0, <2>1 DEF SpResearch, SpValid, SpValidFor, ValidOutputs
    <3>2. spDisk.plan = SpCase.ends
      BY <2>1 DEF SpResearch, SpAt
    <3> QED  BY <2>0, <2>1, <3>1, <3>2 DEF SpCorrect
  <2>3. PICK end : end = SpCase.ends[at]
    OBVIOUS
  <2>4. CASE spBook'.pc = "failed" /\ spDisk' = spDisk
    BY <1>0, <1>3, <1>7, <2>1, <2>4 DEF SpCorrect, SpDoing, SpWork
  <2>5. CASE /\ spDisk' = [spDisk EXCEPT !.sheets = {s \in spDisk.sheets : s.end # end}
                               \cup {[end |-> end, names |-> SheetOf(sp, spDisk.corrected, end),
                                      free |-> FreeText(sp, spDisk.corrected, end)]}]
             /\ spLocal' = [spLocal EXCEPT !.at = at + 1]
             /\ spBook'.pc = IF at = Len(SpCase.ends) THEN "sentinel" ELSE "sheets"
    <3>1. PICK new : new = [end |-> end, names |-> SheetOf(sp, spDisk.corrected, end),
                           free |-> FreeText(sp, spDisk.corrected, end)]
      OBVIOUS
    <3>2. /\ spDisk'.sheets = {s \in spDisk.sheets : s.end # end} \cup {new}
          /\ spDisk'.text = spDisk.text /\ spDisk'.corrections = spDisk.corrections
          /\ spDisk'.spellings = sp /\ spDisk'.corrected = spDisk.corrected
          /\ spLocal'.at = at + 1 /\ spLocal'.out = spLocal.out
      BY <2>0, <2>5, <3>1 DEF SpShaped
    <3>3. new.end = end /\ new.names = SheetOf(sp, spDisk.corrected, new.end)
      BY <3>1
    <3>4. PICK m \in Nat : m = Len(SpCase.ends) /\ DOMAIN SpCase.ends = 1..m
      BY SpConstants
    <3>5. /\ \A s \in spDisk'.sheets : \E i \in DOMAIN SpCase.ends : s.end = SpCase.ends[i]
      BY <2>2, <2>3, <3>2, <3>3 DEF SpCorrect
    <3>6. \A i \in 1..at : /\ \E s \in spDisk'.sheets : s.end = SpCase.ends[i]
                           /\ \A s \in spDisk'.sheets : s.end = SpCase.ends[i] =>
                                  s.names = SheetOf(sp, spDisk.corrected, s.end)
      <4> SUFFICES ASSUME NEW i \in 1..at
                   PROVE  /\ \E s \in spDisk'.sheets : s.end = SpCase.ends[i]
                          /\ \A s \in spDisk'.sheets : s.end = SpCase.ends[i] =>
                                  s.names = SheetOf(sp, spDisk.corrected, s.end)
        OBVIOUS
      <4>1. CASE SpCase.ends[i] = end
        <5>1. \A s \in spDisk'.sheets : s.end = end => s = new
          BY <3>2
        <5> QED  BY <3>2, <3>3, <4>1, <5>1
      <4>2. CASE SpCase.ends[i] # end
        <5>1. i \in 1..(at - 1)
          BY <2>2, <2>3, <3>4, <4>2
        <5>2. /\ \E s \in spDisk.sheets : s.end = SpCase.ends[i]
              /\ \A s \in spDisk.sheets : s.end = SpCase.ends[i] => s.names = SheetOf(sp, spDisk.corrected, s.end)
          BY <2>0, <2>1, <5>1 DEF SpCorrect, SpNamed
        <5>3. \A s \in spDisk'.sheets : s.end = SpCase.ends[i] => s \in spDisk.sheets
          BY <3>2, <3>3, <4>2
        <5> QED  BY <3>2, <4>2, <5>2, <5>3
      <4> QED  BY <4>1, <4>2
    <3> HIDE <2>0, <2>3, <2>5, <3>1
    <3>7. /\ spDisk'.corrected = Corrected(spDisk'.text, spDisk'.corrections.rules)
          /\ spLocal'.out = [corrections |-> spDisk'.corrections, spellings |-> spDisk'.spellings]
      <4>1. /\ spDisk.corrected = Corrected(spDisk.text, spDisk.corrections.rules)
            /\ spLocal.out = [corrections |-> spDisk.corrections, spellings |-> spDisk.spellings]
        BY <2>1 DEF SpCorrect
      <4> QED  BY <2>0, <3>2, <4>1
    <3>8. (at + 1) - 1 = at /\ (at # m => at + 1 \in DOMAIN SpCase.ends) /\ (at = m => DOMAIN SpCase.ends = 1..at)
      BY <2>2, <3>4
    <3>9. spBook'.pc = IF at = m THEN "sentinel" ELSE "sheets"
      BY <2>5, <3>4
    <3>10. /\ SpDoing({"sheets"})' => at # m
           /\ SpSettled' => at = m
      BY <1>3, <1>7, <2>1, <3>9 DEF SpDoing, SpWork
    <3>11. SpSettled' => /\ \A i \in DOMAIN SpCase.ends : \E s \in spDisk'.sheets : s.end = SpCase.ends[i]
                         /\ \A s \in spDisk'.sheets : SpNamed(s, spDisk.spellings)'
      BY <3>2, <3>5, <3>6, <3>8, <3>10 DEF SpNamed
    <3>12. SpDoing({"sheets"})' =>
              /\ spLocal'.at \in DOMAIN SpCase.ends
              /\ \A i \in 1..(spLocal'.at - 1) :
                    /\ \E s \in spDisk'.sheets : s.end = SpCase.ends[i]
                    /\ \A s \in spDisk'.sheets : s.end = SpCase.ends[i] => SpNamed(s, spDisk.spellings)'
      BY <3>2, <3>6, <3>8, <3>10 DEF SpNamed
    <3>13. ~SpDoing({"apply"})'
      BY <3>9 DEF SpDoing
    <3> QED  BY <1>0, <3>5, <3>7, <3>11, <3>12, <3>13 DEF SpCorrect, SpNamed
  <2>6. \/ spBook'.pc = "failed" /\ spDisk' = spDisk
        \/ /\ spDisk' = [spDisk EXCEPT !.sheets = {s \in spDisk.sheets : s.end # end}
                               \cup {[end |-> end, names |-> SheetOf(sp, spDisk.corrected, end),
                                      free |-> FreeText(sp, spDisk.corrected, end)]}]
           /\ spLocal' = [spLocal EXCEPT !.at = at + 1]
           /\ spBook'.pc = IF at = Len(SpCase.ends) THEN "sentinel" ELSE "sheets"
    BY <1>7, <2>0, <2>2, <2>3 DEF WriteSheet, SpPark, SpGo, SpBookOK
  <2> QED  BY <2>4, <2>5, <2>6
<1> QED  BY <1>1, <1>2, <1>4, <1>5, <1>6, <1>7 DEF SpNext, SpAround

-----------------------------------------------------------------------------
(* What the fact pass is handed.                                           *)

LEMMA SpInvInit == SpInit => SpInv
<1> SUFFICES ASSUME SpInit PROVE SpInv
  OBVIOUS
<1>1. PICK c \in DOMAIN SpCases, pred \in BOOLEAN :
          spWorld = [case |-> c, pred |-> pred, cache |-> NoCache, left |-> SpCases[c].left]
  BY DEF SpInit
<1>2. PICK case : case = SpCase
  OBVIOUS
<1>3. /\ spBook = [stage |-> "spelling", pc |-> "idle", sentinel |-> {}, done |-> {}] /\ spLocal = SpIdle
      /\ spDisk = [text |-> case.text, plan |-> <<>>, refs |-> NoRefs, corrections |-> NoCorrections,
                   spellings |-> NoSpellings, corrected |-> [ch \in DOMAIN case.text |-> {}], sheets |-> {}]
  BY <1>2 DEF SpInit
<1>4. SpBookOK
  BY <1>3 DEF SpBookOK, SpStages, SpPc
<1>5. SpShaped
  <2>1. /\ DOMAIN spWorld = {"case", "pred", "cache", "left"} /\ spWorld.case \in DOMAIN SpCases
    BY <1>1
  <2>2. /\ DOMAIN spDisk = {"text", "plan", "refs", "corrections", "spellings", "corrected", "sheets"}
        /\ DOMAIN spDisk.refs = {"glossary", "texts", "ledger", "rules"}
        /\ DOMAIN spLocal = {"corpus", "out", "at"} /\ spDisk.text = case.text
    BY <1>3 DEF NoRefs, SpIdle
  <2>3. spDisk.corrected = [c2 \in DOMAIN case.text |-> spDisk.corrected[c2]]
    BY <1>3
  <2> QED  BY <1>2, <2>1, <2>2, <2>3 DEF SpShaped
<1>6. SpReferred
  <2>1. spDisk.refs = NoRefs /\ spWorld.cache = NoCache /\ spBook.pc = "idle"
    BY <1>1, <1>3
  <2> QED  BY <2>1 DEF SpReferred, NoRefs, NoCache, NoLedger
<1>7. SpResearch
  BY <1>3 DEF SpResearch, SpResearched, SpAt
<1>8. SpCorrect
  BY <1>3 DEF SpCorrect, SpDoing, SpSettled
<1> QED  BY <1>4, <1>5, <1>6, <1>7, <1>8 DEF SpInv

LEMMA SpInvStep == SpInv /\ [SpNext]_spVars => SpInv'
  BY SpBookKept, SpShapedKept, SpReferredKept, SpResearchKept, SpCorrectKept DEF SpInv

(* A chapter is first used somewhere, or after the last. *)
LEMMA FirstUseIs ==
    ASSUME SpInv, NEW name
    PROVE  FirstUse(spDisk.corrected, name) \in Nat
<1>1. PICK n \in Nat : n = Len(SpCase.text) /\ DOMAIN SpCase.text = 1..n
  BY SpConstants DEF SpInv
<1>2. PICK f : f = spDisk.corrected
  OBVIOUS
<1>3. f = [c \in 1..n |-> f[c]]
  BY <1>1, <1>2 DEF SpInv, SpShaped
<1>4. PICK vs : vs = {f[c] : c \in 1..n}
  OBVIOUS
<1>5. f \in [1..n -> vs]
  BY <1>3, <1>4
<1>6. f \in Seq(vs) /\ Len(f) = n
  BY <1>5
<1>7. PICK used : used = HeardIn(f, name) \cup {Len(f) + 1}
  OBVIOUS
<1>8. HeardIn(f, name) \subseteq 1..n
  BY <1>3 DEF HeardIn
<1>9. used \subseteq Nat /\ used # {}
  BY <1>6, <1>7, <1>8
<1>10. Min(used) \in used
  BY <1>9, LeastChapter DEF Min
<1> QED  BY <1>2, <1>7, <1>9, <1>10 DEF FirstUse

(* For every book, every volume before it, every set of outputs an agent   *)
(* may hand in, and any crashes, reruns and repairs: the corrected layer is*)
(* the recorded rules over the transcript of now, correcting refuses none  *)
(* its dry run accepted (spelling_stage.go:654); the rows, notes, preamble *)
(* and open names of a sheet, which are the parts a gate reads, name no one*)
(* its reader has not met (GenerateSheets); the carryover is whole, and a  *)
(* remembered glossary is what its caps allow of all the volumes before    *)
(* (populateSpellingRefs, SeriesGlossary).                                 *)
THEOREM NamesKept == SpSpec => []SpellingKept
<1>1. SpInv => ReferencesWhole
  BY DEF SpInv, SpReferred, ReferencesWhole
<1>2. SpInv => CorrectionsStand
  <2> SUFFICES ASSUME SpInv PROVE CorrectionsStand
    OBVIOUS
  <2>1. spBook.pc # "spelling_gate_failure"
    BY DEF SpInv, SpBookOK, SpPc, SpWorking
  <2>2. ASSUME spBook.stage = "tail"
        PROVE  /\ spDisk.corrected = Corrected(spDisk.text, spDisk.corrections.rules)
               /\ SpValid(spDisk.corrections, spDisk.spellings)
    BY <2>2 DEF SpInv, SpCorrect, SpSettled, SpResearch, SpResearched
  <2> QED  BY <2>1, <2>2 DEF CorrectionsStand, SpValid, SpValidFor
<1>3. SpInv => SheetsSpoilNothing
  <2> SUFFICES ASSUME SpInv, spBook.stage = "tail" PROVE SheetsSpoilNothing
    BY DEF SheetsSpoilNothing
  <2>1. PICK sp, layer : sp = spDisk.spellings /\ layer = spDisk.corrected
    OBVIOUS
  <2>2. /\ SpSettled /\ SpResearched
        /\ \A i \in DOMAIN SpCase.ends : \E s \in spDisk.sheets : s.end = SpCase.ends[i]
        /\ \A s \in spDisk.sheets : \E i \in DOMAIN SpCase.ends : s.end = SpCase.ends[i]
        /\ \A s \in spDisk.sheets : s.names = SheetOf(sp, layer, s.end)
        /\ spDisk.plan = SpCase.ends
    BY <2>1 DEF SpInv, SpCorrect, SpSettled, SpNamed, SpResearch, SpResearched, SpAt
  <2>3. sp.ends = SpCase.ends /\ SheetsAudited(sp, layer, spDisk.refs.ledger)
    <3>1. SpValid(spDisk.corrections, sp) /\ layer = Corrected(spDisk.text, spDisk.corrections.rules)
      BY <2>1, <2>2 DEF SpInv, SpResearch, SpCorrect
    <3> QED  BY <2>2, <3>1 DEF SpValid, SpValidFor, ValidOutputs, DryRunHolds
  <2>4. /\ ~LedgerUnheard(sp.ledger, layer) /\ ~CarryoverFalse(sp, spDisk.refs.ledger)
        /\ ~PreambleLeaks(sp, layer) /\ \A i \in DOMAIN SpCase.ends : ~NoteLeaks(sp, layer, SpCase.ends[i])
    BY <2>3 DEF SheetsAudited, ToSet
  <2>5. \A i \in DOMAIN SpCase.ends :
            SpCase.ends[i] \in Nat /\ SpCase.ends[1] \in Nat /\ SpCase.ends[1] <= SpCase.ends[i]
    <3>1. SpCase.ends \in Seq(Nat) /\ DOMAIN SpCase.ends = 1..Len(SpCase.ends) /\ Len(SpCase.ends) \in Nat \ {0}
          /\ \A k, l \in DOMAIN SpCase.ends : k < l => SpCase.ends[k] < SpCase.ends[l]
      BY SpConstants DEF SpInv
    <3>2. \A i \in DOMAIN SpCase.ends : SpCase.ends[i] \in Nat /\ (i = 1 \/ 1 < i) /\ 1 \in DOMAIN SpCase.ends
      BY <3>1
    <3>3. \A m, k \in Nat : m < k => m <= k
      OBVIOUS
    <3> QED  BY <3>1, <3>2, <3>3
  <2>6. ASSUME NEW e \in sp.ledger, e.carryover PROVE e.canonical \in SpCase.pred.ledger.names
    <3>1. spDisk.refs.ledger.here /\ e.canonical \in spDisk.refs.ledger.names
      BY <2>4, <2>6 DEF CarryoverFalse
    <3> QED  BY <3>1 DEF SpInv, SpReferred, NoLedger
  <2>7. ASSUME NEW e \in sp.ledger, NEW i \in DOMAIN SpCase.ends,
               ~Late(layer, e.canonical, SpCase.ends[i]) \/ ~Late(layer, e.canonical, SpCase.ends[1])
        PROVE  \/ FirstUse(layer, e.canonical) <= SpCase.ends[i]
               \/ e.canonical \in SpCase.pred.ledger.names
    <3>1. CASE e.carryover
      BY <2>6, <3>1
    <3>2. CASE ~e.carryover
      <4>1. HeardIn(layer, e.canonical) # {}
        BY <2>4, <3>2 DEF LedgerUnheard
      <4>2. FirstUse(layer, e.canonical) \in Nat
        BY <2>1, FirstUseIs
      <4>3. ~(FirstUse(layer, e.canonical) > SpCase.ends[i]) \/ ~(FirstUse(layer, e.canonical) > SpCase.ends[1])
        BY <2>7, <4>1 DEF Late
      <4>4. \A u, k, l \in Nat : k <= l /\ (~(u > l) \/ ~(u > k)) => u <= l
        OBVIOUS
      <4> QED  BY <2>5, <4>2, <4>3, <4>4
    <3> QED  BY <3>1, <3>2
  <2>8. ASSUME NEW s \in spDisk.sheets, NEW e \in sp.ledger, e.canonical \in s.names
        PROVE  FirstUse(layer, e.canonical) <= s.end \/ e.canonical \in SpCase.pred.ledger.names
    <3>1. PICK i \in DOMAIN SpCase.ends : s.end = SpCase.ends[i]
      BY <2>2
    <3>2. PICK rows : rows = SheetRows(sp.ledger, layer, s.end)
      OBVIOUS
    <3>3. e.canonical \in {x.canonical : x \in rows} \cup (UNION {x.note : x \in rows}) \cup sp.preamble
                            \cup {n \in sp.unresolved : HeardBy(layer, n, s.end)}
      BY <2>2, <2>8, <3>2 DEF SheetOf
    <3>4. ASSUME NEW x \in rows, e.canonical = x.canonical
          PROVE  FirstUse(layer, e.canonical) <= s.end \/ e.canonical \in SpCase.pred.ledger.names
      <4>1. x \in sp.ledger /\ (x.carryover \/ FirstUse(layer, x.canonical) <= s.end)
        BY <3>2 DEF SheetRows
      <4> QED  BY <2>6, <3>4, <4>1
    <3>5. ASSUME NEW x \in rows, e.canonical \in x.note, e.canonical # x.canonical
          PROVE  ~Late(layer, e.canonical, SpCase.ends[i])
      BY <2>4, <3>1, <3>2, <3>5 DEF NoteLeaks
    <3>6. e.canonical \in sp.preamble => ~Late(layer, e.canonical, SpCase.ends[1])
      BY <2>3, <2>4 DEF PreambleLeaks
    <3>7. CASE e.canonical \in sp.preamble
      BY <2>7, <3>1, <3>6, <3>7
    <3>8. CASE \E x \in rows : e.canonical = x.canonical
      BY <3>4, <3>8
    <3>9. CASE \E x \in rows : e.canonical \in x.note /\ e.canonical # x.canonical
      BY <2>7, <3>1, <3>5, <3>9
    <3>10. \/ e.canonical \in sp.preamble
           \/ HeardBy(layer, e.canonical, s.end)
           \/ \E x \in rows : e.canonical = x.canonical
           \/ \E x \in rows : e.canonical \in x.note
      BY <3>3
    <3>11. CASE \E x \in rows : e.canonical \in x.note
      BY <3>8, <3>9, <3>11
    <3>12. CASE HeardBy(layer, e.canonical, s.end)
      BY <3>12 DEF HeardBy
    <3> QED  BY <3>7, <3>8, <3>10, <3>11, <3>12
  <2>9. {s.end : s \in spDisk.sheets} = {SpCase.ends[i] : i \in DOMAIN SpCase.ends}
    BY <2>2
  <2>10. {s.end : s \in spDisk.sheets} = ToSet(spDisk.plan)
    BY <2>2, <2>9 DEF ToSet
  <2>11. \A s \in spDisk.sheets : \A name \in s.names : ~NotMet(name, s.end)
    <3> SUFFICES ASSUME NEW s \in spDisk.sheets, NEW name \in s.names, NotMet(name, s.end) PROVE FALSE
      OBVIOUS
    <3>1. PICK e \in sp.ledger : e.canonical = name
      BY <2>1 DEF NotMet
    <3>2. FirstUse(layer, name) <= s.end
      BY <2>8, <3>1 DEF NotMet
    <3>3. FirstUse(layer, name) > s.end
      BY <2>1 DEF NotMet
    <3>4. FirstUse(layer, name) \in Nat /\ s.end \in Nat
      BY <2>1, <2>2, <2>5, FirstUseIs
    <3>5. \A u, k \in Nat : u <= k => ~(u > k)
      OBVIOUS
    <3> QED  BY <3>2, <3>3, <3>4, <3>5
  <2> QED  BY <2>10, <2>11 DEF SheetsSpoilNothing
<1>4. SpInv => SpellingKept
  BY <1>1, <1>2, <1>3 DEF SpellingKept
<1> QED  BY <1>4, SpInvInit, SpInvStep, PTL DEF SpSpec

-----------------------------------------------------------------------------
(* The ebook stages: the sections of an epub in the universe derived from  *)
(* it.  Whatever is read, numbered, folded or mapped, they stay the same.  *)

EbSecRec    == [label : EbLabel, num : Nat, spine : Nat, words : Nat]
EbDocFields == {"label", "spine", "words", "stated", "num", "by", "out"}
DocsShaped(docs) == \A i \in DOMAIN docs : DOMAIN docs[i] = EbDocFields
SectionsAre(docs, secs) ==
    /\ DOMAIN docs = DOMAIN secs
    /\ \A i \in DOMAIN docs : /\ docs[i].label = secs[i].label /\ docs[i].stated = secs[i].num
                              /\ docs[i].spine = secs[i].spine /\ docs[i].words = secs[i].words
SameSections(docs, was) ==
    /\ DocsShaped(docs) /\ DOMAIN docs = DOMAIN was
    /\ \A i \in DOMAIN docs : /\ docs[i].label = was[i].label /\ docs[i].stated = was[i].stated
                              /\ docs[i].spine = was[i].spine /\ docs[i].words = was[i].words

LEMMA SectionsThrough ==
    ASSUME NEW docs, NEW was, NEW secs, SameSections(docs, was), SectionsAre(was, secs)
    PROVE  SectionsAre(docs, secs) /\ DocsShaped(docs)
  BY DEF SameSections, SectionsAre

LEMMA SectionsOfOwn ==
    ASSUME NEW docs, NEW was, NEW secs, SectionsAre(docs, OwnSections(was)), SectionsAre(was, secs)
    PROVE  SectionsAre(docs, secs)
  BY DEF SectionsAre, OwnSections

LEMMA StatedKeeps ==
    ASSUME NEW secs, NEW parser
    PROVE  SectionsAre(Stated(secs, parser), secs) /\ DocsShaped(Stated(secs, parser))
<1>1. \A s, num, by : /\ DOMAIN Doc(s, num, by) = EbDocFields
                      /\ Doc(s, num, by).label = s.label /\ Doc(s, num, by).stated = s.num
                      /\ Doc(s, num, by).spine = s.spine /\ Doc(s, num, by).words = s.words
  BY DEF Doc, EbDocFields
<1>2. DOMAIN Stated(secs, parser) = DOMAIN secs
  BY DEF Stated
<1>3. \A i \in DOMAIN secs : \E num, by : Stated(secs, parser)[i] = Doc(secs[i], num, by)
  BY DEF Stated
<1> QED  BY <1>1, <1>2, <1>3 DEF SectionsAre, DocsShaped

LEMMA RenumberingKeeps ==
    ASSUME NEW docs, DocsShaped(docs), NEW span
    PROVE  /\ SameSections(DropLoose(docs), docs)
           /\ SameSections(ShiftZeroBased(docs), docs)
           /\ SameSections(QuarantineEdges(docs, span), docs)
           /\ SameSections(AssignOrdinals(docs, span), docs)
           /\ SameSections(FoldForward(docs, span), docs)
           /\ SameSections(FoldBack(docs, span), docs)
<1> USE DEF SameSections, DocsShaped, EbDocFields
<1>1. SameSections(DropLoose(docs), docs)
  BY DEF DropLoose
<1>2. SameSections(ShiftZeroBased(docs), docs)
  BY DEF ShiftZeroBased
<1>3. SameSections(QuarantineEdges(docs, span), docs)
  BY DEF QuarantineEdges
<1>4. SameSections(AssignOrdinals(docs, span), docs)
  BY DEF AssignOrdinals
<1>5. SameSections(FoldForward(docs, span), docs)
  BY DEF FoldForward
<1>6. SameSections(FoldBack(docs, span), docs)
  BY DEF FoldBack
<1> QED  BY <1>1, <1>2, <1>3, <1>4, <1>5, <1>6

LEMMA BuildKeeps ==
    ASSUME NEW secs, NEW parser
    PROVE  LET docs == BuildUniverse(secs, parser).docs IN SectionsAre(docs, secs) /\ DocsShaped(docs)
<1> DEFINE Of(docs) == SectionsAre(docs, secs) /\ DocsShaped(docs)
<1>1. PICK read : read = Stated(secs, parser) /\ Of(read)
  BY StatedKeeps
<1>2. PICK kept : kept = (IF TrustedLoose(read) THEN read ELSE DropLoose(read)) /\ Of(kept)
  BY <1>1, RenumberingKeeps, SectionsThrough
<1>3. PICK docs : /\ docs = (IF TrustedLoose(read) \/ RunOfNumbers(Nums(read, {"strict"})) THEN ShiftZeroBased(kept) ELSE kept)
                  /\ Of(docs)
  BY <1>2, RenumberingKeeps, SectionsThrough
<1>4. PICK span : span = IF Numbered(docs) # {} THEN StorySpan(docs) ELSE TitledStorySpan(docs)
  OBVIOUS
<1>5. PICK edged : edged = QuarantineEdges(docs, span) /\ Of(edged)
  BY <1>3, RenumberingKeeps, SectionsThrough
<1>6. PICK ordered : ordered = (IF Numbered(docs) # {} THEN edged ELSE AssignOrdinals(edged, span)) /\ Of(ordered)
  BY <1>5, RenumberingKeeps, SectionsThrough
<1>7. PICK forward : forward = FoldForward(ordered, span) /\ Of(forward)
  BY <1>6, RenumberingKeeps, SectionsThrough
<1>8. PICK final : final = FoldBack(forward, span) /\ Of(final)
  BY <1>7, RenumberingKeeps, SectionsThrough
<1>9. BuildUniverse(secs, parser).docs = final
  BY <1>1, <1>2, <1>3, <1>4, <1>5, <1>6, <1>7, <1>8, Zenon DEF BuildUniverse, FoldContinuations
<1> QED  BY <1>8, <1>9

LEMMA MapKeeps ==
    ASSUME NEW draft, NEW map, DocsShaped(draft.docs)
    PROVE  LET docs == ApplyChapterMap(draft, map).docs
           IN  SectionsAre(docs, OwnSections(draft.docs)) /\ DocsShaped(docs)
  BY DEF ApplyChapterMap, SectionsAre, OwnSections, DocsShaped, EbDocFields

(* The text of a universe is of its own sections, those it was derived from*)
LEMMA TextIsOwn ==
    ASSUME NEW u, NEW split, SectionsAre(u.docs, split), \A i \in DOMAIN split : split[i] \in EbSecRec
    PROVE  TextOf(u, OwnSections(u.docs)) = TextOf(u, split)
<1>1. \A i \in DOMAIN u.docs : OwnSections(u.docs)[i] = split[i]
  BY DEF SectionsAre, OwnSections, EbSecRec
<1>2. Numbered(u.docs) \subseteq DOMAIN u.docs
  BY DEF Numbered
<1> QED  BY <1>1, <1>2 DEF TextOf
-----------------------------------------------------------------------------
(* The ebook stages: where a book stands.  Every stage before it is done,  *)
(* and the stage it is at has no sentinel while it works or is parked.     *)

EbPcs == {"idle", "work", "derive", "agent", "keep", "record", "wipe", "text", "manifest", "plan",
          "sentinel", "advance"} \cup EbParks
EbAtRest == {"idle"} \cup EbParks

EbPlaced(book) ==
    /\ book \in [stage : EbStages \cup {"tail"}, pc : EbPcs,
                 sentinel : [EbStages -> {"none", "written", "mapped"}], done : SUBSET EbStages]
    /\ \A s \in book.done : EbOrder[s] < EbOrder[book.stage]
    /\ book.stage # "extracting" => "extracting" \in book.done
    /\ book.stage = "tail" => book.pc \in {"idle", "tail_park"}
    /\ book.stage # "tail" /\ book.sentinel[book.stage] # "none" => book.pc \in {"idle", "advance"}
    /\ book.pc = "advance" => book.stage # "tail" /\ book.sentinel[book.stage] # "none"

EbShaped ==
    /\ DOMAIN eDisk = {"split", "universe", "text", "manifest", "plan"}
    /\ DOMAIN eLocal = {"universe", "then", "mapped"}
    /\ DOMAIN eWorld = {"case", "epub", "parser", "left", "purge", "park", "cut"}

(* A purge finds the book at rest and leaves it there; once the split is   *)
(* gone it does not come back, and the way back to extracting is open      *)
(* unless the purge was cut.                                               *)
EbHeld ==
    /\ eWorld.purge \in EbPurgeStep
    /\ Reserved => /\ eBook.pc \in EbAtRest /\ eWorld.park \in EbParks
                   /\ eBook.stage # "tail" => eBook.sentinel[eBook.stage] = "none"
    /\ eWorld.purge \notin {"none", "split"} => eDisk.split = <<>>
    /\ eWorld.purge \in {"mapping", "reconcile"} /\ ~eWorld.cut => eBook.sentinel["extracting"] = "none"

(* The recorded universe, and the one being written, are of the sections of*)
(* the split, unless extracting has not come to deriving it.               *)
Deriving == {"wipe", "text", "manifest", "plan", "sentinel", "advance"}
EbOfSplit ==
    /\ DocsShaped(eDisk.universe.docs)
    /\ \A i \in DOMAIN eDisk.split : eDisk.split[i] \in EbSecRec
    /\ \A i \in DOMAIN eWorld.epub : eWorld.epub[i] \in EbSecRec
    /\ \A i \in DOMAIN eWorld.case.other : eWorld.case.other[i] \in EbSecRec
    /\ eBook.pc \in {"keep", "record", "wipe", "text", "manifest", "plan"} =>
          DocsShaped(eLocal.universe.docs) /\ SectionsAre(eLocal.universe.docs, OwnSections(eDisk.universe.docs))
    /\ \/ eDisk.split = <<>>
       \/ SectionsAre(eDisk.universe.docs, eDisk.split)
       \/ eBook.stage = "extracting" /\ eBook.sentinel["extracting"] = "none" /\ eBook.pc \notin Deriving

(* While the text is written the universe it is written from has passed its*)
(* gate and is the recorded one, or will be recorded last; what is written *)
(* already is of it.                                                       *)
EbWriting ==
    /\ eBook.pc \in {"wipe", "text", "manifest", "plan", "record"} =>
          /\ eLocal.universe.contiguous
          /\ \/ eLocal.then = "sentinel" /\ eDisk.universe = eLocal.universe
             \/ eLocal.then = "record" /\ eBook.stage = "mapping"
    /\ eBook.pc = "keep" => eLocal.universe.contiguous /\ eLocal.then = "sentinel"
    /\ eBook.pc = "text" => eDisk.text = {}
    /\ eBook.pc \in {"manifest", "plan", "record"} =>
          eDisk.split # <<>> /\ eDisk.text = TextOf(eLocal.universe, eDisk.split)
    /\ eBook.pc \in {"plan", "record"} => eDisk.manifest = ChapterNums(eLocal.universe.docs)
    /\ eBook.pc = "record" => eDisk.plan = PlanChunks(eLocal.universe.docs)

(* Where a sentinel, or the step before it, says the book is written.      *)
EbWritten ==
    \/ eBook.stage = "tail"
    \/ eBook.stage = "mapping" /\ (eBook.sentinel["mapping"] # "none" \/ eBook.pc = "sentinel")
    \/ eBook.stage = "extracting" /\ \/ eBook.sentinel["extracting"] = "mapped"
                                     \/ eBook.pc = "sentinel" /\ eLocal.mapped
EbKept == eWorld.cut \/ eDisk.split # <<>> \/ eWorld.purge \notin {"none", "split"}
EbComplete ==
    /\ EbWritten => MaterialAgrees /\ EbKept
    /\ eBook.pc = "advance" => (eLocal.mapped <=> eBook.sentinel[eBook.stage] = "mapped")

EbInv == EbPlaced(eBook) /\ EbShaped /\ EbHeld /\ EbOfSplit /\ EbWriting /\ EbComplete

LEMMA EbStageFacts ==
    /\ EbOrder["extracting"] = 1 /\ EbOrder["mapping"] = 2 /\ EbOrder["tail"] = 3
    /\ EbFrom("extracting") = EbStages /\ EbFrom("mapping") = {"mapping"}
    /\ "extracting" \in EbStages /\ "mapping" \in EbStages /\ "tail" \notin EbStages
  BY DEF EbOrder, EbFrom, EbStages

(* A book with every sentinel of what is done stays; any other goes back to*)
(* the first stage it lost, extracting when that is one of them.           *)
LEMMA EbReconciles ==
    ASSUME NEW book, EbPlaced(book)
    PROVE  \/ /\ EbReconciled(book) = book
              /\ \A s \in book.done : book.sentinel[s] # "none"
           \/ \E s \in book.done :
                 /\ book.sentinel[s] = "none" /\ (book.sentinel["extracting"] = "none" => s = "extracting")
                 /\ EbReconciled(book) = [book EXCEPT !.stage = s, !.done = @ \ EbFrom(s)]
<1> DEFINE lost == {s \in book.done : book.sentinel[s] = "none"}
           first == CHOOSE x \in lost : lost \subseteq EbFrom(x)
<1>1. CASE lost = {}
  BY <1>1 DEF EbReconciled
<1>2. CASE lost # {}
  <2>1. lost \subseteq {"extracting", "mapping"} /\ "extracting" \in book.done
    BY <1>2, EbStageFacts DEF EbPlaced, EbStages
  <2>2. \E x \in lost : lost \subseteq EbFrom(x)
    <3>1. CASE "extracting" \in lost
      BY <2>1, <3>1, EbStageFacts DEF EbStages
    <3>2. CASE "extracting" \notin lost
      BY <1>2, <2>1, <3>2, EbStageFacts
    <3> QED  BY <3>1, <3>2
  <2>3. first \in lost /\ lost \subseteq EbFrom(first)
    BY <2>2
  <2>4. EbReconciled(book) = [book EXCEPT !.stage = first, !.done = @ \ EbFrom(first)]
    BY <1>2 DEF EbReconciled
  <2>5. book.sentinel["extracting"] = "none" => "extracting" \in lost
    BY <2>1
  <2>6. first = "mapping" => "extracting" \notin lost
    BY <2>3, EbStageFacts
  <2>7. first \in {"extracting", "mapping"} /\ first \in book.done /\ book.sentinel[first] = "none"
    BY <2>1, <2>3
  <2> HIDE DEF first, lost
  <2> QED  BY <2>4, <2>5, <2>6, <2>7
<1> QED  BY <1>1, <1>2

LEMMA EbMovedBack ==
    ASSUME NEW book, EbPlaced(book), NEW s \in book.done, book.sentinel[s] = "none", NEW to,
           to = [stage |-> s, pc |-> to.pc, sentinel |-> book.sentinel, done |-> book.done \ EbFrom(s)],
           to.pc \in EbAtRest
    PROVE  EbPlaced(to)
<1>1. s \in {"extracting", "mapping"} /\ book.sentinel \in [EbStages -> {"none", "written", "mapped"}]
      /\ book.done \in SUBSET EbStages
  BY DEF EbPlaced, EbStages
<1>2. /\ to.stage = s /\ to.sentinel = book.sentinel /\ to.done = book.done \ EbFrom(s)
      /\ to \in [stage : EbStages \cup {"tail"}, pc : EbPcs,
                 sentinel : [EbStages -> {"none", "written", "mapped"}], done : SUBSET EbStages]
  BY <1>1 DEF EbStages, EbPcs, EbAtRest
<1>3. s = "mapping" => "extracting" \in to.done
  BY <1>2, EbStageFacts DEF EbPlaced, EbStages
<1>4. \A t \in to.done : EbOrder[t] < EbOrder[s]
  BY <1>1, <1>2, EbStageFacts DEF EbStages
<1> QED  BY <1>1, <1>2, <1>3, <1>4 DEF EbPlaced, EbAtRest, EbParks

(* Where a crash and a purge leave a book. *)
EbWentBack(pc) ==
    \E s \in eBook.done :
       /\ eBook.sentinel[s] = "none" /\ (eBook.sentinel["extracting"] = "none" => s = "extracting")
       /\ eBook' = [stage |-> s, pc |-> pc, sentinel |-> eBook.sentinel, done |-> eBook.done \ EbFrom(s)]

EbLands == IF eBook.pc \in EbParks THEN eBook.pc ELSE "idle"

LEMMA EbCrashMoves ==
    ASSUME EbPlaced(eBook), EbCrash
    PROVE  EbLands \in EbAtRest /\ (eBook' = [eBook EXCEPT !.pc = EbLands] \/ EbWentBack(EbLands))
<1> DEFINE back == [eBook EXCEPT !.pc = IF @ \in EbParks THEN @ ELSE "idle"]
<1>1. eBook' = EbReconciled(back)
  BY DEF EbCrash
<1>2. EbPlaced(back)
  BY DEF EbPlaced, EbPcs, EbParks
<1>3. PICK pc \in EbAtRest : pc = EbLands /\ back = [eBook EXCEPT !.pc = pc]
  BY DEF EbAtRest, EbLands
<1>4. /\ back.stage = eBook.stage /\ back.sentinel = eBook.sentinel /\ back.done = eBook.done /\ back.pc = pc
      /\ DOMAIN back = {"stage", "pc", "sentinel", "done"} /\ back = [y \in DOMAIN back |-> back[y]]
  BY <1>3 DEF EbPlaced
<1> HIDE DEF back
<1>5. ASSUME NEW s, NEW e, e = [back EXCEPT !.stage = s, !.done = @ \ EbFrom(s)]
      PROVE  e = [stage |-> s, pc |-> pc, sentinel |-> eBook.sentinel, done |-> eBook.done \ EbFrom(s)]
  BY <1>4, <1>5
<1>6. \/ EbReconciled(back) = back
      \/ \E s \in back.done :
            /\ back.sentinel[s] = "none" /\ (back.sentinel["extracting"] = "none" => s = "extracting")
            /\ EbReconciled(back) = [back EXCEPT !.stage = s, !.done = @ \ EbFrom(s)]
  BY <1>2, EbReconciles
<1>7. CASE EbReconciled(back) = back
  BY <1>1, <1>3, <1>7
<1>8. ASSUME NEW s \in back.done, back.sentinel[s] = "none", back.sentinel["extracting"] = "none" => s = "extracting",
             EbReconciled(back) = [back EXCEPT !.stage = s, !.done = @ \ EbFrom(s)]
      PROVE  EbWentBack(pc)
  <2>1. eBook' = [stage |-> s, pc |-> pc, sentinel |-> eBook.sentinel, done |-> eBook.done \ EbFrom(s)]
    BY <1>1, <1>5, <1>8
  <2> QED  BY <1>4, <1>8, <2>1 DEF EbWentBack
<1> QED  BY <1>3, <1>6, <1>7, <1>8

LEMMA EbPurgeMoves ==
    ASSUME EbPlaced(eBook), EbHeld, EbPurgeReconcile
    PROVE  \/ eBook' = eBook /\ \A s \in eBook.done : eBook.sentinel[s] # "none"
           \/ EbWentBack(eWorld.park) /\ eWorld.park \in EbAtRest
<1> DEFINE back == EbReconciled(eBook)
<1>1. eBook' = IF back = eBook THEN eBook ELSE [back EXCEPT !.pc = eWorld.park]
  BY DEF EbPurgeReconcile
<1>2. eWorld.park \in EbAtRest
  BY DEF EbHeld, EbPurgeReconcile, Reserved, EbAtRest
<1>3. CASE back = eBook /\ \A s \in eBook.done : eBook.sentinel[s] # "none"
  BY <1>1, <1>3
<1>4. ASSUME NEW s \in eBook.done, eBook.sentinel[s] = "none",
             eBook.sentinel["extracting"] = "none" => s = "extracting",
             back = [eBook EXCEPT !.stage = s, !.done = @ \ EbFrom(s)]
      PROVE  EbWentBack(eWorld.park)
  <2>1. s # eBook.stage
    BY <1>4, EbStageFacts DEF EbPlaced, EbStages
  <2>2. back # eBook
    BY <1>4, <2>1 DEF EbPlaced
  <2>3. eBook' = [stage |-> s, pc |-> eWorld.park, sentinel |-> eBook.sentinel, done |-> eBook.done \ EbFrom(s)]
    BY <1>1, <1>4, <2>2 DEF EbPlaced
  <2> QED  BY <1>4, <2>3 DEF EbWentBack
<1> HIDE DEF back
<1>5. \/ back = eBook /\ \A s \in eBook.done : eBook.sentinel[s] # "none"
      \/ \E s \in eBook.done :
            /\ eBook.sentinel[s] = "none" /\ (eBook.sentinel["extracting"] = "none" => s = "extracting")
            /\ back = [eBook EXCEPT !.stage = s, !.done = @ \ EbFrom(s)]
  BY EbReconciles DEF back
<1> QED  BY <1>2, <1>3, <1>4, <1>5

(* The other steps of a purge take a sentinel at most. *)
EbPurgeOther == EbBeginPurge \/ EbPurgeSplit \/ EbPurgeText \/ EbPurgeSentinel \/ EbPurgeFails
LEMMA EbPurgeTakes ==
    ASSUME EbPlaced(eBook), EbHeld, EbPurgeOther
    PROVE  /\ eBook.pc \in EbAtRest /\ (eBook.stage # "tail" => eBook.sentinel[eBook.stage] = "none")
           /\ eBook' \in [stage : EbStages \cup {"tail"}, pc : EbPcs,
                          sentinel : [EbStages -> {"none", "written", "mapped"}], done : SUBSET EbStages]
           /\ eBook'.stage = eBook.stage /\ eBook'.pc = eBook.pc /\ eBook'.done = eBook.done
           /\ \A s \in EbStages : eBook'.sentinel[s] = eBook.sentinel[s] \/ eBook'.sentinel[s] = "none"
<1>1. eBook.pc \in EbAtRest /\ (eBook.stage # "tail" => eBook.sentinel[eBook.stage] = "none")
  <2>1. CASE EbBeginPurge
    BY <2>1 DEF EbBeginPurge, EbAtRest, EbPlaced, EbParks
  <2>2. CASE ~EbBeginPurge
    BY <2>2 DEF EbPurgeOther, EbHeld, Reserved, EbPurgeSplit, EbPurgeText, EbPurgeSentinel, EbPurgeFails, EbStages
  <2> QED  BY <2>1, <2>2
<1>2. CASE EbPurgeSentinel
  <2>1. PICK gone \in BOOLEAN : eBook' = IF gone THEN [eBook EXCEPT !.sentinel[eWorld.purge] = "none"] ELSE eBook
    BY <1>2 DEF EbPurgeSentinel
  <2> QED  BY <1>1, <2>1 DEF EbPlaced
<1>3. CASE ~EbPurgeSentinel
  <2>1. eBook' = eBook
    BY <1>3 DEF EbPurgeOther, EbBeginPurge, EbPurgeSplit, EbPurgeText, EbPurgeFails
  <2> QED  BY <1>1, <2>1 DEF EbPlaced
<1> QED  BY <1>2, <1>3
(* A step of a stage moves the book within it. *)
EbWork ==
    \/ SplitEpub \/ DeriveUniverse \/ ResumeOrReparse \/ MapChapters \/ KeepMap \/ RecordUniverse
    \/ WipeText \/ WriteText \/ WriteEbookManifest \/ WriteEbookPlan
EbPcMove ==
    /\ eBook' = [eBook EXCEPT !.pc = eBook'.pc]
    /\ eBook.stage \in EbStages /\ eBook.sentinel[eBook.stage] = "none" /\ eBook'.pc \in EbPcs \ {"advance"}
    /\ eBook.pc \notin EbAtRest

LEMMA EbWorkMoves ==
    ASSUME EbInv, EbWork
    PROVE  EbPcMove
<1> USE DEF EbInv, EbPlaced
<1>0. eBook.pc \notin {"idle", "advance", "tail_park"} /\ eBook.pc \notin EbAtRest
  BY DEF EbWork, EbIn, SplitEpub, DeriveUniverse, ResumeOrReparse, MapChapters, KeepMap, RecordUniverse,
         WipeText, WriteText, WriteEbookManifest, WriteEbookPlan, EbAtRest, EbParks
<1>1. eBook.stage \in EbStages /\ eBook.sentinel[eBook.stage] = "none"
  BY <1>0 DEF EbStages
<1>2. \E pc \in EbPcs \ {"advance"} : eBook' = [eBook EXCEPT !.pc = pc]
  <2>1. CASE SplitEpub
    BY <2>1 DEF SplitEpub, EbGo, EbPark, EbPcs, EbParks
  <2>2. CASE DeriveUniverse
    BY <2>2 DEF DeriveUniverse, EbGo, EbPark, EbPcs, EbParks
  <2>3. CASE ResumeOrReparse
    BY <2>3 DEF ResumeOrReparse, Materialize, EbGo, EbPcs
  <2>4. CASE MapChapters
    BY <2>4 DEF MapChapters, EbGo, EbPark, EbPcs, EbParks
  <2>5. CASE KeepMap \/ RecordUniverse \/ WipeText \/ WriteEbookManifest
    BY <2>5 DEF KeepMap, RecordUniverse, WipeText, WriteEbookManifest, EbGo, EbPcs
  <2>6. CASE WriteText
    BY <2>6 DEF WriteText, EbGo, EbPark, EbPcs, EbParks
  <2>7. CASE WriteEbookPlan
    <3>1. eLocal.then \in {"sentinel", "record"}
      BY <2>7 DEF WriteEbookPlan, EbWriting
    <3> QED  BY <2>7, <3>1 DEF WriteEbookPlan, EbGo, EbPcs
  <2> QED  BY <2>1, <2>2, <2>3, <2>4, <2>5, <2>6, <2>7 DEF EbWork
<1>3. PICK pc \in EbPcs \ {"advance"} : eBook' = [eBook EXCEPT !.pc = pc]
  BY <1>2
<1>4. eBook'.pc = pc
  BY <1>3
<1> QED  BY <1>0, <1>1, <1>3, <1>4 DEF EbPcMove

LEMMA EbPlacedKept ==
    ASSUME EbInv, [EbNext]_eVars
    PROVE  EbPlaced(eBook')
<1> USE DEF EbInv
<1>1. CASE EbWork
  <2>1. EbPcMove
    BY <1>1, EbWorkMoves
  <2>2. /\ eBook'.stage = eBook.stage /\ eBook'.sentinel = eBook.sentinel /\ eBook'.done = eBook.done
        /\ eBook' \in [stage : EbStages \cup {"tail"}, pc : EbPcs,
                       sentinel : [EbStages -> {"none", "written", "mapped"}], done : SUBSET EbStages]
    BY <2>1 DEF EbPcMove, EbPlaced
  <2> QED  BY <2>1, <2>2, EbStageFacts DEF EbPcMove, EbPlaced
<1>2. CASE EbDispatch
  BY <1>2 DEF EbDispatch, EbGo, EbPlaced, EbPcs, EbStages
<1>3. CASE EbSentinel
  <2>1. eBook.stage \in EbStages
    BY <1>3 DEF EbSentinel, EbPlaced, EbStages
  <2> QED  BY <1>3, <2>1, EbStageFacts DEF EbSentinel, EbPlaced, EbPcs
<1>4. CASE EbAdvance
  <2>1. eBook.stage \in EbStages /\ eBook.sentinel[eBook.stage] # "none"
    BY <1>4 DEF EbAdvance, EbPlaced, EbStages
  <2>2. PICK next \in {"mapping", "tail"} :
            /\ next = "mapping" => eBook.stage = "extracting"
            /\ eBook' = [stage |-> next, pc |-> "idle", done |-> eBook.done \cup {eBook.stage},
                         sentinel |-> [s \in EbStages |-> IF s = next THEN "none" ELSE eBook.sentinel[s]]]
    BY <1>4 DEF EbAdvance
  <2>3. \A s \in eBook'.done : EbOrder[s] < EbOrder[next]
    BY <2>1, <2>2, EbStageFacts DEF EbPlaced, EbStages
  <2>4. eBook' \in [stage : EbStages \cup {"tail"}, pc : EbPcs,
                    sentinel : [EbStages -> {"none", "written", "mapped"}], done : SUBSET EbStages]
    BY <2>1, <2>2 DEF EbPlaced, EbStages, EbPcs
  <2> QED  BY <2>1, <2>2, <2>3, <2>4 DEF EbPlaced, EbStages
<1>5. CASE EbCrash
  <2>1. EbLands \in EbAtRest /\ (eBook' = [eBook EXCEPT !.pc = EbLands] \/ EbWentBack(EbLands))
    BY <1>5, EbCrashMoves
  <2>2. CASE eBook' = [eBook EXCEPT !.pc = EbLands]
    BY <2>2 DEF EbPlaced, EbPcs, EbLands, EbParks
  <2>3. CASE EbWentBack(EbLands)
    BY <2>1, <2>3, EbMovedBack DEF EbWentBack
  <2> QED  BY <2>1, <2>2, <2>3
<1>6. CASE EbRerun
  <2>1. PICK s \in EbStages : /\ EbOrder[s] <= EbOrder[eBook.stage]
                              /\ eBook' = [stage |-> s, pc |-> "idle", done |-> eBook.done \ EbFrom(s),
                                           sentinel |-> EbUnwrite(EbFrom(s))]
    BY <1>6 DEF EbRerun
  <2>2. s \in {"extracting", "mapping"}
    BY DEF EbStages
  <2>3. \A t \in eBook.done \ EbFrom(s) : EbOrder[t] < EbOrder[s]
    BY <2>2, EbStageFacts DEF EbPlaced, EbStages
  <2>4. EbUnwrite(EbFrom(s)) \in [EbStages -> {"none", "written", "mapped"}] /\ EbUnwrite(EbFrom(s))[s] = "none"
    BY <2>2, EbStageFacts DEF EbPlaced, EbUnwrite
  <2>5. s = "mapping" => "extracting" \in eBook.done \ EbFrom(s)
    BY <2>1, EbStageFacts DEF EbPlaced
  <2> QED  BY <2>1, <2>2, <2>3, <2>4, <2>5, EbStageFacts DEF EbPlaced, EbPcs
<1>7. CASE EbPurge
  <2>1. CASE EbPurgeReconcile
    BY <2>1, EbPurgeMoves, EbMovedBack DEF EbWentBack
  <2>2. CASE EbPurgeOther
    BY <2>2, EbPurgeTakes, EbStageFacts DEF EbPlaced, EbAtRest, EbParks, EbStages
  <2> QED  BY <1>7, <2>1, <2>2 DEF EbPurge, EbPurgeOther
<1>8. CASE EbRetry
  BY <1>8, EbStageFacts DEF EbRetry, EbUnwrite, EbPlaced, EbPcs, EbParks
<1>9. CASE TailParks
  BY <1>9, EbStageFacts DEF TailParks, EbIn, EbGo, EbPlaced, EbPcs, EbParks
<1>10. CASE EpubReplaced \/ UNCHANGED eVars
  BY <1>10 DEF EpubReplaced, eVars
<1> QED  BY <1>1, <1>2, <1>3, <1>4, <1>5, <1>6, <1>7, <1>8, <1>9, <1>10 DEF EbNext, EbStep, EbWork

LEMMA EbShapedKept ==
    ASSUME EbInv, [EbNext]_eVars
    PROVE  EbShaped'
<1> USE DEF EbInv, EbShaped
<1>1. DOMAIN eDisk' = {"split", "universe", "text", "manifest", "plan"}
  BY DEF EbNext, EbStep, EbDispatch, EbSentinel, EbAdvance, SplitEpub, DeriveUniverse, ResumeOrReparse,
         MapChapters, KeepMap, RecordUniverse, WipeText, WriteText, WriteEbookManifest, WriteEbookPlan,
         EbCrash, EbRerun, EbPurge, EbBeginPurge, EbPurgeSplit, EbPurgeText, EbPurgeSentinel, EbPurgeReconcile,
         EbPurgeFails, EbRetry, TailParks, EpubReplaced, eVars
<1>2. DOMAIN EbIdle = {"universe", "then", "mapped"}
  BY DEF EbIdle
<1>3. \/ eLocal' = eLocal \/ eLocal' = EbIdle
      \/ \E u : eLocal' = [EbIdle EXCEPT !.universe = u]
      \/ \E u, t : eLocal' = [EbIdle EXCEPT !.universe = u, !.then = t]
      \/ \E u, m : eLocal' = [EbIdle EXCEPT !.universe = u, !.mapped = m]
      \/ \E m : eLocal' = [EbIdle EXCEPT !.mapped = m]
  BY DEF EbNext, EbStep, EbDispatch, EbSentinel, EbAdvance, SplitEpub, DeriveUniverse, ResumeOrReparse,
         MapChapters, KeepMap, RecordUniverse, WipeText, WriteText, WriteEbookManifest, WriteEbookPlan,
         EbCrash, EbRerun, EbPurge, EbBeginPurge, EbPurgeSplit, EbPurgeText, EbPurgeSentinel, EbPurgeReconcile,
         EbPurgeFails, EbRetry, TailParks, EpubReplaced, eVars, EbPark, Materialize
<1>4. DOMAIN eWorld' = {"case", "epub", "parser", "left", "purge", "park", "cut"}
  BY DEF EbNext, EbStep, EbDispatch, EbSentinel, EbAdvance, SplitEpub, DeriveUniverse, ResumeOrReparse,
         MapChapters, KeepMap, RecordUniverse, WipeText, WriteText, WriteEbookManifest, WriteEbookPlan,
         EbCrash, EbRerun, EbPurge, EbBeginPurge, EbPurgeSplit, EbPurgeText, EbPurgeSentinel, EbPurgeReconcile,
         EbPurgeFails, EbRetry, TailParks, EpubReplaced, eVars, EbSpend
<1> QED  BY <1>1, <1>2, <1>3, <1>4

(* The text of one universe over nothing is its text. *)
LEMMA EbTextFresh == \A new : TextOver({}, new) = new
  BY DEF TextOver

(* A newly derived universe enters the text only when it passed its gate. *)
LEMMA EbDerives ==
    ASSUME EbInv, DeriveUniverse
    PROVE  /\ eBook.stage = "extracting" /\ eBook'.stage = "extracting"
           /\ eBook'.pc \in {"ebook_no_chapters", "wipe", "sentinel"}
           /\ eBook'.pc = "wipe" => /\ eLocal'.universe.contiguous /\ eLocal'.then = "sentinel"
                                    /\ eDisk'.universe = eLocal'.universe
           /\ eBook'.pc = "sentinel" => ~eLocal'.mapped
<1> DEFINE u == BuildUniverse(eDisk.split, eWorld.parser)
<1>0. PICK v : v = u
  OBVIOUS
<1> HIDE DEF u
<1>1. /\ EbIn("extracting", "derive") /\ eDisk' = [eDisk EXCEPT !.universe = v]
      /\ \/ EbPark("ebook_no_chapters")
         \/ /\ EbGo(IF v.contiguous THEN "wipe" ELSE "sentinel")
            /\ eLocal' = [EbIdle EXCEPT !.universe = IF v.contiguous THEN v ELSE NoUniverse,
                                        !.mapped = v.contiguous]
  BY <1>0 DEF DeriveUniverse, u
<1>2. eDisk'.universe = v
  BY <1>1 DEF EbInv, EbShaped
<1>3. eBook.stage = "extracting" /\ eBook'.stage = "extracting"
  BY <1>1 DEF EbIn, EbGo, EbPark, EbInv, EbPlaced
<1>4. CASE EbPark("ebook_no_chapters")
  BY <1>3, <1>4 DEF EbGo, EbPark, EbInv, EbPlaced
<1>5. CASE v.contiguous /\ EbGo("wipe")
           /\ eLocal' = [EbIdle EXCEPT !.universe = v, !.mapped = v.contiguous]
  BY <1>2, <1>3, <1>5 DEF EbGo, EbInv, EbPlaced, EbIdle
<1>6. CASE ~v.contiguous /\ EbGo("sentinel")
           /\ eLocal' = [EbIdle EXCEPT !.universe = NoUniverse, !.mapped = v.contiguous]
  BY <1>3, <1>6 DEF EbGo, EbInv, EbPlaced, EbIdle
<1> QED  BY <1>1, <1>4, <1>5, <1>6

(* What chapter_mapping takes as its universe. *)
LEMMA EbTakes ==
    ASSUME EbInv, ResumeOrReparse \/ MapChapters
    PROVE  /\ eBook.stage = "mapping" /\ eDisk' = eDisk
           /\ eBook'.pc \in {"wipe", "agent", "keep", "ebook_chapters_not_confident", "failed"}
           /\ eBook'.pc \in {"wipe", "keep"} => eLocal'.universe.contiguous
           /\ eBook'.pc = "keep" => eLocal'.then = "sentinel"
           /\ eBook'.pc = "wipe" => \/ eLocal'.then = "sentinel" /\ eLocal'.universe = eDisk.universe
                                    \/ eLocal'.then = "record"
<1>1. CASE ResumeOrReparse
  <2>1. PICK rebuilt :
            /\ EbIn("mapping", "work") /\ eDisk' = eDisk
            /\ \/ eDisk.universe.contiguous /\ Materialize(eDisk.universe, "sentinel")
               \/ rebuilt.contiguous /\ Materialize(rebuilt, "record")
               \/ EbGo("agent")
    BY <1>1 DEF ResumeOrReparse
  <2>2. CASE eDisk.universe.contiguous /\ Materialize(eDisk.universe, "sentinel")
    BY <2>1, <2>2 DEF Materialize, EbIn, EbGo, EbInv, EbPlaced, EbIdle
  <2>3. CASE rebuilt.contiguous /\ Materialize(rebuilt, "record")
    BY <2>1, <2>3 DEF Materialize, EbIn, EbGo, EbInv, EbPlaced, EbIdle
  <2>4. CASE EbGo("agent")
    BY <2>1, <2>4 DEF EbIn, EbGo, EbInv, EbPlaced
  <2> QED  BY <2>1, <2>2, <2>3, <2>4
<1>2. CASE MapChapters
  <2>1. /\ EbIn("mapping", "agent") /\ eDisk' = eDisk
        /\ \/ \E map : eLocal' = [EbIdle EXCEPT !.universe = ApplyChapterMap(eDisk.universe, map)] /\ EbGo("keep")
           \/ EbPark("ebook_chapters_not_confident") \/ EbPark("failed")
    BY <1>2 DEF MapChapters
  <2>2. ASSUME NEW map, eLocal' = [EbIdle EXCEPT !.universe = ApplyChapterMap(eDisk.universe, map)], EbGo("keep")
        PROVE  eBook'.pc = "keep" /\ eLocal'.universe.contiguous /\ eLocal'.then = "sentinel"
    <3>1. PICK u : u = ApplyChapterMap(eDisk.universe, map)
      OBVIOUS
    <3>2. u.contiguous
      BY <3>1 DEF ApplyChapterMap
    <3> QED  BY <2>2, <3>1, <3>2 DEF EbGo, EbInv, EbPlaced, EbIdle
  <2>3. CASE EbPark("ebook_chapters_not_confident") \/ EbPark("failed")
    BY <2>1, <2>3 DEF EbIn, EbGo, EbPark, EbInv, EbPlaced
  <2> QED  BY <2>1, <2>2, <2>3 DEF EbIn
<1> QED  BY <1>1, <1>2

(* It is of the sections of the recorded draft. *)
LEMMA EbTakesOwn ==
    ASSUME EbInv, ResumeOrReparse \/ MapChapters, eBook'.pc \in {"wipe", "keep"}
    PROVE  /\ DocsShaped(eLocal'.universe.docs)
           /\ SectionsAre(eLocal'.universe.docs, OwnSections(eDisk.universe.docs))
<1>0. DocsShaped(eDisk.universe.docs) /\ SectionsAre(eDisk.universe.docs, OwnSections(eDisk.universe.docs))
  BY DEF EbInv, EbOfSplit, SectionsAre, OwnSections
<1>1. CASE ResumeOrReparse
  <2>1. PICK rebuilt :
            /\ rebuilt = BuildUniverse(OwnSections(eDisk.universe.docs), eWorld.parser)
            /\ \/ Materialize(eDisk.universe, "sentinel") \/ Materialize(rebuilt, "record") \/ EbGo("agent")
    BY <1>1 DEF ResumeOrReparse
  <2>2. DocsShaped(rebuilt.docs) /\ SectionsAre(rebuilt.docs, OwnSections(eDisk.universe.docs))
    BY <2>1, BuildKeeps
  <2>3. ASSUME NEW u, NEW then, Materialize(u, then) PROVE eLocal'.universe = u
    BY <2>3 DEF Materialize, EbIdle
  <2>4. ~EbGo("agent")
    BY DEF EbGo, EbInv, EbPlaced
  <2> QED  BY <1>0, <2>1, <2>2, <2>3, <2>4
<1>2. CASE MapChapters
  <2>1. \/ \E map : eLocal' = [EbIdle EXCEPT !.universe = ApplyChapterMap(eDisk.universe, map)] /\ EbGo("keep")
        \/ EbPark("ebook_chapters_not_confident") \/ EbPark("failed")
    BY <1>2 DEF MapChapters
  <2>2. ~(EbPark("ebook_chapters_not_confident") \/ EbPark("failed"))
    BY DEF EbGo, EbPark, EbInv, EbPlaced
  <2>3. PICK map, u : u = ApplyChapterMap(eDisk.universe, map) /\ eLocal' = [EbIdle EXCEPT !.universe = u]
    BY <2>1, <2>2
  <2>4. eLocal'.universe = u
    BY <2>3 DEF EbIdle
  <2>5. DocsShaped(u.docs) /\ SectionsAre(u.docs, OwnSections(eDisk.universe.docs))
    BY <1>0, <2>3, MapKeeps
  <2> QED  BY <2>4, <2>5
<1> QED  BY <1>1, <1>2

(* The steps around the stages' own leave a book where nothing is being    *)
(* written, or change nothing of it.                                       *)
EbAround ==
    EbDispatch \/ EbSentinel \/ EbAdvance \/ EbCrash \/ EbRerun \/ EbPurge \/ EbRetry \/ TailParks

LEMMA EbAroundRests ==
    ASSUME EbInv, EbAround
    PROVE  eBook'.pc \in {"work", "advance", "idle"} \cup EbParks
<1> USE DEF EbInv, EbPlaced
<1>1. CASE EbDispatch \/ EbSentinel \/ EbAdvance \/ EbRerun \/ EbRetry \/ TailParks
  <2>1. CASE EbDispatch \/ TailParks
    BY <2>1 DEF EbDispatch, TailParks, EbGo, EbParks
  <2>2. CASE EbSentinel
    BY <2>2 DEF EbSentinel
  <2>3. CASE EbAdvance \/ EbRerun
    BY <2>3 DEF EbAdvance, EbRerun
  <2>4. CASE EbRetry
    BY <2>4 DEF EbRetry
  <2> QED  BY <1>1, <2>1, <2>2, <2>3, <2>4
<1>2. CASE EbCrash
  BY <1>2, EbCrashMoves DEF EbWentBack, EbAtRest
<1>3. CASE EbPurge
  <2>1. CASE EbPurgeReconcile
    <3>1. eBook.pc \in EbAtRest
      BY <2>1 DEF EbPurgeReconcile, EbHeld, Reserved
    <3>2. CASE eBook' = eBook
      BY <3>1, <3>2 DEF EbAtRest
    <3>3. CASE EbWentBack(eWorld.park) /\ eWorld.park \in EbAtRest
      <4>1. eBook'.pc = eWorld.park
        BY <3>3 DEF EbWentBack
      <4> QED  BY <3>3, <4>1 DEF EbAtRest
    <3> QED  BY <2>1, <3>2, <3>3, EbPurgeMoves
  <2>2. CASE EbPurgeOther
    BY <2>2, EbPurgeTakes DEF EbAtRest
  <2> QED  BY <1>3, <2>1, <2>2 DEF EbPurge, EbPurgeOther
<1> QED  BY <1>1, <1>2, <1>3 DEF EbAround

(* What no step of a stage is: a purge, or a step that leaves the book where*)
(* a purge finds it.                                                       *)
LEMMA EbHeldKept ==
    ASSUME EbInv, [EbNext]_eVars
    PROVE  EbHeld'
<1> USE DEF EbInv
<1>0. EbPlaced(eBook) /\ EbHeld /\ EbShaped /\ EbPlaced(eBook')
  BY EbPlacedKept
<1>1. CASE EbWork \/ EbSentinel \/ EbAdvance
  <2>1. eBook.pc \notin EbAtRest
    BY <1>1, EbWorkMoves DEF EbPcMove, EbSentinel, EbAdvance, EbAtRest, EbParks
  <2>2. eWorld.purge = "none"
    BY <2>1 DEF EbHeld, Reserved
  <2>3. eWorld'.purge = eWorld.purge
    BY <1>1 DEF EbShaped, EbWork, EbSentinel, EbAdvance, SplitEpub, DeriveUniverse, ResumeOrReparse, MapChapters,
         KeepMap, RecordUniverse, WipeText, WriteText, WriteEbookManifest, WriteEbookPlan, EbSpend
  <2> QED  BY <2>2, <2>3 DEF EbHeld, EbPurgeStep, Reserved
<1>2. CASE EbDispatch \/ TailParks \/ EbRerun
  <2>1. eWorld.purge = "none" /\ eWorld'.purge = eWorld.purge
    BY <1>2 DEF EbShaped, EbDispatch, TailParks, EbRerun, EbSpend, Reserved
  <2> QED  BY <2>1 DEF EbHeld, EbPurgeStep, Reserved
<1>3. CASE EbCrash
  <2>1. eWorld'.purge = "none"
    BY <1>3 DEF EbCrash, EbShaped
  <2> QED  BY <2>1 DEF EbHeld, EbPurgeStep, Reserved
<1>4. CASE EbRetry
  <2>1. /\ eBook'.pc = "idle" /\ eBook'.stage = eBook.stage /\ eDisk' = eDisk /\ eWorld' = eWorld
        /\ eBook.stage # "tail" => eBook'.sentinel[eBook.stage] = "none"
        /\ eBook.sentinel["extracting"] = "none" => eBook'.sentinel["extracting"] = "none"
    BY <1>4, EbStageFacts DEF EbRetry, EbUnwrite, EbPlaced, EbStages
  <2> QED  BY <2>1 DEF EbHeld, Reserved, EbAtRest
<1>5. CASE EpubReplaced \/ UNCHANGED eVars
  <2>1. eBook' = eBook /\ eDisk' = eDisk /\ eWorld'.purge = eWorld.purge /\ eWorld'.park = eWorld.park /\ eWorld'.cut = eWorld.cut
    BY <1>5 DEF EpubReplaced, eVars, EbShaped
  <2> QED  BY <2>1 DEF EbHeld, Reserved
<1>6. CASE EbPurgeOther
  <2>1. /\ eBook'.pc \in EbAtRest /\ (eBook'.stage # "tail" => eBook'.sentinel[eBook'.stage] = "none")
        /\ eBook.sentinel["extracting"] = "none" => eBook'.sentinel["extracting"] = "none"
    BY <1>0, <1>6, EbPurgeTakes, EbStageFacts DEF EbPlaced, EbStages
  <2>2. CASE EbBeginPurge
    <3>1. eWorld'.purge = "split" /\ eWorld'.park = eBook.pc /\ eBook.pc \in EbParks
      BY <2>2 DEF EbBeginPurge, EbShaped
    <3> QED  BY <2>1, <3>1 DEF EbHeld, Reserved, EbPurgeStep
  <2>3. CASE EbPurgeSplit
    <3>1. eWorld'.purge = "text" /\ eWorld'.park = eWorld.park /\ eDisk'.split = <<>> /\ eWorld.purge = "split"
      BY <2>3 DEF EbPurgeSplit, EbShaped
    <3> QED  BY <2>1, <3>1 DEF EbHeld, Reserved, EbPurgeStep
  <2>4. CASE EbPurgeText
    <3>1. eWorld.purge = "text" /\ eWorld'.purge \in {"text", "extracting"} /\ eWorld'.park = eWorld.park
          /\ eDisk'.split = eDisk.split
      BY <2>4 DEF EbPurgeText, EbShaped
    <3> QED  BY <2>1, <3>1 DEF EbHeld, Reserved, EbPurgeStep
  <2>5. CASE EbPurgeSentinel
    <3>1. PICK gone \in BOOLEAN :
            /\ eBook' = IF gone THEN [eBook EXCEPT !.sentinel[eWorld.purge] = "none"] ELSE eBook
            /\ eWorld' = [eWorld EXCEPT !.purge = IF @ = "extracting" THEN "mapping" ELSE "reconcile",
                                    !.cut = @ \/ (eWorld.purge = "extracting" /\ ~gone)]
      BY <2>5 DEF EbPurgeSentinel
    <3>2. eWorld.purge \in {"extracting", "mapping"} /\ eDisk' = eDisk
      BY <2>5 DEF EbPurgeSentinel, EbStages
    <3>3. eWorld'.purge \in {"mapping", "reconcile"} /\ eWorld'.park = eWorld.park
      BY <3>1, <3>2 DEF EbShaped
    <3>4. ~eWorld'.cut => ~eWorld.cut /\ (eWorld.purge = "extracting" => gone)
      BY <3>1, <3>2 DEF EbShaped
    <3>5. ~eWorld'.cut => eBook'.sentinel["extracting"] = "none"
      <4>1. CASE eWorld.purge = "extracting"
        BY <3>1, <3>4, <4>1, EbStageFacts DEF EbPlaced
      <4>2. CASE eWorld.purge = "mapping"
        BY <2>1, <3>4, <4>2 DEF EbHeld
      <4> QED  BY <3>2, <4>1, <4>2
    <3> QED  BY <2>1, <3>2, <3>3, <3>5 DEF EbHeld, Reserved, EbPurgeStep
  <2>6. CASE EbPurgeFails
    <3>1. eWorld'.purge = "none"
      BY <2>6 DEF EbPurgeFails, EbShaped
    <3> QED  BY <3>1 DEF EbHeld, Reserved, EbPurgeStep
  <2> QED  BY <1>6, <2>2, <2>3, <2>4, <2>5, <2>6 DEF EbPurgeOther
<1>7. CASE EbPurgeReconcile
  <2>1. eWorld'.purge = "none"
    BY <1>7 DEF EbPurgeReconcile, EbShaped
  <2> QED  BY <2>1 DEF EbHeld, Reserved, EbPurgeStep
<1> QED  BY <1>1, <1>2, <1>3, <1>4, <1>5, <1>6, <1>7 DEF EbNext, EbStep, EbWork, EbPurge, EbPurgeOther

(* An epub that has not been split yet, and a book at extracting that has  *)
(* not derived its universe yet, are as any step around the stages left it.*)
EbNotDerived == eBook.stage = "extracting" /\ eBook.sentinel["extracting"] = "none" /\ eBook.pc \notin Deriving

LEMMA EbStaysUnderived ==
    ASSUME EbInv, EbNotDerived,
           EbDispatch \/ EbCrash \/ EbRerun \/ EbPurge \/ EbRetry \/ TailParks
    PROVE  EbNotDerived'
<1> USE DEF EbInv, EbNotDerived
<1>0. eBook.done = {}
  BY EbStageFacts DEF EbPlaced, EbStages
<1>1. CASE EbDispatch
  BY <1>1 DEF EbDispatch, EbGo, EbPlaced, Deriving
<1>2. CASE EbCrash
  <2>1. eBook' = [eBook EXCEPT !.pc = EbLands] /\ EbLands \in EbAtRest
    BY <1>0, <1>2, EbCrashMoves DEF EbWentBack
  <2> QED  BY <2>1 DEF EbPlaced, EbAtRest, EbParks, Deriving
<1>3. CASE EbRerun
  <2>1. PICK s \in EbStages : /\ EbOrder[s] <= 1
                              /\ eBook' = [stage |-> s, pc |-> "idle", done |-> eBook.done \ EbFrom(s),
                                           sentinel |-> EbUnwrite(EbFrom(s))]
    BY <1>3, EbStageFacts DEF EbRerun
  <2>2. s = "extracting"
    BY <2>1, EbStageFacts DEF EbStages
  <2> QED  BY <2>1, <2>2, EbStageFacts DEF EbUnwrite, Deriving
<1>4. CASE EbPurge
  <2>1. CASE EbPurgeReconcile
    BY <1>0, <2>1, EbPurgeMoves DEF EbWentBack
  <2>2. CASE EbPurgeOther
    BY <2>2, EbPurgeTakes, EbStageFacts DEF EbAtRest, EbParks, Deriving
  <2> QED  BY <1>4, <2>1, <2>2 DEF EbPurge, EbPurgeOther
<1>5. CASE EbRetry
  BY <1>5, EbStageFacts DEF EbRetry, EbUnwrite, EbPlaced, Deriving, EbStages
<1>6. CASE TailParks
  BY <1>6 DEF TailParks, EbIn
<1> QED  BY <1>1, <1>2, <1>3, <1>4, <1>5, <1>6

LEMMA EbOfSplitKept ==
    ASSUME EbInv, [EbNext]_eVars
    PROVE  EbOfSplit'
<1> USE DEF EbInv
<1> DEFINE Epubs == /\ \A i \in DOMAIN eWorld.epub : eWorld.epub[i] \in EbSecRec
                    /\ \A i \in DOMAIN eWorld.case.other : eWorld.case.other[i] \in EbSecRec
<1>0. Epubs'
  <2>1. eWorld'.case = eWorld.case /\ eWorld'.epub \in {eWorld.epub, eWorld.case.other}
    BY DEF EbNext, EbStep, EbDispatch, EbSentinel, EbAdvance, SplitEpub, DeriveUniverse, ResumeOrReparse,
         MapChapters, KeepMap, RecordUniverse, WipeText, WriteText, WriteEbookManifest, WriteEbookPlan,
         EbCrash, EbRerun, EbPurge, EbBeginPurge, EbPurgeSplit, EbPurgeText, EbPurgeSentinel, EbPurgeReconcile,
         EbPurgeFails, EbRetry, TailParks, EpubReplaced, eVars, EbSpend, EbShaped
  <2> QED  BY <2>1 DEF EbOfSplit
<1> HIDE DEF Epubs
<1>1. CASE SplitEpub
  <2>1. eBook.stage = "extracting" /\ eBook'.stage = "extracting" /\ eBook'.sentinel["extracting"] = "none"
        /\ eBook'.pc \in {"derive", "ebook_unreadable"} /\ eDisk'.universe = eDisk.universe
    BY <1>1, EbWorkMoves DEF SplitEpub, EbIn, EbWork, EbPcMove, EbPlaced, EbShaped, EbGo, EbPark
  <2>2. eDisk'.split \in {eDisk.split, eWorld.epub}
    BY <1>1 DEF SplitEpub, EbShaped
  <2> QED  BY <1>0, <2>1, <2>2 DEF EbOfSplit, Epubs, Deriving
<1>2. CASE DeriveUniverse
  <2> DEFINE u == BuildUniverse(eDisk.split, eWorld.parser)
  <2>1. SectionsAre(u.docs, eDisk.split) /\ DocsShaped(u.docs)
    BY BuildKeeps
  <2>2. eDisk'.universe = u /\ eDisk'.split = eDisk.split
    BY <1>2 DEF DeriveUniverse, EbShaped
  <2> HIDE DEF u
  <2>3. SectionsAre(u.docs, OwnSections(u.docs))
    BY DEF SectionsAre, OwnSections
  <2> QED  BY <1>0, <1>2, <2>1, <2>2, <2>3, EbDerives DEF EbOfSplit, Epubs
<1>3. CASE ResumeOrReparse \/ MapChapters
  <2>1. eBook.stage = "mapping" /\ eBook'.stage = "mapping" /\ eDisk' = eDisk
    BY <1>3, EbTakes, EbWorkMoves DEF EbWork, EbPcMove, EbPlaced
  <2>2. eBook'.pc \in {"wipe", "agent", "keep", "ebook_chapters_not_confident", "failed"}
    BY <1>3, EbTakes
  <2>3. eBook'.pc \in {"wipe", "keep"} =>
           DocsShaped(eLocal'.universe.docs) /\ SectionsAre(eLocal'.universe.docs, OwnSections(eDisk.universe.docs))
    BY <1>3, EbTakesOwn
  <2> QED  BY <1>0, <2>1, <2>2, <2>3 DEF EbOfSplit, Epubs
<1>4. CASE KeepMap \/ RecordUniverse
  <2>1. /\ eBook.stage = "mapping" /\ eBook.pc \in {"keep", "record"} /\ eBook'.stage = "mapping" /\ eLocal' = eLocal
        /\ eDisk'.universe = eLocal.universe /\ eDisk'.split = eDisk.split
    BY <1>4 DEF KeepMap, RecordUniverse, EbIn, EbGo, EbPlaced, EbShaped
  <2>2. DocsShaped(eLocal.universe.docs) /\ SectionsAre(eLocal.universe.docs, OwnSections(eDisk.universe.docs))
    BY <2>1 DEF EbOfSplit
  <2>3. eDisk.split = <<>> \/ SectionsAre(eLocal.universe.docs, eDisk.split)
    BY <2>1, <2>2, SectionsOfOwn DEF EbOfSplit
  <2>4. SectionsAre(eLocal.universe.docs, OwnSections(eLocal.universe.docs))
    BY DEF SectionsAre, OwnSections
  <2> QED  BY <1>0, <2>1, <2>2, <2>3, <2>4 DEF EbOfSplit, Epubs
<1>5. CASE WipeText \/ WriteText \/ WriteEbookManifest \/ WriteEbookPlan
  <2>1. /\ eBook.pc \in {"wipe", "text", "manifest", "plan"}
        /\ eDisk'.universe = eDisk.universe /\ eDisk'.split = eDisk.split
        /\ eLocal' = eLocal \/ eBook'.pc = "failed"
    BY <1>5 DEF WipeText, WriteText, WriteEbookManifest, WriteEbookPlan, EbShaped, EbGo, EbPark, EbPlaced
  <2>2. eBook.pc \in Deriving
    BY <2>1 DEF Deriving
  <2> QED  BY <1>0, <2>1, <2>2 DEF EbOfSplit, Epubs
<1>6. CASE EbSentinel \/ EbAdvance
  <2>1. eDisk' = eDisk /\ eBook.pc \in Deriving /\ eBook'.pc \in {"advance", "idle"}
    <3>1. CASE EbSentinel
      BY <3>1 DEF EbSentinel, EbPlaced, Deriving
    <3>2. CASE EbAdvance
      BY <3>2 DEF EbAdvance, Deriving
    <3> QED  BY <1>6, <3>1, <3>2
  <2> QED  BY <1>0, <2>1 DEF EbOfSplit, Epubs
<1>7. CASE EbDispatch \/ EbCrash \/ EbRerun \/ EbPurge \/ EbRetry \/ TailParks
  <2>1. eDisk'.universe = eDisk.universe /\ eDisk'.split \in {eDisk.split, <<>>}
    BY <1>7 DEF EbShaped, EbDispatch, EbCrash, EbRerun, EbPurge, EbBeginPurge, EbPurgeSplit, EbPurgeText, EbPurgeSentinel,
         EbPurgeReconcile, EbPurgeFails, EbRetry, TailParks
  <2>2. eBook'.pc \notin {"keep", "record", "wipe", "text", "manifest", "plan"}
    BY <1>7, EbAroundRests DEF EbAround, EbParks
  <2>3. EbNotDerived => EbNotDerived'
    BY <1>7, EbStaysUnderived
  <2>4. \A i \in DOMAIN <<>> : <<>>[i] \in EbSecRec
    OBVIOUS
  <2>5. \A i \in DOMAIN eDisk'.split : eDisk'.split[i] \in EbSecRec
    BY <2>1, <2>4 DEF EbOfSplit
  <2> QED  BY <1>0, <2>1, <2>2, <2>3, <2>5 DEF EbOfSplit, Epubs, EbNotDerived
<1>8. CASE EpubReplaced \/ UNCHANGED eVars
  <2>1. eBook' = eBook /\ eDisk' = eDisk /\ eLocal' = eLocal
    BY <1>8 DEF EpubReplaced, eVars
  <2> QED  BY <1>0, <2>1 DEF EbOfSplit, Epubs
<1> QED  BY <1>1, <1>2, <1>3, <1>4, <1>5, <1>6, <1>7, <1>8 DEF EbNext, EbStep

LEMMA EbWritingKept ==
    ASSUME EbInv, [EbNext]_eVars
    PROVE  EbWriting'
<1> USE DEF EbInv
<1>1. CASE EbAround
  BY <1>1, EbAroundRests DEF EbWriting, EbParks
<1>2. CASE EpubReplaced \/ UNCHANGED eVars
  BY <1>2 DEF EpubReplaced, eVars, EbWriting, TextOf
<1>3. CASE DeriveUniverse
  BY <1>3, EbDerives DEF EbWriting
<1>4. CASE ResumeOrReparse \/ MapChapters
  <2>1. eBook'.stage = "mapping"
    BY <1>4, EbTakes, EbWorkMoves DEF EbWork, EbPcMove, EbPlaced
  <2> QED  BY <1>4, <2>1, EbTakes DEF EbWriting
<1>5. CASE KeepMap
  <2>1. eBook.pc = "keep" /\ eBook'.pc = "wipe" /\ eLocal' = eLocal /\ eDisk'.universe = eLocal.universe
    BY <1>5 DEF KeepMap, EbIn, EbGo, EbPlaced, EbShaped
  <2> QED  BY <2>1 DEF EbWriting
<1>6. CASE SplitEpub \/ RecordUniverse
  <2>1. eBook'.pc \in {"derive", "sentinel"} \cup EbParks
    BY <1>6 DEF SplitEpub, RecordUniverse, EbGo, EbPark, EbPlaced, EbParks
  <2> QED  BY <2>1 DEF EbWriting, EbParks
<1>7. CASE WipeText
  <2>1. /\ eBook.pc = "wipe" /\ eBook'.pc = "text" /\ eBook'.stage = eBook.stage /\ eLocal' = eLocal
        /\ eDisk'.text = {} /\ eDisk'.universe = eDisk.universe
    BY <1>7 DEF WipeText, EbGo, EbPlaced, EbShaped
  <2> QED  BY <2>1 DEF EbWriting
<1>8. CASE WriteText
  <2>1. CASE eDisk.split = <<>>
    <3>1. eBook'.pc = "failed"
      BY <1>8, <2>1 DEF WriteText, EbGo, EbPark, EbPlaced
    <3> QED  BY <3>1 DEF EbWriting
  <2>2. CASE eDisk.split # <<>>
    <3>1. /\ eBook.pc = "text" /\ eBook'.pc = "manifest" /\ eBook'.stage = eBook.stage /\ eLocal' = eLocal
          /\ eDisk'.universe = eDisk.universe /\ eDisk'.split = eDisk.split
          /\ eDisk'.text = TextOver(eDisk.text, TextOf(eLocal.universe, eDisk.split))
      BY <1>8, <2>2 DEF WriteText, EbGo, EbPlaced, EbShaped
    <3>2. eDisk'.text = TextOf(eLocal.universe, eDisk.split)
      BY <3>1, EbTextFresh DEF EbWriting
    <3> QED  BY <2>2, <3>1, <3>2 DEF EbWriting
  <2> QED  BY <2>1, <2>2
<1>9. CASE WriteEbookManifest
  <2>1. /\ eBook.pc = "manifest" /\ eBook'.pc = "plan" /\ eBook'.stage = eBook.stage /\ eLocal' = eLocal
        /\ eDisk'.universe = eDisk.universe /\ eDisk'.split = eDisk.split /\ eDisk'.text = eDisk.text
        /\ eDisk'.manifest = ChapterNums(eLocal.universe.docs)
    BY <1>9 DEF WriteEbookManifest, EbGo, EbPlaced, EbShaped
  <2> QED  BY <2>1 DEF EbWriting
<1>10. CASE WriteEbookPlan
  <2>1. /\ eBook.pc = "plan" /\ eBook'.pc \in {"sentinel", "record"} /\ eBook'.stage = eBook.stage
        /\ eBook'.pc = eLocal.then /\ eLocal' = eLocal
    BY <1>10 DEF WriteEbookPlan, EbGo, EbPlaced, EbWriting
  <2>2. /\ eDisk'.universe = eDisk.universe /\ eDisk'.split = eDisk.split /\ eDisk'.text = eDisk.text
        /\ eDisk'.manifest = eDisk.manifest /\ eDisk'.plan = PlanChunks(eLocal.universe.docs)
    BY <1>10 DEF WriteEbookPlan, EbShaped
  <2> QED  BY <2>1, <2>2 DEF EbWriting
<1> QED  BY <1>1, <1>2, <1>3, <1>4, <1>5, <1>6, <1>7, <1>8, <1>9, <1>10 DEF EbNext, EbStep, EbAround

(* Where a sentinel is about to be written, the text of a whole split is of*)
(* the sections the universe keeps.                                        *)
LEMMA EbIsOwn ==
    ASSUME EbInv, [EbNext]_eVars, eBook'.pc = "sentinel", eDisk'.split # <<>>
    PROVE  TextOf(eDisk'.universe, OwnSections(eDisk'.universe.docs)) = TextOf(eDisk'.universe, eDisk'.split)
<1>1. EbOfSplit'
  BY EbOfSplitKept
<1>2. /\ SectionsAre(eDisk'.universe.docs, eDisk'.split)
      /\ \A i \in DOMAIN eDisk'.split : eDisk'.split[i] \in EbSecRec
  BY <1>1 DEF EbOfSplit, Deriving
<1> QED  BY <1>2, TextIsOwn

LEMMA EbSameMaterial ==
    ASSUME eDisk' = eDisk
    PROVE  /\ MaterialAgrees' <=> MaterialAgrees
           /\ eWorld'.cut = eWorld.cut /\ eWorld'.purge = eWorld.purge => (EbKept' <=> EbKept)
           /\ eWorld'.cut /\ eWorld.cut => (EbKept' <=> EbKept)
<1>1. MaterialAgrees' <=> MaterialAgrees
  BY DEF MaterialAgrees
<1>2. eWorld'.cut = eWorld.cut /\ eWorld'.purge = eWorld.purge => (EbKept' <=> EbKept)
  BY DEF EbKept
<1>3. eWorld'.cut /\ eWorld.cut => (EbKept' <=> EbKept)
  BY DEF EbKept
<1> QED  BY <1>1, <1>2, <1>3

(* A book moved back, or at rest in a stage without a sentinel, is not     *)
(* written.                                                                *)
LEMMA EbNotWritten ==
    /\ \A pc \in EbAtRest : EbPlaced(eBook) /\ EbWentBack(pc) => ~EbWritten' /\ eBook'.pc # "advance"
    /\ eBook'.stage \in EbStages /\ eBook'.pc \in EbAtRest /\ eBook'.sentinel[eBook'.stage] = "none" =>
          ~EbWritten' /\ eBook'.pc # "advance"
<1>1. eBook'.stage \in EbStages /\ eBook'.pc \in EbAtRest /\ eBook'.sentinel[eBook'.stage] = "none" =>
          ~EbWritten' /\ eBook'.pc # "advance"
  BY DEF EbWritten, EbStages, EbAtRest, EbParks
<1>2. ASSUME NEW pc \in EbAtRest, EbPlaced(eBook), EbWentBack(pc)
      PROVE  eBook'.stage \in EbStages /\ eBook'.pc \in EbAtRest /\ eBook'.sentinel[eBook'.stage] = "none"
  BY <1>2 DEF EbWentBack, EbPlaced
<1> QED  BY <1>1, <1>2

LEMMA EbCompleteKept ==
    ASSUME EbInv, [EbNext]_eVars
    PROVE  EbComplete'
<1> USE DEF EbInv
<1>1. CASE EbWork
  <2>1. EbPcMove
    BY <1>1, EbWorkMoves
  <2>2. /\ eBook'.stage = eBook.stage /\ eBook'.sentinel = eBook.sentinel /\ eBook'.pc # "advance"
        /\ eBook.stage \in EbStages /\ eBook.sentinel[eBook.stage] = "none"
    BY <2>1 DEF EbPcMove, EbPlaced
  <2>3. EbWritten' => eBook'.pc = "sentinel" /\ (eBook.stage = "mapping" \/ eLocal'.mapped)
    BY <2>2, EbStageFacts DEF EbWritten, EbStages
  <2>4. CASE eBook'.pc # "sentinel"
    BY <2>2, <2>3, <2>4 DEF EbComplete
  <2>5. CASE eBook'.pc = "sentinel"
    <3>1. CASE DeriveUniverse
      BY <2>2, <2>3, <3>1, EbDerives DEF EbComplete
    <3>2. CASE RecordUniverse
      <4>1. /\ eBook.pc = "record" /\ eDisk'.universe = eLocal.universe /\ eDisk'.split = eDisk.split
            /\ eDisk'.text = eDisk.text /\ eDisk'.manifest = eDisk.manifest /\ eDisk'.plan = eDisk.plan
        BY <3>2 DEF RecordUniverse, EbIn, EbShaped
      <4>2. /\ eLocal.universe.contiguous /\ eDisk.split # <<>> /\ eDisk.text = TextOf(eLocal.universe, eDisk.split)
            /\ eDisk.manifest = ChapterNums(eLocal.universe.docs) /\ eDisk.plan = PlanChunks(eLocal.universe.docs)
        BY <4>1 DEF EbWriting
      <4> QED  BY <2>2, <2>5, <4>1, <4>2, EbIsOwn DEF EbComplete, MaterialAgrees, EbKept
    <3>3. CASE WriteEbookPlan
      <4>1. /\ eBook.pc = "plan" /\ eLocal.then = "sentinel"
            /\ eDisk'.universe = eDisk.universe /\ eDisk'.split = eDisk.split /\ eDisk'.text = eDisk.text
            /\ eDisk'.manifest = eDisk.manifest /\ eDisk'.plan = PlanChunks(eLocal.universe.docs)
        BY <2>5, <3>3 DEF WriteEbookPlan, EbGo, EbPlaced, EbShaped
      <4>2. /\ eDisk.universe = eLocal.universe /\ eLocal.universe.contiguous /\ eDisk.split # <<>>
            /\ eDisk.text = TextOf(eLocal.universe, eDisk.split) /\ eDisk.manifest = ChapterNums(eLocal.universe.docs)
        BY <4>1 DEF EbWriting
      <4> QED  BY <2>2, <2>5, <4>1, <4>2, EbIsOwn DEF EbComplete, MaterialAgrees, EbKept
    <3>4. CASE ~(DeriveUniverse \/ RecordUniverse \/ WriteEbookPlan)
      <4>1. eBook'.pc # "sentinel"
        BY <1>1, <3>4, EbTakes
           DEF EbWork, SplitEpub, KeepMap, WipeText, WriteText, WriteEbookManifest, EbGo, EbPark, EbPlaced
      <4> QED  BY <2>5, <4>1
    <3> QED  BY <3>1, <3>2, <3>3, <3>4
  <2> QED  BY <2>4, <2>5
<1>2. CASE EbDispatch
  <2>1. eDisk' = eDisk
    BY <1>2 DEF EbDispatch
  <2>0. eWorld' = eWorld
    BY <1>2 DEF EbDispatch
  <2>2. /\ eBook'.stage = eBook.stage /\ eBook'.sentinel = eBook.sentinel /\ eBook.pc = "idle"
        /\ eBook'.pc \in {"work", "advance"}
    BY <1>2 DEF EbDispatch, EbGo, EbPlaced
  <2>3. eBook'.pc = "advance" => (eLocal'.mapped <=> eBook.sentinel[eBook.stage] = "mapped")
    <3>1. ASSUME eBook'.pc = "advance" PROVE eLocal' = [EbIdle EXCEPT !.mapped = eBook.sentinel[eBook.stage] = "mapped"]
      BY <1>2, <3>1 DEF EbDispatch, EbGo, EbPlaced
    <3> QED  BY <3>1 DEF EbIdle
  <2>4. EbWritten' => EbWritten
    BY <2>2 DEF EbWritten
  <2> QED  BY <2>0, <2>1, <2>2, <2>3, <2>4, EbSameMaterial DEF EbComplete
<1>3. CASE EbSentinel
  <2>1. eBook.stage \in EbStages /\ eBook.pc = "sentinel"
    BY <1>3 DEF EbSentinel, EbPlaced, EbStages
  <2>2. /\ eBook'.stage = eBook.stage /\ eBook'.pc = "advance" /\ eDisk' = eDisk /\ eLocal' = eLocal /\ eWorld' = eWorld
        /\ eBook'.sentinel[eBook.stage] = IF eLocal.mapped THEN "mapped" ELSE "written"
    BY <1>3, <2>1 DEF EbSentinel, EbPlaced
  <2>3. EbWritten' => EbWritten
    BY <2>1, <2>2 DEF EbWritten
  <2> QED  BY <2>2, <2>3, EbSameMaterial DEF EbComplete
<1>4. CASE EbAdvance
  <2>1. eDisk' = eDisk /\ eWorld' = eWorld /\ eBook.pc = "advance" /\ eBook.stage \in EbStages /\ eBook.sentinel[eBook.stage] # "none"
    BY <1>4 DEF EbAdvance, EbPlaced, EbStages
  <2>2. /\ eBook'.pc = "idle"
        /\ \/ eBook'.stage = "mapping" /\ eBook'.sentinel["mapping"] = "none"
           \/ eBook'.stage = "tail" /\ (eBook.stage = "mapping" \/ eLocal.mapped)
    BY <1>4, <2>1 DEF EbAdvance, EbStages
  <2>3. EbWritten' => EbWritten
    BY <2>1, <2>2 DEF EbWritten, EbComplete, EbStages
  <2> QED  BY <2>1, <2>2, <2>3, EbSameMaterial DEF EbComplete
<1>5. CASE EbCrash
  <2>1. EbLands \in EbAtRest /\ (eBook' = [eBook EXCEPT !.pc = EbLands] \/ EbWentBack(EbLands))
    BY <1>5, EbCrashMoves
  <2>2. CASE EbWentBack(EbLands)
    BY <2>1, <2>2, EbNotWritten DEF EbComplete
  <2>3. CASE eBook' = [eBook EXCEPT !.pc = EbLands]
    <3>1. eBook'.stage = eBook.stage /\ eBook'.sentinel = eBook.sentinel /\ eBook'.pc \notin {"sentinel", "advance"}
      BY <2>1, <2>3 DEF EbPlaced, EbAtRest, EbParks
    <3>2. ASSUME EbWritten' PROVE EbWritten /\ eBook.pc # "text"
      BY <3>1, <3>2, EbStageFacts DEF EbWritten, EbPlaced
    <3>3. eBook.pc # "text" => eDisk' = [eDisk EXCEPT !.text = @]
      BY <1>5 DEF EbCrash
    <3>4. eBook.pc # "text" =>
            /\ eDisk'.universe = eDisk.universe /\ eDisk'.split = eDisk.split /\ eDisk'.text = eDisk.text
            /\ eDisk'.manifest = eDisk.manifest /\ eDisk'.plan = eDisk.plan
      BY <3>3 DEF EbShaped
    <3>5. eWorld'.cut = (eWorld.cut \/ eWorld.purge \notin {"none", "split"})
      BY <1>5 DEF EbCrash, EbShaped
    <3> QED  BY <3>1, <3>2, <3>4, <3>5 DEF EbComplete, EbKept, MaterialAgrees
  <2> QED  BY <2>1, <2>2, <2>3
<1>6. CASE EbRerun
  <2>1. PICK s \in EbStages : eBook' = [stage |-> s, pc |-> "idle", done |-> eBook.done \ EbFrom(s),
                                        sentinel |-> EbUnwrite(EbFrom(s))]
    BY <1>6 DEF EbRerun
  <2>2. eBook'.stage = s /\ eBook'.sentinel[s] = "none" /\ eBook'.pc = "idle" /\ s # "tail"
    BY <2>1, EbStageFacts DEF EbUnwrite, EbStages
  <2> QED  BY <2>2 DEF EbComplete, EbWritten
<1>7. CASE EbPurgeReconcile
  <2>1. /\ eDisk' = eDisk /\ eWorld'.cut = eWorld.cut
        /\ eBook.pc \in EbAtRest /\ (eBook.stage # "tail" => eBook.sentinel[eBook.stage] = "none")
        /\ ~eWorld.cut => eBook.sentinel["extracting"] = "none"
    BY <1>7 DEF EbPurgeReconcile, EbHeld, EbShaped, Reserved
  <2>2. CASE EbWentBack(eWorld.park) /\ eWorld.park \in EbAtRest
    BY <2>2, EbNotWritten DEF EbComplete
  <2>3. CASE eBook' = eBook /\ \A s \in eBook.done : eBook.sentinel[s] # "none"
    <3>1. CASE eBook.stage # "tail"
      <4>1. eBook.stage \in EbStages
        BY <3>1 DEF EbPlaced
      <4> QED  BY <2>1, <2>3, <3>1, <4>1, EbNotWritten DEF EbComplete
    <3>2. CASE eBook.stage = "tail"
      <4>1. "extracting" \in eBook.done /\ EbWritten
        BY <3>2 DEF EbPlaced, EbWritten
      <4>2. eWorld'.cut /\ eBook'.pc # "advance"
        BY <2>1, <2>3, <3>2, <4>1 DEF EbAtRest, EbParks
      <4> QED  BY <2>1, <4>1, <4>2, EbSameMaterial DEF EbComplete
    <3> QED  BY <3>1, <3>2
  <2> QED  BY <1>7, <2>2, <2>3, EbPurgeMoves
<1>8. CASE EbPurgeOther
  <2>1. /\ eBook.pc \in EbAtRest /\ (eBook.stage # "tail" => eBook.sentinel[eBook.stage] = "none")
        /\ eBook'.stage = eBook.stage /\ eBook'.pc = eBook.pc
        /\ \A s \in EbStages : eBook'.sentinel[s] = eBook.sentinel[s] \/ eBook'.sentinel[s] = "none"
    BY <1>8, EbPurgeTakes
  <2>2. CASE eBook.stage # "tail"
    <3>1. eBook.stage \in EbStages
      BY <2>2 DEF EbPlaced
    <3>2. eBook'.sentinel[eBook'.stage] = "none"
      BY <2>1, <2>2, <3>1
    <3> QED  BY <2>1, <3>1, <3>2, EbNotWritten DEF EbComplete
  <2>3. CASE eBook.stage = "tail"
    <3>1. MaterialAgrees /\ EbKept
      BY <2>3 DEF EbComplete, EbWritten
    <3>2. /\ eDisk'.universe = eDisk.universe /\ eDisk'.manifest = eDisk.manifest /\ eDisk'.plan = eDisk.plan
          /\ eDisk'.text \subseteq eDisk.text
          /\ eDisk'.split = <<>> \/ (eDisk'.split = eDisk.split /\ eDisk'.text = eDisk.text)
      <4>1. CASE EbPurgeText
        <5>1. eDisk.split = <<>>
          BY <4>1 DEF EbPurgeText, EbHeld
        <5> QED  BY <4>1, <5>1 DEF EbPurgeText, EbShaped
      <4>2. CASE EbPurgeSplit
        BY <4>2 DEF EbPurgeSplit, EbShaped
      <4>3. CASE EbBeginPurge \/ EbPurgeSentinel \/ EbPurgeFails
        BY <4>3 DEF EbBeginPurge, EbPurgeSentinel, EbPurgeFails
      <4> QED  BY <1>8, <4>1, <4>2, <4>3 DEF EbPurgeOther
    <3>3. MaterialAgrees'
      BY <3>1, <3>2 DEF MaterialAgrees
    <3>4. EbKept'
      <4>1. CASE EbBeginPurge
        BY <3>1, <4>1 DEF EbBeginPurge, EbKept, Reserved, EbShaped
      <4>2. CASE EbPurgeSplit \/ EbPurgeText
        BY <4>2 DEF EbPurgeSplit, EbPurgeText, EbKept, EbShaped
      <4>3. CASE EbPurgeSentinel
        <5>1. eWorld'.purge \in {"mapping", "reconcile"}
          BY <4>3 DEF EbPurgeSentinel, EbShaped
        <5> QED  BY <5>1 DEF EbKept
      <4>4. CASE EbPurgeFails
        BY <3>1, <4>4 DEF EbPurgeFails, EbKept, EbShaped
      <4> QED  BY <1>8, <4>1, <4>2, <4>3, <4>4 DEF EbPurgeOther
    <3>5. eBook'.pc # "advance"
      BY <2>1 DEF EbAtRest, EbParks
    <3> QED  BY <3>3, <3>4, <3>5 DEF EbComplete
  <2> QED  BY <2>2, <2>3
<1>9. CASE EbRetry
  <2>1. /\ eBook'.stage = eBook.stage /\ eBook'.pc = "idle" /\ eDisk' = eDisk /\ eWorld' = eWorld
        /\ eBook.stage = "tail" \/ eBook'.sentinel[eBook.stage] = "none"
    BY <1>9, EbStageFacts DEF EbRetry, EbUnwrite, EbPlaced
  <2>2. EbWritten' => EbWritten
    BY <2>1 DEF EbWritten
  <2> QED  BY <2>1, <2>2, EbSameMaterial DEF EbComplete
<1>10. CASE TailParks
  <2>1. /\ eBook.stage = "tail" /\ eBook'.pc = "tail_park" /\ eDisk' = eDisk
        /\ eWorld'.cut = eWorld.cut /\ eWorld'.purge = eWorld.purge
    BY <1>10 DEF TailParks, EbIn, EbGo, EbSpend, EbPlaced, EbShaped
  <2>2. EbWritten
    BY <2>1 DEF EbWritten
  <2> QED  BY <2>1, <2>2, EbSameMaterial DEF EbComplete
<1>11. CASE EpubReplaced \/ UNCHANGED eVars
  <2>1. eBook' = eBook /\ eDisk' = eDisk /\ eLocal' = eLocal /\ eWorld'.cut = eWorld.cut /\ eWorld'.purge = eWorld.purge
    BY <1>11 DEF EpubReplaced, eVars, EbShaped
  <2>2. EbWritten' <=> EbWritten
    BY <2>1 DEF EbWritten
  <2> QED  BY <2>1, <2>2, EbSameMaterial DEF EbComplete
<1> QED  BY <1>1, <1>2, <1>3, <1>4, <1>5, <1>6, <1>7, <1>8, <1>9, <1>10, <1>11
         DEF EbNext, EbStep, EbWork, EbPurge, EbPurgeOther

(* For every epub, every map an agent may answer, and any crashes, newer   *)
(* parsers, reruns and replaced epubs, and purges that a crash or an error *)
(* ends at any step: the text the authoring tail reads is of the recorded  *)
(* universe and of no other epub, and it is whole unless a purge was cut   *)
(* (materializeEbookChapters, purgeScratchInner).                          *)
THEOREM TextOfOneSplit == EbSpec => []BookOfOneSplit
<1>1. EbInit => EbInv
  <2> SUFFICES ASSUME EbInit PROVE EbInv
    OBVIOUS
  <2>1. EbPlaced(eBook)
    BY EbStageFacts DEF EbInit, EbPlaced, EbPcs
  <2>2. PICK c \in EbCases : eWorld = [case |-> c, epub |-> c.epub, parser |-> "old", left |-> c.left,
                                       purge |-> "none", park |-> "", cut |-> FALSE]
    BY DEF EbInit
  <2>3. /\ eBook.stage = "extracting" /\ eBook.pc = "idle" /\ eBook.sentinel["extracting"] = "none"
        /\ eDisk.split = <<>> /\ eDisk.universe = NoUniverse /\ EbShaped
    BY EbStageFacts DEF EbInit, EbShaped, EbIdle
  <2>4. EbHeld
    BY <2>2 DEF EbHeld, Reserved, EbPurgeStep
  <2>5. DocsShaped(NoUniverse.docs)
    BY DEF NoUniverse, DocsShaped
  <2>6. /\ \A i \in DOMAIN c.epub : c.epub[i] \in EbSecRec
        /\ \A i \in DOMAIN c.other : c.other[i] \in EbSecRec
    <3>1. c.epub \in Seq(EbSecRec) /\ c.other \in Seq(EbSecRec)
      BY EbAssumption, Zenon DEF EbSecRec
    <3> QED  BY <3>1
  <2>7. EbOfSplit
    <3>1. eWorld.epub = c.epub /\ eWorld.case.other = c.other
      BY <2>2
    <3> QED  BY <2>3, <2>5, <2>6, <3>1 DEF EbOfSplit
  <2>8. EbWriting /\ EbComplete
    BY <2>3 DEF EbWriting, EbComplete, EbWritten
  <2> QED  BY <2>1, <2>3, <2>4, <2>7, <2>8 DEF EbInv
<1>2. EbInv /\ [EbNext]_eVars => EbInv'
  BY EbPlacedKept, EbShapedKept, EbHeldKept, EbOfSplitKept, EbWritingKept, EbCompleteKept DEF EbInv
<1>3. EbInv => BookOfOneSplit
  BY DEF EbInv, EbComplete, EbKept, EbWritten, BookOfOneSplit, TailReads, Reserved
<1> QED  BY <1>1, <1>2, <1>3, PTL DEF EbSpec
=============================================================================
