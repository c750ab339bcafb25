------------------------------ MODULE MCFlows ------------------------------
(* The flows of one book and of the daemon around it: the audio stages, the*)
(* ebook stages, the names, the authoring loop, contributions, the event   *)
(* stream to the board, folder scans.  They share no state this model      *)
(* keeps, so a behaviour runs one of them; a part at rest has no step that *)
(* is owed fairness.                                                       *)
EXTENDS ContribFlow, EventHub, FolderScan, Authoring, AudioStages, EbookStages, SpellingStages

VARIABLE part

Part == {"contrib", "hub", "scan", "authoring", "audio", "ebook", "spelling"}

MCCharacters == <<"characters">>

Conf(mode, meta, match, work) == [mode |-> mode, meta |-> meta, match |-> match, recorded |-> work]
MCConfs == {Conf("issue", TRUE, FALSE, "stale"), Conf("issue", TRUE, FALSE, ""), Conf("local", TRUE, TRUE, "stale"),
            Conf("issue", FALSE, FALSE, "stale"), Conf("issue", FALSE, FALSE, "")}

MCBudgets == {[ops |-> 2, surprises |-> 1], [ops |-> 1, surprises |-> 2]}

MCScans == {[jobs |-> 2, calls |-> 1, crashes |-> 0], [jobs |-> 1, calls |-> 2, crashes |-> 1]}

Sidecars(characters, recaps) ==
    [f \in AuFile |-> IF f = "characters" THEN characters ELSE recaps]
MCTexts   == {Sidecars({}, {}), Sidecars({}, {"verbatim", "previously"})}
MCReports == {[pass |-> TRUE, blocker |-> 0, fix |-> 0], [pass |-> TRUE, blocker |-> 0, fix |-> 1],
              [pass |-> FALSE, blocker |-> 1, fix |-> 0]}
MCDisturb == {[cuts |-> 0, crashes |-> 0, reruns |-> 1, moves |-> 0],
              [cuts |-> 0, crashes |-> 1, reruns |-> 0, moves |-> 1],
              [cuts |-> 1, crashes |-> 0, reruns |-> 0, moves |-> 0]}

M(n, f, t) == [num |-> n, from |-> f, to |-> t, dialect |-> FALSE]
D(n, f, t) == [num |-> n, from |-> f, to |-> t, dialect |-> TRUE]
Rec(style, bytes, size, ms, len) == [style |-> style, bytes |-> bytes, size |-> size, markers |-> ms, length |-> len]
C(n, f, t) == [num |-> n, from |-> f, to |-> t]
E(f, t) == [from |-> f, to |-> t]
Yes(chs, ex) == [confident |-> TRUE, chapters |-> chs, excluded |-> ex]
No == [confident |-> FALSE, chapters |-> <<>>, excluded |-> <<>>]
L(c, k, r, p, u, o) == [cuts |-> c, crashes |-> k, reruns |-> r, replaces |-> p, purges |-> u, outages |-> o]
Plain == Rec("markers", "A", 1, <<M(1, 0, 3), M(2, 3, 6)>>, 6)
Titled == Rec("markers", "B", 2, <<M(-1, 0, 3), M(-1, 3, 6)>>, 6)
Other  == Rec("markers", "C", 1, <<M(1, 0, 2), M(2, 2, 6)>>, 6)
Gappy == Rec("markers", "D", 1, <<M(1, 0, 2), M(-1, 2, 4), M(2, 4, 6)>>, 6)
Dialect == Rec("markers", "E", 1, <<M(1, 0, 3), D(2, 3, 6)>>, 6)
Files == Rec("files", "F", 1, <<M(1, 0, 3), M(2, 3, 6)>>, 6)
MCTwo  == {Yes(<<C(1, a[1], a[2]), C(2, b[1], b[2])>>, x) :
              a \in {<<0, 1>>, <<0, 2>>, <<1, 2>>, <<0, 4>>, <<1, 3>>}, b \in {<<1, 2>>, <<2, 4>>, <<3, 4>>, <<0, 1>>},
              x \in {<<>>, <<E(0, 1)>>, <<E(2, 4)>>, <<E(1, 4)>>}}
MCOne  == {Yes(<<C(1, a[1], a[2])>>, <<E(b[1], b[2]), E(e[1], e[2])>>) :
              a \in {<<0, 1>>, <<1, 2>>}, b, e \in {<<0, 1>>, <<1, 2>>, <<2, 3>>, <<3, 4>>, <<2, 4>>}}
MCRecordings == <<[source |-> Plain, other |-> Other, answers |-> {No}, left |-> L(0, 0, 1, 1, 0, 0)],
         [source |-> Plain, other |-> Titled, answers |-> {No}, left |-> L(0, 1, 0, 0, 1, 1)],
         [source |-> Dialect, other |-> Files, answers |-> {No}, left |-> L(1, 1, 0, 0, 0, 1)],
         [source |-> Files, other |-> Files, answers |-> {No}, left |-> L(1, 0, 0, 0, 0, 1)],
         [source |-> Gappy, other |-> Gappy, answers |-> {No, Yes(<<C(1, 0, 2), C(2, 2, 4), C(3, 4, 6)>>, <<>>), Yes(<<C(1, 0, 2), C(2, 4, 6)>>, <<E(2, 4)>>)}, left |-> L(0, 1, 0, 0, 0, 0)],
         [source |-> Rec("markers", "D", 1, <<M(1, 0, 1), M(-1, 1, 3), M(2, 3, 4)>>, 4), other |-> Gappy, answers |-> MCTwo \cup MCOne, left |-> L(0, 0, 0, 0, 0, 0)]>>

EbQuiet == [crashes |-> 0, reruns |-> 0, replaces |-> 0, purges |-> 0, parks |-> 0]
Sec(label, num, spine) == [label |-> label, num |-> num, spine |-> spine, words |-> 10]
Tiny(label, spine) == [label |-> label, num |-> 0, spine |-> spine, words |-> 1]
Insert(s, k, x) == SubSeq(s, 1, k) \o <<x>> \o SubSeq(s, k + 1, Len(s))
EbNumbered == {Insert(<<Sec(a, z, 1), Sec(b, z + 1, 2), Sec(c, z + 2, 3)>>, k, x) :
    a \in {"strict", "loose"}, b, c \in {"strict", "loose", "dialect", "title"}, z \in {0, 1}, k \in 0..3,
    x \in {Sec("none", 0, 1), Sec("none", 0, 3), Sec("none", 0, 4), Sec("title", 0, 4), Sec("apparatus", 0, 4)}}
EbTitled == {<<a, b, c, d>> : a \in {Sec("title", 0, 1), Sec("apparatus", 0, 1), Tiny("none", 1)},
   b \in {Sec("title", 0, 2), Sec("apparatus", 0, 2), Tiny("title", 2), Sec("none", 0, 1)},
   c \in {Sec("title", 0, 3), Sec("none", 0, 3)}, d \in {Sec("title", 0, 4), Sec("apparatus", 0, 4), Tiny("title", 4)}}
EbDraft == <<Sec("strict", 1, 1), Sec("none", 0, 2), Sec("dialect", 2, 3), Sec("strict", 3, 4)>>
EbMixed == <<Sec("title", 0, 1), Sec("strict", 5, 2), Sec("strict", 2, 3), Sec("apparatus", 0, 4)>>
EbCh(n, f) == [num |-> n, files |-> f]
EbMaps == {[chapters |-> <<EbCh(1, {1}), EbCh(2, {2, 3})>>, quarantine |-> {4}],
           [chapters |-> <<EbCh(2, {1, 2}), EbCh(1, {3, 4})>>, quarantine |-> {}],
           [chapters |-> <<EbCh(1, {1}), EbCh(2, {3})>>, quarantine |-> {4}],
           [chapters |-> <<EbCh(1, {1, 2}), EbCh(2, {2, 3})>>, quarantine |-> {4}],
           [chapters |-> <<EbCh(1, {1, 2}), EbCh(3, {3})>>, quarantine |-> {4}]}
MCEpubs == {[epub |-> e, other |-> e, answers |-> {}, left |-> EbQuiet] : e \in EbNumbered \cup EbTitled}
   \cup {[epub |-> EbDraft, other |-> <<Sec("strict", 1, 1), Sec("strict", 2, 2), Sec("strict", 3, 3)>>, answers |-> EbMaps,
       left |-> [crashes |-> 1, reruns |-> 1, replaces |-> 1, purges |-> 1, parks |-> 1]],
      [epub |-> EbMixed, other |-> EbDraft, answers |-> EbMaps,
       left |-> [crashes |-> 2, reruns |-> 1, replaces |-> 0, purges |-> 1, parks |-> 1]]}

P(n) == [name |-> n, noble |-> FALSE]
Nb(n) == [name |-> n, noble |-> TRUE]
Rule(f, t) == [from |-> f, to |-> t, phrase |-> FALSE]
Phrase(f, t) == [from |-> f, to |-> t, phrase |-> TRUE]
LedgerRow(n, c, note) ==
    [canonical |-> n, carryover |-> c, note |-> note, variants |-> IF n = "Toren" THEN {"Torrin"} ELSE {}]
SpText == <<{P("Toren"), P("Torrin")}, {P("Torrin"), Nb("Aston")}, {P("Zel")}>>
SpFixed == <<{P("Toren")}, {P("Torrin"), Nb("Aston")}, {P("Zel"), P("Daston")}>>
SpRules == {<<>>, <<Rule("Torrin", "Toren")>>, <<Rule("Torrin", "Toren"), Phrase("Aston", "Daston")>>,
    <<Rule("Aston", "Daston"), Rule("Torrin", "Toren")>>, <<Phrase("Aston", "Daston")>>,
    <<Phrase("Aston", "Daston"), Rule("Zel", "Toren"), Rule("Toren", "Zel")>>}
SpLedgers == {{LedgerRow("Toren", FALSE, {})}, {LedgerRow("Toren", FALSE, {"Zel"}), LedgerRow("Zel", FALSE, {})},
    {LedgerRow("Zel", TRUE, {}), LedgerRow("Toren", FALSE, {})}, {LedgerRow("Daston", TRUE, {}), LedgerRow("Zel", FALSE, {"Daston"})}}
SpSheets(e, l, p) ==
    [ends |-> e, ledger |-> l, preamble |-> p, unresolved |-> IF p = {} THEN {"Aston", "Zel"} ELSE {},
     clusters  |-> IF p = {} THEN {[names |-> {"Toren"}, text |-> {"Toren", "Zel"}]} ELSE {},
     nonMerges |-> IF p = {} THEN {[pair |-> {"Toren", "Zel"}, text |-> {"Daston"}]} ELSE {}]
SpOuts == {[corrections |-> [rules |-> r, cites |-> c], spellings |-> SpSheets(e, l, p)] :
    r \in SpRules, c \in {{"titles", "refs"}, {"own"}}, e \in {<<2, 3>>, <<3>>}, l \in SpLedgers, p \in {{}, {"Zel"}}}
SpLeft(c, r, m, p) == [crashes |-> c, reruns |-> r, moves |-> m, parks |-> p]
MCNames == [i \in 1..2 |-> [text |-> SpText, repaired |-> SpFixed, titles |-> {"Toren"}, ends |-> <<2, 3>>,
   pred |-> [texts |-> {"Daston"}, ledger |-> [here |-> TRUE, names |-> {"Daston"}]],
   series |-> [self |-> 4, names |-> <<{}, {"Daston", "Toren"}, {"Zel"}, {}, {"Torrin"}>>,
               sorted |-> <<"Daston", "Toren", "Torrin", "Zel">>,
               caps |-> IF i = 1 THEN [siblings |-> 1, fetches |-> 3, names |-> 2]
                        ELSE [siblings |-> 12, fetches |-> 2, names |-> 1]],
   outputs |-> SpOuts, left |-> IF i = 1 THEN SpLeft(1, 1, 0, 0) ELSE SpLeft(1, 0, 1, 1)]]

SpRest ==
    /\ spBook = [stage |-> "spelling", pc |-> "rest", sentinel |-> {}, done |-> {}]
    /\ spLocal = SpIdle
    /\ spWorld = [case |-> 1, pred |-> FALSE, cache |-> NoCache,
                  left |-> SpLeft(0, 0, 0, 0)]
    /\ spDisk = [text |-> SpText, plan |-> <<>>, refs |-> NoRefs, corrections |-> NoCorrections,
                 spellings |-> NoSpellings, corrected |-> [ch \in DOMAIN SpText |-> {}], sheets |-> {}]

EbRestCase == [epub |-> <<>>, other |-> <<>>, answers |-> {}, left |-> EbQuiet]

ContribRest ==
    /\ conf = CHOOSE c \in Confs : TRUE
    /\ book = [park |-> "none", msg |-> "none", work |-> NoWork, done |-> TRUE]
    /\ row = [k \in RowKind |-> NoRow] /\ issue = <<>> /\ catalog = "absent"
    /\ stage = IdleStage /\ poller = [IdlePoller EXCEPT !.pc = "rest"]
    /\ call = [c \in Operator |-> IdleCall] /\ lock = NoOne
    /\ ghost = [settled |-> 0, lost |-> 0] /\ budget = [ops |-> 0, surprises |-> 0]

AuRest ==
    /\ auStage = "ready" /\ auPc = "idle"
    /\ auSentinel = [s \in AuStages |-> "passed"] /\ auDone = [s \in AuStages |-> 1]
    /\ auFile = [f \in AuFile |-> [defects |-> {}, canonical |-> TRUE]]
    /\ auCheck = [clean |-> TRUE] /\ auReport = [pass |-> TRUE, blocker |-> 0, fix |-> 0]
    /\ auRounds = <<>> /\ auAccepted = FALSE /\ auOpener = FALSE /\ auLocal = AuIdle
    /\ auGhost = [checked |-> TRUE, read |-> TRUE, writers |-> {}]
    /\ auLeft = [cuts |-> 0, crashes |-> 0, reruns |-> 0, moves |-> 0]

AsRest ==
    /\ asBook = [stage |-> "end", pc |-> "idle", sentinel |-> [s \in AsStages |-> "written"], done |-> AsStages]
    /\ asDisk = [probe |-> MCRecordings[1].source, manifest |-> NoManifest, staged |-> NoneStaged,
                 flac |-> {}, raw |-> {}, info |-> NoInfo, text |-> {}]
    /\ asWorld = [case |-> 1, source |-> MCRecordings[1].source, parser |-> "new",
                  left |-> [k \in AsFault |-> 0]]
    /\ asLocal = AsIdle /\ asDeclared = <<>>

EbRest ==
    /\ eBook = [stage |-> "extracting", pc |-> "rest", sentinel |-> [s \in EbStages |-> "none"], done |-> {}]
    /\ eDisk = [split |-> <<>>, universe |-> NoUniverse, text |-> {}, manifest |-> <<>>, plan |-> <<>>]
    /\ eLocal = EbIdle
    /\ eWorld = [case |-> EbRestCase, epub |-> <<>>, parser |-> "new", left |-> EbQuiet,
                 purge |-> "none", park |-> "", cut |-> FALSE]

FlowsInit ==
    /\ part \in Part
    /\ IF part = "contrib" THEN Init ELSE ContribRest
    /\ IF part = "authoring" THEN AuInit ELSE AuRest
    /\ IF part = "audio" THEN AsInit ELSE AsRest
    /\ IF part = "ebook" THEN EbInit ELSE EbRest
    /\ IF part = "spelling" THEN SpInit ELSE SpRest
    /\ HubInit
    /\ ScanInit /\ (part # "scan" => sBounds = CHOOSE c \in ScanCases : TRUE)

FlowsNext ==
    /\ UNCHANGED part
    /\ \/ part = "contrib" /\ Next /\ UNCHANGED <<hVars, sVars, auVars, asVars, eVars, spVars>>
       \/ part = "hub" /\ HubNext /\ UNCHANGED <<vars, sVars, auVars, asVars, eVars, spVars>>
       \/ part = "scan" /\ ScanNext /\ UNCHANGED <<vars, hVars, auVars, asVars, eVars, spVars>>
       \/ part = "authoring" /\ AuNext /\ UNCHANGED <<vars, hVars, sVars, asVars, eVars, spVars>>
       \/ part = "audio" /\ AsNextStep /\ UNCHANGED <<vars, hVars, sVars, auVars, eVars, spVars>>
       \/ part = "ebook" /\ EbNext /\ UNCHANGED <<vars, hVars, sVars, auVars, asVars, spVars>>
       \/ part = "spelling" /\ SpNext /\ UNCHANGED <<vars, hVars, sVars, auVars, asVars, eVars>>

FlowsSpec == FlowsInit /\ [][FlowsNext]_<<part, vars, hVars, sVars, auVars, asVars, eVars, spVars>> /\ Fairness

FlowsTypeOK ==
    ContribTypeOK /\ HubTypeOK /\ ScanTypeOK /\ AuTypeOK /\ AsTypeOK /\ EbTypeOK /\ SpTypeOK

=============================================================================
