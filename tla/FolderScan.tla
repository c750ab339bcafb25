------------------------------ MODULE FolderScan ------------------------------
(***************************************************************************)
(* Folder scans and the overrides laid over them (internal/metaops):       *)
(* concurrent jobs that stream books and resolve their coverage, the       *)
(* operator's hide or manual match of a folder, the cache of the last      *)
(* finished scan and the restart that restores it.                         *)
(*                                                                         *)
(* One call changes overrides at a time.  force_audio travels with hidden. *)
(***************************************************************************)
EXTENDS Integers, Sequences, FiniteSets, FiniteSetsExt

CONSTANTS
    ScanFolders,   \* the folders below the root
    ScanCases      \* bounds: [jobs, calls, crashes]

ASSUME ScanAssumption == ScanCases \subseteq [jobs : Nat, calls : Nat, crashes : Nat]

VARIABLES
    sRow,      \* candidate_overrides: [hidden, match]
    sCall,     \* the override call under way
    sJobs,     \* the jobs of this process, by seq
    sPatch,    \* ApplyOverride's patches
    sCache,    \* the saved scan, or none
    sTorn,     \* ghost: folders whose last call a crash cut short
    sBounds      \* what is left of the bounds

sVars == <<sRow, sCall, sJobs, sPatch, sCache, sTorn, sBounds>>

NoOverride    == [hidden |-> FALSE, match |-> FALSE]
NoPatch  == [set |-> FALSE, hidden |-> FALSE, match |-> FALSE]
NoCall   == [pc |-> "idle", folder |-> 0, row |-> NoOverride]
NoIdent  == [tags |-> "", match |-> FALSE]
NoCover  == [ident |-> NoIdent, verdict |-> "none", newer |-> FALSE]
Job      == 1..Len(sJobs)
Rows     == [hidden : BOOLEAN, match : BOOLEAN]

-----------------------------------------------------------------------------
(* What a poll of a job shows: snapshotLocked.                             *)

Resolved(job, f) == job.cover[f].verdict # "none" /\ job.cover[f].ident = job.ident[f]
ShownHidden(job, f) == IF sPatch[f].set THEN sPatch[f].hidden ELSE job.hidden[f]

(* The newer of the patch's verdict and the job's own.  Of the generations *)
(* the manager counts a job keeps which of the two came last.              *)
ShownVerdict(job, f) ==
    IF sPatch[f].match /\ (~Resolved(job, f) \/ ~job.cover[f].newer) THEN "manual"
    ELSE IF Resolved(job, f) THEN job.cover[f].verdict ELSE "none"

Finished == {j \in Job : sJobs[j].status = "done"}

(* persistCache writes the newest finished job as a poll would show it.    *)
Saved == IF Finished = {} THEN sCache
         ELSE LET job == sJobs[Max(Finished)]
              IN  [hidden |-> [f \in job.books |-> ShownHidden(job, f)],
                   verdict |-> [f \in job.books |-> ShownVerdict(job, f)],
                   books |-> job.books, crossed |-> job.crossed]

-----------------------------------------------------------------------------
(* A job: run.                                                             *)

Change(j, job) == sJobs' = [sJobs EXCEPT ![j] = job]

Start ==
    /\ sBounds.jobs > 0 /\ sBounds' = [sBounds EXCEPT !.jobs = @ - 1]
    /\ sJobs' = Append(sJobs,
         [status |-> "walking", rows |-> sRow, books |-> {}, saved |-> FALSE, crossed |-> {},
          hidden |-> [f \in ScanFolders |-> FALSE], ident |-> [f \in ScanFolders |-> NoIdent],
          asked |-> [f \in ScanFolders |-> NoIdent], cover |-> [f \in ScanFolders |-> NoCover],
          workers |-> {}])
    /\ UNCHANGED <<sRow, sCall, sPatch, sCache, sTorn>>

(* ensureResolvedLocked: a worker for this identity, unless one was sent.  *)
Dispatched(job, fs) ==
    LET new == {f \in fs : job.asked[f] # job.ident[f]}
    IN  [job EXCEPT !.asked = [f \in ScanFolders |-> IF f \in new THEN job.ident[f] ELSE @[f]],
                    !.workers = @ \cup {<<f, job.ident[f]>> : f \in new}]

(* streamBook, with the overrides as they were when the scan began.        *)
StreamBook(j, f) ==
    LET job == sJobs[j]
    IN  /\ job.status = "walking" /\ f \notin job.books
        /\ Change(j, Dispatched([job EXCEPT !.books = @ \cup {f}, !.hidden[f] = job.rows[f].hidden,
                                           !.ident[f] = [tags |-> "streamed", match |-> job.rows[f].match]],
                                {f}))
        /\ UNCHANGED <<sRow, sCall, sPatch, sCache, sTorn, sBounds>>

(* The walk is over; the overrides are read again before the epub walk is  *)
(* waited for.                                                             *)
RereadRows(j) ==
    /\ sJobs[j].status = "walking" /\ sJobs[j].books = ScanFolders
    /\ Change(j, [sJobs[j] EXCEPT !.status = "corroborated", !.rows = sRow])
    /\ UNCHANGED <<sRow, sCall, sPatch, sCache, sTorn, sBounds>>

(* applyFinal: corroboration and the epubs give some folders another       *)
(* identity.                                                               *)
ApplyFinal(j) ==
    LET job == sJobs[j]
    IN  /\ job.status = "corroborated"
        /\ \E changed \in SUBSET ScanFolders :
              Change(j, Dispatched(
                [job EXCEPT !.status = "coverage", !.rows = [f \in ScanFolders |-> NoOverride],
                            !.hidden = [f \in ScanFolders |-> job.rows[f].hidden],
                            !.ident = [f \in ScanFolders |->
                                         [tags |-> IF f \in changed THEN "final" ELSE "streamed",
                                          match |-> job.rows[f].match]]], ScanFolders))
        /\ UNCHANGED <<sRow, sCall, sPatch, sCache, sTorn, sBounds>>

ScanFails(j) ==
    /\ sJobs[j].status = "walking" 
    /\ Change(j, [sJobs[j] EXCEPT !.status = "error", !.rows = [f \in ScanFolders |-> NoOverride],
                                  !.asked = [f \in ScanFolders |-> NoIdent]])
    /\ UNCHANGED <<sRow, sCall, sPatch, sCache, sTorn, sBounds>>

(* Mutant: a verdict is recorded whatever has become of the book.          *)
StillIdent(job, f, ident) == TRUE

StillThatBook(job, f, ident) == job.ident[f] = ident

(* resolveWorker: the service answers or is down; a verdict for an         *)
(* identity the book no longer has is dropped.                             *)
ResolveBook(j, f, ident) ==
    LET job  == sJobs[j]
        done == [job EXCEPT !.workers = @ \ {<<f, ident>>}]
    IN  /\ <<f, ident>> \in job.workers
        /\ IF StillThatBook(job, f, ident)
           THEN \E verdict \in {"down", IF ident.match THEN "manual" ELSE "own"} :
                   Change(j, [done EXCEPT !.cover[f] = [ident |-> ident, verdict |-> verdict, newer |-> TRUE]])
           ELSE Change(j, done)
        /\ UNCHANGED <<sRow, sCall, sPatch, sCache, sTorn, sBounds>>

(* waitCoverage, then finishDone; the cache is written after that.         *)
FinishScan(j) ==
    /\ sJobs[j].status = "coverage" /\ sJobs[j].workers = {}
    /\ Change(j, [sJobs[j] EXCEPT !.status = "done", !.asked = [f \in ScanFolders |-> NoIdent]])
    /\ UNCHANGED <<sRow, sCall, sPatch, sCache, sTorn, sBounds>>

SaveFinished(j) ==
    /\ sJobs[j].status = "done" /\ ~sJobs[j].saved
    /\ sCache' = Saved /\ Change(j, [sJobs[j] EXCEPT !.saved = TRUE])
    /\ UNCHANGED <<sRow, sCall, sPatch, sTorn, sBounds>>

-----------------------------------------------------------------------------
(* An override: OverrideService.Upsert.                                    *)

Resolving(job) == job.status \in {"corroborated", "coverage"}

(* The row is written.  Jobs that have read the rows and have not finished *)
(* are remembered as crossed by it.                                        *)
WriteRow(f, row) ==
    /\ sCall = NoCall /\ sBounds.calls > 0 /\ row # sRow[f]
    /\ sBounds' = [sBounds EXCEPT !.calls = @ - 1]
    /\ sRow' = [sRow EXCEPT ![f] = row]
    /\ sCall' = [pc |-> "wrote", folder |-> f, row |-> row]
    /\ sJobs' = [j \in Job |-> [sJobs[j] EXCEPT !.crossed = IF Resolving(sJobs[j]) THEN @ \cup {f} ELSE @ \ {f}]]
    /\ UNCHANGED <<sPatch, sCache, sTorn>>

ApplyOverride ==
    /\ sCall.pc = "wrote" /\ sCall' = [sCall EXCEPT !.pc = "applied"]
    /\ sPatch' = [sPatch EXCEPT ![sCall.folder] =
                    [set |-> TRUE, hidden |-> sCall.row.hidden, match |-> sCall.row.match]]
    /\ sJobs' = [j \in Job |-> [sJobs[j] EXCEPT !.cover[sCall.folder].newer = FALSE]]
    /\ sTorn' = sTorn \ {sCall.folder}
    /\ UNCHANGED <<sRow, sCache, sBounds>>

SavePatched ==
    /\ sCall.pc = "applied" /\ sCall' = NoCall /\ sCache' = Saved
    /\ UNCHANGED <<sRow, sJobs, sPatch, sTorn, sBounds>>

-----------------------------------------------------------------------------
(* A restart: restoreCache makes the saved scan a finished job whose flags *)
(* and manual verdicts are patches.                                        *)

RestoredIdent == [tags |-> "cached", match |-> FALSE]

RestoredJob ==
    [status |-> "done", rows |-> [f \in ScanFolders |-> NoOverride], books |-> sCache.books, saved |-> TRUE,
     crossed |-> sCache.crossed, hidden |-> [f \in ScanFolders |-> FALSE],
     ident |-> [f \in ScanFolders |-> RestoredIdent], asked |-> [f \in ScanFolders |-> NoIdent],
     cover |-> [f \in ScanFolders |->
                  [ident |-> RestoredIdent, newer |-> FALSE,
                   verdict |-> IF sCache.verdict[f] = "manual" THEN "down" ELSE sCache.verdict[f]]],
     workers |-> {}]

Restart ==
    /\ sBounds.crashes > 0
    /\ sBounds' = [sBounds EXCEPT !.crashes = @ - 1]
    /\ sTorn' = IF sCall = NoCall THEN sTorn ELSE sTorn \cup {sCall.folder}
    /\ sCall' = NoCall
    /\ IF sCache.books = {}
       THEN sJobs' = <<>> /\ sPatch' = [f \in ScanFolders |-> NoPatch]
       ELSE /\ sJobs' = <<RestoredJob>>
            /\ sPatch' = [f \in ScanFolders |->
                            [set |-> TRUE, hidden |-> sCache.hidden[f],
                             match |-> sCache.verdict[f] = "manual"]]
    /\ UNCHANGED <<sRow, sCache>>

ScanInit ==
    /\ sRow = [f \in ScanFolders |-> NoOverride] /\ sCall = NoCall /\ sJobs = <<>>
    /\ sPatch = [f \in ScanFolders |-> NoPatch] /\ sTorn = {}
    /\ sCache = [hidden |-> <<>>, verdict |-> <<>>, books |-> {}, crossed |-> {}]
    /\ sBounds \in ScanCases

ScanStep(j) ==
    \/ \E f \in ScanFolders : StreamBook(j, f)
    \/ RereadRows(j) \/ ApplyFinal(j) \/ ScanFails(j) \/ FinishScan(j) \/ SaveFinished(j)
    \/ \E w \in sJobs[j].workers : ResolveBook(j, w[1], w[2])

ScanNext ==
    \/ Start \/ Restart \/ ApplyOverride \/ SavePatched
    \/ \E j \in Job : ScanStep(j)
    \/ \E f \in ScanFolders, row \in Rows : WriteRow(f, row)

ScanSpec == ScanInit /\ [][ScanNext]_sVars

-----------------------------------------------------------------------------
(* What the Library shows.                                                 *)

ScanTypeOK ==
    /\ \A j \in Job : sJobs[j].books \subseteq ScanFolders /\ sJobs[j].crossed \subseteq ScanFolders
    /\ \A f \in ScanFolders : sPatch[f].match => sPatch[f].set

(* A finished scan has a verdict for every book it lists: no identity that *)
(* changed under a worker leaves a book unresolved for ever.               *)
VerdictsComplete ==
    \A j \in Finished : \A f \in sJobs[j].books : Resolved(sJobs[j], f)

(* With no call under way the newest scan shows the folders as the stored  *)
(* overrides say, restarts included: hidden when hidden, and never the     *)
(* verdict of another work for a folder that is matched by hand.  Not for  *)
(* a call a crash cut short, and a match not while or after the scan that  *)
(* had already read the overrides was resolving.                           *)
OverridesShown ==
    sCall = NoCall /\ Finished # {} =>
        LET job == sJobs[Max(Finished)]
        IN  \A f \in job.books \ sTorn :
               /\ ShownHidden(job, f) = sRow[f].hidden
               /\ sRow[f].match /\ f \notin job.crossed => ShownVerdict(job, f) # "own"

ScanShowsOverrides == VerdictsComplete /\ OverridesShown
=============================================================================
