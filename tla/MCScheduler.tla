---------------------------- MODULE MCScheduler ----------------------------
(***************************************************************************)
(* Small instances of the scheduler: what the books of each run are and    *)
(* where they stand when it starts.                                        *)
(***************************************************************************)
EXTENDS SchedulerProperties

MCAllAudio      == [b \in Book |-> "audio"]
MCAllEbook      == [b \in Book |-> "ebook"]
MCNoSeries      == [b \in Book |-> NoSeries]
MCPosById       == [b \in Book |-> b]

MCAtQueued       == [b \in Book |-> "queued"]
MCAtSplitting    == [b \in Book |-> "splitting"]
MCAtValidating   == [b \in Book |-> "validating"]
MCAtSynthesizing == [b \in Book |-> "synthesizing"]

(* Contenders for the lanes: the two last books of a series and, on the    *)
(* mechanical lane, two source readers and a work-dir stage, the last not  *)
(* enqueued yet.                                                           *)
MCShared       == [b \in Book |-> CASE b = 1 -> "auditing"  [] b = 2 -> "correcting"
                                     [] b = 3 -> "splitting" [] OTHER -> NotQueued]
MCSharedSeries == [b \in Book |-> IF b \in {1, 2} THEN "saga" ELSE NoSeries]
=============================================================================
