------------------------------ MODULE MCRepair ------------------------------
(* The QA loop of two chapters, stopped once: what is left of a chapter    *)
(* whose fresh raw was adopted just before.                                *)
EXTENDS QALoop

MCFindings == {{}, {"tail", "mid"}}
MCOneCut   == {[cuts |-> 1, retries |-> 0, rewound |-> FALSE]}
=============================================================================
