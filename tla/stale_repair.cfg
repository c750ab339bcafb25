\* A stage cut between an adopted raw and the text made from it.
SPECIFICATION QASpec
CONSTANTS
    QAChapter = {1, 2}
    QAFindings <- MCFindings
    QARounds = 3
    QACases <- MCOneCut
INVARIANT TextOfCurrentRaw
CHECK_DEADLOCK FALSE
