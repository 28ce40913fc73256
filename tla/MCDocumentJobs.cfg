\* One document: documents share no rows, so both threads on one are the interesting case.
SPECIFICATION DocSpec
CONSTANTS
  Docs = {d1}
  None = None
INVARIANTS
  CancelLeavesNoTrace
PROPERTIES
  CommittedSurvives
  VisibleIsSettled
