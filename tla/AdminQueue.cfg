SPECIFICATION Spec
CONSTANTS
  Admin = {a1, a2}
  Card = {c1, c2}
  Proc = {p1, p2}
  BatchSize = 1
  MaxRequests = 3
  MaxFailures = 1
SYMMETRY Symmetry
CHECK_DEADLOCK FALSE
INVARIANTS
  SharedOnlyByOverlap
  OneBatchUnlessOverlapping
  HandledCardsStayAway
  CompletedIsAudited
PROPERTIES
  LateAnswersDoNotComplete
