\* Two clients and the sweep, one of which may be cut short, watched for overlaps.
SPECIFICATION BegunSpec
CONSTANTS
  Member = {1, 2}
  Receipt = {1, 2}
  Settlement = {s1, s2}
  Amount = {1, 3}
  Client = {c1, c2}
  Sweeper = sweeper
  Requests = {"join", "convert", "propose", "confirm", "leave", "rescope"}
  MaxInFlight = 2
  MaxRequests = 3
  MaxFailures = 1
  Uploader <- MCUploader
INVARIANT NoGhosts
INVARIANT CorrectionsInOrderAddUp
PROPERTY NoRewriteAfterSettlement
PROPERTY DepartureGate
PROPERTY LeaversAccrueNothing
\* Nobody has to send another request, and requests are bounded.
CHECK_DEADLOCK FALSE
SYMMETRY Alike
