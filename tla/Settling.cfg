\* What the sweep and the confirmations bring about in the end.
SPECIFICATION FormedFairSpec
CONSTANTS
  Member = {1, 2}
  Receipt = {1, 2}
  Settlement = {s1, s2}
  Amount = {1}
  Client = {c1, c2}
  Sweeper = sweeper
  Requests = {"convert", "propose", "confirm", "leave"}
  MaxInFlight = 1
  MaxRequests = 4
  MaxFailures = 1
  Uploader <- MCUploader
PROPERTY LapsedProposalsConfirm
PROPERTY ClearedLeaversGo
PROPERTY SettledOwnersClose
\* Nobody has to send another request, and requests are bounded.
CHECK_DEADLOCK FALSE
