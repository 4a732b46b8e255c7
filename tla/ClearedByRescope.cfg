\* A balance that comes to zero without a settlement.
SPECIFICATION FormedFairSpec
CONSTANTS
  Member = {1, 2}
  Receipt = {2}
  Settlement = {s1, s2}
  Amount = {0, 3}
  Client = {c1, c2}
  Sweeper = sweeper
  Requests = {"convert", "leave", "rescope"}
  MaxInFlight = 1
  MaxRequests = 3
  MaxFailures = 0
  Uploader <- MCUploader
PROPERTY ClearedLeaversGo
\* Nobody has to send another request, and requests are bounded.
CHECK_DEADLOCK FALSE
