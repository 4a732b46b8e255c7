\* Two proposals for one debt.
SPECIFICATION FormedSpec
CONSTANTS
  Member = {1, 2}
  Receipt = {2}
  Settlement = {s1, s2}
  Amount = {1, 3}
  Client = {c1, c2}
  Sweeper = sweeper
  Requests = {"convert", "propose", "confirm"}
  MaxInFlight = 1
  MaxRequests = 4
  MaxFailures = 0
  Uploader <- MCUploader
PROPERTY ConfirmNeverOvershoots
\* Nobody has to send another request, and requests are bounded.
CHECK_DEADLOCK FALSE
