\* Two clients and the sweep, interleaved at every await.
SPECIFICATION EitherSpec
CONSTANTS
  Member = {1, 2}
  Receipt = {2}
  Settlement = {s1, s2}
  Amount = {1, 3}
  Client = {c1, c2}
  Sweeper = sweeper
  Requests = {"create", "join", "convert", "propose", "confirm", "leave", "rescope"}
  MaxInFlight = 2
  MaxRequests = 4
  MaxFailures = 0
  Uploader <- MCUploader
INVARIANT TypeOK
INVARIANT TwoSignaturesOnce
INVARIANT FoldNeverThrows
INVARIANT MembersAreActive
INVARIANT OneFarewell
PROPERTY HistoryIsFrozen
PROPERTY SettlementsKeepTheBook
\* Nobody has to send another request, and requests are bounded.
CHECK_DEADLOCK FALSE
