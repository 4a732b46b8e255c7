CONSTANTS
  User = {u1, u2}
  Session = {s1, s2}
  KNOWN_USER_TTL = 2
  KNOWN_USER_MAX = 1
  Press = {r1, r2}
  RATE_LIMIT_MAX_FAILURES = 3
  MaxAttempts = 7
  Person = {anna, ben, carl}
  OWNER = anna
  Door = {d1, d2}
  MaxInvites = 2
  Flush = {f1, f2}
  MaxSeen = 3
  MaxDoubled = 3
  Shop = {1, 2}
  Amount = {1, 2}
  Saver = {w1, w2}
  MaxDay = 3
  MaxSaves = 3
  Product = {1, 2, 3}
  Foreign = {3}
  Candidates <- MCCandidates
  LineValue = {0, 1, 2}
  Recorded <- MCRecorded
  Swiper = {w1}
  MaxHeals = 1
  MaxAsked = 3
  Shopper = {a, b, c}
  Scan = {c1, c2}
  MaxTokens = 2
  Sharer = {h1, h2}
  MaxEdits = 3
  MaxSlugs = 2
SPECIFICATION Spec
INVARIANT NewestPriceWins
INVARIANT LockoutHolds
INVARIANT BansHold
INVARIANT SightingsAddUp
INVARIANT AnswersStand
INVARIANT OneNewcomerPerToken
INVARIANT SharesHold
PROPERTY LeftRowsAreUnverified
PROPERTY DeletedUsersAreRefused
CHECK_DEADLOCK FALSE
