SPECIFICATION Spec
CONSTANTS
  u1 = u1
  u2 = u2
  s1 = s1
  s2 = s2
  s3 = s3
  User = {u1, u2}
  StoreProduct = {s1, s2, s3}
  Proc = {p1, p2}
  Product <- MCProduct
  Pair <- MCPair
  Histories <- MCHistories
  MaxRequests = 2
SYMMETRY Symmetry
CHECK_DEADLOCK FALSE
INVARIANTS
  TalliesCountPeople
  ProductsHaveRoots
PROPERTIES
  MergesFollowVotes
  RescuesFollowVotes
