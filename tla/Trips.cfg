CONSTANTS
  Basket = {1, 2}
  Receipt = {1, 2}
  Store = {1, 2}
  Proc = {p1, p2}
  StoreOf <- Stores
  Bought <- Items
  Payers = {1}
  FamilyBasket = {2}
  Histories <- Begun
  MaxTrips = 4
  MaxLists = 3
  MaxRequests = 3
  MaxFailures = 1
SPECIFICATION Spec
INVARIANT OneTripPerBasket
INVARIANT SlotsFollowTrips
INVARIANT CountedReceiptsStay
PROPERTY FinishedTripsStay
SYMMETRY Workers
CHECK_DEADLOCK FALSE
