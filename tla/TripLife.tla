------------------------------ MODULE TripLife ------------------------------
(* Shopping trips: the containers that baskets, shopping lists and receipts  *)
(* are tied to, without foreign keys, by handlers of several statements.     *)
(* One family, whose members are members of all its trips.  A trip, a list   *)
(* and a receipt are named by their ids; the items of a list are named by    *)
(* the store they were planned for.                                          *)

EXTENDS Integers, FiniteSets

CONSTANTS Basket, Receipt, Store, Proc,
          StoreOf,       \* the store a receipt comes from
          Bought,        \* the planned items a receipt holds
          Payers,        \* receipts whose uploader is eligible in the household
          FamilyBasket,  \* baskets that belong to the household
          Histories,     \* where a behaviour may start
          MaxTrips, MaxLists, MaxRequests, MaxFailures

None == 0
TripId == 1 .. MaxTrips
ListId == 1 .. MaxLists
List == [basket: Basket \cup {None}, store: Store \cup {None}, trip: TripId \cup {None},
         done: BOOLEAN, skipped: BOOLEAN]
NoList == [basket |-> None, store |-> None, trip |-> None, done |-> FALSE, skipped |-> FALSE]
Scan == [state: {"none", "visible", "hidden"}, trip: TripId \cup {None}, slot: ListId \cup {None}]

ASSUME TripsAssumption ==
  /\ None \notin Basket \cup Store
  /\ MaxTrips \in Nat /\ MaxLists \in Nat /\ MaxRequests \in Nat /\ MaxFailures \in Nat
  /\ Receipt \subseteq Nat \ {None}
  /\ StoreOf \in [Receipt -> Store] /\ Bought \in [Receipt -> SUBSET Store]
  /\ Payers \subseteq Receipt /\ FamilyBasket \subseteq Basket
  /\ \A h \in Histories :
        /\ h.baskets \subseteq Basket /\ h.basketTrip \in [Basket -> TripId \cup {None}]
        /\ h.lists \subseteq ListId /\ h.list \in [ListId -> List]
        /\ h.receipt \in [Receipt -> Scan] /\ h.recorded \subseteq Receipt
        /\ \A l \in h.lists : h.list[l].basket # None =>
             h.list[l].trip # None /\ h.list[l].trip = h.basketTrip[h.list[l].basket]
        /\ \A r \in Receipt : LET l == h.receipt[r].slot IN l # None =>
             l \in h.lists /\ h.list[l].trip # None /\ h.receipt[r].trip = h.list[l].trip
        /\ h.minted \in 0 .. MaxTrips /\ h.trips \subseteq 1 .. h.minted /\ h.family \subseteq h.trips
        /\ \A r \in h.recorded : h.receipt[r].state = "visible" /\ h.receipt[r].trip \in h.family

VARIABLES
  minted,      \* the trip ids handed out so far
  trips, adHoc, family, archived,   \* the Trip rows, and the columns that are set
  idle,        \* 0: fresh, 1: more than 48 hours, 2: more than 7 days
  baskets, basketTrip,              \* the Basket rows and their tripId
  lists, list,                      \* the ShoppingList rows
  receipt,     \* the Receipt rows
  recorded,    \* receipts counted in the household ledger
  job,         \* what each handler is at, with its locals
  requests, failures,
  torn, cut, raced, moved           \* see the properties

containers == <<minted, trips, adHoc, family, archived, idle>>
plans == <<baskets, basketTrip, lists, list>>
excuses == <<torn, cut, raced, moved>>
vars == <<containers, plans, receipt, recorded, job, requests, failures, excuses>>

Idle == [at |-> "idle", r |-> None, l |-> None, b |-> None, s |-> None,
         t |-> None, old |-> None, todo |-> {}]

Init ==
  \E h \in Histories :
    /\ minted = h.minted /\ trips = h.trips /\ adHoc = h.adHoc /\ family = h.family
    /\ archived = {} /\ idle = [t \in TripId |-> 0]
    /\ baskets = h.baskets /\ basketTrip = h.basketTrip
    /\ lists = h.lists /\ list = h.list /\ receipt = h.receipt /\ recorded = h.recorded
    /\ job = [p \in Proc |-> Idle] /\ requests = h.requests /\ failures = 0
    /\ torn = {} /\ cut = {} /\ raced = {} /\ moved = {}

-----------------------------------------------------------------------------
(* Rows.                                                                     *)

ListsOf(t) == {l \in lists : list[l].trip = t}
ReceiptsOn(t) == {r \in Receipt : receipt[r].trip = t}
Fresh == minted + 1

\* INSERT INTO Trip, and what of it is set.
createTrip(isAdHoc, isFamily) ==
  /\ Fresh \in TripId
  /\ minted' = Fresh /\ trips' = trips \cup {Fresh}
  /\ adHoc' = IF isAdHoc THEN adHoc \cup {Fresh} ELSE adHoc
  /\ family' = IF isFamily THEN family \cup {Fresh} ELSE family
  /\ UNCHANGED <<archived, idle>>

deleteTrip(t) ==
  /\ trips' = trips \ {t} /\ adHoc' = adHoc \ {t}
  /\ family' = family \ {t} /\ archived' = archived \ {t}
  /\ idle' = [idle EXCEPT ![t] = 0]
  /\ UNCHANGED minted

\* Deleting lists sets the slot of their receipts to NULL, by foreign key.
deleteLists(gone) ==
  /\ lists' = lists \ gone
  /\ receipt' = [r \in Receipt |-> IF receipt[r].slot \in gone
                                   THEN [receipt[r] EXCEPT !.slot = None] ELSE receipt[r]]
  /\ list' = [l \in ListId |-> IF l \in gone THEN NoList ELSE list[l]]
  /\ UNCHANGED <<baskets, basketTrip>>

\* The trip whose stage is 5: deriveTripStage over the slots of listTripsForUser.
SlotHasReceipt(l) == \E r \in Receipt : receipt[r].state = "visible" /\ receipt[r].slot = l
ItemsCovered(l) ==
  \E r \in ReceiptsOn(list[l].trip) : receipt[r].state = "visible" /\ list[l].store \in Bought[r]
slotClosed(l) == SlotHasReceipt(l) \/ list[l].skipped \/ ItemsCovered(l)
Finished(t) == \/ t \in adHoc
               \/ ListsOf(t) # {} /\ \A l \in ListsOf(t) : list[l].done /\ slotClosed(l)

-----------------------------------------------------------------------------
(* Requests and handlers.  A handler that works on a receipt carries it as   *)
(* r from its first statement to its last write of the row.                  *)

Movers == {"relink", "ensure", "repoint", "relinkSlot", "attach", "detach", "hide"}
Converting == {"claim", "convertRead", "record"}

Counted == requests < MaxRequests /\ requests' = requests + 1
Begin(p, j) == job[p] = Idle /\ Counted /\ job' = [job EXCEPT ![p] = j]
Go(p, j) == job' = [job EXCEPT ![p] = j] /\ UNCHANGED requests
Finish(p) == Go(p, Idle)
At(p, point) == job[p].at = point

\* Two handlers are moving one receipt, or one moves it during a conversion.
Overlaps(r) ==
  /\ torn' = IF \E q \in Proc : job[q].r = r /\ job[q].at \in Movers THEN torn \cup {r} ELSE torn
  /\ raced' = IF \E q \in Proc : job[q].at \in Converting THEN raced \cup {r} ELSE raced

\* A counted receipt is put on a trip that is not the family's.
Leaves(r, t) == moved' = IF r \in recorded /\ t \notin family THEN moved \cup {r} ELSE moved

\* linkReceiptToShoppingList: linkReceiptToList, which names the list's slot.
linkReceiptToShoppingList(p, r, l) ==
  /\ l \in lists /\ receipt[r].state # "none"
  /\ receipt' = [receipt EXCEPT ![r].slot = l]
  /\ Begin(p, [Idle EXCEPT !.at = "relink", !.r = r, !.l = l])
  /\ Overlaps(r)
  /\ UNCHANGED <<containers, plans, recorded, failures, cut, moved>>

\* relinkReceiptToListTrip: the receipt and the list are read, and the list's own
\* trip is read once more if it has none.
relinkRead(p) ==
  LET r == job[p].r  l == job[p].l
      t == IF l \in lists THEN list[l].trip ELSE None
  IN  /\ At(p, "relink")
      /\ IF l \notin lists \/ (t # None /\ t = receipt[r].trip) THEN Finish(p)
         ELSE Go(p, [job[p] EXCEPT !.at = IF t = None THEN "ensure" ELSE "repoint",
                                   !.t = t, !.old = receipt[r].trip])
      /\ UNCHANGED <<containers, plans, receipt, recorded, failures, excuses>>

\* ensureTripForList, for a list that has no basket: a trip is made, the list is
\* tied to it unless somebody was faster, and the list is read again.
ensureTripForList(p) ==
  LET l == job[p].l
      open == l \in lists /\ list[l].trip = None
      t == IF l \in lists /\ ~open THEN list[l].trip ELSE Fresh
  IN  /\ At(p, "ensure")
      /\ createTrip(FALSE, FALSE)
      /\ list' = IF open THEN [list EXCEPT ![l].trip = Fresh] ELSE list
      /\ Go(p, [job[p] EXCEPT !.at = "repoint", !.t = t])
      /\ UNCHANGED <<baskets, basketTrip, lists, receipt, recorded, failures, excuses>>

\* What is left of a handler once the receipt has its trip: the old trip may be
\* churn to be collected.
AfterMove(p) ==
  IF job[p].old = None THEN Finish(p) ELSE Go(p, [Idle EXCEPT !.at = "gc", !.t = job[p].old])

repoint(p) ==
  LET r == job[p].r  t == job[p].t
  IN  /\ At(p, "repoint")
      /\ IF t = job[p].old
         THEN Finish(p) /\ UNCHANGED <<receipt, moved>>
         ELSE /\ receipt' = [receipt EXCEPT ![r].trip = t]
              /\ Leaves(r, t) /\ AfterMove(p)
      /\ UNCHANGED <<containers, plans, recorded, failures, torn, cut, raced>>

\* gcChurnTrip: count what refers to an ad-hoc trip, then delete it.
gcChurnTrip(p) ==
  LET t == job[p].t
  IN  /\ At(p, "gc")
      /\ IF t \in adHoc /\ ListsOf(t) = {} /\ ReceiptsOn(t) = {}
            /\ \A b \in baskets : basketTrip[b] # t
         THEN Go(p, [job[p] EXCEPT !.at = "deleteTrip"]) ELSE Finish(p)
      /\ UNCHANGED <<containers, plans, receipt, recorded, failures, excuses>>

\* The count is of the past: a receipt may be on the trip by now, or on its way.
deleteEmptyTrip(p) ==
  LET t == job[p].t
  IN  /\ At(p, "deleteTrip") /\ deleteTrip(t) /\ Finish(p)
      /\ raced' = raced \cup ReceiptsOn(t) \cup {r \in Receipt : \E q \in Proc : job[q].r = r /\ job[q].t = t}
      /\ UNCHANGED <<plans, receipt, recorded, failures, torn, cut, moved>>

\* attachTripReceipt: the checks, and the trip the receipt is read to be on.
attachTripReceipt(p, r, t) ==
  /\ t \in trips /\ receipt[r].state # "none" /\ receipt[r].trip # t
  /\ Begin(p, [Idle EXCEPT !.at = "attach", !.r = r, !.t = t, !.old = receipt[r].trip])
  /\ Overlaps(r)
  /\ UNCHANGED <<containers, plans, receipt, recorded, failures, cut, moved>>

\* attachReceiptToTrip: the slot goes with the old trip.
attachReceiptToTrip(p) ==
  LET r == job[p].r  t == job[p].t
  IN  /\ At(p, "attach")
      /\ receipt' = [receipt EXCEPT ![r].trip = t, ![r].slot = None]
      /\ Leaves(r, t) /\ AfterMove(p)
      /\ UNCHANGED <<containers, plans, recorded, failures, torn, cut, raced>>

\* detachTripReceipt: the receipt is on the trip and not counted for its household.
detachTripReceipt(p, r) ==
  LET t == receipt[r].trip
  IN  /\ t \in trips /\ ~(t \in family /\ r \in recorded)
      /\ Begin(p, [Idle EXCEPT !.at = "detach", !.r = r, !.t = t])
      /\ Overlaps(r)
      /\ UNCHANGED <<containers, plans, receipt, recorded, failures, cut, moved>>

detach(p) ==
  LET r == job[p].r
  IN  /\ At(p, "detach")
      /\ receipt' = IF receipt[r].trip = job[p].t
                    THEN [receipt EXCEPT ![r].trip = None, ![r].slot = None] ELSE receipt
      /\ Finish(p)
      /\ UNCHANGED <<containers, plans, recorded, failures, excuses>>

\* Fault: only receipts that fill a slot are asked for.
DeletableOffSlot(r) == ~(receipt[r].trip \in family /\ receipt[r].slot # None /\ r \in recorded)
assertReceiptDeletable(r) == ~(receipt[r].trip \in family /\ r \in recorded)

\* hideReceiptForUser: the gate, then userHideReceipt.
hideReceiptForUser(p, r) ==
  /\ receipt[r].state = "visible" /\ assertReceiptDeletable(r)
  /\ Begin(p, [Idle EXCEPT !.at = "hide", !.r = r])
  /\ Overlaps(r)
  /\ UNCHANGED <<containers, plans, receipt, recorded, failures, cut, moved>>

userHideReceipt(p) ==
  /\ At(p, "hide")
  /\ receipt' = [receipt EXCEPT ![job[p].r] = [state |-> "hidden", trip |-> None, slot |-> None]]
  /\ Finish(p)
  /\ UNCHANGED <<containers, plans, recorded, failures, excuses>>

\* createReceiptFromOcr: a new paper is saved and answered, and its trip is made
\* in the background; one its owner had hidden comes back, for a list or bare.
createReceiptFromOcr(p, r, l) ==
  /\ \/ receipt[r].state = "none" /\ l = None
     \/ receipt[r].state = "hidden" /\ l \in lists \cup {None}
  /\ receipt' = [receipt EXCEPT ![r].state = "visible"]
  /\ Begin(p, [Idle EXCEPT !.at = IF l = None THEN "mintRead" ELSE "relinkSlot", !.r = r, !.l = l])
  /\ IF l = None THEN UNCHANGED <<torn, raced>> ELSE Overlaps(r)
  /\ UNCHANGED <<containers, plans, recorded, failures, cut, moved>>

\* linkReceiptToList for a receipt that came back; a list that is gone fails it.
relinkReactivatedReceipt(p) ==
  /\ At(p, "relinkSlot")
  /\ IF job[p].l \in lists
     THEN /\ receipt' = [receipt EXCEPT ![job[p].r].slot = job[p].l]
          /\ Go(p, [job[p] EXCEPT !.at = "relink"])
     ELSE Finish(p) /\ UNCHANGED receipt
  /\ UNCHANGED <<containers, plans, recorded, failures, excuses>>

\* ensureTripForReceipt without a list: nothing to do for a receipt that has a
\* trip, else an ad-hoc trip, tied to it unless somebody was faster.
mintRead(p) ==
  /\ At(p, "mintRead")
  /\ IF receipt[job[p].r].trip # None THEN Finish(p) ELSE Go(p, [job[p] EXCEPT !.at = "mint"])
  /\ UNCHANGED <<containers, plans, receipt, recorded, failures, excuses>>

\* Fault: without AND tripId IS NULL.
MintOver(r) == [receipt EXCEPT ![r].trip = Fresh]
Mint(r) == IF receipt[r].trip = None THEN [receipt EXCEPT ![r].trip = Fresh] ELSE receipt

ensureTripForReceipt(p) ==
  /\ At(p, "mint")
  /\ createTrip(TRUE, FALSE)
  /\ receipt' = Mint(job[p].r)
  /\ Finish(p)
  /\ UNCHANGED <<plans, recorded, failures, excuses>>

-----------------------------------------------------------------------------
(* Conversion to a family trip.                                              *)

convertTripToFamily(p, t) ==
  /\ t \in trips \ family
  /\ Begin(p, [Idle EXCEPT !.at = "claim", !.t = t])
  /\ raced' = raced \cup {job[q].r : q \in {k \in Proc : job[k].at \in Movers}}
  /\ UNCHANGED <<containers, plans, receipt, recorded, failures, torn, cut, moved>>

\* UPDATE Trip where householdId IS NULL; a duplicate of this request that was
\* faster makes no difference.
claimTrip(p) ==
  LET t == job[p].t
  IN  /\ At(p, "claim")
      /\ IF t \in trips
         THEN /\ family' = family \cup {t}
              /\ idle' = IF t \in family THEN idle ELSE [idle EXCEPT ![t] = 0]
              /\ Go(p, [job[p] EXCEPT !.at = "convertRead"])
         ELSE Finish(p) /\ UNCHANGED <<family, idle>>
      /\ UNCHANGED <<minted, trips, adHoc, archived, plans, receipt, recorded, failures, excuses>>

\* The receipts on the trip that are not hidden, and of these the ones whose
\* payer is eligible.
ToRecord(t) == {r \in ReceiptsOn(t) \cap Payers : receipt[r].state = "visible"}

convertRead(p) ==
  /\ At(p, "convertRead")
  /\ IF ToRecord(job[p].t) = {} THEN Finish(p)
     ELSE Go(p, [job[p] EXCEPT !.at = "record", !.todo = ToRecord(job[p].t)])
  /\ UNCHANGED <<containers, plans, receipt, recorded, failures, excuses>>

recordFamilyReceipt(p) ==
  LET todo == job[p].todo
  IN  /\ At(p, "record")
      /\ \E r \in todo :
           /\ \A other \in todo : r <= other
           /\ recorded' = recorded \cup {r}
           /\ IF todo = {r} THEN Finish(p) ELSE Go(p, [job[p] EXCEPT !.todo = todo \ {r}])
      /\ UNCHANGED <<containers, plans, receipt, failures, excuses>>

-----------------------------------------------------------------------------
(* Baskets and lists.  InnoDB: the INSERT of a list takes a shared lock on   *)
(* its basket (foreign key), which an UPDATE or DELETE of the basket waits   *)
(* for.                                                                      *)

Holders(b) == {q \in Proc : job[q].at = "inserted" /\ job[q].b = b}

\* addBasket: createBasket, then ensureTripForBasket, not in one transaction.
addBasket(p, b) ==
  /\ b \notin baskets /\ basketTrip[b] = None
  /\ baskets' = baskets \cup {b}
  /\ Begin(p, [Idle EXCEPT !.at = "basketRead", !.b = b])
  /\ UNCHANGED <<containers, basketTrip, lists, list, receipt, recorded, failures, excuses>>

basketRead(p) ==
  /\ At(p, "basketRead")
  /\ IF basketTrip[job[p].b] # None THEN Finish(p) ELSE Go(p, [job[p] EXCEPT !.at = "basketMint"])
  /\ UNCHANGED <<containers, plans, receipt, recorded, failures, excuses>>

\* Fault: without AND tripId IS NULL.
TieOver(b) == [basketTrip EXCEPT ![b] = Fresh]
Tie(b) == IF b \in baskets /\ basketTrip[b] = None THEN [basketTrip EXCEPT ![b] = Fresh] ELSE basketTrip

ensureTripForBasket(p) ==
  LET b == job[p].b
  IN  /\ At(p, "basketMint") /\ Holders(b) = {}
      /\ createTrip(FALSE, b \in FamilyBasket)
      /\ basketTrip' = Tie(b)
      /\ Finish(p)
      /\ UNCHANGED <<baskets, lists, list, receipt, recorded, failures, excuses>>

\* addShoppingList for a basket: no list for the store yet; the transaction; its
\* INSERT, after which it reads; what the others see when it commits.
Planned(b, s) == \E l \in lists : list[l].basket = b /\ list[l].store = s

addShoppingList(p, b, s) ==
  /\ b \in baskets /\ ~Planned(b, s)
  /\ Begin(p, [Idle EXCEPT !.at = "insert", !.b = b, !.s = s])
  /\ UNCHANGED <<containers, plans, receipt, recorded, failures, excuses>>

createShoppingList(p) ==
  LET b == job[p].b  s == job[p].s
  IN  /\ At(p, "insert")
      /\ \A q \in Holders(b) : job[q].s # s
      /\ IF b \notin baskets \/ Planned(b, s) THEN Finish(p)
         ELSE Go(p, [job[p] EXCEPT !.at = "inserted", !.t = basketTrip[b]])
      /\ UNCHANGED <<containers, plans, receipt, recorded, failures, excuses>>

HasBasket(p) == Holders(job[p].b) = {p}

commitShoppingList(p) ==
  LET b == job[p].b
      t == IF job[p].t = None THEN Fresh ELSE job[p].t
  IN  /\ At(p, "inserted") /\ HasBasket(p)
      /\ \E l \in ListId \ lists :
           /\ \A k \in ListId \ lists : l <= k
           /\ lists' = lists \cup {l}
           /\ list' = [list EXCEPT ![l] = [basket |-> b, store |-> job[p].s, trip |-> t,
                                           done |-> FALSE, skipped |-> FALSE]]
      /\ IF job[p].t = None
         THEN createTrip(FALSE, b \in FamilyBasket) /\ basketTrip' = Tie(b)
         ELSE UNCHANGED <<containers, basketTrip>>
      /\ Finish(p)
      /\ UNCHANGED <<baskets, receipt, recorded, failures, excuses>>

\* Two inserts wait for each other's lock: the server rolls one back.
deadlock(p) ==
  /\ At(p, "inserted") /\ Holders(job[p].b) # {p}
  /\ Finish(p)
  /\ UNCHANGED <<containers, plans, receipt, recorded, failures, excuses>>

\* A list without a basket and its trip, in one transaction; a duplicate has none.
NewList(s, t) ==
  /\ \E l \in ListId \ lists :
       /\ \A k \in ListId \ lists : l <= k
       /\ lists' = lists \cup {l}
       /\ list' = [list EXCEPT ![l] = [basket |-> None, store |-> s, trip |-> t,
                                       done |-> FALSE, skipped |-> FALSE]]
  /\ UNCHANGED <<baskets, basketTrip>>

Instantly == Counted /\ UNCHANGED <<job, recorded, failures, excuses>>

addStandaloneList(s) ==
  Instantly /\ createTrip(FALSE, FALSE) /\ NewList(s, Fresh) /\ UNCHANGED receipt

duplicateList(l) ==
  l \in lists /\ Instantly /\ NewList(list[l].store, None) /\ UNCHANGED <<containers, receipt>>

removeShoppingList(l) == l \in lists /\ Instantly /\ deleteLists({l}) /\ UNCHANGED containers

removeShoppingListsByBasket(b) ==
  LET gone == {l \in lists : list[l].basket = b}
  IN  gone # {} /\ Instantly /\ deleteLists(gone) /\ UNCHANGED containers

Mark(l, row) ==
  /\ Instantly /\ list' = [list EXCEPT ![l] = row] /\ row # list[l]
  /\ UNCHANGED <<containers, baskets, basketTrip, lists, receipt>>

changeShoppingListStatus(l) ==
  l \in lists /\ \E done \in BOOLEAN : Mark(l, [list[l] EXCEPT !.done = done])
skipListReceipt(l) == l \in lists /\ Mark(l, [list[l] EXCEPT !.skipped = TRUE])
unskipListReceipt(l) == l \in lists /\ Mark(l, [list[l] EXCEPT !.skipped = FALSE])

\* deleteBasket: its trip is read; the row goes, and the lists lose their basket
\* by foreign key; a trip with neither lists nor receipts goes too.
removeBasket(p, b) ==
  /\ b \in baskets
  /\ Begin(p, [Idle EXCEPT !.at = "dropBasket", !.b = b, !.t = basketTrip[b]])
  /\ UNCHANGED <<containers, plans, receipt, recorded, failures, excuses>>

deleteBasket(p) ==
  LET b == job[p].b
  IN  /\ At(p, "dropBasket") /\ Holders(b) = {}
      /\ baskets' = baskets \ {b} /\ basketTrip' = [basketTrip EXCEPT ![b] = None]
      /\ list' = [l \in ListId |-> IF list[l].basket = b THEN [list[l] EXCEPT !.basket = None] ELSE list[l]]
      /\ IF job[p].t = None THEN Finish(p) ELSE Go(p, [job[p] EXCEPT !.at = "bare"])
      /\ UNCHANGED <<containers, lists, receipt, recorded, failures, excuses>>

bareTrip(p) ==
  /\ At(p, "bare")
  /\ IF ListsOf(job[p].t) = {} /\ ReceiptsOn(job[p].t) = {}
     THEN Go(p, [job[p] EXCEPT !.at = "deleteTrip"]) ELSE Finish(p)
  /\ UNCHANGED <<containers, plans, receipt, recorded, failures, excuses>>

-----------------------------------------------------------------------------
(* The archive, time, failures.                                              *)

\* setArchived: an UPDATE of the Trip row, which touches updatedAt.
setArchived(t, value) ==
  /\ t \in trips /\ Instantly
  /\ archived' = IF value THEN archived \cup {t} ELSE archived \ {t}
  /\ idle' = IF t \in adHoc THEN idle ELSE [idle EXCEPT ![t] = 0]
  /\ UNCHANGED <<minted, trips, adHoc, family, plans, receipt>>

\* Fault: a skipped slot counts as open.
OpenUnlessBought(l) == \A r \in ReceiptsOn(list[l].trip) : StoreOf[r] # list[l].store

\* The sweep's own idea of an open slot.
OpenForSweep(l) ==
  ~list[l].skipped /\ \A r \in ReceiptsOn(list[l].trip) : StoreOf[r] # list[l].store

Forming == {t \in trips \ adHoc : idle[t] >= 1 /\ ListsOf(t) = {}}
PlannedOpen == {t \in trips \ adHoc : idle[t] = 2 /\ \E l \in ListsOf(t) : OpenForSweep(l)}
Lingering == {t \in adHoc : idle[t] = 2}

sweepTripAutoArchive ==
  LET due == (Forming \cup PlannedOpen \cup Lingering) \ archived
  IN  /\ due # {}
      /\ archived' = archived \cup due
      /\ idle' = [t \in TripId |-> IF t \in due \ adHoc THEN 0 ELSE idle[t]]
      /\ UNCHANGED <<minted, trips, adHoc, family, plans, receipt, recorded, job, requests,
                     failures, excuses>>

\* Time since the row was updated or, for an ad-hoc trip, created; it passes
\* between the requests.
Age(t) ==
  /\ \A p \in Proc : job[p] = Idle
  /\ t \in trips \ archived /\ idle[t] < 2
  /\ idle' = [idle EXCEPT ![t] = @ + 1]
  /\ UNCHANGED <<minted, trips, adHoc, family, archived, plans, receipt, recorded, job, requests,
                 failures, excuses>>

\* A handler stops at an await; a transaction that was open is rolled back.
Fail(p) ==
  /\ job[p] # Idle /\ failures < MaxFailures
  /\ failures' = failures + 1
  /\ cut' = IF job[p].at \in Movers THEN cut \cup {job[p].r} ELSE cut
  /\ Finish(p)
  /\ UNCHANGED <<containers, plans, receipt, recorded, torn, raced, moved>>

-----------------------------------------------------------------------------
Linking(p) ==
  \/ \E r \in Receipt, l \in ListId : linkReceiptToShoppingList(p, r, l)
  \/ \E r \in Receipt, t \in TripId : attachTripReceipt(p, r, t)
  \/ \E r \in Receipt : detachTripReceipt(p, r) \/ hideReceiptForUser(p, r)
  \/ \E r \in Receipt, l \in ListId \cup {None} : createReceiptFromOcr(p, r, l)
  \/ relinkRead(p) \/ ensureTripForList(p) \/ repoint(p) \/ gcChurnTrip(p) \/ deleteEmptyTrip(p)
  \/ attachReceiptToTrip(p) \/ detach(p) \/ userHideReceipt(p)
  \/ relinkReactivatedReceipt(p) \/ mintRead(p) \/ ensureTripForReceipt(p)

Planning(p) ==
  \/ \E b \in Basket : addBasket(p, b) \/ removeBasket(p, b)
  \/ \E b \in Basket, s \in Store : addShoppingList(p, b, s)
  \/ basketRead(p) \/ ensureTripForBasket(p)
  \/ createShoppingList(p) \/ commitShoppingList(p) \/ deadlock(p)
  \/ deleteBasket(p) \/ bareTrip(p)

ConvertingTrip(p) ==
  \/ \E t \in TripId : convertTripToFamily(p, t)
  \/ claimTrip(p) \/ convertRead(p) \/ recordFamilyReceipt(p)

AtOnce ==
  \/ \E s \in Store : addStandaloneList(s)
  \/ \E b \in Basket : removeShoppingListsByBasket(b)
  \/ \E l \in ListId : \/ duplicateList(l) \/ removeShoppingList(l) \/ changeShoppingListStatus(l)
                       \/ skipListReceipt(l) \/ unskipListReceipt(l)
  \/ \E t \in TripId : (\E value \in BOOLEAN : setArchived(t, value)) \/ Age(t)
  \/ sweepTripAutoArchive

Next == AtOnce \/ \E p \in Proc : Linking(p) \/ Planning(p) \/ ConvertingTrip(p) \/ Fail(p)

Spec == Init /\ [][Next]_vars

-----------------------------------------------------------------------------
(* Properties.                                                               *)

\* All lists of a basket are on the basket's trip, whoever made the first of them
\* and while the basket itself was being tied to a trip (ensureTripForBasket,
\* addShoppingList's transaction).
OneTripPerBasket ==
  \A l \in lists : list[l].basket # None =>
    list[l].trip # None /\ list[l].trip = basketTrip[list[l].basket]

\* Once nobody is at work on it, a receipt that fills a slot is on the trip of that
\* slot's list - unless two handlers moved it at the same time, or one that moved
\* it was cut short.  The trip made in the background of an upload does not
\* disturb a link (ensureTripForReceipt, relinkReceiptToListTrip).
SlotsFollowTrips ==
  \A r \in Receipt \ (torn \cup cut) :
    receipt[r].slot # None /\ (\A p \in Proc : job[p].r # r) =>
      receipt[r].slot \in lists /\ receipt[r].trip = list[receipt[r].slot].trip

\* A receipt counted in the ledger stays visible, on a family trip: detaching and
\* deleting are refused (detachTripReceipt, assertReceiptDeletable) and the trip
\* stands.  Excepted are receipts that were put on another trip by attach or
\* link, which are not refused, and those moved during the conversion.
CountedReceiptsStay ==
  \A r \in recorded \ (moved \cup raced) :
    receipt[r].state = "visible" /\ receipt[r].trip \in family

\* The sweep archives a finished trip only where it was finished in a way the sweep
\* does not see: a slot closed by items bought elsewhere on the trip, by a receipt
\* of another store, or by one that is not on the trip, or not yet.
FinishedTripsStay ==
  [][sweepTripAutoArchive =>
       \A t \in (archived' \ archived) \ adHoc : Finished(t) =>
         \E l \in ListsOf(t) :
           \/ ItemsCovered(l)
           \/ \E r \in Receipt : /\ receipt[r].slot = l
                                 /\ StoreOf[r] # list[l].store \/ receipt[r].trip # t]_vars
=============================================================================
