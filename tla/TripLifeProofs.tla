--------------------------- MODULE TripLifeProofs ---------------------------
(* Trips, for any number of handlers, baskets, lists, receipts and failures: *)
(* every list of a basket is on the basket's trip; a receipt that closes a   *)
(* slot is on the trip of its list; a receipt in the ledger stays in sight;  *)
(* the sweep spares the finished trips it can see.                           *)

EXTENDS TripLife, TLAPS

\* The points between two steps, and what a job carries there.
Points == {"idle", "relink", "ensure", "repoint", "relinkSlot", "attach", "detach", "hide", "gc",
           "deleteTrip", "mintRead", "mint", "claim", "convertRead", "record", "basketRead",
           "basketMint", "insert", "inserted", "dropBasket", "bare"}
JobRow == [at: Points, r: Receipt \cup {None}, l: ListId \cup {None}, b: Basket \cup {None},
           s: Store \cup {None}, t: TripId \cup {None}, old: TripId \cup {None}, todo: SUBSET Receipt]
\* A relinking job carries a receipt.
Job == {j \in JobRow : j.at \in {"relink", "relinkSlot"} => j.r \in Receipt}

\* The types the proofs need.
Typed ==
  /\ baskets \subseteq Basket /\ basketTrip \in [Basket -> TripId \cup {None}]
  /\ lists \subseteq ListId /\ list \in [ListId -> List]
  /\ receipt \in [Receipt -> Scan] /\ recorded \subseteq Receipt
  /\ job \in [Proc -> Job]

\* What a transaction that has inserted its list read of the basket is still true:
\* the shared lock of the foreign key keeps the basket's row as it is.
Holds(j) == j.at = "inserted" => j.b \in baskets /\ j.t = basketTrip[j.b]

\* The invariant behind OneTripPerBasket.
IInv == Typed /\ OneTripPerBasket /\ \A p \in Proc : Holds(job[p])

\* An idle process holds nothing.
LEMMA IdleIsAJob == Idle \in Job /\ Idle.at = "idle"
  BY DEF Idle, Job, JobRow, Points

\* A trip just created is a trip.
LEMMA FreshIsATrip == ASSUME NEW a, NEW f, createTrip(a, f) PROVE Fresh \in TripId \ {None}
  BY DEF createTrip, TripId, None

\* A step of one handler that leaves baskets and lists alone.
LEMMA HandlerStep ==
  ASSUME IInv, NEW p \in Proc, NEW j \in Job, j.at # "inserted",
         job' = [job EXCEPT ![p] = j], UNCHANGED plans,
         receipt' \in [Receipt -> Scan], recorded' \subseteq Receipt
  PROVE  IInv'
<1>1. job' \in [Proc -> Job] /\ job'[p] = j /\ \A q \in Proc \ {p} : job'[q] = job[q]
  BY DEF IInv, Typed
<1>2. Typed'
  BY <1>1 DEF IInv, Typed, plans
<1>3. OneTripPerBasket'
  BY DEF IInv, OneTripPerBasket, plans
<1>4. ASSUME NEW q \in Proc PROVE Holds(job[q])'
  BY <1>1 DEF IInv, Holds, plans
<1> QED BY <1>2, <1>3, <1>4 DEF IInv

\* The locals that the steps leave behind.
LEMMA JobFields ==
  ASSUME Typed, NEW p \in Proc
  PROVE  /\ job[p] \in Job /\ job[p].r \in Receipt \cup {None} /\ job[p].l \in ListId \cup {None}
         /\ job[p].b \in Basket \cup {None} /\ job[p].s \in Store \cup {None}
         /\ job[p].t \in TripId \cup {None} /\ job[p].old \in TripId \cup {None}
         /\ job[p].todo \in SUBSET Receipt
  BY DEF Typed, Job, JobRow

\* The columns of a receipt,
LEMMA RowFields ==
  ASSUME Typed, NEW r \in Receipt
  PROVE  /\ receipt[r].trip \in TripId \cup {None} /\ receipt[r].slot \in ListId \cup {None}
         /\ receipt[r].state \in {"none", "visible", "hidden"}
  BY DEF Typed, Scan

\* what writing one of them yields,
LEMMA RowWrites ==
  ASSUME Typed, NEW r, NEW t \in TripId \cup {None}, NEW l \in ListId \cup {None}
  PROVE  /\ [receipt EXCEPT ![r].trip = t] \in [Receipt -> Scan]
         /\ [receipt EXCEPT ![r].slot = l] \in [Receipt -> Scan]
         /\ [receipt EXCEPT ![r].trip = t, ![r].slot = l] \in [Receipt -> Scan]
<1>1. CASE r \in Receipt
  <2>1. receipt[r] \in Scan /\ receipt \in [Receipt -> Scan]
    BY <1>1 DEF Typed
  <2>2. [receipt[r] EXCEPT !.trip = t] \in Scan
    BY <2>1 DEF Scan
  <2>3. [receipt[r] EXCEPT !.slot = l] \in Scan
    BY <2>1 DEF Scan
  <2>4. [receipt[r] EXCEPT !.trip = t, !.slot = l] \in Scan
    BY <2>1 DEF Scan
  <2> QED BY <2>1, <2>2, <2>3, <2>4
<1>2. CASE r \notin Receipt
  BY <1>2 DEF Typed
<1> QED BY <1>1, <1>2

\* and the columns of a list.
LEMMA ListFields ==
  ASSUME Typed, NEW l \in ListId
  PROVE  /\ list[l].trip \in TripId \cup {None} /\ list[l].basket \in Basket \cup {None}
         /\ list[l].store \in Store \cup {None} /\ list[l].done \in BOOLEAN /\ list[l].skipped \in BOOLEAN
  BY DEF Typed, List

-----------------------------------------------------------------------------
(* Receipts.                                                                 *)

\* A job that has only moved receipts keeps the baskets,
LEMMA MoveKeeps ==
  ASSUME IInv, NEW p \in Proc, AfterMove(p), UNCHANGED plans,
         receipt' \in [Receipt -> Scan], recorded' \subseteq Receipt
  PROVE  IInv'
<1>1. CASE job[p].old = None
  BY <1>1, IdleIsAJob, HandlerStep DEF AfterMove, Finish, Go
<1>2. CASE job[p].old # None
  <2> DEFINE j == [Idle EXCEPT !.at = "gc", !.t = job[p].old]
  <2>1. j \in Job /\ j.at # "inserted"
    BY JobFields DEF IInv, Idle, Job, JobRow, Points
  <2>2. job' = [job EXCEPT ![p] = j]
    BY <1>2 DEF AfterMove, Go
  <2> HIDE DEF j
  <2> QED BY <2>1, <2>2, HandlerStep
<1> QED BY <1>1, <1>2

\* A handler that ends here, and one that goes on to another of its points.
LEMMA FinishKeeps ==
  ASSUME IInv, NEW p \in Proc, Finish(p), UNCHANGED plans,
         receipt' \in [Receipt -> Scan], recorded' \subseteq Receipt
  PROVE  IInv'
  BY IdleIsAJob, HandlerStep DEF Finish, Go

\* and so does one that goes on without minting.
LEMMA GoKeeps ==
  ASSUME IInv, NEW p \in Proc, NEW point \in Points \ {"inserted"},
         point = "relink" => job[p].at = "relinkSlot", point # "relinkSlot",
         Go(p, [job[p] EXCEPT !.at = point]), UNCHANGED plans,
         receipt' \in [Receipt -> Scan], recorded' \subseteq Receipt
  PROVE  IInv'
<1> DEFINE j == [job[p] EXCEPT !.at = point]
<1>1. j \in Job /\ j.at # "inserted"
  BY JobFields DEF IInv, Job, JobRow
<1>2. job' = [job EXCEPT ![p] = j]
  BY DEF Go
<1> HIDE DEF j
<1> QED BY <1>1, <1>2, HandlerStep

\* A link keeps the baskets' trips,
LEMMA LinkKeeps ==
  ASSUME IInv, NEW p \in Proc, NEW r \in Receipt, NEW l \in ListId,
         linkReceiptToShoppingList(p, r, l)
  PROVE  IInv'
<1> DEFINE j == [Idle EXCEPT !.at = "relink", !.r = r, !.l = l]
<1>1. j \in Job /\ j.at # "inserted"
  BY DEF Idle, Job, JobRow, Points
<1>2. job' = [job EXCEPT ![p] = j] /\ UNCHANGED <<plans, recorded>>
  BY DEF linkReceiptToShoppingList, Begin
<1>3. receipt' \in [Receipt -> Scan] /\ recorded' \subseteq Receipt
  BY <1>2 DEF linkReceiptToShoppingList, IInv, Typed, Scan
<1> HIDE DEF j
<1> QED BY <1>1, <1>2, <1>3, HandlerStep

\* the reads of a relink,
LEMMA RelinkReadKeeps == ASSUME IInv, NEW p \in Proc, relinkRead(p) PROVE IInv'
<1> DEFINE r == job[p].r
           l == job[p].l
           t == IF l \in lists THEN list[l].trip ELSE None
           point == IF t = None THEN "ensure" ELSE "repoint"
           from == receipt[r].trip
           j == [job[p] EXCEPT !.at = point, !.t = t, !.old = from]
<1>1. UNCHANGED <<plans, receipt, recorded>> /\ receipt \in [Receipt -> Scan] /\ recorded \subseteq Receipt
  BY DEF relinkRead, IInv, Typed
<1>2. CASE l \notin lists \/ (t # None /\ t = receipt[r].trip)
  BY <1>1, <1>2, FinishKeeps DEF relinkRead
<1>3. CASE ~(l \notin lists \/ (t # None /\ t = receipt[r].trip))
  <2>1. job' = [job EXCEPT ![p] = j]
    BY <1>3 DEF relinkRead, Go
  <2>2. t \in TripId \cup {None}
    BY ListFields DEF IInv, Typed
  <2>3. r \in Receipt
    BY JobFields DEF relinkRead, At, IInv, Job
  <2>4. from \in TripId \cup {None}
    BY <2>3, RowFields DEF IInv
  <2>5. j \in Job /\ j.at # "inserted"
    <3>1. job[p] \in JobRow
      BY JobFields DEF IInv, Job
    <3>2. point \in {"ensure", "repoint"}
      OBVIOUS
    <3> HIDE DEF t, r, l, point, from
    <3>3. j \in JobRow
      BY <2>2, <2>4, <3>1, <3>2 DEF JobRow, Points
    <3>4. j.at = point
      BY <3>1 DEF JobRow
    <3> HIDE DEF j
    <3> QED BY <3>2, <3>3, <3>4 DEF Job
  <2> HIDE DEF j
  <2> QED BY <1>1, <2>1, <2>5, HandlerStep
<1> QED BY <1>2, <1>3

\* A list without a basket gets its trip.
LEMMA EnsureListKeeps == ASSUME IInv, NEW p \in Proc, ensureTripForList(p) PROVE IInv'
<1> DEFINE l == job[p].l
           open == l \in lists /\ list[l].trip = None
           t == IF l \in lists /\ ~open THEN list[l].trip ELSE Fresh
           j == [job[p] EXCEPT !.at = "repoint", !.t = t]
<1>1. /\ job' = [job EXCEPT ![p] = j] /\ UNCHANGED <<baskets, basketTrip, lists, receipt, recorded>>
      /\ list' = IF open THEN [list EXCEPT ![l].trip = Fresh] ELSE list
      /\ createTrip(FALSE, FALSE)
  BY DEF ensureTripForList, Go
<1>2. Fresh \in TripId \ {None}
  BY <1>1, FreshIsATrip
<1>3. t \in TripId \cup {None}
  BY <1>2, ListFields DEF IInv, Typed
<1>4. j \in Job /\ j.at # "inserted"
  <2>1. job[p] \in JobRow
    BY JobFields DEF IInv, Job
  <2> HIDE DEF t
  <2>2. j \in JobRow /\ j.at = "repoint"
    BY <1>3, <2>1 DEF JobRow, Points
  <2> HIDE DEF j
  <2> QED BY <2>2 DEF Job
<1>5. open => l \in ListId /\ list[l].basket = None
  BY DEF IInv, Typed, OneTripPerBasket
<1>6. list' \in [ListId -> List]
  BY <1>1, <1>2, <1>5 DEF IInv, Typed, List
<1>7. OneTripPerBasket'
  <2> SUFFICES ASSUME NEW k \in lists, list'[k].basket # None
               PROVE  list'[k].trip # None /\ list'[k].trip = basketTrip[list'[k].basket]
    BY <1>1 DEF OneTripPerBasket
  <2>1. k \in ListId
    BY DEF IInv, Typed
  <2>2. CASE open /\ k = l
    BY <1>1, <1>5, <2>1, <2>2 DEF IInv, Typed, List
  <2>3. CASE ~(open /\ k = l)
    <3>1. list'[k] = list[k]
      BY <1>1, <1>5, <2>1, <2>3 DEF IInv, Typed
    <3> QED BY <3>1 DEF IInv, OneTripPerBasket
  <2> QED BY <2>2, <2>3
<1>8. job' \in [Proc -> Job] /\ \A q \in Proc : Holds(job[q])'
  <2> HIDE DEF j
  <2> QED BY <1>1, <1>4 DEF IInv, Typed, Holds
<1> QED BY <1>1, <1>6, <1>7, <1>8 DEF IInv, Typed

\* the update of the receipt's trip,
LEMMA RepointKeeps == ASSUME IInv, NEW p \in Proc, repoint(p) PROVE IInv'
<1>1. UNCHANGED <<plans, recorded>> /\ recorded \subseteq Receipt
  BY DEF repoint, IInv, Typed
<1>2. receipt' \in [Receipt -> Scan]
  <2>1. receipt' = receipt \/ receipt' = [receipt EXCEPT ![job[p].r].trip = job[p].t]
    BY DEF repoint
  <2>2. job[p].t \in TripId \cup {None} /\ Typed
    BY JobFields DEF IInv
  <2>3. [receipt EXCEPT ![job[p].r].trip = job[p].t] \in [Receipt -> Scan]
    <3>1. None \in ListId \cup {None}
      OBVIOUS
    <3> QED BY <2>2, <3>1, RowWrites
  <2> QED BY <2>1, <2>2, <2>3 DEF Typed
<1> QED BY <1>1, <1>2, FinishKeeps, MoveKeeps DEF repoint

\* the collection of an empty trip,
LEMMA CollectKeeps ==
  ASSUME IInv, NEW p \in Proc, gcChurnTrip(p) \/ deleteEmptyTrip(p) \/ bareTrip(p)
  PROVE  IInv'
<1>1. UNCHANGED <<plans, recorded, receipt>> /\ recorded \subseteq Receipt /\ receipt \in [Receipt -> Scan]
  BY DEF gcChurnTrip, deleteEmptyTrip, bareTrip, IInv, Typed
<1>2. Finish(p) \/ Go(p, [job[p] EXCEPT !.at = "deleteTrip"])
  BY DEF gcChurnTrip, deleteEmptyTrip, bareTrip
<1>3. "deleteTrip" \in Points
  BY DEF Points
<1> QED BY <1>1, <1>2, <1>3, FinishKeeps, GoKeeps

\* the request that attaches a receipt,
LEMMA AttachKeeps ==
  ASSUME IInv, NEW p \in Proc, NEW r \in Receipt, NEW t \in TripId, attachTripReceipt(p, r, t)
  PROVE  IInv'
<1> DEFINE from == receipt[r].trip
           j == [Idle EXCEPT !.at = "attach", !.r = r, !.t = t, !.old = from]
<1>1. from \in TripId \cup {None}
  BY RowFields DEF IInv
<1>2. j \in Job /\ j.at # "inserted"
  <2> HIDE DEF from
  <2> QED BY <1>1 DEF Idle, Job, JobRow, Points
<1>3. job' = [job EXCEPT ![p] = j] /\ UNCHANGED <<plans, receipt, recorded>>
  BY DEF attachTripReceipt, Begin
<1> HIDE DEF j
<1> QED BY <1>2, <1>3, HandlerStep DEF IInv, Typed

\* its update,
LEMMA AttachReceiptKeeps == ASSUME IInv, NEW p \in Proc, attachReceiptToTrip(p) PROVE IInv'
<1>1. UNCHANGED <<plans, recorded>> /\ recorded \subseteq Receipt
  BY DEF attachReceiptToTrip, IInv, Typed
<1>2. receipt' \in [Receipt -> Scan]
  BY JobFields, RowWrites DEF attachReceiptToTrip, IInv, Typed
<1> QED BY <1>1, <1>2, MoveKeeps DEF attachReceiptToTrip

\* the request that detaches one,
LEMMA DetachKeeps ==
  ASSUME IInv, NEW p \in Proc, NEW r \in Receipt, detachTripReceipt(p, r)
  PROVE  IInv'
<1> DEFINE t == receipt[r].trip
           j == [Idle EXCEPT !.at = "detach", !.r = r, !.t = t]
<1>1. t \in TripId \cup {None}
  BY RowFields DEF IInv
<1>2. j \in Job /\ j.at # "inserted"
  <2> HIDE DEF t
  <2> QED BY <1>1 DEF Idle, Job, JobRow, Points
<1>3. job' = [job EXCEPT ![p] = j] /\ UNCHANGED <<plans, receipt, recorded>>
  BY DEF detachTripReceipt, Begin
<1> HIDE DEF j
<1> QED BY <1>2, <1>3, HandlerStep DEF IInv, Typed

\* the one that hides one,
LEMMA HideKeeps ==
  ASSUME IInv, NEW p \in Proc, NEW r \in Receipt, hideReceiptForUser(p, r)
  PROVE  IInv'
<1> DEFINE j == [Idle EXCEPT !.at = "hide", !.r = r]
<1>1. j \in Job /\ j.at # "inserted"
  BY DEF Idle, Job, JobRow, Points
<1>2. job' = [job EXCEPT ![p] = j] /\ UNCHANGED <<plans, receipt, recorded>>
  BY DEF hideReceiptForUser, Begin
<1> HIDE DEF j
<1> QED BY <1>1, <1>2, HandlerStep DEF IInv, Typed

\* their updates,
LEMMA WriteKeeps ==
  ASSUME IInv, NEW p \in Proc, detach(p) \/ userHideReceipt(p) \/ ensureTripForReceipt(p)
  PROVE  IInv'
<1>1. UNCHANGED <<plans, recorded>> /\ recorded \subseteq Receipt /\ Finish(p)
  BY DEF detach, userHideReceipt, ensureTripForReceipt, IInv, Typed
<1>2. receipt' \in [Receipt -> Scan]
  <2>1. CASE detach(p)
    BY <2>1, RowWrites DEF detach, IInv, Typed
  <2>2. CASE userHideReceipt(p)
    BY <2>2, JobFields DEF userHideReceipt, IInv, Typed, Scan
  <2>3. CASE ensureTripForReceipt(p)
    <3>1. Fresh \in TripId
      BY <2>3, FreshIsATrip DEF ensureTripForReceipt
    <3> QED BY <2>3, <3>1, RowWrites DEF ensureTripForReceipt, Mint, IInv, Typed
  <2> QED BY <2>1, <2>2, <2>3
<1> QED BY <1>1, <1>2, FinishKeeps

\* an upload,
LEMMA UploadKeeps ==
  ASSUME IInv, NEW p \in Proc, NEW r \in Receipt, NEW l \in ListId \cup {None},
         createReceiptFromOcr(p, r, l)
  PROVE  IInv'
<1> DEFINE point == IF l = None THEN "mintRead" ELSE "relinkSlot"
           j == [Idle EXCEPT !.at = point, !.r = r, !.l = l]
<1>1. job' = [job EXCEPT ![p] = j] /\ UNCHANGED <<plans, recorded>>
  BY DEF createReceiptFromOcr, Begin
<1>2. point \in {"mintRead", "relinkSlot"}
  OBVIOUS
<1>3. receipt' \in [Receipt -> Scan]
  BY DEF createReceiptFromOcr, IInv, Typed, Scan
<1>4. j \in Job /\ j.at # "inserted"
  <2> HIDE DEF point
  <2>1. j \in JobRow /\ j.at = point /\ j.r = r
    BY <1>2 DEF Idle, JobRow, Points
  <2> HIDE DEF j
  <2> QED BY <1>2, <2>1 DEF Job
<1> HIDE DEF j
<1> QED BY <1>1, <1>3, <1>4, HandlerStep DEF IInv, Typed

\* a reactivation,
LEMMA ReactivateKeeps == ASSUME IInv, NEW p \in Proc, relinkReactivatedReceipt(p) PROVE IInv'
<1>1. UNCHANGED <<plans, recorded>> /\ recorded \subseteq Receipt
  BY DEF relinkReactivatedReceipt, IInv, Typed
<1>2. CASE job[p].l \in lists
  <2>1. receipt' = [receipt EXCEPT ![job[p].r].slot = job[p].l]
        /\ Go(p, [job[p] EXCEPT !.at = "relink"]) /\ job[p].at = "relinkSlot"
    BY <1>2 DEF relinkReactivatedReceipt, At
  <2>2. receipt' \in [Receipt -> Scan]
    BY <2>1, JobFields, RowWrites DEF IInv
  <2>3. "relink" \in Points \ {"inserted"}
    BY DEF Points
  <2> QED BY <1>1, <2>1, <2>2, <2>3, GoKeeps
<1>3. CASE job[p].l \notin lists
  BY <1>1, <1>3, FinishKeeps DEF relinkReactivatedReceipt, IInv, Typed
<1> QED BY <1>2, <1>3

\* the reads before a trip is minted,
LEMMA ReadKeeps ==
  ASSUME IInv, NEW p \in Proc, mintRead(p) \/ basketRead(p)
  PROVE  IInv'
<1>1. UNCHANGED <<plans, receipt, recorded>> /\ recorded \subseteq Receipt /\ receipt \in [Receipt -> Scan]
  BY DEF mintRead, basketRead, IInv, Typed
<1>2. Finish(p) \/ Go(p, [job[p] EXCEPT !.at = "mint"]) \/ Go(p, [job[p] EXCEPT !.at = "basketMint"])
  BY DEF mintRead, basketRead
<1>3. {"mint", "basketMint"} \subseteq Points
  BY DEF Points
<1> QED BY <1>1, <1>2, <1>3, FinishKeeps, GoKeeps

-----------------------------------------------------------------------------
(* Conversion.                                                               *)

\* a conversion to a family trip,
LEMMA ConvertKeeps ==
  ASSUME IInv, NEW p \in Proc, NEW t \in TripId, convertTripToFamily(p, t)
  PROVE  IInv'
<1> DEFINE j == [Idle EXCEPT !.at = "claim", !.t = t]
<1>1. j \in Job /\ j.at # "inserted"
  BY DEF Idle, Job, JobRow, Points
<1>2. job' = [job EXCEPT ![p] = j] /\ UNCHANGED <<plans, receipt, recorded>>
  BY DEF convertTripToFamily, Begin
<1> HIDE DEF j
<1> QED BY <1>1, <1>2, HandlerStep DEF IInv, Typed

\* its claim,
LEMMA ClaimKeeps == ASSUME IInv, NEW p \in Proc, claimTrip(p) PROVE IInv'
<1>1. UNCHANGED <<plans, receipt, recorded>> /\ recorded \subseteq Receipt /\ receipt \in [Receipt -> Scan]
  BY DEF claimTrip, IInv, Typed
<1>2. Finish(p) \/ Go(p, [job[p] EXCEPT !.at = "convertRead"])
  BY DEF claimTrip
<1>3. "convertRead" \in Points
  BY DEF Points
<1> QED BY <1>1, <1>2, <1>3, FinishKeeps, GoKeeps

\* A handler that goes on recording receipts.
LEMMA RecordingKeeps ==
  ASSUME IInv, NEW p \in Proc, NEW todo \in SUBSET Receipt,
         Go(p, [job[p] EXCEPT !.at = "record", !.todo = todo]),
         UNCHANGED <<plans, receipt>>, recorded' \subseteq Receipt
  PROVE  IInv'
<1> DEFINE j == [job[p] EXCEPT !.at = "record", !.todo = todo]
<1>1. job[p] \in JobRow
  BY JobFields DEF IInv, Job
<1>2. j \in Job /\ j.at # "inserted"
  <2>1. j \in JobRow /\ j.at = "record"
    BY <1>1 DEF JobRow, Points
  <2> HIDE DEF j
  <2> QED BY <2>1 DEF Job
<1>3. job' = [job EXCEPT ![p] = j]
  BY DEF Go
<1> HIDE DEF j
<1> QED BY <1>2, <1>3, HandlerStep DEF IInv, Typed

\* its read,
LEMMA ConvertReadKeeps == ASSUME IInv, NEW p \in Proc, convertRead(p) PROVE IInv'
<1> DEFINE todo == ToRecord(job[p].t)
<1>1. UNCHANGED <<plans, receipt, recorded>> /\ recorded \subseteq Receipt /\ receipt \in [Receipt -> Scan]
  BY DEF convertRead, IInv, Typed
<1>2. todo \in SUBSET Receipt
  BY DEF ToRecord, ReceiptsOn
<1>3. Finish(p) \/ Go(p, [job[p] EXCEPT !.at = "record", !.todo = todo])
  BY DEF convertRead
<1> HIDE DEF todo
<1> QED BY <1>1, <1>2, <1>3, FinishKeeps, RecordingKeeps

\* and the recording of its receipts.
LEMMA RecordReceiptKeeps == ASSUME IInv, NEW p \in Proc, recordFamilyReceipt(p) PROVE IInv'
<1>1. UNCHANGED <<plans, receipt>> /\ receipt \in [Receipt -> Scan]
  BY DEF recordFamilyReceipt, IInv, Typed
<1>2. PICK r \in job[p].todo :
        /\ recorded' = recorded \cup {r}
        /\ \/ Finish(p)
           \/ Go(p, [job[p] EXCEPT !.todo = job[p].todo \ {r}])
  BY DEF recordFamilyReceipt
<1>3. recorded' \subseteq Receipt /\ job[p].todo \ {r} \in SUBSET Receipt
  BY <1>2, JobFields DEF IInv, Typed
<1>4. [job[p] EXCEPT !.todo = job[p].todo \ {r}]
        = [job[p] EXCEPT !.at = "record", !.todo = job[p].todo \ {r}]
  BY JobFields DEF recordFamilyReceipt, At, IInv, Job, JobRow
<1> QED BY <1>1, <1>2, <1>3, <1>4, FinishKeeps, RecordingKeeps

-----------------------------------------------------------------------------
(* Baskets and lists.                                                        *)

\* Where nobody holds the basket, whoever holds another one sees no change.
LEMMA OthersHold ==
  ASSUME IInv, NEW p \in Proc, NEW b \in Basket, NEW j \in Job, j.at # "inserted",
         job' = [job EXCEPT ![p] = j], Holders(b) \subseteq {p},
         basketTrip' \in [Basket -> TripId \cup {None}],
         \A c \in Basket \ {b} : basketTrip'[c] = basketTrip[c] /\ (c \in baskets => c \in baskets')
  PROVE  job' \in [Proc -> Job] /\ \A q \in Proc : Holds(job[q])'
<1>1. job' \in [Proc -> Job] /\ job'[p] = j /\ \A q \in Proc \ {p} : job'[q] = job[q]
  BY DEF IInv, Typed
<1>2. ASSUME NEW q \in Proc, job'[q].at = "inserted"
      PROVE  job'[q].b \in baskets' /\ job'[q].t = basketTrip'[job'[q].b]
  <2>1. q # p /\ job'[q] = job[q]
    BY <1>1, <1>2
  <2>2. job[q].b \in baskets /\ job[q].t = basketTrip[job[q].b]
    BY <1>2, <2>1 DEF IInv, Holds
  <2>3. job[q].b # b
    BY <1>2, <2>1 DEF Holders
  <2>4. job[q].b \in Basket \ {b}
    BY <2>2, <2>3 DEF IInv, Typed
  <2> QED BY <2>1, <2>2, <2>4
<1> QED BY <1>1, <1>2 DEF Holds

\* A new basket keeps them,
LEMMA AddBasketKeeps ==
  ASSUME IInv, NEW p \in Proc, NEW b \in Basket, addBasket(p, b)
  PROVE  IInv'
<1> DEFINE j == [Idle EXCEPT !.at = "basketRead", !.b = b]
<1>1. j \in Job /\ j.at # "inserted"
  BY DEF Idle, Job, JobRow, Points
<1>2. /\ job' = [job EXCEPT ![p] = j] /\ UNCHANGED <<basketTrip, lists, list, receipt, recorded>>
      /\ baskets' = baskets \cup {b} /\ b \notin baskets
  BY DEF addBasket, Begin
<1>3. Holders(b) = {}
  BY <1>2 DEF Holders, IInv, Holds
<1> HIDE DEF j
<1>4. job' \in [Proc -> Job] /\ \A q \in Proc : Holds(job[q])'
  <2>1. basketTrip' \in [Basket -> TripId \cup {None}]
    BY <1>2 DEF IInv, Typed
  <2>2. Holders(b) \subseteq {p}
    BY <1>3
  <2> QED BY <1>1, <1>2, <2>1, <2>2, OthersHold
<1>5. Typed'
  BY <1>2, <1>4 DEF IInv, Typed
<1>6. OneTripPerBasket'
  BY <1>2 DEF IInv, OneTripPerBasket
<1> QED BY <1>4, <1>5, <1>6 DEF IInv

\* Tying a basket to a trip disturbs no list, since a list's basket has its trip.
LEMMA TieKeeps ==
  ASSUME IInv, NEW b \in Basket, Fresh \in TripId \ {None}, basketTrip' = Tie(b)
  PROVE  /\ basketTrip' \in [Basket -> TripId \cup {None}]
         /\ \A c \in Basket : c # b \/ basketTrip[c] # None => basketTrip'[c] = basketTrip[c]
         /\ b \in baskets => basketTrip'[b] # None
         /\ b \in baskets /\ basketTrip[b] = None => basketTrip'[b] = Fresh
  BY DEF Tie, IInv, Typed

\* as does its tying to a trip,
LEMMA TieBasketKeeps == ASSUME IInv, NEW p \in Proc, ensureTripForBasket(p) PROVE IInv'
<1> DEFINE b == job[p].b
<1>1. /\ job' = [job EXCEPT ![p] = Idle] /\ UNCHANGED <<baskets, lists, list, receipt, recorded>>
      /\ basketTrip' = Tie(b) /\ Holders(b) = {} /\ createTrip(FALSE, b \in FamilyBasket)
  BY DEF ensureTripForBasket, Finish, Go
<1>2. Fresh \in TripId \ {None}
  BY <1>1, FreshIsATrip
<1> HIDE DEF b
<1>3. CASE b \in Basket
  <2>1. /\ basketTrip' \in [Basket -> TripId \cup {None}]
        /\ \A c \in Basket : c # b \/ basketTrip[c] # None => basketTrip'[c] = basketTrip[c]
    BY <1>1, <1>2, <1>3, TieKeeps
  <2>2. job' \in [Proc -> Job] /\ \A q \in Proc : Holds(job[q])'
    <3>1. Idle \in Job /\ Idle.at # "inserted" /\ Holders(b) \subseteq {p}
      BY <1>1, IdleIsAJob
    <3> QED BY <1>1, <1>3, <2>1, <3>1, OthersHold
  <2>3. Typed'
    BY <1>1, <2>1, <2>2 DEF IInv, Typed
  <2>4. OneTripPerBasket'
    <3> SUFFICES ASSUME NEW k \in lists, list[k].basket # None
                 PROVE  list[k].trip # None /\ list[k].trip = basketTrip'[list[k].basket]
      BY <1>1 DEF OneTripPerBasket
    <3>1. list[k].trip # None /\ list[k].trip = basketTrip[list[k].basket]
      BY DEF IInv, OneTripPerBasket
    <3>2. list[k].basket \in Basket
      BY ListFields DEF IInv, Typed
    <3> QED BY <2>1, <3>1, <3>2
  <2> QED BY <2>2, <2>3, <2>4 DEF IInv
<1>4. CASE b \notin Basket
  <2>1. basketTrip' = basketTrip
    BY <1>1, <1>4 DEF Tie, IInv, Typed
  <2>2. UNCHANGED plans /\ Finish(p)
    BY <1>1, <2>1 DEF plans, ensureTripForBasket
  <2> QED BY <1>1, <2>2, FinishKeeps DEF IInv, Typed
<1> QED BY <1>3, <1>4

\* a new list,
LEMMA AddListKeeps ==
  ASSUME IInv, NEW p \in Proc, NEW b \in Basket, NEW s \in Store, addShoppingList(p, b, s)
  PROVE  IInv'
<1> DEFINE j == [Idle EXCEPT !.at = "insert", !.b = b, !.s = s]
<1>1. j \in Job /\ j.at # "inserted"
  BY DEF Idle, Job, JobRow, Points
<1>2. job' = [job EXCEPT ![p] = j] /\ UNCHANGED <<plans, receipt, recorded>>
  BY DEF addShoppingList, Begin
<1> HIDE DEF j
<1> QED BY <1>1, <1>2, HandlerStep DEF IInv, Typed

\* The insert takes the lock, and what it reads afterwards is so.
LEMMA InsertKeeps == ASSUME IInv, NEW p \in Proc, createShoppingList(p) PROVE IInv'
<1> DEFINE b == job[p].b
           t == basketTrip[b]
           j == [job[p] EXCEPT !.at = "inserted", !.t = t]
<1>1. UNCHANGED <<plans, receipt, recorded>> /\ recorded \subseteq Receipt /\ receipt \in [Receipt -> Scan]
  BY DEF createShoppingList, IInv, Typed
<1>2. Finish(p) \/ (b \in baskets /\ job' = [job EXCEPT ![p] = j])
  BY DEF createShoppingList, Go
<1>3. CASE b \in baskets /\ job' = [job EXCEPT ![p] = j]
  <2>1. b \in Basket /\ t \in TripId \cup {None} /\ job[p] \in JobRow /\ job[p].b = b
    BY <1>3, JobFields DEF IInv, Typed, Job
  <2> HIDE DEF b, t
  <2>2. j \in JobRow /\ j.at = "inserted" /\ j.b = b /\ j.t = t
    BY <2>1 DEF JobRow, Points
  <2> HIDE DEF j
  <2>3. j \in Job
    BY <2>2 DEF Job
  <2>4. job' \in [Proc -> Job] /\ job'[p] = j /\ \A q \in Proc \ {p} : job'[q] = job[q]
    BY <1>3, <2>3 DEF IInv, Typed
  <2>5. Typed'
    BY <1>1, <2>4 DEF IInv, Typed, plans
  <2>6. OneTripPerBasket'
    BY <1>1 DEF IInv, OneTripPerBasket, plans
  <2>7. ASSUME NEW q \in Proc PROVE Holds(job[q])'
    <3>1. CASE q = p
      BY <1>1, <1>3, <2>2, <2>4, <3>1 DEF Holds, plans, t
    <3>2. CASE q # p
      BY <1>1, <2>4, <3>2 DEF IInv, Holds, plans
    <3> QED BY <3>1, <3>2
  <2> QED BY <2>5, <2>6, <2>7 DEF IInv
<1> QED BY <1>1, <1>2, <1>3, FinishKeeps

\* The list goes on the trip that was read, which is the basket's, or on a new one
\* that becomes the basket's because nobody else could tie it meanwhile.
LEMMA CommitKeeps == ASSUME IInv, NEW p \in Proc, commitShoppingList(p) PROVE IInv'
<1> DEFINE b == job[p].b
           t == IF job[p].t = None THEN Fresh ELSE job[p].t
           row(s) == [basket |-> b, store |-> s, trip |-> t, done |-> FALSE, skipped |-> FALSE]
<1>1. /\ job' = [job EXCEPT ![p] = Idle] /\ UNCHANGED <<baskets, receipt, recorded>>
      /\ Holders(b) = {p} /\ job[p].at = "inserted"
      /\ job[p].t = None => Fresh \in TripId /\ basketTrip' = Tie(b)
      /\ job[p].t # None => basketTrip' = basketTrip
  <2>1. job[p].t = None => Fresh \in TripId /\ basketTrip' = Tie(b)
    BY DEF commitShoppingList, createTrip
  <2> QED BY <2>1 DEF commitShoppingList, Finish, Go, HasBasket, At
<1>2. b \in baskets /\ b \in Basket /\ job[p].t = basketTrip[b] /\ job[p].t \in TripId \cup {None}
  BY <1>1, JobFields DEF IInv, Typed, Holds
<1>3. PICK l \in ListId \ lists : lists' = lists \cup {l} /\ list' = [list EXCEPT ![l] = row(job[p].s)]
  BY DEF commitShoppingList
<1>4. job[p].t = None => Fresh \in TripId \ {None}
  BY <1>1 DEF TripId, None
<1>5. /\ basketTrip' \in [Basket -> TripId \cup {None}]
      /\ \A c \in Basket : c # b \/ basketTrip[c] # None => basketTrip'[c] = basketTrip[c]
      /\ basketTrip'[b] = t /\ t \in TripId \ {None}
  <2>1. CASE job[p].t = None
    BY <1>1, <1>2, <1>4, <2>1, TieKeeps
  <2>2. CASE job[p].t # None
    BY <1>1, <1>2, <2>2 DEF IInv, Typed
  <2> QED BY <2>1, <2>2
<1>6. row(job[p].s) \in List /\ row(job[p].s).basket = b /\ row(job[p].s).trip = t
  <2>1. job[p].s \in Store \cup {None}
    BY JobFields DEF IInv
  <2> HIDE DEF b, t
  <2> QED BY <1>2, <1>5, <2>1 DEF List
<1> HIDE DEF row, t, b
<1>7. job' \in [Proc -> Job] /\ \A q \in Proc : Holds(job[q])'
  <2>1. Idle \in Job /\ Idle.at # "inserted" /\ Holders(b) \subseteq {p}
    BY <1>1, IdleIsAJob
  <2> QED BY <1>1, <1>2, <1>5, <2>1, OthersHold
<1>8. Typed'
  BY <1>1, <1>3, <1>5, <1>6, <1>7 DEF IInv, Typed
<1>9. OneTripPerBasket'
  <2> SUFFICES ASSUME NEW k \in lists', list'[k].basket # None
               PROVE  list'[k].trip # None /\ list'[k].trip = basketTrip'[list'[k].basket]
    BY DEF OneTripPerBasket
  <2>1. CASE k = l
    <3>1. list'[k] = row(job[p].s)
      BY <1>3, <2>1 DEF IInv, Typed
    <3> QED BY <1>5, <1>6, <3>1
  <2>2. CASE k # l
    <3>1. k \in lists /\ list'[k] = list[k] /\ k \in ListId
      BY <1>3, <2>2 DEF IInv, Typed
    <3>2. list[k].trip # None /\ list[k].trip = basketTrip[list[k].basket]
      BY <3>1 DEF IInv, OneTripPerBasket
    <3>3. list[k].basket \in Basket
      BY <3>1, ListFields DEF IInv
    <3> QED BY <1>5, <3>1, <3>2, <3>3
  <2> QED BY <2>1, <2>2
<1> QED BY <1>7, <1>8, <1>9 DEF IInv

\* a transaction that fails,
LEMMA DeadlockKeeps == ASSUME IInv, NEW p \in Proc, deadlock(p) \/ Fail(p) PROVE IInv'
<1>1. UNCHANGED <<plans, receipt, recorded>> /\ Finish(p)
  BY DEF deadlock, Fail
<1> QED BY <1>1, FinishKeeps DEF IInv, Typed

\* a removed basket,
LEMMA RemoveBasketKeeps ==
  ASSUME IInv, NEW p \in Proc, NEW b \in Basket, removeBasket(p, b)
  PROVE  IInv'
<1> DEFINE t == basketTrip[b]
           j == [Idle EXCEPT !.at = "dropBasket", !.b = b, !.t = t]
<1>1. t \in TripId \cup {None}
  BY DEF IInv, Typed
<1>2. j \in Job /\ j.at # "inserted"
  <2> HIDE DEF t
  <2> QED BY <1>1 DEF Idle, Job, JobRow, Points
<1>3. job' = [job EXCEPT ![p] = j] /\ UNCHANGED <<plans, receipt, recorded>>
  BY DEF removeBasket, Begin
<1> HIDE DEF j
<1> QED BY <1>2, <1>3, HandlerStep DEF IInv, Typed

\* The lists of a deleted basket have none, so that nothing is claimed of them.
LEMMA DeleteBasketKeeps == ASSUME IInv, NEW p \in Proc, deleteBasket(p) PROVE IInv'
<1> DEFINE b == job[p].b
           j == IF job[p].t = None THEN Idle ELSE [job[p] EXCEPT !.at = "bare"]
<1>1. /\ job' = [job EXCEPT ![p] = j] /\ UNCHANGED <<lists, receipt, recorded>> /\ Holders(b) = {}
      /\ baskets' = baskets \ {b} /\ basketTrip' = [basketTrip EXCEPT ![b] = None]
      /\ list' = [l \in ListId |-> IF list[l].basket = b THEN [list[l] EXCEPT !.basket = None] ELSE list[l]]
  BY DEF deleteBasket, Finish, Go
<1>2. j \in Job /\ j.at # "inserted"
  <2>1. job[p] \in JobRow
    BY JobFields DEF IInv, Job
  <2>2. [job[p] EXCEPT !.at = "bare"] \in Job /\ [job[p] EXCEPT !.at = "bare"].at # "inserted"
    <3> DEFINE k == [job[p] EXCEPT !.at = "bare"]
    <3>1. k \in JobRow /\ k.at = "bare"
      BY <2>1 DEF JobRow, Points
    <3> HIDE DEF k
    <3> QED BY <3>1 DEF Job, k
  <2> QED BY <2>2, IdleIsAJob
<1> HIDE DEF j, b
<1>3. basketTrip' \in [Basket -> TripId \cup {None}]
      /\ \A c \in Basket \ {b} : basketTrip'[c] = basketTrip[c]
  BY <1>1 DEF IInv, Typed
<1>4. \A l \in ListId : /\ list'[l].trip = list[l].trip /\ list'[l] \in List
                        /\ list'[l].basket # None => list'[l].basket # b /\ list'[l].basket = list[l].basket
  <2> TAKE l \in ListId
  <2>1. list[l] \in List
    BY DEF IInv, Typed
  <2>2. CASE list[l].basket = b
    <3>1. list'[l] = [list[l] EXCEPT !.basket = None]
      BY <1>1, <2>2
    <3> QED BY <2>1, <3>1 DEF List
  <2>3. CASE list[l].basket # b
    <3>1. list'[l] = list[l]
      BY <1>1, <2>3
    <3> QED BY <2>1, <2>3, <3>1
  <2> QED BY <2>2, <2>3
<1>5. job' \in [Proc -> Job] /\ \A q \in Proc : Holds(job[q])'
  <2>1. CASE b \in Basket
    <3>1. \A c \in Basket \ {b} : c \in baskets => c \in baskets'
      BY <1>1
    <3>2. Holders(b) \subseteq {p}
      BY <1>1
    <3> QED BY <1>1, <1>2, <1>3, <2>1, <3>1, <3>2, OthersHold
  <2>2. CASE b \notin Basket
    <3>1. baskets' = baskets /\ basketTrip' = basketTrip
      BY <1>1, <2>2 DEF IInv, Typed
    <3>2. job' \in [Proc -> Job] /\ job'[p] = j /\ \A q \in Proc \ {p} : job'[q] = job[q]
      BY <1>1, <1>2 DEF IInv, Typed
    <3> QED BY <1>2, <3>1, <3>2 DEF IInv, Holds
  <2> QED BY <2>1, <2>2
<1>6. list' \in [ListId -> List]
  BY <1>1, <1>4
<1>7. Typed'
  BY <1>1, <1>3, <1>5, <1>6 DEF IInv, Typed
<1>8. OneTripPerBasket'
  <2> SUFFICES ASSUME NEW k \in lists, list'[k].basket # None
               PROVE  list'[k].trip # None /\ list'[k].trip = basketTrip'[list'[k].basket]
    BY <1>1 DEF OneTripPerBasket
  <2>1. k \in ListId
    BY DEF IInv, Typed
  <2>2. /\ list'[k].basket = list[k].basket /\ list[k].basket # b /\ list'[k].trip = list[k].trip
        /\ list[k].basket # None
    BY <1>4, <2>1
  <2>3. list[k].trip # None /\ list[k].trip = basketTrip[list[k].basket]
    BY <2>2 DEF IInv, OneTripPerBasket
  <2>4. list[k].basket \in Basket \ {b}
    BY <2>1, <2>2, ListFields DEF IInv
  <2> QED BY <1>3, <2>2, <2>3, <2>4
<1> QED BY <1>5, <1>7, <1>8 DEF IInv

-----------------------------------------------------------------------------
(* Requests of one statement, time and the sweep.                            *)

\* lists deleted with their basket,
LEMMA DeleteListsKeeps ==
  ASSUME IInv, NEW gone \in SUBSET ListId, deleteLists(gone), UNCHANGED <<job, recorded>>
  PROVE  IInv'
<1>1. /\ lists' = lists \ gone /\ UNCHANGED <<baskets, basketTrip>>
      /\ list' = [l \in ListId |-> IF l \in gone THEN NoList ELSE list[l]]
      /\ receipt' = [r \in Receipt |-> IF receipt[r].slot \in gone
                                       THEN [receipt[r] EXCEPT !.slot = None] ELSE receipt[r]]
  BY DEF deleteLists
<1>2. receipt' \in [Receipt -> Scan]
  <2> SUFFICES ASSUME NEW r \in Receipt
               PROVE  (IF receipt[r].slot \in gone
                       THEN [receipt[r] EXCEPT !.slot = None] ELSE receipt[r]) \in Scan
    BY <1>1
  <2>1. receipt[r] \in Scan
    BY DEF IInv, Typed
  <2>2. [receipt[r] EXCEPT !.slot = None] \in Scan
    BY <2>1 DEF Scan
  <2> QED BY <2>1, <2>2
<1>3. NoList \in List
  BY DEF NoList, List
<1>4. list' \in [ListId -> List]
  BY <1>1, <1>3 DEF IInv, Typed
<1>5. Typed' /\ \A p \in Proc : Holds(job[p])'
  BY <1>1, <1>2, <1>4 DEF IInv, Typed, Holds
<1>6. OneTripPerBasket'
  <2>1. \A l \in lists' : l \in lists /\ list'[l] = list[l]
    BY <1>1 DEF IInv, Typed
  <2> QED BY <1>1, <2>1 DEF IInv, OneTripPerBasket
<1> QED BY <1>5, <1>6 DEF IInv

\* a list inserted at once,
LEMMA NewListKeeps ==
  ASSUME IInv, NEW s \in Store \cup {None}, NEW t \in TripId \cup {None}, NewList(s, t),
         UNCHANGED <<job, recorded, receipt>>
  PROVE  IInv'
<1> DEFINE row == [basket |-> None, store |-> s, trip |-> t, done |-> FALSE, skipped |-> FALSE]
<1>1. PICK l \in ListId \ lists : lists' = lists \cup {l} /\ list' = [list EXCEPT ![l] = row]
  BY DEF NewList
<1>2. UNCHANGED <<baskets, basketTrip>>
  BY DEF NewList
<1>3. row \in List /\ row.basket = None
  BY DEF List
<1> HIDE DEF row
<1>4. Typed' /\ \A p \in Proc : Holds(job[p])'
  BY <1>1, <1>2, <1>3 DEF IInv, Typed, Holds
<1>5. OneTripPerBasket'
  <2> SUFFICES ASSUME NEW k \in lists', list'[k].basket # None
               PROVE  list'[k].trip # None /\ list'[k].trip = basketTrip'[list'[k].basket]
    BY DEF OneTripPerBasket
  <2>1. k # l
    BY <1>1, <1>3 DEF IInv, Typed
  <2>2. k \in lists /\ list'[k] = list[k]
    BY <1>1, <2>1 DEF IInv, Typed
  <2> QED BY <1>2, <2>2 DEF IInv, OneTripPerBasket
<1> QED BY <1>4, <1>5 DEF IInv

\* The status of a list, or its being skipped.
LEMMA MarkKeeps ==
  ASSUME IInv, NEW l \in lists, NEW row \in List,
         row.basket = list[l].basket, row.trip = list[l].trip, Mark(l, row)
  PROVE  IInv'
<1>1. list' = [list EXCEPT ![l] = row] /\ UNCHANGED <<baskets, basketTrip, lists, receipt, job, recorded>>
  BY DEF Mark, Instantly
<1>2. Typed' /\ \A p \in Proc : Holds(job[p])'
  BY <1>1 DEF IInv, Typed, Holds
<1>3. \A k \in lists : list'[k].basket = list[k].basket /\ list'[k].trip = list[k].trip
  BY <1>1 DEF IInv, Typed
<1>4. OneTripPerBasket'
  BY <1>1, <1>3 DEF IInv, OneTripPerBasket
<1> QED BY <1>2, <1>4 DEF IInv

\* a step that changes nothing,
LEMMA StutterKeeps ==
  ASSUME IInv, UNCHANGED <<plans, receipt, recorded, job>>
  PROVE  IInv'
  BY DEF IInv, Typed, OneTripPerBasket, Holds, plans

\* and the handlers that run at once.
LEMMA AtOnceKeeps == ASSUME IInv, AtOnce PROVE IInv'
<1>1. ASSUME NEW s \in Store, addStandaloneList(s) PROVE IInv'
  <2>1. Fresh \in TripId
    BY <1>1, FreshIsATrip DEF addStandaloneList
  <2>2. NewList(s, Fresh) /\ UNCHANGED <<job, recorded, receipt>>
    BY <1>1 DEF addStandaloneList, Instantly
  <2> QED BY <2>1, <2>2, NewListKeeps
<1>2. ASSUME NEW b \in Basket, removeShoppingListsByBasket(b) PROVE IInv'
  <2> DEFINE gone == {l \in lists : list[l].basket = b}
  <2>1. gone \in SUBSET ListId
    BY DEF IInv, Typed
  <2>2. deleteLists(gone) /\ UNCHANGED <<job, recorded>>
    BY <1>2 DEF removeShoppingListsByBasket, Instantly
  <2> HIDE DEF gone
  <2> QED BY <2>1, <2>2, DeleteListsKeeps
<1>3. ASSUME NEW l \in ListId, duplicateList(l) PROVE IInv'
  <2>1. NewList(list[l].store, None) /\ UNCHANGED <<job, recorded, receipt>>
    BY <1>3 DEF duplicateList, Instantly
  <2>2. list[l].store \in Store \cup {None} /\ None \in TripId \cup {None}
    BY ListFields DEF IInv
  <2> QED BY <2>1, <2>2, NewListKeeps
<1>4. ASSUME NEW l \in ListId, removeShoppingList(l) PROVE IInv'
  <2>1. deleteLists({l}) /\ UNCHANGED <<job, recorded>> /\ {l} \in SUBSET ListId
    BY <1>4 DEF removeShoppingList, Instantly
  <2> QED BY <2>1, DeleteListsKeeps
<1>5. ASSUME NEW l \in ListId, changeShoppingListStatus(l) PROVE IInv'
  <2>1. PICK done \in BOOLEAN : Mark(l, [list[l] EXCEPT !.done = done])
    BY <1>5 DEF changeShoppingListStatus
  <2> DEFINE row == [list[l] EXCEPT !.done = done]
  <2>2. row \in List /\ row.basket = list[l].basket /\ row.trip = list[l].trip
    BY DEF IInv, Typed, List
  <2>3. l \in lists
    BY <1>5 DEF changeShoppingListStatus
  <2> HIDE DEF row
  <2>4. Mark(l, row)
    BY <2>1 DEF row
  <2> QED BY <2>2, <2>3, <2>4, MarkKeeps
<1>6. ASSUME NEW l \in ListId, NEW value \in BOOLEAN, l \in lists,
             Mark(l, [list[l] EXCEPT !.skipped = value])
      PROVE  IInv'
  <2> DEFINE row == [list[l] EXCEPT !.skipped = value]
  <2>1. row \in List /\ row.basket = list[l].basket /\ row.trip = list[l].trip
    BY DEF IInv, Typed, List
  <2> HIDE DEF row
  <2>2. Mark(l, row)
    BY <1>6 DEF row
  <2> QED BY <1>6, <2>1, <2>2, MarkKeeps
<1>7. ASSUME NEW l \in ListId, skipListReceipt(l) \/ unskipListReceipt(l) PROVE IInv'
  BY <1>6, <1>7 DEF skipListReceipt, unskipListReceipt
<1>8. ASSUME NEW t \in TripId, (\E value \in BOOLEAN : setArchived(t, value)) \/ Age(t) PROVE IInv'
  <2>1. UNCHANGED <<plans, receipt, recorded, job>>
    BY <1>8 DEF setArchived, Age, Instantly
  <2> QED BY <2>1, StutterKeeps
<1>9. ASSUME sweepTripAutoArchive PROVE IInv'
  BY <1>9, StutterKeeps DEF sweepTripAutoArchive
<1> QED BY <1>1, <1>2, <1>3, <1>4, <1>5, <1>7, <1>8, <1>9 DEF AtOnce

-----------------------------------------------------------------------------
\* The invariant holds at the start,
LEMMA InvariantInit == Init => IInv
<1> SUFFICES ASSUME Init PROVE IInv
  OBVIOUS
<1>1. PICK h \in Histories :
        /\ baskets = h.baskets /\ basketTrip = h.basketTrip /\ lists = h.lists /\ list = h.list
        /\ receipt = h.receipt /\ recorded = h.recorded /\ job = [p \in Proc |-> Idle]
  BY DEF Init
<1>2. Typed
  BY <1>1, TripsAssumption, IdleIsAJob DEF Typed
<1>3. OneTripPerBasket
  BY <1>1, TripsAssumption DEF OneTripPerBasket
<1>4. \A p \in Proc : Holds(job[p])
  BY <1>1, IdleIsAJob DEF Holds
<1> QED BY <1>2, <1>3, <1>4 DEF IInv

\* and every step keeps it.
LEMMA InvariantNext == IInv /\ [Next]_vars => IInv'
<1> SUFFICES ASSUME IInv, [Next]_vars PROVE IInv'
  OBVIOUS
<1>1. CASE AtOnce
  BY <1>1, AtOnceKeeps
<1>2. ASSUME NEW p \in Proc, Linking(p) PROVE IInv'
  BY <1>2, LinkKeeps, AttachKeeps, DetachKeeps, HideKeeps, UploadKeeps, RelinkReadKeeps,
     EnsureListKeeps, RepointKeeps, CollectKeeps, AttachReceiptKeeps, WriteKeeps, ReactivateKeeps,
     ReadKeeps DEF Linking
<1>3. ASSUME NEW p \in Proc, Planning(p) PROVE IInv'
  BY <1>3, AddBasketKeeps, RemoveBasketKeeps, AddListKeeps, ReadKeeps, TieBasketKeeps, InsertKeeps,
     CommitKeeps, DeadlockKeeps, DeleteBasketKeeps, CollectKeeps DEF Planning
<1>4. ASSUME NEW p \in Proc, ConvertingTrip(p) PROVE IInv'
  BY <1>4, ConvertKeeps, ClaimKeeps, ConvertReadKeeps, RecordReceiptKeeps DEF ConvertingTrip
<1>5. ASSUME NEW p \in Proc, Fail(p) PROVE IInv'
  BY <1>5, DeadlockKeeps
<1>6. CASE UNCHANGED vars
  BY <1>6, StutterKeeps DEF vars
<1> QED BY <1>1, <1>2, <1>3, <1>4, <1>5, <1>6 DEF Next

\* Whatever handlers overlap, fail or wait for each other's locks, all lists of a
\* basket are on the basket's trip (ensureTripForBasket, addShoppingList).
THEOREM BasketsKeepOneTrip == Spec => []OneTripPerBasket
<1>1. IInv => OneTripPerBasket
  BY DEF IInv
<1> QED BY <1>1, InvariantInit, InvariantNext, PTL DEF Spec
-----------------------------------------------------------------------------
(* Slots and trips.  While a receipt is being moved it need not be on the    *)
(* trip of its slot's list; what is known then is what the one handler that  *)
(* moves it has read.                                                        *)

\* Whether a job is about to move a receipt,
Moves(j, r) == j.r = r /\ j.at \in Movers

\* whether a receipt sits in the trip of its list,
Placed(r) ==
  receipt[r].slot # None =>
    /\ list[receipt[r].slot].trip # None
    /\ receipt[r].trip = list[receipt[r].slot].trip

\* and what a job that is moving it has left to write.
OnItsWay(j, r) ==
  IF j.at \in {"relink", "ensure", "repoint"}
  THEN /\ receipt[r].slot \in {None, j.l}
       /\ j.at # "relink" => j.old \in {None, receipt[r].trip}
       /\ j.at = "repoint" => j.t # None /\ (receipt[r].slot # None => list[receipt[r].slot].trip = j.t)
  ELSE Placed(r)

\* Of one receipt: one job at a time moves it, and between jobs it is placed.
Slotted(r) ==
  /\ receipt[r].slot # None => receipt[r].slot \in lists
  /\ r \notin torn => \A p, q \in Proc : Moves(job[p], r) /\ Moves(job[q], r) => p = q
  /\ r \notin torn \cup cut =>
       /\ (\A p \in Proc : ~Moves(job[p], r)) => Placed(r)
       /\ \A p \in Proc : Moves(job[p], r) => OnItsWay(job[p], r)

\* The invariant behind SlotsFollowTrips.
SlotInv == \A r \in Receipt : Slotted(r)

\* What other steps do to a receipt: its slot may be deleted, a trip may be made for
\* it if it has none, and a list without a trip may get one.
Undisturbed(r) ==
  /\ receipt'[r].slot \in {None, receipt[r].slot}
  /\ receipt'[r].slot # None =>
       /\ receipt'[r].slot \in lists'
       /\ list[receipt[r].slot].trip # None =>
            list'[receipt[r].slot].trip = list[receipt[r].slot].trip
  /\ receipt[r].trip # None => receipt'[r].trip = receipt[r].trip
  /\ r \notin torn' => r \notin torn
  /\ r \notin torn' \cup cut' => r \notin torn \cup cut

\* A step that does not disturb a receipt leaves it placed, or on its way.
LEMMA UndisturbedRow ==
  ASSUME NEW r, Undisturbed(r)
  PROVE  /\ Placed(r) => Placed(r)'
         /\ \A j : OnItsWay(j, r) => OnItsWay(j, r)'
<1>1. Placed(r) => Placed(r)'
  BY DEF Undisturbed, Placed
<1>2. ASSUME NEW j, OnItsWay(j, r) PROVE OnItsWay(j, r)'
  BY <1>1, <1>2 DEF Undisturbed, OnItsWay
<1> QED BY <1>1, <1>2

\* And keeps the invariant of it where the jobs that move it stay.
LEMMA UndisturbedKeeps ==
  ASSUME NEW r, Slotted(r), Undisturbed(r),
         \A q \in Proc : Moves(job[q], r) \/ Moves(job'[q], r) => job'[q] = job[q]
  PROVE  Slotted(r)'
<1>1. receipt'[r].slot # None => receipt'[r].slot \in lists'
  BY DEF Undisturbed
<1>2. \A q \in Proc : Moves(job[q], r) <=> Moves(job'[q], r)
  OBVIOUS
<1>3. ASSUME r \notin torn'
      PROVE  \A p, q \in Proc : Moves(job'[p], r) /\ Moves(job'[q], r) => p = q
  BY <1>2, <1>3 DEF Undisturbed, Slotted
<1>4. ASSUME r \notin torn' \cup cut'
      PROVE  /\ (\A p \in Proc : ~Moves(job'[p], r)) => Placed(r)'
             /\ \A p \in Proc : Moves(job'[p], r) => OnItsWay(job[p], r)'
  <2>1. r \notin torn \cup cut
    BY <1>4 DEF Undisturbed
  <2> QED BY <1>2, <2>1, UndisturbedRow DEF Slotted
<1>5. \A p \in Proc : Moves(job'[p], r) => job'[p] = job[p]
  OBVIOUS
<1> QED BY <1>1, <1>3, <1>4, <1>5 DEF Slotted, Moves, OnItsWay

\* A step of the handler that moves r, or of one that moves nothing.
LEMMA MoverKeeps ==
  ASSUME IInv, SlotInv, NEW p \in Proc, NEW j \in Job, job' = [job EXCEPT ![p] = j],
         NEW r, \A s \in Receipt \ {r} : Undisturbed(s),
         job[p].at \in Movers => job[p].r = r,
         j.at \in Movers => j.r = r,
         r \in Receipt =>
           /\ receipt'[r].slot # None => receipt'[r].slot \in lists'
           /\ r \notin torn' => \A q \in Proc \ {p} : ~Moves(job[q], r)
           /\ r \notin torn' \cup cut' => IF Moves(j, r) THEN OnItsWay(j, r)' ELSE Placed(r)'
  PROVE  SlotInv'
<1>1. job'[p] = j /\ \A q \in Proc \ {p} : job'[q] = job[q]
  BY DEF IInv, Typed
<1>2. ASSUME NEW s \in Receipt \ {r} PROVE Slotted(s)'
  <2>1. \A q \in Proc : Moves(job[q], s) \/ Moves(job'[q], s) => job'[q] = job[q]
    BY <1>1 DEF Moves
  <2> QED BY <2>1, UndisturbedKeeps DEF SlotInv
<1>3. ASSUME r \in Receipt PROVE Slotted(r)'
  <2>1. ASSUME r \notin torn'
        PROVE  \A q, k \in Proc : Moves(job'[q], r) /\ Moves(job'[k], r) => q = k
    BY <1>1, <1>3, <2>1
  <2>2. ASSUME r \notin torn' \cup cut'
        PROVE  /\ (\A q \in Proc : ~Moves(job'[q], r)) => Placed(r)'
               /\ \A q \in Proc : Moves(job'[q], r) => q = p /\ OnItsWay(j, r)'
    BY <1>1, <1>3, <2>2
  <2>3. \A q \in Proc : Moves(job'[q], r) /\ q = p /\ OnItsWay(j, r)' => OnItsWay(job[q], r)'
    BY <1>1 DEF OnItsWay, Placed
  <2> QED BY <1>3, <2>1, <2>2, <2>3 DEF Slotted, Moves
<1> QED BY <1>2, <1>3 DEF SlotInv
\* Lists are added, and lists that have a trip keep it.
LEMMA AdditionsDisturbNothing ==
  ASSUME SlotInv, receipt' = receipt, torn' = torn, cut' = cut,
         \A l \in lists : l \in lists' /\ (list[l].trip # None => list'[l].trip = list[l].trip)
  PROVE  \A r \in Receipt : Undisturbed(r)
  BY DEF SlotInv, Slotted, Undisturbed

\* Deleted lists had no receipt, or let it go.
LEMMA DeletionsDisturbNothing ==
  ASSUME IInv, SlotInv, NEW gone, deleteLists(gone), torn' = torn, cut' = cut
  PROVE  \A r \in Receipt : Undisturbed(r)
<1> SUFFICES ASSUME NEW r \in Receipt PROVE Undisturbed(r)
  OBVIOUS
<1>1. /\ lists' = lists \ gone
      /\ list' = [l \in ListId |-> IF l \in gone THEN NoList ELSE list[l]]
      /\ receipt'[r] = IF receipt[r].slot \in gone THEN [receipt[r] EXCEPT !.slot = None]
                       ELSE receipt[r]
  BY DEF deleteLists
<1>2. receipt[r] \in Scan /\ receipt[r].slot \in ListId \cup {None}
  BY RowFields DEF IInv, Typed
<1>3. /\ receipt'[r].trip = receipt[r].trip
      /\ receipt'[r].slot = IF receipt[r].slot \in gone THEN None ELSE receipt[r].slot
  BY <1>1, <1>2 DEF Scan
<1>4. receipt'[r].slot # None => receipt'[r].slot = receipt[r].slot /\ receipt[r].slot \in ListId \ gone
  BY <1>2, <1>3
<1>5. receipt[r].slot # None => receipt[r].slot \in lists
  BY DEF SlotInv, Slotted
<1> QED BY <1>1, <1>3, <1>4, <1>5 DEF Undisturbed

\* A step of a handler that moves no receipt, and a request of one statement.
LEMMA PlainStep ==
  ASSUME IInv, SlotInv, NEW p \in Proc, NEW j, job' = [job EXCEPT ![p] = j],
         job[p].at \notin Movers, j.at \notin Movers, \A r \in Receipt : Undisturbed(r)
  PROVE  SlotInv'
<1>1. job'[p] = j /\ \A q \in Proc \ {p} : job'[q] = job[q]
  BY DEF IInv, Typed
<1>2. \A q \in Proc, r \in Receipt : Moves(job[q], r) \/ Moves(job'[q], r) => job'[q] = job[q]
  BY <1>1 DEF Moves
<1> QED BY <1>2, UndisturbedKeeps DEF SlotInv

\* A step that disturbs no receipt and moves no job keeps the invariant.
LEMMA StillStep ==
  ASSUME SlotInv, job' = job, \A r \in Receipt : Undisturbed(r)
  PROVE  SlotInv'
  BY UndisturbedKeeps DEF SlotInv

\* What a handler is at once it goes on.
LEMMA GoesTo ==
  ASSUME IInv, NEW p \in Proc, NEW point
  PROVE  /\ [job[p] EXCEPT !.at = point].at = point /\ [job[p] EXCEPT !.at = point].r = job[p].r
         /\ \A t : [job[p] EXCEPT !.at = point, !.t = t].at = point
         /\ \A todo : /\ [job[p] EXCEPT !.at = point, !.todo = todo].at = point
                      /\ [job[p] EXCEPT !.todo = todo].at = job[p].at
<1>1. job[p] \in JobRow
  BY DEF IInv, Typed, Job
<1> QED BY <1>1 DEF JobRow

\* The handlers that touch no receipt or list,
LEMMA PlainHandlers ==
  ASSUME IInv, SlotInv, NEW p \in Proc,
         \/ gcChurnTrip(p) \/ deleteEmptyTrip(p) \/ bareTrip(p) \/ mintRead(p) \/ basketRead(p)
         \/ claimTrip(p) \/ convertRead(p) \/ recordFamilyReceipt(p)
         \/ createShoppingList(p) \/ deadlock(p)
         \/ \E t \in TripId : convertTripToFamily(p, t)
         \/ \E b \in Basket : addBasket(p, b) \/ removeBasket(p, b)
         \/ \E b \in Basket, s \in Store : addShoppingList(p, b, s)
  PROVE  SlotInv'
<1>1. /\ receipt' = receipt /\ torn' = torn /\ cut' = cut /\ UNCHANGED <<lists, list>>
  BY DEF gcChurnTrip, deleteEmptyTrip, bareTrip, mintRead, basketRead, claimTrip, convertRead,
     recordFamilyReceipt, createShoppingList, deadlock, convertTripToFamily, addBasket, removeBasket,
     addShoppingList, plans, excuses
<1>2. \A r \in Receipt : Undisturbed(r)
  BY <1>1, AdditionsDisturbNothing
<1>3. ASSUME job[p].at \notin Movers, Finish(p) PROVE SlotInv'
  BY <1>2, <1>3, IdleIsAJob, PlainStep DEF Finish, Go, Movers
<1>4. ASSUME NEW j, j.at \notin Movers, job[p] = Idle \/ job[p].at \notin Movers,
             job' = [job EXCEPT ![p] = j]
      PROVE  SlotInv'
  <2>1. job[p].at \notin Movers
    BY <1>4, IdleIsAJob DEF Movers
  <2> QED BY <1>2, <1>4, <2>1, PlainStep
<1>5. CASE gcChurnTrip(p) \/ bareTrip(p)
  <2>1. job[p].at \notin Movers /\ (Finish(p) \/ Go(p, [job[p] EXCEPT !.at = "deleteTrip"]))
    BY <1>5 DEF gcChurnTrip, bareTrip, At, Movers
  <2>2. [job[p] EXCEPT !.at = "deleteTrip"].at \notin Movers
    BY GoesTo DEF Movers
  <2> QED BY <1>3, <1>4, <2>1, <2>2 DEF Go
<1>6. CASE deleteEmptyTrip(p) \/ deadlock(p)
  BY <1>3, <1>6 DEF deleteEmptyTrip, deadlock, At, Movers
<1>7. CASE mintRead(p) \/ basketRead(p) \/ claimTrip(p)
  <2>1. job[p].at \notin Movers
    BY <1>7 DEF mintRead, basketRead, claimTrip, At, Movers
  <2>2. \/ Finish(p) \/ Go(p, [job[p] EXCEPT !.at = "mint"]) \/ Go(p, [job[p] EXCEPT !.at = "basketMint"])
        \/ Go(p, [job[p] EXCEPT !.at = "convertRead"])
    BY <1>7 DEF mintRead, basketRead, claimTrip
  <2>3. \A point \in {"mint", "basketMint", "convertRead"} : [job[p] EXCEPT !.at = point].at \notin Movers
    BY GoesTo DEF Movers
  <2> QED BY <1>3, <1>4, <2>1, <2>2, <2>3 DEF Go
<1>8. CASE convertRead(p) \/ recordFamilyReceipt(p)
  <2>1. job[p].at \notin Movers
    BY <1>8 DEF convertRead, recordFamilyReceipt, At, Movers
  <2>2. Finish(p) \/ \E todo : \/ Go(p, [job[p] EXCEPT !.at = "record", !.todo = todo])
                               \/ Go(p, [job[p] EXCEPT !.todo = todo])
    BY <1>8 DEF convertRead, recordFamilyReceipt
  <2>3. \A todo : /\ [job[p] EXCEPT !.at = "record", !.todo = todo].at \notin Movers
                  /\ [job[p] EXCEPT !.todo = todo].at \notin Movers
    BY <2>1, GoesTo DEF Movers
  <2> QED BY <1>3, <1>4, <2>1, <2>2, <2>3 DEF Go
<1>9. CASE createShoppingList(p)
  <2>1. /\ job[p].at \notin Movers
        /\ Finish(p) \/ \E t : Go(p, [job[p] EXCEPT !.at = "inserted", !.t = t])
    BY <1>9 DEF createShoppingList, At, Movers
  <2>2. \A t : [job[p] EXCEPT !.at = "inserted", !.t = t].at \notin Movers
    BY GoesTo DEF Movers
  <2> QED BY <1>3, <1>4, <2>1, <2>2 DEF Go
<1>10. ASSUME NEW t \in TripId, convertTripToFamily(p, t) PROVE SlotInv'
  <2>1. job[p] = Idle /\ job' = [job EXCEPT ![p] = [Idle EXCEPT !.at = "claim", !.t = t]]
    BY <1>10 DEF convertTripToFamily, Begin
  <2>2. [Idle EXCEPT !.at = "claim", !.t = t].at \notin Movers
    BY DEF Idle, Movers
  <2> QED BY <1>4, <2>1, <2>2
<1>11. ASSUME NEW b \in Basket, addBasket(p, b) PROVE SlotInv'
  <2>1. job[p] = Idle /\ job' = [job EXCEPT ![p] = [Idle EXCEPT !.at = "basketRead", !.b = b]]
    BY <1>11 DEF addBasket, Begin
  <2>2. [Idle EXCEPT !.at = "basketRead", !.b = b].at \notin Movers
    BY DEF Idle, Movers
  <2> QED BY <1>4, <2>1, <2>2
<1>12. ASSUME NEW b \in Basket, removeBasket(p, b) PROVE SlotInv'
  <2>1. job[p] = Idle /\ \E t : job' = [job EXCEPT ![p] = [Idle EXCEPT !.at = "dropBasket", !.b = b, !.t = t]]
    BY <1>12 DEF removeBasket, Begin
  <2>2. \A t : [Idle EXCEPT !.at = "dropBasket", !.b = b, !.t = t].at \notin Movers
    BY DEF Idle, Movers
  <2> QED BY <1>4, <2>1, <2>2
<1>13. ASSUME NEW b \in Basket, NEW s \in Store, addShoppingList(p, b, s) PROVE SlotInv'
  <2>1. job[p] = Idle /\ job' = [job EXCEPT ![p] = [Idle EXCEPT !.at = "insert", !.b = b, !.s = s]]
    BY <1>13 DEF addShoppingList, Begin
  <2>2. [Idle EXCEPT !.at = "insert", !.b = b, !.s = s].at \notin Movers
    BY DEF Idle, Movers
  <2> QED BY <1>4, <2>1, <2>2
<1> QED BY <1>5, <1>6, <1>7, <1>8, <1>9, <1>10, <1>11, <1>12, <1>13
\* and those that only give a list a trip.
LEMMA PlainWriters ==
  ASSUME IInv, SlotInv, NEW p \in Proc,
         ensureTripForReceipt(p) \/ ensureTripForBasket(p) \/ commitShoppingList(p) \/ deleteBasket(p)
  PROVE  SlotInv'
<1>1. torn' = torn /\ cut' = cut
  BY DEF ensureTripForReceipt, ensureTripForBasket, commitShoppingList, deleteBasket, excuses
<1>2. CASE ensureTripForReceipt(p)
  <2>1. /\ UNCHANGED <<lists, list>> /\ receipt' = Mint(job[p].r)
        /\ Finish(p) /\ job[p].at \notin Movers
    BY <1>2 DEF ensureTripForReceipt, plans, At, Movers
  <2>2. ASSUME NEW r \in Receipt PROVE Undisturbed(r)
    <3>1. receipt'[r].slot = receipt[r].slot /\ (receipt[r].trip # None => receipt'[r].trip = receipt[r].trip)
      BY <2>1 DEF Mint, IInv, Typed, Scan
    <3> QED BY <1>1, <2>1, <3>1 DEF Undisturbed, SlotInv, Slotted
  <2> QED BY <2>1, <2>2, IdleIsAJob, PlainStep DEF Finish, Go, Movers
<1>3. CASE ensureTripForBasket(p)
  <2>1. UNCHANGED <<lists, list, receipt>> /\ Finish(p) /\ job[p].at \notin Movers
    BY <1>3 DEF ensureTripForBasket, At, Movers
  <2> QED BY <1>1, <2>1, AdditionsDisturbNothing, IdleIsAJob, PlainStep DEF Finish, Go, Movers
<1>4. CASE commitShoppingList(p)
  <2>1. receipt' = receipt /\ Finish(p) /\ job[p].at \notin Movers
    BY <1>4 DEF commitShoppingList, At, Movers
  <2>2. \E l \in ListId \ lists : \E row : lists' = lists \cup {l} /\ list' = [list EXCEPT ![l] = row]
    BY <1>4 DEF commitShoppingList
  <2>3. \A l \in lists : l \in lists' /\ list'[l] = list[l]
    BY <2>2 DEF IInv, Typed
  <2> QED BY <1>1, <2>1, <2>3, AdditionsDisturbNothing, IdleIsAJob, PlainStep DEF Finish, Go, Movers
<1>5. CASE deleteBasket(p)
  <2>1. /\ lists' = lists /\ receipt' = receipt /\ job[p].at \notin Movers
        /\ Finish(p) \/ Go(p, [job[p] EXCEPT !.at = "bare"])
        /\ list' = [l \in ListId |-> IF list[l].basket = job[p].b THEN [list[l] EXCEPT !.basket = None]
                                     ELSE list[l]]
    BY <1>5 DEF deleteBasket, At, Movers
  <2>2. \A l \in lists : list'[l].trip = list[l].trip
    BY <2>1 DEF IInv, Typed, List
  <2>3. \A r \in Receipt : Undisturbed(r)
    BY <1>1, <2>1, <2>2, AdditionsDisturbNothing
  <2>4. Idle.at \notin Movers /\ [job[p] EXCEPT !.at = "bare"].at \notin Movers
    BY IdleIsAJob, GoesTo DEF Movers
  <2> QED BY <2>1, <2>3, <2>4, PlainStep DEF Finish, Go
<1> QED BY <1>2, <1>3, <1>4, <1>5

\* A handler sets out to move a receipt that nobody else is moving.
LEMMA MoveBegins ==
  ASSUME IInv, SlotInv, NEW p \in Proc, NEW r \in Receipt, NEW j \in Job,
         job[p] = Idle, job' = [job EXCEPT ![p] = j], j.r = r, j.at \in Movers,
         Overlaps(r), cut' = cut, UNCHANGED <<lists, list>>,
         \A s \in Receipt \ {r} : receipt'[s] = receipt[s],
         receipt'[r].slot # None => receipt'[r].slot \in lists,
         Placed(r) => OnItsWay(j, r)'
  PROVE  SlotInv'
<1>1. /\ torn \subseteq torn' /\ torn' \subseteq torn \cup {r}
      /\ r \notin torn' => \A q \in Proc : ~Moves(job[q], r)
  BY DEF Overlaps, Moves
<1>2. \A s \in Receipt \ {r} : Undisturbed(s)
  BY <1>1 DEF Undisturbed, SlotInv, Slotted
<1>3. r \notin torn' \cup cut' => Placed(r)
  BY <1>1 DEF SlotInv, Slotted
<1>4. job[p].at \notin Movers
  BY IdleIsAJob DEF Movers
<1> QED BY <1>1, <1>2, <1>3, <1>4, MoverKeeps DEF Moves

\* It goes on, or has moved the receipt.
LEMMA MoveGoesOn ==
  ASSUME IInv, SlotInv, NEW p \in Proc, NEW j \in Job, job' = [job EXCEPT ![p] = j],
         NEW r, job[p].r = r, job[p].at \in Movers, j.at \in Movers => j.r = r,
         torn' = torn, cut' = cut, \A s \in Receipt \ {r} : Undisturbed(s),
         r \in Receipt => (receipt'[r].slot # None => receipt'[r].slot \in lists'),
         r \in Receipt /\ OnItsWay(job[p], r) => IF j.at \in Movers THEN OnItsWay(j, r)' ELSE Placed(r)'
  PROVE  SlotInv'
<1>1. r \in Receipt \ torn => \A q \in Proc \ {p} : ~Moves(job[q], r)
  BY DEF SlotInv, Slotted, Moves
<1>2. r \in Receipt \ (torn \cup cut) => OnItsWay(job[p], r)
  BY DEF SlotInv, Slotted, Moves
<1>3. r \in Receipt /\ r \notin torn' \cup cut' => IF Moves(j, r) THEN OnItsWay(j, r)' ELSE Placed(r)'
  BY <1>2 DEF Moves
<1> HIDE DEF Moves, OnItsWay, Placed
<1> QED BY <1>1, <1>3, MoverKeeps

\* An update of one receipt disturbs no other.
LEMMA OneRowChanges ==
  ASSUME SlotInv, NEW r, \A s \in Receipt \ {r} : receipt'[s] = receipt[s],
         torn' = torn, cut' = cut, UNCHANGED <<lists, list>>
  PROVE  \A s \in Receipt \ {r} : Undisturbed(s)
  BY DEF SlotInv, Slotted, Undisturbed
\* The requests that begin a move keep the invariant,
LEMMA Beginnings ==
  ASSUME IInv, SlotInv, NEW p \in Proc, NEW r \in Receipt,
         \/ \E l \in ListId : linkReceiptToShoppingList(p, r, l)
         \/ \E t \in TripId : attachTripReceipt(p, r, t)
         \/ detachTripReceipt(p, r) \/ hideReceiptForUser(p, r)
         \/ \E l \in ListId \cup {None} : createReceiptFromOcr(p, r, l)
  PROVE  SlotInv'
<1>1. job[p] = Idle /\ UNCHANGED <<lists, list>> /\ cut' = cut
  BY DEF linkReceiptToShoppingList, attachTripReceipt, detachTripReceipt, hideReceiptForUser,
     createReceiptFromOcr, Begin, plans
<1>2. receipt[r] \in Scan /\ receipt \in [Receipt -> Scan] /\ (receipt[r].slot # None => receipt[r].slot \in lists)
  BY DEF IInv, Typed, SlotInv, Slotted
<1>3. ASSUME NEW l \in ListId, linkReceiptToShoppingList(p, r, l) PROVE SlotInv'
  <2> DEFINE j == [Idle EXCEPT !.at = "relink", !.r = r, !.l = l]
  <2>1. j \in Job /\ j.r = r /\ j.at = "relink" /\ j.at \in Movers /\ j.l = l
    BY DEF Idle, Job, JobRow, Points, Movers
  <2>2. job' = [job EXCEPT ![p] = j] /\ Overlaps(r) /\ l \in lists /\ receipt' = [receipt EXCEPT ![r].slot = l]
    BY <1>3 DEF linkReceiptToShoppingList, Begin
  <2> HIDE DEF j
  <2>3. receipt'[r].slot = l /\ \A s \in Receipt \ {r} : receipt'[s] = receipt[s]
    BY <1>2, <2>2 DEF Scan
  <2>4. OnItsWay(j, r)'
    BY <2>1, <2>3 DEF OnItsWay
  <2> QED BY <1>1, <2>1, <2>2, <2>3, <2>4, MoveBegins
<1>4. ASSUME NEW j \in Job, j.at \in {"attach", "detach", "hide", "relinkSlot"}, j.r = r,
             job' = [job EXCEPT ![p] = j], Overlaps(r),
             receipt'[r].slot = receipt[r].slot, receipt'[r].trip = receipt[r].trip,
             \A s \in Receipt \ {r} : receipt'[s] = receipt[s]
      PROVE  SlotInv'
  <2>1. j.at \in Movers
    BY <1>4 DEF Movers
  <2>2. Placed(r) => OnItsWay(j, r)'
    BY <1>1, <1>4 DEF Placed, OnItsWay
  <2> QED BY <1>1, <1>2, <1>4, <2>1, <2>2, MoveBegins
<1>5. ASSUME NEW t \in TripId, attachTripReceipt(p, r, t) PROVE SlotInv'
  <2> DEFINE from == receipt[r].trip
             j == [Idle EXCEPT !.at = "attach", !.r = r, !.t = t, !.old = from]
  <2>1. from \in TripId \cup {None}
    BY RowFields DEF IInv
  <2>2. job' = [job EXCEPT ![p] = j] /\ Overlaps(r) /\ receipt' = receipt
    BY <1>5 DEF attachTripReceipt, Begin
  <2> HIDE DEF from
  <2>3. j \in Job /\ j.r = r /\ j.at = "attach"
    BY <2>1 DEF Idle, Job, JobRow, Points
  <2> HIDE DEF j
  <2> QED BY <1>4, <2>2, <2>3
<1>6. CASE detachTripReceipt(p, r)
  <2> DEFINE t == receipt[r].trip
             j == [Idle EXCEPT !.at = "detach", !.r = r, !.t = t]
  <2>1. t \in TripId \cup {None}
    BY RowFields DEF IInv
  <2>2. job' = [job EXCEPT ![p] = j] /\ Overlaps(r) /\ receipt' = receipt
    BY <1>6 DEF detachTripReceipt, Begin
  <2> HIDE DEF t
  <2>3. j \in Job /\ j.r = r /\ j.at = "detach"
    BY <2>1 DEF Idle, Job, JobRow, Points
  <2> HIDE DEF j
  <2> QED BY <1>4, <2>2, <2>3
<1>7. CASE hideReceiptForUser(p, r)
  <2> DEFINE j == [Idle EXCEPT !.at = "hide", !.r = r]
  <2>1. j \in Job /\ j.r = r /\ j.at = "hide"
    BY DEF Idle, Job, JobRow, Points
  <2>2. job' = [job EXCEPT ![p] = j] /\ Overlaps(r) /\ receipt' = receipt
    BY <1>7 DEF hideReceiptForUser, Begin
  <2> HIDE DEF j
  <2> QED BY <1>4, <2>1, <2>2
<1>8. ASSUME NEW l \in ListId \cup {None}, createReceiptFromOcr(p, r, l) PROVE SlotInv'
  <2> DEFINE point == IF l = None THEN "mintRead" ELSE "relinkSlot"
             j == [Idle EXCEPT !.at = point, !.r = r, !.l = l]
  <2>1. /\ receipt'[r].slot = receipt[r].slot /\ receipt'[r].trip = receipt[r].trip
        /\ \A s \in Receipt \ {r} : receipt'[s] = receipt[s]
    BY <1>2, <1>8 DEF createReceiptFromOcr, Scan
  <2>2. job' = [job EXCEPT ![p] = j]
    BY <1>8 DEF createReceiptFromOcr, Begin
  <2>3. point \in {"mintRead", "relinkSlot"}
    OBVIOUS
  <2>4. l = None => point = "mintRead" /\ torn' = torn
    BY <1>8 DEF createReceiptFromOcr
  <2>5. l # None => point = "relinkSlot" /\ Overlaps(r)
    BY <1>8 DEF createReceiptFromOcr
  <2> HIDE DEF point
  <2>6. j \in Job /\ j.r = r /\ j.at = point
    BY <2>3 DEF Idle, Job, JobRow, Points
  <2> HIDE DEF j
  <2>7. CASE l # None
    BY <1>4, <2>1, <2>2, <2>5, <2>6, <2>7
  <2>8. CASE l = None
    <3>1. job[p].at \notin Movers /\ j.at \notin Movers
      BY <1>1, <2>4, <2>6, <2>8, IdleIsAJob DEF Movers
    <3>2. \A s \in Receipt : Undisturbed(s)
      BY <1>1, <2>1, <2>4, <2>8 DEF Undisturbed, SlotInv, Slotted
    <3> QED BY <2>2, <3>1, <3>2, PlainStep
  <2> QED BY <2>7, <2>8
<1> QED BY <1>3, <1>5, <1>6, <1>7, <1>8

\* as do the reads of a relink,
LEMMA RelinkReadSlots == ASSUME IInv, SlotInv, NEW p \in Proc, relinkRead(p) PROVE SlotInv'
<1>1. /\ UNCHANGED <<lists, list>> /\ receipt' = receipt /\ torn' = torn /\ cut' = cut
      /\ job[p].at = "relink" /\ job[p].at \in Movers
  BY DEF relinkRead, plans, excuses, At, Movers
<1>2. job[p].r \in Receipt /\ job[p] \in JobRow
  BY <1>1 DEF IInv, Typed, Job
<1> PICK r \in Receipt : r = job[p].r
  BY <1>2
<1>3. PICK l, t, from :
        /\ r = job[p].r /\ l = job[p].l /\ t = (IF l \in lists THEN list[l].trip ELSE None)
        /\ from = receipt[r].trip
  BY <1>2
<1>4. \A s \in Receipt : Undisturbed(s)
  BY <1>1, AdditionsDisturbNothing
<1>5. receipt[r].slot # None => receipt[r].slot \in lists
  BY DEF SlotInv, Slotted
<1>6. OnItsWay(job[p], r) => receipt[r].slot \in {None, l}
  BY <1>1, <1>3 DEF OnItsWay
<1>7. CASE l \notin lists \/ (t # None /\ t = from)
  <2>1. job' = [job EXCEPT ![p] = Idle] /\ Idle \in Job /\ Idle.at \notin Movers
    BY <1>3, <1>7, IdleIsAJob DEF relinkRead, Finish, Go, Movers
  <2>2. OnItsWay(job[p], r) => Placed(r)'
    BY <1>1, <1>3, <1>5, <1>6, <1>7 DEF Placed
  <2> QED BY <1>1, <1>3, <1>4, <1>5, <2>1, <2>2, MoveGoesOn
<1>8. CASE ~(l \notin lists \/ (t # None /\ t = from))
  <2>1. PICK point \in {"ensure", "repoint"} :
          /\ t = None <=> point = "ensure"
          /\ job' = [job EXCEPT ![p] = [job[p] EXCEPT !.at = point, !.t = t, !.old = from]]
    BY <1>3, <1>8 DEF relinkRead, Go
  <2>2. t \in TripId \cup {None} /\ from \in TripId \cup {None} /\ l \in lists /\ t = list[l].trip
    BY <1>3, <1>8, ListFields, RowFields DEF IInv, Typed
  <2>3. PICK j : j = [job[p] EXCEPT !.at = point, !.t = t, !.old = from]
    OBVIOUS
  <2>4. j \in JobRow /\ j.at = point /\ j.r = r /\ j.l = l /\ j.t = t /\ j.old = from
    BY <1>2, <1>3, <2>1, <2>2, <2>3 DEF JobRow, Points
  <2>5. j \in Job /\ j.at \in Movers
    BY <2>1, <2>4 DEF Job, Movers
  <2>6. OnItsWay(job[p], r) => OnItsWay(j, r)'
    BY <1>1, <1>3, <1>6, <2>1, <2>2, <2>4 DEF OnItsWay
  <2>7. job' = [job EXCEPT ![p] = j]
    BY <2>1, <2>3
  <2> QED BY <1>1, <1>3, <1>4, <1>5, <2>4, <2>5, <2>6, <2>7, MoveGoesOn
<1> QED BY <1>7, <1>8

\* the minting of the list's trip,
LEMMA EnsureSlots == ASSUME IInv, SlotInv, NEW p \in Proc, ensureTripForList(p) PROVE SlotInv'
<1>1. /\ lists' = lists /\ receipt' = receipt
      /\ createTrip(FALSE, FALSE) /\ torn' = torn /\ cut' = cut
      /\ job[p].at = "ensure" /\ job[p].at \in Movers
  BY DEF ensureTripForList, Go, excuses, At, Movers
<1>2. job[p] \in JobRow
  BY DEF IInv, Typed, Job
<1>3. PICK r, l, fresh, t :
        /\ r = job[p].r /\ l = job[p].l /\ fresh = Fresh
        /\ t = (IF l \in lists /\ list[l].trip # None THEN list[l].trip ELSE fresh)
  OBVIOUS
<1>4. fresh \in TripId \ {None}
  BY <1>1, <1>3, FreshIsATrip
<1>5. PICK j : j = [job[p] EXCEPT !.at = "repoint", !.t = t]
  OBVIOUS
<1>6. /\ job' = [job EXCEPT ![p] = j]
      /\ list' = IF l \in lists /\ list[l].trip = None THEN [list EXCEPT ![l].trip = fresh] ELSE list
  <2>1. t = IF l \in lists /\ ~(l \in lists /\ list[l].trip = None) THEN list[l].trip ELSE Fresh
    BY <1>3
  <2> QED BY <1>3, <1>5, <2>1 DEF ensureTripForList, Go
<1>7. l \in lists => l \in ListId /\ list[l] \in List
  BY DEF IInv, Typed
<1>8. \A k \in lists : list[k].trip # None => list'[k].trip = list[k].trip
  BY <1>6, <1>7 DEF IInv, Typed
<1>9. \A s \in Receipt : Undisturbed(s)
  BY <1>1, <1>8, AdditionsDisturbNothing
<1>10. t \in TripId \ {None} /\ (l \in lists => list'[l].trip = t)
  BY <1>3, <1>4, <1>6, <1>7 DEF IInv, Typed, List
<1>11. j \in JobRow /\ j.at = "repoint" /\ j.r = r /\ j.l = l /\ j.t = t /\ j.old = job[p].old
  BY <1>2, <1>3, <1>5, <1>10 DEF JobRow, Points
<1>12. j \in Job /\ j.at \in Movers
  BY <1>11 DEF Job, Movers
<1>13. r \in Receipt => (receipt'[r].slot # None => receipt'[r].slot \in lists')
  BY <1>1 DEF SlotInv, Slotted
<1>14. r \in Receipt /\ OnItsWay(job[p], r) => OnItsWay(j, r)'
  BY <1>1, <1>3, <1>10, <1>11, <1>13 DEF OnItsWay
<1> QED BY <1>1, <1>3, <1>6, <1>9, <1>11, <1>12, <1>13, <1>14, MoveGoesOn

\* A move that ends.
LEMMA MoveEnds ==
  ASSUME IInv, SlotInv, NEW p \in Proc, NEW j \in Job, job' = [job EXCEPT ![p] = j],
         j.at \notin Movers, job[p].at \in Movers, NEW r, r = job[p].r,
         \A s \in Receipt \ {r} : receipt'[s] = receipt[s],
         UNCHANGED <<lists, list>>, torn' = torn, cut' = cut,
         r \in Receipt => receipt'[r].slot \in {None, receipt[r].slot},
         r \in Receipt /\ OnItsWay(job[p], r) => Placed(r)'
  PROVE  SlotInv'
<1>1. \A s \in Receipt \ {r} : Undisturbed(s)
  BY OneRowChanges
<1>2. r \in Receipt => (receipt'[r].slot # None => receipt'[r].slot \in lists')
  BY DEF SlotInv, Slotted
<1> QED BY <1>1, <1>2, MoveGoesOn

\* Whether or not a handler goes on to collect the trip that was left, its move is
\* over.
LEMMA AfterMoveIsOver ==
  ASSUME IInv, NEW p \in Proc, AfterMove(p) \/ Finish(p)
  PROVE  \E j \in Job : job' = [job EXCEPT ![p] = j] /\ j.at \notin Movers
<1>1. CASE Finish(p)
  BY <1>1, IdleIsAJob DEF Finish, Go, Movers
<1>2. CASE AfterMove(p) /\ ~Finish(p)
  <2> DEFINE j == [Idle EXCEPT !.at = "gc", !.t = job[p].old]
  <2>1. j \in Job /\ j.at \notin Movers
    BY JobFields DEF IInv, Idle, Job, JobRow, Points, Movers
  <2>2. job' = [job EXCEPT ![p] = j]
    BY <1>2 DEF AfterMove, Go
  <2> HIDE DEF j
  <2> QED BY <2>1, <2>2
<1> QED BY <1>1, <1>2

\* the updates of the receipt,
LEMMA MovesSlots ==
  ASSUME IInv, SlotInv, NEW p \in Proc,
         repoint(p) \/ attachReceiptToTrip(p) \/ detach(p) \/ userHideReceipt(p)
  PROVE  SlotInv'
<1>1. /\ UNCHANGED <<lists, list>> /\ torn' = torn /\ cut' = cut /\ job[p].at \in Movers
      /\ AfterMove(p) \/ Finish(p)
  BY DEF repoint, attachReceiptToTrip, detach, userHideReceipt, plans, excuses, At, Movers
<1>2. PICK j \in Job : job' = [job EXCEPT ![p] = j] /\ j.at \notin Movers
  BY <1>1, AfterMoveIsOver
<1>3. PICK r, t : r = job[p].r /\ t = job[p].t
  OBVIOUS
<1>4. receipt \in [Receipt -> Scan] /\ (r \in Receipt => receipt[r] \in Scan)
  BY DEF IInv, Typed
<1>5. CASE repoint(p)
  <2>1. receipt' = IF t = job[p].old THEN receipt ELSE [receipt EXCEPT ![r].trip = t]
    BY <1>3, <1>5 DEF repoint
  <2>2. \A s \in Receipt \ {r} : receipt'[s] = receipt[s]
    BY <1>4, <2>1
  <2>3. r \in Receipt => /\ receipt'[r].slot = receipt[r].slot
                         /\ receipt'[r].trip = IF t = job[p].old THEN receipt[r].trip ELSE t
    BY <1>4, <2>1 DEF Scan
  <2>4. r \in Receipt /\ OnItsWay(job[p], r) => Placed(r)'
    BY <1>1, <1>3, <1>5, <2>3 DEF OnItsWay, Placed, repoint, At
  <2> QED BY <1>1, <1>2, <1>3, <2>2, <2>3, <2>4, MoveEnds
<1>6. CASE attachReceiptToTrip(p)
  <2>1. receipt' = [receipt EXCEPT ![r].trip = t, ![r].slot = None]
    BY <1>3, <1>6 DEF attachReceiptToTrip
  <2>2. /\ \A s \in Receipt \ {r} : receipt'[s] = receipt[s]
        /\ r \in Receipt => receipt'[r].slot = None
    BY <1>4, <2>1 DEF Scan
  <2>3. r \in Receipt => Placed(r)'
    BY <2>2 DEF Placed
  <2> QED BY <1>1, <1>2, <1>3, <2>2, <2>3, MoveEnds
<1>7. CASE userHideReceipt(p)
  <2>1. receipt' = [receipt EXCEPT ![r] = [state |-> "hidden", trip |-> None, slot |-> None]]
    BY <1>3, <1>7 DEF userHideReceipt
  <2>2. /\ \A s \in Receipt \ {r} : receipt'[s] = receipt[s]
        /\ r \in Receipt => receipt'[r].slot = None
    BY <1>4, <2>1
  <2>3. r \in Receipt => Placed(r)'
    BY <2>2 DEF Placed
  <2> QED BY <1>1, <1>2, <1>3, <2>2, <2>3, MoveEnds
<1>8. CASE detach(p)
  <2>1. receipt' = IF receipt[r].trip = t THEN [receipt EXCEPT ![r].trip = None, ![r].slot = None]
                   ELSE receipt
    BY <1>3, <1>8 DEF detach
  <2>2. /\ \A s \in Receipt \ {r} : receipt'[s] = receipt[s]
        /\ r \in Receipt => receipt'[r].slot = None \/ receipt'[r] = receipt[r]
    BY <1>4, <2>1 DEF Scan
  <2>3. OnItsWay(job[p], r) => Placed(r)
    BY <1>8 DEF OnItsWay, detach, At
  <2>4. r \in Receipt /\ OnItsWay(job[p], r) => Placed(r)'
    BY <1>1, <2>2, <2>3 DEF Placed
  <2> QED BY <1>1, <1>2, <1>3, <2>2, <2>4, MoveEnds
<1> QED BY <1>5, <1>6, <1>7, <1>8

\* a reactivation,
LEMMA ReactivatedSlots == ASSUME IInv, SlotInv, NEW p \in Proc, relinkReactivatedReceipt(p) PROVE SlotInv'
<1>1. /\ UNCHANGED <<lists, list>> /\ torn' = torn /\ cut' = cut
      /\ job[p].at = "relinkSlot" /\ job[p].at \in Movers
  BY DEF relinkReactivatedReceipt, plans, excuses, At, Movers
<1>2. PICK r, l : r = job[p].r /\ l = job[p].l
  OBVIOUS
<1>3. CASE l \notin lists
  <2>1. job' = [job EXCEPT ![p] = Idle] /\ receipt' = receipt /\ Idle \in Job /\ Idle.at \notin Movers
    BY <1>2, <1>3, IdleIsAJob DEF relinkReactivatedReceipt, Finish, Go, Movers
  <2>2. OnItsWay(job[p], r) => Placed(r)'
    BY <1>1, <2>1 DEF OnItsWay, Placed
  <2> QED BY <1>1, <1>2, <2>1, <2>2, MoveEnds
<1>4. CASE l \in lists
  <2>1. PICK j : j = [job[p] EXCEPT !.at = "relink"]
    OBVIOUS
  <2>2. job' = [job EXCEPT ![p] = j] /\ receipt' = [receipt EXCEPT ![r].slot = l]
    BY <1>2, <1>4, <2>1 DEF relinkReactivatedReceipt, Go
  <2>3. job[p] \in JobRow /\ job[p].r \in Receipt
    BY <1>1 DEF IInv, Typed, Job
  <2>4. j \in JobRow /\ j.at = "relink" /\ j.r = r /\ j.l = l
    BY <1>2, <2>1, <2>3 DEF JobRow, Points
  <2>5. j \in Job /\ j.at \in Movers
    BY <1>2, <2>3, <2>4 DEF Job, Movers
  <2>6. receipt'[r].slot = l /\ \A s \in Receipt \ {r} : receipt'[s] = receipt[s]
    BY <1>2, <2>2, <2>3 DEF IInv, Typed, Scan
  <2>7. OnItsWay(j, r)'
    BY <2>4, <2>6 DEF OnItsWay
  <2>8. \A s \in Receipt \ {r} : Undisturbed(s)
    BY <1>1, <2>6, OneRowChanges
  <2>9. receipt'[r].slot \in lists' /\ job[p].r = r
    BY <1>1, <1>2, <1>4, <2>6
  <2> HIDE DEF OnItsWay
  <2> QED BY <1>1, <2>2, <2>4, <2>5, <2>7, <2>8, <2>9, MoveGoesOn
<1> QED BY <1>3, <1>4

\* A move that is cut short is excused.
LEMMA FailureSlots == ASSUME IInv, SlotInv, NEW p \in Proc, Fail(p) PROVE SlotInv'
<1>1. /\ UNCHANGED <<lists, list>> /\ torn' = torn /\ receipt' = receipt
      /\ job' = [job EXCEPT ![p] = Idle] /\ Idle \in Job /\ Idle.at \notin Movers
      /\ cut' = IF job[p].at \in Movers THEN cut \cup {job[p].r} ELSE cut
  BY IdleIsAJob DEF Fail, plans, Finish, Go, Movers
<1>2. \A s \in Receipt : Undisturbed(s)
  BY <1>1 DEF Undisturbed, SlotInv, Slotted
<1>3. CASE job[p].at \notin Movers
  BY <1>1, <1>2, <1>3, PlainStep
<1>4. CASE job[p].at \in Movers
  <2>1. PICK r : r = job[p].r
    OBVIOUS
  <2>2. r \in cut'
    BY <1>1, <1>4, <2>1
  <2>3. r \in Receipt => /\ receipt'[r].slot # None => receipt'[r].slot \in lists'
                         /\ r \notin torn' => \A q \in Proc \ {p} : ~Moves(job[q], r)
    BY <1>1, <1>4, <2>1 DEF SlotInv, Slotted, Moves
  <2> QED BY <1>1, <1>2, <1>4, <2>1, <2>2, <2>3, MoverKeeps
<1> QED BY <1>3, <1>4

\* and the handlers that run at once.
LEMMA AtOnceSlots == ASSUME IInv, SlotInv, AtOnce PROVE SlotInv'
<1>1. job' = job /\ torn' = torn /\ cut' = cut
  BY DEF AtOnce, addStandaloneList, removeShoppingListsByBasket, duplicateList, removeShoppingList,
     changeShoppingListStatus, skipListReceipt, unskipListReceipt, Mark, setArchived, Age,
     sweepTripAutoArchive, Instantly, excuses
<1>2. CASE \E gone : deleteLists(gone)
  BY <1>1, <1>2, DeletionsDisturbNothing, StillStep
<1>3. CASE receipt' = receipt /\ \A l \in lists : l \in lists' /\ list'[l].trip = list[l].trip
  BY <1>1, <1>3, AdditionsDisturbNothing, StillStep
<1>4. ASSUME NEW l \in lists, NEW row, row.trip = list[l].trip, Mark(l, row) PROVE SlotInv'
  <2>1. receipt' = receipt /\ lists' = lists /\ list' = [list EXCEPT ![l] = row]
    BY <1>4 DEF Mark
  <2> QED BY <1>3, <1>4, <2>1 DEF IInv, Typed
<1>5. ASSUME NEW s, NEW t, NewList(s, t), receipt' = receipt PROVE SlotInv'
  <2>1. \E l \in ListId \ lists : \E row : lists' = lists \cup {l} /\ list' = [list EXCEPT ![l] = row]
    BY <1>5 DEF NewList
  <2> QED BY <1>3, <1>5, <2>1 DEF IInv, Typed
<1>6. ASSUME NEW l \in lists
      PROVE  /\ \A done : [list[l] EXCEPT !.done = done].trip = list[l].trip
             /\ \A skipped : [list[l] EXCEPT !.skipped = skipped].trip = list[l].trip
  BY DEF IInv, Typed, List
<1>7. CASE \E l \in ListId : \/ changeShoppingListStatus(l) \/ skipListReceipt(l) \/ unskipListReceipt(l)
  BY <1>4, <1>6, <1>7 DEF changeShoppingListStatus, skipListReceipt, unskipListReceipt
<1>8. CASE \/ \E s \in Store : addStandaloneList(s)
           \/ \E l \in ListId : duplicateList(l)
  BY <1>5, <1>8 DEF addStandaloneList, duplicateList
<1>9. CASE \/ \E b \in Basket : removeShoppingListsByBasket(b)
           \/ \E l \in ListId : removeShoppingList(l)
  BY <1>2, <1>9 DEF removeShoppingListsByBasket, removeShoppingList
<1>10. CASE \/ \E t \in TripId : (\E value \in BOOLEAN : setArchived(t, value)) \/ Age(t)
            \/ sweepTripAutoArchive
  <2>1. receipt' = receipt /\ UNCHANGED <<lists, list>>
    BY <1>10 DEF setArchived, Age, sweepTripAutoArchive, plans
  <2> QED BY <1>3, <2>1
<1> QED BY <1>7, <1>8, <1>9, <1>10 DEF AtOnce

\* Every step keeps the invariant,
LEMMA SlotsNext == IInv /\ SlotInv /\ [Next]_vars => SlotInv'
<1> SUFFICES ASSUME IInv, SlotInv, [Next]_vars PROVE SlotInv'
  OBVIOUS
<1>1. CASE AtOnce
  BY <1>1, AtOnceSlots
<1>2. ASSUME NEW p \in Proc, Linking(p) PROVE SlotInv'
  BY <1>2, Beginnings, RelinkReadSlots, EnsureSlots, MovesSlots, ReactivatedSlots, PlainHandlers,
     PlainWriters DEF Linking
<1>3. ASSUME NEW p \in Proc, Planning(p) PROVE SlotInv'
  BY <1>3, PlainHandlers, PlainWriters DEF Planning
<1>4. ASSUME NEW p \in Proc, ConvertingTrip(p) PROVE SlotInv'
  BY <1>4, PlainHandlers DEF ConvertingTrip
<1>5. ASSUME NEW p \in Proc, Fail(p) PROVE SlotInv'
  BY <1>5, FailureSlots
<1>6. CASE UNCHANGED vars
  <2>1. UNCHANGED <<lists, list>> /\ receipt' = receipt /\ job' = job /\ torn' = torn /\ cut' = cut
    BY <1>6 DEF vars, plans, excuses
  <2> QED BY <2>1, AdditionsDisturbNothing, StillStep
<1> QED BY <1>1, <1>2, <1>3, <1>4, <1>5, <1>6 DEF Next

\* which holds at the start.
LEMMA SlotsInit == Init => SlotInv
<1> SUFFICES ASSUME Init PROVE SlotInv
  OBVIOUS
<1>1. PICK h \in Histories :
        lists = h.lists /\ list = h.list /\ receipt = h.receipt /\ job = [p \in Proc |-> Idle]
  BY DEF Init
<1>2. \A p \in Proc : \A r : ~Moves(job[p], r)
  BY <1>1, IdleIsAJob DEF Moves, Movers
<1>3. \A r \in Receipt : (receipt[r].slot # None => receipt[r].slot \in lists) /\ Placed(r)
  BY <1>1, TripsAssumption DEF Placed
<1> QED BY <1>2, <1>3 DEF SlotInv, Slotted

\* However the linking of receipts, uploads, hand-made lists, deletions and the
\* trips made in the background interleave: a receipt that fills a slot ends up on
\* the trip of that slot's list, unless two handlers moved it at once or one that
\* moved it was cut short (relinkReceiptToListTrip, ensureTripForReceipt).
THEOREM ReceiptsFollowSlots == Spec => []SlotsFollowTrips
<1>1. SlotInv => SlotsFollowTrips
  BY DEF SlotInv, Slotted, SlotsFollowTrips, Moves, Placed
<1>2. Init => IInv /\ SlotInv
  BY InvariantInit, SlotsInit
<1>3. IInv /\ SlotInv /\ [Next]_vars => (IInv /\ SlotInv)'
  BY InvariantNext, SlotsNext
<1> QED BY <1>1, <1>2, <1>3, PTL DEF Spec
-----------------------------------------------------------------------------
(* Receipts in the ledger.  A receipt that no excuse is known for is not     *)
(* moved while a trip is converted, so that what a conversion has read of it *)
(* is still true when it is recorded, and what a handler has asked before it *)
(* detaches or deletes a receipt is true when it does.                       *)

\* The trips are those minted, and a conversion's trip is one of them.
TripsInv ==
  /\ minted \in Nat /\ trips \subseteq 1 .. minted /\ family \subseteq trips
  /\ \A p \in Proc : job[p].at \in Converting \cup {"detach"} => job[p].t \in 1 .. minted

\* A receipt moved during a conversion is marked as raced.
AloneOrRaced ==
  \A p, q \in Proc : job[p].at \in Movers /\ job[q].at \in Converting => job[p].r \in raced

\* What a conversion, or a handler that moves a receipt, has already
\* established.
BackedJob(j) ==
  /\ j.at = "convertRead" => \A r \in Receipt \ raced : receipt[r].trip = j.t => j.t \in family
  /\ j.at = "record" => \A r \in j.todo \ raced : receipt[r].state = "visible" /\ receipt[r].trip \in family
  /\ j.at = "detach" /\ j.r \in recorded \ raced => j.t \notin family
  /\ j.at = "hide" => j.r \notin recorded \ (moved \cup raced)

\* The invariant behind CountedReceiptsStay.
CountInv == TripsInv /\ AloneOrRaced /\ CountedReceiptsStay /\ \A p \in Proc : BackedJob(job[p])

\* What a step does to a receipt it does not move, and to the trips.
RowKept(r) ==
  /\ receipt[r].state = "visible" => receipt'[r].state = "visible"
  /\ receipt'[r].trip = receipt[r].trip \/ (receipt[r].trip = None /\ receipt'[r].trip = minted + 1)

\* What a step may do to the trips: add some, and leave a receipt's family trip
\* one.
ContainersKept ==
  /\ minted' \in Nat /\ minted <= minted' /\ trips' \subseteq 1 .. minted' /\ family' \subseteq trips'
  /\ \A r \in Receipt \ raced' : receipt[r].trip \in family => receipt[r].trip \in family'

\* An excuse once given stands.
ExcusesKept == raced \subseteq raced' /\ moved \subseteq moved'

\* The ledger and the family's trips grow in conversions only, but for new trips.
ConvertedOnly ==
  \/ recorded' = recorded /\ family' \subseteq family \cup {minted + 1}
  \/ \E q \in Proc : job[q].at \in Converting

\* The jobs of the others stay backed,
LEMMA OthersBacked ==
  ASSUME IInv, CountInv, ContainersKept, ExcusesKept, ConvertedOnly, NEW q \in Proc,
         job[q].at \in Converting => \A r \in Receipt \ raced' : RowKept(r)
  PROVE  \A j : j = job[q] => BackedJob(j)'
<1> SUFFICES ASSUME NEW j, j = job[q] PROVE BackedJob(j)'
  OBVIOUS
<1>1. BackedJob(j) /\ None \notin family /\ (j.at \in Converting \cup {"detach"} => j.t \in 1 .. minted)
      /\ minted \in Nat /\ recorded \subseteq Receipt /\ raced \subseteq raced' /\ moved \subseteq moved'
  BY DEF CountInv, TripsInv, IInv, Typed, ExcusesKept, None
<1>2. ASSUME j.at = "convertRead", NEW r \in Receipt \ raced', receipt'[r].trip = j.t
      PROVE  j.t \in family'
  <2>1. RowKept(r) /\ j.t \in 1 .. minted
    BY <1>1, <1>2 DEF Converting
  <2>2. receipt[r].trip = j.t
    BY <1>1, <1>2, <2>1 DEF RowKept
  <2>3. j.t \in family
    BY <1>1, <1>2, <2>2 DEF BackedJob
  <2> QED BY <1>2, <2>2, <2>3 DEF ContainersKept
<1>3. ASSUME j.at = "record", NEW r \in j.todo \ raced'
      PROVE  receipt'[r].state = "visible" /\ receipt'[r].trip \in family'
  <2>1. r \in Receipt
    BY <1>3, JobFields DEF IInv
  <2>2. RowKept(r)
    BY <1>3, <2>1 DEF Converting
  <2>3. receipt[r].state = "visible" /\ receipt[r].trip \in family
    BY <1>1, <1>3 DEF BackedJob
  <2> QED BY <1>1, <1>3, <2>1, <2>2, <2>3 DEF RowKept, ContainersKept
<1>4. ASSUME j.at \in Movers, j.r \notin raced'
      PROVE  recorded' = recorded /\ family' \subseteq family \cup {minted + 1}
  BY <1>1, <1>4 DEF ConvertedOnly, CountInv, AloneOrRaced
<1>5. j.at = "detach" /\ j.r \in recorded' \ raced' => j.t \notin family'
  BY <1>1, <1>4 DEF BackedJob, Movers
<1>6. j.at = "hide" => j.r \notin recorded' \ (moved' \cup raced')
  BY <1>1, <1>4 DEF BackedJob, Movers
<1> QED BY <1>2, <1>3, <1>5, <1>6 DEF BackedJob

\* and a counted receipt stays where it is.
LEMMA CountedKept ==
  ASSUME CountInv, ContainersKept, ExcusesKept, NEW r \in Receipt, RowKept(r),
         r \in recorded' \ (moved' \cup raced') => r \in recorded
  PROVE  r \in recorded' \ (moved' \cup raced') => receipt'[r].state = "visible" /\ receipt'[r].trip \in family'
<1> SUFFICES ASSUME r \in recorded' \ (moved' \cup raced')
             PROVE  receipt'[r].state = "visible" /\ receipt'[r].trip \in family'
  OBVIOUS
<1>1. r \in recorded \ (moved \cup raced)
  BY DEF ExcusesKept
<1>2. receipt[r].state = "visible" /\ receipt[r].trip \in family /\ None \notin family
  BY <1>1 DEF CountInv, CountedReceiptsStay, TripsInv, None
<1> QED BY <1>2 DEF RowKept, ContainersKept

\* A step of one handler.  It may move the receipt it carries; no other one.
LEMMA CountStep ==
  ASSUME IInv, CountInv, IInv', NEW p \in Proc, NEW j, job' = [job EXCEPT ![p] = j],
         ContainersKept, ExcusesKept, ConvertedOnly,
         j.at \in Converting \cup {"detach"} => j.t \in 1 .. minted',
         j.at \in Movers => \/ job[p].at \in Movers /\ j.r = job[p].r
                            \/ \A q \in Proc : job[q].at \in Converting => j.r \in raced',
         j.at \in Converting => \/ job[p].at \in Converting
                                \/ \A q \in Proc : job[q].at \in Movers => job[q].r \in raced',
         j.at \notin Movers \/ j.at \notin Converting,
         BackedJob(j)',
         NEW r, \A s \in Receipt \ {r} : RowKept(s) /\ (s \in recorded' => s \in recorded),
         r \in Receipt => RowKept(r) \/ (job[p].at \in Movers /\ r = job[p].r),
         r \in recorded' \ (moved' \cup raced') => receipt'[r].state = "visible" /\ receipt'[r].trip \in family'
  PROVE  CountInv'
<1>1. job'[p] = j /\ \A q \in Proc \ {p} : job'[q] = job[q]
  BY DEF IInv, Typed
<1>2. TripsInv'
  BY <1>1 DEF CountInv, TripsInv, ContainersKept
<1>3. AloneOrRaced'
  <2>1. ASSUME NEW q \in Proc, NEW k \in Proc, job'[q].at \in Movers, job'[k].at \in Converting
        PROVE  job'[q].r \in raced'
    <3>1. CASE q = p
      BY <1>1, <2>1, <3>1 DEF CountInv, AloneOrRaced, ExcusesKept
    <3>2. CASE q # p
      BY <1>1, <2>1, <3>2 DEF CountInv, AloneOrRaced, ExcusesKept
    <3> QED BY <3>1, <3>2
  <2> QED BY <2>1 DEF AloneOrRaced
<1>4. \A s \in Receipt : s \in recorded' \ (moved' \cup raced') =>
                           receipt'[s].state = "visible" /\ receipt'[s].trip \in family'
  BY CountedKept
<1>5. CountedReceiptsStay'
  BY <1>4 DEF CountedReceiptsStay, IInv, Typed
<1>6. ASSUME NEW q \in Proc \ {p} PROVE BackedJob(job[q])'
  <2>1. PICK k : k = job[q] /\ k = job'[q]
    BY <1>1
  <2>2. job[q].at \in Converting => \A s \in Receipt \ raced' : RowKept(s)
    BY DEF CountInv, AloneOrRaced, ExcusesKept
  <2>3. BackedJob(k)'
    BY <2>1, <2>2, OthersBacked
  <2> QED BY <2>1, <2>3 DEF BackedJob
<1>7. BackedJob(job[p])'
  BY <1>1 DEF BackedJob
<1> QED BY <1>2, <1>3, <1>5, <1>6, <1>7 DEF CountInv

\* A step that leaves the handlers where they are.
LEMMA CountStill ==
  ASSUME IInv, CountInv, IInv', job' = job, ContainersKept, ExcusesKept, recorded' = recorded,
         family' \subseteq family \cup {minted + 1}, \A s \in Receipt : RowKept(s)
  PROVE  CountInv'
<1>1. TripsInv' /\ AloneOrRaced'
  BY DEF CountInv, TripsInv, AloneOrRaced, ContainersKept, ExcusesKept
<1>2. CountedReceiptsStay'
  BY CountedKept DEF CountedReceiptsStay, IInv, Typed
<1>3. ASSUME NEW q \in Proc PROVE BackedJob(job[q])'
  <2>1. PICK k : k = job[q] /\ k = job'[q]
    OBVIOUS
  <2>2. BackedJob(k)'
    BY <2>1, OthersBacked DEF ConvertedOnly
  <2> QED BY <2>1, <2>2 DEF BackedJob
<1> QED BY <1>1, <1>2, <1>3 DEF CountInv

\* A new trip is the only one that may become a family's.
LEMMA NewContainers ==
  ASSUME CountInv, minted' = Fresh, trips' = trips \cup {Fresh},
         family' \in {family, family \cup {Fresh}}
  PROVE  ContainersKept /\ family' \subseteq family \cup {minted + 1}
  BY DEF Fresh, ContainersKept, CountInv, TripsInv

\* Without a new trip none does.
LEMMA SameContainers ==
  ASSUME CountInv, UNCHANGED <<minted, trips, family>>
  PROVE  ContainersKept /\ family' \subseteq family \cup {minted + 1}
  BY DEF ContainersKept, CountInv, TripsInv
\* A step that does not write to the ledger and loses no receipt, of a handler that
\* neither converts a trip nor is about to detach or delete a receipt.
LEMMA QuietStep ==
  ASSUME IInv, CountInv, IInv', NEW p \in Proc, NEW j, job' = [job EXCEPT ![p] = j],
         ContainersKept, family' \subseteq family \cup {minted + 1}, ExcusesKept, recorded' = recorded,
         \A s \in Receipt : RowKept(s), j.at \notin Converting \cup {"detach", "hide"},
         j.at \in Movers => \/ job[p].at \in Movers /\ j.r = job[p].r
                            \/ \A q \in Proc : job[q].at \in Converting => j.r \in raced'
  PROVE  CountInv'
<1>1. None \in recorded' \ (moved' \cup raced') =>
        receipt'[None].state = "visible" /\ receipt'[None].trip \in family'
  BY TripsAssumption DEF IInv, Typed
<1>2. BackedJob(j)' /\ ConvertedOnly
  BY DEF BackedJob, ConvertedOnly, Converting
<1> QED BY <1>1, <1>2, CountStep

\* What rows and excuses a step leaves alone.
LEMMA SameRows ==
  ASSUME receipt' = receipt
  PROVE  \A s : RowKept(s)
  BY DEF RowKept

\* A job that ends without touching receipts keeps the counts,
LEMMA QuietFinish ==
  ASSUME IInv, CountInv, IInv', NEW p \in Proc, Finish(p),
         ContainersKept, family' \subseteq family \cup {minted + 1}, ExcusesKept, recorded' = recorded,
         \A s \in Receipt : RowKept(s)
  PROVE  CountInv'
  BY IdleIsAJob, QuietStep DEF Finish, Go, Converting, Movers

\* The moves that begin mark the receipts that are being counted.
LEMMA OverlapsMark ==
  ASSUME NEW r, Overlaps(r)
  PROVE  raced \subseteq raced' /\ \A q \in Proc : job[q].at \in Converting => r \in raced'
  BY DEF Overlaps

\* as do the reads,
LEMMA QuietReads ==
  ASSUME IInv, CountInv, IInv', NEW p \in Proc,
         \/ gcChurnTrip(p) \/ bareTrip(p) \/ mintRead(p) \/ basketRead(p) \/ createShoppingList(p)
         \/ deadlock(p) \/ deleteBasket(p) \/ Fail(p) \/ relinkRead(p)
  PROVE  CountInv'
<1>1. /\ UNCHANGED <<minted, trips, family>> /\ recorded' = recorded /\ receipt' = receipt
      /\ ExcusesKept
  BY DEF gcChurnTrip, bareTrip, mintRead, basketRead, createShoppingList, deadlock, deleteBasket, Fail,
     relinkRead, containers, excuses, ExcusesKept
<1>2. /\ ContainersKept /\ family' \subseteq family \cup {minted + 1}
      /\ \A s \in Receipt : RowKept(s)
  BY <1>1, SameContainers, SameRows
<1>3. CASE Finish(p)
  BY <1>1, <1>2, <1>3, QuietFinish
<1>4. ASSUME NEW j, j.at \notin Converting \cup Movers, job' = [job EXCEPT ![p] = j]
      PROVE  CountInv'
  BY <1>1, <1>2, <1>4, QuietStep DEF Movers
<1>5. ASSUME NEW point \in {"deleteTrip", "mint", "basketMint", "bare"}, Go(p, [job[p] EXCEPT !.at = point])
      PROVE  CountInv'
  <2>1. PICK j : j = [job[p] EXCEPT !.at = point]
    OBVIOUS
  <2>2. j.at \notin Converting \cup Movers
    BY <2>1, GoesTo DEF Converting, Movers
  <2> QED BY <1>4, <1>5, <2>1, <2>2 DEF Go
<1>6. CASE gcChurnTrip(p) \/ bareTrip(p) \/ mintRead(p) \/ basketRead(p) \/ deadlock(p) \/ deleteBasket(p)
           \/ Fail(p)
  BY <1>3, <1>5, <1>6 DEF gcChurnTrip, bareTrip, mintRead, basketRead, deadlock, deleteBasket, Fail
<1>7. CASE createShoppingList(p)
  <2>1. Finish(p) \/ \E t : Go(p, [job[p] EXCEPT !.at = "inserted", !.t = t])
    BY <1>7 DEF createShoppingList
  <2>2. \A t : [job[p] EXCEPT !.at = "inserted", !.t = t].at \notin Converting \cup Movers
    BY GoesTo DEF Converting, Movers
  <2> QED BY <1>3, <1>4, <2>1, <2>2 DEF Go
<1>8. CASE relinkRead(p)
  <2>1. \/ Finish(p)
        \/ \E point \in {"ensure", "repoint"} : \E t, old :
             Go(p, [job[p] EXCEPT !.at = point, !.t = t, !.old = old])
    BY <1>8 DEF relinkRead
  <2>2. ASSUME NEW point \in {"ensure", "repoint"}, NEW t, NEW old,
               Go(p, [job[p] EXCEPT !.at = point, !.t = t, !.old = old])
        PROVE  CountInv'
    <3>1. PICK j : j = [job[p] EXCEPT !.at = point, !.t = t, !.old = old]
      OBVIOUS
    <3>2. job[p] \in JobRow /\ job[p].at \in Movers
      BY <1>8 DEF IInv, Typed, Job, relinkRead, At, Movers
    <3>3. j.at = point /\ j.r = job[p].r
      BY <3>1, <3>2 DEF JobRow
    <3>4. j.at \notin Converting \cup {"detach", "hide"}
      BY <3>3 DEF Converting
    <3> QED BY <1>1, <1>2, <2>2, <3>1, <3>2, <3>3, <3>4, QuietStep DEF Go
  <2> QED BY <1>3, <2>1, <2>2
<1> QED BY <1>6, <1>7, <1>8

\* the requests that begin,
LEMMA QuietRequests ==
  ASSUME IInv, CountInv, IInv', NEW p \in Proc,
         \/ \E b \in Basket : addBasket(p, b) \/ removeBasket(p, b)
         \/ \E b \in Basket, s \in Store : addShoppingList(p, b, s)
         \/ \E r \in Receipt, l \in ListId : linkReceiptToShoppingList(p, r, l)
         \/ \E r \in Receipt, t \in TripId : attachTripReceipt(p, r, t)
         \/ \E r \in Receipt, l \in ListId \cup {None} : createReceiptFromOcr(p, r, l)
  PROVE  CountInv'
<1>1. UNCHANGED <<minted, trips, family>> /\ recorded' = recorded /\ moved' = moved
  BY DEF addBasket, removeBasket, addShoppingList, linkReceiptToShoppingList, attachTripReceipt,
     createReceiptFromOcr, containers, excuses
<1>2. ContainersKept /\ family' \subseteq family \cup {minted + 1}
  BY <1>1, SameContainers
<1>3. ASSUME NEW j, job' = [job EXCEPT ![p] = j], j.at \notin Converting \cup {"detach", "hide"},
             \A s \in Receipt : RowKept(s),
             \/ j.at \notin Movers /\ raced' = raced
             \/ Overlaps(j.r)
      PROVE  CountInv'
  <2>1. ExcusesKept
    BY <1>1, <1>3, OverlapsMark DEF ExcusesKept
  <2> QED BY <1>1, <1>2, <1>3, <2>1, OverlapsMark, QuietStep
<1>4. CASE \E b \in Basket : addBasket(p, b) \/ removeBasket(p, b)
  <2>1. receipt' = receipt /\ raced' = raced
    BY <1>4 DEF addBasket, removeBasket, excuses
  <2>2. PICK b, t : \/ job' = [job EXCEPT ![p] = [Idle EXCEPT !.at = "basketRead", !.b = b]]
                    \/ job' = [job EXCEPT ![p] = [Idle EXCEPT !.at = "dropBasket", !.b = b, !.t = t]]
    BY <1>4 DEF addBasket, removeBasket, Begin
  <2>3. PICK j : job' = [job EXCEPT ![p] = j] /\ j.at \in {"basketRead", "dropBasket"}
    <3>1. /\ [Idle EXCEPT !.at = "basketRead", !.b = b].at = "basketRead"
          /\ [Idle EXCEPT !.at = "dropBasket", !.b = b, !.t = t].at = "dropBasket"
      BY DEF Idle
    <3> QED BY <2>2, <3>1
  <2>4. j.at \notin Converting \cup {"detach", "hide"} \cup Movers
    BY <2>3 DEF Converting, Movers
  <2> QED BY <1>3, <2>1, <2>3, <2>4, SameRows
<1>5. ASSUME NEW b \in Basket, NEW s \in Store, addShoppingList(p, b, s) PROVE CountInv'
  <2>1. receipt' = receipt /\ raced' = raced
    BY <1>5 DEF addShoppingList, excuses
  <2>2. PICK j : j = [Idle EXCEPT !.at = "insert", !.b = b, !.s = s]
    OBVIOUS
  <2>3. j.at \notin Converting \cup {"detach", "hide"} \cup Movers
    BY <2>2 DEF Idle, Converting, Movers
  <2> QED BY <1>3, <1>5, <2>1, <2>2, <2>3, SameRows DEF addShoppingList, Begin
<1>6. ASSUME NEW r \in Receipt, NEW l \in ListId, linkReceiptToShoppingList(p, r, l) PROVE CountInv'
  <2>1. PICK j : j = [Idle EXCEPT !.at = "relink", !.r = r, !.l = l]
    OBVIOUS
  <2>2. j.at \notin Converting \cup {"detach", "hide"} /\ j.r = r
    BY <2>1 DEF Idle, Converting
  <2>3. job' = [job EXCEPT ![p] = j] /\ Overlaps(r) /\ receipt' = [receipt EXCEPT ![r].slot = l]
    BY <1>6, <2>1 DEF linkReceiptToShoppingList, Begin
  <2>4. \A s \in Receipt : RowKept(s)
    BY <2>3 DEF RowKept, IInv, Typed, Scan
  <2> QED BY <1>3, <2>2, <2>3, <2>4
<1>7. ASSUME NEW r \in Receipt, NEW t \in TripId, attachTripReceipt(p, r, t) PROVE CountInv'
  <2>1. PICK j, from : j = [Idle EXCEPT !.at = "attach", !.r = r, !.t = t, !.old = from] /\ from = receipt[r].trip
    OBVIOUS
  <2>2. j.at \notin Converting \cup {"detach", "hide"} /\ j.r = r
    BY <2>1 DEF Idle, Converting
  <2>3. job' = [job EXCEPT ![p] = j] /\ Overlaps(r) /\ receipt' = receipt
    BY <1>7, <2>1 DEF attachTripReceipt, Begin
  <2> QED BY <1>3, <2>2, <2>3, SameRows
<1>8. ASSUME NEW r \in Receipt, NEW l \in ListId \cup {None}, createReceiptFromOcr(p, r, l) PROVE CountInv'
  <2>1. PICK point \in {"mintRead", "relinkSlot"} :
          /\ job' = [job EXCEPT ![p] = [Idle EXCEPT !.at = point, !.r = r, !.l = l]]
          /\ IF l = None THEN point = "mintRead" /\ raced' = raced
             ELSE Overlaps(r)
    BY <1>8 DEF createReceiptFromOcr, Begin
  <2>2. PICK j : j = [Idle EXCEPT !.at = point, !.r = r, !.l = l]
    OBVIOUS
  <2>3. j.at = point /\ j.r = r
    BY <2>2 DEF Idle
  <2>4. /\ j.at \notin Converting \cup {"detach", "hide"}
        /\ point = "mintRead" => j.at \notin Movers
    BY <2>1, <2>3 DEF Converting, Movers
  <2>5. receipt' = [receipt EXCEPT ![r].state = "visible"]
    BY <1>8 DEF createReceiptFromOcr
  <2>6. \A s \in Receipt : RowKept(s)
    BY <2>5 DEF RowKept, IInv, Typed, Scan
  <2> QED BY <1>3, <2>1, <2>2, <2>3, <2>4, <2>6
<1> QED BY <1>4, <1>5, <1>6, <1>7, <1>8
\* and the updates that count nothing.
LEMMA QuietWriters ==
  ASSUME IInv, CountInv, IInv', NEW p \in Proc,
         \/ ensureTripForList(p) \/ ensureTripForReceipt(p) \/ ensureTripForBasket(p)
         \/ commitShoppingList(p) \/ deleteEmptyTrip(p) \/ relinkReactivatedReceipt(p)
  PROVE  CountInv'
<1>1. recorded' = recorded
  BY DEF ensureTripForList, ensureTripForReceipt, ensureTripForBasket, commitShoppingList, deleteEmptyTrip,
     relinkReactivatedReceipt
<1>2. CASE ensureTripForList(p)
  <2>1. PICK j, t : /\ j = [job[p] EXCEPT !.at = "repoint", !.t = t]
                    /\ job' = [job EXCEPT ![p] = j]
    BY <1>2 DEF ensureTripForList, Go
  <2>2. job[p] \in JobRow /\ job[p].at \in Movers
    BY <1>2 DEF IInv, Typed, Job, ensureTripForList, At, Movers
  <2>3. j.at = "repoint" /\ j.r = job[p].r
    BY <2>1, <2>2 DEF JobRow
  <2>4. j.at \notin Converting \cup {"detach", "hide"}
    BY <2>3 DEF Converting
  <2>5. /\ minted' = Fresh /\ trips' = trips \cup {Fresh} /\ family' = family
        /\ ExcusesKept /\ receipt' = receipt
    BY <1>2 DEF ensureTripForList, createTrip, excuses, ExcusesKept
  <2>6. ContainersKept /\ family' \subseteq family \cup {minted + 1}
    BY <2>5, NewContainers
  <2> QED BY <1>1, <2>1, <2>2, <2>3, <2>4, <2>5, <2>6, SameRows, QuietStep
<1>3. CASE ensureTripForReceipt(p)
  <2>1. /\ minted' = Fresh /\ trips' = trips \cup {Fresh} /\ family' = family
        /\ Finish(p) /\ ExcusesKept /\ receipt' = Mint(job[p].r)
    BY <1>3 DEF ensureTripForReceipt, createTrip, excuses, ExcusesKept
  <2>2. \A s \in Receipt : RowKept(s)
    BY <2>1 DEF RowKept, Mint, Fresh, IInv, Typed, Scan
  <2> QED BY <1>1, <2>1, <2>2, NewContainers, QuietFinish
<1>4. CASE ensureTripForBasket(p)
  <2>1. /\ minted' = Fresh /\ trips' = trips \cup {Fresh} /\ family' \in {family, family \cup {Fresh}}
        /\ Finish(p) /\ ExcusesKept /\ receipt' = receipt
    BY <1>4 DEF ensureTripForBasket, createTrip, excuses, ExcusesKept
  <2> QED BY <1>1, <2>1, SameRows, NewContainers, QuietFinish
<1>5. CASE commitShoppingList(p)
  <2>1. Finish(p) /\ ExcusesKept /\ receipt' = receipt
    BY <1>5 DEF commitShoppingList, excuses, ExcusesKept
  <2>2. \/ minted' = Fresh /\ trips' = trips \cup {Fresh} /\ family' \in {family, family \cup {Fresh}}
        \/ UNCHANGED <<minted, trips, family>>
    BY <1>5 DEF commitShoppingList, createTrip, containers
  <2>3. ContainersKept /\ family' \subseteq family \cup {minted + 1}
    BY <2>2, NewContainers, SameContainers
  <2> QED BY <1>1, <2>1, <2>3, SameRows, QuietFinish
<1>6. CASE deleteEmptyTrip(p)
  <2>1. PICK t : t = job[p].t
    OBVIOUS
  <2>2. /\ Finish(p) /\ ExcusesKept /\ receipt' = receipt /\ ReceiptsOn(t) \subseteq raced'
        /\ minted' = minted /\ trips' = trips \ {t} /\ family' = family \ {t}
    BY <1>6, <2>1 DEF deleteEmptyTrip, deleteTrip, ExcusesKept
  <2>3. \A r \in Receipt \ raced' : receipt[r].trip \in family => receipt[r].trip \in family'
    BY <2>2 DEF ReceiptsOn
  <2>4. trips \subseteq 1 .. minted /\ family \subseteq trips /\ minted \in Nat
    BY DEF CountInv, TripsInv
  <2>5. trips' \subseteq 1 .. minted' /\ family' \subseteq trips'
    BY <2>2, <2>4
  <2>6. ContainersKept /\ family' \subseteq family \cup {minted + 1}
    BY <2>2, <2>3, <2>4, <2>5 DEF ContainersKept
  <2> QED BY <1>1, <2>2, <2>6, SameRows, QuietFinish
<1>7. CASE relinkReactivatedReceipt(p)
  <2>1. ExcusesKept /\ UNCHANGED <<minted, trips, family>>
    BY <1>7 DEF relinkReactivatedReceipt, excuses, containers, ExcusesKept
  <2>2. ContainersKept /\ family' \subseteq family \cup {minted + 1}
    BY <2>1, SameContainers
  <2>3. CASE Finish(p) /\ receipt' = receipt
    BY <1>1, <2>1, <2>2, <2>3, SameRows, QuietFinish
  <2>4. CASE /\ Go(p, [job[p] EXCEPT !.at = "relink"])
             /\ receipt' = [receipt EXCEPT ![job[p].r].slot = job[p].l]
    <3>1. PICK j : j = [job[p] EXCEPT !.at = "relink"]
      OBVIOUS
    <3>2. j.at = "relink" /\ j.r = job[p].r
      BY <3>1, GoesTo
    <3>3. job[p].at \in Movers
      BY <1>7 DEF relinkReactivatedReceipt, At, Movers
    <3>4. j.at \notin Converting \cup {"detach", "hide"}
      BY <3>2 DEF Converting
    <3>5. \A s \in Receipt : RowKept(s)
      BY <2>4 DEF RowKept, IInv, Typed, Scan
    <3> QED BY <1>1, <2>1, <2>2, <2>4, <3>1, <3>2, <3>3, <3>4, <3>5, QuietStep DEF Go
  <2> QED BY <1>7, <2>3, <2>4 DEF relinkReactivatedReceipt
<1> QED BY <1>2, <1>3, <1>4, <1>5, <1>6, <1>7

\* The answer about detaching or deleting a receipt: it is not counted on the trip
\* it is read to be on, or not counted at all.
LEMMA GatesCount ==
  ASSUME IInv, CountInv, IInv', NEW p \in Proc, NEW r \in Receipt,
         detachTripReceipt(p, r) \/ hideReceiptForUser(p, r)
  PROVE  CountInv'
<1>1. /\ UNCHANGED <<minted, trips, family>> /\ recorded' = recorded /\ moved' = moved
      /\ receipt' = receipt /\ Overlaps(r)
  BY DEF detachTripReceipt, hideReceiptForUser, containers
<1>2. /\ ContainersKept /\ ExcusesKept /\ ConvertedOnly /\ \A s : RowKept(s)
      /\ \A q \in Proc : job[q].at \in Converting => r \in raced'
  BY <1>1, SameContainers, SameRows, OverlapsMark DEF ExcusesKept, ConvertedOnly
<1>3. r \in recorded' \ (moved' \cup raced') => receipt'[r].state = "visible" /\ receipt'[r].trip \in family'
  BY <1>2, CountedKept, <1>1
<1>4. ASSUME NEW j, job' = [job EXCEPT ![p] = j], j.at \notin Converting, j.r = r,
             j.at = "detach" => j.t \in 1 .. minted', BackedJob(j)'
      PROVE  CountInv'
  BY <1>1, <1>2, <1>3, <1>4, CountStep
<1>5. CASE detachTripReceipt(p, r)
  <2>1. PICK j, t : /\ t = receipt[r].trip /\ j = [Idle EXCEPT !.at = "detach", !.r = r, !.t = t]
    OBVIOUS
  <2>2. j.at = "detach" /\ j.r = r /\ j.t = t
    BY <2>1 DEF Idle
  <2>3. job' = [job EXCEPT ![p] = j] /\ t \in trips /\ ~(t \in family /\ r \in recorded)
    BY <1>5, <2>1 DEF detachTripReceipt, Begin
  <2>4. t \in 1 .. minted'
    BY <1>1, <2>3 DEF CountInv, TripsInv
  <2>5. BackedJob(j)' /\ j.at \notin Converting
    BY <1>1, <2>2, <2>3 DEF BackedJob, Converting
  <2> QED BY <1>4, <2>2, <2>3, <2>4, <2>5
<1>6. CASE hideReceiptForUser(p, r)
  <2>1. PICK j : j = [Idle EXCEPT !.at = "hide", !.r = r]
    OBVIOUS
  <2>2. j.at = "hide" /\ j.r = r
    BY <2>1 DEF Idle
  <2>3. job' = [job EXCEPT ![p] = j] /\ ~(receipt[r].trip \in family /\ r \in recorded)
    BY <1>6, <2>1 DEF hideReceiptForUser, Begin, assertReceiptDeletable
  <2>4. r \notin recorded \ (moved \cup raced)
    BY <2>3 DEF CountInv, CountedReceiptsStay
  <2>5. BackedJob(j)' /\ j.at \notin Converting
    BY <1>1, <1>2, <2>2, <2>4 DEF BackedJob, Converting, ExcusesKept
  <2> QED BY <1>4, <2>2, <2>3, <2>5
<1> QED BY <1>5, <1>6

\* A move that ends, as long as the receipt is still on a trip of the family if it
\* is counted and nothing excuses it.
LEMMA MovesCount ==
  ASSUME IInv, CountInv, IInv', NEW p \in Proc,
         repoint(p) \/ attachReceiptToTrip(p) \/ detach(p) \/ userHideReceipt(p)
  PROVE  CountInv'
<1>1. /\ UNCHANGED <<minted, trips, family>> /\ recorded' = recorded /\ raced' = raced
      /\ job[p].at \in Movers /\ (AfterMove(p) \/ Finish(p))
  BY DEF repoint, attachReceiptToTrip, detach, userHideReceipt, containers, excuses, At, Movers
<1>2. PICK j \in Job : job' = [job EXCEPT ![p] = j] /\ j.at \in {"idle", "gc"}
  <2>1. CASE Finish(p)
    BY <2>1, IdleIsAJob DEF Finish, Go
  <2>2. CASE AfterMove(p) /\ ~Finish(p)
    <3>1. PICK j : j = [Idle EXCEPT !.at = "gc", !.t = job[p].old]
      OBVIOUS
    <3>2. j.at = "gc" /\ j \in Job
      BY <3>1, JobFields DEF Idle, IInv, Job, JobRow, Points
    <3>3. job' = [job EXCEPT ![p] = j]
      BY <2>2, <3>1 DEF AfterMove, Go
    <3> QED BY <3>2, <3>3
  <2> QED BY <1>1, <2>1, <2>2
<1>3. j.at \notin Movers \cup Converting \cup {"detach"} /\ BackedJob(j)'
  BY <1>2 DEF Movers, Converting, BackedJob
<1>4. PICK r, t : r = job[p].r /\ t = job[p].t
  OBVIOUS
<1>5. /\ moved \subseteq moved'
      /\ \A s \in Receipt \ {r} : receipt'[s] = receipt[s]
  BY <1>4 DEF repoint, attachReceiptToTrip, detach, userHideReceipt, Leaves, excuses, IInv, Typed
<1>6. receipt \in [Receipt -> Scan] /\ recorded' \subseteq Receipt
  BY DEF IInv, Typed
<1>7. ASSUME r \in recorded' \ (moved' \cup raced')
      PROVE  receipt'[r].state = "visible" /\ receipt'[r].trip \in family'
  <2>1. receipt[r].state = "visible" /\ receipt[r].trip \in family /\ receipt[r] \in Scan
    BY <1>1, <1>5, <1>6, <1>7 DEF CountInv, CountedReceiptsStay
  <2>2. CASE repoint(p) \/ attachReceiptToTrip(p)
    <3>1. \/ receipt' = receipt
          \/ Leaves(r, t) /\ receipt' = [receipt EXCEPT ![r].trip = t]
          \/ Leaves(r, t) /\ receipt' = [receipt EXCEPT ![r].trip = t, ![r].slot = None]
      BY <1>4, <2>2 DEF repoint, attachReceiptToTrip
    <3>2. receipt' # receipt => t \in family
      BY <1>1, <1>7, <3>1 DEF Leaves
    <3>3. receipt' # receipt => receipt'[r].state = receipt[r].state /\ receipt'[r].trip = t
      BY <1>6, <1>7, <2>1, <3>1 DEF Scan
    <3> QED BY <1>1, <2>1, <3>2, <3>3
  <2>3. CASE detach(p)
    <3>1. t \notin family
      BY <1>1, <1>4, <1>7, <2>3 DEF CountInv, BackedJob, detach, At
    <3>2. receipt' = receipt
      BY <1>4, <2>1, <2>3, <3>1 DEF detach
    <3> QED BY <1>1, <2>1, <3>2
  <2>4. CASE userHideReceipt(p)
    BY <1>1, <1>4, <1>5, <1>7, <2>4 DEF CountInv, BackedJob, userHideReceipt, At
  <2> QED BY <2>2, <2>3, <2>4
<1>8. ContainersKept /\ ExcusesKept /\ ConvertedOnly /\ \A s \in Receipt \ {r} : RowKept(s)
  BY <1>1, <1>5, SameContainers DEF ExcusesKept, ConvertedOnly, RowKept
<1> QED BY <1>1, <1>2, <1>3, <1>4, <1>7, <1>8, CountStep
\* A step of a conversion, which moves no receipt.
LEMMA ConversionStep ==
  ASSUME IInv, CountInv, IInv', NEW p \in Proc, NEW j, job' = [job EXCEPT ![p] = j],
         ContainersKept, ExcusesKept, ConvertedOnly, receipt' = receipt,
         j.at \in Converting => \/ job[p].at \in Converting /\ j.t = job[p].t
                                \/ /\ \A q \in Proc : job[q].at \in Movers => job[q].r \in raced'
                                   /\ j.t \in 1 .. minted,
         j.at \notin Movers, BackedJob(j)',
         NEW r, \A s \in Receipt \ {r} : s \in recorded' => s \in recorded,
         r \in recorded' \ (moved' \cup raced') => receipt'[r].state = "visible" /\ receipt'[r].trip \in family'
  PROVE  CountInv'
<1>1. \A s : RowKept(s)
  BY SameRows
<1>2. j.at \in Converting => j.t \in 1 .. minted'
  BY DEF CountInv, TripsInv, ContainersKept
<1>3. j.at # "detach"
  BY DEF Movers
<1> QED BY <1>1, <1>2, <1>3, CountStep

\* What is recorded is a receipt.
LEMMA NoneIsNotCounted ==
  ASSUME IInv
  PROVE  None \notin recorded
  BY TripsAssumption DEF IInv, Typed

\* The steps of a conversion keep the counts,
LEMMA ConversionCounts ==
  ASSUME IInv, CountInv, IInv', NEW p \in Proc,
         \/ \E t \in TripId : convertTripToFamily(p, t)
         \/ claimTrip(p) \/ convertRead(p) \/ recordFamilyReceipt(p)
  PROVE  CountInv'
<1>1. ASSUME NEW t \in TripId, convertTripToFamily(p, t) PROVE CountInv'
  <2>1. PICK j : j = [Idle EXCEPT !.at = "claim", !.t = t]
    OBVIOUS
  <2>2. j.at = "claim" /\ j.t = t
    BY <2>1 DEF Idle
  <2>3. /\ job' = [job EXCEPT ![p] = j] /\ t \in trips
        /\ UNCHANGED <<minted, trips, family>> /\ recorded' = recorded /\ receipt' = receipt
        /\ moved' = moved /\ raced' = raced \cup {job[q].r : q \in {k \in Proc : job[k].at \in Movers}}
    BY <1>1, <2>1 DEF convertTripToFamily, Begin, containers
  <2>4. /\ ExcusesKept /\ ConvertedOnly /\ t \in 1 .. minted
        /\ \A q \in Proc : job[q].at \in Movers => job[q].r \in raced'
    BY <2>3 DEF ExcusesKept, ConvertedOnly, CountInv, TripsInv
  <2>5. j.at \notin Movers /\ BackedJob(j)'
    BY <2>2 DEF Movers, BackedJob
  <2> QED BY <2>2, <2>3, <2>4, <2>5, SameContainers, NoneIsNotCounted, ConversionStep
<1>2. CASE claimTrip(p)
  <2>1. PICK t : t = job[p].t
    OBVIOUS
  <2>2. /\ UNCHANGED <<minted, trips>> /\ recorded' = recorded /\ receipt' = receipt /\ ExcusesKept
        /\ job[p].at = "claim" /\ job[p].at \in Converting
    BY <1>2 DEF claimTrip, excuses, ExcusesKept, At, Converting
  <2>3. CASE t \in trips
    <3>1. PICK j : j = [job[p] EXCEPT !.at = "convertRead"]
      OBVIOUS
    <3>2. job[p] \in JobRow
      BY DEF IInv, Typed, Job
    <3>3. j.at = "convertRead" /\ j.t = t
      BY <2>1, <3>1, <3>2 DEF JobRow
    <3>4. job' = [job EXCEPT ![p] = j] /\ family' = family \cup {t}
      BY <1>2, <2>1, <2>3, <3>1 DEF claimTrip, Go
    <3>5. ContainersKept /\ ConvertedOnly
      BY <2>2, <2>3, <3>4 DEF ContainersKept, ConvertedOnly, CountInv, TripsInv
    <3>6. j.at \notin Movers /\ BackedJob(j)'
      BY <3>3, <3>4 DEF Movers, BackedJob
    <3> QED BY <2>1, <2>2, <3>3, <3>4, <3>5, <3>6, NoneIsNotCounted, ConversionStep
  <2>4. CASE t \notin trips
    <3>1. Finish(p) /\ family' = family
      BY <1>2, <2>1, <2>4 DEF claimTrip
    <3> QED BY <2>2, <3>1, SameContainers, SameRows, QuietFinish
  <2> QED BY <2>3, <2>4
<1>3. CASE convertRead(p)
  <2>1. /\ UNCHANGED <<minted, trips, family>> /\ recorded' = recorded /\ receipt' = receipt
        /\ ExcusesKept /\ ConvertedOnly /\ raced' = raced
        /\ job[p].at = "convertRead" /\ job[p].at \in Converting
    BY <1>3 DEF convertRead, containers, excuses, ExcusesKept, ConvertedOnly, At, Converting
  <2>2. ContainersKept
    BY <2>1, SameContainers
  <2>3. PICK todo, t : todo = ToRecord(t) /\ t = job[p].t
    OBVIOUS
  <2>4. CASE Finish(p)
    BY <2>1, <2>4, SameContainers, SameRows, QuietFinish
  <2>5. CASE Go(p, [job[p] EXCEPT !.at = "record", !.todo = todo])
    <3>1. PICK j : j = [job[p] EXCEPT !.at = "record", !.todo = todo]
      OBVIOUS
    <3>2. job[p] \in JobRow
      BY DEF IInv, Typed, Job
    <3>3. j.at = "record" /\ j.t = job[p].t /\ j.todo = todo
      BY <3>1, <3>2 DEF JobRow
    <3>4. ASSUME NEW r \in todo \ raced PROVE receipt[r].state = "visible" /\ receipt[r].trip \in family
      <4>1. r \in Receipt /\ receipt[r].trip = t /\ receipt[r].state = "visible"
        BY <2>3 DEF ToRecord, ReceiptsOn
      <4>2. t \in family
        BY <2>1, <2>3, <3>4, <4>1 DEF CountInv, BackedJob
      <4> QED BY <4>1, <4>2
    <3>5. j.at \notin Movers /\ BackedJob(j)'
      BY <2>1, <3>3, <3>4 DEF Movers, BackedJob
    <3> QED BY <2>1, <2>2, <2>5, <3>1, <3>3, <3>5, NoneIsNotCounted, ConversionStep DEF Go
  <2> QED BY <1>3, <2>3, <2>4, <2>5 DEF convertRead
<1>4. CASE recordFamilyReceipt(p)
  <2>1. /\ UNCHANGED <<minted, trips, family>> /\ receipt' = receipt
        /\ ExcusesKept /\ ConvertedOnly /\ raced' = raced
        /\ job[p].at = "record" /\ job[p].at \in Converting
    BY <1>4 DEF recordFamilyReceipt, containers, excuses, ExcusesKept, ConvertedOnly, At, Converting
  <2>2. ContainersKept
    BY <2>1, SameContainers
  <2> PICK r \in job[p].todo :
        /\ recorded' = recorded \cup {r}
        /\ Finish(p) \/ Go(p, [job[p] EXCEPT !.todo = job[p].todo \ {r}])
    BY <1>4 DEF recordFamilyReceipt
  <2>3. PICK todo : /\ recorded' = recorded \cup {r} /\ todo = job[p].todo \ {r}
                    /\ Finish(p) \/ Go(p, [job[p] EXCEPT !.todo = todo])
    OBVIOUS
  <2>4. r \in recorded' \ (moved' \cup raced') => receipt'[r].state = "visible" /\ receipt'[r].trip \in family'
    BY <2>1 DEF CountInv, BackedJob
  <2>5. ASSUME NEW j, job' = [job EXCEPT ![p] = j], j.at \notin Movers, BackedJob(j)',
               j.at \in Converting => j.t = job[p].t
        PROVE  CountInv'
    BY <2>1, <2>2, <2>3, <2>4, <2>5, ConversionStep
  <2>6. CASE Finish(p)
    <3>1. PICK j : j = Idle /\ j.at = "idle"
      BY IdleIsAJob
    <3>2. j.at \notin Movers \cup Converting /\ BackedJob(j)'
      BY <3>1 DEF Movers, Converting, BackedJob
    <3> QED BY <2>5, <2>6, <3>1, <3>2 DEF Finish, Go
  <2>7. CASE Go(p, [job[p] EXCEPT !.todo = todo])
    <3>1. PICK j : j = [job[p] EXCEPT !.todo = todo]
      OBVIOUS
    <3>2. job[p] \in JobRow
      BY DEF IInv, Typed, Job
    <3>3. j.at = "record" /\ j.t = job[p].t /\ j.todo = todo
      BY <2>1, <3>1, <3>2 DEF JobRow
    <3>4. \A s \in todo \ raced : receipt[s].state = "visible" /\ receipt[s].trip \in family
      BY <2>1, <2>3 DEF CountInv, BackedJob
    <3>5. j.at \notin Movers /\ BackedJob(j)'
      BY <2>1, <3>3, <3>4 DEF Movers, BackedJob
    <3> QED BY <2>5, <2>7, <3>1, <3>3, <3>5 DEF Go
  <2> QED BY <2>3, <2>6, <2>7
<1> QED BY <1>1, <1>2, <1>3, <1>4

\* as do the handlers that run at once.
LEMMA AtOnceCounts == ASSUME IInv, CountInv, IInv', AtOnce PROVE CountInv'
<1>1. job' = job /\ ExcusesKept /\ recorded' = recorded
  BY DEF AtOnce, addStandaloneList, removeShoppingListsByBasket, duplicateList, removeShoppingList,
     changeShoppingListStatus, skipListReceipt, unskipListReceipt, Mark, setArchived, Age,
     sweepTripAutoArchive, Instantly, excuses, ExcusesKept
<1>2. CASE UNCHANGED <<minted, trips, family>> /\ \A s \in Receipt : RowKept(s)
  BY <1>1, <1>2, SameContainers, CountStill
<1>3. CASE \E s \in Store : addStandaloneList(s)
  <2>1. /\ minted' = Fresh /\ trips' = trips \cup {Fresh} /\ family' = family /\ receipt' = receipt
    BY <1>3 DEF addStandaloneList, createTrip
  <2> QED BY <1>1, <2>1, NewContainers, SameRows, CountStill
<1>4. CASE \/ \E b \in Basket : removeShoppingListsByBasket(b)
           \/ \E l \in ListId : removeShoppingList(l)
  <2>1. UNCHANGED <<minted, trips, family>> /\ \E gone : deleteLists(gone)
    BY <1>4 DEF removeShoppingListsByBasket, removeShoppingList, containers
  <2>2. \A s \in Receipt : RowKept(s)
    BY <2>1 DEF deleteLists, RowKept, IInv, Typed, Scan
  <2> QED BY <1>2, <2>1, <2>2
<1>5. CASE \/ \E l \in ListId : \/ duplicateList(l) \/ changeShoppingListStatus(l)
                                \/ skipListReceipt(l) \/ unskipListReceipt(l)
           \/ \E t \in TripId : (\E value \in BOOLEAN : setArchived(t, value)) \/ Age(t)
           \/ sweepTripAutoArchive
  <2>1. UNCHANGED <<minted, trips, family>> /\ receipt' = receipt
    BY <1>5 DEF duplicateList, changeShoppingListStatus, skipListReceipt, unskipListReceipt, Mark,
       setArchived, Age, sweepTripAutoArchive, containers
  <2> QED BY <1>2, <2>1, SameRows
<1> QED BY <1>3, <1>4, <1>5 DEF AtOnce

\* Every step keeps the counts,
LEMMA CountNext == IInv /\ CountInv /\ [Next]_vars => CountInv'
<1> SUFFICES ASSUME IInv, CountInv, [Next]_vars PROVE CountInv'
  OBVIOUS
<1>1. IInv'
  BY InvariantNext
<1>2. CASE AtOnce
  BY <1>1, <1>2, AtOnceCounts
<1>3. ASSUME NEW p \in Proc, Linking(p) PROVE CountInv'
  BY <1>1, <1>3, QuietRequests, GatesCount, QuietReads, QuietWriters, MovesCount DEF Linking
<1>4. ASSUME NEW p \in Proc, Planning(p) PROVE CountInv'
  BY <1>1, <1>4, QuietRequests, QuietReads, QuietWriters DEF Planning
<1>5. ASSUME NEW p \in Proc, ConvertingTrip(p) PROVE CountInv'
  BY <1>1, <1>5, ConversionCounts DEF ConvertingTrip
<1>6. ASSUME NEW p \in Proc, Fail(p) PROVE CountInv'
  BY <1>1, <1>6, QuietReads
<1>7. CASE UNCHANGED vars
  <2>1. /\ UNCHANGED <<minted, trips, family>> /\ receipt' = receipt /\ job' = job
        /\ recorded' = recorded /\ ExcusesKept
    BY <1>7 DEF vars, containers, excuses, ExcusesKept
  <2> QED BY <1>1, <2>1, SameContainers, SameRows, CountStill
<1> QED BY <1>2, <1>3, <1>4, <1>5, <1>6, <1>7 DEF Next

\* which hold at the start.
LEMMA CountInit == Init => CountInv
<1> SUFFICES ASSUME Init PROVE CountInv
  OBVIOUS
<1>1. PICK h \in Histories :
        /\ minted = h.minted /\ trips = h.trips /\ family = h.family /\ receipt = h.receipt
        /\ recorded = h.recorded /\ job = [p \in Proc |-> Idle]
  BY DEF Init
<1>2. \A p \in Proc : job[p].at = "idle"
  BY <1>1, IdleIsAJob
<1>3. TripsInv /\ CountedReceiptsStay
  BY <1>1, <1>2, TripsAssumption DEF TripsInv, CountedReceiptsStay, Converting
<1>4. AloneOrRaced /\ \A p \in Proc : BackedJob(job[p])
  BY <1>2 DEF AloneOrRaced, BackedJob, Movers
<1> QED BY <1>3, <1>4 DEF CountInv

\* A receipt counted in the ledger stays visible on a trip of the family, however
\* conversions, deletions, detachments, uploads and failures interleave: only a
\* move to another trip, or one that overlaps a conversion, takes it off
\* (detachTripReceipt, assertReceiptDeletable, convertTripToFamily).
THEOREM CountedReceiptsAreKept == Spec => []CountedReceiptsStay
<1>1. CountInv => CountedReceiptsStay
  BY DEF CountInv
<1>2. Init => IInv /\ CountInv
  BY InvariantInit, CountInit
<1>3. IInv /\ CountInv /\ [Next]_vars => (IInv /\ CountInv)'
  BY InvariantNext, CountNext
<1> QED BY <1>1, <1>2, <1>3, PTL DEF Spec

-----------------------------------------------------------------------------
\* The sweep archives a finished trip only where a slot was closed by something it
\* does not look at (sweepTripAutoArchive, deriveTripStage).
THEOREM SweepsSpareFinishedTrips == Spec => FinishedTripsStay
<1>1. ASSUME sweepTripAutoArchive, NEW t \in (archived' \ archived) \ adHoc, Finished(t)
      PROVE  \E l \in ListsOf(t) :
               \/ ItemsCovered(l)
               \/ \E r \in Receipt : /\ receipt[r].slot = l
                                     /\ StoreOf[r] # list[l].store \/ receipt[r].trip # t
  <2>1. t \in Forming \/ t \in PlannedOpen
    BY <1>1 DEF sweepTripAutoArchive, Lingering
  <2>2. ListsOf(t) # {} /\ \A l \in ListsOf(t) : slotClosed(l)
    BY <1>1 DEF Finished
  <2>3. PICK l \in ListsOf(t) : OpenForSweep(l)
    BY <2>1, <2>2 DEF Forming, PlannedOpen
  <2>4. list[l].trip = t /\ ~list[l].skipped
    BY <2>3 DEF ListsOf, OpenForSweep
  <2>5. CASE ItemsCovered(l)
    BY <2>5
  <2>6. CASE SlotHasReceipt(l)
    <3>1. PICK r \in Receipt : receipt[r].slot = l
      BY <2>6 DEF SlotHasReceipt
    <3>2. receipt[r].trip = t => StoreOf[r] # list[l].store
      BY <2>3, <2>4 DEF OpenForSweep, ReceiptsOn
    <3> QED BY <3>1, <3>2
  <2> QED BY <2>2, <2>4, <2>5, <2>6 DEF slotClosed
<1>2. [Next]_vars =>
        [sweepTripAutoArchive =>
           \A t \in (archived' \ archived) \ adHoc : Finished(t) =>
             \E l \in ListsOf(t) :
               \/ ItemsCovered(l)
               \/ \E r \in Receipt : /\ receipt[r].slot = l
                                     /\ StoreOf[r] # list[l].store \/ receipt[r].trip # t]_vars
  BY <1>1
<1> QED BY <1>2, PTL DEF Spec, FinishedTripsStay
=============================================================================
