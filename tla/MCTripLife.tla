----------------------------- MODULE MCTripLife -----------------------------
(* Two baskets, one of them the household's, two stores and two receipts.   *)

EXTENDS TripLife, TLC

Stores == <<1, 2>>
Items == <<{1}, {1, 2}>>

Row(b, s, t, done) == [basket |-> b, store |-> s, trip |-> t, done |-> done, skipped |-> FALSE]
Off == [state |-> "none", trip |-> None, slot |-> None]
On(t, l) == [state |-> "visible", trip |-> t, slot |-> l]
Blank == [l \in ListId |-> NoList]

\* Nothing yet but the household's basket, which has no trip.
Start == [requests |-> 0, recorded |-> {}, minted |-> 0, trips |-> {}, adHoc |-> {}, family |-> {}, baskets |-> {2},
          basketTrip |-> <<None, None>>, lists |-> {}, list |-> Blank, receipt |-> <<Off, Off>>]

\* A split basket and a receipt that came in bare.
Split == [requests |-> 1, recorded |-> {}, minted |-> 2, trips |-> {1, 2}, adHoc |-> {2}, family |-> {}, baskets |-> {1},
          basketTrip |-> <<1, None>>, lists |-> {1, 2},
          list |-> [Blank EXCEPT ![1] = Row(1, 1, 1, FALSE), ![2] = Row(1, 2, 1, TRUE)],
          receipt |-> <<On(2, None), Off>>]

\* Everything bought, one receipt handed in against its list and one bare.
Shopped == [requests |-> 1, recorded |-> {}, minted |-> 2, trips |-> {1, 2}, adHoc |-> {2}, family |-> {}, baskets |-> {1},
            basketTrip |-> <<1, None>>, lists |-> {1, 2},
            list |-> [Blank EXCEPT ![1] = Row(1, 1, 1, TRUE), ![2] = Row(1, 2, 1, TRUE)],
            receipt |-> <<On(1, 1), On(2, None)>>]

\* A duplicated list, which has no trip, and two receipts.
Copied == [requests |-> 1, recorded |-> {}, minted |-> 2, trips |-> {1, 2}, adHoc |-> {1, 2}, family |-> {}, baskets |-> {},
           basketTrip |-> <<None, None>>, lists |-> {1},
           list |-> [Blank EXCEPT ![1] = Row(None, 1, None, TRUE)],
           receipt |-> <<On(1, None), On(2, None)>>]

\* The family's trip: one receipt counted, another one still on its own trip.
Counting == [Shopped EXCEPT !.family = {1}, !.recorded = {1},
                            !.list = [@ EXCEPT ![2] = Row(1, 2, 1, FALSE)]]

Begun == {Start, Split, Shopped, Copied, Counting}
Workers == Permutations(Proc)
=============================================================================
