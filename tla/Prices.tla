------------------------------- MODULE Prices -------------------------------
(* The prices of one store product in the shops of one chain: a receipt      *)
(* writes the price of its own shop and carries it to the others, as a       *)
(* fallback, after it was answered.                                          *)

EXTENDS Integers, Sequences, SequencesExt, FiniteSets

CONSTANTS Shop, Amount, Saver, MaxDay, MaxSaves

ASSUME PricesAssumption == IsFiniteSet(Shop) /\ MaxDay \in Nat /\ MaxSaves \in Nat

Day == 1 .. MaxDay
PriceRow == [shop: Shop, day: Day, amount: Amount, fallback: BOOLEAN]

VARIABLES
  price,       \* the Price rows, by their id; UNIQUE (shop, day)
  saver,       \* what each save is at, with its receipt and what it will write
  saves,
  told,        \* the newest price carried to each shop
  contested    \* shops written by one save while another was about to

priceVars == <<price, saver, saves, told, contested>>

Saved == [at |-> "saved", shop |-> 0, day |-> 0, amount |-> 0, update |-> {}, insert |-> {}]

PricesInit ==
  /\ price = <<>> /\ saver = [w \in Saver |-> Saved] /\ saves = 0
  /\ told = [s \in Shop |-> [day |-> 0, amount |-> 0]] /\ contested = {}

RowsOf(s) == {i \in DOMAIN price : price[i].shop = s}
On(s, d) == {i \in RowsOf(s) : price[i].day = d}

\* Shops that a save under way will write.
Targets(w) == saver[w].insert \cup {price[i].shop : i \in saver[w].update}
Writing(w, shops) ==
  contested' = contested \cup {s \in shops : \E v \in Saver \ {w} : s \in Targets(v)}

\* INSERT .. ON DUPLICATE KEY UPDATE, of one price in several shops.
Upsert(shops, d, a, fallback) ==
  LET here == UNION {On(s, d) : s \in shops}
      new == SetToSeq({s \in shops : On(s, d) = {}})
  IN  [i \in DOMAIN price |-> IF i \in here THEN [price[i] EXCEPT !.amount = a, !.fallback = fallback]
                                            ELSE price[i]]
      \o [k \in DOMAIN new |-> [shop |-> new[k], day |-> d, amount |-> a, fallback |-> fallback]]

\* persistReceiptPrices: createPrice, and if the line is verified the other shops.
persistReceiptPrices(w, s, d, a) ==
  /\ saver[w] = Saved /\ saves < MaxSaves /\ saves' = saves + 1
  /\ price' = Upsert({s}, d, a, FALSE) /\ Writing(w, {s})
  /\ \/ saver' = [saver EXCEPT ![w] = [Saved EXCEPT !.at = "read", !.shop = s, !.day = d, !.amount = a]]
     \/ UNCHANGED saver
  /\ UNCHANGED told

\* The row a shop is judged by: the one of that day, else its newest.
Existing(s, d) ==
  IF On(s, d) # {} THEN On(s, d)
  ELSE {i \in RowsOf(s) : \A j \in RowsOf(s) : price[j].day <= price[i].day}

\* Fault: an older receipt overwrites a newer fallback.
AnyFallback(i, d) == price[i].fallback
Stale(i, d) == price[i].fallback /\ price[i].day <= d

\* propagateAllFallbackPrices: the rows are read and classified.
propagateAllFallbackPrices(w) ==
  LET others == Shop \ {saver[w].shop}  d == saver[w].day
  IN  /\ saver[w].at = "read"
      /\ saver' = [saver EXCEPT ![w].at = "update",
                     ![w].insert = {s \in others : RowsOf(s) = {}},
                     ![w].update = {i \in UNION {Existing(s, d) : s \in others} : Stale(i, d)}]
      /\ UNCHANGED <<price, saves, told, contested>>

Told(shops, w) ==
  told' = [s \in Shop |-> IF s \in shops /\ saver[w].day >= told[s].day
                          THEN [day |-> saver[w].day, amount |-> saver[w].amount] ELSE told[s]]

\* The fallbacks are moved to the day, by their ids: a row that came to be there
\* meanwhile is in the way and ends the propagation.
updateFallbacks(w) ==
  LET rows == saver[w].update  d == saver[w].day  shops == {price[i].shop : i \in rows}
  IN  /\ saver[w].at = "update"
      /\ IF \E i \in rows : On(price[i].shop, d) \ {i} # {}
         THEN saver' = [saver EXCEPT ![w] = Saved] /\ UNCHANGED <<price, told, contested>>
         ELSE /\ price' = [i \in DOMAIN price |->
                            IF i \in rows THEN [price[i] EXCEPT !.day = d, !.amount = saver[w].amount]
                            ELSE price[i]]
              /\ saver' = [saver EXCEPT ![w].at = "insert", ![w].update = {}]
              /\ Told(shops, w) /\ Writing(w, shops)
      /\ UNCHANGED saves

\* The shops that had no row get one; one that came meanwhile is overwritten.
insertFallbacks(w) ==
  /\ saver[w].at = "insert"
  /\ price' = Upsert(saver[w].insert, saver[w].day, saver[w].amount, TRUE)
  /\ saver' = [saver EXCEPT ![w] = Saved]
  /\ Told(saver[w].insert, w) /\ Writing(w, saver[w].insert)
  /\ UNCHANGED saves

Drop(w) ==
  saver[w] # Saved /\ saver' = [saver EXCEPT ![w] = Saved] /\ UNCHANGED <<price, saves, told, contested>>

PricesNext ==
  \E w \in Saver : \/ \E s \in Shop, d \in Day, a \in Amount : persistReceiptPrices(w, s, d, a)
                   \/ propagateAllFallbackPrices(w) \/ updateFallbacks(w) \/ insertFallbacks(w) \/ Drop(w)

PricesSpec == PricesInit /\ [][PricesNext]_priceVars

\* The price a shop shows is its latest row's (fetchLatestPrices).
Shown(s) == CHOOSE i \in RowsOf(s) : \A j \in RowsOf(s) : j <= i

\* A shop that has a price of its own shows one of its own, and another shows the
\* newest that was carried to it, of which it keeps one row - unless two receipts
\* wrote its prices at the same time (propagateAllFallbackPrices, createPrice).
NewestPriceWins ==
  \A s \in Shop \ contested :
    RowsOf(s) # {} =>
      IF \E i \in RowsOf(s) : ~price[i].fallback
      THEN ~price[Shown(s)].fallback
      ELSE /\ RowsOf(s) = {Shown(s)}
           /\ told[s] = [day |-> price[Shown(s)].day, amount |-> price[Shown(s)].amount]
=============================================================================
