---------------------------- MODULE LeavingProofs ----------------------------
(***************************************************************************)
(* The arithmetic behind "settle and leave", for any group, amount, number *)
(* of receipts and balances: the odd cents go round, and the plan clears   *)
(* the balance in as few transfers as there can be.                        *)
(***************************************************************************)
EXTENDS SettleAndLeave, LedgerProofs

-----------------------------------------------------------------------------
(* The odd cents go round.                                                 *)

\* Whether a member pays an odd cent of receipt r.
PaysOddCent(m, r) == (PositionIn(m, group) - r) % Cardinality(group) < cost % Cardinality(group)
OddReceipts(m, from, to) == {r \in from .. to - 1 : PaysOddCent(m, r)}

\* The invariant: each member of the group has paid the floor of every receipt,
\* and the odd cents of some of them.
SharesInv ==
  /\ first \in Nat /\ cost \in Nat /\ group \in SUBSET Member /\ group # {}
  /\ next \in Nat /\ first <= next
  /\ charged \in [Member -> Nat] /\ TotalOf(charged) = cost * (next - first)
  /\ \A m \in group :
       charged[m] = (cost \div Cardinality(group)) * (next - first)
                    + Cardinality(OddReceipts(m, first, next))

\* The receipts are finitely many.
LEMMA ReceiptsFinite ==
  ASSUME NEW from \in Int, NEW to \in Int, NEW m
  PROVE  IsFiniteSet(OddReceipts(m, from, to)) /\ Cardinality(OddReceipts(m, from, to)) \in Nat
<1>1. IsFiniteSet(from .. to - 1)
  BY FS_Interval
<1>2. OddReceipts(m, from, to) \in SUBSET (from .. to - 1)
  BY DEF OddReceipts
<1>3. IsFiniteSet(OddReceipts(m, from, to))
  BY <1>1, <1>2, FS_Subset
<1>4. QED
  BY <1>3, FS_CardinalityType

\* In as many receipts as the group has members, each member pays as many odd
\* cents as one receipt has.
LEMMA OneRound ==
  ASSUME SharesInv, NEW m \in group, NEW from \in Int
  PROVE  Cardinality(OddReceipts(m, from, from + Cardinality(group))) = cost % Cardinality(group)
<1> DEFINE n == Cardinality(group)
           P == from .. from + n - 1
           F == [r \in P |-> (PositionIn(m, group) - r) % n]
<1>1. n \in Nat \ {0} /\ PositionIn(m, group) \in 0..(n - 1)
  BY CountType, PositionsDiffer DEF SharesInv
<1>2. cost % n \in 0..(n - 1)
  BY <1>1, DivisionType DEF SharesInv
<1> PICK c \in Int : c = PositionIn(m, group)
  BY <1>1
<1>3. IsFiniteSet(P) /\ Cardinality(P) = n
  <2>1. from \in Int /\ from + n - 1 \in Int
        /\ (IF from > from + n - 1 THEN 0 ELSE (from + n - 1) - from + 1) = n
    BY <1>1
  <2> HIDE DEF n
  <2>2. QED
    BY <2>1, FS_Interval
<1> HIDE DEF n
<1>4. F \in [P -> 0..(n - 1)]
  BY <1>1
<1>5. ASSUME NEW r \in P, NEW t \in P, F[r] = F[t]
      PROVE  r = t
  <2>1. (c - r) % n = (c - t) % n
    BY <1>5
  <2>2. c - r \in Int /\ c - t \in Int /\ (c - r) - (c - t) < n /\ (c - t) - (c - r) < n
    BY <1>1
  <2>3. c - r = c - t
    BY <1>1, <2>1, <2>2, SameRemainder
  <2>4. QED
    BY <2>3
<1> HIDE DEF F
<1>6. Cardinality({r \in P : F[r] < cost % n}) = cost % n
  <2> HIDE DEF P
  <2>1. QED
    BY <1>1, <1>2, <1>3, <1>4, <1>5, ResiduesCounted
<1>7. {r \in P : F[r] < cost % n} = OddReceipts(m, from, from + n)
  <2>1. \A r \in P : F[r] < cost % n <=> PaysOddCent(m, r)
    BY DEF F, n, PaysOddCent
  <2>2. P = from .. (from + n) - 1
    BY <1>1
  <2> HIDE DEF P
  <2>3. QED
    BY <2>1, <2>2 DEF OddReceipts
<1>8. QED
  BY <1>6, <1>7 DEF n

\* And in any number of rounds as many times that.
LEMMA WholeRounds ==
  ASSUME SharesInv, NEW m \in group, NEW from \in Int
  PROVE  \A q \in Nat : Cardinality(OddReceipts(m, from, from + Cardinality(group) * q))
                          = (cost % Cardinality(group)) * q
<1> DEFINE n == Cardinality(group)
           k == cost % n
           T == {q \in Nat : Cardinality(OddReceipts(m, from, from + n * q)) = k * q}
<1>1. n \in Nat \ {0} /\ k \in Nat
  BY CountType, DivisionType DEF SharesInv
<1>2. 0 \in T
  <2>1. n * 0 = 0 /\ k * 0 = 0
    BY <1>1
  <2>2. OddReceipts(m, from, from + 0) = {}
    BY DEF OddReceipts
  <2> HIDE DEF n, k
  <2>3. QED
    BY <2>1, <2>2, FS_EmptySet
<1>3. ASSUME NEW q \in Nat, q \in T
      PROVE  q + 1 \in T
  <2> PICK a \in Int : a = from + n * q
    BY <1>1
  <2> DEFINE A == OddReceipts(m, from, a)
             B == OddReceipts(m, a, a + n)
             C == OddReceipts(m, from, a + n)
  <2>1. from <= a
    BY <1>1
  <2>2. C = A \cup B /\ A \cap B = {}
    BY <1>1, <2>1 DEF OddReceipts
  <2>3. IsFiniteSet(A) /\ IsFiniteSet(B) /\ Cardinality(A) \in Nat /\ Cardinality(B) \in Nat
    BY <1>1, ReceiptsFinite
  <2>4. Cardinality(B) = k
    BY OneRound
  <2>5. Cardinality(A) = k * q
    BY <1>3
  <2> HIDE DEF A, B, C, n, k
  <2>6. Cardinality(C) = Cardinality(A) + Cardinality(B)
    <3>1. Cardinality(A \cup B) = Cardinality(A) + Cardinality(B) - Cardinality(A \cap B)
      BY <2>3, FS_Union
    <3>2. Cardinality(A \cap B) = 0
      BY <2>2, FS_EmptySet
    <3>3. QED
      BY <2>2, <2>3, <3>1, <3>2
  <2>7. a + n = from + n * (q + 1) /\ k * q + k = k * (q + 1)
    BY <1>1
  <2>8. QED
    BY <2>4, <2>5, <2>6, <2>7 DEF C
<1>4. Nat \subseteq T
  <2> HIDE DEF T
  <2>1. QED
    BY <1>2, <1>3, NumberInduction
<1>5. QED
  BY <1>4

\* After whole rounds all members have paid the same number of odd cents.
LEMMA SharesSuffice == SharesInv => OddCentsGoRound
<1> SUFFICES ASSUME SharesInv, (next - first) % Cardinality(group) = 0, NEW m \in group, NEW o \in group
             PROVE  charged[m] = charged[o]
  BY DEF OddCentsGoRound, SharesInv
<1> DEFINE n == Cardinality(group)
           q == (next - first) \div n
<1>1. n \in Nat \ {0} /\ next - first \in Nat /\ (next - first) % n = 0
  BY CountType DEF SharesInv
<1> HIDE DEF n
<1>2. q \in Nat /\ next - first = n * q
  BY <1>1
<1> HIDE DEF q
<1>3. next = first + n * q
  BY <1>1, <1>2 DEF SharesInv
<1>4. first \in Int
  BY DEF SharesInv
<1>5. \A x \in group : Cardinality(OddReceipts(x, first, next)) = (cost % n) * q
  BY <1>2, <1>3, <1>4, WholeRounds DEF n
<1>6. QED
  BY <1>5 DEF SharesInv

\* Nothing is charged at the start.
LEMMA SharesStart == Init => SharesInv
<1> SUFFICES ASSUME Init PROVE SharesInv
  OBVIOUS
<1>1. first \in Nat /\ cost \in Nat /\ group \in SUBSET Member /\ group # {} /\ next = first
  BY ReceiptAssumption, AmountAssumption DEF Init
<1>2. charged \in [Member -> Nat] /\ \A m \in Member : charged[m] = 0
  BY DEF Init
<1>3. TotalOf(charged) = 0
  <2>1. charged \in [Member -> Int] /\ 0 \in Int
    BY <1>2
  <2>2. SumOver(charged, Member) = 0 * Cardinality(Member)
    BY <1>2, <2>1, SumOfConstant, MemberAssumption
  <2>3. Cardinality(Member) \in Nat
    BY FS_CardinalityType, MemberAssumption
  <2>4. QED
    BY <2>1, <2>2, <2>3, TotalIsSum
<1>4. \A m \in group : Cardinality(OddReceipts(m, first, next)) = 0
  <2>1. \A m \in group : OddReceipts(m, first, next) = {}
    BY <1>1 DEF OddReceipts
  <2>2. QED
    BY <2>1, FS_EmptySet
<1>5. next - first = 0 /\ cost * 0 = 0 /\ (cost \div Cardinality(group)) * 0 = 0
  <2>1. cost \div Cardinality(group) \in Nat
    BY <1>1, CountType, DivisionType
  <2>2. QED
    BY <1>1, <2>1
<1>6. QED
  BY <1>1, <1>2, <1>3, <1>4, <1>5 DEF SharesInv

\* A receipt charges every member of the group the floor, and some an odd cent.
LEMMA RecordingShares ==
  ASSUME SharesInv, NEW payer \in Member, RecordReceipt(payer)
  PROVE  SharesInv'
<1> DEFINE n == Cardinality(group)
           shares == ComputeShares(next, cost, group)
<1>1. n \in Nat \ {0} /\ cost \div n \in Nat /\ next \in Int
  BY CountType, DivisionType DEF SharesInv
<1>2. /\ next' = next + 1 /\ charged' = Plus(charged, shares)
      /\ first' = first /\ cost' = cost /\ group' = group
  BY DEF RecordReceipt
<1>3. shares \in [Member -> Nat] /\ TotalOf(shares) = cost
  BY <1>1, SharesType, SharesAddUp DEF SharesInv
<1>4. \A m \in group : shares[m] = cost \div n + (IF PaysOddCent(m, next) THEN 1 ELSE 0)
  BY DEF ComputeShares, PaysOddCent, SharesInv
<1> HIDE DEF shares
<1>5. charged' \in [Member -> Nat] /\ \A m \in Member : charged'[m] = charged[m] + shares[m]
  BY <1>2, <1>3 DEF Plus, SharesInv
<1>6. TotalOf(charged') = TotalOf(charged) + cost
  <2>1. charged \in [Member -> Int] /\ shares \in [Member -> Int]
    BY <1>3 DEF SharesInv
  <2>2. QED
    BY <1>2, <1>3, <2>1, TotalOfPlus
<1>7. cost * (next - first) + cost = cost * ((next + 1) - first)
  BY DEF SharesInv
<1>8. ASSUME NEW m \in group
      PROVE  charged'[m] = (cost \div n) * ((next + 1) - first)
                           + Cardinality(OddReceipts(m, first, next + 1))
  <2> DEFINE A == OddReceipts(m, first, next)
  <2>1. IsFiniteSet(A) /\ Cardinality(A) \in Nat /\ next \notin A
    <3>1. first \in Int /\ next \in Int
      BY DEF SharesInv
    <3>2. next \notin A
      BY <3>1 DEF OddReceipts
    <3> HIDE DEF A
    <3>3. IsFiniteSet(OddReceipts(m, first, next)) /\ Cardinality(OddReceipts(m, first, next)) \in Nat
      BY <3>1, ReceiptsFinite
    <3>4. QED
      BY <3>2, <3>3 DEF A
  <2>2. OddReceipts(m, first, next + 1) = IF PaysOddCent(m, next) THEN A \cup {next} ELSE A
    BY DEF SharesInv, OddReceipts
  <2>3. charged[m] = (cost \div n) * (next - first) + Cardinality(A)
    BY DEF SharesInv
  <2> HIDE DEF A, n
  <2>4. Cardinality(A \cup {next}) = Cardinality(A) + 1
    BY <2>1, FS_AddElement
  <2>5. Cardinality(OddReceipts(m, first, next + 1))
          = Cardinality(A) + (IF PaysOddCent(m, next) THEN 1 ELSE 0)
    BY <2>1, <2>2, <2>4
  <2>6. m \in Member /\ first \in Int
    BY DEF SharesInv
  <2>7. (cost \div n) * (next - first) + (cost \div n) = (cost \div n) * ((next + 1) - first)
    BY <1>1, <2>6
  <2>8. charged'[m] = charged[m] + (cost \div n + (IF PaysOddCent(m, next) THEN 1 ELSE 0))
    BY <1>4, <1>5, <2>6
  <2>9. QED
    BY <1>1, <2>1, <2>3, <2>5, <2>6, <2>7, <2>8
<1>9. \A m \in group : OddReceipts(m, first, next + 1) = OddReceipts(m, first, next)'
  BY <1>2 DEF OddReceipts, PaysOddCent
<1>10. QED
  BY <1>1, <1>2, <1>5, <1>6, <1>7, <1>8, <1>9 DEF SharesInv

\* No other step charges anybody.
LEMMA SharesStep == SharesInv /\ [Next]_vars => SharesInv'
<1> SUFFICES ASSUME SharesInv, [Next]_vars PROVE SharesInv'
  OBVIOUS
<1>1. CASE \E payer \in Member : RecordReceipt(payer)
  BY <1>1, RecordingShares
<1>2. CASE UNCHANGED <<first, cost, group, next, charged>>
  BY <1>2 DEF SharesInv, OddReceipts, PaysOddCent
<1>3. QED
  BY <1>1, <1>2 DEF Next, AskToLeave, PayNext, vars

\* No cent is lost, and in whole rounds all members of the group pay the same,
\* for any group, amount and number of receipts.
THEOREM CentsGoRound == Spec => []OddCentsGoRound
<1>1. QED
  BY SharesSuffice, SharesStart, SharesStep, PTL DEF Spec

-----------------------------------------------------------------------------
(* The plan.  Size and sign: who owes and who is owed.                      *)

\* A member's balance with the sign that makes the leaver a debtor.
Debt(b, m) == [id \in Member |-> IF b[m] < 0 THEN b[id] ELSE -b[id]]
Sizes(b) == [id \in Member |-> Size(b[id])]

\* The size of a balance is a number, 0 only for a balance of 0.
LEMMA SizeType ==
  ASSUME NEW n \in Int
  PROVE  Size(n) \in Nat /\ (Size(n) = 0 <=> n = 0)
  BY DEF Size

\* The counterparties' balances are those with the other sign.
LEMMA CounterpartiesOwe ==
  ASSUME NEW b \in [Member -> Int], NEW m \in Member, b[m] # 0
  PROVE  /\ Debt(b, m) \in [Member -> Int] /\ Debt(b, m)[m] = -Size(b[m])
         /\ Counterparties(b, m) \in SUBSET Member /\ m \notin Counterparties(b, m)
         /\ \A id \in Member \ {m} : id \in Counterparties(b, m) <=> Debt(b, m)[id] > 0
         /\ \A id \in Counterparties(b, m) : Size(b[id]) = Debt(b, m)[id]
  BY DEF Debt, Counterparties, Size

\* Where the balances add up to nothing, the counterparties can absorb the
\* member's.
LEMMA CounterpartiesSuffice ==
  ASSUME NEW b \in [Member -> Int], NEW m \in Member, b[m] # 0, TotalOf(b) = 0
  PROVE  SumOver(Sizes(b), Counterparties(b, m)) >= Size(b[m])
<1> DEFINE C == Counterparties(b, m)
           d == Debt(b, m)
           up == [id \in Member |-> IF id \in C THEN d[id] ELSE IF id = m THEN d[m] ELSE 0]
<1>1. /\ d \in [Member -> Int] /\ d[m] = -Size(b[m]) /\ C \in SUBSET Member /\ m \notin C
      /\ \A id \in Member \ {m} : id \in C <=> d[id] > 0
      /\ \A id \in C : Size(b[id]) = d[id]
  BY CounterpartiesOwe
<1>2. SumOver(d, Member) = 0
  <2>1. SumOver(b, Member) = 0
    BY TotalIsSum
  <2>2. CASE b[m] < 0
    <3>1. \A id \in Member : b[id] \in Int /\ d[id] = b[id]
      BY <2>2 DEF Debt
    <3> HIDE DEF d
    <3>2. QED
      BY <2>1, <3>1, SumOfEquals, MemberAssumption
  <2>3. CASE ~(b[m] < 0)
    <3> DEFINE zero == [id \in Member |-> 0]
    <3>1. Adds(zero, b, d, Member)
      BY <2>3 DEF Adds, Debt
    <3>2. \A id \in Member : zero[id] = 0
      OBVIOUS
    <3> HIDE DEF zero, d
    <3>3. SumOver(zero, Member) = SumOver(b, Member) + SumOver(d, Member)
      BY <3>1, SumOfSums, MemberAssumption
    <3>4. SumOver(zero, Member) = 0 * Cardinality(Member)
      <4>1. 0 \in Int
        OBVIOUS
      <4>2. QED
        BY <3>2, <4>1, SumOfConstant, MemberAssumption
    <3>5. Cardinality(Member) \in Nat /\ SumOver(d, Member) \in Int
      BY <1>1, FS_CardinalityType, SumType, MemberAssumption
    <3>6. QED
      BY <2>1, <3>3, <3>4, <3>5
  <2>4. QED
    BY <2>2, <2>3
<1> HIDE DEF d, C
<1>3. \A id \in Member : d[id] \in Int /\ up[id] \in Int /\ d[id] <= up[id]
  BY <1>1
<1>4. /\ \A id \in C : up[id] = Sizes(b)[id] /\ Sizes(b)[id] \in Int
      /\ up[m] = -Size(b[m])
      /\ \A id \in Member \ (C \cup {m}) : up[id] = 0
  BY <1>1 DEF Sizes
<1> HIDE DEF up
<1>5. SumOver(d, Member) <= SumOver(up, Member)
  BY <1>3, SumIsMonotone, MemberAssumption
<1>6. SumOver(up, Member) = SumOver(up, C \cup {m})
  <2>1. C \cup {m} \in SUBSET Member /\ \A id \in C \cup {m} : up[id] \in Int
    BY <1>1, <1>3
  <2>2. QED
    BY <1>4, <2>1, SumOverSupport, MemberAssumption
<1>7. IsFiniteSet(C) /\ \A id \in C \cup {m} : up[id] \in Int
  BY <1>1, <1>3, FS_Subset, MemberAssumption
<1>8. SumOver(up, C \cup {m}) = SumOver(up, C) + up[m]
  BY <1>1, <1>7, SumAddsElement
<1>9. SumOver(up, C) = SumOver(Sizes(b), C)
  BY <1>4, <1>7, SumOfEquals
<1>10. SumOver(up, C) \in Int /\ Size(b[m]) \in Int
  BY <1>7, SumType, SizeType
<1>11. QED
  BY <1>2, <1>4, <1>5, <1>6, <1>8, <1>9, <1>10 DEF C

\* The counterparties are put in order, the largest balance first.
LEMMA SortedOrders ==
  ASSUME NEW b \in [Member -> Int], NEW m \in Member, b[m] # 0
  PROVE  LET C == Counterparties(b, m)
             order == Sorted(b, C)
             n == Cardinality(C)
         IN  /\ n \in Nat /\ IsFiniteSet(C) /\ order \in [1..n -> C]
             /\ \A i, j \in 1..n : i < j => order[i] # order[j] /\ Size(b[order[i]]) >= Size(b[order[j]])
             /\ \A c \in C : \E i \in 1..n : order[i] = c
<1> DEFINE C == Counterparties(b, m)
           n == Cardinality(C)
           R == {p \in C \X C : LargerFirst(b, p[1], p[2])}
           good(o) == \A i, j \in DOMAIN o : i < j => LargerFirst(b, o[i], o[j])
           order == CHOOSE o \in [1..n -> C] : good(o)
<1>1. C \in SUBSET Member /\ IsFiniteSet(C) /\ n \in Nat
  BY CounterpartiesOwe, FS_Subset, FS_CardinalityType, MemberAssumption
<1>2. \A x, y \in C : <<x, y>> \in R <=> LargerFirst(b, x, y)
  OBVIOUS
<1>3. \A x \in C : x \in Nat /\ b[x] \in Int /\ Size(b[x]) \in Nat
  BY <1>1, MemberAssumption, SizeType
<1>4. \A x, y \in C : Size(b[x]) = Size(b[y]) => b[x] = b[y]
  BY <1>1 DEF Counterparties, Size
<1> HIDE DEF R
<1>5. Orders(R, C)
  <2>1. ASSUME NEW x \in C, NEW y \in C, x # y
        PROVE  <<x, y>> \in R \/ <<y, x>> \in R
    BY <1>2, <1>3, <1>4, <2>1 DEF LargerFirst
  <2>2. ASSUME NEW x \in C, NEW y \in C, NEW z \in C, <<x, y>> \in R, <<y, z>> \in R
        PROVE  <<x, z>> \in R
    <3>1. LargerFirst(b, x, y) /\ LargerFirst(b, y, z)
      BY <1>2, <2>2
    <3>2. LargerFirst(b, x, z)
      BY <1>3, <3>1 DEF LargerFirst
    <3>3. QED
      BY <1>2, <3>2
  <2> HIDE DEF C
  <2>3. QED
    BY <2>1, <2>2 DEF Orders
<1>6. \E o \in [1..n -> C] : good(o)
  <2>1. PICK o \in [1..n -> C] : InOrder(o, R, n)
    <3> HIDE DEF C
    <3>1. QED
      BY <1>1, <1>5, OrderExists
  <2>2. good(o)
    <3> HIDE DEF C, n
    <3>1. QED
      BY <1>2, <2>1 DEF InOrder
  <2>3. QED
    BY <2>2
<1>7. order \in [1..n -> C] /\ good(order)
  <2> HIDE DEF good
  <2>1. QED
    BY <1>6
<1>8. Sorted(b, C) = order
  BY DEF Sorted
<1> HIDE DEF order, C, n
<1>9. ASSUME NEW i \in 1..n, NEW j \in 1..n, i < j
      PROVE  order[i] # order[j] /\ Size(b[order[i]]) >= Size(b[order[j]])
  BY <1>3, <1>7, <1>9 DEF LargerFirst
<1>10. order \in Injection(1..n, C)
  <2>1. \A i, j \in 1..n : order[i] = order[j] => i = j
    BY <1>1, <1>9
  <2>2. QED
    BY <1>7, <2>1 DEF Injection, IsInjective
<1>11. IsFiniteSet(1..n) /\ Cardinality(1..n) = n
  <2>1. 1 \in Int /\ n \in Int /\ (IF 1 > n THEN 0 ELSE n - 1 + 1) = n
    BY <1>1
  <2>2. QED
    BY <2>1, FS_Interval
<1>12. order \in Surjection(1..n, C)
  BY <1>1, <1>10, <1>11, FS_Injection DEF n
<1>13. \A c \in C : \E i \in 1..n : order[i] = c
  BY <1>12 DEF Surjection
<1>14. QED
  BY <1>1, <1>7, <1>8, <1>9, <1>13 DEF C, n

-----------------------------------------------------------------------------
(* The walk over the counterparties.                                        *)

\* The transfers of a plan, and the state of the walk that makes them.
PlannedTransfer == [from : Member, to : Member, amount : Nat]
Walk == [remaining : Nat, transfers : Seq(PlannedTransfer)]

\* The transfer that clears an amount between the leaver and a counterparty.
Between(b, m, id, a) ==
  IF b[m] < 0 THEN [from |-> m, to |-> id, amount |-> a]
  ELSE [from |-> id, to |-> m, amount |-> a]

\* One step of the walk.
Pairing(b, m, walk, id) ==
  IF walk.remaining = 0 THEN walk
  ELSE [remaining |-> walk.remaining - Take(walk.remaining, Size(b[id])),
        transfers |-> Append(walk.transfers, Between(b, m, id, Take(walk.remaining, Size(b[id]))))]

\* Before the first counterparty.
Setout(b, m) == [remaining |-> Size(b[m]), transfers |-> <<>>]

\* The walk, one state for each prefix of the counterparties.
Walking(st, b, m) ==
  LET order == Sorted(b, Counterparties(b, m))
      n == Cardinality(Counterparties(b, m))
  IN  /\ st \in [0..n -> Walk] /\ st[0] = Setout(b, m)
      /\ \A k \in 1..n : st[k] = Pairing(b, m, st[k - 1], order[k])

\* A transfer takes what remains or what the counterparty has.
LEMMA TakeFits ==
  ASSUME NEW x \in Nat, NEW y \in Nat
  PROVE  /\ Take(x, y) \in Nat /\ Take(x, y) <= x /\ Take(x, y) <= y
         /\ Take(x, y) = x \/ Take(x, y) = y
<1>1. \E z \in {x, y} : \A w \in {x, y} : z <= w
  BY DEF Min
<1>2. QED
  BY <1>1 DEF Take, Min

\* A step of the walk leads to a state of it.
LEMMA PairingType ==
  ASSUME NEW b \in [Member -> Int], NEW m \in Member, NEW walk \in Walk, NEW id \in Member
  PROVE  Pairing(b, m, walk, id) \in Walk
<1> DEFINE a == Take(walk.remaining, Size(b[id]))
<1>1. walk.remaining \in Nat /\ Size(b[id]) \in Nat /\ walk.transfers \in Seq(PlannedTransfer)
  BY SizeType DEF Walk
<1>2. a \in Nat /\ a <= walk.remaining
  BY <1>1, TakeFits
<1> HIDE DEF a
<1>3. Between(b, m, id, a) \in PlannedTransfer
  BY <1>2 DEF Between, PlannedTransfer
<1>4. Append(walk.transfers, Between(b, m, id, a)) \in Seq(PlannedTransfer)
  BY <1>1, <1>3
<1>5. QED
  BY <1>1, <1>2, <1>4 DEF Walk, Pairing, a

\* simplifyDebts walks over the counterparties.
LEMMA SimplifyWalks ==
  ASSUME NEW b \in [Member -> Int], NEW m \in Member, b[m] # 0
  PROVE  \E st : /\ Walking(st, b, m)
                 /\ SimplifyDebts(b, m) = st[Cardinality(Counterparties(b, m))].transfers
<1> DEFINE order == Sorted(b, Counterparties(b, m))
           N == Cardinality(Counterparties(b, m))
           S == 1..N
           start == Setout(b, m)
           step == [i \in S |-> [v \in Walk |-> Pairing(b, m, v, order[i])]]
           body(h) == [s \in SUBSET S |-> IF s = {} THEN start
                                          ELSE Pairing(b, m, h[s \ {Max(s)}], order[Max(s)])]
<1>1. N \in Nat /\ DOMAIN order = S /\ \A i \in S : order[i] \in Member
  <2>1. N \in Nat /\ order \in [S -> Counterparties(b, m)]
    BY SortedOrders
  <2>2. Counterparties(b, m) \in SUBSET Member
    BY CounterpartiesOwe
  <2> HIDE DEF order, N
  <2>3. QED
    BY <2>1, <2>2
<1>2. start \in Walk
  BY SizeType DEF Setout, Walk
<1> HIDE DEF start
<1>3. \A i \in S, v \in Walk : step[i][v] = Pairing(b, m, v, order[i])
  OBVIOUS
<1>4. \A i \in S, v \in Walk : step[i][v] \in Walk
  BY <1>1, <1>3, PairingType
<1> HIDE DEF step, N, order
<1>5. PICK g : FoldedBy(g, N, Walk, start, step)
  BY ONLY <1>2, <1>1, <1>4, FoldSteps
<1>6. \A s \in SUBSET S : s # {} => Max(s) \in s
  BY <1>1, MaxOfNumbers
<1>7. \A s \in SUBSET S : g[s] = IF s = {} THEN start
                                 ELSE Pairing(b, m, g[s \ {Max(s)}], order[Max(s)])
  <2>1. ASSUME NEW s \in SUBSET S, s # {}
        PROVE  g[s] = Pairing(b, m, g[s \ {Max(s)}], order[Max(s)])
    <3>1. Max(s) \in S /\ g[s \ {Max(s)}] \in Walk
      BY <1>5, <1>6, <2>1 DEF FoldedBy
    <3>2. QED
      BY <1>3, <1>5, <2>1, <3>1 DEF FoldedBy
  <2>2. {} \in SUBSET S
    OBVIOUS
  <2>3. g[{}] = start
    BY <1>5, <2>2 DEF FoldedBy
  <2>4. QED
    BY <2>1, <2>3
<1>8. g = body(g)
  BY <1>5, <1>7 DEF FoldedBy
<1>9. PICK it : it = body(it) /\ SimplifyDebts(b, m) = it[S].transfers
  <2> DEFINE h == CHOOSE h : h = body(h)
  <2>1. SimplifyDebts(b, m) = h[S].transfers
    BY <1>1 DEF SimplifyDebts, FoldLeft, MapThenFoldSet, Pairing, Between, Setout, start, order
  <2>2. h = body(h)
    <3> HIDE DEF body
    <3>1. QED
      BY <1>8
  <2> HIDE DEF h, body
  <2>3. QED
    BY <2>1, <2>2
<1>10. it[S] = g[S]
  <2>1. PICK pick : pick = [s \in SUBSET S |-> Max(s)]
    OBVIOUS
  <2>2. \A s \in SUBSET S : it[s] = IF s = {} THEN start
                                    ELSE Pairing(b, m, it[s \ {Max(s)}], order[Max(s)])
    BY <1>9
  <2>3. UnwindAlike(g, it, S, pick)
    BY <1>6, <1>7, <2>1, <2>2 DEF UnwindAlike
  <2>4. IsFiniteSet(S)
    BY <1>1, FS_Interval
  <2>5. \A s \in SUBSET S : it[s] = g[s]
    <3> HIDE DEF S, body
    <3>1. QED
      BY ONLY <2>3, <2>4, SameUnwinding
  <2>6. QED
    BY <2>5
<1> DEFINE st == [k \in 0..N |-> g[1..k]]
<1>11. st \in [0..N -> Walk] /\ st[0] = start /\ \A k \in 1..N : st[k] = step[k][st[k - 1]]
  BY <1>5 DEF Steps, FoldedBy
<1>12. st[N] = g[S]
  BY <1>1
<1> HIDE DEF st
<1>13. \A k \in 1..N : st[k - 1] \in Walk
  BY <1>1, <1>11
<1>14. Walking(st, b, m)
  BY <1>3, <1>11, <1>13 DEF Walking, N, order, start
<1>15. QED
  BY <1>9, <1>10, <1>12, <1>14 DEF N

-----------------------------------------------------------------------------
(* What the transfers of a plan amount to.                                  *)

\* What the transfers of a plan amount to, and their total.
Amounts(p) == [i \in DOMAIN p |-> p[i].amount]
PlanTotal(p) == SumOver(Amounts(p), 1..Len(p))

\* A transfer at the end adds its amount.
LEMMA AppendTotals ==
  ASSUME NEW p \in Seq(PlannedTransfer), NEW t \in PlannedTransfer
  PROVE  PlanTotal(Append(p, t)) = PlanTotal(p) + t.amount /\ PlanTotal(p) \in Int
<1> DEFINE n == Len(p)
           q == Append(p, t)
<1>1. /\ n \in Nat /\ q \in Seq(PlannedTransfer) /\ Len(q) = n + 1 /\ q[n + 1] = t
      /\ \A i \in 1..n : q[i] = p[i] /\ p[i].amount \in Int
      /\ DOMAIN p = 1..n /\ DOMAIN q = 1..(n + 1) /\ t.amount \in Int
  <2>1. /\ n \in Nat /\ q \in Seq(PlannedTransfer) /\ Len(q) = n + 1 /\ q[n + 1] = t
        /\ DOMAIN p = 1..n /\ DOMAIN q = 1..(n + 1)
        /\ \A i \in 1..n : q[i] = p[i] /\ p[i] \in PlannedTransfer
    OBVIOUS
  <2>2. \A u \in PlannedTransfer : u.amount \in Int
    BY DEF PlannedTransfer
  <2>3. QED
    BY <2>1, <2>2
<1>2. /\ \A i \in 1..n : Amounts(q)[i] = Amounts(p)[i] /\ Amounts(p)[i] \in Int
      /\ Amounts(q)[n + 1] = t.amount
  BY <1>1 DEF Amounts
<1>3. IsFiniteSet(1..n) /\ n + 1 \notin 1..n /\ (1..n) \cup {n + 1} = 1..(n + 1)
  <2> HIDE DEF n
  <2>1. IsFiniteSet(1..n)
    BY <1>1, FS_Interval
  <2>2. QED
    BY <1>1, <2>1
<1>4. \A i \in (1..n) \cup {n + 1} : Amounts(q)[i] \in Int
  BY <1>1, <1>2
<1> HIDE DEF n, q
<1>5. SumOver(Amounts(q), (1..n) \cup {n + 1}) = SumOver(Amounts(q), 1..n) + Amounts(q)[n + 1]
  BY <1>3, <1>4, SumAddsElement
<1>6. SumOver(Amounts(q), 1..n) = SumOver(Amounts(p), 1..n) /\ SumOver(Amounts(p), 1..n) \in Int
  BY <1>2, <1>3, SumOfEquals, SumType
<1>7. QED
  BY <1>1, <1>2, <1>3, <1>5, <1>6 DEF PlanTotal, n, q

\* Without its head the plan amounts to that much less.
LEMMA TailTotals ==
  ASSUME NEW p \in Seq(PlannedTransfer), p # <<>>
  PROVE  PlanTotal(p) = p[1].amount + PlanTotal(Tail(p)) /\ PlanTotal(Tail(p)) \in Int
<1> DEFINE n == Len(p)
           q == Tail(p)
           g == [i \in 1..(n - 1) |-> i + 1]
<1>1. /\ n \in Nat \ {0} /\ q \in Seq(PlannedTransfer) /\ Len(q) = n - 1
      /\ \A i \in 1..(n - 1) : q[i] = p[i + 1]
      /\ \A i \in 1..n : p[i].amount \in Int
      /\ DOMAIN p = 1..n /\ DOMAIN q = 1..(n - 1)
  <2>1. n \in Nat \ {0} /\ DOMAIN p = 1..n /\ \A i \in 1..n : p[i] \in PlannedTransfer
    OBVIOUS
  <2>2. \A u \in PlannedTransfer : u.amount \in Int
    BY DEF PlannedTransfer
  <2>3. /\ q \in Seq(PlannedTransfer) /\ Len(q) = n - 1 /\ DOMAIN q = 1..(n - 1)
        /\ \A i \in 1..(n - 1) : q[i] = p[i + 1]
    BY <2>1
  <2>4. QED
    BY <2>1, <2>2, <2>3
<1>2. /\ \A i \in 1..(n - 1) : Amounts(q)[i] = p[i + 1].amount
      /\ \A i \in 1..n : Amounts(p)[i] = p[i].amount
  BY <1>1 DEF Amounts
<1>3. Renames(g, Amounts(q), Amounts(p), 1..(n - 1), 2..n)
  <2>1. \A i \in 1..(n - 1) : g[i] = i + 1 /\ i + 1 \in 1..n
    BY <1>1
  <2> HIDE DEF g, n, q
  <2>2. \A i \in 1..(n - 1) : Amounts(q)[i] \in Int /\ Amounts(p)[g[i]] = Amounts(q)[i]
    BY <1>1, <1>2, <2>1
  <2>3. /\ \A i, k \in 1..(n - 1) : g[i] = g[k] => i = k
        /\ \A i \in 1..(n - 1) : g[i] \in 2..n
    BY <1>1, <2>1
  <2>4. \A k \in 2..n : k - 1 \in 1..(n - 1) /\ g[k - 1] = k
    BY <1>1, <2>1
  <2>5. QED
    BY <2>2, <2>3, <2>4 DEF Renames
<1>4. IsFiniteSet(1..(n - 1)) /\ IsFiniteSet(2..n) /\ 1 \notin 2..n /\ (2..n) \cup {1} = 1..n
  BY <1>1, FS_Interval
<1>5. \A i \in (2..n) \cup {1} : Amounts(p)[i] \in Int
  BY <1>1, <1>2
<1> HIDE DEF n, q, g
<1>6. SumOver(Amounts(p), (2..n) \cup {1}) = SumOver(Amounts(p), 2..n) + Amounts(p)[1]
  BY <1>4, <1>5, SumAddsElement
<1>7. SumOver(Amounts(q), 1..(n - 1)) = SumOver(Amounts(p), 2..n)
  BY <1>3, <1>4, SumReindexed
<1>8. SumOver(Amounts(p), 2..n) \in Int /\ Amounts(p)[1] = p[1].amount /\ p[1].amount \in Int
  BY <1>1, <1>2, <1>4, <1>5, SumType
<1>9. PlanTotal(p) = SumOver(Amounts(p), 1..n) /\ PlanTotal(q) = SumOver(Amounts(q), 1..(n - 1))
  BY <1>1 DEF PlanTotal, n
<1>10. SumOver(Amounts(p), 1..n) = SumOver(Amounts(p), 2..n) + Amounts(p)[1]
  BY <1>4, <1>6
<1>11. PlanTotal(p) = p[1].amount + PlanTotal(q) /\ PlanTotal(q) \in Int
  BY <1>7, <1>8, <1>9, <1>10
<1>12. QED
  BY <1>11 DEF q

-----------------------------------------------------------------------------
(* What the walk has made after k counterparties.                           *)

\* The transfers made go to the first counterparties in order, each in full but
\* for the last; while something remains, every counterparty walked over has
\* been taken in full.
Partway(b, m, order, walk, k) ==
  LET n == Len(walk.transfers)
      t == walk.transfers
  IN  /\ n <= k /\ walk.remaining + PlanTotal(t) = Size(b[m])
      /\ \A i \in 1..n :
           /\ t[i] = Between(b, m, order[i], t[i].amount)
           /\ 0 < t[i].amount /\ t[i].amount <= Size(b[order[i]])
           /\ (i < n \/ walk.remaining > 0) => t[i].amount = Size(b[order[i]])
      /\ walk.remaining > 0 => n = k

\* One more counterparty.
LEMMA PairingKeeps ==
  ASSUME NEW b \in [Member -> Int], NEW m \in Member, NEW n \in Nat,
         NEW order \in [1..n -> Member], \A i \in 1..n : b[order[i]] # 0,
         NEW k \in 1..n, NEW walk \in Walk, Partway(b, m, order, walk, k - 1)
  PROVE  Partway(b, m, order, Pairing(b, m, walk, order[k]), k)
<1> DEFINE c == Size(b[order[k]])
           a == Take(walk.remaining, c)
           t == walk.transfers
           l == Len(t)
           u == Between(b, m, order[k], a)
<1>1. /\ t \in Seq(PlannedTransfer) /\ l \in Nat /\ walk.remaining \in Nat
      /\ c \in Nat \ {0} /\ k \in Nat \ {0} /\ order[k] \in Member
  <2>1. t \in Seq(PlannedTransfer) /\ walk.remaining \in Nat
    BY DEF Walk
  <2>2. c \in Nat \ {0}
    BY SizeType
  <2>3. QED
    BY <2>1, <2>2
<1>2. /\ l <= k - 1 /\ walk.remaining + PlanTotal(t) = Size(b[m])
      /\ \A i \in 1..l :
           /\ t[i] = Between(b, m, order[i], t[i].amount)
           /\ 0 < t[i].amount /\ t[i].amount <= Size(b[order[i]])
           /\ (i < l \/ walk.remaining > 0) => t[i].amount = Size(b[order[i]])
      /\ walk.remaining > 0 => l = k - 1
  BY DEF Partway
<1>3. CASE walk.remaining = 0
  <2>1. Pairing(b, m, walk, order[k]) = walk
    BY <1>3 DEF Pairing
  <2> HIDE DEF c, a, u
  <2>2. QED
    BY <1>1, <1>2, <1>3, <2>1 DEF Partway
<1>4. CASE walk.remaining # 0
  <2> DEFINE w == Pairing(b, m, walk, order[k])
  <2>1. /\ a \in Nat /\ a <= walk.remaining /\ a <= c /\ a > 0
        /\ walk.remaining - a > 0 => a = c
    <3> HIDE DEF c
    <3>1. /\ a \in Nat /\ a <= walk.remaining /\ a <= c
          /\ a = walk.remaining \/ a = c
      BY <1>1, TakeFits
    <3> HIDE DEF a
    <3>2. QED
      BY <1>1, <1>4, <3>1
  <2>2. w.remaining = walk.remaining - a /\ w.transfers = Append(t, u)
    BY <1>4 DEF Pairing
  <2> HIDE DEF c, a
  <2>3. u \in PlannedTransfer /\ u.amount = a
    BY <1>1, <2>1 DEF Between, PlannedTransfer
  <2> HIDE DEF u, t, w
  <2>4. PlanTotal(w.transfers) = PlanTotal(t) + a /\ PlanTotal(t) \in Int
    BY <1>1, <2>2, <2>3, AppendTotals
  <2>5. /\ Len(w.transfers) = l + 1 /\ w.transfers[l + 1] = u
        /\ \A i \in 1..l : w.transfers[i] = t[i]
    BY <1>1, <2>2, <2>3
  <2>6. l = k - 1
    BY <1>1, <1>2, <1>4
  <2>7. w.remaining + PlanTotal(w.transfers) = Size(b[m])
    <3>1. Size(b[m]) \in Int
      BY SizeType
    <3>2. QED
      BY <1>1, <1>2, <2>1, <2>2, <2>4, <3>1
  <2>8. ASSUME NEW i \in 1..l
        PROVE  /\ w.transfers[i] = Between(b, m, order[i], w.transfers[i].amount)
               /\ 0 < w.transfers[i].amount
               /\ w.transfers[i].amount = Size(b[order[i]])
    <3>1. walk.remaining > 0
      BY <1>1, <1>4
    <3>2. w.transfers[i] = t[i]
      BY <2>5
    <3>3. t[i] = Between(b, m, order[i], t[i].amount) /\ 0 < t[i].amount /\ t[i].amount = Size(b[order[i]])
      BY <1>2, <3>1
    <3>4. QED
      BY <3>2, <3>3
  <2>9. /\ w.transfers[k] = Between(b, m, order[k], w.transfers[k].amount)
        /\ 0 < w.transfers[k].amount /\ w.transfers[k].amount <= c
        /\ w.remaining > 0 => w.transfers[k].amount = c
    <3>1. w.transfers[k] = u /\ w.transfers[k].amount = a
      BY <1>1, <2>3, <2>5, <2>6
    <3>2. QED
      BY <2>1, <2>2, <3>1 DEF u
  <2>10. \A i \in 1..l : Size(b[order[i]]) \in Int /\ order[i] \in Member
    <3>1. \A i \in 1..l : i \in 1..n
      BY <1>1, <1>2
    <3> HIDE DEF l
    <3>2. \A id \in Member : Size(b[id]) \in Int
      BY SizeType
    <3>3. QED
      BY <3>1, <3>2
  <2>11. Len(w.transfers) = k
    BY <1>1, <2>5, <2>6
  <2>12. \A i \in 1..k : i \in 1..l \/ i = k
    BY <1>1, <2>6
  <2>13. \A i \in 1..k :
           /\ w.transfers[i] = Between(b, m, order[i], w.transfers[i].amount)
           /\ 0 < w.transfers[i].amount /\ w.transfers[i].amount <= Size(b[order[i]])
           /\ (i < k \/ w.remaining > 0) => w.transfers[i].amount = Size(b[order[i]])
    <3>1. \A i \in 1..l : w.transfers[i].amount <= Size(b[order[i]])
      BY <2>8, <2>10
    <3> HIDE DEF l
    <3>2. QED
      BY <2>8, <2>9, <2>12, <3>1 DEF c
  <2>14. Partway(b, m, order, w, k)
    <3> HIDE DEF l
    <3>1. k <= k
      OBVIOUS
    <3>2. QED
      BY <2>7, <2>11, <2>13, <3>1 DEF Partway
  <2>15. QED
    BY <2>14 DEF w
<1>5. QED
  BY <1>3, <1>4

\* After the last counterparty.
LEMMA WalkEnds ==
  ASSUME NEW b \in [Member -> Int], NEW m \in Member, b[m] # 0
  PROVE  LET n == Cardinality(Counterparties(b, m))
             order == Sorted(b, Counterparties(b, m))
         IN  \E walk \in Walk : /\ SimplifyDebts(b, m) = walk.transfers
                                /\ Partway(b, m, order, walk, n)
<1> DEFINE C == Counterparties(b, m)
           n == Cardinality(C)
           order == Sorted(b, C)
<1>1. n \in Nat /\ order \in [1..n -> C]
  BY SortedOrders
<1>2. C \in SUBSET Member /\ \A id \in C : b[id] # 0
  BY DEF Counterparties
<1>3. PICK st : Walking(st, b, m) /\ SimplifyDebts(b, m) = st[n].transfers
  BY SimplifyWalks
<1>4. /\ st \in [0..n -> Walk] /\ st[0] = Setout(b, m)
      /\ \A k \in 1..n : st[k] = Pairing(b, m, st[k - 1], order[k])
  BY <1>3 DEF Walking
<1> HIDE DEF n, order, C
<1> DEFINE T == {k \in 0..n : Partway(b, m, order, st[k], k)}
<1>5. 0 \in T
  <2>1. PlanTotal(<<>>) = 0
    <3>1. 1..Len(<<>>) = {}
      OBVIOUS
    <3>2. QED
      BY <3>1, SumOverNothing DEF PlanTotal
  <2>2. st[0].remaining = Size(b[m]) /\ st[0].transfers = <<>>
    BY <1>4 DEF Setout
  <2>3. Size(b[m]) + 0 = Size(b[m]) /\ Len(<<>>) = 0 /\ 1..0 = {} /\ 0 <= 0 /\ 0 \in 0..n
    BY <1>1, SizeType
  <2>4. Partway(b, m, order, st[0], 0)
    BY <2>1, <2>2, <2>3 DEF Partway
  <2>5. QED
    BY <2>3, <2>4
<1>6. ASSUME NEW k \in 1..n, k - 1 \in T
      PROVE  k \in T
  <2>1. st[k - 1] \in Walk /\ k \in 0..n
    BY <1>1, <1>4
  <2>2. order \in [1..n -> Member] /\ \A i \in 1..n : b[order[i]] # 0
    BY <1>1, <1>2
  <2>3. Partway(b, m, order, st[k - 1], k - 1)
    BY <1>6
  <2>4. Partway(b, m, order, Pairing(b, m, st[k - 1], order[k]), k)
    BY <1>1, <2>1, <2>2, <2>3, PairingKeeps
  <2>5. QED
    BY <1>4, <2>1, <2>4
<1>7. 0..n \subseteq T
  <2> HIDE DEF T
  <2>1. QED
    BY <1>1, <1>5, <1>6, PrefixInduction
<1>8. n \in 0..n
  BY <1>1
<1>9. Partway(b, m, order, st[n], n) /\ st[n] \in Walk
  BY <1>4, <1>7, <1>8
<1>10. QED
  BY <1>3, <1>9 DEF n, order, C

-----------------------------------------------------------------------------
(* What a plan is while it is being paid.                                   *)

\* With whom the leaver settles.
Other(b, m, t) == IF b[m] < 0 THEN t.to ELSE t.from

\* The counterparties a plan takes in full.
Cleared(b, m, p) == {Other(b, m, p[i]) : i \in 1..(Len(p) - 1)}

\* A plan that fits the balances: it amounts to what the leaver's balance is,
\* it takes each counterparty at most once and in full but for the last, and
\* whom it clears holds at least as much as any other counterparty.
PlanFits(b, m, p) ==
  /\ p \in Seq(PlannedTransfer)
  /\ PlanTotal(p) = Size(b[m])
  /\ \A i \in 1..Len(p) :
       /\ Other(b, m, p[i]) \in Counterparties(b, m)
       /\ p[i] = Between(b, m, Other(b, m, p[i]), p[i].amount)
       /\ 0 < p[i].amount /\ p[i].amount <= Size(b[Other(b, m, p[i])])
       /\ i < Len(p) => p[i].amount = Size(b[Other(b, m, p[i])])
  /\ \A i, j \in 1..Len(p) : i < j => Other(b, m, p[i]) # Other(b, m, p[j])
  /\ \A id \in Cleared(b, m, p), c \in Counterparties(b, m) \ Cleared(b, m, p) :
       Size(b[c]) <= Size(b[id])

\* Nothing remains when the counterparties have been walked over.
LEMMA NothingRemains ==
  ASSUME NEW b \in [Member -> Int], NEW m \in Member, b[m] # 0, TotalOf(b) = 0,
         NEW walk \in Walk,
         Partway(b, m, Sorted(b, Counterparties(b, m)), walk, Cardinality(Counterparties(b, m)))
  PROVE  walk.remaining = 0
<1> DEFINE C == Counterparties(b, m)
           n == Cardinality(C)
           order == Sorted(b, C)
           t == walk.transfers
<1> SUFFICES ASSUME walk.remaining > 0 PROVE FALSE
  BY DEF Walk
<1>1. /\ n \in Nat /\ order \in [1..n -> C] /\ \A c \in C : \E i \in 1..n : order[i] = c
      /\ \A i, j \in 1..n : i < j => order[i] # order[j]
  BY SortedOrders
<1>2. C \in SUBSET Member
  BY CounterpartiesOwe
<1>3. /\ Len(t) = n /\ t \in Seq(PlannedTransfer) /\ walk.remaining + PlanTotal(t) = Size(b[m])
      /\ \A i \in 1..n : t[i].amount = Size(b[order[i]])
  BY DEF Partway, Walk
<1>4. SumOver(Sizes(b), C) >= Size(b[m])
  BY CounterpartiesSuffice
<1> HIDE DEF n, order, C, t
<1>5. \A i \in 1..n : Amounts(t)[i] = Sizes(b)[order[i]] /\ Amounts(t)[i] \in Int
  <2>1. \A i \in 1..n : Amounts(t)[i] = t[i].amount
    BY <1>3 DEF Amounts
  <2>2. \A i \in 1..n : Sizes(b)[order[i]] = Size(b[order[i]]) /\ Size(b[order[i]]) \in Int
    <3>1. \A i \in 1..n : order[i] \in Member
      BY <1>1, <1>2
    <3>2. \A id \in Member : Sizes(b)[id] = Size(b[id]) /\ Size(b[id]) \in Int
      BY SizeType DEF Sizes
    <3>3. QED
      BY <3>1, <3>2
  <2>3. QED
    BY <1>3, <2>1, <2>2
<1>6. Renames(order, Amounts(t), Sizes(b), 1..n, C)
  <2>1. \A i, j \in 1..n : order[i] = order[j] => i = j
    BY <1>1
  <2>2. \A i \in 1..n : order[i] \in C
    BY <1>1
  <2>3. QED
    BY <1>1, <1>5, <2>1, <2>2 DEF Renames
<1>7. IsFiniteSet(1..n)
  BY <1>1, FS_Interval
<1>8. SumOver(Amounts(t), 1..n) = SumOver(Sizes(b), C)
  BY <1>6, <1>7, SumReindexed
<1>9. PlanTotal(t) = SumOver(Amounts(t), 1..n) /\ SumOver(Amounts(t), 1..n) \in Int
  BY <1>3, <1>5, <1>7, SumType DEF PlanTotal
<1>10. walk.remaining \in Nat /\ Size(b[m]) \in Int
  BY SizeType DEF Walk
<1>11. QED
  BY <1>3, <1>4, <1>8, <1>9, <1>10

\* simplifyDebts answers with a plan that fits.
LEMMA SimplifyFits ==
  ASSUME NEW b \in [Member -> Int], NEW m \in Member, TotalOf(b) = 0
  PROVE  PlanFits(b, m, SimplifyDebts(b, m))
<1>1. CASE b[m] = 0
  <2>1. SimplifyDebts(b, m) = <<>>
    BY <1>1 DEF SimplifyDebts
  <2>2. PlanTotal(<<>>) = 0 /\ 1..Len(<<>>) = {} /\ 1..(Len(<<>>) - 1) = {}
    <3>1. 1..Len(<<>>) = {} /\ 1..(Len(<<>>) - 1) = {}
      OBVIOUS
    <3>2. QED
      BY <3>1, SumOverNothing DEF PlanTotal
  <2>3. Size(b[m]) = 0 /\ <<>> \in Seq(PlannedTransfer)
    BY <1>1, SizeType
  <2>4. Cleared(b, m, <<>>) = {}
    BY <2>2 DEF Cleared
  <2>5. PlanFits(b, m, <<>>)
    BY <2>2, <2>3, <2>4 DEF PlanFits
  <2>6. QED
    BY <2>1, <2>5
<1>2. CASE b[m] # 0
  <2> DEFINE C == Counterparties(b, m)
             n == Cardinality(C)
             order == Sorted(b, C)
             p == SimplifyDebts(b, m)
             l == Len(p)
  <2>1. /\ n \in Nat /\ order \in [1..n -> C] /\ \A c \in C : \E i \in 1..n : order[i] = c
        /\ \A i, j \in 1..n : i < j => order[i] # order[j] /\ Size(b[order[i]]) >= Size(b[order[j]])
    BY <1>2, SortedOrders
  <2>2. C \in SUBSET Member /\ \A id \in C : Size(b[id]) \in Int
    BY <1>2, CounterpartiesOwe, SizeType
  <2>3. PICK walk \in Walk : p = walk.transfers /\ Partway(b, m, order, walk, n)
    BY <1>2, WalkEnds
  <2>4. walk.remaining = 0
    BY <1>2, <2>3, NothingRemains
  <2>5. p \in Seq(PlannedTransfer) /\ l \in Nat
    BY <2>3 DEF Walk
  <2>6. /\ l <= n /\ 0 + PlanTotal(p) = Size(b[m])
        /\ \A i \in 1..l :
             /\ p[i] = Between(b, m, order[i], p[i].amount)
             /\ 0 < p[i].amount /\ p[i].amount <= Size(b[order[i]])
             /\ i < l => p[i].amount = Size(b[order[i]])
    <3> HIDE DEF p, order, n, C
    <3>1. QED
      BY <2>3, <2>4 DEF Partway
  <2>7. PlanTotal(p) = Size(b[m])
    <3>1. PlanTotal(p) \in Int
      <4>1. \A i \in 1..l : Amounts(p)[i] \in Int
        <5> HIDE DEF p
        <5>1. \A i \in 1..l : p[i] \in PlannedTransfer /\ i \in DOMAIN p
          BY <2>5
        <5>2. \A u \in PlannedTransfer : u.amount \in Int
          BY DEF PlannedTransfer
        <5>3. QED
          BY <5>1, <5>2 DEF Amounts
      <4>2. IsFiniteSet(1..l)
        BY <2>5, FS_Interval
      <4> HIDE DEF p
      <4>3. QED
        BY <4>1, <4>2, SumType DEF PlanTotal
    <3> HIDE DEF p
    <3>2. QED
      BY <2>6, <3>1
  <2> HIDE DEF C, n, order, p
  <2>8. \A i \in 1..l : Other(b, m, p[i]) = order[i] /\ order[i] \in C
    <3>1. ASSUME NEW i \in 1..l
          PROVE  Other(b, m, p[i]) = order[i] /\ order[i] \in C
      <4>1. i \in 1..n
        BY <2>1, <2>5, <2>6
      <4>2. \A a : Other(b, m, Between(b, m, order[i], a)) = order[i]
        BY DEF Other, Between
      <4>3. p[i] = Between(b, m, order[i], p[i].amount)
        BY <2>6
      <4>4. Other(b, m, p[i]) = order[i]
        BY <4>2, <4>3
      <4>5. QED
        BY <2>1, <4>1, <4>4
    <3>2. QED
      BY <3>1
  <2>9. \A i, j \in 1..l : i < j => Other(b, m, p[i]) # Other(b, m, p[j])
    <3>1. \A i \in 1..l : i \in 1..n
      BY <2>1, <2>5, <2>6
    <3> HIDE DEF l
    <3>2. QED
      BY <2>1, <2>8, <3>1
  <2>10. ASSUME NEW id \in Cleared(b, m, p), NEW c \in C, c \notin Cleared(b, m, p)
         PROVE  Size(b[c]) <= Size(b[id])
    <3>1. PICK i \in 1..(l - 1) : id = Other(b, m, p[i])
      BY DEF Cleared
    <3>2. PICK j \in 1..n : order[j] = c
      BY <2>1
    <3>3. i \in 1..l /\ i \in 1..n /\ id = order[i]
      BY <2>1, <2>5, <2>6, <2>8, <3>1
    <3>4. ~(j < l)
      <4>1. SUFFICES ASSUME j < l PROVE FALSE
        OBVIOUS
      <4>2. j \in 1..(l - 1) /\ j \in 1..l
        BY <2>1, <2>5, <4>1
      <4>3. c = Other(b, m, p[j])
        BY <2>8, <3>2, <4>2
      <4>4. QED
        BY <2>10, <4>2, <4>3 DEF Cleared
    <3>5. i < j
      BY <2>1, <2>5, <3>1, <3>4
    <3>6. Size(b[id]) \in Int /\ Size(b[c]) \in Int
      BY <2>1, <2>2, <2>10, <3>3
    <3>7. QED
      BY <2>1, <3>2, <3>3, <3>5, <3>6
  <2>11. \A i \in 1..l :
           /\ Other(b, m, p[i]) \in C
           /\ p[i] = Between(b, m, Other(b, m, p[i]), p[i].amount)
           /\ 0 < p[i].amount /\ p[i].amount <= Size(b[Other(b, m, p[i])])
           /\ i < l => p[i].amount = Size(b[Other(b, m, p[i])])
    BY <2>6, <2>8
  <2>12. PlanFits(b, m, p)
    BY <2>5, <2>7, <2>9, <2>10, <2>11 DEF PlanFits, C
  <2>13. QED
    BY <2>12 DEF p
<1>3. QED
  BY <1>1, <1>2

\* Every transfer is at most what the plan amounts to.
LEMMA AmountsFit ==
  ASSUME NEW p \in Seq(PlannedTransfer)
  PROVE  PlanTotal(p) \in Nat /\ \A i \in 1..Len(p) : p[i].amount <= PlanTotal(p)
<1> DEFINE n == Len(p)
<1>1. n \in Nat /\ DOMAIN p = 1..n /\ \A i \in 1..n : p[i] \in PlannedTransfer
  OBVIOUS
<1>2. \A u \in PlannedTransfer : u.amount \in Nat
  BY DEF PlannedTransfer
<1> HIDE DEF n
<1>3. \A i \in 1..n : Amounts(p)[i] = p[i].amount /\ Amounts(p)[i] \in Nat
  BY <1>1, <1>2 DEF Amounts
<1>4. IsFiniteSet(1..n)
  BY <1>1, FS_Interval
<1>5. SumOver(Amounts(p), 1..n) \in Nat /\ \A i \in 1..n : Amounts(p)[i] <= SumOver(Amounts(p), 1..n)
  BY <1>3, <1>4, SumOfNaturals
<1>6. QED
  BY <1>3, <1>5 DEF PlanTotal, n

\* Where nothing is owed nothing is to be paid.
LEMMA EmptyFits ==
  ASSUME NEW b, NEW m, Size(b[m]) = 0
  PROVE  PlanFits(b, m, <<>>) /\ PlanTotal(<<>>) = 0
<1>1. 1..Len(<<>>) = {} /\ 1..(Len(<<>>) - 1) = {} /\ <<>> \in Seq(PlannedTransfer)
  OBVIOUS
<1>2. PlanTotal(<<>>) = 0
  BY <1>1, SumOverNothing DEF PlanTotal
<1>3. Cleared(b, m, <<>>) = {}
  BY <1>1 DEF Cleared
<1>4. QED
  BY <1>1, <1>2, <1>3 DEF PlanFits

\* A payment of the plan, as PayNext books it.
Paid(b, t) == [b EXCEPT ![t.from] = @ + t.amount, ![t.to] = @ - t.amount]

\* A payment brings both sides nearer to 0, neither across it, and moves nobody
\* else.
LEMMA PaymentMoves ==
  ASSUME NEW b \in [Member -> Int], NEW m \in Member, NEW c \in Counterparties(b, m),
         NEW a \in Nat, 0 < a, a <= Size(b[c]), a <= Size(b[m])
  PROVE  LET after == Paid(b, Between(b, m, c, a))
         IN  /\ after \in [Member -> Int] /\ TotalOf(after) = TotalOf(b)
             /\ Size(after[m]) = Size(b[m]) - a /\ Size(after[c]) = Size(b[c]) - a
             /\ \A id \in Member \ {m, c} : after[id] = b[id]
             /\ a < Size(b[m]) => after[m] # 0 /\ (after[m] < 0 <=> b[m] < 0)
<1> DEFINE t == Between(b, m, c, a)
           after == Paid(b, t)
<1>1. c \in Member /\ c # m /\ (IF b[m] < 0 THEN b[c] > 0 ELSE b[c] < 0)
  BY DEF Counterparties
<1>2. t.from \in Member /\ t.to \in Member /\ t.from # t.to /\ t.amount = a
  BY <1>1 DEF Between
<1> HIDE DEF t
<1>3. /\ after \in [Member -> Int]
      /\ after[t.from] = b[t.from] + a /\ after[t.to] = b[t.to] - a
      /\ \A id \in Member \ {t.from, t.to} : after[id] = b[id]
  BY <1>2 DEF Paid
<1> HIDE DEF after
<1>4. TotalOf(after) = TotalOf(b)
  <2> DEFINE in == [id \in Member |-> IF id = t.from THEN a ELSE 0]
             out == [id \in Member |-> IF id = t.to THEN a ELSE 0]
  <2>1. in \in [Member -> Int] /\ TotalOf(in) = a /\ out \in [Member -> Int] /\ TotalOf(out) = a
    BY <1>2, TotalOfPoint
  <2>2. \A id \in Member : after[id] = (b[id] + in[id]) - out[id]
    BY <1>2, <1>3
  <2> HIDE DEF in, out
  <2>3. Plus(b, in) \in [Member -> Int] /\ \A id \in Member : Plus(b, in)[id] = b[id] + in[id]
    BY <2>1 DEF Plus
  <2>4. TotalOf(Plus(b, in)) = TotalOf(b) + TotalOf(in)
    BY <2>1, TotalOfPlus
  <2>5. \A id \in Member : after[id] = Plus(b, in)[id] - out[id]
    BY <2>2, <2>3
  <2>6. TotalOf(after) = TotalOf(Plus(b, in)) - TotalOf(out)
    BY <1>3, <2>1, <2>3, <2>5, TotalOfDifference
  <2>7. TotalOf(b) \in Int
    BY TotalIsSum
  <2>8. QED
    BY <2>1, <2>4, <2>6, <2>7
<1>5. \/ b[m] < 0 /\ t.from = m /\ t.to = c
      \/ ~(b[m] < 0) /\ t.from = c /\ t.to = m
  BY DEF Between, t
<1>6. /\ after[m] = IF b[m] < 0 THEN b[m] + a ELSE b[m] - a
      /\ after[c] = IF b[m] < 0 THEN b[c] - a ELSE b[c] + a
      /\ \A id \in Member \ {m, c} : after[id] = b[id]
  BY <1>3, <1>5
<1>7. b[m] \in Int /\ b[c] \in Int
  BY <1>1
<1>8. /\ Size(after[m]) = Size(b[m]) - a /\ Size(after[c]) = Size(b[c]) - a
      /\ a < Size(b[m]) => after[m] # 0 /\ (after[m] < 0 <=> b[m] < 0)
  BY <1>1, <1>6, <1>7 DEF Size
<1>9. QED
  BY <1>3, <1>4, <1>6, <1>8 DEF after, t

\* What is left of the plan when its head has been paid still fits.
LEMMA TailFits ==
  ASSUME NEW b \in [Member -> Int], NEW m \in Member, NEW p, p # <<>>, PlanFits(b, m, p)
  PROVE  LET after == Paid(b, p[1])
         IN  after \in [Member -> Int] /\ TotalOf(after) = TotalOf(b) /\ PlanFits(after, m, Tail(p))
<1> DEFINE n == Len(p)
           q == Tail(p)
           C == Counterparties(b, m)
           after == Paid(b, p[1])
           other(i) == Other(b, m, p[i])
           c == other(1)
           a == p[1].amount
<1>1. p \in Seq(PlannedTransfer) /\ n \in Nat \ {0} /\ PlanTotal(p) = Size(b[m])
  BY DEF PlanFits
<1>2. \A i \in 1..n : /\ other(i) \in C /\ p[i] = Between(b, m, other(i), p[i].amount)
                      /\ 0 < p[i].amount /\ p[i].amount <= Size(b[other(i)])
                      /\ i < n => p[i].amount = Size(b[other(i)])
  BY DEF PlanFits
<1>3. \A i, j \in 1..n : i < j => other(i) # other(j)
  BY DEF PlanFits
<1>4. \A id \in Cleared(b, m, p), x \in C \ Cleared(b, m, p) : Size(b[x]) <= Size(b[id])
  BY DEF PlanFits
<1>5. /\ q \in Seq(PlannedTransfer) /\ Len(q) = n - 1 /\ \A i \in 1..(n - 1) : q[i] = p[i + 1]
      /\ \A i \in 1..n : p[i] \in PlannedTransfer
  BY <1>1
<1>6. /\ \A i \in 1..n : p[i].amount \in Nat /\ p[i].amount <= PlanTotal(p)
      /\ PlanTotal(p) = a + PlanTotal(q) /\ PlanTotal(q) \in Nat
  <2>1. \A u \in PlannedTransfer : u.amount \in Nat
    BY DEF PlannedTransfer
  <2>2. PlanTotal(p) = a + PlanTotal(q)
    BY <1>1, TailTotals
  <2>3. /\ \A i \in 1..n : p[i].amount <= PlanTotal(p)
        /\ PlanTotal(q) \in Nat
    BY <1>1, <1>5, AmountsFit
  <2>4. QED
    BY <1>5, <2>1, <2>2, <2>3
<1>7. 1 \in 1..n /\ a \in Nat /\ 0 < a /\ a <= Size(b[c]) /\ a <= Size(b[m]) /\ c \in C
      /\ p[1] = Between(b, m, c, a)
  <2>1. 1 \in 1..n
    BY <1>1
  <2>2. QED
    BY <1>1, <1>2, <1>6, <2>1
<1>8. /\ after \in [Member -> Int] /\ TotalOf(after) = TotalOf(b)
      /\ Size(after[m]) = Size(b[m]) - a /\ Size(after[c]) = Size(b[c]) - a
      /\ \A id \in Member \ {m, c} : after[id] = b[id]
      /\ a < Size(b[m]) => after[m] # 0 /\ (after[m] < 0 <=> b[m] < 0)
  <2> HIDE DEF c, a, n, q
  <2> PICK x \in C : x = c
    BY <1>7
  <2> PICK y \in Nat : y = a
    BY <1>7
  <2>1. 0 < y /\ y <= Size(b[x]) /\ y <= Size(b[m])
    BY <1>7
  <2> DEFINE later == Paid(b, Between(b, m, x, y))
  <2>2. /\ later \in [Member -> Int] /\ TotalOf(later) = TotalOf(b)
        /\ Size(later[m]) = Size(b[m]) - y /\ Size(later[x]) = Size(b[x]) - y
        /\ \A id \in Member \ {m, x} : later[id] = b[id]
        /\ y < Size(b[m]) => later[m] # 0 /\ (later[m] < 0 <=> b[m] < 0)
    BY <2>1, PaymentMoves
  <2>3. after = later
    BY <1>7
  <2> HIDE DEF later, after
  <2>4. QED
    BY <2>2, <2>3
<1>9. Size(after[m]) = PlanTotal(q)
  <2>1. PlanTotal(p) = Size(b[m]) /\ PlanTotal(p) = a + PlanTotal(q)
    BY <1>1, <1>6
  <2>2. Size(after[m]) = Size(b[m]) - a
    BY <1>8
  <2>3. a \in Nat /\ PlanTotal(q) \in Nat
    BY <1>6, <1>7
  <2>4. (a + PlanTotal(q)) - a = PlanTotal(q)
    <3> HIDE DEF q, a
    <3>1. QED
      BY <2>3
  <2>5. Size(after[m]) = (a + PlanTotal(q)) - a
    BY ONLY <2>1, <2>2
  <2>6. QED
    BY ONLY <2>4, <2>5
<1> HIDE DEF after
<1>10. CASE n = 1
  <2>1. q = <<>>
    <3> HIDE DEF q
    <3>1. Len(q) = 0 /\ q \in Seq(PlannedTransfer)
      BY <1>5, <1>10
    <3>2. QED
      BY <3>1, EmptySeq
  <2> HIDE DEF q
  <2>2. PlanTotal(<<>>) = 0
    <3>1. 1..Len(<<>>) = {}
      OBVIOUS
    <3>2. QED
      BY <3>1, SumOverNothing DEF PlanTotal
  <2>3. PlanFits(after, m, q)
    BY <1>9, <2>1, <2>2, EmptyFits
  <2>4. QED
    BY <1>8, <2>3 DEF after, q
<1>11. CASE n # 1
  <2> HIDE DEF n, q, C, other, a
  <2>1. n > 1 /\ 1 < n
    BY <1>1, <1>11
  <2>2. a = Size(b[c]) /\ after[c] = 0
    <3>1. a = Size(b[c])
      BY <1>2, <1>7, <2>1 DEF a
    <3>2. Size(after[c]) = 0
      BY <1>7, <1>8, <3>1
    <3>3. c \in Member
      BY <1>7 DEF C, Counterparties
    <3>4. QED
      BY <1>8, <3>1, <3>2, <3>3, SizeType
  <2>3. a < Size(b[m])
    <3>1. 2 \in 1..n /\ 1 \in 1..(n - 1) /\ Len(q) = n - 1 /\ 1 + 1 = 2
      BY <1>1, <1>5, <2>1
    <3>2. q[1].amount <= PlanTotal(q) /\ q[1] = p[2]
      BY <1>5, <3>1, AmountsFit
    <3>3. PlanTotal(q) > 0
      BY <1>2, <1>6, <3>1, <3>2
    <3>4. QED
      BY <1>1, <1>6, <1>7, <3>3
  <2>4. after[m] # 0 /\ (after[m] < 0 <=> b[m] < 0)
    BY <1>8, <2>3
  <2>5. \A t : Other(after, m, t) = Other(b, m, t)
    BY <2>4 DEF Other
  <2>6. \A x, y : Between(after, m, x, y) = Between(b, m, x, y)
    BY <2>4 DEF Between
  <2>7. Counterparties(after, m) = C \ {c}
    <3>1. \A id \in Member \ {m, c} : after[id] = b[id]
      BY <1>8
    <3>2. QED
      BY <2>2, <2>4, <3>1 DEF C, Counterparties
  <2>8. \A id \in C \ {c} : after[id] = b[id]
    BY <1>8 DEF C, Counterparties
  <2>9. \A i \in 1..(n - 1) : i + 1 \in 1..n /\ 1 < i + 1
    BY <1>1
  <2>10. \A i \in 1..(n - 1) : Other(after, m, q[i]) = other(i + 1) /\ other(i + 1) \in C \ {c}
    <3>1. ASSUME NEW i \in 1..(n - 1)
          PROVE  Other(after, m, q[i]) = other(i + 1) /\ other(i + 1) \in C \ {c}
      <4>1. Other(after, m, q[i]) = other(i + 1)
        BY <1>5, <2>5 DEF other
      <4>2. other(i + 1) \in C
        BY <1>2, <2>9
      <4>3. other(i + 1) # c
        BY <1>3, <1>7, <2>9
      <4>4. QED
        BY <4>1, <4>2, <4>3
    <3>2. QED
      BY <3>1
  <2>11. ASSUME NEW i \in 1..Len(q)
         PROVE  /\ Other(after, m, q[i]) \in Counterparties(after, m)
                /\ q[i] = Between(after, m, Other(after, m, q[i]), q[i].amount)
                /\ 0 < q[i].amount /\ q[i].amount <= Size(after[Other(after, m, q[i])])
                /\ i < Len(q) => q[i].amount = Size(after[Other(after, m, q[i])])
    <3>1. i \in 1..(n - 1) /\ i + 1 \in 1..n /\ q[i] = p[i + 1]
      BY <1>5, <2>9
    <3>2. Other(after, m, q[i]) = other(i + 1) /\ other(i + 1) \in C \ {c}
      BY <2>10, <3>1
    <3>3. Size(after[other(i + 1)]) = Size(b[other(i + 1)])
      BY <2>8, <3>2
    <3>4. i < Len(q) => i + 1 < n
      BY <1>1, <1>5, <3>1
    <3>5. /\ p[i + 1] = Between(b, m, other(i + 1), p[i + 1].amount)
          /\ 0 < p[i + 1].amount /\ p[i + 1].amount <= Size(b[other(i + 1)])
          /\ i + 1 < n => p[i + 1].amount = Size(b[other(i + 1)])
      BY <1>2, <3>1
    <3>6. QED
      BY <2>6, <2>7, <3>1, <3>2, <3>3, <3>4, <3>5
  <2>12. ASSUME NEW i \in 1..Len(q), NEW j \in 1..Len(q), i < j
         PROVE  Other(after, m, q[i]) # Other(after, m, q[j])
    <3>1. i \in 1..(n - 1) /\ j \in 1..(n - 1) /\ i + 1 < j + 1
      BY <1>5, <2>12
    <3>2. QED
      BY <1>3, <2>9, <2>10, <3>1
  <2>13. Cleared(after, m, q) = Cleared(b, m, p) \ {c}
    <3>1. \A i \in 1..(Len(q) - 1) : i \in 1..(n - 1) /\ i + 1 \in 1..(n - 1)
      BY <1>1, <1>5
    <3>2. \A i \in 1..(n - 1) : i = 1 \/ (i - 1 \in 1..(Len(q) - 1) /\ (i - 1) + 1 = i)
      BY <1>1, <1>5
    <3>3. \A id : id \in Cleared(b, m, p) <=> \E i \in 1..(n - 1) : id = other(i)
      BY DEF Cleared, other, n
    <3>4. \A id : id \in Cleared(after, m, q) <=> \E i \in 1..(Len(q) - 1) : id = Other(after, m, q[i])
      BY DEF Cleared
    <3>5. ASSUME NEW id \in Cleared(after, m, q)
          PROVE  id \in Cleared(b, m, p) \ {c}
      BY <2>10, <3>1, <3>3, <3>4
    <3>6. ASSUME NEW id \in Cleared(b, m, p), id # c
          PROVE  id \in Cleared(after, m, q)
      <4>1. PICK i \in 1..(n - 1) : id = other(i)
        BY <3>3
      <4>2. i # 1
        BY <3>6, <4>1
      <4>3. i - 1 \in 1..(Len(q) - 1) /\ (i - 1) + 1 = i /\ i - 1 \in 1..(n - 1)
        BY <3>1, <3>2, <4>2
      <4>4. Other(after, m, q[i - 1]) = other(i)
        BY <2>10, <4>3
      <4>5. QED
        BY <3>4, <4>1, <4>3, <4>4
    <3>7. QED
      BY <3>5, <3>6
  <2>14. c \in Cleared(b, m, p)
    BY <2>1, <1>1 DEF Cleared, other, n
  <2>15. ASSUME NEW id \in Cleared(after, m, q),
                NEW x \in Counterparties(after, m) \ Cleared(after, m, q)
         PROVE  Size(after[x]) <= Size(after[id])
    <3>1. id \in Cleared(b, m, p) /\ x \in C \ Cleared(b, m, p) /\ x # c
      BY <2>7, <2>13
    <3>2. id \in C \ {c}
      <4>1. PICK i \in 1..(Len(q) - 1) : id = Other(after, m, q[i])
        BY DEF Cleared
      <4>2. i \in 1..(n - 1)
        BY <1>1, <1>5
      <4>3. QED
        BY <2>10, <4>1, <4>2
    <3>3. QED
      BY <1>4, <2>8, <3>1, <3>2
  <2>16. PlanFits(after, m, q)
    BY <1>5, <1>9, <2>11, <2>12, <2>15 DEF PlanFits
  <2>17. QED
    BY <1>8, <2>16 DEF after, q
<1>12. QED
  BY <1>10, <1>11

\* A plan that fits has one transfer more than the counterparties it clears, and
\* these hold less than the leaver's balance.
LEMMA ClearedFallShort ==
  ASSUME NEW b \in [Member -> Int], NEW m \in Member, NEW p, p # <<>>, PlanFits(b, m, p)
  PROVE  LET P == Cleared(b, m, p)
         IN  /\ P \in SUBSET Counterparties(b, m) /\ IsFiniteSet(P) /\ Cardinality(P) = Len(p) - 1
             /\ SumOver(Sizes(b), P) < Size(b[m])
<1> DEFINE n == Len(p)
           k == n - 1
           C == Counterparties(b, m)
           P == Cleared(b, m, p)
           other == [i \in 1..k |-> Other(b, m, p[i])]
<1>1. p \in Seq(PlannedTransfer) /\ n \in Nat \ {0} /\ PlanTotal(p) = Size(b[m])
  BY DEF PlanFits
<1>2. \A i \in 1..n : Other(b, m, p[i]) \in C /\ 0 < p[i].amount
                      /\ (i < n => p[i].amount = Size(b[Other(b, m, p[i])]))
  BY DEF PlanFits
<1>3. \A i, j \in 1..n : i < j => Other(b, m, p[i]) # Other(b, m, p[j])
  BY DEF PlanFits
<1>4. \A i \in 1..k : i \in 1..n /\ i < n /\ other[i] = Other(b, m, p[i])
  BY <1>1
<1>5. P = {other[i] : i \in 1..k}
  BY DEF Cleared
<1>6. C \in SUBSET Member /\ \A id \in Member : Sizes(b)[id] = Size(b[id]) /\ Size(b[id]) \in Nat
  BY SizeType DEF Sizes, Counterparties
<1>7. \A i \in 1..n : Amounts(p)[i] = p[i].amount /\ p[i].amount \in Nat
  <2>1. \A i \in 1..n : p[i] \in PlannedTransfer /\ i \in DOMAIN p
    BY <1>1
  <2>2. \A u \in PlannedTransfer : u.amount \in Nat
    BY DEF PlannedTransfer
  <2>3. QED
    BY <2>1, <2>2 DEF Amounts
<1> HIDE DEF n, C, P, other
<1>8. k \in Nat /\ n = k + 1 /\ n \in 1..n /\ n \notin 1..k /\ (1..k) \cup {n} = 1..n
  BY <1>1
<1>9. IsFiniteSet(1..k) /\ Cardinality(1..k) = k
  <2>1. 1 \in Int /\ k \in Int /\ (IF 1 > k THEN 0 ELSE k - 1 + 1) = k
    BY <1>8
  <2> HIDE DEF k
  <2>2. QED
    BY <2>1, FS_Interval
<1> HIDE DEF k
<1>10. /\ \A i, j \in 1..k : other[i] = other[j] => i = j
       /\ \A i \in 1..k : other[i] \in P /\ other[i] \in C
       /\ \A id \in P : \E i \in 1..k : other[i] = id
  <2>1. ASSUME NEW i \in 1..k, NEW j \in 1..k, i # j
        PROVE  other[i] # other[j]
    <3>1. i < j \/ j < i
      BY <1>8, <2>1
    <3>2. QED
      BY <1>3, <1>4, <3>1
  <2>2. QED
    BY <1>2, <1>4, <1>5, <2>1
<1>11. P \in SUBSET C /\ IsFiniteSet(P) /\ Cardinality(P) = k
  <2>1. other \in Bijection(1..k, P)
    <3>1. other \in [1..k -> P]
      BY <1>10 DEF other
    <3>2. QED
      BY <1>10, <3>1 DEF Bijection, Injection, Surjection, IsInjective
  <2>2. ExistsBijection(1..k, P)
    BY <2>1 DEF ExistsBijection
  <2>3. IsFiniteSet(P) /\ Cardinality(P) = Cardinality(1..k)
    BY <1>9, <2>2, FS_Bijection
  <2>4. QED
    BY <1>9, <1>10, <2>3
<1>12. SumOver(Amounts(p), 1..k) = SumOver(Sizes(b), P)
  <2>1. \A i \in 1..k : Amounts(p)[i] \in Int /\ Sizes(b)[other[i]] = Amounts(p)[i]
    BY <1>2, <1>4, <1>6, <1>7
  <2>2. Renames(other, Amounts(p), Sizes(b), 1..k, P)
    BY <1>10, <2>1 DEF Renames
  <2>3. QED
    BY <1>9, <2>2, SumReindexed
<1>13. SumOver(Amounts(p), (1..k) \cup {n}) = SumOver(Amounts(p), 1..k) + Amounts(p)[n]
  <2>1. \A i \in (1..k) \cup {n} : Amounts(p)[i] \in Int
    BY <1>7, <1>8
  <2>2. QED
    BY <1>8, <1>9, <2>1, SumAddsElement
<1>14. SumOver(Amounts(p), 1..k) \in Int
  <2>1. \A i \in 1..k : Amounts(p)[i] \in Int
    BY <1>4, <1>7
  <2>2. QED
    BY <1>9, <2>1, SumType
<1>15. PlanTotal(p) = SumOver(Amounts(p), 1..k) + Amounts(p)[n]
  BY <1>8, <1>13 DEF PlanTotal, n
<1>16. Amounts(p)[n] \in Nat /\ 0 < Amounts(p)[n]
  BY <1>2, <1>7, <1>8
<1>17. SumOver(Sizes(b), P) < Size(b[m])
  <2>1. Size(b[m]) = SumOver(Sizes(b), P) + Amounts(p)[n] /\ SumOver(Sizes(b), P) \in Int
    BY <1>1, <1>12, <1>14, <1>15
  <2>2. QED
    BY <1>16, <2>1
<1>18. QED
  BY <1>11, <1>17 DEF P, C, k, n

\* As many counterparties as are cleared, or fewer, hold at most what these hold.
LEMMA ClearedHoldMost ==
  ASSUME NEW b \in [Member -> Int], NEW m \in Member, NEW p, PlanFits(b, m, p),
         NEW P, P = Cleared(b, m, p), P \in SUBSET Counterparties(b, m),
         NEW S \in SUBSET Counterparties(b, m), Cardinality(S) <= Cardinality(P)
  PROVE  SumOver(Sizes(b), S) <= SumOver(Sizes(b), P)
<1> DEFINE C == Counterparties(b, m)
           f == Sizes(b)
<1>1. \A id \in P, x \in C \ P : Size(b[x]) <= Size(b[id])
  BY DEF PlanFits
<1>2. C \in SUBSET Member /\ IsFiniteSet(Member)
  BY MemberAssumption DEF Counterparties
<1>3. \A id \in Member : f[id] = Size(b[id]) /\ f[id] \in Nat
  BY SizeType DEF Sizes
<1> HIDE DEF C, f
<1>4. IsFiniteSet(S) /\ IsFiniteSet(P) /\ S \in SUBSET Member /\ P \in SUBSET Member
  <2>1. S \in SUBSET Member /\ P \in SUBSET Member
    BY <1>2 DEF C
  <2>2. QED
    BY <1>2, <2>1, FS_Subset
<1> DEFINE A == S \ P
           B == P \ S
           I == S \cap P
<1>5. IsFiniteSet(A) /\ IsFiniteSet(B) /\ Cardinality(A) <= Cardinality(B)
  <2>1. IsFiniteSet(A) /\ Cardinality(A) = Cardinality(S) - Cardinality(I)
    BY <1>4, FS_Difference
  <2>2. IsFiniteSet(B) /\ Cardinality(B) = Cardinality(P) - Cardinality(P \cap S)
    BY <1>4, FS_Difference
  <2>3. P \cap S = I /\ IsFiniteSet(I)
    BY <1>4, FS_Subset
  <2>4. Cardinality(I) \in Nat /\ Cardinality(S) \in Nat /\ Cardinality(P) \in Nat
    BY <1>4, <2>3, FS_CardinalityType
  <2> HIDE DEF A, B, I
  <2>5. Cardinality(A) = Cardinality(S) - Cardinality(I) /\ Cardinality(B) = Cardinality(P) - Cardinality(I)
    BY <2>1, <2>2, <2>3
  <2>6. QED
    BY <2>1, <2>2, <2>4, <2>5
<1>6. SumOver(f, A) <= SumOver(f, B)
  <2>1. \A x \in A \cup B : f[x] \in Nat
    BY <1>3, <1>4
  <2>2. \A x \in A, y \in B : f[x] <= f[y]
    BY <1>1, <1>3, <1>4 DEF C
  <2> HIDE DEF A, B, I
  <2>3. QED
    BY <1>5, <2>1, <2>2, SumDominated
<1>7. SumOver(f, S) = SumOver(f, I) + SumOver(f, A) /\ SumOver(f, A) \in Int
  <2>1. I \in SUBSET S /\ S \ I = A /\ \A x \in S : f[x] \in Int
    BY <1>3, <1>4
  <2>2. \A x \in A : f[x] \in Int
    BY <1>3, <1>4
  <2> HIDE DEF A, I
  <2>3. SumOver(f, S) = SumOver(f, I) + SumOver(f, S \ I)
    BY <1>4, <2>1, SumSplits
  <2>4. QED
    BY <1>5, <2>1, <2>2, <2>3, SumType
<1>8. SumOver(f, P) = SumOver(f, I) + SumOver(f, B) /\ SumOver(f, B) \in Int
  <2>1. I \in SUBSET P /\ P \ I = B /\ \A x \in P : f[x] \in Int
    BY <1>3, <1>4
  <2>2. \A x \in B : f[x] \in Int
    BY <1>3, <1>4
  <2> HIDE DEF B, I
  <2>3. SumOver(f, P) = SumOver(f, I) + SumOver(f, P \ I)
    BY <1>4, <2>1, SumSplits
  <2>4. QED
    BY <1>5, <2>1, <2>2, <2>3, SumType
<1>9. SumOver(f, I) \in Int
  <2>1. IsFiniteSet(I) /\ \A x \in I : f[x] \in Int
    BY <1>3, <1>4, FS_Subset
  <2> HIDE DEF I
  <2>2. QED
    BY <2>1, SumType
<1> HIDE DEF A, B, I
<1>10. QED
  BY <1>6, <1>7, <1>8, <1>9 DEF f

-----------------------------------------------------------------------------

\* The invariant: the balances add up to nothing, and while somebody is leaving
\* the plan fits them.
PlanInv ==
  /\ balance \in [Member -> Int] /\ TotalOf(balance) = 0
  /\ leaver \in Member \cup {Nobody}
  /\ leaver = Nobody => plan = <<>>
  /\ leaver \in Member => PlanFits(balance, leaver, plan)

\* Nobody is not a member.
LEMMA NobodyIsNoMember == Nobody \notin Member
  BY MemberAssumption DEF Nobody

\* What is at most each of two numbers is at most the lesser.
LEMMA LeastOfTwo ==
  ASSUME NEW x \in Nat, NEW y \in Nat, NEW a \in Nat, a <= x, a <= y
  PROVE  a <= Min({x, y})
<1>1. \E z \in {x, y} : \A w \in {x, y} : z <= w
  OBVIOUS
<1>2. QED
  BY <1>1 DEF Min

\* The plan's total as the properties state it.
LEMMA TotalsAgree ==
  ASSUME NEW p \in Seq(PlannedTransfer)
  PROVE  TotalOf([i \in DOMAIN p |-> p[i].amount]) = PlanTotal(p)
<1>1. DOMAIN p = 1..Len(p) /\ DOMAIN Amounts(p) = DOMAIN p
  BY DEF Amounts
<1>2. TotalOf(Amounts(p)) = SumOver(Amounts(p), DOMAIN Amounts(p))
  BY DEF TotalOf, SumOver
<1>3. QED
  BY <1>1, <1>2 DEF PlanTotal, Amounts

\* A plan that fits passes the checks of proposeSettlement, transfer by
\* transfer.
LEMMA PlanSuffices == PlanInv => PlanClears
<1> SUFFICES ASSUME PlanInv PROVE PlanClears
  OBVIOUS
<1>1. CASE leaver = Nobody
  <2>1. plan = <<>>
    BY <1>1 DEF PlanInv
  <2>2. DOMAIN plan = {}
    BY <2>1
  <2>3. QED
    BY <1>1, <2>2 DEF PlanClears
<1>2. CASE leaver # Nobody
  <2> PICK m \in Member : m = leaver
    BY <1>2 DEF PlanInv
  <2>1. balance \in [Member -> Int] /\ PlanFits(balance, m, plan)
    BY DEF PlanInv
  <2>2. plan \in Seq(PlannedTransfer) /\ PlanTotal(plan) = Size(balance[m]) /\ DOMAIN plan = 1..Len(plan)
    BY <2>1 DEF PlanFits
  <2>3. TotalOf([i \in DOMAIN plan |-> plan[i].amount]) = Size(balance[m])
    BY <2>2, TotalsAgree
  <2>4. ASSUME NEW i \in 1..Len(plan)
        PROVE  /\ plan[i].amount > 0 /\ balance[plan[i].from] < 0 /\ balance[plan[i].to] > 0
               /\ plan[i].amount <= Min({-balance[plan[i].from], balance[plan[i].to]})
    <3> DEFINE c == Other(balance, m, plan[i])
               a == plan[i].amount
    <3>1. /\ c \in Counterparties(balance, m) /\ plan[i] = Between(balance, m, c, a)
          /\ 0 < a /\ a <= Size(balance[c])
      BY <2>1 DEF PlanFits
    <3>2. a \in Nat /\ a <= Size(balance[m])
      <4>1. \A u \in PlannedTransfer : u.amount \in Nat
        BY DEF PlannedTransfer
      <4>2. plan[i] \in PlannedTransfer
        BY <2>2
      <4>3. a <= PlanTotal(plan)
        BY <2>2, AmountsFit
      <4>4. QED
        BY <2>2, <4>1, <4>2, <4>3
    <3> HIDE DEF c
    <3> PICK x \in Counterparties(balance, m) : x = c
      BY <3>1
    <3> PICK y \in Nat : y = a
      BY <3>2
    <3>3. x \in Member /\ x # m /\ (IF balance[m] < 0 THEN balance[x] > 0 ELSE balance[x] < 0)
      BY DEF Counterparties
    <3>4. balance[x] \in Int /\ balance[m] \in Int
      BY <2>1, <3>3
    <3>5. 0 < y /\ y <= Size(balance[x]) /\ y <= Size(balance[m])
      BY <3>1, <3>2
    <3>6. plan[i] = Between(balance, m, x, y)
      BY <3>1
    <3> HIDE DEF a
    <3>7. CASE balance[m] < 0
      <4>1. plan[i].from = m /\ plan[i].to = x /\ plan[i].amount = y
        BY <3>6, <3>7 DEF Between
      <4>2. /\ balance[x] > 0 /\ -balance[m] \in Nat /\ balance[x] \in Nat
            /\ y <= -balance[m] /\ y <= balance[x]
        BY <3>3, <3>4, <3>5, <3>7 DEF Size
      <4>3. y <= Min({-balance[m], balance[x]})
        BY <4>2, LeastOfTwo
      <4>4. QED
        BY <3>5, <3>7, <4>1, <4>2, <4>3
    <3>8. CASE ~(balance[m] < 0)
      <4>1. plan[i].from = x /\ plan[i].to = m /\ plan[i].amount = y
        BY <3>6, <3>8 DEF Between
      <4>2. /\ balance[x] < 0 /\ balance[m] > 0 /\ -balance[x] \in Nat /\ balance[m] \in Nat
            /\ y <= -balance[x] /\ y <= balance[m]
        BY <3>3, <3>4, <3>5, <3>8 DEF Size
      <4>3. y <= Min({-balance[x], balance[m]})
        BY <4>2, LeastOfTwo
      <4>4. QED
        BY <3>5, <4>1, <4>2, <4>3
    <3>9. QED
      BY <3>7, <3>8
  <2>5. QED
    BY <2>2, <2>3, <2>4 DEF PlanClears
<1>3. QED
  BY <1>1, <1>2

\* A set of counterparties that could absorb the balance has more members than
\* the plan clears.
LEMMA MinimalitySuffices == PlanInv => PlanIsMinimal
<1> SUFFICES ASSUME PlanInv, leaver # Nobody, NEW S \in SUBSET Counterparties(balance, leaver),
                    TotalOf([id \in S |-> Size(balance[id])]) >= Size(balance[leaver])
             PROVE  Cardinality(S) >= Len(plan)
  BY DEF PlanIsMinimal
<1> PICK m \in Member : m = leaver
  BY DEF PlanInv
<1> PICK b \in [Member -> Int] : b = balance
  BY DEF PlanInv
<1>1. PlanFits(b, m, plan)
  BY DEF PlanInv
<1> PICK p : p = plan
  OBVIOUS
<1>2. S \in SUBSET Member /\ IsFiniteSet(S) /\ Cardinality(S) \in Nat /\ S \in SUBSET Counterparties(b, m)
  <2>1. S \in SUBSET Member
    BY DEF Counterparties
  <2>2. QED
    BY <2>1, FS_Subset, FS_CardinalityType, MemberAssumption
<1>3. SumOver(Sizes(b), S) >= Size(b[m])
  <2> DEFINE f == [id \in S |-> Size(b[id])]
  <2>1. TotalOf(f) = SumOver(f, S)
    <3>1. DOMAIN f = S
      OBVIOUS
    <3> HIDE DEF f
    <3>2. QED
      BY <3>1 DEF TotalOf, SumOver
  <2>2. \A id \in S : f[id] = Size(b[id]) /\ Sizes(b)[id] = Size(b[id]) /\ Size(b[id]) \in Int
    BY <1>2, SizeType DEF Sizes
  <2>3. TotalOf(f) >= Size(b[m])
    OBVIOUS
  <2> HIDE DEF f
  <2>4. SumOver(f, S) = SumOver(Sizes(b), S)
    BY <1>2, <2>2, SumOfEquals
  <2>5. QED
    BY <2>1, <2>3, <2>4
<1>4. CASE p = <<>>
  <2>1. Len(plan) = 0
    BY <1>4
  <2>2. QED
    BY <1>2, <2>1
<1>5. CASE p # <<>>
  <2> PICK P : P = Cleared(b, m, p)
    OBVIOUS
  <2>1. /\ P \in SUBSET Counterparties(b, m) /\ Cardinality(P) = Len(p) - 1
        /\ SumOver(Sizes(b), P) < Size(b[m]) /\ IsFiniteSet(P)
    BY <1>1, <1>5, ClearedFallShort
  <2>2. ASSUME Cardinality(S) <= Cardinality(P)
        PROVE  FALSE
    <3>1. SumOver(Sizes(b), S) <= SumOver(Sizes(b), P)
      BY <1>1, <1>2, <2>1, <2>2, ClearedHoldMost
    <3>2. SumOver(Sizes(b), S) \in Int /\ SumOver(Sizes(b), P) \in Int /\ Size(b[m]) \in Int
      <4>1. \A id \in Member : Sizes(b)[id] \in Int /\ Size(b[id]) \in Int
        BY SizeType DEF Sizes
      <4>2. P \in SUBSET Member
        BY <2>1 DEF Counterparties
      <4>3. (\A id \in S : Sizes(b)[id] \in Int) /\ (\A id \in P : Sizes(b)[id] \in Int)
        BY <1>2, <4>1, <4>2
      <4>4. QED
        BY <1>2, <2>1, <4>1, <4>3, SumType
    <3>3. QED
      BY <1>3, <2>1, <3>1, <3>2
  <2>3. Cardinality(P) \in Nat /\ Len(p) \in Nat
    <3>1. p \in Seq(PlannedTransfer)
      BY <1>1 DEF PlanFits
    <3>2. QED
      BY <2>1, <3>1, FS_CardinalityType
  <2>4. QED
    BY <1>2, <2>1, <2>2, <2>3
<1>6. QED
  BY <1>4, <1>5

\* Nobody is leaving at the start, with no balances.
LEMMA PlanStart == Init => PlanInv
<1> SUFFICES ASSUME Init PROVE PlanInv
  OBVIOUS
<1>1. leaver = Nobody /\ plan = <<>> /\ balance \in [Member -> Int] /\ \A m \in Member : balance[m] = 0
  BY DEF Init
<1>2. TotalOf(balance) = 0
  <2>1. 0 \in Int
    OBVIOUS
  <2>2. SumOver(balance, Member) = 0 * Cardinality(Member)
    BY <1>1, <2>1, SumOfConstant, MemberAssumption
  <2>3. Cardinality(Member) \in Nat
    BY FS_CardinalityType, MemberAssumption
  <2>4. QED
    BY <1>1, <2>2, <2>3, TotalIsSum
<1>3. QED
  BY <1>1, <1>2, NobodyIsNoMember DEF PlanInv

\* A receipt ends a plan, a request makes one that fits, and a payment leaves
\* the rest of it.
LEMMA PlanStep == SharesInv /\ PlanInv /\ [Next]_vars => PlanInv'
<1> SUFFICES ASSUME SharesInv, PlanInv, [Next]_vars PROVE PlanInv'
  OBVIOUS
<1>1. ASSUME NEW payer \in Member, RecordReceipt(payer)
      PROVE  PlanInv'
  <2> DEFINE shares == ComputeShares(next, cost, group)
             effect == ReceiptEffect(payer, cost, shares)
  <2>1. balance' = Plus(balance, effect) /\ leaver' = Nobody /\ plan' = <<>>
    BY <1>1 DEF RecordReceipt
  <2>2. next \in Int /\ cost \in Nat /\ group \in SUBSET Member /\ group # {}
    BY DEF SharesInv
  <2>3. shares \in [Member -> Nat] /\ TotalOf(shares) = cost
    BY <2>2, SharesType, SharesAddUp
  <2> HIDE DEF shares
  <2>4. effect \in [Member -> Int] /\ TotalOf(effect) = cost - TotalOf(shares)
    BY <2>2, <2>3, EffectType, EffectTotal
  <2> HIDE DEF effect
  <2>5. balance \in [Member -> Int] /\ TotalOf(balance) = 0
    BY DEF PlanInv
  <2>6. Plus(balance, effect) \in [Member -> Int]
    BY <2>4, <2>5 DEF Plus
  <2>7. TotalOf(Plus(balance, effect)) = 0
    <3>1. TotalOf(Plus(balance, effect)) = TotalOf(balance) + TotalOf(effect)
      BY <2>4, <2>5, TotalOfPlus
    <3>2. QED
      BY <2>2, <2>3, <2>4, <2>5, <3>1
  <2>8. QED
    BY <2>1, <2>6, <2>7, NobodyIsNoMember DEF PlanInv
<1>2. ASSUME NEW m \in Member, AskToLeave(m)
      PROVE  PlanInv'
  <2>1. leaver' = m /\ plan' = SimplifyDebts(balance, m) /\ balance' = balance
    BY <1>2 DEF AskToLeave
  <2>2. balance \in [Member -> Int] /\ TotalOf(balance) = 0
    BY DEF PlanInv
  <2>3. PlanFits(balance, m, SimplifyDebts(balance, m))
    BY <2>2, SimplifyFits
  <2>4. QED
    BY <2>1, <2>2, <2>3, NobodyIsNoMember DEF PlanInv
<1>3. CASE PayNext
  <2>1. plan # <<>> /\ balance' = Paid(balance, Head(plan)) /\ plan' = Tail(plan) /\ leaver' = leaver
    BY <1>3 DEF PayNext, Paid
  <2>2. leaver \in Member
    BY <2>1 DEF PlanInv
  <2>3. balance \in [Member -> Int] /\ TotalOf(balance) = 0 /\ PlanFits(balance, leaver, plan)
    BY <2>2 DEF PlanInv
  <2>4. Head(plan) = plan[1]
    BY <2>1, <2>3 DEF PlanFits
  <2> PICK after, rest : after = Paid(balance, plan[1]) /\ rest = Tail(plan)
    OBVIOUS
  <2>5. after \in [Member -> Int] /\ TotalOf(after) = 0 /\ PlanFits(after, leaver, rest)
    BY <2>1, <2>2, <2>3, TailFits
  <2>6. balance' = after /\ plan' = rest /\ leaver' = leaver
    BY <2>1, <2>4
  <2>7. QED
    BY <2>2, <2>5, <2>6, NobodyIsNoMember DEF PlanInv
<1>4. CASE UNCHANGED vars
  BY <1>4 DEF PlanInv, vars
<1>5. QED
  BY <1>1, <1>2, <1>3, <1>4 DEF Next

\* The plan can be paid as it was computed, and clears the member, whoever asks
\* and whatever the balances are.
THEOREM PlansClear == Spec => []PlanClears
<1>1. QED
  BY SharesStart, SharesStep, PlanStart, PlanStep, PlanSuffices, PTL DEF Spec

\* No plan of fewer transfers would do.
THEOREM PlansAreMinimal == Spec => []PlanIsMinimal
<1>1. QED
  BY SharesStart, SharesStep, PlanStart, PlanStep, MinimalitySuffices, PTL DEF Spec
===============================================================================
