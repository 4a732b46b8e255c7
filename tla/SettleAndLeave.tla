---------------------------- MODULE SettleAndLeave ----------------------------
(***************************************************************************)
(* The arithmetic behind "settle and leave": equal receipts are recorded   *)
(* one after the other, a member asks what clears them (simplifyDebts in   *)
(* services/householdLedger.ts), and the transfers of the answer are       *)
(* proposed and confirmed in that order.                                   *)
(***************************************************************************)
EXTENDS HouseholdLedger

CONSTANT MaxReceipts  \* bound: receipts recorded in a behaviour

ASSUME MaxReceiptsAssumption == MaxReceipts \in Nat

VARIABLES
  first,    \* the id of the first receipt
  cost,     \* what every receipt amounts to
  group,    \* who shares every receipt
  next,     \* the id of the next receipt
  charged,  \* the shares each member has been charged
  balance,  \* the folded balances
  leaver,   \* who asked, or nobody
  plan      \* the transfers still to be made

vars == <<first, cost, group, next, charged, balance, leaver, plan>>

Nobody == AutoConfirm

-----------------------------------------------------------------------------
(* simplifyDebts.                                                          *)

Size(n) == IF n < 0 THEN -n ELSE n

Counterparties(b, m) ==
  {id \in Member \ {m} : IF b[m] < 0 THEN b[id] > 0 ELSE b[id] < 0}

\* Fault: the smallest balance comes first.
SmallerFirst(b, id, other) ==
  Size(b[id]) < Size(b[other]) \/ (b[id] = b[other] /\ id < other)

LargerFirst(b, id, other) ==
  Size(b[id]) > Size(b[other]) \/ (b[id] = b[other] /\ id < other)

\* Fault: a transfer takes all the counterparty has.
TakeAll(remaining, capacity) == capacity

Take(remaining, capacity) == Min({remaining, capacity})

\* The counterparties in the order in which their balances are taken.
Sorted(b, S) ==
  CHOOSE order \in [1..Cardinality(S) -> S] :
    \A i, j \in DOMAIN order : i < j => LargerFirst(b, order[i], order[j])

SimplifyDebts(b, m) ==
  LET owes == b[m] < 0
      transfer(id, amount) == IF owes THEN [from |-> m, to |-> id, amount |-> amount]
                              ELSE [from |-> id, to |-> m, amount |-> amount]
      pair(walk, id) ==
        LET amount == Take(walk.remaining, Size(b[id]))
        IN  IF walk.remaining = 0 THEN walk
            ELSE [remaining |-> walk.remaining - amount,
                  transfers |-> Append(walk.transfers, transfer(id, amount))]
  IN  IF b[m] = 0 THEN <<>>
      ELSE FoldLeft(pair, [remaining |-> Size(b[m]), transfers |-> <<>>],
                    Sorted(b, Counterparties(b, m))).transfers

-----------------------------------------------------------------------------

Init ==
  /\ first \in Receipt /\ cost \in Amount /\ group \in (SUBSET Member) \ {{}}
  /\ next = first
  /\ charged = [m \in Member |-> 0] /\ balance = [m \in Member |-> 0]
  /\ leaver = Nobody /\ plan = <<>>

RecordReceipt(payer) ==
  LET shares == ComputeShares(next, cost, group)
  IN  /\ plan = <<>> /\ next - first < MaxReceipts
      /\ next' = next + 1
      /\ charged' = Plus(charged, shares)
      /\ balance' = Plus(balance, ReceiptEffect(payer, cost, shares))
      /\ leaver' = Nobody
      /\ UNCHANGED <<first, cost, group, plan>>

AskToLeave(m) ==
  /\ plan = <<>>
  /\ leaver' = m
  /\ plan' = SimplifyDebts(balance, m)
  /\ UNCHANGED <<first, cost, group, next, charged, balance>>

\* The transfer at the head of the plan is proposed and confirmed.
PayNext ==
  LET t == Head(plan)
  IN  /\ plan # <<>>
      /\ balance' = [balance EXCEPT ![t.from] = @ + t.amount, ![t.to] = @ - t.amount]
      /\ plan' = Tail(plan)
      /\ UNCHANGED <<first, cost, group, next, charged, leaver>>

Next ==
  \/ \E payer \in Member : RecordReceipt(payer)
  \/ \E m \in Member : AskToLeave(m)
  \/ PayNext

Spec == Init /\ [][Next]_vars

-----------------------------------------------------------------------------
(* Properties.                                                             *)

\* The odd cents go round: no cent is lost or made, and whenever the group has
\* shared a multiple of its size in consecutive receipts of one amount, all of
\* its members have paid the same (computeShares, "not biased").
OddCentsGoRound ==
  /\ TotalOf(charged) = cost * (next - first)
  /\ (next - first) % Cardinality(group) = 0 =>
       \A m, n \in group : charged[m] = charged[n]

\* Every transfer of the plan passes the checks of proposeSettlement, from the
\* moment it is computed until it is its turn to be paid (the plan is made of
\* "the exact objects the propose endpoint takes back"), and at no time does
\* the plan leave a rest ("the transfers sum EXACTLY to |balance|").
PlanClears ==
  /\ \A i \in DOMAIN plan :
       /\ plan[i].amount > 0
       /\ balance[plan[i].from] < 0 /\ balance[plan[i].to] > 0
       /\ plan[i].amount <= Min({-balance[plan[i].from], balance[plan[i].to]})
  /\ leaver # Nobody =>
       TotalOf([i \in DOMAIN plan |-> plan[i].amount]) = Size(balance[leaver])

\* No smaller set of counterparties could absorb the member's balance ("the
\* minimal set of transfers").
PlanIsMinimal ==
  leaver # Nobody =>
    \A S \in SUBSET Counterparties(balance, leaver) :
      TotalOf([id \in S |-> Size(balance[id])]) >= Size(balance[leaver])
        => Cardinality(S) >= Len(plan)
=============================================================================
