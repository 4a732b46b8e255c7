--------------------------- MODULE HouseholdLedger ---------------------------
(***************************************************************************)
(* The append-only event log of one household and everything that is       *)
(* derived from it (services/householdLedger.ts, models/                   *)
(* householdLedgerModel.ts).  There are no variables here: the log is an   *)
(* argument of every operator, exactly as it is of deriveLedgerState.      *)
(*                                                                         *)
(* Member ids are naturals because the code orders members by id; amounts  *)
(* are integer cents.  A log is a sequence of events in fold order, that   *)
(* is ORDER BY at ASC, id ASC.                                             *)
(***************************************************************************)
EXTENDS Integers, FiniteSets, SequencesExt

CONSTANTS
  Member,      \* user ids that may ever be touched by this household
  Receipt,     \* receipt ids
  Settlement,  \* settlement ids (randomUUID in the code)
  Amount       \* the cents a receipt or a proposal may carry

AutoConfirm == 0  \* AUTO_CONFIRM_ACTOR, who is nobody's user id

ASSUME MemberAssumption == Member \subseteq Nat \ {AutoConfirm} /\ IsFiniteSet(Member)
ASSUME ReceiptAssumption == Receipt \subseteq Nat
ASSUME AmountAssumption == Amount \subseteq Nat

-----------------------------------------------------------------------------
(* Splitting an amount.                                                    *)

PositionIn(m, P) == Cardinality({q \in P : q < m})

\* Fault: the remainder of the division is dropped.
SharesWithoutRemainder(r, amount, P) ==
  [m \in Member |-> IF m \in P THEN amount \div Cardinality(P) ELSE 0]

\* Fault: the odd cents always go to the first participants.
SharesWithoutRotation(r, amount, P) ==
  LET n == Cardinality(P)
  IN  [m \in Member |-> IF m \in P
         THEN amount \div n + (IF PositionIn(m, P) < amount % n THEN 1 ELSE 0) ELSE 0]

\* Every participant pays the floor; the remaining cents go one each to the
\* members that follow position receiptId mod n in id order.  Who is not a
\* participant has no entry in the code and 0 here.
ComputeShares(r, amount, P) ==
  LET n == Cardinality(P)
      extra(m) == IF (PositionIn(m, P) - r) % n < amount % n THEN 1 ELSE 0
  IN  [m \in Member |-> IF m \in P THEN amount \div n + extra(m) ELSE 0]

TotalOf(f) == MapThenSumSet(LAMBDA m : f[m], DOMAIN f)

\* What a receipt of this payer and split does to the balances.
ReceiptEffect(payer, amount, shares) ==
  [m \in Member |-> (IF m = payer THEN amount ELSE 0) - shares[m]]

-----------------------------------------------------------------------------
(* Events.  `participants` are the keys of the stored shares.              *)

ReceiptEvent == [type : {"receipt_recorded"}, receipt : Receipt, payer : Member,
                 amount : Nat, participants : SUBSET Member, shares : [Member -> Nat]]
MemberEvent == [type : {"member_joined", "member_left"}, member : Member]
ProposalEvent == [type : {"settlement_proposed"}, sid : Settlement, from : Member,
                  to : Member, amount : Nat \ {0}, by : Member]
ConfirmEvent == [type : {"settlement_confirmed"}, sid : Settlement,
                 by : Member \cup {AutoConfirm}]
AdjustmentEvent == [type : {"adjustment"}, receipt : Receipt, amount : Nat,
                    participants : SUBSET Member, shares : [Member -> Nat],
                    delta : [Member -> Int]]
Event == ReceiptEvent \cup MemberEvent \cup ProposalEvent \cup ConfirmEvent
           \cup AdjustmentEvent

ReceiptRecorded(r, payer, amount, P) ==
  [type |-> "receipt_recorded", receipt |-> r, payer |-> payer, amount |-> amount,
   participants |-> P, shares |-> ComputeShares(r, amount, P)]
MemberJoined(m) == [type |-> "member_joined", member |-> m]
MemberLeft(m) == [type |-> "member_left", member |-> m]
SettlementProposed(sid, from, to, amount, by) ==
  [type |-> "settlement_proposed", sid |-> sid, from |-> from, to |-> to,
   amount |-> amount, by |-> by]
SettlementConfirmed(sid, by) == [type |-> "settlement_confirmed", sid |-> sid, by |-> by]

\* Fault: the event carries the change of the amount, not the new amount.
AdjustmentOfDifference(r, before, amount) ==
  LET shares == ComputeShares(r, amount, before.participants)
      old == ReceiptEffect(before.payer, before.amount, before.shares)
      new == ReceiptEffect(before.payer, amount, shares)
  IN  [type |-> "adjustment", receipt |-> r, amount |-> amount - before.amount,
       participants |-> before.participants, shares |-> shares,
       delta |-> [m \in Member |-> new[m] - old[m]]]

\* The correction that moves a receipt from the split `before` to a new amount
\* over the same participants and the same payer.
Adjustment(r, before, amount) ==
  LET shares == ComputeShares(r, amount, before.participants)
      old == ReceiptEffect(before.payer, before.amount, before.shares)
      new == ReceiptEffect(before.payer, amount, shares)
  IN  [type |-> "adjustment", receipt |-> r, amount |-> amount,
       participants |-> before.participants, shares |-> shares,
       delta |-> [m \in Member |-> new[m] - old[m]]]

-----------------------------------------------------------------------------
(* Reading the log.                                                        *)

EventsOf(log, type) == {e \in ToSet(log) : e.type = type}
Proposals(log) == EventsOf(log, "settlement_proposed")
ConfirmedIds(log) == {e.sid : e \in EventsOf(log, "settlement_confirmed")}
ProposedIds(log) == {e.sid : e \in Proposals(log)}
PendingSettlements(log) == {e \in Proposals(log) : e.sid \notin ConfirmedIds(log)}
RecordedReceipts(log) == {e.receipt : e \in EventsOf(log, "receipt_recorded")}
AdjustedReceipts(log) == {e.receipt : e \in EventsOf(log, "adjustment")}

RecordedAt(log, r) ==
  CHOOSE i \in DOMAIN log : log[i].type = "receipt_recorded" /\ log[i].receipt = r

\* Fault: the comparison of the two positions is turned around.
SettledBefore(log, r) ==
  \E i \in DOMAIN log : i < RecordedAt(log, r) /\ log[i].type = "settlement_confirmed"

\* A settlement was confirmed after the receipt entered the log.
SettlementLocked(log, r) ==
  \E i \in DOMAIN log : i > RecordedAt(log, r) /\ log[i].type = "settlement_confirmed"

Corrections(log, r) == {i \in DOMAIN log : log[i].type = "adjustment" /\ log[i].receipt = r}

\* The receipt as recorded, overridden by its last adjustment.
EffectiveReceipt(log, r) ==
  LET recorded == log[RecordedAt(log, r)]
      last == {i \in Corrections(log, r) : \A j \in Corrections(log, r) : j <= i}
      current == IF last = {} THEN recorded ELSE log[CHOOSE i \in last : TRUE]
  IN  [payer |-> recorded.payer, amount |-> current.amount,
       participants |-> current.participants, shares |-> current.shares]

-----------------------------------------------------------------------------
(* The fold.  `sound` is FALSE where deriveLedgerState throws.             *)

EmptyState == [balance |-> [m \in Member |-> 0], active |-> {},
               proposals |-> {}, confirmed |-> {}, sound |-> TRUE]

Plus(f, g) == [m \in Member |-> f[m] + g[m]]

ApplyConfirm(s, ev) ==
  LET own == {p \in s.proposals : p.sid = ev.sid}
      p == CHOOSE q \in own : TRUE
      moved == [m \in Member |-> (IF m = p.from THEN p.amount ELSE 0)
                                 - (IF m = p.to THEN p.amount ELSE 0)]
  IN  IF ev.sid \in s.confirmed THEN s
      ELSE IF own = {} THEN [s EXCEPT !.sound = FALSE]
      ELSE [s EXCEPT !.balance = Plus(@, moved), !.confirmed = @ \cup {ev.sid}]

ApplyEvent(s, ev) ==
  CASE ev.type = "member_joined" -> [s EXCEPT !.active = @ \cup {ev.member}]
    [] ev.type = "member_left" -> [s EXCEPT !.active = @ \ {ev.member}]
    [] ev.type = "receipt_recorded" ->
         [s EXCEPT !.balance = Plus(@, ReceiptEffect(ev.payer, ev.amount, ev.shares)),
                   !.sound = @ /\ TotalOf(ev.shares) = ev.amount]
    [] ev.type = "settlement_proposed" -> [s EXCEPT !.proposals = @ \cup {ev}]
    [] ev.type = "settlement_confirmed" -> ApplyConfirm(s, ev)
    [] ev.type = "adjustment" ->
         [s EXCEPT !.balance = Plus(@, ev.delta), !.sound = @ /\ TotalOf(ev.delta) = 0]

LedgerState(log) == FoldLeft(ApplyEvent, EmptyState, log)
Balance(log) == LedgerState(log).balance
ActiveMembers(log) == LedgerState(log).active
Settled(log) == \A m \in Member : Balance(log)[m] = 0

\* The fold terminates without throwing.
FoldSucceeds(log) == LedgerState(log).sound /\ TotalOf(Balance(log)) = 0

-----------------------------------------------------------------------------
(* Appending.  The unique key (householdId, dedupeKey) turns a second      *)
(* append of a receipt, a proposal or a confirmation into a no-op.         *)

\* Fault: joining and leaving carry a key as well, so that nobody rejoins.
SameKeyOfAnyKind(e, f) ==
  /\ e.type = f.type
  /\ \/ e.type = "receipt_recorded" /\ e.receipt = f.receipt
     \/ e.type \in {"settlement_proposed", "settlement_confirmed"} /\ e.sid = f.sid
     \/ e.type \in {"member_joined", "member_left"} /\ e.member = f.member

SameDedupeKey(e, f) ==
  /\ e.type = f.type
  /\ \/ e.type = "receipt_recorded" /\ e.receipt = f.receipt
     \/ e.type \in {"settlement_proposed", "settlement_confirmed"} /\ e.sid = f.sid

Duplicate(log, ev) == \E i \in DOMAIN log : SameDedupeKey(log[i], ev)

AppendOnce(log, ev) == IF Duplicate(log, ev) THEN log ELSE Append(log, ev)

\* An event stamped with an instant at which the log had n events: it is stored
\* now and folded before everything stamped later.
BackdateOnce(log, n, ev) == IF Duplicate(log, ev) THEN log ELSE InsertAt(log, n + 1, ev)
=============================================================================
