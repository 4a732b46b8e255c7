------------------------- MODULE HouseholdProperties -------------------------
(***************************************************************************)
(* What a household promises its members, stated over HouseholdLife.       *)
(***************************************************************************)
EXTENDS HouseholdLife

\* Every variable has its type.
TypeOK ==
  /\ household \in {"none", "live", "dissolved"}
  /\ role \in [Member -> {"none", "member", "owner"}]
  /\ leaving \in SUBSET Member
  /\ family \in SUBSET Receipt
  /\ log \in Seq(Event)
  /\ lapsed \in SUBSET Settlement
  /\ expired \in SUBSET Receipt
  /\ job \in [Proc -> Job]
  /\ due \in [Member -> Int]
  /\ started \in Nat /\ failures \in Nat

-----------------------------------------------------------------------------
(* Settlements.                                                            *)

\* The signature on a confirmation is the counterparty's, or the sweep's after
\* seven days of silence.
Countersigned(e, proposal) ==
  IF e.by = AutoConfirm THEN proposal.sid \in lapsed
  ELSE e.by \in {proposal.from, proposal.to} \ {proposal.by}

\* Money moves on two signatures, once: a confirmation stands after exactly one
\* proposal of the same settlement, is countersigned, and is the only one, also
\* when the sweep and the counterparty confirm in the same moment
\* (confirmSettlement, sweepLapsedSettlements).
TwoSignaturesOnce ==
  \A i \in DOMAIN log : log[i].type = "settlement_confirmed" =>
    /\ \E j \in 1..(i - 1) : /\ log[j].type = "settlement_proposed"
                             /\ log[j].sid = log[i].sid
                             /\ Countersigned(log[i], log[j])
    /\ \A k \in DOMAIN log : SameDedupeKey(log[k], log[i]) => k = i

\* deriveLedgerState never throws on a log the handlers wrote: every split adds
\* up, every adjustment and the household as a whole sum to zero, and no
\* confirmation lacks its proposal.
FoldNeverThrows == FoldSucceeds(log)

\* A confirmation clears a debt and never turns it around: whoever hands the
\* money over does not end up owed, whoever receives it does not end up owing
\* ("Without this a proposal could push a settled member into debt").
ConfirmNeverOvershoots ==
  [][\A p \in PendingSettlements(log) : p.sid \in ConfirmedIds(log') =>
       Balance(log')[p.from] <= 0 /\ Balance(log')[p.to] >= 0]_log

\* The book of settlements that the log amounts to.
BookedProposals ==
  {[sid |-> e.sid, from |-> e.from, to |-> e.to, amount |-> e.amount, by |-> e.by] :
     e \in Proposals(log)}
BookedSignatures ==
  {[sid |-> e.sid, by |-> e.by] : e \in EventsOf(log, "settlement_confirmed")}

Book == INSTANCE SettlementBook
          WITH Party <- Member, Clerk <- AutoConfirm,
               proposed <- BookedProposals, signed <- BookedSignatures, silent <- lapsed

\* Whatever handlers, the sweep, restatements and back-dated stamps do to the
\* log, it reads as a book in which proposals are entered once, never change and
\* are signed once by whoever may (proposeSettlement, confirmSettlement,
\* sweepLapsedSettlements).
SettlementsKeepTheBook == Book!Spec

\* A proposal that was left unanswered for seven days is confirmed in the end,
\* whatever happens to the members or the household meanwhile
\* (sweepLapsedSettlements).
LapsedProposalsConfirm ==
  \A sid \in Settlement : (sid \in lapsed) ~> (sid \in ConfirmedIds(log))

-----------------------------------------------------------------------------
(* Receipts and history.                                                   *)

\* f is e, or a receipt restated to another amount.
SameButAmount(e, f) ==
  \/ e = f
  \/ /\ e.type = "receipt_recorded" /\ f.type = "receipt_recorded"
     /\ e.receipt = f.receipt /\ e.payer = f.payer /\ e.participants = f.participants

Extends(longer, shorter) ==
  /\ Len(longer) = Len(shorter) + 1
  /\ \E i \in 1..Len(longer) : RemoveAt(longer, i) = shorter

FrozenUnder(after, before) ==
  \/ Extends(after, before)
  \/ DOMAIN after = DOMAIN before /\ \A i \in DOMAIN before : SameButAmount(before[i], after[i])

\* Nothing stored is removed or reordered, and the payer and the participants
\* of a receipt are frozen when it is recorded (restateReceiptRecorded is the
\* one update of a stored event).
HistoryIsFrozen == [][FrozenUnder(log', log)]_log

\* What a receipt contributes to the balances is what its record, overridden by
\* its last adjustment, says: the corrections of one receipt add up
\* (effectiveReceiptLedger, "what this receipt currently contributes").
Transferred(log_, m) ==
  LET done == {p \in Proposals(log_) : p.sid \in ConfirmedIds(log_)}
      signed(p) == (IF p.from = m THEN p.amount ELSE 0) - (IF p.to = m THEN p.amount ELSE 0)
  IN  MapThenSumSet(signed, done)

Contributed(log_, m) ==
  LET effect(r) == LET e == EffectiveReceipt(log_, r)
                   IN  ReceiptEffect(e.payer, e.amount, e.shares)[m]
  IN  MapThenSumSet(effect, RecordedReceipts(log_))

CorrectionsAddUp ==
  \A m \in Member : Balance(log)[m] = Contributed(log, m) + Transferred(log, m)

-----------------------------------------------------------------------------
(* Departures.                                                             *)

\* Whoever is not a member of a living household has nothing to pay and nothing
\* to collect in it: nobody leaves with a balance, and no balance appears after
\* they left ("departed ones (always at 0 - 3.1 blocks leaving otherwise)").
DepartedAtZero ==
  household = "live" => \A m \in Member \ Members : Balance(log)[m] = 0

\* Between requests every member is listed as active, unless a handler was cut
\* short ("a duplicate member_left is inert").
MembersAreActive ==
  Quiescent /\ failures = 0 => Members \subseteq ActiveMembers(log)

\* While the household lives, a membership that ends is announced once, also
\* when two handlers complete the same departure ("only one caller ever
\* notifies").
OneFarewell == household = "live" => \A m \in Member : due[m] >= 0

\* A leaving member whose balance has come to zero is let go, unless the
\* balance moves again or a handler was cut short (settleDeparturesIfCleared,
\* "called after ANYTHING that may have moved a balance to zero").
ClearedLeaversGo ==
  \A m \in Member :
    (m \in leaving /\ role[m] = "member" /\ Balance(log)[m] = 0)
      ~> (m \notin leaving \/ Balance(log)[m] # 0 \/ failures > 0)

\* An owner who asked to leave closes the household once it is settled, unless
\* a handler was cut short ("the moment the whole household is square, it
\* closes").
SettledOwnersClose ==
  \A m \in Member :
    (m \in leaving /\ role[m] = "owner" /\ Settled(log))
      ~> (m \notin leaving \/ ~Settled(log) \/ failures > 0)
=============================================================================
