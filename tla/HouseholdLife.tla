---------------------------- MODULE HouseholdLife ----------------------------
(***************************************************************************)
(* The life of one household: who is in it, the receipts that enter its    *)
(* ledger, the settlements that clear balances, and the departures that    *)
(* wait for a balance to reach zero (services/householdMembership.ts,      *)
(* householdSettlements.ts, tripFamilyConversion.ts, receiptFamilyScope.ts,*)
(* models/householdModel.ts, controllers/joinController.ts).               *)
(*                                                                         *)
(* A request is a handler that runs in a process p and awaits the database *)
(* between its statements.  job[p] is the program point it has reached and *)
(* the values it has read so far; every action below is what it does up to *)
(* its next await, so that other handlers run in between.  Reads of one    *)
(* handler that nothing can separate observably are one step.              *)
(***************************************************************************)
EXTENDS HouseholdLedger

CONSTANTS
  Client,        \* processes that run requests
  Sweeper,       \* the process of the hourly settlement sweep
  Uploader,      \* who uploaded (and so paid) each receipt
  Requests,      \* the kinds of request the clients issue
  MaxInFlight,   \* handlers running at the same time
  MaxRequests,   \* bound: requests issued in a behaviour
  MaxFailures    \* bound: handlers cut short by an error or a restart

Proc == Client \cup {Sweeper}

ASSUME UploaderAssumption == Uploader \in [Receipt -> Member]
ASSUME BoundsAssumption == /\ MaxInFlight \in Nat
                           /\ MaxRequests \in Nat
                           /\ MaxFailures \in Nat

VARIABLES
  household,  \* the Household row: not created yet, live, or deleted
  role,       \* the HouseholdMember rows
  leaving,    \* members whose leavingRequestedAt is set
  family,     \* receipts whose trip was converted to this household
  log,        \* HouseholdLedgerEvent in fold order
  lapsed,     \* proposals older than seven days
  expired,    \* receipts uploaded more than 72 hours ago
  job,        \* what each process is doing
  due,        \* farewell notices a membership still has coming
  started,    \* requests issued so far
  failures    \* handlers cut short so far

rows == <<household, role, leaving>>
clock == <<lapsed, expired>>
counters == <<started, failures>>
vars == <<rows, family, log, clock, job, due, counters>>

-----------------------------------------------------------------------------
(* Jobs.                                                                   *)

Idle == [step |-> "idle"]

Split == [payer : Member, amount : Nat, participants : SUBSET Member, shares : [Member -> Nat]]

Job ==
  [step : {"idle", "settle", "dissolve"}]
    \cup [step : {"joined", "mark"}, member : Member]
    \cup [step : {"propose"}, from : Member, to : Member, amount : Nat \ {0}, by : Member]
    \cup [step : {"confirm"}, sid : Settlement, by : Member]
    \cup [step : {"depart", "count"}, queue : SUBSET Member]
    \cup [step : {"left", "delete"}, member : Member, queue : SUBSET Member]
    \cup [step : {"farewell"}, remaining : SUBSET Member, told : SUBSET Member]
    \cup [step : {"teardown"}, told : SUBSET Member, queue : SUBSET Member]
    \cup [step : {"convert"}, receipt : Receipt]
    \cup [step : {"record"}, receipt : Receipt, participants : SUBSET Member]
    \cup [step : {"append"}, event : ReceiptEvent]
    \cup [step : {"rescope"}, receipt : Receipt, before : Split, locked : BOOLEAN, amount : Nat]
    \cup [step : {"adjust"}, receipt : Receipt, before : Split, amount : Nat]
    \cup [step : {"restate"}, receipt : Receipt, amount : Nat]
    \cup [step : {"sweep"}, queue : SUBSET ProposalEvent, now : Nat]

Goto(p, j) == job' = [job EXCEPT ![p] = j]
At(p, step) == job[p].step = step

InFlight == {p \in Proc : job[p] # Idle}
Quiescent == InFlight = {}

\* A client sends a request of this kind.
Issue(p, kind) ==
  /\ p \in Client /\ job[p] = Idle
  /\ kind \in Requests
  /\ started < MaxRequests /\ Cardinality(InFlight) < MaxInFlight
  /\ started' = started + 1
  /\ UNCHANGED failures

InsertRow(m, r) ==
  /\ role' = [role EXCEPT ![m] = r]
  /\ due' = [due EXCEPT ![m] = @ + 1]

Members == {m \in Member : role[m] # "none"}
\* Fault: a member who asked to leave stays eligible.
AnyMember == Members

Eligible == Members \ leaving

-----------------------------------------------------------------------------
(* Creating and joining.                                                   *)

Init ==
  /\ household = "none"
  /\ role = [m \in Member |-> "none"]
  /\ leaving = {} /\ family = {} /\ log = <<>>
  /\ lapsed = {} /\ expired = {}
  /\ job = [p \in Proc |-> Idle]
  /\ due = [m \in Member |-> 0]
  /\ started = 0 /\ failures = 0

\* The household, its owner row and the shared basket commit together; the
\* member_joined event is appended afterwards.
Create(p, m) ==
  /\ Issue(p, "create")
  /\ household = "none" /\ role[m] = "none"
  /\ household' = "live"
  /\ InsertRow(m, "owner")
  /\ Goto(p, [step |-> "joined", member |-> m])
  /\ UNCHANGED <<leaving, family, log, clock>>

\* The invite names a household that was created; nothing checks that it
\* still exists.  PRIMARY KEY(userId) refuses a second membership.
Join(p, m) ==
  /\ Issue(p, "join")
  /\ household # "none" /\ role[m] = "none"
  /\ InsertRow(m, "member")
  /\ Goto(p, [step |-> "joined", member |-> m])
  /\ UNCHANGED <<household, leaving, family, log, clock>>

AppendJoined(p) ==
  /\ At(p, "joined")
  /\ log' = AppendOnce(log, MemberJoined(job[p].member))
  /\ Goto(p, Idle)
  /\ UNCHANGED <<rows, family, clock, due, counters>>

-----------------------------------------------------------------------------
(* Settlements.                                                            *)

\* Settlement bounds the proposals of a behaviour.
Unproposed == Cardinality(Settlement \ ProposedIds(log)) > Cardinality({p \in Proc : At(p, "propose")})

Propose(p, by, from, to, amount) ==
  /\ Issue(p, "propose") /\ Unproposed
  /\ {by, from, to} \subseteq Members
  /\ by \in {from, to} /\ from # to
  /\ LET balance == Balance(log)
     IN  /\ balance[from] < 0 /\ balance[to] > 0
         /\ amount > 0 /\ amount <= -balance[from] /\ amount <= balance[to]
  /\ Goto(p, [step |-> "propose", from |-> from, to |-> to, amount |-> amount, by |-> by])
  /\ UNCHANGED <<rows, family, log, clock, due>>

AppendProposal(p, sid) ==
  /\ At(p, "propose")
  /\ sid \notin ProposedIds(log)
  /\ log' = AppendOnce(log, SettlementProposed(sid, job[p].from, job[p].to,
                                               job[p].amount, job[p].by))
  /\ Goto(p, Idle)
  /\ UNCHANGED <<rows, family, clock, due, counters>>

\* Fault: either party may confirm.
ConfirmByAnyParty(p, actor, proposal) ==
  /\ Issue(p, "confirm")
  /\ actor \in Members
  /\ proposal \in PendingSettlements(log)
  /\ actor \in {proposal.from, proposal.to}
  /\ Goto(p, [step |-> "confirm", sid |-> proposal.sid, by |-> actor])
  /\ UNCHANGED <<rows, family, log, clock, due>>

\* Only the party who did not propose may confirm.
Confirm(p, actor, proposal) ==
  /\ Issue(p, "confirm")
  /\ actor \in Members
  /\ proposal \in PendingSettlements(log)
  /\ actor \in {proposal.from, proposal.to} \ {proposal.by}
  /\ Goto(p, [step |-> "confirm", sid |-> proposal.sid, by |-> actor])
  /\ UNCHANGED <<rows, family, log, clock, due>>

\* Fault: a manual confirmation does not look at the pending departures.
AppendConfirmOnly(p) ==
  /\ At(p, "confirm")
  /\ job[p].sid \in ProposedIds(log)
  /\ log' = AppendOnce(log, SettlementConfirmed(job[p].sid, job[p].by))
  /\ Goto(p, Idle)
  /\ UNCHANGED <<rows, family, clock, due, counters>>

AppendConfirm(p) ==
  /\ At(p, "confirm")
  /\ job[p].sid \in ProposedIds(log)
  /\ log' = AppendOnce(log, SettlementConfirmed(job[p].sid, job[p].by))
  /\ Goto(p, [step |-> "settle"])
  /\ UNCHANGED <<rows, family, clock, due, counters>>

\* Fault: the sweep passes over the proposals of members who have left.
SweepReadOfMembers ==
  LET silent == {e \in PendingSettlements(log) : e.sid \in lapsed /\ {e.from, e.to} \subseteq Members}
  IN  /\ job[Sweeper] = Idle /\ silent # {}
      /\ Cardinality(InFlight) < MaxInFlight
      /\ Goto(Sweeper, [step |-> "sweep", queue |-> silent, now |-> Len(log)])
      /\ UNCHANGED <<rows, family, log, clock, due, counters>>

\* Fault: the sweep does not look at the age of a proposal.
SweepReadAll ==
  LET silent == PendingSettlements(log)
  IN  /\ job[Sweeper] = Idle /\ silent # {}
      /\ Cardinality(InFlight) < MaxInFlight
      /\ Goto(Sweeper, [step |-> "sweep", queue |-> silent, now |-> Len(log)])
      /\ UNCHANGED <<rows, family, log, clock, due, counters>>

\* The hourly sweep reads every proposal that has been silent for seven days,
\* and stamps all it confirms with the instant at which it started.
SweepRead ==
  LET silent == {e \in PendingSettlements(log) : e.sid \in lapsed}
  IN  /\ job[Sweeper] = Idle /\ silent # {}
      /\ Cardinality(InFlight) < MaxInFlight
      /\ Goto(Sweeper, [step |-> "sweep", queue |-> silent, now |-> Len(log)])
      /\ UNCHANGED <<rows, family, log, clock, due, counters>>

\* The oldest proposal that is left is next.
SweepConfirm ==
  \E i \in DOMAIN log :
    LET p == Sweeper
        rest == job[p].queue \ {log[i]}
    IN  /\ At(p, "sweep")
        /\ log[i] \in job[p].queue /\ \A j \in 1..(i - 1) : log[j] \notin job[p].queue
        /\ log' = BackdateOnce(log, job[p].now, SettlementConfirmed(log[i].sid, AutoConfirm))
        /\ Goto(p, IF rest = {} THEN [step |-> "settle"]
                   ELSE [step |-> "sweep", queue |-> rest,
                         now |-> job[p].now + Len(log') - Len(log)])
        /\ UNCHANGED <<rows, family, clock, due, counters>>

-----------------------------------------------------------------------------
(* Departures.                                                             *)

Continue(queue) == IF queue = {} THEN Idle ELSE [step |-> "depart", queue |-> queue]

\* Why a member cannot go yet: an owner takes the household along, which
\* requires that everybody is settled.
Blocked(m) == IF role[m] = "owner" THEN ~Settled(log) ELSE Balance(log)[m] # 0

\* A member leaves, or the owner removes another member.
RequestDeparture(p, actor, target) ==
  /\ Issue(p, "leave")
  /\ {actor, target} \subseteq Members
  /\ actor = target \/ (role[actor] = "owner" /\ role[target] = "member")
  /\ Goto(p, IF Blocked(target) THEN [step |-> "mark", member |-> target]
             ELSE IF role[target] = "owner" THEN [step |-> "dissolve"]
             ELSE Continue({target}))
  /\ UNCHANGED <<rows, family, log, clock, due>>

MarkLeaving(p) ==
  /\ At(p, "mark")
  /\ leaving' = leaving \cup ({job[p].member} \cap Members)
  /\ Goto(p, Idle)
  /\ UNCHANGED <<household, role, family, log, clock, due, counters>>

\* finalizeDeparture: the membership is read, member_left is appended, and the
\* DELETE of the row decides who sends the notices.
DepartRead(p) ==
  /\ At(p, "depart")
  /\ \E m \in job[p].queue :
       LET rest == job[p].queue \ {m}
       IN  Goto(p, IF m \in Members THEN [step |-> "left", member |-> m, queue |-> rest]
                   ELSE Continue(rest))
  /\ UNCHANGED <<rows, family, log, clock, due, counters>>

AppendLeft(p) ==
  /\ At(p, "left")
  /\ log' = AppendOnce(log, MemberLeft(job[p].member))
  /\ Goto(p, [job[p] EXCEPT !.step = "delete"])
  /\ UNCHANGED <<rows, family, clock, due, counters>>

\* Fault: the notices do not depend on what the DELETE removed.
DeleteRowUngated(p) ==
  LET m == job[p].member
  IN  /\ At(p, "delete")
      /\ role' = [role EXCEPT ![m] = "none"]
      /\ leaving' = leaving \ {m}
      /\ due' = [due EXCEPT ![m] = @ - 1]
      /\ Goto(p, [step |-> "count", queue |-> job[p].queue])
      /\ UNCHANGED <<household, family, log, clock, counters>>

DeleteRow(p) ==
  LET m == job[p].member
      removed == m \in Members
  IN  /\ At(p, "delete")
      /\ role' = [role EXCEPT ![m] = "none"]
      /\ leaving' = leaving \ {m}
      /\ due' = IF removed THEN [due EXCEPT ![m] = @ - 1] ELSE due
      /\ Goto(p, IF removed THEN [step |-> "count", queue |-> job[p].queue]
                 ELSE Continue(job[p].queue))
      /\ UNCHANGED <<household, family, log, clock, counters>>

CountRows(p) ==
  /\ At(p, "count")
  /\ Goto(p, IF Members = {} THEN [step |-> "teardown", told |-> {}, queue |-> job[p].queue]
             ELSE Continue(job[p].queue))
  /\ UNCHANGED <<rows, family, log, clock, due, counters>>

\* Fault: nobody tells the log that the owner left.
DissolveReadOthers(p) ==
  /\ At(p, "dissolve")
  /\ Goto(p, [step |-> "farewell", remaining |-> {m \in Members : role[m] = "member"},
              told |-> Members])
  /\ UNCHANGED <<rows, family, log, clock, due, counters>>

\* dissolveNow: member_left for everyone who is a member now, then one
\* transaction that deletes every row of the household.
DissolveRead(p) ==
  /\ At(p, "dissolve")
  /\ Goto(p, [step |-> "farewell", remaining |-> Members, told |-> Members])
  /\ UNCHANGED <<rows, family, log, clock, due, counters>>

AppendFarewell(p) ==
  /\ At(p, "farewell")
  /\ \E m \in job[p].remaining :
       /\ log' = AppendOnce(log, MemberLeft(m))
       /\ Goto(p, [job[p] EXCEPT !.remaining = @ \ {m}])
  /\ UNCHANGED <<rows, family, clock, due, counters>>

Dissolve(p) ==
  /\ \/ At(p, "teardown")
     \/ At(p, "farewell") /\ job[p].remaining = {}
  /\ household' = "dissolved"
  /\ role' = [m \in Member |-> "none"]
  /\ leaving' = {}
  /\ due' = [m \in Member |-> IF m \in job[p].told THEN due[m] - 1 ELSE due[m]]
  /\ Goto(p, IF At(p, "teardown") THEN Continue(job[p].queue) ELSE Idle)
  /\ UNCHANGED <<family, log, clock, counters>>

\* Fault: an owner's departure is not looked at.
SettleMembers(p) ==
  /\ At(p, "settle")
  /\ Goto(p, Continue({m \in leaving : role[m] = "member" /\ Balance(log)[m] = 0}))
  /\ UNCHANGED <<rows, family, log, clock, due, counters>>

\* Fault: a confirmation lets go whoever asked to leave, cleared or not.
SettleEverybody(p) ==
  LET owners == {m \in leaving : role[m] = "owner"}
  IN  /\ At(p, "settle")
      /\ Goto(p, IF owners # {} /\ Settled(log) THEN [step |-> "dissolve"]
                 ELSE Continue(leaving \ owners))
      /\ UNCHANGED <<rows, family, log, clock, due, counters>>

\* settleDeparturesIfCleared: runs after a confirmation only.
Settle(p) ==
  LET owners == {m \in leaving : role[m] = "owner"}
      cleared == {m \in leaving : Balance(log)[m] = 0}
  IN  /\ At(p, "settle")
      /\ Goto(p, IF owners # {} /\ Settled(log) THEN [step |-> "dissolve"]
                 ELSE Continue(cleared \ owners))
      /\ UNCHANGED <<rows, family, log, clock, due, counters>>

-----------------------------------------------------------------------------
(* Receipts: a trip with one receipt is converted to a family trip.        *)

ConvertRequest(p, actor, r) ==
  /\ Issue(p, "convert")
  /\ actor \in Eligible
  /\ r \notin family
  /\ Goto(p, [step |-> "convert", receipt |-> r])
  /\ UNCHANGED <<rows, family, log, clock, due>>

\* The trip is claimed once; a duplicate request goes on all the same.  The
\* participants are captured here, before the receipts are visited, and a
\* receipt whose uploader is not among them is skipped.
ConvertTrip(p) ==
  LET r == job[p].receipt
  IN  /\ At(p, "convert")
      /\ family' = family \cup {r}
      /\ Goto(p, IF Uploader[r] \in Eligible
                 THEN [step |-> "record", receipt |-> r, participants |-> Eligible]
                 ELSE Idle)
      /\ UNCHANGED <<rows, log, clock, due, counters>>

\* recordFamilyReceipt reads the subtotal and, once more, who is eligible.
RecordRead(p, amount) ==
  LET r == job[p].receipt
      participants == job[p].participants \cap Eligible
  IN  /\ At(p, "record")
      /\ Goto(p, IF Uploader[r] \in Eligible
                 THEN [step |-> "append",
                       event |-> ReceiptRecorded(r, Uploader[r], amount, participants)]
                 ELSE Idle)
      /\ UNCHANGED <<rows, family, log, clock, due, counters>>

AppendReceipt(p) ==
  /\ At(p, "append")
  /\ log' = AppendOnce(log, job[p].event)
  /\ Goto(p, Idle)
  /\ UNCHANGED <<rows, family, clock, due, counters>>

-----------------------------------------------------------------------------
(* Re-scoping the items of a recorded receipt to a new family subtotal.    *)

\* Fault: the correction starts from the record and forgets earlier ones.
RescopeFromRecord(p, r, amount) ==
  LET e == log[RecordedAt(log, r)]
  IN  /\ Issue(p, "rescope")
      /\ r \in RecordedReceipts(log)
      /\ Goto(p, [step |-> "rescope", receipt |-> r,
                  before |-> [payer |-> e.payer, amount |-> e.amount,
                              participants |-> e.participants, shares |-> e.shares],
                  locked |-> SettlementLocked(log, r) \/ r \in expired, amount |-> amount])
      /\ UNCHANGED <<rows, family, log, clock, due>>

Rescope(p, r, amount) ==
  /\ Issue(p, "rescope")
  /\ r \in RecordedReceipts(log)
  /\ Goto(p, [step |-> "rescope", receipt |-> r, before |-> EffectiveReceipt(log, r),
              locked |-> SettlementLocked(log, r) \/ r \in expired, amount |-> amount])
  /\ UNCHANGED <<rows, family, log, clock, due>>

\* The FOR UPDATE lock on the stored event excludes a second restatement and
\* a new adjustment of the same receipt, not a new confirmation.
RowFree(r) == \A q \in Proc : ~(At(q, "restate") /\ job[q].receipt = r)

\* Inside the window the transaction locks the row and re-checks; a receipt
\* it may not restate is adjusted instead, with the split read earlier.
RestateCheck(p) ==
  LET r == job[p].receipt
      adjust == [step |-> "adjust", receipt |-> r, before |-> job[p].before,
                 amount |-> job[p].amount]
  IN  /\ At(p, "rescope")
      /\ job[p].locked \/ RowFree(r)
      /\ Goto(p, IF job[p].locked \/ SettlementLocked(log, r) \/ r \in AdjustedReceipts(log)
                 THEN adjust
                 ELSE [step |-> "restate", receipt |-> r, amount |-> job[p].amount])
      /\ UNCHANGED <<rows, family, log, clock, due, counters>>

\* Fault: the participants are whoever is eligible now.
RestateForEligible(p) ==
  LET r == job[p].receipt
      i == RecordedAt(log, r)
  IN  /\ At(p, "restate")
      /\ log' = [log EXCEPT ![i] = ReceiptRecorded(r, @.payer, job[p].amount, Eligible)]
      /\ Goto(p, Idle)
      /\ UNCHANGED <<rows, family, clock, due, counters>>

Restate(p) ==
  LET r == job[p].receipt
      i == RecordedAt(log, r)
  IN  /\ At(p, "restate")
      /\ log' = [log EXCEPT ![i] = ReceiptRecorded(r, @.payer, job[p].amount, @.participants)]
      /\ Goto(p, Idle)
      /\ UNCHANGED <<rows, family, clock, due, counters>>

AppendAdjustment(p) ==
  LET r == job[p].receipt
  IN  /\ At(p, "adjust") /\ RowFree(r)
      /\ log' = AppendOnce(log, Adjustment(r, job[p].before, job[p].amount))
      /\ Goto(p, Idle)
      /\ UNCHANGED <<rows, family, clock, due, counters>>

-----------------------------------------------------------------------------
(* Time and failures.                                                      *)

Lapse(sid) ==
  /\ sid \in {e.sid : e \in PendingSettlements(log)} \ lapsed
  /\ lapsed' = lapsed \cup {sid}
  /\ UNCHANGED <<rows, family, log, expired, job, due, counters>>

Expire(r) ==
  /\ "rescope" \in Requests /\ r \in Receipt \ expired
  /\ expired' = expired \cup {r}
  /\ UNCHANGED <<rows, family, log, lapsed, job, due, counters>>

\* A query fails, or the process restarts: the handler stops where it is.
Fail(p) ==
  /\ job[p] # Idle /\ failures < MaxFailures
  /\ failures' = failures + 1
  /\ Goto(p, Idle)
  /\ UNCHANGED <<rows, family, log, clock, due, started>>

-----------------------------------------------------------------------------

NewRequest(p) ==
  \/ \E m \in Member : Create(p, m) \/ Join(p, m)
  \/ \E by, from, to \in Member, amount \in Amount : Propose(p, by, from, to, amount)
  \/ \E actor \in Member, proposal \in Proposals(log) : Confirm(p, actor, proposal)
  \/ \E actor, target \in Member : RequestDeparture(p, actor, target)
  \/ \E actor \in Member, r \in Receipt : ConvertRequest(p, actor, r)
  \/ \E r \in Receipt, amount \in Amount : Rescope(p, r, amount)

Progress(p) ==
  \/ AppendJoined(p)
  \/ \E sid \in Settlement : AppendProposal(p, sid)
  \/ AppendConfirm(p) \/ Settle(p)
  \/ MarkLeaving(p)
  \/ DepartRead(p) \/ AppendLeft(p) \/ DeleteRow(p) \/ CountRows(p)
  \/ DissolveRead(p) \/ AppendFarewell(p) \/ Dissolve(p)
  \/ ConvertTrip(p) \/ (\E amount \in Amount : RecordRead(p, amount)) \/ AppendReceipt(p)
  \/ RestateCheck(p) \/ Restate(p) \/ AppendAdjustment(p)

Next ==
  \/ \E p \in Client : NewRequest(p)
  \/ \E p \in Proc : Progress(p) \/ Fail(p)
  \/ SweepRead \/ SweepConfirm
  \/ \E sid \in Settlement : Lapse(sid)
  \/ \E r \in Receipt : Expire(r)

Spec == Init /\ [][Next]_vars

\* Handlers run to their end, the sweep is run every hour and time passes;
\* nothing obliges anyone to send a request.
Fairness ==
  /\ \A p \in Proc : WF_vars(Progress(p))
  /\ WF_vars(SweepRead) /\ WF_vars(SweepConfirm)
  /\ \A sid \in Settlement : WF_vars(Lapse(sid))

FairSpec == Spec /\ Fairness
=============================================================================
