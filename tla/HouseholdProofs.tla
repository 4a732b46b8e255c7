---------------------------- MODULE HouseholdProofs ----------------------------
(***************************************************************************)
(* Theorems about HouseholdLife for every set of members, receipts and     *)
(* settlements, every amount and every bound, however many handlers        *)
(* overlap.                                                                *)
(***************************************************************************)
EXTENDS HouseholdOverlaps, LedgerProofs

-----------------------------------------------------------------------------
(* Jobs.                                                                   *)

\* What a job of each kind carries.
LEMMA JobFields ==
  ASSUME NEW j \in Job
  PROVE  /\ j.step \in {"joined", "mark", "left", "delete"} => j.member \in Member
         /\ j.step \in {"depart", "count", "left", "delete", "teardown"} => j.queue \in SUBSET Member
         /\ j.step \in {"farewell", "teardown"} => j.told \in SUBSET Member
         /\ j.step = "farewell" => j.remaining \in SUBSET Member
         /\ j.step = "propose" => /\ {j.from, j.to, j.by} \subseteq Member
                                  /\ j.amount \in Nat \ {0}
         /\ j.step = "confirm" => j.sid \in Settlement /\ j.by \in Member
         /\ j.step \in {"convert", "record", "rescope", "adjust", "restate"} => j.receipt \in Receipt
         /\ j.step = "record" => j.participants \in SUBSET Member
         /\ j.step = "append" => j.event \in ReceiptEvent
         /\ j.step \in {"rescope", "adjust", "restate"} => j.amount \in Nat
         /\ j.step \in {"rescope", "adjust"} => j.before \in Split
         /\ j.step = "sweep" => j.queue \in SUBSET ProposalEvent /\ j.now \in Nat
  BY DEF Job

\* The jobs the actions assign.
LEMMA NewJobs ==
  /\ {Idle, [step |-> "settle"], [step |-> "dissolve"]} \subseteq Job
  /\ \A m \in Member : {[step |-> "joined", member |-> m], [step |-> "mark", member |-> m]} \subseteq Job
  /\ \A from, to, by \in Member, amount \in Nat \ {0} :
       [step |-> "propose", from |-> from, to |-> to, amount |-> amount, by |-> by] \in Job
  /\ \A sid \in Settlement, by \in Member : [step |-> "confirm", sid |-> sid, by |-> by] \in Job
  /\ \A queue \in SUBSET Member :
       /\ Continue(queue) \in Job
       /\ [step |-> "count", queue |-> queue] \in Job
       /\ \A m \in Member : [step |-> "left", member |-> m, queue |-> queue] \in Job
       /\ \A told \in SUBSET Member :
            /\ [step |-> "teardown", told |-> told, queue |-> queue] \in Job
            /\ [step |-> "farewell", remaining |-> queue, told |-> told] \in Job
  /\ \A r \in Receipt :
       /\ [step |-> "convert", receipt |-> r] \in Job
       /\ \A P \in SUBSET Member : [step |-> "record", receipt |-> r, participants |-> P] \in Job
       /\ \A amount \in Nat : [step |-> "restate", receipt |-> r, amount |-> amount] \in Job
       /\ \A amount \in Nat, before \in Split :
            /\ [step |-> "adjust", receipt |-> r, before |-> before, amount |-> amount] \in Job
            /\ \A locked \in BOOLEAN : [step |-> "rescope", receipt |-> r, before |-> before,
                                        locked |-> locked, amount |-> amount] \in Job
  /\ \A ev \in ReceiptEvent : [step |-> "append", event |-> ev] \in Job
  /\ \A queue \in SUBSET ProposalEvent, now \in Nat :
       [step |-> "sweep", queue |-> queue, now |-> now] \in Job
<1>1. {Idle, [step |-> "settle"], [step |-> "dissolve"]} \subseteq Job
  BY DEF Job, Idle
<1>2. \A m \in Member : {[step |-> "joined", member |-> m], [step |-> "mark", member |-> m]} \subseteq Job
  BY DEF Job
<1>3. \A from, to, by \in Member, amount \in Nat \ {0} :
        [step |-> "propose", from |-> from, to |-> to, amount |-> amount, by |-> by] \in Job
  BY DEF Job
<1>4. \A sid \in Settlement, by \in Member : [step |-> "confirm", sid |-> sid, by |-> by] \in Job
  BY DEF Job
<1>5. ASSUME NEW queue \in SUBSET Member
      PROVE  /\ Continue(queue) \in Job
             /\ [step |-> "count", queue |-> queue] \in Job
             /\ \A m \in Member : [step |-> "left", member |-> m, queue |-> queue] \in Job
             /\ \A told \in SUBSET Member :
                  /\ [step |-> "teardown", told |-> told, queue |-> queue] \in Job
                  /\ [step |-> "farewell", remaining |-> queue, told |-> told] \in Job
  <2>1. Continue(queue) \in Job
    BY <1>1 DEF Job, Continue
  <2>2. [step |-> "count", queue |-> queue] \in Job
    BY DEF Job
  <2>3. \A m \in Member : [step |-> "left", member |-> m, queue |-> queue] \in Job
    BY DEF Job
  <2>4. \A told \in SUBSET Member : [step |-> "teardown", told |-> told, queue |-> queue] \in Job
    BY DEF Job
  <2>5. \A told \in SUBSET Member : [step |-> "farewell", remaining |-> queue, told |-> told] \in Job
    BY DEF Job
  <2>6. QED
    BY <2>1, <2>2, <2>3, <2>4, <2>5
<1>6. ASSUME NEW r \in Receipt
      PROVE  /\ [step |-> "convert", receipt |-> r] \in Job
             /\ \A P \in SUBSET Member : [step |-> "record", receipt |-> r, participants |-> P] \in Job
             /\ \A amount \in Nat : [step |-> "restate", receipt |-> r, amount |-> amount] \in Job
             /\ \A amount \in Nat, before \in Split :
                  /\ [step |-> "adjust", receipt |-> r, before |-> before, amount |-> amount] \in Job
                  /\ \A locked \in BOOLEAN : [step |-> "rescope", receipt |-> r, before |-> before,
                                              locked |-> locked, amount |-> amount] \in Job
  <2>1. [step |-> "convert", receipt |-> r] \in Job
    BY DEF Job
  <2>2. \A P \in SUBSET Member : [step |-> "record", receipt |-> r, participants |-> P] \in Job
    BY DEF Job
  <2>3. \A amount \in Nat : [step |-> "restate", receipt |-> r, amount |-> amount] \in Job
    BY DEF Job
  <2>4. \A amount \in Nat, before \in Split :
          [step |-> "adjust", receipt |-> r, before |-> before, amount |-> amount] \in Job
    BY DEF Job
  <2>5. \A amount \in Nat, before \in Split, locked \in BOOLEAN :
          [step |-> "rescope", receipt |-> r, before |-> before, locked |-> locked,
           amount |-> amount] \in Job
    BY DEF Job
  <2>6. QED
    BY <2>1, <2>2, <2>3, <2>4, <2>5
<1>7. \A ev \in ReceiptEvent : [step |-> "append", event |-> ev] \in Job
  BY DEF Job
<1>8. \A queue \in SUBSET ProposalEvent, now \in Nat :
        [step |-> "sweep", queue |-> queue, now |-> now] \in Job
  BY DEF Job
<1>9. QED
  BY <1>1, <1>2, <1>3, <1>4, <1>5, <1>6, <1>7, <1>8

\* Where a process goes.
LEMMA GotoType ==
  ASSUME job \in [Proc -> Job], NEW p \in Proc, NEW j \in Job, Goto(p, j)
  PROVE  job' \in [Proc -> Job]
  BY DEF Goto

\* A new request keeps the counters numbers.
LEMMA IssueType ==
  ASSUME TypeOK, NEW p \in Client, NEW kind, Issue(p, kind)
  PROVE  p \in Proc /\ started' \in Nat /\ failures' \in Nat
  BY DEF Issue, TypeOK, Proc

\* A new row is a row, due at a time.
LEMMA InsertRowType ==
  ASSUME TypeOK, NEW m \in Member, NEW r \in {"member", "owner"}, InsertRow(m, r)
  PROVE  role' \in [Member -> {"none", "member", "owner"}] /\ due' \in [Member -> Int]
  BY DEF InsertRow, TypeOK

\* What a handler may append.
LEMMA AppendType ==
  ASSUME TypeOK, NEW ev \in Event, log' = AppendOnce(log, ev)
  PROVE  log' \in Seq(Event)
  BY AppendOnceInserts DEF InsertedBehind, TypeOK

\* What a handler appends is an event.
AppendStep(p) ==
  \/ AppendJoined(p) \/ AppendLeft(p) \/ AppendFarewell(p)
  \/ (\E sid \in Settlement : AppendProposal(p, sid)) \/ AppendConfirm(p)
  \/ AppendReceipt(p) \/ AppendAdjustment(p)

\* What the appending steps append is an event.
LEMMA AppendedEvents ==
  ASSUME TypeOK, NEW p \in Proc, AppendStep(p)
  PROVE  /\ \E ev \in Event :
              /\ log' = AppendOnce(log, ev)
              /\ ev.type = "settlement_proposed" => \E sid \in Settlement : AppendProposal(p, sid)
         /\ log' \in Seq(Event)
<1> USE DEF At
<1> job[p] \in Job
  BY DEF TypeOK
<1>1. ASSUME NEW ev \in Event, log' = AppendOnce(log, ev),
             ev.type = "settlement_proposed" => \E sid \in Settlement : AppendProposal(p, sid)
      PROVE  /\ \E e \in Event :
                  /\ log' = AppendOnce(log, e)
                  /\ e.type = "settlement_proposed" =>
                       \E sid \in Settlement : AppendProposal(p, sid)
             /\ log' \in Seq(Event)
  BY <1>1, AppendType
<1>2. CASE AppendJoined(p)
  <2>1. LET ev == MemberJoined(job[p].member)
        IN  ev \in Event /\ ev.type = "member_joined"
    BY <1>2, JobFields DEF AppendJoined, MemberJoined, Event, MemberEvent
  <2>2. QED
    BY <1>1, <1>2, <2>1 DEF AppendJoined
<1>3. CASE AppendLeft(p)
  <2>1. LET ev == MemberLeft(job[p].member)
        IN  ev \in Event /\ ev.type = "member_left"
    BY <1>3, JobFields DEF AppendLeft, MemberLeft, Event, MemberEvent
  <2>2. QED
    BY <1>1, <1>3, <2>1 DEF AppendLeft
<1>4. CASE AppendFarewell(p)
  <2>1. PICK m \in job[p].remaining : log' = AppendOnce(log, MemberLeft(m))
    BY <1>4 DEF AppendFarewell
  <2>2. MemberLeft(m) \in Event /\ MemberLeft(m).type = "member_left"
    BY <1>4, <2>1, JobFields DEF AppendFarewell, MemberLeft, Event, MemberEvent
  <2>3. QED
    BY <1>1, <2>1, <2>2
<1>5. CASE \E sid \in Settlement : AppendProposal(p, sid)
  <2>1. PICK sid \in Settlement : AppendProposal(p, sid)
    BY <1>5
  <2>2. SettlementProposed(sid, job[p].from, job[p].to, job[p].amount, job[p].by) \in Event
    BY <2>1, JobFields DEF AppendProposal, SettlementProposed, Event, ProposalEvent
  <2>3. QED
    BY <1>1, <1>5, <2>1, <2>2 DEF AppendProposal
<1>6. CASE AppendConfirm(p)
  <2>1. LET ev == SettlementConfirmed(job[p].sid, job[p].by)
        IN  ev \in Event /\ ev.type = "settlement_confirmed"
    BY <1>6, JobFields DEF AppendConfirm, SettlementConfirmed, Event, ConfirmEvent
  <2>2. QED
    BY <1>1, <1>6, <2>1 DEF AppendConfirm
<1>7. CASE AppendReceipt(p)
  <2>1. job[p].event \in Event /\ job[p].event.type = "receipt_recorded"
    BY <1>7, JobFields DEF AppendReceipt, Event, ReceiptEvent
  <2>2. QED
    BY <1>1, <1>7, <2>1 DEF AppendReceipt
<1>8. CASE AppendAdjustment(p)
  <2>1. job[p].receipt \in Receipt /\ job[p].before \in Split /\ job[p].amount \in Nat
    BY <1>8, JobFields DEF AppendAdjustment
  <2>2. LET ev == Adjustment(job[p].receipt, job[p].before, job[p].amount)
        IN  ev \in AdjustmentEvent
    BY <2>1, AdjustmentType DEF Split
  <2>3. LET ev == Adjustment(job[p].receipt, job[p].before, job[p].amount)
        IN  ev \in Event /\ ev.type = "adjustment"
    BY <2>2 DEF Event, AdjustmentEvent
  <2>4. QED
    BY <1>1, <1>8, <2>3 DEF AppendAdjustment
<1>9. QED
  BY <1>2, <1>3, <1>4, <1>5, <1>6, <1>7, <1>8 DEF AppendStep

-----------------------------------------------------------------------------
(* Type correctness.                                                       *)

\* What a handler has read stays true while it runs: the proposal it is about to
\* confirm is in the log and the signature is the counterparty's; what it is about
\* to propose is between two members, one of them the proposer; what the sweep
\* has read is in the log since before the instant it stamps; the receipt that
\* is being corrected is recorded.
Backed(p, j, history, silent) ==
  /\ j.step = "confirm" =>
       \E i \in DOMAIN history : /\ history[i].type = "settlement_proposed"
                                 /\ history[i].sid = j.sid
                                 /\ j.by \in {history[i].from, history[i].to} \ {history[i].by}
  /\ j.step = "propose" => /\ j.from # j.to /\ j.by \in {j.from, j.to}
                           /\ j.amount \in Amount
  /\ j.step = "sweep" =>
       /\ p = Sweeper /\ j.now <= Len(history)
       /\ \A e \in j.queue : e.sid \in silent /\ \E i \in 1..j.now : history[i] = e
  /\ j.step \in {"rescope", "adjust", "restate"} => j.receipt \in RecordedReceipts(history)

\* Every job in flight rests on something stored.
JobsAreBacked == \A p \in Proc : Backed(p, job[p], log, lapsed)

\* The handlers that begin a request keep the types.
LEMMA RequestsKeepTypes ==
  ASSUME TypeOK, NEW p \in Client, NewRequest(p)
  PROVE  TypeOK'
<1> p \in Proc
  BY DEF Proc
<1> USE DEF TypeOK
<1>1. ASSUME NEW m \in Member, Create(p, m)
      PROVE  TypeOK'
  <2>1. job' \in [Proc -> Job]
    BY <1>1, NewJobs, GotoType DEF Create
  <2>2. QED
    BY <1>1, <2>1, IssueType, InsertRowType DEF Create, clock
<1>2. ASSUME NEW m \in Member, Join(p, m)
      PROVE  TypeOK'
  <2>1. job' \in [Proc -> Job]
    BY <1>2, NewJobs, GotoType DEF Join
  <2>2. QED
    BY <1>2, <2>1, IssueType, InsertRowType DEF Join, clock
<1>3. ASSUME NEW by \in Member, NEW from \in Member, NEW to \in Member, NEW amount \in Amount,
             Propose(p, by, from, to, amount)
      PROVE  TypeOK'
  <2>1. amount \in Nat \ {0}
    BY <1>3, AmountAssumption DEF Propose
  <2>2. job' \in [Proc -> Job]
    BY <1>3, <2>1, NewJobs, GotoType DEF Propose
  <2>3. QED
    BY <1>3, <2>2, IssueType DEF Propose, rows, clock
<1>4. ASSUME NEW actor \in Member, NEW proposal \in Proposals(log), Confirm(p, actor, proposal)
      PROVE  TypeOK'
  <2>1. proposal.sid \in Settlement
    BY ProposalsType DEF ProposalEvent
  <2>2. job' \in [Proc -> Job]
    BY <1>4, <2>1, NewJobs, GotoType DEF Confirm
  <2>3. QED
    BY <1>4, <2>2, IssueType DEF Confirm, rows, clock
<1>5. ASSUME NEW actor \in Member, NEW target \in Member, RequestDeparture(p, actor, target)
      PROVE  TypeOK'
  <2>1. job' \in [Proc -> Job]
    BY <1>5, NewJobs, GotoType DEF RequestDeparture
  <2>2. QED
    BY <1>5, <2>1, IssueType DEF RequestDeparture, rows, clock
<1>6. ASSUME NEW actor \in Member, NEW r \in Receipt, ConvertRequest(p, actor, r)
      PROVE  TypeOK'
  <2>1. job' \in [Proc -> Job]
    BY <1>6, NewJobs, GotoType DEF ConvertRequest
  <2>2. QED
    BY <1>6, <2>1, IssueType DEF ConvertRequest, rows, clock
<1>7. ASSUME NEW r \in Receipt, NEW amount \in Amount, Rescope(p, r, amount)
      PROVE  TypeOK'
  <2>1. EffectiveReceipt(log, r) \in Split
    BY <1>7, EffectiveReceiptType DEF Rescope, Split
  <2>2. (SettlementLocked(log, r) \/ r \in expired) \in BOOLEAN
    BY DEF SettlementLocked
  <2>3. job' \in [Proc -> Job]
    BY <1>7, <2>1, <2>2, AmountAssumption, NewJobs, GotoType DEF Rescope
  <2>4. QED
    BY <1>7, <2>3, IssueType DEF Rescope, rows, clock
<1>8. QED
  BY <1>1, <1>2, <1>3, <1>4, <1>5, <1>6, <1>7 DEF NewRequest

\* As do the steps of joining and leaving,
LEMMA MembershipStepsKeepTypes ==
  ASSUME TypeOK, NEW p \in Proc,
         \/ AppendJoined(p) \/ MarkLeaving(p) \/ DepartRead(p) \/ AppendLeft(p) \/ DeleteRow(p)
         \/ CountRows(p) \/ DissolveRead(p) \/ AppendFarewell(p) \/ Dissolve(p) \/ Settle(p)
  PROVE  TypeOK'
<1> USE DEF TypeOK, At
<1> job[p] \in Job
  OBVIOUS
<1>1. CASE AppendJoined(p)
  <2>1. log' \in Seq(Event) /\ job' \in [Proc -> Job]
    BY <1>1, AppendedEvents, NewJobs, GotoType DEF AppendStep, AppendJoined
  <2>2. QED
    BY <1>1, <2>1 DEF AppendJoined, rows, clock, counters
<1>2. CASE MarkLeaving(p)
  <2>1. job' \in [Proc -> Job]
    BY <1>2, NewJobs, GotoType DEF MarkLeaving
  <2>2. leaving' \in SUBSET Member
    BY <1>2, JobFields DEF MarkLeaving
  <2>3. QED
    BY <1>2, <2>1, <2>2 DEF MarkLeaving, clock, counters
<1>3. CASE DepartRead(p)
  <2>1. job' \in [Proc -> Job]
    BY <1>3, JobFields, NewJobs, GotoType DEF DepartRead
  <2>2. QED
    BY <1>3, <2>1 DEF DepartRead, rows, clock, counters
<1>4. CASE AppendLeft(p)
  <2>1. [job[p] EXCEPT !.step = "delete"] \in Job
    BY <1>4 DEF AppendLeft, Job
  <2>2. log' \in Seq(Event) /\ job' \in [Proc -> Job]
    BY <1>4, <2>1, AppendedEvents, GotoType DEF AppendStep, AppendLeft
  <2>3. QED
    BY <1>4, <2>2 DEF AppendLeft, rows, clock, counters
<1>5. CASE DeleteRow(p)
  <2>1. job' \in [Proc -> Job]
    BY <1>5, JobFields, NewJobs, GotoType DEF DeleteRow
  <2>2. /\ role' \in [Member -> {"none", "member", "owner"}]
        /\ leaving' \in SUBSET Member /\ due' \in [Member -> Int]
    BY <1>5, JobFields DEF DeleteRow
  <2>3. QED
    BY <1>5, <2>1, <2>2 DEF DeleteRow, clock, counters
<1>6. CASE CountRows(p)
  <2>1. job' \in [Proc -> Job]
    BY <1>6, JobFields, NewJobs, GotoType DEF CountRows
  <2>2. QED
    BY <1>6, <2>1 DEF CountRows, rows, clock, counters
<1>7. CASE DissolveRead(p)
  <2>1. Members \in SUBSET Member
    BY DEF Members
  <2>2. job' \in [Proc -> Job]
    BY <1>7, <2>1, NewJobs, GotoType DEF DissolveRead
  <2>3. QED
    BY <1>7, <2>2 DEF DissolveRead, rows, clock, counters
<1>8. CASE AppendFarewell(p)
  <2>1. PICK m \in job[p].remaining : Goto(p, [job[p] EXCEPT !.remaining = @ \ {m}])
    BY <1>8 DEF AppendFarewell
  <2>2. [job[p] EXCEPT !.remaining = @ \ {m}] \in Job
    BY <1>8 DEF AppendFarewell, Job
  <2>3. log' \in Seq(Event) /\ job' \in [Proc -> Job]
    BY <1>8, <2>1, <2>2, AppendedEvents, GotoType DEF AppendStep
  <2>4. QED
    BY <1>8, <2>3 DEF AppendFarewell, rows, clock, counters
<1>9. CASE Dissolve(p)
  <2>1. job' \in [Proc -> Job]
    BY <1>9, JobFields, NewJobs, GotoType DEF Dissolve
  <2>2. due' \in [Member -> Int]
    BY <1>9 DEF Dissolve
  <2>3. QED
    BY <1>9, <2>1, <2>2 DEF Dissolve, clock, counters
<1>10. CASE Settle(p)
  <2>1. job' \in [Proc -> Job]
    BY <1>10, NewJobs, GotoType DEF Settle
  <2>2. QED
    BY <1>10, <2>1 DEF Settle, rows, clock, counters
<1>11. QED
  BY <1>1, <1>2, <1>3, <1>4, <1>5, <1>6, <1>7, <1>8, <1>9, <1>10

\* of proposing and confirming,
LEMMA SettlementStepsKeepTypes ==
  ASSUME TypeOK, NEW p \in Proc,
         (\E sid \in Settlement : AppendProposal(p, sid)) \/ AppendConfirm(p)
  PROVE  TypeOK'
<1> USE DEF TypeOK, At
<1> job[p] \in Job
  OBVIOUS
<1>1. ASSUME NEW sid \in Settlement, AppendProposal(p, sid)
      PROVE  TypeOK'
  <2>1. log' \in Seq(Event) /\ job' \in [Proc -> Job]
    BY <1>1, AppendedEvents, NewJobs, GotoType DEF AppendStep, AppendProposal
  <2>2. QED
    BY <1>1, <2>1 DEF AppendProposal, rows, clock, counters
<1>2. CASE AppendConfirm(p)
  <2>1. log' \in Seq(Event) /\ job' \in [Proc -> Job]
    BY <1>2, AppendedEvents, NewJobs, GotoType DEF AppendStep, AppendConfirm
  <2>2. QED
    BY <1>2, <2>1 DEF AppendConfirm, rows, clock, counters
<1>3. QED
  BY <1>1, <1>2

\* of recording and correcting a receipt,
LEMMA ReceiptStepsKeepTypes ==
  ASSUME TypeOK, JobsAreBacked, NEW p \in Proc,
         \/ ConvertTrip(p) \/ (\E amount \in Amount : RecordRead(p, amount)) \/ AppendReceipt(p)
         \/ RestateCheck(p) \/ Restate(p) \/ AppendAdjustment(p)
  PROVE  TypeOK'
<1> USE DEF TypeOK, At
<1> job[p] \in Job
  OBVIOUS
<1>1. Eligible \in SUBSET Member
  BY DEF Eligible, Members
<1>2. CASE ConvertTrip(p)
  <2>1. job' \in [Proc -> Job] /\ family' \in SUBSET Receipt
    BY <1>1, <1>2, JobFields, NewJobs, GotoType DEF ConvertTrip
  <2>2. QED
    BY <1>2, <2>1 DEF ConvertTrip, rows, clock, counters
<1>3. ASSUME NEW amount \in Amount, RecordRead(p, amount)
      PROVE  TypeOK'
  <2>1. ReceiptRecorded(job[p].receipt, Uploader[job[p].receipt], amount,
                        job[p].participants \cap Eligible) \in ReceiptEvent
    <3>1. job[p].receipt \in Receipt /\ job[p].participants \in SUBSET Member
      BY <1>3, JobFields DEF RecordRead
    <3>2. QED
      BY <3>1, AmountAssumption, UploaderAssumption, ReceiptRecordedType
  <2>2. job' \in [Proc -> Job]
    BY <1>3, <2>1, NewJobs, GotoType DEF RecordRead
  <2>3. QED
    BY <1>3, <2>2 DEF RecordRead, rows, clock, counters
<1>4. CASE AppendReceipt(p)
  <2>1. log' \in Seq(Event) /\ job' \in [Proc -> Job]
    BY <1>4, AppendedEvents, NewJobs, GotoType DEF AppendStep, AppendReceipt
  <2>2. QED
    BY <1>4, <2>1 DEF AppendReceipt, rows, clock, counters
<1>5. CASE RestateCheck(p)
  <2>1. job[p].receipt \in Receipt /\ job[p].before \in Split /\ job[p].amount \in Nat
    BY <1>5, JobFields DEF RestateCheck
  <2>2. job' \in [Proc -> Job]
    BY <1>5, <2>1, NewJobs, GotoType DEF RestateCheck
  <2>3. QED
    BY <1>5, <2>2 DEF RestateCheck, rows, clock, counters
<1>6. CASE Restate(p)
  <2> DEFINE i == RecordedAt(log, job[p].receipt)
             ev == ReceiptRecorded(job[p].receipt, log[i].payer, job[p].amount, log[i].participants)
  <2>1. job[p].receipt \in RecordedReceipts(log)
    BY <1>6 DEF Restate, JobsAreBacked, Backed
  <2>2. i \in 1..Len(log) /\ log[i] \in ReceiptEvent
    BY <2>1, RecordedAtIsARecord, LenProperties
  <2>3. job[p].receipt \in Receipt /\ job[p].amount \in Nat
    BY <1>6, JobFields DEF Restate
  <2>4. ev \in Event
    <3>1. log[i].payer \in Member /\ log[i].participants \in SUBSET Member
      BY <2>2 DEF ReceiptEvent
    <3>2. QED
      BY <2>3, <3>1, ReceiptRecordedType DEF Event
  <2>5. log' = [log EXCEPT ![i] = ev]
    BY <1>6 DEF Restate
  <2> HIDE DEF i, ev
  <2>6. log' \in Seq(Event)
    BY <2>2, <2>4, <2>5, ExceptSeq
  <2>7. job' \in [Proc -> Job]
    BY <1>6, NewJobs, GotoType DEF Restate
  <2>8. QED
    BY <1>6, <2>6, <2>7 DEF Restate, rows, clock, counters
<1>7. CASE AppendAdjustment(p)
  <2>1. log' \in Seq(Event) /\ job' \in [Proc -> Job]
    BY <1>7, AppendedEvents, NewJobs, GotoType DEF AppendStep, AppendAdjustment
  <2>2. QED
    BY <1>7, <2>1 DEF AppendAdjustment, rows, clock, counters
<1>8. QED
  BY <1>2, <1>3, <1>4, <1>5, <1>6, <1>7

\* and of the sweep.
LEMMA SweepStepsKeepTypes ==
  ASSUME TypeOK, JobsAreBacked, SweepRead \/ SweepConfirm
  PROVE  TypeOK'
<1> USE DEF TypeOK, At
<1> Sweeper \in Proc /\ job[Sweeper] \in Job
  BY DEF Proc
<1>1. CASE SweepRead
  <2>1. {e \in PendingSettlements(log) : e.sid \in lapsed} \in SUBSET ProposalEvent
    BY ProposalsType DEF PendingSettlements
  <2>2. Len(log) \in Nat
    BY LenProperties
  <2>3. job' \in [Proc -> Job]
    BY <1>1, <2>1, <2>2, NewJobs, GotoType DEF SweepRead
  <2>4. QED
    BY <1>1, <2>3 DEF SweepRead, rows, clock, counters
<1>2. CASE SweepConfirm
  <2>1. PICK i \in DOMAIN log :
          /\ At(Sweeper, "sweep")
          /\ log[i] \in job[Sweeper].queue
          /\ log' = BackdateOnce(log, job[Sweeper].now, SettlementConfirmed(log[i].sid, AutoConfirm))
          /\ Goto(Sweeper, IF job[Sweeper].queue \ {log[i]} = {} THEN [step |-> "settle"]
                           ELSE [step |-> "sweep", queue |-> job[Sweeper].queue \ {log[i]},
                                 now |-> job[Sweeper].now + Len(log') - Len(log)])
          /\ UNCHANGED <<rows, family, clock, due, counters>>
    BY <1>2 DEF SweepConfirm
  <2>2. job[Sweeper].queue \in SUBSET ProposalEvent /\ job[Sweeper].now \in 0..Len(log)
    BY <2>1, JobFields, LenProperties DEF JobsAreBacked, Backed
  <2>3. SettlementConfirmed(log[i].sid, AutoConfirm) \in Event
    BY <2>1, <2>2 DEF SettlementConfirmed, ProposalEvent, ConfirmEvent, Event
  <2>4. log' \in Seq(Event) /\ Len(log') - Len(log) \in {0, 1}
    BY <2>1, <2>2, <2>3, BackdateOnceInserts, LenProperties DEF InsertedBehind
  <2>5. [step |-> "sweep", queue |-> job[Sweeper].queue \ {log[i]},
         now |-> job[Sweeper].now + Len(log') - Len(log)] \in Job
    <3>1. job[Sweeper].now + Len(log') - Len(log) \in Nat
      BY <2>2, <2>4, LenProperties
    <3>2. QED
      BY <2>2, <3>1, NewJobs
  <2>6. job' \in [Proc -> Job]
    BY <2>1, <2>5, NewJobs, GotoType
  <2>7. QED
    BY <2>1, <2>4, <2>6 DEF rows, clock, counters
<1>3. QED
  BY <1>1, <1>2

\* Together: no step breaks a type.
LEMMA StepsKeepTypes ==
  ASSUME TypeOK, JobsAreBacked, [Next]_vars
  PROVE  TypeOK'
<1>1. ASSUME NEW p \in Client, NewRequest(p)
      PROVE  TypeOK'
  BY <1>1, RequestsKeepTypes
<1>2. ASSUME NEW p \in Proc, Progress(p)
      PROVE  TypeOK'
  BY <1>2, MembershipStepsKeepTypes, SettlementStepsKeepTypes, ReceiptStepsKeepTypes DEF Progress
<1>3. ASSUME NEW p \in Proc, Fail(p)
      PROVE  TypeOK'
  <2>1. job' \in [Proc -> Job]
    BY <1>3, NewJobs, GotoType DEF Fail, TypeOK
  <2>2. QED
    BY <1>3, <2>1 DEF Fail, TypeOK, rows, clock
<1>4. CASE SweepRead \/ SweepConfirm
  BY <1>4, SweepStepsKeepTypes
<1>5. ASSUME NEW sid \in Settlement, Lapse(sid)
      PROVE  TypeOK'
  BY <1>5 DEF Lapse, TypeOK, rows, counters
<1>6. ASSUME NEW r \in Receipt, Expire(r)
      PROVE  TypeOK'
  BY <1>6 DEF Expire, TypeOK, rows, counters
<1>7. CASE UNCHANGED vars
  BY <1>7 DEF TypeOK, vars, rows, clock, counters
<1>8. QED
  BY <1>1, <1>2, <1>3, <1>4, <1>5, <1>6, <1>7 DEF Next

-----------------------------------------------------------------------------
(* Two signatures, once.                                                   *)

\* The strengthening: types, the property, and what the handlers have read.
IInv == TypeOK /\ TwoSignaturesOnce /\ JobsAreBacked

\* An insertion takes nothing away from what a handler has read, as long as it
\* is not before the instant the sweep stamps.
LEMMA InsertionKeepsBacking ==
  ASSUME NEW history \in Seq(Event), NEW longer, NEW n, NEW ev,
         InsertedBehind(longer, history, n, ev),
         NEW p, NEW j \in Job, NEW silent, Backed(p, j, history, silent),
         j.step = "sweep" => j.now <= n
  PROVE  Backed(p, j, longer, silent)
<1>1. ASSUME j.step = "confirm"
      PROVE  \E k \in DOMAIN longer : /\ longer[k].type = "settlement_proposed"
                                      /\ longer[k].sid = j.sid
                                      /\ j.by \in {longer[k].from, longer[k].to} \ {longer[k].by}
  BY <1>1, InsertionShifts DEF Backed
<1>2. ASSUME j.step = "sweep"
      PROVE  /\ p = Sweeper /\ j.now <= Len(longer)
             /\ \A e \in j.queue : e.sid \in silent /\ \E i \in 1..j.now : longer[i] = e
  <2>1. j.now \in Nat /\ n \in 0..Len(history) /\ Len(longer) = Len(history) + 1 /\ Len(history) \in Nat
    BY <1>2, JobFields, LenProperties DEF InsertedBehind
  <2>2. \A i \in 1..j.now : longer[i] = history[i]
    BY <1>2, <2>1 DEF InsertedBehind
  <2>3. QED
    BY <1>2, <2>1, <2>2 DEF Backed
<1>3. RecordedReceipts(history) \subseteq RecordedReceipts(longer)
  BY InsertionShifts DEF RecordedReceipts, EventsOf, ToSet
<1>4. QED
  BY <1>1, <1>2, <1>3 DEF Backed

\* A new event is not the second of its key, and a confirmation stands behind
\* the proposal it countersigns.
LEMMA InsertionKeepsSignatures ==
  ASSUME TypeOK, TwoSignaturesOnce, NEW n, NEW ev,
         InsertedBehind(log', log, n, ev), ~Duplicate(log, ev), lapsed' = lapsed,
         ev.type = "settlement_confirmed" =>
           \E i \in 1..n : /\ log[i].type = "settlement_proposed"
                           /\ log[i].sid = ev.sid
                           /\ Countersigned(ev, log[i])
  PROVE  TwoSignaturesOnce'
<1>1. log \in Seq(Event) /\ DOMAIN log = 1..Len(log) /\ Len(log) \in Nat /\ n \in 0..Len(log)
  BY LenProperties DEF TypeOK, InsertedBehind
<1>2. SUFFICES ASSUME NEW k \in DOMAIN log', log'[k].type = "settlement_confirmed"
               PROVE  /\ \E j \in 1..(k - 1) : /\ log'[j].type = "settlement_proposed"
                                               /\ log'[j].sid = log'[k].sid
                                               /\ Countersigned(log'[k], log'[j])
                      /\ \A l \in DOMAIN log' : SameDedupeKey(log'[l], log'[k]) => l = k
  BY DEF TwoSignaturesOnce, Countersigned
<1>3. CASE k = n + 1 /\ log'[k] = ev
  <2>1. PICK i \in 1..n : /\ log[i].type = "settlement_proposed"
                          /\ log[i].sid = ev.sid
                          /\ Countersigned(ev, log[i])
    BY <1>2, <1>3
  <2>2. log'[i] = log[i] /\ i \in 1..(k - 1)
    BY <1>1, <1>3 DEF InsertedBehind
  <2>3. ASSUME NEW l \in DOMAIN log', SameDedupeKey(log'[l], ev)
        PROVE  l = n + 1
    BY <1>1, <2>3, InsertionShifts DEF Duplicate
  <2>4. QED
    BY <1>3, <2>1, <2>2, <2>3
<1>4. CASE \E h \in DOMAIN log : k = ShiftedBehind(n, h) /\ log'[k] = log[h]
  <2>1. PICK h \in DOMAIN log : k = ShiftedBehind(n, h) /\ log'[k] = log[h]
    BY <1>4
  <2>2. PICK j \in 1..(h - 1) : /\ log[j].type = "settlement_proposed"
                                /\ log[j].sid = log[h].sid
                                /\ Countersigned(log[h], log[j])
    BY <1>2, <2>1 DEF TwoSignaturesOnce
  <2>3. log'[ShiftedBehind(n, j)] = log[j] /\ ShiftedBehind(n, j) \in 1..(k - 1)
    <3>1. j \in DOMAIN log
      BY <1>1
    <3>2. QED
      BY <1>1, <2>1, <3>1, InsertionShifts DEF ShiftedBehind
  <2>4. ASSUME NEW l \in DOMAIN log', SameDedupeKey(log'[l], log'[k])
        PROVE  l = k
    <3>1. CASE l = n + 1 /\ log'[l] = ev
      BY <2>1, <2>4, <3>1 DEF Duplicate, SameDedupeKey
    <3>2. CASE \E g \in DOMAIN log : l = ShiftedBehind(n, g) /\ log'[l] = log[g]
      BY <1>2, <2>1, <2>4, <3>2 DEF TwoSignaturesOnce
    <3>3. QED
      BY <1>1, <3>1, <3>2, InsertionShifts
  <2>5. QED
    BY <2>1, <2>2, <2>3, <2>4
<1>5. QED
  BY <1>1, <1>3, <1>4, InsertionShifts

\* A step that leaves the log alone.
LEMMA ReadingKeepsIInv ==
  ASSUME IInv, TypeOK', UNCHANGED <<log, lapsed>>, NEW p \in Proc, NEW j,
         Goto(p, j), Backed(p, j, log, lapsed)
  PROVE  IInv'
<1>1. TwoSignaturesOnce'
  BY DEF IInv, TwoSignaturesOnce, Countersigned
<1>2. JobsAreBacked'
  <2>1. \A q \in Proc : job'[q] = IF q = p THEN j ELSE job[q]
    BY DEF Goto, IInv, TypeOK
  <2>2. QED
    BY <2>1 DEF IInv, JobsAreBacked
<1>3. QED
  BY <1>1, <1>2 DEF IInv

\* A step that appends an event.
LEMMA AppendingKeepsIInv ==
  ASSUME IInv, TypeOK', UNCHANGED lapsed, NEW ev \in Event, log' = AppendOnce(log, ev),
         NEW p \in Proc, NEW j, Goto(p, j),
         j.step \notin {"propose", "confirm", "sweep", "rescope", "adjust", "restate"},
         ev.type = "settlement_confirmed" =>
           \E i \in DOMAIN log : /\ log[i].type = "settlement_proposed"
                                 /\ log[i].sid = ev.sid
                                 /\ Countersigned(ev, log[i])
  PROVE  IInv'
<1>1. Backed(p, j, log, lapsed)
  BY DEF Backed
<1>2. CASE log' = log
  BY <1>1, <1>2, ReadingKeepsIInv
<1>3. CASE ~Duplicate(log, ev) /\ InsertedBehind(log', log, Len(log), ev)
  <2>1. DOMAIN log = 1..Len(log) /\ log \in Seq(Event)
    BY LenProperties DEF IInv, TypeOK
  <2>2. TwoSignaturesOnce'
    BY <1>3, <2>1, InsertionKeepsSignatures DEF IInv
  <2>3. ASSUME NEW q \in Proc
        PROVE  Backed(q, job[q], log', lapsed)
    <3>1. job[q] \in Job /\ Backed(q, job[q], log, lapsed)
      BY DEF IInv, TypeOK, JobsAreBacked
    <3>2. job[q].step = "sweep" => job[q].now <= Len(log)
      BY <3>1 DEF Backed
    <3>3. QED
      BY <1>3, <2>1, <3>1, <3>2, InsertionKeepsBacking
  <2>4. \A q \in Proc : job'[q] = IF q = p THEN j ELSE job[q]
    BY DEF Goto, IInv, TypeOK
  <2>5. JobsAreBacked'
    BY <2>3, <2>4 DEF JobsAreBacked, Backed
  <2>6. QED
    BY <2>2, <2>5 DEF IInv
<1>4. QED
  BY <1>2, <1>3, AppendOnceInserts DEF IInv, TypeOK

\* The step that rewrites a recorded receipt.
LEMMA RestatingKeepsIInv ==
  ASSUME IInv, TypeOK', NEW p \in Proc, Restate(p)
  PROVE  IInv'
<1> DEFINE r == job[p].receipt
           i == RecordedAt(log, r)
           ev == ReceiptRecorded(r, log[i].payer, job[p].amount, log[i].participants)
<1>1. r \in RecordedReceipts(log)
  BY DEF Restate, At, IInv, JobsAreBacked, Backed
<1>2. i \in 1..Len(log) /\ log[i].type = "receipt_recorded" /\ log[i].receipt = r
  BY <1>1, RecordedAtIsARecord, LenProperties DEF IInv, TypeOK, ReceiptEvent
<1>3. log' = [log EXCEPT ![i] = ev] /\ lapsed' = lapsed /\ Goto(p, Idle)
  BY DEF Restate, clock
<1>4. ev.type = "receipt_recorded" /\ ev.receipt = r
  BY DEF ReceiptRecorded
<1>5. log \in Seq(Event) /\ DOMAIN log = 1..Len(log) /\ Len(log) \in Nat
  BY LenProperties DEF IInv, TypeOK
<1> HIDE DEF ev, i, r
<1>6. /\ DOMAIN log' = DOMAIN log /\ Len(log') = Len(log)
      /\ \A k \in DOMAIN log : log'[k] = IF k = i THEN ev ELSE log[k]
  <2>1. DOMAIN log' = DOMAIN log
    BY <1>3
  <2>2. Len(log') = Len(log)
    BY <1>5, <2>1, LenProperties DEF TypeOK
  <2>3. QED
    BY <1>2, <1>3, <2>1, <2>2
<1>7. TwoSignaturesOnce'
  <2>1. SUFFICES ASSUME NEW k \in DOMAIN log', log'[k].type = "settlement_confirmed"
                 PROVE  /\ \E j \in 1..(k - 1) : /\ log'[j].type = "settlement_proposed"
                                                 /\ log'[j].sid = log'[k].sid
                                                 /\ Countersigned(log'[k], log'[j])
                        /\ \A l \in DOMAIN log' : SameDedupeKey(log'[l], log'[k]) => l = k
    BY <1>3 DEF TwoSignaturesOnce, Countersigned
  <2>2. k \in DOMAIN log /\ log'[k] = log[k]
    BY <1>4, <1>6, <2>1
  <2>3. PICK j \in 1..(k - 1) : /\ log[j].type = "settlement_proposed"
                                /\ log[j].sid = log[k].sid
                                /\ Countersigned(log[k], log[j])
    BY <2>1, <2>2 DEF IInv, TwoSignaturesOnce
  <2>4. log'[j] = log[j]
    BY <1>2, <1>5, <1>6, <2>2, <2>3
  <2>5. ASSUME NEW l \in DOMAIN log', SameDedupeKey(log'[l], log'[k])
        PROVE  l = k
    <3>1. log'[l] = log[l] /\ l \in DOMAIN log
      BY <1>4, <1>6, <2>1, <2>5 DEF SameDedupeKey
    <3>2. QED
      BY <2>1, <2>2, <2>5, <3>1 DEF IInv, TwoSignaturesOnce
  <2>6. QED
    BY <2>2, <2>3, <2>4, <2>5
<1>8. ASSUME NEW q \in Proc
      PROVE  Backed(q, job'[q], log', lapsed')
  <2>1. CASE q = p
    BY <1>3, <2>1 DEF Goto, IInv, TypeOK, Backed, Idle
  <2>2. CASE q # p
    <3>1. job'[q] = job[q] /\ Backed(q, job[q], log, lapsed) /\ job[q] \in Job
      BY <1>3, <2>2 DEF Goto, IInv, TypeOK, JobsAreBacked
    <3>2. ASSUME job[q].step = "confirm"
          PROVE  \E k \in DOMAIN log' : /\ log'[k].type = "settlement_proposed"
                                        /\ log'[k].sid = job[q].sid
                                        /\ job[q].by \in {log'[k].from, log'[k].to} \ {log'[k].by}
      BY <1>2, <1>6, <3>1, <3>2 DEF Backed
    <3>3. ASSUME job[q].step = "sweep"
          PROVE  /\ q = Sweeper /\ job[q].now <= Len(log')
                 /\ \A e \in job[q].queue : e.sid \in lapsed' /\ \E k \in 1..job[q].now : log'[k] = e
      <4>1. job[q].now \in Nat /\ \A e \in job[q].queue : e.type = "settlement_proposed"
        BY <3>1, <3>3, JobFields DEF ProposalEvent
      <4>2. QED
        BY <1>2, <1>3, <1>5, <1>6, <3>1, <3>3, <4>1 DEF Backed
    <3>4. RecordedReceipts(log) \subseteq RecordedReceipts(log')
      <4>1. ASSUME NEW k \in DOMAIN log, log[k].type = "receipt_recorded"
            PROVE  log'[k].type = "receipt_recorded" /\ log'[k].receipt = log[k].receipt
        BY <1>2, <1>4, <1>6, <4>1
      <4>2. QED
        BY <1>6, <4>1 DEF RecordedReceipts, EventsOf, ToSet
    <3>5. QED
      BY <3>1, <3>2, <3>3, <3>4 DEF Backed
  <2>3. QED
    BY <2>1, <2>2
<1>9. QED
  BY <1>7, <1>8 DEF IInv, JobsAreBacked

\* The step that confirms the oldest lapsed proposal.
LEMMA SweepingKeepsIInv ==
  ASSUME IInv, TypeOK', SweepConfirm
  PROVE  IInv'
<1> DEFINE j == job[Sweeper]
<1>1. PICK i \in DOMAIN log :
        /\ j.step = "sweep"
        /\ log[i] \in j.queue
        /\ log' = BackdateOnce(log, j.now, SettlementConfirmed(log[i].sid, AutoConfirm))
        /\ Goto(Sweeper, IF j.queue \ {log[i]} = {} THEN [step |-> "settle"]
                         ELSE [step |-> "sweep", queue |-> j.queue \ {log[i]},
                               now |-> j.now + Len(log') - Len(log)])
        /\ lapsed' = lapsed
  BY DEF SweepConfirm, At, clock
<1> DEFINE ev == SettlementConfirmed(log[i].sid, AutoConfirm)
           next == IF j.queue \ {log[i]} = {} THEN [step |-> "settle"]
                   ELSE [step |-> "sweep", queue |-> j.queue \ {log[i]},
                         now |-> j.now + Len(log') - Len(log)]
<1>2. j \in Job /\ Backed(Sweeper, j, log, lapsed) /\ Sweeper \in Proc
  BY DEF IInv, TypeOK, JobsAreBacked, Proc
<1>3. /\ j.queue \in SUBSET ProposalEvent /\ j.now \in 0..Len(log)
      /\ Len(log) \in Nat /\ log \in Seq(Event)
      /\ \A e \in j.queue : e.sid \in lapsed /\ \E k \in 1..j.now : log[k] = e
  <2>1. log \in Seq(Event) /\ Len(log) \in Nat
    BY LenProperties DEF IInv, TypeOK
  <2>2. j.queue \in SUBSET ProposalEvent /\ j.now \in Nat
    BY <1>1, <1>2, JobFields
  <2>3. /\ j.now <= Len(log)
        /\ \A e \in j.queue : e.sid \in lapsed /\ \E k \in 1..j.now : log[k] = e
    BY <1>1, <1>2 DEF Backed
  <2>4. QED
    BY <2>1, <2>2, <2>3
<1>4. /\ ev \in Event /\ ev.type = "settlement_confirmed"
      /\ ev.sid = log[i].sid /\ ev.by = AutoConfirm
  BY <1>1, <1>3 DEF SettlementConfirmed, ProposalEvent, ConfirmEvent, Event
<1> HIDE DEF ev, j
<1>5. CASE log' = log
  <2>1. Backed(Sweeper, next, log, lapsed)
    BY <1>1, <1>2, <1>3, <1>5 DEF Backed
  <2>2. QED
    BY <1>1, <1>2, <1>5, <2>1, ReadingKeepsIInv
<1>6. CASE ~Duplicate(log, ev) /\ InsertedBehind(log', log, j.now, ev)
  <2>1. PICK k \in 1..j.now : log[k] = log[i]
    BY <1>1, <1>3
  <2>2. log[k].type = "settlement_proposed" /\ log[k].sid = ev.sid /\ Countersigned(ev, log[k])
    BY <1>1, <1>3, <1>4, <2>1 DEF ProposalEvent, Countersigned
  <2>3. TwoSignaturesOnce'
    BY <1>1, <1>6, <2>2, InsertionKeepsSignatures DEF IInv
  <2>4. ASSUME NEW q \in Proc
        PROVE  Backed(q, job'[q], log', lapsed')
    <3>1. CASE q # Sweeper
      <4>1. job'[q] = job[q] /\ job[q] \in Job /\ Backed(q, job[q], log, lapsed)
        BY <1>1, <3>1 DEF Goto, IInv, TypeOK, JobsAreBacked
      <4>2. job[q].step # "sweep"
        BY <3>1, <4>1 DEF Backed
      <4>3. QED
        BY <1>1, <1>3, <1>6, <4>1, <4>2, InsertionKeepsBacking
    <3>2. CASE q = Sweeper
      <4>1. job'[q] = next
        BY <1>1, <1>2, <3>2 DEF Goto, IInv, TypeOK
      <4>2. Len(log') = Len(log) + 1 /\ \A l \in 1..j.now : log'[l] = log[l]
        BY <1>6 DEF InsertedBehind
      <4>3. ASSUME next.step = "sweep"
            PROVE  /\ next.now = j.now + 1 /\ next.now <= Len(log')
                   /\ next.queue \subseteq j.queue
        BY <1>3, <4>2, <4>3
      <4>4. next.step \in {"settle", "sweep"}
        OBVIOUS
      <4> HIDE DEF next
      <4>5. ASSUME next.step = "sweep", NEW e \in next.queue
            PROVE  e.sid \in lapsed' /\ \E l \in 1..next.now : log'[l] = e
        <5>1. e \in j.queue
          BY <4>3, <4>5
        <5>2. PICK l \in 1..j.now : log[l] = e
          BY <1>3, <5>1
        <5>3. l \in 1..next.now /\ log'[l] = e
          BY <1>3, <4>2, <4>3, <4>5, <5>2
        <5>4. QED
          BY <1>1, <1>3, <5>1, <5>3
      <4>6. QED
        BY <3>2, <4>1, <4>3, <4>4, <4>5 DEF Backed
    <3>3. QED
      BY <3>1, <3>2
  <2>5. QED
    BY <2>3, <2>4 DEF IInv, JobsAreBacked
<1>7. QED
  BY <1>1, <1>3, <1>4, <1>5, <1>6, BackdateOnceInserts DEF ev

-----------------------------------------------------------------------------
(* The inductive invariant.                                                *)

\* The invariant holds of the initial households.
LEMMA InitialIInv == Init => IInv
<1> SUFFICES ASSUME Init PROVE IInv
  OBVIOUS
<1>1. TypeOK
  BY NewJobs, EmptySeq DEF Init, TypeOK, Proc
<1>2. TwoSignaturesOnce
  BY DEF Init, TwoSignaturesOnce
<1>3. JobsAreBacked
  BY DEF Init, JobsAreBacked, Backed, Idle
<1>4. QED
  BY <1>1, <1>2, <1>3 DEF IInv

\* A request reads and starts a job that is backed by what it read.
LEMMA RequestsKeepIInv ==
  ASSUME IInv, TypeOK', NEW p \in Client, NewRequest(p)
  PROVE  IInv'
<1> p \in Proc
  BY DEF Proc
<1> USE DEF clock
<1>1. ASSUME NEW m \in Member, Create(p, m) \/ Join(p, m)
      PROVE  IInv'
  <2>1. Backed(p, [step |-> "joined", member |-> m], log, lapsed)
    BY DEF Backed
  <2>2. QED
    BY <1>1, <2>1, ReadingKeepsIInv DEF Create, Join
<1>2. ASSUME NEW by \in Member, NEW from \in Member, NEW to \in Member, NEW amount \in Amount,
             Propose(p, by, from, to, amount)
      PROVE  IInv'
  <2>1. Backed(p, [step |-> "propose", from |-> from, to |-> to, amount |-> amount, by |-> by],
               log, lapsed)
    BY <1>2 DEF Propose, Backed
  <2>2. QED
    BY <1>2, <2>1, ReadingKeepsIInv DEF Propose
<1>3. ASSUME NEW actor \in Member, NEW proposal \in Proposals(log), Confirm(p, actor, proposal)
      PROVE  IInv'
  <2>1. PICK i \in DOMAIN log : log[i] = proposal
    BY ProposalsType DEF IInv, TypeOK
  <2>2. proposal.type = "settlement_proposed"
    BY DEF Proposals, EventsOf
  <2>3. Backed(p, [step |-> "confirm", sid |-> proposal.sid, by |-> actor], log, lapsed)
    BY <1>3, <2>1, <2>2 DEF Confirm, Backed
  <2>4. QED
    BY <1>3, <2>3, ReadingKeepsIInv DEF Confirm
<1>4. ASSUME NEW actor \in Member, NEW target \in Member, RequestDeparture(p, actor, target)
      PROVE  IInv'
  <2>1. PICK j \in {[step |-> "mark", member |-> target], [step |-> "dissolve"], Idle,
                    [step |-> "depart", queue |-> {target}]} : Goto(p, j)
    BY <1>4 DEF RequestDeparture, Continue
  <2>2. Backed(p, j, log, lapsed)
    BY <2>1 DEF Backed, Idle
  <2>3. QED
    BY <1>4, <2>1, <2>2, ReadingKeepsIInv DEF RequestDeparture
<1>5. ASSUME NEW actor \in Member, NEW r \in Receipt, ConvertRequest(p, actor, r)
      PROVE  IInv'
  <2>1. Backed(p, [step |-> "convert", receipt |-> r], log, lapsed)
    BY DEF Backed
  <2>2. QED
    BY <1>5, <2>1, ReadingKeepsIInv DEF ConvertRequest
<1>6. ASSUME NEW r \in Receipt, NEW amount \in Amount, Rescope(p, r, amount)
      PROVE  IInv'
  <2>1. PICK j : /\ Goto(p, j) /\ j.step = "rescope" /\ j.receipt = r
    BY <1>6 DEF Rescope
  <2>2. Backed(p, j, log, lapsed)
    BY <1>6, <2>1 DEF Rescope, Backed
  <2>3. QED
    BY <1>6, <2>1, <2>2, ReadingKeepsIInv DEF Rescope
<1>7. QED
  BY <1>1, <1>2, <1>3, <1>4, <1>5, <1>6 DEF NewRequest

\* The steps of a handler that do not touch the log.
LEMMA QuietStepsKeepIInv ==
  ASSUME IInv, TypeOK', NEW p \in Proc,
         \/ MarkLeaving(p) \/ DepartRead(p) \/ DeleteRow(p) \/ CountRows(p) \/ DissolveRead(p)
         \/ Dissolve(p) \/ Settle(p) \/ ConvertTrip(p)
         \/ (\E amount \in Amount : RecordRead(p, amount)) \/ RestateCheck(p)
  PROVE  IInv'
<1>1. UNCHANGED <<log, lapsed>>
  BY DEF MarkLeaving, DepartRead, DeleteRow, CountRows, DissolveRead, Dissolve, Settle,
         ConvertTrip, RecordRead, RestateCheck, clock
<1>2. CASE RestateCheck(p)
  <2>1. PICK j : /\ Goto(p, j) /\ j.step \in {"adjust", "restate"} /\ j.receipt = job[p].receipt
    BY <1>2 DEF RestateCheck
  <2>2. Backed(p, j, log, lapsed)
    BY <1>2, <2>1 DEF RestateCheck, At, IInv, JobsAreBacked, Backed
  <2>3. QED
    BY <1>1, <2>1, <2>2, ReadingKeepsIInv
<1>3. CASE ~RestateCheck(p)
  <2> DEFINE Harmless(j) == j.step \notin {"propose", "confirm", "sweep", "rescope", "adjust", "restate"}
  <2>1. \A queue : Harmless(Continue(queue)) /\ Harmless(Idle)
    BY DEF Continue, Idle
  <2>2. ASSUME MarkLeaving(p) \/ DeleteRow(p) \/ Dissolve(p)
        PROVE  \E j : Goto(p, j) /\ Harmless(j)
    BY <2>1, <2>2 DEF MarkLeaving, DeleteRow, Dissolve
  <2>3. ASSUME CountRows(p) \/ DissolveRead(p) \/ Settle(p) \/ ConvertTrip(p)
        PROVE  \E j : Goto(p, j) /\ Harmless(j)
    BY <2>1, <2>3 DEF CountRows, DissolveRead, Settle, ConvertTrip
  <2>4. ASSUME DepartRead(p)
        PROVE  \E j : Goto(p, j) /\ Harmless(j)
    BY <2>1, <2>4 DEF DepartRead
  <2>5. ASSUME NEW amount \in Amount, RecordRead(p, amount)
        PROVE  \E j : Goto(p, j) /\ Harmless(j)
    BY <2>1, <2>5 DEF RecordRead
  <2>6. PICK j : Goto(p, j) /\ Harmless(j)
    BY <1>3, <2>2, <2>3, <2>4, <2>5
  <2>7. Backed(p, j, log, lapsed)
    BY <2>6 DEF Backed
  <2>8. QED
    BY <1>1, <2>6, <2>7, ReadingKeepsIInv
<1>4. QED
  BY <1>2, <1>3

\* The steps of a handler that append an event.
LEMMA AppendingStepsKeepIInv ==
  ASSUME IInv, TypeOK', NEW p \in Proc, AppendStep(p)
  PROVE  IInv'
<1> USE DEF At, clock
<1> job[p] \in Job
  BY DEF IInv, TypeOK
<1>1. CASE AppendJoined(p)
  <2>1. MemberJoined(job[p].member) \in Event /\ MemberJoined(job[p].member).type = "member_joined"
    BY <1>1, JobFields DEF AppendJoined, MemberJoined, Event, MemberEvent
  <2>2. QED
    BY <1>1, <2>1, AppendingKeepsIInv DEF AppendJoined, Idle
<1>2. CASE AppendLeft(p)
  <2>1. MemberLeft(job[p].member) \in Event /\ MemberLeft(job[p].member).type = "member_left"
    BY <1>2, JobFields DEF AppendLeft, MemberLeft, Event, MemberEvent
  <2>2. PICK j : Goto(p, j) /\ j.step = "delete"
    <3>1. [job[p] EXCEPT !.step = "delete"].step = "delete"
      BY <1>2 DEF AppendLeft, Job
    <3>2. QED
      BY <1>2, <3>1 DEF AppendLeft
  <2>3. QED
    BY <1>2, <2>1, <2>2, AppendingKeepsIInv DEF AppendLeft
<1>3. CASE AppendFarewell(p)
  <2>1. PICK m \in job[p].remaining :
          /\ log' = AppendOnce(log, MemberLeft(m))
          /\ Goto(p, [job[p] EXCEPT !.remaining = @ \ {m}])
    BY <1>3 DEF AppendFarewell
  <2>2. MemberLeft(m) \in Event /\ MemberLeft(m).type = "member_left"
    BY <1>3, <2>1, JobFields DEF AppendFarewell, MemberLeft, Event, MemberEvent
  <2>3. PICK j : Goto(p, j) /\ j.step = "farewell"
    <3>1. [job[p] EXCEPT !.remaining = @ \ {m}].step = "farewell"
      BY <1>3 DEF AppendFarewell, Job
    <3>2. QED
      BY <2>1, <3>1
  <2>4. QED
    BY <1>3, <2>1, <2>2, <2>3, AppendingKeepsIInv DEF AppendFarewell
<1>4. ASSUME NEW sid \in Settlement, AppendProposal(p, sid)
      PROVE  IInv'
  <2> DEFINE ev == SettlementProposed(sid, job[p].from, job[p].to, job[p].amount, job[p].by)
  <2>1. ev \in Event /\ ev.type = "settlement_proposed"
    BY <1>4, JobFields DEF AppendProposal, SettlementProposed, Event, ProposalEvent
  <2>2. log' = AppendOnce(log, ev) /\ Goto(p, Idle) /\ lapsed' = lapsed
    BY <1>4 DEF AppendProposal
  <2> HIDE DEF ev
  <2>3. QED
    BY <2>1, <2>2, AppendingKeepsIInv DEF Idle
<1>5. CASE AppendConfirm(p)
  <2> DEFINE ev == SettlementConfirmed(job[p].sid, job[p].by)
  <2>1. ev \in Event /\ ev.sid = job[p].sid /\ ev.by = job[p].by /\ ev.by # AutoConfirm
    <3>1. job[p].sid \in Settlement /\ job[p].by \in Member
      BY <1>5, JobFields DEF AppendConfirm
    <3>2. QED
      BY <3>1, MemberAssumption DEF SettlementConfirmed, Event, ConfirmEvent
  <2>2. PICK i \in DOMAIN log : /\ log[i].type = "settlement_proposed"
                                /\ log[i].sid = job[p].sid
                                /\ job[p].by \in {log[i].from, log[i].to} \ {log[i].by}
    BY <1>5 DEF AppendConfirm, IInv, JobsAreBacked, Backed
  <2>3. Countersigned(ev, log[i])
    BY <2>1, <2>2 DEF Countersigned
  <2>4. log' = AppendOnce(log, ev) /\ Goto(p, [step |-> "settle"]) /\ lapsed' = lapsed
    BY <1>5 DEF AppendConfirm
  <2> HIDE DEF ev
  <2>5. QED
    BY <2>1, <2>2, <2>3, <2>4, AppendingKeepsIInv
<1>6. CASE AppendReceipt(p)
  <2>1. job[p].event \in Event /\ job[p].event.type = "receipt_recorded"
    BY <1>6, JobFields DEF AppendReceipt, Event, ReceiptEvent
  <2>2. QED
    BY <1>6, <2>1, AppendingKeepsIInv DEF AppendReceipt, Idle
<1>7. CASE AppendAdjustment(p)
  <2> DEFINE ev == Adjustment(job[p].receipt, job[p].before, job[p].amount)
  <2>1. ev \in AdjustmentEvent
    <3>1. job[p].receipt \in Receipt /\ job[p].before \in Split /\ job[p].amount \in Nat
      BY <1>7, JobFields DEF AppendAdjustment
    <3>2. QED
      BY <3>1, AdjustmentType DEF Split
  <2>2. log' = AppendOnce(log, ev) /\ Goto(p, Idle) /\ lapsed' = lapsed
    BY <1>7 DEF AppendAdjustment
  <2> HIDE DEF ev
  <2>3. ev \in Event /\ ev.type = "adjustment"
    BY <2>1 DEF Event, AdjustmentEvent
  <2>4. QED
    BY <2>2, <2>3, AppendingKeepsIInv DEF Idle
<1>8. QED
  BY <1>1, <1>2, <1>3, <1>4, <1>5, <1>6, <1>7 DEF AppendStep

\* And every step keeps it.
LEMMA StepsKeepIInv == IInv /\ [Next]_vars => IInv'
<1> SUFFICES ASSUME IInv, [Next]_vars PROVE IInv'
  OBVIOUS
<1>1. TypeOK'
  BY StepsKeepTypes DEF IInv
<1>2. ASSUME NEW p \in Client, NewRequest(p)
      PROVE  IInv'
  BY <1>1, <1>2, RequestsKeepIInv
<1>3. ASSUME NEW p \in Proc, Progress(p)
      PROVE  IInv'
  BY <1>1, <1>3, QuietStepsKeepIInv, AppendingStepsKeepIInv, RestatingKeepsIInv DEF Progress, AppendStep
<1>4. ASSUME NEW p \in Proc, Fail(p)
      PROVE  IInv'
  <2>1. Backed(p, Idle, log, lapsed)
    BY DEF Backed, Idle
  <2>2. QED
    BY <1>1, <1>4, <2>1, ReadingKeepsIInv DEF Fail, clock
<1>5. CASE SweepRead
  <2> DEFINE silent == {e \in PendingSettlements(log) : e.sid \in lapsed}
  <2>1. \A e \in silent : e.sid \in lapsed /\ \E i \in 1..Len(log) : log[i] = e
    BY ProposalsType, LenProperties DEF PendingSettlements, IInv, TypeOK
  <2>2. Len(log) \in Nat
    BY LenProperties DEF IInv, TypeOK
  <2> HIDE DEF silent
  <2>3. Backed(Sweeper, [step |-> "sweep", queue |-> silent, now |-> Len(log)], log, lapsed)
    BY <2>1, <2>2 DEF Backed
  <2>4. QED
    BY <1>1, <1>5, <2>3, ReadingKeepsIInv DEF SweepRead, clock, Proc, silent
<1>6. CASE SweepConfirm
  BY <1>1, <1>6, SweepingKeepsIInv
<1>7. ASSUME NEW sid \in Settlement, Lapse(sid)
      PROVE  IInv'
  <2>1. log' = log /\ job' = job /\ lapsed \subseteq lapsed'
    BY <1>7 DEF Lapse
  <2>2. TwoSignaturesOnce'
    BY <2>1 DEF IInv, TwoSignaturesOnce, Countersigned
  <2>3. JobsAreBacked'
    BY <2>1 DEF IInv, JobsAreBacked, Backed
  <2>4. QED
    BY <1>1, <2>2, <2>3 DEF IInv
<1>8. ASSUME UNCHANGED <<log, job, lapsed>>
      PROVE  IInv'
  BY <1>1, <1>8 DEF IInv, TwoSignaturesOnce, Countersigned, JobsAreBacked
<1>9. ASSUME NEW r \in Receipt, Expire(r)
      PROVE  IInv'
  BY <1>8, <1>9 DEF Expire
<1>10. CASE UNCHANGED vars
  BY <1>8, <1>10 DEF vars, clock
<1>11. QED
  BY <1>2, <1>3, <1>4, <1>5, <1>6, <1>7, <1>9, <1>10 DEF Next

\* So it holds throughout.
LEMMA IInvHolds == Spec => []IInv
  BY InitialIInv, StepsKeepIInv, PTL DEF Spec

\* Every reachable state is well-typed: every event that a handler stores is
\* one the fold knows, with a share in cents for each member.
THEOREM TypeCorrect == Spec => []TypeOK
<1>1. IInv => TypeOK
  BY DEF IInv
<1>2. QED
  BY IInvHolds, <1>1, PTL

\* Money moves on two signatures and once, for any number of clients that run
\* beside the sweep, and wherever a handler is cut short.
THEOREM SettlementsAreSafe == Spec => []TwoSignaturesOnce
<1>1. IInv => TwoSignaturesOnce
  BY DEF IInv
<1>2. QED
  BY IInvHolds, <1>1, PTL

-----------------------------------------------------------------------------
(* History.                                                                *)

\* Taking the inserted event away gives the log back.
LEMMA RemovingUndoesInsertion ==
  ASSUME NEW history \in Seq(Event), NEW longer, NEW n, NEW ev,
         InsertedBehind(longer, history, n, ev)
  PROVE  Extends(longer, history)
<1> DEFINE front == SubSeq(longer, 1, n)
           back == SubSeq(longer, n + 2, Len(longer))
<1>1. /\ Len(history) \in Nat /\ n \in 0..Len(history) /\ Len(longer) = Len(history) + 1
      /\ \A i \in 1..Len(longer) : longer[i] \in Event
      /\ \A i \in 1..n : longer[i] = history[i]
      /\ \A i \in (n + 1)..Len(history) : longer[i + 1] = history[i]
  BY LenProperties, ElementOfSeq DEF InsertedBehind
<1>2. /\ front \in Seq(Event) /\ Len(front) = n
      /\ \A i \in 1..n : front[i] = history[i]
  BY <1>1, SubSeqProperties
<1>3. /\ back \in Seq(Event) /\ Len(back) = Len(history) - n
      /\ \A i \in 1..(Len(history) - n) : back[i] = longer[n + 1 + i]
  BY <1>1, SubSeqProperties
<1> HIDE DEF front, back
<1>4. \A i \in (n + 1)..Len(history) : back[i - n] = history[i]
  <2>1. SUFFICES ASSUME NEW i \in (n + 1)..Len(history)
                 PROVE  back[i - n] = history[i]
    OBVIOUS
  <2>2. i - n \in 1..(Len(history) - n) /\ n + 1 + (i - n) = i + 1
    BY <1>1
  <2>3. QED
    BY <1>1, <1>3, <2>2
<1>5. /\ front \o back \in Seq(Event) /\ Len(front \o back) = Len(history)
      /\ \A i \in 1..Len(history) :
           (front \o back)[i] = IF i <= n THEN front[i] ELSE back[i - n]
  BY <1>1, <1>2, <1>3, ConcatProperties
<1>6. front \o back = history
  <2> DEFINE joined == front \o back
  <2> HIDE DEF joined
  <2>1. joined \in Seq(Event) /\ Len(joined) = Len(history)
    BY <1>5 DEF joined
  <2>2. ASSUME NEW i \in 1..Len(history)
        PROVE  joined[i] = history[i]
    <3>1. joined[i] = IF i <= n THEN front[i] ELSE back[i - n]
      BY <1>5 DEF joined
    <3>2. CASE i <= n
      BY <1>1, <1>2, <3>1, <3>2
    <3>3. CASE ~(i <= n)
      <4>1. i \in (n + 1)..Len(history)
        BY <1>1, <3>3
      <4>2. QED
        BY <1>4, <3>1, <3>3, <4>1
    <3>4. QED
      BY <3>2, <3>3
  <2>3. joined = history
    BY <2>1, <2>2, SeqEqual
  <2>4. QED
    BY <2>3 DEF joined
<1>7. RemoveAt(longer, n + 1) = front \o back
  <2>1. (n + 1) - 1 = n /\ (n + 1) + 1 = n + 2
    BY <1>1
  <2>2. QED
    BY <2>1 DEF RemoveAt, front, back
<1>8. QED
  BY <1>1, <1>6, <1>7 DEF Extends

\* Nothing stored is ever removed or reordered, and the payer and the
\* participants of a receipt are those it was recorded with.
THEOREM HistoryIsSafe == Spec => HistoryIsFrozen
<1>1. ASSUME IInv, [Next]_vars
      PROVE  [FrozenUnder(log', log)]_log
  <2>1. log \in Seq(Event)
    BY <1>1 DEF IInv, TypeOK
  <2>2. ASSUME NEW p \in Proc, AppendStep(p)
        PROVE  [FrozenUnder(log', log)]_log
    BY <1>1, <2>1, <2>2, AppendedEvents, AppendOnceInserts, RemovingUndoesInsertion
       DEF FrozenUnder, IInv
  <2>3. ASSUME NEW p \in Proc, Progress(p)
        PROVE  [FrozenUnder(log', log)]_log
    <3>1. CASE AppendStep(p)
      BY <2>2, <3>1
    <3>2. CASE Restate(p)
      <4> DEFINE i == RecordedAt(log, job[p].receipt)
                 ev == ReceiptRecorded(job[p].receipt, log[i].payer, job[p].amount,
                                       log[i].participants)
      <4>1. job[p].receipt \in RecordedReceipts(log)
        BY <1>1, <3>2 DEF Restate, At, IInv, JobsAreBacked, Backed
      <4>2. log[i].type = "receipt_recorded" /\ log[i].receipt = job[p].receipt
        BY <2>1, <4>1, RecordedAtIsARecord DEF ReceiptEvent
      <4>3. SameButAmount(log[i], ev)
        BY <4>2 DEF SameButAmount, ReceiptRecorded
      <4>4. log' = [log EXCEPT ![i] = ev]
        BY <3>2 DEF Restate
      <4> HIDE DEF i, ev
      <4>5. \A k \in DOMAIN log : SameButAmount(log[k], log'[k])
        BY <4>3, <4>4 DEF SameButAmount
      <4>6. QED
        BY <4>4, <4>5 DEF FrozenUnder
    <3>3. CASE UNCHANGED log
      BY <3>3
    <3>4. QED
      BY <2>3, <3>1, <3>2, <3>3
         DEF Progress, AppendStep, Settle, MarkLeaving, DepartRead, DeleteRow, CountRows,
             DissolveRead, Dissolve, ConvertTrip, RecordRead, RestateCheck
  <2>4. CASE SweepConfirm
    <3>1. PICK i \in DOMAIN log :
            /\ At(Sweeper, "sweep") /\ log[i] \in job[Sweeper].queue
            /\ log' = BackdateOnce(log, job[Sweeper].now, SettlementConfirmed(log[i].sid, AutoConfirm))
      BY <2>4 DEF SweepConfirm
    <3>2. job[Sweeper].now \in 0..Len(log) /\ job[Sweeper].queue \in SUBSET ProposalEvent
      <4>1. job[Sweeper] \in Job /\ Backed(Sweeper, job[Sweeper], log, lapsed)
        BY <1>1 DEF IInv, TypeOK, JobsAreBacked, Proc
      <4>2. QED
        BY <2>1, <3>1, <4>1, JobFields, LenProperties DEF At, Backed
    <3>3. SettlementConfirmed(log[i].sid, AutoConfirm) \in Event
      BY <3>1, <3>2 DEF SettlementConfirmed, ProposalEvent, ConfirmEvent, Event
    <3>4. QED
      BY <2>1, <3>1, <3>2, <3>3, BackdateOnceInserts, RemovingUndoesInsertion DEF FrozenUnder
  <2>5. ASSUME NEW p \in Client, NewRequest(p)
        PROVE  UNCHANGED log
    BY <2>5 DEF NewRequest, Create, Join, Propose, Confirm, RequestDeparture, ConvertRequest, Rescope
  <2>6. QED
    BY <1>1, <2>3, <2>4, <2>5 DEF Next, Fail, SweepRead, Lapse, Expire, vars
<1>2. QED
  BY IInvHolds, <1>1, PTL DEF Spec, HistoryIsFrozen

-----------------------------------------------------------------------------
(* The book of settlements.                                                *)

\* Only proposals and confirmations are in the book.
LEMMA OtherEventsAreNotBooked ==
  ASSUME TypeOK, NEW n, NEW ev, InsertedBehind(log', log, n, ev), lapsed' = lapsed,
         ev.type \notin {"settlement_proposed", "settlement_confirmed"}
  PROVE  UNCHANGED Book!vars
<1>1. log \in Seq(Event)
  BY DEF TypeOK
<1>2. /\ EventsOf(log', "settlement_proposed") = EventsOf(log, "settlement_proposed")
      /\ EventsOf(log', "settlement_confirmed") = EventsOf(log, "settlement_confirmed")
  BY <1>1, InsertionAddsToItsType
<1>3. BookedProposals' = BookedProposals /\ BookedSignatures' = BookedSignatures
  BY <1>2 DEF BookedProposals, BookedSignatures, Proposals
<1>4. QED
  BY <1>3 DEF Book!vars

\* What is written into the log as a confirmation is a signature in the book.
LEMMA ConfirmationsSign ==
  ASSUME IInv, IInv', NEW n, NEW ev \in Event, InsertedBehind(log', log, n, ev),
         ~Duplicate(log, ev), lapsed' = lapsed, ev.type = "settlement_confirmed"
  PROVE  Book!Next
<1>1. log \in Seq(Event) /\ Len(log) \in Nat /\ DOMAIN log = 1..Len(log)
  BY LenProperties DEF IInv, TypeOK
<1>2. ev \in ConfirmEvent
  BY DEF Event, ReceiptEvent, MemberEvent, ProposalEvent, AdjustmentEvent
<1>3. n \in 0..Len(log) /\ n + 1 \in DOMAIN log' /\ log'[n + 1] = ev
  BY <1>1, LenProperties DEF InsertedBehind
<1>4. PICK j \in 1..n : /\ log'[j].type = "settlement_proposed" /\ log'[j].sid = ev.sid
                        /\ Countersigned(ev, log'[j])
  <2>1. TwoSignaturesOnce'
    BY DEF IInv
  <2>2. (n + 1) - 1 = n
    BY <1>3
  <2>3. QED
    BY <1>3, <2>1, <2>2 DEF TwoSignaturesOnce, Countersigned
<1>5. log[j] \in Proposals(log) /\ log[j].sid = ev.sid /\ Countersigned(ev, log[j])
  <2>1. j \in DOMAIN log /\ log'[j] = log[j]
    BY <1>1, <1>3 DEF InsertedBehind
  <2>2. QED
    BY <1>4, <2>1 DEF Proposals, EventsOf, ToSet
<1> DEFINE e == [sid |-> log[j].sid, from |-> log[j].from, to |-> log[j].to,
                 amount |-> log[j].amount, by |-> log[j].by]
<1>6. e \in BookedProposals
  BY <1>5 DEF BookedProposals
<1>7. e.sid \notin Book!Named(BookedSignatures)
  <2>1. SUFFICES ASSUME NEW f \in EventsOf(log, "settlement_confirmed"), f.sid = ev.sid
                 PROVE  FALSE
    BY <1>5 DEF Book!Named, BookedSignatures
  <2>2. PICK k \in DOMAIN log : log[k] = f
    BY DEF EventsOf, ToSet
  <2>3. SameDedupeKey(log[k], ev)
    BY <2>1, <2>2 DEF SameDedupeKey, EventsOf
  <2>4. QED
    BY <2>3 DEF Duplicate
<1>8. BookedProposals' = BookedProposals
  BY <1>1, InsertionAddsToItsType DEF BookedProposals, Proposals
<1>9. BookedSignatures' = BookedSignatures \cup {[sid |-> e.sid, by |-> ev.by]}
  <2>1. EventsOf(log', "settlement_confirmed") = EventsOf(log, "settlement_confirmed") \cup {ev}
    BY <1>1, InsertionAddsToItsType
  <2>2. QED
    BY <1>5, <2>1 DEF BookedSignatures
<1>10. \/ ev.by \in {e.from, e.to} \ {e.by}
       \/ ev.by = AutoConfirm /\ e.sid \in lapsed
  BY <1>5 DEF Countersigned
<1>11. ev.by \in Member \cup {AutoConfirm}
  BY <1>2 DEF ConfirmEvent
<1> HIDE DEF e
<1>12. Book!Sign(e, ev.by)
  BY <1>7, <1>8, <1>9, <1>10 DEF Book!Sign
<1>13. QED
  BY <1>6, <1>11, <1>12 DEF Book!Next

\* A proposal that is appended is entered in the book.
LEMMA ProposalsAreEntered ==
  ASSUME IInv, NEW p \in Proc, NEW sid \in Settlement, AppendProposal(p, sid)
  PROVE  [Book!Next]_Book!vars
<1> DEFINE j == job[p]
           ev == SettlementProposed(sid, j.from, j.to, j.amount, j.by)
           e == [sid |-> sid, from |-> j.from, to |-> j.to, amount |-> j.amount, by |-> j.by]
<1>1. /\ j.step = "propose" /\ sid \notin ProposedIds(log) /\ log' = AppendOnce(log, ev)
      /\ lapsed' = lapsed
  BY DEF AppendProposal, At, clock
<1>2. j \in Job /\ Backed(p, j, log, lapsed) /\ log \in Seq(Event)
  BY DEF IInv, TypeOK, JobsAreBacked
<1>3. /\ j.from \in Member /\ j.to \in Member /\ j.amount \in Nat \ {0} /\ j.by \in Member
      /\ j.from # j.to /\ j.by \in {j.from, j.to} /\ j.amount \in Amount
  BY <1>1, <1>2, JobFields DEF Backed
<1>4. ev \in Event /\ ev.type = "settlement_proposed"
      /\ ev = [type |-> "settlement_proposed", sid |-> sid, from |-> j.from, to |-> j.to,
               amount |-> j.amount, by |-> j.by]
  BY <1>3 DEF SettlementProposed, ProposalEvent, Event
<1> HIDE DEF j, ev
<1>5. CASE log' = log
  BY <1>1, <1>5 DEF Book!vars, BookedProposals, BookedSignatures
<1>6. CASE InsertedBehind(log', log, Len(log), ev)
  <2>1. /\ EventsOf(log', "settlement_proposed") = EventsOf(log, "settlement_proposed") \cup {ev}
        /\ EventsOf(log', "settlement_confirmed") = EventsOf(log, "settlement_confirmed")
    BY <1>2, <1>4, <1>6, InsertionAddsToItsType
  <2>2. BookedSignatures' = BookedSignatures
    BY <2>1 DEF BookedSignatures
  <2>3. BookedProposals' = BookedProposals \cup {e}
    BY <1>4, <2>1 DEF BookedProposals, Proposals
  <2>4. sid \notin Book!Named(BookedProposals)
    BY <1>1 DEF Book!Named, BookedProposals, ProposedIds
  <2>5. j.amount > 0
    BY <1>3
  <2>6. Book!Propose(sid, j.from, j.to, j.amount, j.by)
    BY <1>1, <1>3, <2>2, <2>3, <2>4, <2>5 DEF Book!Propose
  <2>7. QED
    BY <1>3, <2>6 DEF Book!Next
<1>7. QED
  BY <1>1, <1>2, <1>4, <1>5, <1>6, AppendOnceInserts

\* The rewriting of a receipt is not seen in the book.
LEMMA RestatingIsNotBooked ==
  ASSUME IInv, NEW p \in Proc, Restate(p)
  PROVE  UNCHANGED Book!vars
<1> DEFINE i == RecordedAt(log, job[p].receipt)
           ev == ReceiptRecorded(job[p].receipt, log[i].payer, job[p].amount,
                                 log[i].participants)
<1>1. job[p].receipt \in RecordedReceipts(log) /\ log \in Seq(Event)
  BY DEF Restate, At, IInv, JobsAreBacked, Backed, TypeOK
<1>2. log[i].type = "receipt_recorded" /\ i \in DOMAIN log
  BY <1>1, RecordedAtIsARecord DEF ReceiptEvent
<1>3. log' = [log EXCEPT ![i] = ev] /\ ev.type = "receipt_recorded" /\ lapsed' = lapsed
  BY DEF Restate, ReceiptRecorded, clock
<1> HIDE DEF i, ev
<1>4. ASSUME NEW type \in {"settlement_proposed", "settlement_confirmed"}
      PROVE  EventsOf(log', type) = EventsOf(log, type)
  <2>1. DOMAIN log' = DOMAIN log /\ \A k \in DOMAIN log : log'[k] = IF k = i THEN ev ELSE log[k]
    BY <1>3
  <2>2. \A k \in DOMAIN log : \/ log'[k] = log[k]
                              \/ log'[k].type # type /\ log[k].type # type
    BY <1>2, <1>3, <2>1
  <2>3. QED
    BY <2>1, <2>2 DEF EventsOf, ToSet
<1>5. BookedProposals' = BookedProposals /\ BookedSignatures' = BookedSignatures
  BY <1>4 DEF BookedProposals, BookedSignatures, Proposals
<1>6. QED
  BY <1>3, <1>5 DEF Book!vars

\* The log implements the book: every step of every handler, of the sweep and
\* of the clock is a step of SettlementBook or leaves the book as it is.
THEOREM BookIsKept == Spec => SettlementsKeepTheBook
<1>1. Init => Book!Init
  BY DEF Init, Book!Init, BookedProposals, BookedSignatures, Proposals, EventsOf, ToSet
<1>2. ASSUME IInv, IInv', [Next]_vars
      PROVE  [Book!Next]_Book!vars
  <2>1. log \in Seq(Event)
    BY <1>2 DEF IInv, TypeOK
  <2>2. CASE UNCHANGED <<log, lapsed>>
    BY <2>2 DEF Book!vars, BookedProposals, BookedSignatures
  <2>3. ASSUME NEW n, NEW ev \in Event, lapsed' = lapsed,
               log' = log \/ (~Duplicate(log, ev) /\ InsertedBehind(log', log, n, ev)),
               ev.type # "settlement_proposed"
        PROVE  [Book!Next]_Book!vars
    BY <1>2, <2>2, <2>3, OtherEventsAreNotBooked, ConfirmationsSign DEF IInv
  <2>4. ASSUME NEW p \in Proc, AppendStep(p)
        PROVE  [Book!Next]_Book!vars
    <3>1. CASE \E sid \in Settlement : AppendProposal(p, sid)
      BY <1>2, <3>1, ProposalsAreEntered
    <3>2. CASE ~\E sid \in Settlement : AppendProposal(p, sid)
      <4>1. PICK ev \in Event : log' = AppendOnce(log, ev) /\ ev.type # "settlement_proposed"
        BY <1>2, <2>4, <3>2, AppendedEvents DEF IInv
      <4>2. lapsed' = lapsed
        BY <2>4 DEF AppendStep, AppendJoined, AppendLeft, AppendFarewell, AppendProposal,
                    AppendConfirm, AppendReceipt, AppendAdjustment, clock
      <4>3. log' = log \/ (~Duplicate(log, ev) /\ InsertedBehind(log', log, Len(log), ev))
        BY <2>1, <4>1, AppendOnceInserts
      <4>4. QED
        BY <2>3, <4>1, <4>2, <4>3
    <3>3. QED
      BY <3>1, <3>2
  <2>5. ASSUME NEW p \in Proc, Progress(p)
        PROVE  [Book!Next]_Book!vars
    <3>1. CASE AppendStep(p)
      BY <2>4, <3>1
    <3>2. CASE Restate(p)
      BY <1>2, <3>2, RestatingIsNotBooked
    <3>3. CASE ~AppendStep(p) /\ ~Restate(p)
      <4>1. UNCHANGED <<log, lapsed>>
        BY <2>5, <3>3
           DEF Progress, AppendStep, Settle, MarkLeaving, DepartRead, DeleteRow, CountRows,
               DissolveRead, Dissolve, ConvertTrip, RecordRead, RestateCheck, clock
      <4>2. QED
        BY <2>2, <4>1
    <3>4. QED
      BY <3>1, <3>2, <3>3
  <2>6. CASE SweepConfirm
    <3>1. PICK i \in DOMAIN log :
            /\ At(Sweeper, "sweep") /\ log[i] \in job[Sweeper].queue /\ lapsed' = lapsed
            /\ log' = BackdateOnce(log, job[Sweeper].now, SettlementConfirmed(log[i].sid, AutoConfirm))
      BY <2>6 DEF SweepConfirm, clock
    <3>2. job[Sweeper].now \in 0..Len(log) /\ job[Sweeper].queue \in SUBSET ProposalEvent
      <4>1. job[Sweeper] \in Job /\ Backed(Sweeper, job[Sweeper], log, lapsed)
        BY <1>2 DEF IInv, TypeOK, JobsAreBacked, Proc
      <4>2. QED
        BY <2>1, <3>1, <4>1, JobFields, LenProperties DEF At, Backed
    <3> DEFINE ev == SettlementConfirmed(log[i].sid, AutoConfirm)
               now == job[Sweeper].now
    <3>3. ev \in Event /\ ev.type = "settlement_confirmed"
      BY <3>1, <3>2 DEF SettlementConfirmed, ProposalEvent, ConfirmEvent, Event
    <3> HIDE DEF ev, now
    <3>4. now \in 0..Len(log) /\ log' = BackdateOnce(log, now, ev)
      BY <3>1, <3>2 DEF ev, now
    <3>5. log' = log \/ (~Duplicate(log, ev) /\ InsertedBehind(log', log, now, ev))
      BY <2>1, <3>3, <3>4, BackdateOnceInserts
    <3>6. QED
      BY <2>3, <3>1, <3>3, <3>5
  <2>7. ASSUME NEW sid \in Settlement, Lapse(sid)
        PROVE  [Book!Next]_Book!vars
    <3>1. /\ log' = log /\ lapsed' = lapsed \cup {sid}
          /\ sid \in {e.sid : e \in PendingSettlements(log)}
      BY <2>7 DEF Lapse
    <3>2. sid \in Book!Named(BookedProposals) \ Book!Named(BookedSignatures)
      <4>1. \E e \in Proposals(log) : e.sid = sid /\ sid \notin ConfirmedIds(log)
        <5>1. PICK e \in PendingSettlements(log) : e.sid = sid
          BY <3>1
        <5>2. QED
          BY <5>1 DEF PendingSettlements
      <4>2. sid \in Book!Named(BookedProposals)
        <5>1. PICK e \in Proposals(log) : e.sid = sid
          BY <4>1
        <5>2. [sid |-> e.sid, from |-> e.from, to |-> e.to, amount |-> e.amount, by |-> e.by]
                \in BookedProposals
          BY <5>1 DEF BookedProposals
        <5>3. QED
          BY <5>1, <5>2 DEF Book!Named
      <4>3. sid \notin Book!Named(BookedSignatures)
        BY <4>1 DEF Book!Named, BookedSignatures, ConfirmedIds
      <4>4. QED
        BY <4>2, <4>3
    <3>3. BookedProposals' = BookedProposals /\ BookedSignatures' = BookedSignatures
      BY <3>1 DEF BookedProposals, BookedSignatures
    <3>4. Book!FallSilent(sid)
      BY <3>1, <3>2, <3>3 DEF Book!FallSilent
    <3>5. QED
      BY <3>4 DEF Book!Next
  <2>8. ASSUME NEW p \in Client, NewRequest(p)
        PROVE  [Book!Next]_Book!vars
    <3>1. UNCHANGED <<log, lapsed>>
      BY <2>8 DEF NewRequest, Create, Join, Propose, Confirm, RequestDeparture, ConvertRequest,
                  Rescope, clock
    <3>2. QED
      BY <2>2, <3>1
  <2>9. QED
    BY <1>2, <2>2, <2>5, <2>6, <2>7, <2>8 DEF Next, Fail, SweepRead, Expire, vars, clock
<1>3. QED
  BY IInvHolds, <1>1, <1>2, PTL DEF Spec, SettlementsKeepTheBook, Book!Spec

-----------------------------------------------------------------------------
(* Farewells.                                                              *)

\* While the household lives, a membership row stands for one notice to come,
\* and without a row there is none.
NoticesMatchRows ==
  household # "dissolved" =>
    \A m \in Member : due[m] = IF role[m] = "none" THEN 0 ELSE 1

\* Every departure is announced once, however many handlers complete it: only
\* the handler whose DELETE removed the row goes on to the notice.
THEOREM FarewellsAreSafe == Spec => []OneFarewell
<1>1. Init => NoticesMatchRows
  BY DEF Init, NoticesMatchRows
<1>2. ASSUME TypeOK, NoticesMatchRows, [Next]_vars
      PROVE  NoticesMatchRows'
  <2> USE <1>2 DEF TypeOK, NoticesMatchRows
  <2>1. ASSUME NEW p \in Client, NEW m \in Member, Create(p, m) \/ Join(p, m)
        PROVE  NoticesMatchRows'
    BY <2>1 DEF Create, Join, InsertRow
  <2>2. ASSUME NEW p \in Proc, DeleteRow(p)
        PROVE  NoticesMatchRows'
    <3>1. job[p].member \in Member
      BY <2>2, JobFields DEF DeleteRow, At
    <3>2. household' = household /\ role' = [role EXCEPT ![job[p].member] = "none"]
      BY <2>2 DEF DeleteRow
    <3>3. due' = IF role[job[p].member] # "none"
                 THEN [due EXCEPT ![job[p].member] = @ - 1] ELSE due
      BY <2>2, <3>1 DEF DeleteRow, Members
    <3>4. QED
      BY <3>1, <3>2, <3>3
  <2>3. ASSUME NEW p \in Proc, Dissolve(p)
        PROVE  NoticesMatchRows'
    BY <2>3 DEF Dissolve
  <2>4. CASE UNCHANGED <<household, role, due>>
    BY <2>4
  <2>5. ASSUME NEW p \in Client, NewRequest(p)
        PROVE  NoticesMatchRows'
    <3>1. CASE \E m \in Member : Create(p, m) \/ Join(p, m)
      BY <2>1, <3>1
    <3>2. CASE ~\E m \in Member : Create(p, m) \/ Join(p, m)
      <4>1. UNCHANGED <<household, role, due>>
        BY ONLY <2>5, <3>2 DEF NewRequest, Propose, Confirm, RequestDeparture, ConvertRequest,
           Rescope, rows
      <4>2. QED
        BY <2>4, <4>1
    <3>3. QED
      BY <3>1, <3>2
  <2>6. ASSUME NEW p \in Proc, Progress(p)
        PROVE  NoticesMatchRows'
    BY <2>2, <2>3, <2>4, <2>6 DEF Progress, AppendJoined, AppendProposal, AppendConfirm, Settle,
       MarkLeaving, DepartRead, AppendLeft, CountRows, DissolveRead, AppendFarewell, ConvertTrip,
       RecordRead, AppendReceipt, RestateCheck, Restate, AppendAdjustment, rows
  <2>7. QED
    BY <2>4, <2>5, <2>6 DEF Next, Fail, SweepRead, SweepConfirm, Lapse, Expire, vars, rows
<1>3. NoticesMatchRows => OneFarewell
  BY DEF NoticesMatchRows, OneFarewell
<1>4. QED
  BY TypeCorrect, <1>1, <1>2, <1>3, PTL DEF Spec

-----------------------------------------------------------------------------
(* The fold never throws.                                                  *)

\* A split among the participants that adds up to its amount.
FairSplit(e) ==
  /\ e.participants # {} /\ TotalOf(e.shares) = e.amount
  /\ \A m \in Member \ e.participants : e.shares[m] = 0

\* Whoever is no participant has no share.
LEMMA OthersShareNothing ==
  ASSUME NEW r, NEW amount, NEW P, NEW m \in Member, m \notin P
  PROVE  ComputeShares(r, amount, P)[m] = 0
BY DEF ComputeShares

\* A receipt and a correction carry such a split, and a correction moves nothing
\* in total.
FairEvent(e) ==
  /\ e.type \in {"receipt_recorded", "adjustment"} => FairSplit(e)
  /\ e.type = "adjustment" => TotalOf(e.delta) = 0

\* What a handler has read so far leads to such an event: the payer of the receipt
\* it records is among the participants, and the split it corrects adds up.
FairJob(j) ==
  /\ j.step = "append" => FairSplit(j.event)
  /\ j.step = "record" => Uploader[j.receipt] \in j.participants
  /\ j.step \in {"rescope", "adjust"} => FairSplit(j.before)

\* Every stored event adds up, and every event a job is about to append.
EventsAreFair(history) == \A i \in DOMAIN history : FairEvent(history[i])
JobsAreFair == \A p \in Proc : FairJob(job[p])

\* The invariant behind FoldNeverThrows.
FairInv == EventsAreFair(log) /\ JobsAreFair

\* An inserted event is the only one that is new.
LEMMA InsertionKeepsFairness ==
  ASSUME NEW history \in Seq(Event), NEW longer, NEW n, NEW ev, EventsAreFair(history),
         InsertedBehind(longer, history, n, ev), FairEvent(ev)
  PROVE  EventsAreFair(longer)
  BY InsertionShifts DEF EventsAreFair

\* What a recorded receipt amounts to after its corrections is such a split.
LEMMA EffectiveIsFair ==
  ASSUME NEW history \in Seq(Event), NEW r \in RecordedReceipts(history), EventsAreFair(history)
  PROVE  FairSplit(EffectiveReceipt(history, r))
<1> DEFINE recorded == history[RecordedAt(history, r)]
           last == {i \in Corrections(history, r) : \A j \in Corrections(history, r) : j <= i}
           current == IF last = {} THEN recorded ELSE history[CHOOSE i \in last : TRUE]
<1>1. FairSplit(recorded)
  BY RecordedAtIsARecord DEF EventsAreFair, FairEvent, ReceiptEvent
<1>2. ASSUME NEW i \in last
      PROVE  FairSplit(history[i])
  BY DEF EventsAreFair, FairEvent, Corrections
<1> HIDE DEF recorded, last
<1>3. FairSplit(current)
  BY <1>1, <1>2
<1> HIDE DEF current
<1>4. QED
  BY <1>3 DEF EffectiveReceipt, FairSplit, recorded, last, current

\* A step that stores nothing.
LEMMA ReadingKeepsFairness ==
  ASSUME IInv, FairInv, log' = log, NEW p \in Proc, NEW j, Goto(p, j), FairJob(j)
  PROVE  FairInv'
<1>1. \A q \in Proc : job'[q] = IF q = p THEN j ELSE job[q]
  BY DEF Goto, IInv, TypeOK
<1>2. QED
  BY <1>1 DEF FairInv, JobsAreFair, EventsAreFair, FairEvent, FairSplit

\* A step that stores an event.
LEMMA StoringKeepsFairness ==
  ASSUME IInv, FairInv, NEW ev \in Event, FairEvent(ev),
         \/ log' = AppendOnce(log, ev)
         \/ \E n \in 0..Len(log) : log' = BackdateOnce(log, n, ev),
         NEW p \in Proc, NEW j, Goto(p, j), FairJob(j)
  PROVE  FairInv'
<1>1. \A q \in Proc : job'[q] = IF q = p THEN j ELSE job[q]
  BY DEF Goto, IInv, TypeOK
<1>2. log \in Seq(Event)
  BY DEF IInv, TypeOK
<1>3. log' = log \/ \E n : InsertedBehind(log', log, n, ev)
  BY <1>2, AppendOnceInserts, BackdateOnceInserts
<1>4. EventsAreFair(log')
  BY <1>2, <1>3, InsertionKeepsFairness DEF FairInv
<1>5. JobsAreFair'
  BY <1>1 DEF FairInv, JobsAreFair
<1>6. EventsAreFair(log)'
  BY <1>4 DEF EventsAreFair
<1>7. QED
  BY <1>5, <1>6 DEF FairInv

\* Jobs that carry no split.
LEMMA PlainJobs ==
  ASSUME NEW j, j.step \notin {"append", "record", "rescope", "adjust"}
  PROVE  FairJob(j)
  BY DEF FairJob

\* A request to correct a receipt starts from a split that adds up.
LEMMA RequestsKeepFairness ==
  ASSUME IInv, FairInv, NEW p \in Client, NewRequest(p)
  PROVE  FairInv'
<1> p \in Proc
  BY DEF Proc
<1>1. ASSUME NEW m \in Member, Create(p, m) \/ Join(p, m)
      PROVE  FairInv'
  <2>1. FairJob([step |-> "joined", member |-> m])
    BY PlainJobs
  <2>2. QED
    BY <1>1, <2>1, ReadingKeepsFairness DEF Create, Join
<1>2. ASSUME NEW by \in Member, NEW from \in Member, NEW to \in Member, NEW amount \in Amount,
             Propose(p, by, from, to, amount)
      PROVE  FairInv'
  <2>1. FairJob([step |-> "propose", from |-> from, to |-> to, amount |-> amount, by |-> by])
    BY PlainJobs
  <2>2. QED
    BY <1>2, <2>1, ReadingKeepsFairness DEF Propose
<1>3. ASSUME NEW actor \in Member, NEW proposal \in Proposals(log), Confirm(p, actor, proposal)
      PROVE  FairInv'
  <2>1. FairJob([step |-> "confirm", sid |-> proposal.sid, by |-> actor])
    BY PlainJobs
  <2>2. QED
    BY <1>3, <2>1, ReadingKeepsFairness DEF Confirm
<1>4. ASSUME NEW actor \in Member, NEW target \in Member, RequestDeparture(p, actor, target)
      PROVE  FairInv'
  <2>1. PICK j \in {[step |-> "mark", member |-> target], [step |-> "dissolve"], Idle,
                    [step |-> "depart", queue |-> {target}]} : Goto(p, j)
    BY <1>4 DEF RequestDeparture, Continue
  <2>2. FairJob(j)
    BY <2>1, PlainJobs DEF Idle
  <2>3. QED
    BY <1>4, <2>1, <2>2, ReadingKeepsFairness DEF RequestDeparture
<1>5. ASSUME NEW actor \in Member, NEW r \in Receipt, ConvertRequest(p, actor, r)
      PROVE  FairInv'
  <2>1. FairJob([step |-> "convert", receipt |-> r])
    BY PlainJobs
  <2>2. QED
    BY <1>5, <2>1, ReadingKeepsFairness DEF ConvertRequest
<1>6. ASSUME NEW r \in Receipt, NEW amount \in Amount, Rescope(p, r, amount)
      PROVE  FairInv'
  <2>1. FairSplit(EffectiveReceipt(log, r))
    BY <1>6, EffectiveIsFair DEF Rescope, FairInv, IInv, TypeOK
  <2>2. PICK j : Goto(p, j) /\ j.step = "rescope" /\ j.before = EffectiveReceipt(log, r)
    BY <1>6 DEF Rescope
  <2>3. FairJob(j)
    BY <2>1, <2>2 DEF FairJob
  <2>4. QED
    BY <1>6, <2>2, <2>3, ReadingKeepsFairness DEF Rescope
<1>7. QED
  BY <1>1, <1>2, <1>3, <1>4, <1>5, <1>6 DEF NewRequest

\* The steps of a handler that read.
LEMMA QuietStepsKeepFairness ==
  ASSUME IInv, FairInv, NEW p \in Proc,
         \/ MarkLeaving(p) \/ DepartRead(p) \/ DeleteRow(p) \/ CountRows(p) \/ DissolveRead(p)
         \/ Dissolve(p) \/ Settle(p) \/ ConvertTrip(p)
         \/ (\E amount \in Amount : RecordRead(p, amount)) \/ RestateCheck(p)
  PROVE  FairInv'
<1> USE DEF At
<1> job[p] \in Job /\ FairJob(job[p])
  BY DEF IInv, TypeOK, FairInv, JobsAreFair
<1>1. log' = log
  BY DEF MarkLeaving, DepartRead, DeleteRow, CountRows, DissolveRead, Dissolve, Settle,
         ConvertTrip, RecordRead, RestateCheck
<1>2. (\A queue : FairJob(Continue(queue))) /\ FairJob(Idle)
  BY PlainJobs DEF Continue, Idle
<1>3. CASE RestateCheck(p)
  <2>1. PICK j : /\ Goto(p, j)
                 /\ \/ j.step = "adjust" /\ j.before = job[p].before
                    \/ j.step = "restate"
    BY <1>3 DEF RestateCheck
  <2>2. FairJob(j)
    BY <1>3, <2>1 DEF RestateCheck, FairJob
  <2>3. QED
    BY <1>1, <2>1, <2>2, ReadingKeepsFairness
<1>4. CASE ConvertTrip(p)
  <2>1. PICK j : /\ Goto(p, j)
                 /\ \/ j = Idle
                    \/ /\ Uploader[job[p].receipt] \in Eligible
                       /\ j = [step |-> "record", receipt |-> job[p].receipt,
                               participants |-> Eligible]
    BY <1>4 DEF ConvertTrip
  <2>2. FairJob(j)
    BY <1>2, <2>1 DEF FairJob
  <2>3. QED
    BY <1>1, <2>1, <2>2, ReadingKeepsFairness
<1>5. ASSUME NEW amount \in Amount, RecordRead(p, amount)
      PROVE  FairInv'
  <2> DEFINE r == job[p].receipt
             P == job[p].participants \cap Eligible
             ev == ReceiptRecorded(r, Uploader[r], amount, P)
  <2>1. PICK j : /\ Goto(p, j)
                 /\ \/ j = Idle
                    \/ /\ Uploader[r] \in Eligible
                       /\ j = [step |-> "append", event |-> ev]
    BY <1>5 DEF RecordRead
  <2>2. CASE j = Idle
    BY <1>1, <1>2, <2>1, <2>2, ReadingKeepsFairness
  <2>3. CASE j # Idle
    <3>1. r \in Receipt /\ P \in SUBSET Member /\ Uploader[r] \in P
      BY <1>5, <2>1, <2>3, JobFields DEF RecordRead, FairJob
    <3>2. amount \in Nat
      BY AmountAssumption
    <3>3. TotalOf(ComputeShares(r, amount, P)) = amount
      <4> HIDE DEF r, P
      <4>1. r \in Int /\ P # {}
        BY <3>1, ReceiptAssumption
      <4>2. QED
        BY <3>1, <3>2, <4>1, SharesAddUp
    <3>4. ev.participants = P /\ ev.shares = ComputeShares(r, amount, P) /\ ev.amount = amount
      BY DEF ReceiptRecorded
    <3>5. FairSplit(ev)
      <4> HIDE DEF ev, P, r
      <4>1. QED
        BY <3>1, <3>3, <3>4, OthersShareNothing DEF FairSplit
    <3>6. FairJob(j)
      BY <2>1, <2>3, <3>5 DEF FairJob
    <3>7. QED
      BY <1>1, <2>1, <3>6, ReadingKeepsFairness
  <2>4. QED
    BY <2>2, <2>3
<1>6. CASE MarkLeaving(p) \/ DepartRead(p) \/ DeleteRow(p) \/ CountRows(p)
  <2>1. \A m, queue : FairJob([step |-> "left", member |-> m, queue |-> queue])
    BY PlainJobs
  <2>2. \A told, queue : /\ FairJob([step |-> "teardown", told |-> told, queue |-> queue])
                         /\ FairJob([step |-> "count", queue |-> queue])
    BY PlainJobs
  <2>3. PICK j : Goto(p, j) /\ FairJob(j)
    BY <1>2, <1>6, <2>1, <2>2 DEF MarkLeaving, DepartRead, DeleteRow, CountRows
  <2>4. QED
    BY <1>1, <2>3, ReadingKeepsFairness
<1>7. CASE DissolveRead(p) \/ Dissolve(p) \/ Settle(p)
  <2>1. /\ \A told, remaining : FairJob([step |-> "farewell", remaining |-> remaining, told |-> told])
        /\ FairJob([step |-> "dissolve"])
    BY PlainJobs
  <2>2. PICK j : Goto(p, j) /\ FairJob(j)
    BY <1>2, <1>7, <2>1 DEF DissolveRead, Dissolve, Settle
  <2>3. QED
    BY <1>1, <2>2, ReadingKeepsFairness
<1>8. QED
  BY <1>3, <1>4, <1>5, <1>6, <1>7

\* The steps of a handler that append.
LEMMA AppendingKeepsFairness ==
  ASSUME IInv, FairInv, NEW p \in Proc, AppendStep(p)
  PROVE  FairInv'
<1> USE DEF At
<1> job[p] \in Job /\ FairJob(job[p])
  BY DEF IInv, TypeOK, FairInv, JobsAreFair
<1>1. FairJob(Idle) /\ FairJob([step |-> "settle"])
  BY PlainJobs DEF Idle
<1>2. \A ev \in Event : ev.type \notin {"receipt_recorded", "adjustment"} => FairEvent(ev)
  BY DEF FairEvent
<1>3. CASE AppendJoined(p)
  <2>1. MemberJoined(job[p].member) \in Event /\ MemberJoined(job[p].member).type = "member_joined"
    BY <1>3, JobFields DEF AppendJoined, MemberJoined, Event, MemberEvent
  <2>2. QED
    BY <1>1, <1>2, <1>3, <2>1, StoringKeepsFairness DEF AppendJoined
<1>4. CASE AppendLeft(p)
  <2>1. MemberLeft(job[p].member) \in Event /\ MemberLeft(job[p].member).type = "member_left"
    BY <1>4, JobFields DEF AppendLeft, MemberLeft, Event, MemberEvent
  <2>2. PICK j : Goto(p, j) /\ j.step = "delete"
    <3>1. [job[p] EXCEPT !.step = "delete"].step = "delete"
      BY <1>4 DEF AppendLeft, Job
    <3>2. QED
      BY <1>4, <3>1 DEF AppendLeft
  <2>3. QED
    BY <1>2, <1>4, <2>1, <2>2, PlainJobs, StoringKeepsFairness DEF AppendLeft
<1>5. CASE AppendFarewell(p)
  <2>1. PICK m \in job[p].remaining :
          /\ log' = AppendOnce(log, MemberLeft(m))
          /\ Goto(p, [job[p] EXCEPT !.remaining = @ \ {m}])
    BY <1>5 DEF AppendFarewell
  <2>2. MemberLeft(m) \in Event /\ MemberLeft(m).type = "member_left"
    BY <1>5, <2>1, JobFields DEF AppendFarewell, MemberLeft, Event, MemberEvent
  <2>3. PICK j : Goto(p, j) /\ j.step = "farewell"
    <3>1. [job[p] EXCEPT !.remaining = @ \ {m}].step = "farewell"
      BY <1>5 DEF AppendFarewell, Job
    <3>2. QED
      BY <2>1, <3>1
  <2>4. QED
    BY <1>2, <2>1, <2>2, <2>3, PlainJobs, StoringKeepsFairness
<1>6. ASSUME NEW sid \in Settlement, AppendProposal(p, sid)
      PROVE  FairInv'
  <2> DEFINE ev == SettlementProposed(sid, job[p].from, job[p].to, job[p].amount, job[p].by)
  <2>1. ev \in Event /\ ev.type = "settlement_proposed"
    BY <1>6, JobFields DEF AppendProposal, SettlementProposed, Event, ProposalEvent
  <2>2. log' = AppendOnce(log, ev) /\ Goto(p, Idle)
    BY <1>6 DEF AppendProposal
  <2> HIDE DEF ev
  <2>3. QED
    BY <1>1, <1>2, <2>1, <2>2, StoringKeepsFairness
<1>7. CASE AppendConfirm(p)
  <2> DEFINE ev == SettlementConfirmed(job[p].sid, job[p].by)
  <2>1. ev \in Event /\ ev.type = "settlement_confirmed"
    BY <1>7, JobFields DEF AppendConfirm, SettlementConfirmed, Event, ConfirmEvent
  <2>2. log' = AppendOnce(log, ev) /\ Goto(p, [step |-> "settle"])
    BY <1>7 DEF AppendConfirm
  <2> HIDE DEF ev
  <2>3. QED
    BY <1>1, <1>2, <2>1, <2>2, StoringKeepsFairness
<1>8. CASE AppendReceipt(p)
  <2>1. job[p].event \in Event /\ job[p].event.type = "receipt_recorded" /\ FairSplit(job[p].event)
    BY <1>8, JobFields DEF AppendReceipt, Event, ReceiptEvent, FairJob
  <2>2. FairEvent(job[p].event)
    BY <2>1 DEF FairEvent
  <2>3. QED
    BY <1>1, <1>8, <2>1, <2>2, StoringKeepsFairness DEF AppendReceipt
<1>9. CASE AppendAdjustment(p)
  <2> DEFINE before == job[p].before
             ev == Adjustment(job[p].receipt, before, job[p].amount)
  <2>1. /\ job[p].receipt \in Receipt /\ before \in Split /\ job[p].amount \in Nat
        /\ FairSplit(before)
    BY <1>9, JobFields DEF AppendAdjustment, FairJob
  <2>2. ev \in AdjustmentEvent
    BY <2>1, AdjustmentType DEF Split
  <2>3. TotalOf(ev.shares) = job[p].amount /\ TotalOf(ev.delta) = 0
    BY <2>1, AdjustmentTotal DEF Split, FairSplit
  <2>4. /\ ev.participants = before.participants /\ ev.amount = job[p].amount
        /\ ev.shares = ComputeShares(job[p].receipt, job[p].amount, before.participants)
    BY DEF Adjustment
  <2>5. log' = AppendOnce(log, ev) /\ Goto(p, Idle)
    BY <1>9 DEF AppendAdjustment
  <2> HIDE DEF ev, before
  <2>6. FairEvent(ev)
    BY <2>1, <2>3, <2>4, OthersShareNothing DEF FairEvent, FairSplit
  <2>7. ev \in Event
    BY <2>2 DEF Event
  <2>8. QED
    BY <1>1, <2>5, <2>6, <2>7, StoringKeepsFairness
<1>10. QED
  BY <1>3, <1>4, <1>5, <1>6, <1>7, <1>8, <1>9 DEF AppendStep

\* A restated receipt is split again among the same participants.
LEMMA RestatingKeepsFairness ==
  ASSUME IInv, FairInv, NEW p \in Proc, Restate(p)
  PROVE  FairInv'
<1> DEFINE r == job[p].receipt
           i == RecordedAt(log, r)
           ev == ReceiptRecorded(r, log[i].payer, job[p].amount, log[i].participants)
<1>1. r \in RecordedReceipts(log) /\ r \in Receipt /\ job[p].amount \in Nat
  <2>1. job[p] \in Job
    BY DEF IInv, TypeOK
  <2>2. QED
    BY <2>1, JobFields DEF Restate, At, IInv, JobsAreBacked, Backed
<1>2. i \in DOMAIN log /\ log[i] \in ReceiptEvent
  BY <1>1, RecordedAtIsARecord DEF IInv, TypeOK
<1>3. log[i].participants \in SUBSET Member /\ log[i].participants # {}
  BY <1>2 DEF FairInv, EventsAreFair, FairEvent, FairSplit, ReceiptEvent
<1>4. TotalOf(ComputeShares(r, job[p].amount, log[i].participants)) = job[p].amount
  <2>1. Receipt \subseteq Int
    BY ReceiptAssumption
  <2> HIDE DEF r
  <2>2. QED
    BY <1>1, <1>3, <2>1, SharesAddUp
<1>5. FairEvent(ev)
  <2> DEFINE shares == ComputeShares(r, job[p].amount, log[i].participants)
  <2>1. /\ ev.type = "receipt_recorded" /\ ev.amount = job[p].amount
        /\ ev.participants = log[i].participants /\ ev.shares = shares
    BY DEF ReceiptRecorded
  <2>2. TotalOf(shares) = job[p].amount
    BY <1>4
  <2>3. \A m \in Member \ log[i].participants : shares[m] = 0
    BY OthersShareNothing
  <2> HIDE DEF ev, shares
  <2>4. QED
    BY <1>3, <2>1, <2>2, <2>3 DEF FairEvent, FairSplit
<1>6. log' = [log EXCEPT ![i] = ev] /\ Goto(p, Idle)
  BY DEF Restate
<1> HIDE DEF ev, i, r
<1>7. EventsAreFair(log')
  BY <1>5, <1>6 DEF FairInv, EventsAreFair
<1>8. \A q \in Proc : job'[q] = IF q = p THEN Idle ELSE job[q]
  BY <1>6 DEF Goto, IInv, TypeOK
<1>9. JobsAreFair'
  BY <1>8, PlainJobs DEF FairInv, JobsAreFair, Idle
<1>10. EventsAreFair(log)'
  BY <1>7 DEF EventsAreFair
<1>11. QED
  BY <1>9, <1>10 DEF FairInv

\* Every step keeps it.
LEMMA StepsKeepFairness == IInv /\ FairInv /\ [Next]_vars => FairInv'
<1> SUFFICES ASSUME IInv, FairInv, [Next]_vars PROVE FairInv'
  OBVIOUS
<1>1. ASSUME NEW p \in Client, NewRequest(p)
      PROVE  FairInv'
  BY <1>1, RequestsKeepFairness
<1>2. ASSUME NEW p \in Proc, Progress(p)
      PROVE  FairInv'
  BY <1>2, QuietStepsKeepFairness, AppendingKeepsFairness, RestatingKeepsFairness
     DEF Progress, AppendStep
<1>3. ASSUME NEW p \in Proc, Fail(p)
      PROVE  FairInv'
  BY <1>3, PlainJobs, ReadingKeepsFairness DEF Fail, Idle
<1>4. CASE SweepRead
  <2>1. PICK j : Goto(Sweeper, j) /\ j.step = "sweep"
    BY <1>4 DEF SweepRead
  <2>2. QED
    BY <1>4, <2>1, PlainJobs, ReadingKeepsFairness DEF SweepRead, Proc
<1>5. CASE SweepConfirm
  <2> DEFINE j == job[Sweeper]
  <2>1. PICK i \in DOMAIN log :
          /\ j.step = "sweep" /\ log[i] \in j.queue
          /\ log' = BackdateOnce(log, j.now, SettlementConfirmed(log[i].sid, AutoConfirm))
          /\ \E next : Goto(Sweeper, next) /\ next.step \in {"settle", "sweep"}
    BY <1>5 DEF SweepConfirm, At
  <2> DEFINE ev == SettlementConfirmed(log[i].sid, AutoConfirm)
  <2>2. j \in Job /\ Backed(Sweeper, j, log, lapsed) /\ Sweeper \in Proc
    BY DEF IInv, TypeOK, JobsAreBacked, Proc
  <2>3. j.queue \in SUBSET ProposalEvent /\ j.now \in 0..Len(log)
    BY <2>1, <2>2, JobFields, LenProperties DEF Backed, IInv, TypeOK
  <2>4. ev \in Event /\ FairEvent(ev)
    BY <2>1, <2>3 DEF SettlementConfirmed, ProposalEvent, ConfirmEvent, Event, FairEvent
  <2>5. log' = BackdateOnce(log, j.now, ev)
    BY <2>1
  <2> HIDE DEF ev, j
  <2>6. QED
    BY <2>1, <2>2, <2>3, <2>4, <2>5, PlainJobs, StoringKeepsFairness
<1>6. ASSUME UNCHANGED <<log, job>>
      PROVE  FairInv'
  BY <1>6 DEF FairInv, EventsAreFair, FairEvent, FairSplit, JobsAreFair, FairJob
<1>7. CASE \/ \E sid \in Settlement : Lapse(sid)
           \/ \E r \in Receipt : Expire(r)
           \/ UNCHANGED vars
  BY <1>6, <1>7 DEF Lapse, Expire, vars
<1>8. QED
  BY <1>1, <1>2, <1>3, <1>4, <1>5, <1>7 DEF Next

\* So it holds throughout.
LEMMA FairInvHolds == Spec => []FairInv
<1>1. Init => FairInv
  BY PlainJobs DEF Init, FairInv, EventsAreFair, JobsAreFair, Idle
<1>2. QED
  BY IInvHolds, <1>1, StepsKeepFairness, PTL DEF Spec

\* deriveLedgerState never throws on a log the handlers wrote, with any number of
\* handlers in flight and wherever they were cut short: every split and every
\* correction adds up to the cent, and no confirmation lacks its proposal.
THEOREM FoldsAreSafe == Spec => []FoldNeverThrows
<1>1. IInv /\ FairInv => FoldNeverThrows
  <2> SUFFICES ASSUME IInv, FairInv PROVE FoldSucceeds(log)
    BY DEF FoldNeverThrows
  <2>1. log \in Seq(Event) /\ DOMAIN log = 1..Len(log)
    BY LenProperties DEF IInv, TypeOK
  <2>2. ASSUME NEW i \in 1..Len(log)
        PROVE  SoundEvent(log, i)
    BY <2>1 DEF SoundEvent, IInv, TwoSignaturesOnce, FairInv, EventsAreFair, FairEvent, FairSplit
  <2>3. QED
    BY <2>1, <2>2, SoundLogFolds
<1>2. QED
  BY IInvHolds, FairInvHolds, <1>1, PTL

-----------------------------------------------------------------------------
(* The members are active.                                                 *)

\* A handler that has yet to append m's member_joined, or that has appended m's
\* member_left and has yet to delete the row.
Attends(j, m) ==
  \/ j.step \in {"joined", "delete"} /\ j.member = m
  \/ j.step = "farewell"

\* Whoever has a row is active or attended to.
ActiveInv ==
  failures = 0 =>
    \A m \in Members : m \in ActiveMembers(log) \/ \E q \in Proc : Attends(job[q], m)

\* A step of p after which nobody is left alone.
LEMMA AttendingKeepsActive ==
  ASSUME TypeOK, ActiveInv, failures' = failures, NEW p \in Proc, NEW j, Goto(p, j),
         \A m \in Members' :
           \/ Attends(j, m)
           \/ m \in ActiveMembers(log')
           \/ m \in Members /\ m \notin ActiveMembers(log) /\ ~Attends(job[p], m)
  PROVE  ActiveInv'
<1>1. \A q \in Proc : job'[q] = IF q = p THEN j ELSE job[q]
  BY DEF Goto, TypeOK
<1>2. SUFFICES ASSUME failures = 0, NEW m \in Members'
               PROVE  m \in ActiveMembers(log') \/ \E q \in Proc : Attends(job'[q], m)
  BY DEF ActiveInv, ActiveMembers
<1>3. CASE Attends(j, m) \/ m \in ActiveMembers(log')
  BY <1>1, <1>3
<1>4. CASE m \in Members /\ m \notin ActiveMembers(log) /\ ~Attends(job[p], m)
  <2>1. PICK q \in Proc : Attends(job[q], m)
    BY <1>2, <1>4 DEF ActiveInv
  <2>2. QED
    BY <1>1, <1>4, <2>1
<1>5. QED
  BY <1>2, <1>3, <1>4

\* A step of p that neither attends to anybody nor changes who is active.
LEMMA OtherStepsKeepActive ==
  ASSUME TypeOK, ActiveInv, UNCHANGED <<role, failures>>, NEW p \in Proc, NEW j, Goto(p, j),
         job[p].step \notin {"joined", "delete", "farewell"},
         ActiveMembers(log') = ActiveMembers(log)
  PROVE  ActiveInv'
<1>1. \A m : ~Attends(job[p], m)
  BY DEF Attends
<1>2. Members' = Members
  BY DEF Members
<1>3. QED
  BY <1>1, <1>2, AttendingKeepsActive

\* A new request moves no membership.
LEMMA RequestsKeepActive ==
  ASSUME TypeOK, ActiveInv, NEW p \in Client, NewRequest(p)
  PROVE  ActiveInv'
<1> p \in Proc
  BY DEF Proc
<1>1. ASSUME NEW kind, Issue(p, kind)
      PROVE  job[p].step = "idle" /\ failures' = failures
  BY <1>1 DEF Issue, Idle
<1>2. ASSUME NEW m \in Member, Create(p, m) \/ Join(p, m)
      PROVE  ActiveInv'
  <2>1. /\ Goto(p, [step |-> "joined", member |-> m]) /\ log' = log /\ failures' = failures
        /\ job[p].step = "idle"
    BY <1>1, <1>2 DEF Create, Join
  <2>2. ASSUME NEW n \in Members', n # m
        PROVE  n \in Members
    BY <1>2, <2>2 DEF Create, Join, InsertRow, Members, TypeOK
  <2>3. Attends([step |-> "joined", member |-> m], m)
    BY DEF Attends
  <2>4. \A n : ~Attends(job[p], n)
    BY <2>1 DEF Attends
  <2>5. QED
    BY <2>1, <2>2, <2>3, <2>4, AttendingKeepsActive
<1>3. CASE ~\E m \in Member : Create(p, m) \/ Join(p, m)
  <2>1. PICK kind, j : Issue(p, kind) /\ Goto(p, j) /\ UNCHANGED <<role, log>>
    BY <1>3 DEF NewRequest, Propose, Confirm, RequestDeparture, ConvertRequest, Rescope, rows
  <2>2. QED
    BY <1>1, <2>1, OtherStepsKeepActive
<1>4. QED
  BY <1>2, <1>3

\* The steps that join, leave and delete.
LEMMA MembershipKeepsActive ==
  ASSUME TypeOK, ActiveInv, NEW p \in Proc,
         AppendJoined(p) \/ AppendLeft(p) \/ DeleteRow(p) \/ AppendFarewell(p) \/ Dissolve(p)
  PROVE  ActiveInv'
<1> USE DEF At, counters, rows
<1>1. job[p] \in Job /\ log \in Seq(Event)
  BY DEF TypeOK
<1>2. CASE AppendJoined(p)
  <2> DEFINE m == job[p].member
  <2>1. /\ m \in Member /\ job[p].step = "joined" /\ log' = AppendOnce(log, MemberJoined(m))
        /\ Goto(p, Idle) /\ UNCHANGED <<role, failures>>
    BY <1>1, <1>2, JobFields DEF AppendJoined
  <2>2. ActiveMembers(log') = ActiveMembers(log) \cup {m}
    BY <1>1, <2>1, MemberEventsFold
  <2>3. \A n : Attends(job[p], n) => n = m
    BY <2>1 DEF Attends
  <2>4. Members' = Members
    BY <2>1 DEF Members
  <2>5. QED
    BY <2>1, <2>2, <2>3, <2>4, AttendingKeepsActive
<1>3. CASE AppendLeft(p)
  <2> DEFINE m == job[p].member
             j == [job[p] EXCEPT !.step = "delete"]
  <2>1. /\ m \in Member /\ job[p].step = "left" /\ log' = AppendOnce(log, MemberLeft(m))
        /\ Goto(p, j) /\ UNCHANGED <<role, failures>>
    BY <1>1, <1>3, JobFields DEF AppendLeft
  <2>2. ActiveMembers(log') = ActiveMembers(log) \ {m}
    BY <1>1, <2>1, MemberEventsFold
  <2>3. Attends(j, m)
    <3>1. j.step = "delete" /\ j.member = m
      BY <1>1, <2>1 DEF Job
    <3>2. QED
      BY <3>1 DEF Attends
  <2>4. (\A n : ~Attends(job[p], n)) /\ Members' = Members
    BY <2>1 DEF Attends, Members
  <2> HIDE DEF j, m
  <2>5. QED
    BY <2>1, <2>2, <2>3, <2>4, AttendingKeepsActive
<1>4. CASE DeleteRow(p)
  <2> DEFINE m == job[p].member
  <2>1. /\ m \in Member /\ job[p].step = "delete" /\ log' = log
        /\ role' = [role EXCEPT ![m] = "none"] /\ failures' = failures
    BY <1>1, <1>4, JobFields DEF DeleteRow
  <2>2. PICK j : Goto(p, j)
    BY <1>4 DEF DeleteRow
  <2>3. \A n : Attends(job[p], n) => n = m
    BY <2>1 DEF Attends
  <2>4. Members' = Members \ {m}
    BY <2>1 DEF Members, TypeOK
  <2>5. QED
    BY <2>1, <2>2, <2>3, <2>4, AttendingKeepsActive
<1>5. CASE AppendFarewell(p)
  <2>1. PICK m \in job[p].remaining : Goto(p, [job[p] EXCEPT !.remaining = @ \ {m}])
    BY <1>5 DEF AppendFarewell
  <2>2. [job[p] EXCEPT !.remaining = @ \ {m}].step = "farewell"
    BY <1>1, <1>5 DEF AppendFarewell, Job
  <2>3. PICK j : Goto(p, j) /\ j.step = "farewell"
    BY <2>1, <2>2
  <2>4. \A n : Attends(j, n)
    BY <2>3 DEF Attends
  <2>5. failures' = failures
    BY <1>5 DEF AppendFarewell
  <2>6. QED
    BY <2>3, <2>4, <2>5, AttendingKeepsActive
<1>6. CASE Dissolve(p)
  <2>1. Members' = {} /\ failures' = failures
    BY <1>6 DEF Dissolve, Members
  <2>2. PICK j : Goto(p, j)
    BY <1>6 DEF Dissolve
  <2>3. QED
    BY <2>1, <2>2, AttendingKeepsActive
<1>7. QED
  BY <1>2, <1>3, <1>4, <1>5, <1>6

\* The steps that append anything else.
LEMMA OtherEventsKeepActive ==
  ASSUME IInv, NEW p \in Proc,
         \/ \E sid \in Settlement : AppendProposal(p, sid)
         \/ AppendConfirm(p) \/ AppendReceipt(p) \/ AppendAdjustment(p)
  PROVE  ActiveMembers(log') = ActiveMembers(log)
<1> USE DEF At
<1>1. job[p] \in Job /\ log \in Seq(Event)
  BY DEF IInv, TypeOK
<1>2. PICK ev : /\ log' = AppendOnce(log, ev)
                /\ ev \in Event /\ ev.type \notin {"member_joined", "member_left"}
  <2>1. ASSUME NEW sid \in Settlement, AppendProposal(p, sid)
        PROVE  LET ev == SettlementProposed(sid, job[p].from, job[p].to, job[p].amount, job[p].by)
               IN  log' = AppendOnce(log, ev) /\ ev \in Event /\ ev.type = "settlement_proposed"
    BY <1>1, <2>1, JobFields DEF AppendProposal, SettlementProposed, Event, ProposalEvent
  <2>2. ASSUME AppendConfirm(p)
        PROVE  LET ev == SettlementConfirmed(job[p].sid, job[p].by)
               IN  log' = AppendOnce(log, ev) /\ ev \in Event /\ ev.type = "settlement_confirmed"
    BY <1>1, <2>2, JobFields DEF AppendConfirm, SettlementConfirmed, Event, ConfirmEvent
  <2>3. ASSUME AppendReceipt(p)
        PROVE  /\ log' = AppendOnce(log, job[p].event) /\ job[p].event \in Event
               /\ job[p].event.type = "receipt_recorded"
    BY <1>1, <2>3, JobFields DEF AppendReceipt, Event, ReceiptEvent
  <2>4. ASSUME AppendAdjustment(p)
        PROVE  LET ev == Adjustment(job[p].receipt, job[p].before, job[p].amount)
               IN  log' = AppendOnce(log, ev) /\ ev \in Event /\ ev.type = "adjustment"
    <3>1. job[p].receipt \in Receipt /\ job[p].before \in Split /\ job[p].amount \in Nat
      BY <1>1, <2>4, JobFields DEF AppendAdjustment
    <3>2. Adjustment(job[p].receipt, job[p].before, job[p].amount) \in AdjustmentEvent
      BY <3>1, AdjustmentType DEF Split
    <3>3. QED
      BY <2>4, <3>2 DEF AppendAdjustment, Event, AdjustmentEvent
  <2>5. QED
    BY <2>1, <2>2, <2>3, <2>4
<1>3. QED
  BY <1>1, <1>2, AppendOnceInserts, OtherInsertionsKeepActive

\* The sweep confirms, which changes nobody's membership.
LEMMA SweepingKeepsActive ==
  ASSUME IInv, SweepConfirm
  PROVE  ActiveMembers(log') = ActiveMembers(log)
<1> DEFINE j == job[Sweeper]
<1>1. PICK i \in DOMAIN log :
        /\ j.step = "sweep" /\ log[i] \in j.queue
        /\ log' = BackdateOnce(log, j.now, SettlementConfirmed(log[i].sid, AutoConfirm))
  BY DEF SweepConfirm, At
<1> DEFINE ev == SettlementConfirmed(log[i].sid, AutoConfirm)
<1>2. j \in Job /\ Backed(Sweeper, j, log, lapsed) /\ Sweeper \in Proc /\ log \in Seq(Event)
  BY DEF IInv, TypeOK, JobsAreBacked, Proc
<1>3. j.queue \in SUBSET ProposalEvent /\ j.now \in 0..Len(log)
  BY <1>1, <1>2, JobFields, LenProperties DEF Backed
<1>4. ev \in Event /\ ev.type = "settlement_confirmed" /\ log' = BackdateOnce(log, j.now, ev)
  BY <1>1, <1>3 DEF SettlementConfirmed, ProposalEvent, ConfirmEvent, Event
<1> HIDE DEF ev
<1>5. QED
  BY <1>2, <1>3, <1>4, BackdateOnceInserts, OtherInsertionsKeepActive

\* Nor does an event about receipts or settlements.
LEMMA EventsKeepActive ==
  ASSUME IInv, ActiveInv, NEW p \in Proc,
         \/ \E sid \in Settlement : AppendProposal(p, sid)
         \/ AppendConfirm(p) \/ AppendReceipt(p) \/ AppendAdjustment(p)
  PROVE  ActiveInv'
<1> USE DEF At, counters, rows
<1>1. TypeOK
  BY DEF IInv
<1>2. ActiveMembers(log') = ActiveMembers(log)
  BY OtherEventsKeepActive
<1>3. /\ job[p].step \notin {"joined", "delete", "farewell"} /\ UNCHANGED <<role, failures>>
      /\ \E j : Goto(p, j)
  BY DEF AppendProposal, AppendConfirm, AppendReceipt, AppendAdjustment
<1>4. QED
  BY <1>1, <1>2, <1>3, OtherStepsKeepActive

\* A restatement rewrites one receipt in its place.
LEMMA RestateRewrites ==
  ASSUME IInv, NEW p \in Proc, Restate(p)
  PROVE  /\ RewrittenAt(log', log, RecordedAt(log, job[p].receipt))
         /\ LET i == RecordedAt(log, job[p].receipt)
            IN  log'[i] = ReceiptRecorded(job[p].receipt, log[i].payer, job[p].amount,
                                          log[i].participants)
<1> DEFINE r == job[p].receipt
           i == RecordedAt(log, r)
           ev == ReceiptRecorded(r, log[i].payer, job[p].amount, log[i].participants)
<1>1. r \in RecordedReceipts(log) /\ r \in Receipt /\ job[p].amount \in Nat
  <2>1. job[p] \in Job
    BY DEF IInv, TypeOK
  <2>2. QED
    BY <2>1, JobFields DEF Restate, At, IInv, JobsAreBacked, Backed
<1>2. /\ log \in Seq(Event) /\ DOMAIN log = 1..Len(log) /\ Len(log) \in Nat
  BY LenProperties DEF IInv, TypeOK
<1>3. i \in 1..Len(log) /\ log[i] \in ReceiptEvent
  BY <1>1, <1>2, RecordedAtIsARecord
<1>4. ev \in ReceiptEvent
  <2>1. log[i].payer \in Member /\ log[i].participants \in SUBSET Member
    BY <1>3 DEF ReceiptEvent
  <2>2. QED
    BY <1>1, <2>1, ReceiptRecordedType
<1>5. log' = [log EXCEPT ![i] = ev]
  BY DEF Restate
<1>6. ev \in Event
  BY <1>4 DEF Event
<1> HIDE DEF ev, i
<1>7. log' \in Seq(Event) /\ Len(log') = Len(log)
  BY <1>2, <1>3, <1>5, <1>6, ExceptSeq
<1>8. log'[i] = ev /\ \A k \in 1..Len(log) : k # i => log'[k] = log[k]
  BY <1>2, <1>3, <1>5
<1>9. RewrittenAt(log', log, i)
  BY <1>3, <1>4, <1>7, <1>8 DEF RewrittenAt
<1>10. QED
  BY <1>8, <1>9 DEF i, ev

\* The other steps of a handler leave the rows and the log alone.
LEMMA ReadingKeepsActive ==
  ASSUME TypeOK, ActiveInv, NEW p \in Proc,
         \/ Settle(p) \/ MarkLeaving(p) \/ DepartRead(p) \/ CountRows(p) \/ DissolveRead(p)
         \/ ConvertTrip(p) \/ (\E amount \in Amount : RecordRead(p, amount)) \/ RestateCheck(p)
  PROVE  ActiveInv'
<1>1. job[p].step \notin {"joined", "delete", "farewell"}
  BY DEF Settle, MarkLeaving, DepartRead, CountRows, DissolveRead, ConvertTrip, RecordRead,
         RestateCheck, At
<1>2. UNCHANGED <<role, failures, log>>
  BY DEF Settle, MarkLeaving, DepartRead, CountRows, DissolveRead, ConvertTrip, RecordRead,
         RestateCheck, rows, counters
<1>3. \E j : Goto(p, j)
  BY DEF Settle, MarkLeaving, DepartRead, CountRows, DissolveRead, ConvertTrip, RecordRead,
         RestateCheck
<1>4. QED
  BY <1>1, <1>2, <1>3, OtherStepsKeepActive

\* While no handler is cut short, everyone who has a row is active between
\* requests, whatever handlers overlap and however often somebody leaves and
\* comes back: no late member_left outlives the row it was about.
THEOREM MembersStayActive == Spec => []MembersAreActive
<1>1. Init => ActiveInv
  BY DEF Init, ActiveInv, Members
<1>2. ASSUME IInv, ActiveInv, [Next]_vars
      PROVE  ActiveInv'
  <2>1. TypeOK /\ log \in Seq(Event)
    BY <1>2 DEF IInv, TypeOK
  <2>2. ASSUME NEW p \in Client, NewRequest(p)
        PROVE  ActiveInv'
    BY <1>2, <2>1, <2>2, RequestsKeepActive
  <2>3. ASSUME NEW p \in Proc, Restate(p)
        PROVE  ActiveInv'
    <3>1. ActiveMembers(log') = ActiveMembers(log)
      BY <1>2, <2>1, <2>3, RestateRewrites, RewritingMoves
    <3>2. /\ job[p].step = "restate" /\ UNCHANGED <<role, failures>> /\ Goto(p, Idle)
      BY <2>3 DEF Restate, At, rows, counters
    <3>3. QED
      BY <1>2, <2>1, <3>1, <3>2, OtherStepsKeepActive
  <2>4. ASSUME NEW p \in Proc, Progress(p)
        PROVE  ActiveInv'
    BY <1>2, <2>1, <2>3, <2>4, MembershipKeepsActive, EventsKeepActive, ReadingKeepsActive DEF Progress
  <2>5. ASSUME NEW p \in Proc, Fail(p)
        PROVE  ActiveInv'
    BY <2>1, <2>5 DEF Fail, ActiveInv, TypeOK
  <2>6. CASE SweepRead
    <3>1. \E j : Goto(Sweeper, j)
      BY <2>6 DEF SweepRead
    <3>2. job[Sweeper].step = "idle" /\ UNCHANGED <<role, failures, log>> /\ Sweeper \in Proc
      BY <2>6 DEF SweepRead, Idle, rows, counters, Proc
    <3>3. QED
      BY <1>2, <2>1, <3>1, <3>2, OtherStepsKeepActive
  <2>7. CASE SweepConfirm
    <3>1. /\ job[Sweeper].step = "sweep" /\ \E next : Goto(Sweeper, next)
          /\ UNCHANGED <<role, failures>> /\ Sweeper \in Proc
      BY <2>7 DEF SweepConfirm, At, rows, counters, Proc
    <3>2. ActiveMembers(log') = ActiveMembers(log)
      BY <1>2, <2>7, SweepingKeepsActive
    <3>3. QED
      BY <1>2, <2>1, <3>1, <3>2, OtherStepsKeepActive
  <2>8. ASSUME UNCHANGED <<role, log, job, failures>>
        PROVE  ActiveInv'
    BY <1>2, <2>8 DEF ActiveInv, Members
  <2>9. CASE \/ \E sid \in Settlement : Lapse(sid)
             \/ \E r \in Receipt : Expire(r)
             \/ UNCHANGED vars
    BY <2>8, <2>9 DEF Lapse, Expire, vars, rows, counters
  <2>10. QED
    BY <1>2, <2>2, <2>4, <2>5, <2>6, <2>7, <2>9 DEF Next
<1>3. ActiveInv => MembersAreActive
  BY DEF ActiveInv, MembersAreActive, Attends, Quiescent, InFlight, Idle
<1>4. QED
  BY IInvHolds, <1>1, <1>2, <1>3, PTL DEF Spec

-----------------------------------------------------------------------------
(* What a step stores.                                                     *)

\* How a step may change the log: by nothing, by an event inserted behind others, or
\* by a restatement.  Receipts and corrections are stored by their handlers.
Stored(ev, p) ==
  /\ ev.type = "receipt_recorded" => AppendReceipt(p) /\ ev = job[p].event
  /\ ev.type = "adjustment" =>
       /\ AppendAdjustment(p)
       /\ ev = Adjustment(job[p].receipt, job[p].before, job[p].amount)

\* What an appending step appends it has stored in its job or read from the
\* log.
LEMMA AppendedAreStored ==
  ASSUME IInv, NEW p \in Proc, AppendStep(p)
  PROVE  \E ev \in Event : Stored(ev, p) /\ log' = AppendOnce(log, ev)
<1> USE DEF At
<1>1. job[p] \in Job /\ log \in Seq(Event)
  BY DEF IInv, TypeOK
<1>2. CASE AppendJoined(p) \/ AppendLeft(p) \/ AppendFarewell(p)
  <2>1. PICK m \in Member : \E ev \in {MemberJoined(m), MemberLeft(m)} : log' = AppendOnce(log, ev)
    BY <1>1, <1>2, JobFields DEF AppendJoined, AppendLeft, AppendFarewell
  <2>2. ASSUME NEW ev \in {MemberJoined(m), MemberLeft(m)}
        PROVE  ev \in Event /\ Stored(ev, p)
    BY DEF MemberJoined, MemberLeft, Event, MemberEvent, Stored
  <2>3. QED
    BY <2>1, <2>2
<1>3. ASSUME NEW sid \in Settlement, AppendProposal(p, sid)
      PROVE  \E ev \in Event : Stored(ev, p) /\ log' = AppendOnce(log, ev)
  <2>1. PICK ev : /\ ev = SettlementProposed(sid, job[p].from, job[p].to, job[p].amount, job[p].by)
                  /\ log' = AppendOnce(log, ev)
    BY <1>3 DEF AppendProposal
  <2>2. ev \in Event /\ Stored(ev, p)
    BY <1>1, <1>3, <2>1, JobFields DEF AppendProposal, SettlementProposed, Event, ProposalEvent, Stored
  <2>3. QED
    BY <2>1, <2>2
<1>4. CASE AppendConfirm(p)
  <2>1. PICK ev : /\ ev = SettlementConfirmed(job[p].sid, job[p].by)
                  /\ log' = AppendOnce(log, ev)
    BY <1>4 DEF AppendConfirm
  <2>2. ev \in Event /\ Stored(ev, p)
    BY <1>1, <1>4, <2>1, JobFields DEF AppendConfirm, SettlementConfirmed, Event, ConfirmEvent, Stored
  <2>3. QED
    BY <2>1, <2>2
<1>5. CASE AppendReceipt(p)
  <2>1. PICK ev : ev = job[p].event /\ log' = AppendOnce(log, ev)
    BY <1>5 DEF AppendReceipt
  <2>2. ev \in Event /\ Stored(ev, p)
    BY <1>1, <1>5, <2>1, JobFields DEF AppendReceipt, Event, ReceiptEvent, Stored
  <2>3. QED
    BY <2>1, <2>2
<1>6. CASE AppendAdjustment(p)
  <2>1. PICK ev : /\ ev = Adjustment(job[p].receipt, job[p].before, job[p].amount)
                  /\ log' = AppendOnce(log, ev)
    BY <1>6 DEF AppendAdjustment
  <2>2. job[p].receipt \in Receipt /\ job[p].before \in Split /\ job[p].amount \in Nat
    BY <1>1, <1>6, JobFields DEF AppendAdjustment
  <2>3. ev \in AdjustmentEvent
    BY <2>1, <2>2, AdjustmentType DEF Split
  <2>4. ev \in Event /\ Stored(ev, p)
    BY <1>6, <2>1, <2>3 DEF Event, AdjustmentEvent, Stored
  <2>5. QED
    BY <2>1, <2>4
<1>7. QED
  BY <1>2, <1>3, <1>4, <1>5, <1>6 DEF AppendStep

\* A step leaves the log alone, appends one event it had ready or back-dates a
\* confirmation, or restates a receipt.
LEMMA StepsStore ==
  ASSUME IInv, [Next]_vars
  PROVE  \/ log' = log
         \/ \E p \in Proc, ev \in Event : \E n :
              /\ Stored(ev, p) /\ ~Duplicate(log, ev) /\ InsertedBehind(log', log, n, ev)
              /\ n = Len(log) \/ ev.type = "settlement_confirmed"
         \/ \E p \in Proc : Restate(p)
<1>1. log \in Seq(Event) /\ Sweeper \in Proc
  BY DEF IInv, TypeOK, Proc
<1>2. ASSUME NEW p \in Proc, AppendStep(p)
      PROVE  \/ log' = log
             \/ \E ev \in Event : /\ Stored(ev, p) /\ ~Duplicate(log, ev)
                                  /\ InsertedBehind(log', log, Len(log), ev)
  BY <1>1, <1>2, AppendedAreStored, AppendOnceInserts
<1>3. ASSUME NEW p \in Proc, Progress(p)
      PROVE  log' = log \/ AppendStep(p) \/ Restate(p)
  BY <1>3 DEF Progress, AppendStep, Settle, MarkLeaving, DepartRead, DeleteRow, CountRows,
     DissolveRead, Dissolve, ConvertTrip, RecordRead, RestateCheck
<1>4. CASE SweepConfirm
  <2> DEFINE j == job[Sweeper]
  <2>1. PICK i \in DOMAIN log :
          /\ j.step = "sweep" /\ log[i] \in j.queue
          /\ log' = BackdateOnce(log, j.now, SettlementConfirmed(log[i].sid, AutoConfirm))
    BY <1>4 DEF SweepConfirm, At
  <2>2. j \in Job /\ Backed(Sweeper, j, log, lapsed)
    BY <1>1 DEF IInv, TypeOK, JobsAreBacked
  <2>3. j.queue \in SUBSET ProposalEvent /\ j.now \in 0..Len(log)
    BY <1>1, <2>1, <2>2, JobFields, LenProperties DEF Backed
  <2>4. PICK ev : ev = SettlementConfirmed(log[i].sid, AutoConfirm)
    OBVIOUS
  <2>5. ev \in Event /\ Stored(ev, Sweeper) /\ ev.type = "settlement_confirmed"
    BY <2>1, <2>3, <2>4 DEF SettlementConfirmed, ProposalEvent, ConfirmEvent, Event, Stored
  <2>6. log' = log \/ (~Duplicate(log, ev) /\ InsertedBehind(log', log, j.now, ev))
    BY <1>1, <2>1, <2>3, <2>4, <2>5, BackdateOnceInserts
  <2>7. QED
    BY <1>1, <1>4, <2>5, <2>6
<1>5. ASSUME NEW p \in Client, NewRequest(p)
      PROVE  log' = log
  BY <1>5 DEF NewRequest, Create, Join, Propose, Confirm, RequestDeparture, ConvertRequest, Rescope
<1>6. QED
  BY <1>2, <1>3, <1>4, <1>5 DEF Next, Fail, SweepRead, Lapse, Expire, vars

-----------------------------------------------------------------------------
(* What the receipts contribute and the settlements transfer.              *)

\* The properties of the ledger are stated with MapThenSumSet; these are its sums.
LEMMA ContributedIsSum ==
  ASSUME NEW history \in Seq(Event), NEW m \in Member
  PROVE  Contributed(history, m) = SumOver(Contribution(history, m), RecordedReceipts(history))
<1> DEFINE S == RecordedReceipts(history)
           f == Contribution(history, m)
           value(r) == ReceiptEffect(EffectiveReceipt(history, r).payer,
                                     EffectiveReceipt(history, r).amount,
                                     EffectiveReceipt(history, r).shares)[m]
           Unwound(h) == h = [s \in SUBSET S |->
                                IF s = {} THEN 0
                                ELSE value(CHOOSE x \in s : TRUE) + h[s \ {CHOOSE x \in s : TRUE}]]
           it == CHOOSE h : Unwound(h)
<1>1. IsFiniteSet(S) /\ \A r \in S : f[r] \in Int /\ f[r] = value(r)
  BY LogsAreFinite, ContributionsType DEF Contribution, EffectOf
<1>2. Contributed(history, m) = it[S]
  BY DEF Contributed, MapThenSumSet, MapThenFoldSet
<1> HIDE DEF S, f, value
<1>3. ASSUME NEW h
      PROVE  Unwound(h) <=> Summing(f, S, h)
  <2>1. \A s \in SUBSET S : s # {} => value(CHOOSE x \in s : TRUE) = f[CHOOSE x \in s : TRUE]
    BY <1>1
  <2>2. [s \in SUBSET S |-> IF s = {} THEN 0
                            ELSE value(CHOOSE x \in s : TRUE) + h[s \ {CHOOSE x \in s : TRUE}]]
          = [s \in SUBSET S |-> IF s = {} THEN 0
                                ELSE f[CHOOSE x \in s : TRUE] + h[s \ {CHOOSE x \in s : TRUE}]]
    BY <2>1
  <2>3. QED
    BY <2>2 DEF Summing
<1>4. PICK g : SumsUp(f, S, g) /\ SumOver(f, S) = g[S]
  BY <1>1, SumUnfolds
<1> HIDE DEF Unwound
<1>5. \E h : Unwound(h)
  <2>1. PICK h : Summing(f, S, h)
    BY <1>1, SumExists
  <2>2. QED
    BY <1>3, <2>1
<1>6. Unwound(it)
  BY <1>5
<1> HIDE DEF it
<1>7. it = g
  BY <1>1, <1>3, <1>4, <1>6, SumIsUnique
<1>8. QED
  BY <1>2, <1>4, <1>7 DEF S, f

\* What the properties call transferred is the sum over the confirmed
\* proposals.
LEMMA TransferredIsSum ==
  ASSUME NEW history \in Seq(Event), NEW m \in Member
  PROVE  Transferred(history, m) = SumOver(Transfer(history, m), ConfirmedProposals(history))
<1> DEFINE S == ConfirmedProposals(history)
           f == Transfer(history, m)
           value(p) == (IF p.from = m THEN p.amount ELSE 0) - (IF p.to = m THEN p.amount ELSE 0)
           Unwound(h) == h = [s \in SUBSET S |->
                                IF s = {} THEN 0
                                ELSE value(CHOOSE x \in s : TRUE) + h[s \ {CHOOSE x \in s : TRUE}]]
           it == CHOOSE h : Unwound(h)
<1>1. IsFiniteSet(S) /\ \A r \in S : f[r] \in Int /\ f[r] = value(r)
  BY LogsAreFinite, ContributionsType DEF Transfer, Moved
<1>2. Transferred(history, m) = it[S]
  BY DEF Transferred, MapThenSumSet, MapThenFoldSet, ConfirmedProposals
<1> HIDE DEF S, f, value
<1>3. ASSUME NEW h
      PROVE  Unwound(h) <=> Summing(f, S, h)
  <2>1. \A s \in SUBSET S : s # {} => value(CHOOSE x \in s : TRUE) = f[CHOOSE x \in s : TRUE]
    BY <1>1
  <2>2. [s \in SUBSET S |-> IF s = {} THEN 0
                            ELSE value(CHOOSE x \in s : TRUE) + h[s \ {CHOOSE x \in s : TRUE}]]
          = [s \in SUBSET S |-> IF s = {} THEN 0
                                ELSE f[CHOOSE x \in s : TRUE] + h[s \ {CHOOSE x \in s : TRUE}]]
    BY <2>1
  <2>3. QED
    BY <2>2 DEF Summing
<1>4. PICK g : SumsUp(f, S, g) /\ SumOver(f, S) = g[S]
  BY <1>1, SumUnfolds
<1> HIDE DEF Unwound
<1>5. \E h : Unwound(h)
  <2>1. PICK h : Summing(f, S, h)
    BY <1>1, SumExists
  <2>2. QED
    BY <1>3, <2>1
<1>6. Unwound(it)
  BY <1>5
<1> HIDE DEF it
<1>7. it = g
  BY <1>1, <1>3, <1>4, <1>6, SumIsUnique
<1>8. QED
  BY <1>2, <1>4, <1>7 DEF S, f

\* Every confirmation in the log names a proposal in it.
LEMMA ConfirmedAreProposed ==
  ASSUME TypeOK, TwoSignaturesOnce
  PROVE  ConfirmedIds(log) \subseteq ProposedIds(log)
<1>1. SUFFICES ASSUME NEW sid \in ConfirmedIds(log) PROVE sid \in ProposedIds(log)
  OBVIOUS
<1>2. PICK i \in DOMAIN log : log[i].type = "settlement_confirmed" /\ log[i].sid = sid
  BY <1>1 DEF ConfirmedIds, EventsOf, ToSet
<1>3. PICK j \in 1..(i - 1) : log[j].type = "settlement_proposed" /\ log[j].sid = sid
  BY <1>2 DEF TwoSignaturesOnce
<1>4. j \in DOMAIN log
  BY <1>2, <1>3, LenProperties DEF TypeOK
<1>5. QED
  BY <1>3, <1>4 DEF ProposedIds, Proposals, EventsOf, ToSet

-----------------------------------------------------------------------------
(* Handlers that overlap.                                                  *)

\* A handler that takes a step is running and goes somewhere.
LEMMA ProgressMoves ==
  ASSUME NEW p \in Proc, Progress(p) \/ Fail(p)
  PROVE  job[p] # Idle /\ \E j : Goto(p, j)
<1>1. Idle.step = "idle"
  BY DEF Idle
<1>2. CASE Fail(p)
  BY <1>2 DEF Fail
<1>3. CASE \/ AppendJoined(p) \/ (\E sid \in Settlement : AppendProposal(p, sid))
           \/ AppendConfirm(p) \/ Settle(p) \/ MarkLeaving(p) \/ DepartRead(p) \/ AppendLeft(p)
  BY <1>1, <1>3 DEF AppendJoined, AppendProposal, AppendConfirm, Settle, MarkLeaving, DepartRead,
     AppendLeft, At
<1>4. CASE DeleteRow(p) \/ CountRows(p) \/ DissolveRead(p) \/ AppendFarewell(p) \/ Dissolve(p)
  BY <1>1, <1>4 DEF DeleteRow, CountRows, DissolveRead, AppendFarewell, Dissolve, At
<1>5. CASE \/ ConvertTrip(p) \/ (\E amount \in Amount : RecordRead(p, amount)) \/ AppendReceipt(p)
           \/ RestateCheck(p) \/ Restate(p) \/ AppendAdjustment(p)
  BY <1>1, <1>5 DEF ConvertTrip, RecordRead, AppendReceipt, RestateCheck, Restate,
     AppendAdjustment, At
<1>6. QED
  BY <1>2, <1>3, <1>4, <1>5 DEF Progress

\* A step that is observed is a step.
LEMMA ObservedSteps == [Next /\ Observe]_<<vars, overlaps>> => [Next]_vars
  OBVIOUS

\* What holds of the household holds of it while it is observed.
LEMMA ObservedBehaviours == OverlapSpec => Spec
  BY ObservedSteps, PTL DEF OverlapSpec, Spec

\* What the handlers that do not create or join begin with.
Openings == {"idle", "propose", "confirm", "mark", "dissolve", "depart", "convert"}

\* A request for anything but a membership only reads.
LEMMA RequestsOnlyRead ==
  ASSUME NEW p \in Client, NewRequest(p), ~\E m \in Member : Create(p, m) \/ Join(p, m)
  PROVE  /\ UNCHANGED <<household, role, leaving, log>>
         /\ \E j : /\ Goto(p, j)
                  /\ \/ j.step \in Openings
                     \/ /\ j.step = "rescope"
                        /\ \E r \in Receipt, amount \in Amount : Rescope(p, r, amount)
<1> USE DEF rows, Openings
<1>1. ASSUME NEW by \in Member, NEW from \in Member, NEW to \in Member, NEW amount \in Amount,
             Propose(p, by, from, to, amount)
      PROVE  UNCHANGED <<household, role, leaving, log>> /\ \E j : Goto(p, j) /\ j.step \in Openings
  BY <1>1 DEF Propose
<1>2. ASSUME NEW actor \in Member, NEW proposal \in Proposals(log), Confirm(p, actor, proposal)
      PROVE  UNCHANGED <<household, role, leaving, log>> /\ \E j : Goto(p, j) /\ j.step \in Openings
  BY <1>2 DEF Confirm
<1>3. ASSUME NEW actor \in Member, NEW target \in Member, RequestDeparture(p, actor, target)
      PROVE  UNCHANGED <<household, role, leaving, log>> /\ \E j : Goto(p, j) /\ j.step \in Openings
  BY <1>3 DEF RequestDeparture, Continue
<1>4. ASSUME NEW actor \in Member, NEW r \in Receipt, ConvertRequest(p, actor, r)
      PROVE  UNCHANGED <<household, role, leaving, log>> /\ \E j : Goto(p, j) /\ j.step \in Openings
  BY <1>4 DEF ConvertRequest
<1>5. ASSUME NEW r \in Receipt, NEW amount \in Amount, Rescope(p, r, amount)
      PROVE  UNCHANGED <<household, role, leaving, log>> /\ \E j : Goto(p, j) /\ j.step = "rescope"
  BY <1>5 DEF Rescope
<1>6. QED
  BY <1>1, <1>2, <1>3, <1>4, <1>5 DEF NewRequest

-----------------------------------------------------------------------------
(* Nobody who departed haunts the log.                                     *)

\* What a handler knows of m: the row it inserted is there, the member_left it
\* appended stands, and the farewells it still has to append reach m.
Heralded(j, m) ==
  /\ j.step = "joined" /\ j.member = m => m \in Members
  /\ j.step = "delete" /\ j.member = m => m \notin ActiveMembers(log)
  /\ j.step = "farewell" => (m \in ActiveMembers(log) => m \in j.remaining)
  /\ j.step = "teardown" => m \notin ActiveMembers(log)

Heralds(m) ==
  /\ m \in ActiveMembers(log) => m \in Members
  /\ \A p \in Proc : Heralded(job[p], m)

\* Who did not join while a handler was ending memberships is no ghost.
GhostInv ==
  /\ \A m \in Member : Joining(m) /\ Ending(m) => m \in crossed
  /\ \A m \in Member \ crossed : Heralds(m)

\* A step that neither deletes m's row nor makes m active.
LEMMA QuietStepsHerald ==
  ASSUME TypeOK, NEW m \in Member, Heralds(m), NEW p \in Proc, NEW j, Goto(p, j), Heralded(j, m)',
         m \in Members => m \in Members',
         m \in ActiveMembers(log') => m \in ActiveMembers(log)
  PROVE  Heralds(m)'
<1>1. job'[p] = j /\ \A q \in Proc \ {p} : job'[q] = job[q]
  BY DEF Goto, TypeOK
<1>2. ASSUME NEW q \in Proc
      PROVE  Heralded(job[q], m)'
  <2>1. CASE q = p
    BY <1>1, <2>1 DEF Heralded
  <2>2. CASE q # p
    BY <1>1, <2>2 DEF Heralds, Heralded, ActiveMembers
  <2>3. QED
    BY <2>1, <2>2
<1>3. QED
  BY <1>2 DEF Heralds, ActiveMembers

\* Requests delete no row and tell the log nothing.
LEMMA RequestsHerald ==
  ASSUME TypeOK, NEW m \in Member, Heralds(m), NEW p \in Client, NewRequest(p)
  PROVE  Heralds(m)'
<1> p \in Proc
  BY DEF Proc
<1>1. ASSUME NEW n \in Member, Create(p, n) \/ Join(p, n)
      PROVE  Heralds(m)'
  <2>1. PICK j : j = [step |-> "joined", member |-> n]
    OBVIOUS
  <2>2. Goto(p, j) /\ log' = log /\ \E r \in {"owner", "member"} : role' = [role EXCEPT ![n] = r]
    BY <1>1, <2>1 DEF Create, Join, InsertRow
  <2>3. Members \cup {n} \subseteq Members'
    BY <2>2 DEF Members, TypeOK
  <2>4. Heralded(j, m)'
    BY <2>1, <2>3 DEF Heralded
  <2>5. QED
    BY <2>2, <2>3, <2>4, QuietStepsHerald
<1>2. ASSUME NEW j, Goto(p, j), UNCHANGED <<role, log>>,
             j.step \notin {"joined", "delete", "farewell", "teardown"}
      PROVE  Heralds(m)'
  <2>1. Heralded(j, m)'
    BY <1>2 DEF Heralded
  <2>2. QED
    BY <1>2, <2>1, QuietStepsHerald DEF Members
<1>3. CASE ~\E n \in Member : Create(p, n) \/ Join(p, n)
  <2>1. UNCHANGED <<role, log>> /\ \E j : Goto(p, j) /\ j.step \in Openings \cup {"rescope"}
    BY <1>3, RequestsOnlyRead
  <2>2. QED
    BY <1>2, <2>1 DEF Openings
<1>4. QED
  BY <1>1, <1>3

\* The steps that join, leave and delete.
LEMMA MembershipHeralds ==
  ASSUME TypeOK, NEW m \in Member, Heralds(m), ~(Joining(m) /\ Ending(m)), NEW p \in Proc,
         \/ AppendJoined(p) \/ AppendLeft(p) \/ DeleteRow(p) \/ CountRows(p)
         \/ DissolveRead(p) \/ AppendFarewell(p) \/ Dissolve(p)
  PROVE  Heralds(m)'
<1> USE DEF At, rows
<1>1. /\ job[p] \in Job /\ log \in Seq(Event) /\ Heralded(job[p], m)
      /\ m \in ActiveMembers(log) => m \in Members
  BY DEF TypeOK, Heralds
<1>2. CASE AppendJoined(p)
  <2> DEFINE n == job[p].member
  <2>1. /\ n \in Member /\ job[p].step = "joined" /\ log' = AppendOnce(log, MemberJoined(n))
        /\ Goto(p, Idle) /\ UNCHANGED role
    BY <1>1, <1>2, JobFields DEF AppendJoined
  <2>2. ActiveMembers(log') = ActiveMembers(log) \cup {n} /\ Members' = Members
    BY <1>1, <2>1, MemberEventsFold DEF Members
  <2>3. CASE n = m
    <3>1. Joining(m) /\ m \in Members
      BY <1>1, <2>1, <2>3 DEF Joining, Heralded
    <3>2. ~Ending(m)
      BY <3>1
    <3>3. ASSUME NEW q \in Proc
          PROVE  Heralded(job[q], m)'
      <4>1. job'[q] = job[q] \/ job'[q] = Idle
        BY <2>1 DEF Goto, TypeOK
      <4>2. /\ ~(job[q].step = "delete" /\ job[q].member = m)
            /\ job[q].step \notin {"farewell", "teardown"}
        BY <3>2 DEF Ending
      <4>3. QED
        BY <2>2, <3>1, <4>1, <4>2 DEF Heralded, Idle
    <3>4. QED
      BY <2>2, <3>1, <3>3 DEF Heralds
  <2>4. CASE n # m
    <3>1. Heralded(Idle, m)'
      BY DEF Heralded, Idle
    <3>2. QED
      BY <2>1, <2>2, <2>4, <3>1, QuietStepsHerald
  <2>5. QED
    BY <2>3, <2>4
<1>3. CASE AppendLeft(p)
  <2>1. PICK n, j : n = job[p].member /\ j = [job[p] EXCEPT !.step = "delete"]
    OBVIOUS
  <2>2. /\ n \in Member /\ log' = AppendOnce(log, MemberLeft(n))
        /\ Goto(p, j) /\ UNCHANGED role /\ j.step = "delete" /\ j.member = n
    BY <1>1, <1>3, <2>1, JobFields DEF AppendLeft, Job
  <2>3. ActiveMembers(log') = ActiveMembers(log) \ {n} /\ Members' = Members
    BY <1>1, <2>2, MemberEventsFold DEF Members
  <2>4. Heralded(j, m)'
    BY <2>2, <2>3 DEF Heralded
  <2>5. QED
    BY <2>2, <2>3, <2>4, QuietStepsHerald
<1>4. CASE DeleteRow(p)
  <2>1. PICK n : n = job[p].member
    OBVIOUS
  <2>2. PICK j : Goto(p, j) /\ j.step \in {"idle", "count", "depart"}
    BY <1>4 DEF DeleteRow, Continue, Idle
  <2>3. /\ n \in Member /\ job[p].step = "delete" /\ log' = log
        /\ role' = [role EXCEPT ![n] = "none"]
    BY <1>1, <1>4, <2>1, JobFields DEF DeleteRow
  <2>4. Members' = Members \ {n}
    BY <2>3 DEF Members, TypeOK
  <2>5. Heralded(j, m)'
    BY <2>2 DEF Heralded
  <2>6. CASE n = m
    <3>1. Ending(m) /\ m \notin ActiveMembers(log)
      BY <1>1, <2>1, <2>3, <2>6 DEF Ending, Heralded
    <3>2. ASSUME NEW q \in Proc
          PROVE  Heralded(job[q], m)'
      <4>1. CASE q = p
        <5>1. job'[q] = j
          BY <2>2, <4>1 DEF Goto, TypeOK
        <5>2. QED
          BY <2>5, <5>1 DEF Heralded
      <4>2. CASE q # p
        <5>1. job'[q] = job[q] /\ Heralded(job[q], m)
          BY <2>2, <4>2 DEF Goto, TypeOK, Heralds
        <5>2. ~(job[q].step = "joined" /\ job[q].member = m)
          BY <3>1 DEF Joining
        <5>3. QED
          BY <2>3, <3>1, <5>1, <5>2 DEF Heralded, ActiveMembers
      <4>3. QED
        BY <4>1, <4>2
    <3>3. QED
      BY <2>3, <3>1, <3>2 DEF Heralds, ActiveMembers
  <2>7. CASE n # m
    BY <2>2, <2>3, <2>4, <2>5, <2>7, QuietStepsHerald
  <2>8. QED
    BY <2>6, <2>7
<1>5. CASE CountRows(p)
  <2>1. PICK j : /\ Goto(p, j)
                 /\ \/ j.step \in {"idle", "depart"}
                    \/ j.step = "teardown" /\ Members = {}
    BY <1>5 DEF CountRows, Continue, Idle
  <2>2. UNCHANGED <<role, log>> /\ Members' = Members
    BY <1>5 DEF CountRows, Members
  <2>3. Heralded(j, m)'
    BY <1>1, <2>1, <2>2 DEF Heralded, ActiveMembers
  <2>4. QED
    BY <2>1, <2>2, <2>3, QuietStepsHerald
<1>6. CASE DissolveRead(p)
  <2>1. PICK j : Goto(p, j) /\ j.step = "farewell" /\ j.remaining = Members
    BY <1>6 DEF DissolveRead
  <2>2. UNCHANGED <<role, log>> /\ Members' = Members
    BY <1>6 DEF DissolveRead, Members
  <2>3. Heralded(j, m)'
    BY <1>1, <2>1, <2>2 DEF Heralded, ActiveMembers
  <2>4. QED
    BY <2>1, <2>2, <2>3, QuietStepsHerald
<1>7. CASE AppendFarewell(p)
  <2>1. PICK n \in job[p].remaining : /\ log' = AppendOnce(log, MemberLeft(n))
                                     /\ Goto(p, [job[p] EXCEPT !.remaining = @ \ {n}])
    BY <1>7 DEF AppendFarewell
  <2>2. PICK j : j = [job[p] EXCEPT !.remaining = @ \ {n}]
    OBVIOUS
  <2>3. n \in Member /\ UNCHANGED role /\ j.step = "farewell" /\ j.remaining = job[p].remaining \ {n}
    BY <1>1, <1>7, <2>1, <2>2, JobFields DEF AppendFarewell, Job
  <2>4. ActiveMembers(log') = ActiveMembers(log) \ {n} /\ Members' = Members
    BY <1>1, <2>1, <2>3, MemberEventsFold DEF Members
  <2>5. Heralded(j, m)'
    BY <1>1, <1>7, <2>3, <2>4 DEF Heralded, AppendFarewell
  <2>6. QED
    BY <2>1, <2>2, <2>4, <2>5, QuietStepsHerald
<1>8. CASE Dissolve(p)
  <2>1. /\ job[p].step = "teardown" \/ (job[p].step = "farewell" /\ job[p].remaining = {})
        /\ log' = log
    BY <1>8 DEF Dissolve
  <2>2. PICK j : Goto(p, j) /\ j.step \in {"idle", "depart"}
    BY <1>8 DEF Dissolve, Continue, Idle
  <2>3. Ending(m) /\ m \notin ActiveMembers(log)
    BY <1>1, <2>1 DEF Ending, Heralded
  <2>4. ASSUME NEW q \in Proc
        PROVE  Heralded(job[q], m)'
    <3>1. CASE q = p
      <4>1. job'[q] = j
        BY <2>2, <3>1 DEF Goto, TypeOK
      <4>2. QED
        BY <2>2, <4>1 DEF Heralded
    <3>2. CASE q # p
      <4>1. job'[q] = job[q] /\ Heralded(job[q], m)
        BY <2>2, <3>2 DEF Goto, TypeOK, Heralds
      <4>2. ~(job[q].step = "joined" /\ job[q].member = m)
        BY <2>3 DEF Joining
      <4>3. QED
        BY <2>1, <2>3, <4>1, <4>2 DEF Heralded, ActiveMembers
    <3>3. QED
      BY <3>1, <3>2
  <2>5. QED
    BY <2>1, <2>3, <2>4 DEF Heralds, ActiveMembers
<1>9. QED
  BY <1>2, <1>3, <1>4, <1>5, <1>6, <1>7, <1>8

\* The other steps.
LEMMA OthersHerald ==
  ASSUME IInv, NEW m \in Member, Heralds(m), NEW p \in Proc,
         \/ \E sid \in Settlement : AppendProposal(p, sid)
         \/ AppendConfirm(p) \/ AppendReceipt(p) \/ AppendAdjustment(p) \/ Restate(p) \/ Fail(p)
         \/ Settle(p) \/ MarkLeaving(p) \/ DepartRead(p)
         \/ ConvertTrip(p) \/ (\E amount \in Amount : RecordRead(p, amount)) \/ RestateCheck(p)
         \/ (p = Sweeper /\ (SweepRead \/ SweepConfirm))
  PROVE  Heralds(m)'
<1>1. TypeOK /\ log \in Seq(Event) /\ job[p] \in Job
  BY DEF IInv, TypeOK
<1>2. ActiveMembers(log') = ActiveMembers(log)
  <2>1. CASE Restate(p)
    BY <1>1, <2>1, RestateRewrites, RewritingMoves
  <2>2. CASE log' = log
    BY <2>2
  <2>3. QED
    BY <2>1, <2>2, OtherEventsKeepActive, SweepingKeepsActive DEF Fail, Settle, MarkLeaving,
       DepartRead, ConvertTrip, RecordRead, RestateCheck, SweepRead
<1>3. PICK j : Goto(p, j) /\ j.step \notin {"joined", "delete", "farewell", "teardown"}
  <2> DEFINE quiet == {"idle", "settle", "dissolve", "depart", "left", "record", "append", "adjust",
                       "restate", "sweep"}
  <2>1. CASE \/ \E sid \in Settlement : AppendProposal(p, sid)
             \/ AppendConfirm(p) \/ AppendReceipt(p) \/ AppendAdjustment(p) \/ Restate(p)
             \/ Fail(p) \/ MarkLeaving(p)
    <3>1. \E j : Goto(p, j) /\ j.step \in quiet
      BY <2>1 DEF AppendProposal, AppendConfirm, AppendReceipt, AppendAdjustment, Restate, Fail,
         MarkLeaving, Idle
    <3>2. QED
      BY <3>1
  <2>2. \A queue : Continue(queue).step \in quiet
    BY DEF Continue, Idle
  <2>3. CASE Settle(p)
    <3>1. \E j : Goto(p, j) /\ j.step \in quiet
      BY <2>2, <2>3 DEF Settle
    <3>2. QED
      BY <3>1
  <2>4. CASE DepartRead(p)
    <3>1. PICK j : /\ Goto(p, j)
                   /\ \/ j.step = "left"
                      \/ \E queue : j = Continue(queue)
      BY <2>4 DEF DepartRead
    <3>2. QED
      BY <2>2, <3>1
  <2>5. CASE ConvertTrip(p)
    <3>1. \E j : Goto(p, j) /\ j.step \in quiet
      BY <2>5 DEF ConvertTrip, Idle
    <3>2. QED
      BY <3>1
  <2>6. ASSUME NEW amount \in Amount, RecordRead(p, amount)
        PROVE  \E j : Goto(p, j) /\ j.step \in quiet
    BY <2>6 DEF RecordRead, Idle
  <2>7. CASE RestateCheck(p)
    <3>1. PICK j : Goto(p, j) /\ j.step \in {"adjust", "restate"}
      BY <2>7 DEF RestateCheck
    <3>2. QED
      BY <3>1
  <2>8. CASE p = Sweeper /\ SweepRead
    BY <2>8 DEF SweepRead
  <2>9. CASE p = Sweeper /\ SweepConfirm
    <3>1. PICK j : Goto(p, j) /\ j.step \in {"sweep", "settle"}
      BY <2>9 DEF SweepConfirm
    <3>2. QED
      BY <3>1
  <2>10. QED
    BY <2>1, <2>3, <2>4, <2>5, <2>6, <2>7, <2>8, <2>9
<1>4. UNCHANGED role
  BY DEF AppendProposal, AppendConfirm, AppendReceipt, AppendAdjustment, Restate, Fail, Settle,
     MarkLeaving, DepartRead, ConvertTrip, RecordRead, RestateCheck, SweepRead, SweepConfirm, rows
<1>5. Heralded(j, m)'
  BY <1>3 DEF Heralded
<1>6. QED
  BY <1>1, <1>2, <1>3, <1>4, <1>5, QuietStepsHerald DEF Members

\* Every step.
LEMMA StepsHerald ==
  ASSUME IInv, [Next]_vars, NEW m \in Member, Heralds(m), ~(Joining(m) /\ Ending(m))
  PROVE  Heralds(m)'
<1>1. TypeOK /\ Sweeper \in Proc
  BY DEF IInv, Proc
<1>2. ASSUME NEW p \in Client, NewRequest(p)
      PROVE  Heralds(m)'
  BY <1>1, <1>2, RequestsHerald
<1>3. ASSUME NEW p \in Proc, Progress(p) \/ Fail(p)
      PROVE  Heralds(m)'
  BY <1>1, <1>3, MembershipHeralds, OthersHerald DEF Progress
<1>4. CASE SweepRead \/ SweepConfirm
  BY <1>1, <1>4, OthersHerald
<1>5. CASE UNCHANGED <<role, log, job>>
  BY <1>5 DEF Heralds, Heralded, Members, ActiveMembers
<1>6. QED
  BY <1>2, <1>3, <1>4, <1>5 DEF Next, Lapse, Expire, vars, rows

\* However the handlers overlap, nobody is listed as active without a row but
\* who joined while a handler was ending their membership.
THEOREM NobodyHaunts == OverlapSpec => []NoGhosts
<1>1. Init /\ Unobserved => GhostInv
  <2>1. SUFFICES ASSUME Init PROVE GhostInv
    OBVIOUS
  <2>2. log = <<>> /\ \A p \in Proc : job[p] = Idle
    BY <2>1 DEF Init
  <2>3. ActiveMembers(log) = {}
    BY <2>2, EmptyLogFolds DEF ActiveMembers, EmptyState
  <2>4. QED
    BY <2>2, <2>3 DEF GhostInv, Heralds, Heralded, Joining, At, Idle
<1>2. ASSUME IInv, GhostInv, [Next /\ Observe]_<<vars, overlaps>>
      PROVE  GhostInv'
  <2>1. CASE UNCHANGED <<vars, overlaps>>
    BY <1>2, <2>1 DEF GhostInv, Heralds, Heralded, Joining, Ending, At, Members, ActiveMembers,
       vars, overlaps, rows
  <2>2. CASE Next /\ Observe
    <3>1. \A m \in Member : Joining(m)' /\ Ending(m)' => m \in crossed'
      BY <2>2 DEF Observe
    <3>2. crossed \subseteq crossed'
      BY <2>2 DEF Observe
    <3>3. ASSUME NEW m \in Member \ crossed'
          PROVE  Heralds(m)'
      BY <1>2, <2>2, <3>2, <3>3, StepsHerald DEF GhostInv
    <3>4. QED
      BY <3>1, <3>3 DEF GhostInv
  <2>3. QED
    BY <1>2, <2>1, <2>2
<1>3. IInv /\ GhostInv => NoGhosts
  <2>1. SUFFICES ASSUME IInv, GhostInv PROVE NoGhosts
    OBVIOUS
  <2>2. ActiveMembers(log) \subseteq Member
    BY <2>1, LedgerStateType DEF IInv, TypeOK
  <2>3. QED
    BY <2>1, <2>2 DEF NoGhosts, GhostInv, Heralds
<1>4. QED
  BY ObservedBehaviours, IInvHolds, <1>1, <1>2, <1>3, PTL DEF OverlapSpec

-----------------------------------------------------------------------------
(* The keys of the log.                                                    *)

\* Every key is stored once, and only recorded receipts are corrected.
KeyInv == Keyed(log)

\* Every step stores one event under its key, or rewrites an event under its own.
LEMMA KeysHold == Spec => []KeyInv
<1>1. Init => KeyInv
  <2>1. Keyed(<<>>)
    BY EmptyLogAddsUp
  <2>2. QED
    BY <2>1 DEF Init, KeyInv
<1>2. ASSUME IInv, KeyInv, [Next]_vars
      PROVE  KeyInv'
  <2>1. log \in Seq(Event)
    BY <1>2 DEF IInv, TypeOK
  <2>2. ASSUME NEW p \in Proc, NEW ev \in Event, NEW n,
               Stored(ev, p), ~Duplicate(log, ev), InsertedBehind(log', log, n, ev)
        PROVE  Keyed(log')
    <3>1. ev.type = "adjustment" => ev.receipt \in RecordedReceipts(log)
      <4>1. SUFFICES ASSUME ev.type = "adjustment"
                     PROVE  ev.receipt \in RecordedReceipts(log)
        OBVIOUS
      <4>2. /\ job[p].step = "adjust"
            /\ ev = Adjustment(job[p].receipt, job[p].before, job[p].amount)
        BY <2>2, <4>1 DEF Stored, AppendAdjustment, At
      <4>3. QED
        BY <1>2, <4>2 DEF Adjustment, IInv, JobsAreBacked, Backed
    <3>2. QED
      BY <1>2, <2>1, <2>2, <3>1, KeysStayApart DEF KeyInv
  <2>3. ASSUME NEW p \in Proc, Restate(p)
        PROVE  Keyed(log')
    <3>1. PICK i, r : i = RecordedAt(log, r) /\ r = job[p].receipt
      OBVIOUS
    <3>2. /\ RewrittenAt(log', log, i)
          /\ log'[i] = ReceiptRecorded(r, log[i].payer, job[p].amount, log[i].participants)
      BY <1>2, <2>3, <3>1, RestateRewrites
    <3>3. r \in RecordedReceipts(log)
      BY <1>2, <2>3, <3>1 DEF Restate, At, IInv, JobsAreBacked, Backed
    <3>4. log'[i].receipt = log[i].receipt
      BY <2>1, <3>1, <3>2, <3>3, RecordedAtIsARecord DEF ReceiptRecorded
    <3>5. QED
      BY <1>2, <2>1, <3>2, <3>4, RewritingKeepsKeys DEF KeyInv
  <2>4. QED
    BY <1>2, <2>2, <2>3, StepsStore DEF KeyInv
<1>3. QED
  BY IInvHolds, <1>1, <1>2, PTL DEF Spec

\* Where a restatement writes.
LEMMA RestateWrites ==
  ASSUME IInv, NEW p \in Proc, Restate(p)
  PROVE  \E i : /\ i = RecordedAt(log, job[p].receipt) /\ RewrittenAt(log', log, i)
                /\ log'[i] = ReceiptRecorded(job[p].receipt, log[i].payer, job[p].amount,
                                             log[i].participants)
                /\ log'[i].receipt = log[i].receipt /\ log[i].receipt = job[p].receipt
                /\ job[p].receipt \in RecordedReceipts(log)
<1>1. PICK i, r : i = RecordedAt(log, r) /\ r = job[p].receipt
  OBVIOUS
<1>2. /\ RewrittenAt(log', log, i)
      /\ log'[i] = ReceiptRecorded(r, log[i].payer, job[p].amount, log[i].participants)
  BY <1>1, RestateRewrites
<1>3. r \in RecordedReceipts(log) /\ log \in Seq(Event)
  BY <1>1 DEF Restate, At, IInv, JobsAreBacked, Backed, TypeOK
<1>4. log'[i].receipt = log[i].receipt /\ log[i].receipt = r
  BY <1>1, <1>2, <1>3, RecordedAtIsARecord DEF ReceiptRecorded
<1>5. QED
  BY <1>1, <1>2, <1>3, <1>4

-----------------------------------------------------------------------------
(* Where a step leads.                                                     *)

\* The points at which a handler acts on no split and no participants that it has read.
Heedless == {"idle", "joined", "propose", "confirm", "settle", "mark", "depart", "left", "delete",
             "count", "dissolve", "farewell", "teardown", "convert", "record", "sweep"}

\* To such a point, unless the step is one of the three that read them.
LEMMA StepsLead ==
  ASSUME TypeOK, [Next]_vars
  PROVE  \/ UNCHANGED <<log, leaving, job>>
         \/ \E p \in Proc : \E j : Goto(p, j) /\ j.step \in Heedless
         \/ \E p \in Proc : RestateCheck(p)
         \/ \E p \in Proc, amount \in Amount : RecordRead(p, amount)
         \/ \E p \in Client, r \in Receipt, amount \in Amount : Rescope(p, r, amount)
<1> DEFINE Heedlessly == \E p \in Proc : \E j : Goto(p, j) /\ j.step \in Heedless
<1> USE DEF Heedless
<1>1. Client \subseteq Proc /\ Sweeper \in Proc
  BY DEF Proc
<1>2. \A queue : Continue(queue).step \in Heedless
  BY DEF Continue, Idle
<1>3. ASSUME NEW p \in Client, NewRequest(p),
             ~\E r \in Receipt, amount \in Amount : Rescope(p, r, amount)
      PROVE  Heedlessly
  <2>1. CASE \E m \in Member : Create(p, m) \/ Join(p, m)
    <3>1. PICK m : Goto(p, [step |-> "joined", member |-> m])
      BY <2>1 DEF Create, Join
    <3>2. QED
      BY <1>1, <3>1
  <2>2. CASE ~\E m \in Member : Create(p, m) \/ Join(p, m)
    BY <1>1, <1>3, <2>2, RequestsOnlyRead DEF Openings
  <2>3. QED
    BY <2>1, <2>2
<1>4. ASSUME NEW p \in Proc, Progress(p) \/ Fail(p),
             ~RestateCheck(p), ~\E amount \in Amount : RecordRead(p, amount)
      PROVE  Heedlessly
  <2>1. job[p] \in Job
    BY DEF TypeOK
  <2>2. CASE \/ AppendJoined(p) \/ (\E sid \in Settlement : AppendProposal(p, sid))
             \/ AppendConfirm(p) \/ MarkLeaving(p) \/ AppendReceipt(p)
             \/ Restate(p) \/ AppendAdjustment(p) \/ Fail(p)
    BY <2>2 DEF AppendJoined, AppendProposal, AppendConfirm, MarkLeaving, AppendReceipt, Restate,
       AppendAdjustment, Fail, Idle
  <2>3. CASE ConvertTrip(p) \/ DissolveRead(p) \/ Settle(p)
    BY <1>2, <2>3 DEF ConvertTrip, DissolveRead, Settle, Idle
  <2>4. CASE DepartRead(p)
    <3>1. PICK j : /\ Goto(p, j)
                   /\ \/ j.step = "left"
                      \/ \E queue : j = Continue(queue)
      BY <2>4 DEF DepartRead
    <3>2. QED
      BY <1>2, <3>1
  <2>5. CASE AppendLeft(p)
    <3>1. [job[p] EXCEPT !.step = "delete"].step = "delete"
      BY <2>1 DEF Job
    <3>2. QED
      BY <2>5, <3>1 DEF AppendLeft
  <2>6. CASE AppendFarewell(p)
    <3>1. PICK m : Goto(p, [job[p] EXCEPT !.remaining = @ \ {m}])
      BY <2>6 DEF AppendFarewell
    <3>2. [job[p] EXCEPT !.remaining = @ \ {m}].step = "farewell"
      BY <2>1, <2>6 DEF AppendFarewell, At, Job
    <3>3. QED
      BY <3>1, <3>2
  <2>7. CASE DeleteRow(p) \/ CountRows(p)
    BY <1>2, <2>7 DEF DeleteRow, CountRows
  <2>8. CASE Dissolve(p)
    BY <1>2, <2>8 DEF Dissolve, Idle
  <2>9. QED
    BY <1>4, <2>2, <2>3, <2>4, <2>5, <2>6, <2>7, <2>8 DEF Progress
<1>5. CASE SweepRead
  BY <1>1, <1>5 DEF SweepRead
<1>6. CASE SweepConfirm
  BY <1>1, <1>6 DEF SweepConfirm
<1>7. CASE \/ \E sid \in Settlement : Lapse(sid)
           \/ \E r \in Receipt : Expire(r)
           \/ UNCHANGED vars
  BY <1>7 DEF Lapse, Expire, vars, rows
<1> HIDE DEF Heedlessly
<1>8. QED
  BY <1>3, <1>4, <1>5, <1>6, <1>7 DEF Next, Heedlessly

-----------------------------------------------------------------------------
(* A stored receipt is rewritten early.                                    *)

\* A handler about to restate holds the row, so that nothing corrects the receipt, and
\* only a confirmation that it did not see locks it.
EarlyFor(r) ==
  /\ r \notin AdjustedReceipts(log)
  /\ SettlementLocked(log, r) => r \in overtaken
EarlyInv == \A r \in Restating : EarlyFor(r)

\* Whoever stores something else leaves the receipt free to be restated.
LEMMA StoringKeepsEarly ==
  ASSUME IInv, Keyed(log), Keyed(log'), NEW p \in Proc, NEW ev \in Event, NEW n,
         Stored(ev, p), ~Duplicate(log, ev), InsertedBehind(log', log, n, ev), Observe,
         NEW r \in Restating, r \in Restating', r \in RecordedReceipts(log), EarlyFor(r)
  PROVE  EarlyFor(r)'
<1>1. log \in Seq(Event)
  BY DEF IInv, TypeOK
<1>2. overtaken' = {x \in Restating' : x \in overtaken \/ (x \in Restating /\ Settles)}
  BY DEF Observe
<1>3. r \notin AdjustedReceipts(log')
  <2>1. ASSUME ev.type = "adjustment", ev.receipt = r
        PROVE  FALSE
    <3>1. /\ AppendAdjustment(p)
          /\ ev = Adjustment(job[p].receipt, job[p].before, job[p].amount)
      BY <2>1 DEF Stored
    <3>2. RowFree(r)
      BY <2>1, <3>1 DEF AppendAdjustment, Adjustment
    <3>3. QED
      BY <3>2 DEF RowFree, Restating
  <2>2. CASE ev.type = "adjustment"
    <3>1. EventsOf(log', "adjustment") = EventsOf(log, "adjustment") \cup {ev}
      BY <1>1, <2>2, InsertionAddsToItsType
    <3>2. QED
      BY <2>1, <2>2, <3>1 DEF AdjustedReceipts, EarlyFor
  <2>3. CASE ev.type # "adjustment"
    <3>1. EventsOf(log', "adjustment") = EventsOf(log, "adjustment")
      BY <1>1, <2>3, InsertionAddsToItsType
    <3>2. QED
      BY <3>1 DEF AdjustedReceipts, EarlyFor
  <2>4. QED
    BY <2>2, <2>3
<1>4. CASE ev.type = "settlement_confirmed"
  <2>1. ev.sid \in ConfirmedIds(log')
    BY <1>1, <1>4, InsertionAddsToItsType DEF ConfirmedIds
  <2>2. ev.sid \notin ConfirmedIds(log)
    BY <1>4 DEF ConfirmedIds, EventsOf, ToSet, Duplicate, SameDedupeKey
  <2>3. Settles
    BY <2>1, <2>2 DEF Settles
  <2>4. r \in overtaken'
    BY <1>2, <2>3
  <2>5. QED
    BY <1>3, <2>4 DEF EarlyFor
<1>5. CASE ev.type # "settlement_confirmed"
  BY <1>1, <1>2, <1>3, <1>5, OtherInsertionsLockNothing DEF EarlyFor
<1>6. QED
  BY <1>4, <1>5

\* A receipt that is being restated either was before the step, or was checked by
\* it under its lock.
LEMMA RestatingBegins ==
  ASSUME TypeOK, [Next]_vars, NEW r \in Restating', r \notin Restating
  PROVE  ~SettlementLocked(log, r) /\ r \notin AdjustedReceipts(log) /\ log' = log
<1>1. PICK p \in Proc : job'[p].step = "restate" /\ job'[p].receipt = r
  BY DEF Restating, At
<1>2. job'[p] # job[p]
  BY <1>1 DEF Restating, At
<1>3. ASSUME NEW q \in Proc, NEW j, Goto(q, j), j.step # "restate"
      PROVE  FALSE
  BY <1>1, <1>2, <1>3 DEF Goto, TypeOK
<1>4. ~UNCHANGED <<log, leaving, job>>
  BY <1>2
<1>5. ~\E q \in Proc : \E j : Goto(q, j) /\ j.step \in Heedless
  BY <1>3 DEF Heedless
<1>6. ASSUME NEW q \in Proc, NEW amount \in Amount, RecordRead(q, amount)
      PROVE  FALSE
  BY <1>3, <1>6 DEF RecordRead, Idle
<1>7. ASSUME NEW q \in Client, NEW x \in Receipt, NEW amount \in Amount, Rescope(q, x, amount)
      PROVE  FALSE
  <2>1. PICK j : Goto(q, j) /\ j.step = "rescope"
    BY <1>7 DEF Rescope
  <2>2. QED
    BY <1>3, <2>1 DEF Proc
<1>8. PICK q \in Proc : RestateCheck(q)
  BY <1>4, <1>5, <1>6, <1>7, StepsLead
<1>9. PICK j : /\ Goto(q, j)
               /\ \/ j.step = "adjust"
                  \/ /\ j.step = "restate" /\ j.receipt = job[q].receipt
                     /\ ~SettlementLocked(log, j.receipt)
                     /\ j.receipt \notin AdjustedReceipts(log)
  BY <1>8 DEF RestateCheck
<1>10. log' = log
  BY <1>8 DEF RestateCheck
<1>11. p = q /\ job'[q] = j
  BY <1>2, <1>9 DEF Goto, TypeOK
<1>12. QED
  BY <1>1, <1>9, <1>10, <1>11

\* Every step.
LEMMA StepsKeepEarly ==
  ASSUME IInv, Keyed(log), Keyed(log'), EarlyInv, [Next]_vars, Observe
  PROVE  EarlyInv'
<1>1. log \in Seq(Event) /\ TypeOK
  BY DEF IInv, TypeOK
<1>2. SUFFICES ASSUME NEW r \in Restating' PROVE EarlyFor(r)'
  BY DEF EarlyInv
<1>3. CASE r \notin Restating
  BY <1>1, <1>3, RestatingBegins DEF EarlyFor
<1>4. CASE r \in Restating
  <2>1. /\ EarlyFor(r) /\ r \in RecordedReceipts(log)
        /\ r \in overtaken => r \in overtaken'
    BY <1>4 DEF EarlyInv, Observe, Restating, At, IInv, JobsAreBacked, Backed
  <2>2. CASE log' = log
    BY <2>1, <2>2 DEF EarlyFor
  <2>3. ASSUME NEW p \in Proc, NEW ev \in Event, NEW n,
               Stored(ev, p), ~Duplicate(log, ev), InsertedBehind(log', log, n, ev)
        PROVE  EarlyFor(r)'
    BY <1>4, <2>1, <2>3, StoringKeepsEarly
  <2>4. ASSUME NEW p \in Proc, Restate(p)
        PROVE  EarlyFor(r)'
    <3>1. PICK i : RewrittenAt(log', log, i) /\ log'[i].receipt = log[i].receipt
      BY <2>4, RestateWrites
    <3>2. AdjustedReceipts(log') = AdjustedReceipts(log)
      BY <1>1, <3>1, RewritingKeepsKeys
    <3>3. SettlementLocked(log', r) => SettlementLocked(log, r)
      BY <1>1, <2>1, <3>1, RewritingLocksNothing
    <3>4. QED
      BY <2>1, <3>2, <3>3 DEF EarlyFor
  <2>5. QED
    BY <2>2, <2>3, <2>4, StepsStore
<1>5. QED
  BY <1>3, <1>4

\* However the handlers overlap, a stored receipt is rewritten only while nothing
\* corrects it and no settlement stands after it but one that was confirmed behind the
\* back of the handler.
THEOREM RewritesAreEarly == OverlapSpec => NoRewriteAfterSettlement
<1> DEFINE Early == Len(log') = Len(log) =>
                      \A i, j \in DOMAIN log : log'[i] # log[i] =>
                        /\ log[j].type = "settlement_confirmed" => j < i \/ log[i].receipt \in overtaken
                        /\ log[j].type = "adjustment" => log[j].receipt # log[i].receipt
<1>1. Init => EarlyInv
  BY DEF Init, EarlyInv, Restating, At, Idle
<1>2. ASSUME IInv, KeyInv, KeyInv', EarlyInv, [Next /\ Observe]_<<vars, overlaps>>
      PROVE  EarlyInv'
  <2>1. CASE UNCHANGED <<vars, overlaps>>
    BY <1>2, <2>1 DEF EarlyInv, EarlyFor, Restating, At, vars, overlaps
  <2>2. CASE Next /\ Observe
    BY <1>2, <2>2, StepsKeepEarly DEF KeyInv
  <2>3. QED
    BY <1>2, <2>1, <2>2
<1>3. ASSUME IInv, EarlyInv, [Next]_vars
      PROVE  [Early]_log
  <2>1. CASE log' = log
    BY <2>1
  <2>2. ASSUME NEW n, NEW ev, InsertedBehind(log', log, n, ev)
        PROVE  Early
    BY <1>3, <2>2, LenProperties DEF InsertedBehind, IInv, TypeOK
  <2>3. ASSUME NEW p \in Proc, Restate(p)
        PROVE  Early
    <3>1. PICK i : /\ i = RecordedAt(log, job[p].receipt) /\ RewrittenAt(log', log, i)
                   /\ log[i].receipt = job[p].receipt /\ job[p].receipt \in RecordedReceipts(log)
      BY <1>3, <2>3, RestateWrites
    <3>2. PICK r : r = job[p].receipt
      OBVIOUS
    <3>3. /\ log \in Seq(Event) /\ DOMAIN log = 1..Len(log) /\ Len(log) \in Nat /\ i \in DOMAIN log
      BY <1>3, <3>1, LenProperties DEF RewrittenAt, IInv, TypeOK
    <3>4. job[p] \in Job
      BY <1>3 DEF IInv, TypeOK
    <3>5. EarlyFor(r)
      BY <1>3, <2>3, <3>2, <3>4, JobFields DEF EarlyInv, Restating, Restate, At
    <3>6. \A j \in DOMAIN log : log[j].type = "settlement_confirmed" => j < i \/ r \in overtaken
      <4>1. SUFFICES ASSUME NEW j \in DOMAIN log, log[j].type = "settlement_confirmed",
                            r \notin overtaken
                     PROVE  j < i
        OBVIOUS
      <4>2. ~(j > RecordedAt(log, r))
        BY <3>5, <4>1 DEF EarlyFor, SettlementLocked
      <4>3. j # i
        <5>1. log[i] \in ReceiptEvent
          BY <3>1 DEF RewrittenAt
        <5>2. QED
          BY <4>1, <5>1 DEF ReceiptEvent
      <4>4. QED
        BY <3>1, <3>2, <3>3, <4>2, <4>3
    <3>7. \A j \in DOMAIN log : log[j].type = "adjustment" => log[j].receipt # r
      BY <3>5 DEF AdjustedReceipts, EventsOf, ToSet, EarlyFor
    <3>8. \A k \in DOMAIN log : log'[k] # log[k] => k = i
      BY <3>1, <3>3 DEF RewrittenAt
    <3>9. QED
      BY <3>1, <3>2, <3>3, <3>6, <3>7, <3>8
  <2> HIDE DEF Early
  <2>4. QED
    BY <1>3, <2>1, <2>2, <2>3, StepsStore
<1> HIDE DEF Early
<1>4. Init /\ Unobserved /\ [][Next /\ Observe]_<<vars, overlaps>> => [][Early]_log
  BY ObservedBehaviours, ObservedSteps, IInvHolds, KeysHold, <1>1, <1>2, <1>3, PTL DEF OverlapSpec
<1>5. QED
  BY <1>4 DEF OverlapSpec, NoRewriteAfterSettlement, Early

-----------------------------------------------------------------------------
(* Who has asked to leave.                                                 *)

\* Who has asked to leave and has a part in a receipt that is about to be stored asked
\* after the handler had read who is eligible.
AskInv == \A x \in Recording : x[1] \in leaving => x \in asked

\* The handlers about to store a receipt either were before the step, or have just read
\* who is eligible.
LEMMA RecordingBegins ==
  ASSUME TypeOK, [Next]_vars, NEW x \in Recording', x \notin Recording
  PROVE  x[1] \notin leaving /\ leaving' = leaving
<1>1. PICK p \in Proc : /\ job'[p].step = "append" /\ x[1] \in Parties(job'[p].event)
                        /\ x[2] = job'[p].event.receipt /\ x \in Member \X Receipt
  BY DEF Recording, At
<1>2. job'[p] # job[p]
  BY <1>1 DEF Recording, At
<1>3. ASSUME NEW q \in Proc, NEW j, Goto(q, j), j.step # "append"
      PROVE  FALSE
  BY <1>1, <1>2, <1>3 DEF Goto, TypeOK
<1>4. ~UNCHANGED <<log, leaving, job>>
  BY <1>2
<1>5. ~\E q \in Proc : \E j : Goto(q, j) /\ j.step \in Heedless
  BY <1>3 DEF Heedless
<1>6. ASSUME NEW q \in Proc, RestateCheck(q)
      PROVE  FALSE
  <2>1. PICK j : Goto(q, j) /\ j.step \in {"adjust", "restate"}
    BY <1>6 DEF RestateCheck
  <2>2. QED
    BY <1>3, <2>1
<1>7. ASSUME NEW q \in Client, NEW r \in Receipt, NEW amount \in Amount, Rescope(q, r, amount)
      PROVE  FALSE
  <2>1. PICK j : Goto(q, j) /\ j.step = "rescope"
    BY <1>7 DEF Rescope
  <2>2. QED
    BY <1>3, <2>1 DEF Proc
<1>8. PICK q \in Proc, amount \in Amount : RecordRead(q, amount)
  BY <1>4, <1>5, <1>6, <1>7, StepsLead
<1>9. PICK r, j : /\ Goto(q, j) /\ r = job[q].receipt
                  /\ \/ j = Idle
                     \/ /\ Uploader[r] \in Eligible
                        /\ j = [step |-> "append",
                                event |-> ReceiptRecorded(r, Uploader[r], amount,
                                                          job[q].participants \cap Eligible)]
  BY <1>8 DEF RecordRead
<1>10. leaving' = leaving
  BY <1>8 DEF RecordRead, rows
<1>11. p = q /\ job'[q] = j
  BY <1>2, <1>9 DEF Goto, TypeOK
<1>12. j # Idle
  BY <1>1, <1>11 DEF Idle
<1>13. Parties(j.event) \subseteq Eligible
  BY <1>9, <1>12 DEF Parties, ReceiptRecorded
<1>14. QED
  BY <1>1, <1>10, <1>11, <1>13 DEF Eligible

\* However the handlers overlap, nobody who has asked to leave pays for, or shares, a
\* receipt recorded from then on, but who asked while it was being recorded.
THEOREM LeaversAreSpared == OverlapSpec => LeaversAccrueNothing
<1> DEFINE Spared == \A e \in EventsOf(log', "receipt_recorded") :
                       e.receipt \notin RecordedReceipts(log) =>
                         \A m \in Parties(e) \cap leaving : <<m, e.receipt>> \in asked
<1>1. Init => AskInv
  BY DEF Init, AskInv, Recording, At, Idle
<1>2. ASSUME IInv, AskInv, [Next /\ Observe]_<<vars, overlaps>>
      PROVE  AskInv'
  <2>1. CASE UNCHANGED <<vars, overlaps>>
    BY <1>2, <2>1 DEF AskInv, Recording, At, vars, rows, overlaps
  <2>2. CASE Next /\ Observe
    <3>1. SUFFICES ASSUME NEW x \in Recording', x[1] \in leaving'
                   PROVE  x \in asked'
      BY DEF AskInv
    <3>2. asked' = {y \in Recording' : y \in asked \/ (y \in Recording /\ Asks(y[1]))}
      BY <2>2 DEF Observe
    <3>3. x \in Recording
      BY <1>2, <2>2, <3>1, RecordingBegins DEF IInv
    <3>4. QED
      BY <1>2, <3>1, <3>2, <3>3 DEF AskInv, Asks
  <2>3. QED
    BY <1>2, <2>1, <2>2
<1>3. ASSUME IInv, AskInv, [Next]_vars
      PROVE  [Spared]_log
  <2>1. log \in Seq(Event)
    BY <1>3 DEF IInv, TypeOK
  <2>2. CASE log' = log
    BY <2>2
  <2>3. ASSUME NEW p \in Proc, NEW n, NEW ev, InsertedBehind(log', log, n, ev), Stored(ev, p)
        PROVE  Spared
    <3>1. SUFFICES ASSUME NEW e \in EventsOf(log', "receipt_recorded"),
                          e.receipt \notin RecordedReceipts(log),
                          NEW m \in Parties(e) \cap leaving
                   PROVE  <<m, e.receipt>> \in asked
      OBVIOUS
    <3>2. e = ev /\ ev.type = "receipt_recorded"
      <4>1. e \notin EventsOf(log, "receipt_recorded")
        BY <3>1 DEF RecordedReceipts
      <4>2. QED
        BY <2>1, <2>3, <4>1, InsertionAddsToItsType
    <3>3. job[p].step = "append" /\ e = job[p].event
      BY <2>3, <3>2 DEF Stored, AppendReceipt, At
    <3>4. e \in ReceiptEvent /\ m \in Member
      BY <1>3, <3>1, <3>3, JobFields DEF IInv, TypeOK
    <3>5. PICK x : x = <<m, e.receipt>>
      OBVIOUS
    <3>6. x \in Member \X Receipt /\ x[1] = m /\ x[2] = e.receipt
      BY <3>4, <3>5 DEF ReceiptEvent
    <3>7. x \in Recording
      BY <3>1, <3>3, <3>6 DEF Recording, At
    <3>8. QED
      BY <1>3, <3>1, <3>5, <3>6, <3>7 DEF AskInv
  <2>4. ASSUME NEW p \in Proc, Restate(p)
        PROVE  Spared
    <3>1. PICK i : RewrittenAt(log', log, i) /\ log'[i].receipt = log[i].receipt
      BY <1>3, <2>4, RestateWrites
    <3>2. RecordedReceipts(log') = RecordedReceipts(log)
      BY <2>1, <3>1, RewritingKeepsKeys
    <3>3. QED
      BY <3>2 DEF RecordedReceipts
  <2> HIDE DEF Spared
  <2>5. QED
    BY <1>3, <2>2, <2>3, <2>4, StepsStore
<1> HIDE DEF Spared
<1>4. Init /\ Unobserved /\ [][Next /\ Observe]_<<vars, overlaps>> => [][Spared]_log
  BY ObservedBehaviours, ObservedSteps, IInvHolds, <1>1, <1>2, <1>3, PTL DEF OverlapSpec
<1>5. QED
  BY <1>4 DEF OverlapSpec, LeaversAccrueNothing, Spared

-----------------------------------------------------------------------------
(* Nobody departs with a balance.                                          *)

\* Whoever waits in a queue is no owner, and the last row is counted away only in a
\* household that is dissolved.
Rooted(j) ==
  /\ j.step \in {"depart", "count", "left", "delete", "teardown"} =>
       \A m \in j.queue : role[m] # "owner"
  /\ j.step \in {"left", "delete"} => role[j.member] # "owner"
  /\ j.step = "teardown" => household = "dissolved"

\* A household that lives has an owner, who leaves with it.
RootedInv ==
  /\ household = "none" => Members = {} /\ log = <<>> /\ \A p \in Proc : job[p] = Idle
  /\ household = "live" => \E m \in Member : role[m] = "owner"
  /\ \A p \in Proc : Rooted(job[p])

\* A step that makes nobody an owner.
LEMMA RootsStay ==
  ASSUME TypeOK, RootedInv, NEW p \in Proc, NEW j, Goto(p, j), Rooted(j)', household # "none",
         household' \in {household, "dissolved"},
         household' = "live" => \E m \in Member : role'[m] = "owner",
         \A m \in Member : role'[m] = "owner" => role[m] = "owner"
  PROVE  RootedInv'
<1>1. job'[p] = j /\ \A q \in Proc \ {p} : job'[q] = job[q]
  BY DEF Goto, TypeOK
<1>2. ASSUME NEW q \in Proc
      PROVE  Rooted(job[q])'
  <2>1. CASE q = p
    BY <1>1, <2>1 DEF Rooted
  <2>2. CASE q # p
    <3>1. job'[q] = job[q] /\ Rooted(job[q]) /\ job[q] \in Job
      BY <1>1, <2>2 DEF RootedInv, TypeOK
    <3>2. /\ job[q].step \in {"depart", "count", "left", "delete", "teardown"} => job[q].queue \subseteq Member
          /\ job[q].step \in {"left", "delete"} => job[q].member \in Member
      BY <3>1, JobFields
    <3>3. household = "dissolved" => household' = "dissolved"
      OBVIOUS
    <3>4. QED
      BY <3>1, <3>2, <3>3 DEF Rooted
  <2>3. QED
    BY <2>1, <2>2
<1>3. QED
  BY <1>2 DEF RootedInv

\* A handler's jobs that leave rows and household as they are.
LEMMA RootsStayQuiet ==
  ASSUME TypeOK, RootedInv, NEW p \in Proc, NEW j, Goto(p, j), Rooted(j), household # "none",
         UNCHANGED <<household, role>>
  PROVE  RootedInv'
<1>1. Rooted(j)'
  BY DEF Rooted
<1>2. QED
  BY <1>1, RootsStay DEF RootedInv

\* The jobs that concern no departure.
Undeparting == {"idle", "joined", "propose", "confirm", "settle", "mark", "convert", "record", "append",
                "rescope", "adjust", "restate", "sweep"}

\* They let nobody go.
LEMMA UndepartingJobs ==
  ASSUME NEW j, j.step \in Undeparting
  PROVE  Rooted(j) /\ Rooted(j)' /\ Released(j) = {}
  BY DEF Undeparting, Rooted, Released

\* Who waits in a queue is let go.
LEMMA QueuesAreReleased ==
  ASSUME NEW Q
  PROVE  /\ Released(Continue(Q)) = Q
         /\ (\A m \in Q : role[m] # "owner") => Rooted(Continue(Q))
         /\ (\A m \in Q : role'[m] # "owner") => Rooted(Continue(Q))'
  BY DEF Released, Rooted, Continue, Idle

\* The steps of a departure, and every other step of a handler.
Departing(p) ==
  \/ DepartRead(p) \/ AppendLeft(p) \/ DeleteRow(p) \/ CountRows(p)
  \/ DissolveRead(p) \/ AppendFarewell(p) \/ Dissolve(p)

LEMMA OtherStepsLead ==
  ASSUME NEW p \in Proc, Progress(p) \/ Fail(p), ~Departing(p), ~Settle(p)
  PROVE  UNCHANGED <<household, role>> /\ \E j : Goto(p, j) /\ j.step \in Undeparting
<1> USE DEF Undeparting, rows
<1>1. CASE \/ AppendJoined(p) \/ (\E sid \in Settlement : AppendProposal(p, sid))
           \/ AppendConfirm(p) \/ MarkLeaving(p) \/ AppendReceipt(p)
           \/ Restate(p) \/ AppendAdjustment(p) \/ Fail(p)
  BY <1>1 DEF AppendJoined, AppendProposal, AppendConfirm, MarkLeaving, AppendReceipt, Restate,
     AppendAdjustment, Fail, Idle
<1>2. CASE ConvertTrip(p)
  BY <1>2 DEF ConvertTrip, Idle
<1>3. CASE \E amount \in Amount : RecordRead(p, amount)
  BY <1>3 DEF RecordRead, Idle
<1>4. CASE RestateCheck(p)
  BY <1>4 DEF RestateCheck
<1>5. QED
  BY <1>1, <1>2, <1>3, <1>4 DEF Progress, Departing

\* The sweep concerns no departure.
LEMMA SweepsLead ==
  ASSUME SweepRead \/ SweepConfirm
  PROVE  \E j : Goto(Sweeper, j) /\ j.step \in Undeparting
<1>1. CASE SweepRead
  BY <1>1 DEF SweepRead, Undeparting
<1>2. CASE SweepConfirm
  BY <1>2 DEF SweepConfirm, Undeparting
<1>3. QED
  BY <1>1, <1>2

\* Requests.
LEMMA RequestsKeepRoots ==
  ASSUME TypeOK, RootedInv, NEW p \in Client, NewRequest(p)
  PROVE  RootedInv'
<1> p \in Proc
  BY DEF Proc
<1>1. ASSUME NEW m \in Member, Create(p, m)
      PROVE  RootedInv'
  <2>1. /\ household = "none" /\ household' = "live" /\ role' = [role EXCEPT ![m] = "owner"]
        /\ Goto(p, [step |-> "joined", member |-> m])
    BY <1>1 DEF Create, InsertRow
  <2>2. role'[m] = "owner"
    BY <2>1 DEF TypeOK
  <2>3. ASSUME NEW q \in Proc
        PROVE  job'[q].step \in Undeparting
    BY <2>1, <2>3 DEF RootedInv, Idle, Goto, TypeOK, Undeparting
  <2>4. \A q \in Proc : Rooted(job[q])'
    BY <2>3 DEF Rooted, Undeparting
  <2>5. QED
    BY <2>1, <2>2, <2>4 DEF RootedInv
<1>2. household = "none" => Members = {} /\ Proposals(log) = {} /\ RecordedReceipts(log) = {}
  BY DEF RootedInv, Proposals, RecordedReceipts, EventsOf, ToSet
<1>3. ASSUME NEW m \in Member, Join(p, m)
      PROVE  RootedInv'
  <2>1. PICK j : j = [step |-> "joined", member |-> m]
    OBVIOUS
  <2>2. /\ household # "none" /\ household' = household /\ role' = [role EXCEPT ![m] = "member"]
        /\ role[m] = "none" /\ Goto(p, j)
    BY <1>3, <2>1 DEF Join, InsertRow
  <2>3. Rooted(j)'
    BY <2>1, UndepartingJobs DEF Undeparting
  <2>4. /\ \A n \in Member : role'[n] = "owner" => role[n] = "owner"
        /\ \A n \in Member : role[n] = "owner" => role'[n] = "owner"
    BY <2>2 DEF TypeOK
  <2>5. QED
    BY <2>2, <2>3, <2>4, RootsStay DEF RootedInv
<1>4. ASSUME NEW actor \in Member, NEW target \in Member, RequestDeparture(p, actor, target)
      PROVE  RootedInv'
  <2>1. household # "none" /\ UNCHANGED <<household, role>>
    BY <1>2, <1>4 DEF RequestDeparture, rows
  <2>2. PICK j : /\ Goto(p, j)
                 /\ \/ j = [step |-> "mark", member |-> target]
                    \/ j = [step |-> "dissolve"]
                    \/ j = Continue({target}) /\ role[target] # "owner"
    BY <1>4 DEF RequestDeparture
  <2>3. Rooted(j)
    BY <2>2, QueuesAreReleased DEF Rooted
  <2>4. QED
    BY <2>1, <2>2, <2>3, RootsStayQuiet
<1>5. ASSUME NEW j, Goto(p, j), j.step \in Undeparting, household # "none", UNCHANGED <<household, role>>
      PROVE  RootedInv'
  BY <1>5, UndepartingJobs, RootsStayQuiet
<1> USE DEF Undeparting
<1>6. ASSUME NEW by \in Member, NEW from \in Member, NEW to \in Member, NEW amount \in Amount,
             Propose(p, by, from, to, amount)
      PROVE  RootedInv'
  <2>1. household # "none" /\ UNCHANGED <<household, role>>
    BY <1>2, <1>6 DEF Propose, rows
  <2>2. \E j : Goto(p, j) /\ j.step \in Undeparting
    BY <1>6 DEF Propose
  <2>3. QED
    BY <1>5, <2>1, <2>2
<1>7. ASSUME NEW actor \in Member, NEW proposal \in Proposals(log), Confirm(p, actor, proposal)
      PROVE  RootedInv'
  <2>1. household # "none" /\ UNCHANGED <<household, role>>
    BY <1>2, <1>7 DEF Confirm, rows
  <2>2. \E j : Goto(p, j) /\ j.step \in Undeparting
    BY <1>7 DEF Confirm
  <2>3. QED
    BY <1>5, <2>1, <2>2
<1>8. ASSUME NEW actor \in Member, NEW r \in Receipt, ConvertRequest(p, actor, r)
      PROVE  RootedInv'
  <2>1. household # "none" /\ UNCHANGED <<household, role>>
    BY <1>2, <1>8 DEF ConvertRequest, Eligible, rows
  <2>2. \E j : Goto(p, j) /\ j.step \in Undeparting
    BY <1>8 DEF ConvertRequest
  <2>3. QED
    BY <1>5, <2>1, <2>2
<1>9. ASSUME NEW r \in Receipt, NEW amount \in Amount, Rescope(p, r, amount)
      PROVE  RootedInv'
  <2>1. household # "none" /\ UNCHANGED <<household, role>>
    BY <1>2, <1>9 DEF Rescope, rows
  <2>2. \E j : Goto(p, j) /\ j.step \in Undeparting
    BY <1>9 DEF Rescope
  <2>3. QED
    BY <1>5, <2>1, <2>2
<1>10. QED
  BY <1>1, <1>3, <1>4, <1>6, <1>7, <1>8, <1>9 DEF NewRequest

\* The steps of a departure: none of them lets go of anybody it had not, and they
\* keep the owner.
LEMMA DeparturesKeepRoots ==
  ASSUME TypeOK, RootedInv, household # "none", NEW p \in Proc, Departing(p)
  PROVE  /\ RootedInv'
         /\ \E j : Goto(p, j) /\ Released(j) \subseteq Released(job[p])
<1> USE DEF At, rows
<1>1. job[p] \in Job /\ Rooted(job[p])
  BY DEF TypeOK, RootedInv
<1>2. CASE DepartRead(p)
  <2>1. PICK m, queue :
          /\ m \in job[p].queue /\ queue = job[p].queue \ {m}
          /\ Goto(p, IF m \in Members THEN [step |-> "left", member |-> m, queue |-> queue]
                     ELSE Continue(queue))
    BY <1>2 DEF DepartRead
  <2>2. /\ \A n \in queue : role[n] # "owner"
        /\ role[m] # "owner" /\ queue \cup {m} \subseteq Released(job[p])
    BY <1>1, <1>2, <2>1 DEF DepartRead, Rooted, Released
  <2>3. PICK j : /\ Goto(p, j)
                 /\ \/ j = [step |-> "left", member |-> m, queue |-> queue]
                    \/ j = Continue(queue)
    BY <2>1
  <2>4. Rooted(j) /\ Released(j) \subseteq Released(job[p])
    <3>1. CASE j = [step |-> "left", member |-> m, queue |-> queue]
      BY <2>2, <3>1 DEF Rooted, Released
    <3>2. CASE j = Continue(queue)
      BY <2>2, <3>2, QueuesAreReleased
    <3>3. QED
      BY <2>3, <3>1, <3>2
  <2>5. UNCHANGED <<household, role>>
    BY <1>2 DEF DepartRead
  <2>6. QED
    BY <2>3, <2>4, <2>5, RootsStayQuiet
<1>3. CASE AppendLeft(p)
  <2>1. PICK j : j = [job[p] EXCEPT !.step = "delete"]
    OBVIOUS
  <2>2. /\ j.step = "delete" /\ j.member = job[p].member /\ j.queue = job[p].queue
        /\ job[p].step = "left" /\ Goto(p, j) /\ UNCHANGED <<household, role>>
    BY <1>1, <1>3, <2>1 DEF AppendLeft, Job
  <2>3. Rooted(j) /\ Released(j) = Released(job[p])
    BY <1>1, <2>2 DEF Rooted, Released
  <2>4. QED
    BY <2>2, <2>3, RootsStayQuiet
<1>4. CASE DeleteRow(p)
  <2>1. PICK m, queue : m = job[p].member /\ queue = job[p].queue
    OBVIOUS
  <2>2. /\ m \in Member /\ job[p].step = "delete" /\ household' = household
        /\ role' = [role EXCEPT ![m] = "none"]
    BY <1>1, <1>4, <2>1, JobFields DEF DeleteRow
  <2>3. /\ role[m] # "owner" /\ \A n \in queue : role[n] # "owner"
        /\ queue \subseteq Released(job[p]) /\ queue \subseteq Member
    BY <1>1, <2>1, <2>2, JobFields DEF Rooted, Released
  <2>4. /\ \A n \in Member : role'[n] = "owner" => role[n] = "owner"
        /\ \A n \in Member : role[n] = "owner" => role'[n] = "owner"
    BY <2>2, <2>3 DEF TypeOK
  <2>5. \A n \in queue : role'[n] # "owner"
    BY <2>3, <2>4
  <2>6. PICK j : /\ Goto(p, j)
                 /\ \/ j = [step |-> "count", queue |-> queue]
                    \/ j = Continue(queue)
    BY <1>4, <2>1 DEF DeleteRow
  <2>7. Rooted(j)' /\ Released(j) = queue
    <3>1. CASE j = [step |-> "count", queue |-> queue]
      BY <2>5, <3>1 DEF Rooted, Released
    <3>2. CASE j = Continue(queue)
      BY <2>5, <3>2, QueuesAreReleased
    <3>3. QED
      BY <2>6, <3>1, <3>2
  <2>8. RootedInv'
    BY <2>2, <2>4, <2>6, <2>7, RootsStay DEF RootedInv
  <2>9. QED
    BY <2>3, <2>6, <2>7, <2>8
<1>5. CASE CountRows(p)
  <2>1. PICK queue : queue = job[p].queue
    OBVIOUS
  <2>2. (\A n \in queue : role[n] # "owner") /\ queue = Released(job[p])
    BY <1>1, <1>5, <2>1 DEF CountRows, Rooted, Released
  <2>3. PICK j : /\ Goto(p, j)
                 /\ \/ j = [step |-> "teardown", told |-> {}, queue |-> queue] /\ Members = {}
                    \/ j = Continue(queue)
    BY <1>5, <2>1 DEF CountRows
  <2>4. Members = {} => household = "dissolved"
    BY DEF Members, RootedInv, TypeOK
  <2>5. Rooted(j) /\ Released(j) = queue
    <3>1. CASE j = [step |-> "teardown", told |-> {}, queue |-> queue] /\ Members = {}
      BY <2>2, <2>4, <3>1 DEF Rooted, Released
    <3>2. CASE j = Continue(queue)
      BY <2>2, <3>2, QueuesAreReleased
    <3>3. QED
      BY <2>3, <3>1, <3>2
  <2>6. UNCHANGED <<household, role>>
    BY <1>5 DEF CountRows
  <2>7. QED
    BY <2>2, <2>3, <2>5, <2>6, RootsStayQuiet
<1>6. CASE DissolveRead(p) \/ AppendFarewell(p)
  <2>1. PICK j : Goto(p, j) /\ j.step = "farewell"
    <3>1. CASE DissolveRead(p)
      BY <3>1 DEF DissolveRead
    <3>2. CASE AppendFarewell(p)
      <4>1. PICK m : Goto(p, [job[p] EXCEPT !.remaining = @ \ {m}])
        BY <3>2 DEF AppendFarewell
      <4>2. [job[p] EXCEPT !.remaining = @ \ {m}].step = "farewell"
        BY <1>1, <3>2 DEF AppendFarewell, Job
      <4>3. QED
        BY <4>1, <4>2
    <3>3. QED
      BY <1>6, <3>1, <3>2
  <2>2. Rooted(j) /\ Released(j) = Member /\ Released(job[p]) = Member
    BY <1>6, <2>1 DEF Rooted, Released, DissolveRead, AppendFarewell
  <2>3. UNCHANGED <<household, role>>
    BY <1>6 DEF DissolveRead, AppendFarewell
  <2>4. QED
    BY <2>1, <2>2, <2>3, RootsStayQuiet
<1>7. CASE Dissolve(p)
  <2>1. household' = "dissolved" /\ role' = [m \in Member |-> "none"]
    BY <1>7 DEF Dissolve
  <2>2. PICK j : /\ Goto(p, j)
                 /\ \/ j = Continue(job[p].queue) /\ job[p].step = "teardown"
                    \/ j = Idle
    BY <1>7 DEF Dissolve
  <2>3. Rooted(j)' /\ Released(j) \subseteq Released(job[p])
    <3>1. CASE j = Idle
      BY <3>1, UndepartingJobs DEF Idle, Undeparting
    <3>2. CASE j = Continue(job[p].queue) /\ job[p].step = "teardown"
      <4>1. job[p].queue \subseteq Member /\ Released(job[p]) = job[p].queue
        BY <1>1, <3>2, JobFields DEF Released
      <4>2. \A n \in job[p].queue : role'[n] # "owner"
        BY <2>1, <4>1
      <4>3. QED
        BY <3>2, <4>1, <4>2, QueuesAreReleased
    <3>3. QED
      BY <2>2, <3>1, <3>2
  <2>4. RootedInv'
    BY <2>1, <2>2, <2>3, RootsStay
  <2>5. QED
    BY <2>2, <2>3, <2>4
<1>8. QED
  BY <1>2, <1>3, <1>4, <1>5, <1>6, <1>7 DEF Departing

\* After a confirmation whoever is square may go.
LEMMA SettlingReleases ==
  ASSUME TypeOK, RootedInv, household # "none", NEW p \in Proc, Settle(p)
  PROVE  /\ RootedInv'
         /\ \E j : Goto(p, j) /\ \A m \in Released(j) : Balance(log)[m] = 0
<1> DEFINE owners == {m \in leaving : role[m] = "owner"}
           cleared == {m \in leaving : Balance(log)[m] = 0}
<1>1. PICK j : /\ Goto(p, j)
               /\ \/ j = [step |-> "dissolve"] /\ Settled(log)
                  \/ j = Continue(cleared \ owners)
  BY DEF Settle
<1>2. UNCHANGED <<household, role>>
  BY DEF Settle, rows
<1>3. Rooted(j) /\ \A m \in Released(j) : Balance(log)[m] = 0
  <2>1. CASE j = [step |-> "dissolve"] /\ Settled(log)
    BY <2>1 DEF Rooted, Released, Settled
  <2>2. CASE j = Continue(cleared \ owners)
    BY <2>2, QueuesAreReleased
  <2>3. QED
    BY <1>1, <2>1, <2>2
<1>4. QED
  BY <1>1, <1>2, <1>3, RootsStayQuiet

\* Every step.
LEMMA StepsKeepRoots ==
  ASSUME TypeOK, RootedInv, [Next]_vars
  PROVE  RootedInv'
<1>1. ASSUME NEW p \in Client, NewRequest(p)
      PROVE  RootedInv'
  BY <1>1, RequestsKeepRoots
<1>2. ASSUME NEW p \in Proc, Progress(p) \/ Fail(p)
      PROVE  RootedInv'
  <2>1. household # "none"
    BY <1>2, ProgressMoves DEF RootedInv
  <2>2. CASE Departing(p) \/ Settle(p)
    BY <2>1, <2>2, DeparturesKeepRoots, SettlingReleases
  <2>3. CASE ~Departing(p) /\ ~Settle(p)
    BY <1>2, <2>1, <2>3, OtherStepsLead, UndepartingJobs, RootsStayQuiet
  <2>4. QED
    BY <2>2, <2>3
<1>3. CASE SweepRead \/ SweepConfirm
  <2>1. PICK j : Goto(Sweeper, j) /\ j.step \in Undeparting
    BY <1>3, SweepsLead
  <2>2. UNCHANGED <<household, role>> /\ Sweeper \in Proc
    BY <1>3 DEF SweepRead, SweepConfirm, rows, Proc
  <2>3. household # "none"
    <3>1. SUFFICES ASSUME household = "none" PROVE FALSE
      OBVIOUS
    <3>2. log = <<>> /\ job[Sweeper] = Idle
      BY <2>2, <3>1 DEF RootedInv
    <3>3. ~SweepConfirm
      BY <3>2 DEF SweepConfirm, At, Idle
    <3>4. ~SweepRead
      BY <3>2 DEF SweepRead, PendingSettlements, Proposals, EventsOf, ToSet
    <3>5. QED
      BY <1>3, <3>3, <3>4
  <2>4. QED
    BY <2>1, <2>2, <2>3, UndepartingJobs, RootsStayQuiet
<1>4. CASE UNCHANGED <<household, role, log, job>>
  BY <1>4 DEF RootedInv, Rooted, Members
<1>5. QED
  BY <1>1, <1>2, <1>3, <1>4 DEF Next, Lapse, Expire, vars, rows

\* Whoever is let go by a step is square in the log that the step leaves as it is.
LEMMA ReleasedSquare ==
  ASSUME TypeOK, RootedInv, [Next]_vars, NEW m \in LetGo', m \notin LetGo
  PROVE  log' = log /\ Balance(log)[m] = 0
<1>1. PICK p \in Proc : m \in Released(job'[p]) /\ m \notin Released(job[p])
  BY DEF LetGo
<1>2. ASSUME NEW q \in Proc, NEW j, Goto(q, j), Released(j) \subseteq Released(job[q])
      PROVE  FALSE
  <2>1. p = q /\ job'[p] = j
    BY <1>1, <1>2 DEF Goto, TypeOK
  <2>2. QED
    BY <1>1, <1>2, <2>1
<1>3. ASSUME NEW q \in Proc, NEW j, Goto(q, j), j.step \in Undeparting
      PROVE  FALSE
  BY <1>2, <1>3, UndepartingJobs
<1>4. ASSUME NEW q \in Proc, NEW j, Goto(q, j), log' = log, \A n \in Released(j) : Balance(log)[n] = 0
      PROVE  log' = log /\ Balance(log)[m] = 0
  <2>1. p = q /\ job'[p] = j
    BY <1>1, <1>4 DEF Goto, TypeOK
  <2>2. QED
    BY <1>1, <1>4, <2>1
<1>5. ASSUME NEW q \in Proc, Progress(q) \/ Fail(q)
      PROVE  log' = log /\ Balance(log)[m] = 0
  <2>1. household # "none"
    BY <1>5, ProgressMoves DEF RootedInv
  <2>2. ~Departing(q)
    BY <1>2, <2>1, DeparturesKeepRoots
  <2>3. Settle(q)
    BY <1>3, <1>5, <2>2, OtherStepsLead
  <2>4. log' = log
    BY <2>3 DEF Settle
  <2>5. QED
    BY <1>4, <2>1, <2>3, <2>4, SettlingReleases
<1>6. ASSUME NEW q \in Client, NewRequest(q)
      PROVE  log' = log /\ Balance(log)[m] = 0
  <2>1. q \in Proc
    BY DEF Proc
  <2>2. CASE \E n \in Member : Create(q, n) \/ Join(q, n)
    <3>1. PICK n : Goto(q, [step |-> "joined", member |-> n])
      BY <2>2 DEF Create, Join
    <3>2. QED
      BY <1>3, <2>1, <3>1 DEF Undeparting
  <2>3. ASSUME NEW actor \in Member, NEW target \in Member, RequestDeparture(q, actor, target)
        PROVE  log' = log /\ Balance(log)[m] = 0
    <3>1. log' = log
      BY <2>3 DEF RequestDeparture
    <3>2. PICK j : /\ Goto(q, j)
                   /\ \/ j = [step |-> "mark", member |-> target]
                      \/ j = [step |-> "dissolve"] /\ Settled(log)
                      \/ j = Continue({target}) /\ Balance(log)[target] = 0
      <4>1. role[target] = "owner" /\ ~Blocked(target) => Settled(log)
        BY DEF Blocked
      <4>2. role[target] # "owner" /\ ~Blocked(target) => Balance(log)[target] = 0
        BY DEF Blocked
      <4>3. PICK j : /\ Goto(q, j)
                     /\ \/ j = [step |-> "mark", member |-> target]
                        \/ j = [step |-> "dissolve"] /\ role[target] = "owner" /\ ~Blocked(target)
                        \/ j = Continue({target}) /\ role[target] # "owner" /\ ~Blocked(target)
        BY <2>3 DEF RequestDeparture
      <4>4. QED
        BY <4>1, <4>2, <4>3
    <3>3. \A n \in Released(j) : Balance(log)[n] = 0
      <4>1. CASE j = [step |-> "mark", member |-> target]
        BY <4>1 DEF Released
      <4>2. CASE j = [step |-> "dissolve"] /\ Settled(log)
        BY <4>2 DEF Released, Settled
      <4>3. CASE j = Continue({target}) /\ Balance(log)[target] = 0
        BY <4>3, QueuesAreReleased
      <4>4. QED
        BY <3>2, <4>1, <4>2, <4>3
    <3>4. QED
      BY <1>4, <2>1, <3>1, <3>2, <3>3
  <2>4. ASSUME ~\E n \in Member : Create(q, n) \/ Join(q, n),
               ~\E actor, target \in Member : RequestDeparture(q, actor, target)
        PROVE  FALSE
    <3>1. ASSUME NEW by \in Member, NEW from \in Member, NEW to \in Member, NEW amount \in Amount,
                 Propose(q, by, from, to, amount)
          PROVE  FALSE
      BY <1>3, <2>1, <3>1 DEF Propose, Undeparting
    <3>2. ASSUME NEW actor \in Member, NEW proposal \in Proposals(log), Confirm(q, actor, proposal)
          PROVE  FALSE
      BY <1>3, <2>1, <3>2 DEF Confirm, Undeparting
    <3>3. ASSUME NEW actor \in Member, NEW r \in Receipt, ConvertRequest(q, actor, r)
          PROVE  FALSE
      BY <1>3, <2>1, <3>3 DEF ConvertRequest, Undeparting
    <3>4. ASSUME NEW r \in Receipt, NEW amount \in Amount, Rescope(q, r, amount)
          PROVE  FALSE
      BY <1>3, <2>1, <3>4 DEF Rescope, Undeparting
    <3>5. QED
      BY <1>6, <2>4, <3>1, <3>2, <3>3, <3>4 DEF NewRequest
  <2>5. QED
    BY <2>2, <2>3, <2>4
<1>7. ~SweepRead /\ ~SweepConfirm
  BY <1>3, SweepsLead DEF Proc
<1>8. job' # job
  BY <1>1
<1>9. QED
  BY <1>5, <1>6, <1>7, <1>8 DEF Next, Lapse, Expire, vars

\* Whoever is let go is square, unless the balance moved since, and the last row was
\* counted away from a household that only new members have rows in.
ClearedInv ==
  /\ \A m \in LetGo : m \in contested \/ Balance(log)[m] = 0
  /\ (\E p \in Proc : At(p, "teardown")) => Members \subseteq crossed

\* A row appears for who creates or joins.
LEMMA RowsAreInserted ==
  ASSUME TypeOK, Next, NEW m \in Members', m \notin Members
  PROVE  \E q \in Client : Create(q, m) \/ Join(q, m)
<1>1. m \in Member /\ role'[m] # "none" /\ role[m] = "none"
  BY DEF Members
<1>2. ASSUME NEW q \in Client, NewRequest(q)
      PROVE  Create(q, m) \/ Join(q, m)
  <2>1. PICK n \in Member : Create(q, n) \/ Join(q, n)
    BY <1>1, <1>2, RequestsOnlyRead
  <2>2. \E r : role' = [role EXCEPT ![n] = r]
    BY <2>1 DEF Create, Join, InsertRow
  <2>3. n = m
    BY <1>1, <2>2 DEF TypeOK
  <2>4. QED
    BY <2>1, <2>3
<1>3. ASSUME NEW q \in Proc, Progress(q) \/ Fail(q)
      PROVE  FALSE
  <2>1. CASE Departing(q) \/ Settle(q)
    BY <1>1, <2>1 DEF Departing, DepartRead, AppendLeft, DeleteRow, CountRows, DissolveRead,
       AppendFarewell, Dissolve, Settle, rows, TypeOK
  <2>2. CASE ~Departing(q) /\ ~Settle(q)
    BY <1>1, <1>3, <2>2, OtherStepsLead
  <2>3. QED
    BY <2>1, <2>2
<1>4. QED
  BY <1>1, <1>2, <1>3 DEF Next, SweepRead, SweepConfirm, Lapse, Expire, rows

\* A handler that finds no row is about to tear the household down.
LEMMA TeardownsBegin ==
  ASSUME TypeOK, Next, NEW p \in Proc, job'[p].step = "teardown", job[p].step # "teardown"
  PROVE  Members' = {}
<1>1. ASSUME NEW q \in Proc, NEW j, Goto(q, j), j.step # "teardown"
      PROVE  FALSE
  BY <1>1 DEF Goto, TypeOK
<1>2. ASSUME NEW q \in Client, NewRequest(q)
      PROVE  FALSE
  <2>1. q \in Proc
    BY DEF Proc
  <2>2. CASE \E n \in Member : Create(q, n) \/ Join(q, n)
    <3>1. PICK n : Goto(q, [step |-> "joined", member |-> n])
      BY <2>2 DEF Create, Join
    <3>2. QED
      BY <1>1, <2>1, <3>1
  <2>3. CASE ~\E n \in Member : Create(q, n) \/ Join(q, n)
    <3>1. PICK j : Goto(q, j) /\ j.step \in Openings \cup {"rescope"}
      BY <1>2, <2>3, RequestsOnlyRead
    <3>2. QED
      BY <1>1, <2>1, <3>1 DEF Openings
  <2>4. QED
    BY <2>2, <2>3
<1>3. \A queue : Continue(queue).step # "teardown"
  BY DEF Continue, Idle
<1>4. ASSUME NEW q \in Proc, Progress(q) \/ Fail(q), ~CountRows(q)
      PROVE  FALSE
  <2>1. job[q] \in Job
    BY DEF TypeOK
  <2>2. CASE ~Departing(q) /\ ~Settle(q)
    BY <1>1, <1>4, <2>2, OtherStepsLead DEF Undeparting
  <2>3. CASE Settle(q)
    <3>1. \E j : Goto(q, j) /\ j.step # "teardown"
      BY <1>3, <2>3 DEF Settle
    <3>2. QED
      BY <1>1, <3>1
  <2>4. CASE DepartRead(q)
    <3>1. PICK j : Goto(q, j) /\ (j.step = "left" \/ \E queue : j = Continue(queue))
      BY <2>4 DEF DepartRead
    <3>2. QED
      BY <1>1, <1>3, <3>1
  <2>5. CASE AppendLeft(q)
    <3>1. [job[q] EXCEPT !.step = "delete"].step = "delete"
      BY <2>1 DEF Job
    <3>2. QED
      BY <1>1, <2>5, <3>1 DEF AppendLeft
  <2>6. CASE DeleteRow(q)
    <3>1. \E j : Goto(q, j) /\ j.step # "teardown"
      BY <1>3, <2>6 DEF DeleteRow
    <3>2. QED
      BY <1>1, <3>1
  <2>7. CASE DissolveRead(q)
    BY <1>1, <2>7 DEF DissolveRead
  <2>8. CASE AppendFarewell(q)
    <3>1. PICK m : Goto(q, [job[q] EXCEPT !.remaining = @ \ {m}])
      BY <2>8 DEF AppendFarewell
    <3>2. [job[q] EXCEPT !.remaining = @ \ {m}].step = "farewell"
      BY <2>1, <2>8 DEF AppendFarewell, At, Job
    <3>3. QED
      BY <1>1, <3>1, <3>2
  <2>9. CASE Dissolve(q)
    <3>1. \E j : Goto(q, j) /\ j.step # "teardown"
      BY <1>3, <2>9 DEF Dissolve, Idle
    <3>2. QED
      BY <1>1, <3>1
  <2>10. QED
    BY <1>4, <2>2, <2>3, <2>4, <2>5, <2>6, <2>7, <2>8, <2>9 DEF Departing
<1>5. ~SweepRead /\ ~SweepConfirm
  BY <1>1, SweepsLead DEF Undeparting, Proc
<1>6. job' # job
  OBVIOUS
<1>7. PICK q \in Proc : CountRows(q)
  BY <1>2, <1>4, <1>5, <1>6 DEF Next, Lapse, Expire
<1>8. Members = {}
  <2>1. SUFFICES ASSUME Members # {} PROVE FALSE
    OBVIOUS
  <2>2. \E j : Goto(q, j) /\ j.step # "teardown"
    BY <1>3, <1>7, <2>1 DEF CountRows
  <2>3. QED
    BY <1>1, <2>2
<1>9. QED
  BY <1>7, <1>8 DEF CountRows, rows, Members

\* Nobody but a member who joins enters while the rows are being counted away.
LEMMA TeardownsCross ==
  ASSUME TypeOK, RootedInv, ClearedInv, Next, Observe, NEW p \in Proc, job'[p].step = "teardown"
  PROVE  Members' \subseteq crossed'
<1>1. crossed' = crossed \cup {m \in Member : Joining(m)' /\ Ending(m)'}
  BY DEF Observe
<1>2. CASE job[p].step = "teardown"
  <2>1. Members \subseteq crossed /\ job[p] # Idle
    BY <1>2 DEF ClearedInv, At, Idle
  <2>2. SUFFICES ASSUME NEW m \in Members', m \notin Members
                 PROVE  Joining(m)' /\ Ending(m)'
    BY <1>1, <2>1 DEF Members
  <2>3. Ending(m)'
    BY DEF Ending
  <2>4. \E q \in Client : Create(q, m) \/ Join(q, m)
    BY <2>2, RowsAreInserted
  <2>5. PICK q \in Client : Goto(q, [step |-> "joined", member |-> m])
    BY <2>4 DEF Create, Join
  <2>6. q \in Proc /\ job'[q] = [step |-> "joined", member |-> m]
    BY <2>5 DEF Goto, TypeOK, Proc
  <2>7. Joining(m)'
    BY <2>6 DEF Joining, At
  <2>8. QED
    BY <2>3, <2>7
<1>3. CASE job[p].step # "teardown"
  <2>1. Members' = {}
    BY <1>3, TeardownsBegin
  <2>2. QED
    BY <2>1
<1>4. QED
  BY <1>2, <1>3

\* Every step.
LEMMA StepsKeepCleared ==
  ASSUME TypeOK, RootedInv, ClearedInv, Next, Observe
  PROVE  ClearedInv'
<1>1. contested' = {m \in LetGo' : m \in contested \/ (m \in LetGo /\ Moves(m))}
  BY DEF Observe
<1>2. ASSUME NEW m \in LetGo', m \notin contested'
      PROVE  Balance(log')[m] = 0
  <2>1. m \notin contested /\ (m \in LetGo => ~Moves(m))
    BY <1>1, <1>2
  <2>2. CASE m \in LetGo
    BY <2>1, <2>2 DEF ClearedInv, Moves
  <2>3. CASE m \notin LetGo
    <3>1. log' = log /\ Balance(log)[m] = 0
      BY <2>3, ReleasedSquare
    <3>2. QED
      BY <3>1
  <2>4. QED
    BY <2>2, <2>3
<1>3. ASSUME NEW p \in Proc, job'[p].step = "teardown"
      PROVE  Members' \subseteq crossed'
  BY <1>3, TeardownsCross
<1>4. QED
  BY <1>2, <1>3 DEF ClearedInv, At, Balance

\* However the handlers overlap, a membership ends only at a balance of zero, and a
\* household only when everybody is square, but for a balance that moved after its
\* member was let go and for who joined behind the last member of a dissolved household.
THEOREM DeparturesAreGated == OverlapSpec => DepartureGate
<1> DEFINE Gated ==
      /\ \A m \in Members : role'[m] = "none" =>
           \/ Balance(log)[m] = 0 \/ m \in contested
           \/ household = "dissolved" /\ m \in crossed
      /\ household' = "dissolved" /\ household # "dissolved" =>
           \A m \in Member \ contested : Balance(log)[m] = 0
<1>1. Init /\ Unobserved => RootedInv /\ ClearedInv
  <2>1. SUFFICES ASSUME Init PROVE RootedInv /\ ClearedInv
    OBVIOUS
  <2>2. /\ Members = {} /\ log = <<>> /\ household = "none"
        /\ \A p \in Proc : job[p] = Idle
    BY <2>1 DEF Init, Members
  <2>3. \A p \in Proc : Rooted(job[p]) /\ Released(job[p]) = {} /\ ~At(p, "teardown")
    BY <2>2, UndepartingJobs DEF At, Idle, Undeparting
  <2>4. QED
    BY <2>2, <2>3 DEF RootedInv, ClearedInv, LetGo
<1>2. ASSUME IInv, RootedInv, ClearedInv, [Next /\ Observe]_<<vars, overlaps>>
      PROVE  RootedInv' /\ ClearedInv'
  <2>1. CASE UNCHANGED <<vars, overlaps>>
    BY <1>2, <2>1 DEF RootedInv, Rooted, ClearedInv, LetGo, Released, At, Members, Balance, vars,
       rows, overlaps
  <2>2. CASE Next /\ Observe
    BY <1>2, <2>2, StepsKeepRoots, StepsKeepCleared DEF IInv
  <2>3. QED
    BY <1>2, <2>1, <2>2
<1>3. ASSUME IInv, RootedInv, ClearedInv, [Next]_vars
      PROVE  [Gated]_<<role, household>>
  <2>1. TypeOK
    BY <1>3 DEF IInv
  <2>2. ASSUME NEW p \in Proc, DeleteRow(p)
        PROVE  Gated
    <3>1. job[p] \in Job /\ job[p].step = "delete" /\ household' = household
      BY <2>1, <2>2 DEF TypeOK, DeleteRow, At, rows
    <3>2. PICK n : n = job[p].member /\ n \in Member
      BY <3>1, JobFields
    <3>3. \A m \in Members : role'[m] = "none" => m = n
      BY <2>1, <2>2, <3>2 DEF DeleteRow, Members, TypeOK
    <3>4. n \in LetGo
      BY <3>1, <3>2 DEF LetGo, Released
    <3>5. QED
      BY <1>3, <3>1, <3>3, <3>4 DEF ClearedInv
  <2>3. ASSUME NEW p \in Proc, Dissolve(p)
        PROVE  Gated
    <3>1. CASE job[p].step = "teardown"
      <4>1. household = "dissolved" /\ Members \subseteq crossed
        BY <1>3, <3>1 DEF RootedInv, Rooted, ClearedInv, At
      <4>2. QED
        BY <4>1
    <3>2. CASE job[p].step = "farewell"
      <4>1. Member \subseteq LetGo
        BY <3>2 DEF LetGo, Released
      <4>2. QED
        BY <1>3, <4>1 DEF ClearedInv, Members
    <3>3. QED
      BY <2>3, <3>1, <3>2 DEF Dissolve, At
  <2>4. ASSUME UNCHANGED <<role, household>>
        PROVE  [Gated]_<<role, household>>
    BY <2>4
  <2>5. ASSUME NEW p \in Client, NEW m \in Member, Create(p, m) \/ Join(p, m)
        PROVE  Gated
    BY <2>1, <2>5 DEF Create, Join, InsertRow, Members, TypeOK
  <2>6. ASSUME NEW p \in Client, NewRequest(p), ~\E m \in Member : Create(p, m) \/ Join(p, m)
        PROVE  UNCHANGED <<role, household>>
    BY <2>6, RequestsOnlyRead
  <2>7. ASSUME NEW p \in Proc, Progress(p) \/ Fail(p), ~DeleteRow(p), ~Dissolve(p)
        PROVE  UNCHANGED <<role, household>>
    <3>1. CASE Departing(p) \/ Settle(p)
      BY <2>7, <3>1 DEF Departing, DepartRead, AppendLeft, CountRows, DissolveRead, AppendFarewell,
         Settle, rows
    <3>2. CASE ~Departing(p) /\ ~Settle(p)
      BY <2>7, <3>2, OtherStepsLead
    <3>3. QED
      BY <3>1, <3>2
  <2> HIDE DEF Gated
  <2>8. QED
    BY <1>3, <2>2, <2>3, <2>4, <2>5, <2>6, <2>7 DEF Next, SweepRead, SweepConfirm, Lapse, Expire,
       vars, rows
<1> HIDE DEF Gated
<1>4. Init /\ Unobserved /\ [][Next /\ Observe]_<<vars, overlaps>> => [][Gated]_<<role, household>>
  BY ObservedBehaviours, ObservedSteps, IInvHolds, <1>1, <1>2, <1>3, PTL DEF OverlapSpec
<1>5. QED
  BY <1>4 DEF OverlapSpec, DepartureGate, Gated

-----------------------------------------------------------------------------
(* The balances.                                                           *)

\* A handler that has read the split of a receipt and may correct it.
Corrects(j) == j.step \in {"rescope", "adjust"}

\* A correction carries the split that was in force when its handler read it.
\* Nobody has changed it since, unless the receipt counts as outdated.
FreshInv ==
  \A p \in Proc : Corrects(job[p]) =>
    job[p].receipt \in outdated \/ job[p].before = EffectiveReceipt(log, job[p].receipt)

\* The record of a receipt, and a split among the parties of that record.
RecordOf(history, r) == history[RecordedAt(history, r)]
SplitOf(history, r, e) ==
  e.payer = RecordOf(history, r).payer /\ e.participants = RecordOf(history, r).participants

\* Corrections are among those who paid and shared from the start.
PartiesInv ==
  /\ \A r \in RecordedReceipts(log) : SplitOf(log, r, EffectiveReceipt(log, r))
  /\ \A p \in Proc : Corrects(job[p]) => SplitOf(log, job[p].receipt, job[p].before)

\* The members without a part in a receipt that has become outdated, and what
\* explains their balances.
Untouched ==
  {m \in Member : \A e \in EventsOf(log, "receipt_recorded") :
                    m \in Parties(e) => e.receipt \notin outdated}
BookInv == AddsUp(log, Untouched)

\* A receipt that has been corrected by nobody is as recorded.
LEMMA UncorrectedSplit ==
  ASSUME NEW history \in Seq(Event), NEW r, r \notin AdjustedReceipts(history)
  PROVE  EffectiveReceipt(history, r) =
           [payer |-> RecordOf(history, r).payer, amount |-> RecordOf(history, r).amount,
            participants |-> RecordOf(history, r).participants,
            shares |-> RecordOf(history, r).shares]
<1>1. Corrections(history, r) = {}
  BY DEF Corrections, AdjustedReceipts, EventsOf, ToSet
<1>2. QED
  BY <1>1 DEF EffectiveReceipt, RecordOf

\* A handler that may correct a receipt either could before the step, with the split it
\* has read, or reads the split in force.
LEMMA CorrectingBegins ==
  ASSUME IInv, [Next]_vars, NEW p \in Proc, Corrects(job'[p])
  PROVE  /\ job'[p].receipt \in RecordedReceipts(log) /\ job'[p].receipt \in Receipt
         /\ \/ /\ Corrects(job[p]) /\ job'[p].receipt = job[p].receipt
               /\ job'[p].before = job[p].before
            \/ log' = log /\ job'[p].before = EffectiveReceipt(log, job'[p].receipt)
<1>1. TypeOK /\ job[p] \in Job /\ Backed(p, job[p], log, lapsed)
  BY DEF IInv, TypeOK, JobsAreBacked
<1>2. CASE job'[p] = job[p]
  BY <1>1, <1>2, JobFields DEF Corrects, Backed
<1>3. CASE job'[p] # job[p]
  <2>1. ASSUME NEW q \in Proc, NEW j, Goto(q, j), ~Corrects(j)
        PROVE  FALSE
    BY <1>1, <1>3, <2>1 DEF Goto, TypeOK
  <2>2. ~UNCHANGED <<log, leaving, job>>
    BY <1>3
  <2>3. ~\E q \in Proc : \E j : Goto(q, j) /\ j.step \in Heedless
    BY <2>1 DEF Heedless, Corrects
  <2>4. ASSUME NEW q \in Proc, NEW amount \in Amount, RecordRead(q, amount)
        PROVE  FALSE
    <3>1. PICK j : Goto(q, j) /\ j.step \in {"append", "idle"}
      BY <2>4 DEF RecordRead, Idle
    <3>2. QED
      BY <2>1, <3>1 DEF Corrects
  <2>5. ASSUME NEW q \in Proc, RestateCheck(q)
        PROVE  /\ Corrects(job[p]) /\ job'[p].receipt = job[p].receipt
               /\ job'[p].before = job[p].before
    <3>1. PICK j : /\ Goto(q, j)
                   /\ \/ j.step = "restate"
                      \/ j.receipt = job[q].receipt /\ j.before = job[q].before
      BY <2>5 DEF RestateCheck
    <3>2. p = q /\ job'[p] = j
      BY <1>1, <1>3, <3>1 DEF Goto, TypeOK
    <3>3. job[q].step = "rescope"
      BY <2>5 DEF RestateCheck, At
    <3>4. QED
      BY <3>1, <3>2, <3>3 DEF Corrects
  <2>6. ASSUME NEW q \in Client, NEW r \in Receipt, NEW amount \in Amount, Rescope(q, r, amount)
        PROVE  /\ log' = log /\ job'[p].before = EffectiveReceipt(log, job'[p].receipt)
               /\ job'[p].receipt \in RecordedReceipts(log) /\ job'[p].receipt \in Receipt
    <3>1. PICK j : /\ Goto(q, j) /\ j.receipt = r /\ j.before = EffectiveReceipt(log, r)
                   /\ r \in RecordedReceipts(log) /\ log' = log
      BY <2>6 DEF Rescope
    <3>2. p = q /\ job'[p] = j
      BY <1>1, <1>3, <3>1 DEF Goto, TypeOK, Proc
    <3>3. QED
      BY <3>1, <3>2
  <2>7. CASE \E q \in Proc : RestateCheck(q)
    <3>1. Corrects(job[p]) /\ job'[p].receipt = job[p].receipt /\ job'[p].before = job[p].before
      BY <2>5, <2>7
    <3>2. QED
      BY <1>1, <3>1, JobFields DEF Corrects, Backed
  <2>8. QED
    BY <1>1, <2>2, <2>3, <2>4, <2>6, <2>7, StepsLead
<1>4. QED
  BY <1>2, <1>3

\* What a handler has read stays fresh, or makes its receipt outdated.
LEMMA StepsKeepFresh ==
  ASSUME IInv, FreshInv, [Next]_vars, Observe
  PROVE  FreshInv'
<1>1. outdated' = outdated \cup
        {r \in Receipt : (\E p \in Proc : Correcting(p, r) /\ Correcting(p, r)') /\ Alters(r)}
  BY DEF Observe
<1>2. SUFFICES ASSUME NEW p \in Proc, Corrects(job'[p]), job'[p].receipt \notin outdated'
               PROVE  job'[p].before = EffectiveReceipt(log', job'[p].receipt)
  BY DEF FreshInv
<1>3. PICK r : r = job'[p].receipt
  OBVIOUS
<1>4. r \in Receipt
  BY <1>2, <1>3, CorrectingBegins
<1>5. CASE Corrects(job[p]) /\ r = job[p].receipt /\ job'[p].before = job[p].before
  <2>1. Correcting(p, r) /\ Correcting(p, r)'
    BY <1>2, <1>3, <1>5 DEF Correcting, Corrects
  <2>2. ~Alters(r) /\ r \notin outdated
    BY <1>1, <1>2, <1>3, <1>4, <2>1
  <2>3. job[p].before = EffectiveReceipt(log, r)
    BY <1>5, <2>2 DEF FreshInv
  <2>4. QED
    BY <1>3, <1>5, <2>2, <2>3 DEF Alters
<1>6. CASE log' = log /\ job'[p].before = EffectiveReceipt(log, r)
  BY <1>3, <1>6
<1>7. QED
  BY <1>2, <1>3, <1>5, <1>6, CorrectingBegins

\* A step keeps the parties of every record.
LEMMA RecordsKeepParties ==
  ASSUME IInv, Keyed(log), Keyed(log'), [Next]_vars, NEW r \in RecordedReceipts(log)
  PROVE  /\ r \in RecordedReceipts(log')
         /\ RecordOf(log', r).payer = RecordOf(log, r).payer
         /\ RecordOf(log', r).participants = RecordOf(log, r).participants
<1>1. log \in Seq(Event)
  BY DEF IInv, TypeOK
<1>2. PICK at : at = RecordedAt(log, r)
  OBVIOUS
<1>3. at \in DOMAIN log /\ log[at] \in ReceiptEvent /\ log[at].receipt = r
  BY <1>1, <1>2, RecordedAtIsARecord
<1>4. CASE log' = log
  BY <1>4
<1>5. ASSUME NEW n, NEW ev, InsertedBehind(log', log, n, ev)
      PROVE  r \in RecordedReceipts(log') /\ RecordOf(log', r) = RecordOf(log, r)
  <2>1. RecordedAt(log', r) = ShiftedBehind(n, at)
    BY <1>1, <1>2, <1>5, InsertionShiftsRecords
  <2>2. ShiftedBehind(n, at) \in DOMAIN log' /\ log'[ShiftedBehind(n, at)] = log[at]
    BY <1>1, <1>3, <1>5, InsertionShifts
  <2>3. r \in RecordedReceipts(log')
    BY <1>3, <2>2 DEF RecordedReceipts, EventsOf, ToSet, ReceiptEvent
  <2>4. QED
    BY <1>2, <2>1, <2>2, <2>3 DEF RecordOf
<1>6. ASSUME NEW p \in Proc, Restate(p)
      PROVE  /\ r \in RecordedReceipts(log')
             /\ RecordOf(log', r).payer = RecordOf(log, r).payer
             /\ RecordOf(log', r).participants = RecordOf(log, r).participants
  <2>1. PICK i : /\ RewrittenAt(log', log, i) /\ log'[i].receipt = log[i].receipt
                 /\ log'[i] = ReceiptRecorded(job[p].receipt, log[i].payer, job[p].amount,
                                              log[i].participants)
    BY <1>6, RestateWrites
  <2>2. RecordedAt(log', r) = at /\ RecordedReceipts(log') = RecordedReceipts(log)
    BY <1>1, <1>2, <2>1, RewritingLocksNothing, RewritingKeepsKeys
  <2>3. log'[at].payer = log[at].payer /\ log'[at].participants = log[at].participants
    <3>1. CASE at = i
      BY <2>1, <3>1 DEF ReceiptRecorded
    <3>2. CASE at # i
      BY <1>1, <1>3, <2>1, <3>2, LenProperties DEF RewrittenAt
    <3>3. QED
      BY <3>1, <3>2
  <2>4. QED
    BY <1>2, <2>2, <2>3 DEF RecordOf
<1>7. QED
  BY <1>4, <1>5, <1>6, StepsStore

\* Who pays and who shares a receipt stays with it: a new one is as recorded, a correction
\* takes them over, and only an uncorrected receipt is restated.
LEMMA StepsKeepParties ==
  ASSUME IInv, IInv', Keyed(log), Keyed(log'), EarlyInv, PartiesInv, [Next]_vars
  PROVE  PartiesInv'
<1>1. log \in Seq(Event) /\ log' \in Seq(Event)
  BY DEF IInv, TypeOK
<1>2. \A r \in RecordedReceipts(log) : \A e : SplitOf(log, r, e) => SplitOf(log', r, e)
  BY RecordsKeepParties DEF SplitOf
<1>3. ASSUME NEW r \in RecordedReceipts(log'), NEW q \in Proc, NEW ev \in Event, NEW n,
             Stored(ev, q), ~Duplicate(log, ev), InsertedBehind(log', log, n, ev),
             n = Len(log) \/ ev.type = "settlement_confirmed"
      PROVE  SplitOf(log', r, EffectiveReceipt(log', r))
  <2>1. CASE ev.type = "receipt_recorded" /\ ev.receipt = r
    <3>1. r \notin RecordedReceipts(log)
      BY <1>3, <2>1 DEF RecordedReceipts, EventsOf, ToSet, Duplicate, SameDedupeKey
    <3>2. AdjustedReceipts(log') = AdjustedReceipts(log)
      <4>1. EventsOf(log', "adjustment") = EventsOf(log, "adjustment")
        BY <1>1, <1>3, <2>1, InsertionAddsToItsType
      <4>2. QED
        BY <4>1 DEF AdjustedReceipts
    <3>3. r \notin AdjustedReceipts(log')
      BY <3>1, <3>2 DEF Keyed
    <3>4. QED
      BY <1>1, <3>3, UncorrectedSplit DEF SplitOf
  <2>2. CASE ev.type = "adjustment" /\ ev.receipt = r
    <3>1. /\ job[q].step = "adjust"
          /\ ev = Adjustment(job[q].receipt, job[q].before, job[q].amount)
      BY <1>3, <2>2 DEF Stored, AppendAdjustment, At
    <3>2. n = Len(log)
      BY <1>3, <2>2
    <3>3. job[q].receipt = r /\ ev.participants = job[q].before.participants
      BY <2>2, <3>1 DEF Adjustment
    <3>4. r \in RecordedReceipts(log)
      BY <3>1, <3>3 DEF IInv, JobsAreBacked, Backed
    <3>5. EffectiveReceipt(log', r) =
            [payer |-> EffectiveReceipt(log, r).payer, amount |-> ev.amount,
             participants |-> ev.participants, shares |-> ev.shares]
      BY <1>1, <1>3, <2>2, <3>2, <3>4, CorrectionIsInForce
    <3>6. SplitOf(log, r, EffectiveReceipt(log, r)) /\ SplitOf(log, r, job[q].before)
      BY <3>1, <3>3, <3>4 DEF PartiesInv, Corrects
    <3>7. SplitOf(log, r, EffectiveReceipt(log', r))
      BY <3>3, <3>5, <3>6 DEF SplitOf
    <3>8. QED
      BY <1>2, <3>4, <3>7
  <2>3. CASE ~(ev.type = "receipt_recorded" /\ ev.receipt = r)
               /\ ~(ev.type = "adjustment" /\ ev.receipt = r)
    <3>1. r \in RecordedReceipts(log)
      <4>1. \/ EventsOf(log', "receipt_recorded") = EventsOf(log, "receipt_recorded") \cup {ev}
                 /\ ev.type = "receipt_recorded"
            \/ EventsOf(log', "receipt_recorded") = EventsOf(log, "receipt_recorded")
        BY <1>1, <1>3, InsertionAddsToItsType
      <4>2. QED
        BY <1>3, <2>3, <4>1 DEF RecordedReceipts
    <3>2. EffectiveReceipt(log', r) = EffectiveReceipt(log, r)
      BY <1>1, <1>3, <2>3, <3>1, InsertionKeepsReceipts
    <3>3. QED
      BY <1>2, <3>1, <3>2 DEF PartiesInv
  <2>4. QED
    BY <2>1, <2>2, <2>3
<1>4. ASSUME NEW r \in RecordedReceipts(log'), NEW q \in Proc, Restate(q)
      PROVE  SplitOf(log', r, EffectiveReceipt(log', r))
  <2>1. PICK i : /\ RewrittenAt(log', log, i) /\ log'[i].receipt = log[i].receipt
                 /\ log[i].receipt = job[q].receipt
    BY <1>4, RestateWrites
  <2>2. /\ RecordedReceipts(log') = RecordedReceipts(log)
        /\ AdjustedReceipts(log') = AdjustedReceipts(log)
    BY <1>1, <2>1, RewritingKeepsKeys
  <2>3. CASE r = job[q].receipt
    <3>1. job[q] \in Job /\ job[q].step = "restate"
      BY <1>4 DEF IInv, TypeOK, Restate, At
    <3>2. r \in Restating
      BY <1>4, <2>3, <3>1, JobFields DEF Restating, At
    <3>3. r \notin AdjustedReceipts(log')
      BY <2>2, <3>2 DEF EarlyInv, EarlyFor
    <3>4. QED
      BY <1>1, <3>3, UncorrectedSplit DEF SplitOf
  <2>4. CASE r # job[q].receipt
    <3>1. EffectiveReceipt(log', r) = EffectiveReceipt(log, r)
      BY <1>1, <1>4, <2>1, <2>2, <2>4, RewritingKeepsReceipts
    <3>2. QED
      BY <1>2, <1>4, <2>2, <3>1 DEF PartiesInv
  <2>5. QED
    BY <2>3, <2>4
<1>5. ASSUME NEW r \in RecordedReceipts(log')
      PROVE  SplitOf(log', r, EffectiveReceipt(log', r))
  <2>1. CASE log' = log
    BY <1>5, <2>1 DEF PartiesInv
  <2>2. QED
    BY <1>3, <1>4, <1>5, <2>1, StepsStore
<1>6. ASSUME NEW p \in Proc, Corrects(job'[p])
      PROVE  SplitOf(log', job'[p].receipt, job'[p].before)
  <2>1. PICK r : r = job'[p].receipt
    OBVIOUS
  <2>2. SplitOf(log, r, job'[p].before) /\ r \in RecordedReceipts(log)
    BY <1>6, <2>1, CorrectingBegins DEF PartiesInv
  <2>3. QED
    BY <1>2, <2>1, <2>2
<1>7. QED
  BY <1>5, <1>6 DEF PartiesInv

\* A correction moves whoever has no part in an outdated receipt by what it changes.
LEMMA CorrectionsMoveAsSaid ==
  ASSUME IInv, FairInv, Keyed(log'), FreshInv, PartiesInv,
         NEW p \in Proc, AppendAdjustment(p), NEW ev,
         ev = Adjustment(job[p].receipt, job[p].before, job[p].amount),
         InsertedBehind(log', log, Len(log), ev), NEW m \in Untouched
  PROVE  ev.delta[m] = EffectOf(EffectiveReceipt(log', job[p].receipt))[m]
                       - EffectOf(EffectiveReceipt(log, job[p].receipt))[m]
<1> DEFINE r == job[p].receipt
           b == job[p].before
           e == EffectiveReceipt(log, r)
           f == EffectiveReceipt(log', r)
<1>1. /\ log \in Seq(Event) /\ job[p] \in Job /\ job[p].step = "adjust"
      /\ m \in Member
  BY DEF IInv, TypeOK, AppendAdjustment, At, Untouched
<1>2. /\ r \in Receipt /\ r \in RecordedReceipts(log) /\ job[p].amount \in Nat /\ b \in Split
  BY <1>1, JobFields DEF IInv, JobsAreBacked, Backed
<1>3. CASE r \notin outdated
  <2>1. b = e
    BY <1>1, <1>3 DEF FreshInv, Corrects
  <2>2. QED
    BY <1>1, <1>2, <2>1, CorrectionMoves
<1>4. CASE r \in outdated
  <2>1. m \notin Parties(RecordOf(log, r))
    <3>1. RecordOf(log, r) \in EventsOf(log, "receipt_recorded") /\ RecordOf(log, r).receipt = r
      BY <1>1, <1>2, RecordedAtIsARecord DEF RecordOf, EventsOf, ToSet, ReceiptEvent
    <3>2. QED
      BY <1>4, <3>1 DEF Untouched
  <2>2. SplitOf(log, r, e) /\ SplitOf(log, r, b) /\ FairSplit(b)
    BY <1>1, <1>2 DEF PartiesInv, Corrects, FairInv, JobsAreFair, FairJob
  <2>3. FairSplit(e)
    BY <1>1, <1>2, EffectiveIsFair DEF FairInv
  <2>4. ev.type = "adjustment" /\ ev.receipt = r
          /\ ev.shares = ComputeShares(r, job[p].amount, b.participants)
          /\ ev.participants = b.participants
    BY DEF Adjustment
  <2>5. f = [payer |-> e.payer, amount |-> ev.amount,
             participants |-> ev.participants, shares |-> ev.shares]
    BY <1>1, <1>2, <2>4, CorrectionIsInForce
  <2>6. /\ m # e.payer /\ m # b.payer /\ m \notin b.participants
        /\ b.shares[m] = 0 /\ e.shares[m] = 0
    BY <1>1, <2>1, <2>2, <2>3 DEF Parties, SplitOf, FairSplit
  <2>7. ev.shares[m] = 0
    BY <1>1, <2>4, <2>6, OthersShareNothing
  <2>8. EffectOf(e)[m] = 0 /\ EffectOf(f)[m] = 0
    BY <1>1, <2>5, <2>6, <2>7 DEF EffectOf, ReceiptEffect
  <2>9. ev.delta[m] = 0
    <3>1. ev.delta[m] = ReceiptEffect(b.payer, job[p].amount, ev.shares)[m]
                        - ReceiptEffect(b.payer, b.amount, b.shares)[m]
      BY <1>1, <2>4 DEF Adjustment
    <3>2. QED
      BY <1>1, <2>6, <2>7, <3>1 DEF ReceiptEffect
  <2>10. QED
    BY <2>8, <2>9
<1>5. QED
  BY <1>3, <1>4

\* Storing an event keeps the balances explained.
LEMMA StoringKeepsBook ==
  ASSUME IInv, IInv', FairInv, Keyed(log), Keyed(log'), FreshInv, PartiesInv, BookInv,
         NEW p \in Proc, NEW ev \in Event, NEW n, Stored(ev, p), ~Duplicate(log, ev),
         InsertedBehind(log', log, n, ev),
         n = Len(log) \/ ev.type = "settlement_confirmed"
  PROVE  AddsUp(log', Untouched)
<1>1. /\ log \in Seq(Event) /\ TypeOK /\ TwoSignaturesOnce
      /\ Untouched \in SUBSET Member /\ AddsUp(log, Untouched)
  BY DEF IInv, TypeOK, BookInv, Untouched
<1>2. CASE ev.type = "settlement_confirmed"
  <2>1. ev \in ConfirmEvent
    BY <1>2, EventKinds
  <2>2. /\ n \in Nat /\ n + 1 \in DOMAIN log' /\ log'[n + 1] = ev /\ (n + 1) - 1 = n
        /\ \A i \in 1..n : log'[i] = log[i]
    BY <1>1, LenProperties DEF InsertedBehind
  <2>3. \E j \in 1..((n + 1) - 1) : log'[j].type = "settlement_proposed" /\ log'[j].sid = ev.sid
    BY <1>2, <2>2 DEF IInv, TwoSignaturesOnce
  <2>4. \E j \in 1..n : log[j].type = "settlement_proposed" /\ log[j].sid = ev.sid
    BY <2>2, <2>3
  <2> HIDE DEF Untouched
  <2>5. QED
    BY <1>1, <2>1, <2>4, ConfirmingAddsUp
<1>3. CASE ev.type # "settlement_confirmed"
  <2>1. n = Len(log)
    BY <1>3
  <2>2. CASE ev.type = "adjustment"
    <3>1. /\ AppendAdjustment(p) /\ ev \in AdjustmentEvent
          /\ ev = Adjustment(job[p].receipt, job[p].before, job[p].amount)
      BY <2>2, EventKinds DEF Stored
    <3>2. ev.receipt = job[p].receipt /\ job[p].receipt \in RecordedReceipts(log)
      BY <3>1 DEF Adjustment, AppendAdjustment, At, IInv, JobsAreBacked, Backed
    <3>3. \A m \in Untouched :
            ev.delta[m] = EffectOf(EffectiveReceipt(log', job[p].receipt))[m]
                          - EffectOf(EffectiveReceipt(log, job[p].receipt))[m]
      BY <2>1, <3>1, CorrectionsMoveAsSaid
    <3>4. QED
      BY <1>1, <2>1, <3>1, <3>2, <3>3, CorrectingAddsUp
  <2>3. CASE ev.type = "receipt_recorded"
    BY <1>1, <2>1, <2>3, EventKinds, RecordingAddsUp
  <2>4. CASE ev.type \in {"member_joined", "member_left"}
    <3>1. ev \in MemberEvent
      BY <2>4 DEF Event, ReceiptEvent, MemberEvent, ProposalEvent, ConfirmEvent, AdjustmentEvent
    <3>2. QED
      BY <1>1, <2>1, <3>1, MemberEventsAddUp
  <2>5. CASE ev.type = "settlement_proposed"
    <3>1. ev \in ProposalEvent
      BY <2>5 DEF Event, ReceiptEvent, MemberEvent, ProposalEvent, ConfirmEvent, AdjustmentEvent
    <3>2. QED
      BY <1>1, <2>1, <3>1, ConfirmedAreProposed, ProposingAddsUp
  <2>6. QED
    BY <1>3, <2>2, <2>3, <2>4, <2>5, EventKinds
<1>4. QED
  BY <1>2, <1>3

\* Whoever has no part in an outdated receipt had none before.
LEMMA UntouchedShrink ==
  ASSUME IInv, Keyed(log), Keyed(log'), [Next]_vars, Observe
  PROVE  Untouched' \subseteq Untouched
<1>1. log \in Seq(Event) /\ outdated \subseteq outdated'
  BY DEF IInv, TypeOK, Observe
<1>2. SUFFICES ASSUME NEW m \in Untouched', NEW e \in EventsOf(log, "receipt_recorded"), m \in Parties(e)
               PROVE  e.receipt \notin outdated
  BY DEF Untouched
<1>3. \E f \in EventsOf(log', "receipt_recorded") : f.receipt = e.receipt /\ Parties(f) = Parties(e)
  <2>1. PICK i \in DOMAIN log : e = log[i] /\ log[i].type = "receipt_recorded"
    BY DEF EventsOf, ToSet
  <2>2. CASE log' = log
    BY <2>2
  <2>3. ASSUME NEW ev, NEW n, InsertedBehind(log', log, n, ev)
        PROVE  e \in EventsOf(log', "receipt_recorded")
    BY <1>1, <2>3, InsertionAddsToItsType
  <2>4. ASSUME NEW p \in Proc, Restate(p)
        PROVE  \E f \in EventsOf(log', "receipt_recorded") :
                 f.receipt = e.receipt /\ Parties(f) = Parties(e)
    <3>1. PICK j : /\ RewrittenAt(log', log, j) /\ log'[j].receipt = log[j].receipt
                   /\ log'[j] = ReceiptRecorded(job[p].receipt, log[j].payer, job[p].amount,
                                                log[j].participants)
      BY <2>4, RestateWrites
    <3>2. /\ i \in DOMAIN log' /\ DOMAIN log = 1..Len(log)
          /\ \A k \in DOMAIN log : k # j => log'[k] = log[k]
      BY <1>1, <3>1, LenProperties DEF RewrittenAt
    <3>3. log'[i].type = "receipt_recorded" /\ log'[i].receipt = e.receipt
            /\ log'[i].payer = e.payer /\ log'[i].participants = e.participants
      <4>1. CASE i = j
        BY <2>1, <3>1, <4>1 DEF ReceiptRecorded
      <4>2. CASE i # j
        BY <2>1, <3>2, <4>2
      <4>3. QED
        BY <4>1, <4>2
    <3>4. log'[i] \in EventsOf(log', "receipt_recorded")
      BY <3>2, <3>3 DEF EventsOf, ToSet
    <3>5. QED
      BY <3>3, <3>4 DEF Parties
  <2>5. QED
    BY <2>2, <2>3, <2>4, StepsStore
<1>4. PICK f \in EventsOf(log', "receipt_recorded") : f.receipt = e.receipt /\ Parties(f) = Parties(e)
  BY <1>3
<1>5. f.receipt \notin outdated'
  BY <1>2, <1>4 DEF Untouched
<1>6. QED
  BY <1>1, <1>4, <1>5

\* Every step keeps the balances of those members explained.
LEMMA StepsKeepBook ==
  ASSUME IInv, IInv', FairInv, KeyInv, KeyInv', EarlyInv, FreshInv, PartiesInv, BookInv,
         [Next]_vars, Observe
  PROVE  BookInv'
<1>1. log \in Seq(Event) /\ Keyed(log) /\ Keyed(log') /\ Untouched \in SUBSET Member
  BY DEF IInv, TypeOK, KeyInv, Untouched
<1>2. AddsUp(log', Untouched)
  <2>1. CASE log' = log
    BY <2>1 DEF BookInv
  <2>2. ASSUME NEW p \in Proc, NEW ev \in Event, NEW n,
               Stored(ev, p), ~Duplicate(log, ev), InsertedBehind(log', log, n, ev),
               n = Len(log) \/ ev.type = "settlement_confirmed"
        PROVE  AddsUp(log', Untouched)
    BY <1>1, <2>2, StoringKeepsBook
  <2>3. ASSUME NEW p \in Proc, Restate(p)
        PROVE  AddsUp(log', Untouched)
    <3>1. PICK i : /\ RewrittenAt(log', log, i) /\ log'[i].receipt = log[i].receipt
                   /\ log[i].receipt = job[p].receipt
                   /\ log'[i] = ReceiptRecorded(job[p].receipt, log[i].payer, job[p].amount,
                                                log[i].participants)
      BY <2>3, RestateWrites
    <3>2. log'[i].payer = log[i].payer
      BY <3>1 DEF ReceiptRecorded
    <3>3. job[p] \in Job /\ job[p].step = "restate"
      BY <2>3 DEF IInv, TypeOK, Restate, At
    <3>4. job[p].receipt \in Restating
      BY <2>3, <3>3, JobFields DEF Restating, At
    <3>5. log[i].receipt \notin AdjustedReceipts(log)
      BY <3>1, <3>4 DEF EarlyInv, EarlyFor
    <3> HIDE DEF Untouched
    <3>6. QED
      BY <1>1, <3>1, <3>2, <3>5, RestatingAddsUp DEF BookInv
  <2>4. QED
    BY <2>1, <2>2, <2>3, StepsStore
<1>3. Untouched' \subseteq Untouched
  BY <1>1, UntouchedShrink
<1> HIDE DEF Untouched
<1>4. QED
  BY <1>2, <1>3 DEF BookInv, AddsUp

\* However the handlers overlap, what the receipts of the log say, each as its last
\* correction leaves it, and the confirmed settlements explain the balance of every
\* member without a part in a receipt that changed under a correction.
THEOREM BalancesAreExplained == OverlapSpec => []CorrectionsInOrderAddUp
<1>1. ASSUME Init, Unobserved
      PROVE  EarlyInv /\ FreshInv /\ PartiesInv /\ BookInv
  <2>1. log = <<>> /\ \A p \in Proc : job[p] = Idle
    BY <1>1 DEF Init
  <2>2. \A p \in Proc : ~At(p, "restate") /\ ~Corrects(job[p])
    BY <2>1 DEF At, Idle, Corrects
  <2>3. RecordedReceipts(log) = {}
    BY <2>1 DEF RecordedReceipts, EventsOf, ToSet
  <2>4. EarlyInv /\ FreshInv /\ PartiesInv
    BY <2>2, <2>3 DEF EarlyInv, Restating, FreshInv, PartiesInv
  <2>5. Untouched \in SUBSET Member
    BY DEF Untouched
  <2> HIDE DEF Untouched
  <2>6. AddsUp(<<>>, Untouched)
    BY <2>5, EmptyLogAddsUp
  <2>7. QED
    BY <2>1, <2>4, <2>6 DEF BookInv
<1>2. ASSUME IInv, IInv', FairInv, KeyInv, KeyInv', EarlyInv, FreshInv, PartiesInv, BookInv,
             [Next /\ Observe]_<<vars, overlaps>>
      PROVE  EarlyInv' /\ FreshInv' /\ PartiesInv' /\ BookInv'
  <2>1. CASE UNCHANGED <<vars, overlaps>>
    BY <1>2, <2>1 DEF EarlyInv, EarlyFor, Restating, At, FreshInv, PartiesInv, BookInv, Untouched,
       vars, overlaps
  <2>2. CASE Next /\ Observe
    BY <1>2, <2>2, StepsKeepEarly, StepsKeepFresh, StepsKeepParties, StepsKeepBook DEF KeyInv
  <2>3. QED
    BY <1>2, <2>1, <2>2
<1>3. IInv /\ BookInv => CorrectionsInOrderAddUp
  <2>1. SUFFICES ASSUME IInv, BookInv, NEW m \in Member,
                        \A e \in EventsOf(log, "receipt_recorded") :
                          m \in Parties(e) => e.receipt \notin outdated
                 PROVE  Balance(log)[m] = Contributed(log, m) + Transferred(log, m)
    BY DEF CorrectionsInOrderAddUp
  <2>2. log \in Seq(Event) /\ m \in Untouched
    BY <2>1 DEF IInv, TypeOK, Untouched
  <2>3. QED
    BY <2>1, <2>2, ContributedIsSum, TransferredIsSum DEF BookInv, AddsUp
<1>4. Init /\ Unobserved /\ [][Next /\ Observe]_<<vars, overlaps>> => []CorrectionsInOrderAddUp
  BY ObservedBehaviours, ObservedSteps, IInvHolds, FairInvHolds, KeysHold, <1>1, <1>2, <1>3, PTL
  DEF OverlapSpec
<1>5. QED
  BY <1>4 DEF OverlapSpec
=============================================================================
