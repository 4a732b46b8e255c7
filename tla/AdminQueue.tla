------------------------------ MODULE AdminQueue ------------------------------
(***************************************************************************)
(* The work queue of the administrators: cards are leased in batches, an   *)
(* action on a card is written, audited and completes the lease, and what  *)
(* nobody finishes comes back after two hours (models/adminLeaseModel.ts,  *)
(* the pickers models/admin*QueueModel.ts, controllers/admin*Controller.ts *)
(* and services/adminActionLog.ts).  The four queues (images, amounts,     *)
(* flags, uncategorised products) never share a lease or an audit action,  *)
(* so one of them is modelled, and queueKind says which.                   *)
(*                                                                         *)
(* The lease table has no unique key: rows are only ever appended, and     *)
(* lease and audit are kept in the order of their AUTO_INCREMENT ids.      *)
(***************************************************************************)
EXTENDS Integers, Sequences, FiniteSets

CONSTANTS
  Admin,        \* the administrators
  Card,         \* what a queue hands out: store products, products, receipt lines
  Proc,         \* processes that serve requests
  BatchSize,    \* the size a client asks for (at most 25 in the code)
  MaxRequests,  \* bound: requests in a behaviour
  MaxFailures   \* bound: handlers cut short

ASSUME QueueAssumption == /\ BatchSize \in Nat \ {0}
                          /\ MaxRequests \in Nat /\ MaxFailures \in Nat
                          /\ IsFiniteSet(Card)

VARIABLES
  queueKind,  \* which of the four queues this is
  content,    \* what the picker looks at: the work is lacking, done, or the row is gone
  lease,      \* AdminCardLease
  audit,      \* AdminAuditLog
  job,        \* what each process is doing
  started, failures

counters == <<started, failures>>
vars == <<queueKind, content, lease, audit, job, started, failures>>

QueueKind == {"image", "amount", "flag", "uncategorised"}
Content == {"lacking", "ok", "gone"}

-----------------------------------------------------------------------------
(* Leases.                                                                 *)

\* seen, known and asked are not columns: they record how much of the two
\* tables the claim had looked at when it picked the card and when it found
\* that its administrator holds no batch.
Lease == [card : Card, admin : Admin, state : {"open", "completed", "abandoned"},
          expired : BOOLEAN, batch : Nat, asked : Nat, seen : Nat, known : Nat]

Active(row) == row.state = "open" /\ ~row.expired

ActiveOf(admin) == {i \in DOMAIN lease : Active(lease[i]) /\ lease[i].admin = admin}

Leased(card) == \E i \in DOMAIN lease : Active(lease[i]) /\ lease[i].card = card

-----------------------------------------------------------------------------
(* Actions on a card, and what they leave in the audit log.                *)

\* A handler is told by its verb and by what its write makes of the card; no
\* outcomes means that it writes nothing the picker looks at.
adoptCandidate == [verb |-> "adopt", outcomes |-> {"ok"}]
removeImage == [verb |-> "remove", outcomes |-> {"lacking"}]
rejectPendingUpload == [verb |-> "reject", outcomes |-> {}]

\* An amount or a category can be set to what the picker still objects to.
confirmAmount == [verb |-> "set", outcomes |-> {"ok", "lacking"}]
confirmUncategorisedProduct == [verb |-> "set", outcomes |-> {"ok", "lacking"}]

deleteUncategorisedProduct == [verb |-> "delete", outcomes |-> {"gone"}]

\* A split names both halves and leaves the category alone.
applySplit == [verb |-> "split", outcomes |-> {}]

confirmFlag == [verb |-> "resolve", outcomes |-> {"ok"}]
dismissFlag == [verb |-> "dismiss", outcomes |-> {"ok"}]
skipCard == [verb |-> "skip", outcomes |-> {}]

Handlers ==
  CASE queueKind = "image" -> {adoptCandidate, removeImage, skipCard, rejectPendingUpload}
    [] queueKind = "amount" -> {confirmAmount, skipCard}
    [] queueKind = "flag" -> {confirmFlag, dismissFlag, skipCard}
    [] queueKind = "uncategorised" -> {confirmUncategorisedProduct, deleteUncategorisedProduct,
                                       applySplit, skipCard}

AllVerbs == {"adopt", "remove", "skip", "reject", "set", "resolve", "dismiss",
             "delete", "split", "revert"}

Audit == [card : Card, admin : Admin, verb : AllVerbs, before : Content, after : Content,
          recent : BOOLEAN, reversed : BOOLEAN]

\* One of these actions was taken on the card in the last ninety days and was
\* not reversed since.
Handled(card, verbs) ==
  \E k \in DOMAIN audit : /\ audit[k].card = card /\ audit[k].verb \in verbs
                          /\ audit[k].recent /\ ~audit[k].reversed

\* Fault: the pickers forget the leases.
UnleasedOrNot == {c \in Card : content[c] = "lacking"}

Unleased == {c \in Card : content[c] = "lacking" /\ ~Leased(c)}

\* Fault: a skipped amount comes straight back.
PickUnlessSet == {c \in Unleased : ~Handled(c, {"set"})}

\* The four pickers.  The images have no ninety days, and a split is not on the
\* list of the uncategorised products.
buildImageQueuePickSql == Unleased
pickAmountQueueSpIds == {c \in Unleased : ~Handled(c, {"set", "skip"})}
pickFlagQueueKeys == {c \in Unleased : ~Handled(c, {"resolve", "dismiss", "skip"})}
pickUncategorisedProductIds == {c \in Unleased : ~Handled(c, {"set", "delete", "skip"})}

Eligible == CASE queueKind = "image" -> buildImageQueuePickSql
              [] queueKind = "amount" -> pickAmountQueueSpIds
              [] queueKind = "flag" -> pickFlagQueueKeys
              [] queueKind = "uncategorised" -> pickUncategorisedProductIds

-----------------------------------------------------------------------------
(* Jobs.                                                                   *)

Idle == [step |-> "idle"]

Job ==
  [step : {"idle"}]
    \cup [step : {"pick"}, admin : Admin, asked : Nat]
    \cup [step : {"insert"}, admin : Admin, asked : Nat, seen : Nat, known : Nat,
          cards : SUBSET Card]
    \cup [step : {"write", "audit", "complete"}, admin : Admin, card : Card, verb : AllVerbs,
          before : Content, after : Content]
    \cup [step : {"restore", "reverse", "log"}, admin : Admin, row : Nat]

Goto(p, j) == job' = [job EXCEPT ![p] = j]
At(p, step) == job[p].step = step

Issue(p) ==
  /\ job[p] = Idle /\ started < MaxRequests
  /\ started' = started + 1 /\ UNCHANGED failures

Init ==
  /\ queueKind \in QueueKind
  /\ content = [c \in Card |-> "lacking"]
  /\ lease = <<>> /\ audit = <<>>
  /\ job = [p \in Proc |-> Idle]
  /\ started = 0 /\ failures = 0

-----------------------------------------------------------------------------
(* Claiming, releasing, expiring.                                          *)

\* Fault: a second batch may be stacked on the first.
ClaimStacked(p, admin) ==
  /\ Issue(p)
  /\ Goto(p, [step |-> "pick", admin |-> admin, asked |-> Len(lease)])
  /\ UNCHANGED <<queueKind, content, lease, audit>>

\* claim-batch: an administrator who holds a batch gets that one back.
ClaimBatch(p, admin) ==
  /\ Issue(p)
  /\ ActiveOf(admin) = {}
  /\ Goto(p, [step |-> "pick", admin |-> admin, asked |-> Len(lease)])
  /\ UNCHANGED <<queueKind, content, lease, audit>>

\* The order of the cards (flags first, recent purchases, age) is left open.
\* The amounts are filtered by a parser after a limit, and may be fewer.
Pick(p) ==
  /\ At(p, "pick")
  /\ \E cards \in SUBSET Eligible :
       /\ Cardinality(cards) <= BatchSize
       /\ \/ cards = Eligible
          \/ Cardinality(cards) = BatchSize
          \/ queueKind = "amount" /\ cards # {}
       /\ Goto(p, IF cards = {} THEN Idle
                  ELSE [step |-> "insert", admin |-> job[p].admin, asked |-> job[p].asked,
                        seen |-> Len(lease), known |-> Len(audit), cards |-> cards])
  /\ UNCHANGED <<queueKind, content, lease, audit, counters>>

\* The rows of a batch are inserted by one statement, so they expire together.
InsertLeases(p) ==
  /\ At(p, "insert")
  /\ \E order \in [1..Cardinality(job[p].cards) -> job[p].cards] :
       /\ \A i, j \in DOMAIN order : order[i] = order[j] => i = j
       /\ lease' = lease \o [i \in DOMAIN order |->
                     [card |-> order[i], admin |-> job[p].admin, state |-> "open",
                      expired |-> FALSE, batch |-> Len(lease), asked |-> job[p].asked,
                      seen |-> job[p].seen, known |-> job[p].known]]
  /\ Goto(p, Idle)
  /\ UNCHANGED <<queueKind, content, audit, counters>>

\* End the rows of S.
Ended(S, state) ==
  [i \in DOMAIN lease |-> IF i \in S THEN [lease[i] EXCEPT !.state = state] ELSE lease[i]]

ReleaseBatch(p, admin) ==
  /\ Issue(p)
  /\ ActiveOf(admin) # {}
  /\ lease' = Ended(ActiveOf(admin), "abandoned")
  /\ UNCHANGED <<queueKind, content, audit, job>>

\* Two hours pass for a batch.
ExpireBatch(b) ==
  /\ \E i \in DOMAIN lease : lease[i].batch = b /\ ~lease[i].expired
  /\ lease' = [i \in DOMAIN lease |-> IF lease[i].batch = b
                                      THEN [lease[i] EXCEPT !.expired = TRUE] ELSE lease[i]]
  /\ UNCHANGED <<queueKind, content, audit, job, counters>>

Overdue == {i \in DOMAIN lease : lease[i].state = "open" /\ lease[i].expired}

SweepExpiredLeases ==
  /\ Overdue # {}
  /\ lease' = Ended(Overdue, "abandoned")
  /\ UNCHANGED <<queueKind, content, audit, job, counters>>

-----------------------------------------------------------------------------
(* Acting on a card.  No action asks whether its administrator holds a     *)
(* lease on it.                                                            *)

\* What is there now is read for the audit row; a card that is gone is a 404
\* for every action that writes to it (the references that block a deletion
\* are left open).
ActStart(p, admin, card, handler, after) ==
  /\ Issue(p)
  /\ \/ /\ handler.outcomes = {} /\ after = "lacking"
        /\ Goto(p, [step |-> "audit", admin |-> admin, card |-> card, verb |-> handler.verb,
                    before |-> "lacking", after |-> "lacking"])
     \/ /\ after \in handler.outcomes /\ content[card] # "gone"
        /\ Goto(p, [step |-> "write", admin |-> admin, card |-> card, verb |-> handler.verb,
                    before |-> content[card], after |-> after])
  /\ UNCHANGED <<queueKind, content, lease, audit>>

ActWrite(p) ==
  /\ At(p, "write")
  /\ content' = [content EXCEPT ![job[p].card] = IF @ = "gone" THEN @ ELSE job[p].after]
  /\ Goto(p, [job[p] EXCEPT !.step = "audit"])
  /\ UNCHANGED <<queueKind, lease, audit, counters>>

\* Another store product of the chain has that size already: a skip, after all.
ActRefused(p) ==
  /\ At(p, "write") /\ queueKind = "amount"
  /\ Goto(p, [job[p] EXCEPT !.step = "audit", !.verb = "skip"])
  /\ UNCHANGED <<queueKind, content, lease, audit, counters>>

AuditRow(j) == [card |-> j.card, admin |-> j.admin, verb |-> j.verb, before |-> j.before,
                after |-> j.after, recent |-> TRUE, reversed |-> FALSE]

\* Fault: the lease is completed without a trace in the audit log.
ActUnlogged(p) ==
  /\ At(p, "audit")
  /\ Goto(p, IF job[p].verb = "reject" THEN Idle ELSE [job[p] EXCEPT !.step = "complete"])
  /\ UNCHANGED <<queueKind, content, lease, audit, counters>>

\* Rejecting an upload does not finish the card.
ActLog(p) ==
  /\ At(p, "audit")
  /\ audit' = Append(audit, AuditRow(job[p]))
  /\ Goto(p, IF job[p].verb = "reject" THEN Idle ELSE [job[p] EXCEPT !.step = "complete"])
  /\ UNCHANGED <<queueKind, content, lease, counters>>

\* Fault: completing does not look at the lease's term.
CompleteLate(p) ==
  LET open == {i \in DOMAIN lease : /\ lease[i].state = "open"
                                    /\ lease[i].admin = job[p].admin
                                    /\ lease[i].card = job[p].card}
  IN  /\ At(p, "complete")
      /\ lease' = Ended(open, "completed")
      /\ Goto(p, Idle)
      /\ UNCHANGED <<queueKind, content, audit, counters>>

\* Whatever lease the administrator holds on the card now; none is a no-op.
CompleteLease(p) ==
  /\ At(p, "complete")
  /\ lease' = Ended({i \in ActiveOf(job[p].admin) : lease[i].card = job[p].card}, "completed")
  /\ Goto(p, Idle)
  /\ UNCHANGED <<queueKind, content, audit, counters>>

-----------------------------------------------------------------------------
(* Reverting an audited action on a store product.                         *)

RevertStart(p, admin, row) ==
  /\ Issue(p)
  /\ queueKind \in {"image", "amount"} /\ audit[row].verb # "reject"
  /\ ~audit[row].reversed
  /\ Goto(p, [step |-> "restore", admin |-> admin, row |-> row])
  /\ UNCHANGED <<queueKind, content, lease, audit>>

\* Only images are restored: an amount stays as it is.
RevertRestore(p) ==
  LET row == audit[job[p].row]
  IN  /\ At(p, "restore")
      /\ content' = IF queueKind = "image"
                    THEN [content EXCEPT ![row.card] = row.before] ELSE content
      /\ Goto(p, [job[p] EXCEPT !.step = "reverse"])
      /\ UNCHANGED <<queueKind, lease, audit, counters>>

RevertMark(p) ==
  /\ At(p, "reverse")
  /\ audit' = [audit EXCEPT ![job[p].row].reversed = TRUE]
  /\ Goto(p, [job[p] EXCEPT !.step = "log"])
  /\ UNCHANGED <<queueKind, content, lease, counters>>

RevertLog(p) ==
  LET row == audit[job[p].row]
  IN  /\ At(p, "log")
      /\ audit' = Append(audit, [card |-> row.card, admin |-> job[p].admin, verb |-> "revert",
                                 before |-> row.after, after |-> row.before,
                                 recent |-> TRUE, reversed |-> FALSE])
      /\ Goto(p, Idle)
      /\ UNCHANGED <<queueKind, content, lease, counters>>

-----------------------------------------------------------------------------
(* The world around the queue.                                             *)

\* A scrape, a receipt or a user's flag makes work of a card again, and a user
\* issue can be closed from the image tab.
Arise(card) ==
  /\ content[card] = "ok"
  /\ content' = [content EXCEPT ![card] = "lacking"]
  /\ UNCHANGED <<queueKind, lease, audit, job, counters>>

ResolveIssue(card) ==
  /\ queueKind = "flag" /\ content[card] = "lacking"
  /\ content' = [content EXCEPT ![card] = "ok"]
  /\ UNCHANGED <<queueKind, lease, audit, job, counters>>

\* Ninety days pass for an audit row and all before it.
Age(row) ==
  /\ audit[row].recent
  /\ audit' = [i \in DOMAIN audit |-> IF i <= row THEN [audit[i] EXCEPT !.recent = FALSE]
                                      ELSE audit[i]]
  /\ UNCHANGED <<queueKind, content, lease, job, counters>>

Fail(p) ==
  /\ job[p] # Idle /\ failures < MaxFailures
  /\ failures' = failures + 1
  /\ Goto(p, Idle)
  /\ UNCHANGED <<queueKind, content, lease, audit, started>>

-----------------------------------------------------------------------------

Request(p, admin) ==
  \/ ClaimBatch(p, admin)
  \/ ReleaseBatch(p, admin)
  \/ \E card \in Card, handler \in Handlers, after \in Content :
       ActStart(p, admin, card, handler, after)
  \/ \E row \in DOMAIN audit : RevertStart(p, admin, row)

Progress(p) ==
  \/ Pick(p) \/ InsertLeases(p)
  \/ ActWrite(p) \/ ActRefused(p) \/ ActLog(p) \/ CompleteLease(p)
  \/ RevertRestore(p) \/ RevertMark(p) \/ RevertLog(p)

Environment ==
  \/ \E b \in {lease[i].batch : i \in DOMAIN lease} : ExpireBatch(b)
  \/ \E row \in DOMAIN audit : Age(row)
  \/ \E card \in Card : Arise(card) \/ ResolveIssue(card)

Next ==
  \/ \E p \in Proc : Progress(p) \/ Fail(p) \/ \E admin \in Admin : Request(p, admin)
  \/ SweepExpiredLeases
  \/ Environment

Spec == Init /\ [][Next]_vars

-----------------------------------------------------------------------------
(* Properties.                                                             *)

\* Every variable has its type.
TypeOK ==
  /\ queueKind \in QueueKind
  /\ content \in [Card -> Content]
  /\ lease \in Seq(Lease)
  /\ audit \in Seq(Audit)
  /\ job \in [Proc -> Job]
  /\ started \in Nat /\ failures \in Nat

\* Two administrators hold the same card only when their claims overlapped: the
\* later one had picked its cards before the earlier one inserted its leases
\* ("concurrent claim-batch calls from two admins can't both grab the same SP"
\* is true of claims that follow each other).
SharedOnlyByOverlap ==
  \A i, j \in DOMAIN lease :
    i < j /\ lease[i].card = lease[j].card /\ Active(lease[i]) /\ Active(lease[j])
      => lease[j].seen < i

\* One batch per administrator at a time, again up to claims that overlapped
\* ("return those instead of stacking another batch on top").
OneBatchUnlessOverlapping ==
  \A i, j \in DOMAIN lease :
    i < j /\ lease[i].admin = lease[j].admin /\ lease[i].batch # lease[j].batch
          /\ Active(lease[i]) /\ Active(lease[j])
      => lease[j].asked < i

\* The actions that keep a card out of the queue for ninety days.
Hides(row) == /\ row.recent /\ ~row.reversed
              /\ row.verb \in CASE queueKind = "amount" -> {"set", "skip"}
                                [] queueKind = "flag" -> {"resolve", "dismiss", "skip"}
                                [] queueKind = "uncategorised" -> {"set", "delete", "skip"}
                                [] OTHER -> {}

\* A card somebody acted upon is not handed out again while that action is
\* younger than ninety days and stands; only a claim that had picked the card
\* before the action was logged can still lease it.
HandledCardsStayAway ==
  \A i \in DOMAIN lease, k \in DOMAIN audit :
    lease[i].card = audit[k].card /\ Hides(audit[k]) => lease[i].known < k

\* Behind every completed lease stands an action of its administrator on that
\* card in the audit log, other than the rejection of an upload or a revert,
\* also when a handler was cut short between the two.
CompletedIsAudited ==
  \A i \in DOMAIN lease : lease[i].state = "completed" =>
    \E k \in DOMAIN audit : /\ audit[k].card = lease[i].card
                            /\ audit[k].admin = lease[i].admin
                            /\ audit[k].verb \notin {"reject", "revert"}

\* A lease ends once, and an answer that comes after its two hours, or after
\* it was given back, does not complete it any more.
LateAnswersDoNotComplete ==
  [][\A i \in DOMAIN lease :
       /\ lease[i].state # "open" => lease'[i].state = lease[i].state
       /\ lease[i].expired => lease'[i].state # "completed" \/ lease[i].state = "completed"]_lease
=============================================================================
