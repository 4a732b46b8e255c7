--------------------------- MODULE AdminQueueProofs ---------------------------
(***************************************************************************)
(* What the queue of the administrators promises for any administrators,   *)
(* cards, processes and batch sizes: proofs of the safety properties of    *)
(* AdminQueue.                                                             *)
(***************************************************************************)
EXTENDS AdminQueue, TLAPS, FiniteSetTheorems

(***************************************************************************)
(* The inductive invariant: what a handler has read of the two tables is   *)
(* still true of the rows it has seen, because rows only age.              *)
(***************************************************************************)
ClaimIsBacked(p) ==
  /\ job[p].step \in {"pick", "insert"} =>
       \A i \in DOMAIN lease :
         i <= job[p].asked /\ lease[i].admin = job[p].admin => ~Active(lease[i])
  /\ job[p].step \in {"pick", "insert"} => job[p].asked <= Len(lease)
  /\ job[p].step = "insert" =>
       /\ job[p].seen <= Len(lease) /\ job[p].known <= Len(audit)
       /\ \A i \in DOMAIN lease :
            i <= job[p].seen /\ lease[i].card \in job[p].cards => ~Active(lease[i])
       /\ \A k \in DOMAIN audit :
            k <= job[p].known /\ audit[k].card \in job[p].cards => ~Hides(audit[k])

\* What a handler between its steps has already done: a completing one has
\* written its audit row.
ActIsBacked(p) ==
  /\ job[p].step \in {"write", "audit", "complete"} => job[p].verb # "revert"
  /\ job[p].step = "complete" =>
       /\ job[p].verb # "reject"
       /\ \E k \in DOMAIN audit : /\ audit[k].card = job[p].card
                                  /\ audit[k].admin = job[p].admin
                                  /\ audit[k].verb \notin {"reject", "revert"}
  /\ job[p].step \in {"restore", "reverse", "log"} => job[p].row \in DOMAIN audit

\* A lease knows of no audit row that is yet to be written.
KnownIsPast == \A i \in DOMAIN lease : lease[i].known <= Len(audit)

\* The inductive invariant.
IInv ==
  /\ TypeOK
  /\ \A p \in Proc : ClaimIsBacked(p) /\ ActIsBacked(p)
  /\ KnownIsPast
  /\ SharedOnlyByOverlap /\ OneBatchUnlessOverlapping
  /\ HandledCardsStayAway /\ CompletedIsAudited

-----------------------------------------------------------------------------
(* Typing.                                                                 *)

\* What a job of each step carries.
LEMMA JobFields ==
  ASSUME NEW j \in Job
  PROVE  /\ j.step = "pick" => j \in [step : {"pick"}, admin : Admin, asked : Nat]
         /\ j.step = "insert" =>
              j \in [step : {"insert"}, admin : Admin, asked : Nat, seen : Nat, known : Nat,
                     cards : SUBSET Card]
         /\ j.step \in {"write", "audit", "complete"} =>
              j \in [step : {"write", "audit", "complete"}, admin : Admin, card : Card,
                     verb : AllVerbs, before : Content, after : Content]
         /\ j.step \in {"restore", "reverse", "log"} =>
              j \in [step : {"restore", "reverse", "log"}, admin : Admin, row : Nat]
BY DEF Job

\* The verbs of the handlers; none of them is a revert.
LEMMA HandlerVerbs ==
  ASSUME queueKind \in QueueKind
  PROVE  \A handler \in Handlers : handler.verb \in AllVerbs \ {"revert"}
<1> SUFFICES ASSUME NEW handler \in Handlers
             PROVE  handler.verb \in AllVerbs \ {"revert"}
  OBVIOUS
<1>1. handler \in {adoptCandidate, removeImage, rejectPendingUpload, skipCard, confirmAmount,
                  confirmUncategorisedProduct, deleteUncategorisedProduct, applySplit,
                  confirmFlag, dismissFlag}
  BY DEF Handlers, QueueKind
<1> QED
  BY <1>1 DEF adoptCandidate, removeImage, rejectPendingUpload, skipCard, confirmAmount,
     confirmUncategorisedProduct, deleteUncategorisedProduct, applySplit, confirmFlag,
     dismissFlag, AllVerbs

\* The four pickers select cards without an active lease and without a
\* standing action.
LEMMA Pickers ==
  ASSUME queueKind \in QueueKind
  PROVE  /\ Eligible \subseteq Card
         /\ \A c \in Eligible :
              /\ \A i \in DOMAIN lease : lease[i].card = c => ~Active(lease[i])
              /\ \A k \in DOMAIN audit : audit[k].card = c => ~Hides(audit[k])
<1>1. Eligible \subseteq Unleased
  BY DEF Eligible, QueueKind, buildImageQueuePickSql, pickAmountQueueSpIds, pickFlagQueueKeys,
     pickUncategorisedProductIds
<1>2. ASSUME NEW c \in Eligible, NEW k \in DOMAIN audit, audit[k].card = c
      PROVE  ~Hides(audit[k])
  BY <1>2 DEF Eligible, QueueKind, buildImageQueuePickSql, pickAmountQueueSpIds,
     pickFlagQueueKeys, pickUncategorisedProductIds, Hides, Handled
<1> QED
  BY <1>1, <1>2 DEF Unleased, Leased

\* Ending some leases keeps the table well typed.
LEMMA EndedType ==
  ASSUME lease \in Seq(Lease), NEW STATE S, NEW state \in {"completed", "abandoned"}
  PROVE  /\ Ended(S, state) \in Seq(Lease)
         /\ Len(Ended(S, state)) = Len(lease)
         /\ DOMAIN Ended(S, state) = DOMAIN lease
         /\ \A i \in DOMAIN lease :
              Ended(S, state)[i] = IF i \in S THEN [lease[i] EXCEPT !.state = state] ELSE lease[i]
<1>1. ASSUME NEW row \in Lease
      PROVE  [row EXCEPT !.state = state] \in Lease
  BY DEF Lease
<1>2. \A i \in 1..Len(lease) : lease[i] \in Lease
  OBVIOUS
<1>3. DOMAIN lease = 1..Len(lease) /\ Len(lease) \in Nat
  OBVIOUS
<1> DEFINE f == [i \in 1..Len(lease) |->
                   IF i \in S THEN [lease[i] EXCEPT !.state = state] ELSE lease[i]]
<1>4. \A i \in 1..Len(lease) : f[i] \in Lease
  BY <1>1, <1>2
<1>5. DOMAIN f = 1..Len(lease)
  OBVIOUS
<1>6. f \in Seq(Lease) /\ Len(f) = Len(lease)
  <2> HIDE DEF f
  <2>1. f = [i \in 1..Len(lease) |-> f[i]]
    BY <1>5 DEF f
  <2> QED  BY <1>3, <1>4, <1>5, <2>1
<1>7. Ended(S, state) = f
  BY <1>3 DEF Ended
<1> QED
  BY <1>3, <1>5, <1>6, <1>7

\* The rows of one insert: appended behind the table, each for a card of the
\* batch, no card twice.
LEMMA InsertedRows ==
  ASSUME TypeOK, NEW p \in Proc, InsertLeases(p)
  PROVE  /\ lease' \in Seq(Lease)
         /\ Len(lease') >= Len(lease)
         /\ \A i \in DOMAIN lease : i \in DOMAIN lease' /\ lease'[i] = lease[i]
         /\ \A i \in DOMAIN lease' \ DOMAIN lease :
              /\ i > Len(lease)
              /\ lease'[i].card \in job[p].cards /\ lease'[i].admin = job[p].admin
              /\ lease'[i].state = "open"
              /\ lease'[i].batch = Len(lease) /\ lease'[i].asked = job[p].asked
              /\ lease'[i].seen = job[p].seen /\ lease'[i].known = job[p].known
         /\ \A i, j \in DOMAIN lease' \ DOMAIN lease :
              lease'[i].card = lease'[j].card => i = j
<1> DEFINE n == Cardinality(job[p].cards)
           row(c) == [card |-> c, admin |-> job[p].admin, state |-> "open",
                      expired |-> FALSE, batch |-> Len(lease), asked |-> job[p].asked,
                      seen |-> job[p].seen, known |-> job[p].known]
<1>1. PICK order \in [1..n -> job[p].cards] :
        /\ \A i, j \in DOMAIN order : order[i] = order[j] => i = j
        /\ lease' = lease \o [i \in DOMAIN order |-> row(order[i])]
  BY DEF InsertLeases
<1>2. job[p] \in [step : {"insert"}, admin : Admin, asked : Nat, seen : Nat, known : Nat,
                  cards : SUBSET Card]
  BY JobFields DEF TypeOK, InsertLeases, At
<1>3. n \in Nat
  BY <1>2, FS_Subset, FS_CardinalityType, QueueAssumption
<1>4. lease \in Seq(Lease) /\ Len(lease) \in Nat /\ DOMAIN lease = 1..Len(lease)
  BY DEF TypeOK
<1> DEFINE added == [i \in DOMAIN order |-> row(order[i])]
<1>5. \A i \in 1..n : row(order[i]) \in Lease
  BY <1>1, <1>2, <1>4 DEF Lease
<1>6. added \in Seq(Lease) /\ Len(added) = n /\ \A i \in 1..n : added[i] = row(order[i])
  <2>1. DOMAIN order = 1..n
    BY <1>1
  <2>2. added = [i \in 1..n |-> added[i]] /\ \A i \in 1..n : added[i] = row(order[i])
    BY <2>1
  <2>3. \A i \in 1..n : added[i] \in Lease
    BY <1>5, <2>2
  <2> HIDE DEF row, n, added
  <2> QED  BY <1>3, <2>2, <2>3
<1>7. /\ lease' = lease \o added
      /\ lease' \in Seq(Lease) /\ Len(lease') = Len(lease) + n
      /\ \A i \in 1..Len(lease) : lease'[i] = lease[i]
      /\ \A i \in (Len(lease) + 1)..(Len(lease) + n) : lease'[i] = added[i - Len(lease)]
  <2> HIDE DEF row, n, added
  <2>1. lease' = lease \o added
    BY <1>1 DEF added
  <2>2. lease \o added \in Seq(Lease) /\ Len(lease \o added) = Len(lease) + Len(added)
    BY <1>4, <1>6
  <2>3. \A i \in 1..(Len(lease) + Len(added)) :
          (lease \o added)[i] = IF i <= Len(lease) THEN lease[i] ELSE added[i - Len(lease)]
    BY <1>4, <1>6
  <2> QED  BY <1>3, <1>4, <1>6, <2>1, <2>2, <2>3
<1>8. ASSUME NEW i \in DOMAIN lease' \ DOMAIN lease
      PROVE  /\ i > Len(lease) /\ i - Len(lease) \in 1..n
             /\ lease'[i] = row(order[i - Len(lease)])
  <2> HIDE DEF row, n, added
  <2> QED  BY <1>3, <1>4, <1>6, <1>7
<1>9. ASSUME NEW i \in DOMAIN lease' \ DOMAIN lease, NEW j \in DOMAIN lease' \ DOMAIN lease,
             lease'[i].card = lease'[j].card
      PROVE  i = j
  <2>1. order[i - Len(lease)] = order[j - Len(lease)]
    BY <1>8, <1>9
  <2>2. i - Len(lease) = j - Len(lease)
    BY <1>1, <1>8, <2>1
  <2>3. i \in Nat /\ j \in Nat
    BY <1>7
  <2> QED  BY <2>2, <2>3, <1>4
<1>10. ASSUME NEW i \in DOMAIN lease' \ DOMAIN lease
       PROVE  order[i - Len(lease)] \in job[p].cards
  BY <1>1, <1>8
<1>11. Len(lease') >= Len(lease) /\ \A i \in DOMAIN lease : i \in DOMAIN lease' /\ lease'[i] = lease[i]
  <2> HIDE DEF row, n, added
  <2> QED  BY <1>3, <1>4, <1>7
<1>12. ASSUME NEW i \in DOMAIN lease' \ DOMAIN lease
       PROVE  /\ i > Len(lease)
              /\ lease'[i].card \in job[p].cards /\ lease'[i].admin = job[p].admin
              /\ lease'[i].state = "open"
              /\ lease'[i].batch = Len(lease) /\ lease'[i].asked = job[p].asked
              /\ lease'[i].seen = job[p].seen /\ lease'[i].known = job[p].known
  BY <1>8, <1>10
<1> QED
  <2> HIDE DEF row, n, added
  <2> QED  BY <1>7, <1>9, <1>11, <1>12

-----------------------------------------------------------------------------
(* Rows only age.                                                          *)

\* What no step takes back: a lease row keeps its card, its holder and its
\* history and never becomes active again, an audit row keeps what it says and
\* never hides its card again.
Ages(row, later) ==
  /\ later.card = row.card /\ later.admin = row.admin /\ later.batch = row.batch
  /\ later.asked = row.asked /\ later.seen = row.seen /\ later.known = row.known
  /\ (later.state = "open" /\ ~later.expired) => (row.state = "open" /\ ~row.expired)

\* What any step may do to the leases and to the audit rows it finds.
LeasesAge ==
  /\ Len(lease') >= Len(lease)
  /\ \A i \in DOMAIN lease : i \in DOMAIN lease' /\ Ages(lease[i], lease'[i])

AuditsAge ==
  /\ queueKind' = queueKind
  /\ Len(audit') >= Len(audit)
  /\ \A k \in DOMAIN audit :
       /\ k \in DOMAIN audit'
       /\ audit'[k].card = audit[k].card /\ audit'[k].admin = audit[k].admin
       /\ audit'[k].verb = audit[k].verb
       /\ audit'[k].recent => audit[k].recent
       /\ audit[k].reversed => audit'[k].reversed

\* Ending leases ages them.
LEMMA EndedAges ==
  ASSUME lease \in Seq(Lease), NEW STATE S, NEW state \in {"completed", "abandoned"},
         lease' = Ended(S, state)
  PROVE  LeasesAge /\ lease' \in Seq(Lease) /\ DOMAIN lease' = DOMAIN lease
<1>1. ASSUME NEW row \in Lease
      PROVE  Ages(row, row) /\ Ages(row, [row EXCEPT !.state = state])
  BY DEF Lease, Ages
<1>2. /\ lease' \in Seq(Lease) /\ Len(lease') = Len(lease) /\ DOMAIN lease' = DOMAIN lease
      /\ \A i \in DOMAIN lease :
           lease'[i] = IF i \in S THEN [lease[i] EXCEPT !.state = state] ELSE lease[i]
  BY EndedType
<1>3. \A i \in DOMAIN lease : lease[i] \in Lease
  OBVIOUS
<1>4. Len(lease') >= Len(lease)
  <2>1. Len(lease) \in Nat
    OBVIOUS
  <2> QED  BY <1>2, <2>1
<1>5. \A i \in DOMAIN lease : Ages(lease[i], lease'[i])
  BY <1>1, <1>2, <1>3
<1> QED
  BY <1>2, <1>4, <1>5 DEF LeasesAge

\* Appending to the audit log ages nothing.
LEMMA AppendedAudit ==
  ASSUME audit \in Seq(Audit), NEW STATE row, row \in Audit,
         audit' = Append(audit, row), queueKind' = queueKind
  PROVE  /\ AuditsAge /\ audit' \in Seq(Audit)
         /\ Len(audit') = Len(audit) + 1
         /\ audit'[Len(audit) + 1] = row
         /\ \A k \in DOMAIN audit : audit'[k] = audit[k]
BY DEF AuditsAge

\* Tables that do not change do not age, and typed tables have a length.
LEMMA Unaged ==
  ASSUME TypeOK
  PROVE  /\ lease' = lease => LeasesAge
         /\ audit' = audit /\ queueKind' = queueKind => AuditsAge
         /\ Len(lease) \in Nat /\ DOMAIN lease = 1..Len(lease)
         /\ Len(audit) \in Nat /\ DOMAIN audit = 1..Len(audit)
         /\ \A i \in DOMAIN lease : lease[i] \in Lease
         /\ \A k \in DOMAIN audit : audit[k] \in Audit
<1>1. lease \in Seq(Lease) /\ audit \in Seq(Audit)
  BY DEF TypeOK
<1> QED
  BY <1>1 DEF LeasesAge, AuditsAge, Ages

\* A step gives one job another value of the right kind.
LEMMA GotoType ==
  ASSUME TypeOK, NEW p \in Proc, NEW STATE j, j \in Job, Goto(p, j)
  PROVE  /\ job' \in [Proc -> Job] /\ job'[p] = j
         /\ \A q \in Proc \ {p} : job'[q] = job[q]
BY DEF TypeOK, Goto

\* Every step keeps the types and only ages the rows it finds.
LEMMA StepAges ==
  ASSUME IInv, [Next]_vars
  PROVE  TypeOK' /\ LeasesAge /\ AuditsAge
<1> USE DEF IInv
<1>1. /\ TypeOK /\ queueKind \in QueueKind /\ content \in [Card -> Content]
      /\ lease \in Seq(Lease) /\ audit \in Seq(Audit) /\ job \in [Proc -> Job]
      /\ started \in Nat /\ failures \in Nat
  BY DEF TypeOK
<1>2. ASSUME NEW p \in Proc, NEW admin \in Admin, ClaimBatch(p, admin)
      PROVE  TypeOK' /\ LeasesAge /\ AuditsAge
  <2>1. [step |-> "pick", admin |-> admin, asked |-> Len(lease)] \in Job
    BY Unaged DEF Job
  <2> QED  BY <1>1, <1>2, <2>1, GotoType, Unaged DEF ClaimBatch, Issue, TypeOK
<1>3. ASSUME NEW p \in Proc, NEW admin \in Admin, ReleaseBatch(p, admin)
      PROVE  TypeOK' /\ LeasesAge /\ AuditsAge
  <2>1. lease' = Ended(ActiveOf(admin), "abandoned")
    BY <1>3 DEF ReleaseBatch
  <2>2. LeasesAge /\ lease' \in Seq(Lease)
    BY <1>1, <2>1, EndedAges
  <2> QED  BY <1>1, <1>3, <2>2, Unaged DEF ReleaseBatch, Issue, TypeOK
<1>4. ASSUME NEW p \in Proc, NEW admin \in Admin, NEW card \in Card, NEW handler \in Handlers,
             NEW after \in Content, ActStart(p, admin, card, handler, after)
      PROVE  TypeOK' /\ LeasesAge /\ AuditsAge
  <2>1. handler.verb \in AllVerbs
    BY <1>1, HandlerVerbs
  <2>2. /\ [step |-> "audit", admin |-> admin, card |-> card, verb |-> handler.verb,
            before |-> "lacking", after |-> "lacking"] \in Job
        /\ [step |-> "write", admin |-> admin, card |-> card, verb |-> handler.verb,
            before |-> content[card], after |-> after] \in Job
    BY <1>1, <2>1 DEF Job, Content
  <2>3. job' \in [Proc -> Job]
    BY <1>1, <1>4, <2>2, GotoType DEF ActStart
  <2> QED  BY <1>1, <1>4, <2>3, Unaged DEF ActStart, Issue, TypeOK
<1>5. ASSUME NEW p \in Proc, NEW admin \in Admin, NEW row \in DOMAIN audit,
             RevertStart(p, admin, row)
      PROVE  TypeOK' /\ LeasesAge /\ AuditsAge
  <2>1. [step |-> "restore", admin |-> admin, row |-> row] \in Job
    BY <1>1, Unaged DEF Job
  <2> QED  BY <1>1, <1>5, <2>1, GotoType, Unaged DEF RevertStart, Issue, TypeOK
<1>6. ASSUME NEW p \in Proc, Pick(p)
      PROVE  TypeOK' /\ LeasesAge /\ AuditsAge
  <2>1. job[p] \in [step : {"pick"}, admin : Admin, asked : Nat]
    BY <1>1, <1>6, JobFields DEF Pick, At
  <2>2. PICK cards \in SUBSET Card :
          Goto(p, IF cards = {} THEN Idle
                  ELSE [step |-> "insert", admin |-> job[p].admin, asked |-> job[p].asked,
                        seen |-> Len(lease), known |-> Len(audit), cards |-> cards])
    BY <1>1, <1>6, Pickers DEF Pick
  <2>3. Idle \in Job
    BY DEF Idle, Job
  <2>4. [step |-> "insert", admin |-> job[p].admin, asked |-> job[p].asked,
         seen |-> Len(lease), known |-> Len(audit), cards |-> cards] \in Job
    BY <2>1, Unaged DEF Job
  <2>5. job' \in [Proc -> Job]
    BY <1>1, <2>2, <2>3, <2>4, GotoType
  <2> QED  BY <1>1, <1>6, <2>5, Unaged DEF Pick, counters, TypeOK
<1>7. ASSUME NEW p \in Proc, InsertLeases(p)
      PROVE  TypeOK' /\ LeasesAge /\ AuditsAge
  <2>1. LeasesAge /\ lease' \in Seq(Lease)
    <3>1. \A row \in Lease : Ages(row, row)
      BY DEF Ages
    <3> QED  BY <1>1, <1>7, <3>1, InsertedRows, Unaged DEF LeasesAge
  <2>2. job' \in [Proc -> Job]
    <3>1. Idle \in Job
      BY DEF Idle, Job
    <3> QED  BY <1>1, <1>7, <3>1, GotoType DEF InsertLeases
  <2> QED  BY <1>1, <1>7, <2>1, <2>2, Unaged DEF InsertLeases, counters, TypeOK
<1>8. ASSUME NEW p \in Proc, ActWrite(p) \/ ActRefused(p)
      PROVE  TypeOK' /\ LeasesAge /\ AuditsAge
  <2>1. job[p] \in [step : {"write", "audit", "complete"}, admin : Admin, card : Card,
                    verb : AllVerbs, before : Content, after : Content]
    BY <1>1, <1>8, JobFields DEF ActWrite, ActRefused, At
  <2>2. [job[p] EXCEPT !.step = "audit"] \in Job
    BY <2>1 DEF Job
  <2>3. [job[p] EXCEPT !.step = "audit", !.verb = "skip"] \in Job
    BY <2>1 DEF Job, AllVerbs
  <2>4. job' \in [Proc -> Job]
    BY <1>1, <1>8, <2>2, <2>3, GotoType DEF ActWrite, ActRefused
  <2>5. content' \in [Card -> Content]
    BY <1>1, <1>8, <2>1 DEF ActWrite, ActRefused
  <2>6. UNCHANGED <<queueKind, lease, audit, counters>>
    BY <1>8 DEF ActWrite, ActRefused
  <2> QED  BY <1>1, <2>4, <2>5, <2>6, Unaged DEF counters, TypeOK
<1>9. ASSUME NEW p \in Proc, ActLog(p)
      PROVE  TypeOK' /\ LeasesAge /\ AuditsAge
  <2>1. job[p] \in [step : {"write", "audit", "complete"}, admin : Admin, card : Card,
                    verb : AllVerbs, before : Content, after : Content]
    BY <1>1, <1>9, JobFields DEF ActLog, At
  <2>2. AuditRow(job[p]) \in Audit
    BY <2>1 DEF AuditRow, Audit
  <2>3. AuditsAge /\ audit' \in Seq(Audit)
    BY <1>1, <1>9, <2>2, AppendedAudit DEF ActLog
  <2>4. job' \in [Proc -> Job]
    <3>1. Idle \in Job /\ [job[p] EXCEPT !.step = "complete"] \in Job
      BY <2>1 DEF Idle, Job
    <3> QED  BY <1>1, <1>9, <3>1, GotoType DEF ActLog
  <2> QED  BY <1>1, <1>9, <2>3, <2>4, Unaged DEF ActLog, counters, TypeOK
<1>10. ASSUME NEW p \in Proc, CompleteLease(p)
      PROVE  TypeOK' /\ LeasesAge /\ AuditsAge
  <2>1. LeasesAge /\ lease' \in Seq(Lease)
    BY <1>1, <1>10, EndedAges DEF CompleteLease
  <2>2. job' \in [Proc -> Job]
    <3>1. Idle \in Job
      BY DEF Idle, Job
    <3> QED  BY <1>1, <1>10, <3>1, GotoType DEF CompleteLease
  <2> QED  BY <1>1, <1>10, <2>1, <2>2, Unaged DEF CompleteLease, counters, TypeOK
<1>11. ASSUME NEW p \in Proc, RevertRestore(p) \/ RevertMark(p) \/ RevertLog(p)
       PROVE  TypeOK' /\ LeasesAge /\ AuditsAge
  <2>1. /\ job[p] \in [step : {"restore", "reverse", "log"}, admin : Admin, row : Nat]
        /\ job[p].row \in DOMAIN audit /\ audit[job[p].row] \in Audit
    BY <1>1, <1>11, JobFields, Unaged DEF RevertRestore, RevertMark, RevertLog, At, ActIsBacked
  <2>2. job' \in [Proc -> Job]
    <3>1. /\ Idle \in Job
          /\ [job[p] EXCEPT !.step = "reverse"] \in Job /\ [job[p] EXCEPT !.step = "log"] \in Job
      BY <2>1 DEF Idle, Job
    <3> QED  BY <1>1, <1>11, <3>1, GotoType DEF RevertRestore, RevertMark, RevertLog
  <2>3. content' \in [Card -> Content]
    BY <1>1, <1>11, <2>1 DEF RevertRestore, RevertMark, RevertLog, Audit
  <2>4. AuditsAge /\ audit' \in Seq(Audit)
    <3>1. CASE RevertRestore(p)
      BY <1>1, <3>1, Unaged DEF RevertRestore
    <3>2. CASE RevertMark(p)
      <4>1. audit' = [audit EXCEPT ![job[p].row] = [@ EXCEPT !.reversed = TRUE]] /\ queueKind' = queueKind
        BY <3>2 DEF RevertMark
      <4>2. ASSUME NEW row \in Audit
            PROVE  [row EXCEPT !.reversed = TRUE] \in Audit
        BY DEF Audit
      <4>3. audit' \in Seq(Audit) /\ Len(audit') = Len(audit)
        BY <1>1, <2>1, <4>1, <4>2
      <4>4. \A k \in DOMAIN audit :
              /\ k \in DOMAIN audit'
              /\ audit'[k] = IF k = job[p].row THEN [audit[k] EXCEPT !.reversed = TRUE] ELSE audit[k]
        BY <1>1, <2>1, <4>1
      <4>5. ASSUME NEW row \in Audit
            PROVE  LET later == [row EXCEPT !.reversed = TRUE]
                   IN  /\ later.card = row.card /\ later.admin = row.admin
                       /\ later.verb = row.verb /\ later.recent = row.recent /\ later.reversed
        BY DEF Audit
      <4> QED  BY <1>1, <4>1, <4>3, <4>4, <4>5, Unaged DEF AuditsAge
    <3>3. CASE RevertLog(p)
      <4>1. [card |-> audit[job[p].row].card, admin |-> job[p].admin, verb |-> "revert",
             before |-> audit[job[p].row].after, after |-> audit[job[p].row].before,
             recent |-> TRUE, reversed |-> FALSE] \in Audit
        BY <2>1 DEF Audit, AllVerbs
      <4> QED  BY <1>1, <3>3, <4>1, AppendedAudit DEF RevertLog
    <3> QED  BY <1>11, <3>1, <3>2, <3>3
  <2>5. UNCHANGED <<queueKind, lease, counters>>
    BY <1>11 DEF RevertRestore, RevertMark, RevertLog
  <2> QED  BY <1>1, <2>2, <2>3, <2>4, <2>5, Unaged DEF counters, TypeOK
<1>12. ASSUME NEW p \in Proc, Fail(p)
       PROVE  TypeOK' /\ LeasesAge /\ AuditsAge
  <2>1. Idle \in Job
    BY DEF Idle, Job
  <2> QED  BY <1>1, <1>12, <2>1, GotoType, Unaged DEF Fail, TypeOK
<1>13. ASSUME SweepExpiredLeases
       PROVE  TypeOK' /\ LeasesAge /\ AuditsAge
  <2>1. LeasesAge /\ lease' \in Seq(Lease)
    BY <1>1, <1>13, EndedAges DEF SweepExpiredLeases
  <2> QED  BY <1>1, <1>13, <2>1, Unaged DEF SweepExpiredLeases, counters, TypeOK
<1>14. ASSUME NEW b, ExpireBatch(b)
       PROVE  TypeOK' /\ LeasesAge /\ AuditsAge
  <2>1. ASSUME NEW row \in Lease
        PROVE  /\ [row EXCEPT !.expired = TRUE] \in Lease
               /\ Ages(row, row) /\ Ages(row, [row EXCEPT !.expired = TRUE])
    BY DEF Lease, Ages
  <2>2. DOMAIN lease' = 1..Len(lease) /\ Len(lease) \in Nat
    <3>1. DOMAIN lease = 1..Len(lease) /\ Len(lease) \in Nat
      BY <1>1
    <3> QED  BY <1>14, <3>1 DEF ExpireBatch
  <2>3. \A i \in 1..Len(lease) : lease'[i] \in Lease /\ Ages(lease[i], lease'[i])
    <3> SUFFICES ASSUME NEW i \in 1..Len(lease)
                 PROVE  lease'[i] \in Lease /\ Ages(lease[i], lease'[i])
      OBVIOUS
    <3>1. lease[i] \in Lease /\ i \in DOMAIN lease
      BY <1>1
    <3>2. lease'[i] \in {lease[i], [lease[i] EXCEPT !.expired = TRUE]}
      BY <1>14, <3>1 DEF ExpireBatch
    <3> QED  BY <2>1, <3>1, <3>2
  <2>4. lease' \in Seq(Lease) /\ Len(lease') = Len(lease)
    <3>1. lease' = [i \in 1..Len(lease) |-> lease'[i]]
      BY <1>14, <2>2 DEF ExpireBatch
    <3> QED  BY <2>2, <2>3, <3>1
  <2>5. LeasesAge
    BY <1>1, <2>2, <2>3, <2>4 DEF LeasesAge
  <2> QED  BY <1>1, <1>14, <2>4, <2>5, Unaged DEF ExpireBatch, counters, TypeOK
<1>15. ASSUME NEW row \in DOMAIN audit, Age(row)
       PROVE  TypeOK' /\ LeasesAge /\ AuditsAge
  <2>1. ASSUME NEW r \in Audit
        PROVE  /\ [r EXCEPT !.recent = FALSE] \in Audit
               /\ LET later == [r EXCEPT !.recent = FALSE]
                  IN  /\ later.card = r.card /\ later.admin = r.admin
                      /\ later.verb = r.verb /\ ~later.recent /\ later.reversed = r.reversed
    BY DEF Audit
  <2>2. DOMAIN audit' = 1..Len(audit) /\ Len(audit) \in Nat /\ DOMAIN audit = 1..Len(audit)
    <3>1. DOMAIN audit = 1..Len(audit) /\ Len(audit) \in Nat
      BY <1>1
    <3> QED  BY <1>15, <3>1 DEF Age
  <2>3. \A k \in 1..Len(audit) :
          audit[k] \in Audit /\ audit'[k] \in {audit[k], [audit[k] EXCEPT !.recent = FALSE]}
    BY <1>1, <1>15, <2>2 DEF Age
  <2>4. audit' \in Seq(Audit) /\ Len(audit') = Len(audit)
    <3>1. audit' = [k \in 1..Len(audit) |-> audit'[k]]
      BY <1>15, <2>2 DEF Age
    <3>2. \A k \in 1..Len(audit) : audit'[k] \in Audit
      BY <2>1, <2>3
    <3> QED  BY <2>2, <3>1, <3>2
  <2>5. AuditsAge
    <3>1. queueKind' = queueKind
      BY <1>15 DEF Age
    <3>2. ASSUME NEW k \in DOMAIN audit
          PROVE  /\ k \in DOMAIN audit'
                 /\ audit'[k].card = audit[k].card /\ audit'[k].admin = audit[k].admin
                 /\ audit'[k].verb = audit[k].verb
                 /\ audit'[k].recent => audit[k].recent
                 /\ audit[k].reversed => audit'[k].reversed
      <4>1. CASE audit'[k] = audit[k]
        BY <2>2, <4>1
      <4>2. CASE audit'[k] = [audit[k] EXCEPT !.recent = FALSE]
        BY <2>1, <2>2, <2>3, <4>2
      <4> QED  BY <2>2, <2>3, <4>1, <4>2
    <3> QED  BY <2>2, <2>4, <3>1, <3>2 DEF AuditsAge
  <2> QED  BY <1>1, <1>15, <2>4, <2>5, Unaged DEF Age, counters, TypeOK
<1>16. ASSUME NEW card \in Card, Arise(card) \/ ResolveIssue(card)
       PROVE  TypeOK' /\ LeasesAge /\ AuditsAge
  <2>1. content' \in [Card -> Content]
    BY <1>1, <1>16 DEF Arise, ResolveIssue, Content
  <2>2. UNCHANGED <<queueKind, lease, audit, job, counters>>
    BY <1>16 DEF Arise, ResolveIssue
  <2> QED  BY <1>1, <2>1, <2>2, Unaged DEF counters, TypeOK
<1>17. ASSUME UNCHANGED vars
       PROVE  TypeOK' /\ LeasesAge /\ AuditsAge
  BY <1>1, <1>17, Unaged DEF vars, TypeOK
<1> QED
  BY <1>2, <1>3, <1>4, <1>5, <1>6, <1>7, <1>8, <1>9, <1>10, <1>11, <1>12, <1>13, <1>14, <1>15,
     <1>16, <1>17 DEF Next, Progress, Request, Environment

-----------------------------------------------------------------------------
(* What ageing preserves.                                                  *)

\* A handler that does not move stays backed.
LEMMA BackedStays ==
  ASSUME IInv, TypeOK', LeasesAge, AuditsAge, NEW p \in Proc, job'[p] = job[p]
  PROVE  ClaimIsBacked(p)' /\ ActIsBacked(p)'
<1>1. job[p] \in Job
  BY DEF IInv, TypeOK
<1>2. /\ Len(lease) \in Nat /\ DOMAIN lease = 1..Len(lease)
      /\ Len(audit) \in Nat /\ DOMAIN audit = 1..Len(audit)
  BY Unaged DEF IInv
<1>3. /\ Len(lease') \in Nat /\ DOMAIN lease' = 1..Len(lease')
      /\ Len(audit') \in Nat /\ DOMAIN audit' = 1..Len(audit')
  BY DEF TypeOK
<1>4. ASSUME job[p].step \in {"pick", "insert"}
      PROVE  /\ job[p].asked <= Len(lease')
             /\ \A i \in DOMAIN lease' :
                  i <= job[p].asked /\ lease'[i].admin = job[p].admin => ~Active(lease'[i])
  <2>1. job[p].asked \in Nat /\ job[p].asked <= Len(lease)
    BY <1>1, <1>4, JobFields DEF IInv, ClaimIsBacked
  <2>2. \A i \in DOMAIN lease :
          i <= job[p].asked /\ lease[i].admin = job[p].admin => ~Active(lease[i])
    BY <1>4 DEF IInv, ClaimIsBacked
  <2> QED  BY <1>2, <1>3, <2>1, <2>2 DEF LeasesAge, Ages, Active
<1>5. ASSUME job[p].step = "insert"
      PROVE  /\ job[p].seen <= Len(lease') /\ job[p].known <= Len(audit')
             /\ \A i \in DOMAIN lease' :
                  i <= job[p].seen /\ lease'[i].card \in job[p].cards => ~Active(lease'[i])
             /\ \A k \in DOMAIN audit' :
                  k <= job[p].known /\ audit'[k].card \in job[p].cards => ~Hides(audit[k])'
  <2>1. /\ job[p].seen \in Nat /\ job[p].seen <= Len(lease)
        /\ job[p].known \in Nat /\ job[p].known <= Len(audit)
    BY <1>1, <1>5, JobFields DEF IInv, ClaimIsBacked
  <2>2. /\ \A i \in DOMAIN lease :
             i <= job[p].seen /\ lease[i].card \in job[p].cards => ~Active(lease[i])
        /\ \A k \in DOMAIN audit :
             k <= job[p].known /\ audit[k].card \in job[p].cards => ~Hides(audit[k])
    BY <1>5 DEF IInv, ClaimIsBacked
  <2>3. \A i \in DOMAIN lease' :
          i <= job[p].seen /\ lease'[i].card \in job[p].cards => ~Active(lease'[i])
    BY <1>2, <1>3, <2>1, <2>2 DEF LeasesAge, Ages, Active
  <2>4. ASSUME NEW k \in DOMAIN audit', k <= job[p].known, audit'[k].card \in job[p].cards
        PROVE  ~Hides(audit[k])'
    <3>1. k \in DOMAIN audit
      BY <1>2, <1>3, <2>1, <2>4
    <3> QED  BY <2>2, <2>4, <3>1 DEF AuditsAge, Hides
  <2> QED  BY <1>2, <1>3, <2>1, <2>3, <2>4 DEF LeasesAge, AuditsAge
<1>6. ActIsBacked(p)'
  <2>1. ActIsBacked(p)
    BY DEF IInv
  <2> QED  BY <2>1 DEF ActIsBacked, AuditsAge
<1> QED
  BY <1>4, <1>5, <1>6 DEF ClaimIsBacked

\* Without new leases no card comes to be shared and no batch to be stacked;
\* what a lease knew of the audit log stays in the past.
LEMMA RowsStay ==
  ASSUME IInv, TypeOK', LeasesAge, AuditsAge, DOMAIN lease' = DOMAIN lease
  PROVE  /\ KnownIsPast' /\ SharedOnlyByOverlap' /\ OneBatchUnlessOverlapping'
         /\ HandledCardsStayAway'
<1>1. /\ Len(audit) \in Nat /\ DOMAIN audit = 1..Len(audit)
      /\ \A i \in DOMAIN lease : lease[i] \in Lease
  BY Unaged DEF IInv
<1>2. Len(audit') \in Nat /\ DOMAIN audit' = 1..Len(audit')
  BY DEF TypeOK
<1>3. \A i \in DOMAIN lease : lease[i].known \in Nat
  BY <1>1 DEF Lease
<1>4. KnownIsPast'
  BY <1>1, <1>2, <1>3 DEF IInv, KnownIsPast, LeasesAge, AuditsAge, Ages
<1>5. SharedOnlyByOverlap'
  BY DEF IInv, SharedOnlyByOverlap, LeasesAge, Ages, Active
<1>6. OneBatchUnlessOverlapping'
  BY DEF IInv, OneBatchUnlessOverlapping, LeasesAge, Ages, Active
<1>7. HandledCardsStayAway'
  <2> SUFFICES ASSUME NEW i \in DOMAIN lease', NEW k \in DOMAIN audit',
                      lease'[i].card = audit'[k].card, Hides(audit[k])'
               PROVE  lease'[i].known < k
    BY DEF HandledCardsStayAway
  <2>1. lease'[i].known = lease[i].known /\ lease'[i].card = lease[i].card
    BY DEF LeasesAge, Ages
  <2>2. CASE k \in DOMAIN audit
    <3>1. Hides(audit[k]) /\ audit[k].card = audit'[k].card
      BY <2>2 DEF AuditsAge, Hides
    <3> QED  BY <2>1, <2>2, <3>1 DEF IInv, HandledCardsStayAway
  <2>3. CASE k \notin DOMAIN audit
    <3>1. k > Len(audit) /\ lease[i].known <= Len(audit) /\ k \in Nat
      BY <1>1, <1>2, <2>3 DEF IInv, KnownIsPast
    <3> QED  BY <1>1, <1>3, <2>1, <3>1
  <2> QED  BY <2>2, <2>3
<1> QED
  BY <1>4, <1>5, <1>6, <1>7

\* An audited lease stays audited.
LEMMA AuditedStays ==
  ASSUME IInv, AuditsAge,
         \A i \in DOMAIN lease' : lease'[i].state = "completed" =>
           /\ i \in DOMAIN lease /\ lease[i].state = "completed"
           /\ lease'[i].card = lease[i].card /\ lease'[i].admin = lease[i].admin
  PROVE  CompletedIsAudited'
<1> SUFFICES ASSUME NEW i \in DOMAIN lease', lease'[i].state = "completed"
             PROVE  \E k \in DOMAIN audit' : /\ audit'[k].card = lease'[i].card
                                             /\ audit'[k].admin = lease'[i].admin
                                             /\ audit'[k].verb \notin {"reject", "revert"}
  BY DEF CompletedIsAudited
<1>1. PICK k \in DOMAIN audit : /\ audit[k].card = lease[i].card
                               /\ audit[k].admin = lease[i].admin
                               /\ audit[k].verb \notin {"reject", "revert"}
  BY DEF IInv, CompletedIsAudited
<1> QED
  BY <1>1 DEF AuditsAge

-----------------------------------------------------------------------------
(* Every step preserves the invariant.                                     *)

\* What an action has to show when it adds no lease and completes none: that
\* the job it moves is backed afterwards.
LEMMA MoveStep ==
  ASSUME IInv, TypeOK', LeasesAge, AuditsAge, DOMAIN lease' = DOMAIN lease,
         \A i \in DOMAIN lease : lease'[i].state = "completed" => lease[i].state = "completed",
         \A p \in Proc : job'[p] = job[p] \/ (ClaimIsBacked(p)' /\ ActIsBacked(p)')
  PROVE  IInv'
<1>1. CompletedIsAudited'
  BY AuditedStays DEF LeasesAge, Ages
<1>2. \A p \in Proc : ClaimIsBacked(p)' /\ ActIsBacked(p)'
  BY BackedStays
<1> QED
  BY <1>1, <1>2, RowsStay DEF IInv

\* The rows of a new batch: their claim saw no active lease of its
\* administrator, no active lease and no standing action on their cards.
LEMMA InsertStep ==
  ASSUME IInv, TypeOK', LeasesAge, AuditsAge, NEW p \in Proc, InsertLeases(p)
  PROVE  IInv'
<1>1. TypeOK /\ ClaimIsBacked(p) /\ job[p] \in Job /\ job[p].step = "insert"
  BY DEF IInv, InsertLeases, At, TypeOK
<1>2. /\ job[p].asked \in Nat /\ job[p].seen \in Nat /\ job[p].known \in Nat
      /\ job[p].known <= Len(audit)
      /\ \A i \in DOMAIN lease :
           i <= job[p].asked /\ lease[i].admin = job[p].admin => ~Active(lease[i])
      /\ \A i \in DOMAIN lease :
           i <= job[p].seen /\ lease[i].card \in job[p].cards => ~Active(lease[i])
      /\ \A k \in DOMAIN audit :
           k <= job[p].known /\ audit[k].card \in job[p].cards => ~Hides(audit[k])
  BY <1>1, JobFields DEF ClaimIsBacked
<1>3. /\ Len(lease) \in Nat /\ DOMAIN lease = 1..Len(lease)
      /\ Len(audit) \in Nat /\ DOMAIN audit = 1..Len(audit)
      /\ \A i \in DOMAIN lease : lease[i] \in Lease
  BY <1>1, Unaged
<1>4. /\ audit' = audit /\ queueKind' = queueKind
      /\ Goto(p, Idle)
      /\ DOMAIN lease' = 1..Len(lease') /\ Len(lease') \in Nat
  <2>1. lease' \in Seq(Lease)
    BY DEF TypeOK
  <2>2. audit' = audit /\ queueKind' = queueKind /\ Goto(p, Idle)
    BY DEF InsertLeases
  <2> QED  BY <2>1, <2>2
<1>5. /\ \A i \in DOMAIN lease : i \in DOMAIN lease' /\ lease'[i] = lease[i]
      /\ \A i \in DOMAIN lease' \ DOMAIN lease :
           /\ i > Len(lease)
           /\ lease'[i].card \in job[p].cards /\ lease'[i].admin = job[p].admin
           /\ lease'[i].state = "open"
           /\ lease'[i].batch = Len(lease) /\ lease'[i].asked = job[p].asked
           /\ lease'[i].seen = job[p].seen /\ lease'[i].known = job[p].known
      /\ \A i, j \in DOMAIN lease' \ DOMAIN lease :
           lease'[i].card = lease'[j].card => i = j
  BY <1>1, InsertedRows
<1>6. ASSUME NEW i \in DOMAIN lease', NEW j \in DOMAIN lease', i < j, j \in DOMAIN lease
      PROVE  i \in DOMAIN lease
  <2>1. i \in Nat /\ 1 <= i /\ j \in Nat /\ j <= Len(lease)
    BY <1>3, <1>4, <1>6
  <2> QED  BY <1>3, <1>6, <2>1
<1>7. SharedOnlyByOverlap'
  <2> SUFFICES ASSUME NEW i \in DOMAIN lease', NEW j \in DOMAIN lease', i < j,
                      lease'[i].card = lease'[j].card,
                      Active(lease[i])', Active(lease[j])'
               PROVE  lease'[j].seen < i
    BY DEF SharedOnlyByOverlap
  <2>1. CASE j \in DOMAIN lease
    BY <1>5, <1>6, <2>1 DEF IInv, SharedOnlyByOverlap, Active
  <2>2. CASE j \notin DOMAIN lease
    <3>1. i \in DOMAIN lease
      BY <1>3, <1>4, <1>5, <2>2
    <3>2. ~(i <= job[p].seen)
      BY <1>2, <1>5, <2>2, <3>1 DEF Active
    <3> QED  BY <1>2, <1>3, <1>5, <2>2, <3>1, <3>2
  <2> QED  BY <2>1, <2>2
<1>8. OneBatchUnlessOverlapping'
  <2> SUFFICES ASSUME NEW i \in DOMAIN lease', NEW j \in DOMAIN lease', i < j,
                      lease'[i].admin = lease'[j].admin, lease'[i].batch # lease'[j].batch,
                      Active(lease[i])', Active(lease[j])'
               PROVE  lease'[j].asked < i
    BY DEF OneBatchUnlessOverlapping
  <2>1. CASE j \in DOMAIN lease
    BY <1>5, <1>6, <2>1 DEF IInv, OneBatchUnlessOverlapping, Active
  <2>2. CASE j \notin DOMAIN lease
    <3>1. i \in DOMAIN lease
      BY <1>5, <2>2
    <3>2. ~(i <= job[p].asked)
      BY <1>2, <1>5, <2>2, <3>1 DEF Active
    <3> QED  BY <1>2, <1>3, <1>5, <2>2, <3>1, <3>2
  <2> QED  BY <2>1, <2>2
<1>9. HandledCardsStayAway' /\ KnownIsPast'
  <2>1. ASSUME NEW i \in DOMAIN lease'
        PROVE  lease'[i].known <= Len(audit)
    BY <1>2, <1>5 DEF IInv, KnownIsPast
  <2>2. ASSUME NEW i \in DOMAIN lease', NEW k \in DOMAIN audit,
               lease'[i].card = audit[k].card, Hides(audit[k])
        PROVE  lease'[i].known < k
    <3>1. CASE i \in DOMAIN lease
      BY <1>5, <2>2, <3>1 DEF IInv, HandledCardsStayAway
    <3>2. CASE i \notin DOMAIN lease
      <4>1. ~(k <= job[p].known)
        BY <1>2, <1>5, <2>2, <3>2
      <4> QED  BY <1>2, <1>3, <1>5, <3>2, <4>1
    <3> QED  BY <3>1, <3>2
  <2>3. \A k : Hides(audit[k])' = Hides(audit[k])
    BY <1>4 DEF Hides
  <2> QED  BY <1>4, <2>1, <2>2, <2>3 DEF HandledCardsStayAway, KnownIsPast
<1>10. CompletedIsAudited'
  <2>1. \A i \in DOMAIN lease' : lease'[i].state = "completed" =>
          /\ i \in DOMAIN lease /\ lease[i].state = "completed"
          /\ lease'[i].card = lease[i].card /\ lease'[i].admin = lease[i].admin
    BY <1>5
  <2> QED  BY <2>1, AuditedStays
<1>11. \A q \in Proc : ClaimIsBacked(q)' /\ ActIsBacked(q)'
  <2>1. Idle \in Job
    BY DEF Idle, Job
  <2>2. job'[p] = Idle /\ \A q \in Proc \ {p} : job'[q] = job[q]
    BY <1>1, <1>4, <2>1, GotoType
  <2>3. ClaimIsBacked(p)' /\ ActIsBacked(p)'
    BY <2>2 DEF Idle, ClaimIsBacked, ActIsBacked
  <2> QED  BY <2>2, <2>3, BackedStays
<1> QED
  BY <1>7, <1>8, <1>9, <1>10, <1>11 DEF IInv

\* A completed lease is one its administrator has just audited.
LEMMA CompleteStep ==
  ASSUME IInv, TypeOK', LeasesAge, AuditsAge, NEW p \in Proc, CompleteLease(p)
  PROVE  IInv'
<1>1. TypeOK /\ lease \in Seq(Lease) /\ ActIsBacked(p) /\ job[p].step = "complete"
  BY DEF IInv, TypeOK, CompleteLease, At
<1> DEFINE mine == {i \in ActiveOf(job[p].admin) : lease[i].card = job[p].card}
<1>2. /\ DOMAIN lease' = DOMAIN lease
      /\ \A i \in DOMAIN lease :
           lease'[i] = IF i \in mine THEN [lease[i] EXCEPT !.state = "completed"] ELSE lease[i]
  <2>1. lease' = Ended(mine, "completed")
    BY DEF CompleteLease
  <2> HIDE DEF mine
  <2> QED  BY <1>1, <2>1, EndedType
<1>3. audit' = audit
  BY DEF CompleteLease
<1>4. CompletedIsAudited'
  <2> SUFFICES ASSUME NEW i \in DOMAIN lease', lease'[i].state = "completed"
               PROVE  \E k \in DOMAIN audit' : /\ audit'[k].card = lease'[i].card
                                               /\ audit'[k].admin = lease'[i].admin
                                               /\ audit'[k].verb \notin {"reject", "revert"}
    BY DEF CompletedIsAudited
  <2>1. i \in DOMAIN lease /\ lease'[i].card = lease[i].card /\ lease'[i].admin = lease[i].admin
    BY <1>2 DEF LeasesAge, Ages
  <2>2. CASE i \in mine
    BY <1>1, <1>3, <2>1, <2>2 DEF ActIsBacked, ActiveOf
  <2>3. CASE i \notin mine
    BY <1>2, <1>3, <2>1, <2>3 DEF IInv, CompletedIsAudited
  <2> QED  BY <2>2, <2>3
<1>5. \A q \in Proc : ClaimIsBacked(q)' /\ ActIsBacked(q)'
  <2>1. Idle \in Job /\ Goto(p, Idle)
    BY DEF Idle, Job, CompleteLease
  <2>2. job'[p] = Idle /\ \A q \in Proc \ {p} : job'[q] = job[q]
    BY <1>1, <2>1, GotoType
  <2>3. ClaimIsBacked(p)' /\ ActIsBacked(p)'
    BY <2>2 DEF Idle, ClaimIsBacked, ActIsBacked
  <2> QED  BY <2>2, <2>3, BackedStays
<1> QED
  BY <1>2, <1>4, <1>5, RowsStay DEF IInv

\* It holds of the empty queue.
LEMMA IInvInit == Init => IInv
<1> SUFFICES ASSUME Init PROVE IInv
  OBVIOUS
<1>1. TypeOK
  BY QueueAssumption DEF Init, TypeOK, Content, Idle, Job
<1>2. DOMAIN lease = {} /\ DOMAIN audit = {} /\ \A p \in Proc : job[p].step = "idle"
  BY DEF Init, Idle
<1> QED
  BY <1>1, <1>2 DEF IInv, ClaimIsBacked, ActIsBacked, KnownIsPast, SharedOnlyByOverlap,
     OneBatchUnlessOverlapping, HandledCardsStayAway, CompletedIsAudited

\* And every step keeps it.
LEMMA IInvStep == IInv /\ [Next]_vars => IInv'
<1> SUFFICES ASSUME IInv, [Next]_vars PROVE IInv'
  OBVIOUS
<1>1. TypeOK /\ TypeOK' /\ LeasesAge /\ AuditsAge
  BY StepAges DEF IInv
<1>2. /\ lease \in Seq(Lease) /\ Len(lease) \in Nat /\ DOMAIN lease = 1..Len(lease)
       /\ Len(audit) \in Nat /\ DOMAIN audit = 1..Len(audit)
       /\ queueKind \in QueueKind /\ job' \in [Proc -> Job]
       /\ \A i \in DOMAIN lease : lease[i] \in Lease
  BY <1>1, Unaged DEF TypeOK
<1>3. ASSUME NEW p \in Proc, NEW admin \in Admin, ClaimBatch(p, admin)
      PROVE  IInv'
  <2>1. [step |-> "pick", admin |-> admin, asked |-> Len(lease)] \in Job
    BY <1>2 DEF Job
  <2>2. /\ job'[p] = [step |-> "pick", admin |-> admin, asked |-> Len(lease)]
        /\ \A q \in Proc \ {p} : job'[q] = job[q]
    BY <1>1, <1>3, <2>1, GotoType DEF ClaimBatch
  <2>3. lease' = lease /\ \A i \in DOMAIN lease : lease[i].admin = admin => ~Active(lease[i])
    BY <1>3 DEF ClaimBatch, ActiveOf
  <2>4. ClaimIsBacked(p)' /\ ActIsBacked(p)'
    BY <1>2, <2>2, <2>3 DEF ClaimIsBacked, ActIsBacked, Active
  <2> QED  BY <1>1, <2>2, <2>3, <2>4, MoveStep
<1>4. ASSUME NEW STATE S, lease' = Ended(S, "abandoned"), job' = job
      PROVE  IInv'
  <2>1. /\ DOMAIN lease' = DOMAIN lease
        /\ \A i \in DOMAIN lease :
             lease'[i] = IF i \in S THEN [lease[i] EXCEPT !.state = "abandoned"] ELSE lease[i]
    BY <1>2, <1>4, EndedType
  <2>2. ASSUME NEW row \in Lease
        PROVE  [row EXCEPT !.state = "abandoned"].state = "abandoned"
    BY DEF Lease
  <2>3. \A i \in DOMAIN lease : lease'[i].state = "completed" => lease[i].state = "completed"
    BY <1>2, <2>1, <2>2
  <2> QED  BY <1>1, <1>4, <2>1, <2>3, MoveStep
<1>5. ASSUME NEW p \in Proc, NEW admin \in Admin, NEW card \in Card, NEW handler \in Handlers,
             NEW after \in Content, ActStart(p, admin, card, handler, after)
      PROVE  IInv'
  <2>1. handler.verb \in AllVerbs \ {"revert"}
    BY <1>2, HandlerVerbs
  <2>2. PICK j \in Job : Goto(p, j) /\ j.step \in {"audit", "write"} /\ j.verb = handler.verb
    <3>1. /\ [step |-> "audit", admin |-> admin, card |-> card, verb |-> handler.verb,
              before |-> "lacking", after |-> "lacking"] \in Job
          /\ [step |-> "write", admin |-> admin, card |-> card, verb |-> handler.verb,
              before |-> content[card], after |-> after] \in Job
      BY <1>1, <2>1 DEF Job, Content, TypeOK
    <3> QED  BY <1>5, <3>1 DEF ActStart
  <2>3. job'[p] = j /\ \A q \in Proc \ {p} : job'[q] = job[q]
    BY <1>1, <2>2, GotoType
  <2>4. ClaimIsBacked(p)' /\ ActIsBacked(p)'
    BY <2>1, <2>2, <2>3 DEF ClaimIsBacked, ActIsBacked
  <2> QED  BY <1>1, <1>5, <2>3, <2>4, MoveStep DEF ActStart
<1>6. ASSUME NEW p \in Proc, NEW admin \in Admin, NEW row \in DOMAIN audit,
             RevertStart(p, admin, row)
      PROVE  IInv'
  <2>1. [step |-> "restore", admin |-> admin, row |-> row] \in Job
    BY <1>2 DEF Job
  <2>2. /\ job'[p] = [step |-> "restore", admin |-> admin, row |-> row]
        /\ \A q \in Proc \ {p} : job'[q] = job[q]
    BY <1>1, <1>6, <2>1, GotoType DEF RevertStart
  <2>3. ClaimIsBacked(p)' /\ ActIsBacked(p)'
    BY <1>6, <2>2 DEF ClaimIsBacked, ActIsBacked, RevertStart
  <2> QED  BY <1>1, <1>6, <2>2, <2>3, MoveStep DEF RevertStart
<1>7. ASSUME NEW p \in Proc, Pick(p)
      PROVE  IInv'
  <2>1. /\ ClaimIsBacked(p) /\ job[p].step = "pick"
        /\ job[p] \in [step : {"pick"}, admin : Admin, asked : Nat]
    BY <1>1, <1>7, JobFields DEF Pick, At, IInv, TypeOK
  <2>2. PICK cards \in SUBSET Eligible :
          Goto(p, IF cards = {} THEN Idle
                  ELSE [step |-> "insert", admin |-> job[p].admin, asked |-> job[p].asked,
                        seen |-> Len(lease), known |-> Len(audit), cards |-> cards])
    BY <1>7 DEF Pick
  <2>3. UNCHANGED <<lease, audit, queueKind>>
    BY <1>7 DEF Pick
  <2>4. CASE cards = {}
    <3>1. Idle \in Job /\ Goto(p, Idle)
      BY <2>2, <2>4 DEF Idle, Job
    <3>2. job'[p] = Idle /\ \A q \in Proc \ {p} : job'[q] = job[q]
      BY <1>1, <3>1, GotoType
    <3>3. ClaimIsBacked(p)' /\ ActIsBacked(p)'
      BY <3>2 DEF Idle, ClaimIsBacked, ActIsBacked
    <3> QED  BY <1>1, <2>3, <3>2, <3>3, MoveStep
  <2>5. CASE cards # {}
    <3> DEFINE j == [step |-> "insert", admin |-> job[p].admin, asked |-> job[p].asked,
                     seen |-> Len(lease), known |-> Len(audit), cards |-> cards]
    <3>1. j \in Job /\ Goto(p, j)
      BY <1>2, <2>1, <2>2, <2>5, Pickers DEF Job
    <3>2. job'[p] = j /\ \A q \in Proc \ {p} : job'[q] = job[q]
      <4> HIDE DEF j
      <4> QED  BY <1>1, <3>1, GotoType
    <3>3. /\ \A i \in DOMAIN lease : lease[i].card \in cards => ~Active(lease[i])
          /\ \A k \in DOMAIN audit : audit[k].card \in cards => ~Hides(audit[k])
      BY <1>2, Pickers
    <3>4. ClaimIsBacked(p)'
      <4>1. /\ job'[p].step = "insert" /\ job'[p].admin = job[p].admin
            /\ job'[p].asked = job[p].asked /\ job'[p].seen = Len(lease)
            /\ job'[p].known = Len(audit) /\ job'[p].cards = cards
        BY <3>2
      <4>2. /\ job[p].asked <= Len(lease)
            /\ \A i \in DOMAIN lease :
                 i <= job[p].asked /\ lease[i].admin = job[p].admin => ~Active(lease[i])
        BY <2>1 DEF ClaimIsBacked
      <4> HIDE DEF j
      <4> QED  BY <1>2, <2>3, <3>3, <4>1, <4>2 DEF ClaimIsBacked, Active, Hides
    <3>5. ActIsBacked(p)'
      BY <3>2 DEF ActIsBacked
    <3> HIDE DEF j
    <3> QED  BY <1>1, <2>3, <3>2, <3>4, <3>5, MoveStep
  <2> QED  BY <2>4, <2>5
<1>8. ASSUME NEW p \in Proc, InsertLeases(p)
      PROVE  IInv'
  BY <1>1, <1>8, InsertStep
<1>9. ASSUME NEW p \in Proc, ActWrite(p) \/ ActRefused(p)
      PROVE  IInv'
  <2>1. /\ job[p] \in [step : {"write", "audit", "complete"}, admin : Admin, card : Card,
                       verb : AllVerbs, before : Content, after : Content]
        /\ job[p].verb # "revert"
    BY <1>1, <1>9, JobFields DEF ActWrite, ActRefused, At, IInv, TypeOK, ActIsBacked
  <2>2. /\ [job[p] EXCEPT !.step = "audit"] \in Job
        /\ [job[p] EXCEPT !.step = "audit", !.verb = "skip"] \in Job
    BY <2>1 DEF Job, AllVerbs
  <2>3. PICK j \in Job : Goto(p, j) /\ j.step = "audit" /\ j.verb # "revert"
    BY <1>9, <2>1, <2>2 DEF ActWrite, ActRefused
  <2>4. job'[p] = j /\ \A q \in Proc \ {p} : job'[q] = job[q]
    BY <1>1, <2>3, GotoType
  <2>5. ClaimIsBacked(p)' /\ ActIsBacked(p)'
    BY <2>3, <2>4 DEF ClaimIsBacked, ActIsBacked
  <2>6. lease' = lease
    BY <1>9 DEF ActWrite, ActRefused
  <2> QED  BY <1>1, <2>4, <2>5, <2>6, MoveStep
<1>10. ASSUME NEW p \in Proc, ActLog(p)
      PROVE  IInv'
  <2>1. /\ job[p] \in [step : {"write", "audit", "complete"}, admin : Admin, card : Card,
                       verb : AllVerbs, before : Content, after : Content]
        /\ job[p].verb # "revert"
    BY <1>1, <1>10, JobFields DEF ActLog, At, IInv, TypeOK, ActIsBacked
  <2>2. AuditRow(job[p]) \in Audit
    BY <2>1 DEF AuditRow, Audit
  <2>3. Len(audit') = Len(audit) + 1 /\ audit'[Len(audit) + 1] = AuditRow(job[p])
    BY <1>1, <1>10, <2>2, AppendedAudit DEF ActLog, TypeOK
  <2>4. DOMAIN audit' = 1..Len(audit')
    BY <1>1 DEF TypeOK
  <2>5. Idle \in Job /\ [job[p] EXCEPT !.step = "complete"] \in Job
    BY <2>1 DEF Idle, Job
  <2>6. /\ job'[p] = IF job[p].verb = "reject" THEN Idle ELSE [job[p] EXCEPT !.step = "complete"]
        /\ \A q \in Proc \ {p} : job'[q] = job[q]
    BY <1>1, <1>10, <2>5, GotoType DEF ActLog
  <2>7. Len(audit) + 1 \in DOMAIN audit'
    BY <1>2, <2>3, <2>4
  <2>8. ClaimIsBacked(p)' /\ ActIsBacked(p)'
    <3>1. CASE job[p].verb = "reject"
      BY <2>6, <3>1 DEF Idle, ClaimIsBacked, ActIsBacked
    <3>2. CASE job[p].verb # "reject"
      <4>1. /\ job'[p].step = "complete" /\ job'[p].verb = job[p].verb
            /\ job'[p].card = job[p].card /\ job'[p].admin = job[p].admin
        BY <2>1, <2>6, <3>2
      <4>2. /\ audit'[Len(audit) + 1].card = job[p].card
            /\ audit'[Len(audit) + 1].admin = job[p].admin
            /\ audit'[Len(audit) + 1].verb = job[p].verb
        BY <2>3 DEF AuditRow
      <4> QED  BY <2>1, <2>7, <3>2, <4>1, <4>2 DEF ClaimIsBacked, ActIsBacked
    <3> QED  BY <3>1, <3>2
  <2>9. lease' = lease
    BY <1>10 DEF ActLog
  <2> QED  BY <1>1, <2>6, <2>8, <2>9, MoveStep
<1>11. ASSUME NEW p \in Proc, CompleteLease(p)
      PROVE  IInv'
  BY <1>1, <1>11, CompleteStep
<1>12. ASSUME NEW p \in Proc, RevertRestore(p) \/ RevertMark(p) \/ RevertLog(p)
       PROVE  IInv'
  <2>1. /\ job[p] \in [step : {"restore", "reverse", "log"}, admin : Admin, row : Nat]
        /\ job[p].row \in DOMAIN audit
    BY <1>1, <1>12, JobFields DEF RevertRestore, RevertMark, RevertLog, At, IInv, TypeOK,
       ActIsBacked
  <2>2. /\ Idle \in Job
        /\ [job[p] EXCEPT !.step = "reverse"] \in Job /\ [job[p] EXCEPT !.step = "log"] \in Job
    BY <2>1 DEF Idle, Job
  <2>3. PICK j \in Job : /\ Goto(p, j)
                        /\ \/ j.step = "idle"
                           \/ j.step \in {"reverse", "log"} /\ j.row = job[p].row
    BY <1>12, <2>1, <2>2 DEF RevertRestore, RevertMark, RevertLog, Idle
  <2>4. job'[p] = j /\ \A q \in Proc \ {p} : job'[q] = job[q]
    BY <1>1, <2>3, GotoType
  <2>5. ClaimIsBacked(p)' /\ ActIsBacked(p)'
    BY <1>1, <2>1, <2>3, <2>4 DEF ClaimIsBacked, ActIsBacked, AuditsAge
  <2>6. lease' = lease
    BY <1>12 DEF RevertRestore, RevertMark, RevertLog
  <2> QED  BY <1>1, <2>4, <2>5, <2>6, MoveStep
<1>13. ASSUME NEW p \in Proc, Fail(p)
       PROVE  IInv'
  <2>1. Idle \in Job /\ Goto(p, Idle) /\ lease' = lease
    BY <1>13 DEF Idle, Job, Fail
  <2>2. job'[p] = Idle /\ \A q \in Proc \ {p} : job'[q] = job[q]
    BY <1>1, <2>1, GotoType
  <2>3. ClaimIsBacked(p)' /\ ActIsBacked(p)'
    BY <2>2 DEF Idle, ClaimIsBacked, ActIsBacked
  <2> QED  BY <1>1, <2>1, <2>2, <2>3, MoveStep
<1>14. ASSUME NEW b, ExpireBatch(b)
       PROVE  IInv'
  <2>1. ASSUME NEW row \in Lease
        PROVE  [row EXCEPT !.expired = TRUE].state = row.state
    BY DEF Lease
  <2>2. DOMAIN lease' = DOMAIN lease /\ job' = job
    BY <1>14 DEF ExpireBatch
  <2>3. \A i \in DOMAIN lease : lease'[i] \in {lease[i], [lease[i] EXCEPT !.expired = TRUE]}
    BY <1>14 DEF ExpireBatch
  <2>4. \A i \in DOMAIN lease : lease'[i].state = lease[i].state
    BY <1>2, <2>1, <2>3
  <2> QED  BY <1>1, <2>2, <2>4, MoveStep
<1>15. ASSUME UNCHANGED <<lease, job>>
       PROVE  IInv'
  BY <1>1, <1>15, MoveStep
<1>16. ASSUME NEW p \in Proc, NEW admin \in Admin, ReleaseBatch(p, admin)
       PROVE  IInv'
  <2>1. lease' = Ended(ActiveOf(admin), "abandoned") /\ job' = job
    BY <1>16 DEF ReleaseBatch
  <2> QED  BY <1>4, <2>1
<1>17. ASSUME SweepExpiredLeases
       PROVE  IInv'
  <2>1. lease' = Ended(Overdue, "abandoned") /\ job' = job
    BY <1>17 DEF SweepExpiredLeases
  <2> QED  BY <1>4, <2>1
<1> QED
  BY <1>3, <1>5, <1>6, <1>7, <1>8, <1>9, <1>10, <1>11, <1>12, <1>13, <1>14, <1>15, <1>16, <1>17
  DEF Next, Progress, Request, Environment, Age, Arise, ResolveIssue, vars

-----------------------------------------------------------------------------
(* The theorems.                                                           *)

\* The invariant holds in every state of every behaviour.
LEMMA IInvHolds == Spec => []IInv
<1>1. Init => IInv
  BY IInvInit
<1>2. IInv /\ [Next]_vars => IInv'
  BY IInvStep
<1> QED
  BY <1>1, <1>2, PTL DEF Spec

\* The types of AdminQueue hold for any administrators and cards.
THEOREM TypeCorrect == Spec => []TypeOK
<1>1. IInv => TypeOK
  BY DEF IInv
<1> QED
  BY <1>1, IInvHolds, PTL

\* claim-batch shares a card between two administrators only when their claims
\* overlap (claimBatch, claimSpIds).
THEOREM LeasesAreExclusive == Spec => []SharedOnlyByOverlap
<1>1. IInv => SharedOnlyByOverlap
  BY DEF IInv
<1> QED
  BY <1>1, IInvHolds, PTL

\* An administrator holds a second batch only when two claims of his own
\* overlap: claim-batch returns what he holds before it picks (claimBatch).
THEOREM BatchesDoNotStack == Spec => []OneBatchUnlessOverlapping
<1>1. IInv => OneBatchUnlessOverlapping
  BY DEF IInv
<1> QED
  BY <1>1, IInvHolds, PTL

\* The pickers keep a card away while an action on it is young and stands; only
\* a claim that picked before the action was logged can still lease the card.
THEOREM HandledCardsAreKept == Spec => []HandledCardsStayAway
<1>1. IInv => HandledCardsStayAway
  BY DEF IInv
<1> QED
  BY <1>1, IInvHolds, PTL

\* A completed lease has an audited action of its holder behind it
\* (logAdminAction before completeLease in every handler).
THEOREM CompletionsAreAudited == Spec => []CompletedIsAudited
<1>1. IInv => CompletedIsAudited
  BY DEF IInv
<1> QED
  BY <1>1, IInvHolds, PTL

\* A lease ends once, and never by an answer that comes too late
\* (completeLease, releaseAdminBatch and sweepExpiredLeases test the row they
\* update).
THEOREM LateAnswersAreIgnored == Spec => LateAnswersDoNotComplete
<1> DEFINE Kept == \A i \in DOMAIN lease :
             /\ lease[i].state # "open" => lease'[i].state = lease[i].state
             /\ lease[i].expired => lease'[i].state # "completed" \/ lease[i].state = "completed"
<1>1. ASSUME IInv, [Next]_vars
      PROVE  Kept
  <2>1. lease \in Seq(Lease) /\ \A i \in DOMAIN lease : lease[i] \in Lease
    BY <1>1, Unaged DEF IInv, TypeOK
  <2>2. CASE lease' = lease
    BY <2>2
  <2>3. ASSUME NEW p \in Proc, InsertLeases(p)
        PROVE  Kept
    <3>1. \A i \in DOMAIN lease : lease'[i] = lease[i]
      BY <1>1, <2>3, InsertedRows DEF IInv
    <3> QED  BY <3>1
  <2>4. ASSUME NEW STATE S, NEW state \in {"completed", "abandoned"}, lease' = Ended(S, state),
               \A i \in S : i \in DOMAIN lease => lease[i].state = "open",
               state = "completed" => \A i \in S : i \in DOMAIN lease => ~lease[i].expired
        PROVE  Kept
    <3>1. \A i \in DOMAIN lease :
            lease'[i] = IF i \in S THEN [lease[i] EXCEPT !.state = state] ELSE lease[i]
      BY <2>1, <2>4, EndedType
    <3>2. ASSUME NEW row \in Lease
          PROVE  [row EXCEPT !.state = state].state = state
      BY DEF Lease
    <3> SUFFICES ASSUME NEW i \in DOMAIN lease
                 PROVE  /\ lease[i].state # "open" => lease'[i].state = lease[i].state
                        /\ lease[i].expired => \/ lease'[i].state # "completed"
                                               \/ lease[i].state = "completed"
      OBVIOUS
    <3>3. CASE i \in S
      <4>1. lease'[i].state = state
        BY <2>1, <3>1, <3>2, <3>3
      <4> QED  BY <2>4, <3>3, <4>1
    <3>4. CASE i \notin S
      BY <3>1, <3>4
    <3> QED  BY <3>3, <3>4
  <2>5. ASSUME NEW b, ExpireBatch(b)
        PROVE  Kept
    <3>1. ASSUME NEW row \in Lease
          PROVE  [row EXCEPT !.expired = TRUE].state = row.state
      BY DEF Lease
    <3>2. \A i \in DOMAIN lease : lease'[i] \in {lease[i], [lease[i] EXCEPT !.expired = TRUE]}
      BY <2>5 DEF ExpireBatch
    <3> QED  BY <2>1, <3>1, <3>2
  <2>6. ASSUME NEW p \in Proc, NEW admin \in Admin, ReleaseBatch(p, admin)
        PROVE  Kept
    <3>1. \A i \in ActiveOf(admin) : lease[i].state = "open"
      BY DEF ActiveOf, Active
    <3> QED  BY <2>4, <2>6, <3>1 DEF ReleaseBatch
  <2>7. ASSUME NEW p \in Proc, CompleteLease(p)
        PROVE  Kept
    <3>1. \A i \in {i \in ActiveOf(job[p].admin) : lease[i].card = job[p].card} :
            lease[i].state = "open" /\ ~lease[i].expired
      BY DEF ActiveOf, Active
    <3> QED  BY <2>4, <2>7, <3>1 DEF CompleteLease
  <2>8. ASSUME SweepExpiredLeases
        PROVE  Kept
    <3>1. \A i \in Overdue : lease[i].state = "open"
      BY DEF Overdue
    <3> QED  BY <2>4, <2>8, <3>1 DEF SweepExpiredLeases
  <2> HIDE DEF Kept
  <2>9. ASSUME NEW p \in Proc,
               Pick(p) \/ ActWrite(p) \/ ActRefused(p) \/ ActLog(p) \/ RevertRestore(p)
                 \/ RevertMark(p) \/ RevertLog(p) \/ Fail(p)
        PROVE  lease' = lease
    BY <2>9 DEF Pick, ActWrite, ActRefused, ActLog, RevertRestore, RevertMark, RevertLog, Fail
  <2>10. ASSUME NEW p \in Proc, NEW admin \in Admin, Request(p, admin), ~ReleaseBatch(p, admin)
         PROVE  lease' = lease
    BY <2>10 DEF Request, ClaimBatch, ActStart, RevertStart
  <2>11. ASSUME Environment, \A b : ~ExpireBatch(b)
         PROVE  lease' = lease
    BY <2>11 DEF Environment, Age, Arise, ResolveIssue
  <2>12. UNCHANGED vars => lease' = lease
    BY DEF vars
  <2> QED  BY <1>1, <2>2, <2>3, <2>5, <2>6, <2>7, <2>8, <2>9, <2>10, <2>11, <2>12 DEF Next, Progress
<1>2. Kept <=> \A i \in DOMAIN lease :
             /\ lease[i].state # "open" => lease'[i].state = lease[i].state
             /\ lease[i].expired => lease'[i].state # "completed" \/ lease[i].state = "completed"
  OBVIOUS
<1>3. IInv /\ [Next]_vars => [Kept]_lease
  BY <1>1
<1> QED
  BY <1>2, <1>3, IInvHolds, PTL DEF Spec, LateAnswersDoNotComplete
=============================================================================
