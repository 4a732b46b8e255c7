---------------------------- MODULE LedgerProofs ----------------------------
(***************************************************************************)
(* What the operators of HouseholdLedger return, for every set of members, *)
(* receipts and amounts, and what an append does to a log.                 *)
(***************************************************************************)
EXTENDS HouseholdLedger, FoldProofs, SequenceTheorems

\* Division by a positive number.
LEMMA DivisionType ==
  ASSUME NEW a \in Nat, NEW n \in Nat \ {0}
  PROVE  a \div n \in Nat /\ a % n \in 0..(n - 1)
  OBVIOUS

\* The participants are counted by a natural number, positive if there are any.
LEMMA CountType ==
  ASSUME NEW P \in SUBSET Member
  PROVE  IsFiniteSet(P) /\ Cardinality(P) \in Nat /\ (P # {} => Cardinality(P) # 0)
<1>1. IsFiniteSet(P)
  BY MemberAssumption, FS_Subset
<1>2. QED
  BY <1>1, FS_CardinalityType, FS_EmptySet

\* Every split is a share in cents for each member.
LEMMA SharesType ==
  ASSUME NEW r \in Int, NEW amount \in Nat, NEW P \in SUBSET Member
  PROVE  ComputeShares(r, amount, P) \in [Member -> Nat]
<1> DEFINE n == Cardinality(P)
           extra(m) == IF (PositionIn(m, P) - r) % n < amount % n THEN 1 ELSE 0
<1>1. ASSUME NEW m \in P
      PROVE  amount \div n + extra(m) \in Nat
  <2>1. n \in Nat \ {0}
    BY CountType
  <2>2. amount \div n \in Nat
    BY <2>1, DivisionType
  <2>3. extra(m) \in {0, 1}
    OBVIOUS
  <2> HIDE DEF extra, n
  <2>4. QED
    BY <2>2, <2>3
<1> HIDE DEF extra, n
<1>2. ASSUME NEW m \in Member
      PROVE  (IF m \in P THEN amount \div n + extra(m) ELSE 0) \in Nat
  BY <1>1
<1>3. QED
  BY <1>2 DEF ComputeShares, extra, n

\* A receipt changes every balance by a whole number of cents.
LEMMA EffectType ==
  ASSUME NEW payer \in Member, NEW amount \in Nat, NEW shares \in [Member -> Nat]
  PROVE  ReceiptEffect(payer, amount, shares) \in [Member -> Int]
  BY DEF ReceiptEffect

\* The events the handlers build are events.
LEMMA ReceiptRecordedType ==
  ASSUME NEW r \in Receipt, NEW payer \in Member, NEW amount \in Nat, NEW P \in SUBSET Member
  PROVE  ReceiptRecorded(r, payer, amount, P) \in ReceiptEvent
  BY SharesType, ReceiptAssumption DEF ReceiptRecorded, ReceiptEvent

\* A correction built from what was in force is an adjustment event.
LEMMA AdjustmentType ==
  ASSUME NEW r \in Receipt, NEW amount \in Nat,
         NEW before \in [payer : Member, amount : Nat, participants : SUBSET Member,
                         shares : [Member -> Nat]]
  PROVE  Adjustment(r, before, amount) \in AdjustmentEvent
<1> DEFINE shares == ComputeShares(r, amount, before.participants)
           old == ReceiptEffect(before.payer, before.amount, before.shares)
           new == ReceiptEffect(before.payer, amount, shares)
<1>1. shares \in [Member -> Nat]
  BY SharesType, ReceiptAssumption
<1>2. old \in [Member -> Int] /\ new \in [Member -> Int]
  BY <1>1, EffectType
<1> HIDE DEF shares, old, new
<1>3. [m \in Member |-> new[m] - old[m]] \in [Member -> Int]
  BY <1>2
<1>4. QED
  BY <1>1, <1>3 DEF Adjustment, AdjustmentEvent, shares, old, new

-----------------------------------------------------------------------------
(* Reading the log.                                                        *)

\* The proposals of a log are proposals.
LEMMA ProposalsType ==
  ASSUME NEW log \in Seq(Event), NEW e \in Proposals(log)
  PROVE  e \in ProposalEvent /\ \E i \in DOMAIN log : log[i] = e
<1>1. PICK i \in DOMAIN log : log[i] = e
  BY DEF Proposals, EventsOf, ToSet
<1>2. e \in Event /\ e.type = "settlement_proposed"
  BY <1>1, LenProperties, ElementOfSeq DEF Proposals, EventsOf
<1>3. QED
  BY <1>1, <1>2 DEF Event, ReceiptEvent, MemberEvent, ProposalEvent, ConfirmEvent, AdjustmentEvent

\* The position of a receipt that was recorded.
LEMMA RecordedAtIsARecord ==
  ASSUME NEW log \in Seq(Event), NEW r \in RecordedReceipts(log)
  PROVE  /\ RecordedAt(log, r) \in DOMAIN log
         /\ log[RecordedAt(log, r)] \in ReceiptEvent
         /\ log[RecordedAt(log, r)].receipt = r
<1>1. PICK i \in DOMAIN log : log[i].type = "receipt_recorded" /\ log[i].receipt = r
  BY DEF RecordedReceipts, EventsOf, ToSet
<1>2. /\ RecordedAt(log, r) \in DOMAIN log
      /\ log[RecordedAt(log, r)].type = "receipt_recorded"
      /\ log[RecordedAt(log, r)].receipt = r
  BY <1>1 DEF RecordedAt
<1>3. log[RecordedAt(log, r)] \in Event
  BY <1>2, LenProperties, ElementOfSeq
<1>4. QED
  BY <1>2, <1>3 DEF Event, ReceiptEvent, MemberEvent, ProposalEvent, ConfirmEvent, AdjustmentEvent

\* What the corrections of a receipt are made of.
LEMMA EffectiveReceiptType ==
  ASSUME NEW log \in Seq(Event), NEW r \in RecordedReceipts(log)
  PROVE  EffectiveReceipt(log, r) \in [payer : Member, amount : Nat, participants : SUBSET Member,
                                       shares : [Member -> Nat]]
<1> DEFINE recorded == log[RecordedAt(log, r)]
           last == {i \in Corrections(log, r) : \A j \in Corrections(log, r) : j <= i}
           current == IF last = {} THEN recorded ELSE log[CHOOSE i \in last : TRUE]
<1>1. recorded \in ReceiptEvent
  BY RecordedAtIsARecord
<1>2. ASSUME NEW i \in last
      PROVE  log[i] \in AdjustmentEvent
  <2>1. log[i] \in Event /\ log[i].type = "adjustment"
    BY LenProperties, ElementOfSeq DEF Corrections
  <2>2. QED
    BY <2>1 DEF Event, ReceiptEvent, MemberEvent, ProposalEvent, ConfirmEvent, AdjustmentEvent
<1> HIDE DEF recorded, last
<1>3. current \in ReceiptEvent \cup AdjustmentEvent
  BY <1>1, <1>2
<1> HIDE DEF current
<1>4. current.amount \in Nat /\ current.participants \in SUBSET Member
        /\ current.shares \in [Member -> Nat] /\ recorded.payer \in Member
  BY <1>1, <1>3 DEF ReceiptEvent, AdjustmentEvent
<1>5. QED
  BY <1>4 DEF EffectiveReceipt, recorded, last, current

-----------------------------------------------------------------------------
(* Appending.                                                              *)

\* longer is log with ev inserted behind the first n events.
InsertedBehind(longer, log, n, ev) ==
  /\ longer \in Seq(Event) /\ n \in 0..Len(log)
  /\ Len(longer) = Len(log) + 1
  /\ longer[n + 1] = ev
  /\ \A i \in 1..n : longer[i] = log[i]
  /\ \A i \in (n + 1)..Len(log) : longer[i + 1] = log[i]

\* An append leaves the log alone or puts a new event at its end.
LEMMA AppendOnceInserts ==
  ASSUME NEW log \in Seq(Event), NEW ev \in Event
  PROVE  \/ AppendOnce(log, ev) = log
         \/ ~Duplicate(log, ev) /\ InsertedBehind(AppendOnce(log, ev), log, Len(log), ev)
<1>1. CASE Duplicate(log, ev)
  BY <1>1 DEF AppendOnce
<1>2. CASE ~Duplicate(log, ev)
  <2>1. AppendOnce(log, ev) = Append(log, ev)
    BY <1>2 DEF AppendOnce
  <2>2. /\ Append(log, ev) \in Seq(Event)
        /\ Len(Append(log, ev)) = Len(log) + 1
        /\ Append(log, ev)[Len(log) + 1] = ev
        /\ \A i \in 1..Len(log) : Append(log, ev)[i] = log[i]
    BY AppendProperties
  <2>3. QED
    BY <1>2, <2>1, <2>2, LenProperties DEF InsertedBehind
<1>3. QED
  BY <1>1, <1>2

\* So does a back-dated append, at the place of its instant.
LEMMA BackdateOnceInserts ==
  ASSUME NEW log \in Seq(Event), NEW n \in 0..Len(log), NEW ev \in Event
  PROVE  \/ BackdateOnce(log, n, ev) = log
         \/ ~Duplicate(log, ev) /\ InsertedBehind(BackdateOnce(log, n, ev), log, n, ev)
<1> DEFINE front == SubSeq(log, 1, n)
           back == SubSeq(log, n + 1, Len(log))
<1>1. CASE Duplicate(log, ev)
  BY <1>1 DEF BackdateOnce
<1>2. CASE ~Duplicate(log, ev)
  <2>1. Len(log) \in Nat /\ \A i \in 1..Len(log) : log[i] \in Event
    BY LenProperties, ElementOfSeq
  <2>2. /\ front \in Seq(Event) /\ Len(front) = n
        /\ \A i \in 1..n : front[i] = log[i]
    BY <2>1, SubSeqProperties
  <2>3. /\ back \in Seq(Event) /\ Len(back) = Len(log) - n
        /\ \A i \in 1..(Len(log) - n) : back[i] = log[n + i]
    BY <2>1, SubSeqProperties
  <2>4. <<ev>> \in Seq(Event) /\ Len(<<ev>>) = 1 /\ <<ev>>[1] = ev
    OBVIOUS
  <2> HIDE DEF front, back
  <2>5. /\ front \o <<ev>> \in Seq(Event) /\ Len(front \o <<ev>>) = n + 1
        /\ \A i \in 1..n : (front \o <<ev>>)[i] = log[i]
        /\ (front \o <<ev>>)[n + 1] = ev
    BY <2>2, <2>4, ConcatProperties
  <2>6. /\ (front \o <<ev>>) \o back \in Seq(Event)
        /\ Len((front \o <<ev>>) \o back) = Len(log) + 1
        /\ \A i \in 1..(n + 1) : ((front \o <<ev>>) \o back)[i] = (front \o <<ev>>)[i]
        /\ \A i \in (n + 1)..Len(log) : ((front \o <<ev>>) \o back)[i + 1] = back[i - n]
    BY <2>1, <2>3, <2>5, ConcatProperties
  <2>7. BackdateOnce(log, n, ev) = (front \o <<ev>>) \o back
    <3>1. (n + 1) - 1 = n
      OBVIOUS
    <3>2. QED
      BY <1>2, <3>1 DEF BackdateOnce, InsertAt, front, back
  <2>8. /\ BackdateOnce(log, n, ev)[n + 1] = ev
        /\ \A i \in 1..n : BackdateOnce(log, n, ev)[i] = log[i]
    BY <2>5, <2>6, <2>7
  <2>9. \A i \in (n + 1)..Len(log) : BackdateOnce(log, n, ev)[i + 1] = log[i]
    <3>1. SUFFICES ASSUME NEW i \in (n + 1)..Len(log)
                   PROVE  BackdateOnce(log, n, ev)[i + 1] = log[i]
      OBVIOUS
    <3>2. i - n \in 1..(Len(log) - n) /\ n + (i - n) = i
      BY <2>1
    <3>3. back[i - n] = log[i]
      BY <2>3, <3>2
    <3>4. QED
      BY <2>6, <2>7, <3>3
  <2>10. QED
    BY <1>2, <2>6, <2>7, <2>8, <2>9 DEF InsertedBehind
<1>3. QED
  BY <1>1, <1>2

\* Where an event stands after ev was inserted behind the first n.
ShiftedBehind(n, i) == IF i <= n THEN i ELSE i + 1

\* An insertion leaves the events before it in place and moves the others up by
\* one.
LEMMA InsertionShifts ==
  ASSUME NEW history \in Seq(Event), NEW longer, NEW n, NEW ev,
         InsertedBehind(longer, history, n, ev)
  PROVE  /\ \A i \in DOMAIN history : /\ ShiftedBehind(n, i) \in DOMAIN longer
                                      /\ longer[ShiftedBehind(n, i)] = history[i]
         /\ \A k \in DOMAIN longer :
              \/ k = n + 1 /\ longer[k] = ev
              \/ \E i \in DOMAIN history : k = ShiftedBehind(n, i) /\ longer[k] = history[i]
<1>1. /\ DOMAIN history = 1..Len(history) /\ Len(history) \in Nat
      /\ DOMAIN longer = 1..(Len(history) + 1) /\ n \in 0..Len(history)
  BY LenProperties DEF InsertedBehind
<1>2. ASSUME NEW i \in DOMAIN history
      PROVE  ShiftedBehind(n, i) \in DOMAIN longer /\ longer[ShiftedBehind(n, i)] = history[i]
  BY <1>1 DEF ShiftedBehind, InsertedBehind
<1>3. ASSUME NEW k \in DOMAIN longer, k # n + 1
      PROVE  \E i \in DOMAIN history : k = ShiftedBehind(n, i)
  <2>1. CASE k <= n
    BY <1>1, <2>1 DEF ShiftedBehind
  <2>2. CASE k > n
    <3>1. k - 1 \in DOMAIN history /\ k = ShiftedBehind(n, k - 1)
      BY <1>1, <1>3, <2>2 DEF ShiftedBehind
    <3>2. QED
      BY <3>1
  <2>3. QED
    BY <1>1, <2>1, <2>2
<1>4. QED
  BY <1>2, <1>3 DEF InsertedBehind

\* An inserted event joins the events of its type and no others.
LEMMA InsertionAddsToItsType ==
  ASSUME NEW history \in Seq(Event), NEW longer, NEW n, NEW ev,
         InsertedBehind(longer, history, n, ev), NEW type
  PROVE  /\ ev.type = type => EventsOf(longer, type) = EventsOf(history, type) \cup {ev}
         /\ ev.type # type => EventsOf(longer, type) = EventsOf(history, type)
<1>1. n + 1 \in DOMAIN longer /\ longer[n + 1] = ev
  BY LenProperties DEF InsertedBehind
<1>2. ToSet(longer) = ToSet(history) \cup {ev}
  BY <1>1, InsertionShifts DEF ToSet
<1>3. QED
  BY <1>2 DEF EventsOf

-----------------------------------------------------------------------------
(* Folding.                                                                *)

\* What the fold has gathered after some events.
LState == [balance : [Member -> Int], active : SUBSET Member,
           proposals : SUBSET ProposalEvent, confirmed : SUBSET Settlement, sound : BOOLEAN]

\* Balances added up are balances.
LEMMA PlusType ==
  ASSUME NEW f \in [Member -> Int], NEW g \in [Member -> Int]
  PROVE  Plus(f, g) \in [Member -> Int]
  BY DEF Plus

\* The kinds of event, told by their type.
LEMMA EventKinds ==
  ASSUME NEW e \in Event
  PROVE  /\ e.type \in {"member_joined", "member_left"} => e \in MemberEvent
         /\ e.type = "receipt_recorded" => e \in ReceiptEvent
         /\ e.type = "settlement_proposed" => e \in ProposalEvent
         /\ e.type = "settlement_confirmed" => e \in ConfirmEvent
         /\ e.type = "adjustment" => e \in AdjustmentEvent
         /\ e.type \in {"member_joined", "member_left", "receipt_recorded",
                        "settlement_proposed", "settlement_confirmed", "adjustment"}
  BY DEF Event, ReceiptEvent, MemberEvent, ProposalEvent, ConfirmEvent, AdjustmentEvent

\* What a confirmation does to the fold.
Moved(p) == [m \in Member |-> (IF m = p.from THEN p.amount ELSE 0)
                              - (IF m = p.to THEN p.amount ELSE 0)]

\* What a settlement moves is a table of balances.
LEMMA MovedType ==
  ASSUME NEW p \in ProposalEvent
  PROVE  Moved(p) \in [Member -> Int]
<1>1. p.amount \in Nat
  BY DEF ProposalEvent
<1>2. QED
  BY <1>1 DEF Moved

\* A confirmation does nothing twice, spoils a log without its proposal, or
\* moves what was proposed.
LEMMA ConfirmApplies ==
  ASSUME NEW s \in LState, NEW ev \in ConfirmEvent
  PROVE  \/ ev.sid \in s.confirmed /\ ApplyConfirm(s, ev) = s
         \/ /\ ev.sid \notin s.confirmed
            /\ \A p \in s.proposals : p.sid # ev.sid
            /\ ApplyConfirm(s, ev) = [s EXCEPT !.sound = FALSE]
         \/ /\ ev.sid \notin s.confirmed
            /\ \E p \in s.proposals :
                 /\ p.sid = ev.sid
                 /\ ApplyConfirm(s, ev) = [s EXCEPT !.balance = Plus(s.balance, Moved(p)),
                                                    !.confirmed = s.confirmed \cup {ev.sid}]
<1> DEFINE own == {p \in s.proposals : p.sid = ev.sid}
           p == CHOOSE q \in own : TRUE
<1>1. CASE ev.sid \in s.confirmed
  BY <1>1 DEF ApplyConfirm
<1>2. CASE ev.sid \notin s.confirmed /\ own = {}
  BY <1>2 DEF ApplyConfirm
<1>3. CASE ev.sid \notin s.confirmed /\ own # {}
  <2>1. p \in own
    BY <1>3
  <2>2. ApplyConfirm(s, ev) = [s EXCEPT !.balance = Plus(@, Moved(p)),
                                        !.confirmed = @ \cup {ev.sid}]
    BY <1>3 DEF ApplyConfirm, Moved
  <2> HIDE DEF p
  <2>3. QED
    BY <1>3, <2>1, <2>2
<1>4. QED
  BY <1>1, <1>2, <1>3

\* A confirmation changes neither the members nor the proposals.
LEMMA ConfirmKeeps ==
  ASSUME NEW s \in LState, NEW ev \in ConfirmEvent
  PROVE  ApplyConfirm(s, ev).proposals = s.proposals /\ ApplyConfirm(s, ev).active = s.active
<1>1. CASE ApplyConfirm(s, ev) = s
  BY <1>1
<1>2. CASE ApplyConfirm(s, ev) = [s EXCEPT !.sound = FALSE]
  BY <1>2 DEF LState
<1>3. ASSUME NEW p \in s.proposals,
             ApplyConfirm(s, ev) = [s EXCEPT !.balance = Plus(s.balance, Moved(p)),
                                             !.confirmed = s.confirmed \cup {ev.sid}]
      PROVE  ApplyConfirm(s, ev).proposals = s.proposals /\ ApplyConfirm(s, ev).active = s.active
  BY <1>3 DEF LState
<1>4. QED
  BY <1>1, <1>2, <1>3, ConfirmApplies

\* Every event turns a state of the fold into one.
LEMMA ApplyType ==
  ASSUME NEW s \in LState, NEW ev \in Event
  PROVE  ApplyEvent(s, ev) \in LState
<1>1. /\ s.balance \in [Member -> Int] /\ s.active \in SUBSET Member
      /\ s.proposals \in SUBSET ProposalEvent /\ s.confirmed \in SUBSET Settlement
      /\ s.sound \in BOOLEAN
  BY DEF LState
<1>2. CASE ev.type = "member_joined"
  <2>1. ev.member \in Member
    BY <1>2, EventKinds DEF MemberEvent
  <2>2. QED
    BY <1>1, <1>2, <2>1 DEF ApplyEvent, LState
<1>3. CASE ev.type = "member_left"
  BY <1>1, <1>3 DEF ApplyEvent, LState
<1>4. CASE ev.type = "receipt_recorded"
  <2>1. ReceiptEffect(ev.payer, ev.amount, ev.shares) \in [Member -> Int]
    BY <1>4, EventKinds, EffectType DEF ReceiptEvent
  <2>2. Plus(s.balance, ReceiptEffect(ev.payer, ev.amount, ev.shares)) \in [Member -> Int]
    BY <1>1, <2>1, PlusType
  <2>3. (s.sound /\ TotalOf(ev.shares) = ev.amount) \in BOOLEAN
    OBVIOUS
  <2>4. QED
    BY <1>4, <2>2, <2>3 DEF ApplyEvent, LState
<1>5. CASE ev.type = "settlement_proposed"
  <2>1. ev \in ProposalEvent
    BY <1>5, EventKinds
  <2>2. QED
    BY <1>1, <1>5, <2>1 DEF ApplyEvent, LState
<1>6. CASE ev.type = "settlement_confirmed"
  <2>1. ev \in ConfirmEvent /\ ev.sid \in Settlement
    BY <1>6, EventKinds DEF ConfirmEvent
  <2>2. \A p \in s.proposals : Plus(s.balance, Moved(p)) \in [Member -> Int]
    BY <1>1, MovedType, PlusType
  <2>3. ApplyEvent(s, ev) = ApplyConfirm(s, ev)
    BY <1>6 DEF ApplyEvent
  <2>4. CASE ApplyConfirm(s, ev) = s
    BY <2>3, <2>4
  <2>5. CASE ApplyConfirm(s, ev) = [s EXCEPT !.sound = FALSE]
    BY <2>3, <2>5 DEF LState
  <2>6. ASSUME NEW p \in s.proposals,
               ApplyConfirm(s, ev) = [s EXCEPT !.balance = Plus(s.balance, Moved(p)),
                                               !.confirmed = s.confirmed \cup {ev.sid}]
        PROVE  ApplyConfirm(s, ev) \in LState
    <3> DEFINE b == Plus(s.balance, Moved(p))
               c == s.confirmed \cup {ev.sid}
    <3>1. b \in [Member -> Int] /\ c \in SUBSET Settlement
      BY <1>1, <2>1, <2>2
    <3> HIDE DEF b, c
    <3>2. [s EXCEPT !.balance = b, !.confirmed = c] \in LState
      BY <3>1 DEF LState
    <3>3. QED
      BY <2>6, <3>2 DEF b, c
  <2>7. QED
    BY <2>1, <2>3, <2>4, <2>5, <2>6, ConfirmApplies
<1>7. CASE ev.type = "adjustment"
  <2>1. ev.delta \in [Member -> Int]
    BY <1>7, EventKinds DEF AdjustmentEvent
  <2>2. Plus(s.balance, ev.delta) \in [Member -> Int]
    BY <1>1, <2>1, PlusType
  <2>3. (s.sound /\ TotalOf(ev.delta) = 0) \in BOOLEAN
    OBVIOUS
  <2>4. QED
    BY <1>7, <2>2, <2>3 DEF ApplyEvent, LState
<1>8. QED
  BY <1>2, <1>3, <1>4, <1>5, <1>6, <1>7, EventKinds

\* The fold starts with a state.
LEMMA EmptyStateType == EmptyState \in LState
  BY DEF EmptyState, LState

\* The states deriveLedgerState goes through.
Folding(st, log) ==
  /\ st \in [0..Len(log) -> LState] /\ st[0] = EmptyState
  /\ \A n \in 1..Len(log) : st[n] = ApplyEvent(st[n - 1], log[n])

\* LedgerState goes through the events from the front, one state for each
\* prefix.
LEMMA LedgerFolds ==
  ASSUME NEW log \in Seq(Event)
  PROVE  \E st : Folding(st, log) /\ LedgerState(log) = st[Len(log)]
<1> DEFINE N == Len(log)
           S == 1..N
           step == [i \in S |-> [v \in LState |-> ApplyEvent(v, log[i])]]
           body(h) == [s \in SUBSET S |-> IF s = {} THEN EmptyState
                                          ELSE ApplyEvent(h[s \ {Max(s)}], log[Max(s)])]
<1>1. N \in Nat /\ DOMAIN log = S /\ \A i \in S : log[i] \in Event
  BY LenProperties, ElementOfSeq
<1>2. \A i \in S, v \in LState : step[i][v] = ApplyEvent(v, log[i])
  OBVIOUS
<1>3. \A i \in S, v \in LState : step[i][v] \in LState
  BY <1>1, <1>2, ApplyType
<1> HIDE DEF step, N
<1>4. PICK g : FoldedBy(g, N, LState, EmptyState, step)
  BY ONLY <1>1, <1>3, EmptyStateType, FoldSteps
<1>5. \A s \in SUBSET S : s # {} => Max(s) \in s
  BY <1>1, MaxOfNumbers
<1>6. \A s \in SUBSET S : g[s] = IF s = {} THEN EmptyState
                                 ELSE ApplyEvent(g[s \ {Max(s)}], log[Max(s)])
  <2>1. ASSUME NEW s \in SUBSET S, s # {}
        PROVE  g[s] = ApplyEvent(g[s \ {Max(s)}], log[Max(s)])
    <3>1. Max(s) \in S /\ g[s \ {Max(s)}] \in LState
      BY <1>4, <1>5, <2>1 DEF FoldedBy
    <3>2. QED
      BY <1>2, <1>4, <2>1, <3>1 DEF FoldedBy
  <2>2. {} \in SUBSET S
    OBVIOUS
  <2>3. g[{}] = EmptyState
    BY <1>4, <2>2 DEF FoldedBy
  <2>4. QED
    BY <2>1, <2>3
<1>7. g = body(g)
  BY <1>4, <1>6 DEF FoldedBy
<1>8. PICK it : it = body(it) /\ LedgerState(log) = it[S]
  <2> DEFINE h == CHOOSE h : h = body(h)
  <2>1. LedgerState(log) = h[S]
    BY <1>1 DEF LedgerState, FoldLeft, MapThenFoldSet
  <2>2. h = body(h)
    <3> HIDE DEF body
    <3>1. QED
      BY <1>7
  <2> HIDE DEF h, body
  <2>3. QED
    BY <2>1, <2>2
<1>9. it = g
  <2>1. PICK pick : pick = [s \in SUBSET S |-> Max(s)]
    OBVIOUS
  <2>2. \A s \in SUBSET S : it[s] = IF s = {} THEN EmptyState
                                    ELSE ApplyEvent(it[s \ {Max(s)}], log[Max(s)])
    BY <1>8
  <2>3. UnwindAlike(g, it, S, pick)
    BY <1>5, <1>6, <2>1, <2>2 DEF UnwindAlike
  <2>4. IsFiniteSet(S)
    BY <1>1, FS_Interval
  <2>5. \A s \in SUBSET S : it[s] = g[s]
    <3> HIDE DEF S, body
    <3>1. QED
      BY ONLY <2>3, <2>4, SameUnwinding
  <2>6. it = [s \in SUBSET S |-> it[s]] /\ g = [s \in SUBSET S |-> g[s]]
    BY <1>4, <1>8 DEF FoldedBy
  <2>7. QED
    BY <2>5, <2>6
<1> DEFINE st == [n \in 0..N |-> g[1..n]]
<1>10. st[N] = g[S]
  BY <1>1
<1>11. Folding(st, log)
  <2>1. st \in [0..N -> LState] /\ st[0] = EmptyState /\ \A n \in 1..N : st[n] = step[n][st[n - 1]]
    BY <1>4 DEF Steps, FoldedBy
  <2> HIDE DEF st
  <2>2. ASSUME NEW n \in 1..N
        PROVE  st[n] = ApplyEvent(st[n - 1], log[n])
    <3>1. n - 1 \in 0..N
      BY <1>1
    <3>2. st[n - 1] \in LState
      BY <2>1, <3>1
    <3>3. QED
      BY <1>2, <2>1, <3>2
  <2>3. QED
    BY <2>1, <2>2 DEF Folding, N
<1>12. QED
  BY <1>8, <1>9, <1>10, <1>11 DEF N

-----------------------------------------------------------------------------
(* A split loses no cent.                                                  *)

\* Numbers less than n apart have different remainders.
LEMMA RemaindersDiffer ==
  ASSUME NEW n \in Nat \ {0}, NEW a \in Int, NEW b \in Int, a < b, b - a < n
  PROVE  a % n # b % n
<1> DEFINE p == a \div n
           q == b \div n
<1>1. p \in Int /\ q \in Int /\ a % n \in 0..(n - 1) /\ b % n \in 0..(n - 1)
  OBVIOUS
<1>2. a = n * p + (a % n) /\ b = n * q + (b % n)
  OBVIOUS
<1>3. SUFFICES ASSUME a % n = b % n
               PROVE  FALSE
  OBVIOUS
<1> HIDE DEF p, q
<1>4. b - a = n * (q - p)
  BY <1>1, <1>2, <1>3
<1>5. CASE q - p <= 0
  <2>1. n * (q - p) <= 0
    BY <1>1, <1>5
  <2>2. QED
    BY <1>4, <2>1
<1>6. CASE q - p >= 1
  <2>1. n * (q - p) >= n
    BY <1>1, <1>6
  <2>2. QED
    BY <1>4, <2>1
<1>7. QED
  BY <1>1, <1>5, <1>6

\* The participants stand at different positions.
LEMMA PositionsDiffer ==
  ASSUME NEW P \in SUBSET Member
  PROVE  /\ \A m \in P : PositionIn(m, P) \in 0..(Cardinality(P) - 1)
         /\ \A m, o \in P : PositionIn(m, P) = PositionIn(o, P) => m = o
<1> DEFINE Before(m) == {q \in P : q < m}
<1>1. /\ IsFiniteSet(P) /\ Cardinality(P) \in Nat
      /\ \A m \in P : m \in Nat
      /\ \A m \in P : IsFiniteSet(Before(m)) /\ Cardinality(Before(m)) \in Nat
  BY CountType, MemberAssumption
<1>2. ASSUME NEW m \in P
      PROVE  Cardinality(Before(m)) < Cardinality(P)
  <2>1. Before(m) \in SUBSET P /\ Before(m) # P
    BY <1>1
  <2> HIDE DEF Before
  <2>2. Cardinality(Before(m)) <= Cardinality(P) /\ Cardinality(Before(m)) # Cardinality(P)
    BY <1>1, <2>1, FS_Subset
  <2>3. QED
    BY <1>1, <2>2
<1>3. ASSUME NEW m \in P, NEW o \in P, m < o
      PROVE  Cardinality(Before(m)) # Cardinality(Before(o))
  <2>1. Before(m) \in SUBSET Before(o) /\ Before(m) # Before(o)
    BY <1>1, <1>3
  <2> HIDE DEF Before
  <2>2. QED
    BY <1>1, <2>1, FS_Subset
<1>4. \A m \in P : PositionIn(m, P) = Cardinality(Before(m))
  BY DEF PositionIn
<1> HIDE DEF Before
<1>5. ASSUME NEW m \in P, NEW o \in P, PositionIn(m, P) = PositionIn(o, P)
      PROVE  m = o
  <2>1. ~(m < o) /\ ~(o < m)
    BY <1>3, <1>4, <1>5
  <2>2. QED
    BY <1>1, <2>1
<1>6. \A m \in P : PositionIn(m, P) \in 0..(Cardinality(P) - 1)
  BY <1>1, <1>2, <1>4
<1>7. QED
  BY <1>5, <1>6

\* Where the remainders are all different, as many are below k as there are
\* numbers below k.
LEMMA ResiduesCounted ==
  ASSUME NEW n \in Nat \ {0}, NEW P, IsFiniteSet(P), Cardinality(P) = n,
         NEW F \in [P -> 0..(n - 1)], \A m, o \in P : F[m] = F[o] => m = o,
         NEW k \in 0..(n - 1)
  PROVE  Cardinality({m \in P : F[m] < k}) = k
<1> DEFINE K == {m \in P : F[m] < k}
           G == [m \in K |-> F[m]]
<1>1. F \in Injection(P, 0..(n - 1))
  BY DEF Injection, IsInjective
<1>2. IsFiniteSet(0..(n - 1)) /\ Cardinality(0..(n - 1)) = n
  <2>1. 0 \in Int /\ n - 1 \in Int /\ (IF 0 > n - 1 THEN 0 ELSE (n - 1) - 0 + 1) = n
    OBVIOUS
  <2>2. QED
    BY <2>1, FS_Interval
<1>3. F \in Surjection(P, 0..(n - 1))
  BY <1>1, <1>2, FS_Injection
<1>4. G \in [K -> 0..(k - 1)]
  OBVIOUS
<1>5. G \in Injection(K, 0..(k - 1))
  BY <1>4 DEF Injection, IsInjective
<1>6. ASSUME NEW i \in 0..(k - 1)
      PROVE  \E m \in K : G[m] = i
  <2>1. i \in 0..(n - 1) /\ i < k
    OBVIOUS
  <2>2. PICK m \in P : F[m] = i
    BY <1>3, <2>1 DEF Surjection
  <2>3. QED
    BY <2>1, <2>2
<1>7. G \in Surjection(K, 0..(k - 1))
  BY <1>4, <1>6 DEF Surjection
<1>8. IsFiniteSet(0..(k - 1)) /\ Cardinality(0..(k - 1)) = k
  <2>1. 0 \in Int /\ k - 1 \in Int /\ (IF 0 > k - 1 THEN 0 ELSE (k - 1) - 0 + 1) = k
    OBVIOUS
  <2>2. QED
    BY <2>1, FS_Interval
<1>9. Cardinality(K) = k
  <2> HIDE DEF G, K
  <2>1. QED
    BY <1>5, <1>7, <1>8, FS_Injection
<1>10. QED
  BY <1>9

\* Numbers less than n apart leave different remainders.
LEMMA SameRemainder ==
  ASSUME NEW n \in Nat \ {0}, NEW a \in Int, NEW b \in Int, a % n = b % n,
         a - b < n, b - a < n
  PROVE  a = b
<1>1. ~(a < b)
  BY RemaindersDiffer
<1>2. ~(b < a)
  BY RemaindersDiffer
<1>3. QED
  BY <1>1, <1>2

\* As many participants pay an odd cent as there are odd cents.
LEMMA OddCentsCounted ==
  ASSUME NEW r \in Int, NEW P \in SUBSET Member, P # {},
         NEW k \in 0..(Cardinality(P) - 1)
  PROVE  Cardinality({m \in P : (PositionIn(m, P) - r) % Cardinality(P) < k}) = k
<1> DEFINE n == Cardinality(P)
           F == [m \in P |-> (PositionIn(m, P) - r) % n]
<1>1. IsFiniteSet(P) /\ n \in Nat \ {0}
  BY CountType
<1>2. \A m \in P : PositionIn(m, P) \in 0..(n - 1)
  BY PositionsDiffer
<1> HIDE DEF n
<1>3. F \in [P -> 0..(n - 1)]
  BY <1>1, <1>2
<1>4. ASSUME NEW m \in P, NEW o \in P, F[m] = F[o]
      PROVE  m = o
  <2> DEFINE a == PositionIn(m, P)
             b == PositionIn(o, P)
  <2>1. a \in 0..(n - 1) /\ b \in 0..(n - 1) /\ (a - r) % n = (b - r) % n
    BY <1>2, <1>4
  <2> HIDE DEF a, b
  <2>2. a - r = b - r
    <3>1. a - r \in Int /\ b - r \in Int /\ (a - r) - (b - r) < n /\ (b - r) - (a - r) < n
      BY <1>1, <2>1
    <3>2. QED
      BY <1>1, <2>1, <3>1, SameRemainder
  <2>3. a = b
    BY <1>1, <2>1, <2>2
  <2>4. QED
    BY <2>3, PositionsDiffer DEF a, b
<1> HIDE DEF F
<1>5. Cardinality({m \in P : F[m] < k}) = k
  BY <1>1, <1>3, <1>4, ResiduesCounted DEF n
<1>6. QED
  BY <1>5 DEF F, n

\* The total of a table of members.
LEMMA TotalIsSum ==
  ASSUME NEW f \in [Member -> Int]
  PROVE  TotalOf(f) = SumOver(f, Member) /\ TotalOf(f) \in Int
<1>1. DOMAIN f = Member /\ \A m \in Member : f[m] \in Int
  OBVIOUS
<1>2. TotalOf(f) = SumOver(f, Member)
  BY <1>1 DEF TotalOf, SumOver
<1>3. QED
  BY <1>1, <1>2, SumType, MemberAssumption

\* Every split adds up to its amount.
LEMMA SharesAddUp ==
  ASSUME NEW r \in Int, NEW amount \in Nat, NEW P \in SUBSET Member, P # {}
  PROVE  TotalOf(ComputeShares(r, amount, P)) = amount
<1> DEFINE n == Cardinality(P)
           k == amount % n
           late(m) == (PositionIn(m, P) - r) % n < k
           shares == ComputeShares(r, amount, P)
           floor == [m \in P |-> amount \div n]
           odd == [m \in P |-> IF late(m) THEN 1 ELSE 0]
           O == {m \in P : late(m)}
<1>1. IsFiniteSet(P) /\ n \in Nat \ {0} /\ r \in Int
  BY CountType
<1>2. k \in 0..(n - 1) /\ amount \div n \in Nat
  BY <1>1, DivisionType
<1>3. /\ \A m \in P : shares[m] = floor[m] + odd[m]
      /\ \A m \in Member \ P : shares[m] = 0
  BY DEF ComputeShares
<1>4. shares \in [Member -> Int]
  BY SharesType
<1>5. TotalOf(shares) = SumOver(shares, P)
  <2> HIDE DEF shares
  <2>1. (\A m \in P : shares[m] \in Int) /\ (\A m \in Member \ P : shares[m] = 0)
    BY <1>3, <1>4
  <2>2. QED
    BY <1>4, <2>1, SumOverSupport, TotalIsSum, MemberAssumption
<1>6. SumOver(shares, P) = SumOver(floor, P) + SumOver(odd, P)
  <2>1. \A m \in P : floor[m] \in Int /\ odd[m] \in Int
    BY <1>2
  <2> HIDE DEF shares, floor, odd
  <2>2. Adds(shares, floor, odd, P)
    BY <1>3, <2>1 DEF Adds
  <2>3. QED
    BY <1>1, <2>2, SumOfSums
<1>7. SumOver(floor, P) = (amount \div n) * n
  <2>1. \A m \in P : floor[m] = amount \div n
    OBVIOUS
  <2> HIDE DEF floor
  <2>2. QED
    BY <1>1, <1>2, <2>1, SumOfConstant DEF n
<1>8. SumOver(odd, P) = k
  <2>1. O \in SUBSET P /\ (\A m \in O : odd[m] = 1) /\ (\A m \in P \ O : odd[m] = 0)
    OBVIOUS
  <2>2. Cardinality(O) = k
    BY <1>1, <1>2, OddCentsCounted
  <2> HIDE DEF O, odd
  <2>3. SumOver(odd, P) = SumOver(odd, O)
    BY <1>1, <2>1, SumOverSupport
  <2>4. IsFiniteSet(O)
    BY <1>1, <2>1, FS_Subset
  <2>5. SumOver(odd, O) = 1 * Cardinality(O)
    BY <2>1, <2>4, SumOfConstant
  <2>6. QED
    BY <1>2, <2>2, <2>3, <2>5
<1>9. (amount \div n) * n + k = amount
  <2> HIDE DEF n
  <2>1. QED
    BY <1>1
<1>10. QED
  BY <1>5, <1>6, <1>7, <1>8, <1>9

-----------------------------------------------------------------------------
(* What deriveLedgerState finds in a log.                                  *)

\* The totals of two tables add up.
LEMMA TotalOfPlus ==
  ASSUME NEW f \in [Member -> Int], NEW g \in [Member -> Int]
  PROVE  TotalOf(Plus(f, g)) = TotalOf(f) + TotalOf(g)
<1> DEFINE h == Plus(f, g)
<1>1. h \in [Member -> Int] /\ Adds(h, f, g, Member)
  BY PlusType DEF Plus, Adds
<1> HIDE DEF h
<1>2. SumOver(h, Member) = SumOver(f, Member) + SumOver(g, Member)
  BY <1>1, SumOfSums, MemberAssumption
<1>3. QED
  BY <1>1, <1>2, TotalIsSum DEF h

\* And are subtracted.
LEMMA TotalOfDifference ==
  ASSUME NEW f \in [Member -> Int], NEW g \in [Member -> Int],
         NEW h \in [Member -> Int], \A m \in Member : h[m] = f[m] - g[m]
  PROVE  TotalOf(h) = TotalOf(f) - TotalOf(g)
<1>1. Adds(f, h, g, Member)
  BY DEF Adds
<1>2. SumOver(f, Member) = SumOver(h, Member) + SumOver(g, Member)
  BY <1>1, SumOfSums, MemberAssumption
<1>3. QED
  BY <1>2, TotalIsSum

\* A table with one entry totals that entry.
LEMMA TotalOfPoint ==
  ASSUME NEW a \in Member, NEW c \in Int
  PROVE  /\ [m \in Member |-> IF m = a THEN c ELSE 0] \in [Member -> Int]
         /\ TotalOf([m \in Member |-> IF m = a THEN c ELSE 0]) = c
<1> DEFINE f == [m \in Member |-> IF m = a THEN c ELSE 0]
<1>1. f \in [Member -> Int] /\ PointAt(f, a, c, Member)
  BY DEF PointAt
<1> HIDE DEF f
<1>2. SumOver(f, Member) = c
  BY <1>1, SumOfPoint, MemberAssumption
<1>3. TotalOf(f) = c
  BY <1>1, <1>2, TotalIsSum
<1>4. QED
  BY <1>1, <1>3 DEF f

\* What a receipt moves is what its split leaves over: nothing, if it adds up.
LEMMA EffectTotal ==
  ASSUME NEW payer \in Member, NEW amount \in Nat, NEW shares \in [Member -> Nat]
  PROVE  TotalOf(ReceiptEffect(payer, amount, shares)) = amount - TotalOf(shares)
<1> DEFINE paid == [m \in Member |-> IF m = payer THEN amount ELSE 0]
           effect == ReceiptEffect(payer, amount, shares)
<1>1. paid \in [Member -> Int] /\ TotalOf(paid) = amount
  BY TotalOfPoint
<1>2. effect \in [Member -> Int] /\ shares \in [Member -> Int]
  BY EffectType
<1>3. \A m \in Member : effect[m] = paid[m] - shares[m]
  BY DEF ReceiptEffect
<1> HIDE DEF paid, effect
<1>4. TotalOf(effect) = TotalOf(paid) - TotalOf(shares)
  BY <1>1, <1>2, <1>3, TotalOfDifference
<1>5. QED
  BY <1>1, <1>4 DEF effect

\* A confirmation moves money from one balance to another.
LEMMA MovedTotal ==
  ASSUME NEW p \in ProposalEvent
  PROVE  TotalOf(Moved(p)) = 0
<1> DEFINE got == [m \in Member |-> IF m = p.from THEN p.amount ELSE 0]
           gave == [m \in Member |-> IF m = p.to THEN p.amount ELSE 0]
           moved == Moved(p)
<1>1. p.from \in Member /\ p.to \in Member /\ p.amount \in Nat
  BY DEF ProposalEvent
<1>2. got \in [Member -> Int] /\ TotalOf(got) = p.amount
  BY <1>1, TotalOfPoint
<1>3. gave \in [Member -> Int] /\ TotalOf(gave) = p.amount
  BY <1>1, TotalOfPoint
<1>4. moved \in [Member -> Int]
  BY MovedType
<1>5. \A m \in Member : moved[m] = got[m] - gave[m]
  BY DEF Moved
<1> HIDE DEF got, gave, moved
<1>6. TotalOf(moved) = TotalOf(got) - TotalOf(gave)
  BY <1>2, <1>3, <1>4, <1>5, TotalOfDifference
<1>7. QED
  BY <1>1, <1>2, <1>3, <1>6 DEF moved

\* A correction of a split that adds up moves nothing in total.
LEMMA AdjustmentTotal ==
  ASSUME NEW r \in Receipt, NEW amount \in Nat,
         NEW before \in [payer : Member, amount : Nat, participants : SUBSET Member,
                         shares : [Member -> Nat]],
         before.participants # {}, TotalOf(before.shares) = before.amount
  PROVE  /\ TotalOf(Adjustment(r, before, amount).shares) = amount
         /\ TotalOf(Adjustment(r, before, amount).delta) = 0
<1> DEFINE shares == ComputeShares(r, amount, before.participants)
           old == ReceiptEffect(before.payer, before.amount, before.shares)
           new == ReceiptEffect(before.payer, amount, shares)
           delta == Adjustment(r, before, amount).delta
<1>1. shares \in [Member -> Nat] /\ TotalOf(shares) = amount
  BY SharesType, SharesAddUp, ReceiptAssumption
<1>2. Adjustment(r, before, amount).shares = shares
  BY DEF Adjustment
<1> HIDE DEF shares
<1>3. old \in [Member -> Int] /\ new \in [Member -> Int]
  BY <1>1, EffectType
<1>4. TotalOf(old) = 0 /\ TotalOf(new) = 0
  BY <1>1, EffectTotal
<1>5. delta = [m \in Member |-> new[m] - old[m]]
  BY DEF Adjustment, shares
<1>6. delta \in [Member -> Int] /\ \A m \in Member : delta[m] = new[m] - old[m]
  <2> HIDE DEF old, new, delta
  <2>1. QED
    BY <1>3, <1>5
<1>7. TotalOf(delta) = TotalOf(new) - TotalOf(old)
  <2> HIDE DEF old, new, delta
  <2>1. QED
    BY <1>3, <1>6, TotalOfDifference
<1>8. QED
  BY <1>1, <1>2, <1>4, <1>7

\* A log on which the fold cannot throw: every split adds up, every correction
\* moves nothing in total, and a confirmation comes after its proposal.
SoundEvent(log, i) ==
  /\ log[i].type = "receipt_recorded" => TotalOf(log[i].shares) = log[i].amount
  /\ log[i].type = "adjustment" => TotalOf(log[i].delta) = 0
  /\ log[i].type = "settlement_confirmed" =>
       \E j \in 1..(i - 1) : log[j].type = "settlement_proposed" /\ log[j].sid = log[i].sid

\* The fold knows the proposals it has passed.
LEMMA FoldedProposals ==
  ASSUME NEW log \in Seq(Event), NEW st, Folding(st, log)
  PROVE  \A n \in 0..Len(log) : \A j \in 1..n :
           log[j].type = "settlement_proposed" => log[j] \in st[n].proposals
<1> DEFINE T == {n \in 0..Len(log) : \A j \in 1..n :
                   log[j].type = "settlement_proposed" => log[j] \in st[n].proposals}
<1>1. Len(log) \in Nat /\ \A i \in 1..Len(log) : log[i] \in Event
  BY LenProperties, ElementOfSeq
<1>2. 0 \in T
  BY <1>1
<1>3. ASSUME NEW n \in 1..Len(log), n - 1 \in T
      PROVE  n \in T
  <2> DEFINE s == st[n - 1]
  <2>1. n - 1 \in 0..Len(log) /\ s \in LState /\ st[n] = ApplyEvent(s, log[n])
    BY <1>1 DEF Folding
  <2> HIDE DEF s
  <2>2. /\ s.proposals \subseteq ApplyEvent(s, log[n]).proposals
        /\ log[n].type = "settlement_proposed" => log[n] \in ApplyEvent(s, log[n]).proposals
    <3>1. CASE log[n].type = "settlement_confirmed"
      <4>1. log[n] \in ConfirmEvent
        BY <1>1, <3>1, EventKinds
      <4>2. ApplyConfirm(s, log[n]).proposals = s.proposals
        BY <2>1, <4>1, ConfirmKeeps
      <4>3. QED
        BY <3>1, <4>2 DEF ApplyEvent
    <3>2. CASE log[n].type # "settlement_confirmed"
      BY <1>1, <2>1, <3>2, EventKinds DEF ApplyEvent, LState
    <3>3. QED
      BY <3>1, <3>2
  <2>3. ASSUME NEW j \in 1..n, log[j].type = "settlement_proposed"
        PROVE  log[j] \in st[n].proposals
    <3>1. CASE j = n
      BY <2>1, <2>2, <2>3, <3>1
    <3>2. CASE j # n
      <4>1. j \in 1..(n - 1)
        BY <3>2
      <4>2. log[j] \in s.proposals
        BY <1>3, <2>3, <4>1 DEF s
      <4>3. QED
        BY <2>1, <2>2, <4>2
    <3>3. QED
      BY <3>1, <3>2
  <2>4. QED
    BY <2>3
<1>4. 0..Len(log) \subseteq T
  <2> HIDE DEF T
  <2>1. QED
    BY <1>1, <1>2, <1>3, PrefixInduction
<1>5. QED
  BY <1>4

\* One event applied to a balanced state.
LEMMA SoundStep ==
  ASSUME NEW s \in LState, s.sound, TotalOf(s.balance) = 0, NEW ev \in Event,
         ev.type = "receipt_recorded" => TotalOf(ev.shares) = ev.amount,
         ev.type = "adjustment" => TotalOf(ev.delta) = 0,
         ev.type = "settlement_confirmed" => \E p \in s.proposals : p.sid = ev.sid
  PROVE  ApplyEvent(s, ev).sound /\ TotalOf(ApplyEvent(s, ev).balance) = 0
<1>1. s.balance \in [Member -> Int] /\ s.proposals \subseteq ProposalEvent
  BY DEF LState
<1>2. ASSUME NEW f \in [Member -> Int], TotalOf(f) = 0
      PROVE  TotalOf(Plus(s.balance, f)) = 0
  BY <1>1, <1>2, TotalOfPlus
<1>3. CASE ev.type = "receipt_recorded"
  <2>1. ev.payer \in Member /\ ev.amount \in Nat /\ ev.shares \in [Member -> Nat]
    BY <1>3, EventKinds DEF ReceiptEvent
  <2> DEFINE f == ReceiptEffect(ev.payer, ev.amount, ev.shares)
  <2>2. f \in [Member -> Int] /\ TotalOf(f) = 0
    BY <1>3, <2>1, EffectType, EffectTotal
  <2>3. /\ ApplyEvent(s, ev).balance = Plus(s.balance, f)
        /\ ApplyEvent(s, ev).sound
    BY <1>3 DEF ApplyEvent, LState
  <2> HIDE DEF f
  <2>4. QED
    BY <1>2, <2>2, <2>3
<1>4. CASE ev.type = "adjustment"
  <2>1. ev.delta \in [Member -> Int]
    BY <1>4, EventKinds DEF AdjustmentEvent
  <2>2. /\ ApplyEvent(s, ev).balance = Plus(s.balance, ev.delta)
        /\ ApplyEvent(s, ev).sound
    BY <1>4 DEF ApplyEvent, LState
  <2>3. QED
    BY <1>2, <1>4, <2>1, <2>2
<1>5. CASE ev.type = "settlement_confirmed"
  <2>1. ev \in ConfirmEvent /\ ApplyEvent(s, ev) = ApplyConfirm(s, ev)
    BY <1>5, EventKinds DEF ApplyEvent
  <2>2. CASE ApplyConfirm(s, ev) = s
    BY <2>1, <2>2
  <2>3. ASSUME NEW p \in s.proposals,
               ApplyConfirm(s, ev) = [s EXCEPT !.balance = Plus(s.balance, Moved(p)),
                                               !.confirmed = s.confirmed \cup {ev.sid}]
        PROVE  ApplyConfirm(s, ev).sound /\ TotalOf(ApplyConfirm(s, ev).balance) = 0
    <3>1. Moved(p) \in [Member -> Int] /\ TotalOf(Moved(p)) = 0
      BY <1>1, MovedType, MovedTotal
    <3>2. ApplyConfirm(s, ev).balance = Plus(s.balance, Moved(p)) /\ ApplyConfirm(s, ev).sound
      BY <2>3 DEF LState
    <3>3. QED
      BY <1>2, <3>1, <3>2
  <2>4. QED
    BY <1>5, <2>1, <2>2, <2>3, ConfirmApplies
<1>6. CASE ev.type \in {"member_joined", "member_left", "settlement_proposed"}
  BY <1>6 DEF ApplyEvent, LState
<1>7. QED
  BY <1>3, <1>4, <1>5, <1>6, EventKinds

\* Nothing is owed before the first event.
LEMMA EmptyIsBalanced == EmptyState.sound /\ TotalOf(EmptyState.balance) = 0
<1> DEFINE zero == [m \in Member |-> 0]
<1>1. EmptyState.sound /\ EmptyState.balance = zero
  BY DEF EmptyState
<1>2. zero \in [Member -> Int] /\ (\A m \in Member : zero[m] = 0) /\ 0 \in Int
  OBVIOUS
<1> HIDE DEF zero
<1>3. SumOver(zero, Member) = 0 * Cardinality(Member)
  BY <1>2, SumOfConstant, MemberAssumption
<1>4. Cardinality(Member) \in Nat
  BY FS_CardinalityType, MemberAssumption
<1>5. QED
  BY <1>1, <1>2, <1>3, <1>4, TotalIsSum

\* A sound log folds without an error, and nobody's gain is unmatched.
LEMMA SoundLogFolds ==
  ASSUME NEW log \in Seq(Event), \A i \in 1..Len(log) : SoundEvent(log, i)
  PROVE  FoldSucceeds(log)
<1>1. PICK st : Folding(st, log) /\ LedgerState(log) = st[Len(log)]
  BY LedgerFolds
<1>2. Len(log) \in Nat /\ \A i \in 1..Len(log) : log[i] \in Event
  BY LenProperties, ElementOfSeq
<1> DEFINE T == {n \in 0..Len(log) : st[n].sound /\ TotalOf(st[n].balance) = 0}
<1>3. 0 \in T
  BY <1>1, <1>2, EmptyIsBalanced DEF Folding
<1>4. ASSUME NEW n \in 1..Len(log), n - 1 \in T
      PROVE  n \in T
  <2> DEFINE s == st[n - 1]
  <2>1. n - 1 \in 0..Len(log) /\ s \in LState /\ st[n] = ApplyEvent(s, log[n])
    BY <1>1, <1>2 DEF Folding
  <2>2. s.sound /\ TotalOf(s.balance) = 0
    BY <1>4
  <2>3. log[n].type = "settlement_confirmed" => \E p \in s.proposals : p.sid = log[n].sid
    BY <1>1, <2>1, FoldedProposals DEF SoundEvent
  <2>4. /\ log[n].type = "receipt_recorded" => TotalOf(log[n].shares) = log[n].amount
        /\ log[n].type = "adjustment" => TotalOf(log[n].delta) = 0
    BY DEF SoundEvent
  <2> HIDE DEF s
  <2>5. ApplyEvent(s, log[n]).sound /\ TotalOf(ApplyEvent(s, log[n]).balance) = 0
    BY <1>2, <2>1, <2>2, <2>3, <2>4, SoundStep
  <2>6. QED
    BY <2>1, <2>5
<1>5. 0..Len(log) \subseteq T
  <2> HIDE DEF T
  <2>1. QED
    BY <1>2, <1>3, <1>4, PrefixInduction
<1>6. st[Len(log)].sound /\ TotalOf(st[Len(log)].balance) = 0
  BY <1>2, <1>5
<1>7. QED
  BY <1>1, <1>6 DEF FoldSucceeds, Balance

-----------------------------------------------------------------------------
(* How the fold follows a log that grows or is rewritten.                  *)

\* Logs that begin alike fold alike.
LEMMA FoldsAlike ==
  ASSUME NEW a \in Seq(Event), NEW b \in Seq(Event), NEW sa, NEW sb,
         Folding(sa, a), Folding(sb, b), NEW N \in Nat, N <= Len(a), N <= Len(b),
         \A i \in 1..N : a[i] = b[i]
  PROVE  \A n \in 0..N : sa[n] = sb[n]
<1> DEFINE T == {n \in 0..N : sa[n] = sb[n]}
<1>1. Len(a) \in Nat /\ Len(b) \in Nat
  BY LenProperties
<1>2. 0 \in T
  BY DEF Folding
<1>3. ASSUME NEW n \in 1..N, n - 1 \in T
      PROVE  n \in T
  <2>1. n \in 1..Len(a) /\ n \in 1..Len(b) /\ a[n] = b[n] /\ sa[n - 1] = sb[n - 1]
    BY <1>1, <1>3
  <2>2. sa[n] = ApplyEvent(sa[n - 1], a[n]) /\ sb[n] = ApplyEvent(sb[n - 1], b[n])
    BY <2>1 DEF Folding
  <2>3. QED
    BY <2>1, <2>2
<1>4. 0..N \subseteq T
  <2> HIDE DEF T
  <2>1. QED
    BY <1>2, <1>3, PrefixInduction
<1>5. QED
  BY <1>4

\* What the fold returns.
LEMMA LedgerStateType ==
  ASSUME NEW log \in Seq(Event)
  PROVE  /\ LedgerState(log) \in LState
         /\ Balance(log) \in [Member -> Int]
         /\ ActiveMembers(log) \in SUBSET Member
<1>1. PICK st : Folding(st, log) /\ LedgerState(log) = st[Len(log)]
  BY LedgerFolds
<1>2. Len(log) \in 0..Len(log)
  BY LenProperties
<1>3. LedgerState(log) \in LState
  BY <1>1, <1>2 DEF Folding
<1>4. QED
  BY <1>3 DEF LState, Balance, ActiveMembers

\* The empty log folds to the empty state.
LEMMA EmptyLogFolds == LedgerState(<<>>) = EmptyState
<1>1. <<>> \in Seq(Event) /\ Len(<<>>) = 0
  BY EmptySeq
<1>2. PICK st : Folding(st, <<>>) /\ LedgerState(<<>>) = st[Len(<<>>)]
  BY <1>1, LedgerFolds
<1>3. QED
  BY <1>1, <1>2 DEF Folding

\* An event behind all others is applied to what they fold to.
LEMMA LastEventIsApplied ==
  ASSUME NEW log \in Seq(Event), NEW longer, NEW ev, InsertedBehind(longer, log, Len(log), ev)
  PROVE  LedgerState(longer) = ApplyEvent(LedgerState(log), ev)
<1> DEFINE N == Len(log)
<1>1. /\ N \in Nat /\ longer \in Seq(Event) /\ Len(longer) = N + 1 /\ longer[N + 1] = ev
      /\ \A i \in 1..N : log[i] = longer[i]
  BY LenProperties DEF InsertedBehind
<1>2. PICK sa : Folding(sa, log) /\ LedgerState(log) = sa[N]
  BY LedgerFolds
<1>3. PICK sb : Folding(sb, longer) /\ LedgerState(longer) = sb[N + 1]
  BY <1>1, LedgerFolds
<1>4. sa[N] = sb[N]
  BY <1>1, <1>2, <1>3, FoldsAlike
<1>5. sb[N + 1] = ApplyEvent(sb[(N + 1) - 1], longer[N + 1])
  BY <1>1, <1>3 DEF Folding
<1>6. (N + 1) - 1 = N
  BY <1>1
<1>7. QED
  BY <1>1, <1>2, <1>3, <1>4, <1>5, <1>6

\* An appended event is applied to what the log folded to.
LEMMA AppendFolds ==
  ASSUME NEW log \in Seq(Event), NEW ev \in Event, ~Duplicate(log, ev)
  PROVE  LedgerState(AppendOnce(log, ev)) = ApplyEvent(LedgerState(log), ev)
<1>1. AppendOnce(log, ev) = Append(log, ev) /\ Append(log, ev) # log
  BY AppendProperties, LenProperties DEF AppendOnce
<1>2. QED
  BY <1>1, AppendOnceInserts, LastEventIsApplied

\* Joining and leaving carry no key, and touch nothing but the active members.
LEMMA MemberEventsFold ==
  ASSUME NEW log \in Seq(Event), NEW m \in Member
  PROVE  /\ MemberJoined(m) \in Event /\ MemberLeft(m) \in Event
         /\ ActiveMembers(AppendOnce(log, MemberJoined(m))) = ActiveMembers(log) \cup {m}
         /\ ActiveMembers(AppendOnce(log, MemberLeft(m))) = ActiveMembers(log) \ {m}
         /\ Balance(AppendOnce(log, MemberJoined(m))) = Balance(log)
         /\ Balance(AppendOnce(log, MemberLeft(m))) = Balance(log)
<1>1. /\ MemberJoined(m) \in Event /\ MemberJoined(m).type = "member_joined"
      /\ MemberLeft(m) \in Event /\ MemberLeft(m).type = "member_left"
      /\ MemberJoined(m).member = m /\ MemberLeft(m).member = m
  BY DEF MemberJoined, MemberLeft, Event, MemberEvent
<1>2. ~Duplicate(log, MemberJoined(m)) /\ ~Duplicate(log, MemberLeft(m))
  BY <1>1 DEF Duplicate, SameDedupeKey
<1>3. LedgerState(log) \in LState
  BY LedgerStateType
<1>4. /\ LedgerState(AppendOnce(log, MemberJoined(m))) = ApplyEvent(LedgerState(log), MemberJoined(m))
      /\ LedgerState(AppendOnce(log, MemberLeft(m))) = ApplyEvent(LedgerState(log), MemberLeft(m))
  BY <1>1, <1>2, AppendFolds
<1>5. ASSUME NEW s \in LState
      PROVE  /\ ApplyEvent(s, MemberJoined(m)).active = s.active \cup {m}
             /\ ApplyEvent(s, MemberLeft(m)).active = s.active \ {m}
             /\ ApplyEvent(s, MemberJoined(m)).balance = s.balance
             /\ ApplyEvent(s, MemberLeft(m)).balance = s.balance
  BY <1>1 DEF ApplyEvent, LState
<1>6. QED
  BY <1>1, <1>3, <1>4, <1>5 DEF ActiveMembers, Balance

\* m joined within the first n events and has not left since.
JoinedAt(log, i, m) == log[i].type = "member_joined" /\ log[i].member = m
\* Where m left, and whether m stands as a member after n events.
LeftAt(log, i, m) == log[i].type = "member_left" /\ log[i].member = m
Standing(log, n, m) ==
  \E i \in 1..n : JoinedAt(log, i, m) /\ \A k \in (i + 1)..n : ~LeftAt(log, k, m)

\* Those are whom the fold lists as active.
LEMMA ActiveStand ==
  ASSUME NEW log \in Seq(Event), NEW m \in Member
  PROVE  m \in ActiveMembers(log) <=> Standing(log, Len(log), m)
<1>1. PICK st : Folding(st, log) /\ LedgerState(log) = st[Len(log)]
  BY LedgerFolds
<1> DEFINE T == {n \in 0..Len(log) : m \in st[n].active <=> Standing(log, n, m)}
<1>2. Len(log) \in Nat /\ \A i \in 1..Len(log) : log[i] \in Event
  BY LenProperties, ElementOfSeq
<1>3. 0 \in T
  BY <1>1, <1>2 DEF Folding, EmptyState, Standing
<1>4. ASSUME NEW n \in 1..Len(log), n - 1 \in T
      PROVE  n \in T
  <2> DEFINE s == st[n - 1]
             ev == log[n]
  <2>1. n - 1 \in 0..Len(log) /\ s \in LState /\ st[n] = ApplyEvent(s, ev) /\ ev \in Event
    BY <1>1, <1>2 DEF Folding
  <2>2. m \in s.active <=> Standing(log, n - 1, m)
    BY <1>4
  <2>3. CASE JoinedAt(log, n, m)
    <3>1. m \in ApplyEvent(s, ev).active
      BY <2>1, <2>3 DEF ApplyEvent, LState, JoinedAt
    <3>2. Standing(log, n, m)
      BY <2>3 DEF Standing
    <3>3. QED
      BY <2>1, <3>1, <3>2
  <2>4. CASE LeftAt(log, n, m)
    <3>1. m \notin ApplyEvent(s, ev).active
      BY <2>1, <2>4 DEF ApplyEvent, LState, LeftAt
    <3>2. ~Standing(log, n, m)
      BY <2>4 DEF Standing, LeftAt, JoinedAt
    <3>3. QED
      BY <2>1, <3>1, <3>2
  <2>5. CASE ~JoinedAt(log, n, m) /\ ~LeftAt(log, n, m)
    <3>1. m \in ApplyEvent(s, ev).active <=> m \in s.active
      <4>1. CASE ev.type = "settlement_confirmed"
        <5>1. ev \in ConfirmEvent
          BY <2>1, <4>1, EventKinds
        <5>2. ApplyConfirm(s, ev).active = s.active
          BY <2>1, <5>1, ConfirmKeeps
        <5>3. QED
          BY <4>1, <5>2 DEF ApplyEvent
      <4>2. CASE ev.type \in {"member_joined", "member_left"}
        <5>1. ev.member # m
          BY <2>5, <4>2 DEF JoinedAt, LeftAt
        <5>2. QED
          BY <2>1, <4>2, <5>1 DEF ApplyEvent, LState
      <4>3. CASE ev.type \in {"receipt_recorded", "settlement_proposed", "adjustment"}
        BY <2>1, <4>3 DEF ApplyEvent, LState
      <4>4. QED
        BY <2>1, <4>1, <4>2, <4>3, EventKinds
    <3>2. Standing(log, n, m) <=> Standing(log, n - 1, m)
      <4>1. ASSUME Standing(log, n, m)
            PROVE  Standing(log, n - 1, m)
        <5>1. PICK i \in 1..n : JoinedAt(log, i, m) /\ \A k \in (i + 1)..n : ~LeftAt(log, k, m)
          BY <4>1 DEF Standing
        <5>2. i \in 1..(n - 1)
          BY <2>5, <5>1
        <5>3. QED
          BY <5>1, <5>2 DEF Standing
      <4>2. ASSUME Standing(log, n - 1, m)
            PROVE  Standing(log, n, m)
        <5>1. PICK i \in 1..(n - 1) : JoinedAt(log, i, m) /\ \A k \in (i + 1)..(n - 1) : ~LeftAt(log, k, m)
          BY <4>2 DEF Standing
        <5>2. \A k \in (i + 1)..n : ~LeftAt(log, k, m)
          BY <2>5, <5>1
        <5>3. QED
          BY <5>1, <5>2 DEF Standing
      <4>3. QED
        BY <4>1, <4>2
    <3>3. QED
      BY <2>1, <2>2, <3>1, <3>2
  <2>6. QED
    BY <2>3, <2>4, <2>5
<1>5. 0..Len(log) \subseteq T
  <2> HIDE DEF T
  <2>1. QED
    BY <1>2, <1>3, <1>4, PrefixInduction
<1>6. QED
  BY <1>1, <1>2, <1>5 DEF ActiveMembers

\* Wherever another event enters the log, the same members are active.
LEMMA OtherInsertionsKeepActive ==
  ASSUME NEW log \in Seq(Event), NEW longer, NEW n, NEW ev,
         InsertedBehind(longer, log, n, ev), ev.type \notin {"member_joined", "member_left"}
  PROVE  ActiveMembers(longer) = ActiveMembers(log)
<1>1. /\ longer \in Seq(Event) /\ DOMAIN log = 1..Len(log) /\ DOMAIN longer = 1..Len(longer)
      /\ Len(log) \in Nat /\ Len(longer) = Len(log) + 1 /\ n \in 0..Len(log)
  BY LenProperties DEF InsertedBehind
<1>2. SUFFICES ASSUME NEW m \in Member
               PROVE  m \in ActiveMembers(longer) <=> m \in ActiveMembers(log)
  BY <1>1, LedgerStateType
<1>3. ASSUME Standing(log, Len(log), m)
      PROVE  Standing(longer, Len(longer), m)
  <2>1. PICK i \in 1..Len(log) : JoinedAt(log, i, m) /\ \A k \in (i + 1)..Len(log) : ~LeftAt(log, k, m)
    BY <1>3 DEF Standing
  <2> DEFINE j == ShiftedBehind(n, i)
  <2>2. j \in 1..Len(longer) /\ JoinedAt(longer, j, m)
    <3>1. i \in DOMAIN log
      BY <1>1
    <3>2. j \in DOMAIN longer /\ longer[j] = log[i]
      BY <3>1, InsertionShifts
    <3>3. QED
      BY <1>1, <2>1, <3>2 DEF JoinedAt
  <2>3. ASSUME NEW k \in (j + 1)..Len(longer), LeftAt(longer, k, m)
        PROVE  FALSE
    <3>1. k \in DOMAIN longer /\ k > j
      BY <1>1, <2>2, <2>3
    <3>2. PICK h \in DOMAIN log : k = ShiftedBehind(n, h) /\ longer[k] = log[h]
      BY <2>3, <3>1, InsertionShifts DEF LeftAt
    <3>3. h > i
      BY <1>1, <2>1, <3>1, <3>2 DEF ShiftedBehind
    <3>4. QED
      BY <1>1, <2>1, <2>3, <3>2, <3>3 DEF LeftAt
  <2>4. QED
    BY <2>2, <2>3 DEF Standing
<1>4. ASSUME Standing(longer, Len(longer), m)
      PROVE  Standing(log, Len(log), m)
  <2>1. PICK j \in 1..Len(longer) : /\ JoinedAt(longer, j, m)
                                    /\ \A k \in (j + 1)..Len(longer) : ~LeftAt(longer, k, m)
    BY <1>4 DEF Standing
  <2>2. PICK i \in DOMAIN log : j = ShiftedBehind(n, i) /\ longer[j] = log[i]
    BY <1>1, <2>1, InsertionShifts DEF JoinedAt
  <2>3. ASSUME NEW k \in (i + 1)..Len(log), LeftAt(log, k, m)
        PROVE  FALSE
    <3>1. k \in DOMAIN log /\ ShiftedBehind(n, k) > j
      BY <1>1, <2>2, <2>3 DEF ShiftedBehind
    <3>2. ShiftedBehind(n, k) \in DOMAIN longer /\ longer[ShiftedBehind(n, k)] = log[k]
      BY <3>1, InsertionShifts
    <3>3. QED
      BY <1>1, <2>1, <2>3, <3>1, <3>2 DEF LeftAt
  <2>4. QED
    BY <1>1, <2>1, <2>2, <2>3 DEF Standing, JoinedAt
<1>5. QED
  BY <1>1, <1>3, <1>4, ActiveStand

-----------------------------------------------------------------------------
(* Rewriting a stored receipt.                                             *)

\* b is a with the receipt event at place i rewritten.
RewrittenAt(b, a, i) ==
  /\ b \in Seq(Event) /\ Len(b) = Len(a) /\ i \in 1..Len(a)
  /\ a[i] \in ReceiptEvent /\ b[i] \in ReceiptEvent
  /\ \A k \in 1..Len(a) : k # i => b[k] = a[k]

\* What an effective receipt does to the balances.
EffectOf(e) == ReceiptEffect(e.payer, e.amount, e.shares)

\* Two folds that differ by d in the balances and by X in what is confirmed.
ApartBy(t, s, d, X) ==
  /\ t.active = s.active /\ t.proposals = s.proposals /\ t.confirmed = s.confirmed \cup X
  /\ \A m \in Member : t.balance[m] = s.balance[m] + d[m]

\* The next event keeps them as far apart, unless it confirms what only one of
\* them has confirmed.
LEMMA SameEventMovesAlike ==
  ASSUME NEW s \in LState, NEW t \in LState, NEW ev \in Event, NEW d \in [Member -> Int], NEW X,
         ApartBy(t, s, d, X), ev.type = "settlement_confirmed" => ev.sid \notin X
  PROVE  ApartBy(ApplyEvent(t, ev), ApplyEvent(s, ev), d, X)
<1> USE DEF ApartBy
<1>1. s.balance \in [Member -> Int] /\ t.balance \in [Member -> Int] /\ s.proposals \subseteq ProposalEvent
  BY DEF LState
<1>2. ASSUME NEW f \in [Member -> Int]
      PROVE  \A m \in Member : Plus(t.balance, f)[m] = Plus(s.balance, f)[m] + d[m]
  BY <1>1 DEF Plus
<1>3. CASE ev.type \in {"member_joined", "member_left", "settlement_proposed"}
  BY <1>3 DEF ApplyEvent, LState
<1>4. CASE ev.type = "receipt_recorded"
  <2> DEFINE f == EffectOf(ev)
  <2>1. f \in [Member -> Int]
    BY <1>4, EventKinds, EffectType DEF ReceiptEvent, EffectOf
  <2>2. /\ ApplyEvent(s, ev).balance = Plus(s.balance, f)
        /\ ApplyEvent(t, ev).balance = Plus(t.balance, f)
        /\ ApplyEvent(s, ev).active = s.active /\ ApplyEvent(t, ev).active = t.active
        /\ ApplyEvent(s, ev).proposals = s.proposals /\ ApplyEvent(t, ev).proposals = t.proposals
        /\ ApplyEvent(s, ev).confirmed = s.confirmed /\ ApplyEvent(t, ev).confirmed = t.confirmed
    BY <1>4 DEF ApplyEvent, LState, EffectOf
  <2> HIDE DEF f
  <2>3. QED
    BY <1>2, <2>1, <2>2
<1>5. CASE ev.type = "adjustment"
  <2>1. ev.delta \in [Member -> Int]
    BY <1>5, EventKinds DEF AdjustmentEvent
  <2>2. /\ ApplyEvent(s, ev).balance = Plus(s.balance, ev.delta)
        /\ ApplyEvent(t, ev).balance = Plus(t.balance, ev.delta)
        /\ ApplyEvent(s, ev).active = s.active /\ ApplyEvent(t, ev).active = t.active
        /\ ApplyEvent(s, ev).proposals = s.proposals /\ ApplyEvent(t, ev).proposals = t.proposals
        /\ ApplyEvent(s, ev).confirmed = s.confirmed /\ ApplyEvent(t, ev).confirmed = t.confirmed
    BY <1>5 DEF ApplyEvent, LState
  <2>3. QED
    BY <1>2, <2>1, <2>2
<1>6. CASE ev.type = "settlement_confirmed"
  <2>1. ev \in ConfirmEvent /\ ApplyEvent(s, ev) = ApplyConfirm(s, ev)
          /\ ApplyEvent(t, ev) = ApplyConfirm(t, ev)
    BY <1>6, EventKinds DEF ApplyEvent
  <2>2. CASE ev.sid \in s.confirmed
    <3>1. ev.sid \in t.confirmed
      BY <2>2
    <3>2. ApplyConfirm(s, ev) = s /\ ApplyConfirm(t, ev) = t
      BY <2>2, <3>1 DEF ApplyConfirm
    <3>3. QED
      BY <2>1, <3>2
  <2> DEFINE own == {p \in s.proposals : p.sid = ev.sid}
             q == CHOOSE p \in own : TRUE
  <2>3. CASE ev.sid \notin s.confirmed /\ own = {}
    BY <2>1, <2>3 DEF ApplyConfirm, LState
  <2>4. CASE ev.sid \notin s.confirmed /\ own # {}
    <3>1. q \in own
      BY <2>4
    <3>2. /\ ApplyConfirm(s, ev) = [s EXCEPT !.balance = Plus(@, Moved(q)), !.confirmed = @ \cup {ev.sid}]
          /\ ApplyConfirm(t, ev) = [t EXCEPT !.balance = Plus(@, Moved(q)), !.confirmed = @ \cup {ev.sid}]
      <4>1. ApplyConfirm(s, ev) = [s EXCEPT !.balance = Plus(@, Moved(q)), !.confirmed = @ \cup {ev.sid}]
        BY <2>4 DEF ApplyConfirm, Moved
      <4>2. ev.sid \notin t.confirmed /\ t.proposals = s.proposals
        BY <1>6, <2>4
      <4>3. ApplyConfirm(t, ev) = [t EXCEPT !.balance = Plus(@, Moved(q)), !.confirmed = @ \cup {ev.sid}]
        BY <2>4, <4>2 DEF ApplyConfirm, Moved
      <4>4. QED
        BY <4>1, <4>3
    <3>3. Moved(q) \in [Member -> Int]
      BY <1>1, <3>1, MovedType
    <3> HIDE DEF q
    <3>4. /\ ApplyConfirm(s, ev).balance = Plus(s.balance, Moved(q))
          /\ ApplyConfirm(t, ev).balance = Plus(t.balance, Moved(q))
          /\ ApplyConfirm(s, ev).confirmed = s.confirmed \cup {ev.sid}
          /\ ApplyConfirm(t, ev).confirmed = t.confirmed \cup {ev.sid}
          /\ ApplyConfirm(s, ev).active = s.active /\ ApplyConfirm(t, ev).active = t.active
          /\ ApplyConfirm(s, ev).proposals = s.proposals /\ ApplyConfirm(t, ev).proposals = t.proposals
      BY <3>2 DEF LState
    <3>5. QED
      BY <1>2, <2>1, <3>3, <3>4
  <2>5. QED
    BY <2>2, <2>3, <2>4
<1>7. QED
  BY <1>3, <1>4, <1>5, <1>6, EventKinds

\* Rewriting a receipt changes the balances by what it contributes now and did
\* not before, and nothing else.
LEMMA RewritingMoves ==
  ASSUME NEW a \in Seq(Event), NEW b, NEW i, RewrittenAt(b, a, i)
  PROVE  /\ ActiveMembers(b) = ActiveMembers(a)
         /\ LedgerState(b).proposals = LedgerState(a).proposals
         /\ LedgerState(b).confirmed = LedgerState(a).confirmed
         /\ \A m \in Member : Balance(b)[m] = Balance(a)[m] + EffectOf(b[i])[m] - EffectOf(a[i])[m]
<1>1. PICK sa : Folding(sa, a) /\ LedgerState(a) = sa[Len(a)]
  BY LedgerFolds
<1>2. PICK sb : Folding(sb, b) /\ LedgerState(b) = sb[Len(b)]
  BY LedgerFolds DEF RewrittenAt
<1>3. /\ Len(a) \in Nat /\ i \in 1..Len(a) /\ b \in Seq(Event) /\ Len(b) = Len(a)
      /\ \A k \in 1..Len(a) : a[k] \in Event /\ b[k] \in Event
      /\ \A k \in 1..Len(a) : k # i => b[k] = a[k]
  BY LenProperties, ElementOfSeq DEF RewrittenAt
<1>4. /\ EffectOf(a[i]) \in [Member -> Int] /\ EffectOf(b[i]) \in [Member -> Int]
      /\ a[i].type = "receipt_recorded" /\ b[i].type = "receipt_recorded"
  BY EffectType DEF RewrittenAt, EffectOf, ReceiptEvent
<1>5. \A k \in 0..(i - 1) : sb[k] = sa[k]
  <2>1. i - 1 \in Nat /\ i - 1 <= Len(a) /\ i - 1 <= Len(b) /\ \A k \in 1..(i - 1) : a[k] = b[k]
    BY <1>3
  <2>2. QED
    BY <1>1, <1>2, <1>3, <2>1, FoldsAlike
<1> DEFINE d == [m \in Member |-> EffectOf(b[i])[m] - EffectOf(a[i])[m]]
           T == {n \in 0..(Len(a) - i) : ApartBy(sb[i + n], sa[i + n], d, {})}
<1>6. d \in [Member -> Int]
  BY <1>4
<1>7. ApartBy(sb[i], sa[i], d, {})
  <2> DEFINE s == sa[i - 1]
  <2>1. /\ s \in LState /\ sa[i] = ApplyEvent(s, a[i]) /\ sb[i] = ApplyEvent(s, b[i])
    <3>1. i - 1 \in 0..Len(a) /\ i - 1 \in 0..(i - 1)
      BY <1>3
    <3>2. QED
      BY <1>1, <1>2, <1>3, <1>5, <3>1 DEF Folding
  <2> HIDE DEF s
  <2>2. ASSUME NEW e, e.type = "receipt_recorded"
        PROVE  /\ ApplyEvent(s, e).active = s.active /\ ApplyEvent(s, e).proposals = s.proposals
               /\ ApplyEvent(s, e).confirmed = s.confirmed
               /\ ApplyEvent(s, e).balance = Plus(s.balance, EffectOf(e))
    BY <2>1, <2>2 DEF ApplyEvent, LState, EffectOf
  <2>3. s.balance \in [Member -> Int]
    BY <2>1 DEF LState
  <2>4. /\ \A m \in Member : Plus(s.balance, EffectOf(a[i]))[m] = s.balance[m] + EffectOf(a[i])[m]
        /\ \A m \in Member : Plus(s.balance, EffectOf(b[i]))[m] = s.balance[m] + EffectOf(b[i])[m]
    BY DEF Plus
  <2>5. QED
    BY <1>4, <2>1, <2>2, <2>3, <2>4 DEF ApartBy
<1> HIDE DEF d
<1>8. 0 \in T
  <2>1. i + 0 = i /\ 0 \in 0..(Len(a) - i)
    BY <1>3
  <2>2. QED
    BY <1>7, <2>1
<1>9. ASSUME NEW n \in 1..(Len(a) - i), n - 1 \in T
      PROVE  n \in T
  <2> DEFINE k == i + n
             s == sa[k - 1]
             t == sb[k - 1]
  <2>1. k \in 1..Len(a) /\ k # i /\ k - 1 = i + (n - 1) /\ k - 1 \in 0..Len(a) /\ n \in 0..(Len(a) - i)
    BY <1>3
  <2>2. s \in LState /\ t \in LState /\ a[k] = b[k] /\ a[k] \in Event
    BY <1>1, <1>2, <1>3, <2>1 DEF Folding
  <2>3. sa[k] = ApplyEvent(s, a[k]) /\ sb[k] = ApplyEvent(t, a[k])
    BY <1>1, <1>2, <1>3, <2>1, <2>2 DEF Folding
  <2>4. ApartBy(t, s, d, {})
    BY <1>9, <2>1
  <2> HIDE DEF k, s, t
  <2>5. ApartBy(sb[k], sa[k], d, {})
    BY <1>6, <2>2, <2>3, <2>4, SameEventMovesAlike
  <2>6. QED
    BY <2>1, <2>5 DEF k
<1>10. 0..(Len(a) - i) \subseteq T
  <2>1. Len(a) - i \in Nat
    BY <1>3
  <2> HIDE DEF T
  <2>2. QED
    BY <1>8, <1>9, <2>1, PrefixInduction
<1>11. ApartBy(sb[Len(a)], sa[Len(a)], d, {})
  <2>1. Len(a) - i \in 0..(Len(a) - i) /\ i + (Len(a) - i) = Len(a)
    BY <1>3
  <2>2. QED
    BY <1>10, <2>1
<1>12. Balance(a) \in [Member -> Int]
  BY LedgerStateType
<1>13. QED
  BY <1>1, <1>2, <1>3, <1>4, <1>11, <1>12 DEF ActiveMembers, Balance, d, ApartBy

\* The fold has met nothing that is not in the log.
LEMMA FoldedAreStored ==
  ASSUME NEW log \in Seq(Event), NEW st, Folding(st, log)
  PROVE  \A n \in 0..Len(log) : /\ st[n].proposals \subseteq Proposals(log)
                                /\ st[n].confirmed \subseteq ConfirmedIds(log)
<1> DEFINE T == {n \in 0..Len(log) : /\ st[n].proposals \subseteq Proposals(log)
                                     /\ st[n].confirmed \subseteq ConfirmedIds(log)}
<1>1. Len(log) \in Nat /\ \A i \in 1..Len(log) : log[i] \in Event /\ i \in DOMAIN log
  BY LenProperties, ElementOfSeq
<1>2. 0 \in T
  BY <1>1 DEF Folding, EmptyState
<1>3. ASSUME NEW n \in 1..Len(log), n - 1 \in T
      PROVE  n \in T
  <2> DEFINE s == st[n - 1]
             ev == log[n]
  <2>1. n - 1 \in 0..Len(log) /\ s \in LState /\ st[n] = ApplyEvent(s, ev) /\ ev \in Event
    BY <1>1 DEF Folding
  <2>2. s.proposals \subseteq Proposals(log) /\ s.confirmed \subseteq ConfirmedIds(log)
    BY <1>3
  <2>3. /\ ev.type = "settlement_proposed" => ev \in Proposals(log)
        /\ ev.type = "settlement_confirmed" => ev.sid \in ConfirmedIds(log)
    BY <1>1 DEF Proposals, ConfirmedIds, EventsOf, ToSet
  <2> HIDE DEF s, ev
  <2>4. CASE ev.type = "settlement_confirmed"
    <3>1. ev \in ConfirmEvent /\ ApplyEvent(s, ev) = ApplyConfirm(s, ev)
      BY <2>1, <2>4, EventKinds DEF ApplyEvent
    <3>2. ApplyConfirm(s, ev).proposals = s.proposals
      BY <2>1, <3>1, ConfirmKeeps
    <3>3. ApplyConfirm(s, ev).confirmed \subseteq s.confirmed \cup {ev.sid}
      <4>1. CASE ApplyConfirm(s, ev) = s
        BY <4>1
      <4>2. CASE ApplyConfirm(s, ev) = [s EXCEPT !.sound = FALSE]
        BY <2>1, <4>2 DEF LState
      <4>3. ASSUME NEW p \in s.proposals,
                   ApplyConfirm(s, ev) = [s EXCEPT !.balance = Plus(s.balance, Moved(p)),
                                                   !.confirmed = s.confirmed \cup {ev.sid}]
            PROVE  ApplyConfirm(s, ev).confirmed \subseteq s.confirmed \cup {ev.sid}
        BY <2>1, <4>3 DEF LState
      <4>4. QED
        BY <2>1, <3>1, <4>1, <4>2, <4>3, ConfirmApplies
    <3>4. QED
      BY <2>1, <2>2, <2>3, <2>4, <3>1, <3>2, <3>3
  <2>5. CASE ev.type # "settlement_confirmed"
    <3>1. /\ ApplyEvent(s, ev).confirmed = s.confirmed
          /\ ApplyEvent(s, ev).proposals \subseteq
               s.proposals \cup (IF ev.type = "settlement_proposed" THEN {ev} ELSE {})
      BY <2>1, <2>5, EventKinds DEF ApplyEvent, LState
    <3>2. QED
      BY <2>1, <2>2, <2>3, <3>1
  <2>6. QED
    BY <2>4, <2>5
<1>4. 0..Len(log) \subseteq T
  <2> HIDE DEF T
  <2>1. QED
    BY <1>1, <1>2, <1>3, PrefixInduction
<1>5. QED
  BY <1>4

\* A confirmation that is due - proposed, and not confirmed before - moves what was proposed.
LEMMA DueConfirmationApplies ==
  ASSUME NEW s \in LState, NEW ev \in ConfirmEvent, ev.sid \notin s.confirmed,
         \E q \in s.proposals : q.sid = ev.sid
  PROVE  \E q \in s.proposals :
           /\ q.sid = ev.sid
           /\ ApplyConfirm(s, ev) = [s EXCEPT !.balance = Plus(s.balance, Moved(q)),
                                              !.confirmed = s.confirmed \cup {ev.sid}]
BY ConfirmApplies

\* A confirmation moves what its proposal says, wherever it enters the log behind it.
LEMMA ConfirmationMoves ==
  ASSUME NEW log \in Seq(Event), NEW longer, NEW n, NEW ev \in ConfirmEvent,
         InsertedBehind(longer, log, n, ev), ev.sid \notin ConfirmedIds(log),
         \E j \in 1..n : log[j].type = "settlement_proposed" /\ log[j].sid = ev.sid
  PROVE  \E p \in Proposals(log) :
           /\ p.sid = ev.sid
           /\ LedgerState(longer).proposals = LedgerState(log).proposals
           /\ LedgerState(longer).confirmed = LedgerState(log).confirmed \cup {ev.sid}
           /\ \A m \in Member : Balance(longer)[m] = Balance(log)[m] + Moved(p)[m]
<1> DEFINE N == Len(log)
           X == {ev.sid}
<1>1. /\ N \in Nat /\ n \in 0..N /\ longer \in Seq(Event) /\ Len(longer) = N + 1 /\ longer[n + 1] = ev
      /\ \A i \in 1..n : longer[i] = log[i]
      /\ \A i \in (n + 1)..N : longer[i + 1] = log[i]
      /\ \A i \in 1..N : log[i] \in Event /\ i \in DOMAIN log
  BY LenProperties, ElementOfSeq DEF InsertedBehind
<1>2. PICK sa : Folding(sa, log) /\ LedgerState(log) = sa[N]
  BY LedgerFolds
<1>3. PICK sb : Folding(sb, longer) /\ LedgerState(longer) = sb[N + 1]
  BY <1>1, LedgerFolds
<1>4. /\ sa \in [0..N -> LState] /\ \A k \in 1..N : sa[k] = ApplyEvent(sa[k - 1], log[k])
      /\ sb \in [0..(N + 1) -> LState]
      /\ \A k \in 1..(N + 1) : sb[k] = ApplyEvent(sb[k - 1], longer[k])
  BY <1>1, <1>2, <1>3 DEF Folding
<1> DEFINE s == sa[n]
<1>5. sb[n] = s /\ s \in LState /\ s.proposals \subseteq Proposals(log) /\ ev.sid \notin s.confirmed
  <2>1. n \in Nat /\ n <= Len(log) /\ n <= Len(longer) /\ (\A i \in 1..n : log[i] = longer[i]) /\ n \in 0..n
    BY <1>1
  <2>2. \A k \in 0..n : sa[k] = sb[k]
    <3>1. Folding(sa, log) /\ Folding(sb, longer)
      BY <1>2, <1>3
    <3>2. QED
      BY <1>1, <2>1, <3>1, FoldsAlike
  <2>3. QED
    BY <1>1, <1>2, <1>4, <2>1, <2>2, FoldedAreStored
<1>6. sb[n + 1] = ApplyConfirm(s, ev)
  <2>1. n + 1 \in 1..(N + 1) /\ (n + 1) - 1 = n /\ ev.type = "settlement_confirmed"
    BY <1>1 DEF ConfirmEvent
  <2>2. sb[n + 1] = ApplyEvent(sb[(n + 1) - 1], longer[n + 1])
    BY <1>4, <2>1
  <2>3. QED
    BY <1>1, <1>5, <2>1, <2>2 DEF ApplyEvent
<1> HIDE DEF s
<1>7. PICK p \in Proposals(log) :
        /\ p.sid = ev.sid
        /\ ApplyConfirm(s, ev) = [s EXCEPT !.balance = Plus(s.balance, Moved(p)),
                                           !.confirmed = s.confirmed \cup {ev.sid}]
  <2>1. \E q \in s.proposals : q.sid = ev.sid
    <3>1. PICK j \in 1..n : log[j].type = "settlement_proposed" /\ log[j].sid = ev.sid
      OBVIOUS
    <3>2. n \in 0..Len(log)
      BY <1>1
    <3>3. log[j] \in s.proposals
      BY <1>2, <3>1, <3>2, FoldedProposals DEF s
    <3>4. QED
      BY <3>1, <3>3
  <2>2. PICK q \in s.proposals :
          /\ q.sid = ev.sid
          /\ ApplyConfirm(s, ev) = [s EXCEPT !.balance = Plus(s.balance, Moved(q)),
                                             !.confirmed = s.confirmed \cup {ev.sid}]
    <3>1. s \in LState /\ ev.sid \notin s.confirmed
      BY <1>5
    <3>2. QED
      BY <2>1, <3>1, DueConfirmationApplies
  <2>3. QED
    BY <1>5, <2>2
<1> DEFINE d == Moved(p)
           T == {k \in 0..(N - n) : ApartBy(sb[n + 1 + k], sa[n + k], d, X)}
<1>8. d \in [Member -> Int]
  BY ProposalsType, MovedType
<1> HIDE DEF d
<1>9. 0 \in T
  <2>1. n + 1 + 0 = n + 1 /\ n + 0 = n /\ 0 \in 0..(N - n)
    BY <1>1
  <2>2. ApartBy([s EXCEPT !.balance = Plus(s.balance, d), !.confirmed = s.confirmed \cup {ev.sid}],
                s, d, X)
    BY <1>5 DEF ApartBy, LState, Plus
  <2>3. QED
    BY <1>6, <1>7, <2>1, <2>2 DEF d, s
<1>10. ASSUME NEW k \in 1..(N - n), k - 1 \in T
       PROVE  k \in T
  <2> DEFINE i == n + k
             u == sa[i - 1]
             v == sb[i]
  <2>1. i \in 1..N /\ i \in (n + 1)..N /\ i - 1 = n + (k - 1) /\ i = n + 1 + (k - 1)
          /\ n + 1 + k = i + 1 /\ i - 1 \in 0..N /\ i \in 0..(N + 1) /\ i + 1 \in 1..(N + 1)
          /\ (i + 1) - 1 = i /\ k \in 0..(N - n)
    BY <1>1
  <2>2. u \in LState /\ v \in LState /\ log[i] \in Event
    BY <1>1, <1>4, <2>1
  <2>3. sa[i] = ApplyEvent(u, log[i]) /\ sb[i + 1] = ApplyEvent(v, log[i])
    <3>1. sb[i + 1] = ApplyEvent(sb[(i + 1) - 1], longer[i + 1])
      BY <1>4, <2>1
    <3>2. longer[i + 1] = log[i]
      BY <1>1, <2>1
    <3>3. QED
      BY <1>4, <2>1, <3>1, <3>2
  <2>4. ApartBy(v, u, d, X)
    BY <1>10, <2>1
  <2>5. log[i].type = "settlement_confirmed" => log[i].sid \notin X
    BY <1>1, <2>1 DEF ConfirmedIds, EventsOf, ToSet
  <2> HIDE DEF i, u, v
  <2>6. ApartBy(sb[i + 1], sa[i], d, X)
    BY <1>8, <2>2, <2>3, <2>4, <2>5, SameEventMovesAlike
  <2>7. QED
    BY <2>1, <2>6 DEF i
<1>11. N - n \in T
  <2>1. N - n \in Nat /\ N - n \in 0..(N - n)
    BY <1>1
  <2> HIDE DEF T
  <2>2. 0..(N - n) \subseteq T
    BY <1>9, <1>10, <2>1, PrefixInduction
  <2>3. QED
    BY <2>1, <2>2
<1>12. ApartBy(sb[N + 1], sa[N], d, X)
  <2>1. n + 1 + (N - n) = N + 1 /\ n + (N - n) = N
    BY <1>1
  <2>2. QED
    BY <1>11, <2>1
<1>13. QED
  BY <1>2, <1>3, <1>7, <1>12 DEF ApartBy, Balance, d

-----------------------------------------------------------------------------
(* What the receipts of a log contribute and its settlements transfer.     *)

\* No two events of a log carry the same key, and what is corrected is recorded.
Keyed(log) ==
  /\ \A i, j \in DOMAIN log : SameDedupeKey(log[i], log[j]) => i = j
  /\ AdjustedReceipts(log) \subseteq RecordedReceipts(log)

\* What each receipt contributes to the balance of m, and each confirmed proposal.
Contribution(log, m) == [r \in RecordedReceipts(log) |-> EffectOf(EffectiveReceipt(log, r))[m]]
ConfirmedProposals(log) == {p \in Proposals(log) : p.sid \in ConfirmedIds(log)}
Transfer(log, m) == [p \in ConfirmedProposals(log) |-> Moved(p)[m]]

\* The fold knows the proposals and the confirmations, and the balance of the members
\* S is what the receipts contribute and the settlements transfer.
AddsUp(log, S) ==
  /\ LedgerState(log).proposals = Proposals(log)
  /\ LedgerState(log).confirmed = ConfirmedIds(log)
  /\ \A m \in S : Balance(log)[m] = SumOver(Contribution(log, m), RecordedReceipts(log))
                                    + SumOver(Transfer(log, m), ConfirmedProposals(log))

\* A log holds finitely many receipts and proposals.
LEMMA LogsAreFinite ==
  ASSUME NEW log \in Seq(Event)
  PROVE  /\ IsFiniteSet(RecordedReceipts(log))
         /\ IsFiniteSet(Proposals(log)) /\ IsFiniteSet(ConfirmedProposals(log))
<1>1. IsFiniteSet(ToSet(log))
  <2>1. IsFiniteSet(1..Len(log)) /\ DOMAIN log = 1..Len(log)
    BY FS_Interval, LenProperties
  <2>2. log \in [1..Len(log) -> ToSet(log)]
    BY <2>1 DEF ToSet
  <2>3. log \in Surjection(1..Len(log), ToSet(log))
    BY <2>1, <2>2 DEF ToSet, Surjection
  <2>4. QED
    BY <2>1, <2>3, FS_Surjection
<1>2. \A type : IsFiniteSet(EventsOf(log, type))
  BY <1>1, FS_Subset DEF EventsOf
<1>3. IsFiniteSet(RecordedReceipts(log))
  <2> DEFINE S == EventsOf(log, "receipt_recorded")
             f == [e \in S |-> e.receipt]
  <2>1. f \in Surjection(S, RecordedReceipts(log))
    BY DEF RecordedReceipts, Surjection
  <2>2. IsFiniteSet(S)
    BY <1>2
  <2> HIDE DEF f, S
  <2>3. QED
    BY <2>1, <2>2, FS_Surjection
<1>4. QED
  BY <1>2, <1>3, FS_Subset DEF Proposals, ConfirmedProposals

\* The values that are summed are integers.
LEMMA ContributionsType ==
  ASSUME NEW log \in Seq(Event), NEW m \in Member
  PROVE  /\ \A r \in RecordedReceipts(log) : Contribution(log, m)[r] \in Int
         /\ \A p \in ConfirmedProposals(log) : Transfer(log, m)[p] \in Int
         /\ SumOver(Contribution(log, m), RecordedReceipts(log)) \in Int
         /\ SumOver(Transfer(log, m), ConfirmedProposals(log)) \in Int
<1>1. \A r \in RecordedReceipts(log) : Contribution(log, m)[r] \in Int
  <2>1. SUFFICES ASSUME NEW r \in RecordedReceipts(log) PROVE Contribution(log, m)[r] \in Int
    OBVIOUS
  <2>2. EffectiveReceipt(log, r) \in [payer : Member, amount : Nat, participants : SUBSET Member,
                                      shares : [Member -> Nat]]
    BY EffectiveReceiptType
  <2>3. EffectOf(EffectiveReceipt(log, r)) \in [Member -> Int]
    BY <2>2, EffectType DEF EffectOf
  <2>4. QED
    BY <2>3 DEF Contribution
<1>2. \A p \in ConfirmedProposals(log) : Transfer(log, m)[p] \in Int
  BY ProposalsType, MovedType DEF ConfirmedProposals, Transfer
<1>3. QED
  BY <1>1, <1>2, LogsAreFinite, SumType

\* The place of a receipt is where its record is.
LEMMA RecordedAtIsUnique ==
  ASSUME NEW log \in Seq(Event), Keyed(log), NEW i \in DOMAIN log,
         log[i].type = "receipt_recorded"
  PROVE  RecordedAt(log, log[i].receipt) = i /\ log[i].receipt \in RecordedReceipts(log)
<1> DEFINE r == log[i].receipt
<1>1. r \in RecordedReceipts(log)
  BY DEF RecordedReceipts, EventsOf, ToSet
<1>2. /\ RecordedAt(log, r) \in DOMAIN log
      /\ log[RecordedAt(log, r)].type = "receipt_recorded" /\ log[RecordedAt(log, r)].receipt = r
  BY <1>1, RecordedAtIsARecord DEF ReceiptEvent
<1>3. QED
  BY <1>1, <1>2 DEF Keyed, SameDedupeKey

\* A receipt that nothing corrects contributes what is recorded.
LEMMA UncorrectedReceipt ==
  ASSUME NEW log \in Seq(Event), NEW r \in RecordedReceipts(log), r \notin AdjustedReceipts(log)
  PROVE  EffectOf(EffectiveReceipt(log, r)) = EffectOf(log[RecordedAt(log, r)])
<1>1. Corrections(log, r) = {}
  BY DEF Corrections, AdjustedReceipts, EventsOf, ToSet
<1>2. QED
  BY <1>1 DEF EffectiveReceipt, EffectOf

\* An insertion moves a record with its event.
LEMMA InsertionShiftsRecords ==
  ASSUME NEW log \in Seq(Event), NEW longer, NEW n, NEW ev, InsertedBehind(longer, log, n, ev),
         Keyed(longer), NEW r \in RecordedReceipts(log)
  PROVE  RecordedAt(longer, r) = ShiftedBehind(n, RecordedAt(log, r))
<1> DEFINE at == RecordedAt(log, r)
<1>1. at \in DOMAIN log /\ log[at].type = "receipt_recorded" /\ log[at].receipt = r
  BY RecordedAtIsARecord DEF ReceiptEvent
<1>2. ShiftedBehind(n, at) \in DOMAIN longer /\ longer[ShiftedBehind(n, at)] = log[at]
  BY <1>1, InsertionShifts
<1>3. longer \in Seq(Event)
  BY DEF InsertedBehind
<1> HIDE DEF at
<1>4. QED
  BY <1>1, <1>2, <1>3, RecordedAtIsUnique DEF at

\* Only a new confirmation locks a receipt.
LEMMA OtherInsertionsLockNothing ==
  ASSUME NEW log \in Seq(Event), NEW longer, NEW n, NEW ev, InsertedBehind(longer, log, n, ev),
         Keyed(longer), NEW r \in RecordedReceipts(log), ev.type # "settlement_confirmed",
         SettlementLocked(longer, r)
  PROVE  SettlementLocked(log, r)
<1>1. PICK k \in DOMAIN longer : k > RecordedAt(longer, r) /\ longer[k].type = "settlement_confirmed"
  BY DEF SettlementLocked
<1>2. PICK i \in DOMAIN log : k = ShiftedBehind(n, i) /\ longer[k] = log[i]
  BY <1>1, InsertionShifts
<1>3. PICK at : at = RecordedAt(log, r)
  OBVIOUS
<1>4. at \in DOMAIN log /\ RecordedAt(longer, r) = ShiftedBehind(n, at)
  BY <1>3, InsertionShiftsRecords, RecordedAtIsARecord
<1>5. DOMAIN log = 1..Len(log) /\ Len(log) \in Nat /\ n \in Nat
  BY LenProperties DEF InsertedBehind
<1>6. i > at
  BY <1>1, <1>2, <1>4, <1>5 DEF ShiftedBehind
<1>7. QED
  BY <1>1, <1>2, <1>3, <1>6 DEF SettlementLocked

\* An insertion that does not correct a receipt leaves in force what was.
LEMMA InsertionKeepsReceipts ==
  ASSUME NEW log \in Seq(Event), NEW longer, NEW n, NEW ev, InsertedBehind(longer, log, n, ev),
         Keyed(longer), NEW r \in RecordedReceipts(log),
         ~(ev.type = "adjustment" /\ ev.receipt = r)
  PROVE  EffectiveReceipt(longer, r) = EffectiveReceipt(log, r)
<1> DEFINE last(h) == {i \in Corrections(h, r) : \A j \in Corrections(h, r) : j <= i}
           current(h) == IF last(h) = {} THEN h[RecordedAt(h, r)] ELSE h[CHOOSE i \in last(h) : TRUE]
<1>1. /\ DOMAIN log = 1..Len(log) /\ Len(log) \in Nat /\ n \in Nat
      /\ \A i \in DOMAIN log : /\ ShiftedBehind(n, i) \in DOMAIN longer
                               /\ longer[ShiftedBehind(n, i)] = log[i]
      /\ \A k \in DOMAIN longer :
           \/ k = n + 1 /\ longer[k] = ev
           \/ \E i \in DOMAIN log : k = ShiftedBehind(n, i) /\ longer[k] = log[i]
  <2>1. DOMAIN log = 1..Len(log) /\ Len(log) \in Nat /\ n \in Nat
    BY LenProperties DEF InsertedBehind
  <2>2. QED
    BY <2>1, InsertionShifts
<1>2. longer[RecordedAt(longer, r)] = log[RecordedAt(log, r)]
  BY <1>1, InsertionShiftsRecords, RecordedAtIsARecord
<1>3. \A k : k \in Corrections(longer, r) <=> \E i \in Corrections(log, r) : k = ShiftedBehind(n, i)
  BY <1>1 DEF Corrections
<1>4. /\ Corrections(log, r) \subseteq DOMAIN log
      /\ \A i, j \in DOMAIN log : ShiftedBehind(n, i) <= ShiftedBehind(n, j) <=> i <= j
  BY <1>1 DEF Corrections, ShiftedBehind
<1>5. \A k : k \in last(longer) <=> \E i \in last(log) : k = ShiftedBehind(n, i)
  <2> HIDE DEF ShiftedBehind
  <2>1. QED
    BY <1>3, <1>4
<1>6. \A i, j \in last(log) : i = j
  BY <1>1, <1>4
<1>7. current(longer) = current(log)
  <2>1. CASE last(log) = {}
    <3>1. last(longer) = {}
      BY <1>5, <2>1
    <3> HIDE DEF last
    <3>2. QED
      BY <1>2, <2>1, <3>1
  <2>2. CASE last(log) # {}
    <3>1. PICK i : last(log) = {i}
      BY <1>6, <2>2
    <3>2. last(longer) = {ShiftedBehind(n, i)} /\ i \in DOMAIN log
      BY <1>4, <1>5, <3>1
    <3> HIDE DEF last
    <3>3. /\ (CHOOSE k \in last(log) : TRUE) = i
          /\ (CHOOSE k \in last(longer) : TRUE) = ShiftedBehind(n, i)
          /\ last(log) # {} /\ last(longer) # {}
      BY <3>1, <3>2
    <3>4. QED
      BY <1>1, <3>2, <3>3
  <2>3. QED
    BY <2>1, <2>2
<1>8. \A h : EffectiveReceipt(h, r) =
               [payer |-> h[RecordedAt(h, r)].payer, amount |-> current(h).amount,
                participants |-> current(h).participants, shares |-> current(h).shares]
  BY DEF EffectiveReceipt
<1> HIDE DEF current
<1>9. QED
  BY <1>2, <1>7, <1>8

\* A correction is in force as soon as it is appended.
LEMMA CorrectionIsInForce ==
  ASSUME NEW log \in Seq(Event), NEW longer, NEW ev, InsertedBehind(longer, log, Len(log), ev),
         Keyed(longer), NEW r \in RecordedReceipts(log), ev.type = "adjustment", ev.receipt = r
  PROVE  EffectiveReceipt(longer, r) =
           [payer |-> EffectiveReceipt(log, r).payer, amount |-> ev.amount,
            participants |-> ev.participants, shares |-> ev.shares]
<1> DEFINE N == Len(log)
           at == RecordedAt(log, r)
           last == {i \in Corrections(longer, r) : \A j \in Corrections(longer, r) : j <= i}
<1>1. N \in Nat /\ DOMAIN log = 1..N /\ DOMAIN longer = 1..(N + 1) /\ longer[N + 1] = ev
  BY LenProperties DEF InsertedBehind
<1>2. longer[RecordedAt(longer, r)] = log[at]
  BY InsertionShiftsRecords, InsertionShifts, RecordedAtIsARecord
<1>3. N + 1 \in Corrections(longer, r) /\ \A i \in Corrections(longer, r) : i \in 1..(N + 1)
  BY <1>1 DEF Corrections
<1>4. last = {N + 1}
  BY <1>1, <1>3
<1> HIDE DEF last
<1>5. last # {} /\ longer[CHOOSE i \in last : TRUE] = ev
  BY <1>1, <1>4
<1>6. EffectiveReceipt(log, r).payer = log[at].payer
  BY DEF EffectiveReceipt
<1>7. EffectiveReceipt(longer, r) =
        [payer |-> longer[RecordedAt(longer, r)].payer, amount |-> ev.amount,
         participants |-> ev.participants, shares |-> ev.shares]
  BY <1>5 DEF EffectiveReceipt, last
<1>8. QED
  BY <1>2, <1>6, <1>7

\* Changing one value changes the sum by as much.
LEMMA OneValueMoves ==
  ASSUME NEW S, IsFiniteSet(S), NEW a \in S, NEW f, NEW h,
         \A x \in S : f[x] \in Int /\ h[x] \in Int,
         \A x \in S : x # a => h[x] = f[x]
  PROVE  SumOver(h, S) = SumOver(f, S) + h[a] - f[a]
<1> DEFINE c == h[a] - f[a]
           point == [x \in S |-> IF x = a THEN c ELSE 0]
<1>1. c \in Int
  OBVIOUS
<1>2. Adds(h, f, point, S) /\ PointAt(point, a, c, S)
  BY <1>1 DEF Adds, PointAt
<1> HIDE DEF point
<1>3. SumOver(h, S) = SumOver(f, S) + SumOver(point, S)
  BY <1>2, SumOfSums
<1> HIDE DEF c
<1>4. SumOver(point, S) = c
  BY <1>1, <1>2, SumOfPoint
<1>5. SumOver(f, S) \in Int
  BY SumType
<1>6. QED
  BY <1>3, <1>4, <1>5 DEF c

\* An event that is appended or back-dated keeps the keys apart.
LEMMA KeysStayApart ==
  ASSUME NEW log \in Seq(Event), NEW longer, NEW n, NEW ev, InsertedBehind(longer, log, n, ev),
         Keyed(log), ~Duplicate(log, ev),
         ev.type = "adjustment" => ev.receipt \in RecordedReceipts(log)
  PROVE  Keyed(longer)
<1>1. \A k \in DOMAIN longer :
        \/ k = n + 1 /\ longer[k] = ev
        \/ \E i \in DOMAIN log : k = ShiftedBehind(n, i) /\ longer[k] = log[i]
  BY InsertionShifts
<1>2. ASSUME NEW k \in DOMAIN longer, NEW l \in DOMAIN longer, SameDedupeKey(longer[k], longer[l])
      PROVE  k = l
  <2>1. ASSUME NEW i \in DOMAIN log
        PROVE  ~SameDedupeKey(log[i], ev) /\ ~SameDedupeKey(ev, log[i])
    BY DEF Duplicate, SameDedupeKey
  <2>2. \A i, j \in DOMAIN log : SameDedupeKey(log[i], log[j]) => i = j
    BY DEF Keyed
  <2>3. QED
    BY <1>1, <1>2, <2>1, <2>2
<1>3. /\ RecordedReceipts(log) \subseteq RecordedReceipts(longer)
      /\ AdjustedReceipts(longer) \subseteq AdjustedReceipts(log) \cup RecordedReceipts(log)
  <2>1. /\ EventsOf(log, "receipt_recorded") \subseteq EventsOf(longer, "receipt_recorded")
        /\ \A e \in EventsOf(longer, "adjustment") :
             e \in EventsOf(log, "adjustment") \/ (e = ev /\ ev.type = "adjustment")
    BY InsertionAddsToItsType
  <2>2. QED
    BY <2>1 DEF RecordedReceipts, AdjustedReceipts
<1>4. QED
  BY <1>2, <1>3 DEF Keyed

\* So does rewriting a receipt to another amount.
LEMMA RewritingKeepsKeys ==
  ASSUME NEW a \in Seq(Event), NEW b, NEW i, RewrittenAt(b, a, i), b[i].receipt = a[i].receipt
  PROVE  /\ Keyed(a) => Keyed(b)
         /\ RecordedReceipts(b) = RecordedReceipts(a) /\ AdjustedReceipts(b) = AdjustedReceipts(a)
         /\ Proposals(b) = Proposals(a) /\ ConfirmedIds(b) = ConfirmedIds(a)
         /\ \A r : Corrections(b, r) = Corrections(a, r)
<1>1. /\ DOMAIN a = DOMAIN b /\ i \in DOMAIN a
      /\ a[i].type = "receipt_recorded" /\ b[i].type = "receipt_recorded"
      /\ \A k \in DOMAIN a : k # i => b[k] = a[k]
  BY LenProperties DEF RewrittenAt, ReceiptEvent
<1>2. \A type : type # "receipt_recorded" => EventsOf(b, type) = EventsOf(a, type)
  BY <1>1 DEF EventsOf, ToSet
<1>3. AdjustedReceipts(b) = AdjustedReceipts(a) /\ Proposals(b) = Proposals(a)
        /\ ConfirmedIds(b) = ConfirmedIds(a)
  BY <1>2 DEF AdjustedReceipts, Proposals, ConfirmedIds
<1>4. RecordedReceipts(b) = RecordedReceipts(a)
  <2>1. RecordedReceipts(a) = {a[k].receipt : k \in {l \in DOMAIN a : a[l].type = "receipt_recorded"}}
    BY DEF RecordedReceipts, EventsOf, ToSet
  <2>2. RecordedReceipts(b) = {b[k].receipt : k \in {l \in DOMAIN b : b[l].type = "receipt_recorded"}}
    BY DEF RecordedReceipts, EventsOf, ToSet
  <2>3. {l \in DOMAIN b : b[l].type = "receipt_recorded"} = {l \in DOMAIN a : a[l].type = "receipt_recorded"}
    BY <1>1
  <2>4. \A k \in DOMAIN a : b[k].receipt = a[k].receipt
    BY <1>1
  <2>5. QED
    BY <2>1, <2>2, <2>3, <2>4
<1>5. \A k \in DOMAIN a : /\ b[k].type = a[k].type
                          /\ b[k].type # "receipt_recorded" => b[k] = a[k]
                          /\ b[k].receipt = a[k].receipt
  BY <1>1
<1>6. Keyed(a) => Keyed(b)
  <2>1. \A k, l \in DOMAIN a : SameDedupeKey(b[k], b[l]) => SameDedupeKey(a[k], a[l])
    BY <1>5 DEF SameDedupeKey
  <2>2. QED
    BY <1>1, <1>3, <1>4, <2>1 DEF Keyed
<1>7. ASSUME NEW r
      PROVE  Corrections(b, r) = Corrections(a, r)
  BY <1>1 DEF Corrections
<1>8. QED
  BY <1>3, <1>4, <1>6, <1>7

\* An event that is no settlement transfers nothing, and one that is neither a receipt
\* nor a correction contributes nothing.
LEMMA OtherEventsMoveNothing ==
  ASSUME NEW log \in Seq(Event), NEW longer, NEW n, NEW ev, InsertedBehind(longer, log, n, ev),
         Keyed(longer)
  PROVE  /\ ev.type \notin {"settlement_proposed", "settlement_confirmed"} =>
              /\ Proposals(longer) = Proposals(log) /\ ConfirmedIds(longer) = ConfirmedIds(log)
              /\ \A m : SumOver(Transfer(longer, m), ConfirmedProposals(longer))
                          = SumOver(Transfer(log, m), ConfirmedProposals(log))
         /\ ev.type \notin {"receipt_recorded", "adjustment"} =>
              \A m : SumOver(Contribution(longer, m), RecordedReceipts(longer))
                       = SumOver(Contribution(log, m), RecordedReceipts(log))
<1>1. ASSUME ev.type \notin {"settlement_proposed", "settlement_confirmed"}
      PROVE  Proposals(longer) = Proposals(log) /\ ConfirmedIds(longer) = ConfirmedIds(log)
  BY <1>1, InsertionAddsToItsType DEF Proposals, ConfirmedIds
<1>2. ASSUME ev.type \notin {"settlement_proposed", "settlement_confirmed"}, NEW m
      PROVE  SumOver(Transfer(longer, m), ConfirmedProposals(longer))
               = SumOver(Transfer(log, m), ConfirmedProposals(log))
  <2>1. ConfirmedProposals(longer) = ConfirmedProposals(log)
    BY <1>1, <1>2 DEF ConfirmedProposals
  <2>2. Transfer(longer, m) = Transfer(log, m)
    BY <2>1 DEF Transfer
  <2>3. QED
    BY <2>1, <2>2
<1>3. ASSUME ev.type \notin {"receipt_recorded", "adjustment"}, NEW m
      PROVE  SumOver(Contribution(longer, m), RecordedReceipts(longer))
               = SumOver(Contribution(log, m), RecordedReceipts(log))
  <2>1. RecordedReceipts(longer) = RecordedReceipts(log)
    BY <1>3, InsertionAddsToItsType DEF RecordedReceipts
  <2>2. \A r \in RecordedReceipts(log) : EffectiveReceipt(longer, r) = EffectiveReceipt(log, r)
    BY <1>3, InsertionKeepsReceipts
  <2>3. Contribution(longer, m) = Contribution(log, m)
    BY <2>1, <2>2 DEF Contribution
  <2>4. QED
    BY <2>1, <2>3
<1>4. QED
  BY <1>1, <1>2, <1>3

\* A new receipt contributes what is recorded.
LEMMA RecordingAddsUp ==
  ASSUME NEW log \in Seq(Event), NEW S \in SUBSET Member, NEW longer, NEW ev \in ReceiptEvent,
         InsertedBehind(longer, log, Len(log), ev), ~Duplicate(log, ev),
         Keyed(log), Keyed(longer), AddsUp(log, S)
  PROVE  AddsUp(longer, S)
<1> DEFINE s == LedgerState(log)
           r == ev.receipt
           R == RecordedReceipts(log)
<1>1. /\ ev.type = "receipt_recorded" /\ ev \in Event /\ longer \in Seq(Event)
      /\ EffectOf(ev) \in [Member -> Int]
  BY EffectType DEF ReceiptEvent, Event, InsertedBehind, EffectOf
<1>2. LedgerState(longer) = ApplyEvent(s, ev) /\ s \in LState
  BY LastEventIsApplied, LedgerStateType
<1>3. /\ LedgerState(longer).proposals = s.proposals /\ LedgerState(longer).confirmed = s.confirmed
      /\ LedgerState(longer).balance = Plus(s.balance, EffectOf(ev))
  BY <1>1, <1>2 DEF ApplyEvent, LState, EffectOf
<1>4. RecordedReceipts(longer) = R \cup {r}
  <2>1. EventsOf(longer, "receipt_recorded") = EventsOf(log, "receipt_recorded") \cup {ev}
    BY <1>1, InsertionAddsToItsType
  <2>2. QED
    BY <2>1 DEF RecordedReceipts
<1>5. r \notin R
  BY <1>1 DEF Duplicate, SameDedupeKey, RecordedReceipts, EventsOf, ToSet
<1>6. EffectOf(EffectiveReceipt(longer, r)) = EffectOf(ev)
  <2>1. longer[Len(log) + 1] = ev /\ Len(log) + 1 \in DOMAIN longer
    BY LenProperties DEF InsertedBehind
  <2>2. RecordedAt(longer, r) = Len(log) + 1 /\ r \in RecordedReceipts(longer)
    BY <1>1, <2>1, RecordedAtIsUnique
  <2>3. r \notin AdjustedReceipts(longer)
    BY <1>1, <1>5, InsertionAddsToItsType DEF Keyed, AdjustedReceipts
  <2>4. QED
    BY <1>1, <2>1, <2>2, <2>3, UncorrectedReceipt
<1>7. ASSUME NEW m \in S
      PROVE  Balance(longer)[m] = SumOver(Contribution(longer, m), RecordedReceipts(longer))
                                  + SumOver(Transfer(longer, m), ConfirmedProposals(longer))
  <2> DEFINE f == Contribution(log, m)
             h == Contribution(longer, m)
             t == SumOver(Transfer(log, m), ConfirmedProposals(log))
  <2>1. /\ IsFiniteSet(R) /\ (\A x \in R : f[x] \in Int) /\ (\A x \in R \cup {r} : h[x] \in Int)
        /\ SumOver(f, R) \in Int /\ t \in Int
    BY <1>1, <1>4, LogsAreFinite, ContributionsType
  <2>2. \A x \in R : h[x] = f[x]
    BY <1>1, <1>4, InsertionKeepsReceipts DEF Contribution
  <2>3. h[r] = EffectOf(ev)[m]
    BY <1>4, <1>6 DEF Contribution
  <2>4. Balance(longer)[m] = Balance(log)[m] + EffectOf(ev)[m]
    BY <1>3 DEF Plus, Balance
  <2>5. Balance(log)[m] = SumOver(f, R) + t
    BY DEF AddsUp
  <2>6. SumOver(Transfer(longer, m), ConfirmedProposals(longer)) = t
    BY <1>1, OtherEventsMoveNothing
  <2> HIDE DEF f, h, R, r, t
  <2>7. SumOver(h, R) = SumOver(f, R)
    BY <2>1, <2>2, SumOfEquals
  <2>8. SumOver(h, R \cup {r}) = SumOver(h, R) + h[r]
    BY <1>5, <2>1, SumAddsElement
  <2>9. QED
    BY <1>1, <1>4, <2>1, <2>3, <2>4, <2>5, <2>6, <2>7, <2>8 DEF h
<1>8. LedgerState(longer).proposals = Proposals(longer)
        /\ LedgerState(longer).confirmed = ConfirmedIds(longer)
  BY <1>1, <1>3, OtherEventsMoveNothing DEF AddsUp
<1>9. QED
  BY <1>7, <1>8 DEF AddsUp

\* Joining and leaving move nothing.
LEMMA MemberEventsAddUp ==
  ASSUME NEW log \in Seq(Event), NEW S \in SUBSET Member, NEW longer, NEW ev \in MemberEvent,
         InsertedBehind(longer, log, Len(log), ev), Keyed(log), Keyed(longer), AddsUp(log, S)
  PROVE  AddsUp(longer, S)
<1> DEFINE s == LedgerState(log)
<1>1. LedgerState(longer) = ApplyEvent(s, ev) /\ s \in LState
  BY LastEventIsApplied, LedgerStateType
<1>2. ev.type \in {"member_joined", "member_left"}
  BY DEF MemberEvent
<1>3. /\ LedgerState(longer).proposals = s.proposals /\ LedgerState(longer).confirmed = s.confirmed
      /\ LedgerState(longer).balance = s.balance
  BY <1>1, <1>2 DEF ApplyEvent, LState
<1>4. QED
  BY <1>2, <1>3, OtherEventsMoveNothing DEF AddsUp, Balance

\* A proposal moves nothing until it is confirmed.
LEMMA ProposingAddsUp ==
  ASSUME NEW log \in Seq(Event), NEW S \in SUBSET Member, NEW longer, NEW ev \in ProposalEvent,
         InsertedBehind(longer, log, Len(log), ev), Keyed(log), Keyed(longer), AddsUp(log, S),
         ~Duplicate(log, ev), ConfirmedIds(log) \subseteq ProposedIds(log)
  PROVE  AddsUp(longer, S)
<1> DEFINE s == LedgerState(log)
<1>1. LedgerState(longer) = ApplyEvent(s, ev) /\ s \in LState
  BY LastEventIsApplied, LedgerStateType
<1>2. ev.type = "settlement_proposed"
  BY DEF ProposalEvent
<1>3. /\ LedgerState(longer).proposals = s.proposals \cup {ev}
      /\ LedgerState(longer).confirmed = s.confirmed /\ LedgerState(longer).balance = s.balance
  BY <1>1, <1>2 DEF ApplyEvent, LState
<1>4. Proposals(longer) = Proposals(log) \cup {ev} /\ ConfirmedIds(longer) = ConfirmedIds(log)
  <2>1. /\ EventsOf(longer, "settlement_proposed") = EventsOf(log, "settlement_proposed") \cup {ev}
        /\ EventsOf(longer, "settlement_confirmed") = EventsOf(log, "settlement_confirmed")
    BY <1>2, InsertionAddsToItsType
  <2>2. QED
    BY <2>1 DEF Proposals, ConfirmedIds
<1>5. ev.sid \notin ConfirmedIds(log)
  BY <1>2 DEF ProposedIds, Proposals, Duplicate, SameDedupeKey, EventsOf, ToSet
<1>6. ConfirmedProposals(longer) = ConfirmedProposals(log)
  BY <1>4, <1>5 DEF ConfirmedProposals
<1>7. \A m : Transfer(longer, m) = Transfer(log, m)
  BY <1>6 DEF Transfer
<1>8. QED
  BY <1>2, <1>3, <1>4, <1>6, <1>7, OtherEventsMoveNothing DEF AddsUp, Balance

\* A confirmation transfers the amount of its proposal.
LEMMA ConfirmingAddsUp ==
  ASSUME NEW log \in Seq(Event), NEW S \in SUBSET Member, NEW longer, NEW n, NEW ev \in ConfirmEvent,
         InsertedBehind(longer, log, n, ev), Keyed(log), Keyed(longer), AddsUp(log, S),
         ~Duplicate(log, ev),
         \E j \in 1..n : log[j].type = "settlement_proposed" /\ log[j].sid = ev.sid
  PROVE  AddsUp(longer, S)
<1> DEFINE D == ConfirmedProposals(log)
<1>1. /\ ev.type = "settlement_confirmed"
      /\ Proposals(longer) = Proposals(log) /\ ConfirmedIds(longer) = ConfirmedIds(log) \cup {ev.sid}
  <2>1. ev.type = "settlement_confirmed"
    BY DEF ConfirmEvent
  <2>2. /\ EventsOf(longer, "settlement_proposed") = EventsOf(log, "settlement_proposed")
        /\ EventsOf(longer, "settlement_confirmed") = EventsOf(log, "settlement_confirmed") \cup {ev}
    BY <2>1, InsertionAddsToItsType
  <2>3. QED
    BY <2>1, <2>2 DEF Proposals, ConfirmedIds
<1>2. ev.sid \notin ConfirmedIds(log)
  BY <1>1 DEF ConfirmedIds, Duplicate, SameDedupeKey, EventsOf, ToSet
<1>3. PICK p \in Proposals(log) :
        /\ p.sid = ev.sid
        /\ LedgerState(longer).proposals = LedgerState(log).proposals
        /\ LedgerState(longer).confirmed = LedgerState(log).confirmed \cup {ev.sid}
        /\ \A m \in Member : Balance(longer)[m] = Balance(log)[m] + Moved(p)[m]
  BY <1>2, ConfirmationMoves
<1>4. p \in ProposalEvent /\ Moved(p) \in [Member -> Int]
  BY ProposalsType, MovedType
<1>5. ConfirmedProposals(longer) = D \cup {p} /\ p \notin D
  <2>1. \A q \in Proposals(log) : q.sid = ev.sid => q = p
    <3>1. \A q \in Proposals(log) : \E i \in DOMAIN log : log[i] = q /\ q.type = "settlement_proposed"
      BY DEF Proposals, EventsOf, ToSet
    <3>2. QED
      BY <1>3, <3>1 DEF Keyed, SameDedupeKey
  <2>2. QED
    BY <1>1, <1>2, <1>3, <2>1 DEF ConfirmedProposals
<1>6. ASSUME NEW m \in S
      PROVE  Balance(longer)[m] = SumOver(Contribution(longer, m), RecordedReceipts(longer))
                                  + SumOver(Transfer(longer, m), ConfirmedProposals(longer))
  <2> DEFINE f == Transfer(log, m)
             h == Transfer(longer, m)
             c == SumOver(Contribution(log, m), RecordedReceipts(log))
  <2>1. /\ IsFiniteSet(D) /\ (\A x \in D : f[x] \in Int) /\ SumOver(f, D) \in Int /\ c \in Int
    BY LogsAreFinite, ContributionsType
  <2>2. (\A x \in D : h[x] = f[x]) /\ h[p] = Moved(p)[m]
    BY <1>5 DEF Transfer
  <2>3. Balance(longer)[m] = Balance(log)[m] + Moved(p)[m]
    BY <1>3
  <2>4. Balance(log)[m] = c + SumOver(f, D)
    BY DEF AddsUp
  <2>5. SumOver(Contribution(longer, m), RecordedReceipts(longer)) = c
    BY <1>1, OtherEventsMoveNothing
  <2>6. Moved(p)[m] \in Int
    BY <1>4
  <2> HIDE DEF f, h, D, c
  <2>7. SumOver(h, D) = SumOver(f, D)
    BY <2>1, <2>2, SumOfEquals
  <2>8. \A x \in D \cup {p} : h[x] \in Int
    BY <2>1, <2>2, <2>6
  <2>9. SumOver(h, D \cup {p}) = SumOver(h, D) + h[p]
    BY <1>5, <2>1, <2>8, SumAddsElement
  <2>10. QED
    BY <1>5, <2>1, <2>2, <2>3, <2>4, <2>5, <2>6, <2>7, <2>9 DEF h
<1>7. QED
  BY <1>1, <1>3, <1>6 DEF AddsUp

\* What a correction of the split in force moves.
LEMMA CorrectionMoves ==
  ASSUME NEW log \in Seq(Event), NEW longer, NEW r \in RecordedReceipts(log), NEW amount \in Nat,
         r \in Receipt, Keyed(longer),
         InsertedBehind(longer, log, Len(log), Adjustment(r, EffectiveReceipt(log, r), amount)),
         NEW m \in Member
  PROVE  Adjustment(r, EffectiveReceipt(log, r), amount).delta[m]
           = EffectOf(EffectiveReceipt(longer, r))[m] - EffectOf(EffectiveReceipt(log, r))[m]
<1> DEFINE before == EffectiveReceipt(log, r)
           ev == Adjustment(r, before, amount)
<1>1. ev.type = "adjustment" /\ ev.receipt = r /\ ev.amount = amount
        /\ ev.shares = ComputeShares(r, amount, before.participants)
  BY DEF Adjustment
<1>2. EffectiveReceipt(longer, r) = [payer |-> before.payer, amount |-> ev.amount,
                                     participants |-> ev.participants, shares |-> ev.shares]
  BY <1>1, CorrectionIsInForce
<1>3. EffectOf(EffectiveReceipt(longer, r)) =
        ReceiptEffect(before.payer, amount, ComputeShares(r, amount, before.participants))
  BY <1>1, <1>2 DEF EffectOf
<1> HIDE DEF before
<1>4. QED
  BY <1>3 DEF Adjustment, EffectOf, before

\* A correction moves a receipt from what it contributed to what it says now, for those
\* whom it moves by the difference.
LEMMA CorrectingAddsUp ==
  ASSUME NEW log \in Seq(Event), NEW S \in SUBSET Member, NEW longer, NEW ev \in AdjustmentEvent,
         NEW r \in RecordedReceipts(log), ev.receipt = r,
         InsertedBehind(longer, log, Len(log), ev), Keyed(longer), AddsUp(log, S),
         \A m \in S : ev.delta[m] = EffectOf(EffectiveReceipt(longer, r))[m]
                                    - EffectOf(EffectiveReceipt(log, r))[m]
  PROVE  AddsUp(longer, S)
<1> DEFINE s == LedgerState(log)
           R == RecordedReceipts(log)
<1>1. /\ ev.type = "adjustment" /\ ev \in Event /\ ev.delta \in [Member -> Int]
      /\ longer \in Seq(Event)
  BY DEF AdjustmentEvent, Event, InsertedBehind
<1>2. LedgerState(longer) = ApplyEvent(s, ev) /\ s \in LState
  BY LastEventIsApplied, LedgerStateType
<1>3. /\ LedgerState(longer).proposals = s.proposals /\ LedgerState(longer).confirmed = s.confirmed
      /\ LedgerState(longer).balance = Plus(s.balance, ev.delta)
  BY <1>1, <1>2 DEF ApplyEvent, LState
<1>4. RecordedReceipts(longer) = R
  BY <1>1, InsertionAddsToItsType DEF RecordedReceipts
<1>5. ASSUME NEW m \in S
      PROVE  Balance(longer)[m] = SumOver(Contribution(longer, m), RecordedReceipts(longer))
                                  + SumOver(Transfer(longer, m), ConfirmedProposals(longer))
  <2> DEFINE f == Contribution(log, m)
             h == Contribution(longer, m)
             t == SumOver(Transfer(log, m), ConfirmedProposals(log))
  <2>1. /\ IsFiniteSet(R) /\ (\A x \in R : f[x] \in Int /\ h[x] \in Int)
        /\ SumOver(f, R) \in Int /\ t \in Int
    BY <1>1, <1>4, LogsAreFinite, ContributionsType
  <2>2. \A x \in R : x # r => h[x] = f[x]
    BY <1>1, <1>4, InsertionKeepsReceipts DEF Contribution
  <2>3. ev.delta[m] = h[r] - f[r]
    BY <1>4 DEF Contribution
  <2>4. Balance(longer)[m] = Balance(log)[m] + ev.delta[m]
    BY <1>3 DEF Plus, Balance
  <2>5. Balance(log)[m] = SumOver(f, R) + t
    BY DEF AddsUp
  <2>6. SumOver(Transfer(longer, m), ConfirmedProposals(longer)) = t
    BY <1>1, OtherEventsMoveNothing
  <2>7. r \in R
    OBVIOUS
  <2> HIDE DEF f, h, R, t
  <2>8. SumOver(h, R) = SumOver(f, R) + h[r] - f[r]
    BY <2>1, <2>2, <2>7, OneValueMoves
  <2>9. QED
    BY <1>4, <2>1, <2>3, <2>4, <2>5, <2>6, <2>7, <2>8 DEF h
<1>6. LedgerState(longer).proposals = Proposals(longer)
        /\ LedgerState(longer).confirmed = ConfirmedIds(longer)
  BY <1>1, <1>3, OtherEventsMoveNothing DEF AddsUp
<1>7. QED
  BY <1>5, <1>6 DEF AddsUp

\* A restatement locks nothing.
LEMMA RewritingLocksNothing ==
  ASSUME NEW a \in Seq(Event), NEW b, NEW i, RewrittenAt(b, a, i), b[i].receipt = a[i].receipt,
         Keyed(a), NEW r \in RecordedReceipts(a)
  PROVE  RecordedAt(b, r) = RecordedAt(a, r) /\ (SettlementLocked(b, r) => SettlementLocked(a, r))
<1>1. /\ DOMAIN a = 1..Len(a) /\ DOMAIN b = DOMAIN a /\ i \in DOMAIN a /\ b \in Seq(Event)
      /\ a[i].type = "receipt_recorded" /\ b[i].type = "receipt_recorded"
      /\ \A k \in DOMAIN a : k # i => b[k] = a[k]
  BY LenProperties DEF RewrittenAt, ReceiptEvent
<1>2. Keyed(b)
  BY RewritingKeepsKeys
<1>3. PICK at : at = RecordedAt(a, r)
  OBVIOUS
<1>4. at \in DOMAIN a /\ a[at].type = "receipt_recorded" /\ a[at].receipt = r
  BY <1>3, RecordedAtIsARecord DEF ReceiptEvent
<1>5. b[at].type = "receipt_recorded" /\ b[at].receipt = r
  BY <1>1, <1>4
<1>6. RecordedAt(b, r) = at
  BY <1>1, <1>2, <1>4, <1>5, RecordedAtIsUnique
<1>7. QED
  BY <1>1, <1>3, <1>6 DEF SettlementLocked

\* It leaves the other receipts as they are.
LEMMA RewritingKeepsReceipts ==
  ASSUME NEW a \in Seq(Event), NEW b, NEW i, RewrittenAt(b, a, i), b[i].receipt = a[i].receipt,
         Keyed(a), NEW r \in RecordedReceipts(a), r # a[i].receipt
  PROVE  EffectiveReceipt(b, r) = EffectiveReceipt(a, r)
<1> DEFINE at == RecordedAt(a, r)
           last == {k \in Corrections(a, r) : \A l \in Corrections(a, r) : l <= k}
<1>1. /\ DOMAIN a = 1..Len(a) /\ a[i].type = "receipt_recorded"
      /\ \A k \in 1..Len(a) : k # i => b[k] = a[k]
  BY LenProperties DEF RewrittenAt, ReceiptEvent
<1>2. at \in 1..Len(a) /\ at # i
  BY <1>1, RecordedAtIsARecord
<1>3. b[at] = a[at] /\ RecordedAt(b, r) = at /\ Corrections(b, r) = Corrections(a, r)
  BY <1>1, <1>2, RewritingLocksNothing, RewritingKeepsKeys
<1>4. \A k \in last : b[k] = a[k]
  BY <1>1 DEF Corrections
<1> HIDE DEF at, last
<1>5. (IF last = {} THEN b[at] ELSE b[CHOOSE k \in last : TRUE])
        = (IF last = {} THEN a[at] ELSE a[CHOOSE k \in last : TRUE])
  BY <1>3, <1>4
<1>6. QED
  BY <1>3, <1>5 DEF EffectiveReceipt, last, at

\* So does a restatement, as long as nothing has corrected the receipt.
LEMMA RestatingAddsUp ==
  ASSUME NEW a \in Seq(Event), NEW S \in SUBSET Member, NEW b, NEW i,
         RewrittenAt(b, a, i), b[i].receipt = a[i].receipt,
         b[i].payer = a[i].payer, Keyed(a), AddsUp(a, S), a[i].receipt \notin AdjustedReceipts(a)
  PROVE  AddsUp(b, S)
<1> DEFINE r == a[i].receipt
           R == RecordedReceipts(a)
<1>1. /\ b \in Seq(Event) /\ Keyed(b) /\ RecordedReceipts(b) = R
      /\ Proposals(b) = Proposals(a) /\ ConfirmedIds(b) = ConfirmedIds(a)
      /\ AdjustedReceipts(b) = AdjustedReceipts(a)
      /\ \A x : Corrections(b, x) = Corrections(a, x)
  BY RewritingKeepsKeys DEF RewrittenAt
<1>2. /\ DOMAIN a = 1..Len(a) /\ DOMAIN b = 1..Len(a) /\ i \in 1..Len(a)
      /\ a[i].type = "receipt_recorded" /\ b[i].type = "receipt_recorded"
      /\ \A k \in 1..Len(a) : k # i => b[k] = a[k]
  BY LenProperties DEF RewrittenAt, ReceiptEvent
<1>3. /\ RecordedAt(a, r) = i /\ RecordedAt(b, r) = i /\ r \in R
  BY <1>1, <1>2, RecordedAtIsUnique
<1>4. \A x \in R : x # r => EffectiveReceipt(b, x) = EffectiveReceipt(a, x)
  BY RewritingKeepsReceipts
<1>5. /\ EffectOf(EffectiveReceipt(a, r)) = EffectOf(a[i])
      /\ EffectOf(EffectiveReceipt(b, r)) = EffectOf(b[i])
  BY <1>1, <1>3, UncorrectedReceipt
<1>6. ASSUME NEW m \in S
      PROVE  Balance(b)[m] = SumOver(Contribution(b, m), RecordedReceipts(b))
                             + SumOver(Transfer(b, m), ConfirmedProposals(b))
  <2> DEFINE f == Contribution(a, m)
             h == Contribution(b, m)
             t == SumOver(Transfer(a, m), ConfirmedProposals(a))
  <2>1. /\ IsFiniteSet(R) /\ (\A x \in R : f[x] \in Int /\ h[x] \in Int)
        /\ SumOver(f, R) \in Int /\ t \in Int
    BY <1>1, LogsAreFinite, ContributionsType
  <2>2. \A x \in R : x # r => h[x] = f[x]
    BY <1>1, <1>4 DEF Contribution
  <2>3. h[r] = EffectOf(b[i])[m] /\ f[r] = EffectOf(a[i])[m]
    BY <1>1, <1>3, <1>5 DEF Contribution
  <2>4. Balance(b)[m] = Balance(a)[m] + EffectOf(b[i])[m] - EffectOf(a[i])[m]
    BY RewritingMoves
  <2>5. Balance(a)[m] = SumOver(f, R) + t
    BY DEF AddsUp
  <2>6. SumOver(Transfer(b, m), ConfirmedProposals(b)) = t
    <3>1. ConfirmedProposals(b) = ConfirmedProposals(a)
      BY <1>1 DEF ConfirmedProposals
    <3>2. Transfer(b, m) = Transfer(a, m)
      BY <3>1 DEF Transfer
    <3>3. QED
      BY <3>1, <3>2
  <2> HIDE DEF f, h, R, t, r
  <2>7. SumOver(h, R) = SumOver(f, R) + h[r] - f[r]
    BY <1>3, <2>1, <2>2, OneValueMoves
  <2>8. QED
    BY <1>1, <1>3, <2>1, <2>3, <2>4, <2>5, <2>6, <2>7 DEF h
<1>7. QED
  BY <1>1, <1>6, RewritingMoves DEF AddsUp

\* Nothing is owed before the first event.
LEMMA EmptyLogAddsUp ==
  ASSUME NEW S \in SUBSET Member
  PROVE  AddsUp(<<>>, S) /\ Keyed(<<>>)
<1>1. LedgerState(<<>>) = EmptyState
  BY EmptyLogFolds
<1>2. /\ Proposals(<<>>) = {} /\ ConfirmedIds(<<>>) = {} /\ RecordedReceipts(<<>>) = {}
      /\ ConfirmedProposals(<<>>) = {} /\ AdjustedReceipts(<<>>) = {}
  BY DEF Proposals, ConfirmedIds, RecordedReceipts, ConfirmedProposals, AdjustedReceipts, EventsOf, ToSet
<1>3. \A f : SumOver(f, {}) = 0
  BY SumOverNothing
<1>4. \A m \in Member : Balance(<<>>)[m] = 0
  BY <1>1 DEF EmptyState, Balance
<1>5. LedgerState(<<>>).proposals = {} /\ LedgerState(<<>>).confirmed = {}
  BY <1>1 DEF EmptyState
<1>6. Keyed(<<>>)
  BY <1>2 DEF Keyed
<1>7. \A m : SumOver(Contribution(<<>>, m), {}) = 0 /\ SumOver(Transfer(<<>>, m), {}) = 0
  BY <1>3
<1>8. AddsUp(<<>>, S)
  <2>1. PICK log : log = <<>>
    OBVIOUS
  <2>2. /\ Proposals(log) = {} /\ ConfirmedIds(log) = {} /\ RecordedReceipts(log) = {}
        /\ ConfirmedProposals(log) = {}
        /\ LedgerState(log).proposals = {} /\ LedgerState(log).confirmed = {}
    BY <1>2, <1>5, <2>1
  <2>3. ASSUME NEW m \in S
        PROVE  Balance(log)[m] = SumOver(Contribution(log, m), RecordedReceipts(log))
                                 + SumOver(Transfer(log, m), ConfirmedProposals(log))
    <3>1. Balance(log)[m] = 0
      BY <1>4, <2>1
    <3>2. QED
      BY <1>3, <2>2, <3>1
  <2>4. AddsUp(log, S)
    BY <2>2, <2>3 DEF AddsUp
  <2>5. QED
    BY <2>1, <2>4
<1>9. QED
  BY <1>6, <1>8
=============================================================================
