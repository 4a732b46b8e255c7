-------------------------- MODULE HouseholdOverlaps --------------------------
(***************************************************************************)
(* What a household promises however its handlers overlap.                 *)
(*                                                                         *)
(* A handler acts on what it read some awaits ago and other handlers run   *)
(* in between, so that some promises hold only for what did not change     *)
(* under a handler.  The variables of this module record exactly that.     *)
(* They are history variables: the properties read them, no action of      *)
(* HouseholdLife does.                                                     *)
(***************************************************************************)
EXTENDS HouseholdProperties

VARIABLES
  crossed,    \* members who joined while a handler was ending memberships
  contested,  \* members let go whose balance has moved since
  asked,      \* <<member, receipt>>: asked to leave while it was being recorded
  overtaken,  \* receipts being restated that a settlement has locked since
  outdated    \* receipts whose split has changed under a handler that had read it

overlaps == <<crossed, contested, asked, overtaken, outdated>>

-----------------------------------------------------------------------------
(* What the handlers in flight are about to do.                            *)

\* m's row is inserted and member_joined is not appended yet.
Joining(m) == \E p \in Proc : At(p, "joined") /\ job[p].member = m

\* A handler ends m's membership, or everybody's.
Ending(m) ==
  \E p \in Proc : \/ job[p].step \in {"left", "delete"} /\ job[p].member = m
                  \/ job[p].step \in {"farewell", "teardown"}

\* The members a handler at this point has decided to let go.
Released(j) ==
  CASE j.step \in {"depart", "count", "teardown"} -> j.queue
    [] j.step \in {"left", "delete"} -> j.queue \cup {j.member}
    [] j.step \in {"dissolve", "farewell"} -> Member
    [] OTHER -> {}
LetGo == UNION {Released(job[p]) : p \in Proc}

\* The payer and the participants of a receipt, and the receipts about to be
\* appended with each of them.
Parties(e) == {e.payer} \cup e.participants
Recording ==
  {x \in Member \X Receipt :
     \E p \in Proc : /\ At(p, "append")
                    /\ x[1] \in Parties(job[p].event) /\ x[2] = job[p].event.receipt}

Restating == {r \in Receipt : \E p \in Proc : At(p, "restate") /\ job[p].receipt = r}

\* p has read the split of r in force and may append a correction of it.
Correcting(p, r) == job[p].step \in {"rescope", "adjust"} /\ job[p].receipt = r

-----------------------------------------------------------------------------
(* What changes under them.                                                *)

Moves(m) == Balance(log')[m] # Balance(log)[m]
Asks(m) == m \in leaving' \ leaving
Settles == ConfirmedIds(log') # ConfirmedIds(log)
Alters(r) == EffectiveReceipt(log', r) # EffectiveReceipt(log, r)

Observe ==
  /\ crossed' = crossed \cup {m \in Member : Joining(m)' /\ Ending(m)'}
  /\ contested' = {m \in LetGo' : m \in contested \/ (m \in LetGo /\ Moves(m))}
  /\ asked' = {x \in Recording' : x \in asked \/ (x \in Recording /\ Asks(x[1]))}
  /\ overtaken' = {r \in Restating' : r \in overtaken \/ (r \in Restating /\ Settles)}
  /\ outdated' = outdated \cup
       {r \in Receipt : (\E p \in Proc : Correcting(p, r) /\ Correcting(p, r)') /\ Alters(r)}

Unobserved == crossed = {} /\ contested = {} /\ asked = {} /\ overtaken = {} /\ outdated = {}

OverlapSpec == Init /\ Unobserved /\ [][Next /\ Observe]_<<vars, overlaps>>

-----------------------------------------------------------------------------
(* The promises.                                                           *)

\* The fold lists nobody as active who has no membership row, also while
\* handlers run and after they were cut short: this is why member_left is
\* appended before the row is deleted (finalizeDeparture, dissolveNow,
\* joinHousehold).  The exception is who joined while a handler was on its way
\* to delete that very row, or every row.
NoGhosts == ActiveMembers(log) \ crossed \subseteq Members

\* A membership row goes only while its member's balance is zero, and the
\* household is deleted only when nobody owes anybody (dissolutionIsBlocked,
\* requestDeparture, settleDeparturesIfCleared).  The exceptions are a balance
\* that another handler moved after the member was let go, and who joined a
\* dissolved household while the last of its members was leaving it.
DepartureGate ==
  [][/\ \A m \in Members : role'[m] = "none" =>
          \/ Balance(log)[m] = 0 \/ m \in contested
          \/ household = "dissolved" /\ m \in crossed
     /\ household' = "dissolved" /\ household # "dissolved" =>
          \A m \in Member \ contested : Balance(log)[m] = 0]_<<role, household>>

\* A member who has asked to leave gets no share of a receipt recorded from
\* then on and cannot be its payer (recordFamilyReceipt), unless they asked
\* between its reading of the participants and its append.
LeaversAccrueNothing ==
  [][\A e \in EventsOf(log', "receipt_recorded") :
       e.receipt \notin RecordedReceipts(log) =>
         \A m \in Parties(e) \cap leaving : <<m, e.receipt>> \in asked]_log

\* A stored receipt is rewritten only while no adjustment corrects it, however
\* the handlers overlap, and while no settlement stands after it, unless that
\* settlement was confirmed between the check under the row lock and the
\* rewrite (maybeRestateReceipt, restateReceiptRecorded).
NoRewriteAfterSettlement ==
  [][Len(log') = Len(log) =>
       \A i, j \in DOMAIN log : log'[i] # log[i] =>
         /\ log[j].type = "settlement_confirmed" => j < i \/ log[i].receipt \in overtaken
         /\ log[j].type = "adjustment" => log[j].receipt # log[i].receipt]_log

\* The balance of a member is what the receipts in force and the settlements say,
\* as long as the member has no part in a receipt whose split changed between
\* its reading by a correction and the append: repeated corrections of one
\* receipt, before and after it is locked, back-dated confirmations and handlers
\* cut short add up (effectiveReceiptLedger, "what this receipt currently
\* contributes").
CorrectionsInOrderAddUp ==
  \A m \in Member :
    (\A e \in EventsOf(log, "receipt_recorded") : m \in Parties(e) => e.receipt \notin outdated) =>
      Balance(log)[m] = Contributed(log, m) + Transferred(log, m)
=============================================================================
