--------------------------- MODULE MCHouseholdLife ---------------------------
(* Instances of HouseholdLife for TLC. *)
EXTENDS HouseholdProperties

\* Receipts are uploaded by the members in turn.
MCUploader == [r \in Receipt |-> 1 + ((r - 1) % Cardinality(Member))]

\* A state Init leads to: the founder created the household, the others joined.
Founder == Min(Member)
Formed ==
  /\ household = "live"
  /\ role = [m \in Member |-> IF m = Founder THEN "owner" ELSE "member"]
  /\ log = [i \in 1..Cardinality(Member) |-> MemberJoined(i)]
  /\ leaving = {} /\ family = {} /\ lapsed = {} /\ expired = {}
  /\ job = [p \in Proc |-> Idle]
  /\ due = [m \in Member |-> 1]
  /\ started = 0 /\ failures = 0

\* Either the founder still has to create it, or it is formed.
EitherSpec == (Init \/ Formed) /\ [][Next]_vars
FormedSpec == Formed /\ [][Next]_vars
FormedFairSpec == FormedSpec /\ Fairness
=============================================================================
