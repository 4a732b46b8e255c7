------------------------- MODULE MCHouseholdOverlaps -------------------------
(* Instances of HouseholdOverlaps for TLC. *)
EXTENDS MCHouseholdLife, HouseholdOverlaps

\* A state Formed leads to: receipt r, of the given amount, was recorded.
Owing(r, amount) ==
  /\ household = "live"
  /\ role = [m \in Member |-> IF m = Founder THEN "owner" ELSE "member"]
  /\ log = Append([i \in 1..Cardinality(Member) |-> MemberJoined(i)],
                  ReceiptRecorded(r, Uploader[r], amount, Member))
  /\ leaving = {} /\ family = {r} /\ lapsed = {} /\ expired = {}
  /\ job = [p \in Proc |-> Idle]
  /\ due = [m \in Member |-> 1]
  /\ started = 0 /\ failures = 0

\* The household is formed, and a receipt may already have been recorded.
BegunSpec ==
  /\ Formed \/ Owing(Max(Receipt), Max(Amount))
  /\ Unobserved /\ [][Next /\ Observe]_<<vars, overlaps>>

\* Clients and settlements are told apart by nothing but their names.
Alike == Permutations(Client) \cup Permutations(Settlement)
=============================================================================
