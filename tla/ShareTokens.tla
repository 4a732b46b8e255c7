---------------------------- MODULE ShareTokens -----------------------------
(* Sharing a shopping list: a member makes a token, which lives ten minutes, *)
(* and whoever scans it claims it and becomes a member of the list.          *)

EXTENDS Integers, Sequences

CONSTANTS Shopper, Scan, MaxTokens

VARIABLES
  onTrip,       \* TripMember of the list's trip, who may do all a member may
  listMembers,  \* ShoppingListMember
  tokens,       \* ShoppingListShareToken: who claimed each, and whether it has expired
  scan,         \* the handlers of claims
  cutShort      \* tokens whose claim stopped halfway

shareVars == <<onTrip, listMembers, tokens, scan, cutShort>>

Nobody == "nobody"
Idle == [at |-> "idle", who |-> Nobody, token |-> 0]

ASSUME ShareAssumption == Nobody \notin Shopper

isShoppingListMember(who) == who \in listMembers \cup onTrip

ShareInit ==
  /\ \E owner \in Shopper : listMembers = {owner} /\ onTrip \in SUBSET Shopper /\ owner \in onTrip
  /\ tokens = <<>> /\ scan = [s \in Scan |-> Idle] /\ cutShort = {}

createListShareToken(who) ==
  /\ isShoppingListMember(who) /\ Len(tokens) < MaxTokens
  /\ tokens' = Append(tokens, [claimedBy |-> Nobody, expired |-> FALSE])
  /\ UNCHANGED <<onTrip, listMembers, scan, cutShort>>

Expire(t) ==
  /\ ~tokens[t].expired /\ tokens' = [tokens EXCEPT ![t].expired = TRUE]
  /\ UNCHANGED <<onTrip, listMembers, scan, cutShort>>

\* External: people leave and join the trip meanwhile.
JoinOrLeaveTrip(who) ==
  /\ onTrip' = IF who \in onTrip THEN onTrip \ {who} ELSE onTrip \cup {who}
  /\ UNCHANGED <<listMembers, tokens, scan, cutShort>>

\* claimShareToken reads the token; who is a member already gets the list, and the token
\* stays as it is.
claimShareToken(s, who, t) ==
  /\ scan[s] = Idle /\ ~isShoppingListMember(who)
  /\ scan' = [scan EXCEPT ![s] = [at |-> "claiming", who |-> who, token |-> t]]
  /\ UNCHANGED <<onTrip, listMembers, tokens, cutShort>>

\* Fault: the claim does not look whether there was one.
ClaimableAgain(t) == ~tokens[t].expired
Claimable(t) == tokens[t].claimedBy = Nobody /\ ~tokens[t].expired

markShareTokenClaimed(s) ==
  LET t == scan[s].token
  IN  /\ scan[s].at = "claiming"
      /\ IF Claimable(t)
         THEN /\ tokens' = [tokens EXCEPT ![t].claimedBy = scan[s].who]
              /\ scan' = [scan EXCEPT ![s].at = "adding"]
         ELSE scan' = [scan EXCEPT ![s] = Idle] /\ UNCHANGED tokens
      /\ UNCHANGED <<onTrip, listMembers, cutShort>>

addShoppingListMember(s) ==
  /\ scan[s].at = "adding"
  /\ listMembers' = listMembers \cup {scan[s].who} /\ scan' = [scan EXCEPT ![s] = Idle]
  /\ UNCHANGED <<onTrip, tokens, cutShort>>

\* The process stops, or the statement fails: the token stays claimed.
Abort(s) ==
  /\ scan[s] # Idle /\ scan' = [scan EXCEPT ![s] = Idle]
  /\ cutShort' = IF scan[s].at = "adding" THEN cutShort \cup {scan[s].token} ELSE cutShort
  /\ UNCHANGED <<onTrip, listMembers, tokens>>

ShareNext ==
  \/ \E who \in Shopper : createListShareToken(who) \/ JoinOrLeaveTrip(who)
  \/ \E t \in DOMAIN tokens : Expire(t) \/ \E s \in Scan, who \in Shopper : claimShareToken(s, who, t)
  \/ \E s \in Scan : markShareTokenClaimed(s) \/ addShoppingListMember(s) \/ Abort(s)

ShareSpec == ShareInit /\ [][ShareNext]_shareVars

\* A token brings in the one who claimed it, and no second: all members but the first hold
\* a token of their own, and who holds one is a member - unless the claim is still under
\* way or stopped halfway, after which the token is of no use to anyone (claimShareToken).
OneNewcomerPerToken ==
  LET claimed == {t \in DOMAIN tokens : tokens[t].claimedBy # Nobody}
      holder(t) == tokens[t].claimedBy
  IN  /\ \E first \in listMembers : \A who \in listMembers \ {first} : \E t \in claimed : holder(t) = who
      /\ \A t \in claimed \ cutShort :
           \/ holder(t) \in listMembers
           \/ \E s \in Scan : scan[s] = [at |-> "adding", who |-> holder(t), token |-> t]
=============================================================================
