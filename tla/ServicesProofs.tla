--------------------------- MODULE ServicesProofs ---------------------------
(* Proofs for the small services, each by itself and for any number of       *)
(* people, requests and rows: the lockout of account recovery, the bans of a *)
(* trip, the tokens of a shared list, the link of a template, the counters   *)
(* of client versions, the prices of a chain, and the lines of a receipt.    *)

EXTENDS Recovery, TripMembers, ShareTokens, TemplateShare, Sightings, Prices, ReceiptLines,
        FoldProofs, SequenceTheorems, FiniteSetTheorems, TLAPS

-----------------------------------------------------------------------------
(* The lockout: who is being judged is counted with what has failed.         *)

\* The presses whose answers are being compared.
Matching == {p \in Press : press[p].at = "matching"}

\* The part of the state the count relies on.
RecoveryTyped ==
  /\ logged \in Nat /\ IsFiniteSet(failures)
  /\ press \in [Press -> [at : {"released", "locked", "matching", "merging"}, id : Nat]]

\* The failures there may be once everybody who is being judged has failed.
Room ==
  Cardinality(failures \ lockouts) + Cardinality(Matching)
    <= RATE_LIMIT_MAX_FAILURES - 1 + Cardinality(Press)

\* The invariant behind LockoutHolds.
RecoveryInv == RecoveryTyped /\ Room

\* Fewer failures and fewer presses under judgement leave the room there was.
LEMMA RoomShrinks ==
  ASSUME RecoveryTyped, RecoveryTyped', Room,
         failures' \ lockouts' \subseteq failures \ lockouts, Matching' \subseteq Matching
  PROVE  Room'
<1>1. IsFiniteSet(failures \ lockouts) /\ IsFiniteSet(failures' \ lockouts')
  BY FS_Difference DEF RecoveryTyped
<1>2. IsFiniteSet(Matching) /\ IsFiniteSet(Matching')
  BY FS_Subset, RecoveryAssumption DEF Matching, RecoveryAssumption
<1>3. /\ Cardinality(failures \ lockouts) \in Nat /\ Cardinality(failures' \ lockouts') \in Nat
      /\ Cardinality(Matching) \in Nat /\ Cardinality(Matching') \in Nat /\ Cardinality(Press) \in Nat
  BY <1>1, <1>2, FS_CardinalityType, RecoveryAssumption DEF RecoveryAssumption
<1>4. Cardinality(failures' \ lockouts') <= Cardinality(failures \ lockouts)
  BY <1>1, FS_Subset
<1>5. Cardinality(Matching') <= Cardinality(Matching)
  BY <1>2, FS_Subset
<1> QED
  BY <1>3, <1>4, <1>5, RecoveryAssumption DEF Room, RecoveryAssumption

\* One element more.
LEMMA AddOne ==
  ASSUME NEW S, NEW x, IsFiniteSet(S)
  PROVE  /\ IsFiniteSet(S \cup {x}) /\ Cardinality(S \cup {x}) \in Nat
         /\ Cardinality(S \cup {x}) <= Cardinality(S) + 1
<1>1. IsFiniteSet(S \cup {x}) /\ Cardinality(S) \in Nat
  BY FS_AddElement, FS_CardinalityType
<1>2. Cardinality(S \cup {x}) = IF x \in S THEN Cardinality(S) ELSE Cardinality(S) + 1
  BY FS_AddElement
<1>3. Cardinality(S \cup {x}) \in {Cardinality(S), Cardinality(S) + 1}
  BY <1>2
<1> QED
  BY <1>1, <1>3

\* A press that passed the gate fails: one failure more, one under judgement less.
LEMMA RoomKept ==
  ASSUME RecoveryTyped, RecoveryTyped', Room, NEW p \in Press,
         press[p].at = "matching", logRecoveryAttempt, lockouts' = lockouts,
         Matching' = Matching \ {p}
  PROVE  Room'
<1>1. IsFiniteSet(failures \ lockouts) /\ IsFiniteSet(Matching)
  BY FS_Difference, FS_Subset, RecoveryAssumption DEF RecoveryTyped, Matching, RecoveryAssumption
<1>2. failures' \ lockouts' \subseteq (failures \ lockouts) \cup {logged + 1}
  BY DEF logRecoveryAttempt
<1>3. /\ IsFiniteSet((failures \ lockouts) \cup {logged + 1})
      /\ Cardinality((failures \ lockouts) \cup {logged + 1}) <= Cardinality(failures \ lockouts) + 1
  BY <1>1, AddOne
<1>4. /\ IsFiniteSet(failures' \ lockouts')
      /\ Cardinality(failures' \ lockouts') <= Cardinality((failures \ lockouts) \cup {logged + 1})
  BY <1>2, <1>3, FS_Subset
<1>5. IsFiniteSet(Matching') /\ Cardinality(Matching') = Cardinality(Matching) - 1
  <2>1. p \in Matching
    BY DEF Matching
  <2>2. /\ IsFiniteSet(Matching \ {p})
        /\ Cardinality(Matching \ {p}) = IF p \in Matching THEN Cardinality(Matching) - 1 ELSE Cardinality(Matching)
    BY <1>1, FS_RemoveElement
  <2> QED BY <2>1, <2>2
<1>6. /\ Cardinality(failures \ lockouts) \in Nat /\ Cardinality(failures' \ lockouts') \in Nat
      /\ Cardinality((failures \ lockouts) \cup {logged + 1}) \in Nat
      /\ Cardinality(Matching) \in Nat /\ Cardinality(Matching') \in Nat /\ Cardinality(Press) \in Nat
  BY <1>1, <1>3, <1>4, <1>5, FS_CardinalityType, RecoveryAssumption DEF RecoveryAssumption
<1> QED
  BY <1>3, <1>4, <1>5, <1>6, RecoveryAssumption DEF Room, RecoveryAssumption

\* A press passes the gate: the failures it counted are under the limit, and no more
\* than all presses are under judgement.
LEMMA RoomAtTheGate ==
  ASSUME RecoveryTyped, RecoveryTyped', ~Locked, failures' = failures, lockouts' = lockouts
  PROVE  Room'
<1>1. IsFiniteSet(failures) /\ IsFiniteSet(failures \ lockouts)
  BY FS_Difference DEF RecoveryTyped
<1>2. IsFiniteSet(Matching') /\ Cardinality(Matching') <= Cardinality(Press)
  BY FS_Subset, RecoveryAssumption DEF Matching, RecoveryAssumption
<1>3. Cardinality(failures \ lockouts) <= Cardinality(failures)
  BY <1>1, FS_Subset
<1>4. /\ Cardinality(failures \ lockouts) \in Nat /\ Cardinality(failures) \in Nat
      /\ Cardinality(Matching') \in Nat /\ Cardinality(Press) \in Nat
  BY <1>1, <1>2, FS_CardinalityType, RecoveryAssumption DEF RecoveryAssumption
<1> QED
  BY <1>2, <1>3, <1>4, RecoveryAssumption DEF Room, Locked, RecoveryAssumption

\* The part of the state the count relies on stays well formed.
LEMMA RecoveryTypedKept ==
  ASSUME RecoveryTyped, [RecoveryNext]_recoveryVars
  PROVE  RecoveryTyped'
<1> USE DEF RecoveryTyped, Released, Reach, Release
<1>1. ASSUME NEW p \in Press, recoverAccount(p) PROVE RecoveryTyped'
  BY <1>1 DEF recoverAccount
<1>2. ASSUME logRecoveryAttempt PROVE logged' \in Nat /\ logged + 1 \in Nat /\ IsFiniteSet(failures')
  BY <1>2, FS_AddElement DEF logRecoveryAttempt
<1>3. ASSUME NEW p \in Press, logLockout(p) \/ tryMatchFailed(p) PROVE RecoveryTyped'
  BY <1>2, <1>3 DEF logLockout, tryMatchFailed
<1>4. ASSUME NEW p \in Press, tryMatchFound(p) PROVE RecoveryTyped'
  BY <1>2, <1>4 DEF tryMatchFound
<1>5. ASSUME NEW p \in Press, NEW succeeded \in BOOLEAN, finaliseRecoveryAttempt(p, succeeded)
      PROVE RecoveryTyped'
  BY <1>5, FS_RemoveElement, FS_Difference DEF finaliseRecoveryAttempt
<1>6. ASSUME RollOff PROVE RecoveryTyped'
  <2>1. PICK i \in failures : failures' = failures \ {i}
    BY <1>6 DEF RollOff
  <2>2. IsFiniteSet(failures \ {i})
    BY FS_Difference
  <2> QED BY <1>6, <2>1, <2>2 DEF RollOff
<1>7. ASSUME NEW p \in Press, Lose(p) PROVE RecoveryTyped'
  BY <1>7 DEF Lose
<1>8. CASE UNCHANGED recoveryVars
  BY <1>8 DEF recoveryVars
<1> QED
  BY <1>1, <1>3, <1>4, <1>5, <1>6, <1>7, <1>8 DEF RecoveryNext

\* Every step leaves room.
LEMMA RoomStep ==
  ASSUME RecoveryInv, [RecoveryNext]_recoveryVars
  PROVE  Room'
<1>1. RecoveryTyped /\ RecoveryTyped' /\ Room
  BY RecoveryTypedKept DEF RecoveryInv
<1> USE DEF Released, Reach, Release
<1>2. ASSUME NEW p \in Press, recoverAccount(p) PROVE Room'
  <2>1. CASE Locked
    <3>1. Matching' \subseteq Matching /\ failures' = failures /\ lockouts' = lockouts
      BY <1>1, <1>2, <2>1 DEF recoverAccount, Matching, RecoveryTyped
    <3> QED BY <1>1, <3>1, RoomShrinks
  <2>2. CASE ~Locked
    BY <1>1, <1>2, <2>2, RoomAtTheGate DEF recoverAccount
  <2> QED BY <2>1, <2>2
<1>3. ASSUME NEW p \in Press, logLockout(p) PROVE Room'
  <2>1. Matching' \subseteq Matching
    BY <1>1, <1>3 DEF logLockout, Matching, RecoveryTyped
  <2>2. failures' \ lockouts' \subseteq failures \ lockouts
    BY <1>3 DEF logLockout, logRecoveryAttempt
  <2> QED BY <1>1, <2>1, <2>2, RoomShrinks
<1>4. ASSUME NEW p \in Press, tryMatchFailed(p) PROVE Room'
  <2>1. Matching' = Matching \ {p}
    BY <1>1, <1>4 DEF tryMatchFailed, Matching, RecoveryTyped
  <2> QED BY <1>1, <1>4, <2>1, RoomKept DEF tryMatchFailed
<1>5. ASSUME NEW p \in Press, tryMatchFound(p) PROVE Room'
  <2>1. Matching' = Matching \ {p}
    BY <1>1, <1>5 DEF tryMatchFound, Matching, RecoveryTyped
  <2> QED BY <1>1, <1>5, <2>1, RoomKept DEF tryMatchFound
<1>6. ASSUME NEW p \in Press, NEW succeeded \in BOOLEAN, finaliseRecoveryAttempt(p, succeeded)
      PROVE Room'
  <2>1. Matching' \subseteq Matching
    BY <1>1, <1>6 DEF finaliseRecoveryAttempt, Matching, RecoveryTyped
  <2>2. failures' \ lockouts' \subseteq failures \ lockouts
    BY <1>6 DEF finaliseRecoveryAttempt
  <2> QED BY <1>1, <2>1, <2>2, RoomShrinks
<1>7. ASSUME RollOff PROVE Room'
  <2>1. Matching' = Matching /\ failures' \ lockouts' \subseteq failures \ lockouts
    BY <1>7 DEF RollOff, Matching
  <2> QED BY <1>1, <2>1, RoomShrinks
<1>8. ASSUME NEW p \in Press, Lose(p) PROVE Room'
  <2>1. Matching' \subseteq Matching /\ failures' = failures /\ lockouts' = lockouts
    BY <1>1, <1>8 DEF Lose, Matching, RecoveryTyped
  <2> QED BY <1>1, <2>1, RoomShrinks
<1>9. CASE UNCHANGED recoveryVars
  <2>1. Matching' = Matching /\ failures' = failures /\ lockouts' = lockouts
    BY <1>9 DEF recoveryVars, Matching
  <2> QED BY <1>1, <2>1, RoomShrinks
<1> QED
  BY <1>2, <1>3, <1>4, <1>5, <1>6, <1>7, <1>8, <1>9 DEF RecoveryNext

\* What a device can get wrong in 24 hours is bounded by the limit and by how many of
\* its presses the server handles at the same time (recoverAccount).
THEOREM AttemptsAreBounded == RecoverySpec => []LockoutHolds
<1>1. RecoveryInit => RecoveryInv
  <2> SUFFICES ASSUME RecoveryInit PROVE RecoveryInv
    OBVIOUS
  <2>1. RecoveryTyped
    BY FS_EmptySet DEF RecoveryInit, RecoveryTyped, Released
  <2>2. failures \ lockouts = {} /\ Matching = {}
    BY DEF RecoveryInit, Matching, Released
  <2>3. Cardinality(Press) \in Nat /\ Cardinality({}) = 0
    BY FS_EmptySet, FS_CardinalityType, RecoveryAssumption DEF RecoveryAssumption
  <2>4. Room
    <3>1. Cardinality(failures \ lockouts) = 0 /\ Cardinality(Matching) = 0
      BY <2>2, <2>3
    <3> QED BY <2>3, <3>1, RecoveryAssumption DEF Room, RecoveryAssumption
  <2> QED BY <2>1, <2>4 DEF RecoveryInv
<1>2. RecoveryInv /\ [RecoveryNext]_recoveryVars => RecoveryInv'
  BY RecoveryTypedKept, RoomStep DEF RecoveryInv
<1>3. RecoveryInv => LockoutHolds
  <2> SUFFICES ASSUME RecoveryInv PROVE LockoutHolds
    OBVIOUS
  <2>1. IsFiniteSet(failures \ lockouts) /\ IsFiniteSet(Matching)
    BY FS_Difference, FS_Subset, RecoveryAssumption DEF RecoveryInv, RecoveryTyped, Matching, RecoveryAssumption
  <2>2. Cardinality(failures \ lockouts) \in Nat /\ Cardinality(Matching) \in Nat /\ Cardinality(Press) \in Nat
    BY <2>1, FS_CardinalityType, RecoveryAssumption DEF RecoveryAssumption
  <2> QED BY <2>2, RecoveryAssumption DEF RecoveryInv, Room, LockoutHolds, RecoveryAssumption
<1> QED
  BY <1>1, <1>2, <1>3, PTL DEF RecoverySpec

-----------------------------------------------------------------------------
(* The bans: nobody on the way in is banned, and nobody on the way out has   *)
(* come back, but for those whose claim crossed their removal.               *)

\* Where a joiner is past the ban check.
Inside == {"claiming", "lifting", "joining"}

\* What a request at the door of a trip carries.
MemberDoor ==
  [at : {"shut", "minting", "claiming", "lifting", "joining", "removing", "banning"}, who : Person, invite : Nat]

\* The types.
MembersTyped ==
  /\ members \subseteq Person /\ banned \subseteq Person
  /\ door \in [Door -> MemberDoor]

\* Who is about to be inserted is not banned, unless the ban crossed the check.
JoinersAreFree == \A d \in Door : door[d].at = "joining" => door[d].who \notin banned \ crossed

\* Who was just taken out, and is about to be banned.
RemovedAreOut ==
  \A e \in Door : door[e].at = "banning" =>
    /\ door[e].who \notin members \ crossed
    /\ \A d \in Door : door[d].at \in Inside /\ door[d].who = door[e].who => door[e].who \in crossed

\* The invariant behind BansHold.
MembersInv == MembersTyped /\ BansHold /\ JoinersAreFree /\ RemovedAreOut

\* The handlers keep the tables and the doors well formed.
LEMMA MembersTypedKept ==
  ASSUME MembersTyped, [MembersNext]_memberVars
  PROVE  MembersTyped'
<1> USE MembersAssumption DEF MembersAssumption, MembersTyped, MemberDoor, Shut, Knock, Through, Close, Invite
<1>1. ASSUME NEW d \in Door, NEW who \in Person, createTripInvite(d, who) \/ removeTripMember(d, who)
      PROVE MembersTyped'
  <2>1. /\ [at |-> "minting", who |-> who, invite |-> 0] \in MemberDoor
        /\ [at |-> "removing", who |-> who, invite |-> 0] \in MemberDoor
    BY DEF MemberDoor
  <2>2. PICK j \in MemberDoor : door' = [door EXCEPT ![d] = j]
    BY <1>1, <2>1 DEF createTripInvite, removeTripMember
  <2> QED BY <1>1, <2>2 DEF createTripInvite, removeTripMember
<1>2. ASSUME NEW d \in Door, NEW who \in Person, NEW i \in Invite, claimJoin(d, who, i) PROVE MembersTyped'
  BY <1>2 DEF claimJoin
<1>3. ASSUME NEW d \in Door, getOrCreateInviteToken(d) \/ readBan(d) \/ liftBan(d) PROVE MembersTyped'
  BY <1>3 DEF getOrCreateInviteToken, readBan, liftBan
<1>4. ASSUME NEW d \in Door, insertMember(d) \/ deleteMember(d) PROVE MembersTyped'
  BY <1>4 DEF insertMember, deleteMember
<1>5. ASSUME NEW d \in Door, ban(d) \/ Slam(d) PROVE MembersTyped'
  BY <1>5 DEF ban, Slam
<1>6. ASSUME NEW who \in Person, addressInvite(who) PROVE MembersTyped'
  BY <1>6 DEF addressInvite
<1>7. CASE UNCHANGED memberVars
  BY <1>7 DEF memberVars
<1> QED
  BY <1>1, <1>2, <1>3, <1>4, <1>5, <1>6, <1>7 DEF MembersNext

\* Every step keeps the bans, and what they rest on.
LEMMA MembersStep ==
  ASSUME MembersInv, [MembersNext]_memberVars
  PROVE  BansHold' /\ JoinersAreFree' /\ RemovedAreOut'
<1>1. MembersTyped /\ BansHold /\ JoinersAreFree /\ RemovedAreOut
  BY DEF MembersInv
<1> USE <1>1 DEF MembersTyped, MemberDoor, BansHold, JoinersAreFree, RemovedAreOut, Shut, Knock, Through, Close, Inside
<1>2. ASSUME NEW d \in Door, NEW who \in Person, createTripInvite(d, who)
      PROVE BansHold' /\ JoinersAreFree' /\ RemovedAreOut'
  BY <1>2 DEF createTripInvite
<1>3. ASSUME NEW d \in Door, NEW who \in Person, removeTripMember(d, who)
      PROVE BansHold' /\ JoinersAreFree' /\ RemovedAreOut'
  BY <1>3 DEF removeTripMember
<1>4. ASSUME NEW d \in Door, NEW who \in Person, NEW i \in Invite, claimJoin(d, who, i)
      PROVE BansHold' /\ JoinersAreFree' /\ RemovedAreOut'
  BY <1>4 DEF claimJoin
<1>5. ASSUME NEW d \in Door, getOrCreateInviteToken(d)
      PROVE BansHold' /\ JoinersAreFree' /\ RemovedAreOut'
  BY <1>5 DEF getOrCreateInviteToken
<1>6. ASSUME NEW d \in Door, readBan(d) PROVE BansHold' /\ JoinersAreFree' /\ RemovedAreOut'
  BY <1>6 DEF readBan, HasBan
<1>7. ASSUME NEW d \in Door, liftBan(d) PROVE BansHold' /\ JoinersAreFree' /\ RemovedAreOut'
  BY <1>7 DEF liftBan
<1>8. ASSUME NEW d \in Door, insertMember(d) PROVE BansHold' /\ JoinersAreFree' /\ RemovedAreOut'
  BY <1>8 DEF insertMember
<1>9. ASSUME NEW d \in Door, deleteMember(d) PROVE BansHold' /\ JoinersAreFree' /\ RemovedAreOut'
  BY <1>9 DEF deleteMember
<1>10. ASSUME NEW d \in Door, ban(d) PROVE BansHold' /\ JoinersAreFree' /\ RemovedAreOut'
  BY <1>10 DEF ban
<1>11. ASSUME NEW d \in Door, Slam(d) PROVE BansHold' /\ JoinersAreFree' /\ RemovedAreOut'
  BY <1>11 DEF Slam
<1>12. ASSUME NEW who \in Person, addressInvite(who)
       PROVE BansHold' /\ JoinersAreFree' /\ RemovedAreOut'
  BY <1>12 DEF addressInvite
<1>13. CASE UNCHANGED memberVars
  BY <1>13 DEF memberVars
<1> QED
  BY <1>2, <1>3, <1>4, <1>5, <1>6, <1>7, <1>8, <1>9, <1>10, <1>11, <1>12, <1>13 DEF MembersNext

\* However the handlers of claims, invites and removals interleave, only who claimed
\* while being removed ends up a member and banned (claimJoin, removeTripMember).
THEOREM BansAreKept == MembersSpec => []BansHold
<1>1. MembersInit => MembersInv
  BY MembersAssumption DEF MembersAssumption, MembersInit, MembersInv, MembersTyped, MemberDoor, BansHold, JoinersAreFree,
     RemovedAreOut, Shut
<1>2. MembersInv /\ [MembersNext]_memberVars => MembersInv'
  BY MembersTypedKept, MembersStep DEF MembersInv
<1>3. MembersInv => BansHold
  BY DEF MembersInv
<1> QED
  BY <1>1, <1>2, <1>3, PTL DEF MembersSpec

-----------------------------------------------------------------------------
(* Tokens.                                                                 *)

\* A token of a share link, and a request that claims one.
Token == [claimedBy : Shopper \cup {Nobody}, expired : BOOLEAN]
Claim == [at : {"idle", "claiming", "adding"}, who : Shopper \cup {Nobody}, token : Nat]

\* The types.
ShareTyped ==
  /\ onTrip \subseteq Shopper /\ listMembers \subseteq Shopper /\ tokens \in Seq(Token)
  /\ scan \in [Scan -> Claim]

\* Who is about to be added holds the token; whoever scans one scans one that exists.
ClaimIsBacked(s) ==
  scan[s].at # "idle" =>
    /\ scan[s].token \in DOMAIN tokens /\ scan[s].who \in Shopper
    /\ scan[s].at = "adding" => tokens[scan[s].token].claimedBy = scan[s].who

\* The two halves of OneNewcomerPerToken, one about members and one about tokens.
ComesByToken(first) ==
  \A who \in listMembers \ {first} : \E t \in DOMAIN tokens : tokens[t].claimedBy = who
\* Who has claimed a token is a member, or is about to become one.
HolderIsIn(t) ==
  tokens[t].claimedBy # Nobody /\ t \notin cutShort =>
    \/ tokens[t].claimedBy \in listMembers
    \/ \E s \in Scan : scan[s] = [at |-> "adding", who |-> tokens[t].claimedBy, token |-> t]

\* The invariant behind OneNewcomerPerToken.
ShareInv ==
  /\ ShareTyped
  /\ \A s \in Scan : ClaimIsBacked(s)
  /\ \E first \in listMembers : ComesByToken(first)
  /\ \A t \in DOMAIN tokens : HolderIsIn(t)

\* Different newcomers hold different tokens.
LEMMA ShareInvSuffices == ShareInv => OneNewcomerPerToken
<1> SUFFICES ASSUME ShareInv PROVE OneNewcomerPerToken
  OBVIOUS
<1>1. PICK first \in listMembers : ComesByToken(first)
  BY DEF ShareInv
<1>2. \A who \in listMembers \ {first} : \E t \in {u \in DOMAIN tokens : tokens[u].claimedBy # Nobody} :
        tokens[t].claimedBy = who
  BY <1>1, ShareAssumption DEF ComesByToken, ShareInv, ShareTyped
<1>3. \A t \in {u \in DOMAIN tokens : tokens[u].claimedBy # Nobody} \ cutShort :
        \/ tokens[t].claimedBy \in listMembers
        \/ \E s \in Scan : scan[s] = [at |-> "adding", who |-> tokens[t].claimedBy, token |-> t]
  BY DEF ShareInv, HolderIsIn
<1> QED BY <1>2, <1>3 DEF OneNewcomerPerToken

\* The owner needs no token.
LEMMA ShareInvInit == ShareInit => ShareInv
<1> SUFFICES ASSUME ShareInit PROVE ShareInv
  OBVIOUS
<1>1. PICK owner \in Shopper : listMembers = {owner} /\ onTrip \in SUBSET Shopper
  BY DEF ShareInit
<1>2. tokens = <<>> /\ scan = [s \in Scan |-> Idle]
  BY DEF ShareInit
<1>3. ShareTyped
  BY <1>1, <1>2 DEF ShareTyped, Claim, Idle
<1>4. \A s \in Scan : ClaimIsBacked(s)
  BY <1>2 DEF ClaimIsBacked, Idle
<1>5. \E first \in listMembers : ComesByToken(first)
  BY <1>1 DEF ComesByToken
<1>6. \A t \in DOMAIN tokens : HolderIsIn(t)
  BY <1>2
<1> QED BY <1>3, <1>4, <1>5, <1>6 DEF ShareInv

\* What a claim is, by its fields.
LEMMA ClaimFields ==
  \A c \in Claim : c = [at |-> c.at, who |-> c.who, token |-> c.token]
BY DEF Claim

\* Every step keeps the invariant.
LEMMA ShareInvStep == ShareInv /\ [ShareNext]_shareVars => ShareInv'
<1> SUFFICES ASSUME ShareInv, [ShareNext]_shareVars PROVE ShareInv'
  OBVIOUS
<1> USE DEF ShareInv
<1>1. /\ ShareTyped /\ \A s \in Scan : scan[s] \in Claim
      /\ \A t \in DOMAIN tokens : t \in Nat /\ tokens[t] \in Token
  BY DEF ShareTyped
<1>2. PICK first \in listMembers : ComesByToken(first)
  OBVIOUS
<1>3. ASSUME NEW who \in Shopper, createListShareToken(who) PROVE ShareInv'
  <2> DEFINE fresh == [claimedBy |-> Nobody, expired |-> FALSE]
  <2>1. /\ tokens' = Append(tokens, fresh) /\ fresh \in Token
        /\ UNCHANGED <<onTrip, listMembers, scan, cutShort>>
    BY <1>3 DEF createListShareToken, Token
  <2>2. /\ tokens' \in Seq(Token) /\ DOMAIN tokens' = DOMAIN tokens \cup {Len(tokens) + 1}
        /\ \A t \in DOMAIN tokens : tokens'[t] = tokens[t]
        /\ tokens'[Len(tokens) + 1].claimedBy = Nobody
    BY <2>1, <1>1 DEF ShareTyped
  <2>3. ShareTyped'
    BY <2>1, <2>2 DEF ShareTyped
  <2>4. \A s \in Scan : ClaimIsBacked(s)'
    BY <2>1, <2>2 DEF ClaimIsBacked
  <2>5. ComesByToken(first)'
    BY <1>2, <2>1, <2>2 DEF ComesByToken
  <2>6. \A t \in DOMAIN tokens' : HolderIsIn(t)'
    BY <2>1, <2>2 DEF HolderIsIn
  <2> QED BY <1>2, <2>1, <2>3, <2>4, <2>5, <2>6
<1>4. ASSUME NEW who \in Shopper, JoinOrLeaveTrip(who) PROVE ShareInv'
  <2>1. UNCHANGED <<listMembers, tokens, scan, cutShort>> /\ onTrip' \subseteq Shopper
    BY <1>4 DEF JoinOrLeaveTrip, ShareTyped
  <2> QED BY <1>2, <2>1 DEF ShareTyped, ClaimIsBacked, ComesByToken, HolderIsIn
<1>5. ASSUME NEW t \in DOMAIN tokens, Expire(t) PROVE ShareInv'
  <2> DEFINE now == [tokens[t] EXCEPT !.expired = TRUE]
  <2>1. /\ tokens' = [tokens EXCEPT ![t] = now] /\ UNCHANGED <<onTrip, listMembers, scan, cutShort>>
    BY <1>5 DEF Expire
  <2>2. now \in Token /\ now.claimedBy = tokens[t].claimedBy
    BY <1>1 DEF Token
  <2>3. tokens' \in Seq(Token) /\ DOMAIN tokens' = DOMAIN tokens
    BY <1>1, <2>1, <2>2 DEF ShareTyped
  <2>4. \A u \in DOMAIN tokens : tokens'[u] = IF u = t THEN now ELSE tokens[u]
    BY <1>1, <2>1 DEF ShareTyped
  <2>5. \A u \in DOMAIN tokens : tokens'[u].claimedBy = tokens[u].claimedBy
    BY <2>2, <2>4
  <2> QED BY <1>2, <2>1, <2>3, <2>5 DEF ShareTyped, ClaimIsBacked, ComesByToken, HolderIsIn
<1>6. ASSUME NEW s \in Scan, NEW who \in Shopper, NEW t \in DOMAIN tokens, claimShareToken(s, who, t)
      PROVE  ShareInv'
  <2> DEFINE c == [at |-> "claiming", who |-> who, token |-> t]
  <2>1. /\ scan[s] = Idle /\ scan' = [scan EXCEPT ![s] = c] /\ c \in Claim
        /\ UNCHANGED <<onTrip, listMembers, tokens, cutShort>>
    BY <1>1, <1>6 DEF claimShareToken, Claim
  <2>2. scan' \in [Scan -> Claim] /\ \A r \in Scan : scan'[r] = IF r = s THEN c ELSE scan[r]
    BY <2>1 DEF ShareTyped
  <2>3. ShareTyped'
    BY <2>1, <2>2 DEF ShareTyped
  <2>4. \A r \in Scan : ClaimIsBacked(r)'
    BY <2>1, <2>2 DEF ClaimIsBacked
  <2>5. \A u \in DOMAIN tokens' : HolderIsIn(u)'
    BY <2>1, <2>2 DEF HolderIsIn, Idle
  <2> QED BY <1>2, <2>1, <2>3, <2>4, <2>5 DEF ComesByToken
<1>7. ASSUME NEW s \in Scan, markShareTokenClaimed(s) PROVE ShareInv'
  <2> DEFINE t == scan[s].token  who == scan[s].who
  <2>1. /\ scan[s].at = "claiming" /\ t \in DOMAIN tokens /\ who \in Shopper
        /\ UNCHANGED <<onTrip, listMembers, cutShort>>
    BY <1>7 DEF markShareTokenClaimed, ClaimIsBacked
  <2>2. CASE Claimable(t)
    <3> DEFINE c == [at |-> "adding", who |-> who, token |-> t]
    <3>1. /\ tokens' = [tokens EXCEPT ![t].claimedBy = who] /\ scan' = [scan EXCEPT ![s].at = "adding"]
          /\ tokens[t].claimedBy = Nobody
      BY <1>7, <2>2 DEF markShareTokenClaimed, Claimable
    <3>2. /\ tokens' \in Seq(Token) /\ DOMAIN tokens' = DOMAIN tokens
          /\ tokens'[t].claimedBy = who /\ \A u \in DOMAIN tokens \ {t} : tokens'[u] = tokens[u]
      BY <1>1, <2>1, <3>1 DEF ShareTyped, Token
    <3>3. c \in Claim /\ scan' \in [Scan -> Claim]
          /\ \A r \in Scan : scan'[r] = IF r = s THEN c ELSE scan[r]
      BY <1>1, <2>1, <3>1, ClaimFields DEF ShareTyped, Claim
    <3>4. ShareTyped'
      BY <2>1, <3>2, <3>3 DEF ShareTyped
    <3>5. \A r \in Scan : ClaimIsBacked(r)'
      BY <2>1, <3>1, <3>2, <3>3, ShareAssumption DEF ClaimIsBacked
    <3>6. ComesByToken(first)'
      BY <1>2, <2>1, <3>1, <3>2, ShareAssumption DEF ComesByToken, ShareTyped
    <3>7. \A u \in DOMAIN tokens' : HolderIsIn(u)'
      BY <2>1, <3>2, <3>3 DEF HolderIsIn
    <3> QED BY <1>2, <2>1, <3>4, <3>5, <3>6, <3>7
  <2>3. CASE ~Claimable(t)
    <3>1. scan' = [scan EXCEPT ![s] = Idle] /\ UNCHANGED tokens
      BY <1>7, <2>3 DEF markShareTokenClaimed
    <3>2. scan' \in [Scan -> Claim] /\ \A r \in Scan : scan'[r] = IF r = s THEN Idle ELSE scan[r]
      BY <3>1 DEF ShareTyped, Claim, Idle
    <3> QED BY <1>2, <2>1, <3>1, <3>2 DEF ShareTyped, ClaimIsBacked, ComesByToken, HolderIsIn, Idle
  <2> QED BY <2>2, <2>3
<1>8. ASSUME NEW s \in Scan, addShoppingListMember(s) PROVE ShareInv'
  <2> DEFINE t == scan[s].token  who == scan[s].who
  <2>1. /\ scan[s].at = "adding" /\ t \in DOMAIN tokens /\ who \in Shopper /\ tokens[t].claimedBy = who
        /\ listMembers' = listMembers \cup {who} /\ scan' = [scan EXCEPT ![s] = Idle]
        /\ UNCHANGED <<onTrip, tokens, cutShort>>
    BY <1>8 DEF addShoppingListMember, ClaimIsBacked
  <2>2. scan' \in [Scan -> Claim] /\ \A r \in Scan : scan'[r] = IF r = s THEN Idle ELSE scan[r]
    BY <2>1 DEF ShareTyped, Claim, Idle
  <2>3. ShareTyped' /\ \A r \in Scan : ClaimIsBacked(r)'
    BY <2>1, <2>2 DEF ShareTyped, ClaimIsBacked, Idle
  <2>4. first \in listMembers' /\ ComesByToken(first)'
    BY <1>2, <2>1 DEF ComesByToken
  <2>5. \A u \in DOMAIN tokens' : HolderIsIn(u)'
    BY <2>1, <2>2 DEF HolderIsIn
  <2> QED BY <2>3, <2>4, <2>5
<1>9. ASSUME NEW s \in Scan, Abort(s) PROVE ShareInv'
  <2>1. /\ scan' = [scan EXCEPT ![s] = Idle]
        /\ cutShort' = IF scan[s].at = "adding" THEN cutShort \cup {scan[s].token} ELSE cutShort
        /\ UNCHANGED <<onTrip, listMembers, tokens>>
    BY <1>9 DEF Abort
  <2>2. scan' \in [Scan -> Claim] /\ \A r \in Scan : scan'[r] = IF r = s THEN Idle ELSE scan[r]
    BY <2>1 DEF ShareTyped, Claim, Idle
  <2>3. ShareTyped' /\ \A r \in Scan : ClaimIsBacked(r)'
    BY <2>1, <2>2 DEF ShareTyped, ClaimIsBacked, Idle
  <2>4. \A u \in DOMAIN tokens' : HolderIsIn(u)'
    BY <2>1, <2>2 DEF HolderIsIn
  <2> QED BY <1>2, <2>1, <2>3, <2>4 DEF ComesByToken
<1>10. CASE UNCHANGED shareVars
  BY <1>2, <1>10 DEF shareVars, ShareTyped, ClaimIsBacked, ComesByToken, HolderIsIn
<1> QED BY <1>3, <1>4, <1>5, <1>6, <1>7, <1>8, <1>9, <1>10 DEF ShareNext

\* However many people scan however many tokens at once, with some claims cut short,
\* a token brings in one person and no second (claimShareToken).
THEOREM NewcomersHoldTokens == ShareSpec => []OneNewcomerPerToken
<1> QED BY ShareInvInit, ShareInvStep, ShareInvSuffices, PTL DEF ShareSpec

-----------------------------------------------------------------------------
(* The share link of a template.                                           *)

\* A request that shares a template, and the template's row.
Slot == [at : {"away", "pricing", "writing"}, slug : Nat,
         visibility : {"private", "unlisted", "public"}, snapshot : Nat]
Record == [items : Nat \ {NotPriced}, slug : Nat, visibility : {"private", "unlisted", "public"},
           snapshot : Nat, isDefault : BOOLEAN]

\* The types.
TemplateTyped ==
  /\ template \in Record /\ share \in [Sharer -> Slot] /\ invalidating \in Nat /\ slugs \in Nat
  /\ withdrawn \in BOOLEAN

\* What a share will write back is as good as what is there.
Current(snapshot) == snapshot \in {NotPriced, template.items} \/ invalidating > 0
\* No snapshot of the items is stale, stored or about to be, unless an edit
\* overtook its pricing.
SnapshotsAreCurrent ==
  ~template.isDefault /\ "items" \notin overtaken =>
    Current(template.snapshot) /\ \A s \in Sharer : share[s] # Away => Current(share[s].snapshot)

\* Shares under way agree on the link, with each other and with the template if it has one.
LinksAgree ==
  "link" \notin overtaken =>
    /\ given \subseteq {template.slug} \ {NoSlug}
    /\ \A s \in Sharer : share[s] # Away =>
         /\ share[s].slug # NoSlug /\ template.slug \in {NoSlug, share[s].slug}
         /\ \A r \in Sharer : share[r] # Away => share[r].slug = share[s].slug

\* Nothing is under way that could undo a withdrawal unnoticed.
WithdrawalsStand ==
  withdrawn /\ "visibility" \notin overtaken => template.visibility = "private" /\ ~Sharing

\* The invariant behind SharesHold.
TemplateInv == TemplateTyped /\ SnapshotsAreCurrent /\ LinksAgree /\ WithdrawalsStand

\* It implies the property.
LEMMA TemplateInvSuffices == TemplateInv => SharesHold
BY DEF TemplateInv, SnapshotsAreCurrent, Current, LinksAgree, WithdrawalsStand, SharesHold

\* A template starts unshared.
LEMMA TemplateInvInit == TemplateInit => TemplateInv
<1> SUFFICES ASSUME TemplateInit PROVE TemplateInv
  OBVIOUS
<1>1. /\ template \in Record /\ template.snapshot = NotPriced
      /\ template.isDefault => template.visibility = "private"
  BY DEF TemplateInit, Record, NoSlug, NotPriced
<1>2. /\ share = [s \in Sharer |-> Away] /\ invalidating = 0 /\ slugs = 0
      /\ given = {} /\ withdrawn = FALSE /\ overtaken = {}
  BY DEF TemplateInit
<1>3. Away \in Slot
  BY DEF Away, Slot, NoSlug, NotPriced
<1>4. TemplateTyped
  BY <1>1, <1>2, <1>3 DEF TemplateTyped
<1>5. SnapshotsAreCurrent
  BY <1>1, <1>2 DEF SnapshotsAreCurrent, Current
<1>6. LinksAgree /\ WithdrawalsStand
  BY <1>2 DEF LinksAgree, WithdrawalsStand
<1> QED BY <1>4, <1>5, <1>6 DEF TemplateInv

\* Every step keeps the invariant.
LEMMA TemplateInvStep == TemplateInv /\ [TemplateNext]_templateVars => TemplateInv'
<1> SUFFICES ASSUME TemplateInv, [TemplateNext]_templateVars PROVE TemplateInv'
  OBVIOUS
<1> USE DEF NoSlug, NotPriced
<1>1. /\ TemplateTyped /\ SnapshotsAreCurrent /\ LinksAgree /\ WithdrawalsStand
      /\ template \in Record /\ \A s \in Sharer : share[s] \in Slot
  BY DEF TemplateInv, TemplateTyped
<1>2. ASSUME NEW s \in Sharer, shareTemplate(s) PROVE TemplateInv'
  <2> DEFINE fresh == template.slug = NoSlug
             next == [at |-> IF template.snapshot = NotPriced THEN "pricing" ELSE "writing",
                      slug |-> IF fresh THEN slugs + 1 ELSE template.slug,
                      visibility |-> IF template.visibility = "public" THEN "public" ELSE "unlisted",
                      snapshot |-> template.snapshot]
  <2>1. /\ share[s] = Away /\ share' = [share EXCEPT ![s] = next]
        /\ slugs' = IF fresh THEN slugs + 1 ELSE slugs
        /\ overtaken' = IF Sharing /\ fresh THEN overtaken \cup {"link"} ELSE overtaken
        /\ withdrawn' = FALSE /\ UNCHANGED <<template, invalidating, given>>
    BY <1>2 DEF shareTemplate
  <2>2. next \in Slot /\ next # Away /\ slugs' \in Nat /\ next.slug # NoSlug
        /\ next.snapshot = template.snapshot /\ (~fresh => next.slug = template.slug)
    BY <1>1, <2>1 DEF TemplateTyped, Record, Slot, Away
  <2> HIDE DEF next
  <2>3. \A r \in Sharer : share'[r] = IF r = s THEN next ELSE share[r]
    BY <1>1, <2>1 DEF TemplateTyped
  <2>4. TemplateTyped'
    BY <1>1, <2>1, <2>2 DEF TemplateTyped
  <2>5. SnapshotsAreCurrent'
    BY <1>1, <2>1, <2>2, <2>3 DEF SnapshotsAreCurrent, Current
  <2>6. LinksAgree'
    BY <1>1, <2>1, <2>2, <2>3 DEF LinksAgree, Sharing
  <2> QED BY <2>1, <2>4, <2>5, <2>6 DEF TemplateInv, WithdrawalsStand
<1>3. ASSUME NEW s \in Sharer, computeSnapshotForTemplate(s) PROVE TemplateInv'
  <2>1. PICK priced \in {template.items, NotPriced} :
          share' = [share EXCEPT ![s].at = "writing", ![s].snapshot = priced]
    BY <1>3 DEF computeSnapshotForTemplate
  <2> DEFINE next == [share[s] EXCEPT !.at = "writing", !.snapshot = priced]
  <2>2. /\ share' = [share EXCEPT ![s] = next] /\ share[s].at = "pricing"
        /\ UNCHANGED <<template, invalidating, slugs, given, withdrawn, overtaken>>
    BY <1>3, <2>1 DEF computeSnapshotForTemplate
  <2>3. template.items \in Nat /\ priced \in Nat /\ share[s] \in Slot
    BY <1>1 DEF Record
  <2>4. next \in Slot /\ next.at = "writing" /\ next.slug = share[s].slug /\ next.snapshot = priced
    BY <2>3 DEF Slot
  <2> HIDE DEF next
  <2>5. next \in Slot /\ next.slug = share[s].slug /\ next.snapshot = priced /\ share[s] # Away /\ next # Away
    BY <2>2, <2>4 DEF Away
  <2>6. \A r \in Sharer : share'[r] = IF r = s THEN next ELSE share[r]
    BY <1>1, <2>2 DEF TemplateTyped
  <2>7. TemplateTyped'
    BY <1>1, <2>2, <2>5 DEF TemplateTyped
  <2>8. SnapshotsAreCurrent'
    BY <1>1, <2>2, <2>5, <2>6 DEF SnapshotsAreCurrent, Current
  <2>9. LinksAgree'
    BY <1>1, <2>2, <2>5, <2>6 DEF LinksAgree
  <2>10. WithdrawalsStand'
    BY <1>1, <2>2, <2>5, <2>6 DEF WithdrawalsStand, Sharing
  <2> QED BY <2>7, <2>8, <2>9, <2>10 DEF TemplateInv
<1>4. ASSUME NEW s \in Sharer, writeShare(s) PROVE TemplateInv'
  <2> DEFINE now == [template EXCEPT !.slug = share[s].slug, !.visibility = share[s].visibility,
                                     !.snapshot = share[s].snapshot]
  <2>1. /\ share[s].at = "writing" /\ template' = now /\ given' = given \cup {share[s].slug}
        /\ share' = [share EXCEPT ![s] = Away] /\ UNCHANGED <<invalidating, slugs, withdrawn, overtaken>>
    BY <1>4 DEF writeShare
  <2>2. /\ now \in Record /\ now.items = template.items /\ now.isDefault = template.isDefault
        /\ now.slug = share[s].slug /\ now.snapshot = share[s].snapshot /\ share[s] # Away
    <3>1. /\ share[s].slug \in Nat /\ share[s].visibility \in {"private", "unlisted", "public"}
          /\ share[s].snapshot \in Nat
      BY <1>1 DEF Slot
    <3>2. /\ now \in Record /\ now.items = template.items /\ now.isDefault = template.isDefault
          /\ now.slug = share[s].slug /\ now.snapshot = share[s].snapshot
      BY <1>1, <3>1 DEF Record
    <3>3. share[s] # Away
      BY <2>1 DEF Away
    <3> QED BY <3>2, <3>3
  <2> HIDE DEF now
  <2>3. Away \in Slot /\ \A r \in Sharer : share'[r] = IF r = s THEN Away ELSE share[r]
    BY <1>1, <2>1 DEF TemplateTyped, Away, Slot
  <2>4. TemplateTyped'
    BY <1>1, <2>1, <2>2, <2>3 DEF TemplateTyped
  <2>5. SnapshotsAreCurrent'
    BY <1>1, <2>1, <2>2, <2>3 DEF SnapshotsAreCurrent, Current
  <2>6. LinksAgree'
    BY <1>1, <2>1, <2>2, <2>3 DEF LinksAgree
  <2>7. WithdrawalsStand'
    BY <1>1, <2>1, <2>2 DEF WithdrawalsStand, Sharing
  <2> QED BY <2>4, <2>5, <2>6, <2>7 DEF TemplateInv
<1>5. ASSUME NEW s \in Sharer, failShare(s) PROVE TemplateInv'
  <2>1. /\ share' = [share EXCEPT ![s] = Away] /\ share[s] # Away
        /\ UNCHANGED <<template, invalidating, slugs, given, withdrawn, overtaken>>
    BY <1>5 DEF failShare
  <2>2. Away \in Slot /\ \A r \in Sharer : share'[r] = IF r = s THEN Away ELSE share[r]
    BY <1>1, <2>1 DEF TemplateTyped, Away, Slot
  <2>3. TemplateTyped'
    BY <1>1, <2>1, <2>2 DEF TemplateTyped
  <2>4. SnapshotsAreCurrent' /\ LinksAgree' /\ WithdrawalsStand'
    BY <1>1, <2>1, <2>2 DEF SnapshotsAreCurrent, Current, LinksAgree, WithdrawalsStand, Sharing
  <2> QED BY <2>3, <2>4 DEF TemplateInv
<1>6. ASSUME editItem \/ editItemHalf \/ generateDefaultTemplate PROVE TemplateInv'
  <2> DEFINE now == [template EXCEPT !.items = @ + 1]
  <2>1. /\ template' = now /\ UNCHANGED <<share, slugs, given, withdrawn>>
        /\ invalidating' \in {invalidating, invalidating + 1}
        /\ "link" \in overtaken' <=> "link" \in overtaken
        /\ "visibility" \in overtaken' <=> "visibility" \in overtaken
    BY <1>6 DEF editItem, editItemHalf, generateDefaultTemplate, Send, Change
  <2>2. /\ now \in Record /\ now.isDefault = template.isDefault /\ now.slug = template.slug
        /\ now.snapshot = template.snapshot /\ now.visibility = template.visibility
    BY <1>1 DEF Record
  <2>3. template.isDefault \/ "items" \in overtaken' \/ (~Sharing /\ invalidating' > 0)
    BY <1>1, <1>6 DEF editItem, editItemHalf, generateDefaultTemplate, Send, Change, TemplateTyped
  <2> HIDE DEF now
  <2>4. TemplateTyped'
    BY <1>1, <2>1, <2>2 DEF TemplateTyped
  <2>5. SnapshotsAreCurrent'
    BY <2>1, <2>2, <2>3 DEF SnapshotsAreCurrent, Current
  <2>6. LinksAgree' /\ WithdrawalsStand'
    BY <1>1, <2>1, <2>2 DEF LinksAgree, WithdrawalsStand, Sharing
  <2> QED BY <2>4, <2>5, <2>6 DEF TemplateInv
<1>7. ASSUME invalidateSnapshot \/ loseInvalidation PROVE TemplateInv'
  <2>1. /\ invalidating > 0 /\ invalidating' = invalidating - 1 /\ UNCHANGED <<share, slugs, given, withdrawn>>
        /\ template' = [template EXCEPT !.snapshot = NotPriced] \/ template' = template
        /\ "link" \in overtaken' <=> "link" \in overtaken
        /\ "visibility" \in overtaken' <=> "visibility" \in overtaken
    BY <1>7 DEF invalidateSnapshot, loseInvalidation, Change
  <2>2. /\ template' \in Record /\ template'.slug = template.slug /\ template'.visibility = template.visibility
        /\ template'.isDefault = template.isDefault
    BY <1>1, <2>1 DEF Record
  <2>3. "items" \in overtaken' \/ (~Sharing /\ template'.snapshot = NotPriced)
    BY <1>1, <1>7 DEF invalidateSnapshot, loseInvalidation, Change, Record
  <2>4. TemplateTyped'
    BY <1>1, <2>1, <2>2 DEF TemplateTyped
  <2>5. SnapshotsAreCurrent'
    BY <2>1, <2>3 DEF SnapshotsAreCurrent, Current, Sharing
  <2>6. LinksAgree' /\ WithdrawalsStand'
    BY <1>1, <2>1, <2>2 DEF LinksAgree, WithdrawalsStand, Sharing
  <2> QED BY <2>4, <2>5, <2>6 DEF TemplateInv
<1>8. ASSUME makePrivate \/ revokeShareLink PROVE TemplateInv'
  <2>1. /\ UNCHANGED <<share, invalidating, slugs>> /\ withdrawn' = TRUE
        /\ "visibility" \in overtaken' \/ ~Sharing
        /\ "items" \in overtaken' <=> "items" \in overtaken
    BY <1>8 DEF makePrivate, revokeShareLink, Change
  <2>2. /\ template' \in Record /\ template'.visibility = "private" /\ template'.snapshot = NotPriced
        /\ template'.items = template.items /\ template'.isDefault = template.isDefault
    <3>1. CASE makePrivate
      BY <1>1, <3>1 DEF makePrivate, Record
    <3>2. CASE revokeShareLink
      BY <1>1, <3>2 DEF revokeShareLink, Record
    <3> QED BY <1>8, <3>1, <3>2
  <2>3. LinksAgree'
    <3>1. CASE makePrivate
      <4>1. template'.slug = template.slug /\ UNCHANGED <<share, given>>
            /\ ("link" \in overtaken' <=> "link" \in overtaken)
        BY <1>1, <3>1 DEF makePrivate, Change, Record
      <4> QED BY <1>1, <4>1 DEF LinksAgree
    <3>2. CASE revokeShareLink
      <4>1. given' = {} /\ ("link" \in overtaken' \/ ~Sharing) /\ UNCHANGED share
        BY <3>2 DEF revokeShareLink, Change
      <4> QED BY <4>1 DEF LinksAgree, Sharing
    <3> QED BY <1>8, <3>1, <3>2
  <2>4. TemplateTyped'
    BY <1>1, <2>1, <2>2 DEF TemplateTyped
  <2>5. SnapshotsAreCurrent' /\ WithdrawalsStand'
    BY <1>1, <2>1, <2>2 DEF SnapshotsAreCurrent, Current, WithdrawalsStand, Sharing
  <2> QED BY <2>3, <2>4, <2>5 DEF TemplateInv
<1>9. ASSUME NEW visibility \in {"unlisted", "public"}, publish(visibility) PROVE TemplateInv'
  <2>1. /\ template' = [template EXCEPT !.visibility = visibility] /\ withdrawn' = FALSE
        /\ UNCHANGED <<share, invalidating, slugs, given, overtaken>>
    BY <1>9 DEF publish
  <2>2. /\ template' \in Record /\ template'.slug = template.slug /\ template'.snapshot = template.snapshot
        /\ template'.items = template.items /\ template'.isDefault = template.isDefault
    BY <1>1, <2>1 DEF Record
  <2> QED BY <1>1, <2>1, <2>2 DEF TemplateInv, TemplateTyped, SnapshotsAreCurrent, Current, LinksAgree, WithdrawalsStand
<1>10. CASE UNCHANGED templateVars
  BY <1>1, <1>10 DEF templateVars, TemplateInv, TemplateTyped, SnapshotsAreCurrent, Current, LinksAgree,
                    WithdrawalsStand, Sharing
<1> QED BY <1>2, <1>3, <1>4, <1>5, <1>6, <1>7, <1>8, <1>9, <1>10 DEF TemplateNext

\* However often a template is edited and however many shares of it overlap, its snapshot,
\* its link and its visibility hold wherever no share was overtaken (shareTemplate).
THEOREM SharesAreKept == TemplateSpec => []SharesHold
<1> QED BY TemplateInvInit, TemplateInvStep, TemplateInvSuffices, PTL DEF TemplateSpec

-----------------------------------------------------------------------------
(* The count of requests: what each flush has in the air adds up.            *)

\* The counts that are sent and not yet written.
Aloft == [f \in Flush |-> IF flight[f].at = "sent" THEN flight[f].n ELSE 0]

\* The types.
SightingsTyped ==
  /\ seen \in Nat /\ buffer \in Nat /\ stored \in Nat /\ lost \in Int /\ doubled \in Nat
  /\ flight \in [Flush -> [at : {"landed", "sent", "written"}, n : Nat]]

\* The invariant behind SightingsAddUp.
SightingsInv == SightingsTyped /\ SightingsAddUp

\* What is in the air is the sum of a function.
LEMMA AirborneIsSum == SightingsTyped => Airborne = SumOver(Aloft, Flush)
<1> SUFFICES ASSUME SightingsTyped PROVE Airborne = SumOver(Aloft, Flush)
  OBVIOUS
<1> DEFINE value(f) == IF flight[f].at = "sent" THEN flight[f].n ELSE 0
           Unwound(h) == h = [s \in SUBSET Flush |->
                                IF s = {} THEN 0
                                ELSE value(CHOOSE x \in s : TRUE) + h[s \ {CHOOSE x \in s : TRUE}]]
           it == CHOOSE h : Unwound(h)
<1>1. Airborne = it[Flush]
  BY DEF Airborne, MapThenSumSet, MapThenFoldSet
<1>2. \A f \in Flush : Aloft[f] = value(f)
  BY DEF Aloft
<1>3. \E g : Summing(Aloft, Flush, g) /\ SumsUp(Aloft, Flush, g)
  BY SightingsAssumption, SumExists DEF Aloft, SightingsTyped
<1>4. SumOver(Aloft, Flush) = (CHOOSE h : Summing(Aloft, Flush, h))[Flush]
  BY DEF SumOver, MapThenSumSet, MapThenFoldSet, Summing
<1> HIDE DEF value
<1>5. ASSUME NEW h
      PROVE  Unwound(h) <=> Summing(Aloft, Flush, h)
  <2>1. \A s \in SUBSET Flush : s # {} => value(CHOOSE x \in s : TRUE) = Aloft[CHOOSE x \in s : TRUE]
    BY <1>2
  <2>2. [s \in SUBSET Flush |-> IF s = {} THEN 0
                                ELSE value(CHOOSE x \in s : TRUE) + h[s \ {CHOOSE x \in s : TRUE}]]
          = [s \in SUBSET Flush |-> IF s = {} THEN 0
                                    ELSE Aloft[CHOOSE x \in s : TRUE] + h[s \ {CHOOSE x \in s : TRUE}]]
    BY <2>1
  <2> QED BY <2>2 DEF Summing
<1> HIDE DEF Unwound
<1>6. PICK g : Summing(Aloft, Flush, g) /\ SumsUp(Aloft, Flush, g)
  BY <1>3
<1>7. \A h : Unwound(h) <=> h = g
  BY <1>5, <1>6, SightingsAssumption, SumIsUnique
<1>8. it = g /\ (CHOOSE h : Summing(Aloft, Flush, h)) = g
  BY <1>5, <1>7
<1> QED BY <1>1, <1>4, <1>8

\* A sum changes by what one of its terms changes.
LEMMA SumChangesAt ==
  ASSUME NEW S, IsFiniteSet(S), NEW a \in S, NEW f, NEW g,
         \A x \in S : f[x] \in Int /\ g[x] \in Int, \A x \in S \ {a} : g[x] = f[x]
  PROVE  SumOver(g, S) = SumOver(f, S) + (g[a] - f[a])
<1> DEFINE d == g[a] - f[a]
           p == [x \in S |-> IF x = a THEN d ELSE 0]
<1>1. d \in Int /\ PointAt(p, a, d, S)
  BY DEF PointAt
<1>2. Adds(g, f, p, S)
  BY DEF Adds
<1>3. SumOver(p, S) = d
  BY <1>1, SumOfPoint
<1>4. SumOver(g, S) = SumOver(f, S) + SumOver(p, S)
  BY <1>2, SumOfSums
<1> QED BY <1>3, <1>4

\* One flush goes to another point of its course.
LEMMA FlightChanges ==
  ASSUME SightingsTyped, NEW f \in Flush, NEW row \in [at : {"landed", "sent", "written"}, n : Nat],
         flight' = [flight EXCEPT ![f] = row],
         seen' \in Nat, buffer' \in Nat, stored' \in Nat, lost' \in Int, doubled' \in Nat
  PROVE  /\ SightingsTyped'
         /\ Airborne' = (Airborne + (IF row.at = "sent" THEN row.n ELSE 0)) - Aloft[f]
<1>1. SightingsTyped'
  BY DEF SightingsTyped
<1>2. Aloft'[f] = (IF row.at = "sent" THEN row.n ELSE 0) /\ \A g \in Flush \ {f} : Aloft'[g] = Aloft[g]
  BY DEF SightingsTyped, Aloft
<1>3. \A g \in Flush : Aloft[g] \in Int /\ Aloft'[g] \in Int
  BY <1>1 DEF SightingsTyped, Aloft
<1>4. SumOver(Aloft', Flush) = SumOver(Aloft, Flush) + (Aloft'[f] - Aloft[f])
  BY <1>2, <1>3, SightingsAssumption, SumChangesAt
<1>5. Airborne = SumOver(Aloft, Flush)
  BY AirborneIsSum
<1>6. (SightingsTyped => Airborne = SumOver(Aloft, Flush))'
  BY AirborneIsSum, PTL
<1>7. SumOver(Aloft, Flush) \in Int
  BY <1>3, SightingsAssumption, SumType
<1> QED BY <1>1, <1>2, <1>3, <1>4, <1>5, <1>6, <1>7

\* Nothing is in the air while every flush has landed.
LEMMA NothingAirborne ==
  ASSUME flight = [f \in Flush |-> Landed], SightingsTyped
  PROVE  Airborne = 0
<1>1. \A f \in Flush : Aloft[f] = 0
  BY DEF Aloft, Landed
<1>2. SumOver(Aloft, Flush) = 0 * Cardinality(Flush) /\ Cardinality(Flush) \in Nat
  BY <1>1, SightingsAssumption, SumOfConstant, FS_CardinalityType
<1> QED BY <1>2, AirborneIsSum

\* Nothing is in flight at the start.
LEMMA SightingsStart == SightingsInit => SightingsInv
<1> SUFFICES ASSUME SightingsInit PROVE SightingsInv
  OBVIOUS
<1>1. SightingsTyped
  BY DEF SightingsInit, SightingsTyped, Landed
<1>2. Airborne = 0
  BY <1>1, NothingAirborne DEF SightingsInit
<1> QED BY <1>1, <1>2 DEF SightingsInit, SightingsInv, SightingsAddUp

\* Every step keeps the sum.
LEMMA SightingsStep == SightingsInv /\ [SightingsNext]_sightingVars => SightingsInv'
<1> SUFFICES ASSUME SightingsInv, [SightingsNext]_sightingVars PROVE SightingsInv'
  OBVIOUS
<1>1. SightingsTyped /\ stored + buffer + Airborne = seen - lost + doubled
  BY DEF SightingsInv, SightingsAddUp
<1>2. Airborne \in Int
  BY <1>1, AirborneIsSum, SightingsAssumption, SumType DEF Aloft, SightingsTyped
<1>3. CASE UNCHANGED flight /\ (recordSighting \/ UNCHANGED sightingVars)
  <2>1. SightingsTyped' /\ Aloft' = Aloft
    BY <1>1, <1>3 DEF SightingsTyped, Aloft, recordSighting, sightingVars
  <2>2. (SightingsTyped => Airborne = SumOver(Aloft, Flush))'
    BY AirborneIsSum, PTL
  <2>3. Airborne' = Airborne
    BY <1>1, <2>1, <2>2, AirborneIsSum
  <2>4. stored' + buffer' + Airborne' = seen' - lost' + doubled'
    BY <1>1, <1>2, <1>3, <2>3 DEF SightingsTyped, recordSighting, sightingVars
  <2> QED BY <2>1, <2>4 DEF SightingsInv, SightingsAddUp
<1>4. ASSUME NEW f \in Flush, flushSightings(f) \/ upsert(f) \/ acknowledge(f) \/ putBack(f)
      PROVE  SightingsInv'
  <2>1. PICK at \in {"landed", "sent", "written"}, n \in Nat : flight[f] = [at |-> at, n |-> n]
    BY <1>1 DEF SightingsTyped
  <2>2. CASE flushSightings(f)
    <3>1. PICK row \in [at : {"landed", "sent", "written"}, n : Nat] : row = [at |-> "sent", n |-> buffer]
      BY <1>1, <2>1 DEF SightingsTyped
    <3>2. flight' = [flight EXCEPT ![f] = row] /\ Aloft[f] = 0 /\ buffer \in Nat
      BY <1>1, <2>1, <2>2, <3>1 DEF flushSightings, Aloft, Landed, SightingsTyped
    <3>3. seen' \in Nat /\ buffer' \in Nat /\ stored' \in Nat /\ lost' \in Int /\ doubled' \in Nat
      BY <1>1, <2>1, <2>2 DEF SightingsTyped, flushSightings
    <3>4. SightingsTyped' /\ Airborne' = (Airborne + (IF row.at = "sent" THEN row.n ELSE 0)) - Aloft[f]
      BY <1>1, <3>2, <3>3, FlightChanges
    <3>5. Airborne' = Airborne + buffer
      BY <1>2, <2>1, <3>1, <3>2, <3>4
    <3>6. stored' + buffer' + Airborne' = seen' - lost' + doubled'
      BY <1>1, <1>2, <2>1, <2>2, <3>5 DEF SightingsTyped, flushSightings
    <3> QED BY <3>4, <3>6 DEF SightingsInv, SightingsAddUp
  <2>3. CASE upsert(f)
    <3>1. PICK row \in [at : {"landed", "sent", "written"}, n : Nat] : row = [at |-> "written", n |-> n]
      BY <1>1, <2>1 DEF SightingsTyped
    <3>2. flight' = [flight EXCEPT ![f] = row] /\ Aloft[f] = n
      <4>1. [flight[f] EXCEPT !.at = "written"] = row
        BY <2>1, <3>1
      <4>2. flight' = [flight EXCEPT ![f] = [flight[f] EXCEPT !.at = "written"]]
        BY <1>1, <2>3 DEF upsert, SightingsTyped
      <4>3. Aloft[f] = n
        BY <2>1, <2>3 DEF upsert, Aloft
      <4> QED BY <4>1, <4>2, <4>3
    <3>3. seen' \in Nat /\ buffer' \in Nat /\ stored' \in Nat /\ lost' \in Int /\ doubled' \in Nat
      BY <1>1, <2>1, <2>3 DEF SightingsTyped, upsert
    <3>4. SightingsTyped' /\ Airborne' = (Airborne + (IF row.at = "sent" THEN row.n ELSE 0)) - Aloft[f]
      BY <1>1, <3>2, <3>3, FlightChanges
    <3>5. Airborne' = Airborne - n
      BY <1>2, <2>1, <3>1, <3>2, <3>4
    <3>6. stored' + buffer' + Airborne' = seen' - lost' + doubled'
      BY <1>1, <1>2, <2>1, <2>3, <3>5 DEF SightingsTyped, upsert
    <3> QED BY <3>4, <3>6 DEF SightingsInv, SightingsAddUp
  <2>4. CASE acknowledge(f)
    <3>1. PICK row \in [at : {"landed", "sent", "written"}, n : Nat] : row = [at |-> "landed", n |-> 0]
      BY <1>1, <2>1 DEF SightingsTyped
    <3>2. flight' = [flight EXCEPT ![f] = row] /\ Aloft[f] = 0
      BY <1>1, <2>1, <2>4, <3>1 DEF acknowledge, Aloft, Landed, SightingsTyped
    <3>3. seen' \in Nat /\ buffer' \in Nat /\ stored' \in Nat /\ lost' \in Int /\ doubled' \in Nat
      BY <1>1, <2>1, <2>4 DEF SightingsTyped, acknowledge
    <3>4. SightingsTyped' /\ Airborne' = (Airborne + (IF row.at = "sent" THEN row.n ELSE 0)) - Aloft[f]
      BY <1>1, <3>2, <3>3, FlightChanges
    <3>5. Airborne' = Airborne
      BY <1>2, <2>1, <3>1, <3>2, <3>4
    <3>6. stored' + buffer' + Airborne' = seen' - lost' + doubled'
      BY <1>1, <1>2, <2>1, <2>4, <3>5 DEF SightingsTyped, acknowledge
    <3> QED BY <3>4, <3>6 DEF SightingsInv, SightingsAddUp
  <2>5. CASE putBack(f)
    <3>1. PICK row \in [at : {"landed", "sent", "written"}, n : Nat] : row = [at |-> "landed", n |-> 0]
      BY <1>1, <2>1 DEF SightingsTyped
    <3>2. flight' = [flight EXCEPT ![f] = row] /\ Aloft[f] = (IF at = "sent" THEN n ELSE 0)
      BY <1>1, <2>1, <2>5, <3>1 DEF putBack, Aloft, Landed, SightingsTyped
    <3>3. seen' \in Nat /\ buffer' \in Nat /\ stored' \in Nat /\ lost' \in Int /\ doubled' \in Nat
      BY <1>1, <2>1, <2>5 DEF SightingsTyped, putBack, PutBack
    <3>4. SightingsTyped' /\ Airborne' = (Airborne + (IF row.at = "sent" THEN row.n ELSE 0)) - Aloft[f]
      BY <1>1, <3>2, <3>3, FlightChanges
    <3>5. Airborne' = Airborne - (IF at = "sent" THEN n ELSE 0)
      BY <1>2, <2>1, <3>1, <3>2, <3>4
    <3>6. stored' + buffer' + Airborne' = seen' - lost' + doubled'
      BY <1>1, <1>2, <2>1, <2>5, <3>5 DEF SightingsTyped, putBack, PutBack
    <3> QED BY <3>4, <3>6 DEF SightingsInv, SightingsAddUp
  <2> QED BY <1>4, <2>2, <2>3, <2>4, <2>5
<1>5. CASE RestartCounting
  <2>1. SightingsTyped'
    BY <1>1, <1>2, <1>5 DEF SightingsTyped, RestartCounting, Landed
  <2>2. Airborne' = 0
    <3>1. flight' = [f \in Flush |-> Landed]
      BY <1>5 DEF RestartCounting
    <3>2. (flight = [f \in Flush |-> Landed] /\ SightingsTyped => Airborne = 0)'
      BY NothingAirborne, PTL
    <3> QED BY <2>1, <3>1, <3>2 DEF Landed
  <2>3. stored' + buffer' + Airborne' = seen' - lost' + doubled'
    BY <1>1, <1>2, <1>5, <2>2 DEF SightingsTyped, RestartCounting
  <2> QED BY <2>1, <2>3 DEF SightingsInv, SightingsAddUp
<1> QED BY <1>3, <1>4, <1>5 DEF SightingsNext, recordSighting, sightingVars

\* Every request is counted in the database, in the buffer or on the way from one
\* to the other, whatever the number of flushes under way, failed writes and
\* restarts: what a restart takes and a lost answer doubles is all that is missing
\* (recordSighting, flushSightings).
THEOREM SightingsAreKept == SightingsSpec => []SightingsAddUp
<1>1. SightingsInv => SightingsAddUp
  BY DEF SightingsInv
<1> QED BY <1>1, SightingsStart, SightingsStep, PTL DEF SightingsSpec

-----------------------------------------------------------------------------
(* The prices of a chain: what a save under way will write of a shop that    *)
(* nobody else writes is still as it was read.                               *)

\* What a save carries between its steps.
SaverRec ==
  [at : {"saved", "read", "update", "insert"}, shop : Shop \cup {0}, day : Nat, amount : Amount \cup {0},
   update : SUBSET Nat, insert : SUBSET Shop]

\* The types, and the rows a save is to update exist.
PricesTyped ==
  /\ price \in Seq(PriceRow)
  /\ saver \in [Saver -> SaverRec]
  /\ \A w \in Saver : /\ saver[w] # Saved => saver[w].day \in Day /\ saver[w].amount \in Amount
                      /\ saver[w].update \subseteq DOMAIN price
                      /\ saver[w].at \in {"saved", "read"} => saver[w].update = {} /\ saver[w].insert = {}
                      /\ saver[w].at = "insert" => saver[w].update = {}
  /\ told \in [Shop -> [day : Nat, amount : Amount \cup {0}]]

\* A shop has been told nothing, or keeps one row of what it was told last, or has a row of
\* its own that is its latest.
Tells(s) ==
  \/ RowsOf(s) = {} /\ told[s].day = 0
  \/ \E i \in RowsOf(s) : /\ RowsOf(s) = {i} /\ price[i].fallback
                          /\ told[s] = [day |-> price[i].day, amount |-> price[i].amount]
  \/ \E i \in RowsOf(s) : ~price[i].fallback /\ \A j \in RowsOf(s) : j <= i

\* What a save will write of the shop: a first row, or fallbacks that are not newer.
Fresh(w, s) ==
  /\ s \in saver[w].insert => RowsOf(s) = {}
  /\ \A i \in saver[w].update \cap RowsOf(s) : price[i].fallback /\ price[i].day <= saver[w].day

\* Of one shop: it tells the newest price, and what a save has read of it is
\* still so.
ShopKept(s) == Tells(s) /\ \A w \in Saver : Fresh(w, s)

\* The invariant behind NewestPriceWins, for the shops no two saves contest.
PricesInv == PricesTyped /\ \A s \in Shop \ contested : ShopKept(s)

-----------------------------------------------------------------------------
\* A finite set as a sequence: every element has one place.
LEMMA Enumeration ==
  ASSUME NEW S, IsFiniteSet(S)
  PROVE  /\ SetToSeq(S) \in Seq(S)
         /\ \A x \in S : \E k \in DOMAIN SetToSeq(S) : SetToSeq(S)[k] = x
         /\ \A j, k \in DOMAIN SetToSeq(S) : SetToSeq(S)[j] = SetToSeq(S)[k] => j = k
<1> DEFINE n == Cardinality(S)
<1>1. n \in Nat /\ ExistsBijection(1 .. n, S)
  BY FS_CardinalityType
<1>2. PICK g : g \in Bijection(1 .. n, S)
  BY <1>1 DEF ExistsBijection
<1>3. \E f \in [1 .. n -> S] : IsInjective(f)
  BY <1>2 DEF Bijection, Injection
<1>4. SetToSeq(S) \in [1 .. n -> S] /\ IsInjective(SetToSeq(S))
  BY <1>3 DEF SetToSeq
<1> PICK f : f = SetToSeq(S)
  OBVIOUS
<1>5. f \in Injection(1 .. n, S)
  BY <1>4 DEF Injection
<1>6. IsFiniteSet(1 .. n) /\ Cardinality(1 .. n) = n
  BY <1>1, FS_Interval
<1> HIDE DEF n
<1>7. f \in Surjection(1 .. n, S)
  <2>1. Cardinality(1 .. n) = Cardinality(S)
    BY <1>6 DEF n
  <2> QED BY <1>5, <2>1, FS_Injection
<1>8. f \in [1 .. n -> S] /\ \A x \in S : \E k \in 1 .. n : f[k] = x
  BY <1>7 DEF Surjection
<1>9. f \in Seq(S) /\ DOMAIN f = 1 .. n
  BY <1>1, <1>8
<1>10. \A j, k \in 1 .. n : f[j] = f[k] => j = k
  BY <1>4, <1>9 DEF IsInjective
<1> QED BY <1>8, <1>9, <1>10

\* What the updates do to the columns of a row.
LEMMA RowEdits ==
  ASSUME NEW r \in PriceRow, NEW d \in Day, NEW a \in Amount, NEW b \in BOOLEAN
  PROVE  /\ [r EXCEPT !.amount = a, !.fallback = b] = [shop |-> r.shop, day |-> r.day, amount |-> a, fallback |-> b]
         /\ [r EXCEPT !.day = d, !.amount = a] = [shop |-> r.shop, day |-> d, amount |-> a, fallback |-> r.fallback]
<1>1. PICK s : s = [r EXCEPT !.amount = a, !.fallback = b]
  OBVIOUS
<1>2. PICK t : t = [r EXCEPT !.day = d, !.amount = a]
  OBVIOUS
<1>3. s \in PriceRow /\ t \in PriceRow
  BY <1>1, <1>2 DEF PriceRow
<1>4. /\ s.shop = r.shop /\ s.day = r.day /\ s.amount = a /\ s.fallback = b
      /\ t.shop = r.shop /\ t.day = d /\ t.amount = a /\ t.fallback = r.fallback
  BY <1>1, <1>2 DEF PriceRow
<1>5. \A u \in PriceRow : u = [shop |-> u.shop, day |-> u.day, amount |-> u.amount, fallback |-> u.fallback]
  BY DEF PriceRow
<1> QED BY <1>1, <1>2, <1>3, <1>4, <1>5

-----------------------------------------------------------------------------
\* What a write of one price in several shops leaves: the rows of the other shops, and in
\* each of these the rows there were, that day's with the price, and a row of it if there was none.
SameShop(s) ==
  /\ RowsOf(s)' = RowsOf(s)
  /\ \A i \in RowsOf(s) : price'[i] = price[i]

\* A shop was written: a row of that day was updated, or one was added at the
\* end.
Written(s, d, a, fallback) ==
  \/ /\ RowsOf(s)' = RowsOf(s) /\ On(s, d) # {}
     /\ \A i \in RowsOf(s) : /\ price'[i].fallback \in {fallback, price[i].fallback}
                             /\ i \in On(s, d) => price'[i].fallback = fallback
  \/ \E n \in Nat : /\ RowsOf(s)' = RowsOf(s) \cup {n} /\ n \notin DOMAIN price /\ \A i \in RowsOf(s) : i < n
                    /\ price'[n] = [shop |-> s, day |-> d, amount |-> a, fallback |-> fallback]

\* A save writes the shops it was asked to and no other.
LEMMA Upserted ==
  ASSUME price \in Seq(PriceRow), NEW shops \in SUBSET Shop, NEW d \in Day, NEW a \in Amount,
         NEW fallback \in BOOLEAN, price' = Upsert(shops, d, a, fallback)
  PROVE  /\ price' \in Seq(PriceRow) /\ DOMAIN price \subseteq DOMAIN price'
         /\ \A s \in Shop \ shops : SameShop(s)
         /\ \A s \in shops : Written(s, d, a, fallback)
<1> DEFINE here == UNION {On(s, d) : s \in shops}
           empty == {s \in shops : On(s, d) = {}}
           N == Len(price)
<1>1. IsFiniteSet(empty)
  BY PricesAssumption, FS_Subset
<1> HIDE DEF empty
<1>2. PICK new : new = SetToSeq(empty)
  OBVIOUS
<1>3. /\ new \in Seq(empty) /\ \A s \in empty : \E k \in DOMAIN new : new[k] = s
      /\ \A j, k \in DOMAIN new : new[j] = new[k] => j = k
  BY <1>1, <1>2, Enumeration
<1>4. PICK old : old = [i \in DOMAIN price |-> IF i \in here THEN [price[i] EXCEPT !.amount = a, !.fallback = fallback]
                                               ELSE price[i]]
  OBVIOUS
<1>5. PICK add : add = [k \in DOMAIN new |-> [shop |-> new[k], day |-> d, amount |-> a, fallback |-> fallback]]
  OBVIOUS
<1>6. price' = old \o add
  BY <1>2, <1>4, <1>5 DEF Upsert, empty
<1>7. DOMAIN price = 1 .. N /\ N \in Nat /\ \A i \in DOMAIN price : price[i] \in PriceRow
  OBVIOUS
<1>8. \A i \in DOMAIN price :
        old[i] = IF i \in here THEN [shop |-> price[i].shop, day |-> price[i].day, amount |-> a, fallback |-> fallback]
                 ELSE price[i]
  <2>1. \A i \in DOMAIN price : [price[i] EXCEPT !.amount = a, !.fallback = fallback]
                                  = [shop |-> price[i].shop, day |-> price[i].day, amount |-> a, fallback |-> fallback]
    BY <1>7, RowEdits
  <2> QED BY <1>4, <2>1
<1>9. old \in Seq(PriceRow) /\ Len(old) = N
  <2>1. ASSUME NEW i \in DOMAIN price PROVE old[i] \in PriceRow
    <3>1. PICK r : r = [shop |-> price[i].shop, day |-> price[i].day, amount |-> a, fallback |-> fallback]
      OBVIOUS
    <3>2. r \in PriceRow
      BY <1>7, <3>1 DEF PriceRow
    <3> HIDE DEF here
    <3> QED BY <1>7, <1>8, <3>1, <3>2
  <2>2. old \in [1 .. N -> PriceRow]
    BY <1>4, <1>7, <2>1
  <2> QED BY <1>7, <2>2
<1>10. DOMAIN new = 1 .. Len(new) /\ Len(new) \in Nat /\ \A k \in DOMAIN new : new[k] \in empty
  BY <1>3
<1>11. add \in Seq(PriceRow) /\ Len(add) = Len(new)
  <2>1. \A k \in DOMAIN new : add[k] \in PriceRow
    BY <1>5, <1>10 DEF PriceRow, empty
  <2>2. add \in [1 .. Len(new) -> PriceRow]
    BY <1>5, <1>10, <2>1
  <2> QED BY <1>10, <2>2
<1>12. /\ price' \in Seq(PriceRow) /\ Len(price') = N + Len(new)
       /\ \A i \in 1 .. N : price'[i] = old[i]
       /\ \A k \in 1 .. Len(new) : price'[N + k] = add[k]
  <2>1. /\ old \o add \in Seq(PriceRow) /\ Len(old \o add) = Len(old) + Len(add)
        /\ \A i \in 1 .. Len(old) + Len(add) : (old \o add)[i] = IF i <= Len(old) THEN old[i] ELSE add[i - Len(old)]
    BY ONLY <1>9, <1>11, ConcatProperties
  <2>2. ASSUME NEW k \in 1 .. Len(new) PROVE price'[N + k] = add[k]
    <3>1. N + k \in 1 .. Len(old) + Len(add) /\ ~(N + k <= Len(old)) /\ (N + k) - Len(old) = k
      BY <1>7, <1>9, <1>10, <1>11
    <3> QED BY <1>6, <2>1, <3>1
  <2>3. ASSUME NEW i \in 1 .. N PROVE price'[i] = old[i]
    <3>1. i \in 1 .. Len(old) + Len(add) /\ i <= Len(old)
      BY <1>7, <1>9, <1>10, <1>11
    <3> QED BY <1>6, <2>1, <3>1
  <2> QED BY <1>6, <1>9, <1>11, <2>1, <2>2, <2>3
<1>13. DOMAIN price' = 1 .. (N + Len(new)) /\ DOMAIN price \subseteq DOMAIN price'
  BY <1>7, <1>10, <1>12
<1>14. \A i \in DOMAIN price : price'[i].shop = price[i].shop /\ (i \notin here => price'[i] = price[i])
  <2>1. ASSUME NEW i \in DOMAIN price PROVE price'[i].shop = price[i].shop /\ (i \notin here => price'[i] = price[i])
    <3>1. price'[i] = old[i]
      BY <1>7, <1>12
    <3>2. CASE i \in here
      <4>1. PICK r : r = [shop |-> price[i].shop, day |-> price[i].day, amount |-> a, fallback |-> fallback]
        OBVIOUS
      <4>2. price'[i] = r
        BY <1>8, <3>1, <3>2, <4>1
      <4> QED BY <3>2, <4>1, <4>2
    <3>3. CASE i \notin here
      BY <1>8, <3>1, <3>3
    <3> QED BY <3>2, <3>3
  <2> QED BY <2>1
<1>15. \A i \in DOMAIN price : i \in here => price'[i].fallback = fallback
  <2>1. ASSUME NEW i \in DOMAIN price, i \in here PROVE price'[i].fallback = fallback
    <3>1. PICK r : r = [shop |-> price[i].shop, day |-> price[i].day, amount |-> a, fallback |-> fallback]
      OBVIOUS
    <3>2. price'[i] = r
      BY <1>7, <1>8, <1>12, <2>1, <3>1
    <3> QED BY <3>1, <3>2
  <2> QED BY <2>1
<1>16. \A i \in DOMAIN price : i \in here <=> price[i].day = d /\ price[i].shop \in shops
  BY DEF On, RowsOf
<1>17. \A i \in DOMAIN price' \ DOMAIN price : \E k \in DOMAIN new : i = N + k /\ price'[i] = add[k]
  <2>1. ASSUME NEW i \in DOMAIN price' \ DOMAIN price PROVE \E k \in DOMAIN new : i = N + k /\ price'[i] = add[k]
    <3>1. i - N \in DOMAIN new /\ i = N + (i - N)
      BY <1>7, <1>10, <1>13
    <3> QED BY <1>10, <1>12, <3>1
  <2> QED BY <2>1
<1>18. \A k \in DOMAIN new : add[k] = [shop |-> new[k], day |-> d, amount |-> a, fallback |-> fallback] /\ add[k].shop = new[k]
  BY <1>5
<1> HIDE DEF here, N
<1>19. \A s \in Shop : RowsOf(s)' = RowsOf(s) \cup {i \in DOMAIN price' \ DOMAIN price : price'[i].shop = s}
  BY <1>13, <1>14 DEF RowsOf
<1>20. ASSUME NEW s \in Shop, s \notin empty PROVE RowsOf(s)' = RowsOf(s)
  <2>1. \A i \in DOMAIN price' \ DOMAIN price : price'[i].shop # s
    BY <1>10, <1>17, <1>18, <1>20
  <2> QED BY <1>19, <2>1
<1>21. ASSUME NEW s \in Shop \ shops PROVE SameShop(s)
  <2>1. \A i \in RowsOf(s) : i \in DOMAIN price /\ price[i].shop = s
    BY DEF RowsOf
  <2>2. s \notin empty
    BY <1>21 DEF empty
  <2> QED BY <1>14, <1>16, <1>20, <1>21, <2>1, <2>2 DEF SameShop
<1>22. ASSUME NEW s \in shops, On(s, d) # {} PROVE Written(s, d, a, fallback)
  <2>1. s \in Shop /\ s \notin empty
    BY <1>22 DEF empty
  <2>2. \A i \in RowsOf(s) : i \in DOMAIN price /\ price[i].shop = s /\ (i \in On(s, d) => i \in here)
    BY <1>16 DEF RowsOf, On
  <2> QED BY <1>14, <1>15, <1>20, <1>22, <2>1, <2>2 DEF Written
<1>23. ASSUME NEW s \in shops, On(s, d) = {} PROVE Written(s, d, a, fallback)
  <2>1. s \in Shop /\ s \in empty
    BY <1>23 DEF empty
  <2>2. PICK k \in DOMAIN new : new[k] = s
    BY <1>3, <2>1
  <2>3. PICK n \in Nat : n = N + k
    BY <1>7, <1>10
  <2>4. n \in DOMAIN price' /\ n \notin DOMAIN price /\ \A i \in DOMAIN price : i < n
    BY <1>7, <1>10, <1>13, <2>3
  <2>5. price'[n] = [shop |-> s, day |-> d, amount |-> a, fallback |-> fallback] /\ price'[n].shop = s
    BY <1>10, <1>12, <1>18, <2>2, <2>3
  <2>6. ASSUME NEW i \in DOMAIN price' \ DOMAIN price, price'[i].shop = s PROVE i = n
    <3>1. PICK j \in DOMAIN new : i = N + j /\ price'[i] = add[j]
      BY <1>17
    <3>2. new[j] = s
      BY <1>18, <2>6, <3>1
    <3>3. j = k
      BY <1>3, <2>2, <3>2
    <3> QED BY <2>3, <3>1, <3>3
  <2>7. RowsOf(s)' = RowsOf(s) \cup {n}
    BY <1>19, <2>1, <2>4, <2>5, <2>6
  <2>8. \A i \in RowsOf(s) : i < n
    BY <2>4 DEF RowsOf
  <2> QED BY <2>4, <2>5, <2>7, <2>8 DEF Written
<1> QED BY <1>12, <1>13, <1>21, <1>22, <1>23

-----------------------------------------------------------------------------
\* A shop whose rows, word and targets nothing changes stays as it is.
LEMMA ShopUndisturbed ==
  ASSUME NEW s \in Shop, ShopKept(s), SameShop(s), told'[s] = told[s],
         \A w \in Saver : \/ saver'[w] = Saved \/ saver'[w] = saver[w]
                          \/ saver'[w].at = "insert" /\ saver'[w].update = {} /\ saver'[w].insert = saver[w].insert
                          \/ saver'[w].update = {} /\ saver'[w].insert = {}
  PROVE  ShopKept(s)'
<1>1. Tells(s)'
  <2>1. CASE RowsOf(s) = {}
    BY <2>1 DEF Tells, ShopKept, SameShop
  <2>2. CASE \E i \in RowsOf(s) : /\ RowsOf(s) = {i} /\ price[i].fallback
                                  /\ told[s] = [day |-> price[i].day, amount |-> price[i].amount]
    <3>1. PICK i \in RowsOf(s) : /\ RowsOf(s) = {i} /\ price[i].fallback
                                 /\ told[s] = [day |-> price[i].day, amount |-> price[i].amount]
      BY <2>2
    <3>2. price'[i] = price[i] /\ i \in RowsOf(s)'
      BY <3>1 DEF SameShop
    <3> QED BY <3>1, <3>2 DEF Tells, SameShop
  <2>3. CASE \E i \in RowsOf(s) : ~price[i].fallback /\ \A j \in RowsOf(s) : j <= i
    <3>1. PICK i \in RowsOf(s) : ~price[i].fallback /\ \A j \in RowsOf(s) : j <= i
      BY <2>3
    <3>2. price'[i] = price[i] /\ i \in RowsOf(s)'
      BY <3>1 DEF SameShop
    <3> QED BY <3>1, <3>2 DEF Tells, SameShop
  <2> QED BY <2>1, <2>2, <2>3 DEF ShopKept, Tells
<1>2. ASSUME NEW w \in Saver PROVE Fresh(w, s)'
  <2>1. Fresh(w, s)
    BY DEF ShopKept
  <2>2. CASE saver'[w] = Saved
    <3>1. saver'[w].insert = {} /\ saver'[w].update = {}
      BY <2>2 DEF Saved
    <3> QED BY <3>1 DEF Fresh
  <2>3. CASE saver'[w] = saver[w]
    BY <2>1, <2>3 DEF Fresh, SameShop
  <2>4. CASE saver'[w].update = {} /\ (saver'[w].insert = saver[w].insert \/ saver'[w].insert = {})
    BY <2>1, <2>4 DEF Fresh, SameShop
  <2> QED BY <2>2, <2>3, <2>4
<1> QED BY <1>1, <1>2 DEF ShopKept

\* Who writes a shop that is not contested afterwards is alone in aiming at it.
LEMMA AloneInWriting ==
  ASSUME PricesTyped, NEW w \in Saver, NEW shops \in SUBSET Shop, Writing(w, shops),
         NEW s \in shops, s \notin contested', NEW v \in Saver \ {w}
  PROVE  s \notin saver[v].insert /\ saver[v].update \cap RowsOf(s) = {}
<1>1. s \notin Targets(v)
  BY DEF Writing
<1> QED BY <1>1 DEF Targets, RowsOf

\* A shop once contested stays so.
LEMMA WritingOnlyAdds ==
  ASSUME NEW w, NEW shops, Writing(w, shops), NEW s, s \notin contested' PROVE s \notin contested
  BY DEF Writing

\* A saver's record with other fields.
LEMMA SaverFields ==
  ASSUME PricesTyped, NEW w \in Saver
  PROVE  /\ saver[w] \in SaverRec /\ saver[w].update \in SUBSET Nat /\ saver[w].insert \in SUBSET Shop
         /\ Saved \in SaverRec /\ Saved.at = "saved" /\ Saved.update = {} /\ Saved.insert = {}
         /\ \A d \in Day : d \in Nat
<1>1. saver[w] \in SaverRec
  BY DEF PricesTyped
<1>2. \A d \in Day : d \in Nat
  BY PricesAssumption DEF Day
<1> QED BY <1>1, <1>2 DEF SaverRec, Saved

\* A save's step keeps the types.
LEMMA SaversTyped ==
  ASSUME PricesTyped, NEW w \in Saver, NEW row \in SaverRec, saver' = [saver EXCEPT ![w] = row],
         price' \in Seq(PriceRow), DOMAIN price \subseteq DOMAIN price',
         told' \in [Shop -> [day : Nat, amount : Amount \cup {0}]],
         row # Saved => row.day \in Day /\ row.amount \in Amount,
         row.update \subseteq DOMAIN price',
         row.at \in {"saved", "read"} => row.update = {} /\ row.insert = {},
         row.at = "insert" => row.update = {}
  PROVE  PricesTyped'
<1>1. saver' \in [Saver -> SaverRec] /\ saver'[w] = row /\ \A v \in Saver \ {w} : saver'[v] = saver[v]
  BY DEF PricesTyped
<1> QED BY <1>1 DEF PricesTyped

-----------------------------------------------------------------------------
\* A receipt writes the price of its own shop.
LEMMA ReceiptKeeps ==
  ASSUME PricesInv, NEW w \in Saver, NEW s \in Shop, NEW d \in Day, NEW a \in Amount, persistReceiptPrices(w, s, d, a)
  PROVE  PricesInv'
<1>1. /\ price' \in Seq(PriceRow) /\ DOMAIN price \subseteq DOMAIN price'
      /\ \A t \in Shop \ {s} : SameShop(t)
      /\ Written(s, d, a, FALSE)
  <2>1. price \in Seq(PriceRow) /\ price' = Upsert({s}, d, a, FALSE)
    BY DEF PricesInv, PricesTyped, persistReceiptPrices
  <2> QED BY <2>1, Upserted
<1>2. PICK row : row = [Saved EXCEPT !.at = "read", !.shop = s, !.day = d, !.amount = a]
  OBVIOUS
<1>3. row \in SaverRec /\ row.at = "read" /\ row.day = d /\ row.amount = a /\ row.update = {} /\ row.insert = {}
  BY <1>2, SaverFields DEF PricesInv, SaverRec, Saved
<1>4. saver[w] = Saved /\ told' = told /\ Writing(w, {s})
      /\ (saver' = [saver EXCEPT ![w] = row] \/ saver' = saver)
  BY <1>2 DEF persistReceiptPrices
<1>5. PricesTyped'
  <2>1. CASE saver' = [saver EXCEPT ![w] = row]
    BY <1>1, <1>3, <1>4, <2>1, SaversTyped DEF PricesInv, PricesTyped
  <2>2. CASE saver' = saver
    BY <1>1, <1>4, <2>2 DEF PricesInv, PricesTyped
  <2> QED BY <1>4, <2>1, <2>2
<1>6. /\ \A v \in Saver \ {w} : saver'[v] = saver[v]
      /\ saver'[w].update = {} /\ saver'[w].insert = {}
  BY <1>3, <1>4, SaverFields DEF PricesInv, PricesTyped
<1>7. ASSUME NEW t \in Shop \ contested', t # s PROVE ShopKept(t)'
  <2>1. ShopKept(t) /\ SameShop(t) /\ told'[t] = told[t]
    BY <1>1, <1>4, <1>7, WritingOnlyAdds DEF PricesInv
  <2> QED BY <1>6, <2>1, ShopUndisturbed
<1>8. ASSUME s \notin contested' PROVE ShopKept(s)'
  <2>1. ShopKept(s)
    BY <1>4, <1>8, WritingOnlyAdds DEF PricesInv
  <2>2. ASSUME NEW v \in Saver \ {w} PROVE s \notin saver[v].insert /\ saver[v].update \cap RowsOf(s) = {}
    BY <1>4, <1>8, AloneInWriting DEF PricesInv
  <2>3. RowsOf(s) \subseteq DOMAIN price
    BY DEF RowsOf
  <2>4. ASSUME NEW v \in Saver PROVE Fresh(v, s)'
    <3>1. CASE v = w
      BY <1>6, <3>1 DEF Fresh
    <3>2. CASE v # w
      <4>1. saver'[v] = saver[v] /\ saver[v].update \subseteq DOMAIN price
        BY <1>6, <3>2 DEF PricesInv, PricesTyped
      <4>2. \A i \in RowsOf(s)' : i \in DOMAIN price => i \in RowsOf(s)
        <5>1. CASE RowsOf(s)' = RowsOf(s)
          BY <5>1
        <5>2. CASE \E n \in Nat : RowsOf(s)' = RowsOf(s) \cup {n} /\ n \notin DOMAIN price
          BY <5>2
        <5> QED BY <1>1, <5>1, <5>2 DEF Written
      <4> QED BY <2>2, <3>2, <4>1, <4>2 DEF Fresh
    <3> QED BY <3>1, <3>2
  <2>5. Tells(s)'
    <3>1. CASE \E n \in Nat : /\ RowsOf(s)' = RowsOf(s) \cup {n} /\ \A i \in RowsOf(s) : i < n
                              /\ price'[n] = [shop |-> s, day |-> d, amount |-> a, fallback |-> FALSE]
      <4>1. PICK n \in Nat : /\ RowsOf(s)' = RowsOf(s) \cup {n} /\ \A i \in RowsOf(s) : i < n
                             /\ price'[n] = [shop |-> s, day |-> d, amount |-> a, fallback |-> FALSE]
        BY <3>1
      <4>2. ~price'[n].fallback /\ n \in RowsOf(s)' /\ \A j \in RowsOf(s)' : j <= n
        <5>1. RowsOf(s) \subseteq Nat
          BY <2>3 DEF PricesInv, PricesTyped
        <5> QED BY <4>1, <5>1
      <4> QED BY <4>2 DEF Tells
    <3>2. CASE /\ RowsOf(s)' = RowsOf(s) /\ On(s, d) # {}
               /\ \A i \in RowsOf(s) : /\ price'[i].fallback \in {FALSE, price[i].fallback}
                                       /\ i \in On(s, d) => price'[i].fallback = FALSE
      <4>1. PICK k \in On(s, d) : k \in RowsOf(s)
        BY <3>2 DEF On
      <4>2. CASE \E i \in RowsOf(s) : ~price[i].fallback /\ \A j \in RowsOf(s) : j <= i
        BY <3>2, <4>2 DEF Tells
      <4>3. CASE \E i \in RowsOf(s) : RowsOf(s) = {i}
        <5>1. ~price'[k].fallback /\ RowsOf(s)' = {k}
          BY <3>2, <4>1, <4>3
        <5>2. k \in Nat
          BY <2>3, <4>1 DEF PricesInv, PricesTyped
        <5> QED BY <5>1, <5>2 DEF Tells
      <4> QED BY <2>1, <4>1, <4>2, <4>3 DEF ShopKept, Tells
    <3> QED BY <1>1, <3>1, <3>2 DEF Written
  <2> QED BY <2>4, <2>5 DEF ShopKept
<1> QED BY <1>5, <1>7, <1>8 DEF PricesInv

\* The other shops' rows are read and classified.
LEMMA ReadingKeeps ==
  ASSUME PricesInv, NEW w \in Saver, propagateAllFallbackPrices(w) PROVE PricesInv'
<1> DEFINE others == Shop \ {saver[w].shop}
           ins == {s \in others : RowsOf(s) = {}}
           upd == {i \in UNION {Existing(s, saver[w].day) : s \in others} : Stale(i, saver[w].day)}
<1>1. /\ saver[w].at = "read" /\ UNCHANGED <<price, told, contested>>
      /\ saver' = [saver EXCEPT ![w] = [saver[w] EXCEPT !.at = "update", !.insert = ins, !.update = upd]]
  BY DEF propagateAllFallbackPrices
<1>2. upd \subseteq DOMAIN price /\ \A i \in upd : price[i].fallback /\ price[i].day <= saver[w].day
  BY DEF Existing, On, RowsOf, Stale
<1>3. ins \subseteq Shop /\ \A s \in ins : RowsOf(s) = {}
  OBVIOUS
<1> HIDE DEF ins, upd
<1>4. DOMAIN price \subseteq Nat
  BY DEF PricesInv, PricesTyped
<1>5. saver[w] \in SaverRec /\ saver[w] # Saved
  BY <1>1, SaverFields DEF PricesInv
<1>6. PICK row : row = [saver[w] EXCEPT !.at = "update", !.insert = ins, !.update = upd]
  OBVIOUS
<1>7. /\ row \in SaverRec /\ row.at = "update" /\ row.insert = ins /\ row.update = upd
      /\ row.day = saver[w].day /\ row.amount = saver[w].amount
  BY <1>2, <1>3, <1>4, <1>5, <1>6 DEF SaverRec
<1>8. PricesTyped'
  <2>1. saver[w].day \in Day /\ saver[w].amount \in Amount
    BY <1>5 DEF PricesInv, PricesTyped
  <2> QED BY <1>1, <1>2, <1>6, <1>7, <2>1, SaversTyped DEF PricesInv, PricesTyped
<1>9. saver'[w] = row /\ \A v \in Saver \ {w} : saver'[v] = saver[v]
  BY <1>1, <1>6 DEF PricesInv, PricesTyped
<1>10. ASSUME NEW s \in Shop \ contested' PROVE ShopKept(s)'
  <2>1. ShopKept(s) /\ RowsOf(s)' = RowsOf(s)
    BY <1>1, <1>10 DEF PricesInv, RowsOf
  <2>2. Tells(s)'
    BY <1>1, <2>1 DEF ShopKept, Tells
  <2>3. ASSUME NEW v \in Saver PROVE Fresh(v, s)'
    BY <1>1, <1>2, <1>3, <1>7, <1>9, <2>1 DEF ShopKept, Fresh
  <2> QED BY <2>2, <2>3 DEF ShopKept
<1> QED BY <1>8, <1>10 DEF PricesInv

\* A save that stops leaves its targets.
LEMMA StoppingKeeps ==
  ASSUME PricesInv, NEW w \in Saver, saver' = [saver EXCEPT ![w] = Saved], UNCHANGED <<price, told, contested>>
  PROVE  PricesInv'
<1>1. PricesTyped'
  BY SaverFields, SaversTyped DEF PricesInv, PricesTyped
<1>2. ASSUME NEW s \in Shop \ contested' PROVE ShopKept(s)'
  <2>1. ShopKept(s) /\ SameShop(s) /\ told'[s] = told[s]
    BY <1>2 DEF PricesInv, SameShop, RowsOf
  <2>2. \A v \in Saver : saver'[v] = Saved \/ saver'[v] = saver[v]
    BY DEF PricesInv, PricesTyped
  <2> QED BY <2>1, <2>2, ShopUndisturbed
<1> QED BY <1>1, <1>2 DEF PricesInv

\* What the shops of a write are told.
LEMMA ToldType ==
  ASSUME PricesTyped, NEW w \in Saver, NEW shops \in SUBSET Shop, Told(shops, w), saver[w] # Saved
  PROVE  /\ told' \in [Shop -> [day : Nat, amount : Amount \cup {0}]]
         /\ \A s \in Shop : told'[s] = IF s \in shops /\ saver[w].day >= told[s].day
                                       THEN [day |-> saver[w].day, amount |-> saver[w].amount] ELSE told[s]
<1>1. saver[w].day \in Nat /\ saver[w].amount \in Amount
  BY SaverFields DEF PricesTyped
<1>2. PICK word : word = [day |-> saver[w].day, amount |-> saver[w].amount]
  OBVIOUS
<1>3. word \in [day : Nat, amount : Amount \cup {0}]
  BY <1>1, <1>2
<1>4. told' = [s \in Shop |-> IF s \in shops /\ saver[w].day >= told[s].day THEN word ELSE told[s]]
  BY <1>2 DEF Told
<1>5. told' \in [Shop -> [day : Nat, amount : Amount \cup {0}]]
  BY <1>3, <1>4 DEF PricesTyped
<1> QED BY <1>2, <1>4, <1>5

\* The fallbacks that were read are moved to the day of the receipt.
LEMMA MovingKeeps ==
  ASSUME PricesInv, NEW w \in Saver, updateFallbacks(w) PROVE PricesInv'
<1> PICK rows : rows = saver[w].update
  OBVIOUS
<1> PICK d : d = saver[w].day
  OBVIOUS
<1> PICK a : a = saver[w].amount
  OBVIOUS
<1> PICK shops : shops = {price[i].shop : i \in rows}
  OBVIOUS
<1>1. CASE saver' = [saver EXCEPT ![w] = Saved] /\ UNCHANGED <<price, told, contested>>
  BY <1>1, StoppingKeeps
<1>2. CASE /\ price' = [i \in DOMAIN price |-> IF i \in rows THEN [price[i] EXCEPT !.day = d, !.amount = a] ELSE price[i]]
           /\ saver' = [saver EXCEPT ![w].at = "insert", ![w].update = {}]
           /\ Told(shops, w) /\ Writing(w, shops)
  <2>1. saver[w] # Saved /\ saver[w] \in SaverRec
    BY SaverFields DEF updateFallbacks, PricesInv
  <2>2. d \in Day /\ a \in Amount /\ d \in Nat
    BY <2>1, SaverFields DEF PricesInv, PricesTyped
  <2>3. rows \subseteq DOMAIN price /\ DOMAIN price = 1 .. Len(price) /\ Len(price) \in Nat
        /\ \A i \in DOMAIN price : price[i] \in PriceRow
    BY DEF PricesInv, PricesTyped
  <2>4. shops \in SUBSET Shop
    BY <2>3 DEF PriceRow
  <2>5. ASSUME NEW i \in DOMAIN price
        PROVE  /\ price'[i] \in PriceRow /\ price'[i].shop = price[i].shop /\ price'[i].fallback = price[i].fallback
               /\ i \in rows => price'[i].day = d /\ price'[i].amount = a
               /\ i \notin rows => price'[i] = price[i]
    <3>1. PICK r : r = [price[i] EXCEPT !.day = d, !.amount = a]
      OBVIOUS
    <3>2. r \in PriceRow /\ r.shop = price[i].shop /\ r.fallback = price[i].fallback /\ r.day = d /\ r.amount = a
      BY <2>2, <2>3, <3>1 DEF PriceRow
    <3>3. price'[i] = IF i \in rows THEN r ELSE price[i]
      BY <1>2, <3>1
    <3> QED BY <2>3, <3>2, <3>3
  <2>6. price' \in Seq(PriceRow) /\ DOMAIN price' = DOMAIN price
    <3>1. price' \in [1 .. Len(price) -> PriceRow]
      BY <1>2, <2>3, <2>5
    <3> QED BY <2>3, <3>1
  <2>7. PICK row : row = [saver[w] EXCEPT !.at = "insert", !.update = {}]
    OBVIOUS
  <2>8. /\ row \in SaverRec /\ row.at = "insert" /\ row.update = {} /\ row.insert = saver[w].insert
        /\ row.day = d /\ row.amount = a
    BY <2>1, <2>7 DEF SaverRec
  <2>9. saver' = [saver EXCEPT ![w] = row]
    BY <1>2, <2>7
  <2>10. saver'[w] = row /\ \A v \in Saver \ {w} : saver'[v] = saver[v]
    BY <2>9 DEF PricesInv, PricesTyped
  <2>11. told' \in [Shop -> [day : Nat, amount : Amount \cup {0}]]
         /\ \A s \in Shop : told'[s] = IF s \in shops /\ d >= told[s].day THEN [day |-> d, amount |-> a] ELSE told[s]
    BY <1>2, <2>1, <2>4, ToldType DEF PricesInv
  <2>12. PricesTyped'
    BY <2>2, <2>6, <2>8, <2>9, <2>11, SaversTyped DEF PricesInv
  <2>13. \A s \in Shop : RowsOf(s)' = RowsOf(s)
    BY <2>5, <2>6 DEF RowsOf
  <2>14. ASSUME NEW s \in Shop \ contested', s \notin shops PROVE ShopKept(s)'
    <3>1. RowsOf(s) \cap rows = {} /\ RowsOf(s) \subseteq DOMAIN price
      BY <2>14 DEF RowsOf
    <3>2. SameShop(s) /\ told'[s] = told[s]
      BY <2>5, <2>11, <2>13, <2>14, <3>1 DEF SameShop
    <3>3. ShopKept(s)
      BY <1>2, <2>14, WritingOnlyAdds DEF PricesInv
    <3>4. \A v \in Saver : \/ saver'[v] = saver[v]
                           \/ saver'[v].at = "insert" /\ saver'[v].update = {} /\ saver'[v].insert = saver[v].insert
      BY <2>8, <2>10
    <3> QED BY <3>2, <3>3, <3>4, ShopUndisturbed
  <2>15. ASSUME NEW s \in Shop \ contested', s \in shops PROVE ShopKept(s)'
    <3>1. ShopKept(s)
      BY <1>2, <2>15, WritingOnlyAdds DEF PricesInv
    <3>2. PICK k \in rows : k \in RowsOf(s)
      BY <2>3, <2>15 DEF RowsOf
    <3>3. price[k].fallback /\ price[k].day <= d /\ s \notin saver[w].insert
      BY <3>1, <3>2 DEF ShopKept, Fresh
    <3>4. RowsOf(s) \subseteq DOMAIN price
      BY DEF RowsOf
    <3>5. Tells(s)'
      <4>1. CASE \E i \in RowsOf(s) : /\ RowsOf(s) = {i} /\ price[i].fallback
                                      /\ told[s] = [day |-> price[i].day, amount |-> price[i].amount]
        <5>1. RowsOf(s) = {k} /\ told[s].day = price[k].day
          BY <3>2, <4>1
        <5>2. price[k].day \in Nat
          BY <2>3, <3>2, <3>4, SaverFields DEF PriceRow, PricesInv
        <5>3. told'[s] = [day |-> d, amount |-> a]
          BY <2>2, <2>11, <2>15, <3>3, <5>1, <5>2
        <5>4. price'[k].day = d /\ price'[k].amount = a /\ price'[k].fallback
          BY <2>5, <3>2, <3>3, <3>4
        <5> QED BY <2>13, <5>1, <5>3, <5>4 DEF Tells
      <4>2. CASE \E i \in RowsOf(s) : ~price[i].fallback /\ \A j \in RowsOf(s) : j <= i
        BY <2>5, <2>13, <3>4, <4>2 DEF Tells
      <4> QED BY <3>1, <3>2, <4>1, <4>2 DEF ShopKept, Tells
    <3>6. ASSUME NEW v \in Saver PROVE Fresh(v, s)'
      <4>1. CASE v = w
        BY <2>8, <2>10, <3>3, <4>1 DEF Fresh
      <4>2. CASE v # w
        <5>1. s \notin saver[v].insert /\ saver[v].update \cap RowsOf(s) = {}
          BY <1>2, <2>4, <2>15, <4>2, AloneInWriting DEF PricesInv
        <5> QED BY <2>10, <2>13, <4>2, <5>1 DEF Fresh
      <4> QED BY <4>1, <4>2
    <3> QED BY <3>5, <3>6 DEF ShopKept
  <2> QED BY <2>12, <2>14, <2>15 DEF PricesInv
<1> QED BY <1>1, <1>2 DEF updateFallbacks

\* The shops that had no row get their first.
LEMMA FirstRowsKeep ==
  ASSUME PricesInv, NEW w \in Saver, insertFallbacks(w) PROVE PricesInv'
<1> PICK shops : shops = saver[w].insert
  OBVIOUS
<1>1. saver[w] # Saved /\ shops \in SUBSET Shop /\ saver[w].update = {}
  BY SaverFields DEF insertFallbacks, PricesInv, PricesTyped
<1>2. saver[w].day \in Day /\ saver[w].amount \in Amount
  BY <1>1 DEF PricesInv, PricesTyped
<1> PICK d \in Day : d = saver[w].day
  BY <1>2
<1> PICK a \in Amount : a = saver[w].amount
  BY <1>2
<1>3. /\ price' = Upsert(shops, d, a, TRUE) /\ saver' = [saver EXCEPT ![w] = Saved]
      /\ Told(shops, w) /\ Writing(w, shops)
  BY DEF insertFallbacks
<1>4. /\ price' \in Seq(PriceRow) /\ DOMAIN price \subseteq DOMAIN price'
      /\ \A s \in Shop \ shops : SameShop(s)
      /\ \A s \in shops : Written(s, d, a, TRUE)
  <2>1. price \in Seq(PriceRow)
    BY DEF PricesInv, PricesTyped
  <2> QED BY <1>1, <1>3, <2>1, Upserted
<1>5. told' \in [Shop -> [day : Nat, amount : Amount \cup {0}]]
      /\ \A s \in Shop : told'[s] = IF s \in shops /\ d >= told[s].day THEN [day |-> d, amount |-> a] ELSE told[s]
  BY <1>1, <1>3, ToldType DEF PricesInv
<1>6. PricesTyped'
  BY <1>3, <1>4, <1>5, SaverFields, SaversTyped DEF PricesInv
<1>7. saver'[w] = Saved /\ \A v \in Saver \ {w} : saver'[v] = saver[v]
  BY <1>3 DEF PricesInv, PricesTyped
<1>8. ASSUME NEW s \in Shop \ contested', s \notin shops PROVE ShopKept(s)'
  <2>1. ShopKept(s) /\ SameShop(s) /\ told'[s] = told[s]
    BY <1>3, <1>4, <1>5, <1>8, WritingOnlyAdds DEF PricesInv
  <2> QED BY <1>7, <2>1, ShopUndisturbed
<1>9. ASSUME NEW s \in Shop \ contested', s \in shops PROVE ShopKept(s)'
  <2>1. ShopKept(s)
    BY <1>3, <1>9, WritingOnlyAdds DEF PricesInv
  <2>2. RowsOf(s) = {} /\ told[s].day = 0
    BY <1>9, <2>1 DEF ShopKept, Fresh, Tells
  <2>3. On(s, d) = {}
    BY <2>2 DEF On
  <2>4. PICK n \in Nat : /\ RowsOf(s)' = {n} /\ n \notin DOMAIN price
                         /\ price'[n] = [shop |-> s, day |-> d, amount |-> a, fallback |-> TRUE]
    BY <1>4, <1>9, <2>2, <2>3 DEF Written
  <2>5. told'[s] = [day |-> d, amount |-> a]
    <3>1. d \in Nat
      BY SaverFields DEF PricesInv
    <3> QED BY <1>5, <1>9, <2>2, <3>1
  <2>6. price'[n].day = d /\ price'[n].amount = a /\ price'[n].fallback
    BY <2>4
  <2>7. Tells(s)'
    BY <2>4, <2>5, <2>6 DEF Tells
  <2>8. ASSUME NEW v \in Saver PROVE Fresh(v, s)'
    <3>1. CASE v = w
      BY <1>7, <3>1, SaverFields DEF Fresh, PricesInv
    <3>2. CASE v # w
      <4>1. s \notin saver[v].insert /\ saver[v].update \subseteq DOMAIN price
        BY <1>1, <1>3, <1>9, <3>2, AloneInWriting DEF PricesInv, PricesTyped
      <4> QED BY <1>7, <2>4, <3>2, <4>1 DEF Fresh
    <3> QED BY <3>1, <3>2
  <2> QED BY <2>7, <2>8 DEF ShopKept
<1> QED BY <1>6, <1>8, <1>9 DEF PricesInv

\* No price is stored at the start.
LEMMA PricesStart == PricesInit => PricesInv
<1> SUFFICES ASSUME PricesInit PROVE PricesInv
  OBVIOUS
<1>1. price = <<>> /\ DOMAIN price = {} /\ price \in Seq(PriceRow)
  BY DEF PricesInit
<1>2. saver \in [Saver -> SaverRec] /\ \A w \in Saver : saver[w] = Saved
  BY DEF PricesInit, SaverRec, Saved
<1>3. Saved.at = "saved" /\ Saved.update = {} /\ Saved.insert = {}
  BY DEF Saved
<1>4. told \in [Shop -> [day : Nat, amount : Amount \cup {0}]] /\ \A s \in Shop : told[s].day = 0
  BY DEF PricesInit
<1>5. PricesTyped
  BY <1>1, <1>2, <1>3, <1>4 DEF PricesTyped
<1>6. ASSUME NEW s \in Shop PROVE ShopKept(s)
  <2>1. RowsOf(s) = {}
    BY <1>1 DEF RowsOf
  <2> QED BY <1>2, <1>3, <1>4, <2>1 DEF ShopKept, Tells, Fresh
<1> QED BY <1>5, <1>6 DEF PricesInv

\* Every step keeps the invariant.
LEMMA PricesStep == PricesInv /\ [PricesNext]_priceVars => PricesInv'
<1> SUFFICES ASSUME PricesInv, [PricesNext]_priceVars PROVE PricesInv'
  OBVIOUS
<1>1. CASE UNCHANGED priceVars
  BY <1>1 DEF priceVars, PricesInv, PricesTyped, ShopKept, Tells, Fresh, RowsOf
<1>2. ASSUME NEW w \in Saver, Drop(w) PROVE PricesInv'
  BY <1>2, StoppingKeeps DEF Drop
<1> QED BY <1>1, <1>2, ReceiptKeeps, ReadingKeeps, MovingKeeps, FirstRowsKeep DEF PricesNext

\* A shop shows a price of its own if it has one and otherwise the newest it was told, in one
\* row, for any shops of a chain, prices and number of receipts saved at the same time.
THEOREM PricesAreKept == PricesSpec => []NewestPriceWins
<1>1. PricesInv => NewestPriceWins
  <2> SUFFICES ASSUME PricesInv, NEW s \in Shop \ contested, RowsOf(s) # {}
               PROVE  IF \E i \in RowsOf(s) : ~price[i].fallback
                      THEN ~price[Shown(s)].fallback
                      ELSE /\ RowsOf(s) = {Shown(s)}
                           /\ told[s] = [day |-> price[Shown(s)].day, amount |-> price[Shown(s)].amount]
    BY DEF NewestPriceWins
  <2>1. Tells(s) /\ RowsOf(s) \subseteq Nat
    BY DEF PricesInv, ShopKept, PricesTyped, RowsOf
  <2>2. CASE \E i \in RowsOf(s) : /\ RowsOf(s) = {i} /\ price[i].fallback
                                  /\ told[s] = [day |-> price[i].day, amount |-> price[i].amount]
    <3>1. PICK i \in RowsOf(s) : /\ RowsOf(s) = {i} /\ price[i].fallback
                                 /\ told[s] = [day |-> price[i].day, amount |-> price[i].amount]
      BY <2>2
    <3>2. Shown(s) = i
      BY <2>1, <3>1 DEF Shown
    <3> QED BY <3>1, <3>2
  <2>3. CASE \E i \in RowsOf(s) : ~price[i].fallback /\ \A j \in RowsOf(s) : j <= i
    <3>1. PICK i \in RowsOf(s) : ~price[i].fallback /\ \A j \in RowsOf(s) : j <= i
      BY <2>3
    <3>2. Shown(s) \in RowsOf(s) /\ \A j \in RowsOf(s) : j <= Shown(s)
      BY <3>1 DEF Shown
    <3>3. Shown(s) = i
      BY <2>1, <3>1, <3>2
    <3> QED BY <3>1, <3>3
  <2> QED BY <2>1, <2>2, <2>3 DEF Tells
<1> QED BY <1>1, PricesStart, PricesStep, PTL DEF PricesSpec

-----------------------------------------------------------------------------
(* A receipt's lines: what a heal has read of them has the same places and   *)
(* stands as the lines do, and each line has at most one row of prices.      *)

\* The lines of a receipt and the rows of its prices.
Candidate == [sp : Product, strong : BOOLEAN]
Answer == [said : {"nothing", "yes", "no"}, sp : Nat, crossed : BOOLEAN]
LineRow == [root : Nat \ {0}, sp : Product \cup {0}, confirmed : BOOLEAN, value : Nat,
            implausible : BOOLEAN, alts : Seq(Candidate), answer : Answer]
PriceRec == [owner : Nat, value : Nat, verified : BOOLEAN]
Rows == [Product -> PriceRec]

\* AnswersStand for one line.
Stands(l) ==
  ~l.answer.crossed => /\ l.answer.said = "yes" => l.sp = l.answer.sp /\ l.confirmed /\ l.sp # 0
                       /\ l.answer.said = "no" => ~(l.sp = l.answer.sp /\ l.confirmed)

\* A line's id is one of the places of the receipt, and its own.
Rooted(lines) ==
  /\ \A k \in DOMAIN lines : lines[k].root \in 1 .. Len(lines)
  /\ \A j, k \in DOMAIN lines : lines[j].root = lines[k].root => j = k

\* No line owns two rows.
OneRowEach(rows) ==
  \A p, q \in Product : rows[p].owner = rows[q].owner /\ rows[p].owner # 0 => p = q

\* The lines are consistent, one by one.
Standing(lines) == lines \in Seq(LineRow) /\ \A k \in DOMAIN lines : Stands(lines[k])

\* The invariant: lines, rows and a heal's retake, which has the places of the
\* lines it read.
LinesInv ==
  /\ Standing(items) /\ Rooted(items)
  /\ observed \in Rows /\ OneRowEach(observed)
  /\ retake # NoRetake =>
       /\ Standing(retake) /\ Len(retake) = Len(items)
       /\ \A k \in DOMAIN retake : retake[k].root = items[k].root

-----------------------------------------------------------------------------
\* The rows that createPrice, Unverified, MoveRow and Reprice leave.
SameOwners(r, rows) == \A p \in Product : r[p].owner = rows[p].owner

\* Products are numbers, 0 none of them.
LEMMA ProductNumbers == 0 \notin Product /\ \A p \in Product \cup {0} : p \in Nat
<1>1. \A p \in Product : p \in Nat \ {0}
  BY ReceiptAssumption
<1> QED BY <1>1

\* What the updates do to the columns of a price.
LEMMA PriceEdits ==
  ASSUME NEW r \in PriceRec, NEW v \in Nat, NEW b \in BOOLEAN
  PROVE  /\ [r EXCEPT !.verified = b] = [owner |-> r.owner, value |-> r.value, verified |-> b]
         /\ [r EXCEPT !.value = v, !.verified = b] = [owner |-> r.owner, value |-> v, verified |-> b]
<1>1. PICK s : s = [r EXCEPT !.verified = b]
  OBVIOUS
<1>2. PICK t : t = [r EXCEPT !.value = v, !.verified = b]
  OBVIOUS
<1>3. s \in PriceRec /\ t \in PriceRec
  BY <1>1, <1>2 DEF PriceRec
<1>4. s.owner = r.owner /\ s.value = r.value /\ s.verified = b /\ t.owner = r.owner /\ t.value = v /\ t.verified = b
  BY <1>1, <1>2 DEF PriceRec
<1>5. \A u \in PriceRec : u = [owner |-> u.owner, value |-> u.value, verified |-> u.verified]
  BY DEF PriceRec
<1> QED BY <1>1, <1>2, <1>3, <1>4, <1>5

\* Where no owner changes, none owns two rows.
LEMMA OwnersKept ==
  ASSUME NEW rows, OneRowEach(rows), NEW r, SameOwners(r, rows)
  PROVE  OneRowEach(r)
  BY DEF OneRowEach, SameOwners

\* A new row for a line that had none,
LEMMA CreateKeeps ==
  ASSUME NEW rows \in Rows, OneRowEach(rows), NEW p \in Product, NEW root \in Nat \ {0},
         NEW value \in Nat, NEW verified \in BOOLEAN, \A q \in Product : rows[q].owner # root
  PROVE  /\ createPrice(rows, p, root, value, verified) \in Rows
         /\ OneRowEach(createPrice(rows, p, root, value, verified))
         /\ createPrice(rows, p, root, value, verified)[p].verified = verified
         /\ \A q \in Product \ {p} : createPrice(rows, p, root, value, verified)[q] = rows[q]
         /\ \A q \in Product : createPrice(rows, p, root, value, verified)[q].owner \in {root, rows[q].owner}
<1> DEFINE row == [owner |-> IF rows[p].owner = 0 THEN root ELSE rows[p].owner,
                   value |-> value, verified |-> verified]
<1>1. row \in PriceRec /\ row.verified = verified /\ row.owner \in {root, rows[p].owner}
      /\ (rows[p].owner # 0 => row.owner = rows[p].owner)
  BY DEF Rows, PriceRec
<1>2. createPrice(rows, p, root, value, verified) = [rows EXCEPT ![p] = row]
  BY DEF createPrice
<1> HIDE DEF row
<1>3. [rows EXCEPT ![p] = row] \in Rows
  BY <1>1 DEF Rows
<1>4. OneRowEach([rows EXCEPT ![p] = row])
  BY <1>1 DEF Rows, OneRowEach
<1> QED BY <1>1, <1>2, <1>3, <1>4 DEF Rows

\* and rows that lose their verification, keep the owners.
LEMMA UnverifiedKeeps ==
  ASSUME NEW rows \in Rows, NEW ps
  PROVE  /\ Unverified(rows, ps) \in Rows /\ SameOwners(Unverified(rows, ps), rows)
         /\ \A p \in Product : /\ Unverified(rows, ps)[p].value = rows[p].value
                               /\ p \in ps => ~Unverified(rows, ps)[p].verified
                               /\ p \notin ps => Unverified(rows, ps)[p] = rows[p]
<1>1. \A p \in Product : rows[p] \in PriceRec
  BY DEF Rows
<1>2. \A p \in Product : [rows[p] EXCEPT !.verified = FALSE] = [owner |-> rows[p].owner, value |-> rows[p].value, verified |-> FALSE]
  BY <1>1, PriceEdits
<1>3. \A p \in Product : Unverified(rows, ps)[p] = IF p \in ps THEN [owner |-> rows[p].owner, value |-> rows[p].value, verified |-> FALSE] ELSE rows[p]
  BY <1>2 DEF Unverified
<1>4. Unverified(rows, ps) \in Rows
  BY <1>1, <1>3 DEF Unverified, Rows, PriceRec
<1>5. ASSUME NEW p \in Product
      PROVE  /\ Unverified(rows, ps)[p].owner = rows[p].owner
             /\ Unverified(rows, ps)[p].value = rows[p].value
             /\ p \in ps => ~Unverified(rows, ps)[p].verified
             /\ p \notin ps => Unverified(rows, ps)[p] = rows[p]
  <2>1. CASE p \in ps
    <3>1. PICK u : u = [owner |-> rows[p].owner, value |-> rows[p].value, verified |-> FALSE]
      OBVIOUS
    <3>2. Unverified(rows, ps)[p] = u
      BY <1>3, <2>1, <3>1
    <3> QED BY <2>1, <3>1, <3>2
  <2>2. CASE p \notin ps
    BY <1>3, <2>2
  <2> QED BY <2>1, <2>2
<1> QED BY <1>4, <1>5 DEF SameOwners

\* A row that a line owns is its only one.
LEMMA RepriceKeeps ==
  ASSUME NEW rows \in Rows, NEW l \in LineRow, NEW value \in Nat
  PROVE  /\ Reprice(rows, l, value) \in Rows /\ SameOwners(Reprice(rows, l, value), rows)
         /\ \A p \in Product :
              /\ rows[p].owner # l.root => Reprice(rows, l, value)[p] = rows[p]
              /\ Reprice(rows, l, value)[p].verified => rows[p].verified
              /\ Reprice(rows, l, value)[p].verified /\ rows[p].owner = l.root => value \in {l.value, 0}
<1>1. \A p \in Product : rows[p] \in PriceRec
  BY DEF Rows
<1>2. \A p \in Product : [rows[p] EXCEPT !.value = value, !.verified = FALSE]
                           = [owner |-> rows[p].owner, value |-> value, verified |-> FALSE]
  BY <1>1, PriceEdits
<1>3. CASE value = l.value \/ value = 0
  BY <1>3 DEF Reprice, SameOwners
<1>4. CASE ~(value = l.value \/ value = 0)
  <2>1. \A p \in Product : Reprice(rows, l, value)[p] =
           IF rows[p].owner = l.root THEN [owner |-> rows[p].owner, value |-> value, verified |-> FALSE] ELSE rows[p]
    BY <1>2, <1>4 DEF Reprice
  <2>2. Reprice(rows, l, value) \in Rows
    BY <1>1, <1>4, <2>1 DEF Reprice, Rows, PriceRec
  <2>3. ASSUME NEW p \in Product
        PROVE  /\ Reprice(rows, l, value)[p].owner = rows[p].owner
               /\ rows[p].owner # l.root => Reprice(rows, l, value)[p] = rows[p]
               /\ rows[p].owner = l.root => ~Reprice(rows, l, value)[p].verified
    <3>1. CASE rows[p].owner = l.root
      <4>1. PICK u : u = [owner |-> rows[p].owner, value |-> value, verified |-> FALSE]
        OBVIOUS
      <4>2. Reprice(rows, l, value)[p] = u
        BY <2>1, <3>1, <4>1
      <4> QED BY <3>1, <4>1, <4>2
    <3>2. CASE rows[p].owner # l.root
      BY <2>1, <3>2
    <3> QED BY <3>1, <3>2
  <2> QED BY <2>2, <2>3 DEF SameOwners
<1> QED BY <1>3, <1>4

\* The rows of a relinked line: none that it had is verified, unless it has left
\* it, and no other line's changes but for a price that is not verified.
LEMMA MoveKeeps ==
  ASSUME observed \in Rows, OneRowEach(observed), NEW l \in LineRow, NEW sp \in Product \cup {0}, NEW value \in Nat
  PROVE  /\ MoveRow(l, sp, value) \in Rows /\ OneRowEach(MoveRow(l, sp, value))
         /\ \A p \in Product : MoveRow(l, sp, value)[p].verified => MoveRow(l, sp, value)[p] = observed[p]
         /\ \A p \in Product : observed[p].owner = l.root => ~MoveRow(l, sp, value)[p].verified
<1> PICK own : own = OwnRows(l)
  OBVIOUS
<1>1. l.root \in Nat \ {0} /\ own \subseteq Product /\ \A p \in Product : p \in own <=> observed[p].owner = l.root
  BY DEF LineRow, OwnRows
<1> PICK unv : unv = Unverified(observed, own)
  OBVIOUS
<1>2. /\ unv \in Rows /\ OneRowEach(unv)
      /\ \A p \in Product : unv[p].verified => unv[p] = observed[p]
      /\ \A p \in Product : observed[p].owner = l.root => ~unv[p].verified
  BY <1>1, UnverifiedKeeps, OwnersKept
<1>3. CASE sp = 0
  BY <1>2, <1>3 DEF MoveRow
<1>4. CASE sp # 0 /\ own = {}
  <2>1. \A p \in Product : observed[p].owner # l.root
    BY <1>1, <1>4
  <2>2. MoveRow(l, sp, value) = IF value > 0 THEN createPrice(observed, sp, l.root, value, FALSE) ELSE observed
    BY <1>4 DEF MoveRow
  <2>3. CASE value > 0
    <3>1. MoveRow(l, sp, value) = createPrice(observed, sp, l.root, value, FALSE)
      BY <2>2, <2>3
    <3>2. PICK root, b, r : root = l.root /\ b = FALSE /\ r = createPrice(observed, sp, root, value, b)
      OBVIOUS
    <3>3. sp \in Product
      BY <1>4
    <3>4. /\ r \in Rows /\ OneRowEach(r) /\ ~r[sp].verified
          /\ \A q \in Product \ {sp} : r[q] = observed[q]
      <4>1. /\ root \in Nat \ {0} /\ b \in BOOLEAN /\ ~b /\ \A q \in Product : observed[q].owner # root
        BY <1>1, <2>1, <3>2
      <4>2. r \in Rows /\ OneRowEach(r) /\ r[sp].verified = b /\ \A q \in Product \ {sp} : r[q] = observed[q]
        BY <3>2, <3>3, <4>1, CreateKeeps
      <4> QED BY <4>1, <4>2
    <3> QED BY <2>1, <3>1, <3>2, <3>4
  <2> QED BY <2>1, <2>2, <2>3
<1>5. CASE sp # 0 /\ own # {}
  <2>1. PICK p \in own : p = CHOOSE q \in own : TRUE
    BY <1>5
  <2>2. CASE p = sp \/ observed[sp].owner # 0
    BY <1>2, <1>5, <2>1, <2>2 DEF MoveRow
  <2>3. CASE p # sp /\ observed[sp].owner = 0
    <3>1. PICK row : row = [observed[p] EXCEPT !.verified = FALSE]
      OBVIOUS
    <3>2. row \in PriceRec /\ row.owner = l.root /\ ~row.verified
      BY <1>1, <3>1 DEF Rows, PriceRec
    <3>3. NoRow \in PriceRec /\ NoRow.owner = 0 /\ ~NoRow.verified
      BY DEF NoRow, PriceRec
    <3>4. PICK r : r = [observed EXCEPT ![p] = NoRow, ![sp] = row]
      OBVIOUS
    <3>5. r = MoveRow(l, sp, value)
      <4> DEFINE c == CHOOSE q \in OwnRows(l) : TRUE
      <4>1. c = p /\ OwnRows(l) # {}
        BY <1>5, <2>1
      <4>2. ~(c = sp \/ observed[sp].owner # 0)
        BY <2>3, <4>1
      <4>3. MoveRow(l, sp, value) = [observed EXCEPT ![c] = NoRow, ![sp] = [observed[c] EXCEPT !.verified = FALSE]]
        BY <1>5, <4>1, <4>2, Zenon DEF MoveRow
      <4> HIDE DEF c
      <4> QED BY <3>1, <3>4, <4>1, <4>3, Zenon
    <3>6. p \in Product /\ sp \in Product
      BY <1>1, <1>5
    <3>7. r[p] = NoRow /\ r[sp] = row /\ r \in Rows /\ \A q \in Product \ {p, sp} : r[q] = observed[q]
      BY <2>3, <3>2, <3>3, <3>4, <3>6 DEF Rows
    <3>8. \A q \in Product \ {p} : observed[q].owner # l.root
      BY <1>1, <3>6 DEF OneRowEach
    <3>9. OneRowEach(r)
      BY <3>2, <3>3, <3>7, <3>8 DEF OneRowEach
    <3> QED BY <3>2, <3>3, <3>5, <3>7, <3>8, <3>9
  <2> QED BY <2>2, <2>3
<1> QED BY <1>3, <1>4, <1>5
-----------------------------------------------------------------------------
\* LeftRowsAreUnverified, for one step.
Left ==
  \A p \in Product, k \in DOMAIN items :
    Carries(p, k) /\ ~Carries(p, k)' /\ observed'[p].verified => items'[k].confirmed \/ items'[k].value = 0

\* The rows other lines own: verified only as they are.
OthersSpared(root) ==
  \A p \in Product : observed[p].owner # root /\ observed'[p].verified =>
    observed'[p].owner = observed[p].owner /\ observed'[p].value = observed[p].value

\* No row changes its line or its value.
SameRows == \A p \in Product : observed'[p].owner = observed[p].owner /\ observed'[p].value = observed[p].value

\* The columns of a line.
LEMMA LineFields ==
  ASSUME LinesInv, NEW k \in DOMAIN items
  PROVE  /\ items[k] \in LineRow /\ Stands(items[k])
         /\ items[k].root \in Nat \ {0} /\ items[k].sp \in Product \cup {0} /\ items[k].value \in Nat
         /\ items[k].confirmed \in BOOLEAN /\ items[k].implausible \in BOOLEAN
         /\ items[k].alts \in Seq(Candidate) /\ items[k].answer \in Answer
<1>1. items[k] \in LineRow /\ Stands(items[k])
  BY DEF LinesInv, Standing
<1> QED BY <1>1 DEF LineRow

\* One line changes, and rows with it.
LEMMA LineChanges ==
  ASSUME LinesInv, NEW k \in DOMAIN items, NEW l \in LineRow, l.root = items[k].root, Stands(l),
         items' = [items EXCEPT ![k] = l], retake' = retake, observed' \in Rows, OneRowEach(observed')
  PROVE  LinesInv'
<1>1. items \in Seq(LineRow) /\ DOMAIN items = 1 .. Len(items)
  BY DEF LinesInv, Standing
<1>2. items' \in Seq(LineRow) /\ Len(items') = Len(items) /\ DOMAIN items' = DOMAIN items
      /\ items'[k] = l /\ \A j \in DOMAIN items \ {k} : items'[j] = items[j]
  BY <1>1
<1>3. \A j \in DOMAIN items : items'[j].root = items[j].root
  BY <1>2
<1>4. Standing(items)'
  BY <1>2 DEF LinesInv, Standing
<1>5. Rooted(items)'
  BY <1>2, <1>3 DEF LinesInv, Rooted
<1>6. retake # NoRetake =>
        /\ Standing(retake) /\ Len(retake) = Len(items)
        /\ \A j \in DOMAIN retake : j \in DOMAIN items /\ retake[j].root = items[j].root
  BY <1>1 DEF LinesInv, Standing
<1> QED BY <1>2, <1>3, <1>4, <1>5, <1>6 DEF LinesInv, Standing

\* A step on the rows only.
LEMMA RowsChange ==
  ASSUME LinesInv, items' = items, retake' \in {retake, NoRetake}, observed' \in Rows, OneRowEach(observed')
  PROVE  LinesInv'
  BY DEF LinesInv, Standing, Rooted

\* What a line leaves behind.
LEMMA LeftByOne ==
  ASSUME LinesInv, NEW k \in DOMAIN items, NEW l \in LineRow, l.root = items[k].root,
         items' = [items EXCEPT ![k] = l], OthersSpared(l.root),
         \A p \in Product : Carries(p, k) /\ observed'[p].verified =>
           \/ l.confirmed \/ l.value = 0
           \/ observed'[p].owner = l.root /\ l.sp = p /\ l.value = observed'[p].value
  PROVE  Left
<1> SUFFICES ASSUME NEW p \in Product, NEW j \in DOMAIN items,
                    Carries(p, j), ~Carries(p, j)', observed'[p].verified
             PROVE  items'[j].confirmed \/ items'[j].value = 0
  BY DEF Left
<1>1. items'[k] = l
  BY DEF LinesInv, Standing
<1>2. CASE j = k
  BY <1>1, <1>2 DEF Carries
<1>3. CASE j # k
  <2>1. items'[j] = items[j] /\ items[j].root # l.root
    BY <1>3 DEF LinesInv, Standing, Rooted
  <2>2. observed'[p].owner = observed[p].owner /\ observed'[p].value = observed[p].value
    BY <2>1 DEF Carries, OthersSpared
  <2> QED BY <2>1, <2>2 DEF Carries
<1> QED BY <1>2, <1>3

\* Where no row changes hands, none is left behind.
LEMMA LeftByNone ==
  ASSUME items' = items, SameRows
  PROVE  Left
  BY DEF Left, Carries, SameRows

\* Rows that are verified or not verified any more are owned as they were.
LEMMA Verifying ==
  ASSUME LinesInv, NEW ps, NEW b \in BOOLEAN,
         observed' = [p \in Product |-> IF p \in ps THEN [observed[p] EXCEPT !.verified = b] ELSE observed[p]]
  PROVE  observed' \in Rows /\ OneRowEach(observed') /\ SameRows
<1>1. \A p \in Product : observed[p] \in PriceRec
  BY DEF LinesInv, Rows
<1>2. \A p \in Product : observed'[p] = IF p \in ps THEN [owner |-> observed[p].owner, value |-> observed[p].value, verified |-> b]
                                        ELSE observed[p]
  BY <1>1, PriceEdits DEF PriceRec
<1>3. \A p \in Product : observed'[p] \in PriceRec
  BY <1>1, <1>2 DEF PriceRec
<1>4. observed' \in Rows
  BY <1>3 DEF Rows
<1>5. ASSUME NEW p \in Product
      PROVE  observed'[p].owner = observed[p].owner /\ observed'[p].value = observed[p].value
  <2>1. CASE p \in ps
    <3>1. PICK u : u = [owner |-> observed[p].owner, value |-> observed[p].value, verified |-> b]
      OBVIOUS
    <3>2. observed'[p] = u
      BY <1>2, <2>1, <3>1
    <3> QED BY <3>1, <3>2
  <2>2. CASE p \notin ps
    BY <1>2, <2>2
  <2> QED BY <2>1, <2>2
<1>6. SameRows /\ SameOwners(observed', observed)
  BY <1>5 DEF SameRows, SameOwners
<1> QED BY <1>4, <1>6, OwnersKept DEF LinesInv
-----------------------------------------------------------------------------
\* The answers.
LEMMA ConfirmKeeps == ASSUME LinesInv, NEW k \in DOMAIN items, confirmLine(k) PROVE LinesInv' /\ Left
<1>1. /\ Linked(items[k]) /\ retake' = retake
      /\ items' = [items EXCEPT ![k] = [items[k] EXCEPT !.confirmed = TRUE, !.answer = Said("yes", items[k].sp)]]
  BY DEF confirmLine, Put, Rest
<1> PICK u : u = [items[k] EXCEPT !.confirmed = TRUE, !.answer = Said("yes", items[k].sp)]
  OBVIOUS
<1>2. Said("yes", items[k].sp) \in Answer /\ Said("yes", items[k].sp).sp = items[k].sp
      /\ Said("yes", items[k].sp).said = "yes"
  BY LineFields, ReceiptAssumption DEF Said, Answer
<1>3. u \in LineRow /\ u.root = items[k].root /\ u.confirmed /\ u.sp = items[k].sp /\ u.answer = Said("yes", items[k].sp)
  BY <1>2, LineFields DEF LineRow
<1>4. Stands(u)
  BY <1>1, <1>2, <1>3 DEF Stands, Linked
<1>5. items' = [items EXCEPT ![k] = u]
  BY <1>1
<1>6. observed' \in Rows /\ OneRowEach(observed') /\ SameRows
  <2>1. CASE items[k].implausible
    <3>1. observed' = observed
      BY <2>1 DEF confirmLine
    <3> QED BY <3>1 DEF LinesInv, SameRows
  <2>2. CASE ~items[k].implausible
    <3>1. PICK ps : ps = {p \in Product : observed[p].owner \in LinesNaming(items[k].sp)}
      OBVIOUS
    <3>2. observed' = [p \in Product |-> IF observed[p].owner \in LinesNaming(items[k].sp)
                                         THEN [observed[p] EXCEPT !.verified = TRUE] ELSE observed[p]]
      BY <2>2 DEF confirmLine
    <3>3. observed' = [p \in Product |-> IF p \in ps THEN [observed[p] EXCEPT !.verified = TRUE] ELSE observed[p]]
      BY <3>1, <3>2
    <3> QED BY <3>3, Verifying
  <2> QED BY <2>1, <2>2
<1>7. LinesInv'
  BY <1>1, <1>3, <1>4, <1>5, <1>6, LineChanges
<1>8. Left
  BY <1>3, <1>5, <1>6, LeftByOne DEF SameRows, OthersSpared
<1> QED BY <1>7, <1>8

\* Linking a proposal keeps the invariant,
LEMMA LinkKeeps ==
  ASSUME LinesInv, NEW k \in DOMAIN items, NEW p \in Product, linkProposal(k, p) PROVE LinesInv' /\ Left
<1>1. PICK q \in Product :
        items' = [items EXCEPT ![k] = [items[k] EXCEPT !.sp = q, !.confirmed = TRUE, !.answer = Said("yes", q)]]
  BY DEF linkProposal, Put, Own
<1>2. items[k].sp = 0 /\ retake' = retake /\ observed' = observed
  BY DEF linkProposal, Proposes, Linked, Rest
<1> PICK u : u = [items[k] EXCEPT !.sp = q, !.confirmed = TRUE, !.answer = Said("yes", q)]
  OBVIOUS
<1>3. Said("yes", q) \in Answer /\ Said("yes", q).sp = q /\ Said("yes", q).said = "yes" /\ q # 0
  BY ReceiptAssumption DEF Said, Answer
<1>4. u \in LineRow /\ u.root = items[k].root /\ u.confirmed /\ u.sp = q /\ u.answer = Said("yes", q)
  BY <1>3, LineFields DEF LineRow
<1>5. Stands(u)
  BY <1>3, <1>4 DEF Stands
<1>6. LinesInv'
  BY <1>1, <1>2, <1>4, <1>5, LineChanges DEF LinesInv
<1>7. Left
  BY <1>1, <1>2, <1>4, LeftByOne DEF OthersSpared
<1> QED BY <1>6, <1>7

\* as does refusing one,
LEMMA RefuseKeeps ==
  ASSUME LinesInv, NEW k \in DOMAIN items, NEW p \in Product, rejectProposal(k, p) PROVE LinesInv' /\ Left
<1>1. items' = [items EXCEPT ![k] = [items[k] EXCEPT !.answer = Said("no", p)]]
  BY DEF rejectProposal, Put
<1>2. items[k].sp = 0 /\ retake' = retake /\ observed' = observed
  BY DEF rejectProposal, Proposes, Linked, Rest
<1> PICK u : u = [items[k] EXCEPT !.answer = Said("no", p)]
  OBVIOUS
<1>3. Said("no", p) \in Answer /\ Said("no", p).sp = p /\ Said("no", p).said = "no" /\ p # 0
  BY ReceiptAssumption DEF Said, Answer
<1>4. u \in LineRow /\ u.root = items[k].root /\ u.sp = 0 /\ u.answer = Said("no", p) /\ u.value = items[k].value
  BY <1>2, <1>3, LineFields DEF LineRow
<1>5. Stands(u)
  BY <1>3, <1>4 DEF Stands
<1>6. LinesInv'
  BY <1>1, <1>2, <1>4, <1>5, LineChanges DEF LinesInv
<1>7. Left
  <2>1. \A q \in Product : ~Carries(q, k)
    BY <1>2, ReceiptAssumption DEF Carries
  <2>2. OthersSpared(u.root)
    BY <1>2 DEF OthersSpared
  <2> QED BY <1>1, <1>4, <2>1, <2>2, LeftByOne
<1> QED BY <1>6, <1>7

\* The first of the other strong candidates is one of them.
LEMMA RunnerUp ==
  ASSUME NEW alts \in Seq(Candidate), NEW taken,
         NEW rs, rs = {i \in DOMAIN alts : alts[i].strong /\ alts[i].sp \notin taken}, rs # {}
  PROVE  alts[Min(rs)].sp \in Product \ taken
<1>1. rs \subseteq Nat
  OBVIOUS
<1>2. \E n \in rs : \A m \in rs : n <= m
  BY <1>1, LeastNumber
<1>3. Min(rs) \in rs
  BY <1>2 DEF Min
<1>4. PICK i : i = Min(rs)
  OBVIOUS
<1>5. i \in DOMAIN alts /\ alts[i].sp \notin taken
  BY <1>3, <1>4
<1>6. alts[i] \in Candidate
  BY <1>5
<1> QED BY <1>4, <1>5, <1>6 DEF Candidate

\* a demotion,
LEMMA DemotionKeeps ==
  ASSUME LinesInv, NEW k \in DOMAIN items, NEW rejected \in Product, Linked(items[k]), applyDemotion(k, rejected)
  PROVE  LinesInv' /\ Left
<1> PICK l \in LineRow : l = items[k]
  BY LineFields
<1> PICK rs : rs = {i \in DOMAIN l.alts : l.alts[i].strong /\ l.alts[i].sp \notin {rejected, l.sp}}
  OBVIOUS
<1>1. Said("no", l.sp) \in Answer /\ Said("no", l.sp).sp = l.sp /\ Said("no", l.sp).said = "no"
  <2>1. l.sp \in Product \cup {0}
    BY LineFields
  <2>2. l.sp \in Nat
    BY ONLY <2>1, ProductNumbers
  <2> QED BY <2>2 DEF Said, Answer
<1>2. l.sp \in Product /\ l.sp # 0 /\ l.root \in Nat \ {0} /\ l.value \in Nat
  BY LineFields DEF Linked
<1>3. retake' = retake
  BY DEF applyDemotion, Rest
<1>4. CASE rs # {} /\ l.alts[Min(rs)].sp \in Own
  <2> PICK q : q = l.alts[Min(rs)].sp
    OBVIOUS
  <2>1. q \in Product \ {rejected, l.sp}
    <3>1. PICK taken : taken = {rejected, l.sp}
      OBVIOUS
    <3>2. PICK alts \in Seq(Candidate) : alts = l.alts
      BY LineFields
    <3>3. rs = {i \in DOMAIN alts : alts[i].strong /\ alts[i].sp \notin taken}
      BY <3>1, <3>2
    <3>4. alts[Min(rs)].sp \in Product \ taken
      BY <1>4, <3>3, RunnerUp
    <3> QED BY <3>1, <3>2, <3>4
  <2> PICK no : no = [l EXCEPT !.answer = Said("no", l.sp)]
    OBVIOUS
  <2> PICK u : u = [no EXCEPT !.sp = q, !.confirmed = TRUE]
    OBVIOUS
  <2>2. no \in LineRow /\ no.root = l.root /\ no.answer = Said("no", l.sp)
    BY <1>1 DEF LineRow
  <2>3. u \in LineRow /\ u.root = l.root /\ u.answer = Said("no", l.sp) /\ u.sp = q /\ u.confirmed
    <3> PICK line \in LineRow : line = no
      BY <2>2
    <3>1. u = [line EXCEPT !.sp = q, !.confirmed = TRUE] /\ q \in Product
      BY <2>1
    <3>2. u \in LineRow /\ u.root = line.root /\ u.answer = line.answer /\ u.sp = q /\ u.confirmed
      BY ONLY <3>1, line \in LineRow DEF LineRow
    <3> QED BY <2>2, <3>2
  <2>4. Stands(u)
    BY <1>1, <2>1, <2>3 DEF Stands
  <2>5. items' = [items EXCEPT ![k] = u] /\ observed' = observed
    BY <1>4 DEF applyDemotion, Put
  <2>6. LinesInv'
    BY <1>3, <2>3, <2>4, <2>5, LineChanges DEF LinesInv
  <2>7. Left
    BY <2>3, <2>5, LeftByOne DEF OthersSpared
  <2> QED BY <2>6, <2>7
<1>5. CASE ~(rs # {} /\ l.alts[Min(rs)].sp \in Own)
  <2> PICK no, u : no = [l EXCEPT !.answer = Said("no", l.sp)] /\ u = [no EXCEPT !.sp = 0, !.confirmed = FALSE]
    OBVIOUS
  <2>1. no \in LineRow /\ no.root = l.root /\ no.answer = Said("no", l.sp) /\ no.value = l.value
    BY <1>1 DEF LineRow
  <2>2. u \in LineRow /\ u.root = l.root /\ u.answer = Said("no", l.sp) /\ u.sp = 0 /\ u.value = l.value
    BY <2>1 DEF LineRow
  <2>3. Stands(u)
    BY <1>1, <1>2, <2>2 DEF Stands
  <2>4. items' = [items EXCEPT ![k] = u] /\ observed' = ClearUnverifies(l)
    BY <1>5 DEF applyDemotion, Put
  <2> PICK ps : ps = {p \in Product : observed[p].owner \in LinesNaming(l.sp)}
    OBVIOUS
  <2>5. observed' = IF l.value > 0 THEN Unverified(observed, ps) ELSE observed
    BY <2>4 DEF ClearUnverifies
  <2>6. /\ observed' \in Rows /\ OneRowEach(observed') /\ SameRows
        /\ l.value > 0 => \A p \in ps : ~observed'[p].verified
    BY <2>5, UnverifiedKeeps, OwnersKept DEF LinesInv, SameRows, SameOwners
  <2>7. l.root \in LinesNaming(l.sp)
    BY DEF LinesNaming
  <2>8. \A p \in Product : Carries(p, k) => p \in ps
    BY <2>7 DEF Carries
  <2>9. LinesInv'
    BY <1>3, <2>2, <2>3, <2>4, <2>6, LineChanges
  <2>10. Left
    <3>1. OthersSpared(u.root)
      BY <2>6 DEF OthersSpared, SameRows
    <3>2. \A p \in Product : Carries(p, k) /\ observed'[p].verified =>
            \/ u.confirmed \/ u.value = 0
            \/ observed'[p].owner = u.root /\ u.sp = p /\ u.value = observed'[p].value
      BY <1>2, <2>2, <2>6, <2>8
    <3>3. items' = [items EXCEPT ![k] = u] /\ u.root = items[k].root /\ u \in LineRow
      BY <2>2, <2>4
    <3> QED BY ONLY LinesInv, k \in DOMAIN items, <3>1, <3>2, <3>3, LeftByOne
  <2> QED BY <2>9, <2>10
<1> QED BY <1>4, <1>5
\* the two ways to reject a line,
LEMMA RejectionKeeps ==
  ASSUME LinesInv,
         \/ \E k \in DOMAIN items : demoteReceiptLineDirect(k)
         \/ \E a, b \in Product : demoteRejectedReceiptLine(a, b)
  PROVE  LinesInv' /\ Left
<1>1. ASSUME NEW k \in DOMAIN items, demoteReceiptLineDirect(k)
      PROVE  LinesInv' /\ Left
  <2>1. PICK rejected \in Product : rejected = items[k].sp
    BY <1>1, LineFields DEF demoteReceiptLineDirect, Linked
  <2>2. Linked(items[k]) /\ applyDemotion(k, rejected)
    BY <1>1, <2>1 DEF demoteReceiptLineDirect
  <2> QED BY <2>2, DemotionKeeps
<1>2. ASSUME NEW a \in Product, NEW b \in Product, demoteRejectedReceiptLine(a, b)
      PROVE  LinesInv' /\ Left
  <2> DEFINE other(l) == IF l.sp = a THEN b ELSE a
             hit == {k \in DOMAIN items : /\ items[k].sp \in {a, b} /\ items[k].alts # <<>>
                                          /\ Head(items[k].alts).sp = other(items[k])}
  <2>1. hit # {} /\ applyDemotion(Min(hit), other(items[Min(hit)]))
    BY <1>2 DEF demoteRejectedReceiptLine
  <2>2. hit \subseteq DOMAIN items /\ DOMAIN items \subseteq Nat
    BY DEF LinesInv, Standing
  <2>3. \A k \in hit : items[k].sp \in {a, b}
    OBVIOUS
  <2> HIDE DEF hit
  <2>4. \E n \in hit : \A m \in hit : n <= m
    BY <2>1, <2>2, LeastNumber
  <2>5. Min(hit) \in hit
    BY <2>4 DEF Min
  <2>6. PICK k, rejected : k = Min(hit) /\ rejected = other(items[k])
    OBVIOUS
  <2>7. k \in DOMAIN items /\ rejected \in Product /\ applyDemotion(k, rejected)
    BY <2>1, <2>2, <2>5, <2>6
  <2>8. Linked(items[k])
    BY <2>3, <2>5, <2>6, ProductNumbers DEF Linked
  <2> QED BY <2>7, <2>8, DemotionKeeps
<1> QED BY <1>1, <1>2

-----------------------------------------------------------------------------
\* Autosaves and swipes.
LEMMA AutosaveKeeps ==
  ASSUME LinesInv, NEW k \in DOMAIN items, NEW value \in LineValue, NEW manual \in BOOLEAN,
         NEW sp \in Product \cup {0}, applyReceiptAutosave(k, value, manual, sp)
  PROVE  LinesInv' /\ Left
<1> PICK l \in LineRow : l = items[k]
  BY LineFields
<1>1. value \in Nat /\ retake' = retake /\ Stands(l)
  BY ReceiptAssumption, LineFields DEF applyReceiptAutosave, Rest
<1>2. observed \in Rows /\ OneRowEach(observed)
  BY DEF LinesInv
<1>3. CASE Relinks(manual, l, sp)
  <2>1. manual
    BY <1>3 DEF Relinks
  <2> PICK alts : /\ alts \in Candidates \cup {l.alts}
                  /\ Put(k, [[[l EXCEPT !.value = value] EXCEPT !.sp = sp, !.confirmed = FALSE,
                                !.answer = Silent] EXCEPT !.alts = alts])
    BY <1>3, <2>1 DEF applyReceiptAutosave
  <2> PICK u : u = [[[l EXCEPT !.value = value] EXCEPT !.sp = sp, !.confirmed = FALSE,
                      !.answer = Silent] EXCEPT !.alts = alts]
    OBVIOUS
  <2>2. Silent \in Answer /\ Silent.said = "nothing" /\ alts \in Seq(Candidate)
    BY ReceiptAssumption DEF Silent, Answer, LineRow, Candidate
  <2>3. u \in LineRow /\ u.root = l.root /\ u.answer = Silent /\ u.value = value
    BY <1>1, <2>2 DEF LineRow
  <2>4. Stands(u)
    BY <2>2, <2>3 DEF Stands
  <2>5. items' = [items EXCEPT ![k] = u] /\ observed' = Reprice(MoveRow(l, sp, value), l, value)
    BY <1>3 DEF applyReceiptAutosave, Put
  <2> PICK rows : rows = MoveRow(l, sp, value)
    OBVIOUS
  <2>6. /\ rows \in Rows /\ OneRowEach(rows)
        /\ \A p \in Product : rows[p].verified => rows[p] = observed[p]
        /\ \A p \in Product : observed[p].owner = l.root => ~rows[p].verified
    BY <1>1, <1>2, MoveKeeps
  <2>7. /\ observed' \in Rows /\ SameOwners(observed', rows)
        /\ \A p \in Product : /\ rows[p].owner # l.root => observed'[p] = rows[p]
                              /\ observed'[p].verified => rows[p].verified
    BY <1>1, <2>5, <2>6, RepriceKeeps
  <2>8. OneRowEach(observed')
    BY <2>6, <2>7, OwnersKept
  <2>9. LinesInv'
    BY <1>1, <2>3, <2>4, <2>5, <2>7, <2>8, LineChanges
  <2>10. OthersSpared(u.root)
    BY <2>3, <2>6, <2>7 DEF OthersSpared
  <2>11. \A p \in Product : ~(Carries(p, k) /\ observed'[p].verified)
    BY <2>6, <2>7 DEF Carries
  <2> QED BY <2>3, <2>5, <2>9, <2>10, <2>11, LeftByOne
<1>4. CASE ~Relinks(manual, l, sp)
  <2> PICK u : u = [l EXCEPT !.value = value]
    OBVIOUS
  <2>1. u \in LineRow /\ u.root = l.root /\ u.answer = l.answer /\ u.sp = l.sp /\ u.confirmed = l.confirmed /\ u.value = value
    BY <1>1 DEF LineRow
  <2>2. Stands(u)
    BY <1>1, <2>1 DEF Stands
  <2>3. items' = [items EXCEPT ![k] = u] /\ observed' = Reprice(observed, l, value)
    BY <1>4 DEF applyReceiptAutosave, Put
  <2>4. /\ observed' \in Rows /\ SameOwners(observed', observed)
        /\ \A p \in Product :
              /\ observed[p].owner # l.root => observed'[p] = observed[p]
              /\ observed'[p].verified /\ observed[p].owner = l.root => value \in {l.value, 0}
    BY <1>1, <1>2, <2>3, RepriceKeeps
  <2>5. OneRowEach(observed')
    BY <1>2, <2>4, OwnersKept
  <2>6. LinesInv'
    BY <1>1, <2>1, <2>2, <2>3, <2>4, <2>5, LineChanges
  <2>7. OthersSpared(u.root)
    BY <2>1, <2>4 DEF OthersSpared
  <2>8. value = l.value => observed' = observed
    BY <2>3 DEF Reprice
  <2>9. \A p \in Product : Carries(p, k) /\ observed'[p].verified =>
          \/ u.confirmed \/ u.value = 0
          \/ observed'[p].owner = u.root /\ u.sp = p /\ u.value = observed'[p].value
    BY <2>1, <2>4, <2>8 DEF Carries
  <2>10. u \in LineRow /\ u.root = items[k].root /\ items' = [items EXCEPT ![k] = u]
    BY <2>1, <2>3
  <2>11. Left
    BY ONLY LinesInv, k \in DOMAIN items, <2>7, <2>9, <2>10, LeftByOne
  <2> QED BY <2>6, <2>11
<1> QED BY <1>3, <1>4

\* What a swipe has read.
SwipesInv == heals \in Nat /\ swipe \in [Swiper -> [root : Nat, heals : Nat, ok : BOOLEAN]]

\* and the swipes.
LEMMA SwipesKeep ==
  ASSUME LinesInv, SwipesInv, NEW s \in Swiper,
         \/ \E k \in DOMAIN items, ok \in BOOLEAN : resolveLineKey(s, k, ok)
         \/ applyLinePriceEffect(s) \/ dropSwipe(s)
  PROVE  LinesInv' /\ SwipesInv' /\ Left
<1>1. ASSUME NEW k \in DOMAIN items, NEW ok \in BOOLEAN, resolveLineKey(s, k, ok)
      PROVE  LinesInv' /\ SwipesInv' /\ Left
  <2>1. items' = items /\ observed' = observed /\ retake' = retake
    BY <1>1 DEF resolveLineKey
  <2>2. items[k].root \in Nat
    BY LineFields
  <2>3. SwipesInv'
    BY <1>1, <2>2 DEF resolveLineKey, SwipesInv
  <2> QED BY <2>1, <2>3, RowsChange, LeftByNone DEF SameRows, LinesInv
<1>2. CASE applyLinePriceEffect(s)
  <2>1. items' = items /\ retake' = retake
    BY <1>2 DEF applyLinePriceEffect
  <2>2. SwipesInv'
    BY <1>2 DEF applyLinePriceEffect, SwipesInv, NoSwipe
  <2> PICK ps : ps = {p \in Product : observed[p].owner = swipe[s].root /\ swipe[s].heals = heals}
    OBVIOUS
  <2>3. PICK b \in BOOLEAN : b = swipe[s].ok
    BY DEF SwipesInv
  <2>4. observed' = [p \in Product |-> IF observed[p].owner = swipe[s].root /\ swipe[s].heals = heals
                                       THEN [observed[p] EXCEPT !.verified = b] ELSE observed[p]]
    BY <1>2, <2>3 DEF applyLinePriceEffect
  <2>5. observed' = [p \in Product |-> IF p \in ps THEN [observed[p] EXCEPT !.verified = b] ELSE observed[p]]
    BY <2>3, <2>4
  <2>6. observed' \in Rows /\ OneRowEach(observed') /\ SameRows
    BY <2>5, Verifying
  <2> QED BY <2>1, <2>2, <2>6, RowsChange, LeftByNone
<1>3. CASE dropSwipe(s)
  <2>1. items' = items /\ observed' = observed /\ retake' = retake
    BY <1>3 DEF dropSwipe
  <2>2. SwipesInv'
    BY <1>3 DEF dropSwipe, SwipesInv, NoSwipe
  <2> QED BY <2>1, <2>2, RowsChange, LeftByNone DEF SameRows, LinesInv
<1> QED BY <1>1, <1>2, <1>3

-----------------------------------------------------------------------------
(* Heals.                                                                    *)

\* What a heal makes of a line: a confirmed product stays.
Alike(m, l) ==
  /\ m \in LineRow /\ m.root = l.root /\ m.answer = l.answer
  /\ (m.sp = l.sp /\ m.confirmed = l.confirmed) \/ (l.sp = 0 /\ ~m.confirmed)

\* A line alike a consistent one is consistent.
LEMMA AlikeStands ==
  ASSUME NEW l \in LineRow, Stands(l), NEW m, Alike(m, l)
  PROVE  Stands(m)
  BY DEF Alike, Stands

\* Candidates that offer a product offer one.
LEMMA CandidateFields ==
  ASSUME NEW c \in Candidates
  PROVE  /\ c \in Seq(Candidate)
         /\ Offers(c) => Head(c).sp \in Product
<1>1. c \in Seq(Candidate)
  BY ReceiptAssumption DEF Candidate
<1> QED BY <1>1 DEF Offers, Own

\* A healed line is alike the line,
LEMMA HealedAlike ==
  ASSUME NEW l \in LineRow, NEW m \in HealedLine(l)
  PROVE  Alike(m, l)
<1>1. \A v \in LineValue : v \in Nat
  BY ReceiptAssumption
<1>2. Alike(l, l)
  BY DEF Alike
<1>3. ASSUME NEW v \in LineValue
      PROVE  Alike([l EXCEPT !.value = v, !.implausible = FALSE], l)
  <2> PICK u : u = [l EXCEPT !.value = v, !.implausible = FALSE]
    OBVIOUS
  <2>1. u \in LineRow /\ u.root = l.root /\ u.answer = l.answer /\ u.sp = l.sp /\ u.confirmed = l.confirmed
    BY <1>1 DEF LineRow
  <2> QED BY <2>1 DEF Alike
<1>4. \A n \in Repriced(l) : Alike(n, l)
  BY <1>2, <1>3 DEF Repriced
<1>5. \/ m \in Repriced(l)
      \/ \E n \in Repriced(l), c \in Candidates :
           /\ HealsMatch(l) /\ Offers(c)
           /\ m = [n EXCEPT !.sp = Head(c).sp, !.confirmed = FALSE, !.alts = c]
  <2> DEFINE matched(c) == {[n EXCEPT !.sp = Head(c).sp, !.confirmed = FALSE, !.alts = c] : n \in Repriced(l)}
             chosen == {d \in Candidates : HealsMatch(l) /\ Offers(d)}
  <2>1. HealedLine(l) = Repriced(l) \cup UNION {matched(c) : c \in chosen}
    BY DEF HealedLine
  <2>2. ASSUME NEW c \in chosen, m \in matched(c)
        PROVE  \E n \in Repriced(l) : m = [n EXCEPT !.sp = Head(c).sp, !.confirmed = FALSE, !.alts = c]
    BY <2>2
  <2>3. \A c \in chosen : c \in Candidates /\ HealsMatch(l) /\ Offers(c)
    OBVIOUS
  <2> HIDE DEF matched, chosen
  <2>4. m \in Repriced(l) \/ \E c \in chosen : m \in matched(c)
    BY <2>1
  <2>5. ASSUME NEW c \in chosen, m \in matched(c)
        PROVE  \E n \in Repriced(l), d \in Candidates :
                 /\ HealsMatch(l) /\ Offers(d)
                 /\ m = [n EXCEPT !.sp = Head(d).sp, !.confirmed = FALSE, !.alts = d]
    <3>1. PICK n \in Repriced(l) : m = [n EXCEPT !.sp = Head(c).sp, !.confirmed = FALSE, !.alts = c]
      BY <2>2, <2>5
    <3> QED BY <2>3, <3>1
  <2> QED BY <2>4, <2>5
<1>6. ASSUME NEW n \in Repriced(l), NEW c \in Candidates, HealsMatch(l), Offers(c),
             m = [n EXCEPT !.sp = Head(c).sp, !.confirmed = FALSE, !.alts = c]
      PROVE  Alike(m, l)
  <2>1. n \in LineRow /\ n.root = l.root /\ n.answer = l.answer
    BY <1>4 DEF Alike
  <2>2. PICK sp \in Product : sp = Head(c).sp
    BY <1>6, CandidateFields
  <2>3. m = [n EXCEPT !.sp = sp, !.confirmed = FALSE, !.alts = c] /\ c \in Seq(Candidate)
    BY <1>6, <2>2, CandidateFields
  <2>4. m \in LineRow /\ m.root = n.root /\ m.answer = n.answer /\ ~m.confirmed
    BY <2>1, <2>3 DEF LineRow
  <2>5. l.sp = 0
    BY <1>6 DEF HealsMatch, Linked
  <2> QED BY <2>1, <2>4, <2>5 DEF Alike
<1> QED BY <1>4, <1>5, <1>6

\* a rematched one too,
LEMMA RematchedAlike ==
  ASSUME NEW l \in LineRow, NEW m, Alike(m, l), NEW n \in Rematched(m)
  PROVE  Alike(n, l)
<1>1. CASE n = m
  BY <1>1
<1>2. ASSUME NEW c \in Candidates, ~Linked(m),
             n = [m EXCEPT !.alts = c, !.confirmed = FALSE,
                           !.sp = IF Offers(c) /\ Head(c).strong THEN Head(c).sp ELSE 0]
      PROVE  Alike(n, l)
  <2>1. PICK sp \in Product \cup {0} : sp = IF Offers(c) /\ Head(c).strong THEN Head(c).sp ELSE 0
    BY CandidateFields
  <2>2. n = [m EXCEPT !.alts = c, !.confirmed = FALSE, !.sp = sp] /\ c \in Seq(Candidate) /\ m \in LineRow
    BY <1>2, <2>1, CandidateFields DEF Alike
  <2>3. n \in LineRow /\ n.root = m.root /\ n.answer = m.answer /\ ~n.confirmed
    BY <2>2 DEF LineRow
  <2>4. l.sp = 0
    BY <1>2 DEF Alike, Linked
  <2> QED BY <2>3, <2>4 DEF Alike
<1>3. \/ n = m
      \/ /\ ~Linked(m)
         /\ \E c \in Candidates :
              n = [m EXCEPT !.alts = c, !.confirmed = FALSE,
                            !.sp = IF Offers(c) /\ Head(c).strong THEN Head(c).sp ELSE 0]
  BY Zenon DEF Rematched
<1> QED BY <1>1, <1>2, <1>3

\* and so is every outcome of a retake.
LEMMA OutcomesAlike ==
  ASSUME NEW l \in LineRow, NEW n \in Outcomes(l)
  PROVE  Alike(n, l)
<1>1. PICK m \in HealedLine(l) : n \in Rematched(m)
  BY DEF Outcomes
<1> QED BY <1>1, HealedAlike, RematchedAlike
\* An answer given meanwhile is marked as crossed.
LEMMA CrossedKeeps ==
  ASSUME LinesInv, NEW k \in DOMAIN items, NEW l \in LineRow, Stands(l)
  PROVE  Crossed(k, l) \in LineRow /\ Crossed(k, l).root = l.root /\ Stands(Crossed(k, l))
<1>1. CASE items[k].answer = l.answer
  BY <1>1 DEF Crossed
<1>2. CASE items[k].answer # l.answer
  <2>1. PICK a : a = [items[k].answer EXCEPT !.crossed = TRUE]
    OBVIOUS
  <2>2. a \in Answer /\ a.crossed
    BY <2>1, LineFields DEF Answer
  <2>3. PICK u : u = [l EXCEPT !.answer = a]
    OBVIOUS
  <2>4. u \in LineRow /\ u.root = l.root /\ u.answer = a
    BY <2>2, <2>3 DEF LineRow
  <2>5. Crossed(k, l) = u
    BY <1>2, <2>1, <2>3 DEF Crossed
  <2> QED BY <2>2, <2>4, <2>5 DEF Stands
<1> QED BY <1>1, <1>2

\* Where the elements of a sequence are after one was inserted.
InsertedAt(r, s, at, e) ==
  /\ Len(r) = Len(s) + 1 /\ r[at] = e
  /\ \A i \in 1 .. Len(s) + 1 : /\ i < at => i \in 1 .. Len(s) /\ r[i] = s[i]
                                /\ i > at => i - 1 \in 1 .. Len(s) /\ r[i] = s[i - 1]

\* An insertion into a sequence moves the later elements up by one.
LEMMA Insertion ==
  ASSUME NEW S, NEW s \in Seq(S), NEW at \in 1 .. Len(s) + 1, NEW e \in S
  PROVE  InsertAt(s, at, e) \in Seq(S) /\ InsertedAt(InsertAt(s, at, e), s, at, e)
<1> DEFINE front == SubSeq(s, 1, at - 1)
           back == SubSeq(s, at, Len(s))
<1>1. Len(s) \in Nat /\ \A i \in 1 .. Len(s) : s[i] \in S
  BY LenProperties, ElementOfSeq
<1>2. front \in Seq(S) /\ Len(front) = at - 1 /\ \A i \in 1 .. at - 1 : front[i] = s[i]
  BY <1>1, SubSeqProperties
<1>3. /\ back \in Seq(S) /\ Len(back) = Len(s) + 1 - at
      /\ \A i \in 1 .. Len(s) + 1 - at : back[i] = s[at + i - 1]
  BY <1>1, SubSeqProperties
<1>4. <<e>> \in Seq(S) /\ Len(<<e>>) = 1 /\ <<e>>[1] = e
  OBVIOUS
<1>5. InsertAt(s, at, e) = (front \o <<e>>) \o back
  BY DEF InsertAt
<1> HIDE DEF front, back
<1>6. /\ front \o <<e>> \in Seq(S) /\ Len(front \o <<e>>) = at
      /\ \A i \in 1 .. at - 1 : (front \o <<e>>)[i] = s[i]
      /\ (front \o <<e>>)[at] = e
  BY <1>2, <1>4, ConcatProperties
<1>7. /\ (front \o <<e>>) \o back \in Seq(S)
      /\ Len((front \o <<e>>) \o back) = Len(s) + 1
      /\ \A i \in 1 .. at : ((front \o <<e>>) \o back)[i] = (front \o <<e>>)[i]
      /\ \A i \in at + 1 .. Len(s) + 1 : ((front \o <<e>>) \o back)[i] = back[i - at]
  <2>1. at \in Nat /\ at + Len(back) = Len(s) + 1
    BY <1>1, <1>3
  <2> PICK f : f = front \o <<e>>
    OBVIOUS
  <2>2. f \in Seq(S) /\ Len(f) = at
    BY <1>6
  <2>3. /\ f \o back \in Seq(S)
        /\ Len(f \o back) = Len(f) + Len(back)
        /\ \A i \in 1 .. Len(f) + Len(back) : (f \o back)[i] =
                    IF i <= Len(f) THEN f[i] ELSE back[i - Len(f)]
    <3>1. back \in Seq(S)
      BY <1>3
    <3> QED BY ONLY <2>2, <3>1, ConcatProperties
  <2>4. ASSUME NEW i \in 1 .. at
        PROVE  (f \o back)[i] = f[i]
    BY <1>3, <2>1, <2>2, <2>3
  <2>5. ASSUME NEW i \in at + 1 .. Len(s) + 1
        PROVE  (f \o back)[i] = back[i - at]
    BY <1>3, <2>1, <2>2, <2>3
  <2> QED BY <2>1, <2>2, <2>3, <2>4, <2>5
<1>8. ASSUME NEW i \in 1 .. Len(s) + 1, i < at
      PROVE  i \in 1 .. Len(s) /\ InsertAt(s, at, e)[i] = s[i]
  BY <1>1, <1>5, <1>6, <1>7, <1>8
<1>9. ASSUME NEW i \in 1 .. Len(s) + 1, i > at
      PROVE  i - 1 \in 1 .. Len(s) /\ InsertAt(s, at, e)[i] = s[i - 1]
  <2>1. i - at \in 1 .. Len(s) + 1 - at /\ at + (i - at) - 1 = i - 1 /\ i \in at + 1 .. Len(s) + 1
    BY <1>1, <1>9
  <2>2. back[i - at] = s[i - 1]
    BY <1>3, <2>1
  <2> QED BY <1>1, <1>5, <1>7, <1>9, <2>1, <2>2
<1>10. at \in 1 .. at
  BY <1>1
<1> QED BY <1>5, <1>6, <1>7, <1>8, <1>9, <1>10 DEF InsertedAt

\* Lines with ids of their own, and one more with the next id.
LEMMA InsertedKeep ==
  ASSUME NEW s, Standing(s), Rooted(s), NEW at \in 1 .. Len(s) + 1, NEW l \in LineRow, Stands(l), l.root = Len(s) + 1
  PROVE  Standing(InsertAt(s, at, l)) /\ Rooted(InsertAt(s, at, l))
<1>1. s \in Seq(LineRow) /\ Len(s) \in Nat /\ DOMAIN s = 1 .. Len(s)
  BY DEF Standing
<1> PICK r : r = InsertAt(s, at, l)
  OBVIOUS
<1>2. r \in Seq(LineRow) /\ InsertedAt(r, s, at, l)
  BY <1>1, Insertion
<1>3. /\ r \in Seq(LineRow) /\ Len(r) = Len(s) + 1 /\ r[at] = l
      /\ \A i \in 1 .. Len(s) + 1 : /\ i < at => i \in 1 .. Len(s) /\ r[i] = s[i]
                                    /\ i > at => i - 1 \in 1 .. Len(s) /\ r[i] = s[i - 1]
  BY <1>2 DEF InsertedAt
<1>4. DOMAIN r = 1 .. Len(s) + 1
  BY <1>3
<1> DEFINE was(i) == IF i < at THEN i ELSE i - 1
<1>5. \A i \in DOMAIN r \ {at} : was(i) \in DOMAIN s /\ r[i] = s[was(i)]
  BY <1>1, <1>3, <1>4
<1>6. \A i, j \in DOMAIN r \ {at} : was(i) = was(j) => i = j
  BY <1>1, <1>4
<1> HIDE DEF was
<1>7. \A i \in DOMAIN r : Stands(r[i])
  BY <1>3, <1>5 DEF Standing
<1>8. \A i \in DOMAIN r \ {at} : r[i].root \in 1 .. Len(s)
  BY <1>5 DEF Rooted
<1>9. \A i \in DOMAIN r : r[i].root \in 1 .. Len(r)
  BY <1>1, <1>3, <1>4, <1>8
<1>10. \A i, j \in DOMAIN r : r[i].root = r[j].root => i = j
  <2>1. \A i \in DOMAIN r \ {at} : r[i].root # r[at].root
    BY <1>1, <1>3, <1>8
  <2>2. \A i, j \in DOMAIN r \ {at} : r[i].root = r[j].root => i = j
    BY <1>5, <1>6 DEF Rooted
  <2> QED BY <2>1, <2>2
<1> QED BY <1>3, <1>7, <1>9, <1>10 DEF Standing, Rooted

\* A heal keeps the invariant,
LEMMA HealKeeps == ASSUME LinesInv, replaceReceiptItems PROVE LinesInv' /\ Left
<1>1. /\ Standing(retake) /\ Len(retake) = Len(items) /\ Standing(items)
      /\ \A k \in DOMAIN retake : retake[k].root = items[k].root
  BY DEF LinesInv, replaceReceiptItems
<1>2. /\ retake \in Seq(LineRow) /\ DOMAIN retake = 1 .. Len(retake) /\ DOMAIN items = DOMAIN retake
      /\ Len(retake) \in Nat
  BY <1>1 DEF Standing
<1>3. PICK healed :
        /\ \A k \in DOMAIN retake : healed[k] \in Outcomes(retake[k])
        /\ \/ items' = [k \in DOMAIN retake |-> Crossed(k, healed[k])]
           \/ \E at \in 1 .. Len(retake) + 1, p \in Own \cup {0}, v \in LineValue \ {0} :
                items' = InsertAt([k \in DOMAIN retake |-> Crossed(k, healed[k])], at,
                                  Recovered(Len(retake) + 1, p, v))
  BY DEF replaceReceiptItems
<1>4. PICK s : s = [k \in DOMAIN retake |-> Crossed(k, healed[k])]
  OBVIOUS
<1>5. ASSUME NEW k \in DOMAIN retake
      PROVE  Crossed(k, healed[k]) \in LineRow /\ Crossed(k, healed[k]).root = items[k].root /\ Stands(Crossed(k, healed[k]))
  <2>1. retake[k] \in LineRow /\ Stands(retake[k])
    BY <1>1, <1>2 DEF Standing
  <2>2. Alike(healed[k], retake[k])
    BY <1>3, <2>1, OutcomesAlike
  <2>3. healed[k] \in LineRow /\ Stands(healed[k]) /\ healed[k].root = items[k].root
    BY <1>1, <2>1, <2>2, AlikeStands DEF Alike
  <2> QED BY <1>2, <2>3, CrossedKeeps
<1>6. s \in Seq(LineRow) /\ Len(s) = Len(retake) /\ DOMAIN s = DOMAIN items
  BY <1>2, <1>4, <1>5
<1>7. Standing(s)
  BY <1>2, <1>4, <1>5, <1>6 DEF Standing
<1>8. Rooted(s)
  <2>1. \A k \in DOMAIN s : s[k].root = items[k].root
    BY <1>2, <1>4, <1>5
  <2>2. Len(s) = Len(items)
    BY <1>1, <1>6
  <2> QED BY <1>6, <2>1, <2>2 DEF LinesInv, Rooted
<1>9. Standing(items') /\ Rooted(items')
  <2>1. CASE items' = s
    BY <1>7, <1>8, <2>1
  <2>2. ASSUME NEW at \in 1 .. Len(retake) + 1, NEW p \in Own \cup {0}, NEW v \in LineValue \ {0},
               items' = InsertAt(s, at, Recovered(Len(retake) + 1, p, v))
        PROVE  Standing(items') /\ Rooted(items')
    <3>1. PICK root \in Nat \ {0} : root = Len(retake) + 1
      BY <1>2
    <3>2. PICK l : l = Line(root, p, v, FALSE, <<>>)
      OBVIOUS
    <3>3. Silent \in Answer /\ Silent.said = "nothing" /\ v \in Nat /\ <<>> \in Seq(Candidate)
      BY ReceiptAssumption DEF Silent, Answer
    <3>4. l \in LineRow /\ l.root = root /\ l.answer = Silent
      BY <3>2, <3>3 DEF Line, LineRow, Own
    <3>5. Stands(l)
      BY <3>3, <3>4 DEF Stands
    <3>6. items' = InsertAt(s, at, l) /\ at \in 1 .. Len(s) + 1 /\ l.root = Len(s) + 1
      BY <1>6, <2>2, <3>1, <3>2, <3>4 DEF Recovered
    <3> QED BY <1>7, <1>8, <3>4, <3>5, <3>6, InsertedKeep
  <2> QED BY <1>3, <1>4, <2>1, <2>2
<1>10. observed' = [p \in Product |-> NoRow] /\ retake' = NoRetake
  BY DEF replaceReceiptItems
<1>11. observed' \in Rows /\ OneRowEach(observed') /\ \A p \in Product : ~observed'[p].verified
  BY <1>10 DEF Rows, PriceRec, NoRow, OneRowEach
<1>12. Left
  BY <1>11 DEF Left
<1> QED BY <1>9, <1>10, <1>11, <1>12 DEF LinesInv

\* as does its read.
LEMMA ReadKeeps == ASSUME LinesInv, readForHeal \/ giveUpHeal PROVE LinesInv' /\ Left
<1>1. items' = items /\ observed' = observed /\ retake' \in {items, NoRetake}
  BY DEF readForHeal, giveUpHeal
<1>2. Left
  BY <1>1, LeftByNone DEF SameRows
<1>3. LinesInv'
  BY <1>1 DEF LinesInv
<1> QED BY <1>2, <1>3

-----------------------------------------------------------------------------
(* A saved receipt: its lines write their rows one after the other.          *)

\* What the save of one line does to the rows.
Saving(rows, l, skipped, verified) ==
  IF Linked(l) /\ l.value > 0 /\ ~l.implausible /\ l.root \notin skipped
  THEN createPrice(rows, l.sp, l.root, l.value, l.root \in verified) ELSE rows

\* Before the first line.
NoRows == [p \in Product |-> NoRow]

\* The save of a line keeps the types,
LEMMA SavingType ==
  ASSUME NEW rows \in Rows, NEW l \in LineRow, NEW skipped, NEW verified
  PROVE  Saving(rows, l, skipped, verified) \in Rows
<1>1. l.root \in Nat /\ l.value \in Nat /\ (Linked(l) => l.sp \in Product)
  BY DEF LineRow, Linked
<1>2. CASE Linked(l)
  <2>1. PICK row : row = [owner |-> IF rows[l.sp].owner = 0 THEN l.root ELSE rows[l.sp].owner,
                          value |-> l.value, verified |-> l.root \in verified]
    OBVIOUS
  <2>2. row \in PriceRec
    BY <1>1, <1>2, <2>1 DEF Rows, PriceRec
  <2>3. createPrice(rows, l.sp, l.root, l.value, l.root \in verified) = [rows EXCEPT ![l.sp] = row]
    BY <2>1 DEF createPrice
  <2>4. [rows EXCEPT ![l.sp] = row] \in Rows
    BY <1>1, <1>2, <2>2 DEF Rows
  <2> QED BY <2>3, <2>4 DEF Saving
<1> QED BY <1>2 DEF Saving

\* and gives a row to no line before it.
LEMMA SavingKeeps ==
  ASSUME NEW rows \in Rows, OneRowEach(rows), NEW l \in LineRow, NEW n \in Nat, l.root = n + 1,
         \A p \in Product : rows[p].owner <= n, NEW skipped, NEW verified
  PROVE  /\ OneRowEach(Saving(rows, l, skipped, verified))
         /\ \A p \in Product : Saving(rows, l, skipped, verified)[p].owner <= n + 1
<1>1. \A p \in Product : rows[p].owner \in Nat
  BY DEF Rows, PriceRec
<1>2. CASE Linked(l) /\ l.value > 0 /\ ~l.implausible /\ l.root \notin skipped
  <2>1. l.sp \in Product /\ l.root \in Nat \ {0} /\ l.value \in Nat
    BY <1>2 DEF LineRow, Linked
  <2>2. PICK p \in Product : p = l.sp
    BY <2>1
  <2>3. PICK root \in Nat \ {0} : root = l.root
    BY <2>1
  <2>4. PICK value \in Nat : value = l.value
    BY <2>1
  <2>5. PICK b \in BOOLEAN : b <=> (l.root \in verified)
    <3>1. CASE l.root \in verified
      BY <3>1
    <3>2. CASE l.root \notin verified
      BY <3>2
    <3> QED BY <3>1, <3>2
  <2>6. p = l.sp /\ root = l.root /\ value = l.value /\ b = (l.root \in verified) /\ root = n + 1
    BY <2>2, <2>3, <2>4, <2>5
  <2>7. \A q \in Product : rows[q].owner # root
    BY <1>1, <2>6
  <2>8. PICK r : r = createPrice(rows, p, root, value, b)
    OBVIOUS
  <2>9. OneRowEach(r) /\ \A q \in Product : r[q].owner \in {root, rows[q].owner}
    BY <2>7, <2>8, CreateKeeps
  <2>10. Saving(rows, l, skipped, verified) = r
    BY <1>2, <2>6, <2>8 DEF Saving
  <2> QED BY <1>1, <2>6, <2>9, <2>10
<1>3. CASE ~(Linked(l) /\ l.value > 0 /\ ~l.implausible /\ l.root \notin skipped)
  <2>1. Saving(rows, l, skipped, verified) = rows
    BY <1>3 DEF Saving
  <2> QED BY <1>1, <2>1
<1> QED BY <1>2, <1>3

\* Nobody owns a row before the first line.
LEMMA NoRowsType == NoRows \in Rows /\ OneRowEach(NoRows) /\ \A p \in Product : NoRows[p].owner = 0
  BY DEF NoRows, NoRow, Rows, PriceRec, OneRowEach

\* The rows a receipt is saved with.
LEMMA SavedRows ==
  ASSUME NEW lines \in Seq(LineRow), \A k \in DOMAIN lines : lines[k].root = k, NEW skipped, NEW verified
  PROVE  savedPrices(lines, skipped, verified) \in Rows /\ OneRowEach(savedPrices(lines, skipped, verified))
<1> DEFINE N == Len(lines)
           S == 1 .. N
           step == [i \in S |-> [v \in Rows |-> Saving(v, lines[i], skipped, verified)]]
           body(h) == [s \in SUBSET S |-> IF s = {} THEN NoRows
                                          ELSE Saving(h[s \ {Max(s)}], lines[Max(s)], skipped, verified)]
<1>1. N \in Nat /\ DOMAIN lines = S /\ \A i \in S : lines[i] \in LineRow
  BY LenProperties, ElementOfSeq
<1>2. \A i \in S, v \in Rows : step[i][v] = Saving(v, lines[i], skipped, verified)
  OBVIOUS
<1>3. \A i \in S, v \in Rows : step[i][v] \in Rows
  BY <1>1, <1>2, SavingType
<1> HIDE DEF step, N
<1>4. PICK g : FoldedBy(g, N, Rows, NoRows, step)
  BY ONLY <1>1, <1>3, NoRowsType, FoldSteps
<1>5. \A s \in SUBSET S : s # {} => Max(s) \in s
  BY <1>1, MaxOfNumbers
<1>6. \A s \in SUBSET S : g[s] = IF s = {} THEN NoRows
                                 ELSE Saving(g[s \ {Max(s)}], lines[Max(s)], skipped, verified)
  <2>1. ASSUME NEW s \in SUBSET S, s # {}
        PROVE  g[s] = Saving(g[s \ {Max(s)}], lines[Max(s)], skipped, verified)
    <3>1. Max(s) \in S /\ g[s \ {Max(s)}] \in Rows
      BY <1>4, <1>5, <2>1 DEF FoldedBy
    <3> QED BY <1>2, <1>4, <2>1, <3>1 DEF FoldedBy
  <2>2. {} \in SUBSET S
    OBVIOUS
  <2>3. g[{}] = NoRows
    BY <1>4, <2>2 DEF FoldedBy
  <2> QED BY <2>1, <2>3
<1>7. g = body(g)
  BY <1>4, <1>6 DEF FoldedBy
<1>8. PICK it : it = body(it) /\ savedPrices(lines, skipped, verified) = it[S]
  <2> DEFINE h == CHOOSE h : h = body(h)
  <2>1. savedPrices(lines, skipped, verified) = h[S]
    BY <1>1 DEF savedPrices, FoldLeft, MapThenFoldSet, Saving, NoRows
  <2>2. h = body(h)
    <3> HIDE DEF body
    <3> QED BY <1>7
  <2> HIDE DEF h, body
  <2> QED BY <2>1, <2>2
<1>9. it[S] = g[S]
  <2>1. PICK pick : pick = [s \in SUBSET S |-> Max(s)]
    OBVIOUS
  <2>2. \A s \in SUBSET S : it[s] = IF s = {} THEN NoRows
                                    ELSE Saving(it[s \ {Max(s)}], lines[Max(s)], skipped, verified)
    BY <1>8
  <2>3. UnwindAlike(g, it, S, pick)
    BY <1>5, <1>6, <2>1, <2>2 DEF UnwindAlike
  <2>4. IsFiniteSet(S)
    BY <1>1, FS_Interval
  <2>5. \A s \in SUBSET S : it[s] = g[s]
    <3> HIDE DEF S, body
    <3> QED BY ONLY <2>3, <2>4, SameUnwinding
  <2> QED BY <2>5
<1> DEFINE st == [n \in 0 .. N |-> g[1 .. n]]
<1>10. st \in [0 .. N -> Rows] /\ st[0] = NoRows /\ \A n \in 1 .. N : st[n] = step[n][st[n - 1]]
  BY <1>4 DEF Steps, FoldedBy
<1>11. st[N] = g[S]
  BY <1>1
<1> HIDE DEF st
<1> DEFINE T == {n \in 0 .. N : OneRowEach(st[n]) /\ \A p \in Product : st[n][p].owner <= n}
<1>12. 0 \in T
  BY <1>1, <1>10, NoRowsType
<1>13. ASSUME NEW n \in 1 .. N, n - 1 \in T
       PROVE  n \in T
  <2>1. PICK m \in Nat : m = n - 1
    BY <1>1
  <2>2. m \in 0 .. N /\ n = m + 1 /\ n \in S
    BY <1>1, <2>1
  <2>3. PICK rows \in Rows : rows = st[m]
    BY <1>10, <2>2
  <2>4. OneRowEach(rows) /\ \A p \in Product : rows[p].owner <= m
    BY <1>13, <2>1, <2>3
  <2>5. lines[n] \in LineRow /\ lines[n].root = m + 1
    BY <1>1, <2>2
  <2>6. st[n] = Saving(rows, lines[n], skipped, verified)
    BY <1>2, <1>10, <2>1, <2>2, <2>3
  <2>7. OneRowEach(st[n]) /\ \A p \in Product : st[n][p].owner <= m + 1
    <3> PICK line \in LineRow : line = lines[n]
      BY <2>5
    <3>1. line.root = m + 1 /\ st[n] = Saving(rows, line, skipped, verified)
      BY <2>5, <2>6
    <3> HIDE DEF S
    <3>2. /\ OneRowEach(Saving(rows, line, skipped, verified))
          /\ \A p \in Product : Saving(rows, line, skipped, verified)[p].owner <= m + 1
      BY <2>4, <3>1, SavingKeeps
    <3> QED BY <3>1, <3>2
  <2> QED BY <2>2, <2>7
<1>14. 0 .. N \subseteq T
  <2> HIDE DEF T
  <2> QED BY <1>1, <1>12, <1>13, PrefixInduction
<1>15. N \in 0 .. N
  BY <1>1
<1> QED BY <1>8, <1>9, <1>10, <1>11, <1>14, <1>15

\* A saved receipt satisfies the invariant.
LEMMA LinesStart == ReceiptInit => LinesInv /\ SwipesInv
<1> SUFFICES ASSUME ReceiptInit PROVE LinesInv /\ SwipesInv
  OBVIOUS
<1>1. items \in Recorded /\ retake = NoRetake
  BY DEF ReceiptInit
<1> DEFINE SavedLine == [root : Nat, sp : Product \cup {0}, confirmed : BOOLEAN, value : LineValue,
                         implausible : BOOLEAN, alts : Seq([sp : Product, strong : BOOLEAN]), answer : {Silent}]
<1>2. items \in Seq(SavedLine) /\ \A k \in DOMAIN items : items[k].root = k
  BY <1>1, RecordedAssumption
<1> HIDE DEF SavedLine
<1>3. DOMAIN items = 1 .. Len(items) /\ Len(items) \in Nat /\ \A k \in DOMAIN items : items[k] \in SavedLine
  BY <1>2
<1>4. Silent \in Answer /\ Silent.said = "nothing" /\ LineValue \subseteq Nat
  BY ReceiptAssumption DEF Silent, Answer
<1>5. ASSUME NEW k \in DOMAIN items
      PROVE  items[k] \in LineRow /\ Stands(items[k])
  <2>1. items[k] \in SavedLine /\ items[k].root \in Nat \ {0}
    BY <1>2, <1>3
  <2>2. items[k] \in LineRow /\ items[k].answer = Silent
    BY <1>4, <2>1 DEF SavedLine, LineRow, Candidate
  <2> QED BY <1>4, <2>2 DEF Stands
<1>6. items \in Seq(LineRow)
  BY <1>3, <1>5, <1>2
<1>7. Standing(items) /\ Rooted(items)
  BY <1>2, <1>3, <1>5, <1>6 DEF Standing, Rooted
<1>8. observed \in Rows /\ OneRowEach(observed)
  BY <1>2, <1>6, SavedRows DEF ReceiptInit
<1>9. SwipesInv
  BY DEF ReceiptInit, SwipesInv, NoSwipe
<1> QED BY <1>1, <1>7, <1>8, <1>9 DEF LinesInv

\* The requests about a line keep it.
LEMMA RequestsKeep ==
  ASSUME LinesInv, SwipesInv, NEW k \in DOMAIN items,
         \/ confirmLine(k) \/ demoteReceiptLineDirect(k)
         \/ \E p \in Product : linkProposal(k, p) \/ rejectProposal(k, p)
         \/ \E value \in LineValue, manual \in BOOLEAN, sp \in Product \cup {0} :
              applyReceiptAutosave(k, value, manual, sp)
         \/ \E s \in Swiper, ok \in BOOLEAN : resolveLineKey(s, k, ok)
  PROVE  LinesInv' /\ SwipesInv' /\ Left
<1>1. CASE \E s \in Swiper, ok \in BOOLEAN : resolveLineKey(s, k, ok)
  BY <1>1, SwipesKeep
<1>2. ASSUME UNCHANGED <<swipe, heals>> PROVE SwipesInv'
  BY <1>2 DEF SwipesInv
<1>3. CASE confirmLine(k)
  BY <1>2, <1>3, ConfirmKeeps DEF confirmLine, Rest
<1>4. CASE demoteReceiptLineDirect(k)
  BY <1>2, <1>4, RejectionKeeps DEF demoteReceiptLineDirect, applyDemotion, Rest
<1>5. CASE \E p \in Product : linkProposal(k, p) \/ rejectProposal(k, p)
  BY <1>2, <1>5, LinkKeeps, RefuseKeeps DEF linkProposal, rejectProposal, Rest
<1>6. CASE \E value \in LineValue, manual \in BOOLEAN, sp \in Product \cup {0} :
             applyReceiptAutosave(k, value, manual, sp)
  BY <1>2, <1>6, AutosaveKeeps DEF applyReceiptAutosave, Rest
<1> QED BY <1>1, <1>3, <1>4, <1>5, <1>6

\* Every step does.
LEMMA LinesStep ==
  ASSUME LinesInv, SwipesInv, ReceiptNext
  PROVE  LinesInv' /\ SwipesInv' /\ Left
<1>1. CASE \E a, b \in Product : a # b /\ demoteRejectedReceiptLine(a, b)
  <2>1. UNCHANGED <<swipe, heals>>
    <3>1. \E k, r : applyDemotion(k, r)
      BY <1>1 DEF demoteRejectedReceiptLine
    <3>2. Rest
      BY <3>1 DEF applyDemotion
    <3> QED BY <3>2 DEF Rest
  <2> QED BY <1>1, <2>1, RejectionKeeps DEF SwipesInv
<1>2. CASE readForHeal \/ giveUpHeal
  <2>1. UNCHANGED <<swipe, heals>>
    BY <1>2 DEF readForHeal, giveUpHeal
  <2> QED BY <1>2, <2>1, ReadKeeps DEF SwipesInv
<1>3. CASE replaceReceiptItems
  <2>1. heals' = heals + 1 /\ swipe' = swipe
    BY <1>3 DEF replaceReceiptItems
  <2> QED BY <1>3, <2>1, HealKeeps DEF SwipesInv
<1>4. CASE \E s \in Swiper : applyLinePriceEffect(s) \/ dropSwipe(s)
  BY <1>4, SwipesKeep
<1> QED BY <1>1, <1>2, <1>3, <1>4, RequestsKeep DEF ReceiptNext

\* What the user said last of a line stands through autosaves, swipes and heals, for any
\* lines, products and prices.
THEOREM AnswersAreKept == ReceiptSpec => []AnswersStand
<1>1. LinesInv /\ SwipesInv /\ [ReceiptNext]_lineVars => (LinesInv /\ SwipesInv)'
  <2>1. CASE ReceiptNext
    BY <2>1, LinesStep
  <2>2. CASE UNCHANGED lineVars
    BY <2>2 DEF lineVars, LinesInv, SwipesInv
  <2> QED BY <2>1, <2>2
<1>2. LinesInv => AnswersStand
  BY DEF LinesInv, Standing, Stands, AnswersStand
<1> QED BY <1>1, <1>2, LinesStart, PTL DEF ReceiptSpec

\* A verified price that ceases to be its line's ceases to be verified, but for a runner-up's
\* and a price that is not positive.
THEOREM LeftRowsLoseTheirWord == ReceiptSpec => LeftRowsAreUnverified
<1>1. LinesInv /\ SwipesInv /\ [ReceiptNext]_lineVars => (LinesInv /\ SwipesInv)'
  <2>1. CASE ReceiptNext
    BY <2>1, LinesStep
  <2>2. CASE UNCHANGED lineVars
    BY <2>2 DEF lineVars, LinesInv, SwipesInv
  <2> QED BY <2>1, <2>2
<1>2. LinesInv /\ SwipesInv /\ [ReceiptNext]_lineVars
        => [\A p \in Product, k \in DOMAIN items :
              Carries(p, k) /\ ~Carries(p, k)' /\ observed'[p].verified
                => items'[k].confirmed \/ items'[k].value = 0]_lineVars
  BY LinesStep DEF Left
<1> QED BY <1>1, <1>2, LinesStart, PTL DEF ReceiptSpec, LeftRowsAreUnverified
=============================================================================
