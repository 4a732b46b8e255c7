----------------------------- MODULE TripMembers -----------------------------
(* Who is in on a trip: invites, which are shared by all who ask for one and *)
(* never expire, claims of them, and the owner's removals with their bans.   *)

EXTENDS Integers, FiniteSets, Sequences

CONSTANTS Person, OWNER, Door, MaxInvites

ASSUME MembersAssumption == OWNER \in Person /\ MaxInvites \in Nat

Invite == 1 .. MaxInvites

VARIABLES
  members,     \* TripMember
  banned,      \* TripMemberBan
  minter,      \* InviteToken: who each was made for, in the order of their ids
  door,        \* what each handler is at
  crossed      \* whose claim was under way while they were being removed

memberVars == <<members, banned, minter, door, crossed>>

Shut == [at |-> "shut", who |-> OWNER, invite |-> 0]

MembersInit ==
  /\ members \in {{OWNER}, Person} /\ banned = {} /\ minter = <<>>
  /\ door = [d \in Door |-> Shut] /\ crossed = {}

Knock(d, j) == door[d] = Shut /\ door' = [door EXCEPT ![d] = j]
Through(d, point) == door' = [door EXCEPT ![d].at = point]
Close(d) == door' = [door EXCEPT ![d] = Shut]

\* createTripInvite: getOrCreateInviteToken looks for one, and makes one if there is none.
createTripInvite(d, who) ==
  /\ who \in members /\ minter = <<>>
  /\ Knock(d, [at |-> "minting", who |-> who, invite |-> 0])
  /\ UNCHANGED <<members, banned, minter, crossed>>

getOrCreateInviteToken(d) ==
  /\ door[d].at = "minting" /\ Len(minter) < MaxInvites
  /\ minter' = Append(minter, door[d].who) /\ Close(d)
  /\ UNCHANGED <<members, banned, crossed>>

\* One that the owner addresses to a person lifts the ban, in the background.
addressInvite(who) ==
  /\ minter # <<>> /\ who \in banned /\ banned' = banned \ {who}
  /\ UNCHANGED <<members, minter, door, crossed>>

\* claimJoin: who is not a member yet.
claimJoin(d, who, i) ==
  /\ i \in 1 .. Len(minter) /\ who \notin members
  /\ Knock(d, [at |-> "claiming", who |-> who, invite |-> i])
  /\ crossed' = IF \E e \in Door : door[e].at = "banning" /\ door[e].who = who
                THEN crossed \cup {who} ELSE crossed
  /\ UNCHANGED <<members, banned, minter>>

\* Fault: a ban goes unnoticed.
NoBan(who) == FALSE
HasBan(who) == who \in banned

\* The ban is read, and whether the invite is the owner's, who lifts it.
readBan(d) ==
  LET who == door[d].who
  IN  /\ door[d].at = "claiming"
      /\ \/ ~HasBan(who) /\ Through(d, "joining")
         \/ HasBan(who) /\ minter[door[d].invite] = OWNER /\ Through(d, "lifting")
         \/ HasBan(who) /\ minter[door[d].invite] # OWNER /\ Close(d)
      /\ UNCHANGED <<members, banned, minter, crossed>>

liftBan(d) ==
  /\ door[d].at = "lifting" /\ banned' = banned \ {door[d].who} /\ Through(d, "joining")
  /\ UNCHANGED <<members, minter, crossed>>

insertMember(d) ==
  /\ door[d].at = "joining" /\ members' = members \cup {door[d].who} /\ Close(d)
  /\ UNCHANGED <<banned, minter, crossed>>

\* removeTripMember: the membership goes, then the ban is written.
removeTripMember(d, who) ==
  /\ who \in members \ {OWNER}
  /\ Knock(d, [at |-> "removing", who |-> who, invite |-> 0])
  /\ UNCHANGED <<members, banned, minter, crossed>>

deleteMember(d) ==
  LET who == door[d].who
  IN  /\ door[d].at = "removing" /\ members' = members \ {who} /\ Through(d, "banning")
      /\ crossed' = IF \E e \in Door : door[e].at \in {"claiming", "lifting", "joining"} /\ door[e].who = who
                    THEN crossed \cup {who} ELSE crossed
      /\ UNCHANGED <<banned, minter>>

ban(d) ==
  /\ door[d].at = "banning" /\ banned' = banned \cup {door[d].who} /\ Close(d)
  /\ UNCHANGED <<members, minter, crossed>>

Slam(d) == door[d] # Shut /\ Close(d) /\ UNCHANGED <<members, banned, minter, crossed>>

MembersNext ==
  \/ \E d \in Door : \/ \E who \in Person : createTripInvite(d, who) \/ removeTripMember(d, who)
                     \/ \E who \in Person, i \in Invite : claimJoin(d, who, i)
                     \/ getOrCreateInviteToken(d) \/ readBan(d) \/ liftBan(d) \/ insertMember(d)
                     \/ deleteMember(d) \/ ban(d) \/ Slam(d)
  \/ \E who \in Person : addressInvite(who)

MembersSpec == MembersInit /\ [][MembersNext]_memberVars

\* Who was removed is not a member again before the ban is lifted, by an invite of
\* the owner's or addressed by the owner - unless a claim of theirs was under way
\* while they were removed (claimJoin, removeTripMember).
BansHold == banned \cap members \subseteq crossed
=============================================================================
