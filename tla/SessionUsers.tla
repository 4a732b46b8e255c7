---------------------------- MODULE SessionUsers ----------------------------
(* The cache of users that are known to exist, which lets a signed session   *)
(* pass without a query, against the deletion of their accounts.  It lives   *)
(* in the memory of the one server process.                                  *)

EXTENDS Integers, FiniteSets

CONSTANTS User, Session,
          KNOWN_USER_TTL,   \* how many ticks of the clock an entry is good for
          KNOWN_USER_MAX    \* how many entries the cache holds

ASSUME SessionAssumption == KNOWN_USER_TTL \in Nat \ {0} /\ KNOWN_USER_MAX \in Nat \ {0}

VARIABLES
  account,     \* users that have a row
  knownUsers,  \* the entries of the cache, the expired ones included
  left,        \* how long each is still good
  visit        \* what each request or deletion is at

sessionVars == <<account, knownUsers, left, visit>>

Out == [at |-> "out", u |-> "nobody"]

SessionInit ==
  /\ account = User /\ knownUsers = {} /\ left = [u \in User |-> 0]
  /\ visit = [s \in Session |-> Out]

Move(s, point) == visit' = [visit EXCEPT ![s].at = point]
Leave(s) == visit' = [visit EXCEPT ![s] = Out]
Arrive(s, u, point) == visit[s] = Out /\ visit' = [visit EXCEPT ![s] = [at |-> point, u |-> u]]
Here(s, point) == visit[s].at = point

\* Fault: every hit makes the entry last longer.
SlidingHit(u) == left' = [left EXCEPT ![u] = KNOWN_USER_TTL]
KeepOnHit(u) == UNCHANGED left

\* requireUser: sessionUserExists answers from the cache, or asks the database.
requireUser(s, u) ==
  /\ IF u \in knownUsers /\ left[u] > 0
     THEN Arrive(s, u, "serving") /\ KeepOnHit(u)
     ELSE Arrive(s, u, "asking") /\ UNCHANGED left
  /\ UNCHANGED <<account, knownUsers>>

userExists(s) ==
  /\ Here(s, "asking")
  /\ Move(s, IF visit[s].u \in account THEN "found" ELSE "missing")
  /\ UNCHANGED <<account, knownUsers, left>>

\* A full cache is emptied before the entry is made.
remember(s) ==
  LET u == visit[s].u
      kept == IF Cardinality(knownUsers) >= KNOWN_USER_MAX THEN {} ELSE knownUsers
  IN  /\ Here(s, "found")
      /\ knownUsers' = kept \cup {u}
      /\ left' = [v \in User |-> IF v = u THEN KNOWN_USER_TTL ELSE IF v \in kept THEN left[v] ELSE 0]
      /\ Move(s, "serving")
      /\ UNCHANGED account

forget(u) == knownUsers' = knownUsers \ {u} /\ left' = [left EXCEPT ![u] = 0]

refuse(s) == Here(s, "missing") /\ forget(visit[s].u) /\ Leave(s) /\ UNCHANGED account

\* What the handler behind it does: an upload makes sure that the row exists.
serve(s) == Here(s, "serving") /\ Leave(s) /\ UNCHANGED <<account, knownUsers, left>>

createUser(s) ==
  /\ Here(s, "serving") /\ account' = account \cup {visit[s].u} /\ Leave(s)
  /\ UNCHANGED <<knownUsers, left>>

\* An app that was refused registers its user again.
addUser(u) == u \notin account /\ account' = account \cup {u} /\ UNCHANGED <<knownUsers, left, visit>>

\* deleteUser: the row goes, then the entry.
deleteUser(s, u) ==
  /\ u \in account /\ Arrive(s, u, "deleted") /\ account' = account \ {u}
  /\ UNCHANGED <<knownUsers, left>>

forgetSessionUser(s) == Here(s, "deleted") /\ forget(visit[s].u) /\ Leave(s) /\ UNCHANGED account

\* Time passes; the server starts again, with nothing in its memory.
Tick ==
  /\ \E u \in User : left[u] > 0
  /\ left' = [u \in User |-> IF left[u] > 0 THEN left[u] - 1 ELSE 0]
  /\ UNCHANGED <<account, knownUsers, visit>>

Restart ==
  /\ knownUsers' = {} /\ left' = [u \in User |-> 0] /\ visit' = [s \in Session |-> Out]
  /\ UNCHANGED account

Continue(s) ==
  \/ userExists(s) \/ remember(s) \/ refuse(s) \/ serve(s) \/ createUser(s) \/ forgetSessionUser(s)

SessionNext ==
  \/ \E s \in Session : Continue(s) \/ \E u \in User : requireUser(s, u) \/ deleteUser(s, u)
  \/ \E u \in User : addUser(u)
  \/ Tick \/ Restart

SessionFairness == WF_sessionVars(Tick) /\ \A s \in Session : WF_sessionVars(Continue(s))

SessionSpec == SessionInit /\ [][SessionNext]_sessionVars /\ SessionFairness

\* A user whose row is gone for good is refused for good before long, however often
\* the app comes back and whichever lookup was under way when the row went
\* (sessionUserExists, forgetSessionUser).
Refused(u) ==
  ~(u \in knownUsers /\ left[u] > 0) /\ \A s \in Session : visit[s] # [at |-> "serving", u |-> u]
DeletedUsersAreRefused ==
  \A u \in User : []<>(u \in account) \/ <>[]Refused(u)
=============================================================================
