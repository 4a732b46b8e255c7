----------------------------- MODULE Sightings -----------------------------
(* The count of requests per client version: kept in memory and added to the *)
(* database once a minute.  One version on one day.                          *)

EXTENDS Integers, FiniteSets, FiniteSetsExt

CONSTANTS Flush,     \* the flushes that can be under way at the same time
          MaxSeen, MaxDoubled

ASSUME SightingsAssumption == IsFiniteSet(Flush) /\ MaxSeen \in Nat /\ MaxDoubled \in Nat

VARIABLES
  seen,              \* the requests there really were
  buffer, stored,    \* the count in memory, and ClientVersionSighting.requests
  flight,            \* what each flush has taken out, and whether it is written
  lost, doubled      \* with a restart, and with an answer that did not come

sightingVars == <<seen, buffer, stored, flight, lost, doubled>>

Landed == [at |-> "landed", n |-> 0]

SightingsInit ==
  /\ seen = 0 /\ buffer = 0 /\ stored = 0 /\ lost = 0 /\ doubled = 0
  /\ flight = [f \in Flush |-> Landed]

recordSighting ==
  /\ seen < MaxSeen /\ seen' = seen + 1 /\ buffer' = buffer + 1
  /\ UNCHANGED <<stored, flight, lost, doubled>>

\* flushSightings: the buffer is drained before the write is sent.
flushSightings(f) ==
  /\ flight[f] = Landed /\ buffer > 0
  /\ flight' = [flight EXCEPT ![f] = [at |-> "sent", n |-> buffer]] /\ buffer' = 0
  /\ UNCHANGED <<seen, stored, lost, doubled>>

upsert(f) ==
  /\ flight[f].at = "sent"
  /\ flight' = [flight EXCEPT ![f].at = "written"] /\ stored' = stored + flight[f].n
  /\ UNCHANGED <<seen, buffer, lost, doubled>>

acknowledge(f) ==
  /\ flight[f].at = "written" /\ flight' = [flight EXCEPT ![f] = Landed]
  /\ UNCHANGED <<seen, buffer, stored, lost, doubled>>

\* Fault: what was counted meanwhile is overwritten.
PutOver(n) == buffer' = n
PutBack(n) == buffer' = buffer + n

\* The write failed, or only its answer was lost.
putBack(f) ==
  /\ flight[f].at \in {"sent", "written"}
  /\ flight[f].at = "written" => doubled + flight[f].n <= MaxDoubled
  /\ PutBack(flight[f].n) /\ flight' = [flight EXCEPT ![f] = Landed]
  /\ doubled' = IF flight[f].at = "written" THEN doubled + flight[f].n ELSE doubled
  /\ UNCHANGED <<seen, stored, lost>>

\* What flushes have taken out and not written yet.
Airborne == MapThenSumSet(LAMBDA f : IF flight[f].at = "sent" THEN flight[f].n ELSE 0, Flush)

\* The server starts again: the buffer is gone, and every write not sent.
RestartCounting ==
  /\ buffer' = 0 /\ flight' = [f \in Flush |-> Landed]
  /\ lost' = lost + buffer + Airborne
  /\ UNCHANGED <<seen, stored, doubled>>

SightingsNext ==
  \/ recordSighting
  \/ \E f \in Flush : flushSightings(f) \/ upsert(f) \/ acknowledge(f) \/ putBack(f)
  \/ RestartCounting

SightingsSpec == SightingsInit /\ [][SightingsNext]_sightingVars

\* Every request is in the database, in the buffer or on its way from one to the
\* other, once - but for what a restart loses, and what is counted twice because
\* the answer to its write was lost (flushSightings).
SightingsAddUp == stored + buffer + Airborne = seen - lost + doubled
=============================================================================
