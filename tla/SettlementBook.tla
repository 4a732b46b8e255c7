---------------------------- MODULE SettlementBook ----------------------------
(***************************************************************************)
(* What the settlements of a household promise, without a log, handlers or *)
(* a sweep: a book of proposals and of the signatures under them.  A       *)
(* proposal is one party's word to the other; it is good once the other    *)
(* party signs it, or the clerk after it has been left in silence.         *)
(* HouseholdLife implements this (HouseholdProperties, Book).              *)
(***************************************************************************)
EXTENDS Integers

CONSTANTS
  Party,       \* who may owe and be owed
  Settlement,  \* names of proposals
  Amount,      \* what a proposal may be about
  Clerk        \* signs for whoever stays silent, and is no party

VARIABLES
  proposed,  \* the proposals
  signed,    \* the signatures under them
  silent     \* proposals that were left unanswered

vars == <<proposed, signed, silent>>

Named(entries) == {e.sid : e \in entries}

Init == proposed = {} /\ signed = {} /\ silent = {}

Propose(sid, from, to, amount, by) ==
  /\ sid \notin Named(proposed)
  /\ from # to /\ by \in {from, to} /\ amount > 0
  /\ proposed' = proposed \cup
       {[sid |-> sid, from |-> from, to |-> to, amount |-> amount, by |-> by]}
  /\ UNCHANGED <<signed, silent>>

FallSilent(sid) ==
  /\ sid \in Named(proposed) \ Named(signed)
  /\ silent' = silent \cup {sid}
  /\ UNCHANGED <<proposed, signed>>

Sign(e, by) ==
  /\ e.sid \notin Named(signed)
  /\ \/ by \in {e.from, e.to} \ {e.by}
     \/ by = Clerk /\ e.sid \in silent
  /\ signed' = signed \cup {[sid |-> e.sid, by |-> by]}
  /\ UNCHANGED <<proposed, silent>>

Next ==
  \/ \E sid \in Settlement, from, to, by \in Party, amount \in Amount :
       Propose(sid, from, to, amount, by)
  \/ \E sid \in Settlement : FallSilent(sid)
  \/ \E e \in proposed, by \in Party \cup {Clerk} : Sign(e, by)

Spec == Init /\ [][Next]_vars
=============================================================================
