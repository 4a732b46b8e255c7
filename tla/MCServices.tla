----------------------------- MODULE MCServices -----------------------------
(* Eight parts of the server that share nothing, each by itself: a behaviour *)
(* is one of one part.                                                       *)

EXTENDS SessionUsers, Recovery, TripMembers, Sightings, Prices, ReceiptLines, ShareTokens, TemplateShare

VARIABLE part

strong(p) == [sp |-> p, strong |-> TRUE]
weak(p) == [sp |-> p, strong |-> FALSE]

MCCandidates == {<<strong(1), strong(2)>>}
MCRecorded ==
  {<<Line(1, 1, 1, FALSE, <<strong(1), strong(2)>>), Line(2, 2, 1, TRUE, <<strong(3), weak(1)>>)>>}

servicesVars ==
  <<sessionVars, recoveryVars, memberVars, sightingVars, priceVars, lineVars, shareVars, templateVars, part>>

\* The parts a behaviour is not about start in one way only.
AtRest ==
  /\ part # "members" => members = Person
  /\ part # "receipt" => items = (CHOOSE r \in Recorded : TRUE) /\ observed = savedPrices(items, {}, {})
  /\ part # "list" => listMembers = {CHOOSE who \in Shopper : TRUE} /\ onTrip = listMembers
  /\ part # "template" => template.isDefault

Init ==
  /\ SessionInit /\ RecoveryInit /\ MembersInit /\ SightingsInit /\ PricesInit
  /\ ReceiptInit /\ ShareInit /\ TemplateInit
  /\ part \in {"sessions", "recovery", "members", "sightings", "prices", "receipt", "list", "template"}
  /\ AtRest

Next ==
  /\ UNCHANGED part
  /\ \/ /\ part = "sessions" /\ SessionNext
        /\ UNCHANGED <<recoveryVars, memberVars, sightingVars, priceVars, lineVars, shareVars, templateVars>>
     \/ /\ part = "recovery" /\ RecoveryNext
        /\ UNCHANGED <<sessionVars, memberVars, sightingVars, priceVars, lineVars, shareVars, templateVars>>
     \/ /\ part = "members" /\ MembersNext
        /\ UNCHANGED <<sessionVars, recoveryVars, sightingVars, priceVars, lineVars, shareVars, templateVars>>
     \/ /\ part = "sightings" /\ SightingsNext
        /\ UNCHANGED <<sessionVars, recoveryVars, memberVars, priceVars, lineVars, shareVars, templateVars>>
     \/ /\ part = "prices" /\ PricesNext
        /\ UNCHANGED <<sessionVars, recoveryVars, memberVars, sightingVars, lineVars, shareVars, templateVars>>
     \/ /\ part = "receipt" /\ ReceiptNext
        /\ UNCHANGED <<sessionVars, recoveryVars, memberVars, sightingVars, priceVars, shareVars, templateVars>>
     \/ /\ part = "list" /\ ShareNext
        /\ UNCHANGED <<sessionVars, recoveryVars, memberVars, sightingVars, priceVars, lineVars, templateVars>>
     \/ /\ part = "template" /\ TemplateNext
        /\ UNCHANGED <<sessionVars, recoveryVars, memberVars, sightingVars, priceVars, lineVars, shareVars>>

Spec == Init /\ [][Next]_servicesVars /\ SessionFairness
=============================================================================
