---------------------------- MODULE TemplateShare ----------------------------
(* The share link of a basket template: a slug, who may open it, and a cached *)
(* comparison of its items, the snapshot. Sharing reads the template, prices  *)
(* the items while others edit it, and writes back what it has read.          *)

EXTENDS Integers, FiniteSets

CONSTANTS Sharer, MaxEdits, MaxSlugs

VARIABLES
  template,      \* BasketTemplate; items counts its edits, snapshot the one it has priced
  share,         \* the handlers of shareTemplate
  invalidating,  \* invalidateSnapshot queries sent and not executed
  slugs,         \* slugs allocated so far
  given,         \* the slugs clients have been given, less the revoked ones
  withdrawn,     \* whether the owner has made it private, or revoked the link, since
  overtaken      \* what has changed during a share, or lost its invalidation, and not been set right

templateVars == <<template, share, invalidating, slugs, given, withdrawn, overtaken>>

NoSlug == 0
NotPriced == 0
Away == [at |-> "away", slug |-> NoSlug, visibility |-> "private", snapshot |-> NotPriced]

TemplateInit ==
  /\ template \in [items : {1}, slug : {NoSlug}, visibility : {"private", "unlisted", "public"},
                   snapshot : {NotPriced}, isDefault : BOOLEAN]
  /\ template.isDefault => template.visibility = "private"
  /\ share = [s \in Sharer |-> Away] /\ invalidating = 0 /\ slugs = 0
  /\ given = {} /\ withdrawn = FALSE /\ overtaken = {}

Sharing == \E s \in Sharer : share[s] # Away
Change(what) == overtaken' = IF Sharing THEN overtaken \cup what ELSE overtaken \ what

-----------------------------------------------------------------------------
\* shareTemplate reads the template: its slug or a new one, its snapshot or none yet; a
\* private template becomes one that the link opens.
shareTemplate(s) ==
  /\ share[s] = Away /\ slugs < MaxSlugs
  /\ LET fresh == template.slug = NoSlug
     IN  /\ slugs' = IF fresh THEN slugs + 1 ELSE slugs
         /\ share' = [share EXCEPT ![s] =
              [at |-> IF template.snapshot = NotPriced THEN "pricing" ELSE "writing",
               slug |-> IF fresh THEN slugs + 1 ELSE template.slug,
               visibility |-> IF template.visibility = "public" THEN "public" ELSE "unlisted",
               snapshot |-> template.snapshot]]
  /\ overtaken' = IF Sharing /\ template.slug = NoSlug THEN overtaken \cup {"link"} ELSE overtaken
  /\ withdrawn' = FALSE /\ UNCHANGED <<template, invalidating, given>>

\* computeSnapshotForTemplate reads the items and compares the stores; it has nothing to
\* compare when the last item is gone.
computeSnapshotForTemplate(s) ==
  /\ share[s].at = "pricing"
  /\ \E priced \in {template.items, NotPriced} :
       share' = [share EXCEPT ![s].at = "writing", ![s].snapshot = priced]
  /\ UNCHANGED <<template, invalidating, slugs, given, withdrawn, overtaken>>

\* One UPDATE writes it all, and the client is given the link.
writeShare(s) ==
  /\ share[s].at = "writing"
  /\ template' = [template EXCEPT !.slug = share[s].slug, !.visibility = share[s].visibility,
                                  !.snapshot = share[s].snapshot]
  /\ given' = given \cup {share[s].slug} /\ share' = [share EXCEPT ![s] = Away]
  /\ UNCHANGED <<invalidating, slugs, withdrawn, overtaken>>

failShare(s) ==
  /\ share[s] # Away /\ share' = [share EXCEPT ![s] = Away]
  /\ UNCHANGED <<template, invalidating, slugs, given, withdrawn, overtaken>>

-----------------------------------------------------------------------------
\* Fault: an edit leaves the snapshot.
SendNone == invalidating
Send == invalidating + 1

\* addItem, patchItem and removeItem send the invalidation and do not wait for it.
editItem ==
  /\ ~template.isDefault /\ template.items < MaxEdits
  /\ template' = [template EXCEPT !.items = @ + 1] /\ invalidating' = Send
  /\ Change({"items"}) /\ UNCHANGED <<share, slugs, given, withdrawn>>

\* patchItem has stored the quantity when it refuses the sort order, or the process stops:
\* the invalidation is never sent.
editItemHalf ==
  /\ ~template.isDefault /\ template.items < MaxEdits
  /\ template' = [template EXCEPT !.items = @ + 1] /\ overtaken' = overtaken \cup {"items"}
  /\ UNCHANGED <<share, invalidating, slugs, given, withdrawn>>

invalidateSnapshot ==
  /\ invalidating > 0 /\ invalidating' = invalidating - 1
  /\ template' = [template EXCEPT !.snapshot = NotPriced]
  /\ Change({"items"}) /\ UNCHANGED <<share, slugs, given, withdrawn>>

loseInvalidation ==
  /\ invalidating > 0 /\ invalidating' = invalidating - 1 /\ overtaken' = overtaken \cup {"items"}
  /\ UNCHANGED <<template, share, slugs, given, withdrawn>>

\* generateDefaultTemplate replaces the items of the default template, and invalidates nothing.
generateDefaultTemplate ==
  /\ template.isDefault /\ template.items < MaxEdits /\ template' = [template EXCEPT !.items = @ + 1]
  /\ UNCHANGED <<share, invalidating, slugs, given, withdrawn, overtaken>>

\* patchTemplate, "private": the slug stays and opens a page that says so.
makePrivate ==
  /\ template' = [template EXCEPT !.visibility = "private", !.snapshot = NotPriced]
  /\ withdrawn' = TRUE /\ Change({"visibility"}) /\ UNCHANGED <<share, invalidating, slugs, given>>

\* patchTemplate, "unlisted" or "public".
publish(visibility) ==
  /\ template' = [template EXCEPT !.visibility = visibility]
  /\ withdrawn' = FALSE /\ UNCHANGED <<share, invalidating, slugs, given, overtaken>>

revokeShareLink ==
  /\ template' = [template EXCEPT !.slug = NoSlug, !.visibility = "private", !.snapshot = NotPriced]
  /\ given' = {} /\ withdrawn' = TRUE /\ Change({"link", "visibility"})
  /\ UNCHANGED <<share, invalidating, slugs>>

TemplateNext ==
  \/ \E s \in Sharer : shareTemplate(s) \/ computeSnapshotForTemplate(s) \/ writeShare(s) \/ failShare(s)
  \/ editItem \/ editItemHalf \/ invalidateSnapshot \/ loseInvalidation
  \/ generateDefaultTemplate \/ makePrivate \/ revokeShareLink
  \/ \E visibility \in {"unlisted", "public"} : publish(visibility)

TemplateSpec == TemplateInit /\ [][TemplateNext]_templateVars

\* A snapshot is one of the template's items or its invalidation is on the way, unless the
\* items changed during a share, the invalidation was lost or never sent, or the template is the default
\* one; a link that was given out and not revoked opens, and what was withdrawn stays
\* private, unless a share was under way meanwhile (shareTemplate).
SharesHold ==
  /\ ~template.isDefault /\ "items" \notin overtaken
       => template.snapshot \in {NotPriced, template.items} \/ invalidating > 0
  /\ "link" \notin overtaken => given \subseteq {template.slug}
  /\ withdrawn /\ "visibility" \notin overtaken => template.visibility = "private"
=============================================================================
