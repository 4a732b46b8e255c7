# A verification of souply-api

souply-api is the backend of a grocery application: it reads receipts, compares
prices, plans baskets and, for families, keeps a shared ledger of who paid what
and who owes whom. This directory models the parts of it where several requests
change the same rows: the household's money and membership, the administrators'
work queues, the votes on what is the same product, shopping trips, the lines of a
receipt, and eight smaller parts. TLC checks the models on small instances and
TLAPS proves every safety property that a passing run checks. Paths like `services/householdLedger.ts` are
relative to the server's source directory; `PROJECT.json` gives them in full
(`src/src/services/householdLedger.ts`).

Contents: [the system](#the-system) · [modules](#modules) ·
[how the model corresponds to the code](#how-the-model-corresponds-to-the-code) ·
[runs](#runs) · [what the runs show](#what-the-runs-show) · [proofs](#proofs) ·
[not modelled](#not-modelled) · [plan](#plan) · [how to run](#how-to-run)

## The system

Express handlers over one MySQL pool. A handler awaits the database between its
statements, so handlers of several requests interleave at every `await`, and a
few timers (settlement sweep, lease sweep, archive sweep, telemetry flush, scraper
scheduler) run among them. Few operations are transactions; most rely on unique
keys, conditional updates and the affected-row count.

| Component | State | Operations | What makes it hard | What makes it correct |
|---|---|---|---|---|
| Household ledger (`services/householdLedger.ts`, `models/householdLedgerModel.ts`) | `HouseholdLedgerEvent`, append-only with a unique (household, dedupe key) | append of six kinds of event, one rewrite of a stored receipt, the fold | order is `at`, then `id`; a stamp may be older than what is stored | the fold never throws, sums to zero, history is frozen |
| Membership (`services/householdMembership.ts`, `models/householdModel.ts`) | `Household`, `HouseholdMember` with role and `leavingRequestedAt` | create, join, leave, remove, complete a departure, dissolve | event and row are two statements; several handlers complete one departure | nobody leaves with a balance, no ghosts, cleared leavers go, one farewell |
| Settlements (`services/householdSettlements.ts`) | events in the ledger | propose, confirm, hourly sweep | sweep against counterparty, seven days | two signatures, once; a silent proposal is confirmed |
| Receipt scope (`services/receiptFamilyScope.ts`) | item rows, ledger | toggle lines, restate or adjust | values read before several awaits | corrections add up, nothing settled is rewritten |
| Trip conversion (`services/tripFamilyConversion.ts`) | `Trip.householdId`, ledger | claim the trip, record its receipts | crash between the two, leavers meanwhile | a leaver accrues nothing |
| Trips, archive, receipt deletion (`services/tripLinkService.ts`, `services/tripArchiveService.ts`) | `Trip`, `Basket`, `ShoppingList`, `Receipt`, tied without foreign keys | create, tie, link, attach, detach, hide, skip, convert, sweep | background work after the answer, two handlers on one basket or receipt, sweep against use | a basket has one trip, a receipt is on its slot's trip, what is counted stays |
| Invites, joining, bans (`controllers/joinController.ts`, `models/inviteModel.ts`) | `InviteToken`, `TripMember`, `TripMemberBan` | create, claim, remove, lift | claim against removal | who was removed does not come back uninvited |
| Admin lease queue (`models/adminLeaseModel.ts`, the `admin*Controller.ts`) | `AdminCardLease`, `AdminAuditLog` | claim a batch, act, skip, revert, release, expire | pick, then insert; write, audit, complete | a card has one holder, handled cards stay away |
| Swipe votes, product merge (`services/swipeVoteService.ts`, `models/storeProductMatchModel.ts`, `services/storeProductMergeService.ts`) | votes, tallies, the merge graph | vote, re-vote, undo, reset, purge, merge accounts | rows read from a snapshot and written over newer ones | a tally counts each person once, merges follow votes, no cycles |
| Receipt line votes (`services/receiptLineVoteService.ts`, `services/receiptLineDemotionService.ts`) | `ReceiptItem`, `Price` | confirm, reject, demote, swipe | autosaved blobs, swipes and heals based on older lines | answers stand, a price that is left is unverified |
| Prices (`services/priceService.ts`) | `Price` | propagate, promo upsert | recency guard on a value read earlier | newest observation wins |
| Receipt pipeline (`services/receiptSaveService.ts`, `services/receiptHealService.ts`) | `Receipt`, items, files | OCR, parse, save, autosave, heal | long chain, lines replaced while they are being answered | as above |
| Matching, recipes, basket calculation | none | scoring and optimisation | size | the split is the cheapest |
| Baskets, lists, templates (`controllers/shoppingListController.ts`, `services/templateShareService.ts`) | rows, share tokens, slugs and snapshots | edit, share, claim a token, withdraw | claim, then add; a share of seconds overtaken by edits | a used token has its member, a snapshot is current, what is withdrawn stays so |
| Accounts | `User`, recovery log, session cache | recover, merge, delete | lookup against deletion | a deleted user is refused |
| Telemetry | buffer, daily counters | count, flush | lost answers, restarts | every request counted once |
| Scrapers | rows, retries | crawl, retry | external sites | bounded retries |
| Notifications, storage, e-mail | external | send | external | - |

Interactions inside the household: a converted trip and a re-scoped receipt write
receipts and adjustments to the ledger; the ledger's fold decides what may be
proposed, who may leave and whether an owner may dissolve; a confirmation (manual
or by the sweep) calls `settleDeparturesIfCleared`, which completes departures
that waited for it; departures append to the ledger and delete rows, which changes
who is eligible for the next receipt.

`PROJECT.json` lists every component with its status, and under `hazards` the
places of this code that are hard to test, with the properties aimed at them.

## Modules

| Module | What it is |
|---|---|
| `HouseholdLedger` | The events, the fold, the split into cents, the unique keys: operators over a log, no variables. |
| `HouseholdLife` | The state machine of one household: requests, the sweep, time, failures. Composes the ledger with membership, settlements, conversion and re-scoping. |
| `HouseholdProperties` | What is claimed of `HouseholdLife`: types, settlements, history, liveness. |
| `HouseholdOverlaps` | What is claimed of it where handlers overlap, and the history variables that record what changed under one of them. |
| `SettlementBook` | What a settlement is, abstractly: a proposal, its seven days, its second signature. `HouseholdLife` implements it. |
| `SettleAndLeave` | The arithmetic of equal receipts and of `simplifyDebts`, with its payments. |
| `AdminQueue` | The administrators' cards: leases, actions, the audit log, the sweep, for any of the four queues. |
| `ProductVotes` | Votes on pairs of store products, their tallies, and the merge graph they decide. |
| `TripLife` | Trips with their baskets, lists and receipts; the conversion; the archive sweep. |
| `SessionUsers` | The cache of known users against deletion and registration. |
| `Recovery` | The lockout of account recovery. |
| `TripMembers` | A trip's invites, claims, removals and bans. |
| `Sightings` | The buffered counters of client versions. |
| `Prices` | The prices a receipt writes and carries to other shops. |
| `ReceiptLines` | The lines of one receipt and their rows of prices under votes, autosaves, swipes and heals. |
| `ShareTokens` | The tokens by which a shopping list is shared. |
| `TemplateShare` | The link of a template, its cached comparison, and the edits that invalidate it. |
| `FoldProofs` | Lemmas: induction over numbers and finite sets, sums, orderings, left folds. |
| `LedgerProofs` | Lemmas about the operators of `HouseholdLedger`: splits, balances, the fold of a longer log. |
| `HouseholdProofs`, `LeavingProofs`, `AdminQueueProofs`, `ProductVotesProofs`, `TripLifeProofs`, `ServicesProofs` | The theorems about `HouseholdLife` and `HouseholdOverlaps`, `SettleAndLeave`, `AdminQueue`, `ProductVotes`, `TripLife` and the small services. |
| `MCHouseholdLife`, `MCHouseholdOverlaps`, `MCAdminQueue`, `MCProductVotes`, `MCTripLife`, `MCServices` | Instances: where a behaviour starts, symmetry; `MCServices` runs each of the eight small modules above by itself. |

The operators marked `Fault` in the modules are plausible mistakes in the
definition that follows them. `PROJECT.json` (`mutants`) says which property
notices which: every property of a passing run is shown to be able to fail.

## How the model corresponds to the code

In every module a request is one action per stretch of code between two
awaits that another handler can separate observably; what the handler holds in local
variables between them is its `job` (`door`, `press`, `flight`, `saver`, `visit`).
A request that the code refuses without changing state is not an action. Handlers
may be cut short at any await, by a query that throws or a process that
restarts: what they wrote stays, the rest does not happen. Some properties hold
but for rows that a named coincidence touched; a variable then records these rows,
influences nothing, and the property says what it stands for.

### The household (`HouseholdLife`)

**State.** `household` is the `Household` row (`none`, `live`, `dissolved`);
`role` the `HouseholdMember` rows (`none` where there is no row); `leaving` the
rows whose `leavingRequestedAt` is set; `family` the converted trips, a trip
being named by its one receipt; `log` the `HouseholdLedgerEvent` rows in the order
in which `getLedgerEvents` returns them; `lapsed` and `expired` are what the clock
contributes: proposals silent for seven days, receipts uploaded more than
72 hours ago. `job[p]` is the program point a handler has reached and the
values it holds in local variables. `due` counts the farewell notices a
membership still has coming: one more per inserted row, one less per departure
announced.

**Actions.** A request is one action up to its first state change or
await that another handler can separate observably, and one action per await
after it. `requestDeparture`, for instance, is `RequestDeparture` (read the rows
and fold the log), then `MarkLeaving`, or `DepartRead`, `AppendLeft`, `DeleteRow`,
`CountRows`, or `DissolveRead`, `AppendFarewell` for each member and `Dissolve`.
`confirmSettlement` is `Confirm`, `AppendConfirm` and then, in the same handler,
`Settle` and the departures it starts. The sweep is `SweepRead`, one
`SweepConfirm` per proposal, and `Settle`. A re-scope is `Rescope` (the lock state
and the current split), `RestateCheck` (the transaction's checks under the row
lock), and `Restate` or `AppendAdjustment`. Requests that the code refuses
without changing state are not actions.

**Order of the log.** Events are stamped when they are written, so that a new
event goes to the end of the log, with one exception: the sweep stamps all its
confirmations with the instant at which it started, and they are folded before
whatever was stamped meanwhile. `BackdateOnce` inserts them there.

**Merged reads.** Consecutive reads of a handler are one step where no write in
between could make a difference to what is checked; the participants of a
conversion, which are read twice, are two steps.

**Row locks.** `restateReceiptRecorded` selects the stored event `FOR UPDATE`;
the lock is taken through the index on (household, receipt), so it makes a second
restatement and a new adjustment of the same receipt wait (`RowFree`), and not a
confirmation, which has no receipt.

**Abstractions.** One household. Users are naturals (the code orders members by
id), settlement ids are model values, amounts a small set of cents. A re-scope
leaves any subtotal of `Amount`, which stands for the item rows. The departures
that one `Settle` completes run in any order (the code takes them as the query
returns them), and so do the farewells of a dissolution, which the code sends in
order of joining. Members without an entry in a balance or a share have 0. An
admin or an account deletion does not touch the tables modelled here.

**Overlaps** (`HouseholdOverlaps`). Several promises hold only of what did not change between a
handler's reading and its writing. Five history variables record what did; `Observe` sets them
beside every step of `Next`, constrains nothing, and no action reads them, so that `OverlapSpec`
has the behaviours of `Spec`:

| Variable | Records | Kept |
|---|---|---|
| `crossed` | who joined, row but not yet event, while a handler was on its way to delete their row | for good |
| `contested` | members a handler has decided to let go and whose balance has moved since | until that handler is done with them |
| `asked` | who asked to leave while a receipt of theirs was read and not yet appended | until it is appended |
| `overtaken` | receipts about to be rewritten, checked, behind whose check a settlement was confirmed | until the rewrite |
| `outdated` | receipts whose split changed between its reading by a correction and the correction | for good |

**Bounds.** `MaxRequests` requests in a behaviour, of the kinds in `Requests`;
`MaxInFlight` handlers at the same time, the sweep included; `MaxFailures` of
them cut short (`Fail`); as many proposals as there are `Settlement` ids; in
`SettleAndLeave` at most `MaxReceipts` receipts. All are guards of the actions
they bound.

**Fairness** (`FairSpec` and the runs that use it): a handler that can take its
next step takes it, since nothing in the code waits for anything but the
database; the sweep is started every hour by `index.ts`; seven days pass. Nobody
is obliged to send a request, and a handler may still be cut short. Proposals lapse
fairly, receipts need not expire.

**The book** (`SettlementBook`) is implemented by the mapping in
`HouseholdProperties`: its proposals and signatures are the proposals and
confirmations in the log, its silent proposals those that have lapsed.

### The administrators' queue (`AdminQueue`)

`content` is what a picker looks at: whether the work on a card is still lacking,
done, or the row is gone; `lease` and `audit` are the tables in the order of their
ids. The four queues share neither cards' leases nor audit verbs, so
that a behaviour is one of one queue (`queueKind`), with that queue's handlers
(`Handlers`) and picker (`Eligible`). A claim is `ClaimBatch` (the administrator
holds none), `Pick`, `InsertLeases`; an action on a card is `ActStart`, `ActWrite`,
`ActLog`, `CompleteLease`, with `ActRefused` where an amount is taken already; a
revert is `RevertStart`, `RevertRestore`, `RevertMark`, `RevertLog`.
`SweepExpiredLeases` is the timer. `ExpireBatch` and `Age` are the clock, `Arise` and
`ResolveIssue` what scrapes, receipts and users do to a card. `asked`, `seen` and
`known` in a lease are no columns: they record how much of the two tables its claim had
looked at. The amount and uncategorised pickers make two queries, taken as one
read; the order of the cards is left open. Bounds: `MaxRequests`,
`MaxFailures`, `BatchSize`.

### Votes and merges (`ProductVotes`)

Every handler is one transaction under REPEATABLE READ without the snapshot
check of newer servers: its plain reads see the snapshot of its first
one, its updates what is there now. A request is therefore two steps, `Start` (the
snapshot) and the operation that writes (`castSwipeVote`, `castDirectSpPairVote`,
`editVote`, `castOrphanSwipeVote`, `castSlot2Vote`, `recordTwinPairVote`,
`undoSwipeVote`, `resetReceiptLearning`, `purgeUser`, `mergeProducts`), or
`Rollback`. `anonymizeUser` and `mergeStoreProductMatchVotes` are single writes.
The thresholds are the code's: `LowerIsAtLeast` is Wilson's lower bound at 1.96
squared out over the integers (it agrees with the float formula for every tally
below 400), and the instance starts from crowds that are one vote short of a
threshold instead of from smaller thresholds. `anonymous` are the counted votes of
that crowd and of deleted users. Products are numbered in the order in which a
merge prefers them. A chain of merges is followed for four hops
(`resolveEffectiveProductId`); `crossed` records that a merge was written over a
graph that had changed, or to a product that was not a root because its chain was
cut short.

### Trips (`TripLife`)

`trips`, `baskets`, `lists` and `receipt` are the rows, `basketTrip` and the fields
`trip`, `basket`, `slot` the columns that tie them: only list to basket and
receipt to slot are foreign keys. A handler that touches a receipt carries it as
`r`: linking is `linkReceiptToShoppingList`, `relinkRead`, `ensureTripForList`,
`repoint`, then `gcChurnTrip` and `deleteEmptyTrip`; an upload is
`createReceiptFromOcr` and, after the answer, `mintRead` and `ensureTripForReceipt`.
A basket is tied by `addBasket`, `basketRead`, `ensureTripForBasket`, or by the
transaction of its first list, `addShoppingList`, `createShoppingList`,
`commitShoppingList`. That INSERT holds a shared lock on the basket's row through
the foreign key, so that of two such transactions one is rolled back
(`deadlock`): this, and not the second look at the basket, keeps them from
making two trips, as the second look reads the old snapshot. The conversion is
`convertTripToFamily`, `claimTrip`, `convertRead`, and `recordFamilyReceipt` for
each receipt. The three UPDATEs of the archive sweep, which are about different trips, are one step, so that
no handler comes between them, and time
(`idle`: fresh, 48 hours, 7 days; `Age`) passes between requests. `Finished` is stage 5
as the app sees it (`listTripsForUser`); `getTripStage`, which judges slots by
store, is called by tests only. The items of a list are named by the store they
were planned for. Bounds: `MaxTrips`, `MaxLists`, `MaxRequests`, `MaxFailures`.

### The services

`SessionUsers`: `requireUser` answers from `knownUsers` or asks the database, then
`remember`s or `refuse`s, in steps; `left` counts an entry's life down (`Tick`).
`deleteUser` and `forgetSessionUser` are two steps; `addUser` and the `createUser`
of an upload bring a row back. `Restart` empties the one process. Fairness: time
passes, and a handler that was started finishes.

`Recovery`: one device. `recoverAccount` counts `failures` and decides; the
row is logged after the attempt (`tryMatchFailed`, `tryMatchFound`, `logLockout`), a
found account is finalised after its merge, rows leave the window oldest first
(`RollOff`). Whether three receipts match is left open. Bound: `MaxAttempts`.

`TripMembers`: one trip. A claim reads the ban, lifts it if the invite is the
owner's, and inserts the member; a removal deletes the member and then inserts the
ban. Invites are listed with who each was made for. Bound: `MaxInvites`.

`Sightings`: one version on one day. A flush drains the buffer, sends, and learns
of its success or puts the counts back, also when only the answer was lost.
Bounds: `MaxSeen`, `MaxDoubled`.

`Prices`: one store product in the shops of one chain. A save writes the price of
its own shop and, if the line is verified, goes on in the background: read and
classify, update the fallbacks by id, insert the missing ones. Which lines are
written at all (matched, plausible, no clearance, not saved before) is left
open, as is the promotion that comes with a price. Bounds: `MaxDay`, `MaxSaves`.

`ReceiptLines`: one receipt after it was saved. `items` are the rows of `ReceiptItem`
by line index, `observed` the receipt's row of `Price` for each product in its own
shop. A vote on a line is one transaction and one action (`confirmLine`, `linkProposal`,
`rejectProposal`, `demoteReceiptLineDirect`), as is a rejection on a card about two
products, which finds its line itself (`demoteRejectedReceiptLine`), and one line of
an autosave. A swipe reads the line first (`resolveLineKey`) and acts on what it read
(`applyLinePriceEffect`); a heal reads all lines (`readForHeal`), computes and matches,
and replaces them (`replaceReceiptItems`), upon which the rows of `Price` go by
cascade; `root` is what is left of a line's identity, `heals` makes its id. Which value the
second photo yields and what it matches are left open within what `computeHealPlan`
and the rematch may change; photos and names are not modelled. `answer` is no column: it
is what the user said last of the line's product, and whether a heal crossed it. Bounds:
`MaxAsked`, `MaxHeals`, one swipe at a time.

`ShareTokens`: one list. A claim is the reading of the token, its conditional
UPDATE and the INSERT of the member. Members of the trip are members of the list
as well, and come and go (external). Bound: `MaxTokens`.

`TemplateShare`: one template. Items are counted by their edits, so that a snapshot names
the edit it has priced. A share reads, compares the stores and writes; an edit sends
an invalidation that is executed or lost later. `given` are links handed out and not
revoked, `overtaken` what changed while a share was under way. Bounds: `MaxEdits`, `MaxSlugs`.

**Deadlock** is not checked where a behaviour is bounded by its requests: when they
have been used up and nothing is pending, the server is idle. `SettleAndLeave`
always has a next step and is checked for deadlock.

## Runs

All are `tlc -config <cfg> <module>`; each ends within four minutes with two workers, most within one.

| Run | Configuration | Instance | Result |
|---|---|---|---|
| `concurrent` | `Concurrent.cfg` | 2 members, 1 receipt, 2 settlements, 2 handlers in flight, 4 requests, starting formed or with the founder's creation | 451,556 states |
| `overlaps` | `Overlaps.cfg` | 2 members, 2 receipts, 2 settlements, 2 handlers in flight, 1 failure, 3 requests, starting formed or with a receipt recorded | 173,142 states |
| `settling` | `Settling.cfg` | 2 members, 2 receipts, 2 settlements, 1 handler at a time, 1 failure, with fairness | 31,344 states |
| `settle_and_leave` | `SettleAndLeave.cfg` | 4 members, 4 receipts of 5 or 8 cents, any group | 116,482 states |
| `admin_queue` | `AdminQueue.cfg` | each of 4 queues; 2 administrators, 2 cards, 2 processes, batches of 1, 3 requests, 1 failure | about 2.73 million states |
| `product_votes` | `ProductVotes.cfg` | 2 users, 3 store products, 2 pairs, 7 products, 2 processes, 2 requests, 13 histories | 153,537 states |
| `trips` | `Trips.cfg` | 2 baskets (one the family's), 2 receipts, 2 stores, 2 processes, up to 4 trips and 3 lists, 3 requests from nothing or 2 from four histories, 1 failure | 279,932 states |
| `services` | `Services.cfg` | 2 users and 2 sessions, cache of 1; 2 presses, limit 3; 3 people, 2 handlers; 2 flushes, 3 requests; 2 shops, 3 days, 3 saves by 2 savers; a receipt of 2 lines, 3 products, one of them foreign, 3 requests and 1 heal; 3 shoppers, 2 tokens, 2 claims; 2 shares, 2 edits | 602,156 states |
| `overshoot` | `Overshoot.cfg` | convert, propose, confirm | violation |
| `stale_correction` | `StaleCorrection.cfg` | convert, re-scope, 2 handlers in flight | violation |
| `cleared_by_rescope` | `ClearedByRescope.cfg` | convert, leave, re-scope, with fairness | violation |
| `corrected_after_leaving` | `CorrectedAfterLeaving.cfg` | convert, leave, re-scope | violation |

Why the bounds are enough: four requests are a receipt, a proposal, its
confirmation and one more (a leave, a re-scope, a second confirmation or
a rejoin), which is the length of every interference found below; two
members and an amount with an odd cent (1 and 3) give both signs and a
remainder; receipt 2 with two or three members rotates the odd cent to
different members. Three requests of `admin_queue` are two claims and an action, or a claim,
an action and a revert; two cards and batches of one let one administrator want
a second batch. Two overlapping votes on pairs that share a product are
enough for every merge, split and rescue to cross another; the tallies
come from the histories. Two handlers on a trip are what the code has at once for
one family most of the time, and the histories put them at the points where
receipts, slots and the conversion meet. Two flushes, presses, savers or claims
overlap; three days order two receipts before, with and after a third. Three requests on
a receipt are an answer and two operations that could undo it, one of which may have
begun before; one of the lines has its price saved, the other is implausible. With a
second receipt, whose lines are unlinked or have a foreign product first, and a second
list of candidates the instance has 811,438 states and no violation. Two lines may name one product or share its row of prices, and three products
are one of the line, a runner-up and a foreign one. The three requests of `overlaps` come
after a receipt was recorded, or make the first two; a second receipt is what a leaver with a balance can be
charged for. The same instance with three members, the fewest for which an
owner at zero may have two others in debt to each other, has 958,014 states and no violation; it takes
five minutes with three workers and is not among the runs. Four members give
`simplifyDebts` three counterparties to choose from.

## What the runs show

### The household, whatever the interleaving (`concurrent`, two handlers and the sweep)

- `TwoSignaturesOnce`: money moves on a proposal, countersigned by the other
  party or by the sweep after seven days, and once. Also proved.
- `FoldNeverThrows`: no log the handlers write makes `deriveLedgerState` throw.
  A log that does would lock every operation of the household for good. Also proved.
- `HistoryIsFrozen`: stored events stay, in order, and only the amount of a
  receipt is ever rewritten, over the same payer and participants. Also proved.
- `MembersAreActive`: between requests every member is active in the fold, as long as
  no handler was cut short (one that is, after the row and before its `member_joined`,
  leaves a member who is never active). `member_left` carries no dedupe key, and
  this is where that matters. Also proved.
- `OneFarewell`: while the household lives, a membership that ends is announced
  once, although two handlers may complete it. Also proved.
- `SettlementsKeepTheBook`: the household implements `SettlementBook`. Also proved.

### The household, but for what changed under a handler (`overlaps`, two handlers, the sweep and a failure)

All five are also proved, for any number of handlers. Each names the coincidence it excepts; what happens
then is [below](#what-overlapping-handlers-break).

- `NoGhosts`: nobody is active in the fold without a row, at no moment, except who joined
  while a handler was ending that very membership. This is why
  `member_left` comes before the `DELETE`: a handler cut short between the two
  leaves a member inactive, never a ghost.
- `DepartureGate`: rows go at a zero balance, and the household at zero balances
  of everybody, except for balances that another handler moved after the member was let go and for who
  joined a dissolved household.
- `LeaversAccrueNothing`: a leaver is neither payer nor participant of a receipt
  recorded afterwards, except who asked between its reading of the participants and its append.
- `NoRewriteAfterSettlement`: a receipt is rewritten only while no adjustment corrects it, without
  exception, and while no confirmation stands after it, except one stored between
  the check and the rewrite.
- `CorrectionsInOrderAddUp`: the balance of a member is what the receipts say, as last corrected,
  and what was settled, except for members with a part in a receipt whose split changed under a correction.

### What must happen in the end (`settling`)

One handler at a time, beside the sweep: two that overlap may leave a departure waiting
([below](#what-overlapping-handlers-break)).

- `LapsedProposalsConfirm`: a proposal left alone is confirmed, whatever happens
  to its parties, and also if a sweep is cut short.
- `ClearedLeaversGo`, `SettledOwnersClose`: a balance cleared by a
  settlement completes the departure, or closes the household, that waited for it.
  Here a failure is the excuse it is in the code: once a handler is cut short
  between the confirmation and `settleDeparturesIfCleared`, nothing repeats the
  latter until another settlement is confirmed.

### Arithmetic (`settle_and_leave`)

All three are also proved.

- `OddCentsGoRound`: no cent is lost, and after a multiple of n receipts of one
  amount with consecutive ids, n participants have paid the same.
- `PlanClears`, `PlanIsMinimal`: the transfers shown to a leaver pass `proposeSettlement` one after the other, end at exactly zero, and
  no smaller set of counterparties could absorb the balance.

### The administrators' queue (`admin_queue`)

- `SharedOnlyByOverlap`, `OneBatchUnlessOverlapping`: nothing in the table keeps
  two administrators from one card, or one from two batches. Claims that follow each
  other never do it; claims that overlap between pick and insert can. Also proved.
- `HandledCardsStayAway`: a card acted upon is not handed out again for 90 days,
  unless the claim had picked it before the action. Also proved.
- `CompletedIsAudited`: no completed lease without its action in the audit
  log, also when a handler stops between its statements. Also proved.
- `LateAnswersDoNotComplete`: an answer after two hours completes nothing, not even
  the successor's lease. Also proved. (The action itself is carried out: no action asks for
  a lease.)

### Votes and merges (`product_votes`)

- `TalliesCountPeople`: a tally is the number of people whose vote counts. Also
  proved. Excepted are pairs where two requests of one user overlapped, a quick
  rescue swipe rewrote a counted vote (`slot2VoteService.ts:143`), a mint
  re-voted over an uncounted one, a receipt was reset from an old snapshot, or merged
  accounts both had a vote; there the tally does go wrong, by one.
- `ProductsHaveRoots`: no cycle of merges, although votes and administrators prefer
  different survivors; excepted is a merge written over a graph that changed
  after it was read, or past the end of a chain that is followed too short. Of the
  first TLC finds the cycle: a vote promotes p into q while an administrator
  merges q into p. Also proved.
- `MergesFollowVotes`, `RescuesFollowVotes`: what votes merge, split or rescue, the
  people agree on, as counted before or after the request; excepted are pairs whose
  tally was wrong when it was read (`Misread`). Also proved.

### Trips (`trips`)

- `OneTripPerBasket`: all lists of a basket are on the basket's one trip, whoever
  made the first and while the basket itself was being tied. Also proved.
- `SlotsFollowTrips`: a receipt that fills a slot is on that slot's trip, and the
  background work of an upload does not disturb it, unless two handlers moved the receipt
  at once or one was cut short. Also proved.
- `CountedReceiptsStay`: what the household counts stays visible, on a family trip.
  Excepted are receipts moved off it by attach or link, which are not refused, and
  those moved while the conversion ran. Also proved.
- `FinishedTripsStay`: the sweep archives a finished trip only in the ways listed in
  the property. Also proved.

### The services (`services`)

- `DeletedUsersAreRefused`: once a user is gone for good, every session of theirs is
  refused for good, though a lookup that was under way may put the entry back: it
  lasts its minute and hits do not prolong it.
- `LockoutHolds`: failures within 24 hours exceed the limit by at most the number of
  presses handled at once, less one. Also proved; the bound is reached.
- `BansHold`: who was removed is a member again only by the owner's invite, or if
  their claim crossed the removal. Also proved.
- `SightingsAddUp`: each request is counted once, but for restarts (lost) and lost
  answers (counted twice), and exactly by these amounts. Also proved.
- `NewestPriceWins`: a shop with a price of its own shows one of its own, another the newest
  carried to it, in one row, unless two saves wrote the shop at the same time. Also proved.
- `AnswersStand`: a product the user confirmed stays on the line and confirmed, one that
  was rejected does not come back as a confirmed one, whatever autosaves, swipes, other
  votes and heals follow. Only the user's own pick by hand replaces an answer. Excepted
  are answers given between a heal's reading and its writing. Also proved.
- `LeftRowsAreUnverified`: a verified row of prices that ceases to say what its line says
  ceases to be verified in the same step. The two exceptions are in the property and
  among the disagreements below. Also proved.
- `OneNewcomerPerToken`: whoever came in by a token holds one of their own, and a claimed token
  has brought in its holder unless its claim is under way or was cut short. Also proved.
- `SharesHold`: a snapshot is of the items as they are or about to be cleared, a link that
  was given out opens, and what was made private stays private. Excepted is what changed
  during a share, or whose invalidation was lost or never sent, and the items of the
  default template. Also proved.

### Disagreements between the code and what it says

- `overshoot`: `proposeSettlement` compares with the balances but not with the
  proposals already pending. Two for one debt are accepted, and confirmed, and
  the debtor becomes a creditor; the comment at `householdSettlements.ts:86`
  says this check is what prevents it.
- `stale_correction`: two overlapping toggles of one receipt start their
  corrections from the same split, and the second delta is wrong for good
  (`receiptFamilyScope.ts:332` reads it, `:379` uses it). `CorrectionsInOrderAddUp` shows that this
  is the only way in which `CorrectionsAddUp` fails.
- `cleared_by_rescope`: a toggle that brings a leaving member to zero does not
  call `settleDeparturesIfCleared`, which says it is "called after ANYTHING that
  may have moved a balance to zero" (`householdMembership.ts:408`).
- `corrected_after_leaving`: a receipt re-scoped after a participant has left
  gives that person a balance, which `householdLedger.ts:224-225` says is always
  0. `proposeSettlement` accepts members only, so that nobody can clear it, and
  it blocks the dissolution of the household. The same toggle moves the balance
  of a member who is still leaving, which `householdMembership.ts:452-453` calls
  frozen.

Met while modelling and not given a run of their own:

- `models/householdLedgerModel.ts:635-636` says that a settlement confirming concurrently cannot be overtaken by a
  restatement. It can: the row lock is on the stored receipt and makes no confirmation wait, and the check
  under it (`:665`) and the rewrite (`:697`) are two statements. `NoRewriteAfterSettlement` excepts what is in `overtaken` for
  this reason; without the exception TLC finds a conversion, a proposal, a re-scope whose check finds nothing, the
  confirmation, and the rewrite behind it.
- `models/adminLeaseModel.ts:80-82`, `:93-96` say that concurrent claims cannot take
  one card and name an INSERT IGNORE; it is a plain INSERT without a unique key.
  `:27-31` says the action endpoints validate against the lease; none does.
- `controllers/adminReceiptSplitController.ts:41` says a split card disappears; a split is not on the
  picker's list of actions and the category stays, so it comes straight back.
- Flag cards are keyed `receiptId * 1000 + line` in an INT column, which ends at
  receipt 2,147,483 (`controllers/adminFlagController.ts:95-97` calls it bigint).
- `models/storeProductMatchModel.ts:77-87` says the transition handles every re-vote
  without double counting or going negative, `services/swipeVoteService.ts:318-321` that an
  undo reverses the aggregate, and `:428-431` that the product graph always reflects the
  latest data; `TalliesCountPeople` and `MergesFollowVotes` name the exceptions.
- `services/storeProductMergeService.ts:17-18` says that chains are avoided and the
  roots are merged. The root is looked for over four hops (`:240-249`): a merge of a product
  at the end of a longer chain lands on one in the middle, which is pointed
  elsewhere with everything behind it, and which may close a cycle where an administrator had
  merged against the order of preference. The induction for `ProductsHaveRoots` failed
  there; `crossed` covers it now and `product_votes` has such a chain.
- `controllers/tripController.ts:405` says a counted receipt cannot leave its family trip;
  detaching is refused, attaching elsewhere is not.
- `services/tripArchiveService.ts:6-11` says that trips are judged the way
  `deriveTripStage` does and never in stage 5; the sweep goes by the stores of the
  receipts on the trip, counts hidden ones, and archives ad hoc trips, which are stage 5.
- A conversion cut short cannot be repeated (409), and its remaining receipts are
  never recorded.
- `models/recoveryModel.ts:92-95` says lockout records do not count; they are
  logged with `succeeded = 0` and do, so that every press while locked
  prolongs the lockout.
- `controllers/joinController.ts:214-216` says only an owner-minted invite readmits; a
  trip has one live invite that is returned to whoever asks, so that it depends on who
  asked first. A member's share readmits if the owner minted the token, and the
  owner's QR does not if a member did.
- `controllers/joinController.ts:17-18` says a merge of accounts carries memberships;
  `services/accountMergeService.ts` moves none.
- `services/receiptLineDemotionService.ts:149` calls the runner-up "a fresh, un-rejected
  pick"; only the last rejection is left out of the choice, so that a second
  rejection brings the first rejected product back, as confirmed.
- When the runner-up takes over, the row of `Price` under the rejected product keeps its
  verification, and a later yes to the new product, which verifies every row of the
  line, verifies it again (`models/receiptLineIssueModel.ts:71-72` says that different
  answers end at 0). So does a yes after the price was flagged as wrong
  (`:43-47`). A line rejected after its price was edited to nothing leaves its row verified.
- `services/receiptHealService.ts:19-20` says kept lines are untouched, so that matches, votes and
  swipes survive; what was voted between the heal's reading and writing does not, and no
  row of `Price` does (`src/sql/receipt_item.sql:81`, ON DELETE CASCADE).
- `controllers/shoppingListController.ts:411` says a token is claimed atomically; marking and
  inserting are two statements, and a stop between them uses up the token for nobody.
- `services/templateShareService.ts:185-187` says that a present snapshot is current. It is not
  after an edit during a share, a lost invalidation, a rebuild of the default template, or a
  patch that stores the quantity and is then refused (`controllers/basketTemplateController.ts:493`).
- A receipt saved late, with an older date, is the newest row of its own shop, and
  readers take the largest id; only fallbacks are guarded by date.

### What overlapping handlers break

The exceptions of the properties above are not precautions. TLC gives a behaviour for each of the
first five with `MaxInFlight = 2` when the exception is taken out of the property. They are the windows the code leaves open:

- `LeaversAccrueNothing`: with a second receipt, a member asks to leave between
  the reading of the participants in `recordFamilyReceipt` and the append (`asked`).
- `NoGhosts`: of two handlers completing one departure, the slower one has
  appended its `member_left`; the member joins again, row and event, and the slower
  one's `DELETE` removes the new row (`crossed`). Likewise who joins during a dissolution.
- `DepartureGate`: a receipt is recorded between the fold that permitted a departure
  or a dissolution and the `DELETE` (`contested`). The other exception, who joined a dissolved
  household, was needed by the proof; no instance within these bounds reaches it.
- `NoRewriteAfterSettlement`: a confirmation is inserted between the re-check
  and the `UPDATE` of a restatement, which the row lock does not exclude (`overtaken`).
- `CorrectionsInOrderAddUp`: two toggles of one receipt overlap (`outdated`); `stale_correction` is this behaviour.
- `SettledOwnersClose`, `ClearedLeaversGo`: a confirmation runs to its end between
  the fold of a leave request and the marking; nobody is leaving yet when it
  looks, and the member is marked with nothing left to wait for.
- `OneFarewell`, once the household is dissolved: a departure and a dissolution
  at the same time both announce it. The property is limited to a living
  household for this reason.

## Proofs

Every invariant and action property of a passing run is also a theorem, for every value of the
constants (any number of members, receipts, administrators, users, processes, any bound
on requests and failures), every interleaving and every failure of the specification it
names. Only the liveness properties are not.

| Module | Theorem | States |
|---|---|---|
| `HouseholdProofs` | `TypeCorrect` | `Spec => []TypeOK` |
| | `SettlementsAreSafe` | `Spec => []TwoSignaturesOnce` |
| | `HistoryIsSafe` | `Spec => HistoryIsFrozen` |
| | `FarewellsAreSafe` | `Spec => []OneFarewell` |
| | `FoldsAreSafe` | `Spec => []FoldNeverThrows` |
| | `MembersStayActive` | `Spec => []MembersAreActive` |
| | `BookIsKept` | `Spec => SettlementsKeepTheBook`, the refinement |
| | `NobodyHaunts` | `OverlapSpec => []NoGhosts` |
| | `DeparturesAreGated` | `OverlapSpec => DepartureGate` |
| | `RewritesAreEarly` | `OverlapSpec => NoRewriteAfterSettlement` |
| | `LeaversAreSpared` | `OverlapSpec => LeaversAccrueNothing` |
| | `BalancesAreExplained` | `OverlapSpec => []CorrectionsInOrderAddUp` |
| `LeavingProofs` | `CentsGoRound` | `Spec => []OddCentsGoRound` |
| | `PlansClear` | `Spec => []PlanClears` |
| | `PlansAreMinimal` | `Spec => []PlanIsMinimal` |
| `AdminQueueProofs` | `TypeCorrect` | `Spec => []TypeOK` |
| | `LeasesAreExclusive` | `Spec => []SharedOnlyByOverlap` |
| | `BatchesDoNotStack` | `Spec => []OneBatchUnlessOverlapping` |
| | `HandledCardsAreKept` | `Spec => []HandledCardsStayAway` |
| | `CompletionsAreAudited` | `Spec => []CompletedIsAudited` |
| | `LateAnswersAreIgnored` | `Spec => LateAnswersDoNotComplete` |
| `ProductVotesProofs` | `TalliesAreExact` | `Spec => []TalliesCountPeople` |
| | `RootsAreKept` | `Spec => []ProductsHaveRoots` |
| | `MergesAreExplained` | `Spec => MergesFollowVotes` |
| | `RescuesAreExplained` | `Spec => RescuesFollowVotes` |
| `TripLifeProofs` | `BasketsKeepOneTrip` | `Spec => []OneTripPerBasket` |
| | `ReceiptsFollowSlots` | `Spec => []SlotsFollowTrips` |
| | `CountedReceiptsAreKept` | `Spec => []CountedReceiptsStay` |
| | `SweepsSpareFinishedTrips` | `Spec => FinishedTripsStay` |
| `ServicesProofs` | `AttemptsAreBounded` | `RecoverySpec => []LockoutHolds` |
| | `BansAreKept` | `MembersSpec => []BansHold` |
| | `NewcomersHoldTokens` | `ShareSpec => []OneNewcomerPerToken` |
| | `SharesAreKept` | `TemplateSpec => []SharesHold` |
| | `SightingsAreKept` | `SightingsSpec => []SightingsAddUp` |
| | `PricesAreKept` | `PricesSpec => []NewestPriceWins` |
| | `AnswersAreKept` | `ReceiptSpec => []AnswersStand` |
| | `LeftRowsLoseTheirWord` | `ReceiptSpec => LeftRowsAreUnverified` |

**Assumptions.** Only those named in the modules. In the household members are finitely many naturals
other than 0, which stands for the system; receipt ids and amounts are naturals;
every receipt has an uploader among the members; the bounds are naturals. Users, pairs,
cards, shops and presses are finitely many; histories are well formed: no cycle of merges,
a receipt in a slot is on its trip, one in the ledger is visible on a family trip, a saved
receipt numbers its lines. TLC evaluates the assumptions in every run.

**`OverlapSpec`.** Five properties of the household are theorems of `OverlapSpec`, which is `Spec` beside which `Observe` keeps
the history variables ([above](#the-household-householdlife)): `ObservedBehaviours` shows that its behaviours are
behaviours of `Spec`, so that `IInv` and what rests on it hold of them, and `Observe` constrains only the variables it
introduces. Nothing is assumed of `MaxInFlight` or of failures.

**Induction over data.** The library states induction with an operator as a parameter, which
the provers cannot instantiate. `FoldProofs` works around it: an induction hypothesis is a *set*, of
the numbers or the subsets it has been shown for (`NumberInduction`, `SubsetInduction`,
`AddingInduction`, from the library's well-founded minima), and the recursive functions behind
`FoldLeft` and `MapThenFoldSet` are unfolded one step (`FoldSteps`, `SumUnfolds`). From this come the laws of finite sums
(adding an element, splitting, re-indexing, monotony), the existence of a sorted order of a
finite set, and what a left fold is after one more element. The prover cannot expand the
`SortSeq` of module TLC, on which `SetToSortSeq` rests; `SettleAndLeave` therefore defines its own
`Sorted`, the counterparties in that order.

### The household

**Types.** The household's `TypeOK` is inductive given what
`LedgerProofs` proves of the operators: `SharesType` (a split is a function to the
naturals, from the type of division and of cardinalities), `AdjustmentType`, `EffectiveReceiptType` (the
`CHOOSE` of the last correction finds one), and what appending and inserting do
to a log (`AppendOnceInserts`, `BackdateOnceInserts`).

**Two signatures.** `TwoSignaturesOnce` is not inductive alone: whether
`AppendConfirm` may write depends on what `Confirm` read many steps earlier. The
invariant is

    IInv == TypeOK /\ TwoSignaturesOnce /\ JobsAreBacked

where `JobsAreBacked` says what the locals of a running handler are still good
for: a pending confirmation has its proposal in the log, signed by the other
party; what the sweep read is in the log before the instant it stamps with, and
has lapsed; a receipt under correction is recorded. It survives the
steps of all other handlers because logs are only extended (`FrozenUnder`),
`lapsed` only grows, and an event inserted at the sweep's instant comes behind
everything the sweep read. Uniqueness comes from the dedupe key:
`AppendOnce` and `BackdateOnce` change the log only if no event has the key.

**History** follows from `IInv`: `Restate` rewrites the event at `RecordedAt`,
which exists because the job is backed, and computes it from the stored payer
and participants.

**Farewells.** `NoticesMatchRows` says that a living household's members have
exactly one notice coming and everybody else none; `DeleteRow` announces
only where it removed a row. The dissolution's notices fall outside: they are
sent when the household is no longer live.

**The fold never throws.** The fold throws on a split that does not add up, a receipt without participants,
a correction that is not neutral, and a confirmation without its proposal. `FairInv` says
that no stored event is of the first three kinds and that no handler is about to append one; that
`Shares` adds up to the cent is a sum over the members of a floor plus, for as many of them as there are
cents left, one. The fourth is `IInv`, with the order of the two events in the log.

**Active members.** `ActiveInv`: who has a row is active in the fold, or a handler
has yet to append their `member_joined`, or one has appended their `member_left` and is
about to delete the row. The sweep's stamp reorders confirmations only,
which `ActiveMembers` does not look at.

**Overlaps.** The other five rest on an invariant each, which says what a handler may still rely on at each of its
awaits while the others run, and what the history variables record where it may not:

- `NoGhosts` on `GhostInv`: of a member who is not in `crossed`, whose row was inserted it is still there, whose
  `member_left` was appended is not active, and the farewells of a dissolution still to be appended reach every active member. It
  counts members one by one (`Heralds`), as the handlers of one departure do not disturb one another and only a
  join makes anybody active.
- `NoRewriteAfterSettlement` on `EarlyInv` and on the lock: between check and rewrite the receipt is *held*, so that no correction of
  it is stored, and a settlement that is stored marks it as overtaken. `KeyInv` adds that every key of the log is stored once.
- `LeaversAccrueNothing` on `AskInv`: who has a part in a receipt about to be appended and is leaving asked since.
- `DepartureGate` on `ClearedInv` (whom a handler has let go is at zero, or their balance has moved since)
  and `RootedInv` (a living household has an owner, and no queue of departures holds one: that the last row is
  counted away happens after a dissolution only).
- `CorrectionsInOrderAddUp` on three: `FreshInv` (a correction under way carries the split in force, or its receipt
  is outdated), `PartiesInv` (corrections stay among those who paid and shared from the start), and `BookInv`.

**The balances.** `BookInv` says of the log that it *adds up* for the members without a part in an outdated receipt: their
balance in the fold is the sum of what each receipt contributes as last corrected, and of the
proposals that are confirmed. That an appended event preserves this is an induction over the fold
for each kind of event; for a correction, that what it adds is the difference between the old and the new
contribution is `FreshInv`, and where it is not, the receipt is outdated and its parties are no longer spoken of. That a
correction of somebody else's receipt leaves a member alone needs `PartiesInv` and that a split gives nothing to who is not
among its participants (`OthersShareNothing`). A restatement
rewrites an event in the middle of the log: the fold of the changed log is compared with the
old one prefix by prefix.

**The book.** Each action of the household maps to the one step of the book it
can be: appending a proposal to `Propose`, a confirmation to `Sign`, the clock to
`FallSilent`, everything else to a stutter. That `Sign` is allowed is what `IInv`
says of the running confirmation.

### Settling and leaving

**Cents.** `SharesInv`: every member of the group has paid the floor for each receipt and a cent more for those
where it was their turn, and all have paid everything there was to pay. In a whole round a member's
turns are as many as there are odd cents, whatever the first receipt.

**The plan.** `PlanFits` says of the transfers that are left that they amount to what is left of the balance, take each counterparty at most
once and in full but for the last, and that whom they clear holds at least as much as any other
counterparty. `SimplifyDebts` establishes it, by induction over the counterparties in order
(`Partway`): the walk ends with nothing remaining because the balances add up to nothing.
Paying the first transfer keeps it. Both properties follow; for `PlanIsMinimal` a smaller set of counterparties is
dominated by as many of those the plan clears.

### The other components

**The queue.** The invariant adds to the four properties what a running handler's
locals are good for: the cards of a pending `InsertLeases` were unleased within
the first `seen` rows and unhandled within the first `known` (`ClaimIsBacked`), an
action about to complete is in the log (`ActIsBacked`), and neither table shrinks
(`KnownIsPast`).

**Tallies.** A ballot is a sum over people, and a request changes the row of one
of them: the proof splits every ballot into that user and the others, whose part no
step of the request changes, and shows for each operation that what it adds to the tally is
what its row adds to the ballot, or that the pair has drifted.

**Merges.** `GraphInv` says that, unless a merge has `crossed`, every nonempty set of products has one
whose parent is outside of it, which is what having no cycle amounts to without naming paths. Pointing a root
at a product that does not lead to it keeps this. A purge evaluates many pairs one after the other:
`Course` is the graph after each set of pairs, and one induction over these sets shows that it stays
rooted and that every change has a pair whose tally asked for it. The proof corrected two properties:
the cut chain, above, and `Misread`, as with more requests than TLC runs a wrong tally may
be repaired by a reset while an older snapshot of it is still to be evaluated.

**Baskets.** The property is not inductive because a transaction writes its list
after it has read the basket. The invariant adds that what a transaction with an
inserted list has read (the basket exists, and its trip) is still true: the foreign
key's shared lock keeps the basket's row as it is until the commit.

**Slots.** `SlotInv` follows each receipt through its relinking: at most one job moves it, unless it is
`torn`; while one does, its slot is the one that job is moving it to and what the job remembers of its trip is
so (`OnItsWay`); otherwise it is on its slot's trip.

**Counted receipts.** `CountInv`: a job that moves a receipt and one that converts a trip are never both under way without the
receipt being `raced`, so that what a conversion has read of the others still holds when it
records them, and what was asked before a receipt is detached or hidden still holds then.

**Lockout.** A press under judgement counts as a failure it has not logged yet:
failures and presses under judgement together stay within the limit, less one, plus the
number of presses. **Bans.** Whoever is about to be inserted is not banned, and whoever is about
to be banned is neither a member nor on the way in, except those who crossed.

**Sharing.** For tokens the invariant keeps the founder apart: who is being added holds
the token of that claim, and everybody else in the list but the founder holds one already.
For templates it says of each share under way what `SharesHold` says of the
template: what it is going to write is current (`SnapshotsAreCurrent`) and its slug is
the template's or, if the template has none, the only new one (`LinksAgree`), unless it
has been overtaken.

**Sightings** are inductive with their types; what is in the air is a sum over the flushes, of which
each step changes one term. **Prices.** `PricesInv` says of each shop that no two saves contest that it
shows what it was told last, and that what a save has read of it and is going to write is still so
(`Fresh`).

**Receipt lines.** `LinesInv`: every line has an identity of its own and stands by its answer, no line
owns two rows of prices, and a heal's copy of the lines has the identities of the lines there are
and stands as well. The proof that a save, which writes the rows of its lines in order, leaves no line with two is an
induction over the lines.

**Checked before they were proved.** `IInv` and `NoticesMatchRows` on the instance of `concurrent`, `GhostInv`, `EarlyInv`,
`AskInv`, `RootedInv`, `ClearedInv`, `FreshInv` and `PartiesInv`
on that of `overlaps`, `SlotInv` and `CountInv` on that of `trips`, `PricesInv` and
`LinesInv` on those of `services`.

**Model-checked only.** `LapsedProposalsConfirm`, `ClearedLeaversGo`, `SettledOwnersClose` and
`DeletedUsersAreRefused`: liveness rests on fairness and `ENABLED`, which the prover does not
handle. Not proved at all: the types of the smaller modules beyond what the theorems need.

## Not modelled

- **Household:** the read-only views (history feed, family receipt view, summaries),
  the wording and delivery of notices, the reminders of the sweep, the paging of the
  log, several households at once (`PRIMARY KEY(userId)` keeps a user in one), sweeps
  that overlap because one takes longer than an hour. In `HouseholdLife` a trip has one
  receipt; a conversion with several, cut short, is in `TripLife`. A deleted account
  is a member who never acts again; its membership row stays, and no property objects to it.
- **Queue:** a card acted upon whose handler stopped before the audit row (`HandledCardsStayAway` goes by the audit
  log), edits of a card that do not decide whether it stays, the catalogue
  tab, moving leases when store products are deduplicated. That a lease ends is
  not checked as liveness: the instance needs symmetry.
- **Votes:** the personal equivalences but for their lock and foreign key, links
  between base products, prices and points earned, the queues that serve cards, the
  deduplication of store products (which re-points pairs without ordering them), votes
  of promotions. A receipt's reset takes one vote at a time.
- **Trips:** members and owners (for bans see `TripMembers`), basket status, the window for
  detaching, the gate of swiped receipts, scores and comparisons.
- **Receipt lines:** receipts whose stored header names no chain (`services/receiptLineDemotionService.ts:157`: a demotion then
  unlinks the line and leaves its price as it is; the header is what the app sends with each save), that a swipe
  or a yes which verifies a row the line has left already goes wrong (it is among the disagreements, no property catches it),
  the line's own verified flag, issue reports, the vocabulary of aliases, the
  ledger of resolutions, receipts from before `ReceiptItem`, the replacement of a line by
  developers, rows of prices whose store and day another receipt's line has
  taken, quantities and promotions.
- **Services:** signing in, which receipts match an account, the tables an account
  merge moves, scraped promotions, corrections and deletions of prices, revoking an
  invite, the items of lists and templates, templates copied from others.
- The remaining components (`not_modelled` in `PROJECT.json`) are read-only
  optimisation and scoring over large tables, parsing of receipts and of external
  sites, recipes, or calls to external services. Most of the lines of this
  repository are there: tables of ingredients, parsers, scrapers and matching heuristics,
  which keep no state between requests and have no definition other than
  themselves to be checked against.

## Plan

The modules above exist. What could follow:

1. The long save of a receipt: `persistReceiptPrices` with its retry, and the slots of the
   Price table that lines of two receipts compete for.
2. The vocabulary of aliases and the ledger of resolutions, which votes on lines and
   swipes both write.
3. Composing `TripLife` with `HouseholdLife`: a conversion of several receipts while
   members leave.
4. Theorems about those: that the composition implements `HouseholdLife`, so that what is
   proved here carries over.

## How to run

    tlc -workers 2 -config Concurrent.cfg MCHouseholdLife
    tlc -workers 2 -config Overlaps.cfg MCHouseholdOverlaps
    tlc -workers 2 -config SettleAndLeave.cfg SettleAndLeave
    tlc -workers 2 -config AdminQueue.cfg MCAdminQueue
    tlc -workers 2 -config ProductVotes.cfg MCProductVotes
    tlc -workers 2 -config Trips.cfg MCTripLife
    tlc -workers 2 -config Services.cfg MCServices
    tlapm HouseholdProofs.tla
    tlapm LeavingProofs.tla
