----------------------------- MODULE ProductVotes -----------------------------
(***************************************************************************)
(* Shoppers vote whether two store products are the same thing.  Votes     *)
(* that count are tallied per pair, the tally merges and splits the        *)
(* products behind the pair, and rescues products from the fallback        *)
(* category (services/swipeVoteService.ts, directSpPairVoteService.ts,     *)
(* orphanSwipeService.ts, slot2VoteService.ts, crossChainMintService.ts,   *)
(* storeProductMergeService.ts, productMergeService.ts,                    *)
(* receiptLearningResetService.ts, userDeletionService.ts,                 *)
(* accountMergeService.ts and models/storeProductMatchModel.ts).           *)
(*                                                                         *)
(* Every handler is one transaction.  Its plain SELECTs all read the       *)
(* snapshot its first one took, its writes apply to what is there now:     *)
(* a request takes its snapshot in one step and writes in another.         *)
(***************************************************************************)
EXTENDS Integers, FiniteSets, Folds

CONSTANTS
  User,
  StoreProduct,
  Product,      \* numbered in the order a merge prefers: shorter names, then lower ids
  Pair,         \* the pairs of store products voted on
  Proc,         \* processes that serve requests
  Histories,    \* what earlier votes and merges may have left (see Init)
  MaxRequests   \* bound: requests in a behaviour

VARIABLES
  vote,        \* StoreProductMatchVote, one row per user and pair
  anonymous,   \* counted rows of nobody: their users were deleted, or are not modelled
  match,       \* StoreProductMatch, the tally of each pair
  mergedInto,  \* Product.mergedIntoId
  productOf,   \* StoreProduct.productId
  fallback,    \* the products in category 688
  live,        \* the rows of User
  job, started,
  drifted,     \* pairs that an operation left with a wrong tally
  crossed      \* a merge was written over a graph that had changed since it was read, or
               \* to a product whose chain was followed too short

people == <<vote, anonymous, live>>
graph == <<mergedInto, productOf, fallback>>
vars == <<vote, anonymous, match, mergedInto, productOf, fallback, live, job, started,
          drifted, crossed>>

MatchVote == {"identical", "similar", "different"}
Row == [verdict : MatchVote, aggregated : BOOLEAN]
NoVote == [verdict |-> "none", aggregated |-> FALSE]
NoProduct == 0
Tally == [MatchVote -> Nat]

ASSUME VotesAssumption ==
  /\ IsFiniteSet(User) /\ IsFiniteSet(Pair) /\ MaxRequests \in Nat
  /\ Product \subseteq Nat \ {NoProduct}
  /\ Pair \subseteq StoreProduct \X StoreProduct
  /\ \A h \in Histories :
       /\ h.vote \in [User -> [Pair -> Row \cup {NoVote}]]
       /\ h.anonymous \in [Pair -> Tally]
       /\ h.mergedInto \in [Product -> Product \cup {NoProduct}]
       /\ \A S \in SUBSET Product : S # {} => \E q \in S : h.mergedInto[q] \notin S
       /\ h.productOf \in [StoreProduct -> Product]
       /\ h.fallback \subseteq Product

-----------------------------------------------------------------------------
(* Tallies.                                                                *)

Voters(votes, pair, verdict) ==
  {u \in User : votes[u][pair] = [verdict |-> verdict, aggregated |-> TRUE]}

\* What the counted rows of a pair add up to.
Ballot(votes, unnamed, pair) ==
  [v \in MatchVote |-> Cardinality(Voters(votes, pair, v)) + unnamed[pair][v]]

applyAggregateDelta(tally, verdict, delta) ==
  [tally EXCEPT ![verdict] = IF @ + delta < 0 THEN 0 ELSE @ + delta]

\* Fault: a row that was never counted is taken back too.
TakesBlindly(row, verdict) == row.verdict \notin {"none", verdict}

\* The old row is taken back if it was counted, the new verdict is added if it
\* is counted and was not yet; "none" is a verdict that is not counted.
Takes(row, verdict) == row.aggregated /\ row.verdict # verdict
Gives(row, verdict) == verdict # "none" /\ ~(row.aggregated /\ row.verdict = verdict)

applyVoteTransitionDeltas(tally, row, verdict) ==
  LET kept == IF Takes(row, verdict) THEN applyAggregateDelta(tally, row.verdict, -1) ELSE tally
  IN  IF Gives(row, verdict) THEN applyAggregateDelta(kept, verdict, 1) ELSE kept

\* wilsonLowerBound(x, n, 1.96) >= num/5, squared out over the integers; the
\* bands of config/matchThresholds.ts are 0.8 and 0.5, and 0.7 for "similar".
Total(tally) == tally["identical"] + tally["similar"] + tally["different"]
LowerIsAtLeast(x, n, num, den) ==
  /\ n > 0 /\ den * x >= num * n
  /\ 10000 * (den * x - num * n) * (den * x - num * n) >= 38416 * num * (den - num) * n
LowerIsAtMostHalf(x, n) ==
  n = 0 \/ 2 * x <= n \/ 10000 * (2 * x - n) * (2 * x - n) <= 38416 * n

Promotes(tally) == /\ tally["identical"] >= 3
                   /\ LowerIsAtLeast(tally["identical"], Total(tally), 4, 5)
Demotes(tally) == /\ tally["identical"] >= 3
                  /\ LowerIsAtMostHalf(tally["identical"], Total(tally))
PromotesSimilar(tally) == /\ tally["similar"] >= 3
                          /\ LowerIsAtLeast(tally["similar"], Total(tally), 7, 10)

-----------------------------------------------------------------------------
(* Requests.  job[i] is Idle, or a request with the snapshot it reads from. *)

Idle == [request |-> [kind |-> "none"]]

Snapshot == [vote |-> vote, anonymous |-> anonymous, match |-> match,
             mergedInto |-> mergedInto, productOf |-> productOf, fallback |-> fallback]

\* How a swipe is taken: the flow it comes from, and whether it was too quick
\* to count.  An orphan swipe that is too quick is dropped at once, and a vote
\* edited or implied by a mint has no swipe to be quick.
Votes == [kind : {"swipe", "direct", "slot2"}, user : User, pair : Pair,
          verdict : MatchVote, burst : BOOLEAN]
         \cup [kind : {"edit", "orphan"}, user : User, pair : Pair,
               verdict : MatchVote, burst : {FALSE}]
         \cup [kind : {"twin"}, user : User, pair : Pair, verdict : {"identical"}, burst : {FALSE}]

Requests == Votes
            \cup [kind : {"undo", "reset"}, user : User, pair : Pair]
            \cup [kind : {"purge"}, user : User]
            \cup [kind : {"products"}, winner : Product, loser : Product]

\* A swipe that says "different" writes the personal equivalence before it
\* reads anything, and holds that row until it ends.
Verdict(r) == IF r.burst THEN "none" ELSE r.verdict
Holds(r, user, pair) == /\ r.kind \in {"swipe", "slot2"} /\ r.user = user /\ r.pair = pair
                        /\ Verdict(r) \in IF r.kind = "swipe" THEN {"similar", "different"}
                                                              ELSE {"different"}
Waits(i, user, pair) == \E k \in Proc \ {i} : Holds(job[k].request, user, pair)

\* Fault: products that are merged already are accepted.
AdmitsMerged(r) == IF r.kind = "products" THEN r.winner # r.loser
                   ELSE IF r.kind = "reset" THEN vote[r.user][r.pair] # NoVote
                   ELSE r.user \in live

Admissible(r) ==
  CASE r.kind = "reset" -> vote[r.user][r.pair] # NoVote
    [] r.kind = "products" -> /\ r.winner # r.loser
                              /\ mergedInto[r.winner] = NoProduct
                              /\ mergedInto[r.loser] = NoProduct
    [] OTHER -> r.user \in live

Start(i, r) ==
  /\ job[i] = Idle /\ started < MaxRequests
  /\ Admissible(r)
  /\ r.kind \in {"swipe", "slot2"} => ~(Holds(r, r.user, r.pair) /\ Waits(i, r.user, r.pair))
  /\ job' = [job EXCEPT ![i] = [request |-> r, old |-> Snapshot]]
  /\ started' = started + 1
  /\ UNCHANGED <<people, match, graph, drifted, crossed>>

Finish(i) == job' = [job EXCEPT ![i] = Idle] /\ UNCHANGED started

\* An error, a deadlock or a crash: nothing was written.
Rollback(i) == /\ job[i] # Idle
               /\ Finish(i)
               /\ UNCHANGED <<people, match, graph, drifted, crossed>>

-----------------------------------------------------------------------------
(* Merging and splitting products.  g holds the graph as the request sees  *)
(* it, its own writes included, and as it is, and whether a chain was cut.     *)

\* A chain is followed for four products, to its root or not.
Hop(parent, q) == IF parent[q] = NoProduct THEN q ELSE parent[q]
resolveEffectiveProductId(parent, q) == Hop(parent, Hop(parent, Hop(parent, Hop(parent, q))))

Point(g, q, target) ==
  [g EXCEPT !.seen[q] = target, !.now[q] = target,
            !.cut = @ \/ (target # NoProduct /\ {g.seen[q], g.seen[target]} # {NoProduct})]

\* Of a product in the fallback category and one with a real category, the
\* first takes the category of the second.
categoriseUncategorisedOnMerge(g, p, q) ==
  IF Cardinality({p, q} \cap g.uncategorised) = 1
  THEN [g EXCEPT !.uncategorised = @ \ {p, q}, !.fallback = @ \ ({p, q} \cap g.uncategorised)]
  ELSE g

\* The roots are merged, the one a merge prefers stays.
promoteMergeByProductIds(g, a, b) ==
  LET p == resolveEffectiveProductId(g.seen, a)
      q == resolveEffectiveProductId(g.seen, b)
  IN  IF a = b \/ p = q THEN g
      ELSE categoriseUncategorisedOnMerge(IF p < q THEN Point(g, q, p) ELSE Point(g, p, q), p, q)

\* Only a product merged directly into the other is split off.
demoteMergeByProductIds(g, a, b) ==
  IF a = b THEN g
  ELSE IF g.seen[a] = b THEN Point(g, a, NoProduct)
  ELSE IF g.seen[b] = a THEN Point(g, b, NoProduct)
  ELSE g

\* Fault: products are split as soon as they would not be merged.
ReevaluateWithoutBand(g, a, b, tally) ==
  IF Promotes(tally) THEN promoteMergeByProductIds(g, a, b) ELSE demoteMergeByProductIds(g, a, b)

reevaluateMerge(g, a, b, tally) ==
  IF Promotes(tally) THEN promoteMergeByProductIds(g, a, b)
  ELSE IF Demotes(tally) THEN demoteMergeByProductIds(g, a, b)
  ELSE g

\* The tally a request reads after its own writes: a row it did not change is
\* still the one of the snapshot.
getMatchAggregate(old, pair, written) ==
  IF written[pair] = match[pair] THEN old.match[pair] ELSE written[pair]

Reevaluate(i, pairs, written) ==
  LET old == job[i].old
      start == [seen |-> old.mergedInto, now |-> mergedInto,
                uncategorised |-> old.fallback, fallback |-> fallback, cut |-> FALSE]
      step(pair, g) == reevaluateMerge(g, old.productOf[pair[1]], old.productOf[pair[2]],
                                       getMatchAggregate(old, pair, written))
      end == MapThenFoldSet(step, start, LAMBDA p : p, LAMBDA S : CHOOSE p \in S : TRUE, pairs)
  IN  /\ mergedInto' = end.now /\ fallback' = end.fallback
      /\ crossed' = (crossed \/ end.cut \/ (end.now # mergedInto /\ old.mergedInto # mergedInto))
      /\ UNCHANGED productOf

-----------------------------------------------------------------------------
(* Votes.                                                                  *)

RowRead(i) == job[i].old.vote[job[i].request.user][job[i].request.pair]
RowNow(i) == vote[job[i].request.user][job[i].request.pair]

\* Whether the row is inserted or updated is decided by the snapshot: an
\* insertion fails on a row another request inserted, and without its user; an
\* update finds nothing where the row was deleted.
upsertMatchVote(i, aggregated) ==
  LET r == job[i].request
      row == [verdict |-> r.verdict, aggregated |-> aggregated]
  IN  /\ RowRead(i) = NoVote => r.user \in live /\ RowNow(i) = NoVote
      /\ vote' = IF RowRead(i) # NoVote /\ (RowNow(i) = NoVote \/ RowRead(i) = row)
                 THEN vote ELSE [vote EXCEPT ![r.user][r.pair] = row]
      /\ UNCHANGED <<anonymous, live>>

\* The personal equivalence refers to its user, and one request at a time
\* writes it.
upsertEquivalence(i) == LET r == job[i].request
                        IN  r.user \in live /\ ~Waits(i, r.user, r.pair)

Stale(i) == IF RowNow(i) = RowRead(i) THEN {} ELSE {job[i].request.pair}

\* What the flows share: the row, then the tally by the row that was read.
Record(i) ==
  LET r == job[i].request
  IN  /\ upsertMatchVote(i, ~r.burst)
      /\ match' = [match EXCEPT ![r.pair] = applyVoteTransitionDeltas(@, RowRead(i), Verdict(r))]
      /\ drifted' = drifted \cup Stale(i)
      /\ Finish(i)

ReevaluateUnlessBurst(i) ==
  IF job[i].request.burst THEN UNCHANGED <<graph, crossed>>
  ELSE Reevaluate(i, {job[i].request.pair}, match')

castSwipeVote(i) ==
  /\ job[i].request.kind = "swipe"
  /\ job[i].request.burst \/ upsertEquivalence(i)
  /\ Record(i)
  /\ ReevaluateUnlessBurst(i)

castDirectSpPairVote(i) ==
  /\ job[i].request.kind = "direct"
  /\ job[i].request.burst \/ upsertEquivalence(i)
  /\ Record(i)
  /\ ReevaluateUnlessBurst(i)

editVote(i) ==
  /\ job[i].request.kind = "edit"
  /\ upsertEquivalence(i)
  /\ Record(i)
  /\ ReevaluateUnlessBurst(i)

castOrphanSwipeVote(i) ==
  /\ job[i].request.kind = "orphan"
  /\ Record(i)
  /\ ReevaluateUnlessBurst(i)

\* The orphan leaves the fallback category for the category of the other one.
executeRescue(old, orphan, candidate) ==
  LET p == old.productOf[orphan]
      q == old.productOf[candidate]
  IN  IF p \notin old.fallback THEN fallback
      ELSE IF q \in old.fallback THEN fallback \cup {p} ELSE fallback \ {p}

\* Fault: three votes are enough, whatever the others say.
DueAtThree(verdict, tally) == verdict # "different" /\ tally[verdict] >= 3

RescueIsDue(verdict, tally) == \/ verdict = "identical" /\ Promotes(tally)
                               \/ verdict = "similar" /\ PromotesSimilar(tally)

\* A quick swipe overwrites the row and leaves the tally alone, whatever the
\* row was; a slow one is counted, but only ever rescues.
castSlot2Vote(i) ==
  LET r == job[i].request
      tally == getMatchAggregate(job[i].old, r.pair, match')
  IN  /\ r.kind = "slot2"
      /\ IF r.burst
         THEN /\ upsertMatchVote(i, FALSE)
              /\ UNCHANGED <<match, fallback>>
              /\ drifted' = IF RowNow(i).aggregated THEN drifted \cup {r.pair} ELSE drifted
              /\ Finish(i)
         ELSE /\ upsertEquivalence(i)
              /\ Record(i)
              /\ \E orphan, candidate \in {r.pair[1], r.pair[2]} :
                   /\ orphan # candidate
                   /\ fallback' = IF RescueIsDue(r.verdict, tally)
                                  THEN executeRescue(job[i].old, orphan, candidate)
                                  ELSE fallback
      /\ UNCHANGED <<mergedInto, productOf, crossed>>

\* The vote a mint implies: whether the old row was counted is not looked at.
recordTwinPairVote(i) ==
  LET r == job[i].request
      taken == IF RowRead(i).verdict \in {"none", "identical"} THEN match[r.pair]
               ELSE applyAggregateDelta(match[r.pair], RowRead(i).verdict, -1)
  IN  /\ r.kind = "twin"
      /\ upsertEquivalence(i)
      /\ upsertMatchVote(i, TRUE)
      /\ match' = [match EXCEPT ![r.pair] =
                     IF RowRead(i).verdict = "identical" THEN @
                     ELSE applyAggregateDelta(taken, "identical", 1)]
      /\ drifted' = drifted \cup Stale(i) \cup
                    IF RowRead(i) # NoVote /\ ~RowRead(i).aggregated THEN {r.pair} ELSE {}
      /\ Reevaluate(i, {r.pair}, match')
      /\ Finish(i)

\* deleteMatchVote, the tally, and the merge even if there was nothing to undo.
undoSwipeVote(i) ==
  LET r == job[i].request
  IN  /\ r.kind = "undo"
      /\ vote' = IF RowRead(i) = NoVote THEN vote ELSE [vote EXCEPT ![r.user][r.pair] = NoVote]
      /\ match' = IF ~RowRead(i).aggregated THEN match
                  ELSE [match EXCEPT ![r.pair] = applyAggregateDelta(@, RowRead(i).verdict, -1)]
      /\ drifted' = IF RowRead(i) = NoVote THEN drifted ELSE drifted \cup Stale(i)
      /\ Reevaluate(i, {r.pair}, match')
      /\ Finish(i)
      /\ UNCHANGED <<anonymous, live>>

\* A receipt is deleted and with it the votes cast on it, here one of them; the
\* tally is counted again from the other rows of the snapshot.  A row voted
\* again since may have left the receipt.
resetReceiptLearning(i) ==
  LET r == job[i].request
      old == job[i].old
      others == [old.vote EXCEPT ![r.user][r.pair] = NoVote]
      changed == /\ <<[u \in User |-> old.vote[u][r.pair]], old.anonymous[r.pair]>>
                      # <<[u \in User |-> vote[u][r.pair]], anonymous[r.pair]>>
  IN  /\ r.kind = "reset"
      /\ \E row \in {NoVote} \cup (IF RowNow(i) = RowRead(i) THEN {} ELSE {RowNow(i)}) :
           vote' = [vote EXCEPT ![r.user][r.pair] = row]
      /\ match' = [match EXCEPT ![r.pair] = Ballot(others, old.anonymous, r.pair)]
      /\ drifted' = IF changed THEN drifted \cup {r.pair} ELSE drifted \ {r.pair}
      /\ Finish(i)
      /\ UNCHANGED <<anonymous, live, graph, crossed>>

-----------------------------------------------------------------------------
(* Accounts and administrators.                                            *)

\* deleteUser in mode "purge": what was counted is taken back, every pair voted
\* on is evaluated again, then the rows go.
purgeUser(i) ==
  LET u == job[i].request.user
      rows == job[i].old.vote[u]
  IN  /\ job[i].request.kind = "purge"
      /\ match' = [p \in Pair |-> IF rows[p].aggregated
                                  THEN applyAggregateDelta(match[p], rows[p].verdict, -1)
                                  ELSE match[p]]
      /\ vote' = [vote EXCEPT ![u] = [p \in Pair |-> NoVote]]
      /\ live' = live \ {u}
      /\ drifted' = drifted \cup {p \in Pair : vote[u][p] # rows[p]}
      /\ Reevaluate(i, {p \in Pair : rows[p] # NoVote}, match')
      /\ Finish(i)
      /\ UNCHANGED anonymous

\* deleteUser in mode "anonymize": one DELETE, and the foreign key leaves the
\* rows to nobody.
anonymizeUser(u) ==
  /\ u \in live /\ started < MaxRequests
  /\ started' = started + 1
  /\ live' = live \ {u}
  /\ vote' = [vote EXCEPT ![u] = [p \in Pair |-> NoVote]]
  /\ anonymous' = [p \in Pair |->
                     IF vote[u][p].aggregated
                     THEN applyAggregateDelta(anonymous[p], vote[u][p].verdict, 1)
                     ELSE anonymous[p]]
  /\ UNCHANGED <<match, graph, job, drifted, crossed>>

\* A fresh account is merged into the recovered one: the newer verdict stays,
\* "aggregated" stays as it was, and no tally is touched.
mergeStoreProductMatchVotes(fresh, recovered) ==
  /\ fresh # recovered /\ {fresh, recovered} \subseteq live
  /\ started < MaxRequests /\ started' = started + 1
  /\ \E newer \in SUBSET Pair :
       vote' = [vote EXCEPT
                 ![fresh] = [p \in Pair |-> NoVote],
                 ![recovered] = [p \in Pair |->
                   IF vote[fresh][p] = NoVote THEN vote[recovered][p]
                   ELSE IF vote[recovered][p] = NoVote THEN vote[fresh][p]
                   ELSE IF p \in newer THEN [vote[recovered][p] EXCEPT !.verdict = vote[fresh][p].verdict]
                   ELSE vote[recovered][p]]]
  /\ live' = live \ {fresh}
  /\ drifted' = drifted \cup {p \in Pair : vote[fresh][p] # NoVote /\ vote[recovered][p] # NoVote}
  /\ UNCHANGED <<anonymous, match, graph, job, crossed>>

\* An administrator merges products that were roots when they were read; the
\* one with the higher score wins, whatever its name.
mergeProducts(i) ==
  LET r == job[i].request
  IN  /\ r.kind = "products"
      /\ mergedInto' = [mergedInto EXCEPT ![r.loser] = r.winner]
      /\ productOf' = [s \in StoreProduct |-> IF productOf[s] = r.loser THEN r.winner
                                              ELSE productOf[s]]
      /\ crossed' = (crossed \/ job[i].old.mergedInto # mergedInto)
      /\ Finish(i)
      /\ UNCHANGED <<people, match, fallback, drifted>>

-----------------------------------------------------------------------------

\* A history with its tallies right.
Init ==
  /\ \E h \in Histories :
       /\ vote = h.vote /\ anonymous = h.anonymous
       /\ mergedInto = h.mergedInto /\ productOf = h.productOf /\ fallback = h.fallback
  /\ match = [p \in Pair |-> Ballot(vote, anonymous, p)]
  /\ live = User
  /\ job = [i \in Proc |-> Idle] /\ started = 0
  /\ drifted = {} /\ crossed = FALSE

Answer(i) == \/ castSwipeVote(i) \/ castDirectSpPairVote(i) \/ editVote(i)
             \/ castOrphanSwipeVote(i) \/ castSlot2Vote(i) \/ recordTwinPairVote(i)
             \/ undoSwipeVote(i) \/ resetReceiptLearning(i) \/ purgeUser(i)
             \/ mergeProducts(i)

Next == \/ \E i \in Proc : (\E r \in Requests : Start(i, r)) \/ Answer(i) \/ Rollback(i)
        \/ \E u \in User : anonymizeUser(u)
        \/ \E fresh, recovered \in User : mergeStoreProductMatchVotes(fresh, recovered)

Spec == Init /\ [][Next]_vars

-----------------------------------------------------------------------------
(* Properties.                                                             *)

\* A tally is the number of people whose vote counts, once each, however they
\* voted, voted again, undid it or left - unless a request acted on a row that
\* had changed since, a quick rescue swipe or a mint overwrote a row of the
\* other kind, or two accounts with a vote each were merged.
TalliesCountPeople ==
  \A p \in Pair \ drifted : match[p] = Ballot(vote, anonymous, p)

Closed(S) == \A q \in S : mergedInto[q] \in S

\* No product is merged into itself through others, although votes prefer short
\* names and administrators prefer high scores - unless a merge was written
\* over a graph read before another one, or a chain was longer than is followed.
ProductsHaveRoots ==
  crossed \/ \A S \in SUBSET Product : S # {} => ~Closed(S)

\* The ballots a request may have acted upon: as they are after it, and as they
\* were when it began.
Acted(i, p) == {Ballot(vote, anonymous, p)', Ballot(job[i].old.vote, job[i].old.anonymous, p)}
Ends(i) == job[i] # Idle /\ job'[i] = Idle

\* The tally of the pair was wrong when it was read, or is afterwards.
Misread(i, p) == p \in drifted' \/ job[i].old.match[p] # Ballot(job[i].old.vote, job[i].old.anonymous, p)

\* The edge of q joins the products of the pair, or is not the one that was read.
Joins(q, p, old) == \/ {q, mergedInto[q]} \subseteq {old.productOf[p[1]], old.productOf[p[2]]}
                    \/ old.mergedInto # mergedInto

\* Products are merged by votes only where the people agree, and split only
\* where they no longer do and the two products are those of the pair - unless
\* the split was written over a graph that had changed since it was read, or
\* undid, in a purge of many pairs, what was merged at the end of a cut chain.
MergesFollowVotes ==
  [][\A q \in Product : mergedInto'[q] # mergedInto[q] =>
       \E i \in Proc : Ends(i) /\
         IF job[i].request.kind = "products" THEN q = job[i].request.loser
         ELSE \E p \in Pair :
                \/ Misread(i, p)
                \/ \E ballot \in Acted(i, p) :
                     IF mergedInto'[q] # NoProduct THEN Promotes(ballot)
                     ELSE /\ Demotes(ballot)
                          /\ Joins(q, p, job[i].old) \/ (job[i].request.kind = "purge" /\ crossed')]_vars

\* A product gets its category from another one only where the people agree
\* that the two are the same, or at least alike.
RescuesFollowVotes ==
  [][\A q \in fallback \ fallback' :
       \E i \in Proc : Ends(i) /\ \E p \in Pair :
         Misread(i, p) \/ \E ballot \in Acted(i, p) : Promotes(ballot) \/ PromotesSimilar(ballot)]_vars
=============================================================================
