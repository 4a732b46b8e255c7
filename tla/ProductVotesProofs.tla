--------------------------- MODULE ProductVotesProofs ---------------------------
(***************************************************************************)
(* The tallies count people, products keep their roots, and what is merged,*)
(* split or rescued follows the votes, for any number of users, products,  *)
(* pairs and requests.                                                     *)
(*                                                                         *)
(* The people behind a tally are split into one user and the others: a     *)
(* request changes the row of its own user and leaves Others alone, so     *)
(* that only the user's own contribution has to be followed.  The merges   *)
(* of a request are followed from one pair that it evaluates to the next.  *)
(***************************************************************************)
EXTENDS ProductVotes, FoldProofs, FiniteSetTheorems, TLAPS

\* The rows of vote_counts: what each user has said of each pair.
Votings == [User -> [Pair -> Row \cup {NoVote}]]

\* What the proof has to know of a request and of its snapshot.
JobTyped(j) == j # Idle =>
  /\ j.request \in Requests
  /\ j.old.vote \in Votings /\ j.old.anonymous \in [Pair -> Tally]

\* The types, with the jobs a table over the processes.
Typed == /\ vote \in Votings /\ anonymous \in [Pair -> Tally]
         /\ match \in [Pair -> Tally] /\ drifted \subseteq Pair
         /\ job = [i \in Proc |-> job[i]]
         /\ \A i \in Proc : JobTyped(job[i])

\* The invariant: the types of the votes and the snapshots, and the tallies.
IInv == Typed /\ TalliesCountPeople

-----------------------------------------------------------------------------
(* One user and the others.                                                *)

\* Whether a row counts for a verdict, and how many of the other users' rows
\* do.
Counts(row, v) == row = [verdict |-> v, aggregated |-> TRUE]
One(row, v) == IF Counts(row, v) THEN 1 ELSE 0
Others(votes, u, p, v) == Cardinality({w \in User \ {u} : Counts(votes[w][p], v)})

\* The voters of a verdict are finitely many.
LEMMA VotersFinite ==
  ASSUME NEW votes, NEW p, NEW v
  PROVE  IsFiniteSet(Voters(votes, p, v)) /\ Cardinality(Voters(votes, p, v)) \in Nat
<1>1. IsFiniteSet(Voters(votes, p, v))
  BY VotesAssumption, FS_Subset DEF VotesAssumption, Voters
<1> QED BY <1>1, FS_CardinalityType

\* The number of voters is that of the others, and one if the user counts.
LEMMA OneAndOthers ==
  ASSUME NEW votes, NEW u \in User, NEW p, NEW v
  PROVE  /\ Others(votes, u, p, v) \in Nat
         /\ Cardinality(Voters(votes, p, v)) = Others(votes, u, p, v) + One(votes[u][p], v)
<1> DEFINE S == {w \in User \ {u} : Counts(votes[w][p], v)}
<1>1. IsFiniteSet(S)
  BY VotesAssumption, FS_Subset DEF VotesAssumption
<1>2. Cardinality(S) \in Nat
  BY <1>1, FS_CardinalityType
<1>3. CASE Counts(votes[u][p], v)
  <2>1. Voters(votes, p, v) = S \cup {u} /\ u \notin S
    BY <1>3 DEF Voters, Counts
  <2>2. Cardinality(S \cup {u}) = Cardinality(S) + 1
    BY <1>1, <2>1, FS_AddElement
  <2> QED BY <1>2, <1>3, <2>1, <2>2 DEF Others, One
<1>4. CASE ~Counts(votes[u][p], v)
  <2>1. Voters(votes, p, v) = S
    BY <1>4 DEF Voters, Counts
  <2> QED BY <1>2, <1>4, <2>1 DEF Others, One
<1> QED BY <1>3, <1>4

\* The ballots of a pair differ by what one row counts.
Moves(votes, votes2, unnamed, u, p, v) ==
  /\ Ballot(votes, unnamed, p)[v] \in Nat
  /\ Ballot(votes2, unnamed, p)[v]
       = Ballot(votes, unnamed, p)[v] - One(votes[u][p], v) + One(votes2[u][p], v)
  /\ Ballot(votes, unnamed, p)[v] >= One(votes[u][p], v)

\* Ballots where the votes differ in the row of one user only.
LEMMA BallotMoves ==
  \A votes, votes2, unnamed : \A u \in User, p \in Pair, v \in MatchVote :
    unnamed[p][v] \in Nat /\ (\A w \in User \ {u} : votes2[w][p] = votes[w][p])
      => Moves(votes, votes2, unnamed, u, p, v)
<1> SUFFICES ASSUME NEW votes, NEW votes2, NEW unnamed, NEW u \in User, NEW p \in Pair,
                    NEW v \in MatchVote, unnamed[p][v] \in Nat,
                    \A w \in User \ {u} : votes2[w][p] = votes[w][p]
             PROVE  Moves(votes, votes2, unnamed, u, p, v)
  OBVIOUS
<1>1. Others(votes2, u, p, v) = Others(votes, u, p, v)
  <2>1. {w \in User \ {u} : Counts(votes2[w][p], v)} = {w \in User \ {u} : Counts(votes[w][p], v)}
    OBVIOUS
  <2> QED BY <2>1 DEF Others
<1>2. unnamed[p][v] \in Nat
  OBVIOUS
<1>3. /\ Ballot(votes, unnamed, p)[v] = Cardinality(Voters(votes, p, v)) + unnamed[p][v]
      /\ Ballot(votes2, unnamed, p)[v] = Cardinality(Voters(votes2, p, v)) + unnamed[p][v]
  BY DEF Ballot
<1> QED
  BY <1>1, <1>2, <1>3, OneAndOthers DEF One, Moves

-----------------------------------------------------------------------------
(* Tallies move as ballots do.                                             *)

\* A delta leaves a tally of natural numbers, and adds up where it is not clamped.
LEMMA DeltaAdds ==
  ASSUME NEW t \in Tally, NEW verdict \in MatchVote, NEW d \in {-1, 1}
  PROVE  /\ applyAggregateDelta(t, verdict, d) \in Tally
         /\ \A v \in MatchVote \ {verdict} : applyAggregateDelta(t, verdict, d)[v] = t[v]
         /\ t[verdict] + d >= 0 => applyAggregateDelta(t, verdict, d)[verdict] = t[verdict] + d
  BY DEF applyAggregateDelta, Tally

\* What one verdict adds to the tally of another.
Gain(verdict, v) == IF v = verdict THEN 1 ELSE 0

\* The same, with what is added or taken for each verdict.
LEMMA DeltaMoves ==
  ASSUME NEW t \in Tally, NEW verdict \in MatchVote
  PROVE  /\ applyAggregateDelta(t, verdict, 1) \in Tally
         /\ applyAggregateDelta(t, verdict, -1) \in Tally
         /\ \A v \in MatchVote : t[v] \in Nat
         /\ \A v \in MatchVote : applyAggregateDelta(t, verdict, 1)[v] = t[v] + Gain(verdict, v)
         /\ t[verdict] >= 1 =>
              \A v \in MatchVote : applyAggregateDelta(t, verdict, -1)[v] = t[v] - Gain(verdict, v)
  BY DEF applyAggregateDelta, Tally, Gain

\* What a row counts.
LEMMA RowCounts ==
  ASSUME NEW row \in Row \cup {NoVote}, NEW v \in MatchVote
  PROVE  /\ row.aggregated => One(row, v) = Gain(row.verdict, v) /\ row.verdict \in MatchVote
         /\ ~row.aggregated => One(row, v) = 0
         /\ row = NoVote => Gain(row.verdict, v) = 0
  BY DEF One, Counts, Gain, Row, NoVote, MatchVote

\* Only a verdict is counted.
LEMMA CountedVerdict ==
  ASSUME NEW row \in Row \cup {NoVote}, row.aggregated
  PROVE  row.verdict \in MatchVote
  BY DEF Row, NoVote

\* A transition takes back what the old row counted and adds the new verdict.
LEMMA TransitionAdds ==
  ASSUME NEW t \in Tally, NEW row \in Row \cup {NoVote}, NEW verdict \in MatchVote \cup {"none"}
  PROVE  /\ applyVoteTransitionDeltas(t, row, verdict) \in Tally
         /\ (\A v \in MatchVote : t[v] >= One(row, v)) =>
              \A v \in MatchVote : applyVoteTransitionDeltas(t, row, verdict)[v]
                                    = t[v] - One(row, v) + Gain(verdict, v)
<1> DEFINE kept == IF Takes(row, verdict) THEN applyAggregateDelta(t, row.verdict, -1) ELSE t
           held == \A v \in MatchVote : t[v] >= One(row, v)
<1>1. row.aggregated => row \in Row /\ row.verdict \in MatchVote
  BY DEF Row, NoVote
<1>2. \A v \in MatchVote : Counts(row, v) <=> row.aggregated /\ row.verdict = v
  BY DEF Row, NoVote, Counts
<1>3. /\ kept \in Tally
      /\ held => \A v \in MatchVote : kept[v] = t[v] - (IF Takes(row, verdict) THEN One(row, v) ELSE 0)
  <2>1. CASE Takes(row, verdict)
    <3>1. row.aggregated /\ row.verdict \in MatchVote
      BY <1>1, <2>1 DEF Takes
    <3>2. kept = applyAggregateDelta(t, row.verdict, -1)
      BY <2>1
    <3>3. held => t[row.verdict] + (-1) >= 0
      BY <3>1, <1>2 DEF One, Tally
    <3>4. t \in [MatchVote -> Nat]
      BY DEF Tally
    <3>5. \A v \in MatchVote : One(row, v) = IF v = row.verdict THEN 1 ELSE 0
      BY <3>1, <1>2 DEF One
    <3>6. /\ kept \in Tally
          /\ \A v \in MatchVote \ {row.verdict} : kept[v] = t[v]
          /\ held => kept[row.verdict] = t[row.verdict] + (-1)
      <4>1. /\ applyAggregateDelta(t, row.verdict, -1) \in Tally
            /\ \A v \in MatchVote \ {row.verdict} : applyAggregateDelta(t, row.verdict, -1)[v] = t[v]
            /\ t[row.verdict] + (-1) >= 0 =>
                 applyAggregateDelta(t, row.verdict, -1)[row.verdict] = t[row.verdict] + (-1)
        BY <3>1, DeltaAdds
      <4> HIDE DEF kept, held
      <4> QED BY <3>2, <3>3, <4>1
    <3> QED
      BY <2>1, <3>4, <3>5, <3>6
  <2>2. CASE ~Takes(row, verdict)
    BY <2>2 DEF Tally
  <2> QED BY <2>1, <2>2
<1>4. applyVoteTransitionDeltas(t, row, verdict)
        = IF Gives(row, verdict) THEN applyAggregateDelta(kept, verdict, 1) ELSE kept
  BY DEF applyVoteTransitionDeltas
<1>5. kept \in [MatchVote -> Nat] /\ t \in [MatchVote -> Nat]
  BY <1>3 DEF Tally
<1> HIDE DEF kept
<1>6. CASE Gives(row, verdict)
  <2>1. verdict \in MatchVote /\ kept[verdict] + 1 >= 0
    BY <1>5, <1>6 DEF Gives
  <2>2. /\ applyAggregateDelta(kept, verdict, 1) \in Tally
        /\ \A v \in MatchVote : applyAggregateDelta(kept, verdict, 1)[v] = kept[v] + Gain(verdict, v)
    <3>1. /\ applyAggregateDelta(kept, verdict, 1) \in Tally
          /\ \A v \in MatchVote \ {verdict} : applyAggregateDelta(kept, verdict, 1)[v] = kept[v]
          /\ applyAggregateDelta(kept, verdict, 1)[verdict] = kept[verdict] + 1
      BY <1>3, <2>1, DeltaAdds
    <3> QED BY <1>5, <3>1 DEF Gain
  <2>3. \A v \in MatchVote : (IF Takes(row, verdict) THEN One(row, v) ELSE 0) = One(row, v)
    BY <1>2, <1>6 DEF Gives, Takes, One
  <2>4. held => \A v \in MatchVote : kept[v] = t[v] - One(row, v)
    BY <1>3, <2>3
  <2> QED
    BY <1>4, <1>6, <2>2, <2>4
<1>7. CASE ~Gives(row, verdict)
  <2>1. \A v \in MatchVote : (IF Takes(row, verdict) THEN One(row, v) ELSE 0)
                               = One(row, v) - Gain(verdict, v)
    BY <1>2, <1>7 DEF Gives, Takes, One, Gain, MatchVote
  <2> QED
    BY <1>3, <1>4, <1>5, <1>7, <2>1 DEF One, Gain
<1> QED BY <1>6, <1>7

\* A step on one row keeps the tallies if the tally of its pair moves as the row
\* does, or the pair is given up.
LEMMA RowStep ==
  ASSUME IInv, NEW u \in User, NEW q \in Pair, NEW row \in Row \cup {NoVote},
         NEW t \in Tally,
         vote' = [vote EXCEPT ![u][q] = row], anonymous' = anonymous,
         match' = [match EXCEPT ![q] = t], drifted \subseteq drifted',
         q \notin drifted' => \A v \in MatchVote :
            t[v] = match[q][v] - One(vote[u][q], v) + One(row, v)
  PROVE  /\ TalliesCountPeople' /\ vote' \in Votings
         /\ anonymous' \in [Pair -> Tally] /\ match' \in [Pair -> Tally]
<1> USE DEF IInv, Typed
<1>1. vote' \in Votings /\ anonymous' \in [Pair -> Tally] /\ match' \in [Pair -> Tally]
  BY DEF Votings
<1> SUFFICES ASSUME NEW p \in Pair, p \notin drifted'
             PROVE  match'[p] = Ballot(vote', anonymous', p)
  BY <1>1 DEF TalliesCountPeople
<1>2. match[p] = Ballot(vote, anonymous, p)
  BY DEF TalliesCountPeople
<1>3. vote \in Votings /\ \A w \in User \ {u} : vote'[w][p] = vote[w][p]
  BY DEF Votings
<1>4. vote'[u][p] = IF p = q THEN row ELSE vote[u][p]
  BY <1>3 DEF Votings
<1>5. match'[p] \in Tally /\ match'[p] = IF p = q THEN t ELSE match[p]
  OBVIOUS
<1>6. \A v \in MatchVote : match'[p][v] = Ballot(vote', anonymous, p)[v]
  <2> TAKE v \in MatchVote
  <2>1. anonymous[p][v] \in Nat
    BY DEF Tally
  <2>2. Moves(vote, vote', anonymous, u, p, v)
    <3>1. \A w \in User \ {u} : vote'[w][p] = vote[w][p]
      BY <1>3
    <3> QED BY <2>1, <3>1, BallotMoves
  <2>3. CASE p = q
    BY <1>2, <1>4, <1>5, <2>2, <2>3 DEF Moves
  <2>4. CASE p # q
    BY <1>2, <1>4, <1>5, <2>2, <2>4 DEF One, Moves
  <2> QED BY <2>3, <2>4
<1>7. match'[p] = [v \in MatchVote |-> match'[p][v]]
  BY <1>5 DEF Tally
<1>8. Ballot(vote', anonymous, p) = [v \in MatchVote |-> Ballot(vote', anonymous, p)[v]]
  BY DEF Ballot
<1> QED BY <1>6, <1>7, <1>8

-----------------------------------------------------------------------------
(* Requests and their rows.                                                *)

\* The requests that write a user's row.
RowKinds == {"swipe", "direct", "slot2", "edit", "orphan", "twin", "undo", "reset"}

\* What a request about one row holds.
LEMMA RequestHolds ==
  ASSUME Typed, NEW i \in Proc, job[i].request.kind \in RowKinds
  PROVE  /\ job[i] # Idle
         /\ job[i].request.user \in User /\ job[i].request.pair \in Pair
         /\ RowRead(i) \in Row \cup {NoVote} /\ RowNow(i) \in Row \cup {NoVote}
         /\ job[i].old.vote \in Votings /\ job[i].old.anonymous \in [Pair -> Tally]
         /\ job[i].request.kind \notin {"undo", "reset"} =>
              /\ job[i].request.verdict \in MatchVote /\ job[i].request.burst \in BOOLEAN
              /\ Verdict(job[i].request) \in MatchVote \cup {"none"}
<1>1. job[i] # Idle
  BY DEF Idle, RowKinds
<1>2. /\ job[i].request \in Requests
      /\ job[i].old.vote \in Votings /\ job[i].old.anonymous \in [Pair -> Tally]
  BY <1>1 DEF Typed, JobTyped
<1>3. job[i].request.user \in User /\ job[i].request.pair \in Pair
  BY <1>2 DEF RowKinds, Requests, Votes
<1>4. job[i].request.kind \notin {"undo", "reset"} =>
        job[i].request.verdict \in MatchVote /\ job[i].request.burst \in BOOLEAN
  BY <1>2 DEF RowKinds, Requests, Votes, MatchVote
<1>5. RowRead(i) \in Row \cup {NoVote} /\ RowNow(i) \in Row \cup {NoVote}
  BY <1>2, <1>3 DEF RowRead, RowNow, Typed, Votings
<1> QED BY <1>1, <1>2, <1>3, <1>4, <1>5 DEF Verdict

\* A request that ends leaves the others as they were.
LEMMA FinishKeeps ==
  ASSUME Typed, NEW i \in Proc, Finish(i)
  PROVE  job' = [k \in Proc |-> job'[k]] /\ \A k \in Proc : JobTyped(job'[k])
  BY DEF Typed, Finish, JobTyped

\* The row is written as a change of one row, perhaps to what it was.
LEMMA UpsertIsOneRow ==
  ASSUME Typed, NEW i \in Proc, job[i].request.kind \in RowKinds \ {"undo", "reset"},
         NEW aggregated \in BOOLEAN, upsertMatchVote(i, aggregated)
  PROVE  \E row \in Row \cup {NoVote} :
           /\ vote' = [vote EXCEPT ![job[i].request.user][job[i].request.pair] = row]
           /\ RowNow(i) = RowRead(i) =>
                row = [verdict |-> job[i].request.verdict, aggregated |-> aggregated]
<1> DEFINE r == job[i].request
           new == [verdict |-> r.verdict, aggregated |-> aggregated]
<1>1. r.user \in User /\ r.pair \in Pair /\ r.verdict \in MatchVote
  BY RequestHolds
<1>2. new \in Row /\ RowNow(i) \in Row \cup {NoVote}
  BY <1>1, RequestHolds DEF Row
<1>3. vote = [vote EXCEPT ![r.user][r.pair] = RowNow(i)]
  BY <1>1 DEF Typed, Votings, RowNow
<1>4. CASE RowRead(i) # NoVote /\ (RowNow(i) = NoVote \/ RowRead(i) = new)
  <2>1. vote' = [vote EXCEPT ![r.user][r.pair] = RowNow(i)]
    BY <1>3, <1>4 DEF upsertMatchVote
  <2>2. RowNow(i) = RowRead(i) => RowNow(i) = new
    BY <1>4
  <2> QED BY <1>2, <2>1, <2>2
<1>5. CASE ~(RowRead(i) # NoVote /\ (RowNow(i) = NoVote \/ RowRead(i) = new))
  <2>1. vote' = [vote EXCEPT ![r.user][r.pair] = new]
    BY <1>5 DEF upsertMatchVote
  <2> QED BY <1>2, <2>1
<1> QED BY <1>4, <1>5

\* Where nobody gave the pair up, its tally covers what one row counts.
LEMMA TallyCovers ==
  ASSUME IInv, NEW u \in User, NEW p \in Pair, p \notin drifted, NEW v \in MatchVote
  PROVE  match[p][v] \in Nat /\ match[p][v] >= One(vote[u][p], v)
<1>1. match[p] = Ballot(vote, anonymous, p)
  BY DEF IInv, TalliesCountPeople
<1>2. anonymous[p][v] \in Nat
  BY DEF IInv, Typed, Tally
<1>3. Moves(vote, vote, anonymous, u, p, v)
  BY <1>2, BallotMoves
<1> QED BY <1>1, <1>3 DEF Moves

\* The conjuncts of the invariant that a step on one row leaves to show.
Kept == TalliesCountPeople' /\ vote' \in Votings /\ anonymous' \in [Pair -> Tally]
        /\ match' \in [Pair -> Tally] /\ drifted' \subseteq Pair

\* Record, which most flows share.
LEMMA RecordKeeps ==
  ASSUME IInv, NEW i \in Proc, job[i].request.kind \in RowKinds \ {"undo", "reset"}, Record(i)
  PROVE  IInv'
<1> DEFINE r == job[i].request
           t == applyVoteTransitionDeltas(match[r.pair], RowRead(i), Verdict(r))
<1>1. Typed
  BY DEF IInv
<1>2. /\ r.user \in User /\ r.pair \in Pair /\ r.verdict \in MatchVote /\ r.burst \in BOOLEAN
      /\ RowRead(i) \in Row \cup {NoVote} /\ Verdict(r) \in MatchVote \cup {"none"}
  BY <1>1, RequestHolds
<1>3. PICK row \in Row \cup {NoVote} :
        /\ vote' = [vote EXCEPT ![r.user][r.pair] = row]
        /\ RowNow(i) = RowRead(i) => row = [verdict |-> r.verdict, aggregated |-> ~r.burst]
  <2>1. upsertMatchVote(i, ~r.burst)
    BY DEF Record
  <2>2. (~r.burst) \in BOOLEAN
    BY <1>2
  <2> HIDE DEF t
  <2> QED BY <1>1, <2>1, <2>2, UpsertIsOneRow
<1>4. match' = [match EXCEPT ![r.pair] = t]
  BY <1>1, <1>2 DEF Record, Typed
<1>5. match[r.pair] \in Tally
  BY <1>1, <1>2 DEF Typed
<1>6. /\ t \in Tally
      /\ (\A v \in MatchVote : match[r.pair][v] >= One(RowRead(i), v)) =>
           \A v \in MatchVote : t[v] = match[r.pair][v] - One(RowRead(i), v) + Gain(Verdict(r), v)
  BY <1>2, <1>5, TransitionAdds
<1>7. drifted \subseteq drifted' /\ drifted' \subseteq Pair
  BY <1>1, <1>2 DEF Record, Stale, Typed
<1>8. ASSUME r.pair \notin drifted'
      PROVE  \A v \in MatchVote :
               t[v] = match[r.pair][v] - One(vote[r.user][r.pair], v) + One(row, v)
  <2>1. RowNow(i) = RowRead(i) /\ RowRead(i) = vote[r.user][r.pair]
    BY <1>8 DEF Record, Stale, RowNow
  <2>2. \A v \in MatchVote : match[r.pair][v] >= One(RowRead(i), v)
    BY <1>2, <1>7, <1>8, <2>1, TallyCovers
  <2>3. \A v \in MatchVote : Gain(Verdict(r), v) = One(row, v)
    <3>1. CASE r.burst
      <4>1. (~r.burst) = FALSE
        BY <3>1
      <4>2. row = [verdict |-> r.verdict, aggregated |-> FALSE] /\ Verdict(r) = "none"
        BY <1>3, <2>1, <3>1, <4>1 DEF Verdict
      <4> QED BY <4>2 DEF Gain, One, Counts, MatchVote
    <3>2. CASE ~r.burst
      <4>1. (~r.burst) = TRUE
        BY <3>2
      <4>2. row = [verdict |-> r.verdict, aggregated |-> TRUE] /\ Verdict(r) = r.verdict
        BY <1>3, <2>1, <3>2, <4>1 DEF Verdict
      <4> QED BY <4>2 DEF Gain, One, Counts, MatchVote
    <3> QED BY <3>1, <3>2
  <2> QED BY <1>6, <2>1, <2>2, <2>3
<1>9. anonymous' = anonymous
  BY DEF Record, upsertMatchVote
<1>10. vote' = [vote EXCEPT ![r.user][r.pair] = row]
  BY <1>3
<1>11. t \in Tally /\ r.user \in User /\ r.pair \in Pair
  BY <1>2, <1>6
<1> HIDE DEF t, r
<1>12. /\ TalliesCountPeople' /\ vote' \in Votings
       /\ anonymous' \in [Pair -> Tally] /\ match' \in [Pair -> Tally]
  BY <1>10, <1>11, <1>4, <1>7, <1>8, <1>9, RowStep
<1>13. job' = [k \in Proc |-> job'[k]] /\ \A k \in Proc : JobTyped(job'[k])
  BY <1>1, FinishKeeps DEF Record
<1> QED BY <1>7, <1>12, <1>13 DEF IInv, Typed, JobTyped

-----------------------------------------------------------------------------
(* One lemma for each request.                                             *)

\* A second-slot vote keeps the tallies,
LEMMA SlotKeeps == ASSUME IInv, NEW i \in Proc, castSlot2Vote(i) PROVE IInv'
<1> DEFINE r == job[i].request
<1>1. Typed /\ r.kind \in RowKinds \ {"undo", "reset"}
  BY DEF IInv, castSlot2Vote, RowKinds
<1>2. CASE ~r.burst
  BY <1>1, <1>2, RecordKeeps DEF castSlot2Vote
<1>3. CASE r.burst
  <2>1. upsertMatchVote(i, FALSE) /\ match' = match /\ Finish(i)
        /\ drifted' = (IF RowNow(i).aggregated THEN drifted \cup {r.pair} ELSE drifted)
    BY <1>3 DEF castSlot2Vote
  <2>2. r.user \in User /\ r.pair \in Pair /\ RowNow(i) \in Row \cup {NoVote}
    BY <1>1, RequestHolds
  <2>3. PICK row \in Row \cup {NoVote} :
          /\ vote' = [vote EXCEPT ![r.user][r.pair] = row]
          /\ row = RowNow(i) \/ row = [verdict |-> r.verdict, aggregated |-> FALSE]
    <3>1. vote = [vote EXCEPT ![r.user][r.pair] = RowNow(i)]
      BY <1>1, <2>2 DEF Typed, Votings, RowNow
    <3>2. [verdict |-> r.verdict, aggregated |-> FALSE] \in Row
      BY <1>1, RequestHolds DEF Row
    <3> QED BY <2>1, <2>2, <3>1, <3>2 DEF upsertMatchVote
  <2>4. match' = [match EXCEPT ![r.pair] = match[r.pair]] /\ match[r.pair] \in Tally
    BY <1>1, <2>1, <2>2 DEF Typed
  <2>5. drifted \subseteq drifted' /\ drifted' \subseteq Pair
    BY <1>1, <2>1, <2>2 DEF Typed
  <2>6. ASSUME r.pair \notin drifted'
        PROVE  \A v \in MatchVote : match[r.pair][v]
                 = match[r.pair][v] - One(vote[r.user][r.pair], v) + One(row, v)
    <3>1. ~RowNow(i).aggregated /\ RowNow(i) = vote[r.user][r.pair]
      BY <2>1, <2>6 DEF RowNow
    <3>2. \A v \in MatchVote : One(vote[r.user][r.pair], v) = 0 /\ One(row, v) = 0
      BY <2>3, <3>1 DEF One, Counts
    <3>3. \A v \in MatchVote : match[r.pair][v] \in Nat
      BY <2>4 DEF Tally
    <3> QED BY <3>2, <3>3
  <2>7. anonymous' = anonymous
    BY <2>1 DEF upsertMatchVote
  <2>8. job' = [k \in Proc |-> job'[k]] /\ \A k \in Proc : JobTyped(job'[k])
    BY <1>1, <2>1, FinishKeeps
  <2> HIDE DEF r
  <2>9. /\ TalliesCountPeople' /\ vote' \in Votings
        /\ anonymous' \in [Pair -> Tally] /\ match' \in [Pair -> Tally]
    BY <2>2, <2>3, <2>4, <2>5, <2>6, <2>7, RowStep
  <2> QED BY <2>5, <2>8, <2>9 DEF IInv, Typed, JobTyped
<1> QED BY <1>2, <1>3

\* as does the vote on a twin pair,
LEMMA TwinKeeps == ASSUME IInv, NEW i \in Proc, recordTwinPairVote(i) PROVE IInv'
<1> DEFINE r == job[i].request
           taken == IF RowRead(i).verdict \in {"none", "identical"} THEN match[r.pair]
                    ELSE applyAggregateDelta(match[r.pair], RowRead(i).verdict, -1)
           t == IF RowRead(i).verdict = "identical" THEN match[r.pair]
                ELSE applyAggregateDelta(taken, "identical", 1)
<1>1. Typed /\ r.kind \in RowKinds \ {"undo", "reset"}
  BY DEF IInv, recordTwinPairVote, RowKinds
<1>2. r.kind = "twin" /\ job[i] # Idle
  BY <1>1, RequestHolds DEF recordTwinPairVote
<1>3. /\ r.user \in User /\ r.pair \in Pair /\ r.verdict = "identical"
      /\ RowRead(i) \in Row \cup {NoVote}
  <2>1. r \in Requests
    BY <1>1, <1>2 DEF Typed, JobTyped
  <2>2. r.verdict = "identical"
    BY <1>2, <2>1 DEF Requests, Votes
  <2> QED BY <1>1, <2>2, RequestHolds
<1>4. PICK row \in Row \cup {NoVote} :
        /\ vote' = [vote EXCEPT ![r.user][r.pair] = row]
        /\ RowNow(i) = RowRead(i) => row = [verdict |-> "identical", aggregated |-> TRUE]
  <2>1. upsertMatchVote(i, TRUE)
    BY DEF recordTwinPairVote
  <2> HIDE DEF taken, t
  <2>2. \E row \in Row \cup {NoVote} :
          /\ vote' = [vote EXCEPT ![job[i].request.user][job[i].request.pair] = row]
          /\ RowNow(i) = RowRead(i) =>
               row = [verdict |-> job[i].request.verdict, aggregated |-> TRUE]
    BY <1>1, <2>1, UpsertIsOneRow
  <2> QED BY <1>3, <2>2
<1>5. match' = [match EXCEPT ![r.pair] = t] /\ match[r.pair] \in Tally
  BY <1>1, <1>3 DEF recordTwinPairVote, Typed
<1>6. RowRead(i).verdict \in MatchVote \cup {"none"}
  BY <1>3 DEF Row, NoVote
<1>7. taken \in Tally
  BY <1>5, <1>6, DeltaAdds DEF MatchVote
<1>8. t \in Tally
  <2> HIDE DEF taken
  <2> QED BY <1>5, <1>7, DeltaAdds DEF MatchVote
<1>9. drifted \subseteq drifted' /\ drifted' \subseteq Pair
  BY <1>1, <1>3 DEF recordTwinPairVote, Stale, Typed
<1>10. ASSUME r.pair \notin drifted'
       PROVE  \A v \in MatchVote :
                t[v] = match[r.pair][v] - One(vote[r.user][r.pair], v) + One(row, v)
  <2>1. /\ RowNow(i) = RowRead(i) /\ RowRead(i) = vote[r.user][r.pair]
        /\ RowRead(i) # NoVote => RowRead(i).aggregated
    BY <1>10 DEF recordTwinPairVote, Stale, RowNow
  <2>2. \A v \in MatchVote : match[r.pair][v] \in Nat /\ match[r.pair][v] >= One(RowRead(i), v)
    BY <1>3, <1>9, <1>10, <2>1, TallyCovers
  <2>3. \A v \in MatchVote : One(row, v) = Gain("identical", v)
    BY <1>4, <2>1 DEF One, Counts, Gain
  <2>4. \A v \in MatchVote : One(RowRead(i), v) = Gain(RowRead(i).verdict, v)
    BY <1>3, <2>1, RowCounts DEF NoVote
  <2>5. CASE RowRead(i).verdict = "identical"
    BY <1>5, <2>1, <2>2, <2>3, <2>4, <2>5 DEF Gain, Tally
  <2>6. CASE RowRead(i).verdict = "none"
    <3>1. t = applyAggregateDelta(match[r.pair], "identical", 1)
      BY <2>6
    <3>2. \A v \in MatchVote : t[v] = match[r.pair][v] + Gain("identical", v)
      <4>1. "identical" \in MatchVote
        BY DEF MatchVote
      <4> HIDE DEF t
      <4> QED BY <1>5, <3>1, <4>1, DeltaMoves
    <3>3. \A v \in MatchVote : Gain(RowRead(i).verdict, v) = 0
      BY <2>6 DEF Gain, MatchVote
    <3> HIDE DEF t
    <3> QED BY <2>1, <2>2, <2>3, <2>4, <3>2, <3>3 DEF Gain
  <2>7. CASE RowRead(i).verdict \in MatchVote \ {"identical"}
    <3> DEFINE w == RowRead(i).verdict
    <3>1. taken = applyAggregateDelta(match[r.pair], w, -1)
          /\ t = applyAggregateDelta(taken, "identical", 1)
      BY <2>7 DEF MatchVote
    <3>2. match[r.pair][w] >= 1 /\ w \in MatchVote
      BY <2>2, <2>4, <2>7 DEF Gain
    <3> HIDE DEF taken, t, w
    <3>3. \A v \in MatchVote : taken[v] = match[r.pair][v] - Gain(w, v)
      BY <1>5, <3>1, <3>2, DeltaMoves
    <3>4. "identical" \in MatchVote
      BY DEF MatchVote
    <3>5. \A v \in MatchVote : taken[v] \in Nat
      BY <1>7 DEF Tally
    <3>6. \A v \in MatchVote : t[v] = taken[v] + Gain("identical", v)
      BY <1>7, <3>1, <3>4, DeltaMoves
    <3>7. \A v \in MatchVote : One(RowRead(i), v) = Gain(w, v)
      BY <2>4 DEF w
    <3> QED BY <2>1, <2>2, <2>3, <3>3, <3>5, <3>6, <3>7 DEF Gain
  <2> QED BY <1>6, <2>5, <2>6, <2>7
<1>11. anonymous' = anonymous
  BY DEF recordTwinPairVote, upsertMatchVote
<1>12. job' = [k \in Proc |-> job'[k]] /\ \A k \in Proc : JobTyped(job'[k])
  BY <1>1, FinishKeeps DEF recordTwinPairVote
<1> HIDE DEF t, r, taken
<1>13. /\ TalliesCountPeople' /\ vote' \in Votings
       /\ anonymous' \in [Pair -> Tally] /\ match' \in [Pair -> Tally]
  BY <1>3, <1>4, <1>5, <1>8, <1>9, <1>10, <1>11, RowStep
<1> QED BY <1>9, <1>12, <1>13 DEF IInv, Typed, JobTyped

\* the undoing of a swipe,
LEMMA UndoKeeps == ASSUME IInv, NEW i \in Proc, undoSwipeVote(i) PROVE IInv'
<1> DEFINE r == job[i].request
           t == IF ~RowRead(i).aggregated THEN match[r.pair]
                ELSE applyAggregateDelta(match[r.pair], RowRead(i).verdict, -1)
           row == IF RowRead(i) = NoVote THEN RowNow(i) ELSE NoVote
<1>1. Typed /\ r.kind \in RowKinds
  BY DEF IInv, undoSwipeVote, RowKinds
<1>2. /\ r.user \in User /\ r.pair \in Pair
      /\ RowRead(i) \in Row \cup {NoVote} /\ RowNow(i) \in Row \cup {NoVote}
  BY <1>1, RequestHolds
<1>3. vote' = [vote EXCEPT ![r.user][r.pair] = row] /\ row \in Row \cup {NoVote}
  BY <1>1, <1>2 DEF undoSwipeVote, Typed, Votings, RowNow
<1>4. match' = [match EXCEPT ![r.pair] = t] /\ match[r.pair] \in Tally
  BY <1>1, <1>2 DEF undoSwipeVote, Typed
<1>5. RowRead(i).aggregated => RowRead(i).verdict \in MatchVote /\ RowRead(i) # NoVote
  BY <1>2 DEF Row, NoVote
<1>6. t \in Tally
  BY <1>4, <1>5, DeltaAdds
<1>7. drifted \subseteq drifted' /\ drifted' \subseteq Pair
  BY <1>1, <1>2 DEF undoSwipeVote, Stale, Typed
<1>8. ASSUME r.pair \notin drifted'
      PROVE  \A v \in MatchVote :
               t[v] = match[r.pair][v] - One(vote[r.user][r.pair], v) + One(row, v)
  <2>1. \A v \in MatchVote : match[r.pair][v] \in Nat
                             /\ match[r.pair][v] >= One(vote[r.user][r.pair], v)
    BY <1>2, <1>7, <1>8, TallyCovers
  <2>2. CASE RowRead(i) = NoVote
    <3>1. t = match[r.pair] /\ row = vote[r.user][r.pair]
      BY <2>2 DEF NoVote, RowNow
    <3> HIDE DEF t, row
    <3> QED BY <2>1, <3>1 DEF One
  <2>3. CASE RowRead(i) # NoVote
    <3>1. RowRead(i) = vote[r.user][r.pair] /\ row = NoVote
      BY <1>8, <2>3 DEF undoSwipeVote, Stale, RowNow
    <3>2. \A v \in MatchVote : One(row, v) = 0
      BY <3>1 DEF One, Counts, NoVote
    <3>3. CASE RowRead(i).aggregated
      <4>1. \A v \in MatchVote : One(RowRead(i), v) = Gain(RowRead(i).verdict, v)
        BY <1>2, <3>3, RowCounts
      <4>2. match[r.pair][RowRead(i).verdict] >= 1
        BY <1>5, <2>1, <3>1, <3>3, <4>1 DEF Gain
      <4>3. \A v \in MatchVote : t[v] = match[r.pair][v] - Gain(RowRead(i).verdict, v)
        <5>1. t = applyAggregateDelta(match[r.pair], RowRead(i).verdict, -1)
          BY <3>3
        <5> HIDE DEF t
        <5> QED BY <1>4, <1>5, <3>3, <4>2, <5>1, DeltaMoves
      <4> HIDE DEF t, row
      <4> QED BY <2>1, <3>1, <3>2, <4>1, <4>3 DEF Gain
    <3>4. CASE ~RowRead(i).aggregated
      <4>1. t = match[r.pair] /\ \A v \in MatchVote : One(vote[r.user][r.pair], v) = 0
        BY <3>1, <3>4 DEF One, Counts
      <4> HIDE DEF t, row
      <4> QED BY <2>1, <3>2, <4>1
    <3> QED BY <3>3, <3>4
  <2> QED BY <2>2, <2>3
<1>9. anonymous' = anonymous
  BY DEF undoSwipeVote
<1>10. job' = [k \in Proc |-> job'[k]] /\ \A k \in Proc : JobTyped(job'[k])
  BY <1>1, FinishKeeps DEF undoSwipeVote
<1> HIDE DEF t, r, row
<1>11. /\ TalliesCountPeople' /\ vote' \in Votings
       /\ anonymous' \in [Pair -> Tally] /\ match' \in [Pair -> Tally]
  BY <1>2, <1>3, <1>4, <1>6, <1>7, <1>8, <1>9, RowStep
<1> QED BY <1>7, <1>10, <1>11 DEF IInv, Typed, JobTyped

\* A ballot depends on nothing but the rows of its pair and its anonymous rows.
LEMMA BallotDepends ==
  \A votes, votes2, unnamed, unnamed2, p :
    (\A w \in User : votes2[w][p] = votes[w][p]) /\ unnamed2[p] = unnamed[p]
      => Ballot(votes2, unnamed2, p) = Ballot(votes, unnamed, p)
<1> SUFFICES ASSUME NEW votes, NEW votes2, NEW unnamed, NEW unnamed2, NEW p,
                    \A w \in User : votes2[w][p] = votes[w][p], unnamed2[p] = unnamed[p]
             PROVE  Ballot(votes2, unnamed2, p) = Ballot(votes, unnamed, p)
  OBVIOUS
<1>1. \A v : Voters(votes2, p, v) = Voters(votes, p, v)
  BY DEF Voters
<1> QED BY <1>1 DEF Ballot

\* A ballot is a tally.
LEMMA BallotIsTally ==
  \A votes, unnamed, p : unnamed[p] \in Tally => Ballot(votes, unnamed, p) \in Tally
<1> SUFFICES ASSUME NEW votes, NEW unnamed, NEW p, unnamed[p] \in Tally
             PROVE  Ballot(votes, unnamed, p) \in Tally
  OBVIOUS
<1>1. \A v \in MatchVote : Cardinality(Voters(votes, p, v)) + unnamed[p][v] \in Nat
  BY VotersFinite DEF Tally
<1> QED BY <1>1 DEF Ballot, Tally

\* the reset of a receipt's learning,
LEMMA ResetKeeps == ASSUME IInv, NEW i \in Proc, resetReceiptLearning(i) PROVE IInv'
<1> DEFINE r == job[i].request
           old == job[i].old
           others == [old.vote EXCEPT ![r.user][r.pair] = NoVote]
           stable == /\ \A w \in User : old.vote[w][r.pair] = vote[w][r.pair]
                     /\ old.anonymous[r.pair] = anonymous[r.pair]
<1>1. Typed /\ r.kind \in RowKinds
  BY DEF IInv, resetReceiptLearning, RowKinds
<1>2. /\ r.user \in User /\ r.pair \in Pair /\ RowNow(i) \in Row \cup {NoVote}
      /\ old.vote \in Votings /\ old.anonymous \in [Pair -> Tally]
  BY <1>1, RequestHolds
<1>3. PICK row \in {NoVote} \cup (IF RowNow(i) = RowRead(i) THEN {} ELSE {RowNow(i)}) :
        vote' = [vote EXCEPT ![r.user][r.pair] = row]
  BY DEF resetReceiptLearning
<1>4. row \in Row \cup {NoVote}
  BY <1>2, <1>3
<1>5. /\ match' = [match EXCEPT ![r.pair] = Ballot(others, old.anonymous, r.pair)]
      /\ anonymous' = anonymous /\ Finish(i)
  BY DEF resetReceiptLearning
<1>6. Ballot(others, old.anonymous, r.pair) \in Tally
  BY <1>2, BallotIsTally
<1>7. vote' \in Votings /\ match' \in [Pair -> Tally] /\ anonymous' \in [Pair -> Tally]
  <2> HIDE DEF others
  <2> QED BY <1>1, <1>2, <1>3, <1>4, <1>5, <1>6 DEF Typed, Votings
<1>8. drifted' \subseteq Pair /\ drifted \ {r.pair} \subseteq drifted'
  BY <1>1, <1>2 DEF resetReceiptLearning, Typed
<1>9. ASSUME r.pair \notin drifted' PROVE stable
  <2>1. <<[u \in User |-> old.vote[u][r.pair]], old.anonymous[r.pair]>>
          = <<[u \in User |-> vote[u][r.pair]], anonymous[r.pair]>>
    BY <1>9 DEF resetReceiptLearning
  <2>2. \A w \in User : [u \in User |-> old.vote[u][r.pair]][w] = [u \in User |-> vote[u][r.pair]][w]
    BY <2>1
  <2> QED BY <2>1, <2>2
<1>10. ASSUME NEW p \in Pair, p \notin drifted'
       PROVE  match'[p] = Ballot(vote', anonymous', p)
  <2>1. CASE p = r.pair
    <3>1. stable
      BY <1>9, <1>10, <2>1
    <3>2. RowNow(i) = RowRead(i)
      BY <1>2, <3>1 DEF RowNow, RowRead
    <3>3. row = NoVote
      BY <1>3, <3>2
    <3>4. \A w \in User : vote'[w][p] = others[w][p]
      BY <1>1, <1>2, <1>3, <2>1, <3>1, <3>3 DEF Typed, Votings
    <3>5. anonymous'[p] = old.anonymous[p]
      BY <1>5, <2>1, <3>1
    <3>6. Ballot(vote', anonymous', p) = Ballot(others, old.anonymous, p)
      <4> HIDE DEF others, old
      <4> QED BY <3>4, <3>5, BallotDepends
    <3> HIDE DEF others, old
    <3> QED BY <1>1, <1>5, <2>1, <3>6 DEF Typed
  <2>2. CASE p # r.pair
    <3>1. match[p] = Ballot(vote, anonymous, p)
      BY <1>8, <1>10, <2>2 DEF IInv, TalliesCountPeople
    <3>2. \A w \in User : vote'[w][p] = vote[w][p]
      BY <1>1, <1>2, <1>3, <2>2 DEF Typed, Votings
    <3>3. Ballot(vote', anonymous', p) = Ballot(vote, anonymous, p)
      BY <1>5, <3>2, BallotDepends
    <3> HIDE DEF others, old
    <3> QED BY <1>1, <1>5, <2>2, <3>1, <3>3 DEF Typed
  <2> QED BY <2>1, <2>2
<1>11. job' = [k \in Proc |-> job'[k]] /\ \A k \in Proc : JobTyped(job'[k])
  BY <1>1, <1>5, FinishKeeps
<1> QED BY <1>7, <1>8, <1>10, <1>11 DEF IInv, Typed, TalliesCountPeople, JobTyped

\* The rows of one user go, and what each of them counted is taken back.
LEMMA PurgeKeeps == ASSUME IInv, NEW i \in Proc, purgeUser(i) PROVE IInv'
<1> DEFINE u == job[i].request.user
           rows == job[i].old.vote[u]
           t(p) == IF rows[p].aggregated THEN applyAggregateDelta(match[p], rows[p].verdict, -1)
                   ELSE match[p]
<1>1. Typed /\ job[i].request.kind = "purge"
  BY DEF IInv, purgeUser
<1>2. u \in User /\ rows \in [Pair -> Row \cup {NoVote}]
  <2>1. job[i] # Idle
    BY <1>1 DEF Idle
  <2>2. job[i].request \in Requests /\ job[i].old.vote \in Votings
    BY <1>1, <2>1 DEF Typed, JobTyped
  <2>3. u \in User
    BY <1>1, <2>2 DEF Requests, Votes
  <2> QED BY <2>2, <2>3 DEF Votings
<1>3. /\ match' = [p \in Pair |-> t(p)]
      /\ vote' = [vote EXCEPT ![u] = [p \in Pair |-> NoVote]]
      /\ drifted' = drifted \cup {p \in Pair : vote[u][p] # rows[p]}
      /\ anonymous' = anonymous /\ Finish(i)
  BY DEF purgeUser
<1>4. ASSUME NEW p \in Pair
      PROVE  /\ t(p) \in Tally
             /\ p \notin drifted' => \A v \in MatchVote : t(p)[v] = match[p][v] - One(vote[u][p], v)
  <2>1. match[p] \in Tally /\ rows[p] \in Row \cup {NoVote}
    BY <1>1, <1>2 DEF Typed
  <2>2. CASE rows[p].aggregated
    <3>1. t(p) = applyAggregateDelta(match[p], rows[p].verdict, -1)
      BY <2>2
    <3>2. rows[p].verdict \in MatchVote /\ \A v \in MatchVote : One(rows[p], v) = Gain(rows[p].verdict, v)
      <4> HIDE DEF rows, t
      <4>1. rows[p].verdict \in MatchVote
        BY <2>1, <2>2, CountedVerdict
      <4>2. \A v \in MatchVote : One(rows[p], v) = Gain(rows[p].verdict, v)
        BY <2>1, <2>2, RowCounts
      <4> QED BY <4>1, <4>2
    <3>3. ASSUME p \notin drifted' PROVE match[p][rows[p].verdict] >= 1 /\ rows[p] = vote[u][p]
      <4>1. rows[p] = vote[u][p] /\ p \notin drifted
        BY <1>3, <3>3
      <4>2. match[p][rows[p].verdict] \in Nat /\ match[p][rows[p].verdict] >= One(rows[p], rows[p].verdict)
        BY <1>2, <3>2, <4>1, TallyCovers
      <4> QED BY <3>2, <4>1, <4>2 DEF Gain
    <3> HIDE DEF t, rows, u
    <3>4. /\ t(p) \in Tally
          /\ p \notin drifted' => \A v \in MatchVote : t(p)[v] = match[p][v] - Gain(rows[p].verdict, v)
      <4> DEFINE w == rows[p].verdict
                 d == applyAggregateDelta(match[p], w, -1)
      <4>1. w \in MatchVote /\ t(p) = d
        BY <3>1, <3>2
      <4>2. d \in Tally /\ (match[p][w] >= 1 => \A v \in MatchVote : d[v] = match[p][v] - Gain(w, v))
        <5> HIDE DEF w
        <5> QED BY <2>1, <4>1, DeltaMoves
      <4> QED BY <3>3, <4>1, <4>2
    <3> QED BY <3>2, <3>3, <3>4
  <2>3. CASE ~rows[p].aggregated
    <3>1. t(p) = match[p] /\ \A v \in MatchVote : One(rows[p], v) = 0
      BY <2>1, <2>3, RowCounts
    <3>2. p \notin drifted' => rows[p] = vote[u][p]
      BY <1>3
    <3> HIDE DEF t, rows, u
    <3> QED BY <2>1, <3>1, <3>2 DEF Tally
  <2> QED BY <2>2, <2>3
<1>5. vote' \in Votings /\ match' \in [Pair -> Tally] /\ anonymous' \in [Pair -> Tally]
      /\ drifted' \subseteq Pair
  <2> HIDE DEF t, rows
  <2> QED BY <1>1, <1>2, <1>3, <1>4 DEF Typed, Votings
<1>6. ASSUME NEW p \in Pair, p \notin drifted'
      PROVE  match'[p] = Ballot(vote', anonymous', p)
  <2>1. match[p] = Ballot(vote, anonymous, p)
    BY <1>3, <1>6 DEF IInv, TalliesCountPeople
  <2>2. \A w \in User \ {u} : vote'[w][p] = vote[w][p]
    BY <1>1, <1>3 DEF Typed, Votings
  <2>3. \A v \in MatchVote : One(vote'[u][p], v) = 0
    <3>1. vote'[u][p] = NoVote
      BY <1>1, <1>2, <1>3 DEF Typed, Votings
    <3> QED BY <3>1 DEF One, Counts, NoVote
  <2>4. \A v \in MatchVote : Ballot(vote', anonymous, p)[v] = match[p][v] - One(vote[u][p], v)
    <3> TAKE v \in MatchVote
    <3>1. anonymous[p][v] \in Nat
      BY <1>1 DEF Typed, Tally
    <3>2. Moves(vote, vote', anonymous, u, p, v)
      <4> HIDE DEF u
      <4> QED BY <1>2, <2>2, <3>1, BallotMoves
    <3>3. match[p][v] \in Nat
      BY <1>1 DEF Typed, Tally
    <3>4. One(vote[u][p], v) \in Nat
      BY DEF One
    <3> HIDE DEF u
    <3> QED BY <2>1, <2>3, <3>2, <3>3, <3>4 DEF Moves
  <2> HIDE DEF t, rows, u
  <2>5. \A v \in MatchVote : match'[p][v] = Ballot(vote', anonymous', p)[v]
    BY <1>3, <1>4, <1>6, <2>4
  <2>6. match'[p] = [v \in MatchVote |-> match'[p][v]]
    BY <1>5 DEF Tally
  <2>7. Ballot(vote', anonymous', p) = [v \in MatchVote |-> Ballot(vote', anonymous', p)[v]]
    BY DEF Ballot
  <2> QED BY <2>5, <2>6, <2>7
<1>7. job' = [k \in Proc |-> job'[k]] /\ \A k \in Proc : JobTyped(job'[k])
  BY <1>1, <1>3, FinishKeeps
<1> QED BY <1>5, <1>6, <1>7 DEF IInv, Typed, TalliesCountPeople, JobTyped

\* A tally moves with its ballots when both are equal for each verdict.
LEMMA TalliesEqual ==
  ASSUME NEW tally \in Tally, NEW votes, NEW unnamed, NEW p,
         \A v \in MatchVote : tally[v] = Ballot(votes, unnamed, p)[v]
  PROVE  tally = Ballot(votes, unnamed, p)
<1>1. tally = [v \in MatchVote |-> tally[v]]
  BY DEF Tally
<1>2. Ballot(votes, unnamed, p) = [v \in MatchVote |-> Ballot(votes, unnamed, p)[v]]
  BY DEF Ballot
<1> QED BY <1>1, <1>2

\* Counted rows that lose their user are counted as nobody's.
LEMMA AnonymizeKeeps == ASSUME IInv, NEW u \in User, anonymizeUser(u) PROVE IInv'
<1> DEFINE a(p) == IF vote[u][p].aggregated
                   THEN applyAggregateDelta(anonymous[p], vote[u][p].verdict, 1) ELSE anonymous[p]
<1>1. Typed
  BY DEF IInv
<1>2. /\ anonymous' = [p \in Pair |-> a(p)]
      /\ vote' = [vote EXCEPT ![u] = [p \in Pair |-> NoVote]]
      /\ match' = match /\ job' = job /\ drifted' = drifted
  BY DEF anonymizeUser
<1>3. ASSUME NEW p \in Pair
      PROVE  a(p) \in Tally /\ \A v \in MatchVote : a(p)[v] = anonymous[p][v] + One(vote[u][p], v)
  <2>1. anonymous[p] \in Tally /\ vote[u][p] \in Row \cup {NoVote}
    BY <1>1 DEF Typed, Votings
  <2>2. CASE vote[u][p].aggregated
    <3> DEFINE w == vote[u][p].verdict
               d == applyAggregateDelta(anonymous[p], w, 1)
    <3>1. w \in MatchVote
      BY <2>1, <2>2 DEF Row, NoVote
    <3>2. \A v \in MatchVote : One(vote[u][p], v) = Gain(w, v)
      BY <2>1, <2>2, RowCounts
    <3>3. d \in Tally /\ \A v \in MatchVote : d[v] = anonymous[p][v] + Gain(w, v)
      <4> HIDE DEF w
      <4> QED BY <2>1, <3>1, DeltaMoves
    <3>4. a(p) = d
      BY <2>2
    <3> QED BY <3>2, <3>3, <3>4
  <2>3. CASE ~vote[u][p].aggregated
    <3>1. a(p) = anonymous[p] /\ \A v \in MatchVote : One(vote[u][p], v) = 0
      BY <2>1, <2>3, RowCounts
    <3> HIDE DEF a
    <3> QED BY <2>1, <3>1 DEF Tally
  <2> QED BY <2>2, <2>3
<1>4. vote' \in Votings /\ match' \in [Pair -> Tally] /\ anonymous' \in [Pair -> Tally]
      /\ drifted' \subseteq Pair
  <2> HIDE DEF a
  <2> QED BY <1>1, <1>2, <1>3 DEF Typed, Votings
<1>5. ASSUME NEW p \in Pair, p \notin drifted'
      PROVE  match'[p] = Ballot(vote', anonymous', p)
  <2>1. match[p] = Ballot(vote, anonymous, p) /\ match[p] \in Tally
    BY <1>1, <1>2, <1>5 DEF IInv, TalliesCountPeople, Typed
  <2>2. \A v \in MatchVote : match[p][v] = Ballot(vote', anonymous', p)[v]
    <3> TAKE v \in MatchVote
    <3>1. anonymous[p][v] \in Nat
      BY <1>1 DEF Typed, Tally
    <3>2. \A w \in User \ {u} : vote'[w][p] = vote[w][p]
      BY <1>1, <1>2 DEF Typed, Votings
    <3>3. Moves(vote, vote', anonymous, u, p, v)
      BY <3>1, <3>2, BallotMoves
    <3>4. vote'[u][p] = NoVote
      BY <1>1, <1>2 DEF Typed, Votings
    <3>5. One(vote'[u][p], v) = 0
      BY <3>4 DEF One, Counts, NoVote
    <3>6. /\ Ballot(vote', anonymous', p)[v] = Cardinality(Voters(vote', p, v)) + anonymous'[p][v]
          /\ Ballot(vote', anonymous, p)[v] = Cardinality(Voters(vote', p, v)) + anonymous[p][v]
      BY DEF Ballot
    <3>7. \A votes : Cardinality(Voters(votes, p, v)) \in Nat
      BY VotersFinite
    <3>8. anonymous'[p][v] = anonymous[p][v] + One(vote[u][p], v)
      <4> HIDE DEF a
      <4> QED BY <1>2, <1>3
    <3>9. One(vote[u][p], v) \in Nat
      BY DEF One
    <3> QED BY <2>1, <3>1, <3>3, <3>5, <3>6, <3>7, <3>8, <3>9 DEF Moves
  <2>3. \A tally \in Tally : (\A v \in MatchVote : tally[v] = Ballot(vote', anonymous', p)[v])
                             => tally = Ballot(vote', anonymous', p)
    BY TalliesEqual
  <2> QED BY <1>2, <2>1, <2>2, <2>3
<1> QED BY <1>1, <1>2, <1>4, <1>5 DEF IInv, Typed, TalliesCountPeople, JobTyped

\* Two accounts become one: first the rows of the fresh account go, then those
\* of the recovered one take what they counted.
LEMMA AccountsKeep ==
  ASSUME IInv, NEW fresh \in User, NEW recovered \in User,
         mergeStoreProductMatchVotes(fresh, recovered)
  PROVE  IInv'
<1> DEFINE row(p, newer) ==
             IF vote[fresh][p] = NoVote THEN vote[recovered][p]
             ELSE IF vote[recovered][p] = NoVote THEN vote[fresh][p]
             ELSE IF p \in newer THEN [vote[recovered][p] EXCEPT !.verdict = vote[fresh][p].verdict]
             ELSE vote[recovered][p]
           none == [p \in Pair |-> NoVote]
           mid == [vote EXCEPT ![fresh] = none]
<1>1. Typed
  BY DEF IInv
<1>2. PICK newer \in SUBSET Pair :
        vote' = [vote EXCEPT ![fresh] = none, ![recovered] = [p \in Pair |-> row(p, newer)]]
  BY DEF mergeStoreProductMatchVotes
<1>3. /\ fresh # recovered /\ match' = match /\ anonymous' = anonymous /\ job' = job
      /\ drifted' = drifted \cup {p \in Pair : vote[fresh][p] # NoVote /\ vote[recovered][p] # NoVote}
  BY DEF mergeStoreProductMatchVotes
<1>4. ASSUME NEW p \in Pair PROVE row(p, newer) \in Row \cup {NoVote}
  <2>1. vote[fresh][p] \in Row \cup {NoVote} /\ vote[recovered][p] \in Row \cup {NoVote}
    BY <1>1 DEF Typed, Votings
  <2>2. ASSUME vote[fresh][p] \in Row, vote[recovered][p] \in Row
        PROVE  [vote[recovered][p] EXCEPT !.verdict = vote[fresh][p].verdict] \in Row
    BY <2>2 DEF Row
  <2> QED BY <2>1, <2>2
<1>5. ASSUME NEW p \in Pair, p \notin drifted', NEW v \in MatchVote
      PROVE  One(row(p, newer), v) = One(vote[fresh][p], v) + One(vote[recovered][p], v)
  <2>1. vote[fresh][p] = NoVote \/ vote[recovered][p] = NoVote
    BY <1>3, <1>5
  <2>2. One(NoVote, v) = 0
    BY DEF One, Counts, NoVote
  <2>3. \A x : One(x, v) \in Nat
    BY DEF One
  <2>4. CASE vote[fresh][p] = NoVote
    <3>1. row(p, newer) = vote[recovered][p]
      BY <2>4
    <3> HIDE DEF row
    <3> QED BY <2>2, <2>3, <2>4, <3>1
  <2>5. CASE vote[fresh][p] # NoVote /\ vote[recovered][p] = NoVote
    <3>1. row(p, newer) = vote[fresh][p]
      BY <2>5
    <3> HIDE DEF row
    <3> QED BY <2>2, <2>3, <2>5, <3>1
  <2> QED BY <2>1, <2>4, <2>5
<1> HIDE DEF row
<1>6. vote' \in Votings /\ match' \in [Pair -> Tally] /\ anonymous' \in [Pair -> Tally]
      /\ drifted' \subseteq Pair
  <2>1. [p \in Pair |-> row(p, newer)] \in [Pair -> Row \cup {NoVote}]
    BY <1>4
  <2> QED BY <1>1, <1>2, <1>3, <2>1 DEF Typed, Votings
<1>7. ASSUME NEW p \in Pair, p \notin drifted'
      PROVE  match'[p] = Ballot(vote', anonymous', p)
  <2>1. match[p] = Ballot(vote, anonymous, p) /\ match[p] \in Tally
    BY <1>1, <1>3, <1>7 DEF IInv, TalliesCountPeople, Typed
  <2>2. /\ mid[fresh][p] = NoVote /\ mid[recovered][p] = vote[recovered][p]
        /\ vote'[recovered][p] = row(p, newer)
        /\ \A w \in User \ {fresh} : mid[w][p] = vote[w][p]
        /\ \A w \in User \ {recovered} : vote'[w][p] = mid[w][p]
    BY <1>1, <1>2, <1>3 DEF Typed, Votings
  <2> HIDE DEF mid
  <2>3. \A v \in MatchVote : match[p][v] = Ballot(vote', anonymous, p)[v]
    <3> TAKE v \in MatchVote
    <3>1. anonymous[p][v] \in Nat
      BY <1>1 DEF Typed, Tally
    <3>2. Moves(vote, mid, anonymous, fresh, p, v)
      BY <2>2, <3>1, BallotMoves
    <3>3. Moves(mid, vote', anonymous, recovered, p, v)
      BY <2>2, <3>1, BallotMoves
    <3>4. One(NoVote, v) = 0
      BY DEF One, Counts, NoVote
    <3>5. \A x : One(x, v) \in Nat
      BY DEF One
    <3>6. Ballot(mid, anonymous, p)[v] = Ballot(vote, anonymous, p)[v] - One(vote[fresh][p], v)
      BY <2>2, <3>2, <3>4, <3>5 DEF Moves
    <3>7. Ballot(vote', anonymous, p)[v]
            = Ballot(mid, anonymous, p)[v] - One(vote[recovered][p], v) + One(row(p, newer), v)
      BY <2>2, <3>3 DEF Moves
    <3>8. One(row(p, newer), v) = One(vote[fresh][p], v) + One(vote[recovered][p], v)
      BY <1>5, <1>7
    <3>9. match[p][v] \in Nat
      BY <2>1 DEF Tally
    <3> QED BY <2>1, <3>5, <3>6, <3>7, <3>8, <3>9
  <2>4. \A tally \in Tally : (\A v \in MatchVote : tally[v] = Ballot(vote', anonymous, p)[v])
                             => tally = Ballot(vote', anonymous, p)
    BY TalliesEqual
  <2> QED BY <1>3, <2>1, <2>3, <2>4
<1> QED BY <1>1, <1>3, <1>6, <1>7 DEF IInv, Typed, TalliesCountPeople, JobTyped

\* A request that begins takes its snapshot of well-typed votes.
LEMMA StartKeeps ==
  ASSUME IInv, NEW i \in Proc, NEW r \in Requests, Start(i, r)
  PROVE  IInv'
<1>1. Typed /\ TalliesCountPeople
  BY DEF IInv
<1>2. /\ job' = [job EXCEPT ![i] = [request |-> r, old |-> Snapshot]]
      /\ UNCHANGED <<vote, anonymous, match, drifted>>
  BY DEF Start, people
<1>3. TalliesCountPeople'
  BY <1>1, <1>2 DEF TalliesCountPeople
<1>4. JobTyped([request |-> r, old |-> Snapshot])
  BY <1>1 DEF JobTyped, Snapshot, Typed
<1>5. job' = [k \in Proc |-> job'[k]] /\ \A k \in Proc : JobTyped(job'[k])
  <2>1. \A k \in Proc : job'[k] = IF k = i THEN [request |-> r, old |-> Snapshot] ELSE job[k]
    BY <1>1, <1>2 DEF Typed
  <2>2. \A k \in Proc : JobTyped(job[k])
    BY <1>1 DEF Typed
  <2>3. job' = [k \in Proc |-> job'[k]]
    BY <1>1, <1>2 DEF Typed
  <2> QED BY <1>4, <2>1, <2>2, <2>3
<1> QED BY <1>1, <1>2, <1>3, <1>5 DEF IInv, Typed, JobTyped

\* Steps that write no vote, no tally and no snapshot.
LEMMA EndKeeps ==
  ASSUME IInv, NEW i \in Proc, Finish(i), UNCHANGED <<vote, anonymous, match, drifted>>
  PROVE  IInv'
<1>1. Typed /\ TalliesCountPeople
  BY DEF IInv
<1>2. TalliesCountPeople'
  BY <1>1 DEF TalliesCountPeople
<1>3. job' = [k \in Proc |-> job'[k]] /\ \A k \in Proc : JobTyped(job'[k])
  BY <1>1, FinishKeeps
<1> QED BY <1>1, <1>2, <1>3 DEF IInv, Typed, JobTyped

\* and the requests together.
LEMMA AnswerKeeps == ASSUME IInv, NEW i \in Proc, Answer(i) PROVE IInv'
<1>1. CASE castSwipeVote(i) \/ castDirectSpPairVote(i) \/ editVote(i) \/ castOrphanSwipeVote(i)
  <2>1. Record(i) /\ job[i].request.kind \in RowKinds \ {"undo", "reset"}
    BY <1>1 DEF castSwipeVote, castDirectSpPairVote, editVote, castOrphanSwipeVote, RowKinds
  <2> QED BY <2>1, RecordKeeps
<1>2. CASE castSlot2Vote(i)
  BY <1>2, SlotKeeps
<1>3. CASE recordTwinPairVote(i)
  BY <1>3, TwinKeeps
<1>4. CASE undoSwipeVote(i)
  BY <1>4, UndoKeeps
<1>5. CASE resetReceiptLearning(i)
  BY <1>5, ResetKeeps
<1>6. CASE purgeUser(i)
  BY <1>6, PurgeKeeps
<1>7. CASE mergeProducts(i)
  BY <1>7, EndKeeps DEF mergeProducts, people
<1> QED BY <1>1, <1>2, <1>3, <1>4, <1>5, <1>6, <1>7 DEF Answer

\* The histories have their tallies right.
LEMMA VotesStart == Init => IInv
<1> SUFFICES ASSUME Init PROVE IInv
  OBVIOUS
<1>1. vote \in Votings /\ anonymous \in [Pair -> Tally]
  BY VotesAssumption DEF Init, VotesAssumption, Votings
<1>2. match \in [Pair -> Tally]
  <2>1. \A p \in Pair : Ballot(vote, anonymous, p) \in Tally
    BY <1>1, BallotIsTally
  <2> QED BY <2>1 DEF Init
<1> QED BY <1>1, <1>2 DEF Init, IInv, Typed, JobTyped, TalliesCountPeople

\* Every step keeps the tallies.
LEMMA VotesStep == IInv /\ [Next]_vars => IInv'
<1> SUFFICES ASSUME IInv, [Next]_vars PROVE IInv'
  OBVIOUS
<1>1. CASE \E i \in Proc : \E r \in Requests : Start(i, r)
  BY <1>1, StartKeeps
<1>2. CASE \E i \in Proc : Answer(i)
  BY <1>2, AnswerKeeps
<1>3. CASE \E i \in Proc : Rollback(i)
  BY <1>3, EndKeeps DEF Rollback, people
<1>4. CASE \E u \in User : anonymizeUser(u)
  BY <1>4, AnonymizeKeeps
<1>5. CASE \E fresh, recovered \in User : mergeStoreProductMatchVotes(fresh, recovered)
  BY <1>5, AccountsKeep
<1>6. CASE UNCHANGED vars
  BY <1>6 DEF vars, IInv, Typed, JobTyped, TalliesCountPeople
<1> QED BY <1>1, <1>2, <1>3, <1>4, <1>5, <1>6 DEF Next

\* The tallies count people, for any users, pairs, histories and any number of
\* overlapping requests.
THEOREM TalliesAreExact == Spec => []TalliesCountPeople
<1>1. IInv => TalliesCountPeople
  BY DEF IInv
<1> QED BY <1>1, VotesStart, VotesStep, PTL DEF Spec

-----------------------------------------------------------------------------
(* Merging and splitting: what a request leaves of the graph.               *)

\* The merges of the products, and what one evaluation works on: the rows it
\* read and the rows as it leaves them.
Parents == [Product -> Product \cup {NoProduct}]
GraphSet ==
  [seen : Parents, now : Parents, uncategorised : SUBSET Product, fallback : SUBSET Product, cut : BOOLEAN]

\* No product is none.
LEMMA NoProductIsNone == NoProduct \notin Product
<1>1. \A p \in Product : p \in Nat \ {NoProduct}
  BY VotesAssumption DEF VotesAssumption
<1> QED BY <1>1

\* What a product resolves to is a product.
LEMMA ResolveType ==
  ASSUME NEW parent \in Parents, NEW q \in Product
  PROVE  resolveEffectiveProductId(parent, q) \in Product
<1>1. \A x \in Product : Hop(parent, x) \in Product
  BY DEF Hop, Parents
<1> QED BY <1>1 DEF resolveEffectiveProductId

\* A pointer is written: where, and whether either end was merged already.
Pointed(r, g, q, t) ==
  /\ r \in GraphSet
  /\ r.seen = [g.seen EXCEPT ![q] = t] /\ r.now = [g.now EXCEPT ![q] = t] /\ r.fallback = g.fallback
  /\ t = NoProduct => r.cut = g.cut
  /\ t # NoProduct /\ ~r.cut => ~g.cut /\ g.seen[q] = NoProduct /\ g.seen[t] = NoProduct

\* Pointing a product changes its parent and nothing else,
LEMMA PointFields ==
  ASSUME NEW g \in GraphSet, NEW q \in Product, NEW t \in Product \cup {NoProduct}
  PROVE  Pointed(Point(g, q, t), g, q, t)
<1>1. PICK b \in BOOLEAN : b <=> (g.cut \/ (t # NoProduct /\ {g.seen[q], g.seen[t]} # {NoProduct}))
  <2>1. CASE g.cut \/ (t # NoProduct /\ {g.seen[q], g.seen[t]} # {NoProduct})
    BY <2>1
  <2>2. CASE ~(g.cut \/ (t # NoProduct /\ {g.seen[q], g.seen[t]} # {NoProduct}))
    BY <2>2
  <2> QED BY <2>1, <2>2
<1>2. g.cut \in BOOLEAN /\ g.seen \in Parents /\ g.now \in Parents
  BY DEF GraphSet
<1>3. (g.cut \/ (t # NoProduct /\ {g.seen[q], g.seen[t]} # {NoProduct})) = b
  BY <1>1, <1>2
<1>4. PICK s : s = [g.seen EXCEPT ![q] = t]
  OBVIOUS
<1>5. PICK n : n = [g.now EXCEPT ![q] = t]
  OBVIOUS
<1>6. s \in Parents /\ n \in Parents
  BY <1>2, <1>4, <1>5 DEF Parents
<1>7. PICK r : r = [g EXCEPT !.seen = s, !.now = n, !.cut = b]
  OBVIOUS
<1>8. r \in GraphSet /\ r.seen = s /\ r.now = n /\ r.cut = b /\ r.uncategorised = g.uncategorised /\ r.fallback = g.fallback
  BY <1>6, <1>7 DEF GraphSet
<1>9. Point(g, q, t) = r
  BY <1>3, <1>4, <1>5, <1>7 DEF Point, GraphSet
<1>10. Pointed(r, g, q, t)
  BY <1>1, <1>2, <1>4, <1>5, <1>8 DEF Pointed
<1> QED BY <1>9, <1>10

\* as moving a category changes no parent.
Categorised(r, g) == r \in GraphSet /\ r.seen = g.seen /\ r.now = g.now /\ r.cut = g.cut

\* That is what categoriseUncategorisedOnMerge does.
LEMMA CategoryFields ==
  ASSUME NEW g \in GraphSet, NEW p \in Product, NEW q \in Product
  PROVE  Categorised(categoriseUncategorisedOnMerge(g, p, q), g)
<1>1. PICK r : r = [g EXCEPT !.uncategorised = g.uncategorised \ {p, q},
                             !.fallback = g.fallback \ ({p, q} \cap g.uncategorised)]
  OBVIOUS
<1>2. r \in GraphSet /\ r.seen = g.seen /\ r.now = g.now /\ r.cut = g.cut
  BY <1>1 DEF GraphSet
<1>3. categoriseUncategorisedOnMerge(g, p, q) \in {g, r}
  BY <1>1 DEF categoriseUncategorisedOnMerge
<1>4. Categorised(g, g) /\ Categorised(r, g)
  BY <1>2 DEF Categorised
<1> QED BY <1>3, <1>4

\* A merge: nothing, or one product is pointed at another.
Merges(g, r) ==
  \E q, t \in Product : /\ q # t /\ r.seen = [g.seen EXCEPT ![q] = t] /\ r.now = [g.now EXCEPT ![q] = t]
                        /\ ~r.cut => ~g.cut /\ g.seen[q] = NoProduct /\ g.seen[t] = NoProduct

\* A promotion merges two unmerged products or does nothing,
LEMMA PromoteDoes ==
  ASSUME NEW g \in GraphSet, NEW a \in Product, NEW b \in Product
  PROVE  LET r == promoteMergeByProductIds(g, a, b) IN r = g \/ (r \in GraphSet /\ Merges(g, r))
<1> PICK p : p = resolveEffectiveProductId(g.seen, a)
  OBVIOUS
<1> PICK q : q = resolveEffectiveProductId(g.seen, b)
  OBVIOUS
<1> PICK r : r = promoteMergeByProductIds(g, a, b)
  OBVIOUS
<1>1. p \in Product /\ q \in Product
  BY ResolveType DEF GraphSet
<1>2. CASE a = b \/ p = q
  BY <1>2 DEF promoteMergeByProductIds
<1>3. CASE ~(a = b \/ p = q)
  <2>1. PICK loser \in Product, winner \in Product :
          /\ loser # winner
          /\ r = categoriseUncategorisedOnMerge(Point(g, loser, winner), p, q)
    <3>1. r = categoriseUncategorisedOnMerge(IF p < q THEN Point(g, q, p) ELSE Point(g, p, q), p, q)
      BY <1>3 DEF promoteMergeByProductIds
    <3> QED BY <1>1, <1>3, <3>1
  <2>2. winner \in Product \cup {NoProduct} /\ winner # NoProduct
    BY NoProductIsNone
  <2>3. PICK m : m = Point(g, loser, winner)
    OBVIOUS
  <2>4. /\ m \in GraphSet /\ m.seen = [g.seen EXCEPT ![loser] = winner] /\ m.now = [g.now EXCEPT ![loser] = winner]
        /\ ~m.cut => ~g.cut /\ g.seen[loser] = NoProduct /\ g.seen[winner] = NoProduct
    BY <2>2, <2>3, PointFields DEF Pointed
  <2>5. r \in GraphSet /\ r.seen = m.seen /\ r.now = m.now /\ r.cut = m.cut
    <3>1. r = categoriseUncategorisedOnMerge(m, p, q)
      BY <2>1, <2>3
    <3>2. Categorised(r, m)
      BY <1>1, <2>4, <3>1, CategoryFields
    <3> QED BY <3>2 DEF Categorised
  <2> QED BY <2>1, <2>4, <2>5 DEF Merges
<1> QED BY <1>2, <1>3

\* A split: nothing, or one of the two products, that points at the other, is a root.
Splits(g, r, a, b) ==
  \E q, t \in Product : /\ {q, t} = {a, b} /\ g.seen[q] = t
                        /\ r.seen = [g.seen EXCEPT ![q] = NoProduct] /\ r.now = [g.now EXCEPT ![q] = NoProduct]
                        /\ r.cut = g.cut /\ r.fallback = g.fallback

\* a demotion parts one of the two or does nothing,
LEMMA DemoteDoes ==
  ASSUME NEW g \in GraphSet, NEW a \in Product, NEW b \in Product
  PROVE  LET r == demoteMergeByProductIds(g, a, b) IN r = g \/ (r \in GraphSet /\ Splits(g, r, a, b))
<1> PICK r : r = demoteMergeByProductIds(g, a, b)
  OBVIOUS
<1>1. CASE r = g
  BY <1>1
<1>2. CASE r # g
  <2>1. PICK q \in Product, t \in Product : {q, t} = {a, b} /\ g.seen[q] = t /\ r = Point(g, q, NoProduct)
    <3>1. CASE g.seen[a] = b /\ r = Point(g, a, NoProduct)
      BY <3>1
    <3>2. CASE g.seen[b] = a /\ r = Point(g, b, NoProduct)
      <4>1. {b, a} = {a, b}
        OBVIOUS
      <4> QED BY <3>2, <4>1
    <3> QED BY <1>2, <3>1, <3>2 DEF demoteMergeByProductIds
  <2>2. NoProduct \in Product \cup {NoProduct}
    OBVIOUS
  <2>3. /\ r \in GraphSet /\ r.seen = [g.seen EXCEPT ![q] = NoProduct] /\ r.now = [g.now EXCEPT ![q] = NoProduct]
        /\ r.cut = g.cut /\ r.fallback = g.fallback
    <3>1. PICK m : m = Point(g, q, NoProduct)
      OBVIOUS
    <3>2. /\ m \in GraphSet /\ m.seen = [g.seen EXCEPT ![q] = NoProduct] /\ m.now = [g.now EXCEPT ![q] = NoProduct]
          /\ m.cut = g.cut /\ m.fallback = g.fallback
      <4>1. Pointed(m, g, q, NoProduct)
        BY <2>2, <3>1, PointFields
      <4> QED BY <4>1 DEF Pointed
    <3> QED BY <2>1, <3>1, <3>2
  <2>4. Splits(g, r, a, b)
    BY <2>1, <2>3, Zenon DEF Splits
  <2> QED BY <2>3, <2>4
<1> QED BY <1>1, <1>2

\* What evaluating a pair does by its tally.
Evaluates(g, r, a, b, tally) ==
  \/ r = g
  \/ Promotes(tally) /\ Merges(g, r)
  \/ Demotes(tally) /\ Splits(g, r, a, b)

\* and an evaluation is one of them, as the tally says.
LEMMA EvaluationDoes ==
  ASSUME NEW g \in GraphSet, NEW a \in Product, NEW b \in Product, NEW tally
  PROVE  /\ reevaluateMerge(g, a, b, tally) \in GraphSet
         /\ Evaluates(g, reevaluateMerge(g, a, b, tally), a, b, tally)
  BY PromoteDoes, DemoteDoes DEF reevaluateMerge, Evaluates

-----------------------------------------------------------------------------
(* Evaluating pairs one after the other.                                    *)

\* What an evaluation starts from: the snapshot, and the rows as they are now.
Begin(i) ==
  [seen |-> job[i].old.mergedInto, now |-> mergedInto,
   uncategorised |-> job[i].old.fallback, fallback |-> fallback, cut |-> FALSE]

\* The evaluation of one pair.
Evaluated(i, written, p, g) ==
  reevaluateMerge(g, job[i].old.productOf[p[1]], job[i].old.productOf[p[2]],
                  getMatchAggregate(job[i].old, p, written))

\* The graph after each set of pairs.
Course(h, i, pairs, written) ==
  /\ h \in [SUBSET pairs -> GraphSet]
  /\ h[{}] = Begin(i)
  /\ \A s \in SUBSET pairs : s # {} =>
       h[s] = Evaluated(i, written, CHOOSE p \in s : TRUE, h[s \ {CHOOSE p \in s : TRUE}])

\* The types of the merges and of a snapshot of them.
GraphTyped(i) ==
  /\ mergedInto \in Parents /\ fallback \in SUBSET Product
  /\ job[i].old.mergedInto \in Parents /\ job[i].old.fallback \in SUBSET Product
  /\ job[i].old.productOf \in [StoreProduct -> Product]

\* The evaluation of a pair is an evaluation.
LEMMA EvaluatedType ==
  ASSUME NEW i, GraphTyped(i), NEW written, NEW p \in Pair, NEW g \in GraphSet
  PROVE  /\ Evaluated(i, written, p, g) \in GraphSet
         /\ Evaluates(g, Evaluated(i, written, p, g), job[i].old.productOf[p[1]], job[i].old.productOf[p[2]],
                      getMatchAggregate(job[i].old, p, written))
<1>1. p[1] \in StoreProduct /\ p[2] \in StoreProduct
  BY VotesAssumption DEF VotesAssumption
<1>2. job[i].old.productOf[p[1]] \in Product /\ job[i].old.productOf[p[2]] \in Product
  BY <1>1 DEF GraphTyped
<1> QED BY <1>2, EvaluationDoes DEF Evaluated

\* A transaction starts from a graph.
LEMMA BeginType == ASSUME NEW i, GraphTyped(i) PROVE Begin(i) \in GraphSet
  BY DEF Begin, GraphTyped, GraphSet

\* A transaction evaluates its pairs in some order, one graph for each set
\* already evaluated.
LEMMA CourseRuns ==
  ASSUME NEW i, GraphTyped(i), NEW pairs \in SUBSET Pair, NEW written, Reevaluate(i, pairs, written)
  PROVE  \E h : /\ Course(h, i, pairs, written)
                /\ mergedInto' = h[pairs].now /\ fallback' = h[pairs].fallback /\ productOf' = productOf
                /\ crossed' = (crossed \/ h[pairs].cut
                               \/ (h[pairs].now # mergedInto /\ job[i].old.mergedInto # mergedInto))
<1> DEFINE body(h) == [s \in SUBSET pairs |->
                         IF s = {} THEN Begin(i)
                         ELSE Evaluated(i, written, CHOOSE p \in s : TRUE, h[s \ {CHOOSE p \in s : TRUE}])]
           it == CHOOSE h : h = body(h)
           pick == [s \in SUBSET pairs |-> CHOOSE p \in s : TRUE]
           step == [s \in SUBSET pairs |-> [g \in GraphSet |->
                      IF s = {} THEN g ELSE Evaluated(i, written, pick[s], g)]]
<1>1. /\ mergedInto' = it[pairs].now /\ fallback' = it[pairs].fallback /\ productOf' = productOf
      /\ crossed' = (crossed \/ it[pairs].cut
                     \/ (it[pairs].now # mergedInto /\ job[i].old.mergedInto # mergedInto))
  BY DEF Reevaluate, MapThenFoldSet, Begin, Evaluated
<1>2. \A s \in SUBSET pairs : s # {} => (CHOOSE p \in s : TRUE) \in s
  OBVIOUS
<1>3. \A s \in SUBSET pairs : s # {} => pick[s] \in s /\ pick[s] \in Pair
  BY <1>2
<1>4. IsFiniteSet(pairs)
  BY VotesAssumption, FS_Subset DEF VotesAssumption
<1>5. \A s \in SUBSET pairs, g \in GraphSet : step[s][g] = IF s = {} THEN g ELSE Evaluated(i, written, pick[s], g)
  OBVIOUS
<1>6. \A s \in SUBSET pairs : s # {} => pick[s] = CHOOSE p \in s : TRUE
  OBVIOUS
<1> HIDE DEF step, pick
<1>7. \A s \in SUBSET pairs, g \in GraphSet : step[s][g] \in GraphSet
  BY <1>3, <1>5, EvaluatedType
<1>8. Begin(i) \in GraphSet
  BY BeginType
<1>9. PICK h : Unwinds(h, pairs, pick, GraphSet, Begin(i), step)
  BY <1>3, <1>4, <1>7, <1>8, SubsetRecursion
<1>10. \A s \in SUBSET pairs :
         h[s] = IF s = {} THEN Begin(i)
                ELSE Evaluated(i, written, CHOOSE p \in s : TRUE, h[s \ {CHOOSE p \in s : TRUE}])
  <2>1. ASSUME NEW s \in SUBSET pairs, s # {}
        PROVE  h[s] = Evaluated(i, written, CHOOSE p \in s : TRUE, h[s \ {CHOOSE p \in s : TRUE}])
    <3>1. h[s \ {pick[s]}] \in GraphSet /\ h[s] = step[s][h[s \ {pick[s]}]]
      BY <1>9, <2>1 DEF Unwinds
    <3>2. h[s] = Evaluated(i, written, pick[s], h[s \ {pick[s]}])
      BY <1>5, <2>1, <3>1
    <3> QED BY <1>6, <2>1, <3>2
  <2>2. h[{}] = Begin(i)
    BY <1>9 DEF Unwinds
  <2> QED BY <2>1, <2>2
<1>11. h = body(h)
  BY <1>9, <1>10 DEF Unwinds
<1>12. it = body(it)
  <2> HIDE DEF body
  <2> QED BY <1>11
<1>13. PICK k : k = it
  OBVIOUS
<1>14. k = body(k)
  <2> HIDE DEF body, it
  <2> QED BY <1>12, <1>13
<1> HIDE DEF it
<1>15. \A s \in SUBSET pairs :
         k[s] = IF s = {} THEN Begin(i)
                ELSE Evaluated(i, written, CHOOSE p \in s : TRUE, k[s \ {CHOOSE p \in s : TRUE}])
  BY <1>14
<1>16. \A s \in SUBSET pairs : k[s] \in GraphSet
  <2> DEFINE T == {s \in SUBSET pairs : k[s] \in GraphSet}
  <2>1. {} \in T
    BY <1>8, <1>15
  <2>2. ASSUME NEW s \in SUBSET pairs, s # {}, s \ {pick[s]} \in T
        PROVE  s \in T
    <3>1. k[s] = Evaluated(i, written, pick[s], k[s \ {pick[s]}])
      BY <1>6, <1>15, <2>2
    <3> QED BY <1>3, <2>2, <3>1, EvaluatedType
  <2> HIDE DEF T
  <2>3. SUBSET pairs \subseteq T
    BY <1>3, <1>4, <2>1, <2>2, SubsetInduction
  <2> QED BY <2>3 DEF T
<1>17. k \in [SUBSET pairs -> GraphSet]
  BY <1>14, <1>16
<1>18. Course(k, i, pairs, written)
  BY <1>15, <1>17 DEF Course
<1> QED BY <1>1, <1>13, <1>18

\* A set of sets of pairs that has the empty one, and each with which an
\* evaluation extends one that it has.
Advances(i, pairs, written, h, T) ==
  /\ {} \in T
  /\ \A s \in SUBSET pairs : \A p \in s :
              /\ s \ {p} \in T /\ h[s \ {p}] \in GraphSet /\ h[s] \in GraphSet
              /\ Evaluates(h[s \ {p}], h[s], job[i].old.productOf[p[1]], job[i].old.productOf[p[2]],
                           getMatchAggregate(job[i].old, p, written))
              => s \in T

\* What holds at the beginning and through each evaluation holds at the end.
LEMMA CourseInduction ==
  ASSUME NEW i, GraphTyped(i), NEW pairs \in SUBSET Pair, NEW written, NEW h, Course(h, i, pairs, written),
         NEW T, Advances(i, pairs, written, h, T)
  PROVE  pairs \in T
<1> DEFINE pick == [s \in SUBSET pairs |-> CHOOSE p \in s : TRUE]
<1>1. \A s \in SUBSET pairs : s # {} => pick[s] \in s /\ pick[s] = CHOOSE p \in s : TRUE
  OBVIOUS
<1> HIDE DEF pick
<1>2. IsFiniteSet(pairs)
  BY VotesAssumption, FS_Subset DEF VotesAssumption
<1>3. ASSUME NEW s \in SUBSET pairs, s # {}, s \ {pick[s]} \in T
      PROVE  s \in T
  <2>1. PICK p \in s : p = pick[s]
    BY <1>1, <1>3
  <2>2. h[s \ {p}] \in GraphSet /\ h[s] = Evaluated(i, written, p, h[s \ {p}])
    BY <1>1, <1>3, <2>1 DEF Course
  <2>3. /\ h[s] \in GraphSet
        /\ Evaluates(h[s \ {p}], h[s], job[i].old.productOf[p[1]], job[i].old.productOf[p[2]],
                     getMatchAggregate(job[i].old, p, written))
    BY <2>2, EvaluatedType
  <2> QED BY <1>3, <2>1, <2>2, <2>3 DEF Advances
<1>4. {} \in T
  BY DEF Advances
<1>5. SUBSET pairs \subseteq T
  BY <1>1, <1>2, <1>3, <1>4, SubsetInduction
<1> QED BY <1>5

-----------------------------------------------------------------------------
(* Roots.                                                                   *)

\* No cycles: every nonempty set of products has one whose parent is outside of
\* it.
Rooted(parent) == \A S \in SUBSET Product : S # {} => \E q \in S : parent[q] \notin S

\* Pointing one root at another closes no cycle.
LEMMA MergesStayRooted ==
  ASSUME NEW parent \in Parents, Rooted(parent), NEW q \in Product, NEW t \in Product, q # t,
         parent[q] = NoProduct, parent[t] = NoProduct
  PROVE  Rooted([parent EXCEPT ![q] = t])
<1> DEFINE after == [parent EXCEPT ![q] = t]
<1> SUFFICES ASSUME NEW S \in SUBSET Product, S # {}, \A x \in S : after[x] \in S
             PROVE  FALSE
  BY DEF Rooted
<1>1. after[q] = t /\ \A x \in Product \ {q} : after[x] = parent[x]
  BY DEF Parents
<1>2. q \notin S
  BY <1>1, NoProductIsNone
<1>3. \A x \in S : parent[x] \in S
  BY <1>1, <1>2
<1> QED BY <1>3 DEF Rooted

\* Nor does parting a product.
LEMMA SplitsStayRooted ==
  ASSUME NEW parent \in Parents, Rooted(parent), NEW q \in Product
  PROVE  Rooted([parent EXCEPT ![q] = NoProduct])
<1> DEFINE after == [parent EXCEPT ![q] = NoProduct]
<1> SUFFICES ASSUME NEW S \in SUBSET Product, S # {}, \A x \in S : after[x] \in S
             PROVE  FALSE
  BY DEF Rooted
<1>1. after[q] = NoProduct /\ \A x \in Product \ {q} : after[x] = parent[x]
  BY DEF Parents
<1>2. q \notin S
  BY <1>1, NoProductIsNone
<1>3. \A x \in S : parent[x] \in S
  BY <1>1, <1>2
<1> QED BY <1>3 DEF Rooted

\* A transaction that read what it changed, and met no chain longer than the
\* cap, leaves no cycle.
LEMMA CourseStaysRooted ==
  ASSUME NEW i, GraphTyped(i), NEW pairs \in SUBSET Pair, NEW written, NEW h, Course(h, i, pairs, written),
         job[i].old.mergedInto = mergedInto, Rooted(mergedInto), ~h[pairs].cut
  PROVE  Rooted(h[pairs].now)
<1> DEFINE T == {s \in SUBSET pairs : h[s].seen = h[s].now /\ (h[s].cut \/ Rooted(h[s].now))}
<1>1. {} \in T
  <2>1. h[{}] = Begin(i)
    BY DEF Course
  <2> QED BY <2>1 DEF Begin
<1>2. ASSUME NEW s \in SUBSET pairs, NEW p \in s,
             s \ {p} \in T, h[s \ {p}] \in GraphSet, h[s] \in GraphSet,
             Evaluates(h[s \ {p}], h[s], job[i].old.productOf[p[1]], job[i].old.productOf[p[2]],
                       getMatchAggregate(job[i].old, p, written))
      PROVE  s \in T
  <2> PICK g \in GraphSet : g = h[s \ {p}]
    BY <1>2
  <2> PICK r \in GraphSet : r = h[s]
    BY <1>2
  <2>1. g.seen = g.now /\ (g.cut \/ Rooted(g.now)) /\ g.now \in Parents
    BY <1>2 DEF GraphSet
  <2>2. ASSUME r = g PROVE r.seen = r.now /\ (r.cut \/ Rooted(r.now))
    BY <2>1, <2>2
  <2>3. ASSUME Merges(g, r) PROVE r.seen = r.now /\ (r.cut \/ Rooted(r.now))
    <3>1. PICK q \in Product, t \in Product :
            /\ q # t /\ r.seen = [g.seen EXCEPT ![q] = t] /\ r.now = [g.now EXCEPT ![q] = t]
            /\ ~r.cut => ~g.cut /\ g.seen[q] = NoProduct /\ g.seen[t] = NoProduct
      BY <2>3 DEF Merges
    <3>2. ~r.cut => Rooted([g.now EXCEPT ![q] = t])
      BY <2>1, <3>1, MergesStayRooted
    <3> QED BY <2>1, <3>1, <3>2
  <2>4. ASSUME Splits(g, r, job[i].old.productOf[p[1]], job[i].old.productOf[p[2]])
        PROVE  r.seen = r.now /\ (r.cut \/ Rooted(r.now))
    <3>1. PICK q \in Product : /\ r.seen = [g.seen EXCEPT ![q] = NoProduct] /\ r.cut = g.cut
                               /\ r.now = [g.now EXCEPT ![q] = NoProduct]
      BY <2>4 DEF Splits
    <3>2. ~r.cut => Rooted([g.now EXCEPT ![q] = NoProduct])
      BY <2>1, <3>1, SplitsStayRooted
    <3> QED BY <2>1, <3>1, <3>2
  <2>5. r.seen = r.now /\ (r.cut \/ Rooted(r.now))
    BY <1>2, <2>2, <2>3, <2>4 DEF Evaluates
  <2> QED BY <2>5
<1> HIDE DEF T
<1>3. Advances(i, pairs, written, h, T)
  BY <1>1, <1>2 DEF Advances
<1>4. pairs \in T
  BY <1>3, CourseInduction
<1> QED BY <1>4 DEF T

-----------------------------------------------------------------------------
(* What the evaluations changed, and why.                                   *)

\* A merge needs a pair of the transaction that promotes, and a parting one
\* that demotes.
Why(i, written, s, q, g) ==
  /\ g.now[q] # mergedInto[q] /\ g.now[q] # NoProduct =>
       \E p \in s : Promotes(getMatchAggregate(job[i].old, p, written))
  /\ g.now[q] # mergedInto[q] /\ g.now[q] = NoProduct =>
       \E p \in s : Demotes(getMatchAggregate(job[i].old, p, written))

\* The edge the product had is that of a pair whose tally demotes.
Parted(i, written, s, q) ==
  \E p \in s : /\ Demotes(getMatchAggregate(job[i].old, p, written))
               /\ {q, mergedInto[q]} = {job[i].old.productOf[p[1]], job[i].old.productOf[p[2]]}

\* A transaction that read what it changed parts a product only on a pair it
\* belongs to.
Torn(i, written, s, g) ==
  job[i].old.mergedInto = mergedInto =>
    /\ g.seen = g.now
    /\ ~g.cut => \A q \in Product : g.now[q] # mergedInto[q] /\ mergedInto[q] # NoProduct => Parted(i, written, s, q)

\* And a product leaves the fallback category only on a promotion.
Rescued(i, written, s, g) ==
  g.fallback # fallback => \E p \in s : Promotes(getMatchAggregate(job[i].old, p, written))

\* All that holds along the way.
LEMMA CourseFollows ==
  ASSUME NEW i, GraphTyped(i), NEW pairs \in SUBSET Pair, NEW written, NEW h, Course(h, i, pairs, written)
  PROVE  /\ \A q \in Product : Why(i, written, pairs, q, h[pairs])
         /\ Torn(i, written, pairs, h[pairs]) /\ Rescued(i, written, pairs, h[pairs])
<1> DEFINE T == {s \in SUBSET pairs : /\ \A q \in Product : Why(i, written, s, q, h[s])
                                     /\ Torn(i, written, s, h[s]) /\ Rescued(i, written, s, h[s])}
<1>1. {} \in T
  <2>1. h[{}] = Begin(i)
    BY DEF Course
  <2>2. h[{}].now = mergedInto /\ h[{}].fallback = fallback /\ h[{}].seen = job[i].old.mergedInto
    BY <2>1 DEF Begin
  <2> QED BY <2>2 DEF Why, Torn, Rescued
<1>2. ASSUME NEW s \in SUBSET pairs, NEW p \in s,
             s \ {p} \in T, h[s \ {p}] \in GraphSet, h[s] \in GraphSet,
             Evaluates(h[s \ {p}], h[s], job[i].old.productOf[p[1]], job[i].old.productOf[p[2]],
                       getMatchAggregate(job[i].old, p, written))
      PROVE  s \in T
  <2> PICK g \in GraphSet : g = h[s \ {p}]
    BY <1>2
  <2> PICK r \in GraphSet : r = h[s]
    BY <1>2
  <2> PICK less : less = s \ {p}
    OBVIOUS
  <2> DEFINE goal == /\ \A q \in Product : Why(i, written, s, q, r)
                     /\ Torn(i, written, s, r) /\ Rescued(i, written, s, r)
  <2>1. /\ \A q \in Product : Why(i, written, less, q, g)
        /\ Torn(i, written, less, g) /\ Rescued(i, written, less, g)
        /\ g.now \in Parents /\ less \subseteq s
    BY <1>2 DEF GraphSet
  <2>2. ASSUME r = g PROVE goal
    BY <2>1, <2>2 DEF Why, Torn, Rescued, Parted
  <2>3. ASSUME Promotes(getMatchAggregate(job[i].old, p, written)), Merges(g, r) PROVE goal
    <3>1. PICK q \in Product, t \in Product :
            /\ q # t /\ r.seen = [g.seen EXCEPT ![q] = t] /\ r.now = [g.now EXCEPT ![q] = t]
            /\ ~r.cut => ~g.cut /\ g.seen[q] = NoProduct /\ g.seen[t] = NoProduct
      BY <2>3 DEF Merges
    <3>2. t # NoProduct /\ r.now[q] = t /\ \A x \in Product \ {q} : r.now[x] = g.now[x]
      BY <2>1, <3>1, NoProductIsNone DEF Parents
    <3>3. ASSUME NEW x \in Product PROVE Why(i, written, s, x, r)
      <4>1. Why(i, written, less, x, g)
        BY <2>1
      <4> QED BY <2>1, <2>3, <3>2, <4>1 DEF Why
    <3>4. Torn(i, written, s, r)
      <4> SUFFICES ASSUME job[i].old.mergedInto = mergedInto
                   PROVE  /\ r.seen = r.now
                          /\ ~r.cut => \A x \in Product : r.now[x] # mergedInto[x] /\ mergedInto[x] # NoProduct
                                                            => Parted(i, written, s, x)
        BY DEF Torn
      <4>1. r.seen = r.now /\ g.seen = g.now
        BY <2>1, <3>1 DEF Torn
      <4>2. ASSUME ~r.cut, NEW x \in Product, r.now[x] # mergedInto[x], mergedInto[x] # NoProduct
            PROVE  Parted(i, written, s, x)
        <5>1. g.now[x] # mergedInto[x]
          BY <3>1, <3>2, <4>1, <4>2
        <5>2. Parted(i, written, less, x)
          BY <2>1, <3>1, <4>2, <5>1 DEF Torn
        <5> QED BY <2>1, <5>2 DEF Parted
      <4> QED BY <4>1, <4>2
    <3>5. Rescued(i, written, s, r)
      BY <2>3 DEF Rescued
    <3> QED BY <3>3, <3>4, <3>5
  <2>4. ASSUME Demotes(getMatchAggregate(job[i].old, p, written)),
               Splits(g, r, job[i].old.productOf[p[1]], job[i].old.productOf[p[2]])
        PROVE  goal
    <3>1. PICK q \in Product, t \in Product :
            /\ {q, t} = {job[i].old.productOf[p[1]], job[i].old.productOf[p[2]]} /\ g.seen[q] = t
            /\ r.seen = [g.seen EXCEPT ![q] = NoProduct] /\ r.now = [g.now EXCEPT ![q] = NoProduct]
            /\ r.cut = g.cut /\ r.fallback = g.fallback
      BY <2>4, Zenon DEF Splits
    <3>2. r.now[q] = NoProduct /\ \A x \in Product \ {q} : r.now[x] = g.now[x]
      BY <2>1, <3>1 DEF Parents
    <3>3. ASSUME NEW x \in Product PROVE Why(i, written, s, x, r)
      <4>1. Why(i, written, less, x, g)
        BY <2>1
      <4> QED BY <2>1, <2>4, <3>2, <4>1 DEF Why
    <3>4. Torn(i, written, s, r)
      <4> SUFFICES ASSUME job[i].old.mergedInto = mergedInto
                   PROVE  /\ r.seen = r.now
                          /\ ~r.cut => \A x \in Product : r.now[x] # mergedInto[x] /\ mergedInto[x] # NoProduct
                                                            => Parted(i, written, s, x)
        BY DEF Torn
      <4>1. r.seen = r.now /\ g.seen = g.now
        BY <2>1, <3>1 DEF Torn
      <4>2. ASSUME ~r.cut, NEW x \in Product, r.now[x] # mergedInto[x], mergedInto[x] # NoProduct
            PROVE  Parted(i, written, s, x)
        <5>1. CASE g.now[x] # mergedInto[x]
          <6>1. Parted(i, written, less, x)
            BY <2>1, <3>1, <4>2, <5>1 DEF Torn
          <6> QED BY <2>1, <6>1 DEF Parted
        <5>2. CASE g.now[x] = mergedInto[x]
          <6>1. x = q /\ mergedInto[x] = t
            BY <3>1, <3>2, <4>1, <4>2, <5>2
          <6>2. {x, mergedInto[x]} = {job[i].old.productOf[p[1]], job[i].old.productOf[p[2]]}
            BY <3>1, <6>1
          <6> QED BY <2>4, <6>2 DEF Parted
        <5> QED BY <5>1, <5>2
      <4> QED BY <4>1, <4>2
    <3>5. Rescued(i, written, s, r)
      BY <2>1, <3>1 DEF Rescued
    <3> QED BY <3>3, <3>4, <3>5
  <2>5. goal
    BY <1>2, <2>2, <2>3, <2>4 DEF Evaluates
  <2> QED BY <2>5
<1> HIDE DEF T
<1>3. Advances(i, pairs, written, h, T)
  BY <1>1, <1>2 DEF Advances
<1>4. pairs \in T
  BY <1>3, CourseInduction
<1> QED BY <1>4 DEF T

\* One pair is evaluated once: what it splits is an edge that was read.
LEMMA OnePairParts ==
  ASSUME NEW i, GraphTyped(i), NEW p \in Pair, NEW written, NEW h, Course(h, i, {p}, written),
         job[i].old.mergedInto = mergedInto, NEW q \in Product,
         h[{p}].now[q] # mergedInto[q], h[{p}].now[q] = NoProduct
  PROVE  Parted(i, written, {p}, q)
<1>1. (CHOOSE x \in {p} : TRUE) = p /\ {p} \ {p} = {} /\ {p} \in SUBSET {p} /\ {} \in SUBSET {p} /\ {p} # {}
  OBVIOUS
<1>2. h[{}] = Begin(i) /\ h[{}] \in GraphSet /\ h[{p}] = Evaluated(i, written, p, h[{}])
  BY <1>1 DEF Course
<1> PICK g \in GraphSet : g = h[{}]
  BY <1>2
<1> PICK r : r = h[{p}]
  OBVIOUS
<1>3. g.now = mergedInto /\ g.seen = mergedInto /\ mergedInto \in Parents
  BY <1>2 DEF Begin, GraphTyped
<1>4. Evaluates(g, r, job[i].old.productOf[p[1]], job[i].old.productOf[p[2]], getMatchAggregate(job[i].old, p, written))
  BY <1>2, EvaluatedType
<1>5. r # g
  BY <1>3
<1>6. ~Merges(g, r)
  <2> SUFFICES ASSUME NEW x \in Product, NEW t \in Product, r.now = [g.now EXCEPT ![x] = t]
               PROVE  FALSE
    BY DEF Merges
  <2>1. r.now[q] = mergedInto[q] \/ r.now[q] = t
    BY <1>3 DEF Parents
  <2> QED BY <2>1, NoProductIsNone
<1>7. /\ Demotes(getMatchAggregate(job[i].old, p, written))
      /\ Splits(g, r, job[i].old.productOf[p[1]], job[i].old.productOf[p[2]])
  BY <1>4, <1>5, <1>6 DEF Evaluates
<1>8. PICK x \in Product, t \in Product :
        /\ {x, t} = {job[i].old.productOf[p[1]], job[i].old.productOf[p[2]]} /\ g.seen[x] = t
        /\ r.now = [g.now EXCEPT ![x] = NoProduct]
  BY <1>7, Zenon DEF Splits
<1>9. q = x
  BY <1>3, <1>8 DEF Parents
<1>10. {q, mergedInto[q]} = {job[i].old.productOf[p[1]], job[i].old.productOf[p[2]]}
  BY <1>3, <1>8, <1>9
<1> QED BY <1>7, <1>10 DEF Parted

-----------------------------------------------------------------------------
(* What requests do to the graph.                                           *)

\* What the proof has to know of the graph in a snapshot, and of a merge that
\* an administrator asked for.
JobGraph(j) == j # Idle =>
  /\ j.old.mergedInto \in Parents /\ j.old.fallback \in SUBSET Product
  /\ j.old.productOf \in [StoreProduct -> Product]
  /\ j.request.kind = "products" =>
       /\ j.request.winner \in Product /\ j.request.loser \in Product /\ j.request.winner # j.request.loser
       /\ j.old.mergedInto[j.request.winner] = NoProduct /\ j.old.mergedInto[j.request.loser] = NoProduct

\* The invariant: the types of the graph and of the snapshots, and the roots.
GraphInv == /\ mergedInto \in Parents /\ fallback \in SUBSET Product
            /\ productOf \in [StoreProduct -> Product]
            /\ \A i \in Proc : JobGraph(job[i])
            /\ crossed \/ Rooted(mergedInto)

\* A request that answers is a request of its kind.
LEMMA AnswerIsRequest ==
  ASSUME IInv, NEW i \in Proc, Answer(i)
  PROVE  job[i] # Idle /\ job[i].request \in Requests /\ Finish(i)
<1>1. Finish(i) /\ job[i].request.kind # "none"
  BY DEF Answer, castSwipeVote, castDirectSpPairVote, editVote, castOrphanSwipeVote, castSlot2Vote,
         recordTwinPairVote, undoSwipeVote, resetReceiptLearning, purgeUser, mergeProducts, Record
<1>2. job[i] # Idle
  BY <1>1 DEF Idle
<1> QED BY <1>1, <1>2 DEF IInv, Typed, JobTyped

\* Votes that lead to an evaluation of pairs.
Reevaluates(i) ==
  /\ job[i].request.kind # "products"
  /\ \E pairs \in SUBSET Pair :
       /\ Reevaluate(i, pairs, match')
       /\ job[i].request.kind = "purge" \/ \E p \in Pair : pairs = {p}

\* A rescue, and nothing else of the graph.
MayRescue(i) ==
  /\ UNCHANGED <<mergedInto, productOf, crossed>>
  /\ fallback' # fallback => \E p \in Pair :
       LET tally == getMatchAggregate(job[i].old, p, match') IN Promotes(tally) \/ PromotesSimilar(tally)
  /\ fallback' \in SUBSET Product

\* A rescue leaves a set of products.
LEMMA RescueType ==
  ASSUME GraphInv, NEW i \in Proc, job[i] # Idle, NEW orphan \in StoreProduct, NEW candidate
  PROVE  executeRescue(job[i].old, orphan, candidate) \in SUBSET Product
  BY DEF GraphInv, JobGraph, executeRescue

\* A request evaluates pairs, rescues, merges what an administrator asked for, or
\* leaves the graph alone.
LEMMA AnswerGraph ==
  ASSUME IInv, GraphInv, NEW i \in Proc, Answer(i)
  PROVE  Reevaluates(i) \/ MayRescue(i) \/ mergeProducts(i)
<1>1. job[i] # Idle /\ job[i].request \in Requests
  BY AnswerIsRequest
<1>2. fallback \in SUBSET Product
  BY DEF GraphInv
<1>3. ASSUME NEW p \in Pair, Reevaluate(i, {p}, match'), job[i].request.kind \notin {"products", "purge"}
      PROVE  Reevaluates(i)
  <2>1. {p} \in SUBSET Pair
    OBVIOUS
  <2> QED BY <1>3, <2>1 DEF Reevaluates
<1>4. CASE castSwipeVote(i) \/ castDirectSpPairVote(i) \/ editVote(i) \/ castOrphanSwipeVote(i)
  <2>1. job[i].request.kind \in RowKinds \ {"undo", "reset"}
    BY <1>4 DEF castSwipeVote, castDirectSpPairVote, editVote, castOrphanSwipeVote, RowKinds
  <2>2. job[i].request.pair \in Pair
    BY <2>1, RequestHolds DEF IInv
  <2>3. ReevaluateUnlessBurst(i)
    BY <1>4 DEF castSwipeVote, castDirectSpPairVote, editVote, castOrphanSwipeVote
  <2>4. CASE job[i].request.burst
    BY <1>2, <2>3, <2>4 DEF ReevaluateUnlessBurst, graph, MayRescue
  <2>5. CASE ~job[i].request.burst
    <3>1. Reevaluate(i, {job[i].request.pair}, match')
      BY <2>3, <2>5 DEF ReevaluateUnlessBurst
    <3> QED BY <1>3, <2>1, <2>2, <3>1 DEF RowKinds
  <2> QED BY <2>4, <2>5
<1>5. CASE castSlot2Vote(i)
  <2>1. job[i].request.pair \in Pair
    BY <1>5, RequestHolds DEF castSlot2Vote, IInv, RowKinds
  <2>2. job[i].request.pair[1] \in StoreProduct /\ job[i].request.pair[2] \in StoreProduct
    BY <2>1, VotesAssumption DEF VotesAssumption
  <2>3. UNCHANGED <<mergedInto, productOf, crossed>>
    BY <1>5 DEF castSlot2Vote
  <2>4. CASE job[i].request.burst
    BY <1>2, <1>5, <2>3, <2>4 DEF castSlot2Vote, MayRescue
  <2>5. CASE ~job[i].request.burst
    <3> DEFINE tally == getMatchAggregate(job[i].old, job[i].request.pair, match')
    <3>1. PICK orphan, candidate \in {job[i].request.pair[1], job[i].request.pair[2]} :
            fallback' = IF RescueIsDue(job[i].request.verdict, tally)
                        THEN executeRescue(job[i].old, orphan, candidate) ELSE fallback
      BY <1>5, <2>5 DEF castSlot2Vote
    <3>2. orphan \in StoreProduct
      BY <2>2, <3>1
    <3>3. fallback' \in SUBSET Product
      BY <1>1, <1>2, <3>1, <3>2, RescueType
    <3>4. fallback' # fallback => Promotes(tally) \/ PromotesSimilar(tally)
      BY <3>1 DEF RescueIsDue
    <3> QED BY <2>1, <2>3, <3>3, <3>4 DEF MayRescue
  <2> QED BY <2>4, <2>5
<1>6. CASE recordTwinPairVote(i) \/ undoSwipeVote(i)
  <2>1. job[i].request.kind \in RowKinds
    BY <1>6 DEF recordTwinPairVote, undoSwipeVote, RowKinds
  <2>2. job[i].request.pair \in Pair
    BY <2>1, RequestHolds DEF IInv
  <2>3. Reevaluate(i, {job[i].request.pair}, match')
    BY <1>6 DEF recordTwinPairVote, undoSwipeVote
  <2> QED BY <1>3, <2>1, <2>2, <2>3 DEF RowKinds
<1>7. CASE resetReceiptLearning(i)
  BY <1>2, <1>7 DEF resetReceiptLearning, graph, MayRescue
<1>8. CASE purgeUser(i)
  <2> DEFINE pairs == {p \in Pair : job[i].old.vote[job[i].request.user][p] # NoVote}
  <2>1. Reevaluate(i, pairs, match') /\ job[i].request.kind = "purge"
    BY <1>8 DEF purgeUser
  <2>2. pairs \in SUBSET Pair
    OBVIOUS
  <2> HIDE DEF pairs
  <2> QED BY <2>1, <2>2 DEF Reevaluates
<1> QED BY <1>4, <1>5, <1>6, <1>7, <1>8 DEF Answer

\* What a request reads of its own snapshot is typed.
LEMMA SnapshotGraph ==
  ASSUME GraphInv, NEW i \in Proc, job[i] # Idle
  PROVE  GraphTyped(i)
  BY DEF GraphInv, JobGraph, GraphTyped

\* The conjuncts of the invariant that are about the graph itself.
GraphKept == /\ mergedInto' \in Parents /\ fallback' \in SUBSET Product
             /\ productOf' \in [StoreProduct -> Product]
             /\ crossed' \/ Rooted(mergedInto')

\* A transaction that evaluates keeps the graph,
LEMMA EvaluationKeeps ==
  ASSUME GraphInv, NEW i \in Proc, job[i] # Idle, NEW pairs \in SUBSET Pair, Reevaluate(i, pairs, match')
  PROVE  GraphKept
<1>1. GraphTyped(i)
  BY SnapshotGraph
<1> PICK written : written = match'
  OBVIOUS
<1>2. Reevaluate(i, pairs, written)
  OBVIOUS
<1>3. PICK h : /\ Course(h, i, pairs, written)
               /\ mergedInto' = h[pairs].now /\ fallback' = h[pairs].fallback /\ productOf' = productOf
               /\ crossed' = (crossed \/ h[pairs].cut
                              \/ (h[pairs].now # mergedInto /\ job[i].old.mergedInto # mergedInto))
  BY <1>1, <1>2, CourseRuns
<1>4. h[pairs] \in GraphSet
  BY <1>3 DEF Course
<1>5. mergedInto' \in Parents /\ fallback' \in SUBSET Product
  BY <1>3, <1>4 DEF GraphSet
<1>6. crossed' \/ Rooted(mergedInto')
  <2> SUFFICES ASSUME ~crossed' PROVE Rooted(mergedInto')
    OBVIOUS
  <2>1. ~crossed /\ ~h[pairs].cut /\ (h[pairs].now # mergedInto => job[i].old.mergedInto = mergedInto)
    BY <1>3
  <2>2. Rooted(mergedInto)
    BY <2>1 DEF GraphInv
  <2>3. CASE h[pairs].now = mergedInto
    BY <1>3, <2>2, <2>3
  <2>4. CASE job[i].old.mergedInto = mergedInto
    <3>1. Rooted(h[pairs].now)
      BY <1>1, <1>3, <2>1, <2>2, <2>4, CourseStaysRooted
    <3> QED BY <1>3, <3>1
  <2> QED BY <2>1, <2>3, <2>4
<1>7. productOf' \in [StoreProduct -> Product]
  BY <1>3 DEF GraphInv
<1> QED BY <1>5, <1>6, <1>7 DEF GraphKept

\* and so does a merge by an administrator.
LEMMA AdministratorKeeps ==
  ASSUME IInv, GraphInv, NEW i \in Proc, mergeProducts(i), job[i] # Idle
  PROVE  GraphKept
<1> PICK q : q = job[i].request.loser
  OBVIOUS
<1> PICK t : t = job[i].request.winner
  OBVIOUS
<1>1. /\ q \in Product /\ t \in Product /\ q # t
      /\ job[i].old.mergedInto[t] = NoProduct /\ job[i].old.mergedInto[q] = NoProduct
  BY DEF GraphInv, JobGraph, mergeProducts
<1>2. /\ mergedInto' = [mergedInto EXCEPT ![q] = t]
      /\ productOf' = [s \in StoreProduct |-> IF productOf[s] = q THEN t ELSE productOf[s]]
      /\ crossed' = (crossed \/ job[i].old.mergedInto # mergedInto) /\ fallback' = fallback
  BY DEF mergeProducts
<1>3. mergedInto' \in Parents
  BY <1>1, <1>2 DEF GraphInv, Parents
<1>4. productOf' \in [StoreProduct -> Product]
  BY <1>1, <1>2 DEF GraphInv
<1>5. crossed' \/ Rooted(mergedInto')
  <2> SUFFICES ASSUME ~crossed' PROVE Rooted(mergedInto')
    OBVIOUS
  <2>1. Rooted(mergedInto) /\ mergedInto \in Parents /\ job[i].old.mergedInto = mergedInto
    BY <1>2 DEF GraphInv
  <2>2. Rooted([mergedInto EXCEPT ![q] = t])
    BY <1>1, <2>1, MergesStayRooted
  <2> QED BY <1>2, <2>2
<1> QED BY <1>2, <1>3, <1>4, <1>5 DEF GraphKept, GraphInv

\* The products start without cycles.
LEMMA GraphStart == Init => GraphInv
<1> SUFFICES ASSUME Init PROVE GraphInv
  OBVIOUS
<1>1. /\ mergedInto \in Parents /\ fallback \in SUBSET Product /\ productOf \in [StoreProduct -> Product]
      /\ Rooted(mergedInto)
  BY VotesAssumption DEF Init, VotesAssumption, Parents, Rooted
<1>2. \A i \in Proc : job[i] = Idle
  BY DEF Init
<1> QED BY <1>1, <1>2 DEF GraphInv, JobGraph

\* Every step keeps the graph.
LEMMA GraphStep == IInv /\ GraphInv /\ [Next]_vars => GraphInv'
<1> SUFFICES ASSUME IInv, GraphInv, [Next]_vars PROVE GraphInv'
  OBVIOUS
<1>1. ASSUME NEW i \in Proc, Finish(i), GraphKept PROVE GraphInv'
  <2>1. \A k \in Proc : job'[k] = IF k = i THEN Idle ELSE job[k]
    BY <1>1 DEF Finish, IInv, Typed
  <2>2. \A k \in Proc : JobGraph(job'[k])
    BY <2>1 DEF JobGraph, GraphInv
  <2> QED BY <1>1, <2>2 DEF GraphKept, GraphInv, JobGraph
<1>2. UNCHANGED graph /\ UNCHANGED crossed => GraphKept
  BY DEF graph, GraphKept, GraphInv
<1>3. ASSUME NEW i \in Proc, Answer(i) PROVE GraphInv'
  <2>1. job[i] # Idle /\ Finish(i)
    BY <1>3, AnswerIsRequest
  <2>2. CASE Reevaluates(i)
    BY <1>1, <2>1, <2>2, EvaluationKeeps DEF Reevaluates
  <2>3. CASE MayRescue(i)
    <3>1. GraphKept
      BY <2>3 DEF MayRescue, GraphKept, GraphInv
    <3> QED BY <1>1, <2>1, <3>1
  <2>4. CASE mergeProducts(i)
    BY <1>1, <2>1, <2>4, AdministratorKeeps
  <2> QED BY <1>3, <2>2, <2>3, <2>4, AnswerGraph
<1>4. ASSUME NEW i \in Proc, NEW r \in Requests, Start(i, r) PROVE GraphInv'
  <2>1. UNCHANGED graph /\ UNCHANGED crossed /\ Admissible(r)
        /\ job' = [job EXCEPT ![i] = [request |-> r, old |-> Snapshot]]
    BY <1>4 DEF Start
  <2>2. JobGraph([request |-> r, old |-> Snapshot])
    <3>1. r.kind = "products" => /\ r.winner \in Product /\ r.loser \in Product /\ r.winner # r.loser
                                 /\ mergedInto[r.winner] = NoProduct /\ mergedInto[r.loser] = NoProduct
      BY <2>1 DEF Admissible, Requests, Votes
    <3> QED BY <3>1 DEF GraphInv, JobGraph, Snapshot
  <2>3. \A k \in Proc : job'[k] = IF k = i THEN [request |-> r, old |-> Snapshot] ELSE job[k]
    BY <2>1 DEF IInv, Typed
  <2>4. \A k \in Proc : JobGraph(job'[k])
    BY <2>2, <2>3 DEF GraphInv
  <2> QED BY <1>2, <2>1, <2>4 DEF GraphKept, GraphInv, JobGraph
<1>5. CASE \E i \in Proc : Rollback(i)
  BY <1>1, <1>2, <1>5 DEF Rollback
<1>6. ASSUME UNCHANGED <<graph, job, crossed>> PROVE GraphInv'
  BY <1>6 DEF graph, GraphInv, JobGraph
<1>7. CASE \E u \in User : anonymizeUser(u)
  BY <1>6, <1>7 DEF anonymizeUser
<1>8. CASE \E fresh, recovered \in User : mergeStoreProductMatchVotes(fresh, recovered)
  BY <1>6, <1>8 DEF mergeStoreProductMatchVotes
<1>9. CASE UNCHANGED vars
  BY <1>6, <1>9 DEF vars, graph
<1> QED BY <1>3, <1>4, <1>5, <1>7, <1>8, <1>9 DEF Next

\* Products keep their roots.
THEOREM RootsAreKept == Spec => []ProductsHaveRoots
<1>1. GraphInv => ProductsHaveRoots
  BY DEF GraphInv, ProductsHaveRoots, Rooted, Closed
<1> QED BY <1>1, VotesStart, VotesStep, GraphStart, GraphStep, PTL DEF Spec

\* The tally a request reads is that of a ballot it may have acted upon.
LEMMA TallyIsActed ==
  ASSUME IInv, IInv', NEW i \in Proc, NEW p \in Pair
  PROVE  Misread(i, p) \/ getMatchAggregate(job[i].old, p, match') \in Acted(i, p)
<1> SUFFICES ASSUME ~Misread(i, p) PROVE getMatchAggregate(job[i].old, p, match') \in Acted(i, p)
  OBVIOUS
<1>1. p \notin drifted' /\ job[i].old.match[p] = Ballot(job[i].old.vote, job[i].old.anonymous, p)
  BY DEF Misread
<1>2. match'[p] = Ballot(vote', anonymous', p)
  BY <1>1 DEF IInv, TalliesCountPeople
<1>3. getMatchAggregate(job[i].old, p, match') \in {job[i].old.match[p], match'[p]}
  BY DEF getMatchAggregate
<1> QED BY <1>1, <1>2, <1>3 DEF Acted

\* A request that answers ends.
LEMMA AnswerEnds ==
  ASSUME IInv, NEW i \in Proc, Answer(i)
  PROVE  Ends(i)
<1>1. job[i] # Idle /\ Finish(i)
  BY AnswerIsRequest
<1> QED BY <1>1 DEF Ends, Finish, IInv, Typed

\* Why a product is pointed elsewhere.
Explained(i, q) ==
  IF job[i].request.kind = "products" THEN q = job[i].request.loser
  ELSE \E p \in Pair :
         \/ Misread(i, p)
         \/ \E ballot \in Acted(i, p) :
              IF mergedInto'[q] # NoProduct THEN Promotes(ballot)
              ELSE /\ Demotes(ballot)
                   /\ Joins(q, p, job[i].old) \/ (job[i].request.kind = "purge" /\ crossed')

\* What a transaction changes is explained by the votes it has read and
\* written.
LEMMA EvaluationExplains ==
  ASSUME IInv, IInv', GraphInv, NEW i \in Proc, job[i] # Idle, Reevaluates(i),
         NEW q \in Product, mergedInto'[q] # mergedInto[q]
  PROVE  Explained(i, q)
<1>1. GraphTyped(i)
  BY SnapshotGraph
<1> PICK written : written = match'
  OBVIOUS
<1>2. PICK pairs \in SUBSET Pair :
        /\ Reevaluate(i, pairs, written)
        /\ job[i].request.kind = "purge" \/ \E p \in Pair : pairs = {p}
  BY DEF Reevaluates
<1>3. PICK h : /\ Course(h, i, pairs, written) /\ mergedInto' = h[pairs].now
               /\ crossed' = (crossed \/ h[pairs].cut
                              \/ (h[pairs].now # mergedInto /\ job[i].old.mergedInto # mergedInto))
  BY <1>1, <1>2, CourseRuns
<1>4. Why(i, written, pairs, q, h[pairs]) /\ Torn(i, written, pairs, h[pairs])
  BY <1>1, <1>3, CourseFollows
<1>5. \A p \in Pair : Misread(i, p) \/ getMatchAggregate(job[i].old, p, written) \in Acted(i, p)
  BY TallyIsActed
<1>6. job[i].request.kind # "products"
  BY DEF Reevaluates
<1>7. CASE mergedInto'[q] # NoProduct
  <2>1. PICK p \in pairs : Promotes(getMatchAggregate(job[i].old, p, written))
    BY <1>3, <1>4, <1>7 DEF Why
  <2> QED BY <1>5, <1>6, <1>7, <2>1 DEF Explained
<1>8. CASE mergedInto'[q] = NoProduct
  <2>1. PICK p \in pairs : /\ Demotes(getMatchAggregate(job[i].old, p, written))
                           /\ Joins(q, p, job[i].old) \/ (job[i].request.kind = "purge" /\ crossed')
    <3>1. PICK p \in pairs : Demotes(getMatchAggregate(job[i].old, p, written))
      BY <1>3, <1>4, <1>8 DEF Why
    <3>2. CASE job[i].old.mergedInto # mergedInto
      BY <3>1, <3>2 DEF Joins
    <3>3. CASE job[i].request.kind = "purge" /\ h[pairs].cut
      BY <1>3, <3>1, <3>3
    <3>4. ASSUME Parted(i, written, pairs, q)
          PROVE  \E x \in pairs : Demotes(getMatchAggregate(job[i].old, x, written)) /\ Joins(q, x, job[i].old)
      BY <3>4 DEF Parted, Joins
    <3>5. CASE job[i].old.mergedInto = mergedInto /\ \E x \in Pair : pairs = {x}
      <4>1. PICK x \in Pair : pairs = {x}
        BY <3>5
      <4>2. Parted(i, written, {x}, q)
        BY <1>1, <1>3, <1>8, <3>5, <4>1, OnePairParts
      <4> QED BY <3>4, <4>1, <4>2
    <3>6. CASE job[i].old.mergedInto = mergedInto /\ job[i].request.kind = "purge" /\ ~h[pairs].cut
      <4>1. Parted(i, written, pairs, q)
        BY <1>3, <1>4, <1>8, <3>6 DEF Torn
      <4> QED BY <3>4, <4>1
    <3> QED BY <1>2, <3>2, <3>3, <3>5, <3>6
  <2> QED BY <1>5, <1>6, <1>8, <2>1 DEF Explained
<1> QED BY <1>7, <1>8

\* Only requests that answer change the graph.
LEMMA GraphWriters ==
  ASSUME [Next]_vars
  PROVE  UNCHANGED <<mergedInto, fallback>> \/ \E i \in Proc : Answer(i)
BY DEF Next, vars, Start, Rollback, anonymizeUser, mergeStoreProductMatchVotes, graph

\* Every product that is merged or parted has a tally that says so, for any
\* number of users, products, pairs and requests (reevaluateMerge).
THEOREM MergesAreExplained == Spec => MergesFollowVotes
<1>1. IInv /\ IInv' /\ GraphInv /\ [Next]_vars =>
        [\A q \in Product : mergedInto'[q] # mergedInto[q] =>
       \E i \in Proc : Ends(i) /\
         IF job[i].request.kind = "products" THEN q = job[i].request.loser
         ELSE \E p \in Pair :
                \/ Misread(i, p)
                \/ \E ballot \in Acted(i, p) :
                     IF mergedInto'[q] # NoProduct THEN Promotes(ballot)
                     ELSE /\ Demotes(ballot)
                          /\ Joins(q, p, job[i].old) \/ (job[i].request.kind = "purge" /\ crossed')]_vars
  <2> SUFFICES ASSUME IInv, IInv', GraphInv, [Next]_vars, NEW q \in Product, mergedInto'[q] # mergedInto[q]
               PROVE  \E i \in Proc : Ends(i) /\ Explained(i, q)
    BY DEF Explained
  <2>1. PICK i \in Proc : Answer(i)
    BY GraphWriters
  <2>2. Ends(i) /\ job[i] # Idle
    BY <2>1, AnswerEnds DEF Ends
  <2>3. CASE Reevaluates(i)
    BY <2>2, <2>3, EvaluationExplains
  <2>4. CASE MayRescue(i)
    BY <2>4 DEF MayRescue
  <2>5. CASE mergeProducts(i)
    BY <2>2, <2>5 DEF mergeProducts, Explained, GraphInv, Parents
  <2> QED BY <2>1, <2>2, <2>3, <2>4, <2>5, AnswerGraph
<1> QED BY <1>1, VotesStart, VotesStep, GraphStart, GraphStep, PTL DEF Spec, MergesFollowVotes

\* A product leaves the fallback category only when votes merge it, for any
\* number of users, products, pairs and requests
\* (categoriseUncategorisedOnMerge).
THEOREM RescuesAreExplained == Spec => RescuesFollowVotes
<1>1. IInv /\ IInv' /\ GraphInv /\ [Next]_vars =>
        [\A q \in fallback \ fallback' :
       \E i \in Proc : Ends(i) /\ \E p \in Pair :
         Misread(i, p) \/ \E ballot \in Acted(i, p) : Promotes(ballot) \/ PromotesSimilar(ballot)]_vars
  <2> SUFFICES ASSUME IInv, IInv', GraphInv, [Next]_vars, fallback' # fallback
               PROVE  \E i \in Proc : Ends(i) /\ \E p \in Pair :
                        Misread(i, p) \/ \E ballot \in Acted(i, p) : Promotes(ballot) \/ PromotesSimilar(ballot)
    OBVIOUS
  <2>1. PICK i \in Proc : Answer(i)
    BY GraphWriters
  <2>2. Ends(i) /\ job[i] # Idle
    BY <2>1, AnswerEnds DEF Ends
  <2>3. PICK p \in Pair : LET tally == getMatchAggregate(job[i].old, p, match')
                          IN  Promotes(tally) \/ PromotesSimilar(tally)
    <3>1. CASE Reevaluates(i)
      <4>1. GraphTyped(i)
        BY <2>2, SnapshotGraph
      <4> PICK written : written = match'
        OBVIOUS
      <4>2. PICK pairs \in SUBSET Pair : Reevaluate(i, pairs, written)
        BY <3>1 DEF Reevaluates
      <4>3. PICK h : Course(h, i, pairs, written) /\ fallback' = h[pairs].fallback
        BY <4>1, <4>2, CourseRuns
      <4>4. Rescued(i, written, pairs, h[pairs])
        BY <4>1, <4>3, CourseFollows
      <4> QED BY <4>3, <4>4 DEF Rescued
    <3>2. CASE MayRescue(i)
      BY <3>2 DEF MayRescue
    <3>3. CASE mergeProducts(i)
      BY <3>3 DEF mergeProducts
    <3> QED BY <2>1, <3>1, <3>2, <3>3, AnswerGraph
  <2>4. Misread(i, p) \/ getMatchAggregate(job[i].old, p, match') \in Acted(i, p)
    BY TallyIsActed
  <2> QED BY <2>2, <2>3, <2>4
<1> QED BY <1>1, VotesStart, VotesStep, GraphStart, GraphStep, PTL DEF Spec, RescuesFollowVotes
=============================================================================
