---------------------------- MODULE MCProductVotes ----------------------------
(* Instances of ProductVotes for TLC. *)
EXTENDS ProductVotes, TLC

CONSTANTS u1, u2, s1, s2, s3

MCProduct == 1..7
MCPair == {<<s1, s2>>, <<s2, s3>>}

Symmetry == Permutations(User) \cup Permutations(Proc)

Row1 == {NoVote} \cup [verdict : {"identical", "different"}, aggregated : {TRUE}]
                 \cup [verdict : {"different"}, aggregated : {FALSE}]
Only(row) == [u \in User |-> [p \in Pair |-> IF u = u1 /\ p = <<s1, s2>> THEN row ELSE NoVote]]
Counts(x, y, z) == [identical |-> x, similar |-> y, different |-> z]
Crowd(t1, t2) == [p \in Pair |-> IF p = <<s1, s2>> THEN t1 ELSE t2]
Apart == [s \in StoreProduct |-> IF s = s1 THEN 2 ELSE IF s = s2 THEN 1 ELSE 3]
Shared == [s \in StoreProduct |-> IF s = s2 THEN 2 ELSE 1]
\* Four products were merged one into the next, the last of them into 3.
Unmerged == [q \in Product |-> IF q > 3 THEN q - 1 ELSE NoProduct]
Far == [s \in StoreProduct |-> IF s = s1 THEN 1 ELSE IF s = s2 THEN 2 ELSE 7]

\* A vote short of being merged on both pairs; merged and a vote short of being
\* split, with a second pair across the same two products; alike enough for a
\* rescue, with a merge on the other pair; a merge of a product that is farther
\* from its root than its chain is followed.
MCHistories == UNION {
  { [vote |-> Only(row), anonymous |-> Crowd(Counts(15, 0, 0), Counts(15, 0, 0)),
     mergedInto |-> Unmerged, productOf |-> Apart, fallback |-> {1}],
    [vote |-> Only(row), anonymous |-> Crowd(Counts(15, 0, 6), Counts(2, 0, 0)),
     mergedInto |-> [Unmerged EXCEPT ![2] = 1], productOf |-> Shared, fallback |-> {}],
    [vote |-> Only(row), anonymous |-> Crowd(Counts(0, 8, 0), Counts(16, 0, 0)),
     mergedInto |-> [Unmerged EXCEPT ![3] = 1], productOf |-> Apart, fallback |-> {2, 3}] }
  : row \in Row1}
  \cup {[vote |-> Only(NoVote), anonymous |-> Crowd(Counts(2, 0, 0), Counts(15, 0, 0)),
         mergedInto |-> [Unmerged EXCEPT ![3] = 1], productOf |-> Far, fallback |-> {2}]}
=============================================================================
