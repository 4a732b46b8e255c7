------------------------------ MODULE FoldProofs ------------------------------
(***************************************************************************)
(* Induction over numbers and over finite sets, and what follows by it:    *)
(* sums, orderings of a finite set, least elements and left folds.  An     *)
(* induction hypothesis is a set (of the numbers, or of the subsets, that  *)
(* have been reached), and a fold is a function that gives its value on    *)
(* each prefix, so that no theorem here takes an operator as a parameter.  *)
(***************************************************************************)
EXTENDS Integers, SequencesExt, FiniteSetTheorems, WellFoundedInduction, TLAPS

\* A nonempty set of numbers has a least one.
LEMMA LeastNumber ==
  ASSUME NEW T \in SUBSET Nat, T # {}
  PROVE  \E n \in T : \A m \in T : n <= m
<1> DEFINE R == OpToRel(<, Nat)
<1>1. IsWellFoundedOn(R, Nat)
  BY NatLessThanWellFounded
<1>2. \A m, n \in Nat : m < n => <<m, n>> \in R
  BY DEF OpToRel
<1> HIDE DEF R
<1>3. PICK n \in T : \A m \in T : ~(<<m, n>> \in R)
  BY <1>1, WFMin
<1>4. \A m \in T : ~(m < n)
  BY <1>2, <1>3
<1>5. QED
  BY <1>4

\* Induction over the numbers, as a property of the set of those reached.
LEMMA NumberInduction ==
  ASSUME NEW T, 0 \in T, \A n \in Nat : n \in T => n + 1 \in T
  PROVE  Nat \subseteq T
<1>1. SUFFICES ASSUME Nat \ T # {}
               PROVE  FALSE
  OBVIOUS
<1>2. PICK n \in Nat \ T : \A m \in Nat \ T : n <= m
  BY <1>1, LeastNumber
<1>3. n - 1 \in Nat /\ n - 1 \in T
  BY <1>2
<1>4. QED
  BY <1>2, <1>3

\* Induction over the subsets of a finite set, by removing a picked element.
LEMMA SubsetInduction ==
  ASSUME NEW S, IsFiniteSet(S), NEW pick, \A s \in SUBSET S : s # {} => pick[s] \in s,
         NEW T, {} \in T,
         \A s \in SUBSET S : s # {} /\ s \ {pick[s]} \in T => s \in T
  PROVE  SUBSET S \subseteq T
<1> DEFINE N == {n \in Nat : \A s \in SUBSET S : Cardinality(s) = n => s \in T}
<1>1. \A s \in SUBSET S : IsFiniteSet(s) /\ Cardinality(s) \in Nat /\ (Cardinality(s) = 0 <=> s = {})
  BY FS_Subset, FS_CardinalityType, FS_EmptySet
<1>2. 0 \in N
  BY <1>1
<1>3. ASSUME NEW n \in Nat, n \in N
      PROVE  n + 1 \in N
  <2>1. SUFFICES ASSUME NEW s \in SUBSET S, Cardinality(s) = n + 1
                 PROVE  s \in T
    OBVIOUS
  <2>2. s # {} /\ pick[s] \in s
    BY <1>1, <2>1
  <2>3. Cardinality(s \ {pick[s]}) = n
    BY <1>1, <2>1, <2>2, FS_RemoveElement
  <2>4. s \ {pick[s]} \in T
    BY <1>3, <2>3
  <2>5. QED
    BY <2>2, <2>4
<1>4. Nat \subseteq N
  <2> HIDE DEF N
  <2>1. QED
    BY <1>2, <1>3, NumberInduction
<1>5. QED
  BY <1>1, <1>4

\* g and h agree on a subset if they agree on it without its picked element.
UnwindAlike(g, h, S, pick) ==
  /\ h[{}] = g[{}]
  /\ \A s \in SUBSET S : s # {} =>
       pick[s] \in s /\ (h[s \ {pick[s]}] = g[s \ {pick[s]}] => h[s] = g[s])

\* Then they agree.
LEMMA SameUnwinding ==
  ASSUME NEW S, IsFiniteSet(S), NEW pick, NEW g, NEW h, UnwindAlike(g, h, S, pick)
  PROVE  \A s \in SUBSET S : h[s] = g[s]
<1> DEFINE T == {s \in SUBSET S : h[s] = g[s]}
<1>1. {} \in T /\ \A s \in SUBSET S : s # {} /\ s \ {pick[s]} \in T => s \in T
  BY DEF UnwindAlike
<1>2. \A s \in SUBSET S : s # {} => pick[s] \in s
  BY DEF UnwindAlike
<1>3. SUBSET S \subseteq T
  <2> HIDE DEF T
  <2>1. QED
    BY <1>1, <1>2, SubsetInduction
<1>4. QED
  BY <1>3

\* g is defined on the subsets of S by removing a picked element.
Unwinds(g, S, pick, V, base, step) ==
  /\ g \in [SUBSET S -> V]
  /\ \A s \in SUBSET S : g[s] = IF s = {} THEN base ELSE step[s][g[s \ {pick[s]}]]

\* A function on the subsets of a finite set may be defined by removing a
\* picked element.
LEMMA SubsetRecursion ==
  ASSUME NEW S, IsFiniteSet(S), NEW pick, \A s \in SUBSET S : s # {} => pick[s] \in s,
         NEW V, NEW base \in V, NEW step, \A s \in SUBSET S, v \in V : step[s][v] \in V
  PROVE  \E g : Unwinds(g, S, pick, V, base, step)
<1> DEFINE Below(n) == {s \in SUBSET S : Cardinality(s) <= n}
           Rec(g, D) == \A s \in D : g[s] = IF s = {} THEN base ELSE step[s][g[s \ {pick[s]}]]
           N == {n \in Nat : \E g \in [Below(n) -> V] : Rec(g, Below(n))}
<1>1. \A s \in SUBSET S : IsFiniteSet(s) /\ Cardinality(s) \in Nat /\ (Cardinality(s) = 0 <=> s = {})
  BY FS_Subset, FS_CardinalityType, FS_EmptySet
<1>2. \A s \in SUBSET S : s # {} =>
         /\ s \ {pick[s]} \in SUBSET S
         /\ Cardinality(s \ {pick[s]}) = Cardinality(s) - 1
  BY <1>1, FS_RemoveElement
<1>3. 0 \in N
  <2>1. Below(0) = {{}}
    <3>1. {} \in Below(0)
      BY <1>1
    <3>2. QED
      BY <1>1, <3>1
  <2> DEFINE g == [s \in Below(0) |-> base]
  <2>2. g \in [Below(0) -> V]
    OBVIOUS
  <2>3. Rec(g, Below(0))
    BY <2>1
  <2>4. QED
    BY <2>2, <2>3
<1>4. ASSUME NEW n \in Nat, n \in N
      PROVE  n + 1 \in N
  <2>1. PICK g \in [Below(n) -> V] : Rec(g, Below(n))
    BY <1>4
  <2> DEFINE val(s) == IF s = {} THEN base ELSE step[s][g[s \ {pick[s]}]]
             h == [s \in Below(n + 1) |-> val(s)]
  <2>2. \A s \in Below(n) : s \in Below(n + 1) /\ val(s) = g[s]
    BY <1>1, <2>1
  <2>3. \A s \in Below(n + 1) : s # {} => s \ {pick[s]} \in Below(n)
    BY <1>1, <1>2
  <2>4. \A s \in Below(n + 1) : val(s) \in V
    <3>1. SUFFICES ASSUME NEW s \in Below(n + 1), s # {}
                   PROVE  step[s][g[s \ {pick[s]}]] \in V
      OBVIOUS
    <3>2. g[s \ {pick[s]}] \in V
      BY <2>1, <2>3, <3>1
    <3>3. QED
      BY <3>2
  <2>5. h \in [Below(n + 1) -> V]
    <3> HIDE DEF val
    <3>1. QED
      BY <2>4
  <2>6. Rec(h, Below(n + 1))
    <3>1. SUFFICES ASSUME NEW s \in Below(n + 1), s # {}
                   PROVE  h[s] = step[s][h[s \ {pick[s]}]]
      OBVIOUS
    <3>2. h[s \ {pick[s]}] = g[s \ {pick[s]}]
      <4> HIDE DEF val, Below
      <4>1. s \ {pick[s]} \in Below(n) /\ s \ {pick[s]} \in Below(n + 1)
        BY <2>2, <2>3, <3>1
      <4>2. QED
        BY <2>2, <4>1
    <3>3. QED
      BY <3>1, <3>2
  <2> HIDE DEF h, Rec, Below
  <2>7. QED
    BY <2>5, <2>6
<1>5. Nat \subseteq N
  <2> HIDE DEF N
  <2>1. QED
    BY <1>3, <1>4, NumberInduction
<1>6. Cardinality(S) \in N
  BY <1>5, <1>1
<1>7. Below(Cardinality(S)) = SUBSET S
  BY FS_Subset
<1>8. QED
  BY <1>6, <1>7 DEF Unwinds

-----------------------------------------------------------------------------
(* Sums.                                                                   *)

\* The sum of the values of f over a set.
SumOver(f, S) == MapThenSumSet(LAMBDA x : f[x], S)

\* The element CHOOSE takes from each subset.
picked(S) == [s \in SUBSET S |-> CHOOSE x \in s : TRUE]

\* How MapThenSumSet unwinds a sum over S.
Summing(f, S, g) ==
  g = [s \in SUBSET S |-> IF s = {} THEN 0
                          ELSE f[CHOOSE x \in s : TRUE] + g[s \ {CHOOSE x \in s : TRUE}]]

\* The same without a CHOOSE.
SumsUp(f, S, g) ==
  /\ g \in [SUBSET S -> Int]
  /\ g[{}] = 0
  /\ \A s \in SUBSET S : s # {} => g[s] = f[picked(S)[s]] + g[s \ {picked(S)[s]}]

\* A sum exists, and there is only one.
LEMMA SumExists ==
  ASSUME NEW S, IsFiniteSet(S), NEW f, \A x \in S : f[x] \in Int
  PROVE  \E g : Summing(f, S, g) /\ SumsUp(f, S, g)
<1> DEFINE step == [s \in SUBSET S |-> [v \in Int |-> IF s = {} THEN 0 ELSE f[picked(S)[s]] + v]]
<1>1. \A s \in SUBSET S : s # {} => picked(S)[s] \in s
  BY DEF picked
<1>2. \A s \in SUBSET S, v \in Int : step[s][v] = IF s = {} THEN 0 ELSE f[picked(S)[s]] + v
  OBVIOUS
<1>3. \A s \in SUBSET S, v \in Int : step[s][v] \in Int
  BY <1>1, <1>2
<1> HIDE DEF step
<1>4. PICK g : Unwinds(g, S, picked(S), Int, 0, step)
  <2> DEFINE pick == picked(S)
  <2> HIDE DEF pick
  <2>1. 0 \in Int /\ \A s \in SUBSET S : s # {} => pick[s] \in s
    BY <1>1 DEF pick
  <2>2. \E g : Unwinds(g, S, pick, Int, 0, step)
    BY <1>3, <2>1, SubsetRecursion
  <2>3. QED
    BY <2>2 DEF pick
<1>5. SumsUp(f, S, g)
  <2>1. g \in [SUBSET S -> Int] /\ \A s \in SUBSET S : g[s \ {picked(S)[s]}] \in Int
    BY <1>4 DEF Unwinds
  <2>2. \A s \in SUBSET S : g[s] = IF s = {} THEN 0 ELSE f[picked(S)[s]] + g[s \ {picked(S)[s]}]
    BY <1>2, <1>4, <2>1 DEF Unwinds
  <2>3. QED
    BY <2>1, <2>2 DEF SumsUp
<1>6. Summing(f, S, g)
  BY <1>5 DEF SumsUp, Summing, picked
<1>7. QED
  BY <1>5, <1>6

\* No two functions sum up f over the subsets of S.
LEMMA SumIsUnique ==
  ASSUME NEW S, IsFiniteSet(S), NEW f, NEW g, SumsUp(f, S, g), NEW h, Summing(f, S, h)
  PROVE  h = g
<1>1. \A s \in SUBSET S : s # {} => picked(S)[s] \in s
  BY DEF picked
<1>2. \A s \in SUBSET S : h[s] = IF s = {} THEN 0
                                 ELSE f[picked(S)[s]] + h[s \ {picked(S)[s]}]
  BY DEF picked, Summing
<1>3. UnwindAlike(g, h, S, picked(S))
  BY <1>1, <1>2 DEF SumsUp, UnwindAlike
<1>4. \A s \in SUBSET S : h[s] = g[s]
  BY <1>3, SameUnwinding
<1>5. h = [s \in SUBSET S |-> h[s]] /\ g = [s \in SUBSET S |-> g[s]]
  BY DEF Summing, SumsUp
<1>6. QED
  BY <1>4, <1>5

\* The fold of MapThenSumSet is that function, taken at S.
LEMMA SumUnfolds ==
  ASSUME NEW S, IsFiniteSet(S), NEW f, \A x \in S : f[x] \in Int
  PROVE  \E g : SumsUp(f, S, g) /\ SumOver(f, S) = g[S]
<1>1. PICK g : Summing(f, S, g) /\ SumsUp(f, S, g)
  BY SumExists
<1> DEFINE it == CHOOSE h : Summing(f, S, h)
<1>2. Summing(f, S, it)
  BY <1>1
<1>3. it = g
  <2> HIDE DEF it
  <2>1. QED
    BY <1>1, <1>2, SumIsUnique
<1>4. SumOver(f, S) = it[S]
  BY DEF SumOver, MapThenSumSet, MapThenFoldSet, Summing
<1>5. QED
  BY <1>1, <1>3, <1>4

\* The sum over nothing is zero, and an element adds its value.
LEMMA SumPicks ==
  ASSUME NEW S, IsFiniteSet(S), S # {}, NEW f, \A x \in S : f[x] \in Int
  PROVE  \E x \in S : SumOver(f, S) = f[x] + SumOver(f, S \ {x})
<1>1. PICK g : SumsUp(f, S, g) /\ SumOver(f, S) = g[S]
  BY SumUnfolds
<1> DEFINE x == picked(S)[S]
           R == S \ {x}
<1>2. x \in S /\ x = CHOOSE y \in S : TRUE
  BY DEF picked
<1> HIDE DEF x
<1>3. IsFiniteSet(R) /\ R \in SUBSET S
  BY FS_Subset
<1>4. PICK h : SumsUp(f, R, h) /\ SumOver(f, R) = h[R]
  BY <1>3, SumUnfolds
<1> DEFINE T == {s \in SUBSET R : g[s] = h[s]}
<1>5. \A s \in SUBSET R : s # {} => picked(R)[s] \in s /\ picked(R)[s] = picked(S)[s]
  BY <1>3 DEF picked
<1>6. {} \in T
  BY <1>1, <1>4 DEF SumsUp
<1>7. \A s \in SUBSET R : s # {} /\ s \ {picked(R)[s]} \in T => s \in T
  <2>1. SUFFICES ASSUME NEW s \in SUBSET R, s # {}, s \ {picked(R)[s]} \in T
                 PROVE  g[s] = h[s]
    OBVIOUS
  <2>2. g[s] = f[picked(R)[s]] + g[s \ {picked(R)[s]}]
    BY <1>1, <1>3, <1>5, <2>1 DEF SumsUp
  <2>3. h[s] = f[picked(R)[s]] + h[s \ {picked(R)[s]}]
    BY <1>4, <2>1 DEF SumsUp
  <2>4. QED
    BY <2>1, <2>2, <2>3
<1>8. SUBSET R \subseteq T
  <2> HIDE DEF T, R
  <2>1. QED
    BY <1>3, <1>5, <1>6, <1>7, SubsetInduction
<1>9. g[R] = h[R]
  BY <1>8
<1>10. g[S] = f[x] + g[R]
  BY <1>1, <1>2 DEF SumsUp, x
<1>11. QED
  BY <1>1, <1>2, <1>4, <1>9, <1>10

\* A finite sum of integers is an integer.
LEMMA SumType ==
  ASSUME NEW S, IsFiniteSet(S), NEW f, \A x \in S : f[x] \in Int
  PROVE  SumOver(f, S) \in Int
<1>1. PICK g : SumsUp(f, S, g) /\ SumOver(f, S) = g[S]
  BY SumUnfolds
<1>2. S \in SUBSET S /\ g \in [SUBSET S -> Int]
  BY <1>1 DEF SumsUp
<1>3. QED
  BY <1>1, <1>2

\* The empty sum is 0.
LEMMA SumOverNothing ==
  ASSUME NEW f
  PROVE  SumOver(f, {}) = 0
<1>1. IsFiniteSet({}) /\ \A x \in {} : f[x] \in Int
  BY FS_EmptySet
<1>2. QED
  BY <1>1, SumUnfolds DEF SumsUp

\* One more element adds its value to the sum.
LEMMA SumAddsElement ==
  ASSUME NEW S, IsFiniteSet(S), NEW y, y \notin S, NEW f, \A x \in S \cup {y} : f[x] \in Int
  PROVE  SumOver(f, S \cup {y}) = SumOver(f, S) + f[y]
<1> DEFINE U == S \cup {y}
           N == {n \in Nat : \A s \in SUBSET U, x \in U :
                   Cardinality(s) = n /\ x \notin s => SumOver(f, s \cup {x}) = SumOver(f, s) + f[x]}
<1>1. IsFiniteSet(U)
  BY FS_AddElement
<1>2. \A s \in SUBSET U : /\ IsFiniteSet(s) /\ Cardinality(s) \in Nat
                          /\ Cardinality(s) = 0 <=> s = {}
                          /\ SumOver(f, s) \in Int
                          /\ \A x \in s : f[x] \in Int
  BY <1>1, FS_Subset, FS_CardinalityType, FS_EmptySet, SumType
<1>3. \A s \in SUBSET U : s # {} => \E x \in s : SumOver(f, s) = f[x] + SumOver(f, s \ {x})
  BY <1>2, SumPicks
<1>4. 0 \in N
  <2>1. SUFFICES ASSUME NEW x \in U
                 PROVE  SumOver(f, {x}) = SumOver(f, {}) + f[x]
    BY <1>2
  <2>2. SumOver(f, {x}) = f[x] + SumOver(f, {x} \ {x})
    BY <1>3
  <2>3. SumOver(f, {x} \ {x}) = SumOver(f, {})
    <3>1. {x} \ {x} = {}
      OBVIOUS
    <3>2. QED
      BY <3>1
  <2>4. f[x] \in Int /\ SumOver(f, {}) \in Int
    BY <1>2
  <2>5. QED
    BY <2>2, <2>3, <2>4
<1>5. ASSUME NEW n \in Nat, n \in N
      PROVE  n + 1 \in N
  <2>1. SUFFICES ASSUME NEW s \in SUBSET U, NEW x \in U, Cardinality(s) = n + 1, x \notin s
                 PROVE  SumOver(f, s \cup {x}) = SumOver(f, s) + f[x]
    OBVIOUS
  <2>2. PICK p \in s \cup {x} :
          SumOver(f, s \cup {x}) = f[p] + SumOver(f, (s \cup {x}) \ {p})
    BY <1>3
  <2>3. CASE p = x
    <3>1. (s \cup {x}) \ {p} = s
      BY <2>1, <2>3
    <3>2. QED
      BY <1>2, <2>2, <2>3, <3>1
  <2>4. CASE p \in s
    <3> DEFINE r == s \ {p}
    <3>1. r \in SUBSET U /\ p \notin r /\ x \notin r /\ p \in U
      BY <2>1, <2>4
    <3>2. Cardinality(r) = n
      BY <1>2, <2>1, <2>4, FS_RemoveElement
    <3>3. (s \cup {x}) \ {p} = r \cup {x} /\ r \cup {p} = s
      BY <2>1, <2>4
    <3>4. SumOver(f, r \cup {x}) = SumOver(f, r) + f[x]
      BY <1>5, <3>1, <3>2
    <3>5. SumOver(f, r \cup {p}) = SumOver(f, r) + f[p]
      BY <1>5, <3>1, <3>2
    <3>6. SumOver(f, r) \in Int /\ f[p] \in Int /\ f[x] \in Int
      BY <1>2, <3>1
    <3>7. /\ SumOver(f, (s \cup {x}) \ {p}) = SumOver(f, r \cup {x})
          /\ SumOver(f, r \cup {p}) = SumOver(f, s)
      BY <3>3
    <3>8. /\ SumOver(f, s \cup {x}) = f[p] + (SumOver(f, r) + f[x])
          /\ SumOver(f, s) = SumOver(f, r) + f[p]
      BY <2>2, <3>4, <3>5, <3>7
    <3> HIDE DEF r
    <3>9. QED
      BY <3>6, <3>8
  <2>5. QED
    BY <2>3, <2>4
<1>6. Nat \subseteq N
  <2> HIDE DEF N
  <2>1. QED
    BY <1>4, <1>5, NumberInduction
<1>7. Cardinality(S) \in N
  BY <1>2, <1>6
<1>8. QED
  BY <1>7

\* Induction over the subsets of a finite set, by adding elements.
LEMMA AddingInduction ==
  ASSUME NEW S, IsFiniteSet(S), NEW T, {} \in T,
         \A s \in SUBSET S, x \in S : x \notin s /\ s \in T => s \cup {x} \in T
  PROVE  S \in T
<1>1. \A s \in SUBSET S : s # {} => picked(S)[s] \in s
  BY DEF picked
<1>2. ASSUME NEW s \in SUBSET S, s # {}, s \ {picked(S)[s]} \in T
      PROVE  s \in T
  <2> DEFINE x == picked(S)[s]
  <2>1. x \in s
    BY <1>1, <1>2
  <2> HIDE DEF x
  <2>2. s \ {x} \in SUBSET S /\ x \in S /\ x \notin s \ {x} /\ (s \ {x}) \cup {x} = s
    BY <2>1
  <2>3. QED
    BY <1>2, <2>2 DEF x
<1>3. SUBSET S \subseteq T
  <2> DEFINE pick == picked(S)
  <2>1. \A s \in SUBSET S : s # {} /\ s \ {pick[s]} \in T => s \in T
    BY <1>2
  <2>2. \A s \in SUBSET S : s # {} => pick[s] \in s
    BY <1>1
  <2>3. {} \in T
    OBVIOUS
  <2> HIDE DEF pick
  <2>4. QED
    BY ONLY <2>1, <2>2, <2>3, IsFiniteSet(S), SubsetInduction
<1>4. QED
  BY <1>3

\* h is f and g together; f is c at a and zero elsewhere.
Adds(h, f, g, S) == \A x \in S : f[x] \in Int /\ g[x] \in Int /\ h[x] = f[x] + g[x]
PointAt(f, a, c, S) == \A x \in S : f[x] = IF x = a THEN c ELSE 0

\* Sums are linear.
LEMMA SumOfSums ==
  ASSUME NEW S, IsFiniteSet(S), NEW f, NEW g, NEW h, Adds(h, f, g, S)
  PROVE  SumOver(h, S) = SumOver(f, S) + SumOver(g, S)
<1> DEFINE T == {s \in SUBSET S : SumOver(h, s) = SumOver(f, s) + SumOver(g, s)}
<1>1. \A s \in SUBSET S : IsFiniteSet(s)
  BY FS_Subset
<1>2. \A s \in SUBSET S : SumOver(f, s) \in Int /\ SumOver(g, s) \in Int
  BY <1>1, SumType DEF Adds
<1>3. {} \in T
  BY SumOverNothing
<1>4. ASSUME NEW s \in SUBSET S, NEW x \in S, x \notin s, s \in T
      PROVE  s \cup {x} \in T
  <2>1. /\ SumOver(f, s \cup {x}) = SumOver(f, s) + f[x]
        /\ SumOver(g, s \cup {x}) = SumOver(g, s) + g[x]
        /\ SumOver(h, s \cup {x}) = SumOver(h, s) + h[x]
    <3>1. \A y \in s \cup {x} : f[y] \in Int /\ g[y] \in Int /\ h[y] \in Int
      BY DEF Adds
    <3>2. QED
      BY <1>1, <1>4, <3>1, SumAddsElement
  <2>2. QED
    BY <1>2, <1>4, <2>1 DEF Adds
<1>5. S \in T
  <2> HIDE DEF T
  <2>1. QED
    BY <1>3, <1>4, AddingInduction
<1>6. QED
  BY <1>5

\* The sum of a constant is as many times that constant.
LEMMA SumOfConstant ==
  ASSUME NEW S, IsFiniteSet(S), NEW c \in Int, NEW f, \A x \in S : f[x] = c
  PROVE  SumOver(f, S) = c * Cardinality(S)
<1> DEFINE T == {s \in SUBSET S : SumOver(f, s) = c * Cardinality(s)}
<1>1. \A s \in SUBSET S : IsFiniteSet(s) /\ Cardinality(s) \in Nat
  BY FS_Subset, FS_CardinalityType
<1>2. {} \in T
  BY SumOverNothing, FS_EmptySet
<1>3. ASSUME NEW s \in SUBSET S, NEW x \in S, x \notin s, s \in T
      PROVE  s \cup {x} \in T
  <2>1. SumOver(f, s \cup {x}) = SumOver(f, s) + c
    <3>1. \A y \in s \cup {x} : f[y] \in Int
      OBVIOUS
    <3>2. SumOver(f, s \cup {x}) = SumOver(f, s) + f[x]
      BY <1>1, <1>3, <3>1, SumAddsElement
    <3>3. QED
      BY <3>2
  <2>2. Cardinality(s \cup {x}) = Cardinality(s) + 1
    BY <1>1, <1>3, FS_AddElement
  <2>3. c * (Cardinality(s) + 1) = c * Cardinality(s) + c
    BY <1>1
  <2>4. QED
    BY <1>3, <2>1, <2>2, <2>3
<1>4. S \in T
  <2> HIDE DEF T
  <2>1. QED
    BY <1>2, <1>3, AddingInduction
<1>5. QED
  BY <1>4

\* Only the values on S count.
LEMMA SumOfEquals ==
  ASSUME NEW S, IsFiniteSet(S), NEW f, NEW g, \A x \in S : f[x] \in Int /\ g[x] = f[x]
  PROVE  SumOver(g, S) = SumOver(f, S)
<1> DEFINE zero == [x \in S |-> 0]
<1>1. SumOver(g, S) = SumOver(f, S) + SumOver(zero, S)
  <2>1. Adds(g, f, zero, S)
    BY DEF Adds
  <2> HIDE DEF zero
  <2>2. QED
    BY <2>1, SumOfSums
<1>2. SumOver(zero, S) = 0 * Cardinality(S)
  <2>1. 0 \in Int /\ \A x \in S : zero[x] = 0
    OBVIOUS
  <2> HIDE DEF zero
  <2>2. QED
    BY <2>1, SumOfConstant
<1>3. SumOver(f, S) \in Int /\ Cardinality(S) \in Nat
  BY SumType, FS_CardinalityType
<1>4. QED
  BY <1>1, <1>2, <1>3

\* Elements that add nothing may be left out.
LEMMA SumOverSupport ==
  ASSUME NEW S, IsFiniteSet(S), NEW P \in SUBSET S, NEW f,
         \A x \in P : f[x] \in Int, \A x \in S \ P : f[x] = 0
  PROVE  SumOver(f, S) = SumOver(f, P)
<1> DEFINE T == {s \in SUBSET S : SumOver(f, s) = SumOver(f, s \cap P)}
<1>1. \A s \in SUBSET S : IsFiniteSet(s) /\ IsFiniteSet(s \cap P) /\ \A x \in s : f[x] \in Int
  BY FS_Subset
<1>2. \A s \in SUBSET S : SumOver(f, s) \in Int /\ SumOver(f, s \cap P) \in Int
  BY <1>1, SumType
<1>3. {} \in T
  <2>1. {} \cap P = {}
    OBVIOUS
  <2>2. QED
    BY <2>1
<1>4. ASSUME NEW s \in SUBSET S, NEW x \in S, x \notin s, s \in T
      PROVE  s \cup {x} \in T
  <2>1. SumOver(f, s \cup {x}) = SumOver(f, s) + f[x]
    BY <1>1, <1>4, SumAddsElement
  <2>2. CASE x \in P
    <3>1. (s \cup {x}) \cap P = (s \cap P) \cup {x}
      BY <2>2
    <3>2. SumOver(f, (s \cap P) \cup {x}) = SumOver(f, s \cap P) + f[x]
      BY <1>1, <1>4, SumAddsElement
    <3>3. QED
      BY <1>4, <2>1, <3>1, <3>2
  <2>3. CASE x \notin P
    <3>1. (s \cup {x}) \cap P = s \cap P
      BY <2>3
    <3>2. f[x] = 0 /\ SumOver(f, s) \in Int
      BY <1>2, <2>3
    <3>3. SumOver(f, s \cup {x}) = SumOver(f, s)
      BY <2>1, <3>2
    <3>4. QED
      BY <1>4, <3>1, <3>3
  <2>4. QED
    BY <2>2, <2>3
<1>5. S \in T
  <2> HIDE DEF T
  <2>1. QED
    BY <1>3, <1>4, AddingInduction
<1>6. S \cap P = P
  OBVIOUS
<1>7. QED
  BY <1>5, <1>6

\* One element adds its value, the others nothing.
LEMMA SumOfPoint ==
  ASSUME NEW S, IsFiniteSet(S), NEW a \in S, NEW c \in Int, NEW f, PointAt(f, a, c, S)
  PROVE  SumOver(f, S) = c
<1>1. SumOver(f, S) = SumOver(f, {a})
  <2>1. {a} \in SUBSET S /\ (\A x \in {a} : f[x] \in Int) /\ (\A x \in S \ {a} : f[x] = 0)
    BY DEF PointAt
  <2>2. QED
    BY <2>1, SumOverSupport
<1>2. IsFiniteSet({a}) /\ Cardinality({a}) = 1
  BY FS_Singleton
<1>3. SumOver(f, {a}) = c * Cardinality({a})
  <2>1. \A x \in {a} : f[x] = c
    BY DEF PointAt
  <2>2. QED
    BY <1>2, <2>1, SumOfConstant
<1>4. QED
  BY <1>1, <1>2, <1>3

\* A sum over the whole is the sum over a part and over the rest.
LEMMA SumSplits ==
  ASSUME NEW S, IsFiniteSet(S), NEW P \in SUBSET S, NEW f, \A x \in S : f[x] \in Int
  PROVE  SumOver(f, S) = SumOver(f, P) + SumOver(f, S \ P)
<1> DEFINE in == [x \in S |-> IF x \in P THEN f[x] ELSE 0]
           out == [x \in S |-> IF x \in P THEN 0 ELSE f[x]]
<1>1. IsFiniteSet(P) /\ IsFiniteSet(S \ P)
  BY FS_Subset
<1>2. /\ \A x \in S : in[x] \in Int /\ out[x] \in Int /\ f[x] = in[x] + out[x]
      /\ \A x \in P : in[x] = f[x]
      /\ \A x \in S \ P : in[x] = 0 /\ out[x] = f[x]
      /\ \A x \in P : out[x] = 0
  OBVIOUS
<1> HIDE DEF in, out
<1>3. SumOver(f, S) = SumOver(in, S) + SumOver(out, S)
  BY <1>2, SumOfSums DEF Adds
<1>4. SumOver(in, S) = SumOver(in, P)
  BY <1>2, SumOverSupport
<1>5. SumOver(out, S) = SumOver(out, S \ P)
  <2>1. S \ P \in SUBSET S /\ S \ (S \ P) = P
    OBVIOUS
  <2>2. QED
    BY <1>2, <2>1, SumOverSupport
<1>6. SumOver(in, P) = SumOver(f, P)
  BY <1>1, <1>2, SumOfEquals
<1>7. SumOver(out, S \ P) = SumOver(f, S \ P)
  BY <1>1, <1>2, SumOfEquals
<1>8. QED
  BY <1>3, <1>4, <1>5, <1>6, <1>7

\* Where every value is at most another, so is the sum.
LEMMA SumIsMonotone ==
  ASSUME NEW S, IsFiniteSet(S), NEW f, NEW g, \A x \in S : f[x] \in Int /\ g[x] \in Int /\ f[x] <= g[x]
  PROVE  SumOver(f, S) <= SumOver(g, S)
<1> DEFINE T == {s \in SUBSET S : SumOver(f, s) <= SumOver(g, s)}
<1>1. \A s \in SUBSET S : IsFiniteSet(s) /\ SumOver(f, s) \in Int /\ SumOver(g, s) \in Int
  BY FS_Subset, SumType
<1>2. {} \in T
  BY SumOverNothing
<1>3. ASSUME NEW s \in SUBSET S, NEW x \in S, x \notin s, s \in T
      PROVE  s \cup {x} \in T
  <2>1. SumOver(f, s \cup {x}) = SumOver(f, s) + f[x] /\ SumOver(g, s \cup {x}) = SumOver(g, s) + g[x]
    BY <1>1, <1>3, SumAddsElement
  <2>2. QED
    BY <1>1, <1>3, <2>1
<1>4. S \in T
  <2> HIDE DEF T
  <2>1. QED
    BY <1>2, <1>3, AddingInduction
<1>5. QED
  BY <1>4

\* Nothing negative adds up to nothing negative, and to at least each value.
LEMMA SumOfNaturals ==
  ASSUME NEW S, IsFiniteSet(S), NEW f, \A x \in S : f[x] \in Nat
  PROVE  SumOver(f, S) \in Nat /\ \A x \in S : f[x] <= SumOver(f, S)
<1> DEFINE T == {s \in SUBSET S : SumOver(f, s) \in Nat}
<1>1. {} \in T
  BY SumOverNothing
<1>2. ASSUME NEW s \in SUBSET S, NEW x \in S, x \notin s, s \in T
      PROVE  s \cup {x} \in T
  <2>1. SumOver(f, s \cup {x}) = SumOver(f, s) + f[x]
    <3>1. IsFiniteSet(s) /\ \A y \in s \cup {x} : f[y] \in Int
      BY FS_Subset
    <3>2. QED
      BY <1>2, <3>1, SumAddsElement
  <2>2. QED
    BY <1>2, <2>1
<1>3. \A s \in SUBSET S : SumOver(f, s) \in Nat
  <2>1. ASSUME NEW s \in SUBSET S
        PROVE  s \in T
    <3> HIDE DEF T
    <3>1. IsFiniteSet(s) /\ \A r \in SUBSET s, x \in s : x \notin r /\ r \in T => r \cup {x} \in T
      BY <1>2, FS_Subset
    <3>2. QED
      BY <1>1, <3>1, AddingInduction
  <2>2. QED
    BY <2>1
<1>4. ASSUME NEW x \in S
      PROVE  f[x] <= SumOver(f, S)
  <2>1. IsFiniteSet(S \ {x}) /\ x \notin S \ {x} /\ (S \ {x}) \cup {x} = S
    BY FS_Subset
  <2>2. SumOver(f, (S \ {x}) \cup {x}) = SumOver(f, S \ {x}) + f[x]
    <3>1. \A y \in (S \ {x}) \cup {x} : f[y] \in Int
      OBVIOUS
    <3>2. QED
      BY <2>1, <3>1, SumAddsElement
  <2>3. QED
    BY <1>3, <2>1, <2>2
<1>5. QED
  BY <1>3, <1>4

\* g names the elements of R by those of S.
Renames(g, h, f, S, R) == /\ \A x, y \in S : g[x] = g[y] => x = y
                          /\ \A x \in S : g[x] \in R /\ h[x] \in Int /\ f[g[x]] = h[x]
                          /\ \A y \in R : \E x \in S : g[x] = y

\* A sum does not depend on what its terms are named by.
LEMMA SumReindexed ==
  ASSUME NEW S, IsFiniteSet(S), NEW R, NEW g, NEW h, NEW f, Renames(g, h, f, S, R)
  PROVE  SumOver(h, S) = SumOver(f, R)
<1> DEFINE image(s) == {g[x] : x \in s}
           T == {s \in SUBSET S : IsFiniteSet(image(s)) /\ SumOver(h, s) = SumOver(f, image(s))}
<1>1. {} \in T
  <2>1. image({}) = {}
    OBVIOUS
  <2> HIDE DEF image
  <2>2. QED
    BY <2>1, SumOverNothing, FS_EmptySet
<1>2. ASSUME NEW s \in SUBSET S, NEW x \in S, x \notin s, s \in T
      PROVE  s \cup {x} \in T
  <2>1. image(s \cup {x}) = image(s) \cup {g[x]} /\ g[x] \notin image(s)
    BY <1>2 DEF Renames
  <2>2. \A y \in image(s) \cup {g[x]} : f[y] \in Int
    BY <1>2 DEF Renames
  <2>3. IsFiniteSet(image(s))
    BY <1>2
  <2> PICK im : im = image(s)
    OBVIOUS
  <2>4. SumOver(f, im \cup {g[x]}) = SumOver(f, im) + f[g[x]] /\ IsFiniteSet(im \cup {g[x]})
    <3> HIDE DEF image
    <3>1. IsFiniteSet(im) /\ g[x] \notin im /\ \A y \in im \cup {g[x]} : f[y] \in Int
      BY <2>1, <2>2, <2>3
    <3> PICK e : e = g[x]
      OBVIOUS
    <3>2. SumOver(f, im \cup {e}) = SumOver(f, im) + f[e] /\ IsFiniteSet(im \cup {e})
      BY <3>1, SumAddsElement, FS_AddElement
    <3>3. QED
      BY <3>2
  <2>5. SumOver(h, s \cup {x}) = SumOver(h, s) + h[x]
    <3>1. IsFiniteSet(s) /\ \A y \in s \cup {x} : h[y] \in Int
      BY FS_Subset DEF Renames
    <3>2. QED
      BY <1>2, <3>1, SumAddsElement
  <2>6. SumOver(h, s) = SumOver(f, im) /\ f[g[x]] = h[x]
    BY <1>2 DEF Renames
  <2> HIDE DEF image
  <2>7. QED
    BY <2>1, <2>4, <2>5, <2>6
<1>3. S \in T
  <2> HIDE DEF T
  <2>1. QED
    BY <1>1, <1>2, AddingInduction
<1>4. image(S) = R
  BY DEF Renames
<1>5. QED
  BY <1>3, <1>4

\* At most as many values, each at most as large, add up to at most as much.
LEMMA SumDominated ==
  ASSUME NEW A, IsFiniteSet(A), NEW B, IsFiniteSet(B), Cardinality(A) <= Cardinality(B), NEW f,
         \A x \in A \cup B : f[x] \in Nat, \A x \in A, y \in B : f[x] <= f[y]
  PROVE  SumOver(f, A) <= SumOver(f, B)
<1> DEFINE T == {s \in SUBSET A : \A t \in SUBSET B : Cardinality(s) <= Cardinality(t)
                                                      => SumOver(f, s) <= SumOver(f, t)}
<1>1. /\ \A s \in SUBSET A : IsFiniteSet(s) /\ Cardinality(s) \in Nat /\ SumOver(f, s) \in Nat
      /\ \A t \in SUBSET B : IsFiniteSet(t) /\ Cardinality(t) \in Nat /\ SumOver(f, t) \in Nat
  BY FS_Subset, FS_CardinalityType, SumOfNaturals
<1>2. {} \in T
  BY <1>1, SumOverNothing
<1>3. ASSUME NEW s \in SUBSET A, NEW x \in A, x \notin s, s \in T
      PROVE  s \cup {x} \in T
  <2> SUFFICES ASSUME NEW t \in SUBSET B, Cardinality(s \cup {x}) <= Cardinality(t)
               PROVE  SumOver(f, s \cup {x}) <= SumOver(f, t)
    OBVIOUS
  <2>1. Cardinality(s \cup {x}) = Cardinality(s) + 1
    BY <1>1, <1>3, FS_AddElement
  <2>2. t # {}
    BY <1>1, <2>1, FS_EmptySet
  <2>3. PICK y \in t : TRUE
    BY <2>2
  <2>4. Cardinality(t \ {y}) = Cardinality(t) - 1 /\ t \ {y} \in SUBSET B
    BY <1>1, <2>3, FS_RemoveElement
  <2>5. SumOver(f, s) <= SumOver(f, t \ {y})
    BY <1>1, <1>3, <2>1, <2>4
  <2>6. SumOver(f, s \cup {x}) = SumOver(f, s) + f[x]
    <3>1. \A z \in s \cup {x} : f[z] \in Int
      OBVIOUS
    <3>2. QED
      BY <1>1, <1>3, <3>1, SumAddsElement
  <2>7. SumOver(f, t) = SumOver(f, t \ {y}) + f[y]
    <3>1. (t \ {y}) \cup {y} = t /\ y \notin t \ {y} /\ IsFiniteSet(t \ {y})
      BY <1>1, <2>3, <2>4
    <3>2. \A z \in (t \ {y}) \cup {y} : f[z] \in Int
      BY <3>1
    <3>3. QED
      BY <3>1, <3>2, SumAddsElement
  <2>8. f[x] <= f[y] /\ f[x] \in Nat /\ f[y] \in Nat
    BY <2>3
  <2>9. QED
    BY <1>1, <2>4, <2>5, <2>6, <2>7, <2>8
<1>4. A \in T
  <2> HIDE DEF T
  <2>1. QED
    BY <1>2, <1>3, AddingInduction
<1>5. QED
  BY <1>4

-----------------------------------------------------------------------------
(* Sorting.                                                                 *)

\* R orders the elements of S one behind the other.
Orders(R, S) == /\ \A x, y \in S : x # y => <<x, y>> \in R \/ <<y, x>> \in R
                /\ \A x, y, z \in S : <<x, y>> \in R /\ <<y, z>> \in R => <<x, z>> \in R

\* An enumeration along a relation.
InOrder(order, R, n) == \A i, j \in 1..n : i < j => <<order[i], order[j]>> \in R

\* Some element is the last one.
LEMMA LastExists ==
  ASSUME NEW S, IsFiniteSet(S), S # {}, NEW R, Orders(R, S)
  PROVE  \E x \in S : \A y \in S \ {x} : <<y, x>> \in R
<1> DEFINE T == {s \in SUBSET S : s # {} => \E x \in s : \A y \in s \ {x} : <<y, x>> \in R}
<1>1. {} \in T
  OBVIOUS
<1>2. ASSUME NEW s \in SUBSET S, NEW x \in S, x \notin s, s \in T
      PROVE  s \cup {x} \in T
  <2>1. CASE s = {}
    BY <2>1
  <2>2. CASE s # {}
    <3>1. PICK z \in s : \A y \in s \ {z} : <<y, z>> \in R
      BY <1>2, <2>2
    <3>2. CASE <<x, z>> \in R
      <4>1. \A y \in (s \cup {x}) \ {z} : <<y, z>> \in R
        BY <3>1, <3>2
      <4>2. QED
        BY <4>1
    <3>3. CASE <<z, x>> \in R
      <4>1. \A y \in (s \cup {x}) \ {x} : <<y, x>> \in R
        BY <3>1, <3>3 DEF Orders
      <4>2. QED
        BY <4>1
    <3>4. QED
      BY <1>2, <3>2, <3>3 DEF Orders
  <2>3. QED
    BY <2>1, <2>2
<1>3. S \in T
  <2> HIDE DEF T
  <2>1. QED
    BY <1>1, <1>2, AddingInduction
<1>4. QED
  BY <1>3

\* A finite set can be put in order.
LEMMA OrderExists ==
  ASSUME NEW S, IsFiniteSet(S), NEW R, Orders(R, S)
  PROVE  \E order \in [1..Cardinality(S) -> S] : InOrder(order, R, Cardinality(S))
<1> DEFINE pick == [s \in SUBSET S |-> CHOOSE x \in s : \A y \in s \ {x} : <<y, x>> \in R]
           T == {s \in SUBSET S : \E order \in [1..Cardinality(s) -> s] : InOrder(order, R, Cardinality(s))}
<1>1. \A s \in SUBSET S : IsFiniteSet(s) /\ Cardinality(s) \in Nat
  BY FS_Subset, FS_CardinalityType
<1>2. ASSUME NEW s \in SUBSET S, s # {}
      PROVE  pick[s] \in s /\ \A y \in s \ {pick[s]} : <<y, pick[s]>> \in R
  <2>1. Orders(R, s)
    BY DEF Orders
  <2>2. \E x \in s : \A y \in s \ {x} : <<y, x>> \in R
    <3> HIDE DEF pick, T
    <3>1. IsFiniteSet(s)
      BY <1>1
    <3>2. QED
      BY <1>2, <2>1, <3>1, LastExists
  <2>3. QED
    BY <2>2
<1> HIDE DEF pick
<1>3. {} \in T
  <2>1. Cardinality({}) = 0 /\ 1..0 = {}
    BY FS_EmptySet
  <2>2. [i \in 1..0 |-> 0] \in [1..0 -> {}] /\ InOrder([i \in 1..0 |-> 0], R, 0)
    BY <2>1 DEF InOrder
  <2>3. QED
    BY <2>1, <2>2
<1>4. ASSUME NEW s \in SUBSET S, s # {}, s \ {pick[s]} \in T
      PROVE  s \in T
  <2> PICK x \in s : x = pick[s]
    BY <1>2, <1>4
  <2> PICK n \in Nat : n = Cardinality(s \ {x})
    BY <1>1
  <2>1. Cardinality(s) = n + 1
    <3>1. Cardinality(s \ {x}) = Cardinality(s) - 1
      BY <1>1, FS_RemoveElement
    <3>2. QED
      BY <1>1, <3>1
  <2>2. PICK less \in [1..n -> s \ {x}] : InOrder(less, R, n)
    BY <1>4
  <2> DEFINE order == [i \in 1..(n + 1) |-> IF i = n + 1 THEN x ELSE less[i]]
  <2>3. \A i \in 1..n : less[i] \in s /\ less[i] \in s \ {x}
    BY <2>2
  <2>4. /\ order[n + 1] = x /\ order \in [1..(n + 1) -> s]
        /\ \A i \in 1..n : order[i] = less[i]
    <3>1. \A i \in 1..(n + 1) : i # n + 1 => i \in 1..n
      OBVIOUS
    <3>2. \A i \in 1..(n + 1) : (IF i = n + 1 THEN x ELSE less[i]) \in s
      BY <2>3, <3>1
    <3>3. \A i \in 1..n : i \in 1..(n + 1) /\ i # n + 1
      OBVIOUS
    <3>4. n + 1 \in 1..(n + 1)
      OBVIOUS
    <3>5. QED
      BY <3>2, <3>3, <3>4
  <2> HIDE DEF order
  <2>5. InOrder(order, R, n + 1)
    <3> SUFFICES ASSUME NEW i \in 1..(n + 1), NEW j \in 1..(n + 1), i < j
                 PROVE  <<order[i], order[j]>> \in R
      BY DEF InOrder
    <3>1. i \in 1..n
      OBVIOUS
    <3>2. CASE j = n + 1
      BY <1>2, <1>4, <2>3, <2>4, <3>1, <3>2
    <3>3. CASE j # n + 1
      <4>1. j \in 1..n
        BY <3>3
      <4>2. QED
        BY <2>2, <2>4, <3>1, <4>1 DEF InOrder
    <3>4. QED
      BY <3>2, <3>3
  <2>6. QED
    BY <2>1, <2>4, <2>5
<1>5. SUBSET S \subseteq T
  <2> HIDE DEF T
  <2>1. \A s \in SUBSET S : s # {} => pick[s] \in s
    BY <1>2
  <2>2. QED
    BY <1>3, <1>4, <2>1, SubsetInduction
<1>6. QED
  BY <1>5

-----------------------------------------------------------------------------
(* Folds over sequences.                                                   *)

\* Induction over the prefixes of a sequence.
LEMMA PrefixInduction ==
  ASSUME NEW N \in Nat, NEW T, 0 \in T, \A n \in 1..N : n - 1 \in T => n \in T
  PROVE  0..N \subseteq T
<1> DEFINE U == {n \in Nat : n <= N => n \in T}
<1>1. 0 \in U
  OBVIOUS
<1>2. \A n \in Nat : n \in U => n + 1 \in U
  <2>1. SUFFICES ASSUME NEW n \in Nat, n \in U, n + 1 <= N
                 PROVE  n + 1 \in T
    OBVIOUS
  <2>2. n \in T /\ n + 1 \in 1..N /\ (n + 1) - 1 = n
    BY <2>1
  <2>3. QED
    BY <2>2
<1>3. Nat \subseteq U
  <2> HIDE DEF U
  <2>1. QED
    BY <1>1, <1>2, NumberInduction
<1>4. QED
  BY <1>3

\* The maximum of a nonempty set of numbers is one of them, and 1..n has n.
LEMMA MaxOfNumbers ==
  ASSUME NEW N \in Nat
  PROVE  /\ \A s \in SUBSET (1..N) : s # {} => Max(s) \in s
         /\ \A n \in 1..N : Max(1..n) = n
<1>1. ASSUME NEW s \in SUBSET (1..N), s # {}
      PROVE  Max(s) \in s
  <2> DEFINE T == {N - x : x \in s}
  <2>1. T \in SUBSET Nat /\ T # {}
    <3>1. \A x \in s : N - x \in Nat
      OBVIOUS
    <3>2. PICK x \in s : TRUE
      BY <1>1
    <3>3. N - x \in T
      OBVIOUS
    <3>4. QED
      BY <3>1, <3>3
  <2>2. PICK t \in T : \A u \in T : t <= u
    <3> HIDE DEF T
    <3>1. QED
      BY <2>1, LeastNumber
  <2>3. PICK x \in s : t = N - x
    BY <2>2
  <2>4. \A y \in s : x >= y
    <3>1. SUFFICES ASSUME NEW y \in s
                   PROVE  x >= y
      OBVIOUS
    <3>2. t <= N - y
      BY <2>2
    <3>3. QED
      BY <2>3, <3>2
  <2>5. QED
    BY <2>4 DEF Max
<1>2. ASSUME NEW n \in 1..N
      PROVE  Max(1..n) = n
  <2>1. n \in 1..n /\ \A y \in 1..n : n >= y
    OBVIOUS
  <2>2. \A x \in 1..n : (\A y \in 1..n : x >= y) => x = n
    OBVIOUS
  <2>3. Max(1..n) \in 1..n /\ \A y \in 1..n : Max(1..n) >= y
    BY <2>1 DEF Max
  <2>4. QED
    BY <2>2, <2>3
<1>3. QED
  BY <1>1, <1>2

\* The states a fold goes through, one for each prefix.
Steps(st, N, V, base, step) ==
  /\ st \in [0..N -> V] /\ st[0] = base
  /\ \A n \in 1..N : st[n] = step[n][st[n - 1]]

\* A fold over 1..N as a recursion over subsets, and the states it goes
\* through.
FoldedBy(g, N, V, base, step) ==
  /\ g \in [SUBSET (1..N) -> V]
  /\ \A s \in SUBSET (1..N) :
       g[s] = IF s = {} THEN base ELSE step[Max(s)][g[s \ {Max(s)}]]
  /\ Steps([n \in 0..N |-> g[1..n]], N, V, base, step)

\* FoldLeft takes the largest index away and folds the rest first: seen from
\* the front it steps through the prefixes.
LEMMA FoldSteps ==
  ASSUME NEW N \in Nat, NEW V, NEW base \in V, NEW step,
         \A i \in 1..N, v \in V : step[i][v] \in V
  PROVE  \E g : FoldedBy(g, N, V, base, step)
<1> DEFINE S == 1..N
           pick == [s \in SUBSET S |-> Max(s)]
           take == [s \in SUBSET S |-> [v \in V |-> IF s = {} THEN v ELSE step[Max(s)][v]]]
<1>1. IsFiniteSet(S)
  BY FS_Interval
<1>2. \A s \in SUBSET S : s # {} => pick[s] \in s
  BY MaxOfNumbers
<1>3. \A s \in SUBSET S, v \in V : take[s][v] \in V
  BY <1>2
<1>4. PICK g : Unwinds(g, S, pick, V, base, take)
  <2> HIDE DEF S, pick, take
  <2>1. QED
    BY <1>1, <1>2, <1>3, SubsetRecursion
<1>5. g \in [SUBSET S -> V]
  BY <1>4 DEF Unwinds
<1>6. \A s \in SUBSET S : g[s] = IF s = {} THEN base ELSE step[Max(s)][g[s \ {Max(s)}]]
  <2>1. \A s \in SUBSET S : s \ {Max(s)} \in SUBSET S /\ g[s \ {Max(s)}] \in V
    BY <1>5
  <2>2. QED
    BY <1>4, <2>1 DEF Unwinds
<1> DEFINE st == [n \in 0..N |-> g[1..n]]
<1>7. \A n \in 0..N : 1..n \in SUBSET S
  OBVIOUS
<1>8. st \in [0..N -> V]
  BY <1>5, <1>7
<1>9. st[0] = base
  <2>1. 1..0 = {} /\ 0 \in 0..N
    OBVIOUS
  <2>2. QED
    BY <1>6, <2>1
<1>10. ASSUME NEW n \in 1..N
       PROVE  st[n] = step[n][st[n - 1]]
  <2>1. (1..n) \ {n} = 1..(n - 1) /\ 1..n # {} /\ Max(1..n) = n
    <3>1. n \in 1..n /\ (1..n) \ {n} = 1..(n - 1)
      OBVIOUS
    <3>2. QED
      BY <3>1, MaxOfNumbers
  <2>2. g[1..n] = step[n][g[(1..n) \ {n}]]
    BY <1>6, <1>7, <2>1
  <2>3. st[n] = g[1..n] /\ st[n - 1] = g[1..(n - 1)]
    OBVIOUS
  <2>4. QED
    BY <2>1, <2>2, <2>3
<1>11. QED
  BY <1>5, <1>6, <1>8, <1>9, <1>10 DEF Steps, FoldedBy
===============================================================================
