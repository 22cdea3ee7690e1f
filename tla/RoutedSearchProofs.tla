------------------------- MODULE RoutedSearchProofs -------------------------
(***************************************************************************)
(* Theorems of RoutedSearch.  They rest on one lemma about sorting: in a   *)
(* finite set with a strict total order, the number of elements before it  *)
(* numbers the elements from 0 on, each number once.                       *)
(***************************************************************************)
EXTENDS RoutedSearch, FiniteSetTheorems, TLAPS

-----------------------------------------------------------------------------
(* Sorting.                                                                *)

\* A strict total order of S.
Orders(R, S) ==
  /\ \A x \in S : <<x, x>> \notin R
  /\ \A x, y, z \in S : <<x, y>> \in R /\ <<y, z>> \in R => <<x, z>> \in R
  /\ \A x, y \in S : x # y => <<x, y>> \in R \/ <<y, x>> \in R

Below(R, S, x) == {y \in S : <<y, x>> \in R}

\* seq lists S in the order R.
Lists(seq, S, R) ==
  /\ seq \in Seq(S) /\ Len(seq) = Cardinality(S)
  /\ ToSet(seq) = S /\ IsInjective(seq)
  /\ \A i, j \in DOMAIN seq : i < j => <<seq[i], seq[j]>> \in R

\* What comes earlier has fewer elements before it.
LEMMA BelowGrows ==
  ASSUME NEW S, IsFiniteSet(S), NEW R, Orders(R, S), NEW x \in S, NEW y \in S, <<x, y>> \in R
  PROVE  /\ Cardinality(Below(R, S, x)) \in Nat
         /\ Cardinality(Below(R, S, y)) \in Nat
         /\ Cardinality(Below(R, S, x)) < Cardinality(Below(R, S, y))
  <1>1. /\ Below(R, S, x) \subseteq Below(R, S, y) /\ Below(R, S, y) \subseteq S
        /\ x \in Below(R, S, y) /\ x \notin Below(R, S, x)
    BY DEF Below, Orders
  <1>2. IsFiniteSet(Below(R, S, y))
    BY <1>1, FS_Subset
  <1>3. IsFiniteSet(Below(R, S, x))
    BY <1>1, <1>2, FS_Subset
  <1>4. /\ Cardinality(Below(R, S, x)) <= Cardinality(Below(R, S, y))
        /\ Cardinality(Below(R, S, x)) # Cardinality(Below(R, S, y))
    BY <1>1, <1>2, FS_Subset
  <1> QED
    BY <1>2, <1>3, <1>4, FS_CardinalityType

\* Every place has its element.
LEMMA EveryPlaceTaken ==
  ASSUME NEW S, IsFiniteSet(S), NEW R, Orders(R, S), NEW k \in 0..(Cardinality(S) - 1)
  PROVE  \E x \in S : Cardinality(Below(R, S, x)) = k
  <1> DEFINE n == Cardinality(S)
             rank == [x \in S |-> Cardinality(Below(R, S, x))]
  <1>n. n \in Nat
    BY FS_CardinalityType
  <1>1. ASSUME NEW x \in S PROVE rank[x] \in 0..(n - 1)
    <2>1. Below(R, S, x) \subseteq S /\ x \notin Below(R, S, x)
      BY DEF Below, Orders
    <2>2. IsFiniteSet(Below(R, S, x)) /\ Cardinality(Below(R, S, x)) <= n
          /\ Cardinality(Below(R, S, x)) # n
      BY <2>1, FS_Subset
    <2>3. Cardinality(Below(R, S, x)) \in Nat
      BY <2>2, FS_CardinalityType
    <2> QED
      BY <1>n, <2>2, <2>3
  <1>2. ASSUME NEW x \in S, NEW y \in S, rank[x] = rank[y] PROVE x = y
    <2>1. SUFFICES ASSUME x # y PROVE FALSE
      OBVIOUS
    <2>2. <<x, y>> \in R \/ <<y, x>> \in R
      BY <2>1 DEF Orders
    <2> QED
      BY <1>2, <2>2, BelowGrows
  <1>3. rank \in [S -> 0..(n - 1)]
    BY <1>1
  <1>4. rank \in Injection(S, 0..(n - 1))
    BY <1>2, <1>3 DEF Injection, IsInjective
  <1>5. IsFiniteSet(0..(n - 1)) /\ Cardinality(0..(n - 1)) = n
    BY <1>n, FS_Interval
  <1>6. rank \in Surjection(S, 0..(n - 1))
    <2> HIDE DEF rank, n
    <2> QED
      BY <1>4, <1>5, FS_Injection DEF n
  <1>7. PICK x \in S : rank[x] = k
    BY <1>6 DEF Surjection
  <1> QED
    BY <1>7

\* A function that has at each place an element with as many before it lists the set.
LEMMA Sorting ==
  ASSUME NEW S, IsFiniteSet(S), NEW R, Orders(R, S), NEW seq,
         seq = [i \in 1..Cardinality(S) |-> seq[i]],
         \A i \in 1..Cardinality(S) :
           (\E x \in S : Cardinality(Below(R, S, x)) = i - 1) =>
             seq[i] \in S /\ Cardinality(Below(R, S, seq[i])) = i - 1
  PROVE  Lists(seq, S, R)
  <1> DEFINE n == Cardinality(S)
  <1>n. n \in Nat
    BY FS_CardinalityType
  <1>1. ASSUME NEW i \in 1..n PROVE seq[i] \in S /\ Cardinality(Below(R, S, seq[i])) = i - 1
    <2>1. i - 1 \in 0..(n - 1)
      BY <1>n
    <2>2. \E x \in S : Cardinality(Below(R, S, x)) = i - 1
      BY <2>1, EveryPlaceTaken
    <2> QED
      BY <2>2
  <1>2. seq \in [1..n -> S]
    BY <1>1
  <1>3. seq \in Seq(S) /\ Len(seq) = n /\ DOMAIN seq = 1..n
    BY <1>n, <1>2
  <1>4. ASSUME NEW i \in 1..n, NEW j \in 1..n, i < j PROVE <<seq[i], seq[j]>> \in R
    <2>1. seq[i] \in S /\ seq[j] \in S /\ seq[i] # seq[j]
      BY <1>1, <1>4
    <2>2. CASE <<seq[j], seq[i]>> \in R
      <3>1. Cardinality(Below(R, S, seq[j])) < Cardinality(Below(R, S, seq[i]))
        BY <2>1, <2>2, BelowGrows
      <3>2. j - 1 < i - 1
        BY <1>1, <3>1
      <3> QED
        BY <1>4, <3>2
    <2> QED
      BY <2>1, <2>2 DEF Orders
  <1>5. ASSUME NEW i \in 1..n, NEW j \in 1..n, seq[i] = seq[j] PROVE i = j
    BY <1>1, <1>5, <1>n
  <1>6. seq \in Injection(1..n, S)
    BY <1>2, <1>5 DEF Injection, IsInjective
  <1>7. IsFiniteSet(1..n) /\ Cardinality(1..n) = n
    BY <1>n, FS_Interval
  <1>8. seq \in Surjection(1..n, S)
    <2> HIDE DEF n
    <2> QED
      BY <1>6, <1>7, FS_Injection DEF n
  <1>9. ToSet(seq) = S
    BY <1>2, <1>8 DEF Surjection, ToSet
  <1> QED
    BY <1>3, <1>4, <1>5, <1>9 DEF Lists, IsInjective

\* The three orders of the model.
IdOrder(S) == {p \in S \X S : ById(p[1], p[2])}
RankOrder(S) == {p \in S \X S : RankedBefore(p[1], p[2])}
AnswerOrder(S) == {p \in S \X S : Before(p[1], p[2])}

LEMMA SortedById ==
  ASSUME NEW S \in SUBSET Nat, IsFiniteSet(S)
  PROVE  Lists(SortedBy(S, ById), S, IdOrder(S))
  <1> DEFINE R == IdOrder(S)
             seq == SortedBy(S, ById)
  <1>1. Orders(R, S)
    BY DEF Orders, IdOrder, ById
  <1>2. \A x \in S : Below(R, S, x) = {y \in S : ById(y, x)}
    BY DEF Below, IdOrder
  <1>3. seq = [i \in 1..Cardinality(S) |-> seq[i]]
    <2> DEFINE element(i) == CHOOSE x \in S : Cardinality({y \in S : ById(y, x)}) = i - 1
               listed == [i \in 1..Cardinality(S) |-> element(i)]
    <2>1. seq = listed
      BY DEF SortedBy
    <2>2. listed = [i \in 1..Cardinality(S) |-> listed[i]]
      <3> HIDE DEF element
      <3> QED
        OBVIOUS
    <2> QED
      BY <2>1, <2>2
  <1>4. ASSUME NEW i \in 1..Cardinality(S), NEW x \in S, Cardinality(Below(R, S, x)) = i - 1
        PROVE  seq[i] \in S /\ Cardinality(Below(R, S, seq[i])) = i - 1
    <2>1. seq[i] = CHOOSE z \in S : Cardinality({y \in S : ById(y, z)}) = i - 1
      BY DEF SortedBy
    <2>2. Cardinality({y \in S : ById(y, x)}) = i - 1
      BY <1>2, <1>4
    <2>3. seq[i] \in S /\ Cardinality({y \in S : ById(y, seq[i])}) = i - 1
      BY <2>1, <2>2, Zenon
    <2> QED
      BY <1>2, <2>3
  <1> HIDE DEF R, seq
  <1> QED
    BY <1>1, <1>3, <1>4, Sorting DEF R, seq

LEMMA SortedByRank ==
  ASSUME TypeOK
  PROVE  Lists(RankShards, Eligible, RankOrder(Eligible))
  <1> DEFINE S == Eligible
             R == RankOrder(S)
             seq == SortedBy(S, RankedBefore)
  <1>0. S \subseteq Shards /\ S \subseteq Nat /\ IsFiniteSet(S)
    <2>1. S \subseteq Shards /\ S \subseteq Sources
      BY DEF Eligible, Sources
    <2> QED
      BY <2>1, SearchAssumption, FS_Subset
  <1>s. \A x \in S : Score(x) \in Nat
    <2>1. ASSUME NEW x \in S PROVE Score(x) \in Nat
      <3>1. overlap[x] \in 0..1
        BY <1>0 DEF TypeOK
      <3> QED
        BY <3>1 DEF Score
    <2> QED
      BY <2>1
  <1>1. Orders(R, S)
    <2>1. ASSUME NEW x \in S, NEW y \in S PROVE <<x, y>> \in R <=> RankedBefore(x, y)
      BY DEF RankOrder
    <2>2. ASSUME NEW x \in S, NEW y \in S, NEW z \in S, <<x, y>> \in R, <<y, z>> \in R
          PROVE  <<x, z>> \in R
      <3>1. RankedBefore(x, y) /\ RankedBefore(y, z)
        BY <2>1, <2>2
      <3> HIDE DEF S
      <3>2. RankedBefore(x, z)
        BY <1>0, <1>s, <3>1 DEF RankedBefore
      <3> QED
        BY <2>1, <3>2
    <2>3. ASSUME NEW x \in S PROVE ~ RankedBefore(x, x)
      BY <1>0, <1>s DEF RankedBefore
    <2>4. ASSUME NEW x \in S, NEW y \in S, x # y PROVE RankedBefore(x, y) \/ RankedBefore(y, x)
      <3> HIDE DEF S
      <3> QED
        BY <1>0, <1>s, <2>4 DEF RankedBefore
    <2> HIDE DEF S, R
    <2> QED
      BY <2>1, <2>2, <2>3, <2>4 DEF Orders
  <1>2. \A x \in S : Below(R, S, x) = {y \in S : RankedBefore(y, x)}
    BY DEF Below, RankOrder
  <1>3. seq = [i \in 1..Cardinality(S) |-> seq[i]]
    <2> DEFINE element(i) == CHOOSE x \in S : Cardinality({y \in S : RankedBefore(y, x)}) = i - 1
               listed == [i \in 1..Cardinality(S) |-> element(i)]
    <2>1. seq = listed
      BY DEF SortedBy
    <2>2. listed = [i \in 1..Cardinality(S) |-> listed[i]]
      <3> HIDE DEF element
      <3> QED
        OBVIOUS
    <2> QED
      BY <2>1, <2>2
  <1>4. ASSUME NEW i \in 1..Cardinality(S), NEW x \in S, Cardinality(Below(R, S, x)) = i - 1
        PROVE  seq[i] \in S /\ Cardinality(Below(R, S, seq[i])) = i - 1
    <2>1. seq[i] = CHOOSE z \in S : Cardinality({y \in S : RankedBefore(y, z)}) = i - 1
      BY DEF SortedBy
    <2>2. Cardinality({y \in S : RankedBefore(y, x)}) = i - 1
      BY <1>2, <1>4
    <2>3. seq[i] \in S /\ Cardinality({y \in S : RankedBefore(y, seq[i])}) = i - 1
      BY <2>1, <2>2, Zenon
    <2> QED
      BY <1>2, <2>3
  <1>5. seq = RankShards
    BY DEF RankShards
  <1> HIDE DEF R, S, seq
  <1>6. Lists(seq, S, R)
    BY <1>0, <1>1, <1>3, <1>4, Sorting
  <1> QED
    BY <1>5, <1>6 DEF R, S

-----------------------------------------------------------------------------
(* The order of an answer.                                                 *)

\* Each source has its place in ranked.
LEMMA PlaceOf ==
  ASSUME NEW seq \in Seq(Sources), NEW s \in ToSet(seq)
  PROVE  Place(seq, s) \in Nat /\ seq[Place(seq, s)] = s
  <1>1. \E i \in DOMAIN seq : seq[i] = s
    BY DEF ToSet
  <1>2. Place(seq, s) \in DOMAIN seq /\ seq[Place(seq, s)] = s
    BY <1>1 DEF Place
  <1> QED
    BY <1>2

\* Results of ranked sources: what their order needs.
Ranked(S) == S \subseteq Facts /\ ranked \in Seq(Sources) /\ \A f \in S : f.in \in ToSet(ranked)

LEMMA AnswerOrdered ==
  ASSUME NEW S, Ranked(S)
  PROVE  Orders(AnswerOrder(S), S) /\ IsFiniteSet(S)
  <1> DEFINE R == AnswerOrder(S)
             place == [f \in S |-> Place(ranked, f.in)]
  <1>0. IsFiniteSet(S)
    BY SearchAssumption, FS_Subset DEF Ranked
  <1>s. \A f \in S : f.score \in Nat /\ f.item \in Nat /\ place[f] \in Nat
    BY SearchAssumption, PlaceOf DEF Ranked
  <1>p. ASSUME NEW f \in S, NEW g \in S, f.item = g.item, place[f] = place[g] PROVE f = g
    <2>1. f.in = g.in
      BY <1>p, PlaceOf DEF Ranked
    <2> QED
      BY <1>p, <2>1, SearchAssumption DEF Ranked
  <1>b. ASSUME NEW f \in S, NEW g \in S
        PROVE  Before(f, g) <=>
                 \/ f.score > g.score
                 \/ f.score = g.score /\ f.item < g.item
                 \/ f.score = g.score /\ f.item = g.item /\ place[f] < place[g]
    BY DEF Before
  <1> HIDE DEF place
  <1>1. Orders(R, S)
    <2>1. ASSUME NEW x \in S, NEW y \in S PROVE <<x, y>> \in R <=> Before(x, y)
      BY DEF AnswerOrder
    <2>2. ASSUME NEW x \in S, NEW y \in S, NEW z \in S, <<x, y>> \in R, <<y, z>> \in R
          PROVE  <<x, z>> \in R
      <3>1. Before(x, y) /\ Before(y, z)
        BY <2>1, <2>2
      <3>2. Before(x, z)
        BY <1>s, <1>b, <3>1
      <3> QED
        BY <2>1, <3>2
    <2>3. ASSUME NEW x \in S PROVE ~ Before(x, x)
      BY <1>s, <1>b
    <2>4. ASSUME NEW x \in S, NEW y \in S, x # y PROVE Before(x, y) \/ Before(y, x)
      BY <1>s, <1>b, <1>p, <2>4
    <2> HIDE DEF R
    <2> QED
      BY <2>1, <2>2, <2>3, <2>4 DEF Orders
  <1> QED
    BY <1>0, <1>1

LEMMA SortedForAnswer ==
  ASSUME NEW S, Ranked(S)
  PROVE  Lists(SortedBy(S, Before), S, AnswerOrder(S))
  <1> DEFINE R == AnswerOrder(S)
             seq == SortedBy(S, Before)
  <1>1. Orders(R, S) /\ IsFiniteSet(S)
    BY AnswerOrdered
  <1>2. \A x \in S : Below(R, S, x) = {y \in S : Before(y, x)}
    BY DEF Below, AnswerOrder
  <1>3. seq = [i \in 1..Cardinality(S) |-> seq[i]]
    <2> DEFINE element(i) == CHOOSE x \in S : Cardinality({y \in S : Before(y, x)}) = i - 1
               listed == [i \in 1..Cardinality(S) |-> element(i)]
    <2>1. seq = listed
      BY DEF SortedBy
    <2>2. listed = [i \in 1..Cardinality(S) |-> listed[i]]
      <3> HIDE DEF element
      <3> QED
        OBVIOUS
    <2> QED
      BY <2>1, <2>2
  <1>4. ASSUME NEW i \in 1..Cardinality(S), NEW x \in S, Cardinality(Below(R, S, x)) = i - 1
        PROVE  seq[i] \in S /\ Cardinality(Below(R, S, seq[i])) = i - 1
    <2>1. seq[i] = CHOOSE z \in S : Cardinality({y \in S : Before(y, z)}) = i - 1
      BY DEF SortedBy
    <2>2. Cardinality({y \in S : Before(y, x)}) = i - 1
      BY <1>2, <1>4
    <2>3. seq[i] \in S /\ Cardinality({y \in S : Before(y, seq[i])}) = i - 1
      BY <2>1, <2>2, Zenon
    <2> QED
      BY <1>2, <2>3
  <1> HIDE DEF R, seq
  <1> QED
    BY <1>1, <1>3, <1>4, Sorting DEF R, seq

\* An answer lists its results from the best down.
LEMMA FromTheBestDown ==
  ASSUME NEW S, Ranked(S), NEW seq, Lists(seq, S, AnswerOrder(S)),
         NEW i \in DOMAIN seq, NEW j \in DOMAIN seq, i <= j
  PROVE  seq[i].score >= seq[j].score
  <1>1. seq[i] \in S /\ seq[j] \in S
    BY DEF Lists
  <1>2. seq[i].score \in Nat /\ seq[j].score \in Nat
    BY <1>1, SearchAssumption DEF Ranked
  <1>3. CASE i = j
    BY <1>2, <1>3
  <1>4. CASE i < j
    <2>1. Before(seq[i], seq[j])
      BY <1>4 DEF Lists, AnswerOrder
    <2> QED
      BY <1>2, <2>1 DEF Before
  <1> QED
    BY <1>3, <1>4 DEF Lists

-----------------------------------------------------------------------------
(* The cache.                                                              *)

\* Taking an element out of a queue takes out that element only.
LEMMA WithoutProperties ==
  ASSUME NEW S, NEW seq \in Seq(S), IsInjective(seq), NEW e
  PROVE  /\ Without(seq, e) \in Seq(S)
         /\ ToSet(Without(seq, e)) = ToSet(seq) \ {e}
         /\ IsInjective(Without(seq, e))
  <1> DEFINE D == {i \in DOMAIN seq : seq[i] # e}
             kept == SortedBy(D, ById)
             w == [i \in DOMAIN kept |-> seq[kept[i]]]
  <1>0. DOMAIN seq = 1..Len(seq) /\ Len(seq) \in Nat
    OBVIOUS
  <1>1. D \subseteq Nat /\ IsFiniteSet(D)
    <2>1. D \subseteq 1..Len(seq)
      BY <1>0
    <2>2. IsFiniteSet(1..Len(seq))
      BY <1>0, FS_Interval
    <2> QED
      BY <2>1, <2>2, FS_Subset
  <1>2. Lists(kept, D, IdOrder(D))
    BY <1>1, SortedById
  <1>3. w = Without(seq, e)
    BY DEF Without
  <1> HIDE DEF kept
  <1>4. kept \in Seq(D) /\ ToSet(kept) = D /\ IsInjective(kept)
    BY <1>2 DEF Lists
  <1>5. DOMAIN kept = 1..Len(kept) /\ Len(kept) \in Nat /\ \A i \in DOMAIN kept : kept[i] \in D
    BY <1>4
  <1>6. w \in [1..Len(kept) -> S]
    BY <1>0, <1>5
  <1>7. w \in Seq(S) /\ DOMAIN w = DOMAIN kept
    BY <1>5, <1>6
  <1>8. ToSet(w) = ToSet(seq) \ {e}
    <2>1. ASSUME NEW x \in ToSet(w) PROVE x \in ToSet(seq) \ {e}
      BY <1>5, <1>7 DEF ToSet
    <2>2. ASSUME NEW x \in ToSet(seq) \ {e} PROVE x \in ToSet(w)
      <3>1. PICK i \in D : seq[i] = x
        BY DEF ToSet
      <3>2. PICK k \in DOMAIN kept : kept[k] = i
        BY <1>4 DEF ToSet
      <3> QED
        BY <1>7, <3>1, <3>2 DEF ToSet
    <2> QED
      BY <2>1, <2>2
  <1>9. IsInjective(w)
    <2>1. ASSUME NEW i \in DOMAIN kept, NEW j \in DOMAIN kept, w[i] = w[j] PROVE i = j
      <3>1. kept[i] = kept[j]
        BY <1>5, <2>1 DEF IsInjective
      <3> QED
        BY <1>4, <3>1 DEF IsInjective
    <2> QED
      BY <1>7, <2>1 DEF IsInjective
  <1> QED
    BY <1>3, <1>7, <1>8, <1>9

\* An open database that is used again moves to the end of the queue.
LEMMA TouchedProperties ==
  ASSUME TypeOK, CacheSound, NEW s \in Sources
  PROVE  /\ Touched(s) \in Seq(Sources)
         /\ ToSet(Touched(s)) = open \cup {s}
         /\ IsInjective(Touched(s))
  <1> DEFINE w == Without(lru, s)
  <1>1. w \in Seq(Sources) /\ ToSet(w) = open \ {s} /\ IsInjective(w)
    BY WithoutProperties DEF TypeOK, CacheSound
  <1>2. Touched(s) = Append(w, s)
    BY DEF Touched
  <1> HIDE DEF w
  <1>3. DOMAIN w = 1..Len(w) /\ Len(w) \in Nat
    BY <1>1
  <1>4. /\ Append(w, s) \in Seq(Sources)
        /\ DOMAIN Append(w, s) = 1..(Len(w) + 1)
        /\ \A i \in 1..Len(w) : Append(w, s)[i] = w[i]
        /\ Append(w, s)[Len(w) + 1] = s
    BY <1>1
  <1>5. ToSet(Append(w, s)) = ToSet(w) \cup {s}
    BY <1>3, <1>4 DEF ToSet
  <1>6. \A i \in 1..Len(w) : w[i] # s
    BY <1>1, <1>3 DEF ToSet
  <1>7. ASSUME NEW i \in 1..(Len(w) + 1), NEW j \in 1..(Len(w) + 1), Append(w, s)[i] = Append(w, s)[j]
        PROVE  i = j
    <2>1. \A a, b \in 1..Len(w) : w[a] = w[b] => a = b
      BY <1>1, <1>3 DEF IsInjective
    <2>2. i \in 1..Len(w) \/ i = Len(w) + 1
      BY <1>3
    <2>3. j \in 1..Len(w) \/ j = Len(w) + 1
      BY <1>3
    <2> QED
      BY <1>4, <1>6, <1>7, <2>1, <2>2, <2>3
  <1>8. IsInjective(Append(w, s))
    BY <1>4, <1>7 DEF IsInjective
  <1> QED
    BY <1>1, <1>2, <1>4, <1>5, <1>8

\* The parts of a queue: each database is in one of them.
LEMMA QueueParts ==
  ASSUME NEW S, NEW seq \in Seq(S), IsInjective(seq), NEW n \in 0..Len(seq)
  PROVE  /\ SubSeq(seq, n + 1, Len(seq)) \in Seq(S)
         /\ IsInjective(SubSeq(seq, n + 1, Len(seq)))
         /\ ToSet(SubSeq(seq, n + 1, Len(seq))) = ToSet(seq) \ ToSet(SubSeq(seq, 1, n))
         /\ SubSeq(seq, 1, n) \in Seq(S) /\ IsInjective(SubSeq(seq, 1, n))
         /\ ToSet(SubSeq(seq, 1, n)) \subseteq ToSet(seq)
  <1> DEFINE a == SubSeq(seq, 1, n)
             b == SubSeq(seq, n + 1, Len(seq))
             L == Len(seq)
  <1>1. L \in Nat /\ DOMAIN seq = 1..L /\ \A i \in 1..L : seq[i] \in S
    OBVIOUS
  <1>2. a \in Seq(S) /\ DOMAIN a = 1..n /\ \A i \in 1..n : a[i] = seq[i]
    OBVIOUS
  <1>3. b \in Seq(S) /\ DOMAIN b = 1..(L - n) /\ \A i \in 1..(L - n) : b[i] = seq[n + i]
    BY <1>1
  <1>i. \A i, j \in 1..L : seq[i] = seq[j] => i = j
    BY <1>1 DEF IsInjective
  <1> HIDE DEF a, b, L
  <1>4. IsInjective(a)
    BY <1>1, <1>2, <1>i DEF IsInjective, L
  <1>5. IsInjective(b)
    <2>1. ASSUME NEW i \in 1..(L - n), NEW j \in 1..(L - n), b[i] = b[j] PROVE i = j
      <3>1. n + i \in 1..L /\ n + j \in 1..L
        BY <1>1 DEF L
      <3> QED
        BY <1>3, <1>i, <2>1, <3>1
    <2> QED
      BY <1>3, <2>1 DEF IsInjective
  <1>6. ToSet(a) \subseteq ToSet(seq)
    BY <1>1, <1>2 DEF ToSet, L
  <1>7. ToSet(b) = ToSet(seq) \ ToSet(a)
    <2>1. ASSUME NEW x \in ToSet(b) PROVE x \in ToSet(seq) \ ToSet(a)
      <3>1. PICK i \in 1..(L - n) : seq[n + i] = x
        BY <1>3 DEF ToSet
      <3>2. n + i \in 1..L /\ \A j \in 1..n : j \in 1..L /\ j # n + i
        BY <1>1 DEF L
      <3> QED
        BY <1>1, <1>2, <1>i, <3>1, <3>2 DEF ToSet
    <2>2. ASSUME NEW x \in ToSet(seq) \ ToSet(a) PROVE x \in ToSet(b)
      <3>1. PICK i \in 1..L : seq[i] = x
        BY <1>1 DEF ToSet
      <3>2. i \notin 1..n
        BY <1>2, <3>1 DEF ToSet
      <3>3. i - n \in 1..(L - n) /\ n + (i - n) = i
        BY <1>1, <3>2 DEF L
      <3> QED
        BY <1>3, <3>1, <3>3 DEF ToSet
    <2> QED
      BY <2>1, <2>2
  <1> QED
    BY <1>2, <1>3, <1>4, <1>5, <1>6, <1>7 DEF a, b, L

\* Using a database keeps the cache sound.
LEMMA UseCacheSound ==
  ASSUME TypeOK, CacheSound, NEW s \in Sources, UseCache(s)
  PROVE  CacheSound' /\ open' \subseteq Sources /\ lru' \in Seq(Sources)
  <1>1. /\ Touched(s) \in Seq(Sources)
        /\ ToSet(Touched(s)) = open \cup {s}
        /\ IsInjective(Touched(s))
    BY TouchedProperties
  <1>2. CASE s \in open
    <2>1. lru' = Touched(s) /\ open' = open
      BY <1>2 DEF UseCache
    <2> QED
      BY <1>1, <1>2, <2>1 DEF CacheSound, TypeOK
  <1>3. CASE s \notin open
    <2> DEFINE q == Touched(s)
    <2>1. PICK n \in Evictions(open \cup {s}, q) :
            /\ open' = (open \cup {s}) \ ToSet(SubSeq(q, 1, n))
            /\ lru' = SubSeq(q, n + 1, Len(q))
      BY <1>3 DEF UseCache
    <2>2. n \in 0..Len(q) /\ Cardinality((open \cup {s}) \ ToSet(SubSeq(q, 1, n))) <= Capacity
      BY DEF Evictions
    <2> HIDE DEF q
    <2>3. /\ SubSeq(q, n + 1, Len(q)) \in Seq(Sources)
          /\ IsInjective(SubSeq(q, n + 1, Len(q)))
          /\ ToSet(SubSeq(q, n + 1, Len(q))) = ToSet(q) \ ToSet(SubSeq(q, 1, n))
      BY <1>1, <2>2, QueueParts DEF q
    <2> QED
      BY <1>1, <2>1, <2>2, <2>3 DEF CacheSound, TypeOK, q
  <1> QED
    BY <1>2, <1>3

-----------------------------------------------------------------------------
(* Merging.                                                                *)

\* The first result of each item.
Firsts(S) == {f \in S : \A g \in S : g.item = f.item => ~ Before(g, f)}

\* An answer, before it is cut to size: one result of each item, the best one.
LEMMA FirstsSorted ==
  ASSUME NEW S, Ranked(S)
  PROVE  LET seq == SortedBy(Firsts(S), Before) IN
         /\ seq \in Seq(S) /\ ToSet(seq) = Firsts(S)
         /\ \A i, j \in DOMAIN seq : seq[i].item = seq[j].item => i = j
         /\ \A i, j \in DOMAIN seq : i <= j => seq[i].score >= seq[j].score
         /\ \A f \in S : \E k \in DOMAIN seq : seq[k].item = f.item /\ seq[k].score >= f.score
  <1> DEFINE D == Firsts(S)
             seq == SortedBy(D, Before)
  <1>1. D \subseteq S /\ Ranked(D)
    BY DEF Firsts, Ranked
  <1>2. Lists(seq, D, AnswerOrder(D))
    BY <1>1, SortedForAnswer
  <1>3. seq \in Seq(S) /\ ToSet(seq) = D /\ IsInjective(seq) /\ \A i \in DOMAIN seq : seq[i] \in D
    BY <1>1, <1>2 DEF Lists
  <1>4. ASSUME NEW i \in DOMAIN seq, NEW j \in DOMAIN seq, seq[i].item = seq[j].item
        PROVE  i = j
    <2>1. seq[i] \in S /\ seq[j] \in S /\ ~ Before(seq[i], seq[j]) /\ ~ Before(seq[j], seq[i])
      BY <1>3, <1>4 DEF Firsts
    <2>2. CASE i < j
      BY <1>2, <2>1, <2>2 DEF Lists, AnswerOrder
    <2>3. CASE j < i
      BY <1>2, <2>1, <2>3 DEF Lists, AnswerOrder
    <2>4. i \in Nat /\ j \in Nat
      BY <1>3
    <2> QED
      BY <2>2, <2>3, <2>4
  <1>5. \A i, j \in DOMAIN seq : i <= j => seq[i].score >= seq[j].score
    BY <1>1, <1>2, FromTheBestDown
  <1>6. ASSUME NEW f \in S
        PROVE  \E k \in DOMAIN seq : seq[k].item = f.item /\ seq[k].score >= f.score
    <2> DEFINE T == {g \in S : g.item = f.item}
               copies == SortedBy(T, Before)
    <2>1. Ranked(T) /\ f \in T
      BY DEF Ranked
    <2>2. Lists(copies, T, AnswerOrder(T))
      BY <2>1, SortedForAnswer
    <2> HIDE DEF copies
    <2>3. copies \in Seq(T) /\ ToSet(copies) = T
      BY <2>2 DEF Lists
    <2>4. PICK k \in DOMAIN copies : copies[k] = f
      BY <2>1, <2>3 DEF ToSet
    <2>5. 1 \in DOMAIN copies /\ 1 <= k /\ copies[1] \in T
      BY <2>3, <2>4
    <2>6. copies[1].score >= f.score
      BY <2>1, <2>2, <2>4, <2>5, FromTheBestDown
    <2>7. copies[1] \in D
      <3>1. SUFFICES ASSUME NEW g \in T, Before(g, copies[1]) PROVE FALSE
        BY <2>5 DEF Firsts
      <3>2. PICK m \in DOMAIN copies : copies[m] = g
        BY <2>3 DEF ToSet
      <3>3. CASE m = 1
        <4>1. g.score \in Nat /\ g.item \in Nat
          BY <3>1, SearchAssumption DEF Ranked
        <4>2. g.in \in ToSet(ranked) /\ ranked \in Seq(Sources)
          BY <3>1 DEF Ranked
        <4>3. Place(ranked, g.in) \in Nat
          BY <4>2, PlaceOf
        <4> QED
          BY <3>1, <3>2, <3>3, <4>1, <4>3 DEF Before
      <3>4. CASE m # 1
        <4>1. 1 < m
          BY <2>3, <3>2, <3>4
        <4>2. Before(copies[1], g)
          BY <2>2, <2>5, <3>2, <4>1 DEF Lists, AnswerOrder
        <4>3. copies[1] # g
          BY <2>2, <2>5, <3>2, <4>1 DEF Lists, IsInjective
        <4>4. Orders(AnswerOrder(T), T)
          BY <2>1, AnswerOrdered
        <4>5. <<copies[1], copies[1]>> \in AnswerOrder(T)
          <5>1. <<copies[1], g>> \in AnswerOrder(T) /\ <<g, copies[1]>> \in AnswerOrder(T)
            BY <2>5, <3>1, <4>2 DEF AnswerOrder
          <5> QED
            BY <2>5, <3>1, <4>4, <5>1 DEF Orders
        <4> QED
          BY <2>5, <4>4, <4>5 DEF Orders
      <3> QED
        BY <3>3, <3>4
    <2>8. PICK i \in DOMAIN seq : seq[i] = copies[1]
      BY <1>3, <2>7 DEF ToSet
    <2> QED
      BY <2>5, <2>6, <2>8
  <1> QED
    BY <1>3, <1>4, <1>5, <1>6

\* What an answer is: distinct items, from the hits, TopK at most;
LEMMA MergedProperties ==
  ASSUME NEW S, Ranked(S)
  PROVE  /\ Merged(S) \in Seq(Facts) /\ ToSet(Merged(S)) \subseteq S
         /\ \A i, j \in DOMAIN Merged(S) : Merged(S)[i].item = Merged(S)[j].item => i = j
         /\ Len(Merged(S)) <= TopK
  <1> DEFINE seq == SortedBy(Firsts(S), Before)
  <1>1. /\ seq \in Seq(S)
        /\ \A i, j \in DOMAIN seq : seq[i].item = seq[j].item => i = j
    BY FirstsSorted
  <1>2. Merged(S) = Cut(seq)
    BY DEF Merged, Firsts
  <1> HIDE DEF seq
  <1>3. TopK \in Nat /\ Len(seq) \in Nat /\ S \subseteq Facts
    BY <1>1, SearchAssumption DEF Ranked
  <1>4. PICK n \in 0..Len(seq) : n <= TopK /\ Cut(seq) = SubSeq(seq, 1, n)
    BY <1>3 DEF Cut, Least
  <1>5. /\ SubSeq(seq, 1, n) \in Seq(S) /\ Len(SubSeq(seq, 1, n)) = n
        /\ DOMAIN SubSeq(seq, 1, n) = 1..n /\ 1..n \subseteq DOMAIN seq
        /\ \A i \in 1..n : SubSeq(seq, 1, n)[i] = seq[i]
    BY <1>1
  <1>6. SubSeq(seq, 1, n) \in Seq(Facts)
    BY <1>3, <1>5
  <1> QED
    BY <1>1, <1>2, <1>4, <1>5, <1>6 DEF ToSet

\* a hit is a copy of a result, no better than it, or no better than all of a full
\* answer;
LEMMA HitsAreCovered ==
  ASSUME NEW S, Ranked(S), NEW f \in S
  PROVE  \/ \E r \in ToSet(Merged(S)) : r.item = f.item /\ r.score >= f.score
         \/ /\ \A r \in ToSet(Merged(S)) : r.item # f.item /\ r.score >= f.score
            /\ Len(Merged(S)) = TopK
  <1> DEFINE seq == SortedBy(Firsts(S), Before)
             n == Least(TopK, Len(seq))
  <1>1. /\ seq \in Seq(S)
        /\ \A i, j \in DOMAIN seq : seq[i].item = seq[j].item => i = j
        /\ \A i, j \in DOMAIN seq : i <= j => seq[i].score >= seq[j].score
        /\ \E k \in DOMAIN seq : seq[k].item = f.item /\ seq[k].score >= f.score
    BY FirstsSorted
  <1>2. Merged(S) = SubSeq(seq, 1, n)
    BY DEF Merged, Firsts, Cut
  <1> HIDE DEF seq
  <1>3. TopK \in Nat /\ Len(seq) \in Nat /\ \A g \in S : g.score \in Nat
    BY <1>1, SearchAssumption DEF Ranked
  <1>4. n \in 0..Len(seq) /\ (n < Len(seq) => n = TopK)
    BY <1>3 DEF Least
  <1> HIDE DEF n
  <1>5. /\ Len(Merged(S)) = n /\ DOMAIN Merged(S) = 1..n /\ 1..n \subseteq DOMAIN seq
        /\ \A i \in 1..n : Merged(S)[i] = seq[i]
    BY <1>1, <1>2, <1>4
  <1>6. PICK k \in DOMAIN seq : seq[k].item = f.item /\ seq[k].score >= f.score
    BY <1>1
  <1>7. CASE k <= n
    <2>1. k \in 1..n
      BY <1>1, <1>4, <1>6, <1>7
    <2> QED
      BY <1>5, <1>6, <2>1 DEF ToSet
  <1>8. CASE n < k
    <2>1. n = TopK
      BY <1>1, <1>4, <1>6, <1>8
    <2>2. ASSUME NEW i \in 1..n PROVE seq[i].item # f.item /\ seq[i].score >= f.score
      <3>1. i \in DOMAIN seq /\ i # k /\ i <= k
        BY <1>4, <1>5, <1>8, <1>6, <1>1
      <3>2. seq[i].item # f.item
        BY <1>1, <1>6, <3>1
      <3>3. seq[i].score >= seq[k].score
        BY <1>1, <1>6, <3>1
      <3>4. seq[i] \in S /\ seq[k] \in S
        BY <1>1, <1>6, <3>1
      <3>5. seq[i].score \in Nat /\ seq[k].score \in Nat /\ f.score \in Nat
        BY <1>3, <3>4
      <3> QED
        BY <1>6, <3>2, <3>3, <3>5
    <2> QED
      BY <1>5, <2>1, <2>2 DEF ToSet
  <1> QED
    BY <1>1, <1>4, <1>6, <1>7, <1>8

\* and as many hits as the answer may have, of distinct items and all good enough,
\* make a full answer that is good enough.
LEMMA FullAnswer ==
  ASSUME NEW S, Ranked(S), NEW H \in SUBSET S, Cardinality(H) = TopK, NEW c \in Nat,
         \A f, g \in H : f.item = g.item => f = g,
         \A f \in H : f.score >= c
  PROVE  Len(Merged(S)) = TopK /\ \A r \in ToSet(Merged(S)) : r.score >= c
  <1> DEFINE seq == SortedBy(Firsts(S), Before)
             n == Least(TopK, Len(seq))
  <1>1. /\ seq \in Seq(S)
        /\ \A i, j \in DOMAIN seq : i <= j => seq[i].score >= seq[j].score
        /\ \A f \in S : \E k \in DOMAIN seq : seq[k].item = f.item /\ seq[k].score >= f.score
    BY FirstsSorted
  <1>2. Merged(S) = SubSeq(seq, 1, n)
    BY DEF Merged, Firsts, Cut
  <1> HIDE DEF seq
  <1>3. TopK \in Nat /\ Len(seq) \in Nat /\ \A g \in S : g.score \in Nat
    BY <1>1, SearchAssumption DEF Ranked
  <1>4. DOMAIN seq = 1..Len(seq) /\ \A i \in DOMAIN seq : seq[i] \in S
    BY <1>1
  <1> DEFINE place == [h \in H |-> CHOOSE k \in DOMAIN seq :
                                     seq[k].item = h.item /\ seq[k].score >= h.score]
  <1>5. ASSUME NEW h \in H
        PROVE  /\ place[h] \in DOMAIN seq /\ seq[place[h]].item = h.item
               /\ seq[place[h]].score >= h.score
    BY <1>1
  <1> HIDE DEF place
  <1>6. ASSUME NEW h \in H PROVE seq[place[h]].score >= c
    <2>1. h.score \in Nat /\ h.score >= c /\ seq[place[h]].score \in Nat
      BY <1>3, <1>4, <1>5
    <2> QED
      BY <1>5, <2>1
  <1>7. ASSUME NEW m \in 0..Len(seq), \A h \in H : place[h] <= m PROVE TopK <= m
    <2>1. DOMAIN place = H
      BY DEF place
    <2>2. place \in [H -> 1..m]
      <3>1. place = [h \in H |-> place[h]]
        BY DEF place
      <3>2. \A h \in H : place[h] \in 1..m
        BY <1>4, <1>5, <1>7
      <3> QED
        BY <3>1, <3>2
    <2>3. \A g, h \in H : place[g] = place[h] => g = h
      BY <1>5
    <2>4. place \in Injection(H, 1..m)
      BY <2>1, <2>2, <2>3 DEF Injection, IsInjective
    <2>5. IsFiniteSet(1..m) /\ Cardinality(1..m) = m
      BY FS_Interval
    <2> QED
      BY <2>4, <2>5, FS_Injection
  <1>8. TopK <= Len(seq)
    BY <1>3, <1>4, <1>5, <1>7
  <1>9. ASSUME NEW j \in 1..TopK PROVE seq[j].score >= c
    <2>1. SUFFICES ASSUME seq[j].score < c PROVE FALSE
      BY <1>3, <1>4, <1>8
    <2>2. ASSUME NEW h \in H PROVE place[h] <= j - 1
      <3>1. SUFFICES ASSUME j <= place[h] PROVE FALSE
        BY <1>4, <1>5
      <3>j. j \in DOMAIN seq /\ place[h] \in DOMAIN seq
        BY <1>3, <1>4, <1>5, <1>8
      <3>2. seq[j].score >= seq[place[h]].score
        BY <1>1, <3>1, <3>j
      <3>3. seq[j].score \in Nat /\ seq[place[h]].score \in Nat
        BY <1>3, <1>4, <1>5, <1>8
      <3> QED
        BY <1>6, <2>1, <3>2, <3>3
    <2>3. TopK <= j - 1
      BY <1>3, <1>7, <1>8, <2>2
    <2> QED
      BY <1>3, <2>3
  <1>10. n = TopK
    BY <1>3, <1>8 DEF Least
  <1>11. /\ Len(Merged(S)) = TopK /\ DOMAIN Merged(S) = 1..TopK
         /\ \A i \in 1..TopK : Merged(S)[i] = seq[i]
    <2> HIDE DEF n
    <2> QED
      BY <1>1, <1>2, <1>3, <1>8, <1>10
  <1> QED
    BY <1>9, <1>11 DEF ToSet

-----------------------------------------------------------------------------
(* What others do.                                                         *)

Others ==
  \/ ClearShardCache \/ \E f \in Facts : AddFact(f)
  \/ \E s \in Shards : DeviceMemory(s) \/ RefreshShardSummary(s)
  \/ \E s \in Sources : SetStatus(s)

LEMMA OthersStep ==
  ASSUME TypeOK, CacheSound, Others
  PROVE  TypeOK' /\ CacheSound' /\ UNCHANGED <<pc, call, work, outcome, seen>>
  <1>1. ASSUME Change PROVE changes' \in 0..MaxChanges /\ UNCHANGED <<pc, call, work, outcome, seen>>
    BY <1>1, SearchAssumption DEF Change, TypeOK
  <1>2. ASSUME UNCHANGED <<pc, call, work, outcome, seen>>, changes' \in 0..MaxChanges,
               held' \subseteq Facts, active' \subseteq Sources, overlap' \in [Shards -> 0..1],
               open' \subseteq Sources, lru' \in Seq(Sources)
        PROVE  TypeOK'
    BY <1>2 DEF TypeOK, call, work, outcome
  <1>3. ASSUME ClearShardCache PROVE TypeOK' /\ CacheSound' /\ Change
    <2>1. Change /\ open' = {} /\ lru' = <<>> /\ UNCHANGED db
      BY <1>3 DEF ClearShardCache
    <2>2. ToSet(<<>>) = {} /\ IsInjective(<<>>)
      BY DEF ToSet, IsInjective
    <2>3. CacheSound'
      BY <2>1, <2>2, FS_EmptySet, SearchAssumption DEF CacheSound
    <2> QED
      BY <1>1, <1>2, <2>1, <2>3 DEF db, TypeOK
  <1>4. ASSUME NEW f \in Facts, AddFact(f) PROVE TypeOK' /\ CacheSound' /\ Change
    <2>1. Change /\ held' = held \cup {f} /\ UNCHANGED <<active, overlap>>
      BY <1>4 DEF AddFact
    <2>2. CASE f.in \in Shards
      <3>1. UseCache(f.in) /\ f.in \in Sources
        BY <1>4, <2>2 DEF AddFact, Sources
      <3>2. CacheSound' /\ open' \subseteq Sources /\ lru' \in Seq(Sources)
        BY <3>1, UseCacheSound
      <3> QED
        BY <1>1, <1>2, <2>1, <3>2 DEF TypeOK
    <2>3. CASE f.in \notin Shards
      <3>1. UNCHANGED cache
        BY <1>4, <2>3 DEF AddFact
      <3> QED
        BY <1>1, <1>2, <2>1, <3>1 DEF TypeOK, CacheSound, cache
    <2> QED
      BY <2>2, <2>3
  <1>5. ASSUME NEW s \in Shards, DeviceMemory(s) PROVE TypeOK' /\ CacheSound' /\ Change
    <2>1. Change /\ UseCache(s) /\ UNCHANGED db /\ s \in Sources
      BY <1>5 DEF DeviceMemory, Sources
    <2>2. CacheSound' /\ open' \subseteq Sources /\ lru' \in Seq(Sources)
      BY <2>1, UseCacheSound
    <2> QED
      BY <1>1, <1>2, <2>1, <2>2 DEF TypeOK, db
  <1>6. ASSUME NEW s \in Shards, RefreshShardSummary(s) PROVE TypeOK' /\ CacheSound' /\ Change
    <2>1. /\ Change /\ UseCache(s) /\ UNCHANGED <<held, active>> /\ s \in Sources
          /\ overlap' = [overlap EXCEPT ![s] = 1 - @]
      BY <1>6 DEF RefreshShardSummary, Sources
    <2>2. CacheSound' /\ open' \subseteq Sources /\ lru' \in Seq(Sources)
      BY <2>1, UseCacheSound
    <2>3. overlap' \in [Shards -> 0..1]
      <3>1. overlap \in [Shards -> 0..1] /\ overlap[s] \in 0..1
        BY DEF TypeOK
      <3>2. 1 - overlap[s] \in 0..1
        BY <3>1
      <3> QED
        BY <2>1, <3>1, <3>2
    <2> QED
      BY <1>1, <1>2, <2>1, <2>2, <2>3 DEF TypeOK
  <1>7. ASSUME NEW s \in Sources, SetStatus(s) PROVE TypeOK' /\ CacheSound' /\ Change
    <2>1. /\ Change /\ UNCHANGED <<held, overlap, cache>>
          /\ active' = IF s \in active THEN active \ {s} ELSE active \cup {s}
      BY <1>7 DEF SetStatus
    <2>2. active' \subseteq Sources
      BY <2>1 DEF TypeOK
    <2> QED
      BY <1>1, <1>2, <2>1, <2>2 DEF TypeOK, CacheSound, cache
  <1> QED
    BY <1>1, <1>3, <1>4, <1>5, <1>6, <1>7 DEF Others

\* The invariant of the search, and that it is about the search alone.
SearchInv == SourceInv /\ OrderInv /\ CountInv /\ AnswerInv /\ pc # "refused"

LEMMA SearchInvUnchanged ==
  ASSUME SearchInv, UNCHANGED <<pc, call, work, outcome, seen>>
  PROVE  SearchInv'
  <1>1. /\ pc' = pc /\ req' = req /\ ranked' = ranked /\ batch' = batch /\ stage' = stage
        /\ result' = result /\ executions' = executions /\ selected' = selected
        /\ answer' = answer /\ receipt' = receipt /\ seen' = seen
    BY DEF call, work, outcome
  <1>2. SourceInv'
    BY <1>1 DEF SearchInv, SourceInv
  <1>3. OrderInv'
    BY <1>1 DEF SearchInv, OrderInv, Reached
  <1>4. Reached' = Reached /\ FoundIn(executions)' = FoundIn(executions)
    BY <1>1 DEF Reached, FoundIn, Merged, Before, Cut, Least, Place, Hits, SortedBy
  <1>5. CountInv'
    BY <1>1, <1>4 DEF SearchInv, CountInv
  <1>6. /\ FoundIn(SubSeq(executions, 1, Len(executions) - 1))' =
             FoundIn(SubSeq(executions, 1, Len(executions) - 1))
        /\ ReceiptOf(executions, selected, answer)' = ReceiptOf(executions, selected, answer)
        /\ Conflicting(Hits(executions))' = Conflicting(Hits(executions))
    BY <1>1 DEF FoundIn, Merged, Before, Cut, Least, Place, Hits, SortedBy, ReceiptOf, Conflicting
  <1>7. AnswerInv'
    BY <1>1, <1>4, <1>6 DEF SearchInv, AnswerInv
  <1> QED
    BY <1>1, <1>2, <1>3, <1>5, <1>7 DEF SearchInv

-----------------------------------------------------------------------------
(* The search starts.                                                      *)

LEMMA StartStep ==
  ASSUME TypeOK, SearchInv, NEW kind \in Kinds, NEW order \in Seq(Sources), IsInjective(order),
         NEW budget \in Nat, NEW first \in Seq(Sources), Len(first) <= Len(order),
         \A i \in DOMAIN first : first[i] = order[i],
         NEW count \in 0..Len(order),
         kind = "sparse" => count = Len(first) /\ budget = Len(first),
         kind # "sparse" => count = Len(order),
         Start(kind, order, budget, first, count)
  PROVE  TypeOK' /\ SearchInv' /\ UNCHANGED cache
  <1>1. /\ pc = "idle" /\ pc' = "searching"
        /\ req' = [kind |-> kind, budget |-> budget] /\ ranked' = order
        /\ batch' = first /\ selected' = count
        /\ UNCHANGED <<held, active, overlap, open, lru, changes, stage, result, executions,
                       answer, receipt, seen>>
    BY DEF Start, db, cache, outcome
  <1>2. req' \in Requests /\ req' # None /\ req'.kind = kind /\ req'.budget = budget
    BY <1>1, SentinelAssumption DEF Requests
  <1>3. /\ executions = <<>> /\ stage = [s \in Sources |-> "todo"] /\ answer = None
        /\ receipt = None
    BY <1>1 DEF SearchInv, CountInv, AnswerInv
  <1>4. TypeOK'
    BY <1>1, <1>2 DEF TypeOK
  <1>5. SourceInv'
    BY <1>1 DEF SearchInv, SourceInv
  <1>6. /\ Len(executions') = 0 /\ Len(order) \in Nat /\ Len(first) \in Nat
        /\ Reached' = Len(first) /\ DOMAIN executions' = {} /\ DOMAIN first = 1..Len(first)
    BY <1>1, <1>3 DEF Reached
  <1>7. OrderInv'
    <2>1. \A s \in Sources : stage'[s] = "todo"
      BY <1>1, <1>3
    <2>2. \A i \in DOMAIN first : Len(executions') + i = i
      BY <1>6
    <2> QED
      BY <1>1, <1>6, <2>1, <2>2 DEF OrderInv
  <1>8. CountInv'
    BY <1>1, <1>2, <1>6 DEF CountInv
  <1>9. AnswerInv'
    BY <1>1, <1>3 DEF AnswerInv
  <1> QED
    BY <1>1, <1>4, <1>5, <1>7, <1>8, <1>9 DEF SearchInv, cache

LEMMA RoutedSearchStep ==
  ASSUME TypeOK, SearchInv, RoutedSearch
  PROVE  TypeOK' /\ SearchInv' /\ UNCHANGED cache
  <1>1. PICK order \in Seq(Sources) :
          /\ order = RankShards /\ IsInjective(order)
    <2>1. Lists(RankShards, Eligible, RankOrder(Eligible))
      BY SortedByRank
    <2>2. Eligible \subseteq Sources
      BY DEF Eligible, Sources
    <2>3. RankShards \in Seq(Sources) /\ IsInjective(RankShards)
      BY <2>1, <2>2 DEF Lists
    <2> QED
      BY <2>3
  <1>2. Len(order) \in Nat
    OBVIOUS
  <1>3. ASSUME NEW asked \in Budgets, NEW budget,
               budget = Least(IF asked = None THEN 2 ELSE asked, Len(order)),
               Start("sparse", order, budget, SubSeq(order, 1, budget), budget)
        PROVE  TypeOK' /\ SearchInv' /\ UNCHANGED cache
    <2>1. (IF asked = None THEN 2 ELSE asked) \in Nat
      BY SearchAssumption
    <2>2. budget \in 0..Len(order)
      BY <1>2, <1>3, <2>1 DEF Least
    <2>3. /\ SubSeq(order, 1, budget) \in Seq(Sources) /\ Len(SubSeq(order, 1, budget)) = budget
          /\ \A i \in DOMAIN SubSeq(order, 1, budget) : SubSeq(order, 1, budget)[i] = order[i]
      BY <2>2
    <2>4. PICK first \in Seq(Sources) : first = SubSeq(order, 1, budget)
      BY <2>3
    <2>5. "sparse" \in Kinds /\ "sparse" # "profile"
      BY DEF Kinds
    <2>6. /\ Start("sparse", order, budget, first, budget)
          /\ Len(first) = budget /\ \A i \in DOMAIN first : first[i] = order[i]
          /\ budget \in Nat /\ Len(first) <= Len(order)
      BY <1>2, <1>3, <2>2, <2>3, <2>4
    <2> QED
      BY <1>1, <2>2, <2>5, <2>6, StartStep
  <1>4. ASSUME Start("exhaustive", order, Len(order), order, Len(order))
        PROVE  TypeOK' /\ SearchInv' /\ UNCHANGED cache
    <2>1. "exhaustive" \in Kinds /\ Len(order) \in 0..Len(order)
      BY <1>2 DEF Kinds
    <2>2. Len(order) <= Len(order)
      BY <1>2
    <2> QED
      BY <1>1, <1>2, <1>4, <2>1, <2>2, StartStep
  <1> QED
    BY <1>1, <1>3, <1>4 DEF RoutedSearch

LEMMA RoutedSearchForProfileStep ==
  ASSUME TypeOK, SearchInv, RoutedSearchForProfile
  PROVE  TypeOK' /\ SearchInv' /\ UNCHANGED cache
  <1>0. PICK authorized \in SUBSET (Stores \cap active) :
          LET order == SortedBy(authorized, ById) IN
          Start("profile", order, Len(order), SubSeq(order, 1, Least(1, Len(order))), Len(order))
    BY DEF RoutedSearchForProfile
  <1>1. PICK order :
          /\ order = SortedBy(authorized, ById)
          /\ Start("profile", order, Len(order), SubSeq(order, 1, Least(1, Len(order))), Len(order))
    BY <1>0
  <1>2. authorized \subseteq Nat /\ authorized \subseteq Sources /\ IsFiniteSet(authorized)
    <2>1. authorized \subseteq Sources /\ authorized \subseteq Nat
      BY SearchAssumption DEF Sources
    <2> QED
      BY <2>1, SearchAssumption, FS_Subset
  <1>3. order \in Seq(Sources) /\ IsInjective(order)
    <2>1. Lists(order, authorized, IdOrder(authorized))
      BY <1>1, <1>2, SortedById
    <2>2. order \in Seq(authorized) /\ IsInjective(order)
      BY <2>1 DEF Lists
    <2>3. Len(order) \in Nat /\ order \in [1..Len(order) -> authorized]
      BY <2>2
    <2>4. order \in [1..Len(order) -> Sources]
      BY <1>2, <2>3
    <2> QED
      BY <2>2, <2>3, <2>4
  <1>4. PICK n \in 0..Len(order) : n = Least(1, Len(order))
    BY <1>3 DEF Least
  <1>5. PICK first \in Seq(Sources) :
          /\ first = SubSeq(order, 1, n) /\ Len(first) <= Len(order)
          /\ \A i \in DOMAIN first : first[i] = order[i]
    <2> DEFINE f == SubSeq(order, 1, n)
    <2>1. Len(order) \in Nat /\ n \in Nat /\ n <= Len(order)
      BY <1>3
    <2>2. f \in Seq(Sources) /\ Len(f) = n /\ \A i \in DOMAIN f : f[i] = order[i]
      BY <1>3, <2>1
    <2> HIDE DEF f
    <2> QED
      BY <2>1, <2>2 DEF f
  <1>6. "profile" \in Kinds /\ Len(order) \in Nat /\ Len(order) \in 0..Len(order)
    BY <1>3 DEF Kinds
  <1> QED
    BY <1>1, <1>3, <1>4, <1>5, <1>6, StartStep

-----------------------------------------------------------------------------
(* One source is searched.                                                 *)

\* A source of the batch that is not done: nothing that was executed is about it.
LEMMA InBatchPlace ==
  ASSUME TypeOK, SearchInv, NEW s \in Sources, NEW step, InBatch(s, step)
  PROVE  /\ pc = "searching" /\ stage[s] = step
         /\ \E i \in 1..Reached : ranked[i] = s
         /\ step # "done" =>
              result[s] = None /\ seen[s] = None /\ \A i \in DOMAIN executions : ranked[i] # s
  <1>1. pc = "searching" /\ s \in ToSet(batch) /\ stage[s] = step
    BY DEF InBatch
  <1>2. PICK k \in DOMAIN batch : batch[k] = s
    BY <1>1 DEF ToSet
  <1>3. /\ Len(executions) \in Nat /\ Len(batch) \in Nat /\ DOMAIN executions = 1..Len(executions)
        /\ DOMAIN batch = 1..Len(batch)
    BY DEF TypeOK
  <1>4. batch[k] = ranked[Len(executions) + k] /\ Len(executions) + k \in 1..Reached
    BY <1>1, <1>3 DEF SearchInv, OrderInv, Reached
  <1>5. ASSUME step # "done" PROVE result[s] = None /\ seen[s] = None
    BY <1>1, <1>5 DEF SearchInv, SourceInv
  <1>6. ASSUME NEW i \in DOMAIN executions, step # "done" PROVE ranked[i] # s
    <2>1. executions[i] = result[ranked[i]] /\ executions[i] # None
      BY DEF SearchInv, OrderInv
    <2> QED
      BY <1>5, <1>6, <2>1
  <1> QED
    BY <1>1, <1>2, <1>4, <1>5, <1>6

\* Only the source searched changes; the executions are about others.
LEMMA SourceStep ==
  ASSUME TypeOK, SearchInv, pc = "searching",
         NEW s \in Sources, \E i \in 1..Reached : ranked[i] = s,
         \A i \in DOMAIN executions : ranked[i] # s,
         UNCHANGED <<changes, pc, req, ranked, batch, executions, selected, answer, receipt>>,
         \A r \in Sources \ {s} : stage'[r] = stage[r] /\ result'[r] = result[r] /\ seen'[r] = seen[r],
         stage' \in [Sources -> {"todo", "opened", "done"}],
         result' \in [Sources -> Results \cup {None}],
         seen' \in [Sources -> (SUBSET Facts) \cup {None}],
         result'[s] = None <=> stage'[s] # "done",
         result'[s] = None => seen'[s] = None,
         result'[s] # None =>
           /\ result'[s].in = s
           /\ result'[s].ok => seen'[s] # None /\ result'[s].hits \in TopOf(seen'[s])
           /\ ~ result'[s].ok => seen'[s] = None /\ result'[s].hits = {},
         seen'[s] # None => \A f \in seen'[s] : f.in = s
  PROVE  SearchInv'
  <1>1. SourceInv'
    <2>1. ASSUME NEW r \in Sources
          PROVE /\ result'[r] = None <=> stage'[r] # "done"
                /\ result'[r] = None => seen'[r] = None
                /\ result'[r] # None =>
                     /\ result'[r].in = r
                     /\ result'[r].ok => seen'[r] # None /\ result'[r].hits \in TopOf(seen'[r])
                     /\ ~ result'[r].ok => seen'[r] = None /\ result'[r].hits = {}
                /\ seen'[r] # None => \A f \in seen'[r] : f.in = r
      <3>1. CASE r = s
        BY <3>1
      <3>2. CASE r # s
        BY <3>2 DEF SearchInv, SourceInv
      <3> QED
        BY <3>1, <3>2
    <2> QED
      BY <2>1 DEF SourceInv, TopOf
  <1>2. OrderInv'
    <2>1. Reached' = Reached
      BY DEF Reached
    <2>2. ASSUME NEW i \in DOMAIN executions
          PROVE  executions[i] = result'[ranked[i]] /\ executions[i] # None
      <3>1. executions[i] = result[ranked[i]] /\ executions[i] # None
        BY DEF SearchInv, OrderInv
      <3>2. ranked[i] \in Sources \ {s}
        <4>1. i \in 1..Len(ranked)
          BY DEF SearchInv, OrderInv, TypeOK
        <4> QED
          BY <4>1 DEF TypeOK
      <3> QED
        BY <3>1, <3>2
    <2>3. ASSUME NEW r \in Sources, stage'[r] # "todo" PROVE \E i \in 1..Reached : ranked[i] = r
      <3>1. CASE r = s
        BY <3>1
      <3>2. CASE r # s
        BY <2>3, <3>2 DEF SearchInv, OrderInv
      <3> QED
        BY <3>1, <3>2
    <2> QED
      BY <2>1, <2>2, <2>3 DEF SearchInv, OrderInv
  <1>3. Reached' = Reached /\ FoundIn(executions)' = FoundIn(executions)
    BY DEF Reached, FoundIn, Merged, Before, Cut, Least, Place, Hits, SortedBy
  <1>4. CountInv'
    BY <1>3 DEF SearchInv, CountInv
  <1>5. AnswerInv'
    BY DEF SearchInv, AnswerInv
  <1> QED
    BY <1>1, <1>2, <1>4, <1>5 DEF SearchInv

LEMMA OpenStep ==
  ASSUME TypeOK, CacheSound, SearchInv, NEW s \in Sources, Open(s)
  PROVE  TypeOK' /\ CacheSound' /\ SearchInv'
  <1>1. /\ InBatch(s, "todo") /\ UseCache(s) /\ stage' = [stage EXCEPT ![s] = "opened"]
        /\ UNCHANGED <<held, active, overlap, changes, pc, req, ranked, batch, result, executions,
                       selected, answer, receipt, seen>>
    BY DEF Open, db, call, outcome
  <1>2. CacheSound' /\ open' \subseteq Sources /\ lru' \in Seq(Sources)
    BY <1>1, UseCacheSound
  <1>3. stage' \in [Sources -> {"todo", "opened", "done"}] /\ stage'[s] = "opened"
        /\ \A r \in Sources \ {s} : stage'[r] = stage[r]
    BY <1>1 DEF TypeOK
  <1>4. TypeOK'
    BY <1>1, <1>2, <1>3 DEF TypeOK
  <1>5. /\ pc = "searching" /\ \E i \in 1..Reached : ranked[i] = s
        /\ result[s] = None /\ seen[s] = None /\ \A i \in DOMAIN executions : ranked[i] # s
    BY <1>1, InBatchPlace
  <1>6. result' \in [Sources -> Results \cup {None}] /\ seen' \in [Sources -> (SUBSET Facts) \cup {None}]
    BY <1>4 DEF TypeOK
  <1> QED
    BY <1>1, <1>2, <1>3, <1>4, <1>5, <1>6, SourceStep

\* A source is done, with an answer to what it was asked or with an error.
LEMMA DoneStep ==
  ASSUME TypeOK, CacheSound, SearchInv, NEW s \in Sources, NEW step \in {"todo", "opened"},
         InBatch(s, step), UNCHANGED cache,
         NEW ok \in BOOLEAN, NEW facts \in SUBSET Facts, NEW hits \in SUBSET facts,
         Done(s, ok, hits),
         ok => hits \in TopOf(facts) /\ seen' = [seen EXCEPT ![s] = facts],
         ~ ok => hits = {} /\ seen' = seen,
         \A f \in facts : f.in = s
  PROVE  TypeOK' /\ CacheSound' /\ SearchInv'
  <1>1. /\ stage' = [stage EXCEPT ![s] = "done"]
        /\ result' = [result EXCEPT ![s] = [in |-> s, ok |-> ok, hits |-> hits]]
        /\ UNCHANGED <<held, active, overlap, open, lru, changes, pc, req, ranked, batch, executions,
                       selected, answer, receipt>>
    BY DEF Done, db, call, outcome, cache
  <1>2. PICK new : new = [in |-> s, ok |-> ok, hits |-> hits]
    OBVIOUS
  <1>3. new \in Results /\ new # None /\ new.in = s /\ new.ok = ok /\ new.hits = hits
    BY <1>2, SentinelAssumption DEF Results
  <1>4. /\ stage' \in [Sources -> {"todo", "opened", "done"}] /\ stage'[s] = "done"
        /\ \A r \in Sources \ {s} : stage'[r] = stage[r]
    BY <1>1 DEF TypeOK
  <1>5. /\ result' \in [Sources -> Results \cup {None}] /\ result'[s] = new
        /\ \A r \in Sources \ {s} : result'[r] = result[r]
    BY <1>1, <1>2, <1>3 DEF TypeOK
  <1>6. /\ pc = "searching" /\ \E i \in 1..Reached : ranked[i] = s
        /\ result[s] = None /\ seen[s] = None /\ \A i \in DOMAIN executions : ranked[i] # s
    BY InBatchPlace
  <1>7. /\ seen' \in [Sources -> (SUBSET Facts) \cup {None}]
        /\ \A r \in Sources \ {s} : seen'[r] = seen[r]
        /\ ok => seen'[s] = facts
        /\ ~ ok => seen'[s] = None
    BY <1>6 DEF TypeOK
  <1>8. facts # None
    BY SentinelAssumption
  <1>9. TypeOK' /\ CacheSound'
    BY <1>1, <1>4, <1>5, <1>7 DEF TypeOK, CacheSound
  <1>10. /\ result'[s] = None <=> stage'[s] # "done"
         /\ result'[s] = None => seen'[s] = None
         /\ result'[s] # None =>
              /\ result'[s].in = s
              /\ result'[s].ok => seen'[s] # None /\ result'[s].hits \in TopOf(seen'[s])
              /\ ~ result'[s].ok => seen'[s] = None /\ result'[s].hits = {}
         /\ seen'[s] # None => \A f \in seen'[s] : f.in = s
    BY <1>3, <1>4, <1>5, <1>7, <1>8
  <1>11. SearchInv'
    BY <1>1, <1>4, <1>5, <1>6, <1>7, <1>10, SourceStep
  <1> QED
    BY <1>9, <1>11

LEMMA FailStep ==
  ASSUME TypeOK, CacheSound, SearchInv, NEW s \in Sources, NEW step \in {"todo", "opened"},
         InBatch(s, step), Done(s, FALSE, {}), UNCHANGED cache, seen' = seen
  PROVE  TypeOK' /\ CacheSound' /\ SearchInv'
  <1>1. PICK none \in SUBSET Facts : none = {}
    OBVIOUS
  <1>2. PICK ok \in BOOLEAN : ok = FALSE
    OBVIOUS
  <1>3. none \in SUBSET none /\ Done(s, ok, none) /\ ~ ok /\ \A f \in none : f.in = s
    BY <1>1, <1>2
  <1> QED
    BY <1>1, <1>3, DoneStep

LEMMA AskStep ==
  ASSUME TypeOK, CacheSound, SearchInv, NEW s \in Sources,
         OpenFails(s) \/ Ask(s) \/ AskFails(s)
  PROVE  TypeOK' /\ CacheSound' /\ SearchInv'
  <1>1. CASE OpenFails(s)
    <2>1. InBatch(s, "todo") /\ Done(s, FALSE, {}) /\ UNCHANGED cache /\ seen' = seen
      BY <1>1 DEF OpenFails
    <2> QED
      BY <2>1, FailStep
  <1>2. CASE AskFails(s)
    <2>1. InBatch(s, "opened") /\ Done(s, FALSE, {}) /\ UNCHANGED cache /\ seen' = seen
      BY <1>2 DEF AskFails
    <2> QED
      BY <2>1, FailStep
  <1>3. CASE Ask(s)
    <2>0. HeldIn(s) \in SUBSET Facts /\ \A f \in HeldIn(s) : f.in = s
      BY DEF HeldIn, TypeOK
    <2>1. PICK facts \in SUBSET Facts : facts = HeldIn(s) /\ \A f \in facts : f.in = s
      BY <2>0
    <2>2. PICK hits \in TopOf(facts) : Done(s, TRUE, hits)
      BY <1>3, <2>1 DEF Ask
    <2>3. hits \in SUBSET facts
      BY DEF TopOf
    <2>4. InBatch(s, "opened") /\ UNCHANGED cache /\ seen' = [seen EXCEPT ![s] = facts]
      BY <1>3, <2>1 DEF Ask
    <2> QED
      BY <2>1, <2>2, <2>3, <2>4, DoneStep
  <1> QED
    BY <1>1, <1>2, <1>3

-----------------------------------------------------------------------------
(* The batch is done.                                                      *)

LEMMA Concatenation ==
  ASSUME NEW S, NEW a \in Seq(S), NEW b \in Seq(S)
  PROVE  /\ a \o b \in Seq(S) /\ Len(a \o b) = Len(a) + Len(b)
         /\ \A i \in 1..Len(a) : (a \o b)[i] = a[i]
         /\ \A i \in (Len(a) + 1)..(Len(a) + Len(b)) : (a \o b)[i] = b[i - Len(a)]
  OBVIOUS

\* Everything executed: one result for each of the first sources, in order.
LEMMA ExecutedProperties ==
  ASSUME TypeOK, SearchInv, BatchDone
  PROVE  /\ pc = "searching" /\ Executed \in Seq(Results) /\ Len(Executed) = Reached
         /\ Reached \in 0..Len(ranked) /\ DOMAIN Executed = 1..Reached
         /\ \A i \in 1..Reached : Executed[i] = result[ranked[i]] /\ Executed[i] # None
         /\ Len(batch) = 1 => SubSeq(Executed, 1, Reached - 1) = executions
         /\ \A s \in Sources : stage[s] # "todo" => \E i \in 1..Reached : ranked[i] = s
  <1> DEFINE new == [i \in DOMAIN batch |-> result[batch[i]]]
             n == Len(executions)
             m == Len(batch)
  <1>1. pc = "searching" /\ \A s \in ToSet(batch) : stage[s] = "done"
    BY DEF BatchDone
  <1>2. /\ n \in Nat /\ m \in Nat /\ DOMAIN executions = 1..n /\ DOMAIN batch = 1..m
        /\ n + m <= Len(ranked) /\ Reached = n + m /\ Len(ranked) \in Nat
    BY <1>1 DEF TypeOK, SearchInv, OrderInv, Reached
  <1>3. ASSUME NEW i \in 1..m PROVE new[i] = result[ranked[n + i]] /\ new[i] \in Results
    <2>1. batch[i] \in Sources /\ stage[batch[i]] = "done"
      BY <1>1, <1>2 DEF TypeOK, ToSet
    <2>2. batch[i] = ranked[n + i]
      BY <1>1, <1>2 DEF SearchInv, OrderInv
    <2>3. result[batch[i]] # None /\ result[batch[i]] \in Results
      BY <2>1 DEF SearchInv, SourceInv, TypeOK
    <2> QED
      BY <1>2, <2>2, <2>3
  <1>4. new \in [1..m -> Results]
    BY <1>2, <1>3
  <1> HIDE DEF new
  <1>5. new \in Seq(Results) /\ Len(new) = m
    BY <1>2, <1>4
  <1>6. Executed = executions \o new
    BY DEF Executed, new
  <1>7. executions \in Seq(Results)
    BY DEF TypeOK
  <1>8. /\ Executed \in Seq(Results) /\ Len(Executed) = n + m /\ DOMAIN Executed = 1..(n + m)
        /\ \A i \in 1..n : Executed[i] = executions[i]
        /\ \A i \in (n + 1)..(n + m) : Executed[i] = new[i - n]
    <2>1. /\ Executed \in Seq(Results) /\ Len(Executed) = Len(executions) + Len(new)
          /\ \A i \in 1..Len(executions) : Executed[i] = executions[i]
          /\ \A i \in (Len(executions) + 1)..(Len(executions) + Len(new)) :
               Executed[i] = new[i - Len(executions)]
      BY <1>5, <1>6, <1>7, Concatenation
    <2> QED
      BY <1>5, <2>1
  <1>9. ASSUME NEW i \in 1..(n + m) PROVE Executed[i] = result[ranked[i]] /\ Executed[i] # None
    <2>1. CASE i \in 1..n
      BY <1>2, <1>8, <2>1 DEF SearchInv, OrderInv
    <2>2. CASE i \notin 1..n
      <3>1. i - n \in 1..m /\ i \in (n + 1)..(n + m) /\ n + (i - n) = i
        BY <1>2, <2>2
      <3> QED
        BY <1>3, <1>8, <3>1, SentinelAssumption
    <2> QED
      BY <2>1, <2>2
  <1>10. ASSUME m = 1 PROVE SubSeq(Executed, 1, Reached - 1) = executions
    <2>1. Reached - 1 = n /\ n <= Len(Executed)
      BY <1>2, <1>8, <1>10
    <2> HIDE DEF n, m
    <2>2. /\ SubSeq(Executed, 1, n) \in Seq(Results) /\ Len(SubSeq(Executed, 1, n)) = n
          /\ \A i \in 1..n : SubSeq(Executed, 1, n)[i] = executions[i]
      BY <1>2, <1>8, <2>1
    <2>3. SubSeq(Executed, 1, n) = executions
      BY <1>2, <1>7, <2>2 DEF n
    <2> QED
      BY <2>1, <2>3
  <1>11. \A s \in Sources : stage[s] # "todo" => \E i \in 1..Reached : ranked[i] = s
    BY <1>1 DEF SearchInv, OrderInv
  <1>12. /\ Executed \in Seq(Results) /\ Len(Executed) = Reached
         /\ Reached \in 0..Len(ranked) /\ DOMAIN Executed = 1..Reached
    BY <1>2, <1>8
  <1>13. \A i \in 1..Reached : Executed[i] = result[ranked[i]] /\ Executed[i] # None
    BY <1>2, <1>9
  <1> QED
    BY <1>1, <1>10, <1>11, <1>12, <1>13

\* The hits of executions are facts that the sources asked have shown.
LEMMA HitsProperties ==
  ASSUME TypeOK, SourceInv, NEW execs \in Seq(Results), Len(execs) <= Len(ranked),
         \A i \in DOMAIN execs : execs[i] = result[ranked[i]]
  PROVE  /\ Ranked(Hits(execs))
         /\ \A f \in Hits(execs) : seen[f.in] # None /\ f \in seen[f.in]
         /\ \A i \in DOMAIN execs : execs[i].hits \subseteq Hits(execs)
  <1>1. ASSUME NEW i \in DOMAIN execs PROVE execs[i].hits \subseteq Hits(execs)
    <2>1. execs[i] \in ToSet(execs)
      BY DEF ToSet
    <2> QED
      BY <2>1 DEF Hits
  <1>2. ASSUME NEW f \in Hits(execs)
        PROVE  /\ f \in Facts /\ f.in \in ToSet(ranked)
               /\ seen[f.in] # None /\ f \in seen[f.in]
    <2>1. PICK i \in DOMAIN execs : f \in execs[i].hits
      BY DEF Hits, ToSet
    <2>2. i \in DOMAIN ranked /\ ranked[i] \in Sources
      <3>1. i \in 1..Len(ranked) /\ ranked \in Seq(Sources)
        BY DEF TypeOK
      <3> QED
        BY <3>1
    <2>3. execs[i] = result[ranked[i]] /\ execs[i] \in Results
      OBVIOUS
    <2>4. result[ranked[i]] # None
      BY <2>3, SentinelAssumption
    <2> DEFINE s == ranked[i]
    <2>5. /\ result[s].ok => seen[s] # None /\ result[s].hits \in TopOf(seen[s])
          /\ ~ result[s].ok => result[s].hits = {}
          /\ seen[s] # None => \A g \in seen[s] : g.in = s
      BY <2>2, <2>4 DEF SourceInv
    <2>6. seen[s] # None /\ f \in seen[s] /\ f.in = s
      BY <2>1, <2>3, <2>5 DEF TopOf
    <2>7. seen[s] \in SUBSET Facts
      BY <2>2, <2>6 DEF TypeOK
    <2> QED
      BY <2>2, <2>6, <2>7 DEF ToSet
  <1>3. ranked \in Seq(Sources)
    BY DEF TypeOK
  <1> QED
    BY <1>1, <1>2, <1>3 DEF Ranked

LEMMA AskNextStep ==
  ASSUME TypeOK, SearchInv, BatchDone, Len(Executed) < Len(ranked),
         NEW count \in 0..Len(ranked), AskNext(count),
         req.kind = "sparse" => count = Reached + 1 /\ Len(Found) < TopK,
         req.kind # "sparse" => count = Len(ranked)
  PROVE  TypeOK' /\ SearchInv' /\ UNCHANGED cache
  <1>1. /\ batch' = <<ranked[Len(Executed) + 1]>> /\ executions' = Executed /\ selected' = count
        /\ UNCHANGED <<held, active, overlap, open, lru, changes, pc, req, ranked, stage, result,
                       answer, receipt, seen>>
    BY DEF AskNext, db, cache, call, outcome
  <1>2. /\ pc = "searching" /\ Executed \in Seq(Results) /\ Len(Executed) = Reached
        /\ Reached \in 0..Len(ranked) /\ DOMAIN Executed = 1..Reached
        /\ \A i \in 1..Reached : Executed[i] = result[ranked[i]] /\ Executed[i] # None
        /\ \A s \in Sources : stage[s] # "todo" => \E i \in 1..Reached : ranked[i] = s
    BY ExecutedProperties
  <1>3. /\ ranked \in Seq(Sources) /\ Len(ranked) \in Nat
        /\ Reached \in Nat /\ Reached + 1 \in 1..Len(ranked)
    BY <1>2 DEF TypeOK
  <1>4. /\ batch' \in Seq(Sources) /\ Len(batch') = 1 /\ DOMAIN batch' = {1}
        /\ batch'[1] = ranked[Reached + 1]
    BY <1>1, <1>2, <1>3
  <1>5. TypeOK'
    BY <1>1, <1>2, <1>4 DEF TypeOK
  <1>6. SourceInv'
    BY <1>1 DEF SearchInv, SourceInv
  <1>7. Reached' = Reached + 1
    BY <1>1, <1>2, <1>4 DEF Reached
  <1>8. OrderInv'
    <2>1. IsInjective(ranked)
      BY DEF SearchInv, OrderInv
    <2>2. \A s \in Sources : stage'[s] # "todo" => \E i \in 1..Reached' : ranked[i] = s
      BY <1>1, <1>2, <1>3, <1>7
    <2>3. \A i \in DOMAIN batch' : batch'[i] = ranked'[Len(executions') + i]
      BY <1>1, <1>2, <1>4
    <2>4. /\ Len(executions') <= Len(ranked')
          /\ \A i \in DOMAIN executions' :
               executions'[i] = result'[ranked'[i]] /\ executions'[i] # None
      BY <1>1, <1>2
    <2> QED
      BY <1>1, <1>3, <1>7, <2>1, <2>2, <2>3, <2>4 DEF OrderInv
  <1>9. FoundIn(executions)' = Found
    BY <1>1 DEF FoundIn, Found, Merged, Before, Cut, Least, Place, Hits, SortedBy
  <1>10. CountInv'
    <2>1. req # None
      BY <1>2 DEF SearchInv, CountInv
    <2>2. req.kind = "sparse" => req.budget <= Reached /\ req.budget \in Nat
      BY <1>2, <2>1 DEF SearchInv, CountInv, TypeOK, Requests
    <2> QED
      BY <1>1, <1>2, <1>3, <1>4, <1>7, <1>9, <2>1, <2>2 DEF CountInv
  <1>11. AnswerInv'
    BY <1>1, <1>2 DEF SearchInv, AnswerInv
  <1> QED
    BY <1>1, <1>2, <1>5, <1>6, <1>8, <1>10, <1>11 DEF SearchInv, cache

LEMMA NextSourceStep ==
  ASSUME TypeOK, SearchInv, NextStore \/ Expand
  PROVE  TypeOK' /\ SearchInv' /\ UNCHANGED cache
  <1>1. BatchDone /\ Len(Executed) < Len(ranked)
    BY DEF NextStore, Expand
  <1>2. pc = "searching" /\ Len(Executed) = Reached /\ Reached \in 0..Len(ranked)
    BY <1>1, ExecutedProperties
  <1>3. Len(ranked) \in Nat
    BY DEF TypeOK
  <1>4. IF req.kind = "sparse" THEN selected = Reached ELSE selected = Len(ranked)
    BY <1>2 DEF SearchInv, CountInv
  <1>5. CASE NextStore
    <2>1. req.kind = "profile" /\ AskNext(selected)
      BY <1>5 DEF NextStore
    <2>2. selected = Len(ranked) /\ req.kind # "sparse" /\ selected \in 0..Len(ranked)
      BY <1>3, <1>4, <2>1
    <2> QED
      BY <1>1, <2>1, <2>2, AskNextStep
  <1>6. CASE Expand
    <2>1. req.kind = "sparse" /\ Len(Found) < TopK /\ AskNext(selected + 1)
      BY <1>6 DEF Expand
    <2>2. selected + 1 = Reached + 1 /\ selected + 1 \in 0..Len(ranked)
      BY <1>1, <1>2, <1>3, <1>4, <2>1
    <2> QED
      BY <1>1, <2>1, <2>2, AskNextStep
  <1> QED
    BY <1>5, <1>6

-----------------------------------------------------------------------------
(* The search ends.                                                        *)

\* The receipt of a search in which everything selected was executed, in order, is
\* well formed and passes its own validation.
LEMMA ReceiptIsValid ==
  ASSUME ranked \in Seq(Sources), IsInjective(ranked), req \in Requests,
         NEW count \in 0..Len(ranked), NEW execs \in Seq(Results), Len(execs) = count,
         \A i \in 1..count : execs[i].in = ranked[i],
         NEW results \in Seq(Facts),
         \A i, j \in DOMAIN results : results[i].item = results[j].item => i = j
  PROVE  ReceiptOf(execs, count, results) \in Receipts /\ Valid(ReceiptOf(execs, count, results))
  <1> DEFINE first == SubSeq(ranked, 1, count)
             rest == SubSeq(ranked, count + 1, Len(ranked))
             outs == [i \in DOMAIN execs |-> [in |-> execs[i].in, ok |-> execs[i].ok]]
             ids == [i \in DOMAIN results |-> results[i].item]
             full == \A e \in ToSet(execs) : e.ok
             more == req.kind = "sparse" /\ Len(execs) > req.budget
  <1>1. /\ first \in Seq(Sources) /\ IsInjective(first) /\ ToSet(first) \subseteq ToSet(ranked)
        /\ rest \in Seq(Sources) /\ IsInjective(rest)
        /\ ToSet(rest) = ToSet(ranked) \ ToSet(first)
    BY QueueParts
  <1>2. /\ Len(first) = count /\ DOMAIN first = 1..count
        /\ \A i \in 1..count : first[i] = ranked[i]
    OBVIOUS
  <1>3. /\ DOMAIN execs = 1..count /\ count \in Nat
        /\ \A i \in 1..count : execs[i] \in Results
    OBVIOUS
  <1>4. /\ \A i \in 1..count : outs[i].in = first[i] /\ outs[i].ok = execs[i].ok
        /\ outs \in [1..count -> [in : Sources, ok : BOOLEAN]]
    <2>1. ASSUME NEW i \in 1..count
          PROVE  /\ outs[i] \in [in : Sources, ok : BOOLEAN]
                 /\ outs[i].in = first[i] /\ outs[i].ok = execs[i].ok
      <3>1. execs[i].in \in Sources /\ execs[i].ok \in BOOLEAN
        BY <1>3 DEF Results
      <3> QED
        BY <1>2, <1>3, <3>1
    <2> QED
      BY <1>3, <2>1
  <1>5. ids \in [1..Len(results) -> Nat] /\ IsInjective(ids)
    <2>1. DOMAIN results = 1..Len(results) /\ \A i \in DOMAIN results : results[i].item \in Nat
      BY SearchAssumption
    <2>2. DOMAIN ids = DOMAIN results /\ \A i \in DOMAIN results : ids[i] = results[i].item
      OBVIOUS
    <2>3. IsInjective(ids)
      BY <2>2 DEF IsInjective
    <2> QED
      BY <2>1, <2>2, <2>3
  <1> HIDE DEF first, rest, outs, ids, full, more
  <1>6. outs \in Seq([in : Sources, ok : BOOLEAN]) /\ Len(outs) = count /\ DOMAIN outs = 1..count
    <2>1. PICK T : T = [in : Sources, ok : BOOLEAN]
      OBVIOUS
    <2>2. outs \in [1..count -> T] /\ count \in Nat
      BY <1>3, <1>4, <2>1
    <2>3. outs \in Seq(T) /\ Len(outs) = count /\ DOMAIN outs = 1..count
      BY <2>2
    <2> QED
      BY <2>1, <2>3
  <1>7. ids \in Seq(Nat)
    BY <1>5
  <1>8. full \in BOOLEAN /\ more \in BOOLEAN /\ req.kind \in Kinds /\ req.budget \in Nat
    BY DEF full, more, Requests
  <1>9. PICK r : r = ReceiptOf(execs, count, results)
    OBVIOUS
  <1>10. r = [kind |-> req.kind, eligible |-> ranked, budget |-> req.budget, selected |-> first,
              skipped |-> rest, outcomes |-> outs, fallback |-> more, complete |-> full, ids |-> ids]
    BY <1>9 DEF ReceiptOf, first, rest, outs, ids, full, more
  <1>11. r \in Receipts
    BY <1>1, <1>6, <1>7, <1>8, <1>10 DEF Receipts
  <1>12. /\ r.kind = req.kind /\ r.eligible = ranked /\ r.selected = first /\ r.skipped = rest
         /\ r.outcomes = outs /\ r.complete = full /\ r.ids = ids
    BY <1>10
  <1>13. OutcomeSources(r) = ToSet(first)
    <2>1. OutcomeSources(r) = {o.in : o \in {outs[i] : i \in 1..count}}
      BY <1>6, <1>12 DEF OutcomeSources, ToSet
    <2>2. ToSet(first) = {first[i] : i \in 1..count}
      BY <1>2 DEF ToSet
    <2> QED
      BY <1>4, <2>1, <2>2
  <1>14. Cardinality(ToSet(first)) = count
    <2>1. first \in [1..count -> ToSet(first)]
      BY <1>1, <1>2 DEF ToSet
    <2>2. first \in Bijection(1..count, ToSet(first))
      BY <1>1, <1>2, <2>1 DEF Bijection, Injection, Surjection, ToSet
    <2> QED
      BY <1>3, <2>2, FS_CountingElements DEF ExistsBijection
  <1>15. SetsAgree(r)
    <2>1. ToSet(first) \cap ToSet(rest) = {} /\ ToSet(first) \cup ToSet(rest) = ToSet(ranked)
      BY <1>1
    <2> QED
      BY <1>1, <1>6, <1>12, <1>13, <1>14, <2>1 DEF SetsAgree
  <1>16. full <=> \A o \in ToSet(outs) : o.ok
    <2>1. full <=> \A i \in 1..count : execs[i].ok
      BY <1>3 DEF full, ToSet
    <2>2. (\A o \in ToSet(outs) : o.ok) <=> \A i \in 1..count : outs[i].ok
      BY <1>6 DEF ToSet
    <2> QED
      BY <1>4, <2>1, <2>2
  <1>17. Valid(r)
    BY <1>5, <1>12, <1>15, <1>16 DEF Valid
  <1> QED
    BY <1>9, <1>11, <1>17

LEMMA ConflictStep ==
  ASSUME TypeOK, SearchInv, ConflictingShardItem
  PROVE  TypeOK' /\ SearchInv' /\ UNCHANGED cache
  <1>1. /\ pc' = "failed" /\ BatchDone
        /\ UNCHANGED <<held, active, overlap, open, lru, changes, req, ranked, batch, stage, result,
                       executions, selected, answer, receipt, seen>>
    BY DEF ConflictingShardItem, db, cache, call, work, outcome
  <1>2. pc = "searching" /\ answer = None /\ receipt = None
    BY <1>1 DEF BatchDone, SearchInv, AnswerInv
  <1>3. TypeOK'
    BY <1>1 DEF TypeOK
  <1>4. SourceInv'
    BY <1>1 DEF SearchInv, SourceInv
  <1>5. OrderInv'
    BY <1>1 DEF SearchInv, OrderInv
  <1>6. CountInv' /\ AnswerInv' /\ pc' # "refused"
    BY <1>1, <1>2 DEF SearchInv, CountInv, AnswerInv
  <1> QED
    BY <1>1, <1>3, <1>4, <1>5, <1>6 DEF SearchInv, cache

LEMMA FinishStep ==
  ASSUME TypeOK, SearchInv, Finish
  PROVE  TypeOK' /\ SearchInv' /\ UNCHANGED cache
  <1>1. /\ BatchDone /\ Enough /\ ~ Conflicting(Hits(Executed)) /\ executions' = Executed
        /\ UNCHANGED <<held, active, overlap, open, lru, changes, req, ranked, batch, stage, result,
                       selected, seen>>
    BY DEF Finish, db, cache, call
  <1>2. /\ pc = "searching" /\ Executed \in Seq(Results) /\ Len(Executed) = Reached
        /\ Reached \in 0..Len(ranked) /\ DOMAIN Executed = 1..Reached
        /\ \A i \in 1..Reached : Executed[i] = result[ranked[i]] /\ Executed[i] # None
        /\ Len(batch) = 1 => SubSeq(Executed, 1, Reached - 1) = executions
        /\ \A s \in Sources : stage[s] # "todo" => \E i \in 1..Reached : ranked[i] = s
    BY <1>1, ExecutedProperties
  <1>3. req # None /\ req \in Requests /\ answer = None /\ receipt = None
    BY <1>2 DEF SearchInv, CountInv, AnswerInv, TypeOK
  <1>4. Ranked(Hits(Executed))
    BY <1>2, HitsProperties DEF SearchInv
  <1>5. /\ Found \in Seq(Facts)
        /\ \A i, j \in DOMAIN Found : Found[i].item = Found[j].item => i = j
    BY <1>4, MergedProperties DEF Found
  <1>6. selected = Len(Executed)
    <2>1. IF req.kind = "sparse" THEN selected = Reached ELSE selected = Len(ranked)
      BY <1>2 DEF SearchInv, CountInv
    <2> QED
      BY <1>1, <1>2, <2>1 DEF Enough
  <1>7. ASSUME NEW i \in 1..Reached PROVE Executed[i].in = ranked[i]
    <2>1. ranked[i] \in Sources /\ result[ranked[i]] # None
      <3>1. i \in 1..Len(ranked) /\ ranked \in Seq(Sources)
        BY <1>2 DEF TypeOK
      <3> QED
        BY <1>2, <3>1
    <2> QED
      BY <1>2, <2>1 DEF SearchInv, SourceInv
  <1>8. PICK new : new = ReceiptOf(Executed, selected, Found)
    OBVIOUS
  <1>9. new \in Receipts /\ Valid(new) /\ new # None
    <2>1. ranked \in Seq(Sources) /\ IsInjective(ranked)
      BY DEF TypeOK, SearchInv, OrderInv
    <2>2. selected \in 0..Len(ranked) /\ Len(Executed) = selected /\ selected = Reached
      BY <1>2, <1>6
    <2>3. new \in Receipts /\ Valid(new)
      BY <1>2, <1>3, <1>5, <1>7, <1>8, <2>1, <2>2, ReceiptIsValid
    <2> QED
      BY <2>3, SentinelAssumption
  <1>10. Persist(new)
    BY <1>8, <1>9 DEF Finish
  <1>11. /\ pc' \in {"stored", "answered", "failed"}
         /\ \/ pc' = "failed" /\ answer' = None /\ receipt' = None
            \/ answer' = Found /\ receipt' = new
    BY <1>3, <1>10 DEF Persist, outcome
  <1>12. TypeOK'
    BY <1>1, <1>2, <1>5, <1>9, <1>11 DEF TypeOK
  <1>13. SourceInv'
    BY <1>1 DEF SearchInv, SourceInv
  <1>14. OrderInv'
    <2>1. IsInjective(ranked) /\ Len(Executed) <= Len(ranked)
      BY <1>2 DEF SearchInv, OrderInv, TypeOK
    <2> QED
      BY <1>1, <1>2, <1>11, <2>1 DEF OrderInv
  <1>15. CountInv'
    BY <1>1, <1>3, <1>11 DEF CountInv
  <1>16. Found # None
    BY <1>5, SentinelAssumption
  <1>17. ASSUME pc' = "failed", answer' = None, receipt' = None PROVE AnswerInv'
    BY <1>17 DEF AnswerInv
  <1>18. ASSUME answer' = Found, receipt' = new PROVE AnswerInv'
    <2>1. FoundIn(executions)' = Found
      BY <1>1 DEF FoundIn, Found, Merged, Before, Cut, Least, Place, Hits, SortedBy
    <2>2. ReceiptOf(executions, selected, answer)' = new
      BY <1>1, <1>8, <1>18 DEF ReceiptOf
    <2>3. ~ Conflicting(Hits(executions))'
      BY <1>1 DEF Conflicting, Hits
    <2>4. \A s \in Sources : stage'[s] = "done" => \E i \in 1..Len(executions') : ranked'[i] = s
      BY <1>1, <1>2
    <2>5. Len(executions') = Len(ranked') \/ (req'.kind = "sparse" /\ Len(answer') >= TopK)
      BY <1>1, <1>18 DEF Enough
    <2>6. ASSUME req'.kind = "sparse", Len(executions') > req'.budget
          PROVE  Len(FoundIn(SubSeq(executions, 1, Len(executions) - 1)))' < TopK
      <3>1. Len(batch) = 1 /\ Len(FoundIn(executions)) < TopK
        BY <1>1, <1>2, <2>6 DEF SearchInv, CountInv
      <3>2. SubSeq(executions', 1, Len(executions') - 1) = executions
        BY <1>1, <1>2, <3>1
      <3>3. PICK earlier : earlier = executions /\ earlier = SubSeq(executions', 1, Len(executions') - 1)
        BY <3>2
      <3>4. FoundIn(earlier)' = FoundIn(executions)
        BY <1>1, <3>3 DEF FoundIn, Merged, Before, Cut, Least, Place, Hits, SortedBy
      <3>5. FoundIn(SubSeq(executions, 1, Len(executions) - 1))' = FoundIn(earlier)'
        BY <3>3
      <3> QED
        BY <3>1, <3>4, <3>5
    <2>7. pc' \notin {"idle", "searching"} /\ answer' # None /\ selected' = Len(executions')
      BY <1>1, <1>6, <1>11, <1>16, <1>18
    <2> QED
      BY <1>18, <2>1, <2>2, <2>3, <2>4, <2>5, <2>6, <2>7 DEF AnswerInv
  <1> QED
    BY <1>1, <1>11, <1>12, <1>13, <1>14, <1>15, <1>17, <1>18 DEF SearchInv, cache

\* What a search that has an answer knows of its executions and its receipt.
LEMMA AnsweredFacts ==
  ASSUME TypeOK, SearchInv, answer # None
  PROVE  /\ req \in Requests /\ executions \in Seq(Results)
         /\ Len(executions) \in 0..Len(ranked) /\ DOMAIN executions = 1..Len(executions)
         /\ \A i \in 1..Len(executions) :
              /\ ranked[i] \in Sources /\ executions[i] = result[ranked[i]]
              /\ executions[i].in = ranked[i] /\ result[ranked[i]] # None
         /\ answer = Merged(Hits(executions)) /\ Ranked(Hits(executions))
         /\ receipt = ReceiptOf(executions, selected, answer) /\ selected = Len(executions)
         /\ receipt # None /\ Valid(receipt)
  <1>1. /\ answer = FoundIn(executions) /\ receipt = ReceiptOf(executions, selected, answer)
        /\ selected = Len(executions) /\ pc # "idle"
    BY DEF SearchInv, AnswerInv
  <1>2. req \in Requests
    BY <1>1 DEF SearchInv, CountInv, TypeOK
  <1>3. /\ executions \in Seq(Results) /\ DOMAIN executions = 1..Len(executions)
        /\ ranked \in Seq(Sources) /\ IsInjective(ranked) /\ Len(executions) \in 0..Len(ranked)
        /\ \A i \in 1..Len(executions) : executions[i] = result[ranked[i]] /\ executions[i] # None
    BY DEF TypeOK, SearchInv, OrderInv
  <1>4. ASSUME NEW i \in 1..Len(executions)
        PROVE  /\ ranked[i] \in Sources /\ executions[i].in = ranked[i]
               /\ result[ranked[i]] # None
    <2>1. ranked[i] \in Sources
      BY <1>3
    <2> QED
      BY <1>3, <2>1 DEF SearchInv, SourceInv
  <1>5. Ranked(Hits(executions))
    BY <1>3, HitsProperties DEF SearchInv
  <1>6. answer = Merged(Hits(executions))
    BY <1>1 DEF FoundIn
  <1>7. /\ answer \in Seq(Facts)
        /\ \A i, j \in DOMAIN answer : answer[i].item = answer[j].item => i = j
    BY <1>5, <1>6, MergedProperties
  <1>8. receipt \in Receipts /\ Valid(receipt)
    BY <1>1, <1>2, <1>3, <1>4, <1>7, ReceiptIsValid
  <1> QED
    BY <1>1, <1>2, <1>3, <1>4, <1>5, <1>6, <1>8, SentinelAssumption

LEMMA ReadStep ==
  ASSUME TypeOK, SearchInv, GetProfileRoutingReceipt
  PROVE  TypeOK' /\ SearchInv' /\ UNCHANGED cache
  <1>1. /\ pc = "stored"
        /\ UNCHANGED <<held, active, overlap, open, lru, changes, req, ranked, batch, stage, result,
                       executions, selected, answer, receipt, seen>>
    BY DEF GetProfileRoutingReceipt, db, cache, call, work, outcome
  <1>2. answer # None
    BY <1>1 DEF SearchInv, AnswerInv
  <1>3. ReadBack(receipt) # None
    BY <1>2, AnsweredFacts DEF ReadBack
  <1>4. pc' \in {"answered", "failed"}
    BY <1>3 DEF GetProfileRoutingReceipt
  <1>5. TypeOK'
    BY <1>1, <1>4 DEF TypeOK
  <1>6. SourceInv'
    BY <1>1 DEF SearchInv, SourceInv
  <1>7. OrderInv'
    BY <1>1, <1>4 DEF SearchInv, OrderInv
  <1>8. CountInv'
    BY <1>1, <1>4 DEF SearchInv, CountInv
  <1>9. AnswerInv'
    <2>1. /\ FoundIn(executions)' = FoundIn(executions)
          /\ FoundIn(SubSeq(executions, 1, Len(executions) - 1))' =
               FoundIn(SubSeq(executions, 1, Len(executions) - 1))
          /\ ReceiptOf(executions, selected, answer)' = ReceiptOf(executions, selected, answer)
          /\ Conflicting(Hits(executions))' = Conflicting(Hits(executions))
      BY <1>1 DEF FoundIn, Merged, Before, Cut, Least, Place, Hits, SortedBy, ReceiptOf, Conflicting
    <2> QED
      BY <1>1, <1>2, <1>4, <2>1 DEF SearchInv, AnswerInv
  <1> QED
    BY <1>1, <1>4, <1>5, <1>6, <1>7, <1>8, <1>9 DEF SearchInv, cache

\* The state of a search that has not started.
LEMMA IdleSearch ==
  ASSUME pc = "idle", req = None, ranked = <<>>, batch = <<>>,
         stage = [s \in Sources |-> "todo"], result = Nothing,
         executions = <<>>, selected = 0, answer = None, receipt = None, seen = Nothing
  PROVE  /\ SearchInv
         /\ ranked \in Seq(Sources) /\ batch \in Seq(Sources)
         /\ stage \in [Sources -> {"todo", "opened", "done"}]
         /\ result \in [Sources -> Results \cup {None}]
         /\ executions \in Seq(Results) /\ selected \in 0..Len(ranked)
         /\ seen \in [Sources -> (SUBSET Facts) \cup {None}]
  <1>1. \A s \in Sources : result[s] = None /\ seen[s] = None /\ stage[s] = "todo"
    BY DEF Nothing
  <1>2. SourceInv
    BY <1>1 DEF SourceInv
  <1>3. IsInjective(ranked) /\ Len(executions) = 0 /\ Len(ranked) = 0 /\ DOMAIN executions = {}
    BY DEF IsInjective
  <1>4. OrderInv
    BY <1>3 DEF OrderInv
  <1>5. CountInv /\ AnswerInv
    BY DEF CountInv, AnswerInv
  <1>6. 0 \in 0..0
    OBVIOUS
  <1> QED
    BY <1>2, <1>3, <1>4, <1>5, <1>6 DEF SearchInv, Nothing

LEMMA ReturnStep ==
  ASSUME TypeOK, Return
  PROVE  TypeOK' /\ SearchInv' /\ UNCHANGED cache
  <1>1. /\ pc' = "idle" /\ req' = None /\ ranked' = <<>> /\ batch' = <<>>
        /\ stage' = [s \in Sources |-> "todo"] /\ result' = Nothing
        /\ executions' = <<>> /\ selected' = 0
        /\ answer' = None /\ receipt' = None /\ seen' = Nothing
        /\ UNCHANGED <<held, active, overlap, open, lru, changes>>
    BY DEF Return, db, cache
  <1>2. Nothing' = Nothing
    BY DEF Nothing
  <1>3. /\ SourceInv' /\ OrderInv' /\ CountInv' /\ AnswerInv'
        /\ ranked' \in Seq(Sources) /\ batch' \in Seq(Sources)
        /\ stage' \in [Sources -> {"todo", "opened", "done"}]
        /\ result' \in [Sources -> Results \cup {None}]
        /\ executions' \in Seq(Results) /\ selected' \in 0..Len(ranked')
        /\ seen' \in [Sources -> (SUBSET Facts) \cup {None}]
    <2>1. \A s \in Sources : result'[s] = None /\ seen'[s] = None /\ stage'[s] = "todo"
      BY <1>1 DEF Nothing
    <2>2. SourceInv'
      BY <2>1 DEF SourceInv
    <2>3. IsInjective(<<>>) /\ Len(<<>>) = 0 /\ DOMAIN <<>> = {} /\ 0 \in 0..0
      BY DEF IsInjective
    <2>4. OrderInv'
      BY <1>1, <2>3 DEF OrderInv
    <2>5. CountInv' /\ AnswerInv'
      BY <1>1, <1>2 DEF CountInv, AnswerInv
    <2> QED
      BY <1>1, <2>2, <2>3, <2>4, <2>5 DEF Nothing
  <1>4. TypeOK'
    BY <1>1, <1>3 DEF TypeOK
  <1> QED
    BY <1>1, <1>3, <1>4 DEF SearchInv, cache

-----------------------------------------------------------------------------
(* Every step.                                                             *)

LEMMA InitInv == Init => IInv
  <1> SUFFICES ASSUME Init PROVE IInv
    OBVIOUS
  <1>1. held \subseteq Facts
    BY SearchAssumption DEF Init
  <1>2. overlap \in [Shards -> 0..1]
    BY DEF Init
  <1>3. CacheSound /\ lru \in Seq(Sources) /\ open \subseteq Sources
    <2>1. ToSet(<<>>) = {} /\ IsInjective(<<>>)
      BY DEF ToSet, IsInjective
    <2>2. open = {} /\ lru = <<>>
      BY DEF Init
    <2> QED
      BY <2>1, <2>2, FS_EmptySet, SearchAssumption DEF CacheSound
  <1>4. /\ pc = "idle" /\ req = None /\ ranked = <<>> /\ batch = <<>>
        /\ stage = [s \in Sources |-> "todo"] /\ result = Nothing
        /\ executions = <<>> /\ selected = 0
        /\ answer = None /\ receipt = None /\ seen = Nothing
        /\ active = Sources /\ changes = 0
    BY DEF Init
  <1>5. changes \in 0..MaxChanges
    BY <1>4, SearchAssumption
  <1>6. /\ SearchInv
        /\ ranked \in Seq(Sources) /\ batch \in Seq(Sources)
        /\ stage \in [Sources -> {"todo", "opened", "done"}]
        /\ result \in [Sources -> Results \cup {None}]
        /\ executions \in Seq(Results) /\ selected \in 0..Len(ranked)
        /\ seen \in [Sources -> (SUBSET Facts) \cup {None}]
    BY <1>4, IdleSearch
  <1>7. TypeOK
    BY <1>1, <1>2, <1>3, <1>4, <1>5, <1>6 DEF TypeOK
  <1> QED
    BY <1>3, <1>6, <1>7 DEF IInv, SearchInv

LEMMA NextInv == IInv /\ [Next]_vars => IInv'
  <1> SUFFICES ASSUME IInv, [Next]_vars PROVE IInv'
    OBVIOUS
  <1>1. TypeOK /\ CacheSound /\ SearchInv
    BY DEF IInv, SearchInv
  <1>2. ASSUME TypeOK', CacheSound', SearchInv' PROVE IInv'
    BY <1>2 DEF IInv, SearchInv
  <1>3. ASSUME UNCHANGED cache PROVE CacheSound'
    BY <1>1, <1>3 DEF CacheSound, cache
  <1>4. CASE Others
    BY <1>1, <1>2, <1>4, OthersStep, SearchInvUnchanged
  <1>5. CASE RoutedSearch
    BY <1>1, <1>2, <1>3, <1>5, RoutedSearchStep
  <1>6. CASE RoutedSearchForProfile
    BY <1>1, <1>2, <1>3, <1>6, RoutedSearchForProfileStep
  <1>7. CASE \E s \in Sources : Open(s) \/ OpenFails(s) \/ Ask(s) \/ AskFails(s)
    BY <1>1, <1>2, <1>7, OpenStep, AskStep
  <1>8. CASE NextStore \/ Expand
    BY <1>1, <1>2, <1>3, <1>8, NextSourceStep
  <1>9. CASE ConflictingShardItem
    BY <1>1, <1>2, <1>3, <1>9, ConflictStep
  <1>10. CASE Finish
    BY <1>1, <1>2, <1>3, <1>10, FinishStep
  <1>11. CASE GetProfileRoutingReceipt
    BY <1>1, <1>2, <1>3, <1>11, ReadStep
  <1>12. CASE Return
    BY <1>1, <1>2, <1>3, <1>12, ReturnStep
  <1>13. CASE UNCHANGED vars
    <2>1. TypeOK' /\ CacheSound'
      BY <1>1, <1>13 DEF TypeOK, CacheSound, vars, db, cache, call, work, outcome
    <2>2. UNCHANGED <<pc, call, work, outcome, seen>>
      BY <1>13 DEF vars
    <2> QED
      BY <1>1, <1>2, <2>1, <2>2, SearchInvUnchanged
  <1>14. CASE Next
    BY <1>4, <1>5, <1>6, <1>7, <1>8, <1>9, <1>10, <1>11, <1>12, <1>14 DEF Next, Others
  <1> QED
    BY <1>13, <1>14

-----------------------------------------------------------------------------
(* Theorems.                                                               *)

\* The inductive invariant: what a search keeps of its sources, its executions, its
\* count and its answer, at each step of routed_search and routed_search_for_profile.
THEOREM Invariance == Spec => []IInv
  <1>1. Init => IInv
    BY InitInv
  <1>2. IInv /\ [Next]_vars => IInv'
    BY NextInv
  <1> QED
    BY <1>1, <1>2, PTL DEF Spec

\* The databases, the cache and the search under way keep their types.
THEOREM TypeCorrect == Spec => []TypeOK
  <1>1. IInv => TypeOK
    BY DEF IInv
  <1> QED
    BY <1>1, Invariance, PTL

\* The queue of the cache of open databases names each of them once and nothing else,
\* and no more are open than the capacity, whatever the order of searches, writes,
\* refreshes and evictions (ShardStoreCache).
THEOREM CacheIsSound == Spec => []CacheSound
  <1>1. IInv => CacheSound
    BY DEF IInv
  <1> QED
    BY <1>1, Invariance, PTL

\* A source was asked if and only if it is among the executions, without error.
LEMMA AskedExecuted ==
  ASSUME TypeOK, SearchInv, answer # None
  PROVE  /\ \A i \in 1..Len(executions) : executions[i].ok <=> ranked[i] \in Asked
         /\ \A s \in Asked : \E i \in 1..Len(executions) : ranked[i] = s
  <1>1. \A i \in 1..Len(executions) :
          ranked[i] \in Sources /\ executions[i] = result[ranked[i]] /\ result[ranked[i]] # None
    BY AnsweredFacts
  <1>2. ASSUME NEW i \in 1..Len(executions) PROVE executions[i].ok <=> ranked[i] \in Asked
    <2>1. /\ result[ranked[i]].ok => seen[ranked[i]] # None
          /\ ~ result[ranked[i]].ok => seen[ranked[i]] = None
      BY <1>1 DEF SearchInv, SourceInv
    <2> QED
      BY <1>1, <2>1 DEF Asked
  <1>3. ASSUME NEW s \in Asked PROVE \E i \in 1..Len(executions) : ranked[i] = s
    <2>1. s \in Sources /\ stage[s] = "done"
      BY DEF Asked, SearchInv, SourceInv
    <2> QED
      BY <2>1 DEF SearchInv, AnswerInv
  <1> QED
    BY <1>2, <1>3

LEMMA ReceiptFacts == IInv => ReceiptTellsTruth
  <1> SUFFICES ASSUME IInv, receipt # None
               PROVE  /\ ReadBack(receipt) = receipt
                      /\ {o.in : o \in {x \in ToSet(receipt.outcomes) : x.ok}} = Asked
                      /\ \A f \in ToSet(answer) : f.in \in Asked /\ f \in seen[f.in]
                      /\ receipt.ids = [i \in DOMAIN answer |-> answer[i].item]
                      /\ ToSet(receipt.skipped) \cap Asked = {}
                      /\ receipt.kind = "profile" =>
                           (receipt.complete <=> ToSet(receipt.eligible) = Asked)
    BY DEF ReceiptTellsTruth, IInv
  <1>1. TypeOK /\ SearchInv /\ answer # None
    BY DEF IInv, SearchInv, AnswerInv
  <1> DEFINE n == Len(executions)
             outs == [i \in DOMAIN executions |-> [in |-> executions[i].in, ok |-> executions[i].ok]]
  <1>2. /\ executions \in Seq(Results) /\ n \in 0..Len(ranked) /\ DOMAIN executions = 1..n
        /\ \A i \in 1..n : executions[i].in = ranked[i] /\ executions[i] = result[ranked[i]]
        /\ answer = Merged(Hits(executions)) /\ Ranked(Hits(executions))
        /\ receipt = ReceiptOf(executions, selected, answer) /\ selected = n
        /\ receipt # None /\ Valid(receipt)
    BY <1>1, AnsweredFacts
  <1>3. /\ receipt.kind = req.kind /\ receipt.eligible = ranked /\ receipt.outcomes = outs
        /\ receipt.skipped = SubSeq(ranked, n + 1, Len(ranked))
        /\ receipt.complete = \A e \in ToSet(executions) : e.ok
        /\ receipt.ids = [i \in DOMAIN answer |-> answer[i].item]
    BY <1>2 DEF ReceiptOf
  <1>4. /\ \A i \in 1..n : executions[i].ok <=> ranked[i] \in Asked
        /\ \A s \in Asked : \E i \in 1..n : ranked[i] = s
    BY <1>1, AskedExecuted
  <1>5. ReadBack(receipt) = receipt
    BY <1>2 DEF ReadBack
  <1>6. {o.in : o \in {x \in ToSet(receipt.outcomes) : x.ok}} = Asked
    <2>1. ToSet(outs) = {outs[i] : i \in 1..n}
      BY <1>2 DEF ToSet
    <2>2. \A i \in 1..n : outs[i].in = ranked[i] /\ outs[i].ok = executions[i].ok
      BY <1>2
    <2> HIDE DEF outs, n
    <2>3. ASSUME NEW o \in ToSet(outs), o.ok PROVE o.in \in Asked
      BY <1>4, <2>1, <2>2, <2>3
    <2>4. ASSUME NEW s \in Asked PROVE \E o \in ToSet(outs) : o.ok /\ o.in = s
      <3>1. PICK i \in 1..n : ranked[i] = s
        BY <1>4
      <3>2. outs[i] \in ToSet(outs) /\ outs[i].ok /\ outs[i].in = s
        BY <1>4, <2>1, <2>2, <3>1
      <3> QED
        BY <3>2
    <2> QED
      BY <1>3, <2>3, <2>4
  <1>7. \A f \in ToSet(answer) : f.in \in Asked /\ f \in seen[f.in]
    <2>1. ToSet(answer) \subseteq Hits(executions)
      BY <1>2, MergedProperties
    <2>2. \A f \in Hits(executions) : seen[f.in] # None /\ f \in seen[f.in]
      BY <1>1, <1>2, HitsProperties DEF SearchInv
    <2>3. \A f \in Hits(executions) : f.in \in Sources
      BY <1>2, SearchAssumption DEF Ranked
    <2> QED
      BY <2>1, <2>2, <2>3 DEF Asked
  <1>8. ToSet(receipt.skipped) \cap Asked = {}
    <2>1. ranked \in Seq(Sources) /\ IsInjective(ranked)
      BY <1>1 DEF TypeOK, SearchInv, OrderInv
    <2>2. ToSet(SubSeq(ranked, n + 1, Len(ranked))) = ToSet(ranked) \ ToSet(SubSeq(ranked, 1, n))
      BY <1>2, <2>1, QueueParts
    <2>3. /\ DOMAIN SubSeq(ranked, 1, n) = 1..n
          /\ \A i \in 1..n : SubSeq(ranked, 1, n)[i] = ranked[i]
      BY <1>2, <2>1
    <2>4. Asked \subseteq ToSet(SubSeq(ranked, 1, n))
      BY <1>4, <2>3 DEF ToSet
    <2> QED
      BY <1>3, <2>2, <2>4
  <1>9. ASSUME receipt.kind = "profile"
        PROVE  receipt.complete <=> ToSet(receipt.eligible) = Asked
    <2>1. n = Len(ranked)
      BY <1>1, <1>3, <1>9 DEF SearchInv, AnswerInv
    <2>2. ToSet(ranked) = {ranked[i] : i \in 1..n}
      BY <1>1, <2>1 DEF ToSet, TypeOK
    <2>3. receipt.complete <=> \A i \in 1..n : executions[i].ok
      <3>1. (\A e \in ToSet(executions) : e.ok) <=> \A i \in 1..n : executions[i].ok
        BY <1>2 DEF ToSet
      <3>2. receipt.complete = \A e \in ToSet(executions) : e.ok
        BY <1>3
      <3> QED
        BY <3>1, <3>2, Zenon
    <2>4. Asked \subseteq ToSet(ranked)
      BY <1>4, <2>2
    <2> HIDE DEF n
    <2> QED
      BY <1>3, <1>4, <2>2, <2>3, <2>4
  <1> QED
    BY <1>3, <1>5, <1>6, <1>7, <1>8, <1>9

\* No search is refused by the validation of the receipt it has just made; a stored
\* receipt is read back as it was, and what it says of its sources, skipped, failed or
\* asked, of its completeness and of its results is what happened (routed_search,
\* routed_search_for_profile, validate_profile_routing_receipt).
THEOREM ReceiptsTellTruth == Spec => []ReceiptTellsTruth
  BY Invariance, ReceiptFacts, PTL

LEMMA ExpansionFacts == IInv => ExpansionIsExact
  <1> SUFFICES ASSUME IInv, answer # None, req.kind = "sparse"
               PROVE  /\ Len(answer) < TopK => receipt.skipped = <<>>
                      /\ Len(receipt.selected) > req.budget =>
                           Len(Merged(Hits(SubSeq(executions, 1, Len(executions) - 1)))) < TopK
    BY DEF ExpansionIsExact
  <1>1. TypeOK /\ SearchInv
    BY DEF IInv, SearchInv
  <1>2. /\ receipt = ReceiptOf(executions, selected, answer) /\ selected = Len(executions)
        /\ Len(executions) \in 0..Len(ranked) /\ answer = Merged(Hits(executions))
        /\ Ranked(Hits(executions))
    BY <1>1, AnsweredFacts
  <1>3. /\ receipt.skipped = SubSeq(ranked, Len(executions) + 1, Len(ranked))
        /\ receipt.selected = SubSeq(ranked, 1, Len(executions))
    BY <1>2 DEF ReceiptOf
  <1>4. ranked \in Seq(Sources) /\ Len(ranked) \in Nat /\ TopK \in Nat /\ Len(answer) \in Nat
    <2>1. answer \in Seq(Facts)
      BY <1>2, MergedProperties
    <2> QED
      BY <1>1, <2>1, SearchAssumption DEF TypeOK
  <1>5. ASSUME Len(answer) < TopK PROVE receipt.skipped = <<>>
    <2>1. Len(executions) = Len(ranked)
      BY <1>1, <1>4, <1>5 DEF SearchInv, AnswerInv
    <2>2. SubSeq(ranked, Len(ranked) + 1, Len(ranked)) = <<>>
      BY <1>4
    <2> QED
      BY <1>3, <2>1, <2>2
  <1>6. ASSUME Len(receipt.selected) > req.budget
        PROVE  Len(Merged(Hits(SubSeq(executions, 1, Len(executions) - 1)))) < TopK
    <2>1. Len(receipt.selected) = Len(executions)
      BY <1>2, <1>3, <1>4
    <2> QED
      BY <1>1, <1>6, <2>1 DEF SearchInv, AnswerInv, FoundIn
  <1> QED
    BY <1>5, <1>6

\* A sparse search is short of results only when no shard is left, and has added the
\* last shard it added because it was short without it (routed_search).
THEOREM ExpansionExact == Spec => []ExpansionIsExact
  BY Invariance, ExpansionFacts, PTL

\* What a database held and did not return is no better than a full answer.
LEMMA LeftOutIsNoBetter ==
  ASSUME TypeOK, SearchInv, answer # None, NEW s \in Asked, NEW f \in seen[s]
  PROVE  \/ \E r \in ToSet(answer) : r.item = f.item /\ r.score >= f.score
         \/ /\ \A r \in ToSet(answer) : r.item # f.item /\ r.score >= f.score
            /\ Len(answer) = TopK
  <1>1. /\ executions \in Seq(Results) /\ DOMAIN executions = 1..Len(executions)
        /\ Len(executions) <= Len(ranked)
        /\ \A i \in 1..Len(executions) : executions[i] = result[ranked[i]]
        /\ answer = Merged(Hits(executions)) /\ Ranked(Hits(executions))
    BY AnsweredFacts
  <1>2. PICK i \in 1..Len(executions) : ranked[i] = s
    BY AskedExecuted
  <1>3. /\ s \in Sources /\ seen[s] # None /\ seen[s] \in SUBSET Facts
        /\ result[s] # None /\ result[s].ok /\ result[s].hits \in TopOf(seen[s])
        /\ \A g \in seen[s] : g.in = s
    BY DEF Asked, TypeOK, SearchInv, SourceInv
  <1> DEFINE H == result[s].hits
  <1>4. H \subseteq Hits(executions)
    BY <1>1, <1>2, HitsProperties DEF SearchInv
  <1>5. CASE f \in H
    BY <1>1, <1>4, <1>5, HitsAreCovered
  <1>6. CASE f \notin H
    <2>1. /\ H \subseteq seen[s] /\ Cardinality(H) = Least(TopK, Cardinality(seen[s]))
          /\ \A g \in H : g.score >= f.score
      BY <1>3, <1>6 DEF TopOf
    <2>2. IsFiniteSet(seen[s])
      BY <1>3, SearchAssumption, FS_Subset
    <2>3. Cardinality(H) # Cardinality(seen[s])
      BY <1>6, <2>1, <2>2, FS_Subset
    <2>4. Cardinality(H) = TopK
      BY <2>1, <2>3 DEF Least
    <2>5. \A g, h \in H : g.item = h.item => g = h
      BY <1>3, <2>1, SearchAssumption
    <2>6. f.score \in Nat
      BY <1>3, SearchAssumption
    <2>7. Len(answer) = TopK /\ \A r \in ToSet(answer) : r.score >= f.score
      BY <1>1, <1>4, <2>1, <2>4, <2>5, <2>6, FullAnswer
    <2> QED
      BY <2>7
  <1> QED
    BY <1>5, <1>6

LEMMA BestFacts == IInv => NothingBetterLeftOut
  <1> SUFFICES ASSUME IInv, answer # None
               PROVE  /\ \A s \in Asked : \A f \in seen[s] :
                           \/ \E r \in ToSet(answer) : r.item = f.item /\ r.score >= f.score
                           \/ /\ \A r \in ToSet(answer) : r.item # f.item /\ r.score >= f.score
                              /\ Len(answer) = TopK
                      /\ \A e, x \in ToSet(executions) : \A f \in e.hits, g \in x.hits :
                           f.item = g.item => f.content = g.content
    BY DEF NothingBetterLeftOut
  <1>1. TypeOK /\ SearchInv
    BY DEF IInv, SearchInv
  <1>2. ~ Conflicting(Hits(executions))
    BY <1>1 DEF SearchInv, AnswerInv
  <1>3. ASSUME NEW e \in ToSet(executions), NEW x \in ToSet(executions),
               NEW f \in e.hits, NEW g \in x.hits, f.item = g.item
        PROVE  f.content = g.content
    <2>1. f \in Hits(executions) /\ g \in Hits(executions)
      BY DEF Hits
    <2> QED
      BY <1>2, <1>3, <2>1 DEF Conflicting
  <1> QED
    BY <1>1, <1>3, LeftOutIsNoBetter

\* The answer is the best that the databases asked could give together, though each
\* returned its TopK only, and none was given over an item id with two contents
\* (merge_routed_results).
THEOREM NothingBetterIsLeftOut == Spec => []NothingBetterLeftOut
  BY Invariance, BestFacts, PTL
=============================================================================
