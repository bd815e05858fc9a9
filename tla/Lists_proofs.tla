----------------------------- MODULE Lists_proofs -----------------------------
(***************************************************************************)
(* What lining up a finite set yields: a list of all of it, each element   *)
(* once, in the order. Nothing here is about numbers or rows; the decks of *)
(* a carousel and the pages of the story list both rest on it.             *)
(***************************************************************************)
EXTENDS Lists, FiniteSetTheorems, SequenceTheorems, TLAPS

\* A relation that puts the elements of S in one line.
TotalOrder(S, R) ==
  /\ \A x \in S : <<x, x>> \notin R
  /\ \A x, y \in S : x = y \/ <<x, y>> \in R \/ <<y, x>> \in R
  /\ \A x, y, z \in S : <<x, y>> \in R /\ <<y, z>> \in R => <<x, z>> \in R

\* How many are ahead of it tells where an element stands.
LEMMA Standing ==
  ASSUME NEW S, IsFiniteSet(S), NEW R, TotalOrder(S, R)
  PROVE  /\ Cardinality(S) \in Nat
         /\ \A x \in S : Cardinality(Ahead(S, R, x)) \in 0..(Cardinality(S) - 1)
         /\ \A x, y \in S : <<x, y>> \in R =>
              Cardinality(Ahead(S, R, x)) < Cardinality(Ahead(S, R, y))
<1> DEFINE before(x) == {y \in S : <<y, x>> \in R}
<1>1. Cardinality(S) \in Nat
  BY FS_CardinalityType
<1>2. \A x \in S : /\ IsFiniteSet(before(x)) /\ Cardinality(before(x)) \in Nat
                   /\ Cardinality(before(x)) < Cardinality(S)
  <2> SUFFICES ASSUME NEW x \in S
               PROVE  /\ IsFiniteSet(before(x)) /\ Cardinality(before(x)) \in Nat
                      /\ Cardinality(before(x)) < Cardinality(S)
    OBVIOUS
  <2>1. before(x) \in SUBSET S /\ x \notin before(x)
    BY DEF TotalOrder
  <2> HIDE DEF before
  <2>2. /\ IsFiniteSet(before(x)) /\ Cardinality(before(x)) <= Cardinality(S)
        /\ Cardinality(before(x)) # Cardinality(S)
    BY <2>1, FS_Subset
  <2>3. QED
    BY <1>1, <2>2, FS_CardinalityType
<1>3. \A x, y \in S : <<x, y>> \in R => Cardinality(before(x)) < Cardinality(before(y))
  <2> SUFFICES ASSUME NEW x \in S, NEW y \in S, <<x, y>> \in R
               PROVE  Cardinality(before(x)) < Cardinality(before(y))
    OBVIOUS
  <2>1. before(x) \in SUBSET before(y) /\ x \in before(y) /\ x \notin before(x)
    BY DEF TotalOrder
  <2>2. IsFiniteSet(before(y)) /\ Cardinality(before(y)) \in Nat /\ Cardinality(before(x)) \in Nat
    BY <1>2
  <2> HIDE DEF before
  <2>3. /\ Cardinality(before(x)) <= Cardinality(before(y))
        /\ Cardinality(before(x)) # Cardinality(before(y))
    BY <2>1, <2>2, FS_Subset
  <2>4. QED
    BY <2>2, <2>3
<1>4. \A x \in S : before(x) = Ahead(S, R, x)
  BY DEF Ahead
<1> HIDE DEF before
<1>5. QED
  BY <1>1, <1>2, <1>3, <1>4

\* Every standing is some element's.
LEMMA Ranks ==
  ASSUME NEW S, IsFiniteSet(S), NEW R, TotalOrder(S, R),
         NEW n \in 1..Cardinality(S)
  PROVE  \E x \in S : Cardinality(Ahead(S, R, x)) = n - 1
<1> DEFINE rank == [x \in S |-> Cardinality(Ahead(S, R, x)) + 1]
           N == 1..Cardinality(S)
<1>1. /\ Cardinality(S) \in Nat
      /\ \A x \in S : Cardinality(Ahead(S, R, x)) \in 0..(Cardinality(S) - 1)
      /\ \A x, y \in S : <<x, y>> \in R =>
           Cardinality(Ahead(S, R, x)) < Cardinality(Ahead(S, R, y))
  BY Standing
<1>2. IsFiniteSet(N) /\ Cardinality(N) = Cardinality(S)
  BY <1>1, FS_Interval
<1>3. rank \in [S -> N]
  BY <1>1
<1>4. \A x, y \in S : rank[x] = rank[y] => x = y
  <2> SUFFICES ASSUME NEW x \in S, NEW y \in S, rank[x] = rank[y], x # y PROVE FALSE
    OBVIOUS
  <2>1. <<x, y>> \in R \/ <<y, x>> \in R
    BY DEF TotalOrder
  <2>2. QED
    BY <1>1, <2>1
<1>5. rank \in Injection(S, N)
  BY <1>3, <1>4 DEF Injection, IsInjective
<1> HIDE DEF rank, N
<1>6. rank \in Surjection(S, N)
  BY <1>2, <1>5, FS_Injection
<1>7. n \in N
  BY DEF N
<1>8. PICK x \in S : rank[x] = n
  BY <1>6, <1>7 DEF Surjection
<1>9. QED
  BY <1>1, <1>8 DEF rank

\* The list has every element of the set, once, and in the order.
LEMMA Lining ==
  ASSUME NEW S, IsFiniteSet(S), NEW R, TotalOrder(S, R)
  PROVE  LET L == Lined(S, R)
             N == 1..Cardinality(S)
         IN  /\ Cardinality(S) \in Nat
             /\ L \in [N -> S]
             /\ \A n \in N : Cardinality(Ahead(S, R, L[n])) = n - 1
             /\ \A m, n \in N : m < n => <<L[m], L[n]>> \in R
             /\ \A m, n \in N : L[m] = L[n] => m = n
             /\ \A x \in S : \E n \in N : L[n] = x
<1> DEFINE L == Lined(S, R)
           N == 1..Cardinality(S)
           before(x) == Cardinality(Ahead(S, R, x))
<1>1. /\ Cardinality(S) \in Nat
      /\ \A x \in S : before(x) \in 0..(Cardinality(S) - 1)
      /\ \A x, y \in S : <<x, y>> \in R => before(x) < before(y)
  BY Standing
<1>2. \A n \in N : \E x \in S : before(x) = n - 1
  BY Ranks
<1>3. L = [n \in N |-> CHOOSE x \in S : before(x) = n - 1]
  BY DEF Lined
<1> HIDE DEF before, L
<1>4. \A n \in N : L[n] \in S /\ before(L[n]) = n - 1
  BY <1>2, <1>3
<1>5. L \in [N -> S]
  BY <1>2, <1>3
<1>6. \A x, y \in S : before(x) = before(y) => x = y
  <2> SUFFICES ASSUME NEW x \in S, NEW y \in S, before(x) = before(y), x # y PROVE FALSE
    OBVIOUS
  <2>1. <<x, y>> \in R \/ <<y, x>> \in R
    BY DEF TotalOrder
  <2>2. QED
    BY <1>1, <2>1
<1>7. \A m, n \in N : L[m] = L[n] => m = n
  BY <1>1, <1>4
<1>8. \A m, n \in N : m < n => <<L[m], L[n]>> \in R
  <2> SUFFICES ASSUME NEW m \in N, NEW n \in N, m < n PROVE <<L[m], L[n]>> \in R
    OBVIOUS
  <2>1. L[m] # L[n]
    BY <1>1, <1>7
  <2>2. ~(before(L[n]) < before(L[m]))
    BY <1>1, <1>4
  <2>3. QED
    BY <1>1, <1>4, <2>1, <2>2 DEF TotalOrder
<1>9. \A x \in S : \E n \in N : L[n] = x
  <2> SUFFICES ASSUME NEW x \in S PROVE \E n \in N : L[n] = x
    OBVIOUS
  <2>1. before(x) + 1 \in N /\ before(x) \in Nat
    BY <1>1
  <2>2. before(L[before(x) + 1]) = before(x)
    BY <1>4, <2>1
  <2>3. QED
    BY <1>4, <1>6, <2>1, <2>2
<1>10. QED
  BY <1>1, <1>4, <1>5, <1>7, <1>8, <1>9 DEF before, L

-----------------------------------------------------------------------------
\* Numbers.
LEMMA IncreasingOrder ==
  ASSUME NEW S \in SUBSET Int
  PROVE  TotalOrder(S, Increasing(S))
BY DEF TotalOrder, Increasing

\* A sequence has finitely many indices.
LEMMA Indices ==
  ASSUME NEW T, NEW seq \in Seq(T), NEW I \in SUBSET (DOMAIN seq)
  PROVE  /\ IsFiniteSet(I) /\ I \in SUBSET Nat /\ IsFiniteSet(DOMAIN seq)
         /\ Cardinality(I) \in Nat
<1>1. DOMAIN seq = 1..Len(seq) /\ Len(seq) \in Nat
  OBVIOUS
<1>2. IsFiniteSet(DOMAIN seq)
  BY <1>1, FS_Interval
<1>3. IsFiniteSet(I)
  BY <1>2, FS_Subset
<1>4. QED
  BY <1>1, <1>2, <1>3, FS_CardinalityType

\* The indices of a part, in line.
LEMMA LinedIndices ==
  ASSUME NEW T, NEW seq \in Seq(T), NEW I \in SUBSET (DOMAIN seq)
  PROVE  LET at == Lined(I, Increasing(I)) IN
         /\ at \in [1..Cardinality(I) -> I]
         /\ \A m, n \in 1..Cardinality(I) : at[m] = at[n] => m = n
<1>1. IsFiniteSet(I) /\ I \in SUBSET Int
  BY Indices
<1>2. TotalOrder(I, Increasing(I))
  BY <1>1, IncreasingOrder
<1>3. QED
  BY <1>1, <1>2, Lining

\* A part of a sequence holds what the sequence holds at those indices.
LEMMA PartOf ==
  ASSUME NEW T, NEW seq \in Seq(T), NEW I \in SUBSET (DOMAIN seq)
  PROVE  /\ Part(seq, I) \in Seq(T)
         /\ Len(Part(seq, I)) = Cardinality(I)
         /\ \A n \in DOMAIN Part(seq, I) : \E i \in I : Part(seq, I)[n] = seq[i]
<1> DEFINE at == Lined(I, Increasing(I))
           N == 1..Cardinality(I)
<1>1. Cardinality(I) \in Nat /\ at \in [N -> I]
  BY Indices, LinedIndices
<1>2. Part(seq, I) = [n \in N |-> seq[at[n]]]
  BY DEF Part
<1> HIDE DEF at
<1>3. \A i \in I : seq[i] \in T
  OBVIOUS
<1>4. \A n \in N : at[n] \in I
  BY <1>1
<1>5. Part(seq, I) \in [N -> T]
  BY <1>2, <1>3, <1>4
<1>6. Part(seq, I) \in Seq(T) /\ Len(Part(seq, I)) = Cardinality(I)
  BY <1>1, <1>5
<1>7. DOMAIN Part(seq, I) = N /\ \A n \in N : Part(seq, I)[n] = seq[at[n]]
  BY <1>2
<1>8. QED
  BY <1>4, <1>6, <1>7

\* Each index is used once.
LEMMA PartOnce ==
  ASSUME NEW T, NEW seq \in Seq(T), NEW I \in SUBSET (DOMAIN seq),
         \A i, j \in I : seq[i] = seq[j] => i = j,
         NEW m \in DOMAIN Part(seq, I), NEW n \in DOMAIN Part(seq, I),
         Part(seq, I)[m] = Part(seq, I)[n]
  PROVE  m = n
<1> DEFINE at == Lined(I, Increasing(I))
           N == 1..Cardinality(I)
<1>1. at \in [N -> I] /\ \A i, j \in N : at[i] = at[j] => i = j
  BY LinedIndices
<1>2. Part(seq, I) = [i \in N |-> seq[at[i]]]
  BY DEF Part
<1> HIDE DEF at
<1>3. m \in N /\ n \in N /\ seq[at[m]] = seq[at[n]]
  BY <1>2
<1>4. at[m] \in I /\ at[n] \in I
  BY <1>1, <1>3
<1>5. QED
  BY <1>1, <1>3, <1>4

\* A set of indices that is not empty has a first.
LEMMA First ==
  ASSUME NEW T, NEW seq \in Seq(T), NEW I \in SUBSET (DOMAIN seq), I # {}
  PROVE  \E i \in I : \A j \in I : i <= j
<1>1. I \in SUBSET Nat /\ IsFiniteSet(I) /\ Cardinality(I) \in Nat
  BY Indices
<1>2. 1 \in 1..Cardinality(I)
  BY <1>1, FS_CardinalityType, FS_EmptySet
<1>3. TotalOrder(I, Increasing(I))
  BY <1>1, IncreasingOrder
<1> DEFINE L == Lined(I, Increasing(I))
<1>4. /\ L[1] \in I
      /\ \A n \in 1..Cardinality(I) : 1 < n => <<L[1], L[n]>> \in Increasing(I)
      /\ \A j \in I : \E n \in 1..Cardinality(I) : L[n] = j
  BY <1>1, <1>2, <1>3, Lining
<1> HIDE DEF L
<1>5. \A j \in I : L[1] <= j
  <2> SUFFICES ASSUME NEW j \in I PROVE L[1] <= j
    OBVIOUS
  <2>1. PICK n \in 1..Cardinality(I) : L[n] = j
    BY <1>4
  <2>2. n = 1 \/ 1 < n
    BY <1>1
  <2>3. CASE <<L[1], j>> \in Increasing(I)
    BY <1>1, <2>3 DEF Increasing
  <2>4. QED
    BY <1>1, <1>4, <2>1, <2>2, <2>3
<1>6. QED
  BY <1>4, <1>5
=============================================================================
