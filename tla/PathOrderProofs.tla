--------------------------- MODULE PathOrderProofs ---------------------------
(***************************************************************************)
(* The order of paths is a strict total order in which what is below a     *)
(* path lies together, and Sorted lists a finite set in it.                *)
(***************************************************************************)
EXTENDS PathOrder, FiniteSetTheorems, SequenceTheorems, WellFoundedInduction, TLAPS

-----------------------------------------------------------------------------
(* Numbers and paths.  Induction is had from the least number of a set.    *)
LEMMA LeastNumber ==
    ASSUME NEW T \in SUBSET Nat, T # {}
    PROVE  \E n \in T : \A m \in T : n <= m
  <1> DEFINE R == {ss \in Nat \X Nat : ss[1] < ss[2]}
  <1>1. IsWellFoundedOn(R, Nat)
    BY NatLessThanWellFounded DEF OpToRel
  <1>2. PICK n \in T : \A m \in T : <<m, n>> \notin R
    BY <1>1, WFMin
  <1>3. ASSUME NEW m \in T PROVE n <= m
    <2>1. <<m, n>> \in Nat \X Nat /\ <<m, n>>[1] = m /\ <<m, n>>[2] = n
      OBVIOUS
    <2>2. ~(m < n)
      BY <1>2, <2>1
    <2> QED BY <2>2
  <1> QED BY <1>3

LEMMA LenFacts ==
    ASSUME NEW p \in Seq(Nat)
    PROVE  Len(p) \in Nat /\ \A k \in 1..Len(p) : p[k] \in Nat
  BY LenProperties, ElementOfSeq

LEMMA PrefixFacts ==
    ASSUME NEW p \in Seq(Nat), NEW q \in Seq(Nat)
    PROVE  /\ IsPrefix(p, q) <=> Len(p) <= Len(q) /\ \A j \in 1..Len(p) : p[j] = q[j]
           /\ IsStrictPrefix(p, q) <=> Len(p) < Len(q) /\ \A j \in 1..Len(p) : p[j] = q[j]
  <1>1. Len(p) \in Nat /\ Len(q) \in Nat
    BY LenFacts
  <1> DEFINE P == SubSeq(p, 1, Len(p))
             Q == SubSeq(q, 1, Len(p))
  <1>2. P \in Seq(Nat) /\ Len(P) = Len(p) /\ \A j \in 1..Len(p) : P[j] = p[j]
    <2>1. P = p
      BY SubSeqFull
    <2> QED BY <2>1
  <1>3. ASSUME Len(p) <= Len(q)
        PROVE  Q \in Seq(Nat) /\ Len(Q) = Len(p) /\ \A j \in 1..Len(p) : Q[j] = q[j]
    <2>1. \A j \in 1..Len(p) : q[j] \in Nat /\ 1 + j - 1 = j
      BY <1>1, <1>3, LenFacts
    <2>2. /\ Q \in Seq(Nat)
          /\ Len(Q) = IF 1 <= Len(p) THEN Len(p) - 1 + 1 ELSE 0
          /\ \A j \in 1..(Len(p) - 1 + 1) : Q[j] = q[1 + j - 1]
      BY <1>1, <2>1, SubSeqProperties
    <2> QED BY <1>1, <2>1, <2>2
  <1>4. IsPrefix(p, q) <=> Len(p) <= Len(q) /\ P = Q
    BY DEF IsPrefix
  <1> HIDE DEF P, Q
  <1>5. ASSUME Len(p) <= Len(q)
        PROVE  (P = Q) <=> (\A j \in 1..Len(p) : p[j] = q[j])
    <2>1. (\A j \in 1..Len(P) : P[j] = Q[j]) => P = Q
      BY <1>2, <1>3, <1>5, SeqEqual
    <2> QED BY <1>2, <1>3, <1>5, <2>1
  <1>6. Len(p) = Len(q) /\ (\A j \in 1..Len(p) : p[j] = q[j]) => p = q
    BY SeqEqual
  <1> QED BY <1>1, <1>4, <1>5, <1>6 DEF IsStrictPrefix

(* p leaves the way to q: it is before everything below q.                 *)
Left(p, q) ==
    \E i \in 1..Len(p) :
      /\ i <= Len(q) /\ p[i] < q[i]
      /\ \A j \in 1..(i - 1) : p[j] = q[j]

LEMMA BeforeIs ==
    ASSUME NEW p, NEW q
    PROVE  Before(p, q) <=> IsStrictPrefix(p, q) \/ Left(p, q)
  BY DEF Before, Left

LEMMA LeftBelow ==
    ASSUME NEW p \in Seq(Nat), NEW q \in Seq(Nat), NEW x \in Seq(Nat), NEW y \in Seq(Nat),
           Left(p, q), IsPrefix(p, x), IsPrefix(q, y)
    PROVE  Left(x, y)
  <1>1. PICK i \in 1..Len(p) : i <= Len(q) /\ p[i] < q[i] /\ \A j \in 1..(i - 1) : p[j] = q[j]
    BY DEF Left
  <1>2. Len(p) \in Nat /\ Len(q) \in Nat /\ Len(x) \in Nat /\ Len(y) \in Nat
    BY LenFacts
  <1>3. /\ Len(p) <= Len(x) /\ \A j \in 1..Len(p) : p[j] = x[j]
        /\ Len(q) <= Len(y) /\ \A j \in 1..Len(q) : q[j] = y[j]
    BY PrefixFacts
  <1>4. i \in 1..Len(x) /\ i <= Len(y) /\ i \in 1..Len(q) /\ \A j \in 1..(i - 1) : j \in 1..Len(p) /\ j \in 1..Len(q)
    <2>1. i \in Nat /\ 1 <= i /\ i <= Len(p) /\ i <= Len(q)
      BY <1>1, <1>2
    <2>2. Len(p) <= Len(x) /\ Len(q) <= Len(y)
      BY <1>3
    <2>3. i <= Len(x) /\ i <= Len(y)
      <3>1. \A a, b, c \in Nat : a <= b /\ b <= c => a <= c
        OBVIOUS
      <3> QED BY <1>2, <2>1, <2>2, <3>1
    <2>4. \A j \in 1..(i - 1) : j \in 1..Len(p) /\ j \in 1..Len(q)
      BY <1>2, <2>1
    <2> QED BY <2>1, <2>3, <2>4
  <1>5. x[i] < y[i] /\ \A j \in 1..(i - 1) : x[j] = y[j]
    BY <1>1, <1>3, <1>4
  <1> QED BY <1>4, <1>5 DEF Left

LEMMA PrefixTransitive ==
    ASSUME NEW p \in Seq(Nat), NEW q \in Seq(Nat), NEW r \in Seq(Nat), IsPrefix(p, q), IsPrefix(q, r)
    PROVE  IsPrefix(p, r) /\ (IsStrictPrefix(p, q) \/ IsStrictPrefix(q, r) => IsStrictPrefix(p, r))
  <1>1. Len(p) \in Nat /\ Len(q) \in Nat /\ Len(r) \in Nat
    BY LenFacts
  <1>2. /\ Len(p) <= Len(q) /\ \A j \in 1..Len(p) : p[j] = q[j]
        /\ Len(q) <= Len(r) /\ \A j \in 1..Len(q) : q[j] = r[j]
    BY PrefixFacts
  <1>3. Len(p) <= Len(r) /\ \A j \in 1..Len(p) : p[j] = r[j]
    BY <1>1, <1>2
  <1>4. IsStrictPrefix(p, q) => Len(p) < Len(q)
    BY PrefixFacts
  <1>5. IsStrictPrefix(q, r) => Len(q) < Len(r)
    BY PrefixFacts
  <1>6. IsPrefix(p, r) /\ (Len(p) < Len(r) => IsStrictPrefix(p, r))
    BY <1>3, PrefixFacts
  <1> QED BY <1>1, <1>2, <1>4, <1>5, <1>6

LEMMA PrefixReflexive ==
    ASSUME NEW p \in Seq(Nat)
    PROVE  IsPrefix(p, p)
  BY PrefixFacts, LenFacts

LEMMA LeftTransitive ==
    ASSUME NEW p \in Seq(Nat), NEW q \in Seq(Nat), NEW r \in Seq(Nat), Left(p, q), Left(q, r)
    PROVE  Left(p, r)
  <1>1. PICK i \in 1..Len(p) : i <= Len(q) /\ p[i] < q[i] /\ \A j \in 1..(i - 1) : p[j] = q[j]
    BY DEF Left
  <1>2. PICK k \in 1..Len(q) : k <= Len(r) /\ q[k] < r[k] /\ \A j \in 1..(k - 1) : q[j] = r[j]
    BY DEF Left
  <1>3. Len(p) \in Nat /\ Len(q) \in Nat /\ Len(r) \in Nat /\ i \in Nat /\ k \in Nat
    BY LenFacts
  <1>4. /\ \A j \in 1..Len(p) : p[j] \in Nat
        /\ \A j \in 1..Len(q) : q[j] \in Nat
        /\ \A j \in 1..Len(r) : r[j] \in Nat
    BY LenFacts
  <1>5. CASE i <= k
    <2>0. 1 <= i /\ i <= Len(q) /\ k <= Len(r)
      BY <1>1, <1>2
    <2>1. i <= Len(r) /\ i \in 1..Len(r) /\ i \in 1..Len(q) /\ \A j \in 1..(i - 1) : j \in 1..(k - 1)
      <3>1. i <= Len(r)
        BY <1>3, <1>5, <2>0
      <3>2. \A j \in 1..(i - 1) : j \in 1..(k - 1)
        BY <1>3, <1>5
      <3> QED BY <1>3, <2>0, <3>1, <3>2
    <2>2. \A j \in 1..(i - 1) : p[j] = r[j]
      BY <1>1, <1>2, <2>1
    <2>3. q[i] = r[i] \/ q[i] < r[i]
      BY <1>2, <1>3, <1>5
    <2>4. p[i] < r[i]
      <3>1. p[i] \in Nat /\ q[i] \in Nat /\ r[i] \in Nat
        BY <1>4, <2>1
      <3>2. p[i] < q[i]
        BY <1>1
      <3>3. CASE q[i] = r[i]
        BY <3>2, <3>3
      <3>4. CASE q[i] < r[i]
        <4>1. \A a, b, c \in Nat : a < b /\ b < c => a < c
          OBVIOUS
        <4> QED BY <3>1, <3>2, <3>4, <4>1
      <3> QED BY <2>3, <3>3, <3>4
    <2> QED BY <2>1, <2>2, <2>4 DEF Left
  <1>6. CASE k < i
    <2>0. 1 <= k /\ i <= Len(p)
      BY <1>1, <1>2
    <2>1. k \in 1..Len(p) /\ k \in 1..(i - 1) /\ \A j \in 1..(k - 1) : j \in 1..(i - 1)
      BY <1>3, <1>6, <2>0
    <2>2. p[k] < r[k] /\ \A j \in 1..(k - 1) : p[j] = r[j]
      BY <1>1, <1>2, <2>1
    <2> QED BY <1>2, <2>1, <2>2 DEF Left
  <1> QED BY <1>3, <1>5, <1>6

LEMMA BeforeTransitive ==
    ASSUME NEW p \in Seq(Nat), NEW q \in Seq(Nat), NEW r \in Seq(Nat), Before(p, q), Before(q, r)
    PROVE  Before(p, r)
  <1>1. CASE IsStrictPrefix(p, q) /\ IsStrictPrefix(q, r)
    <2>1. IsPrefix(p, q) /\ IsPrefix(q, r)
      BY <1>1 DEF IsStrictPrefix
    <2> QED BY <1>1, <2>1, PrefixTransitive, BeforeIs
  <1>2. CASE Left(p, q) /\ IsStrictPrefix(q, r)
    <2>1. IsPrefix(p, p) /\ IsPrefix(q, r)
      BY <1>2, PrefixReflexive DEF IsStrictPrefix
    <2> QED BY <1>2, <2>1, LeftBelow, BeforeIs
  <1>3. CASE Left(p, q) /\ Left(q, r)
    BY <1>3, LeftTransitive, BeforeIs
  <1>4. CASE IsStrictPrefix(p, q) /\ Left(q, r)
    <2>1. PICK k \in 1..Len(q) : k <= Len(r) /\ q[k] < r[k] /\ \A j \in 1..(k - 1) : q[j] = r[j]
      BY <1>4 DEF Left
    <2>2. Len(p) \in Nat /\ Len(q) \in Nat /\ Len(r) \in Nat /\ k \in Nat /\ k >= 1
      BY LenFacts
    <2>3. Len(p) < Len(q) /\ \A j \in 1..Len(p) : p[j] = q[j]
      BY <1>4, PrefixFacts
    <2>4. CASE k <= Len(p)
      <3>1. k \in 1..Len(p) /\ \A j \in 1..(k - 1) : j \in 1..Len(p)
        BY <2>2, <2>4
      <3>2. p[k] < r[k] /\ \A j \in 1..(k - 1) : p[j] = r[j]
        BY <2>1, <2>3, <3>1
      <3>3. Left(p, r)
        BY <2>1, <3>1, <3>2 DEF Left
      <3> QED BY <3>3, BeforeIs
    <2>5. CASE Len(p) < k
      <3>1. Len(p) < Len(r) /\ \A j \in 1..Len(p) : j \in 1..(k - 1)
        BY <2>1, <2>2, <2>5
      <3>2. \A j \in 1..Len(p) : p[j] = r[j]
        BY <2>1, <2>3, <3>1
      <3> QED BY <3>1, <3>2, PrefixFacts, BeforeIs
    <2> QED BY <2>2, <2>4, <2>5
  <1> QED BY <1>1, <1>2, <1>3, <1>4, BeforeIs

LEMMA BeforeIrreflexive ==
    ASSUME NEW p \in Seq(Nat)
    PROVE  ~Before(p, p)
  <1>1. ~IsStrictPrefix(p, p)
    BY DEF IsStrictPrefix
  <1>2. ~Left(p, p)
    BY LenFacts DEF Left
  <1> QED BY <1>1, <1>2, BeforeIs

LEMMA BeforeTotal ==
    ASSUME NEW p \in Seq(Nat), NEW q \in Seq(Nat)
    PROVE  p = q \/ Before(p, q) \/ Before(q, p)
  <1> DEFINE D == {k \in Nat : 1 <= k /\ k <= Len(p) /\ k <= Len(q) /\ p[k] # q[k]}
  <1>1. Len(p) \in Nat /\ Len(q) \in Nat
    BY LenFacts
  <1>2. CASE D = {}
    <2>1. \A k \in 1..Len(p) : k <= Len(q) => p[k] = q[k]
      BY <1>1, <1>2
    <2>2. \A k \in 1..Len(q) : k <= Len(p) => p[k] = q[k]
      BY <1>1, <1>2
    <2>3. CASE Len(p) < Len(q)
      <3>1. IsStrictPrefix(p, q)
        BY <1>1, <2>1, <2>3, PrefixFacts
      <3> QED BY <3>1, BeforeIs
    <2>4. CASE Len(q) < Len(p)
      <3>1. IsStrictPrefix(q, p)
        BY <1>1, <2>2, <2>4, PrefixFacts
      <3> QED BY <3>1, BeforeIs
    <2>5. CASE Len(p) = Len(q)
      <3>1. \A k \in 1..Len(p) : p[k] = q[k]
        BY <1>1, <2>1, <2>5
      <3> QED BY <2>5, <3>1, SeqEqual
    <2> QED BY <1>1, <2>3, <2>4, <2>5
  <1>3. CASE D # {}
    <2>1. PICK k \in D : \A m \in D : k <= m
      BY <1>3, LeastNumber
    <2>2. k \in 1..Len(p) /\ k \in 1..Len(q) /\ k <= Len(p) /\ k <= Len(q) /\ p[k] # q[k] /\ k \in Nat
      BY <1>1, <2>1
    <2>3. ASSUME NEW j \in 1..(k - 1) PROVE p[j] = q[j]
      <3>1. j \in Nat /\ 1 <= j /\ j <= Len(p) /\ j <= Len(q) /\ ~(k <= j)
        BY <1>1, <2>2
      <3> QED BY <2>1, <3>1
    <2>4. p[k] \in Nat /\ q[k] \in Nat
      BY <2>2, LenFacts
    <2>5. p[k] < q[k] \/ q[k] < p[k]
      BY <2>2, <2>4
    <2>6. Left(p, q) \/ Left(q, p)
      BY <2>2, <2>3, <2>5 DEF Left
    <2> QED BY <2>6, BeforeIs
  <1> QED BY <1>2, <1>3

-----------------------------------------------------------------------------
(* Sorted(S) is S in order: every rank below the number of its elements is *)
(* that of one of them.                                                    *)
Rank(S, p) == Cardinality({q \in S : Before(q, p)})

LEMMA RankFacts ==
    ASSUME NEW S, S \subseteq Seq(Nat), IsFiniteSet(S)
    PROVE  /\ IsFiniteSet(S) /\ Cardinality(S) \in Nat
           /\ \A p \in S : Rank(S, p) \in 0..(Cardinality(S) - 1)
           /\ \A p, q \in S : Before(p, q) => Rank(S, p) < Rank(S, q)
  <1>1. IsFiniteSet(S) /\ Cardinality(S) \in Nat
    BY FS_CardinalityType
  <1>2. ASSUME NEW p \in S, NEW T \in SUBSET (S \ {p})
        PROVE  IsFiniteSet(T) /\ Cardinality(T) \in Nat /\ Cardinality(T) <= Cardinality(S) - 1
    <2>1. IsFiniteSet(S \ {p}) /\ Cardinality(S \ {p}) = Cardinality(S) - 1
      BY <1>1, FS_RemoveElement
    <2> QED BY <2>1, FS_Subset, FS_CardinalityType
  <1>3. ASSUME NEW p \in S PROVE Rank(S, p) \in 0..(Cardinality(S) - 1)
    <2> DEFINE T == {q \in S : Before(q, p)}
    <2>1. p \in Seq(Nat)
      OBVIOUS
    <2>2. T \in SUBSET (S \ {p})
      BY <2>1, BeforeIrreflexive
    <2>3. Cardinality(T) \in Nat /\ Cardinality(T) <= Cardinality(S) - 1
      BY <1>2, <2>2
    <2> QED BY <1>1, <2>3 DEF Rank
  <1>4. ASSUME NEW p \in S, NEW q \in S, Before(p, q) PROVE Rank(S, p) < Rank(S, q)
    <2> DEFINE T == {r \in S : Before(r, p)}
               U == {r \in S : Before(r, q)}
    <2>1. p \in Seq(Nat) /\ q \in Seq(Nat) /\ \A r \in S : r \in Seq(Nat)
      OBVIOUS
    <2>2. T \in SUBSET (U \ {p})
      BY <1>4, <2>1, BeforeTransitive, BeforeIrreflexive
    <2>3. p \in U /\ U \in SUBSET S
      BY <1>4
    <2> HIDE DEF T, U
    <2>4. IsFiniteSet(U) /\ Cardinality(U) \in Nat
      BY <1>1, <2>3, FS_Subset, FS_CardinalityType
    <2>5. IsFiniteSet(U \ {p}) /\ Cardinality(U \ {p}) = Cardinality(U) - 1
      BY <2>3, <2>4, FS_RemoveElement
    <2>6. Cardinality(T) \in Nat /\ Cardinality(T) <= Cardinality(U \ {p})
      BY <2>2, <2>5, FS_Subset, FS_CardinalityType
    <2>7. Cardinality(T) < Cardinality(U)
      BY <2>4, <2>5, <2>6
    <2> QED BY <2>7 DEF Rank, T, U
  <1> QED BY <1>1, <1>3, <1>4

LEMMA RankTaken ==
    ASSUME NEW S, S \subseteq Seq(Nat), IsFiniteSet(S), NEW k \in 0..(Cardinality(S) - 1)
    PROVE  \E p \in S : Rank(S, p) = k
  <1> DEFINE n == Cardinality(S)
             f == [p \in S |-> Rank(S, p)]
  <1>1. IsFiniteSet(S) /\ n \in Nat /\ f \in [S -> 0..(n - 1)]
    BY RankFacts
  <1>2. ASSUME NEW p \in S, NEW q \in S, f[p] = f[q] PROVE p = q
    <2>1. p \in Seq(Nat) /\ q \in Seq(Nat)
      OBVIOUS
    <2>2. f[p] \in Nat /\ f[q] \in Nat
      BY <1>1
    <2>3. ~Before(p, q) /\ ~Before(q, p)
      BY <1>2, <2>2, RankFacts
    <2> QED BY <2>1, <2>3, BeforeTotal
  <1>3. f \in Injection(S, 0..(n - 1))
    BY <1>1, <1>2 DEF Injection, IsInjective
  <1>4. IsFiniteSet(0..(n - 1)) /\ Cardinality(0..(n - 1)) = n
    BY <1>1, FS_Interval
  <1>5. f \in Surjection(S, 0..(n - 1))
    BY <1>3, <1>4, FS_Injection
  <1>6. \E p \in S : f[p] = k
    BY <1>5 DEF Surjection
  <1> QED BY <1>6

LEMMA SortedFacts ==
    ASSUME NEW S, S \subseteq Seq(Nat), IsFiniteSet(S)
    PROVE  /\ Cardinality(S) \in Nat /\ Sorted(S) \in Seq(S) /\ Len(Sorted(S)) = Cardinality(S)
           /\ \A i, j \in 1..Cardinality(S) : i < j => Before(Sorted(S)[i], Sorted(S)[j])
  <1> DEFINE n == Cardinality(S)
             At(i) == CHOOSE p \in S : Rank(S, p) = i - 1
  <1>1. n \in Nat
    BY RankFacts
  <1>2. ASSUME NEW i \in 1..n PROVE At(i) \in S /\ Rank(S, At(i)) = i - 1
    <2>1. i - 1 \in 0..(n - 1)
      BY <1>1
    <2> QED BY <2>1, RankTaken
  <1>3. Sorted(S) = [i \in 1..n |-> At(i)]
    BY DEF Sorted, Rank
  <1> HIDE DEF At
  <1>4. Sorted(S) \in Seq(S) /\ Len(Sorted(S)) = n /\ \A i \in 1..n : Sorted(S)[i] = At(i)
    <2>1. Sorted(S) \in [1..n -> S]
      BY <1>2, <1>3
    <2>2. Sorted(S) \in Seq(S)
      BY <1>1, <2>1, SeqDef
    <2> QED BY <1>1, <1>3, <2>1, <2>2, LenProperties
  <1>5. ASSUME NEW i \in 1..n, NEW j \in 1..n, i < j PROVE Before(At(i), At(j))
    <2>1. At(i) \in Seq(Nat) /\ At(j) \in Seq(Nat)
      BY <1>2
    <2>2. Rank(S, At(i)) = i - 1 /\ Rank(S, At(j)) = j - 1 /\ i \in Nat /\ j \in Nat
      BY <1>1, <1>2
    <2>3. At(i) # At(j)
      BY <1>5, <2>2
    <2>4. ~Before(At(j), At(i))
      <3>1. Before(At(j), At(i)) => Rank(S, At(j)) < Rank(S, At(i))
        BY <1>2, RankFacts
      <3> QED BY <1>5, <2>2, <3>1
    <2> QED BY <2>1, <2>3, <2>4, BeforeTotal
  <1> QED BY <1>1, <1>4, <1>5

LEMMA SortedAll ==
    ASSUME NEW S, S \subseteq Seq(Nat), IsFiniteSet(S), NEW p \in S
    PROVE  \E i \in 1..Cardinality(S) : Sorted(S)[i] = p
  <1>1. Rank(S, p) \in 0..(Cardinality(S) - 1) /\ Cardinality(S) \in Nat
    BY RankFacts
  <1> DEFINE i == Rank(S, p) + 1
  <1>2. i \in 1..Cardinality(S) /\ i - 1 = Rank(S, p)
    BY <1>1
  <1>3. Sorted(S)[i] = CHOOSE q \in S : Rank(S, q) = i - 1
    BY <1>2 DEF Sorted, Rank
  <1>4. ASSUME NEW q \in S, Rank(S, q) = Rank(S, p) PROVE q = p
    <2>1. p \in Seq(Nat) /\ q \in Seq(Nat)
      OBVIOUS
    <2>2. ~(Rank(S, p) < Rank(S, q)) /\ ~(Rank(S, q) < Rank(S, p))
      BY <1>1, <1>4
    <2>3. ~Before(p, q) /\ ~Before(q, p)
      BY <2>2, RankFacts
    <2> QED BY <2>1, <2>3, BeforeTotal
  <1> HIDE DEF i
  <1>5. Sorted(S)[i] \in S /\ Rank(S, Sorted(S)[i]) = i - 1
    BY <1>2, <1>3
  <1> QED BY <1>2, <1>4, <1>5

-----------------------------------------------------------------------------
(* The directory of a path.                                                *)
LEMMA FrontFacts ==
    ASSUME NEW p \in Seq(Nat), p # <<>>
    PROVE  /\ Front(p) \in Seq(Nat) /\ Len(Front(p)) = Len(p) - 1
           /\ \A j \in 1..(Len(p) - 1) : Front(p)[j] = p[j]
           /\ IsStrictPrefix(Front(p), p)
  <1>1. p \in Seq(Nat) /\ Len(p) \in Nat /\ Len(p) >= 1 /\ \A j \in 1..(Len(p) - 1) : p[j] \in Nat /\ 1 + j - 1 = j
    BY EmptySeq, LenFacts
  <1>2. /\ SubSeq(p, 1, Len(p) - 1) \in Seq(Nat)
        /\ Len(SubSeq(p, 1, Len(p) - 1)) = IF 1 <= Len(p) - 1 THEN (Len(p) - 1) - 1 + 1 ELSE 0
        /\ \A j \in 1..((Len(p) - 1) - 1 + 1) : SubSeq(p, 1, Len(p) - 1)[j] = p[1 + j - 1]
    BY <1>1, SubSeqProperties
  <1>3. /\ Front(p) \in Seq(Nat) /\ Len(Front(p)) = Len(p) - 1
        /\ \A j \in 1..(Len(p) - 1) : Front(p)[j] = p[j]
    <2>1. SubSeq(p, 1, Len(p) - 1) = Front(p)
      BY DEF Front
    <2> DEFINE n == Len(p)
    <2>0. n \in Nat /\ n >= 1
      BY <1>1
    <2> HIDE DEF n
    <2>n. n - 1 \in Nat /\ (n - 1) - 1 + 1 = n - 1 /\ (~(1 <= n - 1) => n - 1 = 0)
      BY <2>0
    <2>2. Len(p) - 1 \in Nat /\ (Len(p) - 1) - 1 + 1 = Len(p) - 1 /\ (~(1 <= Len(p) - 1) => Len(p) - 1 = 0)
      BY <2>n DEF n
    <2>3. \A j \in 1..(Len(p) - 1) : SubSeq(p, 1, Len(p) - 1)[j] = p[j]
      BY <1>1, <1>2, <2>2
    <2> QED BY <1>2, <2>1, <2>2, <2>3
  <1>4. Len(Front(p)) < Len(p) /\ \A j \in 1..Len(Front(p)) : Front(p)[j] = p[j]
    BY <1>1, <1>3
  <1>5. IsStrictPrefix(Front(p), p)
    BY <1>1, <1>3, <1>4, PrefixFacts
  <1> QED BY <1>3, <1>5
=============================================================================
