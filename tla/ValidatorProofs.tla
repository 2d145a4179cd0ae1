--------------------------- MODULE ValidatorProofs ---------------------------
(***************************************************************************)
(* What the receiver's two checks let through is a valid stream, for any   *)
(* names, any paths and any changes, in any order and number.              *)
(***************************************************************************)
EXTENDS Validator, FiniteSetTheorems, TLAPS

Saved  == [dir : Seq(Nat), last : Nat]
Change == [op : {"add", "delete"}, kind : {"dir", "file", "symlink", "none"}, path : Paths, linkname : Paths \cup {<<>>}]

Typed ==
    /\ parentDirs \in Seq(Saved) /\ Len(parentDirs) >= 1
    /\ accepted \in Seq(Change)

(* The directories saved lead to the innermost: each is the names last     *)
(* seen in those before it.                                                *)
Chain ==
    \A k \in 1..Len(parentDirs) :
      /\ Len(parentDirs[k].dir) = k - 1
      /\ \A i \in 1..(k - 1) : parentDirs[k].dir[i] = parentDirs[i].last

(* The walk is past p when it has seen last in d.                          *)
Past(p, d, last) ==
    \/ Before(p, d) \/ p = d
    \/ Len(d) < Len(p) /\ (\A j \in 1..Len(d) : p[j] = d[j]) /\ p[Len(d) + 1] <= last

AllPast ==
    \A j \in 1..Len(accepted), k \in 1..Len(parentDirs) :
      Past(accepted[j].path, parentDirs[k].dir, parentDirs[k].last)

SavedAdded ==
    \A k \in 2..Len(parentDirs) :
      \E j \in 1..Len(accepted) : Opens(accepted[j]) /\ accepted[j].path = parentDirs[k].dir

IsFile(c) == c.op = "add" /\ c.kind = "file" /\ ~IsLink(c)
SeenAdded ==
    \A p \in seenFiles : \E j \in 1..Len(accepted) : IsFile(accepted[j]) /\ accepted[j].path = p

IInv == Typed /\ Chain /\ AllPast /\ SavedAdded /\ SeenAdded /\ Valid(accepted)

-----------------------------------------------------------------------------
LEMMA PathFacts ==
    ASSUME NEW p \in Paths
    PROVE  p \in Seq(Nat) /\ Len(p) \in Nat \ {0} /\ (\A j \in 1..Len(p) : p[j] \in Nat \ {0})
  <1>1. p \in Seq(Names) /\ p # <<>> /\ Names \subseteq Nat \ {0}
    BY ValidatorAssumption
  <1>2. Len(p) \in Nat /\ Len(p) # 0
    BY <1>1
  <1>3. \A j \in 1..Len(p) : p[j] \in Names
    BY <1>1
  <1>4. p \in [1..Len(p) -> Nat]
    <2>1. DOMAIN p = 1..Len(p) /\ p = [j \in DOMAIN p |-> p[j]]
      BY <1>1
    <2>2. \A j \in 1..Len(p) : p[j] \in Nat
      BY <1>1, <1>3
    <2> QED BY <2>1, <2>2
  <1>5. p \in Seq(Nat)
    BY <1>2, <1>4
  <1> QED BY <1>1, <1>2, <1>3, <1>5

(* Of the directories saved at least the root is at or before any other.   *)
LEMMA ParentIndexInRange ==
    ASSUME Typed, Chain, NEW d \in Seq(Nat)
    PROVE  ParentIndex(d) \in 1..Len(parentDirs)
  <1> DEFINE N == Len(parentDirs)
             S == {i \in 1..N : parentDirs[i].dir = d \/ Before(parentDirs[i].dir, d)}
  <1>1. N \in Nat /\ N >= 1 /\ parentDirs[1].dir \in Seq(Nat)
    <2>1. N \in Nat /\ N >= 1
      BY DEF Typed
    <2>2. parentDirs[1] \in Saved
      BY <2>1 DEF Typed
    <2> QED BY <2>1, <2>2 DEF Saved
  <1>2. Len(parentDirs[1].dir) = 0
    BY <1>1 DEF Chain
  <1>3. parentDirs[1].dir = <<>>
    BY <1>1, <1>2
  <1>4. d = <<>> \/ Before(<<>>, d)
    <2>1. d # <<>> => Len(d) \in Nat /\ Len(d) > 0
      OBVIOUS
    <2>2. d # <<>> => Before(<<>>, d)
      BY <2>1 DEF Before
    <2> QED BY <2>2
  <1>5. 1 \in S
    BY <1>1, <1>3, <1>4
  <1>6. IsFiniteSet(1..N) /\ Cardinality(1..N) = N
    <2> HIDE DEF N
    <2>1. 1 \in Int /\ N \in Int /\ N >= 1
      BY <1>1
    <2>2. IsFiniteSet(1..N) /\ Cardinality(1..N) = IF 1 > N THEN 0 ELSE N - 1 + 1
      BY <2>1, FS_Interval
    <2> QED BY <2>1, <2>2
  <1>7. S \subseteq 1..N
    OBVIOUS
  <1>8. IsFiniteSet(S) /\ Cardinality(S) <= Cardinality(1..N)
    BY <1>6, <1>7, FS_Subset
  <1>9. Cardinality(S) \in Nat /\ Cardinality(S) # 0
    BY <1>5, <1>8, FS_EmptySet, FS_CardinalityType
  <1>10. Cardinality(S) \in 1..N
    BY <1>1, <1>6, <1>8, <1>9
  <1> QED BY <1>10 DEF ParentIndex

(* What the walk is past comes before the next name of that directory.     *)
LEMMA PastBefore ==
    ASSUME NEW p \in Seq(Nat), NEW q \in Seq(Nat), NEW d \in Seq(Nat), NEW last \in Nat,
           Past(p, d, last), Len(q) = Len(d) + 1, \A j \in 1..Len(d) : q[j] = d[j], last < q[Len(q)]
    PROVE  Before(p, q)
  <1>1. Len(p) \in Nat /\ Len(q) \in Nat /\ Len(d) \in Nat /\ (\A j \in 1..Len(p) : p[j] \in Nat) /\ q[Len(q)] \in Nat
    OBVIOUS
  <1>2. CASE Before(p, d)
    <2>1. PICK k \in 0..Len(p) :
            /\ k < Len(d) /\ \A j \in 1..k : p[j] = d[j]
            /\ k = Len(p) \/ p[k + 1] < d[k + 1]
      BY <1>2 DEF Before
    <2>2. k \in Nat /\ k < Len(q) /\ k + 1 \in 1..Len(d) /\ \A j \in 1..k : j \in 1..Len(d)
      BY <1>1, <2>1
    <2>3. (\A j \in 1..k : p[j] = q[j]) /\ (k = Len(p) \/ p[k + 1] < q[k + 1])
      BY <2>1, <2>2
    <2> QED BY <2>1, <2>2, <2>3 DEF Before
  <1>3. CASE p = d
    <2>1. Len(p) \in 0..Len(p) /\ Len(p) < Len(q) /\ \A j \in 1..Len(p) : p[j] = q[j]
      BY <1>1, <1>3
    <2> QED BY <2>1 DEF Before
  <1>4. CASE Len(d) < Len(p) /\ (\A j \in 1..Len(d) : p[j] = d[j]) /\ p[Len(d) + 1] <= last
    <2>1. Len(d) \in 0..Len(p) /\ Len(d) < Len(q) /\ (\A j \in 1..Len(d) : p[j] = q[j]) /\ Len(d) + 1 \in 1..Len(p)
      BY <1>1, <1>4
    <2>2. p[Len(d) + 1] < q[Len(d) + 1]
      BY <1>1, <1>4, <2>1
    <2> QED BY <2>1, <2>2 DEF Before
  <1> QED BY <1>2, <1>3, <1>4 DEF Past

-----------------------------------------------------------------------------
LEMMA ChangesTyped ==
    ASSUME NEW c \in Changes, c.path # Malformed
    PROVE  c \in Change
  BY DEF Changes, Change

LEMMA AcceptedTyped ==
    ASSUME Typed, NEW j \in 1..Len(accepted)
    PROVE  accepted[j] \in Change /\ accepted[j].path \in Paths
  <1>1. accepted[j] \in Change
    BY DEF Typed
  <1> QED BY <1>1 DEF Change

(* The directory and the name of a change's path.                          *)
LEMMA DirFacts ==
    ASSUME NEW p \in Paths
    PROVE  /\ Dir(p) \in Seq(Nat) /\ Len(p) = Len(Dir(p)) + 1 /\ Len(Dir(p)) \in Nat
           /\ \A j \in 1..Len(Dir(p)) : p[j] = Dir(p)[j]
           /\ Base(p) \in Nat /\ Base(p) = p[Len(p)]
  <1>1. p \in Seq(Nat) /\ Len(p) \in Nat \ {0} /\ p[Len(p)] \in Nat
    BY PathFacts
  <1>2. Len(p) - 1 \in Nat /\ Len(p) - 1 <= Len(p)
    BY <1>1
  <1> DEFINE m == Len(p) - 1
  <1>3. m \in Nat /\ m <= Len(p)
    BY <1>2
  <1> HIDE DEF m
  <1>4. LET s == SubSeq(p, 1, m)
        IN  s \in Seq(Nat) /\ Len(s) = m /\ \A j \in 1..m : s[j] = p[j]
    BY <1>1, <1>3
  <1>5. Dir(p) \in Seq(Nat) /\ Len(Dir(p)) = m /\ \A j \in 1..m : Dir(p)[j] = p[j]
    BY <1>4 DEF Dir, m
  <1>6. Len(p) = m + 1
    BY <1>1 DEF m
  <1> QED BY <1>1, <1>3, <1>5, <1>6 DEF Base

(* What is saved after a change that is in order.                          *)
LEMMA KeptFacts ==
    ASSUME Typed, Chain, NEW c, c.path \in Paths
    PROVE  LET n == ParentIndex(Dir(c.path)) IN
           /\ n \in 1..Len(parentDirs) /\ Kept(c) \in Seq(Saved) /\ Len(Kept(c)) = n
           /\ \A k \in 1..n : Kept(c)[k] = parentDirs[k]
  <1> DEFINE n == ParentIndex(Dir(c.path))
  <1>1. n \in 1..Len(parentDirs)
    BY DirFacts, ParentIndexInRange
  <1>2. parentDirs \in Seq(Saved) /\ Len(parentDirs) \in Nat
    BY DEF Typed
  <1>3. n \in Nat /\ n <= Len(parentDirs)
    BY <1>1, <1>2
  <1> HIDE DEF n
  <1>4. LET s == SubSeq(parentDirs, 1, n)
        IN  s \in Seq(Saved) /\ Len(s) = n /\ \A k \in 1..n : s[k] = parentDirs[k]
    BY <1>2, <1>3
  <1> QED BY <1>1, <1>4 DEF Kept, n

LEMMA AdvancedFacts ==
    ASSUME Typed, Chain, NEW c, c.path \in Paths, Ordered(c), NEW n, n = ParentIndex(Dir(c.path))
    PROVE  /\ n \in 1..Len(parentDirs) /\ parentDirs[n].dir = Dir(c.path) /\ parentDirs[n].last < Base(c.path)
           /\ Advanced(c) \in Seq(Saved)
           /\ Len(Advanced(c)) = IF Opens(c) THEN n + 1 ELSE n
           /\ \A k \in 1..n : Advanced(c)[k].dir = parentDirs[k].dir
           /\ \A k \in 1..(n - 1) : Advanced(c)[k].last = parentDirs[k].last
           /\ Advanced(c)[n].last = Base(c.path)
           /\ Opens(c) => Advanced(c)[n + 1] = [dir |-> c.path, last |-> NoName]
  <1> DEFINE K == Kept(c)
             moved == [K EXCEPT ![Len(K)].last = Base(c.path)]
             opened == [dir |-> c.path, last |-> NoName]
  <1>1. n \in 1..Len(parentDirs) /\ K \in Seq(Saved) /\ Len(K) = n /\ \A k \in 1..n : K[k] = parentDirs[k]
    BY KeptFacts
  <1>2. n \in Nat /\ n >= 1 /\ n \in 1..n
    BY <1>1
  <1>3. K[n] = parentDirs[n] /\ K[n].dir = Dir(c.path) /\ K[n].last < Base(c.path)
    BY <1>1, <1>2 DEF Ordered, Newer
  <1>4. Base(c.path) \in Nat /\ opened \in Saved
    BY DirFacts, PathFacts DEF NoName, Saved
  <1> HIDE DEF K, opened
  <1>5. /\ moved \in Seq(Saved) /\ Len(moved) = n
        /\ \A k \in 1..n : moved[k].dir = K[k].dir
        /\ \A k \in 1..(n - 1) : moved[k].last = K[k].last
        /\ moved[n].last = Base(c.path)
    <2>1. \A k \in 1..n : K[k] \in Saved
      BY <1>1
    <2>2. moved = [k \in 1..n |-> IF k = n THEN [K[n] EXCEPT !.last = Base(c.path)] ELSE K[k]]
      <3>1. DOMAIN K = 1..n
        BY <1>1
      <3> QED BY <1>1, <1>2, <3>1
    <2>3. [K[n] EXCEPT !.last = Base(c.path)] \in Saved
      BY <1>2, <1>4, <2>1 DEF Saved
    <2>4. moved \in [1..n -> Saved]
      BY <2>1, <2>2, <2>3
    <2> HIDE DEF moved
    <2>5. moved \in Seq(Saved) /\ Len(moved) = n
      BY <1>2, <2>4
    <2>6. moved[n] = [K[n] EXCEPT !.last = Base(c.path)] /\ \A k \in 1..(n - 1) : moved[k] = K[k]
      BY <1>2, <2>2
    <2>7. moved[n].dir = K[n].dir /\ moved[n].last = Base(c.path)
      BY <1>2, <2>1, <2>6 DEF Saved
    <2>8. ASSUME NEW k \in 1..n PROVE moved[k].dir = K[k].dir
      <3>1. k = n \/ k \in 1..(n - 1)
        BY <1>2
      <3> QED BY <3>1, <2>6, <2>7
    <2>9. ASSUME NEW k \in 1..(n - 1) PROVE moved[k].last = K[k].last
      BY <2>6
    <2> QED BY <2>5, <2>7, <2>8, <2>9
  <1> HIDE DEF moved
  <1>6. Advanced(c) = IF Opens(c) THEN Append(moved, opened) ELSE moved
    BY DEF Advanced, moved, K, opened
  <1>7. /\ Append(moved, opened) \in Seq(Saved) /\ Len(Append(moved, opened)) = n + 1
        /\ \A k \in 1..n : Append(moved, opened)[k] = moved[k]
        /\ Append(moved, opened)[n + 1] = opened
    BY <1>2, <1>4, <1>5
  <1>8. \A k \in 1..(n - 1) : k \in 1..n
    BY <1>2
  <1>9. CASE Opens(c)
    BY <1>1, <1>2, <1>3, <1>5, <1>6, <1>7, <1>8, <1>9 DEF opened
  <1>10. CASE ~Opens(c)
    BY <1>1, <1>2, <1>3, <1>5, <1>6, <1>8, <1>10
  <1> QED BY <1>9, <1>10

-----------------------------------------------------------------------------
(* One change in order: parentDirs becomes Advanced(c).                    *)
LEMMA ChainAdvanced ==
    ASSUME Typed, Chain, NEW c, c.path \in Paths, Ordered(c), parentDirs' = Advanced(c)
    PROVE  Chain' /\ parentDirs' \in Seq(Saved) /\ Len(parentDirs') >= 1
  <1> DEFINE n == ParentIndex(Dir(c.path))
             A == Advanced(c)
  <1>1. /\ n \in 1..Len(parentDirs) /\ parentDirs[n].dir = Dir(c.path)
        /\ A \in Seq(Saved)
        /\ Len(A) = IF Opens(c) THEN n + 1 ELSE n
        /\ \A k \in 1..n : A[k].dir = parentDirs[k].dir
        /\ \A k \in 1..(n - 1) : A[k].last = parentDirs[k].last
        /\ A[n].last = Base(c.path)
        /\ Opens(c) => A[n + 1] = [dir |-> c.path, last |-> NoName]
    BY AdvancedFacts
  <1> HIDE DEF n, A
  <1>2. n \in Nat /\ n >= 1 /\ \A k \in 1..n : k \in 1..Len(parentDirs)
    <2>1. Len(parentDirs) \in Nat
      BY DEF Typed
    <2> QED BY <1>1, <2>1
  <1>3. ASSUME NEW k \in 1..n
        PROVE  Len(A[k].dir) = k - 1 /\ \A i \in 1..(k - 1) : A[k].dir[i] = A[i].last
    <2>1. Len(parentDirs[k].dir) = k - 1 /\ \A i \in 1..(k - 1) : parentDirs[k].dir[i] = parentDirs[i].last
      BY <1>2 DEF Chain
    <2>2. \A i \in 1..(k - 1) : i \in 1..(n - 1)
      BY <1>2
    <2> QED BY <1>1, <2>1, <2>2
  <1>4. ASSUME Opens(c)
        PROVE  Len(A[n + 1].dir) = n /\ \A i \in 1..n : A[n + 1].dir[i] = A[i].last
    <2>1. A[n + 1].dir = c.path
      BY <1>1, <1>4
    <2>2. Len(Dir(c.path)) = n - 1 /\ \A i \in 1..(n - 1) : Dir(c.path)[i] = A[i].last
      <3>1. n \in 1..n
        BY <1>2
      <3> QED BY <1>1, <1>3, <3>1
    <2>3. Len(c.path) = n /\ (\A i \in 1..(n - 1) : c.path[i] = Dir(c.path)[i]) /\ c.path[n] = A[n].last
      <3>1. /\ Len(c.path) = Len(Dir(c.path)) + 1
            /\ \A i \in 1..Len(Dir(c.path)) : c.path[i] = Dir(c.path)[i]
            /\ Base(c.path) = c.path[Len(c.path)]
        BY DirFacts
      <3> HIDE DEF Dir, Base
      <3> QED BY <1>1, <1>2, <2>2, <3>1
    <2>4. ASSUME NEW i \in 1..n PROVE c.path[i] = A[i].last
      <3>1. i = n \/ i \in 1..(n - 1)
        BY <1>2
      <3> QED BY <2>2, <2>3, <3>1
    <2> QED BY <2>1, <2>3, <2>4
  <1>5. ASSUME NEW k \in 1..Len(A)
        PROVE  Len(A[k].dir) = k - 1 /\ \A i \in 1..(k - 1) : A[k].dir[i] = A[i].last
    <2>1. k \in 1..n \/ (Opens(c) /\ k = n + 1 /\ k - 1 = n)
      BY <1>1, <1>2
    <2> QED BY <2>1, <1>3, <1>4
  <1>6. parentDirs' = A
    BY DEF A
  <1> QED BY <1>1, <1>2, <1>5, <1>6 DEF Chain

(* The change comes after all before it.                                   *)
LEMMA OldBefore ==
    ASSUME Typed, Chain, AllPast, NEW c, c.path \in Paths, Ordered(c), NEW j \in 1..Len(accepted)
    PROVE  Before(accepted[j].path, c.path)
  <1> DEFINE n == ParentIndex(Dir(c.path))
  <1>1. n \in 1..Len(parentDirs) /\ parentDirs[n].dir = Dir(c.path) /\ parentDirs[n].last < Base(c.path)
    BY AdvancedFacts
  <1> HIDE DEF n
  <1>2. Past(accepted[j].path, Dir(c.path), parentDirs[n].last)
    BY <1>1 DEF AllPast
  <1>3. accepted[j].path \in Paths /\ parentDirs[n].last \in Nat
    <2>1. parentDirs[n] \in Saved
      BY <1>1 DEF Typed
    <2>2. accepted[j].path \in Paths
      BY AcceptedTyped
    <2> QED BY <2>1, <2>2 DEF Saved
  <1>4. accepted[j].path \in Seq(Nat) /\ c.path \in Seq(Nat)
    BY <1>3, PathFacts
  <1>5. /\ Dir(c.path) \in Seq(Nat) /\ Len(c.path) = Len(Dir(c.path)) + 1
        /\ \A i \in 1..Len(Dir(c.path)) : c.path[i] = Dir(c.path)[i]
        /\ Base(c.path) = c.path[Len(c.path)]
    BY DirFacts
  <1> HIDE DEF Dir, Base
  <1>6. parentDirs[n].last < c.path[Len(c.path)]
    BY <1>1, <1>5
  <1> QED BY <1>2, <1>3, <1>4, <1>5, <1>6, PastBefore

(* What was past stays past.                                               *)
LEMMA OldPast ==
    ASSUME Typed, Chain, AllPast, NEW c, c.path \in Paths, Ordered(c), NEW j \in 1..Len(accepted),
           NEW k \in 1..Len(Advanced(c))
    PROVE  Past(accepted[j].path, Advanced(c)[k].dir, Advanced(c)[k].last)
  <1> DEFINE n == ParentIndex(Dir(c.path))
             A == Advanced(c)
  <1>1. /\ n \in 1..Len(parentDirs) /\ parentDirs[n].last < Base(c.path)
        /\ Len(A) = IF Opens(c) THEN n + 1 ELSE n
        /\ \A i \in 1..n : A[i].dir = parentDirs[i].dir
        /\ \A i \in 1..(n - 1) : A[i].last = parentDirs[i].last
        /\ A[n].last = Base(c.path)
        /\ Opens(c) => A[n + 1] = [dir |-> c.path, last |-> NoName]
    BY AdvancedFacts
  <1> HIDE DEF n, A
  <1>2. n \in Nat /\ n >= 1 /\ \A i \in 1..n : i \in 1..Len(parentDirs)
    <2>1. Len(parentDirs) \in Nat
      BY DEF Typed
    <2> QED BY <1>1, <2>1
  <1>3. k \in 1..Len(A)
    BY DEF A
  <1>4. k \in 1..(n - 1) \/ k = n \/ (Opens(c) /\ k = n + 1)
    BY <1>1, <1>2, <1>3
  <1>5. CASE k \in 1..(n - 1)
    <2>1. k \in 1..n /\ k \in 1..Len(parentDirs)
      BY <1>2, <1>5
    <2>2. Past(accepted[j].path, parentDirs[k].dir, parentDirs[k].last)
      BY <2>1 DEF AllPast
    <2> QED BY <1>1, <1>5, <2>1, <2>2 DEF A
  <1>6. CASE k = n
    <2>1. Past(accepted[j].path, parentDirs[n].dir, parentDirs[n].last)
      BY <1>1 DEF AllPast
    <2> DEFINE p == accepted[j].path
               d == parentDirs[n].dir
    <2>2. p \in Seq(Nat) /\ d \in Seq(Nat) /\ parentDirs[n].last \in Nat /\ Base(c.path) \in Nat
      <3>1. parentDirs[n] \in Saved /\ accepted[j].path \in Paths
        BY <1>1, AcceptedTyped DEF Typed
      <3> QED BY <3>1, PathFacts, DirFacts DEF Saved
    <2> HIDE DEF p, d, Base
    <2>3. Len(d) < Len(p) /\ p[Len(d) + 1] <= parentDirs[n].last => p[Len(d) + 1] <= Base(c.path)
      <3> SUFFICES ASSUME Len(d) < Len(p), p[Len(d) + 1] <= parentDirs[n].last PROVE p[Len(d) + 1] <= Base(c.path)
        OBVIOUS
      <3>1. Len(d) + 1 \in 1..Len(p)
        BY <2>2
      <3>2. p[Len(d) + 1] \in Nat
        BY <2>2, <3>1
      <3>0. parentDirs[n].last < Base(c.path)
        BY <1>1
      <3>3. parentDirs[n].last <= Base(c.path)
        BY <2>2, <3>0
      <3> QED BY <2>2, <3>2, <3>3
    <2>4. Past(p, d, Base(c.path))
      BY <2>1, <2>3 DEF Past, p, d
    <2>5. A[k].dir = d /\ A[k].last = Base(c.path)
      <3>1. n \in 1..n
        BY <1>2
      <3> QED BY <1>1, <1>6, <3>1 DEF d
    <2> QED BY <2>4, <2>5 DEF p, A
  <1>7. CASE Opens(c) /\ k = n + 1
    <2>1. A[k].dir = c.path
      BY <1>1, <1>7
    <2>2. Before(accepted[j].path, c.path)
      BY OldBefore
    <2> QED BY <2>1, <2>2 DEF Past, A
  <1> QED BY <1>4, <1>5, <1>6, <1>7

(* The change itself is past.                                              *)
LEMMA NewPast ==
    ASSUME Typed, Chain, NEW c, c.path \in Paths, Ordered(c), NEW k \in 1..Len(Advanced(c))
    PROVE  Past(c.path, Advanced(c)[k].dir, Advanced(c)[k].last)
  <1> DEFINE n == ParentIndex(Dir(c.path))
             A == Advanced(c)
  <1>1. /\ n \in 1..Len(parentDirs) /\ parentDirs[n].dir = Dir(c.path)
        /\ Len(A) = IF Opens(c) THEN n + 1 ELSE n
        /\ \A i \in 1..n : A[i].dir = parentDirs[i].dir
        /\ \A i \in 1..(n - 1) : A[i].last = parentDirs[i].last
        /\ A[n].last = Base(c.path)
        /\ Opens(c) => A[n + 1] = [dir |-> c.path, last |-> NoName]
    BY AdvancedFacts
  <1> HIDE DEF n, A
  <1>2. n \in Nat /\ n >= 1 /\ \A i \in 1..n : i \in 1..Len(parentDirs)
    <2>1. Len(parentDirs) \in Nat
      BY DEF Typed
    <2> QED BY <1>1, <2>1
  <1>3. k \in 1..Len(A)
    BY DEF A
  <1>4. k \in 1..n \/ (Opens(c) /\ k = n + 1)
    BY <1>1, <1>2, <1>3
  <1>5. CASE k \in 1..n
    <2>1. Len(parentDirs[k].dir) = k - 1 /\ \A i \in 1..(k - 1) : parentDirs[k].dir[i] = parentDirs[i].last
      BY <1>2, <1>5 DEF Chain
    <2>2. Len(Dir(c.path)) = n - 1 /\ \A i \in 1..(n - 1) : Dir(c.path)[i] = parentDirs[i].last
      BY <1>1 DEF Chain
    <2>3. /\ Len(c.path) = n /\ (\A i \in 1..(n - 1) : c.path[i] = Dir(c.path)[i]) /\ Base(c.path) = c.path[n]
          /\ c.path[n] \in Nat
      <3>1. /\ Len(c.path) = Len(Dir(c.path)) + 1
            /\ \A i \in 1..Len(Dir(c.path)) : c.path[i] = Dir(c.path)[i]
            /\ Base(c.path) \in Nat /\ Base(c.path) = c.path[Len(c.path)]
        BY DirFacts
      <3> HIDE DEF Dir, Base
      <3> QED BY <1>2, <2>2, <3>1
    <2> HIDE DEF Dir, Base
    <2>4. ASSUME NEW i \in 1..(k - 1) PROVE c.path[i] = parentDirs[k].dir[i]
      <3>1. i \in 1..(n - 1)
        BY <1>2, <1>5
      <3> QED BY <2>1, <2>2, <2>3, <3>1
    <2>5. c.path[k] <= A[k].last
      <3>1. CASE k = n
        BY <1>1, <2>3, <3>1
      <3>2. CASE k # n
        <4>1. k \in 1..(n - 1)
          BY <1>2, <1>5, <3>2
        <4>2. c.path[k] = parentDirs[k].last /\ A[k].last = parentDirs[k].last
          BY <1>1, <2>2, <2>3, <4>1
        <4>3. parentDirs[k].last \in Nat
          <5>1. parentDirs[k] \in Saved
            BY <1>2, <1>5 DEF Typed
          <5> QED BY <5>1 DEF Saved
        <4> QED BY <4>2, <4>3
      <3> QED BY <3>1, <3>2
    <2>6. A[k].dir = parentDirs[k].dir /\ Len(A[k].dir) = k - 1 /\ Len(A[k].dir) + 1 = k /\ Len(A[k].dir) < Len(c.path)
      BY <1>1, <1>2, <1>5, <2>1, <2>3
    <2>7. \A i \in 1..Len(A[k].dir) : c.path[i] = A[k].dir[i]
      BY <2>4, <2>6
    <2>8. c.path[Len(A[k].dir) + 1] <= A[k].last
      BY <2>5, <2>6
    <2> QED BY <2>6, <2>7, <2>8 DEF Past, A
  <1>6. CASE Opens(c) /\ k = n + 1
    BY <1>1, <1>6 DEF Past, A
  <1> QED BY <1>4, <1>5, <1>6

(* Every directory saved was added: those kept before, the new one now.    *)
LEMMA SavedAdvanced ==
    ASSUME Typed, Chain, SavedAdded, NEW c, c.path \in Paths, Ordered(c), NEW k \in 2..Len(Advanced(c))
    PROVE  \/ \E j \in 1..Len(accepted) : Opens(accepted[j]) /\ accepted[j].path = Advanced(c)[k].dir
           \/ Opens(c) /\ c.path = Advanced(c)[k].dir
  <1> DEFINE n == ParentIndex(Dir(c.path))
             A == Advanced(c)
  <1>1. /\ n \in 1..Len(parentDirs)
        /\ Len(A) = IF Opens(c) THEN n + 1 ELSE n
        /\ \A i \in 1..n : A[i].dir = parentDirs[i].dir
        /\ Opens(c) => A[n + 1] = [dir |-> c.path, last |-> NoName]
    BY AdvancedFacts
  <1> HIDE DEF n, A
  <1>2. k \in 2..Len(A) /\ Len(parentDirs) \in Nat
    BY DEF A, Typed
  <1>3. (k \in 1..n /\ k \in 2..Len(parentDirs)) \/ (Opens(c) /\ k = n + 1)
    BY <1>1, <1>2
  <1>4. CASE k \in 1..n /\ k \in 2..Len(parentDirs)
    <2>1. \E j \in 1..Len(accepted) : Opens(accepted[j]) /\ accepted[j].path = parentDirs[k].dir
      BY <1>4 DEF SavedAdded
    <2> QED BY <1>1, <1>4, <2>1 DEF A
  <1>5. CASE Opens(c) /\ k = n + 1
    BY <1>1, <1>5 DEF A
  <1> QED BY <1>3, <1>4, <1>5

(* The stream with one more change.                                        *)
LEMMA Appended ==
    ASSUME Typed, NEW c \in Change, accepted' = Append(accepted, c)
    PROVE  /\ accepted' \in Seq(Change) /\ Len(accepted') = Len(accepted) + 1 /\ Len(accepted) \in Nat
           /\ \A j \in 1..Len(accepted) : accepted'[j] = accepted[j]
           /\ accepted'[Len(accepted) + 1] = c
           /\ DOMAIN accepted = 1..Len(accepted) /\ DOMAIN accepted' = 1..Len(accepted')
           /\ \A j \in 1..Len(accepted') : j \in 1..Len(accepted) \/ j = Len(accepted) + 1
  <1>1. accepted \in Seq(Change) /\ Len(accepted) \in Nat
    BY DEF Typed
  <1>2. accepted' \in Seq(Change) /\ Len(accepted') = Len(accepted) + 1
    BY <1>1
  <1> QED BY <1>1, <1>2

LEMMA ValidAppended ==
    ASSUME IInv, NEW c \in Change, Ordered(c), LinkKnown(c), c.path # Malformed,
           accepted' = Append(accepted, c)
    PROVE  Valid(accepted')
  <1> DEFINE N == Len(accepted)
  <1> USE DEF IInv
  <1>1. /\ N \in Nat /\ Len(accepted') = N + 1
        /\ \A j \in 1..N : accepted'[j] = accepted[j]
        /\ accepted'[N + 1] = c
        /\ DOMAIN accepted = 1..N /\ DOMAIN accepted' = 1..(N + 1)
    BY Appended
  <1>2. c.path \in Paths
    BY DEF Change
  <1> HIDE DEF N
  <1>3. WellFormed(accepted')
    <2>1. ASSUME NEW j \in 1..(N + 1) PROVE accepted'[j].path # Malformed
      <3>1. j \in 1..N \/ j = N + 1
        BY <1>1
      <3> QED BY <1>1, <3>1 DEF Valid, WellFormed
    <2> QED BY <1>1, <2>1 DEF WellFormed
  <1>4. Increasing(accepted')
    <2>1. ASSUME NEW i \in 1..(N + 1), NEW j \in 1..(N + 1), i < j
          PROVE  Before(accepted'[i].path, accepted'[j].path)
      <3>1. i \in 1..N /\ (j \in 1..N \/ j = N + 1)
        BY <1>1, <2>1
      <3>2. CASE j \in 1..N
        BY <1>1, <2>1, <3>1, <3>2 DEF Valid, Increasing
      <3>3. CASE j = N + 1
        <4>1. Before(accepted[i].path, c.path)
          BY <1>2, <3>1, OldBefore DEF N
        <4> QED BY <1>1, <3>1, <3>3, <4>1
      <3> QED BY <3>1, <3>2, <3>3
    <2> QED BY <1>1, <2>1 DEF Increasing
  <1>5. ParentsAdded(accepted')
    <2>1. ASSUME NEW j \in 1..(N + 1), Len(accepted'[j].path) > 1
          PROVE  \E i \in 1..(j - 1) : Opens(accepted'[i]) /\ accepted'[i].path = Dir(accepted'[j].path)
      <3>1. j \in 1..N \/ j = N + 1
        BY <1>1
      <3>2. CASE j \in 1..N
        <4>1. PICK i \in 1..(j - 1) : Opens(accepted[i]) /\ accepted[i].path = Dir(accepted[j].path)
          BY <1>1, <2>1, <3>2 DEF Valid, ParentsAdded
        <4>2. i \in 1..N
          BY <1>1, <3>2
        <4> QED BY <1>1, <3>2, <4>1, <4>2
      <3>3. CASE j = N + 1
        <4> DEFINE n == ParentIndex(Dir(c.path))
        <4>1. n \in 1..Len(parentDirs) /\ parentDirs[n].dir = Dir(c.path)
          BY <1>2, AdvancedFacts
        <4> HIDE DEF n
        <4>2. Len(Dir(c.path)) = n - 1 /\ Len(c.path) = Len(Dir(c.path)) + 1 /\ Len(c.path) > 1
          BY <1>1, <1>2, <2>1, <3>3, <4>1, DirFacts DEF Chain
        <4>3. n \in 2..Len(parentDirs)
          <5>1. Len(parentDirs) \in Nat
            BY DEF Typed
          <5> HIDE DEF Dir
          <5> QED BY <4>1, <4>2, <5>1
        <4>4. PICK i \in 1..N : Opens(accepted[i]) /\ accepted[i].path = parentDirs[n].dir
          BY <4>3 DEF SavedAdded, N
        <4>5. i \in 1..(j - 1)
          BY <1>1, <3>3
        <4> QED BY <1>1, <3>3, <4>1, <4>4, <4>5
      <3> QED BY <3>1, <3>2, <3>3
    <2> QED BY <1>1, <2>1 DEF ParentsAdded
  <1>6. LinksAdded(accepted')
    <2>1. ASSUME NEW j \in 1..(N + 1), IsLink(accepted'[j])
          PROVE  \E i \in 1..(j - 1) : /\ accepted'[i].op = "add" /\ accepted'[i].kind = "file" /\ ~IsLink(accepted'[i])
                                       /\ accepted'[i].path = accepted'[j].linkname
      <3>1. j \in 1..N \/ j = N + 1
        BY <1>1
      <3>2. CASE j \in 1..N
        <4>1. PICK i \in 1..(j - 1) : /\ accepted[i].op = "add" /\ accepted[i].kind = "file" /\ ~IsLink(accepted[i])
                                      /\ accepted[i].path = accepted[j].linkname
          BY <1>1, <2>1, <3>2 DEF Valid, LinksAdded
        <4>2. i \in 1..N
          BY <1>1, <3>2
        <4> QED BY <1>1, <3>2, <4>1, <4>2
      <3>3. CASE j = N + 1
        <4>1. c.linkname \in seenFiles
          BY <1>1, <2>1, <3>3 DEF LinkKnown
        <4>2. PICK i \in 1..N : IsFile(accepted[i]) /\ accepted[i].path = c.linkname
          BY <4>1 DEF SeenAdded, N
        <4>3. i \in 1..(j - 1)
          BY <1>1, <3>3
        <4> QED BY <1>1, <3>3, <4>2, <4>3 DEF IsFile
      <3> QED BY <3>1, <3>2, <3>3
    <2> QED BY <1>1, <2>1 DEF LinksAdded
  <1> QED BY <1>3, <1>4, <1>5, <1>6 DEF Valid

-----------------------------------------------------------------------------
LEMMA InitEstablishes == Init => IInv
  <1> SUFFICES ASSUME Init PROVE IInv
    OBVIOUS
  <1> DEFINE root == [dir |-> <<>>, last |-> NoName]
  <1>1. root \in Saved /\ parentDirs = <<root>> /\ Len(parentDirs) = 1 /\ parentDirs[1] = root
    <2>1. <<>> \in Seq(Nat) /\ NoName \in Nat
      BY DEF NoName
    <2> QED BY <2>1 DEF Init, Saved
  <1>2. accepted = <<>> /\ Len(accepted) = 0 /\ seenFiles = {} /\ DOMAIN accepted = {} /\ accepted \in Seq(Change)
    BY DEF Init
  <1> HIDE DEF root
  <1>3. Typed
    BY <1>1, <1>2 DEF Typed
  <1>4. Chain
    BY <1>1 DEF Chain, root
  <1>5. AllPast /\ SavedAdded /\ SeenAdded
    BY <1>1, <1>2 DEF AllPast, SavedAdded, SeenAdded
  <1>6. Valid(accepted)
    BY <1>2 DEF Valid, WellFormed, Increasing, ParentsAdded, LinksAdded
  <1> QED BY <1>3, <1>4, <1>5, <1>6 DEF IInv

LEMMA AcceptKeeps ==
    ASSUME IInv, NEW c \in Changes, Accept(c)
    PROVE  IInv'
  <1> USE DEF IInv
  <1>1. c \in Change /\ c.path \in Paths /\ Ordered(c) /\ LinkKnown(c) /\ c.path # Malformed
    BY ChangesTyped DEF Accept, Change
  <1>2. parentDirs' = Advanced(c) /\ seenFiles' = Seen(c) /\ accepted' = Append(accepted, c)
    BY DEF Accept
  <1> DEFINE N == Len(accepted)
  <1>3. /\ accepted' \in Seq(Change) /\ Len(accepted') = N + 1 /\ N \in Nat
        /\ \A j \in 1..N : accepted'[j] = accepted[j]
        /\ accepted'[N + 1] = c
    BY <1>1, <1>2, Appended
  <1>4. \A j \in 1..(N + 1) : j \in 1..N \/ j = N + 1
    BY <1>3
  <1>5. Chain' /\ Typed'
    BY <1>1, <1>2, <1>3, ChainAdvanced DEF Typed
  <1>6. AllPast'
    <2>1. ASSUME NEW j \in 1..(N + 1), NEW k \in 1..Len(Advanced(c))
          PROVE  Past(accepted'[j].path, Advanced(c)[k].dir, Advanced(c)[k].last)
      <3>1. CASE j \in 1..N
        BY <1>1, <1>3, <3>1, OldPast
      <3>2. CASE j = N + 1
        BY <1>1, <1>3, <3>2, NewPast
      <3> QED BY <1>4, <3>1, <3>2
    <2> QED BY <1>2, <1>3, <2>1 DEF AllPast
  <1>7. SavedAdded'
    <2>1. ASSUME NEW k \in 2..Len(Advanced(c))
          PROVE  \E j \in 1..(N + 1) : Opens(accepted'[j]) /\ accepted'[j].path = Advanced(c)[k].dir
      <3>1. \/ \E j \in 1..N : Opens(accepted[j]) /\ accepted[j].path = Advanced(c)[k].dir
            \/ Opens(c) /\ c.path = Advanced(c)[k].dir
        BY <1>1, SavedAdvanced
      <3>2. N + 1 \in 1..(N + 1) /\ \A j \in 1..N : j \in 1..(N + 1)
        BY <1>3
      <3> HIDE DEF N
      <3> QED BY <1>3, <3>1, <3>2
    <2> QED BY <1>2, <1>3, <2>1 DEF SavedAdded
  <1>8. SeenAdded'
    <2>1. ASSUME NEW p \in Seen(c) PROVE \E j \in 1..(N + 1) : IsFile(accepted'[j]) /\ accepted'[j].path = p
      <3>1. N + 1 \in 1..(N + 1) /\ \A j \in 1..N : j \in 1..(N + 1)
        BY <1>3
      <3>2. CASE p \in seenFiles
        <4>1. PICK j \in 1..N : IsFile(accepted[j]) /\ accepted[j].path = p
          BY <3>2 DEF SeenAdded
        <4> QED BY <1>3, <3>1, <4>1
      <3>3. CASE p \notin seenFiles
        <4>1. IsFile(c) /\ p = c.path
          BY <3>3 DEF Seen, IsFile
        <4> QED BY <1>3, <3>1, <4>1
      <3> QED BY <3>2, <3>3
    <2> QED BY <1>2, <1>3, <2>1 DEF SeenAdded
  <1>9. Valid(accepted)'
    BY <1>1, <1>2, ValidAppended
  <1> QED BY <1>5, <1>6, <1>7, <1>8, <1>9

(* A refusal leaves parentDirs shorter, or with the last name recorded.    *)
LEMMA RejectKeeps ==
    ASSUME IInv, NEW c \in Changes, Reject(c)
    PROVE  IInv'
  <1> USE DEF IInv
  <1>1. accepted' = accepted /\ seenFiles' = seenFiles
    BY DEF Reject
  <1>2. SeenAdded' /\ Valid(accepted)'
    BY <1>1 DEF SeenAdded
  <1>3. CASE c.path = Malformed /\ UNCHANGED parentDirs
    BY <1>1, <1>2, <1>3 DEF Typed, Chain, AllPast, SavedAdded
  <1>4. CASE c.path # Malformed /\ ~Ordered(c) /\ parentDirs' = Kept(c)
    <2> DEFINE n == ParentIndex(Dir(c.path))
    <2>1. c.path \in Paths
      BY <1>4, ChangesTyped DEF Change
    <2>2. /\ n \in 1..Len(parentDirs) /\ parentDirs' \in Seq(Saved) /\ Len(parentDirs') = n
          /\ \A k \in 1..n : parentDirs'[k] = parentDirs[k]
      BY <1>4, <2>1, KeptFacts
    <2> HIDE DEF n
    <2>3. n \in Nat /\ n >= 1 /\ \A k \in 1..n : k \in 1..Len(parentDirs)
      <3>1. Len(parentDirs) \in Nat
        BY DEF Typed
      <3> QED BY <2>2, <3>1
    <2>4. Typed'
      BY <1>1, <2>2, <2>3 DEF Typed
    <2>5. Chain'
      <3>1. ASSUME NEW k \in 1..n
            PROVE  Len(parentDirs'[k].dir) = k - 1 /\ \A i \in 1..(k - 1) : parentDirs'[k].dir[i] = parentDirs'[i].last
        <4>1. \A i \in 1..(k - 1) : i \in 1..n
          BY <2>3
        <4> QED BY <2>2, <2>3, <4>1 DEF Chain
      <3> QED BY <2>2, <3>1 DEF Chain
    <2>6. AllPast'
      BY <1>1, <2>2, <2>3 DEF AllPast
    <2>7. SavedAdded'
      <3>1. \A k \in 2..n : k \in 1..n /\ k \in 2..Len(parentDirs)
        BY <2>2, <2>3
      <3> QED BY <1>1, <2>2, <3>1 DEF SavedAdded
    <2> QED BY <1>2, <2>4, <2>5, <2>6, <2>7
  <1>5. CASE c.path # Malformed /\ Ordered(c) /\ ~LinkKnown(c) /\ parentDirs' = Advanced(c)
    <2>1. c.path \in Paths
      BY <1>5, ChangesTyped DEF Change
    <2>2. ~Opens(c)
      BY <1>5 DEF LinkKnown, IsLink, Opens
    <2>3. Chain' /\ Typed'
      BY <1>1, <1>5, <2>1, ChainAdvanced DEF Typed
    <2>4. AllPast'
      BY <1>1, <1>5, <2>1, OldPast DEF AllPast
    <2>5. SavedAdded'
      BY <1>1, <1>5, <2>1, <2>2, SavedAdvanced DEF SavedAdded
    <2> QED BY <1>2, <2>3, <2>4, <2>5
  <1> QED BY <1>3, <1>4, <1>5 DEF Reject

(* The strengthened invariant: the saved directories spell the innermost   *)
(* one, and the walk is past everything accepted in each of them           *)
(* (validator.go:46-62).                                                   *)
THEOREM Inductive == Spec => []IInv
  <1>1. Init => IInv
    BY InitEstablishes
  <1>2. IInv /\ [Next]_vars => IInv'
    <2> SUFFICES ASSUME IInv, [Next]_vars PROVE IInv'
      OBVIOUS
    <2>1. CASE UNCHANGED vars
      BY <2>1 DEF vars, IInv, Typed, Chain, AllPast, SavedAdded, SeenAdded
    <2>2. CASE Next
      <3>1. PICK c \in Changes : Accept(c) \/ Reject(c)
        BY <2>2 DEF Next
      <3> QED BY <3>1, AcceptKeeps, RejectKeeps
    <2> QED BY <2>1, <2>2
  <1> QED BY <1>1, <1>2, PTL DEF Spec

(* Whatever is announced, what both checks let through is a valid stream:  *)
(* in order, directories first, links to files (receive.go:292-297).       *)
THEOREM OnlyValidAccepted == Spec => []Valid(accepted)
  <1>1. IInv => Valid(accepted)
    BY DEF IInv
  <1> QED BY <1>1, Inductive, PTL

(* The saved directories are a chain, each in the one before it, where its *)
(* name is the last seen: the search over them is over a sorted list       *)
(* (validator.go:46-52).                                                   *)
THEOREM SavedChainHolds == Spec => []SavedChain
  <1>1. IInv => SavedChain
    <2> SUFFICES ASSUME IInv PROVE SavedChain
      OBVIOUS
    <2> USE DEF IInv
    <2>1. Len(parentDirs) \in Nat /\ Len(parentDirs) >= 1
      BY DEF Typed
    <2>2. ASSUME NEW k \in 1..Len(parentDirs)
          PROVE  /\ parentDirs[k].dir \in Seq(Nat) /\ Len(parentDirs[k].dir) = k - 1
                 /\ \A i \in 1..(k - 1) : parentDirs[k].dir[i] = parentDirs[i].last
      <3>1. parentDirs[k] \in Saved
        BY DEF Typed
      <3> QED BY <3>1 DEF Chain, Saved
    <2>3. parentDirs[1].dir = <<>>
      BY <2>1, <2>2
    <2>4. ASSUME NEW k \in 2..Len(parentDirs)
          PROVE  /\ parentDirs[k - 1].dir = Dir(parentDirs[k].dir)
                 /\ parentDirs[k - 1].last = Base(parentDirs[k].dir)
      <3> DEFINE d == parentDirs[k].dir
                 e == parentDirs[k - 1].dir
      <3>1. k \in 1..Len(parentDirs) /\ k - 1 \in 1..Len(parentDirs) /\ k - 1 \in Nat /\ k - 1 \in 1..(k - 1)
        BY <2>1
      <3>2. d \in Seq(Nat) /\ Len(d) = k - 1 /\ e \in Seq(Nat) /\ Len(e) = (k - 1) - 1
        BY <2>2, <3>1
      <3>3. ASSUME NEW i \in 1..((k - 1) - 1) PROVE e[i] = d[i]
        <4>1. i \in 1..(k - 1)
          BY <3>1
        <4> QED BY <2>2, <3>1, <4>1
      <3>4. d[k - 1] = parentDirs[k - 1].last
        BY <2>2, <3>1
      <3> HIDE DEF d, e
      <3> DEFINE m == Len(d) - 1
      <3>5. m \in Nat /\ m <= Len(d) /\ m = Len(e)
        BY <3>1, <3>2
      <3>6. \A i \in 1..m : e[i] = d[i]
        BY <3>2, <3>3
      <3> HIDE DEF m
      <3>7. LET s == SubSeq(d, 1, m) IN s \in Seq(Nat) /\ Len(s) = m /\ \A i \in 1..m : s[i] = d[i]
        BY <3>2, <3>5
      <3>8. e = SubSeq(d, 1, m)
        BY <3>2, <3>5, <3>6, <3>7
      <3> QED BY <3>2, <3>4, <3>8 DEF Dir, Base, d, e, m
    <2> QED BY <2>3, <2>4 DEF SavedChain
  <1> QED BY <1>1, Inductive, PTL

-----------------------------------------------------------------------------
(* Why nothing else is refused.  The last name of a saved directory was    *)
(* accepted, a directory that is no longer saved was left for good, and    *)
(* every file is remembered.                                               *)
LastSeen ==
    \A k \in 1..Len(parentDirs) : parentDirs[k].last # NoName =>
      \E j \in 1..Len(accepted) :
        Len(accepted[j].path) = k /\ \A i \in 1..k : accepted[j].path[i] = parentDirs[i].last

Left(d, q) ==
    \E k \in 1..Len(d) : k <= Len(q) /\ (\A i \in 1..(k - 1) : q[i] = d[i]) /\ d[k] < q[k]

OpenOrLeft ==
    \A j \in 1..Len(accepted) : Opens(accepted[j]) =>
      \/ \E k \in 1..Len(parentDirs) : parentDirs[k].dir = accepted[j].path
      \/ \E m \in 1..Len(accepted) : Left(accepted[j].path, accepted[m].path)

FilesSeen == \A j \in 1..Len(accepted) : IsFile(accepted[j]) => accepted[j].path \in seenFiles

Refused == rejected # NoChange => ~Valid(Append(accepted, rejected))

XInv == IInv /\ (rejected = NoChange => LastSeen /\ OpenOrLeft /\ FilesSeen) /\ Refused

LEMMA Extended ==
    ASSUME Typed, NEW c
    PROVE  LET s == Append(accepted, c)
               N == Len(accepted)
           IN  /\ N \in Nat /\ DOMAIN s = 1..(N + 1) /\ s[N + 1] = c
               /\ \A j \in 1..N : s[j] = accepted[j] /\ j \in 1..(N + 1)
  <1>1. accepted \in Seq(Change) /\ Len(accepted) \in Nat
    BY DEF Typed
  <1>2. accepted \in Seq(Change \cup {c})
    <2>1. accepted \in [1..Len(accepted) -> Change]
      BY <1>1
    <2>2. accepted \in [1..Len(accepted) -> Change \cup {c}]
      BY <2>1
    <2> QED BY <1>1, <2>2
  <1> QED BY <1>1, <1>2

LEMMA NatAt ==
    ASSUME NEW s \in Seq(Nat), NEW i \in 1..Len(s)
    PROVE  s[i] \in Nat
  OBVIOUS

(* A path below a directory that was left does not come after.             *)
LEMMA LeftBehind ==
    ASSUME NEW d \in Seq(Nat), NEW q \in Seq(Nat), NEW p \in Seq(Nat), Left(d, q),
           Len(d) <= Len(p), \A i \in 1..Len(d) : p[i] = d[i]
    PROVE  ~Before(q, p)
  <1>1. Len(d) \in Nat /\ Len(q) \in Nat /\ Len(p) \in Nat
    OBVIOUS
  <1>2. PICK k \in 1..Len(d) : k <= Len(q) /\ (\A i \in 1..(k - 1) : q[i] = d[i]) /\ d[k] < q[k]
    BY DEF Left
  <1>3. SUFFICES ASSUME NEW m \in 0..Len(q), m < Len(p), \A j \in 1..m : q[j] = p[j],
                        m = Len(q) \/ q[m + 1] < p[m + 1]
                 PROVE  FALSE
    BY DEF Before
  <1>4. k \in Nat /\ k >= 1 /\ k \in 1..Len(p) /\ k \in 1..Len(q) /\ m \in Nat
    BY <1>1, <1>2
  <1>5. q[k] \in Nat /\ p[k] \in Nat /\ p[k] = d[k] /\ p[k] < q[k]
    <2>1. q[k] \in Nat /\ p[k] \in Nat
      BY <1>4, NatAt
    <2>2. p[k] = d[k]
      OBVIOUS
    <2> QED BY <1>2, <2>1, <2>2
  <1>6. CASE k <= m
    <2>1. k \in 1..m
      BY <1>4, <1>6
    <2> QED BY <1>3, <1>5, <2>1
  <1>7. CASE k = m + 1
    <2>1. m # Len(q)
      BY <1>1, <1>4, <1>7
    <2>2. q[k] < p[k]
      BY <1>3, <1>7, <2>1
    <2> QED BY <1>5, <2>2
  <1>8. CASE k > m + 1
    <2>1. m + 1 \in 1..(k - 1) /\ m + 1 \in 1..Len(d) /\ m + 1 \in 1..Len(q)
      BY <1>2, <1>4, <1>8
    <2>2. q[m + 1] = p[m + 1]
      <3>1. q[m + 1] = d[m + 1]
        BY <1>2, <2>1
      <3>2. p[m + 1] = d[m + 1]
        BY <2>1
      <3> QED BY <3>1, <3>2
    <2>3. q[m + 1] \in Nat
      BY <2>1, NatAt
    <2>4. m # Len(q)
      BY <1>1, <1>4, <1>8
    <2>5. q[m + 1] < p[m + 1]
      BY <1>3, <2>4
    <2> QED BY <2>2, <2>3, <2>5
  <1> QED BY <1>4, <1>6, <1>7, <1>8

(* The search finds a directory that is saved.                             *)
LEMMA IndexOf ==
    ASSUME Typed, Chain, NEW k \in 1..Len(parentDirs)
    PROVE  ParentIndex(parentDirs[k].dir) = k
  <1> DEFINE d(i) == parentDirs[i].dir
             S == {i \in 1..Len(parentDirs) : d(i) = d(k) \/ Before(d(i), d(k))}
  <1>1. Len(parentDirs) \in Nat /\ k \in Nat /\ k >= 1 /\ k <= Len(parentDirs)
    BY DEF Typed
  <1>2. \A i \in 1..Len(parentDirs) :
          i \in Nat /\ Len(d(i)) = i - 1 /\ \A j \in 1..(i - 1) : d(i)[j] = parentDirs[j].last /\ d(i)[j] \in Nat
    <2> SUFFICES ASSUME NEW i \in 1..Len(parentDirs)
                 PROVE  i \in Nat /\ Len(d(i)) = i - 1
                        /\ \A j \in 1..(i - 1) : d(i)[j] = parentDirs[j].last /\ d(i)[j] \in Nat
      OBVIOUS
    <2>1. parentDirs[i] \in Saved
      BY <1>1 DEF Typed
    <2>2. Len(d(i)) = i - 1 /\ \A j \in 1..(i - 1) : d(i)[j] = parentDirs[j].last
      BY DEF Chain
    <2>3. d(i) \in Seq(Nat)
      BY <2>1 DEF Saved
    <2> HIDE DEF d
    <2>4. \A j \in 1..(i - 1) : d(i)[j] \in Nat
      BY <2>2, <2>3
    <2> QED BY <1>1, <2>2, <2>4
  <1> HIDE DEF d
  <1>3. ASSUME NEW i \in 1..Len(parentDirs), i < k PROVE Before(d(i), d(k))
    <2>1. i - 1 \in 0..Len(d(i)) /\ i - 1 < Len(d(k)) /\ i - 1 = Len(d(i))
      BY <1>1, <1>2, <1>3
    <2>2. \A j \in 1..(i - 1) : j \in 1..(k - 1)
      BY <1>1, <1>2, <1>3
    <2>3. \A j \in 1..(i - 1) : d(i)[j] = d(k)[j]
      BY <1>2, <2>2
    <2> QED BY <2>1, <2>3 DEF Before
  <1>4. ASSUME NEW i \in 1..Len(parentDirs), i > k PROVE d(i) # d(k) /\ ~Before(d(i), d(k))
    <2>0. i \in Nat /\ i >= 1 /\ i - 1 > k - 1 /\ i - 1 \in Nat /\ k - 1 \in Nat
      BY <1>1, <1>4
    <2>1. Len(d(i)) = i - 1 /\ Len(d(k)) = k - 1 /\ i - 1 > k - 1 /\ i - 1 \in Nat /\ k - 1 \in Nat
      BY <1>2, <2>0
    <2>2. SUFFICES ASSUME NEW m \in 0..Len(d(i)), m < Len(d(k)), m = Len(d(i)) \/ d(i)[m + 1] < d(k)[m + 1]
                   PROVE  FALSE
      BY <2>1 DEF Before
    <2>3. m + 1 \in 1..(k - 1) /\ m + 1 \in 1..(i - 1) /\ m # Len(d(i))
      BY <2>1, <2>2
    <2>4. d(i)[m + 1] = d(k)[m + 1] /\ d(i)[m + 1] \in Nat
      BY <1>2, <2>3
    <2> QED BY <2>2, <2>3, <2>4
  <1>5. S = 1..k
    <2>1. \A i \in 1..Len(parentDirs) : i < k \/ i = k \/ i > k
      BY <1>1, <1>2
    <2>2. \A i \in 1..Len(parentDirs) : i \in S <=> i \in 1..k
      BY <1>1, <1>2, <1>3, <1>4, <2>1
    <2>3. S \subseteq 1..Len(parentDirs) /\ 1..k \subseteq 1..Len(parentDirs)
      BY <1>1
    <2> QED BY <2>2, <2>3
  <1>6. Cardinality(1..k) = k
    BY <1>1, FS_Interval
  <1> QED BY <1>5, <1>6 DEF ParentIndex, d

(* The stream would not be valid with what is refused.                     *)
LEMMA RefusedRightly ==
    ASSUME IInv, LastSeen, OpenOrLeft, FilesSeen, NEW c \in Changes, Reject(c)
    PROVE  ~Valid(Append(accepted, c))
  <1> DEFINE s == Append(accepted, c)
             N == Len(accepted)
  <1>0. Typed /\ Chain
    BY DEF IInv
  <1>1. /\ N \in Nat /\ DOMAIN s = 1..(N + 1) /\ s[N + 1] = c
        /\ \A j \in 1..N : s[j] = accepted[j] /\ j \in 1..(N + 1)
    BY <1>0, Extended
  <1>2. N + 1 \in 1..(N + 1) /\ \A j \in 1..N : j < N + 1
    BY <1>1
  <1>i. \A i \in 1..((N + 1) - 1) : i \in 1..N
    BY <1>1
  <1> HIDE DEF s, N
  <1> SUFFICES ASSUME Valid(s) PROVE FALSE
    BY DEF s
  <1>3. CASE c.path = Malformed
    BY <1>1, <1>2, <1>3 DEF Valid, WellFormed
  <1>4. CASE c.path # Malformed /\ Ordered(c) /\ ~LinkKnown(c)
    <2>1. IsLink(c) /\ c.linkname \notin seenFiles
      BY <1>4 DEF LinkKnown
    <2>2. PICK i \in 1..((N + 1) - 1) :
            s[i].op = "add" /\ s[i].kind = "file" /\ ~IsLink(s[i]) /\ s[i].path = c.linkname
      BY <1>1, <1>2, <2>1 DEF Valid, LinksAdded
    <2>3. i \in 1..N /\ IsFile(accepted[i]) /\ accepted[i].path = c.linkname
      BY <1>1, <1>i, <2>2 DEF IsFile
    <2> QED BY <2>1, <2>3 DEF FilesSeen, N
  <1>5. CASE c.path # Malformed /\ ~Ordered(c)
    <2> DEFINE n == ParentIndex(Dir(c.path))
    <2>1. c.path \in Paths
      BY <1>5, ChangesTyped DEF Change
    <2>2. /\ n \in 1..Len(parentDirs) /\ Len(Kept(c)) = n /\ Kept(c)[n] = parentDirs[n]
          /\ n \in Nat /\ n >= 1
      <3>1. /\ n \in 1..Len(parentDirs) /\ Len(Kept(c)) = n
            /\ \A k \in 1..n : Kept(c)[k] = parentDirs[k]
        BY <1>0, <2>1, KeptFacts
      <3>2. Len(parentDirs) \in Nat
        BY <1>0 DEF Typed
      <3> HIDE DEF n
      <3>3. n \in Nat /\ n >= 1 /\ n \in 1..n
        BY <3>1, <3>2
      <3> QED BY <3>1, <3>3
    <2>3. parentDirs[n].dir # Dir(c.path) \/ ~(parentDirs[n].last < Base(c.path))
      BY <1>5, <2>2 DEF Ordered, Newer
    <2>4. /\ c.path \in Seq(Nat) /\ Len(c.path) \in Nat /\ Len(c.path) >= 1
          /\ \A j \in 1..Len(c.path) : c.path[j] \in Nat \ {0}
      BY <2>1, PathFacts
    <2>5. /\ Dir(c.path) \in Seq(Nat) /\ Len(c.path) = Len(Dir(c.path)) + 1 /\ Len(Dir(c.path)) \in Nat
          /\ \A j \in 1..Len(Dir(c.path)) : c.path[j] = Dir(c.path)[j]
          /\ Base(c.path) \in Nat /\ Base(c.path) = c.path[Len(c.path)]
      BY <2>1, DirFacts
    <2> HIDE DEF n
    <2>6. ASSUME NEW j \in 1..N
          PROVE  accepted[j].path \in Seq(Nat) /\ Before(accepted[j].path, c.path)
      <3>1. accepted[j].path \in Paths
        BY <1>0, AcceptedTyped DEF N
      <3>2. Before(s[j].path, s[N + 1].path)
        BY <1>1, <1>2 DEF Valid, Increasing
      <3> QED BY <1>1, <3>1, <3>2, PathFacts
    <2>7. CASE parentDirs[n].dir = Dir(c.path)
      <3>1. /\ parentDirs[n].last \in Nat /\ Len(Dir(c.path)) = n - 1
            /\ \A i \in 1..(n - 1) : Dir(c.path)[i] = parentDirs[i].last
        <4>1. parentDirs[n] \in Saved
          BY <1>0, <2>2 DEF Typed
        <4>2. Len(parentDirs[n].dir) = n - 1 /\ \A i \in 1..(n - 1) : parentDirs[n].dir[i] = parentDirs[i].last
          BY <1>0, <2>2 DEF Chain
        <4> QED BY <2>7, <4>1, <4>2 DEF Saved
      <3>2. Len(c.path) = n /\ c.path[n] <= parentDirs[n].last /\ c.path[n] \in Nat \ {0}
        <4>1. Len(c.path) = n
          BY <2>2, <2>5, <3>1
        <4>2. n \in 1..Len(c.path) /\ Base(c.path) = c.path[n]
          BY <2>2, <2>5, <4>1
        <4>3. c.path[n] \in Nat \ {0}
          BY <2>4, <4>2
        <4> QED BY <2>3, <2>7, <3>1, <4>1, <4>2, <4>3
      <3>3. PICK j \in 1..N :
              Len(accepted[j].path) = n /\ \A i \in 1..n : accepted[j].path[i] = parentDirs[i].last
        <4>1. parentDirs[n].last # NoName
          BY <3>1, <3>2 DEF NoName
        <4> QED BY <2>2, <4>1 DEF LastSeen, N
      <3> DEFINE q == accepted[j].path
      <3>4. Before(q, c.path) /\ q \in Seq(Nat) /\ Len(q) = n /\ \A i \in 1..n : q[i] = parentDirs[i].last
        BY <2>6, <3>3
      <3> HIDE DEF q
      <3>5. PICK m \in 0..Len(q) : m < Len(c.path) /\ (m = Len(q) \/ q[m + 1] < c.path[m + 1])
        BY <3>4 DEF Before
      <3>6. m + 1 \in 1..n /\ m # Len(q)
        BY <2>2, <3>2, <3>4, <3>5
      <3>7. CASE m + 1 = n
        <4>1. q[n] = parentDirs[n].last
          BY <2>2, <3>4, <3>6, <3>7
        <4> QED BY <3>1, <3>2, <3>5, <3>6, <3>7, <4>1
      <3>8. CASE m + 1 # n
        <4>1. m + 1 \in 1..(n - 1)
          BY <2>2, <3>6, <3>8
        <4>2. c.path[m + 1] = parentDirs[m + 1].last /\ q[m + 1] = parentDirs[m + 1].last
          BY <2>5, <3>1, <3>4, <3>6, <4>1
        <4>3. q[m + 1] \in Nat
          BY <3>4, <3>6
        <4> QED BY <3>5, <3>6, <4>2, <4>3
      <3> QED BY <3>7, <3>8
    <2>8. CASE parentDirs[n].dir # Dir(c.path)
      <3>1. ASSUME NEW k \in 1..Len(parentDirs), parentDirs[k].dir = Dir(c.path) PROVE FALSE
        <4>1. n = k
          BY <1>0, <3>1, IndexOf DEF n
        <4> QED BY <2>8, <3>1, <4>1
      <3>2. Len(Dir(c.path)) # 0
        <4> SUFFICES ASSUME Len(Dir(c.path)) = 0 PROVE FALSE
          OBVIOUS
        <4>1. 1 \in 1..Len(parentDirs) /\ parentDirs[1] \in Saved
          BY <1>0 DEF Typed
        <4>2. parentDirs[1].dir \in Seq(Nat) /\ Len(parentDirs[1].dir) = 0
          BY <1>0, <4>1 DEF Chain, Saved
        <4>3. parentDirs[1].dir = Dir(c.path)
          BY <2>5, <4>2
        <4> QED BY <3>1, <4>1, <4>3
      <3>3. Len(c.path) > 1
        BY <2>5, <3>2
      <3>4. PICK j \in 1..((N + 1) - 1) : Opens(s[j]) /\ s[j].path = Dir(c.path)
        BY <1>1, <1>2, <3>3 DEF Valid, ParentsAdded
      <3>5. j \in 1..N /\ Opens(accepted[j]) /\ accepted[j].path = Dir(c.path)
        BY <1>1, <1>i, <3>4
      <3>6. PICK m \in 1..N : Left(Dir(c.path), accepted[m].path)
        BY <3>1, <3>5 DEF OpenOrLeft, N
      <3>7. ~Before(accepted[m].path, c.path)
        <4>1. Len(Dir(c.path)) <= Len(c.path) /\ accepted[m].path \in Seq(Nat)
          BY <2>5, <2>6
        <4> QED BY <2>4, <2>5, <3>6, <4>1, LeftBehind
      <3> QED BY <2>6, <3>7
    <2> QED BY <2>7, <2>8
  <1> QED BY <1>3, <1>4, <1>5 DEF Reject

(* An accepted change is the last name of its directory, and leaves those  *)
(* that are no longer saved.                                               *)
LEMMA AcceptRemembers ==
    ASSUME IInv, LastSeen, OpenOrLeft, FilesSeen, NEW c \in Changes, Accept(c)
    PROVE  LastSeen' /\ OpenOrLeft' /\ FilesSeen'
  <1> DEFINE N == Len(accepted)
             A == Advanced(c)
  <1>0. Typed /\ Chain
    BY DEF IInv
  <1>1. c \in Change /\ c.path \in Paths /\ Ordered(c)
    BY ChangesTyped DEF Accept, Change
  <1>2. parentDirs' = A /\ seenFiles' = Seen(c) /\ accepted' = Append(accepted, c)
    BY DEF Accept
  <1>n. PICK n \in 1..Len(parentDirs) : n = ParentIndex(Dir(c.path))
    BY <1>0, <1>1, KeptFacts
  <1>3. /\ n \in 1..Len(parentDirs) /\ parentDirs[n].dir = Dir(c.path) /\ parentDirs[n].last < Base(c.path)
        /\ Len(A) = IF Opens(c) THEN n + 1 ELSE n
        /\ \A k \in 1..n : A[k].dir = parentDirs[k].dir
        /\ \A k \in 1..(n - 1) : A[k].last = parentDirs[k].last
        /\ A[n].last = Base(c.path)
        /\ Opens(c) => A[n + 1] = [dir |-> c.path, last |-> NoName]
    BY <1>0, <1>1, <1>n, AdvancedFacts
  <1>4. /\ Len(accepted') = N + 1 /\ N \in Nat /\ accepted'[N + 1] = c
        /\ \A j \in 1..N : accepted'[j] = accepted[j]
    BY <1>0, <1>1, <1>2, Appended
  <1>5. /\ \A j \in 1..(N + 1) : j \in 1..N \/ j = N + 1
        /\ N + 1 \in 1..(N + 1) /\ \A j \in 1..N : j \in 1..(N + 1)
    BY <1>4
  <1>6. Len(parentDirs) \in Nat /\ n \in Nat /\ n >= 1
    BY <1>0 DEF Typed
  <1> HIDE DEF N, A
  <1>7. Len(c.path) = n /\ c.path[n] = Base(c.path) /\ \A i \in 1..(n - 1) : c.path[i] = parentDirs[i].last
    <2>1. /\ Len(c.path) = Len(Dir(c.path)) + 1
          /\ \A j \in 1..Len(Dir(c.path)) : c.path[j] = Dir(c.path)[j]
          /\ Base(c.path) = c.path[Len(c.path)]
      BY <1>1, DirFacts
    <2>2. Len(parentDirs[n].dir) = n - 1 /\ \A i \in 1..(n - 1) : parentDirs[n].dir[i] = parentDirs[i].last
      BY <1>0 DEF Chain
    <2>3. Len(Dir(c.path)) = n - 1 /\ \A i \in 1..(n - 1) : Dir(c.path)[i] = parentDirs[i].last
      BY <1>3, <2>2
    <2> HIDE DEF Dir, Base
    <2>4. Len(c.path) = n
      BY <1>6, <2>1, <2>3
    <2>5. \A i \in 1..(n - 1) : c.path[i] = parentDirs[i].last
      BY <2>1, <2>3
    <2> QED BY <2>1, <2>4, <2>5
  <1>8. LastSeen'
    <2> SUFFICES ASSUME NEW k \in 1..Len(A), A[k].last # NoName
                 PROVE  \E j \in 1..(N + 1) :
                          Len(accepted'[j].path) = k /\ \A i \in 1..k : accepted'[j].path[i] = A[i].last
      BY <1>2, <1>4 DEF LastSeen
    <2>1. k \in 1..(n - 1) \/ k = n \/ (Opens(c) /\ k = n + 1)
      BY <1>3, <1>6
    <2>2. CASE k \in 1..(n - 1)
      <3>1. k \in 1..Len(parentDirs) /\ \A i \in 1..k : i \in 1..(n - 1)
        BY <1>6, <2>2
      <3>2. PICK j \in 1..N :
              Len(accepted[j].path) = k /\ \A i \in 1..k : accepted[j].path[i] = parentDirs[i].last
        BY <1>3, <2>2, <3>1 DEF LastSeen, N
      <3>3. \A i \in 1..k : A[i].last = parentDirs[i].last
        BY <1>3, <3>1
      <3>4. accepted'[j].path = accepted[j].path /\ j \in 1..(N + 1)
        BY <1>4, <1>5
      <3> QED BY <3>2, <3>3, <3>4
    <2>3. CASE k = n
      <3>1. \A i \in 1..n : i \in 1..(n - 1) \/ i = n
        BY <1>6
      <3>2. \A i \in 1..n : c.path[i] = A[i].last
        BY <1>3, <1>7, <3>1
      <3> QED BY <1>4, <1>5, <1>7, <2>3, <3>2
    <2>4. CASE Opens(c) /\ k = n + 1
      BY <1>3, <2>4
    <2> QED BY <2>1, <2>2, <2>3, <2>4
  <1>9. OpenOrLeft'
    <2>0. ASSUME \A j \in 1..(N + 1) : Opens(accepted'[j]) =>
                   \/ \E k \in 1..Len(A) : A[k].dir = accepted'[j].path
                   \/ \E m \in 1..(N + 1) : Left(accepted'[j].path, accepted'[m].path)
          PROVE  OpenOrLeft'
      <3>1. \A j \in 1..Len(accepted') : (accepted'[j].op = "add" /\ accepted'[j].kind = "dir") =>
              \/ \E k \in 1..Len(parentDirs') : parentDirs'[k].dir = accepted'[j].path
              \/ \E m \in 1..Len(accepted') : \E k \in 1..Len(accepted'[j].path) :
                   /\ k <= Len(accepted'[m].path)
                   /\ \A i \in 1..(k - 1) : accepted'[m].path[i] = accepted'[j].path[i]
                   /\ accepted'[j].path[k] < accepted'[m].path[k]
        <4>1. Len(accepted') = N + 1 /\ parentDirs' = A
          BY <1>2, <1>4
        <4> QED BY <4>1, <2>0, Zenon DEF Left, Opens
      <3> QED BY <3>1, Zenon DEF OpenOrLeft, Left, Opens
    <2> SUFFICES ASSUME NEW j \in 1..(N + 1), Opens(accepted'[j])
                 PROVE  \/ \E k \in 1..Len(A) : A[k].dir = accepted'[j].path
                        \/ \E m \in 1..(N + 1) : Left(accepted'[j].path, accepted'[m].path)
      BY <2>0
    <2>1. CASE j = N + 1
      <3>1. A[n + 1].dir = c.path /\ n + 1 \in 1..Len(A)
        BY <1>3, <1>4, <1>6, <2>1
      <3> QED BY <1>4, <2>1, <3>1
    <2>2. CASE j \in 1..N
      <3>1. ASSUME NEW m \in 1..N, Left(accepted[j].path, accepted[m].path)
            PROVE  \E k \in 1..(N + 1) : Left(accepted'[j].path, accepted'[k].path)
        BY <1>4, <1>5, <2>2, <3>1
      <3>2. ASSUME NEW k \in 1..Len(parentDirs), parentDirs[k].dir = accepted[j].path, k <= n
            PROVE  \E i \in 1..Len(A) : A[i].dir = accepted'[j].path
        <4>1. k \in 1..n /\ k \in 1..Len(A)
          BY <1>3, <1>6, <3>2
        <4> QED BY <1>3, <1>4, <2>2, <3>2, <4>1
      <3>3. ASSUME NEW k \in 1..Len(parentDirs), parentDirs[k].dir = accepted[j].path, k > n
            PROVE  Left(accepted[j].path, c.path)
        <4> DEFINE d == accepted[j].path
        <4>1. Len(d) = k - 1 /\ \A i \in 1..(k - 1) : d[i] = parentDirs[i].last
          BY <1>0, <3>3 DEF Chain
        <4>2. n \in 1..(k - 1) /\ \A i \in 1..(n - 1) : i \in 1..(k - 1)
          BY <1>6, <3>3
        <4> HIDE DEF d
        <4>3. n \in 1..Len(d) /\ n <= Len(c.path)
          <5>1. n \in Nat /\ n >= 1 /\ n <= k - 1
            BY <1>6, <3>3
          <5>2. Len(d) = k - 1 /\ k \in Nat
            BY <4>1
          <5>3. n <= Len(c.path)
            BY <1>7, <5>1
          <5> QED BY <5>1, <5>2, <5>3
        <4>4. \A i \in 1..(n - 1) : c.path[i] = d[i]
          BY <1>7, <4>1, <4>2
        <4>5. d[n] < c.path[n]
          <5>1. d[n] = parentDirs[n].last
            BY <4>1, <4>2
          <5>2. parentDirs[n].last < c.path[n]
            BY <1>3, <1>7
          <5> QED BY <5>1, <5>2
        <4>6. Left(d, c.path)
          BY <4>3, <4>4, <4>5 DEF Left
        <4> QED BY <4>6 DEF d
      <3>4. ASSUME Left(accepted[j].path, c.path)
            PROVE  \E k \in 1..(N + 1) : Left(accepted'[j].path, accepted'[k].path)
        BY <1>4, <1>5, <2>2, <3>4
      <3>5. \A k \in 1..Len(parentDirs) : k <= n \/ k > n
        BY <1>6
      <3>6. Opens(accepted[j])
        BY <1>4, <2>2
      <3> QED BY <2>2, <3>1, <3>2, <3>3, <3>4, <3>5, <3>6 DEF OpenOrLeft, N
    <2> QED BY <1>5, <2>1, <2>2
  <1>10. FilesSeen'
    <2> SUFFICES ASSUME NEW j \in 1..(N + 1), IsFile(accepted'[j]) PROVE accepted'[j].path \in Seen(c)
      BY <1>2, <1>4 DEF FilesSeen
    <2>1. CASE j = N + 1
      BY <1>4, <2>1 DEF Seen, IsFile
    <2>2. CASE j \in 1..N
      BY <1>4, <2>2 DEF FilesSeen, Seen, N
    <2> QED BY <1>5, <2>1, <2>2
  <1> QED BY <1>8, <1>9, <1>10

(* What is refused would have made the stream invalid, and nothing else:   *)
(* the two checks let through exactly the valid streams, whatever the      *)
(* names and the changes (validator.go:31-62, hardlinks.go:43-50).         *)
THEOREM ExactHolds == Spec => []Exact
  <1>1. Init => XInv
    <2> SUFFICES ASSUME Init PROVE XInv
      OBVIOUS
    <2>1. accepted = <<>> /\ Len(accepted) = 0 /\ rejected = NoChange /\ Len(parentDirs) = 1 /\ parentDirs[1].last = NoName
      BY DEF Init
    <2>2. \A k \in 1..Len(parentDirs) : k = 1
      BY <2>1
    <2> QED BY <2>1, <2>2, InitEstablishes DEF XInv, LastSeen, OpenOrLeft, FilesSeen, Refused
  <1>2. XInv /\ [Next]_vars => XInv'
    <2> SUFFICES ASSUME XInv, [Next]_vars PROVE XInv'
      OBVIOUS
    <2>1. CASE UNCHANGED vars
      <3>1. UNCHANGED <<parentDirs, seenFiles, accepted, rejected>>
        BY <2>1 DEF vars
      <3>2. IInv'
        BY <3>1 DEF XInv, IInv, Typed, Chain, AllPast, SavedAdded, SeenAdded
      <3>3. (rejected = NoChange => LastSeen /\ OpenOrLeft /\ FilesSeen)'
        BY <3>1 DEF XInv, LastSeen, OpenOrLeft, FilesSeen
      <3>4. Refused'
        BY <3>1 DEF XInv, Refused
      <3> QED BY <3>2, <3>3, <3>4 DEF XInv
    <2>2. CASE Next
      <3>0. rejected = NoChange /\ IInv /\ LastSeen /\ OpenOrLeft /\ FilesSeen
        BY <2>2 DEF Next, XInv
      <3>1. PICK c \in Changes : Accept(c) \/ Reject(c)
        BY <2>2 DEF Next
      <3>2. CASE Accept(c)
        <4>1. rejected' = NoChange
          BY <3>0, <3>2 DEF Accept
        <4> QED BY <3>0, <3>2, <4>1, AcceptKeeps, AcceptRemembers DEF XInv, Refused
      <3>3. CASE Reject(c)
        <4>1. rejected' = c /\ accepted' = accepted /\ c # NoChange
          BY <3>3 DEF Reject, Changes, NoChange
        <4>2. ~Valid(Append(accepted', rejected'))
          BY <3>0, <3>3, <4>1, RefusedRightly
        <4>3. IInv'
          BY <3>0, <3>3, RejectKeeps
        <4> QED BY <4>1, <4>2, <4>3 DEF XInv, Refused
      <3> QED BY <3>1, <3>2, <3>3
    <2> QED BY <2>1, <2>2
  <1>3. XInv => Exact
    BY DEF XInv, IInv, Refused, Exact
  <1> QED BY <1>1, <1>2, <1>3, PTL DEF Spec
==============================================================================
