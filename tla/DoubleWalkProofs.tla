--------------------------- MODULE DoubleWalkProofs ---------------------------
(***************************************************************************)
(* Why a diff tells its changes in order although the tree it walks is     *)
(* changing, why it creates nothing where it is still to walk, why the     *)
(* rootStack is always the way to the change that is applied, and why a    *)
(* diff that ends without error has made the destination the source's tree *)
(* (Converges, from CInv): for every source and destination, any capacity  *)
(* of the channels, and whatever fails.  As long as the walk itself does   *)
(* not fail, nothing the source also has goes away, what is settled stays, *)
(* and the writer misses a directory only below one it was told to remove. *)
(***************************************************************************)
EXTENDS DoubleWalk, PathOrderProofs

-----------------------------------------------------------------------------
(* The paths, and sets of them in order.                                   *)
LEMMA PathTypes == /\ IsFiniteSet(Paths)
                   /\ \A p \in Paths : p \in Seq(Nat) /\ p # <<>> /\ Len(p) \in Nat /\ Len(p) >= 1
  <1>1. \A p \in Paths : p \in Seq(Nat) /\ p # <<>>
    BY DoubleWalkAssumption
  <1>2. \A p \in Paths : Len(p) \in Nat /\ Len(p) >= 1
    BY <1>1, EmptySeq
  <1> QED BY <1>1, <1>2, DoubleWalkAssumption

LEMMA PathSets ==
    ASSUME NEW S \in SUBSET Paths
    PROVE  S \subseteq Seq(Nat) /\ IsFiniteSet(S)
  BY PathTypes, FS_Subset

LEMMA PathsSorted ==
    ASSUME NEW S \in SUBSET Paths
    PROVE  /\ Cardinality(S) \in Nat /\ Sorted(S) \in Seq(S) /\ Len(Sorted(S)) = Cardinality(S)
           /\ \A i, j \in 1..Cardinality(S) : i < j => Before(Sorted(S)[i], Sorted(S)[j])
  BY PathSets, SortedFacts

LEMMA AllSorted ==
    ASSUME NEW S \in SUBSET Paths, NEW p \in S
    PROVE  \E i \in 1..Cardinality(S) : Sorted(S)[i] = p
  BY PathSets, SortedAll

-----------------------------------------------------------------------------
(* The types of what a diff works with.                                    *)
Named == [path : Paths, kind : Kinds]
Item  == [op : {"list"}, path : Paths \cup {<<>>}, isDir : {TRUE}]
           \cup [op : {"visit"}, path : Paths, isDir : BOOLEAN]
Tells == {"add", "modify", "delete"}
Held  == [path : Paths \cup {<<>>}, live : BOOLEAN]

Pcs  == {"walk", "send", "close", "return", "done"}
Errs == {"none", "walk", "canceled"}
Walks == [pc : Pcs, todo : Seq(Item), at : Named \cup {Nil}, err : Errs]
Feeds == [pc : {"feed", "close", "return", "done"}, rest : Seq(Paths), err : {"none", "canceled"}]

Typed ==
    /\ source \in [Paths -> Kinds] /\ dest \in [Paths -> Kinds]
    /\ walk \in Walks
    /\ feed \in Feeds
    /\ c1 \in Seq(Named) /\ c2 \in Seq(Named)
    /\ f1 \in Named \cup {Nil} /\ f2 \in Named \cup {Nil}
    /\ loop \in {"take", "apply", "remove", "put", "done", "over"}
    /\ change \in [kind : Tells \cup {"none"}, path : Paths \cup {<<>>}]
    /\ loop \in {"apply", "remove", "put"} => change.path \in Paths /\ change.kind \in Tells
    /\ changes \in Seq([kind : Tells, path : Paths])
    /\ stack \in Seq(Held)

WalkTyped ==
    /\ walk \in Walks
    /\ c1 \in Seq(Named)

LEMMA NamedFacts ==
    /\ \A e \in Named \cup {Nil} : e # Nil => e \in Named
    /\ \A e \in Named : e # Nil /\ e.path \in Paths /\ e.path \in Seq(Nat) /\ e.path # <<>>
    /\ \A p \in Paths, k \in Kinds : Entry(p, k) \in Named /\ Entry(p, k).path = p
    /\ \A t \in Item : t.path \in Seq(Nat) /\ t.op \in {"list", "visit"} /\ t.isDir \in BOOLEAN
    /\ \A t \in Item : t.op = "visit" => t.path \in Paths
    /\ \A t \in Item : t.op = "list" => t.isDir
  <1>1. \A e \in Named : e.path \in Paths /\ e.path \in Seq(Nat) /\ e.path # <<>>
    BY PathTypes DEF Named
  <1>2. Nil.path = <<>>
    BY DEF Nil
  <1>3. \A t \in Item : t.path \in Seq(Nat)
    <2>1. <<>> \in Seq(Nat)
      BY EmptySeq
    <2> QED BY <2>1, PathTypes DEF Item
  <1>4. \A t \in Item : t.op \in {"list", "visit"} /\ t.isDir \in BOOLEAN
                        /\ (t.op = "visit" => t.path \in Paths) /\ (t.op = "list" => t.isDir)
    BY DEF Item
  <1> QED BY <1>1, <1>2, <1>3, <1>4 DEF Entry, Named

(* What is in a directory.                                                 *)
LEMMA ChildFacts ==
    ASSUME NEW p \in Paths
    PROVE  /\ Front(p) \in Seq(Nat) /\ Len(Front(p)) = Len(p) - 1
           /\ \A j \in 1..(Len(p) - 1) : Front(p)[j] = p[j]
           /\ IsStrictPrefix(Front(p), p)
  BY PathTypes, FrontFacts

LEMMA SiblingsLeft ==
    ASSUME NEW p \in Paths, NEW q \in Paths, Front(p) = Front(q), Before(p, q)
    PROVE  Left(p, q)
  <1>1. p \in Seq(Nat) /\ q \in Seq(Nat) /\ Len(p) = Len(q) /\ Len(p) \in Nat
    BY PathTypes, ChildFacts
  <1>2. ~IsStrictPrefix(p, q)
    BY <1>1, PrefixFacts
  <1> QED BY <1>2, BeforeIs

LEMMA VisitsFacts ==
    ASSUME Typed, NEW d \in Seq(Nat)
    PROVE  LET v == Visits(dest, d)
           IN  /\ v \in Seq(Item) /\ Len(v) \in Nat
               /\ \A i \in 1..Len(v) : v[i].op = "visit" /\ v[i].path \in Paths /\ Front(v[i].path) = d
               /\ \A i, j \in 1..Len(v) : i < j => Left(v[i].path, v[j].path)
  <1> DEFINE S == Children(dest, d)
             s == Sorted(S)
             v == Visits(dest, d)
             n == Cardinality(S)
  <1>1. S \in SUBSET Paths /\ \A p \in S : Front(p) = d
    BY DEF Children, Present
  <1>2. n \in Nat /\ s \in Seq(S) /\ Len(s) = n /\ \A i, j \in 1..n : i < j => Before(s[i], s[j])
    BY <1>1, PathsSorted
  <1>3. \A i \in 1..n : s[i] \in S
    BY <1>2, ElementOfSeq
  <1>4. v = [i \in 1..n |-> [op |-> "visit", path |-> s[i], isDir |-> IsDir(dest[s[i]])]]
    BY <1>2 DEF Visits
  <1> HIDE DEF s, n, S
  <1>5. v \in [1..n -> Item]
    <2>1. \A i \in 1..n : s[i] \in Paths
      BY <1>1, <1>3
    <2> QED BY <1>4, <2>1 DEF Item, IsDir
  <1>6. v \in Seq(Item) /\ Len(v) = n
    <2>1. v \in Seq(Item)
      BY <1>2, <1>5, SeqDef
    <2> QED BY <1>2, <1>5, <2>1, LenProperties
  <1>7. \A i \in 1..n : v[i].op = "visit" /\ v[i].path = s[i]
    BY <1>4
  <1> HIDE DEF v
  <1>8. \A i \in 1..n : v[i].path \in Paths /\ Front(v[i].path) = d
    BY <1>1, <1>3, <1>7
  <1>9. \A i, j \in 1..n : i < j => Left(v[i].path, v[j].path)
    BY <1>2, <1>7, <1>8, SiblingsLeft
  <1> QED BY <1>2, <1>6, <1>7, <1>8, <1>9 DEF v

-----------------------------------------------------------------------------
(* The order of the walk.  What it has still to visit or to list lies      *)
(* apart, in order; what it sent comes before all of that.                 *)
Todo(i, t) == i \in 1..Len(walk.todo) /\ walk.todo[i] = t
Wait(i, e) == i \in 1..Len(c1) /\ c1[i] = e
Walking    == walk.pc \in {"walk", "send"}

Past(x, t) == Before(x, t.path) \/ (t.op = "list" /\ x = t.path)

TodoOrder ==
    \A i, j \in Nat : \A t, u \in Item : Todo(i, t) /\ Todo(j, u) /\ i < j => Left(t.path, u.path)
Sending ==
    walk.pc = "send" =>
      \E t \in Item, e \in Named : Todo(1, t) /\ t.op = "visit" /\ walk.at = e /\ e.path = t.path
WaitOrder ==
    \A i, j \in Nat : \A d, e \in Named : Wait(i, d) /\ Wait(j, e) /\ i < j => Before(d.path, e.path)

(* The walk has more than x still to send, all of it after x.              *)
LowerRest(x) ==
    /\ \A i \in Nat, e \in Named : Wait(i, e) => Before(x, e.path)
    /\ Walking => \A i \in Nat, t \in Item : Todo(i, t) => Past(x, t)

SentFirst == Walking => \A i, j \in Nat : \A e \in Named, t \in Item : Wait(i, e) /\ Todo(j, t) => Past(e.path, t)
Closed1   == ~open1 => ~Walking /\ walk.pc # "close"

WalkShape == TodoOrder /\ Sending /\ WaitOrder /\ SentFirst /\ Closed1

(* What a step of the walk keeps.                                          *)
WalkKeeps ==
    /\ WalkShape'
    /\ \A x \in Seq(Nat) : LowerRest(x) => LowerRest(x)'

TodoLess == \E d \in Nat : \A i \in Nat, t \in Item : Todo(i, t)' => i + d \in Nat /\ Todo(i + d, t)

LEMMA LessKeeps ==
    ASSUME WalkShape, TodoLess, c1' = c1, Walking' => Walking, Sending', Closed1'
    PROVE  WalkKeeps
  <1>0. \A i \in Nat, e \in Named : Wait(i, e)' <=> Wait(i, e)
    BY DEF Wait
  <1>1. PICK d \in Nat : \A i \in Nat, t \in Item : Todo(i, t)' => i + d \in Nat /\ Todo(i + d, t)
    BY DEF TodoLess
  <1>2. TodoOrder'
    <2> SUFFICES ASSUME NEW i \in Nat, NEW j \in Nat, NEW t \in Item, NEW u \in Item, Todo(i, t)', Todo(j, u)', i < j
                 PROVE  Left(t.path, u.path)
      BY DEF TodoOrder
    <2>1. Todo(i + d, t) /\ Todo(j + d, u) /\ i + d < j + d /\ i + d \in Nat /\ j + d \in Nat
      BY <1>1
    <2> QED BY <2>1 DEF WalkShape, TodoOrder
  <1>3. WaitOrder'
    BY <1>0 DEF WalkShape, WaitOrder
  <1>4. SentFirst'
    BY <1>0, <1>1 DEF WalkShape, SentFirst
  <1>5. ASSUME NEW x \in Seq(Nat), LowerRest(x) PROVE LowerRest(x)'
    BY <1>0, <1>1, <1>5 DEF LowerRest
  <1> QED BY <1>2, <1>3, <1>4, <1>5 DEF WalkShape, WalkKeeps

LEMMA SameTodo ==
    ASSUME walk'.todo = walk.todo
    PROVE  TodoLess
  <1>1. \A i \in Nat, t \in Item : Todo(i, t)' => i + 0 \in Nat /\ Todo(i + 0, t)
    BY DEF Todo
  <1> QED BY <1>1 DEF TodoLess

(* Some of the first entries are left out.                                 *)
LEMMA CutTodo ==
    ASSUME walk.todo \in Seq(Item), NEW k \in Nat, walk'.todo = SubSeq(walk.todo, k + 1, Len(walk.todo))
    PROVE  TodoLess /\ walk'.todo \in Seq(Item)
  <1> DEFINE s == walk.todo
             n == Len(walk.todo)
             r == SubSeq(s, k + 1, n)
  <1>1. n \in Nat /\ \A i \in 1..n : s[i] \in Item
    BY LenProperties, ElementOfSeq
  <1> HIDE DEF n
  <1>2. \A i \in (k + 1)..n : s[i] \in Item
    BY <1>1
  <1>3. /\ r \in Seq(Item) /\ Len(r) = IF k + 1 <= n THEN n - (k + 1) + 1 ELSE 0
        /\ \A i \in 1..(n - (k + 1) + 1) : r[i] = s[(k + 1) + i - 1]
    BY <1>1, <1>2, SubSeqProperties
  <1>4. \A i \in 1..Len(r) : r[i] = s[i + k] /\ i + k \in 1..n
    <2>1. \A i \in 1..Len(r) : i \in 1..(n - (k + 1) + 1) /\ (k + 1) + i - 1 = i + k /\ i + k \in 1..n
      BY <1>1, <1>3
    <2> QED BY <1>3, <2>1
  <1>5. walk'.todo = r
    BY DEF n
  <1> HIDE DEF r
  <1>6. \A i \in Nat, t \in Item : Todo(i, t)' => i + k \in Nat /\ Todo(i + k, t)
    <2> SUFFICES ASSUME NEW i \in Nat, NEW t \in Item, Todo(i, t)' PROVE i + k \in Nat /\ Todo(i + k, t)
      OBVIOUS
    <2>1. i \in 1..Len(r) /\ r[i] = t
      BY <1>5 DEF Todo
    <2> QED BY <1>4, <2>1 DEF Todo, n
  <1> QED BY <1>3, <1>5, <1>6 DEF TodoLess

LEMMA TailTodo ==
    ASSUME walk.todo \in Seq(Item), walk.todo # <<>>, walk'.todo = Tail(walk.todo)
    PROVE  TodoLess /\ walk'.todo \in Seq(Item)
  <1>1. walk'.todo = SubSeq(walk.todo, 1 + 1, Len(walk.todo))
    BY TailIsSubSeq
  <1> QED BY <1>1, CutTodo

-----------------------------------------------------------------------------
(* The first of what is to do gives way to what is in it.                  *)
LEMMA HeadTodo ==
    ASSUME walk.todo \in Seq(Item), walk.todo # <<>>
    PROVE  Head(walk.todo) \in Item /\ Todo(1, Head(walk.todo))
  <1>1. Len(walk.todo) \in Nat /\ Len(walk.todo) >= 1 /\ Head(walk.todo) = walk.todo[1] /\ walk.todo[1] \in Item
    <2>1. Len(walk.todo) \in Nat /\ Len(walk.todo) >= 1
      BY EmptySeq, LenProperties
    <2>2. walk.todo[1] \in Item
      BY <2>1, ElementOfSeq
    <2> QED BY <2>1, <2>2
  <1> QED BY <1>1 DEF Todo

LEMMA PutBefore ==
    ASSUME walk.todo \in Seq(Item), walk.todo # <<>>, NEW v \in Seq(Item),
           walk'.todo = v \o Tail(walk.todo)
    PROVE  /\ walk'.todo \in Seq(Item) /\ Len(v) \in Nat
           /\ \A i \in Nat, t \in Item : Todo(i, t)' =>
                \/ i \in 1..Len(v) /\ t = v[i]
                \/ i > Len(v) /\ i - Len(v) + 1 \in Nat /\ i - Len(v) + 1 > 1 /\ Todo(i - Len(v) + 1, t)
  <1> DEFINE s == walk.todo
             m == Len(v)
             n == Len(s)
  <1>1. m \in Nat /\ n \in Nat /\ n >= 1
    BY EmptySeq, LenProperties
  <1>2. Tail(s) \in Seq(Item) /\ Len(Tail(s)) = n - 1 /\ \A k \in 1..(n - 1) : Tail(s)[k] = s[k + 1]
    BY HeadTailProperties
  <1> HIDE DEF m, n
  <1>3. /\ v \o Tail(s) \in Seq(Item) /\ Len(v \o Tail(s)) = m + (n - 1)
        /\ \A i \in 1..(m + (n - 1)) : (v \o Tail(s))[i] = IF i <= m THEN v[i] ELSE Tail(s)[i - m]
    BY <1>2, ConcatProperties DEF m
  <1>4. ASSUME NEW i \in Nat, NEW t \in Item, Todo(i, t)'
        PROVE  \/ i \in 1..m /\ t = v[i]
               \/ i > m /\ i - m + 1 \in Nat /\ i - m + 1 > 1 /\ Todo(i - m + 1, t)
    <2>1. i \in 1..(m + (n - 1)) /\ (v \o Tail(s))[i] = t
      BY <1>3, <1>4 DEF Todo
    <2>2. CASE i <= m
      BY <1>1, <1>3, <2>1, <2>2
    <2>3. CASE i > m
      <3>1. i - m \in 1..(n - 1) /\ (i - m) + 1 \in 1..n /\ i - m + 1 > 1 /\ i - m + 1 \in Nat /\ ~(i <= m)
        BY <1>1, <2>1, <2>3
      <3>2. Tail(s)[i - m] = t
        BY <1>3, <2>1, <3>1
      <3>3. s[(i - m) + 1] = t
        BY <1>2, <3>1, <3>2
      <3> QED BY <2>3, <3>1, <3>3 DEF Todo, n
    <2> QED BY <1>1, <2>2, <2>3
  <1> QED BY <1>1, <1>3, <1>4 DEF m

LEMMA Replaced ==
    ASSUME TodoOrder, Walking, walk.todo \in Seq(Item), walk.todo # <<>>, NEW h \in Item, h = Head(walk.todo),
           NEW v \in Seq(Item), walk'.todo = v \o Tail(walk.todo),
           \A i \in 1..Len(v) : IsPrefix(h.path, v[i].path),
           \A i, j \in 1..Len(v) : i < j => Left(v[i].path, v[j].path),
           \A x \in Seq(Nat) : Past(x, h) => \A i \in 1..Len(v) : Past(x, v[i])
    PROVE  /\ walk'.todo \in Seq(Item)
           /\ TodoOrder'
           /\ \A i \in Nat, t \in Item : Todo(i, t)' =>
                (\E j \in 1..Len(v) : t = v[j]) \/ (\E j \in Nat : 1 < j /\ Todo(j, t))
           /\ \A x \in Seq(Nat) : (\A i \in Nat, t \in Item : Todo(i, t) => Past(x, t))
                => \A i \in Nat, t \in Item : Todo(i, t)' => Past(x, t)
  <1>0. Todo(1, h)
    BY HeadTodo
  <1>1. /\ walk'.todo \in Seq(Item) /\ Len(v) \in Nat
        /\ \A i \in Nat, t \in Item : Todo(i, t)' =>
             \/ i \in 1..Len(v) /\ t = v[i]
             \/ i > Len(v) /\ i - Len(v) + 1 \in Nat /\ i - Len(v) + 1 > 1 /\ Todo(i - Len(v) + 1, t)
    BY PutBefore
  <1>2. \A i \in 1..Len(v) : v[i] \in Item
    BY ElementOfSeq
  <1>3. ASSUME NEW i \in Nat, NEW t \in Item, Todo(i, t)'
        PROVE  (\E j \in 1..Len(v) : t = v[j]) \/ (\E j \in Nat : 1 < j /\ Todo(j, t))
    <2>1. i - Len(v) + 1 > 1 => 1 < i - Len(v) + 1
      BY <1>1
    <2> QED BY <1>1, <1>3, <2>1
  <1>4. TodoOrder'
    <2> SUFFICES ASSUME NEW i \in Nat, NEW j \in Nat, NEW t \in Item, NEW u \in Item, Todo(i, t)', Todo(j, u)', i < j
                 PROVE  Left(t.path, u.path)
      BY DEF TodoOrder
    <2> DEFINE m == Len(v)
               k == i - m + 1
               l == j - m + 1
    <2>1. m \in Nat
      BY <1>1
    <2>2. CASE j \in 1..m /\ u = v[j]
      <3>1. i \in 1..m /\ t = v[i]
        <4>1. ~(i > m)
          BY <2>1, <2>2
        <4> QED BY <1>1, <4>1
      <3> QED BY <2>2, <3>1
    <2>3. CASE i \in 1..m /\ t = v[i] /\ l \in Nat /\ l > 1 /\ Todo(l, u)
      <3>1. Left(h.path, u.path)
        <4>1. 1 < l /\ 1 \in Nat
          BY <2>3
        <4> QED BY <1>0, <2>3, <4>1 DEF TodoOrder
      <3>2. h.path \in Seq(Nat) /\ t.path \in Seq(Nat) /\ u.path \in Seq(Nat)
        BY NamedFacts
      <3>3. IsPrefix(h.path, t.path) /\ IsPrefix(u.path, u.path)
        BY <2>3, <3>2, PrefixReflexive
      <3> QED BY <3>1, <3>2, <3>3, LeftBelow
    <2>4. CASE k \in Nat /\ Todo(k, t) /\ l \in Nat /\ Todo(l, u)
      <3>1. k < l
        BY <2>1
      <3> QED BY <2>4, <3>1 DEF TodoOrder
    <2>5. CASE i > m /\ j \in 1..m
      BY <2>1, <2>5
    <2> QED BY <1>1, <2>2, <2>3, <2>4, <2>5
  <1>5. ASSUME NEW x \in Seq(Nat), \A i \in Nat, t \in Item : Todo(i, t) => Past(x, t),
               NEW i \in Nat, NEW t \in Item, Todo(i, t)'
        PROVE  Past(x, t)
    <2>1. Past(x, h)
      BY <1>0, <1>5
    <2> QED BY <1>3, <1>5, <2>1
  <1> QED BY <1>1, <1>3, <1>4, <1>5

-----------------------------------------------------------------------------
(* The steps of the walk.                                                  *)
LEMMA WalkRecord ==
    ASSUME Typed
    PROVE  /\ \A s \in Seq(Item) : LET w == [walk EXCEPT !.todo = s]
                                   IN w.todo = s /\ w.pc = walk.pc /\ w \in Walks
           /\ \A e \in Errs : LET w == [walk EXCEPT !.pc = "close", !.err = e]
                              IN w.todo = walk.todo /\ w.pc = "close" /\ w \in Walks
           /\ \A e \in Named : LET w == [walk EXCEPT !.pc = "send", !.at = e]
                                IN w.todo = walk.todo /\ w.pc = "send" /\ w.at = e /\ w \in Walks
           /\ \A s \in Seq(Item) : LET w == [walk EXCEPT !.pc = "walk", !.at = Nil, !.todo = s]
                                   IN w.todo = s /\ w.pc = "walk" /\ w \in Walks
           /\ \A l \in Pcs : LET w == [walk EXCEPT !.pc = l]
                             IN w.todo = walk.todo /\ w.pc = l /\ w \in Walks
           /\ walk.todo \in Seq(Item) /\ walk.pc \in Pcs
  <1> DEFINE S == Seq(Item)
             A == Named \cup {Nil}
             W == [pc : Pcs, todo : S, at : A, err : Errs]
  <1>1. walk \in W /\ Walks = W /\ (\A e \in Named : e \in A) /\ Nil \in A
    BY DEF Typed, Walks
  <1> HIDE DEF S, A
  <1>3. ASSUME NEW s \in S
        PROVE  LET w == [walk EXCEPT !.todo = s] IN w.todo = s /\ w.pc = walk.pc /\ w \in W
    BY <1>1
  <1>4. ASSUME NEW e \in Errs
        PROVE  LET w == [walk EXCEPT !.pc = "close", !.err = e]
               IN w.todo = walk.todo /\ w.pc = "close" /\ w \in W
    BY <1>1 DEF Pcs
  <1>5. ASSUME NEW e \in A
        PROVE  LET w == [walk EXCEPT !.pc = "send", !.at = e]
               IN w.todo = walk.todo /\ w.pc = "send" /\ w.at = e /\ w \in W
    BY <1>1 DEF Pcs
  <1>6. ASSUME NEW s \in S, NEW e \in A
        PROVE  LET w == [walk EXCEPT !.pc = "walk", !.at = e, !.todo = s]
               IN w.todo = s /\ w.pc = "walk" /\ w \in W
    BY <1>1 DEF Pcs
  <1>7. ASSUME NEW l \in Pcs
        PROVE  LET w == [walk EXCEPT !.pc = l] IN w.todo = walk.todo /\ w.pc = l /\ w \in W
    BY <1>1
  <1>8. walk.todo \in S /\ walk.pc \in Pcs
    BY <1>1
  <1> HIDE DEF W
  <1> QED BY <1>1, <1>3, <1>4, <1>5, <1>6, <1>7, <1>8 DEF S

LEMMA ListsKept ==
    ASSUME Typed, WalkShape, WalkLists
    PROVE  WalkTyped' /\ WalkKeeps
  <1> DEFINE h == Head(walk.todo)
             v == Visits(dest, h.path)
  <1>1. /\ walk.pc = "walk" /\ walk.todo # <<>> /\ h.op = "list" /\ c1' = c1 /\ open1' = open1
        /\ walk.todo \in Seq(Item)
    BY WalkRecord DEF WalkLists
  <1>2. PICK g \in Item : g = h /\ Todo(1, g)
    BY <1>1, HeadTodo
  <1>3. g.path \in Seq(Nat) /\ g.isDir /\ g.op = "list"
    BY <1>1, <1>2, NamedFacts
  <1>4. CASE HasDir(dest, h.path)
    <2>1. /\ v \in Seq(Item) /\ Len(v) \in Nat
          /\ \A i \in 1..Len(v) : v[i].op = "visit" /\ v[i].path \in Paths /\ Front(v[i].path) = g.path
          /\ \A i, j \in 1..Len(v) : i < j => Left(v[i].path, v[j].path)
      BY <1>2, <1>3, VisitsFacts
    <2>2. v \o Tail(walk.todo) \in Seq(Item) /\ walk' = [walk EXCEPT !.todo = v \o Tail(walk.todo)]
      <3>1. Tail(walk.todo) \in Seq(Item)
        BY <1>1, HeadTailProperties
      <3>2. walk' = [walk EXCEPT !.todo = v \o Tail(walk.todo)]
        BY <1>4 DEF WalkLists
      <3> QED BY <2>1, <3>1, <3>2, ConcatProperties
    <2> HIDE DEF v, h
    <2>3. walk'.todo = v \o Tail(walk.todo) /\ walk'.pc = walk.pc /\ walk' \in Walks
      BY <2>2, WalkRecord
    <2>4. \A i \in 1..Len(v) : IsStrictPrefix(g.path, v[i].path) /\ v[i].path \in Seq(Nat)
      BY <2>1, ChildFacts, PathTypes
    <2>5. \A i \in 1..Len(v) : IsPrefix(g.path, v[i].path)
      BY <2>4 DEF IsStrictPrefix
    <2>6. \A x \in Seq(Nat) : Past(x, g) => \A i \in 1..Len(v) : Past(x, v[i])
      <3> SUFFICES ASSUME NEW x \in Seq(Nat), Past(x, g), NEW i \in 1..Len(v) PROVE Before(x, v[i].path)
        BY DEF Past
      <3>1. Before(g.path, v[i].path) /\ v[i].path \in Seq(Nat)
        BY <2>4, BeforeIs
      <3>2. x = g.path \/ Before(x, g.path)
        BY DEF Past
      <3> QED BY <1>3, <3>1, <3>2, BeforeTransitive
    <2>7. TodoOrder /\ Walking /\ g = Head(walk.todo)
      BY <1>1, <1>2 DEF WalkShape, Walking, h
    <2>8. /\ TodoOrder'
          /\ \A x \in Seq(Nat) : (\A i \in Nat, t \in Item : Todo(i, t) => Past(x, t))
                => \A i \in Nat, t \in Item : Todo(i, t)' => Past(x, t)
      BY <1>1, <2>1, <2>3, <2>5, <2>6, <2>7, Replaced
    <2>9. \A i \in Nat, e \in Named : Wait(i, e)' <=> Wait(i, e)
      BY <1>1 DEF Wait
    <2>10. SentFirst'
      <3> SUFFICES ASSUME NEW i \in Nat, NEW j \in Nat, NEW e \in Named, NEW t \in Item, Wait(i, e)', Todo(j, t)'
                   PROVE  Past(e.path, t)
        BY DEF SentFirst
      <3>1. e.path \in Seq(Nat) /\ Wait(i, e)
        BY <2>9, NamedFacts
      <3>2. \A k \in Nat, u \in Item : Todo(k, u) => Past(e.path, u)
        BY <2>7, <3>1 DEF WalkShape, SentFirst
      <3> QED BY <2>8, <3>1, <3>2
    <2>11. WaitOrder' /\ Sending' /\ Closed1'
      <3>1. walk'.pc = "walk"
        BY <1>1, <2>3
      <3>2. WaitOrder'
        BY <2>9 DEF WalkShape, WaitOrder
      <3>3. Closed1'
        BY <1>1, <2>7 DEF WalkShape, Closed1
      <3> QED BY <3>1, <3>2, <3>3 DEF Sending
    <2>12. ASSUME NEW x \in Seq(Nat), LowerRest(x) PROVE LowerRest(x)'
      BY <2>7, <2>8, <2>9, <2>12 DEF LowerRest
    <2>13. WalkTyped'
      BY <1>1, <2>3 DEF WalkTyped, Typed
    <2> QED BY <2>8, <2>10, <2>11, <2>12, <2>13 DEF WalkKeeps, WalkShape
  <1>5. CASE ~HasDir(dest, h.path)
    <2>1. Tail(walk.todo) \in Seq(Item) /\ walk' = [walk EXCEPT !.todo = Tail(walk.todo)]
      BY <1>1, <1>5, HeadTailProperties DEF WalkLists
    <2>2. walk'.todo = Tail(walk.todo) /\ walk'.pc = walk.pc /\ walk' \in Walks
      BY <2>1, WalkRecord
    <2>3. TodoLess
      BY <1>1, <2>2, TailTodo
    <2>4. Sending' /\ Closed1' /\ (Walking' => Walking)
      BY <1>1, <2>2 DEF WalkShape, Sending, Closed1, Walking
    <2>5. WalkTyped'
      BY <1>1, <2>2 DEF WalkTyped, Typed
    <2> QED BY <1>1, <2>3, <2>4, <2>5, LessKeeps
  <1> QED BY <1>4, <1>5

LEMMA VisitsKept ==
    ASSUME Typed, WalkShape, WalkVisits
    PROVE  WalkTyped' /\ WalkKeeps
  <1> DEFINE h == Head(walk.todo)
  <1>1. /\ walk.pc = "walk" /\ walk.todo # <<>> /\ h.op = "visit" /\ c1' = c1 /\ open1' = open1
        /\ walk.todo \in Seq(Item) /\ c1 \in Seq(Named)
    BY WalkRecord DEF WalkVisits, Typed
  <1>2. PICK g \in Item : g = h /\ Todo(1, g)
    BY <1>1, HeadTodo
  <1>3. g.path \in Paths /\ g.op = "visit"
    BY <1>1, <1>2, NamedFacts
  <1>4. Closed1 /\ open1
    BY <1>1 DEF WalkShape, Closed1, Walking
  <1>5. CASE dest[h.path] = Absent
    <2>1. walk' = [walk EXCEPT !.todo = SkipMissing(walk.todo, h)]
      BY <1>5 DEF WalkVisits
    <2>2. SkipMissing(walk.todo, h) \in Seq(Item) /\ (walk'.todo = SkipMissing(walk.todo, h) => TodoLess)
      <3> DEFINE T == {i \in 1..Len(walk.todo) : walk.todo[i].op = "visit" /\ Front(walk.todo[i].path) = Front(h.path)}
                 k == Cardinality(T)
      <3>1. k \in Nat
        <4>1. Len(walk.todo) \in Nat
          BY <1>1, LenProperties
        <4>2. IsFiniteSet(1..Len(walk.todo)) /\ T \in SUBSET (1..Len(walk.todo))
          BY <4>1, FS_Interval
        <4> QED BY <4>2, FS_Subset, FS_CardinalityType
      <3>2. SkipMissing(walk.todo, h) = IF h.isDir THEN Tail(walk.todo) ELSE SubSeq(walk.todo, k + 1, Len(walk.todo))
        BY DEF SkipMissing
      <3> HIDE DEF k, h
      <3>3. CASE h.isDir
        <4>1. SkipMissing(walk.todo, h) = Tail(walk.todo) /\ Tail(walk.todo) \in Seq(Item)
          BY <1>1, <3>2, <3>3, HeadTailProperties
        <4> QED BY <1>1, <4>1, TailTodo
      <3>4. CASE ~h.isDir
        <4>1. SkipMissing(walk.todo, h) = SubSeq(walk.todo, k + 1, Len(walk.todo))
          BY <3>2, <3>4
        <4>2. SubSeq(walk.todo, k + 1, Len(walk.todo)) \in Seq(Item)
          <5>1. Len(walk.todo) \in Nat /\ \A i \in 1..Len(walk.todo) : walk.todo[i] \in Item
            BY <1>1, LenProperties, ElementOfSeq
          <5>2. \A i \in (k + 1)..Len(walk.todo) : walk.todo[i] \in Item
            BY <3>1, <5>1
          <5> QED BY <3>1, <5>1, <5>2, SubSeqProperties
        <4> QED BY <1>1, <3>1, <4>1, <4>2, CutTodo
      <3> QED BY <3>3, <3>4
    <2> HIDE DEF h
    <2>3. walk'.todo = SkipMissing(walk.todo, h) /\ walk'.pc = walk.pc /\ walk' \in Walks
      BY <2>1, <2>2, WalkRecord
    <2>4. Sending' /\ Closed1' /\ (Walking' => Walking)
      BY <1>1, <1>4, <2>3 DEF Sending, Closed1, Walking
    <2>5. WalkTyped'
      BY <1>1, <2>3 DEF WalkTyped
    <2> QED BY <1>1, <2>2, <2>3, <2>4, <2>5, LessKeeps
  <1>6. CASE dest[h.path] # Absent
    <2>1. walk' = [walk EXCEPT !.pc = "send", !.at = Entry(g.path, dest[g.path])]
      BY <1>2, <1>6 DEF WalkVisits
    <2>2. PICK e \in Named : e = Entry(g.path, dest[g.path]) /\ e.path = g.path
      BY <1>3, NamedFacts DEF Typed
    <2>3. walk'.todo = walk.todo /\ walk'.pc = "send" /\ walk'.at = e /\ walk' \in Walks
      BY <2>1, <2>2, WalkRecord
    <2>4. TodoLess
      BY <2>3, SameTodo
    <2>5. Todo(1, g)'
      BY <1>2, <2>3 DEF Todo
    <2>6. Sending' /\ Closed1' /\ (Walking' => Walking)
      <3>1. Sending'
        BY <1>3, <2>2, <2>3, <2>5 DEF Sending
      <3> QED BY <1>1, <1>4, <3>1 DEF Closed1, Walking
    <2>7. WalkTyped'
      BY <1>1, <2>3 DEF WalkTyped
    <2> QED BY <1>1, <2>4, <2>6, <2>7, LessKeeps
  <1> QED BY <1>5, <1>6

(* One more at the end.                                                    *)
LEMMA AppendFacts ==
    ASSUME NEW D, NEW s \in Seq(D), NEW e \in D
    PROVE  /\ Append(s, e) \in Seq(D) /\ Len(s) \in Nat /\ Len(Append(s, e)) = Len(s) + 1
           /\ \A i \in 1..(Len(s) + 1) :
                (i \in 1..Len(s) /\ Append(s, e)[i] = s[i]) \/ (i = Len(s) + 1 /\ Append(s, e)[i] = e)
  <1>1. Len(s) \in Nat
    BY LenProperties
  <1>2. \A i \in 1..(Len(s) + 1) : i \in 1..Len(s) \/ i = Len(s) + 1
    BY <1>1
  <1> QED BY <1>1, <1>2, AppendProperties

LEMMA SendsKept ==
    ASSUME Typed, WalkShape, WalkSends
    PROVE  WalkTyped' /\ WalkKeeps
  <1>1. /\ walk.pc = "send" /\ open1' = open1 /\ c1' = Append(c1, walk.at)
        /\ walk.todo \in Seq(Item) /\ c1 \in Seq(Named)
    BY WalkRecord DEF WalkSends, Typed
  <1>2. PICK t \in Item, e \in Named : Todo(1, t) /\ t.op = "visit" /\ walk.at = e /\ e.path = t.path
    BY <1>1 DEF WalkShape, Sending
  <1>3. walk.todo # <<>> /\ t = Head(walk.todo)
    <2>1. walk.todo # <<>>
      BY <1>2, EmptySeq DEF Todo
    <2>2. Todo(1, Head(walk.todo))
      BY <1>1, <2>1, HeadTodo
    <2> QED BY <1>2, <2>1, <2>2 DEF Todo
  <1>4. t.path \in Paths /\ t.path \in Seq(Nat) /\ e.path \in Seq(Nat)
    BY <1>2, NamedFacts
  <1> DEFINE v == IF t.isDir THEN << [t EXCEPT !.op = "list"] >> ELSE <<>>
  <1>5. PICK n \in Nat :
          /\ v \in Seq(Item) /\ Len(v) = n /\ n <= 1
          /\ \A i \in 1..n : i = 1 /\ v[i].path = t.path /\ v[i].op = "list"
    <2>1. CASE t.isDir
      <3> DEFINE u == [t EXCEPT !.op = "list"]
      <3>0. t \in [op : {"visit"}, path : Paths, isDir : BOOLEAN]
        BY <1>2 DEF Item
      <3>1. u \in [op : {"list"}, path : Paths \cup {<<>>}, isDir : {TRUE}] /\ u.path = t.path /\ u.op = "list"
        BY <2>1, <3>0
      <3> HIDE DEF u
      <3>2. u \in Item
        BY <3>1 DEF Item
      <3>3. v = <<u>>
        BY <2>1 DEF u
      <3>4. v \in Seq(Item) /\ Len(v) = 1 /\ v[1] = u
        BY <3>2, <3>3
      <3> QED BY <2>1, <3>1, <3>4
    <2>2. CASE ~t.isDir
      <3>1. v = <<>> /\ v \in Seq(Item) /\ Len(v) = 0
        BY <2>2, EmptySeq
      <3> QED BY <3>1
    <2> QED BY <2>1, <2>2
  <1>6. walk' = [walk EXCEPT !.pc = "walk", !.at = Nil, !.todo = v \o Tail(walk.todo)]
    BY <1>3 DEF WalkSends, Visited
  <1> HIDE DEF v
  <1>7. v \o Tail(walk.todo) \in Seq(Item)
    BY <1>1, <1>3, <1>5, HeadTailProperties, ConcatProperties
  <1>8. walk'.todo = v \o Tail(walk.todo) /\ walk'.pc = "walk" /\ walk' \in Walks
    BY <1>6, <1>7, WalkRecord
  <1>9. \A i \in 1..Len(v) : IsPrefix(t.path, v[i].path)
    BY <1>4, <1>5, PrefixReflexive
  <1>10. \A i, j \in 1..Len(v) : i < j => Left(v[i].path, v[j].path)
    BY <1>5
  <1>11. \A x \in Seq(Nat) : Past(x, t) => \A i \in 1..Len(v) : Past(x, v[i])
    BY <1>2, <1>5 DEF Past
  <1>12. TodoOrder /\ Walking
    BY <1>1 DEF WalkShape, Walking
  <1>13. /\ TodoOrder'
         /\ \A i \in Nat, u \in Item : Todo(i, u)' =>
              (\E j \in 1..Len(v) : u = v[j]) \/ (\E j \in Nat : 1 < j /\ Todo(j, u))
         /\ \A x \in Seq(Nat) : (\A i \in Nat, u \in Item : Todo(i, u) => Past(x, u))
               => \A i \in Nat, u \in Item : Todo(i, u)' => Past(x, u)
    BY <1>1, <1>3, <1>5, <1>8, <1>9, <1>10, <1>11, <1>12, Replaced
  <1>14. \A x \in Seq(Nat) : Past(x, t) => Before(x, e.path)
    BY <1>2 DEF Past
  <1>15. c1' \in Seq(Named) /\ \A i \in Nat, d \in Named : Wait(i, d)' => Wait(i, d) \/ (d = e /\ i = Len(c1) + 1)
    <2>1. /\ c1' \in Seq(Named) /\ Len(c1') = Len(c1) + 1
          /\ \A i \in 1..(Len(c1) + 1) : (i \in 1..Len(c1) /\ c1'[i] = c1[i]) \/ (i = Len(c1) + 1 /\ c1'[i] = e)
      BY <1>1, <1>2, AppendFacts
    <2> QED BY <2>1 DEF Wait
  <1>16. \A i \in Nat, d \in Named : Wait(i, d) => i <= Len(c1) /\ Len(c1) \in Nat /\ Before(d.path, e.path)
    <2>1. Len(c1) \in Nat
      BY <1>1, LenProperties
    <2>2. ASSUME NEW i \in Nat, NEW d \in Named, Wait(i, d) PROVE Before(d.path, e.path)
      <3>1. Past(d.path, t) /\ d.path \in Seq(Nat)
        BY <1>2, <1>12, <2>2, NamedFacts DEF WalkShape, SentFirst
      <3> QED BY <1>14, <3>1
    <2> QED BY <2>1, <2>2 DEF Wait
  <1>17. WaitOrder'
    <2> SUFFICES ASSUME NEW i \in Nat, NEW j \in Nat, NEW d \in Named, NEW g \in Named, Wait(i, d)', Wait(j, g)', i < j
                 PROVE  Before(d.path, g.path)
      BY DEF WaitOrder
    <2>1. CASE Wait(i, d) /\ Wait(j, g)
      BY <2>1 DEF WalkShape, WaitOrder
    <2>2. CASE Wait(i, d) /\ g = e
      BY <1>16, <2>2
    <2>3. CASE i = Len(c1) + 1 /\ (Wait(j, g) \/ j = Len(c1) + 1)
      <3>1. Len(c1) \in Nat
        BY <1>1, LenProperties
      <3> QED BY <1>16, <2>3, <3>1
    <2> QED BY <1>15, <2>1, <2>2, <2>3
  <1>18. SentFirst'
    <2> SUFFICES ASSUME NEW i \in Nat, NEW j \in Nat, NEW d \in Named, NEW u \in Item, Wait(i, d)', Todo(j, u)'
                 PROVE  Past(d.path, u)
      BY DEF SentFirst
    <2>1. CASE Wait(i, d)
      <3>1. d.path \in Seq(Nat)
        BY NamedFacts
      <3>2. \A k \in Nat, w \in Item : Todo(k, w) => Past(d.path, w)
        BY <1>12, <2>1 DEF WalkShape, SentFirst
      <3> QED BY <1>13, <3>1, <3>2
    <2>2. CASE d = e
      <3>1. CASE \E k \in 1..Len(v) : u = v[k]
        BY <1>2, <1>5, <2>2, <3>1 DEF Past
      <3>2. CASE \E k \in Nat : 1 < k /\ Todo(k, u)
        <4>1. Left(t.path, u.path)
          BY <1>2, <1>12, <3>2 DEF TodoOrder
        <4> QED BY <1>2, <2>2, <4>1, BeforeIs DEF Past
      <3> QED BY <1>13, <3>1, <3>2
    <2> QED BY <1>15, <2>1, <2>2
  <1>19. ASSUME NEW x \in Seq(Nat), LowerRest(x) PROVE LowerRest(x)'
    <2>1. \A i \in Nat, u \in Item : Todo(i, u) => Past(x, u)
      BY <1>12, <1>19 DEF LowerRest
    <2>2. Before(x, e.path)
      BY <1>2, <1>14, <2>1
    <2>3. \A i \in Nat, d \in Named : Wait(i, d)' => Before(x, d.path)
      BY <1>15, <1>19, <2>2 DEF LowerRest
    <2> QED BY <1>13, <2>1, <2>3 DEF LowerRest
  <1>20. Sending' /\ Closed1'
    BY <1>1, <1>8, <1>12 DEF WalkShape, Sending, Closed1
  <1>21. WalkTyped'
    BY <1>8, <1>15 DEF WalkTyped
  <1> QED BY <1>13, <1>17, <1>18, <1>19, <1>20, <1>21 DEF WalkKeeps, WalkShape

LEMMA StopsKept ==
    ASSUME Typed, WalkShape, WalkCanceled \/ WalkFails \/ WalkEnds \/ WalkCloses \/ WalkReturns
    PROVE  WalkTyped' /\ WalkKeeps
  <1>1. c1' = c1 /\ c1 \in Seq(Named) /\ walk.todo \in Seq(Item)
    BY WalkRecord DEF WalkCanceled, WalkFails, WalkEnds, WalkCloses, WalkReturns, Typed
  <1>2. /\ walk' \in Walks /\ walk'.todo = walk.todo /\ walk'.pc \in {"close", "return", "done"}
        /\ ~open1' => walk'.pc # "close"
    <2>1. CASE WalkCanceled \/ WalkFails \/ WalkEnds
      <3>1. PICK e \in Errs : walk' = [walk EXCEPT !.pc = "close", !.err = e]
        BY <2>1 DEF WalkCanceled, WalkFails, WalkEnds, WalkStops, Errs
      <3>2. walk' \in Walks /\ walk'.todo = walk.todo /\ walk'.pc = "close"
        BY <3>1, WalkRecord
      <3>3. open1' = open1 /\ walk.pc \in {"walk", "send"}
        BY <2>1 DEF WalkCanceled, WalkFails, WalkEnds
      <3>4. open1'
        BY <3>3 DEF WalkShape, Closed1, Walking
      <3> QED BY <3>2, <3>4
    <2>2. CASE WalkCloses
      <3>1. walk' = [walk EXCEPT !.pc = "return"] /\ "return" \in Pcs
        BY <2>2 DEF WalkCloses, Pcs
      <3> QED BY <3>1, WalkRecord
    <2>3. CASE WalkReturns
      <3>1. walk' = [walk EXCEPT !.pc = "done"] /\ "done" \in Pcs
        BY <2>3 DEF WalkReturns, Pcs
      <3> QED BY <3>1, WalkRecord
    <2> QED BY <2>1, <2>2, <2>3
  <1>3. TodoLess
    BY <1>2, SameTodo
  <1>4. ~Walking' /\ Sending' /\ Closed1'
    BY <1>2 DEF Walking, Sending, Closed1
  <1>5. WalkKeeps
    BY <1>1, <1>3, <1>4, LessKeeps
  <1> QED BY <1>1, <1>2, <1>5 DEF WalkTyped

LEMMA WalkKept ==
    ASSUME Typed, WalkShape, Walk
    PROVE  /\ WalkTyped' /\ WalkKeeps
           /\ ~open1 => c1' = c1 /\ ~open1'
           /\ UNCHANGED <<source, lower, dest, feedVars, loopVars, canceled>>
  <1>1. UNCHANGED <<source, lower, dest, feedVars, loopVars, canceled>>
    BY DEF Walk, WalkReturns
  <1>2. /\ WalkLists \/ WalkVisits \/ WalkSends \/ WalkCanceled \/ WalkFails \/ WalkEnds \/ WalkCloses \/ WalkReturns
        /\ WalkReturns => c1' = c1 /\ open1' = open1
    BY DEF Walk, WalkReturns
  <1>3. WalkTyped' /\ WalkKeeps
    BY <1>2, ListsKept, VisitsKept, SendsKept, StopsKept
  <1>4. ASSUME ~open1 PROVE c1' = c1 /\ ~open1'
    <2>1. walk.pc \notin {"walk", "send", "close"}
      BY <1>4 DEF WalkShape, Closed1, Walking
    <2>2. WalkReturns
      BY <1>2, <2>1 DEF WalkLists, WalkVisits, WalkSends, WalkCanceled, WalkFails, WalkEnds, WalkCloses
    <2> QED BY <1>2, <1>4, <2>2
  <1> QED BY <1>1, <1>3, <1>4

-----------------------------------------------------------------------------
(* The source's side: its entries in order, the ones sent first.           *)
Rest(i, p) == i \in 1..Len(feed.rest) /\ feed.rest[i] = p
Came(i, e) == i \in 1..Len(c2) /\ c2[i] = e
Feeding    == feed.pc = "feed"

RestOrder == \A i, j \in Nat : \A p, q \in Paths : Rest(i, p) /\ Rest(j, q) /\ i < j => Before(p, q)
CameOrder == \A i, j \in Nat : \A d, e \in Named : Came(i, d) /\ Came(j, e) /\ i < j => Before(d.path, e.path)
CameFirst == Feeding => \A i, j \in Nat : \A e \in Named, p \in Paths : Came(i, e) /\ Rest(j, p) => Before(e.path, p)
Closed2   == ~open2 => feed.pc \notin {"feed", "close"}

FeedShape == RestOrder /\ CameOrder /\ CameFirst /\ Closed2

UpperRest(x) ==
    /\ \A i \in Nat, e \in Named : Came(i, e) => Before(x, e.path)
    /\ Feeding => \A i \in Nat, p \in Paths : Rest(i, p) => Before(x, p)

FeedTyped == feed \in Feeds /\ c2 \in Seq(Named)

LEMMA FeedRecord ==
    ASSUME Typed
    PROVE  /\ \A s \in Seq(Paths) : LET f == [feed EXCEPT !.rest = s]
                                    IN f.rest = s /\ f.pc = feed.pc /\ f \in Feeds
           /\ \A l \in {"close", "return", "done"} : LET f == [feed EXCEPT !.pc = l]
                IN f.rest = feed.rest /\ f.pc = l /\ f \in Feeds
           /\ LET f == [feed EXCEPT !.pc = "close", !.err = "canceled"]
              IN f.rest = feed.rest /\ f.pc = "close" /\ f \in Feeds
           /\ feed.rest \in Seq(Paths)
  <1> DEFINE S == Seq(Paths)
             F == [pc : {"feed", "close", "return", "done"}, rest : S, err : {"none", "canceled"}]
  <1>1. feed \in F /\ Feeds = F
    BY DEF Typed, Feeds
  <1> HIDE DEF S
  <1>2. ASSUME NEW s \in S
        PROVE  LET f == [feed EXCEPT !.rest = s] IN f.rest = s /\ f.pc = feed.pc /\ f \in F
    BY <1>1
  <1>3. ASSUME NEW l \in {"close", "return", "done"}
        PROVE  LET f == [feed EXCEPT !.pc = l] IN f.rest = feed.rest /\ f.pc = l /\ f \in F
    BY <1>1
  <1>4. LET f == [feed EXCEPT !.pc = "close", !.err = "canceled"]
        IN f.rest = feed.rest /\ f.pc = "close" /\ f \in F
    BY <1>1
  <1>5. feed.rest \in S
    BY <1>1
  <1> HIDE DEF F
  <1> QED BY <1>1, <1>2, <1>3, <1>4, <1>5 DEF S

LEMMA FeedSendsKept ==
    ASSUME Typed, FeedShape, FeedSends
    PROVE  FeedTyped' /\ FeedShape' /\ \A x \in Seq(Nat) : UpperRest(x) => UpperRest(x)'
  <1>1. /\ Feeding /\ feed.rest # <<>> /\ open2' = open2 /\ c2 \in Seq(Named) /\ feed.rest \in Seq(Paths)
        /\ c2' = Append(c2, Entry(Head(feed.rest), source[Head(feed.rest)]))
        /\ feed' = [feed EXCEPT !.rest = Tail(feed.rest)]
    BY FeedRecord DEF FeedSends, Typed, Feeding
  <1>2. /\ Head(feed.rest) \in Paths /\ Tail(feed.rest) \in Seq(Paths)
        /\ Rest(1, Head(feed.rest))
        /\ \A i \in 1..Len(Tail(feed.rest)) : i + 1 \in 1..Len(feed.rest) /\ Tail(feed.rest)[i] = feed.rest[i + 1]
    <2>1. Len(feed.rest) \in Nat /\ Len(feed.rest) >= 1
      BY <1>1, EmptySeq, LenProperties
    <2>2. Head(feed.rest) = feed.rest[1]
      BY <1>1
    <2> QED BY <1>1, <2>1, <2>2, HeadTailProperties DEF Rest
  <1>3. PICK p \in Paths : p = Head(feed.rest) /\ Rest(1, p)
    BY <1>2
  <1>4. PICK e \in Named : e = Entry(p, source[p]) /\ e.path = p
    <2>1. source[p] \in Kinds
      BY DEF Typed
    <2> QED BY <2>1, NamedFacts
  <1>5. feed' \in Feeds /\ feed'.rest = Tail(feed.rest) /\ feed'.pc = feed.pc
    BY <1>1, <1>2, FeedRecord
  <1>6. \A i \in Nat, q \in Paths : Rest(i, q)' => i + 1 \in Nat /\ 1 < i + 1 /\ Rest(i + 1, q)
    <2> SUFFICES ASSUME NEW i \in Nat, NEW q \in Paths, Rest(i, q)' PROVE i + 1 \in Nat /\ 1 < i + 1 /\ Rest(i + 1, q)
      OBVIOUS
    <2>1. i \in 1..Len(Tail(feed.rest)) /\ Tail(feed.rest)[i] = q
      BY <1>5 DEF Rest
    <2> QED BY <1>2, <2>1 DEF Rest
  <1>7. c2' \in Seq(Named) /\ \A i \in Nat, d \in Named : Came(i, d)' => Came(i, d) \/ (d = e /\ i = Len(c2) + 1)
    <2>1. c2' = Append(c2, e)
      BY <1>1, <1>3, <1>4
    <2>2. /\ c2' \in Seq(Named) /\ Len(c2') = Len(c2) + 1
          /\ \A i \in 1..(Len(c2) + 1) : (i \in 1..Len(c2) /\ c2'[i] = c2[i]) \/ (i = Len(c2) + 1 /\ c2'[i] = e)
      BY <1>1, <2>1, AppendFacts
    <2> QED BY <2>2 DEF Came
  <1>8. Len(c2) \in Nat /\ \A i \in Nat, d \in Named : Came(i, d) => i <= Len(c2)
    BY <1>1, LenProperties DEF Came
  <1>9. \A q \in Paths, i \in Nat : Rest(i, q)' => Before(p, q)
    BY <1>3, <1>6 DEF FeedShape, RestOrder
  <1>10. RestOrder'
    <2> SUFFICES ASSUME NEW i \in Nat, NEW j \in Nat, NEW q \in Paths, NEW r \in Paths, Rest(i, q)', Rest(j, r)', i < j
                 PROVE  Before(q, r)
      BY DEF RestOrder
    <2>1. i + 1 < j + 1
      OBVIOUS
    <2> QED BY <1>6, <2>1 DEF FeedShape, RestOrder
  <1>11. CameOrder'
    <2> SUFFICES ASSUME NEW i \in Nat, NEW j \in Nat, NEW d \in Named, NEW g \in Named, Came(i, d)', Came(j, g)', i < j
                 PROVE  Before(d.path, g.path)
      BY DEF CameOrder
    <2>1. CASE Came(i, d) /\ Came(j, g)
      BY <2>1 DEF FeedShape, CameOrder
    <2>2. CASE Came(i, d) /\ g = e
      BY <1>1, <1>3, <1>4, <2>2 DEF FeedShape, CameFirst
    <2>3. CASE i = Len(c2) + 1 /\ (Came(j, g) \/ j = Len(c2) + 1)
      BY <1>8, <2>3
    <2> QED BY <1>7, <2>1, <2>2, <2>3
  <1>12. CameFirst'
    <2> SUFFICES ASSUME NEW i \in Nat, NEW j \in Nat, NEW d \in Named, NEW q \in Paths, Came(i, d)', Rest(j, q)'
                 PROVE  Before(d.path, q)
      BY DEF CameFirst
    <2>1. CASE Came(i, d)
      BY <1>1, <1>6, <2>1 DEF FeedShape, CameFirst
    <2>2. CASE d = e
      BY <1>4, <1>9, <2>2
    <2> QED BY <1>7, <2>1, <2>2
  <1>13. ASSUME NEW x \in Seq(Nat), UpperRest(x) PROVE UpperRest(x)'
    <2>1. Before(x, p)
      BY <1>1, <1>3, <1>13 DEF UpperRest
    <2>2. \A i \in Nat, d \in Named : Came(i, d)' => Before(x, d.path)
      BY <1>4, <1>7, <1>13, <2>1 DEF UpperRest
    <2>3. \A i \in Nat, q \in Paths : Rest(i, q)' => Before(x, q)
      BY <1>1, <1>6, <1>13 DEF UpperRest
    <2> QED BY <2>2, <2>3 DEF UpperRest
  <1>14. Closed2'
    BY <1>1, <1>5 DEF FeedShape, Closed2
  <1> QED BY <1>5, <1>7, <1>10, <1>11, <1>12, <1>13, <1>14 DEF FeedShape, FeedTyped

LEMMA FeedKept ==
    ASSUME Typed, FeedShape, Feed
    PROVE  /\ FeedTyped' /\ FeedShape'
           /\ \A x \in Seq(Nat) : UpperRest(x) => UpperRest(x)'
           /\ ~open2 => c2' = c2 /\ ~open2'
           /\ UNCHANGED <<source, lower, dest, walkVars, loopVars, canceled>>
  <1>1. UNCHANGED <<source, lower, dest, walkVars, loopVars, canceled>>
    BY DEF Feed, FeedReturns
  <1>2. CASE FeedSends
    <2>1. open2
      BY <1>2 DEF FeedSends, FeedShape, Closed2
    <2> QED BY <1>1, <1>2, <2>1, FeedSendsKept
  <1>3. CASE FeedStops \/ FeedCloses \/ FeedReturns
    <2>1. c2' = c2 /\ c2 \in Seq(Named)
      BY <1>3 DEF FeedStops, FeedCloses, FeedReturns, Typed
    <2>2. /\ feed' \in Feeds /\ feed'.rest = feed.rest /\ feed'.pc # "feed"
          /\ ~open2' => feed'.pc # "close"
          /\ ~open2 => ~open2'
      <3>1. CASE FeedStops
        <4>1. /\ feed.pc = "feed" /\ open2' = open2
              /\ \/ feed' = [feed EXCEPT !.pc = "close"]
                 \/ feed' = [feed EXCEPT !.pc = "close", !.err = "canceled"]
          BY <3>1 DEF FeedStops
        <4>2. open2
          BY <4>1 DEF FeedShape, Closed2
        <4> QED BY <4>1, <4>2, FeedRecord
      <3>2. CASE FeedCloses
        <4>1. feed' = [feed EXCEPT !.pc = "return"] /\ ~open2'
          BY <3>2 DEF FeedCloses
        <4> QED BY <4>1, FeedRecord
      <3>3. CASE FeedReturns
        <4>1. feed' = [feed EXCEPT !.pc = "done"] /\ open2' = open2
          BY <3>3 DEF FeedReturns
        <4> QED BY <4>1, FeedRecord
      <3> QED BY <1>3, <3>1, <3>2, <3>3
    <2>3. /\ \A i \in Nat, e \in Named : Came(i, e)' <=> Came(i, e)
          /\ \A i \in Nat, p \in Paths : Rest(i, p)' <=> Rest(i, p)
      BY <2>1, <2>2 DEF Came, Rest
    <2>4. RestOrder' /\ CameOrder' /\ CameFirst' /\ Closed2'
      <3>1. RestOrder'
        BY <2>3 DEF FeedShape, RestOrder
      <3>2. CameOrder'
        BY <2>3 DEF FeedShape, CameOrder
      <3> QED BY <2>2, <3>1, <3>2 DEF CameFirst, Feeding, Closed2
    <2>5. ASSUME NEW x \in Seq(Nat), UpperRest(x) PROVE UpperRest(x)'
      BY <2>2, <2>3, <2>5 DEF UpperRest, Feeding
    <2> QED BY <1>1, <2>1, <2>2, <2>4, <2>5 DEF FeedShape, FeedTyped
  <1> QED BY <1>2, <1>3 DEF Feed

-----------------------------------------------------------------------------
(* The merge.  What was told comes before the two entries it holds, and    *)
(* these before what is still to come from their sides.                    *)
Telling    == [kind : Tells, path : Paths]
Says(i, c) == i \in 1..Len(changes) /\ changes[i] = c
Told(x)    == \E i \in Nat, c \in Telling : Says(i, c) /\ c.path = x

LowerPast(x) == LowerRest(x) /\ \A e \in Named : f1 = e => Before(x, e.path)
UpperPast(x) == UpperRest(x) /\ \A e \in Named : f2 = e => Before(x, e.path)

ChangesOrder ==
    \A i, j \in Nat : \A c, d \in Telling : Says(i, c) /\ Says(j, d) /\ i < j => Before(c.path, d.path)
Fetched ==
    /\ \A e \in Named : f1 = e => LowerRest(e.path)
    /\ \A e \in Named : f2 = e => UpperRest(e.path)
AtEnd == (end1 => ~open1 /\ c1 = <<>>) /\ (end2 => ~open2 /\ c2 = <<>>)
ToldPast == \A x \in Paths : Told(x) => LowerPast(x) /\ UpperPast(x)
Applying == loop \in {"apply", "remove", "put"} => \E x \in Paths : change.path = x /\ Told(x)

LoopShape == ChangesOrder /\ Fetched /\ AtEnd /\ ToldPast /\ Applying

(* What a step of the merge keeps.                                         *)
Shape == WalkShape /\ FeedShape /\ LoopShape

LEMMA SameWalk ==
    ASSUME UNCHANGED walkVars, WalkShape
    PROVE  WalkShape' /\ \A x \in Seq(Nat) : LowerRest(x)' <=> LowerRest(x)
  <1>1. walk' = walk /\ c1' = c1 /\ open1' = open1
    BY DEF walkVars
  <1>2. /\ \A i \in Nat, e \in Named : Wait(i, e)' <=> Wait(i, e)
        /\ \A i \in Nat, t \in Item : Todo(i, t)' <=> Todo(i, t)
    BY <1>1 DEF Wait, Todo
  <1>3. TodoOrder' /\ WaitOrder'
    BY <1>2 DEF WalkShape, TodoOrder, WaitOrder
  <1>4. SentFirst' /\ Sending'
    BY <1>1, <1>2 DEF WalkShape, SentFirst, Sending, Walking
  <1>5. Closed1'
    BY <1>1 DEF WalkShape, Closed1, Walking
  <1>6. \A x \in Seq(Nat) : LowerRest(x)' <=> LowerRest(x)
    BY <1>1, <1>2 DEF LowerRest, Walking
  <1> QED BY <1>3, <1>4, <1>5, <1>6 DEF WalkShape

LEMMA SameFeed ==
    ASSUME UNCHANGED feedVars, FeedShape
    PROVE  FeedShape' /\ \A x \in Seq(Nat) : UpperRest(x)' <=> UpperRest(x)
  <1>1. feed' = feed /\ c2' = c2 /\ open2' = open2
    BY DEF feedVars
  <1>2. /\ \A i \in Nat, e \in Named : Came(i, e)' <=> Came(i, e)
        /\ \A i \in Nat, p \in Paths : Rest(i, p)' <=> Rest(i, p)
    BY <1>1 DEF Came, Rest
  <1>3. RestOrder' /\ CameOrder'
    BY <1>2 DEF FeedShape, RestOrder, CameOrder
  <1>4. CameFirst' /\ Closed2'
    BY <1>1, <1>2 DEF FeedShape, CameFirst, Feeding, Closed2
  <1>5. \A x \in Seq(Nat) : UpperRest(x)' <=> UpperRest(x)
    BY <1>1, <1>2 DEF UpperRest, Feeding
  <1> QED BY <1>3, <1>4, <1>5 DEF FeedShape

LEMMA PathIsSeq == \A x \in Paths : x \in Seq(Nat)
  BY PathTypes

LEMMA SameTold ==
    ASSUME changes' = changes
    PROVE  /\ \A x \in Paths : Told(x)' <=> Told(x)
           /\ ChangesOrder => ChangesOrder'
  <1>1. \A i \in Nat, c \in Telling : Says(i, c)' <=> Says(i, c)
    BY DEF Says
  <1> QED BY <1>1 DEF Told, ChangesOrder

(* The sides go on.                                                        *)
LEMMA SidesMove ==
    ASSUME LoopShape, UNCHANGED <<f1, f2, end1, end2, loop, change, changes>>,
           \A x \in Seq(Nat) : LowerRest(x) => LowerRest(x)',
           \A x \in Seq(Nat) : UpperRest(x) => UpperRest(x)',
           ~open1 /\ c1 = <<>> => ~open1' /\ c1' = <<>>,
           ~open2 /\ c2 = <<>> => ~open2' /\ c2' = <<>>
    PROVE  LoopShape'
  <1>1. ChangesOrder' /\ \A x \in Paths : Told(x)' <=> Told(x)
    BY SameTold DEF LoopShape
  <1>2. Fetched'
    <2>1. \A e \in Named : e.path \in Seq(Nat)
      BY NamedFacts
    <2> QED BY <2>1 DEF LoopShape, Fetched
  <1>3. AtEnd'
    BY DEF LoopShape, AtEnd
  <1>4. ToldPast'
    BY <1>1, PathIsSeq DEF LoopShape, ToldPast, LowerPast, UpperPast
  <1>5. Applying'
    BY <1>1 DEF LoopShape, Applying
  <1> QED BY <1>1, <1>2, <1>3, <1>4, <1>5 DEF LoopShape

(* Nothing is taken, compared or told.                                     *)
LEMMA Elsewhere ==
    ASSUME Shape, UNCHANGED <<walkVars, feedVars, f1, f2, end1, end2, change, changes>>,
           loop' \in {"apply", "remove", "put"} => loop \in {"apply", "remove", "put"}
    PROVE  Shape'
  <1>1. WalkShape' /\ \A x \in Seq(Nat) : LowerRest(x)' <=> LowerRest(x)
    BY SameWalk DEF Shape
  <1>2. FeedShape' /\ \A x \in Seq(Nat) : UpperRest(x)' <=> UpperRest(x)
    BY SameFeed DEF Shape
  <1>3. ChangesOrder' /\ \A x \in Paths : Told(x)' <=> Told(x)
    BY SameTold DEF Shape, LoopShape
  <1>4. Fetched'
    <2>1. \A e \in Named : e.path \in Seq(Nat)
      BY NamedFacts
    <2> QED BY <1>1, <1>2, <2>1 DEF Shape, LoopShape, Fetched
  <1>5. AtEnd'
    BY DEF Shape, LoopShape, AtEnd, walkVars, feedVars
  <1>6. ToldPast'
    BY <1>1, <1>2, <1>3, PathIsSeq DEF Shape, LoopShape, ToldPast, LowerPast, UpperPast
  <1>7. Applying'
    BY <1>3 DEF Shape, LoopShape, Applying
  <1> QED BY <1>1, <1>2, <1>3, <1>4, <1>5, <1>6, <1>7 DEF Shape, LoopShape

LEMMA TailFacts ==
    ASSUME NEW D, NEW s \in Seq(D), s # <<>>
    PROVE  /\ Head(s) \in D /\ Tail(s) \in Seq(D) /\ 1 \in 1..Len(s) /\ Head(s) = s[1]
           /\ \A i \in 1..Len(Tail(s)) : i + 1 \in 1..Len(s) /\ 1 < i + 1 /\ Tail(s)[i] = s[i + 1]
  <1>1. Len(s) \in Nat /\ Len(s) >= 1
    BY EmptySeq, LenProperties
  <1>2. Head(s) = s[1]
    OBVIOUS
  <1> QED BY <1>1, <1>2, HeadTailProperties

LEMMA TakeLowerKept ==
    ASSUME Typed, Shape, TakeLower
    PROVE  /\ Shape' /\ c1' \in Seq(Named) /\ f1' \in Named \cup {Nil}
           /\ \A x \in Seq(Nat) : LowerPast(x) => LowerPast(x)'
  <1>1. /\ c1 \in Seq(Named) /\ f1 \in Named \cup {Nil}
        /\ UNCHANGED <<walk, open1, feedVars, f2, end2, loop, change, changes>>
        /\ f1 = Nil /\ ~end1
        /\ \/ c1 # <<>> /\ f1' = Head(c1) /\ c1' = Tail(c1) /\ end1' = end1
           \/ c1 = <<>> /\ ~open1 /\ end1' = TRUE /\ f1' = f1 /\ c1' = c1
    BY DEF Typed, TakeLower
  <1>2. FeedShape' /\ \A x \in Seq(Nat) : UpperRest(x)' <=> UpperRest(x)
    BY <1>1, SameFeed DEF Shape
  <1>3. ChangesOrder' /\ \A x \in Paths : Told(x)' <=> Told(x)
    BY <1>1, SameTold DEF Shape, LoopShape
  <1>4. CASE c1 = <<>> /\ ~open1 /\ end1' = TRUE /\ f1' = f1 /\ c1' = c1
    <2>1. WalkShape' /\ \A x \in Seq(Nat) : LowerRest(x)' <=> LowerRest(x)
      BY <1>1, <1>4, SameWalk DEF Shape, walkVars
    <2>2. Fetched'
      <3>1. \A e \in Named : e.path \in Seq(Nat)
        BY NamedFacts
      <3> QED BY <1>1, <1>2, <1>4, <2>1, <3>1 DEF Shape, LoopShape, Fetched
    <2>3. AtEnd'
      BY <1>1, <1>4 DEF Shape, LoopShape, AtEnd, feedVars
    <2>4. ToldPast'
      BY <1>1, <1>2, <1>3, <1>4, <2>1, PathIsSeq DEF Shape, LoopShape, ToldPast, LowerPast, UpperPast
    <2>5. Applying'
      BY <1>1, <1>3 DEF Shape, LoopShape, Applying
    <2>6. \A x \in Seq(Nat) : LowerPast(x) => LowerPast(x)'
      BY <1>4, <2>1 DEF LowerPast
    <2> QED BY <1>1, <1>2, <1>3, <1>4, <2>1, <2>2, <2>3, <2>4, <2>5, <2>6 DEF Shape, LoopShape
  <1>5. CASE c1 # <<>> /\ f1' = Head(c1) /\ c1' = Tail(c1) /\ end1' = end1
    <2>1. PICK g \in Named : g = Head(c1) /\ Wait(1, g)
      BY <1>1, <1>5, TailFacts DEF Wait
    <2>2. c1' \in Seq(Named) /\ \A i \in Nat, e \in Named : Wait(i, e)' => i + 1 \in Nat /\ 1 < i + 1 /\ Wait(i + 1, e)
      <3>1. /\ Tail(c1) \in Seq(Named)
            /\ \A i \in 1..Len(Tail(c1)) : i + 1 \in 1..Len(c1) /\ 1 < i + 1 /\ Tail(c1)[i] = c1[i + 1]
        BY <1>1, <1>5, TailFacts
      <3> QED BY <1>5, <3>1 DEF Wait
    <2>3. \A i \in Nat, t \in Item : Todo(i, t)' <=> Todo(i, t)
      BY <1>1 DEF Todo
    <2>4. WalkShape'
      <3>1. WaitOrder'
        <4> SUFFICES ASSUME NEW i \in Nat, NEW j \in Nat, NEW d \in Named, NEW e \in Named, Wait(i, d)', Wait(j, e)', i < j
                     PROVE  Before(d.path, e.path)
          BY DEF WaitOrder
        <4>1. i + 1 < j + 1
          OBVIOUS
        <4> QED BY <2>2, <4>1 DEF Shape, WalkShape, WaitOrder
      <3>2. TodoOrder'
        BY <2>3 DEF Shape, WalkShape, TodoOrder
      <3>3. SentFirst'
        BY <1>1, <2>2, <2>3 DEF Shape, WalkShape, SentFirst, Walking
      <3>4. Sending'
        BY <1>1, <2>3 DEF Shape, WalkShape, Sending
      <3>5. Closed1'
        BY <1>1 DEF Shape, WalkShape, Closed1, Walking
      <3> QED BY <3>1, <3>2, <3>3, <3>4, <3>5 DEF WalkShape
    <2>5. \A x \in Seq(Nat) : LowerRest(x) => LowerRest(x)' /\ Before(x, g.path)
      BY <1>1, <2>1, <2>2, <2>3 DEF LowerRest, Walking
    <2>6. LowerRest(g.path)'
      <3>1. \A i \in Nat, e \in Named : Wait(i, e)' => Before(g.path, e.path)
        BY <2>1, <2>2 DEF Shape, WalkShape, WaitOrder
      <3>2. Walking' => \A i \in Nat, t \in Item : Todo(i, t)' => Past(g.path, t)
        BY <1>1, <2>1, <2>3 DEF Shape, WalkShape, SentFirst, Walking
      <3> QED BY <3>1, <3>2 DEF LowerRest
    <2>7. Fetched'
      <3>1. \A e \in Named : e.path \in Seq(Nat)
        BY NamedFacts
      <3>2. \A e \in Named : f1' = e => LowerRest(e.path)'
        BY <1>5, <2>1, <2>6
      <3>3. \A e \in Named : f2' = e => UpperRest(e.path)'
        BY <1>1, <1>2, <3>1 DEF Shape, LoopShape, Fetched
      <3> QED BY <3>2, <3>3 DEF Fetched
    <2>8. AtEnd'
      BY <1>1, <1>5 DEF Shape, LoopShape, AtEnd, feedVars
    <2>n. \A x \in Seq(Nat) : LowerPast(x) => LowerPast(x)'
      BY <1>5, <2>1, <2>5 DEF LowerPast
    <2>9. ToldPast'
      <3> SUFFICES ASSUME NEW x \in Paths, Told(x)' PROVE LowerPast(x)' /\ UpperPast(x)'
        BY DEF ToldPast
      <3>1. LowerPast(x) /\ UpperPast(x) /\ x \in Seq(Nat)
        BY <1>3, PathIsSeq DEF Shape, LoopShape, ToldPast
      <3>2. UpperPast(x)'
        BY <1>1, <1>2, <3>1 DEF UpperPast
      <3> QED BY <2>n, <3>1, <3>2
    <2>10. Applying'
      BY <1>1, <1>3 DEF Shape, LoopShape, Applying
    <2> QED BY <1>2, <1>3, <1>5, <2>1, <2>2, <2>4, <2>7, <2>8, <2>n, <2>9, <2>10 DEF Shape, LoopShape
  <1> QED BY <1>1, <1>4, <1>5

LEMMA TakeUpperKept ==
    ASSUME Typed, Shape, TakeUpper
    PROVE  /\ Shape' /\ c2' \in Seq(Named) /\ f2' \in Named \cup {Nil}
           /\ \A x \in Seq(Nat) : UpperPast(x) => UpperPast(x)'
  <1>1. /\ c2 \in Seq(Named) /\ f2 \in Named \cup {Nil}
        /\ UNCHANGED <<walkVars, feed, open2, f1, end1, loop, change, changes>>
        /\ f2 = Nil /\ ~end2
        /\ \/ c2 # <<>> /\ f2' = Head(c2) /\ c2' = Tail(c2) /\ end2' = end2
           \/ c2 = <<>> /\ ~open2 /\ end2' = TRUE /\ f2' = f2 /\ c2' = c2
    BY DEF Typed, TakeUpper
  <1>2. WalkShape' /\ \A x \in Seq(Nat) : LowerRest(x)' <=> LowerRest(x)
    BY <1>1, SameWalk DEF Shape
  <1>3. ChangesOrder' /\ \A x \in Paths : Told(x)' <=> Told(x)
    BY <1>1, SameTold DEF Shape, LoopShape
  <1>4. CASE c2 = <<>> /\ ~open2 /\ end2' = TRUE /\ f2' = f2 /\ c2' = c2
    <2>1. FeedShape' /\ \A x \in Seq(Nat) : UpperRest(x)' <=> UpperRest(x)
      BY <1>1, <1>4, SameFeed DEF Shape, feedVars
    <2>2. Fetched'
      <3>1. \A e \in Named : e.path \in Seq(Nat)
        BY NamedFacts
      <3> QED BY <1>1, <1>2, <1>4, <2>1, <3>1 DEF Shape, LoopShape, Fetched
    <2>3. AtEnd'
      BY <1>1, <1>4 DEF Shape, LoopShape, AtEnd, walkVars
    <2>4. ToldPast'
      BY <1>1, <1>2, <1>3, <1>4, <2>1, PathIsSeq DEF Shape, LoopShape, ToldPast, LowerPast, UpperPast
    <2>5. Applying'
      BY <1>1, <1>3 DEF Shape, LoopShape, Applying
    <2>6. \A x \in Seq(Nat) : UpperPast(x) => UpperPast(x)'
      BY <1>4, <2>1 DEF UpperPast
    <2> QED BY <1>1, <1>2, <1>3, <1>4, <2>1, <2>2, <2>3, <2>4, <2>5, <2>6 DEF Shape, LoopShape
  <1>5. CASE c2 # <<>> /\ f2' = Head(c2) /\ c2' = Tail(c2) /\ end2' = end2
    <2>1. PICK g \in Named : g = Head(c2) /\ Came(1, g)
      BY <1>1, <1>5, TailFacts DEF Came
    <2>2. c2' \in Seq(Named) /\ \A i \in Nat, e \in Named : Came(i, e)' => i + 1 \in Nat /\ 1 < i + 1 /\ Came(i + 1, e)
      <3>1. /\ Tail(c2) \in Seq(Named)
            /\ \A i \in 1..Len(Tail(c2)) : i + 1 \in 1..Len(c2) /\ 1 < i + 1 /\ Tail(c2)[i] = c2[i + 1]
        BY <1>1, <1>5, TailFacts
      <3> QED BY <1>5, <3>1 DEF Came
    <2>3. \A i \in Nat, p \in Paths : Rest(i, p)' <=> Rest(i, p)
      BY <1>1 DEF Rest
    <2>4. FeedShape'
      <3>1. CameOrder'
        <4> SUFFICES ASSUME NEW i \in Nat, NEW j \in Nat, NEW d \in Named, NEW e \in Named, Came(i, d)', Came(j, e)', i < j
                     PROVE  Before(d.path, e.path)
          BY DEF CameOrder
        <4>1. i + 1 < j + 1
          OBVIOUS
        <4> QED BY <2>2, <4>1 DEF Shape, FeedShape, CameOrder
      <3>2. RestOrder'
        BY <2>3 DEF Shape, FeedShape, RestOrder
      <3>3. CameFirst'
        BY <1>1, <2>2, <2>3 DEF Shape, FeedShape, CameFirst, Feeding
      <3>4. Closed2'
        BY <1>1 DEF Shape, FeedShape, Closed2
      <3> QED BY <3>1, <3>2, <3>3, <3>4 DEF FeedShape
    <2>5. \A x \in Seq(Nat) : UpperRest(x) => UpperRest(x)' /\ Before(x, g.path)
      BY <1>1, <2>1, <2>2, <2>3 DEF UpperRest, Feeding
    <2>6. UpperRest(g.path)'
      <3>1. \A i \in Nat, e \in Named : Came(i, e)' => Before(g.path, e.path)
        BY <2>1, <2>2 DEF Shape, FeedShape, CameOrder
      <3>2. Feeding' => \A i \in Nat, p \in Paths : Rest(i, p)' => Before(g.path, p)
        BY <1>1, <2>1, <2>3 DEF Shape, FeedShape, CameFirst, Feeding
      <3> QED BY <3>1, <3>2 DEF UpperRest
    <2>7. Fetched'
      <3>1. \A e \in Named : e.path \in Seq(Nat)
        BY NamedFacts
      <3>2. \A e \in Named : f2' = e => UpperRest(e.path)'
        BY <1>5, <2>1, <2>6
      <3>3. \A e \in Named : f1' = e => LowerRest(e.path)'
        BY <1>1, <1>2, <3>1 DEF Shape, LoopShape, Fetched
      <3> QED BY <3>2, <3>3 DEF Fetched
    <2>8. AtEnd'
      BY <1>1, <1>5 DEF Shape, LoopShape, AtEnd, walkVars
    <2>n. \A x \in Seq(Nat) : UpperPast(x) => UpperPast(x)'
      BY <1>5, <2>1, <2>5 DEF UpperPast
    <2>9. ToldPast'
      <3> SUFFICES ASSUME NEW x \in Paths, Told(x)' PROVE LowerPast(x)' /\ UpperPast(x)'
        BY DEF ToldPast
      <3>1. LowerPast(x) /\ UpperPast(x) /\ x \in Seq(Nat)
        BY <1>3, PathIsSeq DEF Shape, LoopShape, ToldPast
      <3>2. LowerPast(x)'
        BY <1>1, <1>2, <3>1 DEF LowerPast
      <3> QED BY <2>n, <3>1, <3>2
    <2>10. Applying'
      BY <1>1, <1>3 DEF Shape, LoopShape, Applying
    <2> QED BY <1>2, <1>3, <1>5, <2>1, <2>2, <2>4, <2>7, <2>8, <2>n, <2>9, <2>10 DEF Shape, LoopShape
  <1> QED BY <1>1, <1>4, <1>5

(* The path compared first comes before the rest of both sides.            *)
LEMMA PathChangeFacts ==
    ASSUME Typed, Taken
    PROVE  /\ pathChange(f1, f2) \in Tells
           /\ pathChange(f1, f2) = "add" => f2 \in Named /\ (f1 = Nil \/ (f1 \in Named /\ Before(f2.path, f1.path)))
           /\ pathChange(f1, f2) = "delete" => f1 \in Named /\ (f2 = Nil \/ (f2 \in Named /\ Before(f1.path, f2.path)))
           /\ pathChange(f1, f2) = "modify" => f1 \in Named /\ f2 \in Named /\ f1.path = f2.path
  <1>1. (f1 = Nil \/ f1 \in Named) /\ (f2 = Nil \/ f2 \in Named) /\ (f1 # Nil \/ f2 # Nil)
    BY DEF Typed, Taken
  <1>2. CASE f1 = Nil
    <2>1. pathChange(f1, f2) = "add" /\ f2 \in Named
      BY <1>1, <1>2 DEF pathChange
    <2> QED BY <1>2, <2>1 DEF Tells
  <1>3. CASE f1 # Nil /\ f2 = Nil
    <2>1. pathChange(f1, f2) = "delete" /\ f1 \in Named
      BY <1>1, <1>3 DEF pathChange
    <2> QED BY <1>3, <2>1 DEF Tells
  <1>4. CASE f1 # Nil /\ f2 # Nil
    <2>1. f1 \in Named /\ f2 \in Named
      BY <1>1, <1>4
    <2>i. ~Before(f1.path, f1.path)
      BY <2>1, NamedFacts, BeforeIrreflexive
    <2>2. f1.path \in Seq(Nat) /\ f2.path \in Seq(Nat)
      BY <2>1, NamedFacts
    <2>3. f1.path = f2.path \/ Before(f1.path, f2.path) \/ Before(f2.path, f1.path)
      BY <2>2, BeforeTotal
    <2>4. CASE f1.path = f2.path
      <3>1. pathChange(f1, f2) = "modify"
        BY <1>4, <2>4, <2>i DEF pathChange
      <3> QED BY <2>1, <2>4, <3>1 DEF Tells
    <2>5. CASE f1.path # f2.path /\ Before(f1.path, f2.path)
      <3>1. pathChange(f1, f2) = "delete"
        BY <1>4, <2>5 DEF pathChange
      <3> QED BY <2>1, <2>5, <3>1 DEF Tells
    <2>6. CASE f1.path # f2.path /\ ~Before(f1.path, f2.path)
      <3>1. pathChange(f1, f2) = "add"
        BY <1>4, <2>6 DEF pathChange
      <3> QED BY <2>1, <2>3, <2>6, <3>1 DEF Tells
    <2> QED BY <2>4, <2>5, <2>6
  <1> QED BY <1>2, <1>3, <1>4

LEMMA RestBefore ==
    ASSUME NEW x \in Seq(Nat), NEW y \in Seq(Nat), Before(x, y)
    PROVE  (LowerRest(y) => LowerRest(x)) /\ (UpperRest(y) => UpperRest(x))
  <1>1. \A e \in Named : Before(y, e.path) => Before(x, e.path)
    BY BeforeTransitive, NamedFacts
  <1>2. \A p \in Paths : Before(y, p) => Before(x, p)
    BY BeforeTransitive, PathIsSeq
  <1>3. \A t \in Item : Past(y, t) => Past(x, t)
    <2> SUFFICES ASSUME NEW t \in Item, Past(y, t) PROVE Before(x, t.path)
      BY DEF Past
    <2>1. t.path \in Seq(Nat)
      BY NamedFacts
    <2>2. y = t.path \/ Before(y, t.path)
      BY DEF Past
    <2> QED BY <2>1, <2>2, BeforeTransitive
  <1> QED BY <1>1, <1>2, <1>3 DEF LowerRest, UpperRest

(* A side that ended has no rest.                                          *)
LEMMA EndedRest ==
    ASSUME Shape, NEW x \in Seq(Nat)
    PROVE  (end1 => LowerRest(x)) /\ (end2 => UpperRest(x))
  <1>1. ASSUME end1 PROVE LowerRest(x)
    <2>1. ~open1 /\ c1 = <<>>
      BY <1>1 DEF Shape, LoopShape, AtEnd
    <2>2. ~Walking
      BY <2>1 DEF Shape, WalkShape, Closed1
    <2>3. \A i \in Nat, e \in Named : ~Wait(i, e)
      BY <2>1, EmptySeq DEF Wait
    <2> QED BY <2>2, <2>3 DEF LowerRest
  <1>2. ASSUME end2 PROVE UpperRest(x)
    <2>1. ~open2 /\ c2 = <<>>
      BY <1>2 DEF Shape, LoopShape, AtEnd
    <2>2. ~Feeding
      BY <2>1 DEF Shape, FeedShape, Closed2, Feeding
    <2>3. \A i \in Nat, e \in Named : ~Came(i, e)
      BY <2>1, EmptySeq DEF Came
    <2> QED BY <2>2, <2>3 DEF UpperRest
  <1> QED BY <1>1, <1>2

LEMMA Tell ==
    ASSUME Typed, Shape, NEW p \in Paths, UNCHANGED <<walkVars, feedVars, end1, end2>>,
           f1' \in {f1, Nil}, f2' \in {f2, Nil}, LowerRest(p), UpperRest(p),
           \A e \in Named : f1' = e => Before(p, e.path),
           \A e \in Named : f2' = e => Before(p, e.path),
           \A x \in Paths : Told(x) => Before(x, p),
           \/ loop' = "take" /\ UNCHANGED <<change, changes>>
           \/ \E k \in Tells : LET c == [kind |-> k, path |-> p]
                               IN loop' = "apply" /\ change' = c /\ changes' = Append(changes, c)
    PROVE  Shape'
  <1>1. WalkShape' /\ \A x \in Seq(Nat) : LowerRest(x)' <=> LowerRest(x)
    BY SameWalk DEF Shape
  <1>2. FeedShape' /\ \A x \in Seq(Nat) : UpperRest(x)' <=> UpperRest(x)
    BY SameFeed DEF Shape
  <1>n. \A e \in Named : e.path \in Seq(Nat) /\ e # Nil
    BY NamedFacts
  <1>3. Fetched'
    <2>1. \A e \in Named : f1' = e => f1 = e
      BY <1>n
    <2>2. \A e \in Named : f2' = e => f2 = e
      BY <1>n
    <2>3. \A e \in Named : f1' = e => LowerRest(e.path)'
      BY <1>1, <1>n, <2>1 DEF Shape, LoopShape, Fetched
    <2>4. \A e \in Named : f2' = e => UpperRest(e.path)'
      BY <1>2, <1>n, <2>2 DEF Shape, LoopShape, Fetched
    <2> QED BY <2>3, <2>4 DEF Fetched
  <1>4. AtEnd'
    BY DEF Shape, LoopShape, AtEnd, walkVars, feedVars
  <1>5. /\ ChangesOrder' /\ (\A x \in Paths : Told(x)' => Told(x) \/ x = p)
        /\ loop' = "apply" => change'.path = p /\ Told(p)'
        /\ loop' \in {"take", "apply"}
    <2>1. CASE loop' = "take" /\ UNCHANGED <<change, changes>>
      BY <2>1, SameTold DEF Shape, LoopShape
    <2>2. ASSUME NEW k \in Tells, NEW c, c = [kind |-> k, path |-> p],
                 loop' = "apply", change' = c, changes' = Append(changes, c)
          PROVE  ChangesOrder' /\ (\A x \in Paths : Told(x)' => Told(x) \/ x = p) /\ change'.path = p /\ Told(p)'
      <3>1. c \in Telling /\ c.path = p /\ changes \in Seq(Telling)
        BY <2>2 DEF Telling, Typed
      <3>2. /\ Len(changes) \in Nat /\ Len(changes') = Len(changes) + 1
            /\ \A i \in 1..(Len(changes) + 1) :
                 (i \in 1..Len(changes) /\ changes'[i] = changes[i]) \/ (i = Len(changes) + 1 /\ changes'[i] = c)
        BY <2>2, <3>1, AppendFacts
      <3>3. \A i \in Nat, d \in Telling : Says(i, d)' => Says(i, d) \/ (d = c /\ i = Len(changes) + 1)
        BY <3>2 DEF Says
      <3>4. \A i \in Nat, d \in Telling : Says(i, d) => i <= Len(changes) /\ Before(d.path, p)
        <4>1. \A d \in Telling : d.path \in Paths
          BY DEF Telling
        <4> QED BY <3>2, <4>1 DEF Says, Told
      <3>5. ChangesOrder'
        <4> SUFFICES ASSUME NEW i \in Nat, NEW j \in Nat, NEW d \in Telling, NEW e \in Telling,
                            Says(i, d)', Says(j, e)', i < j
                     PROVE  Before(d.path, e.path)
          BY DEF ChangesOrder
        <4>1. CASE Says(i, d) /\ Says(j, e)
          BY <4>1 DEF Shape, LoopShape, ChangesOrder
        <4>2. CASE Says(i, d) /\ e = c
          BY <3>1, <3>4, <4>2
        <4>3. CASE i = Len(changes) + 1 /\ (Says(j, e) \/ j = Len(changes) + 1)
          BY <3>2, <3>4, <4>3
        <4> QED BY <3>3, <4>1, <4>2, <4>3
      <3>6. Told(p)'
        <4>1. Len(changes) + 1 \in Nat /\ Len(changes) + 1 \in 1..Len(changes') /\ changes'[Len(changes) + 1] = c
          <5> DEFINE n == Len(changes)
          <5>1. n \in Nat /\ n + 1 \in 1..(n + 1) /\ ~(n + 1 \in 1..n)
            BY <3>2
          <5> QED BY <3>2, <5>1
        <4> QED BY <3>1, <4>1 DEF Told, Says
      <3>7. \A x \in Paths : Told(x)' => Told(x) \/ x = p
        BY <3>1, <3>3 DEF Told
      <3> QED BY <2>2, <3>1, <3>5, <3>6, <3>7
    <2> QED BY <2>1, <2>2
  <1>6. ToldPast'
    <2> SUFFICES ASSUME NEW x \in Paths, Told(x)' PROVE LowerPast(x)' /\ UpperPast(x)'
      BY DEF ToldPast
    <2>1. x \in Seq(Nat) /\ p \in Seq(Nat)
      BY PathIsSeq
    <2>2. x = p \/ Before(x, p)
      BY <1>5
    <2>3. LowerRest(x) /\ UpperRest(x)
      BY <2>1, <2>2, RestBefore
    <2>4. \A e \in Named : f1' = e => Before(x, e.path)
      BY <1>n, <2>1, <2>2, BeforeTransitive
    <2>5. \A e \in Named : f2' = e => Before(x, e.path)
      BY <1>n, <2>1, <2>2, BeforeTransitive
    <2>6. LowerRest(x)' /\ UpperRest(x)'
      BY <1>1, <1>2, <2>1, <2>3
    <2> QED BY <2>4, <2>5, <2>6 DEF LowerPast, UpperPast
  <1>7. Applying'
    BY <1>5 DEF Applying
  <1> QED BY <1>1, <1>2, <1>3, <1>4, <1>5, <1>6, <1>7 DEF Shape, LoopShape

(* What Compare does to the two entries and what it tells.                 *)
CompareSays(p, k) ==
    \/ loop' = "take" /\ UNCHANGED <<change, changes>>
    \/ LET c == [kind |-> k, path |-> p]
       IN loop' = "apply" /\ change' = c /\ changes' = Append(changes, c)

LEMMA CompareCases ==
    ASSUME Compare
    PROVE  /\ loop = "take" /\ UNCHANGED <<dest, walkVars, feedVars, end1, end2, stack>>
           /\ pathChange(f1, f2) = "add" => f1' = f1 /\ f2' = Nil /\ CompareSays(f2.path, "add")
           /\ pathChange(f1, f2) = "delete" => f1' = Nil /\ f2' = f2 /\ CompareSays(f1.path, "delete")
           /\ pathChange(f1, f2) = "modify" => f1' = Nil /\ f2' = Nil /\ CompareSays(f2.path, "modify")
  <1>1. loop = "take" /\ UNCHANGED <<dest, walkVars, feedVars, end1, end2, stack>>
    BY DEF Compare, Taken
  <1>2. ASSUME pathChange(f1, f2) = "add"
        PROVE  f1' = f1 /\ f2' = Nil /\ CompareSays(f2.path, "add")
    BY <1>2 DEF Compare, Emit, CompareSays
  <1>3. ASSUME pathChange(f1, f2) = "delete"
        PROVE  f1' = Nil /\ f2' = f2 /\ CompareSays(f1.path, "delete")
    BY <1>1, <1>3 DEF Compare, Emit, Quiet, CompareSays
  <1>4. ASSUME pathChange(f1, f2) = "modify"
        PROVE  f1' = Nil /\ f2' = Nil /\ CompareSays(f2.path, "modify")
    BY <1>1, <1>4 DEF Compare, Emit, Quiet, CompareSays
  <1> QED BY <1>1, <1>2, <1>3, <1>4

(* The lower entry at p comes before what is left of the source.           *)
Extra(p) == UpperRest(p) /\ \E d \in Named : f1 = d /\ d.path = p /\ \A e \in Named : f2 = e => Before(p, e.path)

LEMMA CompareKept ==
    ASSUME Typed, Shape, Compare
    PROVE  /\ Shape' /\ f1' \in {f1, Nil} /\ f2' \in {f2, Nil}
           /\ UNCHANGED <<dest, walkVars, feedVars, stack>>
           /\ \A x \in Seq(Nat) : LowerPast(x) => LowerPast(x)'
           /\ \A e \in Named : f2 = e => f2' = e \/ LowerPast(e.path)'
           /\ \E p \in Paths, k \in Tells : CompareSays(p, k) /\ (k = "delete" => Extra(p))
  <1>1. Taken /\ UNCHANGED <<dest, walkVars, feedVars, end1, end2, stack>>
    BY CompareCases DEF Compare
  <1>n. \A e \in Named : e # Nil /\ e.path \in Paths /\ e.path \in Seq(Nat)
    BY NamedFacts
  <1>2. \A x \in Paths : Told(x) => /\ \A e \in Named : f1 = e => Before(x, e.path)
                                    /\ \A e \in Named : f2 = e => Before(x, e.path)
    BY DEF Shape, LoopShape, ToldPast, LowerPast, UpperPast
  <1>3. (f1 = Nil => end1) /\ (f2 = Nil => end2)
    BY <1>1 DEF Taken
  <1>s. \A x \in Seq(Nat) : LowerRest(x)' <=> LowerRest(x)
    BY <1>1, SameWalk DEF Shape
  <1>f. \A x \in Seq(Nat) : f1' \in {f1, Nil} /\ LowerPast(x) => LowerPast(x)'
    BY <1>n, <1>s DEF LowerPast
  <1>4. CASE pathChange(f1, f2) = "add"
    <2>1. PICK e \in Named : f2 = e /\ (f1 = Nil \/ (f1 \in Named /\ Before(e.path, f1.path)))
      BY <1>1, <1>4, PathChangeFacts
    <2>2. f1' = f1 /\ f2' = Nil /\ CompareSays(e.path, "add") /\ "add" \in Tells
      BY <1>4, <2>1, CompareCases DEF Tells
    <2>3. UpperRest(e.path)
      BY <2>1 DEF Shape, LoopShape, Fetched
    <2>4. LowerRest(e.path)
      <3>1. CASE f1 = Nil
        BY <1>3, <1>n, <3>1, EndedRest
      <3>2. ASSUME NEW d \in Named, f1 = d PROVE LowerRest(e.path)
        <4>1. LowerRest(d.path) /\ Before(e.path, d.path)
          BY <1>n, <2>1, <3>2 DEF Shape, LoopShape, Fetched
        <4> QED BY <1>n, <4>1, RestBefore
      <3> QED BY <2>1, <3>1, <3>2
    <2>5. \A d \in Named : f1' = d => Before(e.path, d.path)
      BY <1>n, <2>1, <2>2
    <2>6. \A d \in Named : f2' = d => Before(e.path, d.path)
      BY <1>n, <2>2
    <2>7. e.path \in Paths /\ \A x \in Paths : Told(x) => Before(x, e.path)
      BY <1>2, <1>n, <2>1
    <2>8. Shape'
      BY <1>1, <2>2, <2>3, <2>4, <2>5, <2>6, <2>7, Tell DEF CompareSays
    <2>9. LowerPast(e.path)'
      BY <1>n, <1>s, <2>4, <2>5 DEF LowerPast
    <2> QED BY <1>1, <1>f, <2>1, <2>2, <2>7, <2>8, <2>9
  <1>5. CASE pathChange(f1, f2) = "delete"
    <2>1. PICK e \in Named : f1 = e /\ (f2 = Nil \/ (f2 \in Named /\ Before(e.path, f2.path)))
      BY <1>1, <1>5, PathChangeFacts
    <2>2. f1' = Nil /\ f2' = f2 /\ CompareSays(e.path, "delete") /\ "delete" \in Tells
      BY <1>5, <2>1, CompareCases DEF Tells
    <2>3. LowerRest(e.path)
      BY <2>1 DEF Shape, LoopShape, Fetched
    <2>4. UpperRest(e.path)
      <3>1. CASE f2 = Nil
        BY <1>3, <1>n, <3>1, EndedRest
      <3>2. ASSUME NEW d \in Named, f2 = d PROVE UpperRest(e.path)
        <4>1. UpperRest(d.path) /\ Before(e.path, d.path)
          BY <1>n, <2>1, <3>2 DEF Shape, LoopShape, Fetched
        <4> QED BY <1>n, <4>1, RestBefore
      <3> QED BY <2>1, <3>1, <3>2
    <2>5. \A d \in Named : f2' = d => Before(e.path, d.path)
      BY <1>n, <2>1, <2>2
    <2>6. \A d \in Named : f1' = d => Before(e.path, d.path)
      BY <1>n, <2>2
    <2>7. e.path \in Paths /\ \A x \in Paths : Told(x) => Before(x, e.path)
      BY <1>2, <1>n, <2>1
    <2>8. Shape'
      BY <1>1, <2>2, <2>3, <2>4, <2>5, <2>6, <2>7, Tell DEF CompareSays
    <2>9. Extra(e.path)
      BY <2>1, <2>2, <2>4, <2>5 DEF Extra
    <2> QED BY <1>1, <1>f, <2>1, <2>2, <2>7, <2>8, <2>9
  <1>6. CASE pathChange(f1, f2) = "modify"
    <2>1. PICK d \in Named, e \in Named : f1 = d /\ f2 = e /\ d.path = e.path
      BY <1>1, <1>6, PathChangeFacts
    <2>2. f1' = Nil /\ f2' = Nil /\ CompareSays(e.path, "modify") /\ "modify" \in Tells
      BY <1>6, <2>1, CompareCases DEF Tells
    <2>3. LowerRest(e.path) /\ UpperRest(e.path)
      <3>1. LowerRest(d.path)
        BY <2>1 DEF Shape, LoopShape, Fetched
      <3>2. UpperRest(e.path)
        BY <2>1 DEF Shape, LoopShape, Fetched
      <3> QED BY <2>1, <3>1, <3>2
    <2>4. \A g \in Named : f1' # g /\ f2' # g
      BY <1>n, <2>2
    <2>5. e.path \in Paths /\ \A x \in Paths : Told(x) => Before(x, e.path)
      BY <1>2, <1>n, <2>1
    <2>6. Shape'
      BY <1>1, <2>2, <2>3, <2>4, <2>5, Tell DEF CompareSays
    <2>7. LowerPast(e.path)'
      BY <1>n, <1>s, <2>2, <2>3, <2>4 DEF LowerPast
    <2> QED BY <1>1, <1>f, <2>1, <2>2, <2>5, <2>6, <2>7
  <1>7. pathChange(f1, f2) \in {"add", "modify", "delete"}
    BY <1>1, PathChangeFacts DEF Tells
  <1> QED BY <1>4, <1>5, <1>6, <1>7

-----------------------------------------------------------------------------
(* The rootStack.  Its items nest, so the ones that fit a directory are    *)
(* the first ones, and the last of these is the nearest to it.             *)
Nested(s)  == \A i, j \in 1..Len(s) : i < j => IsStrictPrefix(s[i].path, s[j].path)
AllLive(s) == \A i \in 1..Len(s) : s[i].live

StackShape ==
    /\ Nested(stack) /\ AllLive(stack)
    /\ ~Rooted => stack = <<>>
    /\ Rooted /\ loop \in {"remove", "put"} => AtTop(stack, Front(change.path))

LEMMA Downward ==
    ASSUME NEW n \in Nat, NEW T \in SUBSET (1..n), \A i \in T, j \in 1..n : j < i => j \in T
    PROVE  T = 1..Cardinality(T) /\ Cardinality(T) \in 0..n
  <1> DEFINE U == (1..n) \ T
  <1>1. ASSUME NEW m \in 0..n, T = 1..m PROVE T = 1..Cardinality(T) /\ Cardinality(T) \in 0..n
    <2>1. Cardinality(1..m) = IF 1 > m THEN 0 ELSE m - 1 + 1
      BY FS_Interval
    <2>2. Cardinality(T) = m
      BY <1>1, <2>1
    <2> QED BY <1>1, <2>2
  <1>2. CASE U = {}
    <2>1. T = 1..n
      BY <1>2
    <2>2. n \in 0..n
      OBVIOUS
    <2> QED BY <1>1, <2>1, <2>2
  <1>3. CASE U # {}
    <2>1. U \in SUBSET Nat
      OBVIOUS
    <2>2. PICK u \in U : \A m \in U : u <= m
      BY <1>3, <2>1, LeastNumber
    <2>3. u \in 1..n /\ u \notin T /\ u - 1 \in 0..n
      BY <2>2
    <2>4. ASSUME NEW i \in T PROVE i \in 1..(u - 1)
      <3>1. i \in 1..n /\ ~(u < i) /\ i # u
        BY <2>3, <2>4
      <3> QED BY <2>3, <3>1
    <2>5. ASSUME NEW i \in 1..(u - 1) PROVE i \in T
      <3>1. i \in 1..n /\ ~(u <= i)
        BY <2>3
      <3>2. i \notin U
        BY <2>2, <3>1
      <3> QED BY <3>1, <3>2
    <2>6. T = 1..(u - 1)
      BY <2>4, <2>5
    <2> QED BY <1>1, <2>3, <2>6
  <1> QED BY <1>2, <1>3

LEMMA HeldFacts == \A h \in Held : h.path \in Seq(Nat) /\ h.path \in Paths \cup {<<>>} /\ h.live \in BOOLEAN
  BY EmptySeq, PathIsSeq DEF Held

LEMMA FittingFacts ==
    ASSUME stack \in Seq(Held), Nested(stack), AllLive(stack), NEW dir \in Seq(Nat)
    PROVE  LET s == Fitting(dir)
           IN  /\ s \in Seq(Held) /\ Nested(s) /\ AllLive(s) /\ (stack = <<>> => s = <<>>)
               /\ \A i \in 1..Len(s) : IsPrefix(s[i].path, dir)
  <1> DEFINE n == Len(stack)
             T == {i \in 1..Len(stack) : IsPrefix(stack[i].path, dir)}
             k == Cardinality(T)
  <1>1. n \in Nat /\ \A i \in 1..n : stack[i] \in Held /\ stack[i].path \in Seq(Nat)
    <2>1. n \in Nat /\ \A i \in 1..n : stack[i] \in Held
      BY LenProperties, ElementOfSeq
    <2> QED BY <2>1, HeldFacts
  <1>2. ASSUME NEW i \in T, NEW j \in 1..n, j < i PROVE j \in T
    <2>1. IsPrefix(stack[j].path, stack[i].path) /\ IsPrefix(stack[i].path, dir)
      BY <1>2 DEF Nested, IsStrictPrefix
    <2>2. IsPrefix(stack[j].path, dir)
      BY <1>1, <2>1, PrefixTransitive
    <2> QED BY <2>2
  <1>3. T \in SUBSET (1..n)
    OBVIOUS
  <1>4. T = 1..k /\ k \in 0..n
    BY <1>1, <1>2, <1>3, Downward
  <1>5. Fitting(dir) = SubSeq(stack, 1, k)
    BY DEF Fitting
  <1>6. \A i \in 1..k : IsPrefix(stack[i].path, dir)
    BY <1>4
  <1> HIDE DEF T, k, n
  <1>7. \A i \in 1..k : stack[i] \in Held /\ i \in 1..n /\ 1 + i - 1 = i
    BY <1>1, <1>4
  <1>8. k \in Nat /\ k - 1 + 1 = k /\ (~(1 <= k) => k = 0)
    BY <1>1, <1>4
  <1> DEFINE s == SubSeq(stack, 1, k)
  <1>9. /\ s \in Seq(Held) /\ Len(s) = IF 1 <= k THEN k - 1 + 1 ELSE 0
        /\ \A i \in 1..(k - 1 + 1) : s[i] = stack[1 + i - 1]
    BY <1>7, <1>8, SubSeqProperties
  <1> HIDE DEF s
  <1>10. s \in Seq(Held) /\ Len(s) = k /\ \A i \in 1..k : s[i] = stack[i]
    BY <1>7, <1>8, <1>9
  <1>11. Nested(s) /\ AllLive(s)
    BY <1>7, <1>10 DEF Nested, AllLive, n
  <1>12. stack = <<>> => s = <<>>
    <2>1. stack = <<>> => n = 0
      BY EmptySeq DEF n
    <2>2. stack = <<>> => k = 0
      BY <1>4, <2>1
    <2> QED BY <1>10, <2>2, EmptySeq
  <1> QED BY <1>5, <1>6, <1>10, <1>11, <1>12 DEF s

LEMMA OpenedFacts ==
    ASSUME stack \in Seq(Held), Nested(stack), AllLive(stack), NEW dir \in Paths \cup {<<>>}
    PROVE  LET s == Opened(dir)
           IN  s \in Seq(Held) /\ Nested(s) /\ AllLive(s) /\ AtTop(s, dir)
  <1> DEFINE f == Fitting(dir)
             h == [path |-> dir, live |-> TRUE]
  <1>1. dir \in Seq(Nat)
    BY EmptySeq, PathIsSeq
  <1>2. /\ f \in Seq(Held) /\ Nested(f) /\ AllLive(f)
        /\ \A i \in 1..Len(f) : IsPrefix(f[i].path, dir)
    BY <1>1, FittingFacts
  <1>3. Opened(dir) = IF AtTop(f, dir) THEN f ELSE Append(f, h)
    BY DEF Opened
  <1> HIDE DEF f
  <1>4. CASE AtTop(f, dir)
    BY <1>2, <1>3, <1>4
  <1>5. CASE ~AtTop(f, dir)
    <2>0. h \in Held /\ h.path = dir /\ h.live = TRUE
      BY DEF Held
    <2> DEFINE s == Append(f, h)
               m == Len(f)
    <2> HIDE DEF h
    <2>1. /\ s \in Seq(Held) /\ m \in Nat /\ Len(s) = m + 1
          /\ \A i \in 1..(m + 1) : (i \in 1..m /\ s[i] = f[i]) \/ (i = m + 1 /\ s[i] = h)
      BY <1>2, <2>0, AppendFacts
    <2>2. \A i \in 1..m : f[i] \in Held /\ f[i].path \in Seq(Nat)
      BY <1>2, HeldFacts, ElementOfSeq
    <2> HIDE DEF s
    <2>3. ASSUME NEW i \in 1..m PROVE IsStrictPrefix(f[i].path, dir)
      <3>1. m \in 1..m /\ f # <<>> /\ i <= m
        BY <2>1, EmptySeq
      <3>2. f[m].path # dir
        BY <1>5, <3>1 DEF AtTop, Last
      <3>3. IsStrictPrefix(f[m].path, dir)
        BY <1>2, <3>1, <3>2 DEF IsStrictPrefix
      <3>4. CASE i = m
        BY <3>3, <3>4
      <3>5. CASE i < m
        <4>1. IsStrictPrefix(f[i].path, f[m].path)
          BY <1>2, <3>1, <3>5 DEF Nested
        <4>2. IsPrefix(f[i].path, f[m].path) /\ IsPrefix(f[m].path, dir)
          BY <3>3, <4>1 DEF IsStrictPrefix
        <4> QED BY <1>1, <2>2, <3>1, <3>3, <4>2, PrefixTransitive
      <3> QED BY <2>1, <3>1, <3>4, <3>5
    <2>4. Nested(s)
      <3> SUFFICES ASSUME NEW i \in 1..(m + 1), NEW j \in 1..(m + 1), i < j
                   PROVE  IsStrictPrefix(s[i].path, s[j].path)
        BY <2>1 DEF Nested
      <3>1. i \in 1..m /\ s[i] = f[i]
        BY <2>1
      <3>2. CASE j \in 1..m /\ s[j] = f[j]
        BY <1>2, <3>1, <3>2 DEF Nested
      <3>3. CASE s[j] = h
        BY <2>0, <2>3, <3>1, <3>3
      <3> QED BY <2>1, <3>2, <3>3
    <2>5. AllLive(s)
      BY <1>2, <2>0, <2>1 DEF AllLive
    <2>6. AtTop(s, dir)
      <3>1. m + 1 \in 1..(m + 1) /\ ~(m + 1 \in 1..m)
        BY <2>1
      <3>2. s[m + 1] = h
        BY <2>1, <3>1
      <3>3. s # <<>> /\ Last(s).path = dir
        BY <2>0, <2>1, <3>1, <3>2, EmptySeq DEF Last
      <3> QED BY <3>3 DEF AtTop
    <2> QED BY <1>3, <1>5, <2>1, <2>4, <2>5, <2>6 DEF s
  <1> QED BY <1>4, <1>5

(* What is removed is not on the way to it.                                *)
LEMMA NotOnStack ==
    ASSUME stack \in Seq(Held), Nested(stack), NEW p \in Paths, AtTop(stack, Front(p)),
           NEW q \in Paths, q = p \/ Below(q, p), NEW i \in 1..Len(stack)
    PROVE  stack[i].path # q
  <1> DEFINE n == Len(stack)
  <1>1. n \in Nat /\ n \in 1..n /\ stack # <<>>
    BY LenProperties, EmptySeq
  <1>2. stack[n].path = Front(p)
    BY <1>1 DEF AtTop, Last
  <1>3. stack[i].path \in Seq(Nat) /\ p \in Seq(Nat) /\ q \in Seq(Nat) /\ Len(p) \in Nat /\ Len(q) \in Nat
    BY ElementOfSeq, HeldFacts, PathTypes
  <1>4. Front(p) \in Seq(Nat) /\ Len(Front(p)) = Len(p) - 1
    BY ChildFacts
  <1>5. Len(stack[i].path) <= Len(p) - 1
    <2>1. CASE i = n
      BY <1>2, <1>3, <1>4, <2>1
    <2>2. CASE i < n
      <3>1. IsStrictPrefix(stack[i].path, Front(p))
        BY <1>1, <1>2, <2>2 DEF Nested
      <3>2. Len(stack[i].path) < Len(Front(p)) /\ Len(stack[i].path) \in Nat
        BY <1>3, <1>4, <3>1, PrefixFacts, LenFacts
      <3> QED BY <1>3, <1>4, <3>2
    <2> QED BY <1>1, <2>1, <2>2
  <1>6. Len(q) >= Len(p)
    <2>1. Below(q, p) => Len(p) < Len(q)
      BY <1>3, PrefixFacts DEF Below
    <2> QED BY <1>3, <2>1
  <1> QED BY <1>3, <1>5, <1>6

-----------------------------------------------------------------------------
(* Every step keeps all of it.                                             *)
IInv == Typed /\ Shape /\ StackShape

LEMMA InitKept == Init => IInv
  <1> SUFFICES ASSUME Init PROVE IInv
    OBVIOUS
  <1> DEFINE t0 == [op |-> "list", path |-> <<>>, isDir |-> TRUE]
             S  == Present(source)
  <1>1. source \in [Paths -> Kinds] /\ lower \in [Paths -> Kinds] /\ dest = lower
    <2>1. LowerKinds \cup {Absent} \subseteq Kinds /\ UpperKinds \cup {Absent} \subseteq Kinds
      BY DoubleWalkAssumption DEF Kinds
    <2>2. source \in [Paths -> UpperKinds \cup {Absent}] /\ lower \in [Paths -> LowerKinds \cup {Absent}] /\ dest = lower
      BY DEF Init, Trees
    <2> QED BY <2>1, <2>2
  <1>2. S \in SUBSET Paths
    BY DEF Present
  <1>3. /\ Sorted(S) \in Seq(S) /\ Cardinality(S) \in Nat /\ Len(Sorted(S)) = Cardinality(S)
        /\ \A i, j \in 1..Cardinality(S) : i < j => Before(Sorted(S)[i], Sorted(S)[j])
    BY <1>2, PathsSorted
  <1>4. Sorted(S) \in Seq(Paths)
    <2>1. \A i \in 1..Len(Sorted(S)) : Sorted(S)[i] \in Paths
      BY <1>2, <1>3, ElementOfSeq
    <2> QED BY <1>3, <2>1, SeqDef
  <1>5. /\ walk = [pc |-> "walk", todo |-> <<t0>>, at |-> Nil, err |-> "none"]
        /\ feed = [pc |-> "feed", rest |-> Sorted(S), err |-> "none"]
        /\ c1 = <<>> /\ c2 = <<>> /\ open1 = TRUE /\ open2 = TRUE
        /\ f1 = Nil /\ f2 = Nil /\ end1 = FALSE /\ end2 = FALSE
        /\ loop = "take" /\ change = [kind |-> "none", path |-> <<>>]
        /\ changes = <<>> /\ stack = <<>>
    BY DEF Init
  <1>6. t0 \in Item
    BY DEF Item
  <1> HIDE DEF S
  <1>7. Typed
    <2>1. walk \in Walks
      <3>1. <<t0>> \in Seq(Item)
        BY <1>6
      <3> HIDE DEF t0
      <3> QED BY <1>5, <3>1 DEF Walks, Pcs, Errs
    <2>2. feed \in Feeds
      BY <1>4, <1>5 DEF Feeds
    <2>3. c1 \in Seq(Named) /\ c2 \in Seq(Named) /\ f1 \in Named \cup {Nil} /\ f2 \in Named \cup {Nil}
      BY <1>5, EmptySeq
    <2>4. change \in [kind : Tells \cup {"none"}, path : Paths \cup {<<>>}]
      BY <1>5
    <2>5. changes \in Seq([kind : Tells, path : Paths]) /\ stack \in Seq(Held)
      BY <1>5, EmptySeq
    <2> QED BY <1>1, <1>5, <2>1, <2>2, <2>3, <2>4, <2>5 DEF Typed
  <1>8. WalkShape
    <2>1. \A i \in Nat, e \in Named : ~Wait(i, e)
      BY <1>5, EmptySeq DEF Wait
    <2>2. \A i \in Nat, t \in Item : Todo(i, t) => i = 1
      <3>1. walk.todo = <<t0>>
        BY <1>5
      <3> HIDE DEF t0
      <3>2. Len(walk.todo) = 1
        BY <3>1
      <3> QED BY <3>2 DEF Todo
    <2>3. TodoOrder
      BY <2>2 DEF TodoOrder
    <2>4. walk.pc = "walk"
      BY <1>5
    <2> QED BY <1>5, <2>1, <2>3, <2>4 DEF WalkShape, Sending, WaitOrder, SentFirst, Closed1
  <1>9. FeedShape
    <2>1. \A i \in Nat, e \in Named : ~Came(i, e)
      BY <1>5, EmptySeq DEF Came
    <2>2. feed.rest = Sorted(S)
      BY <1>5
    <2>3. RestOrder
      BY <1>3, <2>2 DEF RestOrder, Rest
    <2> QED BY <1>5, <2>1, <2>3 DEF FeedShape, CameOrder, CameFirst, Closed2
  <1>10. LoopShape
    <2>1. \A i \in Nat, c \in Telling : ~Says(i, c)
      BY <1>5, EmptySeq DEF Says
    <2>2. ChangesOrder /\ ToldPast
      BY <2>1 DEF ChangesOrder, ToldPast, Told
    <2>3. Fetched
      BY <1>5, NamedFacts DEF Fetched
    <2> QED BY <1>5, <2>2, <2>3 DEF LoopShape, AtEnd, Applying
  <1>11. StackShape
    <2>1. Len(stack) = 0 /\ stack = <<>>
      BY <1>5, EmptySeq
    <2> QED BY <1>5, <2>1 DEF StackShape, Nested, AllLive
  <1> QED BY <1>7, <1>8, <1>9, <1>10, <1>11 DEF IInv, Shape

LEMMA SameStack ==
    ASSUME StackShape, stack' = stack,
           loop' \in {"remove", "put"} => loop \in {"remove", "put"} /\ change' = change
    PROVE  StackShape'
  <1>1. Nested(stack') /\ AllLive(stack')
    BY DEF StackShape
  <1>2. Rooted /\ loop' \in {"remove", "put"} => AtTop(stack', Front(change'.path))
    BY DEF StackShape
  <1> QED BY <1>1, <1>2 DEF StackShape, Nested, AllLive, AtTop, Last, Front

(* The steps of the merge that move no entry.                              *)
LEMMA TypedStill ==
    ASSUME Typed, UNCHANGED <<source, walkVars, feedVars, f1, f2, change, changes>>,
           dest' \in [Paths -> Kinds], stack' \in Seq(Held),
           loop' \in {"take", "apply", "remove", "put", "done", "over"},
           loop' \in {"apply", "remove", "put"} => loop \in {"apply", "remove", "put"}
    PROVE  Typed'
  <1>1. walk' = walk /\ c1' = c1 /\ feed' = feed /\ c2' = c2
    BY DEF walkVars, feedVars
  <1> QED BY <1>1 DEF Typed

LEMMA SidesKept ==
    ASSUME IInv, Walk \/ Feed
    PROVE  IInv'
  <1>0. Typed /\ WalkShape /\ FeedShape /\ LoopShape /\ StackShape
    BY DEF IInv, Shape
  <1>1. CASE Walk
    <2>1. /\ WalkTyped' /\ WalkShape' /\ \A x \in Seq(Nat) : LowerRest(x) => LowerRest(x)'
          /\ ~open1 => c1' = c1 /\ ~open1'
          /\ UNCHANGED <<source, lower, dest, feedVars, loopVars, canceled>>
      BY <1>0, <1>1, WalkKept DEF WalkKeeps
    <2>2. /\ UNCHANGED <<f1, f2, end1, end2, loop, change, changes>> /\ stack' = stack
          /\ feed' = feed /\ c2' = c2 /\ open2' = open2 /\ source' = source /\ dest' = dest
      BY <2>1 DEF loopVars, feedVars
    <2>3. FeedShape' /\ \A x \in Seq(Nat) : UpperRest(x) => UpperRest(x)'
      BY <1>0, <2>1, SameFeed
    <2>4. LoopShape'
      BY <1>0, <2>1, <2>2, <2>3, SidesMove
    <2>5. Typed'
      BY <1>0, <2>1, <2>2 DEF Typed, WalkTyped
    <2>6. StackShape'
      BY <1>0, <2>2, SameStack
    <2> QED BY <2>1, <2>3, <2>4, <2>5, <2>6 DEF IInv, Shape
  <1>2. CASE Feed
    <2>1. /\ FeedTyped' /\ FeedShape' /\ \A x \in Seq(Nat) : UpperRest(x) => UpperRest(x)'
          /\ ~open2 => c2' = c2 /\ ~open2'
          /\ UNCHANGED <<source, lower, dest, walkVars, loopVars, canceled>>
      BY <1>0, <1>2, FeedKept
    <2>2. /\ UNCHANGED <<f1, f2, end1, end2, loop, change, changes>> /\ stack' = stack
          /\ walk' = walk /\ c1' = c1 /\ open1' = open1 /\ source' = source /\ dest' = dest
      BY <2>1 DEF loopVars, walkVars
    <2>3. WalkShape' /\ \A x \in Seq(Nat) : LowerRest(x) => LowerRest(x)'
      BY <1>0, <2>1, SameWalk
    <2>4. LoopShape'
      BY <1>0, <2>1, <2>2, <2>3, SidesMove
    <2>5. Typed'
      BY <1>0, <2>1, <2>2 DEF Typed, FeedTyped
    <2>6. StackShape'
      BY <1>0, <2>2, SameStack
    <2> QED BY <2>1, <2>3, <2>4, <2>5, <2>6 DEF IInv, Shape
  <1> QED BY <1>1, <1>2

LEMMA TakesKept ==
    ASSUME IInv, TakeLower \/ TakeUpper, source' = source
    PROVE  IInv'
  <1>0. Typed /\ Shape /\ StackShape
    BY DEF IInv
  <1>1. /\ Shape' /\ c1' \in Seq(Named) /\ c2' \in Seq(Named)
        /\ f1' \in Named \cup {Nil} /\ f2' \in Named \cup {Nil}
    <2>1. CASE TakeLower
      BY <1>0, <2>1, TakeLowerKept DEF TakeLower, feedVars, Typed
    <2>2. CASE TakeUpper
      BY <1>0, <2>2, TakeUpperKept DEF TakeUpper, walkVars, Typed
    <2> QED BY <2>1, <2>2
  <1>2. UNCHANGED <<dest, walk, feed, loop, change, changes, stack>>
    BY DEF TakeLower, TakeUpper, walkVars, feedVars
  <1>3. Typed'
    BY <1>0, <1>1, <1>2 DEF Typed
  <1>4. StackShape'
    BY <1>0, <1>2, SameStack
  <1> QED BY <1>1, <1>3, <1>4 DEF IInv

LEMMA CompareAllKept ==
    ASSUME IInv, Compare, source' = source
    PROVE  IInv'
  <1>0. Typed /\ Shape /\ StackShape
    BY DEF IInv
  <1>1. /\ Shape' /\ f1' \in {f1, Nil} /\ f2' \in {f2, Nil}
        /\ UNCHANGED <<dest, walkVars, feedVars, stack>>
    BY <1>0, CompareKept
  <1>2. PICK p \in Paths, k \in Tells : CompareSays(p, k)
    BY <1>0, CompareKept
  <1>3. /\ loop' \in {"take", "apply"}
        /\ change' \in [kind : Tells \cup {"none"}, path : Paths \cup {<<>>}]
        /\ loop' = "apply" => change'.path \in Paths /\ change'.kind \in Tells
        /\ changes' \in Seq([kind : Tells, path : Paths])
    <2>1. CASE loop' = "take" /\ UNCHANGED <<change, changes>>
      BY <1>0, <2>1 DEF Typed
    <2>2. ASSUME NEW c, c = [kind |-> k, path |-> p],
                 loop' = "apply", change' = c, changes' = Append(changes, c)
          PROVE  /\ change' \in [kind : Tells \cup {"none"}, path : Paths \cup {<<>>}]
                 /\ change'.path \in Paths /\ change'.kind \in Tells
                 /\ changes' \in Seq([kind : Tells, path : Paths])
      <3>1. c \in [kind : Tells, path : Paths] /\ c.path = p /\ c.kind = k
        BY <2>2
      <3>2. changes \in Seq([kind : Tells, path : Paths])
        BY <1>0 DEF Typed
      <3>3. changes' \in Seq([kind : Tells, path : Paths])
        BY <2>2, <3>1, <3>2, AppendProperties
      <3> QED BY <2>2, <3>1, <3>3
    <2> QED BY <1>2, <2>1, <2>2 DEF CompareSays
  <1>4. walk' = walk /\ c1' = c1 /\ feed' = feed /\ c2' = c2
    BY <1>1 DEF walkVars, feedVars
  <1>5. Typed'
    BY <1>0, <1>1, <1>3, <1>4 DEF Typed
  <1>6. StackShape'
    BY <1>0, <1>1, <1>3, SameStack
  <1> QED BY <1>1, <1>5, <1>6 DEF IInv

LEMMA AppliesKept ==
    ASSUME IInv, ApplyStarts, source' = source
    PROVE  IInv'
  <1>0. Typed /\ Shape /\ StackShape /\ loop = "apply"
    BY DEF IInv, ApplyStarts
  <1> DEFINE dir == Front(change.path)
  <1>1. /\ UNCHANGED <<dest, walkVars, feedVars, f1, f2, end1, end2, change, changes>>
        /\ loop' \in {"done", "remove", "put"}
        /\ ~Rooted => stack' = stack
        /\ Rooted => \/ loop' = "done" /\ stack' \in {stack, Fitting(dir)}
                     \/ stack' = Opened(dir)
    BY DEF ApplyStarts, LoopFails
  <1>2. stack \in Seq(Held) /\ Nested(stack) /\ AllLive(stack) /\ dir \in Seq(Nat) /\ dir \in Paths \cup {<<>>}
    <2>1. change.path \in Paths
      BY <1>0 DEF Typed
    <2> QED BY <1>0, <2>1, ChildFacts, DoubleWalkAssumption DEF Typed, StackShape
  <1> HIDE DEF dir
  <1>3. /\ stack' \in Seq(Held) /\ Nested(stack') /\ AllLive(stack')
        /\ ~Rooted => stack' = <<>>
        /\ Rooted /\ loop' \in {"remove", "put"} => AtTop(stack', dir)
    <2>1. CASE ~Rooted
      BY <1>0, <1>1, <1>2, <2>1 DEF StackShape
    <2>2. CASE Rooted /\ loop' = "done" /\ stack' \in {stack, Fitting(dir)}
      BY <1>2, <2>2, FittingFacts
    <2>3. CASE Rooted /\ stack' = Opened(dir)
      BY <1>2, <2>3, OpenedFacts
    <2> QED BY <1>1, <2>1, <2>2, <2>3
  <1>4. Shape'
    BY <1>0, <1>1, Elsewhere DEF IInv
  <1>5. dest \in [Paths -> Kinds]
    BY <1>0 DEF Typed
  <1>6. Typed'
    BY <1>0, <1>1, <1>3, <1>5, TypedStill
  <1>7. dir = Front(change'.path)
    BY <1>1 DEF dir
  <1>8. StackShape'
    BY <1>3, <1>7 DEF StackShape, Nested, AllLive, AtTop, Last, Front
  <1> QED BY <1>4, <1>6, <1>8 DEF IInv

LEMMA RemoveKept ==
    ASSUME IInv, RemoveOne, source' = source
    PROVE  IInv'
  <1>0. Typed /\ Shape /\ StackShape /\ loop = "remove"
    BY DEF IInv, RemoveOne
  <1>1. /\ UNCHANGED <<walkVars, feedVars, f1, f2, end1, end2, loop, change, changes>>
    BY DEF RemoveOne
  <1>2. PICK q \in Paths :
          /\ q = change.path \/ Below(q, change.path)
          /\ dest' = [dest EXCEPT ![q] = Absent]
          /\ stack' = [i \in DOMAIN stack |-> [stack[i] EXCEPT !.live = @ /\ stack[i].path # q]]
    BY DEF RemoveOne, Present
  <1>3. change.path \in Paths /\ stack \in Seq(Held) /\ dest \in [Paths -> Kinds]
    BY <1>0 DEF Typed
  <1>4. Len(stack) \in Nat /\ DOMAIN stack = 1..Len(stack) /\ \A i \in 1..Len(stack) : stack[i] \in Held
    BY <1>3, LenProperties, ElementOfSeq
  <1>5. \A i \in 1..Len(stack) : stack[i].path # q /\ stack[i].live
    <2>1. CASE Rooted
      BY <1>0, <1>2, <1>3, <2>1, NotOnStack DEF StackShape, AllLive
    <2>2. CASE ~Rooted
      BY <1>0, <2>2, EmptySeq DEF StackShape
    <2> QED BY <2>1, <2>2
  <1>6. \A i \in 1..Len(stack) : LET h == [stack[i] EXCEPT !.live = @ /\ stack[i].path # q]
                                 IN h \in Held /\ h.path = stack[i].path /\ h.live
    <2> SUFFICES ASSUME NEW i \in 1..Len(stack), NEW g, g = stack[i]
                 PROVE  LET h == [g EXCEPT !.live = @ /\ g.path # q] IN h \in Held /\ h.path = g.path /\ h.live
      OBVIOUS
    <2>1. g \in Held /\ g.path # q /\ g.live
      BY <1>4, <1>5
    <2>2. (g.live /\ g.path # q) = TRUE
      BY <2>1
    <2> QED BY <2>1, <2>2 DEF Held
  <1>7. /\ stack' \in Seq(Held) /\ Len(stack') = Len(stack)
        /\ \A i \in 1..Len(stack) : stack'[i].path = stack[i].path /\ stack'[i].live
    <2>1. stack' \in [1..Len(stack) -> Held]
      BY <1>2, <1>4, <1>6
    <2>2. stack' \in Seq(Held)
      BY <1>4, <2>1, SeqDef
    <2>3. Len(stack') = Len(stack)
      BY <1>4, <2>1, <2>2, LenProperties
    <2> QED BY <1>2, <1>4, <1>6, <2>2, <2>3
  <1>8. Nested(stack') /\ AllLive(stack')
    BY <1>0, <1>7 DEF StackShape, Nested, AllLive
  <1>9. (stack = <<>>) <=> (stack' = <<>>)
    BY <1>3, <1>7, EmptySeq
  <1>10. Rooted => AtTop(stack', Front(change'.path))
    <2>1. Rooted => AtTop(stack, Front(change.path))
      BY <1>0 DEF StackShape
    <2>2. stack # <<>> => Last(stack').path = Last(stack).path
      <3>1. stack # <<>> => Len(stack) \in 1..Len(stack)
        BY <1>3, <1>4, EmptySeq
      <3> QED BY <1>7, <3>1 DEF Last
    <2> QED BY <1>1, <1>9, <2>1, <2>2 DEF AtTop
  <1>11. Shape'
    BY <1>0, <1>1, Elsewhere
  <1>12. dest' \in [Paths -> Kinds]
    BY <1>2, <1>3 DEF Kinds
  <1>13. Typed'
    BY <1>0, <1>1, <1>7, <1>12, TypedStill
  <1>14. StackShape'
    BY <1>0, <1>8, <1>9, <1>10 DEF StackShape, Nested, AllLive, AtTop, Last, Front
  <1> QED BY <1>11, <1>13, <1>14 DEF IInv

LEMMA OthersKept ==
    ASSUME IInv, source' = source,
           TakeCanceled \/ LoopEnds \/ RemoveEnds \/ Put \/ LoopReturns \/ Cancel \/ UNCHANGED vars
    PROVE  IInv'
  <1>0. Typed /\ Shape /\ StackShape /\ dest \in [Paths -> Kinds] /\ source \in [Paths -> Kinds]
    BY DEF IInv, Typed
  <1>1. UNCHANGED <<walkVars, feedVars, f1, f2, end1, end2, change, changes>> /\ stack' = stack
    BY DEF TakeCanceled, LoopEnds, RemoveEnds, Put, LoopReturns, Cancel, vars, loopVars
  <1>2. /\ loop' \in {"take", "apply", "remove", "put", "done", "over"}
        /\ loop' \in {"apply", "remove", "put"} => loop \in {"apply", "remove", "put"}
        /\ loop' \in {"remove", "put"} => loop \in {"remove", "put"}
    BY <1>0 DEF TakeCanceled, LoopEnds, LoopFails, RemoveEnds, Put, LoopReturns, Cancel, vars, loopVars, Typed
  <1>3. dest' \in [Paths -> Kinds]
    <2>1. CASE Put
      <3>1. change.path \in Paths
        BY <1>0, <2>1 DEF Put, Typed
      <3>2. source[change.path] \in Kinds
        BY <1>0, <3>1
      <3> QED BY <1>0, <2>1, <3>1, <3>2 DEF Put
    <2>2. CASE ~Put
      <3>1. dest' = dest
        BY <2>2 DEF TakeCanceled, LoopEnds, RemoveEnds, LoopReturns, Cancel, vars
      <3> QED BY <1>0, <3>1
    <2> QED BY <2>1, <2>2
  <1>4. stack' \in Seq(Held)
    BY <1>0, <1>1 DEF Typed
  <1>5. Typed'
    BY <1>0, <1>1, <1>2, <1>3, <1>4, TypedStill
  <1>6. Shape'
    BY <1>0, <1>1, <1>2, Elsewhere
  <1>7. StackShape'
    BY <1>0, <1>1, <1>2, SameStack
  <1> QED BY <1>5, <1>6, <1>7 DEF IInv

LEMMA AllKept == IInv /\ [Next]_vars => IInv'
  <1> SUFFICES ASSUME IInv, [Next]_vars PROVE IInv'
    OBVIOUS
  <1>1. CASE Walk \/ Feed
    BY <1>1, SidesKept
  <1>2. CASE Loop
    <2>1. source' = source
      BY <1>2 DEF Loop, LoopReturns
    <2>2. \/ TakeLower \/ TakeUpper \/ Compare \/ ApplyStarts \/ RemoveOne
          \/ TakeCanceled \/ LoopEnds \/ RemoveEnds \/ Put \/ LoopReturns
      BY <1>2 DEF Loop
    <2> QED BY <2>1, <2>2, TakesKept, CompareAllKept, AppliesKept, RemoveKept, OthersKept
  <1>3. CASE Cancel
    <2>1. source' = source
      BY <1>3 DEF Cancel
    <2> QED BY <1>3, <2>1, OthersKept
  <1>4. CASE Over \/ UNCHANGED vars
    <2>1. UNCHANGED vars /\ source' = source
      BY <1>4 DEF Over, vars
    <2> QED BY <2>1, OthersKept
  <1> QED BY <1>1, <1>2, <1>3, <1>4 DEF Next

-----------------------------------------------------------------------------
(* Changes come in the order of ComparePath, never twice for a path        *)
(* (diff_containerd.go:81-158), although the tree changes under the walk   *)
(* they are computed from.                                                 *)
THEOREM InOrderHolds == Spec => []InOrder
  <1>1. IInv => InOrder
    <2> SUFFICES ASSUME IInv, NEW i \in DOMAIN changes, NEW j \in DOMAIN changes, i < j
                 PROVE  Before(changes[i].path, changes[j].path)
      BY DEF InOrder
    <2>1. changes \in Seq(Telling)
      BY DEF IInv, Typed, Telling
    <2>2. /\ i \in 1..Len(changes) /\ j \in 1..Len(changes) /\ i \in Nat /\ j \in Nat
          /\ changes[i] \in Telling /\ changes[j] \in Telling
      BY <2>1, LenProperties, ElementOfSeq
    <2>3. Says(i, changes[i]) /\ Says(j, changes[j])
      BY <2>2 DEF Says
    <2> QED BY <2>2, <2>3 DEF IInv, Shape, LoopShape, ChangesOrder
  <1> QED BY <1>1, InitKept, AllKept, PTL DEF Spec

(* The writer creates nothing in a directory that the walk has still to    *)
(* list (diskwriter.go:145-151, diff.go:33-65): what it applies was told,  *)
(* and the walk is past whatever was told.                                 *)
THEOREM CreatesBehindWalkHolds == Spec => []CreatesBehindWalk
  <1>1. IInv => CreatesBehindWalk
    <2> SUFFICES ASSUME IInv, loop = "put", Walking, NEW i \in DOMAIN walk.todo, walk.todo[i].isDir,
                        IsPrefix(walk.todo[i].path, Front(change.path))
                 PROVE  FALSE
      BY DEF CreatesBehindWalk, Walking
    <2>1. PICK x \in Paths : change.path = x /\ Told(x)
      BY DEF IInv, Shape, LoopShape, Applying
    <2>2. LowerRest(x)
      BY <2>1 DEF IInv, Shape, LoopShape, ToldPast, LowerPast
    <2>3. walk.todo \in Seq(Item)
      BY WalkRecord DEF IInv
    <2>4. i \in Nat /\ i \in 1..Len(walk.todo) /\ walk.todo[i] \in Item
      BY <2>3, LenProperties, ElementOfSeq
    <2>5. PICK t \in Item : t = walk.todo[i] /\ Todo(i, t)
      BY <2>4 DEF Todo
    <2>6. Past(x, t)
      BY <2>2, <2>4, <2>5 DEF LowerRest
    <2>7. /\ t.path \in Seq(Nat) /\ x \in Seq(Nat) /\ Front(x) \in Seq(Nat)
          /\ IsStrictPrefix(Front(x), x) /\ IsPrefix(t.path, Front(x))
      BY <2>1, <2>5, NamedFacts, PathIsSeq, ChildFacts
    <2>8. IsStrictPrefix(t.path, x)
      BY <2>7, PrefixTransitive DEF IsStrictPrefix
    <2>9. Before(t.path, x)
      BY <2>8, BeforeIs
    <2>10. Before(x, x)
      BY <2>6, <2>7, <2>9, BeforeTransitive DEF Past
    <2> QED BY <2>7, <2>10, BeforeIrreflexive
  <1> QED BY <1>1, InitKept, AllKept, PTL DEF Spec

(* The rootStack's items nest, none is a directory that was removed, and   *)
(* the directory of the change being applied is on top                     *)
(* (rootstack.go:26-52).                                                   *)
THEOREM StackFreshHolds == Spec => []StackFresh
  <1>1. IInv => StackFresh
    <2> SUFFICES ASSUME IInv PROVE StackFresh
      OBVIOUS
    <2>1. stack \in Seq(Held) /\ StackShape
      BY DEF IInv, Typed
    <2>2. DOMAIN stack = 1..Len(stack)
      BY <2>1, LenProperties
    <2> QED BY <2>1, <2>2 DEF StackFresh, StackShape, Nested, AllLive
  <1> QED BY <1>1, InitKept, AllKept, PTL DEF Spec

-----------------------------------------------------------------------------
(* What is removed.  As long as the walk does not fail, whoever stops      *)
(* early has been told so by the caller, or the merge is over: the end of  *)
(* the source's entries is then the end of the source.                     *)
Lost   == walk.err = "walk"
Halted == (walk.err # "none" => ~Walking) /\ (Lost => "walk" \in Faults)
Reason == gErr # "none" \/ walk.err # "none" \/ feed.err # "none" => canceled \/ loop = "over" \/ Lost

(* Every entry of the source is still to come, or the walk is past it.     *)
Pending(p) == \/ \E i \in Nat : Rest(i, p)
              \/ \E i \in Nat, e \in Named : Came(i, e) /\ e.path = p
              \/ \E e \in Named : f2 = e /\ e.path = p
RestDone == feed.err = "none" /\ ~Feeding => feed.rest = <<>>
Complete == feed.err = "none" => \A p \in Paths : source[p] # Absent => LowerPast(p) \/ Pending(p)

Supplied == Halted /\ Reason /\ RestDone /\ Complete

(* The change at p, and what it waits for.                                 *)
TreeLike(t) == \A p \in Paths : t[p] # Absent => Front(p) = <<>> \/ (Front(p) \in Paths /\ IsDir(t[Front(p)]))
Differ(p)   == IsDir(dest[p]) # IsDir(source[p])

ApplyShape(p) ==
    /\ loop = "apply" /\ change.kind = "delete" => canceled \/ Lost \/ source[p] = Absent
    /\ loop = "remove" /\ change.kind = "delete" => Lost \/ source[p] = Absent
    /\ loop = "remove" /\ change.kind # "delete" => (dest[p] = Absent \/ Differ(p)) /\ HasDir(dest, Front(p))
    /\ loop = "put" => (dest[p] = Absent \/ ~Differ(p)) /\ HasDir(dest, Front(p))

TreeShape ==
    /\ TreeLike(source) /\ TreeLike(dest)
    /\ \A p \in Paths : change.path = p => ApplyShape(p)

KInv == IInv /\ Supplied /\ TreeShape

LEMMA FrontIn == \A p \in Paths : Front(p) = <<>> \/ Front(p) \in Paths
  BY DoubleWalkAssumption

(* To begin with everything the source holds is to be fed.                 *)
LEMMA AllFed ==
    ASSUME Init, NEW p \in Paths, source[p] # Absent
    PROVE  \E i \in Nat : Rest(i, p)
  <1>0. Present(source) \in SUBSET Paths /\ p \in Present(source)
    BY DEF Present
  <1>1. PICK S \in SUBSET Paths : S = Present(source) /\ p \in S
    BY <1>0
  <1>2. PICK i \in 1..Cardinality(S) : Sorted(S)[i] = p
    BY <1>1, AllSorted
  <1>3. Len(Sorted(S)) = Cardinality(S) /\ Cardinality(S) \in Nat
    BY PathsSorted
  <1>4. feed.rest = Sorted(S)
    BY <1>1 DEF Init
  <1> QED BY <1>2, <1>3, <1>4 DEF Rest

LEMMA KInit == Init => KInv
  <1> SUFFICES ASSUME Init PROVE KInv
    OBVIOUS
  <1>1. IInv
    BY InitKept
  <1>2. Halted /\ Reason /\ RestDone
    BY DEF Init, Halted, Lost, Reason, RestDone, Feeding
  <1>3. Complete
    BY AllFed DEF Complete, Pending
  <1>4. TreeShape
    <2>1. TreeLike(source) /\ TreeLike(dest)
      <3>1. \A p \in Paths : source[p] # Absent => Front(p) = <<>> \/ IsDir(source[Front(p)])
        BY DEF Init, Trees
      <3>2. \A p \in Paths : lower[p] # Absent => Front(p) = <<>> \/ IsDir(lower[Front(p)])
        BY DEF Init, Trees
      <3>3. dest = lower
        BY DEF Init
      <3> QED BY <3>1, <3>2, <3>3, FrontIn DEF TreeLike
    <2> QED BY <2>1 DEF Init, TreeShape, ApplyShape
  <1> QED BY <1>1, <1>2, <1>3, <1>4 DEF KInv, Supplied

LEMMA SourceStays == [Next]_vars => source' = source /\ (canceled => canceled')
  BY DEF Next, Walk, WalkReturns, Feed, FeedReturns, Loop, LoopReturns, Cancel, Over, vars

LEMMA WalkErrs ==
    ASSUME Typed, Halted, [Next]_vars
    PROVE  /\ Halted' /\ (walk.err # "none" => walk'.err = walk.err)
           /\ walk'.err # "none" => walk.err # "none" \/ ctxDone \/ Lost'
  <1>1. walk \in Walks
    BY DEF Typed
  <1>2. CASE WalkCanceled \/ WalkEnds \/ WalkFails
    <2>1. PICK e \in {"canceled", "walk", "none"} : walk' = [walk EXCEPT !.pc = "close", !.err = e]
      BY <1>2 DEF WalkCanceled, WalkEnds, WalkFails, WalkStops
    <2>2. walk'.pc = "close" /\ walk'.err = e /\ walk.err = "none"
      BY <1>1, <1>2, <2>1 DEF Walks, Halted, Walking, WalkCanceled, WalkEnds, WalkFails
    <2>3. e = "walk" => "walk" \in Faults
      <3>1. WalkFails => "walk" \in Faults
        BY DEF WalkFails
      <3>2. WalkCanceled \/ WalkEnds => walk'.err # "walk"
        BY <1>1 DEF WalkCanceled, WalkEnds, WalkStops, Walks
      <3> QED BY <1>2, <2>2, <3>1, <3>2
    <2>4. e = "canceled" => ctxDone
      <3>1. WalkEnds \/ WalkFails => walk'.err # "canceled"
        BY <1>1 DEF WalkEnds, WalkFails, WalkStops, Walks
      <3> QED BY <1>2, <2>2, <3>1 DEF WalkCanceled
    <2> QED BY <2>2, <2>3, <2>4 DEF Halted, Lost, Walking
  <1>3. CASE WalkLists \/ WalkVisits \/ WalkSends
    <2>1. \/ \E t : walk' = [walk EXCEPT !.todo = t]
          \/ \E e : walk' = [walk EXCEPT !.pc = "send", !.at = e]
          \/ \E t : walk' = [walk EXCEPT !.pc = "walk", !.at = Nil, !.todo = t]
      BY <1>3 DEF WalkLists, WalkVisits, WalkSends
    <2>2. walk'.err = walk.err /\ Walking
      BY <1>1, <1>3, <2>1 DEF Walks, WalkLists, WalkVisits, WalkSends, Walking
    <2> QED BY <2>2 DEF Halted, Lost
  <1>4. CASE WalkCloses \/ WalkReturns
    <2>1. PICK l \in {"return", "done"} : walk' = [walk EXCEPT !.pc = l]
      BY <1>4 DEF WalkCloses, WalkReturns
    <2>2. walk'.err = walk.err /\ walk'.pc = l
      BY <1>1, <2>1 DEF Walks
    <2> QED BY <2>2 DEF Halted, Lost, Walking
  <1>5. CASE walk' = walk
    BY <1>5 DEF Halted, Lost, Walking
  <1>6. walk' = walk \/ Walk
    BY DEF Next, Feed, FeedReturns, Loop, TakeLower, TakeUpper, TakeCanceled, LoopEnds, Compare, ApplyStarts, RemoveOne,
           RemoveEnds, Put, LoopReturns, Cancel, Over, vars, walkVars
  <1> QED BY <1>2, <1>3, <1>4, <1>5, <1>6 DEF Walk

LEMMA ReasonKept ==
    ASSUME Typed, Halted, Reason, [Next]_vars
    PROVE  Reason'
  <1>1. ctxDone => canceled \/ loop = "over" \/ Lost
    BY DEF ctxDone, Reason
  <1>l. Lost => Lost'
    BY WalkErrs DEF Lost
  <1>2. canceled => canceled'
    BY SourceStays
  <1>3. CASE Walk
    <2>1. canceled' = canceled /\ loop' = loop /\ feed' = feed
      BY <1>3 DEF Walk, WalkReturns, loopVars, feedVars
    <2>2. gErr' \in {gErr, walk.err}
      BY <1>3 DEF Walk, WalkReturns, First
    <2>3. walk'.err # "none" => walk.err # "none" \/ ctxDone \/ Lost'
      BY WalkErrs
    <2> QED BY <1>1, <1>l, <2>1, <2>2, <2>3 DEF Reason
  <1>4. CASE Feed
    <2>1. canceled' = canceled /\ loop' = loop /\ walk' = walk
      BY <1>4 DEF Feed, FeedReturns, loopVars, walkVars
    <2>2. gErr' \in {gErr, feed.err}
      BY <1>4 DEF Feed, FeedReturns, First
    <2>3. feed'.err = feed.err \/ ctxDone
      <3>1. feed \in Feeds
        BY DEF Typed
      <3>2. \/ \E s : feed' = [feed EXCEPT !.rest = s]
            \/ \E l : feed' = [feed EXCEPT !.pc = l]
            \/ ctxDone
        BY <1>4 DEF Feed, FeedSends, FeedStops, FeedCloses, FeedReturns
      <3> QED BY <3>1, <3>2 DEF Feeds
    <2> QED BY <1>1, <1>l, <2>1, <2>2, <2>3 DEF Reason
  <1>5. CASE Loop
    <2>1. walk' = walk /\ feed' = feed
      BY <1>5 DEF Loop, TakeLower, TakeUpper, TakeCanceled, LoopEnds, Compare, ApplyStarts, RemoveOne, RemoveEnds,
                  Put, LoopReturns, walkVars, feedVars
    <2>2. loop' = "over" \/ (gErr' = gErr /\ loop # "over")
      BY <1>5 DEF Loop, TakeLower, TakeUpper, TakeCanceled, LoopEnds, Compare, Taken, ApplyStarts, RemoveOne, RemoveEnds,
                  Put, LoopReturns
    <2> QED BY <1>2, <1>l, <2>1, <2>2 DEF Reason
  <1>6. CASE Cancel
    BY <1>6 DEF Cancel, Reason, Lost, walkVars
  <1>7. CASE Over \/ UNCHANGED vars
    BY <1>7 DEF Over, vars, Reason, Lost, loopVars, walkVars, feedVars
  <1> QED BY <1>3, <1>4, <1>5, <1>6, <1>7 DEF Next

(* The source's entries move on, and none is lost.                         *)
LEMMA FeedSupplies ==
    ASSUME Typed, RestDone, Complete, Feed, source' = source, UNCHANGED <<walkVars, f1, f2>>, WalkShape
    PROVE  RestDone' /\ Complete' /\ \A q \in Paths : Pending(q) => Pending(q)'
  <1>1. \A x \in Seq(Nat) : LowerPast(x)' <=> LowerPast(x)
    BY SameWalk DEF LowerPast
  <1>2. feed \in Feeds /\ c2 \in Seq(Named)
    BY DEF Typed
  <1>3. CASE FeedSends
    <2>1. /\ feed.pc = "feed" /\ feed.rest # <<>> /\ feed.rest \in Seq(Paths)
          /\ feed' = [feed EXCEPT !.rest = Tail(feed.rest)]
          /\ c2' = Append(c2, Entry(Head(feed.rest), source[Head(feed.rest)]))
      BY <1>3, FeedRecord DEF FeedSends
    <2>2. feed'.rest = Tail(feed.rest) /\ feed'.err = feed.err /\ feed'.pc = "feed"
      BY <1>2, <2>1 DEF Feeds
    <2>3. PICK p \in Paths, e \in Named : p = Head(feed.rest) /\ e = Entry(p, source[p]) /\ e.path = p
      <3>1. Head(feed.rest) \in Paths
        BY <2>1, TailFacts
      <3>2. source[Head(feed.rest)] \in Kinds
        BY <3>1 DEF Typed
      <3> QED BY <3>1, <3>2, NamedFacts
    <2>4. ASSUME NEW q \in Paths, NEW i \in Nat, Rest(i, q) PROVE q = p \/ \E j \in Nat : Rest(j, q)'
      <3>1. i \in 1..Len(feed.rest) /\ feed.rest[i] = q /\ Len(feed.rest) \in Nat /\ Head(feed.rest) = feed.rest[1]
        BY <2>1, <2>4, LenProperties DEF Rest
      <3>2. Len(Tail(feed.rest)) = Len(feed.rest) - 1 /\ \A j \in 1..Len(Tail(feed.rest)) : Tail(feed.rest)[j] = feed.rest[j + 1]
        BY <2>1, HeadTailProperties
      <3>3. CASE i = 1
        BY <2>3, <3>1, <3>3
      <3>4. CASE i # 1
        <4>1. i - 1 \in 1..Len(Tail(feed.rest)) /\ (i - 1) + 1 = i /\ i - 1 \in Nat
          BY <3>1, <3>2, <3>4
        <4>2. Tail(feed.rest)[i - 1] = q
          BY <3>1, <3>2, <4>1
        <4>3. Rest(i - 1, q)'
          BY <2>2, <4>1, <4>2 DEF Rest
        <4> QED BY <4>1, <4>3
      <3> QED BY <3>3, <3>4
    <2>5. /\ Len(c2) \in Nat /\ Len(c2') = Len(c2) + 1
          /\ \A i \in 1..(Len(c2) + 1) : (i \in 1..Len(c2) /\ c2'[i] = c2[i]) \/ (i = Len(c2) + 1 /\ c2'[i] = e)
      BY <1>2, <2>1, <2>3, AppendFacts
    <2>6. \A i \in Nat, d \in Named : Came(i, d) => Came(i, d)'
      <3> SUFFICES ASSUME NEW i \in Nat, NEW d \in Named, Came(i, d) PROVE Came(i, d)'
        OBVIOUS
      <3>1. i \in 1..Len(c2) /\ i \in 1..(Len(c2) + 1) /\ i # Len(c2) + 1 /\ c2[i] = d
        BY <2>5 DEF Came
      <3> QED BY <2>5, <3>1 DEF Came
    <2>7. \E i \in Nat : Came(i, e)'
      <3>0. PICK n \in Nat : n = Len(c2) + 1
        BY <2>5
      <3>1. n \in 1..(Len(c2) + 1) /\ ~(n \in 1..Len(c2))
        BY <2>5, <3>0
      <3>2. n \in 1..Len(c2') /\ c2'[n] = e
        BY <2>5, <3>0, <3>1
      <3>3. Came(n, e)'
        BY <3>2 DEF Came
      <3> QED BY <3>3
    <2>8. ASSUME NEW q \in Paths, Pending(q) PROVE Pending(q)'
      <3>1. CASE q = p
        BY <2>3, <2>7, <3>1 DEF Pending
      <3>2. CASE \E i \in Nat : Rest(i, q)
        BY <2>4, <3>1, <3>2 DEF Pending
      <3>3. CASE \E i \in Nat, d \in Named : Came(i, d) /\ d.path = q
        BY <2>6, <3>3 DEF Pending
      <3>4. CASE \E d \in Named : f2 = d /\ d.path = q
        BY <3>4 DEF Pending
      <3> QED BY <2>8, <3>2, <3>3, <3>4 DEF Pending
    <2>9. Complete'
      BY <1>1, <2>2, <2>8, PathIsSeq DEF Complete
    <2> QED BY <2>2, <2>8, <2>9 DEF RestDone, Feeding
  <1>4. CASE FeedStops \/ FeedCloses \/ FeedReturns
    <2>1. c2' = c2
      BY <1>4 DEF FeedStops, FeedCloses, FeedReturns
    <2>2. feed'.rest = feed.rest /\ (feed'.err = "none" => feed.err = "none" /\ (~Feeding \/ feed.rest = <<>>))
      <3>1. CASE FeedStops
        <4>1. \/ feed.rest = <<>> /\ feed' = [feed EXCEPT !.pc = "close"]
              \/ feed' = [feed EXCEPT !.pc = "close", !.err = "canceled"]
          BY <3>1 DEF FeedStops
        <4> QED BY <1>2, <4>1 DEF Feeds
      <3>2. CASE FeedCloses \/ FeedReturns
        <4>1. (\E l : feed' = [feed EXCEPT !.pc = l]) /\ ~Feeding
          BY <3>2 DEF FeedCloses, FeedReturns, Feeding
        <4> QED BY <1>2, <4>1 DEF Feeds
      <3> QED BY <1>4, <3>1, <3>2
    <2>3. RestDone'
      BY <2>2 DEF RestDone
    <2>4. \A q \in Paths : Pending(q) => Pending(q)'
      BY <2>1, <2>2 DEF Pending, Came, Rest
    <2>5. Complete'
      BY <1>1, <2>2, <2>4, PathIsSeq DEF Complete
    <2> QED BY <2>3, <2>4, <2>5
  <1> QED BY <1>3, <1>4 DEF Feed

LEMMA TakeUpperSupplies ==
    ASSUME IInv, Complete, TakeUpper, source' = source
    PROVE  Complete' /\ \A q \in Paths : Pending(q) => Pending(q)'
  <1>1. /\ Typed /\ WalkShape /\ c2 \in Seq(Named)
        /\ UNCHANGED <<walkVars, feed, f1>> /\ f2 = Nil
        /\ \/ c2 # <<>> /\ f2' = Head(c2) /\ c2' = Tail(c2)
           \/ f2' = f2 /\ c2' = c2
    BY DEF TakeUpper, IInv, Typed, Shape
  <1>2. \A x \in Seq(Nat) : LowerPast(x)' <=> LowerPast(x)
    BY <1>1, SameWalk DEF LowerPast
  <1>3. ASSUME NEW q \in Paths, Pending(q) PROVE Pending(q)'
    <2>1. CASE \E i \in Nat : Rest(i, q)
      BY <1>1, <2>1 DEF Pending, Rest
    <2>2. ASSUME NEW i \in Nat, NEW d \in Named, Came(i, d), d.path = q PROVE Pending(q)'
      <3>1. CASE f2' = f2 /\ c2' = c2
        BY <2>2, <3>1 DEF Pending, Came
      <3>2. CASE c2 # <<>> /\ f2' = Head(c2) /\ c2' = Tail(c2)
        <4>1. i \in 1..Len(c2) /\ c2[i] = d /\ Len(c2) \in Nat /\ Head(c2) = c2[1]
          BY <1>1, <2>2, <3>2, LenProperties DEF Came
        <4>2. Len(Tail(c2)) = Len(c2) - 1 /\ \A j \in 1..Len(Tail(c2)) : Tail(c2)[j] = c2[j + 1]
          BY <1>1, <3>2, HeadTailProperties
        <4>3. CASE i = 1
          BY <2>2, <3>2, <4>1, <4>3 DEF Pending
        <4>4. CASE i # 1
          <5>1. i - 1 \in 1..Len(Tail(c2)) /\ (i - 1) + 1 = i /\ i - 1 \in Nat
            BY <4>1, <4>2, <4>4
          <5>2. Tail(c2)[i - 1] = d
            BY <4>1, <4>2, <5>1
          <5>3. Came(i - 1, d)'
            BY <3>2, <5>1, <5>2 DEF Came
          <5> QED BY <2>2, <5>1, <5>3 DEF Pending
        <4> QED BY <4>3, <4>4
      <3> QED BY <1>1, <3>1, <3>2
    <2>3. ~\E d \in Named : f2 = d
      BY <1>1, NamedFacts
    <2> QED BY <1>3, <2>1, <2>2, <2>3 DEF Pending
  <1>4. Complete'
    BY <1>1, <1>2, <1>3, PathIsSeq DEF Complete
  <1> QED BY <1>3, <1>4

LEMMA SuppliedKept ==
    ASSUME IInv, Supplied, [Next]_vars
    PROVE  Supplied'
  <1>0. Typed /\ WalkShape /\ FeedShape /\ Shape /\ RestDone /\ Complete /\ source' = source
    BY SourceStays DEF IInv, Shape, Supplied
  <1>1. Halted' /\ Reason'
    BY <1>0, ReasonKept, WalkErrs DEF Supplied
  <1>2. ASSUME feed' = feed, c2' = c2,
               \A x \in Seq(Nat) : LowerPast(x) => LowerPast(x)',
               \A e \in Named : f2 = e => f2' = e \/ LowerPast(e.path)'
        PROVE  RestDone' /\ Complete'
    <2>1. RestDone'
      BY <1>0, <1>2 DEF RestDone, Feeding
    <2>2. ASSUME NEW q \in Paths, Pending(q) PROVE Pending(q)' \/ LowerPast(q)'
      <3>1. CASE \E i \in Nat : Rest(i, q)
        BY <1>2, <3>1 DEF Pending, Rest
      <3>2. CASE \E i \in Nat, e \in Named : Came(i, e) /\ e.path = q
        BY <1>2, <3>2 DEF Pending, Came
      <3>3. CASE \E e \in Named : f2 = e /\ e.path = q
        BY <1>2, <3>3 DEF Pending
      <3> QED BY <2>2, <3>1, <3>2, <3>3 DEF Pending
    <2> QED BY <1>0, <1>2, <2>1, <2>2, PathIsSeq DEF Complete
  <1>3. CASE Walk
    <2>1. /\ \A x \in Seq(Nat) : LowerRest(x) => LowerRest(x)'
          /\ UNCHANGED <<feedVars, loopVars>>
      BY <1>0, <1>3, WalkKept DEF WalkKeeps
    <2>2. feed' = feed /\ c2' = c2 /\ f1' = f1 /\ f2' = f2
      BY <2>1 DEF feedVars, loopVars
    <2>3. \A x \in Seq(Nat) : LowerPast(x) => LowerPast(x)'
      BY <2>1, <2>2 DEF LowerPast
    <2> QED BY <1>1, <1>2, <2>2, <2>3 DEF Supplied
  <1>4. CASE Feed
    <2>1. UNCHANGED <<walkVars, f1, f2>>
      BY <1>4 DEF Feed, FeedReturns, loopVars
    <2> QED BY <1>0, <1>1, <1>4, <2>1, FeedSupplies DEF Supplied
  <1>5. CASE TakeLower
    <2>1. \A x \in Seq(Nat) : LowerPast(x) => LowerPast(x)'
      BY <1>0, <1>5, TakeLowerKept
    <2>2. feed' = feed /\ c2' = c2 /\ f2' = f2
      BY <1>5 DEF TakeLower, feedVars
    <2> QED BY <1>1, <1>2, <2>1, <2>2 DEF Supplied
  <1>6. CASE TakeUpper
    <2>1. feed' = feed
      BY <1>6 DEF TakeUpper
    <2>2. RestDone'
      BY <1>0, <2>1 DEF RestDone, Feeding
    <2> QED BY <1>0, <1>1, <1>6, <2>2, TakeUpperSupplies DEF Supplied
  <1>7. CASE Compare
    <2>1. /\ \A x \in Seq(Nat) : LowerPast(x) => LowerPast(x)'
          /\ \A e \in Named : f2 = e => f2' = e \/ LowerPast(e.path)'
          /\ UNCHANGED feedVars
      BY <1>0, <1>7, CompareKept
    <2> QED BY <1>1, <1>2, <2>1 DEF Supplied, feedVars
  <1>8. CASE UNCHANGED <<walkVars, feedVars, f1, f2>>
    <2>1. \A x \in Seq(Nat) : LowerPast(x) => LowerPast(x)'
      BY <1>0, <1>8, SameWalk DEF LowerPast
    <2> QED BY <1>1, <1>2, <1>8, <2>1 DEF Supplied, feedVars
  <1>9. \/ Walk \/ Feed \/ TakeLower \/ TakeUpper \/ Compare
        \/ UNCHANGED <<walkVars, feedVars, f1, f2>>
    BY DEF Next, Loop, TakeCanceled, LoopEnds, ApplyStarts, RemoveOne, RemoveEnds, Put, LoopReturns,
           Cancel, Over, vars, loopVars
  <1> QED BY <1>3, <1>4, <1>5, <1>6, <1>7, <1>8, <1>9

(* What has something below it is a directory.                             *)
LEMMA TreeBelow ==
    ASSUME NEW t \in [Paths -> Kinds], TreeLike(t), NEW p \in Paths, NEW q \in Paths, Below(q, p), t[q] # Absent
    PROVE  IsDir(t[p])
  <1> SUFFICES ASSUME ~IsDir(t[p]) PROVE FALSE
    OBVIOUS
  <1> DEFINE B == {r \in Paths : Below(r, p) /\ t[r] # Absent}
             T == {n \in Nat : \E r \in B : Len(r) = n}
  <1>1. T \in SUBSET Nat /\ T # {}
    <2>1. Len(q) \in T
      BY PathTypes
    <2> QED BY <2>1
  <1>2. PICK n \in T : \A m \in T : n <= m
    BY <1>1, LeastNumber
  <1>3. PICK r \in B : Len(r) = n
    BY <1>2
  <1>4. r \in Paths /\ r \in Seq(Nat) /\ p \in Seq(Nat) /\ Len(p) \in Nat /\ Len(p) >= 1 /\ Len(r) \in Nat
    BY <1>3, PathTypes
  <1>5. Len(p) < Len(r) /\ \A j \in 1..Len(p) : p[j] = r[j]
    BY <1>3, <1>4, PrefixFacts DEF Below
  <1>6. Front(r) \in Seq(Nat) /\ Len(Front(r)) = Len(r) - 1 /\ \A j \in 1..(Len(r) - 1) : Front(r)[j] = r[j]
    BY <1>4, ChildFacts
  <1>7. Front(r) # <<>> /\ Len(p) <= Len(Front(r)) /\ \A j \in 1..Len(p) : p[j] = Front(r)[j]
    <2>0. Len(p) <= Len(r) - 1 /\ Len(r) - 1 # 0
      BY <1>4, <1>5
    <2>1. Len(p) <= Len(Front(r)) /\ Len(Front(r)) # 0
      BY <1>6, <2>0
    <2>2. \A j \in 1..Len(p) : j \in 1..(Len(r) - 1)
      BY <1>4, <1>5
    <2> QED BY <1>5, <1>6, <2>1, <2>2, EmptySeq
  <1>8. Front(r) \in Paths /\ IsDir(t[Front(r)]) /\ t[Front(r)] # Absent
    BY <1>3, <1>7 DEF TreeLike, IsDir, Dirs, Absent
  <1>9. Front(r) # p
    BY <1>8
  <1>10. Below(Front(r), p)
    <2>1. IsPrefix(p, Front(r))
      BY <1>4, <1>6, <1>7, PrefixFacts
    <2> QED BY <1>9, <2>1 DEF Below, IsStrictPrefix
  <1>11. Len(r) - 1 \in T
    BY <1>4, <1>6, <1>8, <1>10, PathTypes
  <1> QED BY <1>2, <1>3, <1>4, <1>11

(* A removal takes away only what the source does not have in that type.   *)
LEMMA RemovesExtra ==
    ASSUME KInv, loop = "remove", NEW q \in Paths, dest[q] # Absent, q = change.path \/ Below(q, change.path),
           ~Lost \/ (change.kind = "delete" => source[change.path] = Absent)
    PROVE  source[q] = Absent \/ IsDir(source[q]) # IsDir(dest[q])
  <1>1. source \in [Paths -> Kinds] /\ dest \in [Paths -> Kinds] /\ TreeLike(source) /\ TreeLike(dest)
    BY DEF KInv, IInv, Typed, TreeShape
  <1>2. PICK p \in Paths : p = change.path /\ ApplyShape(p)
    BY DEF KInv, IInv, Typed, TreeShape
  <1>3. source[p] = Absent \/ dest[p] = Absent \/ Differ(p)
    BY <1>2 DEF ApplyShape
  <1>4. CASE q = p
    BY <1>3, <1>4 DEF Differ
  <1>5. CASE Below(q, p)
    <2>1. IsDir(dest[p])
      BY <1>1, <1>5, TreeBelow
    <2>2. ~IsDir(source[p])
      BY <1>3, <2>1 DEF IsDir, Dirs, Absent, Differ
    <2>3. source[q] = Absent
      BY <1>1, <1>5, <2>2, TreeBelow
    <2> QED BY <2>3
  <1> QED BY <1>2, <1>4, <1>5

LEMMA ExtraAbsent ==
    ASSUME IInv, Supplied, loop = "take", NEW p \in Paths, Extra(p)
    PROVE  /\ feed.err = "none" => source[p] = Absent
           /\ canceled \/ Lost \/ source[p] = Absent
  <1>0. canceled \/ Lost \/ feed.err = "none"
    BY DEF Supplied, Reason
  <1> SUFFICES ASSUME feed.err = "none", source[p] # Absent PROVE FALSE
    BY <1>0
  <1>1. feed.err = "none"
    OBVIOUS
  <1>2. p \in Seq(Nat) /\ ~Before(p, p)
    BY PathIsSeq, BeforeIrreflexive
  <1>3. ~LowerPast(p)
    BY <1>2 DEF Extra, LowerPast
  <1>4. UpperRest(p) /\ \A e \in Named : f2 = e => Before(p, e.path)
    BY DEF Extra
  <1>5. \A i \in Nat : ~Rest(i, p)
    <2>1. CASE Feeding
      BY <1>2, <1>4, <2>1 DEF UpperRest
    <2>2. CASE ~Feeding
      <3>1. feed.rest = <<>>
        BY <1>1, <2>2 DEF Supplied, RestDone
      <3> QED BY <3>1, EmptySeq DEF Rest
    <2> QED BY <2>1, <2>2
  <1>6. \A i \in Nat, e \in Named : ~(Came(i, e) /\ e.path = p)
    BY <1>2, <1>4 DEF UpperRest
  <1>7. ~Pending(p)
    BY <1>2, <1>4, <1>5, <1>6 DEF Pending
  <1> QED BY <1>1, <1>3, <1>7 DEF Supplied, Complete

LEMMA TreeStill ==
    ASSUME TreeShape, UNCHANGED <<source, dest>>,
           loop' \in {"apply", "remove", "put"} =>
             loop' = loop /\ change' = change /\ (canceled => canceled') /\ (Lost => Lost')
    PROVE  TreeShape'
  <1>1. TreeLike(source)' /\ TreeLike(dest)'
    BY DEF TreeShape, TreeLike
  <1>2. ASSUME NEW p \in Paths, change'.path = p PROVE ApplyShape(p)'
    <2>1. CASE loop' \in {"apply", "remove", "put"}
      <3>1. ApplyShape(p)
        BY <1>2, <2>1 DEF TreeShape
      <3> QED BY <2>1, <3>1 DEF ApplyShape, Differ, HasDir
    <2>2. CASE loop' \notin {"apply", "remove", "put"}
      BY <2>2 DEF ApplyShape
    <2> QED BY <2>1, <2>2
  <1> QED BY <1>1, <1>2 DEF TreeShape

LEMMA CompareTrees ==
    ASSUME KInv, Compare, source' = source, canceled' = canceled, Lost => Lost'
    PROVE  TreeShape'
  <1>1. dest' = dest /\ loop = "take"
    BY CompareCases
  <1>2. PICK p \in Paths, k \in Tells : CompareSays(p, k) /\ (k = "delete" => Extra(p))
    BY CompareKept DEF KInv, IInv
  <1>3. CASE loop' = "take" /\ UNCHANGED <<change, changes>>
    BY <1>1, <1>3, TreeStill DEF KInv
  <1>4. CASE loop' = "apply" /\ change' = [kind |-> k, path |-> p]
    <2>1. TreeLike(source)' /\ TreeLike(dest)'
      BY <1>1 DEF KInv, TreeShape, TreeLike
    <2>2. change'.path = p /\ change'.kind = k
      BY <1>4
    <2>3. k = "delete" => canceled \/ Lost \/ source[p] = Absent
      BY <1>1, <1>2, ExtraAbsent DEF KInv
    <2>4. ApplyShape(p)'
      BY <1>4, <2>2, <2>3 DEF ApplyShape
    <2> QED BY <2>1, <2>2, <2>4 DEF TreeShape
  <1> QED BY <1>2, <1>3, <1>4 DEF CompareSays

LEMMA ApplyTrees ==
    ASSUME KInv, ApplyStarts, source' = source, Lost => Lost'
    PROVE  TreeShape'
  <1>1. loop = "apply" /\ dest' = dest /\ change' = change
    BY DEF ApplyStarts
  <1>2. PICK p \in Paths : p = change.path /\ ApplyShape(p)
    BY <1>1 DEF KInv, IInv, Typed, TreeShape
  <1>3. \/ loop' = "done"
        \/ ~canceled /\ change.kind = "delete" /\ loop' = "remove"
        \/ /\ change.kind # "delete" /\ HasDir(dest, Front(p))
           /\ loop' = IF dest[p] # Absent /\ Differ(p) THEN "remove" ELSE "put"
    BY <1>2 DEF ApplyStarts, LoopFails, CallerDone, Differ
  <1>4. TreeLike(source)' /\ TreeLike(dest)'
    BY <1>1 DEF KInv, TreeShape, TreeLike
  <1>5. ApplyShape(p)'
    <2>1. CASE loop' = "done"
      BY <2>1 DEF ApplyShape
    <2>2. CASE ~canceled /\ change.kind = "delete" /\ loop' = "remove"
      BY <1>1, <1>2, <2>2 DEF ApplyShape
    <2>3. CASE change.kind # "delete" /\ HasDir(dest, Front(p)) /\ loop' = "remove" /\ Differ(p)
      <3>1. Differ(p)' /\ HasDir(dest', Front(p))
        BY <1>1, <2>3 DEF Differ
      <3> QED BY <1>1, <2>3, <3>1 DEF ApplyShape, HasDir
    <2>4. CASE change.kind # "delete" /\ HasDir(dest, Front(p)) /\ loop' = "put" /\ (dest[p] = Absent \/ ~Differ(p))
      <3>1. (dest'[p] = Absent \/ ~Differ(p)') /\ HasDir(dest', Front(p))
        BY <1>1, <2>4 DEF Differ
      <3> QED BY <2>4, <3>1 DEF ApplyShape, HasDir
    <2> QED BY <1>3, <2>1, <2>2, <2>3, <2>4
  <1> QED BY <1>1, <1>2, <1>4, <1>5 DEF TreeShape

LEMMA RemoveTrees ==
    ASSUME KInv, RemoveOne, source' = source, Lost => Lost'
    PROVE  TreeShape'
  <1>1. loop = "remove" /\ loop' = loop /\ change' = change
    BY DEF RemoveOne
  <1>2. PICK p \in Paths : p = change.path /\ ApplyShape(p)
    BY <1>1 DEF KInv, IInv, Typed, TreeShape
  <1>3. PICK q \in Paths : /\ q = p \/ Below(q, p)
                           /\ Children(dest, q) = {}
                           /\ dest' = [dest EXCEPT ![q] = Absent]
    BY <1>2 DEF RemoveOne, Present
  <1>4. dest \in [Paths -> Kinds] /\ TreeLike(source) /\ TreeLike(dest)
    BY DEF KInv, IInv, Typed, TreeShape
  <1>5. \A r \in Paths : dest'[r] = IF r = q THEN Absent ELSE dest[r]
    BY <1>3, <1>4
  <1>6. TreeLike(dest')
    <2> SUFFICES ASSUME NEW r \in Paths, dest'[r] # Absent
                 PROVE  Front(r) = <<>> \/ (Front(r) \in Paths /\ IsDir(dest'[Front(r)]))
      BY DEF TreeLike
    <2>1. r # q /\ dest[r] # Absent
      BY <1>5
    <2>2. Front(r) # q
      BY <1>3, <2>1 DEF Children, Present
    <2> QED BY <1>4, <1>5, <2>1, <2>2 DEF TreeLike
  <1>7. HasDir(dest, Front(p)) => HasDir(dest', Front(p))
    <2>1. q # Front(p)
      <3>1. Len(Front(p)) = Len(p) - 1 /\ Len(p) \in Nat /\ Len(q) \in Nat /\ p \in Seq(Nat) /\ q \in Seq(Nat)
        BY ChildFacts, PathTypes
      <3>2. Below(q, p) => Len(p) < Len(q)
        BY <3>1, PrefixFacts DEF Below
      <3>3. Len(p) <= Len(q)
        BY <1>3, <3>1, <3>2
      <3> QED BY <3>1, <3>3
    <2> QED BY <1>5, <2>1 DEF HasDir
  <1>8. dest'[p] = Absent \/ dest'[p] = dest[p]
    BY <1>5
  <1>9. ApplyShape(p)'
    BY <1>1, <1>2, <1>7, <1>8 DEF ApplyShape, Differ, HasDir
  <1>10. TreeLike(source)' /\ TreeLike(dest)'
    BY <1>4, <1>6 DEF TreeLike
  <1> QED BY <1>1, <1>2, <1>9, <1>10 DEF TreeShape

LEMMA PutTrees ==
    ASSUME KInv, Put, source' = source
    PROVE  TreeShape'
  <1>1. loop = "put" /\ loop' = "take"
    BY DEF Put
  <1>2. PICK p \in Paths : p = change.path /\ ApplyShape(p)
    BY <1>1 DEF KInv, IInv, Typed, TreeShape
  <1>3. dest \in [Paths -> Kinds] /\ TreeLike(source) /\ TreeLike(dest)
    BY DEF KInv, IInv, Typed, TreeShape
  <1>4. \A r \in Paths : dest'[r] = IF r = p THEN source[p] ELSE dest[r]
    BY <1>2, <1>3 DEF Put
  <1>5. (dest[p] = Absent \/ IsDir(dest[p]) = IsDir(source[p])) /\ HasDir(dest, Front(p))
    BY <1>1, <1>2 DEF ApplyShape, Differ
  <1>6. TreeLike(dest')
    <2> SUFFICES ASSUME NEW r \in Paths, dest'[r] # Absent, Front(r) # <<>>
                 PROVE  Front(r) \in Paths /\ IsDir(dest'[Front(r)])
      BY DEF TreeLike
    <2>1. CASE r = p
      <3>1. Front(p) # p
        BY ChildFacts, PathTypes
      <3>2. Front(p) \in Paths /\ IsDir(dest[Front(p)])
        BY <1>5, <2>1 DEF HasDir
      <3> QED BY <1>4, <2>1, <3>1, <3>2
    <2>2. CASE r # p
      <3>1. Front(r) \in Paths /\ IsDir(dest[Front(r)])
        BY <1>3, <1>4, <2>2 DEF TreeLike
      <3>2. CASE Front(r) = p
        <4>1. IsDir(dest[p]) /\ dest[p] # Absent
          BY <3>1, <3>2 DEF IsDir, Dirs, Absent
        <4>2. IsDir(source[p])
          BY <1>5, <4>1
        <4> QED BY <1>4, <3>1, <3>2, <4>2
      <3>3. CASE Front(r) # p
        BY <1>4, <3>1, <3>3
      <3> QED BY <3>2, <3>3
    <2> QED BY <2>1, <2>2
  <1>7. TreeLike(source)' /\ TreeLike(dest)'
    BY <1>3, <1>6 DEF TreeLike
  <1> QED BY <1>1, <1>7 DEF TreeShape, ApplyShape

LEMMA RemoveEndsTrees ==
    ASSUME KInv, RemoveEnds, source' = source, Lost => Lost'
    PROVE  TreeShape'
  <1>1. /\ loop = "remove" /\ dest' = dest /\ change' = change /\ dest[change.path] = Absent
        /\ loop' = IF change.kind = "delete" THEN "take" ELSE "put"
    BY DEF RemoveEnds
  <1>2. PICK p \in Paths : p = change.path /\ ApplyShape(p)
    BY <1>1 DEF KInv, IInv, Typed, TreeShape
  <1>3. TreeLike(source)' /\ TreeLike(dest)'
    BY <1>1 DEF KInv, TreeShape, TreeLike
  <1>4. change.kind # "delete" => HasDir(dest', Front(p)) /\ dest'[p] = Absent
    BY <1>1, <1>2 DEF ApplyShape
  <1>5. ApplyShape(p)'
    BY <1>1, <1>4 DEF ApplyShape, HasDir
  <1> QED BY <1>1, <1>2, <1>3, <1>5 DEF TreeShape

LEMMA KKept == KInv /\ [Next]_vars => KInv'
  <1> SUFFICES ASSUME KInv, [Next]_vars PROVE KInv'
    OBVIOUS
  <1>1. IInv' /\ Supplied'
    BY AllKept, SuppliedKept DEF KInv
  <1>2. source' = source /\ (canceled => canceled') /\ (Lost => Lost')
    BY SourceStays, WalkErrs DEF Lost, KInv, Supplied, IInv
  <1>3. CASE Compare /\ canceled' = canceled
    BY <1>1, <1>2, <1>3, CompareTrees DEF KInv
  <1>4. CASE ApplyStarts \/ RemoveOne \/ RemoveEnds \/ Put
    BY <1>1, <1>2, <1>4, ApplyTrees, RemoveTrees, RemoveEndsTrees, PutTrees DEF KInv
  <1>5. CASE dest' = dest /\ (loop' \in {"apply", "remove", "put"} => loop' = loop /\ change' = change)
    BY <1>1, <1>2, <1>5, TreeStill DEF KInv
  <1>6. \/ Compare /\ canceled' = canceled
        \/ ApplyStarts \/ RemoveOne \/ RemoveEnds \/ Put
        \/ dest' = dest /\ (loop' \in {"apply", "remove", "put"} => loop' = loop /\ change' = change)
    <2>1. CASE Walk \/ Feed
      BY <2>1 DEF Walk, WalkReturns, Feed, FeedReturns, loopVars
    <2>2. CASE Loop
      BY <2>2 DEF Loop, TakeLower, TakeUpper, TakeCanceled, LoopEnds, LoopFails, LoopReturns
    <2>3. CASE Cancel \/ Over \/ UNCHANGED vars
      BY <2>3 DEF Cancel, Over, vars, loopVars
    <2> QED BY <2>1, <2>2, <2>3 DEF Next
  <1> QED BY <1>3, <1>4, <1>5, <1>6

(* The destination changes in two ways.                                    *)
LEMMA DestSteps ==
    ASSUME "walk" \notin Faults, KInv, [Next]_vars
    PROVE  \/ dest' = dest
           \/ \E q \in Paths : /\ dest[q] # Absent
                               /\ source[q] = Absent \/ IsDir(source[q]) # IsDir(dest[q])
                               /\ \A r \in Paths : dest'[r] = IF r = q THEN Absent ELSE dest[r]
           \/ \E p \in Paths : \A r \in Paths : dest'[r] = IF r = p THEN source[p] ELSE dest[r]
  <1>0. dest \in [Paths -> Kinds]
    BY DEF KInv, IInv, Typed
  <1>1. CASE RemoveOne
    <2>1. PICK q \in Paths : /\ q = change.path \/ Below(q, change.path)
                             /\ dest[q] # Absent /\ dest' = [dest EXCEPT ![q] = Absent]
      BY <1>1 DEF RemoveOne, Present
    <2>2. source[q] = Absent \/ IsDir(source[q]) # IsDir(dest[q])
      BY <1>1, <2>1, RemovesExtra DEF RemoveOne, KInv, Supplied, Halted
    <2> QED BY <1>0, <2>1, <2>2
  <1>2. CASE Put
    <2>1. PICK p \in Paths : p = change.path
      BY <1>2 DEF Put, KInv, IInv, Typed
    <2> QED BY <1>0, <1>2, <2>1 DEF Put
  <1>3. CASE ~RemoveOne /\ ~Put
    BY <1>3 DEF Next, Walk, WalkReturns, Feed, FeedReturns, Loop, TakeLower, TakeUpper, TakeCanceled, LoopEnds,
                Compare, ApplyStarts, RemoveEnds, LoopReturns, Cancel, Over, vars
  <1> QED BY <1>1, <1>2, <1>3

(* What the source also has, in the same type, is never away, not even for *)
(* a moment (diff_containerd.go:174-183), unless the walk fails.           *)
THEOREM KeepsSharedHolds == ASSUME "walk" \notin Faults PROVE Spec => KeepsShared
  <1>1. KInv /\ [Next]_vars =>
          [\A p \in Paths : (dest[p] # Absent /\ dest'[p] = Absent) =>
             source[p] = Absent \/ IsDir(source[p]) # IsDir(dest[p])]_vars
    BY DestSteps
  <1>2. KInv /\ [Next]_vars => KInv'
    BY KKept
  <1> QED BY <1>1, <1>2, KInit, PTL DEF Spec, KeepsShared

(* What is as in the source is not touched, nor what has become so         *)
(* (diff_containerd.go:149-151), unless the walk fails.                    *)
THEOREM SettledStaysHolds == ASSUME "walk" \notin Faults PROVE Spec => SettledStays
  <1>1. KInv /\ [Next]_vars => [\A p \in Paths : (dest[p] = source[p]) => dest'[p] = dest[p]]_vars
    <2> SUFFICES ASSUME KInv, [Next]_vars, NEW p \in Paths, dest[p] = source[p] PROVE dest'[p] = dest[p]
      OBVIOUS
    <2> QED BY DestSteps
  <1>2. KInv /\ [Next]_vars => KInv'
    BY KKept
  <1> QED BY <1>1, <1>2, KInit, PTL DEF Spec, SettledStays

-----------------------------------------------------------------------------
(* What a finished diff has done.  As long as nobody has stopped early:    *)
(* what is still to come from the walk, what a directory that goes takes   *)
(* with it, and the change in hand.                                        *)
Clean == walk.err = "none" /\ feed.err = "none" /\ loopErr = "none"

Leaves(a) == Told(a) /\ IsDir(lower[a]) /\ ~IsDir(source[a])
Gone(p)   == \E a \in Paths : Below(p, a) /\ Leaves(a)
InHand(p) == change.path = p /\ loop \in {"apply", "remove", "put"}

Lists(t, p) == Below(p, t.path) \/ (t.op = "visit" /\ p = t.path)
Listed(p)   == Walking /\ \E i \in Nat, t \in Item : Todo(i, t) /\ Lists(t, p)
Queued(p)   == \E i \in Nat, e \in Named : Wait(i, e) /\ e.path = p
Held1(p)    == \E e \in Named : f1 = e /\ e.path = p
ToCome(p)   == Listed(p) \/ Queued(p) \/ Held1(p)

(* What the sides bring is what was there before the diff, and the walk    *)
(* finishes the innermost directory first.                                 *)
Was(e) == lower[e.path] = e.kind /\ e.kind # Absent
Has(e) == source[e.path] = e.kind /\ e.kind # Absent

ListedWas == Walking =>
    /\ \A i \in Nat, t \in Item : Todo(i, t) /\ t.path # <<>> => lower[t.path] # Absent /\ t.isDir = IsDir(lower[t.path])
    /\ \A i \in Nat, t \in Item : Todo(i, t) /\ t.op = "list" => i = 1
Deepest   == \A i, j \in Nat : \A t, u \in Item : Todo(i, t) /\ Todo(j, u) /\ i < j => Len(u.path) <= Len(t.path)
SentWas   == /\ walk.pc = "send" => \A e \in Named : walk.at = e => Was(e)
             /\ \A i \in Nat, e \in Named : Wait(i, e) => Was(e)
LowerWas  == \A e \in Named : f1 = e => Was(e)
UpperHas  == /\ \A i \in Nat, p \in Paths : Rest(i, p) => source[p] # Absent
             /\ \A i \in Nat, e \in Named : Came(i, e) => Has(e)
             /\ \A e \in Named : f2 = e => Has(e)

Original == ListedWas /\ Deepest /\ SentWas /\ LowerWas /\ UpperHas

(* The merge.                                                              *)
Untouched  == \A p \in Paths : ~Told(p) => dest[p] \in {lower[p], Absent}
Changed    == \A p \in Paths : lower[p] # Absent /\ dest[p] # lower[p] => Told(p) \/ Gone(p)
SharedDirs == \A p \in Paths : IsDir(lower[p]) /\ IsDir(source[p]) => IsDir(dest[p])
Reached    == \A p \in Paths : lower[p] # Absent =>
                 ToCome(p) \/ Told(p) \/ Gone(p) \/ (source[p] = lower[p] /\ UpperPast(p))
Provided   == \A p \in Paths : source[p] # Absent => Pending(p) \/ Told(p) \/ dest[p] = source[p]
Settled    == \A p \in Paths : Told(p) => InHand(p) \/ dest[p] = source[p]
RmdirGoes  == rmdir # <<>> => \E a \in Paths : rmdir = a /\ Leaves(a)

Right(c) ==
    /\ c.kind = "add" <=> lower[c.path] = Absent
    /\ c.kind = "delete" <=> source[c.path] = Absent
    /\ lower[c.path] # source[c.path]
RightKind  == \A i \in Nat, c \in Telling : Says(i, c) => Right(c)

(* Below a directory that became a file nothing is removed by its name.    *)
Clear(a)   == \A n \in Nat : LowerPast(Append(a, n))
Became(c)  == c.kind = "modify" /\ IsDir(lower[c.path]) /\ ~IsDir(source[c.path])
Covered    == \A i \in Nat, c \in Telling : Says(i, c) /\ Became(c) => rmdir = c.path \/ Clear(c.path)
NotBelow   == \A i, j \in Nat : \A c, d \in Telling :
                 Says(i, c) /\ Became(c) /\ Says(j, d) /\ d.kind = "delete" => ~Below(d.path, c.path)
Said       == loop \in {"apply", "remove", "put"} => \E i \in Nat, c \in Telling : Says(i, c) /\ change = c
AsFound    == loop = "apply" /\ change.kind = "modify" => \A p \in Paths : change.path = p => dest[p] # Absent

Applied == Untouched /\ Changed /\ SharedDirs /\ Provided /\ Settled /\ AsFound
Merged  == Reached /\ RmdirGoes /\ RightKind /\ Covered /\ NotBelow /\ Said

(* The ends.                                                               *)
Finished ==
    /\ walk.pc = "done" /\ walk.err # "none" => gErr # "none"
    /\ feed.pc = "done" /\ feed.err # "none" => gErr # "none"
    /\ loop = "over" /\ loopErr # "none" => gErr # "none"
    /\ loop \in {"done", "over"} /\ loopErr = "none" => end1 /\ end2 /\ f1 = Nil /\ f2 = Nil
    /\ loop \notin {"done", "over"} => loopErr = "none"

LowerTree == TreeLike(lower) /\ lower \in [Paths -> Kinds]

CInv == /\ KInv /\ LowerTree /\ Finished
        /\ Clean => Original /\ Applied /\ Merged

-----------------------------------------------------------------------------
(* What the parts say of one another.                                      *)
LEMMA BeforeNotBelow ==
    ASSUME NEW p \in Seq(Nat), NEW q \in Seq(Nat), Below(p, q)
    PROVE  Before(q, p) /\ ~Before(p, q) /\ p # q
  <1>1. Before(q, p)
    BY BeforeIs DEF Below
  <1>2. ~Before(p, q)
    BY <1>1, BeforeTransitive, BeforeIrreflexive
  <1> QED BY <1>1, <1>2, BeforeIrreflexive

LEMMA PastCome ==
    ASSUME NEW p \in Paths, LowerPast(p)
    PROVE  ~ToCome(p)
  <1>0. p \in Seq(Nat) /\ ~Before(p, p)
    BY PathIsSeq, BeforeIrreflexive
  <1>1. ~Listed(p)
    <2> SUFFICES ASSUME Walking, NEW i \in Nat, NEW t \in Item, Todo(i, t), Lists(t, p) PROVE FALSE
      BY DEF Listed
    <2>1. Past(p, t)
      BY DEF LowerPast, LowerRest
    <2>2. t.path \in Seq(Nat)
      BY NamedFacts
    <2> QED BY <1>0, <2>1, <2>2, BeforeNotBelow DEF Past, Lists
  <1>2. ~Queued(p)
    BY <1>0 DEF Queued, LowerPast, LowerRest
  <1>3. ~Held1(p)
    BY <1>0 DEF Held1, LowerPast
  <1> QED BY <1>1, <1>2, <1>3 DEF ToCome

LEMMA PastPending ==
    ASSUME NEW x \in Paths, NEW y \in Paths, UpperPast(x), y = x \/ Before(y, x), RestDone, feed.err = "none"
    PROVE  ~Pending(y)
  <1>0. x \in Seq(Nat) /\ y \in Seq(Nat) /\ ~Before(x, y)
    BY PathIsSeq, BeforeTransitive, BeforeIrreflexive
  <1>1. \A i \in Nat : ~Rest(i, y)
    <2>1. CASE Feeding
      BY <1>0, <2>1 DEF UpperPast, UpperRest
    <2>2. CASE ~Feeding
      <3>1. feed.rest = <<>>
        BY <2>2 DEF RestDone
      <3> QED BY <3>1, EmptySeq DEF Rest
    <2> QED BY <2>1, <2>2
  <1> QED BY <1>0, <1>1 DEF Pending, UpperPast, UpperRest

LEMMA GoneBelow ==
    ASSUME NEW p \in Paths, NEW q \in Paths, Below(q, p), Gone(p)
    PROVE  Gone(q)
  <1>1. PICK a \in Paths : Below(p, a) /\ Leaves(a)
    BY DEF Gone
  <1>2. a \in Seq(Nat) /\ p \in Seq(Nat) /\ q \in Seq(Nat)
    BY PathIsSeq
  <1>3. Below(q, a)
    BY <1>1, <1>2, PrefixTransitive DEF Below, IsStrictPrefix
  <1> QED BY <1>1, <1>3 DEF Gone

LEMMA GoneAbsent ==
    ASSUME source \in [Paths -> Kinds], TreeLike(source), NEW p \in Paths, Gone(p)
    PROVE  source[p] = Absent
  BY TreeBelow DEF Gone, Leaves

(* Above what is in a directory are the directory and what is above it.    *)
LEMMA AboveFront ==
    ASSUME NEW p \in Paths, NEW a \in Paths, Below(p, a)
    PROVE  Front(p) \in Paths /\ (a = Front(p) \/ Below(Front(p), a))
  <1>1. /\ p \in Seq(Nat) /\ a \in Seq(Nat) /\ Len(p) \in Nat /\ Len(a) \in Nat /\ Len(a) >= 1
        /\ Front(p) \in Seq(Nat) /\ Len(Front(p)) = Len(p) - 1 /\ \A j \in 1..(Len(p) - 1) : Front(p)[j] = p[j]
    BY PathTypes, ChildFacts
  <1>2. Len(a) < Len(p) /\ \A j \in 1..Len(a) : a[j] = p[j]
    BY <1>1, PrefixFacts DEF Below
  <1>3. Len(a) <= Len(Front(p)) /\ \A j \in 1..Len(a) : a[j] = Front(p)[j]
    <2>1. Len(a) <= Len(p) - 1 /\ \A j \in 1..Len(a) : j \in 1..(Len(p) - 1)
      BY <1>1, <1>2
    <2> QED BY <1>1, <1>2, <2>1
  <1>4. IsPrefix(a, Front(p))
    BY <1>1, <1>3, PrefixFacts
  <1>5. Front(p) # <<>>
    BY <1>1, <1>3, EmptySeq
  <1> QED BY <1>4, <1>5, FrontIn DEF Below, IsStrictPrefix

LEMMA FrontAbove ==
    ASSUME NEW p \in Paths, NEW a \in Paths, a = Front(p) \/ Below(Front(p), a)
    PROVE  Below(p, a)
  <1>1. /\ p \in Seq(Nat) /\ a \in Seq(Nat) /\ Front(p) \in Seq(Nat) /\ IsStrictPrefix(Front(p), p)
    BY PathTypes, ChildFacts
  <1> QED BY <1>1, PrefixTransitive DEF Below, IsStrictPrefix

(* What is said stays said.                                                *)
LEMMA SaidStays ==
    ASSUME changes \in Seq(Telling), changes' = changes \/ \E c \in Telling : changes' = Append(changes, c)
    PROVE  /\ \A i \in Nat, c \in Telling : Says(i, c) => Says(i, c)'
           /\ \A x \in Paths : Told(x) => Told(x)'
  <1>1. ASSUME NEW i \in Nat, NEW c \in Telling, Says(i, c) PROVE Says(i, c)'
    <2>1. CASE changes' = changes
      BY <1>1, <2>1 DEF Says
    <2>2. ASSUME NEW d \in Telling, changes' = Append(changes, d) PROVE Says(i, c)'
      <3>1. /\ Len(changes) \in Nat /\ Len(changes') = Len(changes) + 1
            /\ \A k \in 1..(Len(changes) + 1) :
                 (k \in 1..Len(changes) /\ changes'[k] = changes[k]) \/ (k = Len(changes) + 1 /\ changes'[k] = d)
        BY <2>2, AppendFacts
      <3>2. i \in 1..Len(changes) /\ i \in 1..(Len(changes) + 1) /\ i # Len(changes) + 1 /\ changes[i] = c
        BY <1>1, <3>1 DEF Says
      <3> QED BY <3>1, <3>2 DEF Says
    <2> QED BY <2>1, <2>2
  <1> QED BY <1>1 DEF Told

-----------------------------------------------------------------------------
(* Steps that say nothing and change nothing in the tree.                  *)
Acts == {"apply", "remove", "put"}

LEMMA SaysSame ==
    ASSUME UNCHANGED <<source, lower, changes>>
    PROVE  /\ \A i \in Nat, c \in Telling : Says(i, c)' <=> Says(i, c)
           /\ \A p \in Paths : (Told(p)' <=> Told(p)) /\ (Leaves(p)' <=> Leaves(p)) /\ (Gone(p)' <=> Gone(p))
  <1>1. \A i \in Nat, c \in Telling : Says(i, c)' <=> Says(i, c)
    BY DEF Says
  <1>2. \A p \in Paths : Told(p)' <=> Told(p)
    BY <1>1 DEF Told
  <1>3. \A p \in Paths : Leaves(p)' <=> Leaves(p)
    BY <1>2 DEF Leaves
  <1>4. \A p \in Paths : Gone(p)' <=> Gone(p)
    BY <1>3 DEF Gone
  <1> QED BY <1>1, <1>2, <1>3, <1>4

LEMMA MergeStill ==
    ASSUME Merged, UNCHANGED <<source, lower, changes, rmdir>>,
           \A p \in Paths : lower[p] # Absent /\ ToCome(p) => ToCome(p)' \/ Gone(p),
           \A x \in Seq(Nat) : LowerPast(x) => LowerPast(x)',
           \A x \in Seq(Nat) : UpperPast(x) => UpperPast(x)',
           loop' \in Acts => loop \in Acts /\ change' = change
    PROVE  Merged'
  <1>1. /\ \A i \in Nat, c \in Telling : Says(i, c)' <=> Says(i, c)
        /\ \A p \in Paths : (Told(p)' <=> Told(p)) /\ (Leaves(p)' <=> Leaves(p)) /\ (Gone(p)' <=> Gone(p))
    BY SaysSame
  <1>2. Reached'
    BY <1>1, PathIsSeq DEF Merged, Reached
  <1>3. RmdirGoes'
    BY <1>1 DEF Merged, RmdirGoes
  <1>4. RightKind'
    BY <1>1 DEF Merged, RightKind, Right
  <1>5. Covered'
    <2> SUFFICES ASSUME NEW i \in Nat, NEW c \in Telling, Says(i, c)', Became(c)'
                 PROVE  rmdir' = c.path \/ Clear(c.path)'
      BY DEF Covered
    <2>1. rmdir = c.path \/ Clear(c.path)
      BY <1>1 DEF Merged, Covered, Became
    <2>2. \A n \in Nat : Append(c.path, n) \in Seq(Nat)
      <3>1. c.path \in Seq(Nat)
        BY PathIsSeq DEF Telling
      <3> QED BY <3>1, AppendProperties
    <2>3. Clear(c.path) => Clear(c.path)'
      BY <2>2 DEF Clear
    <2> QED BY <2>1, <2>3
  <1>6. NotBelow'
    BY <1>1 DEF Merged, NotBelow, Became
  <1>7. Said'
    BY <1>1 DEF Merged, Said, Acts
  <1> QED BY <1>2, <1>3, <1>4, <1>5, <1>6, <1>7 DEF Merged

LEMMA AppliedStill ==
    ASSUME Applied, UNCHANGED <<source, lower, dest, changes>>,
           \A p \in Paths : Pending(p) => Pending(p)',
           loop' \in Acts => loop \in Acts /\ change' = change,
           loop' = "apply" => loop = "apply",
           loop \in Acts /\ loop' \notin Acts => \A p \in Paths : change.path = p => dest[p] = source[p]
    PROVE  Applied'
  <1>1. \A p \in Paths : (Told(p)' <=> Told(p)) /\ (Gone(p)' <=> Gone(p))
    BY SaysSame
  <1>2. Untouched' /\ Changed' /\ SharedDirs'
    BY <1>1 DEF Applied, Untouched, Changed, SharedDirs
  <1>3. Provided'
    BY <1>1 DEF Applied, Provided
  <1>4. Settled'
    <2> SUFFICES ASSUME NEW p \in Paths, Told(p)' PROVE InHand(p)' \/ dest'[p] = source'[p]
      BY DEF Settled
    <2>1. InHand(p) \/ dest[p] = source[p]
      BY <1>1 DEF Applied, Settled
    <2>2. CASE change.path = p /\ loop \in Acts
      <3>1. CASE loop' \in Acts
        BY <2>2, <3>1 DEF InHand, Acts
      <3>2. CASE loop' \notin Acts
        BY <2>2, <3>2
      <3> QED BY <3>1, <3>2
    <2> QED BY <2>1, <2>2 DEF InHand, Acts
  <1>5. AsFound'
    BY DEF Applied, AsFound, Acts
  <1> QED BY <1>2, <1>3, <1>4, <1>5 DEF Applied

-----------------------------------------------------------------------------
(* What the walk still lists is not lost.                                  *)
LEMMA VisitsAll ==
    ASSUME Typed, NEW d \in Seq(Nat)
    PROVE  LET v == Visits(dest, d)
           IN  /\ \A i \in 1..Len(v) : v[i].path \in Children(dest, d) /\ v[i].isDir = IsDir(dest[v[i].path])
               /\ \A r \in Children(dest, d) : \E i \in 1..Len(v) : v[i].path = r
  <1> DEFINE S == Children(dest, d)
             s == Sorted(S)
             v == Visits(dest, d)
             n == Cardinality(S)
  <1>1. S \in SUBSET Paths
    BY DEF Children, Present
  <1>2. n \in Nat /\ s \in Seq(S) /\ Len(s) = n
    BY <1>1, PathsSorted
  <1>3. \A i \in 1..n : s[i] \in S
    BY <1>2, ElementOfSeq
  <1>4. v = [i \in 1..n |-> [op |-> "visit", path |-> s[i], isDir |-> IsDir(dest[s[i]])]]
    BY <1>2 DEF Visits
  <1>5. \A r \in S : \E i \in 1..n : s[i] = r
    BY <1>1, AllSorted
  <1>6. Len(v) = n
    <2>1. v \in Seq(Item) /\ Len(v) \in Nat
      BY VisitsFacts
    <2>2. DOMAIN v = 1..Len(v) /\ DOMAIN v = 1..n
      BY <1>4, <2>1, LenProperties
    <2>3. ASSUME NEW a \in Nat, NEW b \in Nat, 1..a = 1..b PROVE a = b
      <3>1. (a \in 1..a \/ a = 0) /\ (b \in 1..b \/ b = 0)
        OBVIOUS
      <3>2. a <= b /\ b <= a
        BY <2>3, <3>1
      <3> QED BY <3>2
    <2> HIDE DEF v, n
    <2> QED BY <1>2, <2>1, <2>2, <2>3
  <1> HIDE DEF s, n, S
  <1>7. \A i \in 1..n : v[i].path = s[i] /\ v[i].isDir = IsDir(dest[s[i]])
    BY <1>4
  <1> HIDE DEF v
  <1>8. \A i \in 1..Len(v) : v[i].path \in S /\ v[i].isDir = IsDir(dest[v[i].path])
    BY <1>3, <1>6, <1>7
  <1>9. \A r \in S : \E i \in 1..Len(v) : v[i].path = r
    BY <1>5, <1>6, <1>7
  <1> QED BY <1>8, <1>9 DEF v, S

(* The way from d to what is below it begins in d.                         *)
LEMMA NextOnWay ==
    ASSUME NEW d \in Seq(Nat), NEW p \in Paths, Below(p, d)
    PROVE  \E r \in Paths : Front(r) = d /\ (r = p \/ Below(p, r))
  <1> DEFINE B == {r \in Paths : IsPrefix(r, p) /\ Len(d) < Len(r)}
             T == {n \in Nat : \E r \in B : Len(r) = n}
  <1>0. p \in Seq(Nat) /\ Len(d) \in Nat /\ Len(p) \in Nat
    BY PathTypes, LenFacts
  <1>1. Len(d) < Len(p) /\ \A j \in 1..Len(d) : d[j] = p[j]
    BY <1>0, PrefixFacts DEF Below
  <1>2. T \in SUBSET Nat /\ T # {}
    <2>1. p \in B
      BY <1>0, <1>1, PrefixReflexive
    <2> QED BY <1>0, <2>1
  <1>3. PICK n \in T : \A m \in T : n <= m
    BY <1>2, LeastNumber
  <1>4. PICK r \in B : Len(r) = n
    BY <1>3
  <1>5. /\ r \in Paths /\ r \in Seq(Nat) /\ Len(r) \in Nat /\ Len(r) >= 1 /\ IsPrefix(r, p) /\ Len(d) < Len(r)
        /\ Front(r) \in Seq(Nat) /\ Len(Front(r)) = Len(r) - 1 /\ IsStrictPrefix(Front(r), r)
    BY <1>4, PathTypes, ChildFacts
  <1>6. IsPrefix(Front(r), p)
    BY <1>0, <1>5, PrefixTransitive DEF IsStrictPrefix
  <1>7. Len(Front(r)) = Len(d)
    <2> SUFFICES ASSUME Len(Front(r)) # Len(d) PROVE FALSE
      OBVIOUS
    <2>1. Len(d) < Len(Front(r)) /\ Len(Front(r)) \in Nat /\ ~(Len(r) <= Len(Front(r)))
      BY <1>0, <1>5
    <2>2. Front(r) # <<>>
      BY <1>0, <2>1, EmptySeq
    <2>3. Front(r) \in B
      BY <1>5, <1>6, <2>1, <2>2, FrontIn
    <2>4. Len(Front(r)) \in T
      BY <2>1, <2>3
    <2> QED BY <1>3, <1>4, <2>1, <2>4
  <1>8. Front(r) = d
    <2>1. \A j \in 1..Len(d) : Front(r)[j] = d[j]
      BY <1>0, <1>1, <1>5, <1>6, <1>7, PrefixFacts
    <2> QED BY <1>5, <1>7, <2>1, SeqEqual
  <1> QED BY <1>5, <1>8 DEF Below, IsStrictPrefix

LEMMA PutAfter ==
    ASSUME walk.todo \in Seq(Item), walk.todo # <<>>, NEW v \in Seq(Item),
           walk'.todo = v \o Tail(walk.todo)
    PROVE  /\ \A i \in Nat, t \in Item : Todo(i, t) /\ i # 1 => \E j \in Nat : Todo(j, t)'
           /\ \A i \in 1..Len(v) : Todo(i, v[i])'
  <1> DEFINE s == walk.todo
             m == Len(v)
             n == Len(s)
  <1>1. m \in Nat /\ n \in Nat /\ n >= 1
    BY EmptySeq, LenProperties
  <1>2. Tail(s) \in Seq(Item) /\ Len(Tail(s)) = n - 1 /\ \A k \in 1..(n - 1) : Tail(s)[k] = s[k + 1]
    BY HeadTailProperties
  <1> HIDE DEF m, n
  <1>3. /\ Len(v \o Tail(s)) = m + (n - 1)
        /\ \A i \in 1..(m + (n - 1)) : (v \o Tail(s))[i] = IF i <= m THEN v[i] ELSE Tail(s)[i - m]
    BY <1>2, ConcatProperties DEF m
  <1>4. ASSUME NEW i \in Nat, NEW t \in Item, Todo(i, t), i # 1 PROVE \E j \in Nat : Todo(j, t)'
    <2>1. i \in 1..n /\ s[i] = t
      BY <1>4 DEF Todo, n
    <2>2. PICK j \in Nat : j = m + (i - 1)
      BY <1>1, <2>1
    <2>3. j \in 1..(m + (n - 1)) /\ ~(j <= m) /\ j - m = i - 1 /\ i - 1 \in 1..(n - 1) /\ (i - 1) + 1 = i
      BY <1>1, <1>4, <2>1, <2>2
    <2>4. (v \o Tail(s))[j] = t
      BY <1>2, <1>3, <2>1, <2>3
    <2>5. Todo(j, t)'
      BY <1>3, <2>3, <2>4 DEF Todo
    <2> QED BY <2>5
  <1>5. ASSUME NEW i \in 1..m PROVE Todo(i, v[i])'
    <2>1. i \in 1..(m + (n - 1)) /\ i <= m
      BY <1>1
    <2> QED BY <1>3, <2>1 DEF Todo
  <1> QED BY <1>4, <1>5 DEF m

LEMMA CutAfter ==
    ASSUME walk.todo \in Seq(Item), NEW k \in Nat, walk'.todo = SubSeq(walk.todo, k + 1, Len(walk.todo))
    PROVE  \A i \in Nat, t \in Item : Todo(i, t) /\ k < i => \E j \in Nat : Todo(j, t)'
  <1> DEFINE s == walk.todo
             n == Len(walk.todo)
             r == SubSeq(s, k + 1, n)
  <1>1. n \in Nat /\ \A i \in 1..n : s[i] \in Item
    BY LenProperties, ElementOfSeq
  <1> HIDE DEF n
  <1>2. \A i \in (k + 1)..n : s[i] \in Item
    BY <1>1
  <1>3. /\ Len(r) = IF k + 1 <= n THEN n - (k + 1) + 1 ELSE 0
        /\ \A i \in 1..(n - (k + 1) + 1) : r[i] = s[(k + 1) + i - 1]
    BY <1>1, <1>2, SubSeqProperties
  <1>4. walk'.todo = r
    BY DEF n
  <1> HIDE DEF r
  <1> SUFFICES ASSUME NEW i \in Nat, NEW t \in Item, Todo(i, t), k < i PROVE \E j \in Nat : Todo(j, t)'
    OBVIOUS
  <1>5. i \in 1..n /\ s[i] = t
    BY DEF Todo, n
  <1>6. PICK j \in Nat : j = i - k
    BY <1>1, <1>5
  <1>7. j \in 1..(n - (k + 1) + 1) /\ (k + 1) + j - 1 = i /\ k + 1 <= n
    BY <1>1, <1>5, <1>6
  <1>8. j \in 1..Len(r) /\ r[j] = t
    BY <1>3, <1>5, <1>7
  <1>9. Todo(j, t)'
    BY <1>4, <1>8 DEF Todo
  <1> QED BY <1>9

-----------------------------------------------------------------------------
(* The steps of the walk.                                                  *)
Calm == KInv /\ LowerTree /\ Finished /\ Clean /\ Original /\ Applied /\ Merged

WalkGood ==
    /\ ListedWas' /\ Deepest' /\ SentWas'
    /\ \A p \in Paths : lower[p] # Absent /\ ToCome(p) => ToCome(p)' \/ Gone(p)

LEMMA Untold ==
    ASSUME Shape, NEW p \in Paths, ToCome(p)
    PROVE  ~Told(p)
  BY PastCome DEF Shape, LoopShape, ToldPast

(* What the walk finds is what was there.                                  *)
LEMMA StillAs ==
    ASSUME Calm, NEW p \in Paths, ToCome(p)
    PROVE  /\ dest[p] # Absent => dest[p] = lower[p]
           /\ lower[p] # Absent /\ dest[p] # lower[p] => Gone(p)
  <1>1. ~Told(p)
    BY Untold DEF Calm, KInv, IInv
  <1> QED BY <1>1 DEF Calm, Applied, Untouched, Changed

LEMMA CalmTypes ==
    ASSUME Calm
    PROVE  /\ Typed /\ Shape /\ WalkShape /\ FeedShape /\ LoopShape
           /\ walk.todo \in Seq(Item) /\ c1 \in Seq(Named)
           /\ source \in [Paths -> Kinds] /\ TreeLike(source)
           /\ dest \in [Paths -> Kinds] /\ TreeLike(dest)
           /\ lower \in [Paths -> Kinds] /\ TreeLike(lower)
  BY WalkRecord DEF Calm, KInv, IInv, Shape, Typed, TreeShape, LowerTree

LEMMA LessOriginal ==
    ASSUME TodoLess, Walking' => Walking, lower' = lower, ListedWas, Deepest
    PROVE  ListedWas' /\ Deepest'
  <1>1. PICK d \in Nat : \A i \in Nat, t \in Item : Todo(i, t)' => i + d \in Nat /\ Todo(i + d, t)
    BY DEF TodoLess
  <1>2. \A i, j \in Nat : i < j => i + d < j + d
    OBVIOUS
  <1>3. Deepest'
    BY <1>1, <1>2 DEF Deepest
  <1>4. ListedWas'
    <2> SUFFICES ASSUME Walking', NEW i \in Nat, NEW t \in Item, Todo(i, t)'
                 PROVE  /\ t.path # <<>> => lower[t.path] # Absent /\ t.isDir = IsDir(lower[t.path])
                        /\ t.op = "list" => i = 1
      BY DEF ListedWas
    <2>1. i + d \in Nat /\ Todo(i + d, t) /\ Walking
      BY <1>1
    <2>2. i >= 1
      BY DEF Todo
    <2>3. t.op = "list" => i + d = 1
      BY <2>1 DEF ListedWas
    <2>4. i + d = 1 => i = 1
      BY <2>2
    <2> QED BY <2>1, <2>3, <2>4 DEF ListedWas
  <1> QED BY <1>3, <1>4

LEMMA ListsGood ==
    ASSUME Calm, WalkLists, lower' = lower, f1' = f1
    PROVE  WalkGood
  <1> DEFINE h == Head(walk.todo)
             v == Visits(dest, h.path)
  <1>0. Typed /\ Shape /\ walk.todo \in Seq(Item) /\ dest \in [Paths -> Kinds] /\ lower \in [Paths -> Kinds] /\ TreeLike(lower)
    BY CalmTypes
  <1>1. walk.pc = "walk" /\ walk.todo # <<>> /\ h.op = "list" /\ c1' = c1 /\ Walking
    BY DEF WalkLists, Walking
  <1>2. PICK g \in Item : g = h /\ Todo(1, g)
    BY <1>0, <1>1, HeadTodo
  <1>3. g.path \in Seq(Nat) /\ g.op = "list" /\ g.path \in Paths \cup {<<>>}
    BY <1>1, <1>2, NamedFacts DEF Item
  <1>5. ASSUME NEW p \in Paths, Below(p, g.path) PROVE ToCome(p)
    BY <1>1, <1>2, <1>5 DEF ToCome, Listed, Lists
  <1>6. ListedWas /\ Deepest /\ SentWas
    BY DEF Calm, Original
  <1>7. \A p \in Paths : Queued(p) \/ Held1(p) => ToCome(p)'
    BY <1>1 DEF ToCome, Queued, Held1, Wait
  <1>8. SentWas'
    <2>1. walk'.pc = walk.pc
      <3>1. \E s : walk' = [walk EXCEPT !.todo = s]
        BY DEF WalkLists
      <3> QED BY <1>0, <3>1 DEF Typed, Walks
    <2> QED BY <1>1, <1>6, <2>1 DEF SentWas, Was, Wait
  <1>9. CASE HasDir(dest, h.path)
    <2>1. /\ v \in Seq(Item) /\ Len(v) \in Nat
          /\ \A i \in 1..Len(v) : v[i].op = "visit" /\ v[i].path \in Paths /\ Front(v[i].path) = g.path
          /\ \A i \in 1..Len(v) : v[i].path \in Children(dest, g.path) /\ v[i].isDir = IsDir(dest[v[i].path])
          /\ \A r \in Children(dest, g.path) : \E i \in 1..Len(v) : v[i].path = r
      BY <1>0, <1>2, <1>3, VisitsFacts, VisitsAll
    <2>2. v \o Tail(walk.todo) \in Seq(Item) /\ walk' = [walk EXCEPT !.todo = v \o Tail(walk.todo)]
      <3>1. Tail(walk.todo) \in Seq(Item)
        BY <1>0, <1>1, HeadTailProperties
      <3> QED BY <1>9, <2>1, <3>1, ConcatProperties DEF WalkLists
    <2> HIDE DEF v, h
    <2>3. walk'.todo = v \o Tail(walk.todo) /\ walk'.pc = "walk"
      BY <1>0, <1>1, <2>2, WalkRecord
    <2>4. \A i \in Nat, t \in Item : Todo(i, t)' =>
                \/ i \in 1..Len(v) /\ t = v[i]
                \/ i > Len(v) /\ i - Len(v) + 1 \in Nat /\ i - Len(v) + 1 > 1 /\ Todo(i - Len(v) + 1, t)
      BY <1>0, <1>1, <2>1, <2>3, PutBefore
    <2>5. \A i \in Nat, t \in Item : Todo(i, t)' => (\E j \in 1..Len(v) : t = v[j]) \/ (\E j \in Nat : j # 1 /\ Todo(j, t))
      BY <2>4
    <2>6. \A i \in 1..Len(v) : lower[v[i].path] # Absent /\ v[i].isDir = IsDir(lower[v[i].path]) /\ Len(v[i].path) = Len(g.path) + 1
      <3> SUFFICES ASSUME NEW i \in 1..Len(v), NEW r \in Paths, r = v[i].path
                   PROVE  lower[r] # Absent /\ v[i].isDir = IsDir(lower[r]) /\ Len(r) = Len(g.path) + 1
        BY <2>1
      <3>1. dest[r] # Absent /\ Front(r) = g.path /\ v[i].isDir = IsDir(dest[r])
        BY <2>1 DEF Children, Present
      <3>2. Below(r, g.path) /\ Len(g.path) = Len(r) - 1 /\ Len(r) \in Nat
        BY <3>1, ChildFacts, PathTypes DEF Below
      <3>3. dest[r] = lower[r]
        BY <1>5, <3>1, <3>2, StillAs
      <3> QED BY <3>1, <3>2, <3>3
    <2>7. ListedWas'
      <3> SUFFICES ASSUME NEW i \in Nat, NEW t \in Item, Todo(i, t)'
                   PROVE  /\ t.path # <<>> => lower[t.path] # Absent /\ t.isDir = IsDir(lower[t.path])
                          /\ t.op # "list"
        BY DEF ListedWas
      <3>1. CASE \E j \in 1..Len(v) : t = v[j]
        BY <2>1, <2>6, <3>1
      <3>2. CASE \E j \in Nat : j # 1 /\ Todo(j, t)
        BY <1>1, <1>6, <3>2 DEF ListedWas
      <3> QED BY <2>5, <3>1, <3>2
    <2>8. Deepest'
      <3> SUFFICES ASSUME NEW i \in Nat, NEW j \in Nat, NEW t \in Item, NEW u \in Item, Todo(i, t)', Todo(j, u)', i < j
                   PROVE  Len(u.path) <= Len(t.path)
        BY DEF Deepest
      <3> DEFINE m == Len(v)
                 k == i - m + 1
                 l == j - m + 1
      <3>0. m \in Nat /\ Len(g.path) \in Nat /\ Len(t.path) \in Nat /\ Len(u.path) \in Nat
        BY <1>3, <2>1, NamedFacts, LenFacts
      <3>1. CASE i \in 1..m /\ t = v[i] /\ j \in 1..m /\ u = v[j]
        BY <2>6, <3>0, <3>1
      <3>2. CASE i \in 1..m /\ t = v[i] /\ l \in Nat /\ l > 1 /\ Todo(l, u)
        <4>1. Len(u.path) <= Len(g.path)
          <5>1. 1 < l /\ 1 \in Nat
            BY <3>2
          <5> QED BY <1>2, <1>6, <3>2, <5>1 DEF Deepest
        <4>2. Len(t.path) = Len(g.path) + 1
          BY <2>6, <3>2
        <4> QED BY <3>0, <4>1, <4>2
      <3>3. CASE k \in Nat /\ Todo(k, t) /\ l \in Nat /\ Todo(l, u)
        <4>1. k < l
          BY <3>0
        <4> QED BY <1>6, <3>3, <4>1 DEF Deepest
      <3>4. CASE i > m /\ j \in 1..m
        BY <3>0, <3>4
      <3> QED BY <2>4, <3>1, <3>2, <3>3, <3>4
    <2>9. ASSUME NEW p \in Paths, lower[p] # Absent, Listed(p) PROVE ToCome(p)' \/ Gone(p)
      <3>1. PICK i \in Nat, t \in Item : Todo(i, t) /\ Lists(t, p)
        BY <2>9 DEF Listed
      <3>w. PICK w \in Seq(Item) : w = v
        BY <2>1
      <3>2. /\ \A j \in Nat, u \in Item : Todo(j, u) /\ j # 1 => \E k \in Nat : Todo(k, u)'
            /\ \A j \in 1..Len(w) : Todo(j, w[j])'
        BY <1>0, <1>1, <2>3, <3>w, PutAfter
      <3>p. Walking'
        BY <2>3 DEF Walking
      <3>3. CASE i # 1
        BY <3>1, <3>2, <3>3, <3>p DEF ToCome, Listed
      <3>4. CASE i = 1
        <4>1. t = g
          BY <1>2, <3>1, <3>4 DEF Todo
        <4>2. Below(p, g.path)
          BY <1>3, <3>1, <4>1 DEF Lists
        <4>3. PICK r \in Paths : Front(r) = g.path /\ (r = p \/ Below(p, r))
          BY <1>3, <4>2, NextOnWay
        <4>4. Below(r, g.path) /\ lower[r] # Absent
          <5>1. IsDir(lower[r]) => lower[r] # Absent
            BY DEF IsDir, Dirs, Absent
          <5> QED BY <1>0, <2>9, <4>3, <5>1, ChildFacts, TreeBelow DEF Below
        <4>5. CASE dest[r] # Absent
          <5>1. r \in Children(dest, g.path)
            BY <4>3, <4>5 DEF Children, Present
          <5>2. PICK j \in 1..Len(w) : w[j].path = r
            BY <2>1, <3>w, <5>1
          <5>3. PICK u \in Item : u = w[j] /\ Lists(u, p)
            BY <2>1, <3>w, <4>3, <5>2, ElementOfSeq DEF Lists
          <5>4. Todo(j, u)' /\ j \in Nat
            BY <3>2, <5>3
          <5> QED BY <3>p, <5>3, <5>4 DEF ToCome, Listed
        <4>6. CASE dest[r] = Absent
          <5>1. Gone(r)
            BY <1>5, <4>4, <4>6, StillAs
          <5> QED BY <4>3, <5>1, GoneBelow
        <4> QED BY <4>5, <4>6
      <3> QED BY <3>3, <3>4
    <2> QED BY <1>7, <1>8, <2>7, <2>8, <2>9 DEF WalkGood, ToCome
  <1>10. CASE ~HasDir(dest, h.path)
    <2>1. Tail(walk.todo) \in Seq(Item) /\ walk' = [walk EXCEPT !.todo = Tail(walk.todo)]
      BY <1>0, <1>1, <1>10, HeadTailProperties DEF WalkLists
    <2>2. walk'.todo = Tail(walk.todo) /\ walk'.pc = "walk"
      BY <1>0, <1>1, <2>1, WalkRecord
    <2>3. walk'.todo = SubSeq(walk.todo, 1 + 1, Len(walk.todo)) /\ TodoLess
      BY <1>0, <1>1, <2>2, TailTodo, TailIsSubSeq
    <2>4. ListedWas' /\ Deepest'
      BY <1>1, <1>6, <2>3, LessOriginal
    <2>5. g.path \in Paths /\ ~IsDir(dest[g.path])
      BY <1>2, <1>3, <1>10 DEF HasDir
    <2>6. lower[g.path] # Absent
      BY <1>1, <1>2, <1>6, <2>5, PathTypes DEF ListedWas
    <2>7. ASSUME NEW p \in Paths, lower[p] # Absent, Below(p, g.path) PROVE Gone(p)
      <3>1. IsDir(lower[g.path])
        BY <1>0, <2>5, <2>7, TreeBelow
      <3>2. Told(g.path) \/ Gone(g.path)
        BY <2>5, <2>6, <3>1 DEF Calm, Applied, Changed
      <3>3. ~IsDir(source[g.path])
        BY <2>5, <3>1 DEF Calm, Applied, SharedDirs
      <3>4. CASE Told(g.path)
        BY <2>5, <2>7, <3>1, <3>3, <3>4 DEF Gone, Leaves
      <3>5. CASE Gone(g.path)
        BY <2>5, <2>7, <3>5, GoneBelow
      <3> QED BY <3>2, <3>4, <3>5
    <2>8. ASSUME NEW p \in Paths, lower[p] # Absent, Listed(p) PROVE ToCome(p)' \/ Gone(p)
      <3>1. PICK i \in Nat, t \in Item : Todo(i, t) /\ Lists(t, p)
        BY <2>8 DEF Listed
      <3>2. CASE 1 < i
        <4>1. \E j \in Nat : Todo(j, t)'
          BY <1>0, <2>3, <3>1, <3>2, CutAfter
        <4> QED BY <2>2, <3>1, <4>1 DEF ToCome, Listed, Walking
      <3>3. CASE i = 1
        <4>1. t = g
          BY <1>2, <3>1, <3>3 DEF Todo
        <4>2. Below(p, g.path)
          BY <1>3, <3>1, <4>1 DEF Lists
        <4> QED BY <2>7, <2>8, <4>2
      <3>4. i >= 1
        BY <3>1 DEF Todo
      <3> QED BY <3>2, <3>3, <3>4
    <2> QED BY <1>7, <1>8, <2>4, <2>8 DEF WalkGood, ToCome
  <1> QED BY <1>9, <1>10

LEMMA BetweenSiblings ==
    ASSUME NEW p \in Paths, NEW q \in Paths, NEW r \in Paths, Left(p, q), Left(q, r), Front(p) = Front(r),
           Len(r) <= Len(q), Len(q) <= Len(p)
    PROVE  Front(q) = Front(p)
  <1>1. /\ p \in Seq(Nat) /\ q \in Seq(Nat) /\ r \in Seq(Nat)
        /\ Len(p) \in Nat /\ Len(q) \in Nat /\ Len(r) \in Nat /\ Len(p) >= 1
        /\ Front(p) \in Seq(Nat) /\ Len(Front(p)) = Len(p) - 1 /\ \A j \in 1..(Len(p) - 1) : Front(p)[j] = p[j]
        /\ Front(q) \in Seq(Nat) /\ Len(Front(q)) = Len(q) - 1 /\ \A j \in 1..(Len(q) - 1) : Front(q)[j] = q[j]
        /\ Len(Front(r)) = Len(r) - 1 /\ \A j \in 1..(Len(r) - 1) : Front(r)[j] = r[j]
    BY PathTypes, ChildFacts
  <1>0. Len(p) - 1 = Len(r) - 1
    BY <1>1
  <1>l. Len(p) \in Nat /\ Len(p) = Len(q) /\ Len(p) = Len(r)
    <2>1. Len(p) \in Nat /\ Len(q) \in Nat /\ Len(r) \in Nat
      BY <1>1
    <2> QED BY <1>0, <2>1
  <1>2. PICK n \in Nat : n = Len(p) /\ n = Len(q) /\ n = Len(r)
    BY <1>l
  <1>3. \A j \in 1..(n - 1) : p[j] = r[j]
    BY <1>1, <1>2
  <1>4. PICK i \in 1..n : p[i] < q[i] /\ \A j \in 1..(i - 1) : p[j] = q[j]
    BY <1>2 DEF Left
  <1>5. PICK k \in 1..n : q[k] < r[k] /\ \A j \in 1..(k - 1) : q[j] = r[j]
    BY <1>2 DEF Left
  <1>6. \A j \in 1..n : p[j] \in Nat /\ q[j] \in Nat /\ r[j] \in Nat
    BY <1>1, <1>2, LenFacts
  <1>7. i = n
    <2> SUFFICES ASSUME i # n PROVE FALSE
      OBVIOUS
    <2>1. i \in 1..(n - 1) /\ i \in 1..n
      BY <1>2
    <2>2. p[i] = r[i] /\ p[i] \in Nat /\ q[i] \in Nat
      BY <1>3, <1>6, <2>1
    <2>3. CASE i < k
      <3>1. i \in 1..(k - 1)
        BY <2>1, <2>3
      <3> QED BY <1>4, <1>5, <2>2, <3>1
    <2>4. CASE i = k
      BY <1>4, <1>5, <2>2, <2>4
    <2>5. CASE k < i
      <3>1. k \in 1..(i - 1) /\ k \in 1..(n - 1) /\ k \in 1..n
        BY <1>2, <2>1, <2>5
      <3>2. p[k] = q[k] /\ p[k] = r[k] /\ p[k] \in Nat
        BY <1>3, <1>4, <1>6, <3>1
      <3> QED BY <1>5, <3>2
    <2> QED BY <1>2, <2>3, <2>4, <2>5
  <1>8. Len(Front(q)) = Len(Front(p)) /\ \A j \in 1..Len(Front(q)) : Front(q)[j] = Front(p)[j]
    BY <1>1, <1>2, <1>4, <1>7
  <1> QED BY <1>1, <1>8, SeqEqual

LEMMA VisitsGood ==
    ASSUME Calm, WalkVisits, lower' = lower, f1' = f1
    PROVE  WalkGood
  <1> DEFINE h == Head(walk.todo)
  <1>0. /\ Typed /\ Shape /\ walk.todo \in Seq(Item) /\ lower \in [Paths -> Kinds] /\ TreeLike(lower)
        /\ dest \in [Paths -> Kinds] /\ TodoOrder
    BY CalmTypes DEF WalkShape
  <1>1. walk.pc = "walk" /\ walk.todo # <<>> /\ h.op = "visit" /\ c1' = c1 /\ Walking
    BY DEF WalkVisits, Walking
  <1>2. PICK g \in Item : g = h /\ Todo(1, g)
    BY <1>0, <1>1, HeadTodo
  <1>3. g.path \in Paths /\ g.op = "visit" /\ g.path # <<>> /\ g.isDir \in BOOLEAN
    BY <1>1, <1>2, NamedFacts, PathTypes
  <1>6. ListedWas /\ Deepest /\ SentWas
    BY DEF Calm, Original
  <1>7. \A p \in Paths : Queued(p) \/ Held1(p) => ToCome(p)'
    BY <1>1 DEF ToCome, Queued, Held1, Wait
  <1>4. ToCome(g.path)
    BY <1>1, <1>2, <1>3 DEF ToCome, Listed, Lists
  <1>5. lower[g.path] # Absent
    BY <1>1, <1>2, <1>3, <1>6 DEF ListedWas
  <1>9. CASE dest[g.path] = Absent
    <2>1. walk' = [walk EXCEPT !.todo = SkipMissing(walk.todo, h)]
      BY <1>2, <1>9 DEF WalkVisits
    <2>g. Gone(g.path)
      BY <1>3, <1>4, <1>5, <1>9, StillAs
    <2> DEFINE n == Len(walk.todo)
               T == {i \in 1..n : walk.todo[i].op = "visit" /\ Front(walk.todo[i].path) = Front(h.path)}
               c == Cardinality(T)
    <2>2. n \in Nat /\ \A i \in 1..n : walk.todo[i] \in Item
      BY <1>0, LenProperties, ElementOfSeq
    <2>3. ASSUME NEW i \in T, NEW j \in 1..n, j < i PROVE j \in T
      <3>1. PICK t \in Item, u \in Item : t = walk.todo[i] /\ u = walk.todo[j]
        BY <2>2
      <3>2. t.op = "visit" /\ Front(t.path) = Front(g.path)
        BY <1>2, <3>1
      <3>3. Todo(i, t) /\ Todo(j, u) /\ i \in Nat /\ j \in Nat
        BY <3>1 DEF Todo
      <3>4. CASE j = 1
        <4>1. u = g
          BY <1>2, <3>3, <3>4 DEF Todo
        <4> QED BY <1>2, <1>3, <3>1, <4>1
      <3>5. CASE 1 < j
        <4>1. Left(g.path, u.path) /\ Left(u.path, t.path)
          BY <1>0, <1>2, <2>3, <3>3, <3>5 DEF TodoOrder
        <4>2. Len(u.path) <= Len(g.path) /\ Len(t.path) <= Len(u.path)
          BY <1>2, <1>6, <2>3, <3>3, <3>5 DEF Deepest
        <4>3. u.op = "visit"
          <5>1. u.op = "list" => j = 1
            BY <1>1, <1>6, <3>3 DEF ListedWas
          <5> QED BY <3>5, <5>1, NamedFacts
        <4>4. u.path \in Paths /\ t.path \in Paths
          BY <3>2, <4>3, NamedFacts
        <4>5. Front(u.path) = Front(g.path)
          BY <1>3, <3>2, <4>1, <4>2, <4>4, BetweenSiblings
        <4> QED BY <1>2, <3>1, <4>3, <4>5
      <3> QED BY <3>4, <3>5
    <2>4. T = 1..c /\ c \in Nat
      <3> HIDE DEF c, n
      <3>1. T = 1..Cardinality(T) /\ Cardinality(T) \in 0..n
        BY <2>2, <2>3, Downward
      <3> QED BY <2>2, <3>1 DEF c
    <2>5. PICK k \in Nat :
            /\ SkipMissing(walk.todo, h) = SubSeq(walk.todo, k + 1, Len(walk.todo))
            /\ \A i \in Nat, t \in Item : Todo(i, t) /\ i <= k =>
                 i = 1 \/ (t.path \in Paths /\ Front(t.path) = Front(g.path))
      <3>1. SkipMissing(walk.todo, h) = IF h.isDir THEN Tail(walk.todo) ELSE SubSeq(walk.todo, c + 1, Len(walk.todo))
        BY DEF SkipMissing
      <3>2. CASE g.isDir
        <4>1. Tail(walk.todo) = SubSeq(walk.todo, 1 + 1, Len(walk.todo))
          BY <1>0, <1>1, TailIsSubSeq
        <4>2. SkipMissing(walk.todo, h) = SubSeq(walk.todo, 1 + 1, Len(walk.todo))
          BY <1>2, <3>1, <3>2, <4>1
        <4>3. \A i \in Nat, t \in Item : Todo(i, t) /\ i <= 1 => i = 1
          BY DEF Todo
        <4> QED BY <4>2, <4>3
      <3>3. CASE ~g.isDir
        <4>1. SkipMissing(walk.todo, h) = SubSeq(walk.todo, c + 1, Len(walk.todo))
          BY <1>2, <3>1, <3>3
        <4>2. ASSUME NEW i \in Nat, NEW t \in Item, Todo(i, t), i <= c
              PROVE  t.path \in Paths /\ Front(t.path) = Front(g.path)
          <5>1. i \in 1..c
            BY <2>4, <4>2 DEF Todo
          <5>2. i \in T
            BY <2>4, <5>1
          <5>3. t.op = "visit" /\ Front(t.path) = Front(g.path)
            BY <1>2, <4>2, <5>2 DEF Todo
          <5> QED BY <5>3, NamedFacts
        <4> QED BY <2>4, <4>1, <4>2
      <3> QED BY <3>2, <3>3
    <2> HIDE DEF h, T, c, n
    <2>6. SubSeq(walk.todo, k + 1, Len(walk.todo)) \in Seq(Item)
      <3>1. \A i \in (k + 1)..Len(walk.todo) : walk.todo[i] \in Item
        BY <2>2 DEF n
      <3> QED BY <1>0, <2>2, <3>1, SubSeqProperties DEF n
    <2>7. walk'.todo = SubSeq(walk.todo, k + 1, Len(walk.todo)) /\ walk'.pc = "walk"
      <3>1. PICK s \in Seq(Item) : s = SubSeq(walk.todo, k + 1, Len(walk.todo))
        BY <2>6
      <3>2. walk' = [walk EXCEPT !.todo = s]
        BY <2>1, <2>5, <3>1
      <3>3. walk'.todo = s /\ walk'.pc = walk.pc
        BY <1>0, <3>2, WalkRecord
      <3> QED BY <1>1, <3>1, <3>3
    <2>8. ListedWas' /\ Deepest'
      BY <1>0, <1>1, <1>6, <2>7, CutTodo, LessOriginal
    <2>9. ASSUME NEW p \in Paths, lower[p] # Absent, Listed(p) PROVE ToCome(p)' \/ Gone(p)
      <3>1. PICK i \in Nat, t \in Item : Todo(i, t) /\ Lists(t, p)
        BY <2>9 DEF Listed
      <3>2. CASE k < i
        <4>1. \E j \in Nat : Todo(j, t)'
          BY <1>0, <2>7, <3>1, <3>2, CutAfter
        <4> QED BY <2>7, <3>1, <4>1 DEF ToCome, Listed, Walking
      <3>3. CASE i = 1 \/ (t.path \in Paths /\ Front(t.path) = Front(g.path))
        <4>1. t.path \in Paths /\ Front(t.path) = Front(g.path)
          <5>1. i = 1 => t = g
            BY <1>2, <3>1 DEF Todo
          <5> QED BY <1>3, <3>3, <5>1
        <4>2. PICK a \in Paths : Below(g.path, a) /\ Leaves(a)
          BY <2>g DEF Gone
        <4>3. Below(t.path, a)
          BY <1>3, <4>1, <4>2, AboveFront, FrontAbove
        <4>4. Gone(t.path)
          BY <4>2, <4>3 DEF Gone
        <4>5. p = t.path \/ Below(p, t.path)
          BY <3>1 DEF Lists
        <4> QED BY <4>1, <4>4, <4>5, GoneBelow
      <3> QED BY <2>5, <3>1, <3>2, <3>3
    <2>10. SentWas'
      BY <1>1, <1>6, <2>7 DEF SentWas, Was, Wait
    <2> QED BY <1>7, <2>8, <2>9, <2>10 DEF WalkGood, ToCome
  <1>10. CASE dest[g.path] # Absent
    <2>1. walk' = [walk EXCEPT !.pc = "send", !.at = Entry(g.path, dest[g.path])]
      BY <1>2, <1>10 DEF WalkVisits
    <2>2. PICK e \in Named : e = Entry(g.path, dest[g.path])
      BY <1>0, <1>3, NamedFacts
    <2>3. walk'.todo = walk.todo /\ walk'.pc = "send" /\ walk'.at = e
      BY <1>0, <2>1, <2>2, WalkRecord
    <2>4. ListedWas' /\ Deepest'
      BY <1>1, <1>6, <2>3, SameTodo, LessOriginal
    <2>5. Was(e)
      <3>1. dest[g.path] = lower[g.path]
        BY <1>3, <1>4, <1>10, StillAs
      <3> QED BY <1>5, <2>2, <3>1 DEF Was, Entry
    <2>6. SentWas'
      BY <1>1, <1>6, <2>3, <2>5 DEF SentWas, Was, Wait
    <2>7. \A p \in Paths : Listed(p) => ToCome(p)'
      BY <2>3 DEF Listed, ToCome, Walking, Todo
    <2> QED BY <1>7, <2>4, <2>6, <2>7 DEF WalkGood, ToCome
  <1> QED BY <1>9, <1>10

LEMMA SendsGood ==
    ASSUME Calm, WalkSends, lower' = lower, f1' = f1
    PROVE  WalkGood
  <1>0. /\ Typed /\ Shape /\ walk.todo \in Seq(Item) /\ c1 \in Seq(Named)
        /\ lower \in [Paths -> Kinds] /\ TreeLike(lower) /\ WalkShape
    BY CalmTypes
  <1>1. walk.pc = "send" /\ c1' = Append(c1, walk.at) /\ Walking
    BY DEF WalkSends, Walking
  <1>2. PICK t \in Item, e \in Named : Todo(1, t) /\ t.op = "visit" /\ walk.at = e /\ e.path = t.path
    BY <1>0, <1>1 DEF WalkShape, Sending
  <1>3. walk.todo # <<>> /\ t = Head(walk.todo) /\ t.path \in Paths /\ t.isDir \in BOOLEAN /\ t.path # <<>>
    <2>1. walk.todo # <<>>
      BY <1>2, EmptySeq DEF Todo
    <2>2. Todo(1, Head(walk.todo))
      BY <1>0, <2>1, HeadTodo
    <2>3. t.path \in Paths /\ t.isDir \in BOOLEAN
      BY <1>2, NamedFacts
    <2> QED BY <1>2, <2>1, <2>2, <2>3, PathTypes DEF Todo
  <1>6. ListedWas /\ Deepest /\ SentWas
    BY DEF Calm, Original
  <1>7. Was(e)
    BY <1>1, <1>2, <1>6 DEF SentWas
  <1>8. t.isDir = IsDir(lower[t.path]) /\ lower[t.path] # Absent
    BY <1>1, <1>2, <1>3, <1>6 DEF ListedWas
  <1> DEFINE v == IF t.isDir THEN << [t EXCEPT !.op = "list"] >> ELSE <<>>
  <1>9. PICK w \in Seq(Item) :
          /\ w = v /\ Len(w) \in Nat
          /\ \A i \in 1..Len(w) : i = 1 /\ w[i] \in Item /\ w[i].path = t.path /\ w[i].isDir = t.isDir
          /\ t.isDir => Len(w) = 1
    <2>1. CASE t.isDir
      <3> DEFINE u == [t EXCEPT !.op = "list"]
      <3>0. t \in [op : {"visit"}, path : Paths, isDir : BOOLEAN]
        BY <1>2 DEF Item
      <3>1. u \in [op : {"list"}, path : Paths \cup {<<>>}, isDir : {TRUE}] /\ u.path = t.path /\ u.isDir = t.isDir
        BY <2>1, <3>0
      <3> HIDE DEF u
      <3>2. u \in Item
        BY <3>1 DEF Item
      <3>3. v = <<u>>
        BY <2>1 DEF u
      <3>4. v \in Seq(Item) /\ Len(v) = 1 /\ v[1] = u
        BY <3>2, <3>3
      <3>5. \A i \in 1..1 : i = 1
        OBVIOUS
      <3> QED BY <2>1, <3>1, <3>2, <3>4, <3>5
    <2>2. CASE ~t.isDir
      <3>1. v = <<>> /\ v \in Seq(Item) /\ Len(v) = 0
        BY <2>2, EmptySeq
      <3>2. Len(v) \in Nat /\ \A i \in 1..Len(v) : FALSE
        BY <3>1
      <3> HIDE DEF v
      <3> QED BY <2>2, <3>1, <3>2
    <2> QED BY <1>3, <2>1, <2>2
  <1>10. walk' = [walk EXCEPT !.pc = "walk", !.at = Nil, !.todo = w \o Tail(walk.todo)]
    BY <1>3, <1>9 DEF WalkSends, Visited
  <1> HIDE DEF v
  <1>11. w \o Tail(walk.todo) \in Seq(Item)
    BY <1>0, <1>3, HeadTailProperties, ConcatProperties
  <1>12. walk'.todo = w \o Tail(walk.todo) /\ walk'.pc = "walk"
    BY <1>0, <1>10, <1>11, WalkRecord
  <1>13. \A i \in Nat, u \in Item : Todo(i, u)' =>
                \/ i \in 1..Len(w) /\ u = w[i]
                \/ i > Len(w) /\ i - Len(w) + 1 \in Nat /\ i - Len(w) + 1 > 1 /\ Todo(i - Len(w) + 1, u)
    BY <1>0, <1>3, <1>12, PutBefore
  <1>14. ListedWas'
    <2> SUFFICES ASSUME NEW i \in Nat, NEW u \in Item, Todo(i, u)'
                 PROVE  /\ u.path # <<>> => lower[u.path] # Absent /\ u.isDir = IsDir(lower[u.path])
                        /\ u.op = "list" => i = 1
      BY DEF ListedWas
    <2>1. CASE i \in 1..Len(w) /\ u = w[i]
      BY <1>8, <1>9, <2>1
    <2>2. CASE i - Len(w) + 1 \in Nat /\ i - Len(w) + 1 > 1 /\ Todo(i - Len(w) + 1, u)
      <3>1. i - Len(w) + 1 # 1
        BY <2>2
      <3> QED BY <1>1, <1>6, <2>2, <3>1 DEF ListedWas
    <2> QED BY <1>13, <2>1, <2>2
  <1>15. Deepest'
    <2> SUFFICES ASSUME NEW i \in Nat, NEW j \in Nat, NEW u \in Item, NEW x \in Item, Todo(i, u)', Todo(j, x)', i < j
                 PROVE  Len(x.path) <= Len(u.path)
      BY DEF Deepest
    <2> DEFINE m == Len(w)
               k == i - m + 1
               l == j - m + 1
    <2>0. m \in Nat
      BY <1>9
    <2>1. CASE j \in 1..m
      <3>1. j = 1 /\ i >= 1
        BY <1>9, <2>1 DEF Todo
      <3> QED BY <3>1
    <2>2. CASE i \in 1..m /\ u = w[i] /\ l \in Nat /\ l > 1 /\ Todo(l, x)
      <3>1. Len(x.path) <= Len(t.path)
        <4>1. 1 < l /\ 1 \in Nat
          BY <2>2
        <4> QED BY <1>2, <1>6, <2>2, <4>1 DEF Deepest
      <3> QED BY <1>9, <2>2, <3>1
    <2>3. CASE k \in Nat /\ Todo(k, u) /\ l \in Nat /\ Todo(l, x)
      <3>1. k < l
        BY <2>0
      <3> QED BY <1>6, <2>3, <3>1 DEF Deepest
    <2> QED BY <1>13, <2>1, <2>2, <2>3
  <1>16. /\ \A i \in Nat, d \in Named : Wait(i, d)' => Wait(i, d) \/ d = e
         /\ \A i \in Nat, d \in Named : Wait(i, d) => Wait(i, d)'
         /\ \E i \in Nat : Wait(i, e)'
    <2>1. /\ Len(c1) \in Nat /\ Len(c1') = Len(c1) + 1
          /\ \A i \in 1..(Len(c1) + 1) : (i \in 1..Len(c1) /\ c1'[i] = c1[i]) \/ (i = Len(c1) + 1 /\ c1'[i] = e)
      BY <1>0, <1>1, <1>2, AppendFacts
    <2>2. PICK n \in Nat : n = Len(c1)
      BY <2>1
    <2>3. n + 1 \in 1..(n + 1) /\ ~(n + 1 \in 1..n) /\ \A i \in 1..n : i \in 1..(n + 1) /\ i # n + 1
      OBVIOUS
    <2>4. Wait(n + 1, e)'
      BY <2>1, <2>2, <2>3 DEF Wait
    <2>5. \A i \in Nat, d \in Named : Wait(i, d)' => Wait(i, d) \/ d = e
      BY <2>1 DEF Wait
    <2>6. \A i \in Nat, d \in Named : Wait(i, d) => Wait(i, d)'
      BY <2>1, <2>2, <2>3 DEF Wait
    <2>7. n + 1 \in Nat
      OBVIOUS
    <2> QED BY <2>4, <2>5, <2>6, <2>7
  <1>17. SentWas'
    BY <1>6, <1>7, <1>12, <1>16 DEF SentWas, Was
  <1>18. \A p \in Paths : Queued(p) \/ Held1(p) => ToCome(p)'
    BY <1>16 DEF ToCome, Queued, Held1
  <1>19. ASSUME NEW p \in Paths, lower[p] # Absent, Listed(p) PROVE ToCome(p)'
    <2>1. PICK i \in Nat, u \in Item : Todo(i, u) /\ Lists(u, p)
      BY <1>19 DEF Listed
    <2>2. /\ \A j \in Nat, x \in Item : Todo(j, x) /\ j # 1 => \E k \in Nat : Todo(k, x)'
          /\ \A j \in 1..Len(w) : Todo(j, w[j])'
      BY <1>0, <1>3, <1>12, PutAfter
    <2>3. Walking'
      BY <1>12 DEF Walking
    <2>4. CASE i # 1
      BY <2>1, <2>2, <2>3, <2>4 DEF ToCome, Listed
    <2>5. CASE i = 1
      <3>1. u = t
        BY <1>2, <2>1, <2>5 DEF Todo
      <3>2. CASE p = t.path
        BY <1>2, <1>16, <3>2 DEF ToCome, Queued
      <3>3. CASE Below(p, t.path)
        <4>1. IsDir(lower[t.path])
          BY <1>0, <1>3, <1>19, <3>3, TreeBelow
        <4>2. t.isDir /\ Len(w) = 1
          BY <1>8, <1>9, <4>1
        <4>3. PICK x \in Item : x = w[1] /\ Todo(1, x)' /\ x.path = t.path
          BY <1>9, <2>2, <4>2
        <4> QED BY <2>3, <3>3, <4>3 DEF ToCome, Listed, Lists
      <3> QED BY <2>1, <3>1, <3>2, <3>3 DEF Lists
    <2> QED BY <2>4, <2>5
  <1> QED BY <1>14, <1>15, <1>17, <1>18, <1>19 DEF WalkGood, ToCome

LEMMA StopsGood ==
    ASSUME Calm, WalkEnds \/ WalkCloses \/ WalkReturns, lower' = lower, f1' = f1
    PROVE  WalkGood
  <1>0. Typed /\ walk.todo \in Seq(Item)
    BY CalmTypes
  <1>1. c1' = c1 /\ ListedWas /\ Deepest /\ SentWas
    BY DEF WalkEnds, WalkCloses, WalkReturns, Calm, Original
  <1>2. walk'.todo = walk.todo /\ walk'.pc \in {"close", "return", "done"}
    <2>1. CASE WalkEnds
      <3>1. walk' = [walk EXCEPT !.pc = "close", !.err = "none"] /\ "none" \in Errs
        BY <2>1 DEF WalkEnds, WalkStops, Errs
      <3> QED BY <1>0, <3>1, WalkRecord
    <2>2. CASE WalkCloses \/ WalkReturns
      <3>1. PICK l \in {"return", "done"} : walk' = [walk EXCEPT !.pc = l] /\ l \in Pcs
        BY <2>2 DEF WalkCloses, WalkReturns, Pcs
      <3> QED BY <1>0, <3>1, WalkRecord
    <2> QED BY <2>1, <2>2
  <1>3. ListedWas' /\ Deepest' /\ SentWas'
    <2>1. ~Walking'
      BY <1>2 DEF Walking
    <2>2. SentWas'
      BY <1>1, <1>2 DEF SentWas, Was, Wait
    <2> QED BY <1>1, <1>2, <2>1, <2>2, SameTodo, LessOriginal
  <1>4. \A p \in Paths : ~Listed(p)
    <2>1. CASE WalkEnds
      <3>1. walk.todo = <<>>
        BY <2>1 DEF WalkEnds
      <3> QED BY <3>1, EmptySeq DEF Listed, Todo
    <2>2. CASE WalkCloses \/ WalkReturns
      BY <2>2 DEF WalkCloses, WalkReturns, Listed, Walking
    <2> QED BY <2>1, <2>2
  <1>5. \A p \in Paths : Queued(p) \/ Held1(p) => ToCome(p)'
    BY <1>1 DEF ToCome, Queued, Held1, Wait
  <1> QED BY <1>3, <1>4, <1>5 DEF WalkGood, ToCome

LEMMA WalkStep ==
    ASSUME Calm, Walk, Clean'
    PROVE  Original' /\ Applied' /\ Merged'
  <1>0. Typed /\ Shape /\ WalkShape /\ FeedShape
    BY CalmTypes
  <1>1. /\ UNCHANGED <<source, lower, dest, feedVars, loopVars>>
        /\ \A x \in Seq(Nat) : LowerRest(x) => LowerRest(x)'
    BY <1>0, WalkKept DEF WalkKeeps
  <1>2. /\ feed' = feed /\ c2' = c2 /\ f1' = f1 /\ f2' = f2 /\ rmdir' = rmdir
        /\ loop' = loop /\ change' = change /\ changes' = changes
    BY <1>1 DEF feedVars, loopVars
  <1>3. WalkGood
    <2>1. ~WalkCanceled /\ ~WalkFails
      <3>1. walk \in Walks /\ walk'.err = "none"
        BY <1>0 DEF Typed, Clean
      <3>2. ASSUME NEW e, walk' = [walk EXCEPT !.pc = "close", !.err = e] PROVE e = "none"
        BY <3>1, <3>2 DEF Walks
      <3> QED BY <3>2 DEF WalkCanceled, WalkFails, WalkStops
    <2> QED BY <1>1, <1>2, <2>1, ListsGood, VisitsGood, SendsGood, StopsGood DEF Walk
  <1>4. UpperHas' /\ LowerWas'
    BY <1>1, <1>2 DEF Calm, Original, UpperHas, LowerWas, Has, Was, Rest, Came
  <1>5. \A x \in Seq(Nat) : (LowerPast(x) => LowerPast(x)') /\ (UpperPast(x) => UpperPast(x)')
    <2>1. \A x \in Seq(Nat) : UpperRest(x)' <=> UpperRest(x)
      BY <1>0, <1>1, SameFeed
    <2> QED BY <1>1, <1>2, <2>1 DEF LowerPast, UpperPast
  <1>6. Merged'
    BY <1>1, <1>2, <1>3, <1>5, MergeStill DEF Calm, WalkGood
  <1>7. Applied'
    <2>1. \A p \in Paths : Pending(p) => Pending(p)'
      BY <1>2 DEF Pending, Rest, Came
    <2> QED BY <1>1, <1>2, <2>1, AppliedStill DEF Calm
  <1> QED BY <1>3, <1>4, <1>6, <1>7 DEF WalkGood, Original

(* The steps of the other side.                                            *)
LEMMA SameLower ==
    ASSUME UNCHANGED <<walkVars, lower>>, f1' \in {f1, Nil}, ListedWas, Deepest, SentWas, LowerWas
    PROVE  /\ ListedWas' /\ Deepest' /\ SentWas' /\ LowerWas'
           /\ f1' = f1 => \A p \in Paths : ToCome(p) => ToCome(p)'
           /\ \A p \in Paths : ToCome(p) => ToCome(p)' \/ Held1(p)
  <1>1. walk' = walk /\ c1' = c1
    BY DEF walkVars
  <1>2. /\ \A i \in Nat, e \in Named : Wait(i, e)' <=> Wait(i, e)
        /\ \A i \in Nat, t \in Item : Todo(i, t)' <=> Todo(i, t)
        /\ Walking' <=> Walking
    BY <1>1 DEF Wait, Todo, Walking
  <1>3. ListedWas'
    BY <1>2 DEF ListedWas
  <1>4. Deepest'
    BY <1>2 DEF Deepest
  <1>5. SentWas'
    BY <1>1, <1>2 DEF SentWas, Was
  <1>6. LowerWas'
    BY NamedFacts DEF LowerWas, Was
  <1>7. \A p \in Paths : (Listed(p) => Listed(p)') /\ (Queued(p) => Queued(p)')
    BY <1>2 DEF Listed, Queued
  <1> QED BY <1>3, <1>4, <1>5, <1>6, <1>7 DEF ToCome, Held1

LEMMA SameUpper ==
    ASSUME UNCHANGED <<feedVars, source>>, f2' \in {f2, Nil}, UpperHas
    PROVE  UpperHas'
  <1>1. feed' = feed /\ c2' = c2
    BY DEF feedVars
  <1>2. \A e \in Named : f2' = e => f2 = e
    BY NamedFacts
  <1> QED BY <1>1, <1>2 DEF UpperHas, Has, Rest, Came

LEMMA FeedStep ==
    ASSUME Calm, Feed, Clean'
    PROVE  Original' /\ Applied' /\ Merged'
  <1>0. Typed /\ Shape /\ WalkShape /\ FeedShape /\ RestDone /\ Complete
    BY CalmTypes DEF Calm, KInv, Supplied
  <1>1. /\ UNCHANGED <<source, lower, dest, walkVars, loopVars>>
        /\ \A x \in Seq(Nat) : UpperRest(x) => UpperRest(x)'
    BY <1>0, FeedKept
  <1>2. /\ f1' = f1 /\ f2' = f2 /\ rmdir' = rmdir
        /\ loop' = loop /\ change' = change /\ changes' = changes
    BY <1>1 DEF loopVars
  <1>3. ListedWas /\ Deepest /\ SentWas /\ LowerWas /\ UpperHas
    BY DEF Calm, Original
  <1>4. ListedWas' /\ Deepest' /\ SentWas' /\ LowerWas' /\ \A p \in Paths : ToCome(p) => ToCome(p)'
    BY <1>1, <1>2, <1>3, SameLower
  <1>5. UpperHas'
    <2>1. CASE FeedSends
      <3>1. /\ feed.rest # <<>> /\ feed.rest \in Seq(Paths) /\ c2 \in Seq(Named)
            /\ feed' = [feed EXCEPT !.rest = Tail(feed.rest)]
            /\ c2' = Append(c2, Entry(Head(feed.rest), source[Head(feed.rest)]))
        BY <1>0, <2>1, FeedRecord DEF FeedSends, Typed
      <3>2. /\ Head(feed.rest) \in Paths /\ Tail(feed.rest) \in Seq(Paths) /\ Rest(1, Head(feed.rest))
            /\ \A i \in 1..Len(Tail(feed.rest)) : i + 1 \in 1..Len(feed.rest) /\ Tail(feed.rest)[i] = feed.rest[i + 1]
        BY <3>1, TailFacts DEF Rest
      <3>3. PICK p \in Paths, e \in Named : p = Head(feed.rest) /\ e = Entry(p, source[p])
        BY <1>0, <3>2, NamedFacts DEF Typed
      <3>4. feed'.rest = Tail(feed.rest)
        BY <1>0, <3>1, <3>2, FeedRecord
      <3>5. Has(e)
        <4>1. source[p] # Absent
          BY <1>3, <3>2, <3>3 DEF UpperHas
        <4> QED BY <3>3, <4>1 DEF Has, Entry
      <3>6. \A i \in Nat, q \in Paths : Rest(i, q)' => source[q] # Absent
        <4> SUFFICES ASSUME NEW i \in Nat, NEW q \in Paths, Rest(i, q)' PROVE source[q] # Absent
          OBVIOUS
        <4>1. Rest(i + 1, q) /\ i + 1 \in Nat
          BY <3>2, <3>4 DEF Rest
        <4> QED BY <1>3, <4>1 DEF UpperHas
      <3>7. \A i \in Nat, d \in Named : Came(i, d)' => Came(i, d) \/ d = e
        <4>1. /\ Len(c2) \in Nat /\ Len(c2') = Len(c2) + 1
              /\ \A i \in 1..(Len(c2) + 1) : (i \in 1..Len(c2) /\ c2'[i] = c2[i]) \/ (i = Len(c2) + 1 /\ c2'[i] = e)
          BY <3>1, <3>3, AppendFacts
        <4> QED BY <4>1 DEF Came
      <3> QED BY <1>1, <1>2, <1>3, <3>5, <3>6, <3>7 DEF UpperHas, Has
    <2>2. CASE FeedStops \/ FeedCloses \/ FeedReturns
      <3>1. c2' = c2
        BY <2>2 DEF FeedStops, FeedCloses, FeedReturns
      <3>2. feed'.rest = feed.rest
        <4>1. \/ \E l \in {"close", "return", "done"} : feed' = [feed EXCEPT !.pc = l]
              \/ feed' = [feed EXCEPT !.pc = "close", !.err = "canceled"]
          BY <2>2 DEF FeedStops, FeedCloses, FeedReturns
        <4> QED BY <1>0, <4>1, FeedRecord
      <3> QED BY <1>1, <1>2, <1>3, <3>1, <3>2 DEF UpperHas, Has, Rest, Came
    <2> QED BY <2>1, <2>2 DEF Feed
  <1>6. \A x \in Seq(Nat) : (LowerPast(x) => LowerPast(x)') /\ (UpperPast(x) => UpperPast(x)')
    <2>1. \A x \in Seq(Nat) : LowerRest(x)' <=> LowerRest(x)
      BY <1>0, <1>1, SameWalk
    <2> QED BY <1>1, <1>2, <2>1 DEF LowerPast, UpperPast
  <1>7. Merged'
    BY <1>1, <1>2, <1>4, <1>6, MergeStill DEF Calm
  <1>8. Applied'
    <2>1. \A p \in Paths : Pending(p) => Pending(p)'
      BY <1>0, <1>1, <1>2, FeedSupplies
    <2> QED BY <1>1, <1>2, <2>1, AppliedStill DEF Calm
  <1> QED BY <1>4, <1>5, <1>7, <1>8 DEF Original

LEMMA TakeLowerStep ==
    ASSUME Calm, TakeLower, UNCHANGED <<source, lower>>
    PROVE  Original' /\ Applied' /\ Merged'
  <1>0. Typed /\ Shape /\ c1 \in Seq(Named)
    BY CalmTypes
  <1>1. /\ UNCHANGED <<dest, walk, open1, feedVars, f2, rmdir, loop, change, changes>> /\ f1 = Nil
        /\ \/ c1 # <<>> /\ f1' = Head(c1) /\ c1' = Tail(c1)
           \/ f1' = f1 /\ c1' = c1
    BY DEF TakeLower
  <1>2. ListedWas /\ Deepest /\ SentWas /\ LowerWas /\ UpperHas
    BY DEF Calm, Original
  <1>3. /\ \A i \in Nat, t \in Item : Todo(i, t)' <=> Todo(i, t)
        /\ Walking' <=> Walking
    BY <1>1 DEF Todo, Walking
  <1>4. ListedWas' /\ Deepest'
    <2>1. ListedWas'
      BY <1>2, <1>3 DEF ListedWas
    <2> QED BY <1>2, <1>3, <2>1 DEF Deepest
  <1>5. UpperHas'
    BY <1>1, <1>2, SameUpper
  <1>6. SentWas' /\ LowerWas' /\ \A p \in Paths : Queued(p) => Queued(p)' \/ Held1(p)'
    <2>1. CASE f1' = f1 /\ c1' = c1
      BY <1>1, <1>2, <2>1 DEF SentWas, LowerWas, Was, Queued, Wait
    <2>2. CASE c1 # <<>> /\ f1' = Head(c1) /\ c1' = Tail(c1)
      <3>1. /\ Head(c1) \in Named /\ 1 \in 1..Len(c1) /\ Head(c1) = c1[1] /\ Len(c1) \in Nat
            /\ \A i \in 1..Len(Tail(c1)) : i + 1 \in 1..Len(c1) /\ Tail(c1)[i] = c1[i + 1]
        BY <1>0, <2>2, TailFacts, LenProperties
      <3>2. Len(Tail(c1)) = Len(c1) - 1
        BY <1>0, <2>2, HeadTailProperties
      <3>3. PICK g \in Named : g = Head(c1) /\ Wait(1, g)
        BY <3>1 DEF Wait
      <3>4. \A i \in Nat, e \in Named : Wait(i, e)' => i + 1 \in Nat /\ Wait(i + 1, e)
        BY <2>2, <3>1 DEF Wait
      <3>5. SentWas'
        BY <1>1, <1>2, <3>4 DEF SentWas, Was
      <3>6. LowerWas'
        <4>1. Was(g) /\ 1 \in Nat
          BY <1>2, <3>3 DEF SentWas
        <4> QED BY <1>1, <2>2, <3>3, <4>1 DEF LowerWas, Was
      <3>7. ASSUME NEW p \in Paths, Queued(p) PROVE Queued(p)' \/ Held1(p)'
        <4>1. PICK i \in Nat, e \in Named : Wait(i, e) /\ e.path = p
          BY <3>7 DEF Queued
        <4>2. i \in 1..Len(c1) /\ c1[i] = e
          BY <4>1 DEF Wait
        <4>3. CASE i = 1
          <5>1. f1' = e
            BY <2>2, <3>1, <4>2, <4>3
          <5> QED BY <4>1, <5>1 DEF Held1
        <4>4. CASE i # 1
          <5>1. PICK j \in Nat : j = i - 1
            BY <3>1, <4>2
          <5>2. j \in 1..Len(Tail(c1)) /\ j + 1 = i
            BY <3>1, <3>2, <4>2, <4>4, <5>1
          <5>3. Wait(j, e)'
            BY <2>2, <3>1, <4>2, <5>2 DEF Wait
          <5> QED BY <4>1, <5>3 DEF Queued
        <4> QED BY <4>3, <4>4
      <3> QED BY <3>5, <3>6, <3>7
    <2> QED BY <1>1, <2>1, <2>2
  <1>7. ASSUME NEW p \in Paths, ToCome(p) PROVE ToCome(p)'
    <2>1. ~Held1(p)
      BY <1>1, NamedFacts DEF Held1
    <2>2. Listed(p) => Listed(p)'
      BY <1>3 DEF Listed
    <2> QED BY <1>6, <1>7, <2>1, <2>2 DEF ToCome
  <1>8. \A x \in Seq(Nat) : (LowerPast(x) => LowerPast(x)') /\ (UpperPast(x) => UpperPast(x)')
    <2>1. \A x \in Seq(Nat) : LowerPast(x) => LowerPast(x)'
      BY <1>0, TakeLowerKept
    <2>2. \A x \in Seq(Nat) : UpperRest(x)' <=> UpperRest(x)
      BY <1>0, <1>1, CalmTypes, SameFeed
    <2> QED BY <1>1, <2>1, <2>2 DEF UpperPast
  <1>9. Merged'
    BY <1>1, <1>7, <1>8, MergeStill DEF Calm
  <1>10. Applied'
    <2>1. \A p \in Paths : Pending(p) => Pending(p)'
      BY <1>1 DEF Pending, Rest, Came, feedVars
    <2> QED BY <1>1, <2>1, AppliedStill DEF Calm
  <1> QED BY <1>4, <1>5, <1>6, <1>9, <1>10 DEF Original

LEMMA TakeUpperStep ==
    ASSUME Calm, TakeUpper, UNCHANGED <<source, lower>>
    PROVE  Original' /\ Applied' /\ Merged'
  <1>0. Typed /\ Shape /\ WalkShape /\ c2 \in Seq(Named) /\ IInv /\ Complete
    BY CalmTypes DEF Typed, Calm, KInv, Supplied
  <1>1. /\ UNCHANGED <<dest, walkVars, feed, f1, rmdir, loop, change, changes>>
        /\ \/ c2 # <<>> /\ f2' = Head(c2) /\ c2' = Tail(c2)
           \/ f2' = f2 /\ c2' = c2
    BY DEF TakeUpper
  <1>2. ListedWas /\ Deepest /\ SentWas /\ LowerWas /\ UpperHas
    BY DEF Calm, Original
  <1>3. ListedWas' /\ Deepest' /\ SentWas' /\ LowerWas' /\ \A p \in Paths : ToCome(p) => ToCome(p)'
    BY <1>1, <1>2, SameLower
  <1>4. UpperHas'
    <2>1. CASE f2' = f2 /\ c2' = c2
      BY <1>1, <1>2, <2>1 DEF UpperHas, Has, Rest, Came
    <2>2. CASE c2 # <<>> /\ f2' = Head(c2) /\ c2' = Tail(c2)
      <3>1. /\ Head(c2) \in Named /\ 1 \in 1..Len(c2) /\ Head(c2) = c2[1]
            /\ \A i \in 1..Len(Tail(c2)) : i + 1 \in 1..Len(c2) /\ Tail(c2)[i] = c2[i + 1]
        BY <1>0, <2>2, TailFacts
      <3>2. PICK g \in Named : g = Head(c2) /\ Came(1, g)
        BY <3>1 DEF Came
      <3>3. \A i \in Nat, e \in Named : Came(i, e)' => i + 1 \in Nat /\ Came(i + 1, e)
        BY <2>2, <3>1 DEF Came
      <3>4. Has(g) /\ 1 \in Nat
        BY <1>2, <3>2 DEF UpperHas
      <3>5. \A e \in Named : f2' = e => Has(e)'
        BY <2>2, <3>2, <3>4 DEF Has
      <3>6. \A i \in Nat, e \in Named : Came(i, e)' => Has(e)'
        BY <1>2, <3>3 DEF UpperHas, Has
      <3>7. \A i \in Nat, p \in Paths : Rest(i, p)' => source'[p] # Absent
        BY <1>1, <1>2 DEF UpperHas, Rest
      <3> QED BY <3>5, <3>6, <3>7 DEF UpperHas
    <2> QED BY <1>1, <2>1, <2>2
  <1>5. \A x \in Seq(Nat) : (LowerPast(x) => LowerPast(x)') /\ (UpperPast(x) => UpperPast(x)')
    <2>1. \A x \in Seq(Nat) : UpperPast(x) => UpperPast(x)'
      BY <1>0, TakeUpperKept
    <2>2. \A x \in Seq(Nat) : LowerRest(x)' <=> LowerRest(x)
      BY <1>0, <1>1, SameWalk
    <2> QED BY <1>1, <2>1, <2>2 DEF LowerPast
  <1>6. Merged'
    BY <1>1, <1>3, <1>5, MergeStill DEF Calm
  <1>7. Applied'
    <2>1. \A p \in Paths : Pending(p) => Pending(p)'
      BY <1>0, TakeUpperSupplies
    <2> QED BY <1>1, <2>1, AppliedStill DEF Calm
  <1> QED BY <1>3, <1>4, <1>6, <1>7 DEF Original

(* The steps that neither move a side nor say anything.                    *)
LEMMA ElsewhereStep ==
    ASSUME Calm, UNCHANGED <<source, lower, walkVars, feedVars, f1, f2, rmdir, changes>>,
           loop' \in Acts => loop \in Acts /\ change' = change
    PROVE  /\ Original' /\ Merged'
           /\ \A p \in Paths : (Pending(p)' <=> Pending(p)) /\ (Told(p)' <=> Told(p)) /\ (Gone(p)' <=> Gone(p))
  <1>0. WalkShape /\ FeedShape
    BY CalmTypes
  <1>1. ListedWas /\ Deepest /\ SentWas /\ LowerWas /\ UpperHas
    BY DEF Calm, Original
  <1>2. ListedWas' /\ Deepest' /\ SentWas' /\ LowerWas' /\ \A p \in Paths : ToCome(p) => ToCome(p)'
    BY <1>1, SameLower
  <1>3. UpperHas'
    BY <1>1, SameUpper
  <1>4. \A x \in Seq(Nat) : (LowerPast(x) => LowerPast(x)') /\ (UpperPast(x) => UpperPast(x)')
    BY <1>0, SameWalk, SameFeed DEF LowerPast, UpperPast
  <1>5. Merged'
    BY <1>2, <1>4, MergeStill DEF Calm
  <1>6. \A p \in Paths : Pending(p)' <=> Pending(p)
    BY DEF Pending, Rest, Came, feedVars
  <1> QED BY <1>2, <1>3, <1>5, <1>6, SaysSame DEF Original

LEMMA QuietStep ==
    ASSUME Calm, UNCHANGED <<source, lower, dest, walkVars, feedVars, f1, f2, rmdir, changes>>,
           loop' \in Acts => loop \in Acts /\ change' = change,
           loop' = "apply" => loop = "apply",
           loop \in Acts /\ loop' \notin Acts => \A p \in Paths : change.path = p => dest[p] = source[p]
    PROVE  Original' /\ Applied' /\ Merged'
  BY ElsewhereStep, AppliedStill DEF Calm

-----------------------------------------------------------------------------
(* A comparison.  A change is the last of those given so far.              *)
LEMMA SaysMore ==
    ASSUME changes \in Seq(Telling), NEW c \in Telling, changes' = Append(changes, c), UNCHANGED <<source, lower>>
    PROVE  /\ \A i \in Nat, d \in Telling : Says(i, d)' => Says(i, d) \/ d = c
           /\ \E i \in Nat : Says(i, c)'
           /\ \A i \in Nat, d \in Telling : Says(i, d) => Says(i, d)'
           /\ \A x \in Paths : (Told(x)' => Told(x) \/ x = c.path) /\ (Told(x) => Told(x)') /\ (Gone(x) => Gone(x)')
           /\ Told(c.path)'
  <1>1. /\ Len(changes) \in Nat /\ Len(changes') = Len(changes) + 1
        /\ \A k \in 1..(Len(changes) + 1) :
             (k \in 1..Len(changes) /\ changes'[k] = changes[k]) \/ (k = Len(changes) + 1 /\ changes'[k] = c)
    BY AppendFacts
  <1>2. \A i \in Nat, d \in Telling : Says(i, d)' => Says(i, d) \/ d = c
    BY <1>1 DEF Says
  <1>3. \E i \in Nat : Says(i, c)'
    <2>1. Len(changes) + 1 \in Nat /\ Len(changes) + 1 \in 1..(Len(changes) + 1) /\ Len(changes) + 1 \notin 1..Len(changes)
      BY <1>1
    <2>2. changes'[Len(changes) + 1] = c
      BY <1>1, <2>1
    <2> QED BY <1>1, <2>1, <2>2 DEF Says
  <1>4. /\ \A i \in Nat, d \in Telling : Says(i, d) => Says(i, d)'
        /\ \A x \in Paths : Told(x) => Told(x)'
    BY SaidStays
  <1>5. \A x \in Paths : Gone(x) => Gone(x)'
    BY <1>4 DEF Gone, Leaves
  <1>6. \A x \in Paths : Told(x)' => Told(x) \/ x = c.path
    BY <1>2 DEF Told
  <1>7. Told(c.path)'
    BY <1>3 DEF Told
  <1> QED BY <1>2, <1>3, <1>4, <1>5, <1>6, <1>7

LEMMA EmitApplied ==
    ASSUME Calm, loop = "take", UNCHANGED <<source, lower, dest, feedVars>>, f2' \in {f2, Nil},
           NEW c \in Telling, changes' = Append(changes, c), change' = c, loop' = "apply",
           f2' = f2 \/ \A e \in Named : f2 = e => e.path = c.path,
           c.kind = "modify" => dest[c.path] # Absent
    PROVE  Applied'
  <1>0. changes \in Seq(Telling)
    BY CalmTypes DEF Typed, Telling
  <1>1. /\ \A x \in Paths : (Told(x)' => Told(x) \/ x = c.path) /\ (Told(x) => Told(x)') /\ (Gone(x) => Gone(x)')
        /\ Told(c.path)' /\ c.path \in Paths
    BY <1>0, SaysMore DEF Telling
  <1>2. Untouched' /\ Changed' /\ SharedDirs'
    <2>1. Untouched'
      BY <1>1 DEF Calm, Applied, Untouched
    <2>2. Changed'
      BY <1>1 DEF Calm, Applied, Changed
    <2> QED BY <2>1, <2>2 DEF Calm, Applied, SharedDirs
  <1>3. Provided'
    <2>1. \A p \in Paths : Pending(p) => Pending(p)' \/ p = c.path
      BY NamedFacts DEF Pending, Rest, Came, feedVars
    <2> QED BY <1>1, <2>1 DEF Calm, Applied, Provided
  <1>4. Settled'
    BY <1>1 DEF Calm, Applied, Settled, InHand
  <1>5. AsFound'
    BY DEF AsFound
  <1> QED BY <1>2, <1>3, <1>4, <1>5 DEF Applied

(* What comes after a directory that became a file, and is not in it,      *)
(* comes after everything in it.                                           *)
LEMMA ClearAfter ==
    ASSUME Calm, UNCHANGED <<source, lower>>, NEW p \in Paths, LowerPast(p)',
           \A x \in Seq(Nat) : LowerPast(x) => LowerPast(x)',
           \A x \in Paths : Told(x) => Before(x, p),
           rmdir # <<>> => ~Below(p, rmdir)
    PROVE  \A i \in Nat, d \in Telling : Says(i, d) /\ Became(d) => Clear(d.path)'
  <1> SUFFICES ASSUME NEW i \in Nat, NEW d \in Telling, Says(i, d), Became(d), NEW n \in Nat
               PROVE  LowerPast(Append(d.path, n))'
    BY DEF Clear
  <1>1. PICK a \in Paths : a = d.path
    BY DEF Telling
  <1>2. a \in Seq(Nat) /\ a # <<>> /\ p \in Seq(Nat) /\ Append(a, n) \in Seq(Nat) /\ IsPrefix(a, Append(a, n))
    <2>1. a \in Seq(Nat) /\ a # <<>> /\ p \in Seq(Nat) /\ Append(a, n) \in Seq(Nat)
      BY PathTypes, AppendProperties
    <2>2. Len(a) \in Nat /\ Len(Append(a, n)) = Len(a) + 1 /\ \A j \in 1..Len(a) : a[j] = Append(a, n)[j]
      BY <2>1, AppendProperties
    <2>3. Len(a) <= Len(Append(a, n))
      BY <2>2
    <2> QED BY <2>1, <2>2, <2>3, PrefixFacts
  <1>3. Before(a, p)
    <2>1. Told(a)
      BY <1>1 DEF Told
    <2> QED BY <2>1
  <1>4. CASE rmdir = a
    <2>1. Left(a, p)
      BY <1>2, <1>3, <1>4, BeforeIs DEF Below
    <2>2. Left(Append(a, n), p)
      BY <1>2, <2>1, LeftBelow, PrefixReflexive
    <2>3. PICK x \in Seq(Nat) : x = Append(a, n) /\ Before(x, p)
      BY <1>2, <2>2, BeforeIs
    <2>4. LowerRest(p)' /\ \A e \in Named : f1' = e => Before(p, e.path)
      BY DEF LowerPast
    <2>5. LowerRest(x)'
      <3>1. \A y \in Seq(Nat) : Before(p, y) => Before(x, y)
        BY <1>2, <2>3, BeforeTransitive
      <3>2. \A e \in Named : e.path \in Seq(Nat)
        BY NamedFacts
      <3>3. \A t \in Item : t.path \in Seq(Nat) /\ (Past(p, t) => Past(x, t))
        BY <2>3, <3>1, NamedFacts DEF Past
      <3> QED BY <2>4, <3>1, <3>2, <3>3 DEF LowerRest
    <2>6. \A e \in Named : f1' = e => Before(x, e.path)
      BY <1>2, <2>3, <2>4, NamedFacts, BeforeTransitive
    <2>7. LowerPast(x)'
      BY <2>5, <2>6 DEF LowerPast
    <2> QED BY <1>1, <2>3, <2>7
  <1>5. CASE Clear(a)
    <2>1. PICK x \in Seq(Nat) : x = Append(a, n)
      BY <1>2
    <2>2. LowerPast(x)
      BY <1>5, <2>1 DEF Clear
    <2> QED BY <1>1, <2>1, <2>2
  <1> QED BY <1>1, <1>4, <1>5 DEF Calm, Merged, Covered

LEMMA BesideClear ==
    ASSUME NEW p \in Paths, NEW a \in Paths, Below(p, a), LowerRest(p), Clear(a),
           \E e \in Named : f1 = e /\ e.path = p
    PROVE  FALSE
  <1>0. p \in Seq(Nat) /\ a \in Seq(Nat) /\ Len(p) \in Nat /\ Len(a) \in Nat
    BY PathTypes, LenFacts
  <1>1. Len(a) < Len(p) /\ \A j \in 1..Len(a) : a[j] = p[j]
    BY <1>0, PrefixFacts DEF Below
  <1>2. PICK n \in Nat : n = p[Len(a) + 1] + 1 /\ p[Len(a) + 1] < n
    <2>1. Len(a) + 1 \in 1..Len(p)
      BY <1>0, <1>1
    <2>2. p[Len(a) + 1] \in Nat
      BY <1>0, <2>1, LenFacts
    <2> QED BY <2>2
  <1>3. PICK x \in Seq(Nat) : x = Append(a, n)
    BY <1>0, AppendProperties
  <1>4. Len(x) = Len(a) + 1 /\ x[Len(a) + 1] = n /\ \A j \in 1..Len(a) : x[j] = a[j]
    BY <1>0, <1>3, AppendProperties
  <1>5. Left(p, x)
    <2>1. /\ Len(a) + 1 \in 1..Len(p) /\ Len(a) + 1 <= Len(x) /\ p[Len(a) + 1] < x[Len(a) + 1]
          /\ \A j \in 1..(Len(a) + 1 - 1) : j \in 1..Len(a)
      BY <1>0, <1>1, <1>2, <1>4
    <2> QED BY <1>1, <1>4, <2>1 DEF Left
  <1>6. Before(p, x)
    BY <1>5, BeforeIs
  <1>7. Before(x, p)
    BY <1>3 DEF Clear, LowerPast
  <1> QED BY <1>0, <1>6, <1>7, BeforeTransitive, BeforeIrreflexive

LEMMA EmitMerged ==
    ASSUME Calm, loop = "take", UNCHANGED <<source, lower, walkVars, feedVars>>,
           f1' \in {f1, Nil}, f2' \in {f2, Nil},
           NEW c \in Telling, changes' = Append(changes, c), change' = c, loop' = "apply",
           f1' = f1 \/ \A e \in Named : f1 = e => e.path = c.path,
           \A x \in Seq(Nat) : LowerPast(x) => LowerPast(x)',
           LowerPast(c.path)', \A x \in Paths : Told(x) => Before(x, c.path),
           Right(c),
           rmdir # <<>> => ~Below(c.path, rmdir),
           rmdir' # <<>> => rmdir' = c.path /\ IsDir(lower[c.path]) /\ ~IsDir(source[c.path]),
           Became(c) => rmdir' = c.path,
           c.kind = "delete" => LowerRest(c.path) /\ \E e \in Named : f1 = e /\ e.path = c.path
    PROVE  Merged'
  <1>0. /\ changes \in Seq(Telling) /\ WalkShape /\ FeedShape
        /\ ListedWas /\ Deepest /\ SentWas /\ LowerWas /\ UpperHas
    BY CalmTypes DEF Typed, Telling, Calm, Original
  <1>1. PICK p \in Paths : p = c.path
    BY DEF Telling
  <1>2. /\ \A i \in Nat, d \in Telling : Says(i, d)' => Says(i, d) \/ d = c
        /\ \E i \in Nat : Says(i, c)'
        /\ \A x \in Paths : (Told(x) => Told(x)') /\ (Gone(x) => Gone(x)')
        /\ Told(p)'
    BY <1>0, <1>1, SaysMore
  <1>3. \A i \in Nat, d \in Telling : Says(i, d) /\ Became(d) => Clear(d.path)'
    BY <1>1, ClearAfter
  <1>4. Reached'
    <2>1. \A x \in Paths : ToCome(x) => ToCome(x)' \/ x = p
      BY <1>0, <1>1, SameLower DEF Held1
    <2>2. \A x \in Seq(Nat) : UpperPast(x) => UpperPast(x)'
      <3>1. \A x \in Seq(Nat) : UpperRest(x)' <=> UpperRest(x)
        BY <1>0, SameFeed
      <3> QED BY <3>1, NamedFacts DEF UpperPast
    <2> QED BY <1>2, <2>1, <2>2, PathIsSeq DEF Calm, Merged, Reached
  <1>5. RmdirGoes'
    BY <1>1, <1>2 DEF RmdirGoes, Leaves
  <1>6. RightKind'
    BY <1>2 DEF Calm, Merged, RightKind, Right
  <1>7. Covered'
    <2>1. \A d \in Telling : Became(d)' => Became(d)
      BY DEF Became
    <2> QED BY <1>2, <1>3, <2>1 DEF Covered
  <1>8. NotBelow'
    <2> SUFFICES ASSUME NEW i \in Nat, NEW j \in Nat, NEW d \in Telling, NEW g \in Telling,
                        Says(i, d)', Became(d), Says(j, g)', g.kind = "delete", Below(g.path, d.path)
                 PROVE  FALSE
      BY DEF NotBelow, Became
    <2>1. d.path \in Paths /\ g.path \in Paths /\ d.path \in Seq(Nat) /\ g.path \in Seq(Nat)
      BY PathIsSeq DEF Telling
    <2>2. CASE Says(i, d) /\ Says(j, g)
      BY <2>2 DEF Calm, Merged, NotBelow
    <2>3. CASE d = c
      <3>1. g # c
        BY <2>3 DEF Became
      <3>2. Before(g.path, c.path)
        BY <1>2, <2>1, <3>1 DEF Told
      <3> QED BY <2>1, <2>3, <3>2, BeforeNotBelow
    <2>4. CASE g = c /\ Says(i, d)
      <3>1. rmdir = d.path \/ Clear(d.path)
        BY <2>4 DEF Calm, Merged, Covered
      <3>2. Clear(d.path)
        BY <2>1, <2>4, <3>1, PathTypes
      <3> QED BY <2>1, <2>4, <3>2, BesideClear
    <2> QED BY <1>2, <2>2, <2>3, <2>4
  <1>9. Said'
    BY <1>2 DEF Said
  <1> QED BY <1>4, <1>5, <1>6, <1>7, <1>8, <1>9 DEF Merged

(* An entry both sides hold is in the destination as it was.               *)
LEMMA BothAsWas ==
    ASSUME Calm, NEW p \in Paths, lower[p] # Absent, source[p] # Absent, ~Told(p)
    PROVE  dest[p] = lower[p]
  BY CalmTypes, GoneAbsent DEF Calm, Applied, Changed

(* What is ahead of the other side is not in the destination.              *)
LEMMA AddAbsent ==
    ASSUME Calm, NEW e \in Named, f2 = e, LowerPast(e.path)
    PROVE  lower[e.path] = Absent /\ source[e.path] # Absent
  <1>1. PICK p \in Paths : p = e.path /\ p \in Seq(Nat)
    BY NamedFacts
  <1>2. source[p] # Absent
    BY <1>1 DEF Calm, Original, UpperHas, Has
  <1>3. ~UpperPast(p) /\ ~Told(p)
    <2>1. ~UpperPast(p)
      BY <1>1, BeforeIrreflexive DEF UpperPast
    <2> QED BY <2>1, CalmTypes DEF Shape, LoopShape, ToldPast
  <1>4. ~ToCome(p) /\ ~Gone(p)
    BY <1>1, <1>2, PastCome, GoneAbsent, CalmTypes
  <1> QED BY <1>1, <1>2, <1>3, <1>4 DEF Calm, Merged, Reached

LEMMA CompareStep ==
    ASSUME Calm, Compare, UNCHANGED <<source, lower>>
    PROVE  Original' /\ Applied' /\ Merged'
  <1>0. /\ Typed /\ Shape /\ WalkShape /\ FeedShape /\ LoopShape /\ IInv /\ Supplied /\ feed.err = "none"
        /\ ListedWas /\ Deepest /\ SentWas /\ LowerWas /\ UpperHas
    BY CalmTypes DEF Calm, KInv, Original, Clean
  <1>1. /\ loop = "take" /\ UNCHANGED <<dest, walkVars, feedVars>> /\ Taken
        /\ Shape' /\ f1' \in {f1, Nil} /\ f2' \in {f2, Nil}
        /\ \A x \in Seq(Nat) : LowerPast(x) => LowerPast(x)'
        /\ \A e \in Named : f2 = e => f2' = e \/ LowerPast(e.path)'
    BY <1>0, CompareKept, CompareCases DEF Compare
  <1>2. Original'
    BY <1>0, <1>1, SameLower, SameUpper DEF Original
  <1>3. \A e \in Named : e # Nil /\ e.path \in Paths /\ e.path \in Seq(Nat)
    BY NamedFacts
  <1>4. \A x \in Paths : Told(x) => /\ \A e \in Named : f1 = e => Before(x, e.path)
                                    /\ \A e \in Named : f2 = e => Before(x, e.path)
    BY <1>0 DEF LoopShape, ToldPast, LowerPast, UpperPast
  <1>5. \A e \in Named : f1 = e => lower[e.path] = e.kind /\ e.kind # Absent /\ ~Told(e.path) /\ LowerRest(e.path)
    <2>1. \A e \in Named : f1 = e => Was(e) /\ LowerRest(e.path)
      BY <1>0 DEF LowerWas, LoopShape, Fetched
    <2> QED BY <1>3, <1>4, <2>1, BeforeIrreflexive DEF Was
  <1>6. \A e \in Named : f2 = e => source[e.path] = e.kind /\ e.kind # Absent /\ UpperRest(e.path)
    BY <1>0 DEF UpperHas, Has, LoopShape, Fetched
  <1>7. \A q \in Paths : source[q] # Absent /\ rmdir # <<>> => ~Below(q, rmdir)
    BY GoneAbsent, CalmTypes DEF Calm, Merged, RmdirGoes, Gone
  <1>8. CASE pathChange(f1, f2) = "add"
    <2>1. PICK e \in Named : f2 = e
      BY <1>0, <1>1, <1>8, PathChangeFacts
    <2>2. /\ f1' = f1 /\ f2' = Nil /\ rmdir' = <<>>
          /\ Emit("add", f2.path)
      BY <1>8, <1>1 DEF Compare
    <2>3. PICK c \in Telling : c = [kind |-> "add", path |-> e.path]
      BY <1>3 DEF Telling, Tells
    <2>4. c.kind = "add" /\ c.path = e.path /\ c.path \in Paths /\ changes' = Append(changes, c) /\ change' = c /\ loop' = "apply"
      BY <2>1, <2>2, <2>3, <1>3 DEF Emit
    <2>5. LowerPast(e.path)' /\ LowerPast(e.path)
      <3>1. LowerPast(e.path)'
        BY <1>1, <1>3, <2>1, <2>2
      <3>2. \A x \in Seq(Nat) : LowerRest(x)' <=> LowerRest(x)
        BY <1>0, <1>1, SameWalk
      <3> QED BY <1>3, <2>2, <3>1, <3>2 DEF LowerPast
    <2>6. lower[e.path] = Absent /\ source[e.path] # Absent
      BY <2>1, <2>5, AddAbsent
    <2>7. Right(c) /\ ~Became(c)
      BY <2>4, <2>6 DEF Right, Became
    <2>8. Applied'
      BY <1>1, <2>1, <2>4, EmitApplied
    <2>9. Merged'
      <3>1. \A x \in Paths : Told(x) => Before(x, c.path)
        BY <1>4, <2>1, <2>4
      <3>2. rmdir # <<>> => ~Below(c.path, rmdir)
        BY <1>7, <2>4, <2>6
      <3> QED BY <1>1, <2>2, <2>4, <2>5, <2>7, <3>1, <3>2, EmitMerged
    <2> QED BY <1>2, <2>8, <2>9
  <1>9. CASE pathChange(f1, f2) = "delete" /\ ~Removed(f1.path)
    <2>1. PICK e \in Named : f1 = e
      BY <1>0, <1>1, <1>9, PathChangeFacts
    <2>2. f1' = Nil /\ f2' = f2 /\ rmdir' = DeleteRmdir(f1) /\ Emit("delete", f1.path)
      BY <1>9, <1>1 DEF Compare
    <2>3. PICK c \in Telling : c = [kind |-> "delete", path |-> e.path]
      BY <1>3 DEF Telling, Tells
    <2>4. c.kind = "delete" /\ c.path = e.path /\ c.path \in Paths /\ changes' = Append(changes, c) /\ change' = c /\ loop' = "apply"
      BY <2>1, <2>2, <2>3, <1>3 DEF Emit
    <2>5. LowerPast(e.path)'
      <3>1. \A x \in Seq(Nat) : LowerRest(x)' <=> LowerRest(x)
        BY <1>0, <1>1, SameWalk
      <3> QED BY <1>3, <1>5, <2>1, <2>2, <3>1 DEF LowerPast
    <2>6. source[e.path] = Absent
      <3>1. Extra(e.path)
        <4>1. f2 = Nil \/ (f2 \in Named /\ Before(e.path, f2.path))
          BY <1>0, <1>1, <1>9, <2>1, PathChangeFacts
        <4>2. UpperRest(e.path)
          <5>1. CASE f2 = Nil
            BY <1>0, <1>1, <1>3, <5>1, EndedRest DEF Taken
          <5>2. ASSUME NEW g \in Named, f2 = g PROVE UpperRest(e.path)
            BY <1>3, <1>6, <4>1, <5>2, RestBefore
          <5> QED BY <4>1, <5>1, <5>2
        <4> QED BY <1>3, <2>1, <4>1, <4>2 DEF Extra
      <3> QED BY <1>0, <1>1, <1>3, <3>1, ExtraAbsent
    <2>7. Right(c) /\ ~Became(c)
      BY <1>5, <2>1, <2>4, <2>6 DEF Right, Became
    <2>8. Applied'
      <3>1. f2' = f2 /\ c.kind # "modify"
        BY <2>2, <2>4
      <3> QED BY <1>1, <2>4, <3>1, EmitApplied
    <2>9. Merged'
      <3>1. \A x \in Paths : Told(x) => Before(x, c.path)
        BY <1>4, <2>1, <2>4
      <3>2. rmdir # <<>> => ~Below(c.path, rmdir)
        BY <1>9, <2>1, <2>4 DEF Removed
      <3>3. rmdir' # <<>> => rmdir' = c.path /\ IsDir(lower[c.path]) /\ ~IsDir(source[c.path])
        BY <1>5, <2>1, <2>2, <2>4, <2>6 DEF DeleteRmdir, IsDir, Dirs, Absent
      <3>4. LowerRest(c.path) /\ \E d \in Named : f1 = d /\ d.path = c.path
        BY <1>5, <2>1, <2>4
      <3>5. f1' = f1 \/ \A d \in Named : f1 = d => d.path = c.path
        BY <2>1, <2>4
      <3> QED BY <1>1, <2>4, <2>5, <2>7, <3>1, <3>2, <3>3, <3>4, <3>5, EmitMerged
    <2> QED BY <1>2, <2>8, <2>9
  <1>10. CASE pathChange(f1, f2) = "delete" /\ Removed(f1.path)
    <2>1. PICK e \in Named : f1 = e
      BY <1>0, <1>1, <1>10, PathChangeFacts
    <2>2. f1' = Nil /\ f2' = f2 /\ UNCHANGED <<loop, change, changes, rmdir>>
      BY <1>10, <1>1 DEF Compare, Quiet
    <2>3. Gone(e.path)
      BY <1>3, <1>10, <2>1 DEF Removed, Calm, Merged, RmdirGoes, Gone
    <2>4. \A x \in Paths : ToCome(x) => ToCome(x)' \/ Gone(x)
      BY <1>0, <1>1, <2>1, <2>3, SameLower DEF Held1
    <2>5. \A x \in Seq(Nat) : UpperPast(x) => UpperPast(x)'
      BY <1>0, <1>1, <2>2, SameFeed DEF UpperPast
    <2>6. Merged'
      BY <1>1, <2>2, <2>4, <2>5, MergeStill DEF Calm
    <2>7. Applied'
      <3>1. \A x \in Paths : Pending(x) => Pending(x)'
        BY <1>1, <2>2 DEF Pending, Rest, Came, feedVars
      <3> QED BY <1>1, <2>2, <3>1, AppliedStill DEF Calm
    <2> QED BY <1>2, <2>6, <2>7
  <1>11. CASE pathChange(f1, f2) = "modify"
    <2>1. PICK d \in Named, e \in Named : f1 = d /\ f2 = e /\ d.path = e.path
      BY <1>0, <1>1, <1>11, PathChangeFacts
    <2>2. /\ f1' = Nil /\ f2' = Nil /\ rmdir' = ModifyRmdir(f1, f2)
          /\ IF sameFile(f1, f2) THEN Quiet ELSE Emit("modify", f2.path)
      BY <1>11, <1>1 DEF Compare
    <2>3. PICK p \in Paths : p = e.path /\ p = d.path /\ p \in Seq(Nat)
      BY <1>3, <2>1
    <2>4. LowerPast(p)'
      BY <1>1, <1>3, <2>1, <2>2, <2>3
    <2>5. lower[p] = d.kind /\ lower[p] # Absent /\ source[p] = e.kind /\ source[p] # Absent /\ ~Told(p) /\ UpperRest(p)
      BY <1>5, <1>6, <2>1, <2>3
    <2>6. dest[p] = lower[p]
      BY <2>5, BothAsWas
    <2>7. /\ \A x \in Paths : Told(x) => Before(x, p)
          /\ rmdir # <<>> => ~Below(p, rmdir)
      BY <1>4, <1>7, <2>1, <2>3, <2>5
    <2>8. CASE ~sameFile(f1, f2)
      <3>1. PICK c \in Telling : c = [kind |-> "modify", path |-> p]
        BY <1>3 DEF Telling, Tells
      <3>2. c.kind = "modify" /\ c.path = p /\ changes' = Append(changes, c) /\ change' = c /\ loop' = "apply"
        BY <2>1, <2>2, <2>3, <2>8, <3>1 DEF Emit
      <3>3. Right(c)
        BY <2>1, <2>5, <2>8, <3>2 DEF Right, sameFile
      <3>4. Applied'
        BY <1>1, <2>1, <2>3, <2>5, <2>6, <3>2, EmitApplied
      <3>5. Merged'
        <4>1. rmdir' # <<>> => rmdir' = p /\ IsDir(lower[p]) /\ ~IsDir(source[p])
          BY <2>1, <2>2, <2>3, <2>5 DEF ModifyRmdir
        <4>2. Became(c) => rmdir' = p
          BY <2>1, <2>2, <2>3, <2>5, <3>2 DEF ModifyRmdir, Became
        <4>3. f1' = f1 \/ \A g \in Named : f1 = g => g.path = c.path
          BY <2>1, <2>3, <3>2
        <4> QED BY <1>1, <2>4, <2>7, <3>2, <3>3, <4>1, <4>2, <4>3, EmitMerged
      <3> QED BY <1>2, <3>4, <3>5
    <2>9. CASE sameFile(f1, f2)
      <3>1. UNCHANGED <<loop, change, changes>> /\ rmdir' = <<>> /\ source[p] = lower[p]
        BY <2>1, <2>2, <2>5, <2>9 DEF Quiet, sameFile, ModifyRmdir
      <3>2. /\ \A i \in Nat, c \in Telling : Says(i, c)' <=> Says(i, c)
            /\ \A x \in Paths : (Told(x)' <=> Told(x)) /\ (Gone(x)' <=> Gone(x))
        BY <3>1, SaysSame
      <3>3. Reached'
        <4>1. \A x \in Paths : ToCome(x) => ToCome(x)' \/ x = p
          BY <1>0, <1>1, <2>1, <2>3, SameLower DEF Held1
        <4>2. (\A x \in Seq(Nat) : UpperPast(x) => UpperPast(x)') /\ UpperPast(p)'
          <5>1. \A x \in Seq(Nat) : UpperRest(x)' <=> UpperRest(x)
            BY <1>0, <1>1, SameFeed
          <5> QED BY <1>3, <2>2, <2>3, <2>5, <5>1 DEF UpperPast
        <4> QED BY <3>1, <3>2, <4>1, <4>2, PathIsSeq DEF Calm, Merged, Reached
      <3>4. RmdirGoes'
        BY <3>1 DEF RmdirGoes
      <3>5. RightKind'
        BY <3>2 DEF Calm, Merged, RightKind, Right
      <3>6. Covered'
        BY <1>1, <2>4, <2>7, <3>2, ClearAfter DEF Covered, Became
      <3>7. NotBelow'
        BY <3>2 DEF Calm, Merged, NotBelow, Became
      <3>8. Said'
        BY <1>1, <3>1 DEF Said
      <3>9. Merged'
        BY <3>3, <3>4, <3>5, <3>6, <3>7, <3>8 DEF Merged
      <3>10. Untouched' /\ Changed' /\ SharedDirs'
        BY <1>1, <3>2 DEF Calm, Applied, Untouched, Changed, SharedDirs
      <3>11. Provided'
        <4>1. \A x \in Paths : Pending(x) => Pending(x)' \/ x = p
          BY <1>1, <2>1, <2>3 DEF Pending, Rest, Came, feedVars
        <4> QED BY <1>1, <2>6, <3>1, <3>2, <4>1 DEF Calm, Applied, Provided
      <3>12. Settled' /\ AsFound'
        BY <1>1, <3>1, <3>2 DEF Calm, Applied, Settled, AsFound, InHand
      <3> QED BY <1>2, <3>9, <3>10, <3>11, <3>12 DEF Applied
    <2> QED BY <2>8, <2>9
  <1>12. pathChange(f1, f2) \in {"add", "modify", "delete"}
    BY <1>0, <1>1, PathChangeFacts DEF Tells
  <1> QED BY <1>8, <1>9, <1>10, <1>11, <1>12

-----------------------------------------------------------------------------
(* The writer's steps.                                                     *)
LEMMA RemoveOneStep ==
    ASSUME Calm, RemoveOne, UNCHANGED <<source, lower>>
    PROVE  Original' /\ Applied' /\ Merged'
  <1>0. /\ source \in [Paths -> Kinds] /\ TreeLike(source) /\ dest \in [Paths -> Kinds] /\ TreeLike(dest)
        /\ lower \in [Paths -> Kinds] /\ TreeLike(lower) /\ KInv /\ Typed /\ LoopShape /\ ~Lost
    BY CalmTypes DEF Calm, Clean, Lost
  <1>1. loop = "remove" /\ loop' = loop /\ UNCHANGED <<walkVars, feedVars, f1, f2, rmdir, change, changes>>
    BY DEF RemoveOne
  <1>2. PICK a \in Paths : a = change.path /\ ApplyShape(a) /\ Told(a)
    BY <1>0, <1>1 DEF KInv, TreeShape, LoopShape, Applying
  <1>3. PICK q \in Paths : dest[q] # Absent /\ (q = a \/ Below(q, a)) /\ dest' = [dest EXCEPT ![q] = Absent]
    BY <1>2 DEF RemoveOne, Present
  <1>4. \A r \in Paths : dest'[r] = IF r = q THEN Absent ELSE dest[r]
    BY <1>0, <1>3
  <1>5. source[q] = Absent \/ IsDir(source[q]) # IsDir(dest[q])
    BY <1>0, <1>1, <1>2, <1>3, RemovesExtra
  <1>6. /\ Original' /\ Merged'
        /\ \A p \in Paths : (Pending(p)' <=> Pending(p)) /\ (Told(p)' <=> Told(p)) /\ (Gone(p)' <=> Gone(p))
    BY <1>1, ElsewhereStep
  <1>7. lower[q] # Absent => Told(q) \/ Gone(q)
    <2> SUFFICES ASSUME lower[q] # Absent, q # a PROVE Gone(q)
      BY <1>2
    <2>1. Below(q, a)
      BY <1>3
    <2>2. IsDir(lower[a]) /\ IsDir(dest[a])
      BY <1>0, <1>3, <2>1, TreeBelow
    <2>3. ~IsDir(source[a])
      BY <1>0, <1>1, <1>2, <2>2 DEF ApplyShape, Differ, IsDir, Dirs, Absent
    <2> QED BY <1>2, <2>1, <2>2, <2>3 DEF Gone, Leaves
  <1>8. Untouched' /\ Changed'
    BY <1>4, <1>6, <1>7 DEF Calm, Applied, Untouched, Changed
  <1>9. SharedDirs'
    BY <1>4, <1>5 DEF Calm, Applied, SharedDirs, IsDir, Dirs, Absent
  <1>10. Provided'
    BY <1>4, <1>5, <1>6 DEF Calm, Applied, Provided
  <1>11. Settled'
    <2>1. \A p \in Paths : InHand(p)' <=> InHand(p)
      BY <1>1 DEF InHand
    <2>2. Told(q) => InHand(q)
      BY <1>3, <1>5 DEF Calm, Applied, Settled
    <2> QED BY <1>4, <1>6, <2>1, <2>2 DEF Calm, Applied, Settled
  <1>12. AsFound'
    BY <1>1 DEF AsFound
  <1> QED BY <1>6, <1>8, <1>9, <1>10, <1>11, <1>12 DEF Applied

LEMMA PutStep ==
    ASSUME Calm, Put, UNCHANGED <<source, lower>>
    PROVE  Original' /\ Applied' /\ Merged'
  <1>0. dest \in [Paths -> Kinds] /\ Typed /\ LoopShape
    BY CalmTypes
  <1>1. loop = "put" /\ loop' = "take" /\ UNCHANGED <<walkVars, feedVars, f1, f2, rmdir, change, changes>>
    BY DEF Put
  <1>2. PICK a \in Paths : a = change.path /\ Told(a)
    BY <1>0, <1>1 DEF LoopShape, Applying
  <1>3. \A r \in Paths : dest'[r] = IF r = a THEN source[a] ELSE dest[r]
    BY <1>0, <1>2 DEF Put
  <1>4. /\ Original' /\ Merged'
        /\ \A p \in Paths : (Pending(p)' <=> Pending(p)) /\ (Told(p)' <=> Told(p)) /\ (Gone(p)' <=> Gone(p))
    BY <1>1, ElsewhereStep DEF Acts
  <1>5. Untouched' /\ Changed'
    BY <1>2, <1>3, <1>4 DEF Calm, Applied, Untouched, Changed
  <1>6. SharedDirs' /\ Provided'
    BY <1>2, <1>3, <1>4 DEF Calm, Applied, SharedDirs, Provided
  <1>7. Settled'
    <2>1. \A p \in Paths : InHand(p) => p = a
      BY <1>2 DEF InHand
    <2> QED BY <1>3, <1>4, <2>1 DEF Calm, Applied, Settled
  <1>8. AsFound'
    BY <1>1 DEF AsFound
  <1> QED BY <1>4, <1>5, <1>6, <1>7, <1>8 DEF Applied

LEMMA ApplyStep ==
    ASSUME Calm, ApplyStarts, UNCHANGED <<source, lower>>, Clean'
    PROVE  Original' /\ Applied' /\ Merged'
  <1>1. /\ loop = "apply" /\ loop' \in {"done", "remove", "put"} /\ (loop' = "done" => loopErr' # "none")
        /\ UNCHANGED <<dest, walkVars, feedVars, f1, f2, rmdir, change, changes>>
    BY DEF ApplyStarts, LoopFails
  <1>2. loop' \in {"remove", "put"}
    BY <1>1 DEF Clean
  <1> QED BY <1>1, <1>2, QuietStep DEF Acts

LEMMA RemoveEndsStep ==
    ASSUME Calm, RemoveEnds, UNCHANGED <<source, lower>>
    PROVE  Original' /\ Applied' /\ Merged'
  <1>1. /\ loop = "remove" /\ dest[change.path] = Absent
        /\ loop' = IF change.kind = "delete" THEN "take" ELSE "put"
        /\ UNCHANGED <<dest, walkVars, feedVars, f1, f2, rmdir, change, changes>>
    BY DEF RemoveEnds
  <1>2. ASSUME NEW p \in Paths, change.path = p, change.kind = "delete" PROVE dest[p] = source[p]
    <2>1. ApplyShape(p) /\ ~Lost
      BY <1>2 DEF Calm, KInv, TreeShape, Clean, Lost
    <2> QED BY <1>1, <1>2, <2>1 DEF ApplyShape
  <1> QED BY <1>1, <1>2, QuietStep DEF Acts

LEMMA OtherStep ==
    ASSUME Calm, Clean', UNCHANGED <<source, lower>>, TakeCanceled \/ LoopEnds \/ LoopReturns \/ Cancel \/ UNCHANGED vars
    PROVE  Original' /\ Applied' /\ Merged'
  <1>1. ~TakeCanceled
    BY DEF TakeCanceled, LoopFails, Clean
  <1>2. UNCHANGED <<dest, walkVars, feedVars, f1, f2, rmdir, changes, change>>
    BY <1>1 DEF LoopEnds, LoopReturns, Cancel, vars, loopVars
  <1>3. loop' = loop \/ (loop \in {"take", "done"} /\ loop' \in {"done", "over"})
    BY <1>1 DEF LoopEnds, LoopFails, LoopReturns, Cancel, vars, loopVars
  <1> QED BY <1>2, <1>3, QuietStep DEF Acts

LEMMA CalmStep ==
    ASSUME Calm, [Next]_vars, Clean'
    PROVE  Original' /\ Applied' /\ Merged'
  <1>1. UNCHANGED <<source, lower>>
    BY DEF Next, Walk, WalkReturns, Feed, FeedReturns, Loop, LoopReturns, Cancel, Over, vars
  <1>2. \/ Walk \/ Feed \/ TakeLower \/ TakeUpper \/ Compare \/ ApplyStarts \/ RemoveOne \/ RemoveEnds \/ Put
        \/ TakeCanceled \/ LoopEnds \/ LoopReturns \/ Cancel \/ UNCHANGED vars
    BY DEF Next, Loop, Over
  <1> QED BY <1>1, <1>2, WalkStep, FeedStep, TakeLowerStep, TakeUpperStep, CompareStep, ApplyStep, RemoveOneStep,
             RemoveEndsStep, PutStep, OtherStep

-----------------------------------------------------------------------------
(* How the three ends are reached.                                         *)
LEMMA ErrsStay ==
    ASSUME Typed, Halted, Finished, [Next]_vars
    PROVE  Clean' => Clean
  <1>1. walk.err # "none" => walk'.err # "none"
    BY WalkErrs
  <1>2. feed.err # "none" => feed'.err # "none"
    <2>0. feed \in Feeds
      BY DEF Typed
    <2>1. \/ feed' = feed
          \/ \E s : feed' = [feed EXCEPT !.rest = s]
          \/ \E l : feed' = [feed EXCEPT !.pc = l]
          \/ feed' = [feed EXCEPT !.pc = "close", !.err = "canceled"]
      <3>1. Feed \/ feed' = feed
        BY DEF Next, Walk, WalkReturns, Loop, TakeLower, TakeUpper, TakeCanceled, LoopEnds, Compare, ApplyStarts, RemoveOne,
               RemoveEnds, Put, LoopReturns, Cancel, Over, vars, feedVars
      <3> QED BY <3>1 DEF Feed, FeedSends, FeedStops, FeedCloses, FeedReturns
    <2> QED BY <2>0, <2>1 DEF Feeds
  <1>3. loopErr # "none" => loopErr' # "none"
    <2>1. loopErr # "none" => loop \in {"done", "over"}
      BY DEF Finished
    <2> QED BY <2>1 DEF Next, Walk, WalkReturns, Feed, FeedReturns, Loop, TakeLower, TakeUpper, TakeCanceled, LoopEnds, Compare, Taken,
               ApplyStarts, RemoveOne, RemoveEnds, Put, LoopReturns, Cancel, Over, vars, loopVars
  <1> QED BY <1>1, <1>2, <1>3 DEF Clean

LEMMA FinishedKept ==
    ASSUME Typed, Finished, [Next]_vars
    PROVE  Finished'
  <1>0. walk \in Walks /\ feed \in Feeds
    BY DEF Typed
  <1>1. CASE Walk
    <2>1. UNCHANGED <<feed, loop, loopErr, end1, end2, f1, f2>>
      BY <1>1 DEF Walk, WalkReturns, loopVars, feedVars
    <2>2. CASE WalkReturns
      <3>1. walk'.err = walk.err /\ gErr' = First(gErr, walk.err)
        BY <1>0, <2>2 DEF WalkReturns, Walks
      <3> QED BY <2>1, <3>1 DEF Finished, First
    <2>3. CASE ~WalkReturns
      <3>1. gErr' = gErr
        BY <1>1, <2>3 DEF Walk
      <3>2. \/ walk.pc = "walk" /\ \E t : walk' = [walk EXCEPT !.todo = t]
            \/ \E e : walk' = [walk EXCEPT !.pc = "send", !.at = e]
            \/ \E t : walk' = [walk EXCEPT !.pc = "walk", !.at = Nil, !.todo = t]
            \/ \E e : walk' = [walk EXCEPT !.pc = "close", !.err = e]
            \/ walk' = [walk EXCEPT !.pc = "return"]
        BY <1>1, <2>3 DEF Walk, WalkLists, WalkVisits, WalkSends, WalkCanceled, WalkFails, WalkEnds, WalkCloses, WalkStops
      <3>3. walk'.pc # "done"
        BY <1>0, <3>2 DEF Walks
      <3> QED BY <2>1, <3>1, <3>3 DEF Finished
    <2> QED BY <2>2, <2>3
  <1>2. CASE Feed
    <2>1. UNCHANGED <<walk, loop, loopErr, end1, end2, f1, f2>>
      BY <1>2 DEF Feed, FeedReturns, loopVars, walkVars
    <2>2. CASE FeedReturns
      <3>1. feed'.err = feed.err /\ gErr' = First(gErr, feed.err)
        BY <1>0, <2>2 DEF FeedReturns, Feeds
      <3> QED BY <2>1, <3>1 DEF Finished, First
    <2>3. CASE ~FeedReturns
      <3>1. gErr' = gErr
        BY <1>2, <2>3 DEF Feed
      <3>2. \/ feed.pc = "feed" /\ \E s : feed' = [feed EXCEPT !.rest = s]
            \/ feed' = [feed EXCEPT !.pc = "close"]
            \/ feed' = [feed EXCEPT !.pc = "close", !.err = "canceled"]
            \/ feed' = [feed EXCEPT !.pc = "return"]
        BY <1>2, <2>3 DEF Feed, FeedSends, FeedStops, FeedCloses
      <3>3. feed'.pc # "done"
        BY <1>0, <3>2 DEF Feeds
      <3> QED BY <2>1, <3>1, <3>3 DEF Finished
    <2> QED BY <2>2, <2>3
  <1>3. CASE Loop
    <2>1. UNCHANGED <<walk, feed>>
      BY <1>3 DEF Loop, TakeLower, TakeUpper, TakeCanceled, LoopEnds, Compare, ApplyStarts, RemoveOne, RemoveEnds,
                  Put, LoopReturns, walkVars, feedVars
    <2>2. CASE LoopReturns
      <3>1. gErr' = First(gErr, loopErr) /\ loop = "done" /\ loop' = "over" /\ UNCHANGED <<loopErr, end1, end2, f1, f2>>
        BY <2>2 DEF LoopReturns
      <3> QED BY <2>1, <3>1 DEF Finished, First
    <2>3. CASE LoopEnds \/ TakeCanceled \/ ApplyStarts
      <3>1. /\ gErr' = gErr /\ loop \notin {"done", "over"} /\ loop' \notin {"over"}
            /\ loop' = "done" => (loopErr' = "none" => end1' /\ end2' /\ f1' = Nil /\ f2' = Nil)
            /\ loop' # "done" => loopErr' = loopErr
        BY <1>3, <2>3 DEF Loop, LoopReturns, LoopEnds, TakeCanceled, ApplyStarts, LoopFails
      <3> QED BY <2>1, <3>1 DEF Finished
    <2>4. CASE TakeLower \/ TakeUpper \/ Compare \/ RemoveOne \/ RemoveEnds \/ Put
      <3>1. /\ loop \notin {"done", "over"} /\ loop' \notin {"done", "over"} /\ loopErr' = loopErr
            /\ gErr' = gErr
        <4>1. CASE Compare
          <5>1. loop = "take" /\ loop' \in {"take", "apply"} /\ loopErr' = loopErr
            BY <4>1 DEF Compare, Taken, Emit, Quiet
          <5> QED BY <1>3, <4>1, <5>1 DEF Loop, LoopReturns
        <4>2. CASE ~Compare
          BY <1>3, <2>4, <4>2 DEF Loop, LoopReturns, TakeLower, TakeUpper, RemoveOne, RemoveEnds, Put
        <4> QED BY <4>1, <4>2
      <3> QED BY <2>1, <3>1 DEF Finished
    <2> QED BY <1>3, <2>2, <2>3, <2>4 DEF Loop
  <1>4. CASE Cancel \/ Over \/ UNCHANGED vars
    <2>1. UNCHANGED <<walk, feed, loop, loopErr, end1, end2, f1, f2, gErr>>
      BY <1>4 DEF Cancel, Over, vars, loopVars, walkVars, feedVars
    <2> QED BY <2>1 DEF Finished
  <1> QED BY <1>1, <1>2, <1>3, <1>4 DEF Next

LEMMA CInit == Init => CInv
  <1> SUFFICES ASSUME Init PROVE CInv
    OBVIOUS
  <1>0. /\ dest = lower /\ source \in Trees(UpperKinds) /\ lower \in Trees(LowerKinds)
        /\ walk = [pc |-> "walk", todo |-> << [op |-> "list", path |-> <<>>, isDir |-> TRUE] >>, at |-> Nil, err |-> "none"]
        /\ feed = [pc |-> "feed", rest |-> Sorted(Present(source)), err |-> "none"]
        /\ c1 = <<>> /\ c2 = <<>> /\ f1 = Nil /\ f2 = Nil /\ rmdir = <<>> /\ loop = "take" /\ changes = <<>> /\ loopErr = "none"
    BY DEF Init
  <1>1. KInv
    BY KInit
  <1>2. LowerTree
    <2>1. lower \in [Paths -> Kinds]
      BY <1>0, <1>1 DEF KInv, IInv, Typed
    <2> QED BY <1>0, <1>1, <2>1 DEF LowerTree, KInv, TreeShape
  <1>3. Finished
    BY <1>0 DEF Finished
  <1>4. /\ Walking /\ walk.pc = "walk"
        /\ \A i \in Nat, t \in Item : Todo(i, t) => i = 1 /\ t.path = <<>>
        /\ \E t \in Item : Todo(1, t) /\ t.path = <<>>
    <2> DEFINE t0 == [op |-> "list", path |-> <<>>, isDir |-> TRUE]
    <2>1. t0 \in Item /\ t0.path = <<>>
      BY DEF Item
    <2>2. Len(<<t0>>) = 1 /\ <<t0>>[1] = t0
      OBVIOUS
    <2>3. walk.todo = <<t0>> /\ walk.pc = "walk"
      BY <1>0
    <2> HIDE DEF t0
    <2> QED BY <2>1, <2>2, <2>3 DEF Todo, Walking
  <1>5. /\ \A i \in Nat, e \in Named : ~Wait(i, e) /\ ~Came(i, e)
        /\ \A e \in Named : f1 # e /\ f2 # e
        /\ \A i \in Nat, c \in Telling : ~Says(i, c)
    BY <1>0, EmptySeq, NamedFacts DEF Wait, Came, Says
  <1>6. Original
    <2>1. ListedWas /\ Deepest
      BY <1>4 DEF ListedWas, Deepest
    <2>2. SentWas /\ LowerWas
      BY <1>4, <1>5 DEF SentWas, LowerWas
    <2>3. \A i \in Nat, p \in Paths : Rest(i, p) => source[p] # Absent
      <3>1. Present(source) \in SUBSET Paths /\ \A p \in Present(source) : source[p] # Absent
        BY DEF Present
      <3>2. feed.rest \in Seq(Present(source))
        BY <1>0, <3>1, PathsSorted
      <3>3. \A i \in 1..Len(feed.rest) : feed.rest[i] \in Present(source)
        BY <3>2, ElementOfSeq
      <3> QED BY <3>1, <3>3 DEF Rest
    <2>4. UpperHas
      BY <1>5, <2>3 DEF UpperHas
    <2> QED BY <2>1, <2>2, <2>4 DEF Original
  <1>7. \A p \in Paths : ~Told(p)
    BY <1>5 DEF Told
  <1>8. Applied
    <2>1. Provided
      BY AllFed DEF Provided, Pending
    <2>2. Untouched /\ Changed /\ SharedDirs
      BY <1>0 DEF Untouched, Changed, SharedDirs
    <2> QED BY <1>0, <1>7, <2>1, <2>2 DEF Applied, Settled, AsFound
  <1>9. Merged
    <2>1. Reached
      <3>1. \A p \in Paths : Below(p, <<>>)
        <4>1. \A p \in Paths : p \in Seq(Nat) /\ Len(p) \in Nat /\ Len(p) >= 1
          BY PathTypes
        <4>2. <<>> \in Seq(Nat) /\ Len(<<>>) = 0 /\ \A j \in 1..0 : FALSE
          BY EmptySeq
        <4>3. \A p \in Paths : Len(<<>>) < Len(p)
          BY <4>1, <4>2
        <4> QED BY <4>1, <4>2, <4>3, PrefixFacts DEF Below
      <3>2. \A p \in Paths : Listed(p)
        BY <1>4, <3>1 DEF Listed, Lists
      <3> QED BY <3>2 DEF Reached, ToCome
    <2> QED BY <1>0, <1>5, <2>1 DEF Merged, RmdirGoes, RightKind, Covered, NotBelow, Said
  <1> QED BY <1>1, <1>2, <1>3, <1>6, <1>8, <1>9 DEF CInv

LEMMA CKept == CInv /\ [Next]_vars => CInv'
  <1> SUFFICES ASSUME CInv, [Next]_vars PROVE CInv'
    OBVIOUS
  <1>1. KInv /\ Typed /\ Halted /\ LowerTree /\ Finished
    BY DEF CInv, KInv, IInv, Supplied
  <1>2. KInv'
    BY <1>1, KKept
  <1>3. LowerTree'
    <2>1. lower' = lower
      BY DEF Next, Walk, WalkReturns, Feed, FeedReturns, Loop, LoopReturns, Cancel, Over, vars
    <2> QED BY <1>1, <2>1 DEF LowerTree, TreeLike
  <1>4. Finished'
    BY <1>1, FinishedKept
  <1>5. Clean' => Original' /\ Applied' /\ Merged'
    BY <1>1, ErrsStay, CalmStep DEF CInv, Calm
  <1> QED BY <1>2, <1>3, <1>4, <1>5 DEF CInv

LEMMA AtTheEnd ==
    ASSUME CInv, Ended, gErr = "none"
    PROVE  Clean /\ \A p \in Paths : ~ToCome(p) /\ ~Pending(p) /\ ~InHand(p)
  <1>1. /\ walk.pc = "done" /\ feed.pc = "done" /\ loop = "over"
        /\ walk.err = "none" /\ feed.err = "none" /\ loopErr = "none" /\ end1 /\ end2 /\ f1 = Nil /\ f2 = Nil
    BY DEF CInv, Finished, Ended
  <1>2. c1 = <<>> /\ c2 = <<>> /\ feed.rest = <<>> /\ ~Walking
    BY <1>1 DEF CInv, KInv, IInv, Supplied, RestDone, Shape, LoopShape, AtEnd, Feeding, Walking
  <1>3. \A p \in Paths : ~ToCome(p)
    BY <1>1, <1>2, EmptySeq, NamedFacts DEF ToCome, Listed, Queued, Wait, Held1
  <1>4. \A p \in Paths : ~Pending(p)
    BY <1>1, <1>2, EmptySeq, NamedFacts DEF Pending, Rest, Came
  <1> QED BY <1>1, <1>3, <1>4 DEF Clean, InHand

(* What the source keeps has all its directories in the source.            *)
LEMMA GoneNoDir ==
    ASSUME source \in [Paths -> Kinds], TreeLike(source), NEW p \in Paths, Gone(p)
    PROVE  ~HasDir(source, Front(p))
  <1>1. PICK a \in Paths : Below(p, a) /\ Leaves(a)
    BY DEF Gone
  <1>2. Front(p) \in Paths /\ Front(p) # <<>> /\ (a = Front(p) \/ Below(Front(p), a))
    BY <1>1, AboveFront, PathTypes
  <1>3. ~IsDir(source[Front(p)])
    BY <1>1, <1>2, TreeBelow DEF Leaves, IsDir, Dirs, Absent
  <1> QED BY <1>2, <1>3 DEF HasDir

LEMMA ConvergesNow == CInv => Converges
  <1> SUFFICES ASSUME CInv, Ended, gErr = "none"
               PROVE  LET told == {changes[i] : i \in DOMAIN changes}
                      IN  /\ dest = source
                          /\ Expected \subseteq told
                          /\ \A c \in told \ Expected : c.kind = "delete" /\ ~HasDir(source, Front(c.path))
    BY DEF Converges
  <1> DEFINE told == {changes[i] : i \in DOMAIN changes}
  <1>1. Clean /\ \A p \in Paths : ~ToCome(p) /\ ~Pending(p) /\ ~InHand(p)
    BY AtTheEnd
  <1>2. Calm
    BY <1>1 DEF CInv, Calm
  <1>3. /\ source \in [Paths -> Kinds] /\ TreeLike(source) /\ dest \in [Paths -> Kinds] /\ TreeLike(dest)
        /\ changes \in Seq(Telling)
    BY <1>2, CalmTypes DEF Typed, Telling
  <1>4. \A p \in Paths : Told(p) => dest[p] = source[p]
    BY <1>1, <1>2 DEF Calm, Applied, Settled
  <1>5. \A p \in Paths : Gone(p) => dest[p] = Absent
    BY <1>3, <1>4, TreeBelow DEF Gone, Leaves
  <1>6. \A p \in Paths : dest[p] = source[p]
    <2> SUFFICES ASSUME NEW p \in Paths, ~Told(p) PROVE dest[p] = source[p]
      BY <1>4
    <2>1. source[p] # Absent => dest[p] = source[p]
      BY <1>1, <1>2 DEF Calm, Applied, Provided
    <2>2. source[p] = Absent /\ dest[p] # Absent => lower[p] # Absent /\ source[p] # lower[p]
      BY <1>2 DEF Calm, Applied, Untouched
    <2>3. lower[p] # Absent /\ source[p] # lower[p] => Gone(p)
      BY <1>1, <1>2 DEF Calm, Merged, Reached
    <2> QED BY <1>5, <2>1, <2>2, <2>3
  <1>7. dest = source
    BY <1>3, <1>6
  <1>8. /\ \A i \in DOMAIN changes : changes[i] \in Telling /\ i \in Nat /\ Says(i, changes[i])
        /\ \A i \in Nat, c \in Telling : Says(i, c) => c \in told
    BY <1>3, ElementOfSeq, LenProperties DEF Says
  <1>9. \A c \in told : c \in Telling /\ Right(c)
    BY <1>2, <1>8 DEF Calm, Merged, RightKind
  <1>10. \A c \in Telling : c.path \in Paths /\ c.kind \in {"add", "modify", "delete"} /\ c = [kind |-> c.kind, path |-> c.path]
    BY DEF Telling, Tells
  <1>11. \A p \in Paths : Told(p) => \E c \in told : c.path = p
    BY <1>8 DEF Told
  <1>12. ASSUME NEW p \in Paths, source[p] # lower[p], source[p] # Absent PROVE Told(p)
    BY <1>2, <1>6, <1>12 DEF Calm, Applied, Untouched
  <1>13. ASSUME NEW p \in Paths, source[p] = Absent, lower[p] # Absent, HasDir(source, Front(p)) PROVE Told(p)
    <2>1. ~Gone(p)
      BY <1>3, <1>13, GoneNoDir
    <2> QED BY <1>1, <1>2, <1>13, <2>1 DEF Calm, Merged, Reached
  <1>14. Expected = {[kind |-> "add", path |-> p] : p \in {r \in Paths : source[r] # Absent /\ lower[r] = Absent}}
                      \cup {[kind |-> "modify", path |-> p] : p \in {r \in Paths : source[r] # Absent /\ lower[r] # Absent /\ source[r] # lower[r]}}
                      \cup {[kind |-> "delete", path |-> p] :
                              p \in {r \in Paths : lower[r] # Absent /\ source[r] = Absent /\ HasDir(source, Front(r))}}
    <2>1. Present(source) \ Present(lower) = {r \in Paths : source[r] # Absent /\ lower[r] = Absent}
      BY DEF Present
    <2>2. {p \in Present(source) \cap Present(lower) : source[p] # lower[p]}
            = {r \in Paths : source[r] # Absent /\ lower[r] # Absent /\ source[r] # lower[r]}
      BY DEF Present
    <2>3. {p \in Present(lower) \ Present(source) : HasDir(source, Front(p))}
            = {r \in Paths : lower[r] # Absent /\ source[r] = Absent /\ HasDir(source, Front(r))}
      BY DEF Present
    <2> QED BY <2>1, <2>2, <2>3 DEF Expected
  <1> HIDE DEF told
  <1>15. ASSUME NEW e \in Expected PROVE e \in told
    <2>1. CASE \E p \in Paths : e = [kind |-> "add", path |-> p] /\ source[p] # Absent /\ lower[p] = Absent
      <3>1. PICK p \in Paths : e = [kind |-> "add", path |-> p] /\ source[p] # Absent /\ lower[p] = Absent
        BY <2>1
      <3>2. PICK c \in told : c.path = p /\ c \in Telling /\ Right(c)
        BY <1>9, <1>11, <1>12, <3>1
      <3>3. c.kind = "add"
        BY <3>1, <3>2 DEF Right
      <3>4. e = c
        BY <1>10, <3>1, <3>2, <3>3
      <3> QED BY <3>4
    <2>2. CASE \E p \in Paths : e = [kind |-> "modify", path |-> p] /\ source[p] # Absent /\ lower[p] # Absent /\ source[p] # lower[p]
      <3>1. PICK p \in Paths : e = [kind |-> "modify", path |-> p] /\ source[p] # Absent /\ lower[p] # Absent /\ source[p] # lower[p]
        BY <2>2
      <3>2. PICK c \in told : c.path = p /\ c \in Telling /\ Right(c)
        BY <1>9, <1>11, <1>12, <3>1
      <3>3. c.kind = "modify"
        BY <1>10, <3>1, <3>2 DEF Right
      <3>4. e = c
        BY <1>10, <3>1, <3>2, <3>3
      <3> QED BY <3>4
    <2>3. CASE \E p \in Paths : e = [kind |-> "delete", path |-> p] /\ lower[p] # Absent /\ source[p] = Absent /\ HasDir(source, Front(p))
      <3>1. PICK p \in Paths : e = [kind |-> "delete", path |-> p] /\ lower[p] # Absent /\ source[p] = Absent /\ HasDir(source, Front(p))
        BY <2>3
      <3>2. PICK c \in told : c.path = p /\ c \in Telling /\ Right(c)
        BY <1>9, <1>11, <1>13, <3>1
      <3>3. c.kind = "delete"
        BY <3>1, <3>2 DEF Right
      <3>4. e = c
        BY <1>10, <3>1, <3>2, <3>3
      <3> QED BY <3>4
    <2> QED BY <1>14, <2>1, <2>2, <2>3
  <1>16. ASSUME NEW c \in told, c \notin Expected PROVE c.kind = "delete" /\ ~HasDir(source, Front(c.path))
    <2>1. PICK p \in Paths : p = c.path
      BY <1>9, <1>10
    <2>2. Right(c) /\ c.kind \in {"add", "modify", "delete"} /\ c = [kind |-> c.kind, path |-> p]
      BY <1>9, <1>10, <2>1
    <2>3. c.kind # "add"
      <3>1. c.kind = "add" => lower[p] = Absent /\ source[p] # Absent
        BY <2>1, <2>2 DEF Right
      <3>2. c.kind = "add" => c = [kind |-> "add", path |-> p]
        BY <2>2
      <3> QED BY <1>14, <1>16, <3>1, <3>2
    <2>4. c.kind # "modify"
      <3>1. c.kind = "modify" => lower[p] # Absent /\ source[p] # Absent /\ source[p] # lower[p]
        BY <2>1, <2>2 DEF Right
      <3>2. c.kind = "modify" => c = [kind |-> "modify", path |-> p]
        BY <2>2
      <3> QED BY <1>14, <1>16, <3>1, <3>2
    <2>5. c.kind = "delete" /\ source[p] = Absent /\ lower[p] # Absent /\ c = [kind |-> "delete", path |-> p]
      BY <2>1, <2>2, <2>3, <2>4 DEF Right
    <2> QED BY <1>14, <1>16, <2>1, <2>5
  <1> QED BY <1>7, <1>15, <1>16 DEF told

(* A diff that ends without error has made the destination the source's    *)
(* tree and told exactly the changes (diff_containerd.go:81-158), whatever *)
(* the trees, the capacity of the channels and the faults.                 *)
THEOREM ConvergesHolds == Spec => []Converges
  <1>1. Init => CInv
    BY CInit
  <1>2. CInv /\ [Next]_vars => CInv'
    BY CKept
  <1>3. CInv => Converges
    BY ConvergesNow
  <1> QED BY <1>1, <1>2, <1>3, PTL DEF Spec

-----------------------------------------------------------------------------
(* What the writer does not find.                                          *)
LEMMA CalmApplying ==
    ASSUME "walk" \notin Faults, CInv, loop = "apply", ~canceled
    PROVE  Calm
  <1>1. walk.err = "none" /\ feed.err = "none"
    BY DEF CInv, KInv, Supplied, Halted, Reason
  <1>2. loopErr = "none"
    BY DEF CInv, Finished
  <1> QED BY <1>1, <1>2 DEF CInv, Calm, Clean

LEMMA AppliedChange ==
    ASSUME Calm, loop = "apply"
    PROVE  \E p \in Paths, c \in Telling, i \in Nat :
             /\ change = c /\ c.path = p /\ Says(i, c) /\ Right(c) /\ Told(p)
             /\ \A q \in Paths : q # p => ~InHand(q)
  <1>1. PICK i \in Nat, c \in Telling : Says(i, c) /\ change = c
    BY DEF Calm, Merged, Said
  <1>2. c.path \in Paths /\ Right(c) /\ Told(c.path)
    BY <1>1 DEF Calm, Merged, RightKind, Told, Telling
  <1> QED BY <1>1, <1>2 DEF InHand

(* The parent of what the source has is there.                             *)
LEMMA ParentStands ==
    ASSUME Calm, loop = "apply", NEW p \in Paths, Told(p), source[p] # Absent, \A q \in Paths : q # p => ~InHand(q)
    PROVE  HasDir(dest, Front(p))
  <1>0. /\ TreeLike(source) /\ Shape /\ LoopShape /\ RestDone /\ feed.err = "none"
    BY CalmTypes DEF Calm, KInv, Supplied, Clean
  <1> SUFFICES ASSUME Front(p) # <<>> PROVE Front(p) \in Paths /\ IsDir(dest[Front(p)])
    BY DEF HasDir
  <1>1. PICK d \in Paths : d = Front(p) /\ IsDir(source[d])
    BY <1>0, FrontIn DEF TreeLike
  <1>2. Before(d, p) /\ d # p
    <2>1. p \in Seq(Nat) /\ d \in Seq(Nat) /\ IsStrictPrefix(d, p)
      BY <1>1, ChildFacts, PathIsSeq
    <2> QED BY <2>1, BeforeIs, BeforeIrreflexive
  <1>3. ~Pending(d)
    <2>1. UpperPast(p)
      BY <1>0 DEF LoopShape, ToldPast
    <2> QED BY <1>0, <1>2, <2>1, PastPending
  <1>4. dest[d] = source[d]
    <2>1. source[d] # Absent /\ ~InHand(d)
      BY <1>1, <1>2 DEF IsDir, Dirs, Absent
    <2> QED BY <1>3, <2>1 DEF Calm, Applied, Provided, Settled
  <1> QED BY <1>1, <1>4

LEMMA RemovedBefore ==
    ASSUME Calm, loop = "apply", NEW p \in Paths, NEW c \in Telling, NEW i \in Nat,
           Says(i, c), Right(c), c.path = p, c.kind = "delete", ~HasDir(dest, Front(p))
    PROVE  \E j \in Nat, d \in Telling : Says(j, d) /\ d.kind = "delete" /\ Below(p, d.path)
  <1>0. lower \in [Paths -> Kinds] /\ TreeLike(lower)
    BY CalmTypes
  <1>1. lower[p] # Absent
    BY DEF Right
  <1>2. PICK f \in Paths : f = Front(p) /\ IsDir(lower[f]) /\ ~IsDir(dest[f])
    BY <1>0, <1>1 DEF TreeLike, HasDir
  <1>3. ~IsDir(source[f])
    BY <1>2 DEF Calm, Applied, SharedDirs
  <1>4. Told(f) \/ Gone(f)
    BY <1>2 DEF Calm, Applied, Changed, IsDir, Dirs, Absent
  <1>5. PICK a \in Paths : (a = f \/ Below(f, a)) /\ Leaves(a)
    BY <1>2, <1>3, <1>4 DEF Gone, Leaves
  <1>6. Below(p, a)
    BY <1>2, <1>5, FrontAbove
  <1>7. PICK j \in Nat, d \in Telling : Says(j, d) /\ d.path = a
    BY <1>5 DEF Leaves, Told
  <1>8. Right(d) /\ d.kind \in {"add", "modify", "delete"}
    BY <1>7 DEF Calm, Merged, RightKind, Telling, Tells
  <1>9. d.kind # "add"
    BY <1>5, <1>7, <1>8 DEF Right, Leaves, IsDir, Dirs, Absent
  <1>10. d.kind # "modify"
    <2>1. d.kind = "modify" => Became(d)
      BY <1>5, <1>7 DEF Became, Leaves
    <2> QED BY <1>6, <1>7, <2>1 DEF Calm, Merged, NotBelow
  <1> QED BY <1>6, <1>7, <1>8, <1>9, <1>10

LEMMA FailsStep ==
    ASSUME "walk" \notin Faults, CInv, ApplyStarts, loop' = "done", loopErr' \in {"openroot", "missing"}
    PROVE  RemovedAgain'
  <1>1. /\ loop = "apply" /\ ~canceled /\ change' = change /\ changes' = changes
        /\ \/ ~HasDir(dest, Front(change.path))
           \/ change.kind = "modify" /\ dest[change.path] = Absent
    BY DEF ApplyStarts, LoopFails, CallerDone, ParentOpens
  <1>2. Calm
    BY <1>1, CalmApplying
  <1>3. PICK p \in Paths, c \in Telling, i \in Nat :
          /\ change = c /\ c.path = p /\ Says(i, c) /\ Right(c) /\ Told(p)
          /\ \A q \in Paths : q # p => ~InHand(q)
    BY <1>1, <1>2, AppliedChange
  <1>4. ~HasDir(dest, Front(p))
    BY <1>1, <1>2, <1>3 DEF Calm, Applied, AsFound
  <1>5. source[p] = Absent
    BY <1>1, <1>2, <1>3, <1>4, ParentStands
  <1>6. c.kind = "delete"
    BY <1>3, <1>5 DEF Right
  <1>7. PICK j \in Nat, d \in Telling : Says(j, d) /\ d.kind = "delete" /\ Below(p, d.path)
    BY <1>1, <1>2, <1>3, <1>4, <1>6, RemovedBefore
  <1>8. j \in DOMAIN changes /\ changes[j] = d
    <2>1. changes \in Seq(Telling)
      BY <1>2, CalmTypes DEF Typed, Telling
    <2> QED BY <1>7, <2>1, LenProperties DEF Says
  <1> QED BY <1>1, <1>3, <1>6, <1>7, <1>8 DEF RemovedAgain

LEMMA FailsKept ==
    ASSUME "walk" \notin Faults, CInv, FailsOnlyBelowRemoved, [Next]_vars
    PROVE  FailsOnlyBelowRemoved'
  <1> SUFFICES ASSUME loop' = "done", loopErr' \in {"openroot", "missing"} PROVE RemovedAgain'
    BY DEF FailsOnlyBelowRemoved, WriterFails
  <1>1. CASE ApplyStarts
    BY <1>1, FailsStep
  <1>2. CASE UNCHANGED <<loop, loopErr, change, changes>>
    BY <1>2 DEF FailsOnlyBelowRemoved, WriterFails, RemovedAgain
  <1>3. CASE Loop /\ ~ApplyStarts
    <2>1. CASE Compare
      BY <2>1 DEF Compare, Taken, Emit, Quiet
    <2>2. CASE TakeLower \/ TakeUpper \/ RemoveOne
      BY <1>2, <2>2 DEF TakeLower, TakeUpper, RemoveOne
    <2>3. CASE TakeCanceled \/ LoopEnds \/ RemoveEnds \/ Put \/ LoopReturns
      BY <2>3 DEF TakeCanceled, LoopEnds, LoopFails, RemoveEnds, Put, LoopReturns
    <2> QED BY <1>3, <2>1, <2>2, <2>3 DEF Loop
  <1>4. Walk \/ Feed \/ Cancel \/ Over \/ UNCHANGED vars => UNCHANGED <<loop, loopErr, change, changes>>
    BY DEF Walk, WalkReturns, Feed, FeedReturns, Cancel, Over, vars, loopVars
  <1> QED BY <1>1, <1>2, <1>3, <1>4 DEF Next

(* The writer misses a parent or an entry only when it removes below a     *)
(* directory whose own removal was told before (diff_containerd.go:        *)
(* 125-134), as long as the walk itself does not fail.                     *)
THEOREM FailsOnlyBelowRemovedHolds == ASSUME "walk" \notin Faults PROVE Spec => []FailsOnlyBelowRemoved
  <1>1. Init => CInv /\ FailsOnlyBelowRemoved
    BY CInit DEF Init, FailsOnlyBelowRemoved, WriterFails
  <1>2. CInv /\ FailsOnlyBelowRemoved /\ [Next]_vars => CInv' /\ FailsOnlyBelowRemoved'
    BY CKept, FailsKept
  <1> QED BY <1>1, <1>2, PTL DEF Spec
=============================================================================
