---------------------------- MODULE WriterProofs ----------------------------
(***************************************************************************)
(* The disk writers, for every source, destination and choice of failures: *)
(* what is still open when a transfer has returned and its goroutines are  *)
(* over; that it fails for a cause; that an entry replaced by one of its   *)
(* sort is there all the time, the old one or the new one; and that a      *)
(* success leaves the source's tree.                                       *)
(***************************************************************************)
EXTENDS Writer, PathOrderProofs

(* A file's goroutine, its writer, and the descriptor of the writer.       *)
Pcs == {"off", "start", "wait", "times", "done", "failed"}
IsFile(f) ==
    /\ f = [pc |-> f.pc, f |-> f.f, saved |-> f.saved, closed |-> f.closed, done |-> f.done]
    /\ f.pc \in Pcs /\ f.f \in {"none", "open", "closed"}
    /\ f.closed \in BOOLEAN /\ f.done \in BOOLEAN

(* The writer of a file is closed by its end, or as it is given up when    *)
(* the writer is a RootDiskWriter's; after that nobody closes it.          *)
Life(f, open) ==
    /\ f.pc \in {"off", "start"} => f.f = "none" /\ ~f.closed /\ ~f.done /\ ~open
    /\ f.pc \in {"times", "done"} => f.done
    /\ f.done => f.closed
    /\ f.closed /\ ~f.done => f.pc = "failed"
    /\ sc.rooted /\ f.pc = "failed" => f.closed
    /\ open => f.pc = "failed" \/ (f.pc = "wait" /\ ~f.done)

FilesShape ==
    /\ files = [p \in DOMAIN sc.source |-> files[p]]
    /\ fds \subseteq DOMAIN sc.source
    /\ \A p \in DOMAIN sc.source : IsFile(files[p]) /\ Life(files[p], p \in fds)

(* A name is announced once in an attempt, in order, and its goroutine     *)
(* starts only then.                                                       *)
ListShape ==
    /\ list \in Seq([path : Names, kind : {"add", "modify", "delete"}])
    /\ \A i, j \in 1..Len(list) : i < j => Before(list[i].path, list[j].path)
    /\ \A i \in 1..Len(list) : list[i].path \in DOMAIN sc.source => files[list[i].path].pc = "off"

(* The file that is being opened has not got its end yet.                  *)
LoopShape ==
    /\ loop = [at |-> loop.at, path |-> loop.path]
    /\ loop.at \in {"idle", "chmod", "reopen", "ended"}
    /\ loop.at \in {"chmod", "reopen"} => loop.path \in DOMAIN sc.source /\ Piped(loop.path)

(* Wait ends with every goroutine over and the directories closed.         *)
FateShape ==
    /\ fate \in {"run", "wait", "ok", "failed"} /\ ctxDone \in BOOLEAN
    /\ fate \in {"wait", "ok"} => list = <<>>
    /\ fate = "failed" => ctxDone
    /\ fate = "ok" \/ (fate = "failed" /\ list = <<>>) =>
         held = {} /\ \A p \in DOMAIN sc.source : Over(p)
    /\ fate = "ok" => \A p \in DOMAIN sc.source : files[p].pc # "failed"

OpenInv == sc \in Scenarios /\ FilesShape /\ ListShape /\ LoopShape /\ FateShape

-----------------------------------------------------------------------------
LEMMA OpenImplies == OpenInv => NothingLeftOpen
  <1> SUFFICES ASSUME OpenInv, Quiet PROVE
         /\ \A p \in fds : files[p].pc = "failed" /\ (sc.rooted => files[p].closed)
         /\ held # {} => fate = "failed" /\ list # <<>>
         /\ ctxDone \/ fds = {}
    BY DEF NothingLeftOpen
  <1>1. DOMAIN files = DOMAIN sc.source
    BY DEF OpenInv, FilesShape
  <1>2. \A p \in DOMAIN sc.source : files[p].pc \in {"off", "done", "failed"}
    BY <1>1 DEF Quiet, Over
  <1>3. ASSUME NEW p \in fds PROVE files[p].pc = "failed" /\ (sc.rooted => files[p].closed)
    <2>1. p \in DOMAIN sc.source /\ Life(files[p], p \in fds)
      BY DEF OpenInv, FilesShape
    <2> QED BY <1>2, <2>1 DEF Life
  <1>4. fate \in {"ok", "failed"}
    BY DEF Quiet, Returned
  <1>5. held # {} => fate = "failed" /\ list # <<>>
    BY <1>4 DEF OpenInv, FateShape
  <1>6. ctxDone \/ fds = {}
    <2>1. CASE fate = "failed"
      BY <2>1 DEF OpenInv, FateShape
    <2>2. CASE fate = "ok"
      <3>1. \A p \in fds : FALSE
        BY <1>3, <2>2 DEF OpenInv, FateShape, FilesShape
      <3> QED BY <3>1
    <2> QED BY <1>4, <2>1, <2>2
  <1> QED BY <1>3, <1>5, <1>6

-----------------------------------------------------------------------------
(* The names, and the difference in their order.                           *)
Ranked(p) == p \in Seq(Nat) /\ p # <<>> /\ Len(p) \in Nat /\ Len(p) >= 1 /\ \A k \in 1..Len(p) : p[k] \in Nat

LEMMA PathTypes ==
    ASSUME sc \in Scenarios
    PROVE  /\ Paths \subseteq Seq(Nat) \ {<<>>} /\ IsFiniteSet(Paths)
           /\ \A p \in Paths : Ranked(p) /\ \A k \in 1..Len(p) : p[k] < 100
  <1>1. /\ Paths \subseteq Seq(Nat) \ {<<>>} /\ IsFiniteSet(Paths)
        /\ \A p \in Paths : \A k \in 1..Len(p) : p[k] < 100
    BY WriterAssumption DEF Paths
  <1>2. \A p \in Seq(Nat) \ {<<>>} : Ranked(p)
    BY EmptySeq, LenFacts DEF Ranked
  <1> QED BY <1>1, <1>2

(* A temporary name is that of another entry in the same directory.        *)
LEMMA TempIs ==
    ASSUME sc \in Scenarios, NEW p \in Paths, NEW k \in {1, 2}
    PROVE  /\ Ranked(Temp(p, k)) /\ Len(Temp(p, k)) = Len(p)
           /\ \A j \in 1..Len(p) : j < Len(p) => Temp(p, k)[j] = p[j]
           /\ Temp(p, k)[Len(p)] \in {100 + p[Len(p)], 200 + p[Len(p)]}
           /\ p[Len(p)] \in Nat /\ p[Len(p)] < 100
  <1>1. Ranked(p) /\ p[Len(p)] \in Nat /\ p[Len(p)] < 100
    <2>1. Ranked(p) /\ \A i \in 1..Len(p) : p[i] < 100
      BY PathTypes
    <2>2. Len(p) \in 1..Len(p)
      BY <2>1 DEF Ranked
    <2> QED BY <2>1, <2>2 DEF Ranked
  <1>2. Last(p) = p[Len(p)]
    BY DEF Last
  <1> DEFINE v == 100 * k + p[Len(p)]
             f == Front(p)
  <1>3. v \in Nat /\ v \in {100 + p[Len(p)], 200 + p[Len(p)]}
    <2>1. CASE k = 1
      BY <1>1, <2>1
    <2>2. CASE k = 2
      BY <1>1, <2>2
    <2> QED BY <2>1, <2>2
  <1>4. f \in Seq(Nat) /\ Len(f) = Len(p) - 1 /\ \A j \in 1..(Len(p) - 1) : f[j] = p[j]
    BY <1>1, FrontFacts DEF Ranked
  <1> HIDE DEF f, v
  <1>5. /\ Append(f, v) \in Seq(Nat) /\ Len(Append(f, v)) = Len(f) + 1
        /\ \A j \in 1..Len(f) : Append(f, v)[j] = f[j]
        /\ Append(f, v)[Len(f) + 1] = v
    BY <1>3, <1>4, AppendProperties
  <1>6. Temp(p, k) = Append(f, v)
    BY <1>2 DEF Temp, f, v
  <1> DEFINE t == Append(f, v)
  <1>7. Len(t) = Len(p) /\ t[Len(p)] = v /\ t \in Seq(Nat)
    BY <1>1, <1>4, <1>5 DEF Ranked
  <1>8. ASSUME NEW j \in 1..Len(p), j < Len(p) PROVE t[j] = p[j]
    <2>1. j \in 1..Len(f) /\ j \in 1..(Len(p) - 1)
      BY <1>1, <1>4, <1>8 DEF Ranked
    <2> QED BY <1>4, <1>5, <2>1
  <1> HIDE DEF t
  <1>9. Ranked(t)
    <2>1. t # <<>>
      BY <1>1, <1>7, EmptySeq DEF Ranked
    <2> QED BY <1>7, <2>1, EmptySeq, LenFacts DEF Ranked
  <1> QED BY <1>1, <1>3, <1>6, <1>7, <1>8, <1>9 DEF t

LEMMA NameTypes ==
    ASSUME sc \in Scenarios
    PROVE  /\ Names \subseteq Seq(Nat) /\ IsFiniteSet(Names)
           /\ Paths \subseteq Names /\ DOMAIN sc.source \subseteq Names
  <1> DEFINE T(k) == {Temp(p, k) : p \in Paths}
  <1>1. \A k \in {1, 2} : IsFiniteSet(T(k)) /\ T(k) \subseteq Seq(Nat)
    <2> TAKE k \in {1, 2}
    <2> DEFINE f == [p \in Paths |-> Temp(p, k)]
    <2>1. f \in Surjection(Paths, T(k))
      BY DEF Surjection
    <2>2. T(k) \subseteq Seq(Nat)
      BY TempIs DEF Ranked
    <2> HIDE DEF f, T
    <2> QED BY <2>1, <2>2, PathTypes, FS_Surjection
  <1>2. Names = Paths \cup (T(1) \cup T(2))
    BY DEF Names
  <1> HIDE DEF T
  <1>3. IsFiniteSet(Names) /\ Names \subseteq Seq(Nat)
    BY <1>1, <1>2, PathTypes, FS_Union
  <1> QED BY <1>3 DEF Names, Paths

LEMMA TempFacts ==
    ASSUME sc \in Scenarios, NEW p \in Paths, NEW k \in {1, 2}
    PROVE  /\ Temp(p, k) \in Names /\ Temp(p, k) \notin Paths
           /\ \A q \in Paths, j \in {1, 2} : Temp(p, k) = Temp(q, j) => p = q
           /\ \A x \in Names : ~IsStrictPrefix(Temp(p, k), x)
           /\ \A y \in Seq(Nat) : IsStrictPrefix(y, Temp(p, k)) <=> IsStrictPrefix(y, p)
           /\ ~IsPrefix(p, Temp(p, k))
  <1> DEFINE t == Temp(p, k)
             n == Len(p)
  <1>1. /\ Ranked(p) /\ Ranked(t) /\ Len(t) = n /\ n \in Nat /\ n \in 1..n
        /\ \A j \in 1..n : j < n => t[j] = p[j]
        /\ t[n] \in {100 + p[n], 200 + p[n]} /\ p[n] \in Nat /\ p[n] < 100
    <2>1. Ranked(p)
      BY PathTypes
    <2>2. n \in Nat /\ n \in 1..n
      BY <2>1 DEF Ranked
    <2> QED BY <2>1, <2>2, TempIs
  <1>2. t \in Names
    BY DEF Names
  <1> HIDE DEF t, n
  <1>3. t[n] \in Nat /\ t[n] >= 100 /\ t[n] # p[n]
    BY <1>1
  <1>4. t \notin Paths
    BY <1>1, <1>3, PathTypes
  <1>5. ASSUME NEW q \in Paths, NEW j \in {1, 2}, t = Temp(q, j) PROVE p = q
    <2>1. /\ Ranked(q) /\ Len(q) = n
          /\ \A i \in 1..n : i < n => t[i] = q[i]
          /\ t[n] \in {100 + q[n], 200 + q[n]} /\ q[n] \in Nat /\ q[n] < 100
      <3>1. Ranked(q) /\ Len(t) = Len(q)
        BY <1>5, TempIs, PathTypes DEF t
      <3>2. Len(q) = n
        BY <1>1, <3>1
      <3> QED BY <1>5, <3>1, <3>2, TempIs DEF t
    <2>2. p[n] = q[n]
      BY <1>1, <2>1
    <2>3. \A i \in 1..n : p[i] = q[i]
      BY <1>1, <2>1, <2>2
    <2> QED BY <1>1, <2>1, <2>3, SeqEqual DEF Ranked, n
  <1>6. ASSUME NEW x \in Names, IsStrictPrefix(t, x) PROVE FALSE
    <2>1. x \in Seq(Nat) /\ Len(x) \in Nat
      BY NameTypes, LenFacts
    <2>2. n < Len(x) /\ x[n] = t[n] /\ n \in 1..Len(x)
      <3>1. Len(t) < Len(x) /\ \A j \in 1..Len(t) : t[j] = x[j]
        BY <1>1, <1>6, <2>1, PrefixFacts DEF Ranked
      <3> QED BY <1>1, <2>1, <3>1
    <2>3. CASE x \in Paths
      BY <1>3, <2>2, <2>3, PathTypes
    <2>4. CASE x \notin Paths
      <3>1. PICK q \in Paths, j \in {1, 2} : x = Temp(q, j)
        BY <2>4 DEF Names
      <3>2. Ranked(q) /\ Len(q) = Len(x) /\ \A i \in 1..Len(q) : i < Len(q) => x[i] = q[i]
        BY <3>1, TempIs, PathTypes
      <3>3. x[n] = q[n] /\ n \in 1..Len(q)
        BY <2>2, <3>2
      <3> QED BY <1>3, <2>2, <3>3, PathTypes
    <2> QED BY <2>3, <2>4
  <1>7. ASSUME NEW y \in Seq(Nat) PROVE IsStrictPrefix(y, t) <=> IsStrictPrefix(y, p)
    <2>1. /\ IsStrictPrefix(y, t) <=> Len(y) < n /\ \A j \in 1..Len(y) : y[j] = t[j]
          /\ IsStrictPrefix(y, p) <=> Len(y) < n /\ \A j \in 1..Len(y) : y[j] = p[j]
      BY <1>1, PrefixFacts DEF Ranked, n
    <2>2. Len(y) < n => \A j \in 1..Len(y) : t[j] = p[j]
      BY <1>1, LenFacts
    <2> QED BY <2>1, <2>2
  <1>8. ~IsPrefix(p, t)
    BY <1>1, <1>3, PrefixFacts DEF Ranked, n
  <1> QED BY <1>2, <1>4, <1>5, <1>6, <1>7, <1>8 DEF t

LEMMA DifferenceFacts ==
    ASSUME sc \in Scenarios
    PROVE  /\ Difference \in Seq([path : Names, kind : {"add", "modify", "delete"}])
           /\ \A i, j \in 1..Len(Difference) : i < j => Before(Difference[i].path, Difference[j].path)
           /\ \A i \in 1..Len(Difference) : Difference[i].kind = "delete" <=> Difference[i].path \notin DOMAIN sc.source
           /\ \A p \in Changed : \E i \in 1..Len(Difference) : Difference[i].path = p
           /\ \A i \in 1..Len(Difference) : Difference[i].path \in Changed
  <1> DEFINE names == Sorted(Changed)
             C == [path : Names, kind : {"add", "modify", "delete"}]
  <1>1. Changed \subseteq Seq(Nat) /\ IsFiniteSet(Changed) /\ Changed \subseteq Names
    BY NameTypes, FS_Subset DEF Changed
  <1>2. /\ Cardinality(Changed) \in Nat /\ names \in Seq(Changed) /\ Len(names) = Cardinality(Changed)
        /\ \A i, j \in 1..Cardinality(Changed) : i < j => Before(names[i], names[j])
    BY <1>1, SortedFacts
  <1>9. \A p \in Changed : \E i \in 1..Len(names) : names[i] = p
    BY <1>1, <1>2, SortedAll
  <1> DEFINE n == Len(names)
  <1>3. n \in Nat /\ DOMAIN names = 1..n /\ \A i \in 1..n : names[i] \in Names /\ names[i] \in Changed
    BY <1>1, <1>2, LenProperties, ElementOfSeq
  <1>4. Difference = [i \in 1..n |->
           [path |-> names[i],
            kind |-> IF names[i] \notin DOMAIN sc.source THEN "delete"
                     ELSE IF Present(names[i]) THEN "modify" ELSE "add"]]
    BY <1>3 DEF Difference
  <1> HIDE DEF names
  <1>5. Difference \in [1..n -> C]
    BY <1>3, <1>4
  <1> HIDE DEF n, C
  <1>6. Difference \in Seq(C) /\ Len(Difference) = n
    <2>1. Difference \in Seq(C)
      BY <1>3, <1>5, SeqDef
    <2> QED BY <1>3, <1>5, <2>1, LenProperties
  <1>7. \A i \in 1..n : Difference[i].path = names[i]
    BY <1>4
  <1>8. \A i \in 1..n : Difference[i].kind = "delete" <=> names[i] \notin DOMAIN sc.source
    BY <1>4
  <1>10. \A i \in 1..n : Difference[i].path \in Changed
    BY <1>3, <1>7
  <1> QED BY <1>2, <1>3, <1>6, <1>7, <1>8, <1>9, <1>10 DEF n, C

LEMMA InitOpen == Init => OpenInv
  <1> SUFFICES ASSUME Init PROVE OpenInv
    OBVIOUS
  <1>1. sc \in Scenarios
    BY DEF Init
  <1>2. files = [p \in DOMAIN sc.source |-> NoFile] /\ fds = {}
    BY DEF Init
  <1>3. FilesShape
    BY <1>2 DEF FilesShape, IsFile, Life, NoFile, Pcs
  <1>4. ListShape
    <2>1. list = Difference
      BY DEF Init
    <2>2. \A p \in DOMAIN sc.source : files[p].pc = "off"
      BY <1>2 DEF NoFile
    <2> QED BY <1>1, <2>1, <2>2, DifferenceFacts DEF ListShape
  <1>5. LoopShape
    BY DEF Init, LoopShape, Idle
  <1>6. FateShape
    BY DEF Init, FateShape
  <1> QED BY <1>1, <1>3, <1>4, <1>5, <1>6 DEF OpenInv

-----------------------------------------------------------------------------
(* One file changes.                                                       *)
Only(p, g) == files' = [q \in DOMAIN sc.source |-> IF q = p THEN g ELSE files[q]]

LEMMA FileIs ==
    ASSUME FilesShape, NEW p \in DOMAIN sc.source
    PROVE  /\ DOMAIN files = DOMAIN sc.source
           /\ IsFile(files[p]) /\ Life(files[p], p \in fds)
  BY DEF FilesShape

LEMMA FieldUpdates ==
    ASSUME NEW g, IsFile(g), NEW v
    PROVE  /\ [g EXCEPT !.pc = v] = [pc |-> v, f |-> g.f, saved |-> g.saved, closed |-> g.closed, done |-> g.done]
           /\ [g EXCEPT !.f = v] = [pc |-> g.pc, f |-> v, saved |-> g.saved, closed |-> g.closed, done |-> g.done]
           /\ [g EXCEPT !.saved = v] = [pc |-> g.pc, f |-> g.f, saved |-> v, closed |-> g.closed, done |-> g.done]
           /\ [g EXCEPT !.done = v] = [pc |-> g.pc, f |-> g.f, saved |-> g.saved, closed |-> g.closed, done |-> v]
  <1> DEFINE h == [pc |-> g.pc, f |-> g.f, saved |-> g.saved, closed |-> g.closed, done |-> g.done]
  <1>1. g = h
    BY DEF IsFile
  <1>2. /\ [h EXCEPT !.pc = v] = [pc |-> v, f |-> g.f, saved |-> g.saved, closed |-> g.closed, done |-> g.done]
        /\ [h EXCEPT !.f = v] = [pc |-> g.pc, f |-> v, saved |-> g.saved, closed |-> g.closed, done |-> g.done]
        /\ [h EXCEPT !.saved = v] = [pc |-> g.pc, f |-> g.f, saved |-> v, closed |-> g.closed, done |-> g.done]
        /\ [h EXCEPT !.done = v] = [pc |-> g.pc, f |-> g.f, saved |-> g.saved, closed |-> g.closed, done |-> v]
    OBVIOUS
  <1> HIDE DEF h
  <1> QED BY <1>1, <1>2

LEMMA ClosedIs ==
    ASSUME NEW p, NEW g, IsFile(g)
    PROVE  Closed(p, g) = [pc |-> g.pc, f |-> IF g.f = "open" THEN "closed" ELSE g.f,
                           saved |-> g.saved, closed |-> TRUE, done |-> g.done]
  <1> DEFINE h == [pc |-> g.pc, f |-> g.f, saved |-> g.saved, closed |-> g.closed, done |-> g.done]
             e == IF g.f = "open" THEN "closed" ELSE g.f
  <1>1. g = h
    BY DEF IsFile
  <1>2. Closed(p, g) = [[g EXCEPT !.f = e] EXCEPT !.closed = TRUE]
    BY DEF Closed
  <1> HIDE DEF e
  <1>3. [h EXCEPT !.f = e] = [pc |-> g.pc, f |-> e, saved |-> g.saved, closed |-> g.closed, done |-> g.done]
    OBVIOUS
  <1> HIDE DEF h
  <1>4. Closed(p, g) = [pc |-> g.pc, f |-> e, saved |-> g.saved, closed |-> TRUE, done |-> g.done]
    BY <1>1, <1>2, <1>3
  <1> QED BY <1>4 DEF e

LEMMA GotoIs ==
    ASSUME FilesShape, NEW p \in DOMAIN sc.source, NEW l, files' = Goto(p, l)
    PROVE  Only(p, [pc |-> l, f |-> files[p].f, saved |-> files[p].saved,
                    closed |-> files[p].closed, done |-> files[p].done])
  <1>1. files = [q \in DOMAIN sc.source |-> files[q]] /\ IsFile(files[p])
    BY DEF FilesShape
  <1>2. files' = [files EXCEPT ![p] = [files[p] EXCEPT !.pc = l]]
    BY DEF Goto
  <1>3. files' = [q \in DOMAIN sc.source |-> IF q = p THEN [files[p] EXCEPT !.pc = l] ELSE files[q]]
    BY <1>1, <1>2
  <1> QED BY <1>1, <1>3, FieldUpdates DEF Only

LEMMA FilesStep ==
    ASSUME FilesShape, UNCHANGED sc, NEW p \in DOMAIN sc.source, NEW g, Only(p, g), IsFile(g),
           fds' \in {fds, fds \cup {p}, fds \ {p}}, Life(g, p \in fds')
    PROVE  /\ FilesShape' /\ DOMAIN files' = DOMAIN sc.source
           /\ files'[p] = g /\ \A q \in DOMAIN sc.source : q # p => files'[q] = files[q]
  <1>1. /\ DOMAIN files' = DOMAIN sc.source /\ files'[p] = g
        /\ \A q \in DOMAIN sc.source : q # p => files'[q] = files[q]
        /\ files' = [q \in DOMAIN sc.source |-> files'[q]]
    BY DEF Only
  <1>2. fds' \subseteq DOMAIN sc.source /\ \A q \in DOMAIN sc.source : q # p => (q \in fds' <=> q \in fds)
    BY DEF FilesShape
  <1>3. ASSUME NEW q \in DOMAIN sc.source PROVE IsFile(files'[q]) /\ Life(files'[q], q \in fds')
    <2>1. CASE q = p
      BY <1>1, <2>1
    <2>2. CASE q # p
      <3>1. files'[q] = files[q] /\ (q \in fds' <=> q \in fds)
        BY <1>1, <1>2, <2>2
      <3>2. IsFile(files[q]) /\ Life(files[q], q \in fds)
        BY DEF FilesShape
      <3> QED BY <3>1, <3>2 DEF Life
    <2> QED BY <2>1, <2>2
  <1>4. \A q \in DOMAIN sc'.source : IsFile(files[q])' /\ Life(files[q], q \in fds)'
    BY <1>3 DEF IsFile, Life
  <1> QED BY <1>1, <1>2, <1>4 DEF FilesShape

-----------------------------------------------------------------------------
(* What each part of a step keeps.                                         *)
LEMMA ListKept ==
    ASSUME ListShape, FilesShape, UNCHANGED <<sc, list>>,
           \A q \in DOMAIN sc.source : files[q].pc = "off" => files'[q].pc = "off"
    PROVE  ListShape'
  <1>1. Names' = Names
    BY DEF Names, Paths, Temp
  <1>2. \A i \in 1..Len(list) : list[i].path \in DOMAIN sc.source => files'[list[i].path].pc = "off"
    BY DEF ListShape
  <1> QED BY <1>1, <1>2 DEF ListShape

LEMMA TailFacts ==
    ASSUME NEW S, NEW s \in Seq(S), s # <<>>
    PROVE  /\ Len(s) \in Nat /\ Len(s) >= 1 /\ 1 \in 1..Len(s)
           /\ Tail(s) \in Seq(S) /\ Len(Tail(s)) = Len(s) - 1
           /\ \A i \in 1..Len(Tail(s)) : Tail(s)[i] = s[i + 1] /\ i + 1 \in 1..Len(s) /\ 1 < i + 1
  <1>1. Len(s) \in Nat /\ Len(s) >= 1
    BY EmptySeq
  <1>2. Tail(s) \in Seq(S) /\ Len(Tail(s)) = Len(s) - 1 /\ \A i \in 1..Len(Tail(s)) : Tail(s)[i] = s[i + 1]
    BY HeadTailProperties
  <1> QED BY <1>1, <1>2

LEMMA TailKept ==
    ASSUME sc \in Scenarios, ListShape, FilesShape, list # <<>>, list' = Tail(list), UNCHANGED sc,
           \A q \in DOMAIN sc.source : q # change => files'[q].pc = files[q].pc
    PROVE  ListShape'
  <1>1. Names' = Names
    BY DEF Names, Paths, Temp
  <1> DEFINE C == [path : Names, kind : {"add", "modify", "delete"}]
             t == Tail(list)
  <1>2. /\ 1 \in 1..Len(list) /\ t \in Seq(C) /\ Len(t) \in Nat
        /\ \A i \in 1..Len(t) : t[i] = list[i + 1] /\ i + 1 \in 1..Len(list) /\ 1 < i + 1
    <2>1. list \in Seq(C)
      BY DEF ListShape
    <2> HIDE DEF C
    <2> QED BY <2>1, TailFacts, LenProperties
  <1> HIDE DEF t
  <1>3. ASSUME NEW i \in 1..Len(t), NEW j \in 1..Len(t), i < j PROVE Before(t[i].path, t[j].path)
    <2>1. i + 1 < j + 1
      BY <1>2, <1>3
    <2> QED BY <1>2, <2>1 DEF ListShape
  <1>4. ASSUME NEW i \in 1..Len(t), t[i].path \in DOMAIN sc.source PROVE files'[t[i].path].pc = "off"
    <2>1. Before(list[1].path, t[i].path)
      BY <1>2 DEF ListShape
    <2>2. list[1].path \in Seq(Nat)
      <3>1. list[1] \in C
        BY <1>2, ElementOfSeq DEF ListShape
      <3> QED BY <3>1, NameTypes
    <2>3. t[i].path # change
      BY <2>1, <2>2, BeforeIrreflexive DEF change
    <2>4. files[t[i].path].pc = "off"
      BY <1>2, <1>4 DEF ListShape
    <2> QED BY <1>4, <2>3, <2>4
  <1>5. list' = t
    BY DEF t
  <1> QED BY <1>1, <1>2, <1>3, <1>4, <1>5 DEF ListShape

LEMMA HandlingFate ==
    ASSUME FateShape, Handling,
           (fate' = "run" /\ ctxDone' \in BOOLEAN) \/ (fate' = "failed" /\ ctxDone' = TRUE /\ list' = list)
    PROVE  FateShape'
  BY DEF FateShape, Handling

(* The goroutine of a file that is not over yet.                           *)
LEMMA MovesOn ==
    ASSUME OpenInv, NEW p \in DOMAIN sc.source, NEW g, Only(p, g), IsFile(g),
           g.pc # "off", g.done = files[p].done, files[p].pc \in {"start", "wait", "times"},
           files[p].pc = "wait" => g.pc = "failed" \/ g.done,
           fds' \in {fds, fds \cup {p}, fds \ {p}}, Life(g, p \in fds'),
           UNCHANGED <<sc, list, loop, fate, ctxDone>>
    PROVE  OpenInv'
  <1>1. /\ FilesShape' /\ DOMAIN files' = DOMAIN sc.source
        /\ files'[p] = g /\ \A q \in DOMAIN sc.source : q # p => files'[q] = files[q]
    BY FilesStep DEF OpenInv
  <1>2. ListShape'
    <2>1. \A q \in DOMAIN sc.source : files[q].pc = "off" => files'[q].pc = "off"
      BY <1>1
    <2> QED BY <2>1, ListKept DEF OpenInv
  <1>3. LoopShape'
    <2>1. ASSUME loop.at \in {"chmod", "reopen"}
          PROVE  loop.path \in DOMAIN sc.source /\ files'[loop.path].pc \in {"wait", "failed"} /\ ~files'[loop.path].done
      <3>1. loop.path \in DOMAIN sc.source /\ files[loop.path].pc \in {"wait", "failed"} /\ ~files[loop.path].done
        BY <2>1 DEF OpenInv, LoopShape, Piped
      <3>2. CASE loop.path = p
        BY <1>1, <3>1, <3>2
      <3> QED BY <1>1, <3>1, <3>2
    <2> QED BY <2>1 DEF OpenInv, LoopShape, Piped
  <1>4. FateShape'
    <2>1. ~Over(p)
      BY DEF Over
    <2>2. ~(fate = "ok" \/ (fate = "failed" /\ list = <<>>))
      BY <2>1 DEF OpenInv, FateShape
    <2> QED BY <2>2 DEF OpenInv, FateShape
  <1> QED BY <1>1, <1>2, <1>3, <1>4 DEF OpenInv

(* The receive loop at a file.                                             *)
LEMMA LoopMoves ==
    ASSUME OpenInv, NEW p \in DOMAIN sc.source, NEW g, Only(p, g), IsFile(g), g.pc = files[p].pc,
           fds' \in {fds, fds \cup {p}, fds \ {p}}, Life(g, p \in fds'), ctxDone' \in {ctxDone, TRUE},
           UNCHANGED <<sc, list, fate, held>>, LoopShape'
    PROVE  OpenInv'
  <1>1. /\ FilesShape' /\ DOMAIN files' = DOMAIN sc.source
        /\ \A q \in DOMAIN sc.source : files'[q].pc = files[q].pc
    BY FilesStep DEF OpenInv
  <1>2. ListShape'
    BY <1>1, ListKept DEF OpenInv
  <1>3. \A q \in DOMAIN sc.source : Over(q)' <=> Over(q)
    BY <1>1 DEF Over
  <1>4. FateShape'
    <2>1. ctxDone' \in BOOLEAN /\ (ctxDone => ctxDone')
      BY DEF OpenInv, FateShape
    <2> QED BY <1>1, <1>3, <2>1 DEF OpenInv, FateShape
  <1> QED BY <1>1, <1>2, <1>4 DEF OpenInv

(* Nothing happens to the files.                                           *)
LEMMA FilesStay ==
    ASSUME OpenInv, UNCHANGED <<sc, files, fds>>
    PROVE  FilesShape'
  <1>1. \A p \in DOMAIN sc.source : Life(files[p], p \in fds)'
    BY DEF OpenInv, FilesShape, Life
  <1> QED BY <1>1 DEF OpenInv, FilesShape, IsFile

LEMMA LoopOnly ==
    ASSUME OpenInv, ctxDone' \in {ctxDone, TRUE}, UNCHANGED <<sc, files, fds, list, fate, held>>, LoopShape'
    PROVE  OpenInv'
  <1>1. FilesShape'
    BY FilesStay
  <1>2. ListShape'
    BY ListKept DEF OpenInv
  <1>3. FateShape'
    <2>1. ctxDone' \in BOOLEAN /\ (ctxDone => ctxDone')
      BY DEF OpenInv, FateShape
    <2> QED BY <2>1 DEF OpenInv, FateShape, Over
  <1> QED BY <1>1, <1>2, <1>3 DEF OpenInv

-----------------------------------------------------------------------------
(* HandleChange.                                                           *)
LEMMA DiffOnly ==
    ASSUME OpenInv, Handling, AsyncFixed, UNCHANGED sc,
           \/ fate' = "run" /\ ctxDone' \in BOOLEAN /\ list' \in {list, Tail(list)}
           \/ fate' = "failed" /\ ctxDone' = TRUE /\ list' = list
    PROVE  OpenInv'
  <1>1. FilesShape'
    BY FilesStay DEF AsyncFixed
  <1>2. ListShape'
    <2>1. CASE list' = list
      BY <2>1, ListKept DEF OpenInv, AsyncFixed
    <2>2. CASE list' = Tail(list)
      BY <2>2, TailKept DEF OpenInv, AsyncFixed, Handling
    <2> QED BY <2>1, <2>2
  <1>3. LoopShape'
    BY DEF OpenInv, LoopShape, Piped, AsyncFixed
  <1>4. FateShape'
    BY HandlingFate DEF OpenInv
  <1> QED BY <1>1, <1>2, <1>3, <1>4 DEF OpenInv

LEMMA StartChangeOpen ==
    ASSUME OpenInv, StartChange
    PROVE  OpenInv'
  <1>1. Handling /\ AsyncFixed /\ UNCHANGED sc /\ ctxDone \in BOOLEAN /\ fate = "run"
    BY DEF StartChange, OpenInv, FateShape, Handling
  <1>2. \/ fate' = "run" /\ ctxDone' = ctxDone /\ list' \in {list, Tail(list)}
        \/ fate' = "failed" /\ ctxDone' = TRUE /\ list' = list
    BY <1>1 DEF StartChange, Fail, Returns
  <1> QED BY <1>1, <1>2, DiffOnly

LEMMA MakeOpen ==
    ASSUME OpenInv, Make
    PROVE  OpenInv'
  <1>1. Handling /\ AsyncFixed /\ UNCHANGED sc /\ ctxDone \in BOOLEAN /\ fate = "run"
    BY DEF Make, OpenInv, FateShape, Handling
  <1>2. \/ fate' = "run" /\ ctxDone' = ctxDone /\ list' = list
        \/ fate' = "failed" /\ ctxDone' = TRUE /\ list' = list
    BY <1>1 DEF Make, Fail
  <1> QED BY <1>1, <1>2, DiffOnly

LEMMA HandOverOpen ==
    ASSUME OpenInv, Handling, HandOver, UNCHANGED <<sc, loop, fate, ctxDone, fds>>
    PROVE  OpenInv'
  <1>1. list' = Tail(list) /\ list # <<>> /\ fate = "run" /\ ctxDone \in BOOLEAN
    BY DEF HandOver, Returns, Handling, OpenInv, FateShape
  <1>2. CASE files' = files
    BY <1>1, <1>2, DiffOnly DEF AsyncFixed
  <1>3. CASE files' # files
    <2>1. files' = Goto(change, "start")
      BY <1>3 DEF HandOver, Goto
    <2>2. files = [q \in DOMAIN sc.source |-> files[q]]
      BY DEF OpenInv, FilesShape
    <2>3. change \in DOMAIN sc.source
      <3>1. CASE change \notin DOMAIN sc.source
        <4>1. files' = files
          BY <2>1, <2>2, <3>1 DEF Goto
        <4> QED BY <1>3, <4>1
      <3> QED BY <3>1
    <2> DEFINE f == files[change]
               g == [pc |-> "start", f |-> f.f, saved |-> f.saved, closed |-> f.closed, done |-> f.done]
    <2>4. Only(change, g)
      BY <2>1, <2>3, GotoIs DEF OpenInv
    <2>5. IsFile(f) /\ Life(f, change \in fds)
      BY <2>3 DEF OpenInv, FilesShape
    <2>6. f.pc = "off"
      <3>1. Len(list) \in Nat /\ Len(list) >= 1
        BY <1>1, EmptySeq DEF OpenInv, ListShape
      <3>2. 1 \in 1..Len(list)
        BY <3>1
      <3> QED BY <2>3, <3>2 DEF OpenInv, ListShape, change
    <2>7. IsFile(g) /\ Life(g, change \in fds')
      BY <2>5, <2>6 DEF IsFile, Life, Pcs
    <2> HIDE DEF g
    <2>8. /\ FilesShape' /\ DOMAIN files' = DOMAIN sc.source
          /\ \A q \in DOMAIN sc.source : q # change => files'[q] = files[q]
      BY <2>3, <2>4, <2>7, FilesStep DEF OpenInv
    <2>9. ListShape'
      BY <1>1, <2>8, TailKept DEF OpenInv
    <2>10. LoopShape'
      <3>1. ASSUME loop.at \in {"chmod", "reopen"} PROVE loop.path \in DOMAIN sc.source /\ Piped(loop.path)'
        <4>1. loop.path \in DOMAIN sc.source /\ Piped(loop.path)
          BY <3>1 DEF OpenInv, LoopShape
        <4>2. loop.path # change
          BY <2>6, <4>1 DEF Piped
        <4>3. files'[loop.path] = files[loop.path]
          BY <2>8, <4>1, <4>2
        <4> QED BY <4>1, <4>3 DEF Piped
      <3> QED BY <3>1 DEF OpenInv, LoopShape
    <2>11. FateShape'
      BY <1>1, HandlingFate DEF OpenInv
    <2> QED BY <2>8, <2>9, <2>10, <2>11 DEF OpenInv
  <1> QED BY <1>2, <1>3

LEMMA MetaOpen ==
    ASSUME OpenInv, Meta
    PROVE  OpenInv'
  <1>1. CASE rename
    <2>1. Handling /\ AsyncFixed /\ UNCHANGED <<sc, list, fate, ctxDone>>
      BY <1>1 DEF Meta, AsyncFixed
    <2> QED BY <2>1, DiffOnly DEF OpenInv, FateShape, Handling
  <1>2. CASE ~rename
    <2>1. Handling /\ HandOver /\ UNCHANGED <<sc, loop, fate, ctxDone, fds>>
      BY <1>2 DEF Meta
    <2> QED BY <2>1, HandOverOpen
  <1> QED BY <1>1, <1>2

LEMMA SwapOpen ==
    ASSUME OpenInv, Swap
    PROVE  OpenInv'
  <1>1. CASE Differs
    <2>1. Handling /\ AsyncFixed /\ UNCHANGED <<sc, list, fate, ctxDone>>
      BY <1>1 DEF Swap, AsyncFixed
    <2> QED BY <2>1, DiffOnly DEF OpenInv, FateShape, Handling
  <1>2. CASE ~Differs
    <2>1. Handling /\ HandOver /\ UNCHANGED <<sc, loop, fate, ctxDone, fds>>
      BY <1>2 DEF Swap
    <2> QED BY <2>1, HandOverOpen
  <1> QED BY <1>1, <1>2

LEMMA CallFailsOpen ==
    ASSUME OpenInv, CallFails
    PROVE  OpenInv'
  <1>1. Handling /\ AsyncFixed /\ UNCHANGED sc /\ fate' = "failed" /\ ctxDone' = TRUE /\ list' = list
    BY DEF CallFails, Fail
  <1> QED BY <1>1, DiffOnly

LEMMA OtherMkdirOpen ==
    ASSUME OpenInv, OtherMkdir
    PROVE  OpenInv'
  <1>1. Handling /\ AsyncFixed /\ UNCHANGED <<sc, list, fate, ctxDone>>
    BY DEF OtherMkdir, DiffFixed
  <1> QED BY <1>1, DiffOnly DEF OpenInv, FateShape, Handling

(* Wait, and the caller.                                                   *)
LEMMA WaitStartsOpen ==
    ASSUME OpenInv, WaitStarts
    PROVE  OpenInv'
  <1>1. UNCHANGED <<sc, files, fds, loop, list, ctxDone>> /\ list = <<>> /\ fate' = "wait"
    BY DEF WaitStarts, AsyncFixed
  <1>2. FilesShape' /\ ListShape' /\ LoopShape'
    BY <1>1, FilesStay, ListKept DEF OpenInv, LoopShape, Piped
  <1>3. FateShape'
    BY <1>1 DEF OpenInv, FateShape
  <1> QED BY <1>1, <1>2, <1>3 DEF OpenInv

LEMMA WaitOpen ==
    ASSUME OpenInv, Wait
    PROVE  OpenInv'
  <1>1. /\ UNCHANGED <<sc, files, fds, loop, list>> /\ fate = "wait" /\ list = <<>> /\ held' = {}
        /\ DOMAIN files = DOMAIN sc.source /\ \A p \in DOMAIN sc.source : Over(p)
    BY DEF Wait, AsyncFixed, Fail, OpenInv, FateShape, FilesShape
  <1>2. FilesShape' /\ ListShape' /\ LoopShape'
    BY <1>1, FilesStay, ListKept DEF OpenInv, LoopShape, Piped
  <1>3. FateShape'
    <2>1. \A p \in DOMAIN sc.source : Over(p)'
      BY <1>1 DEF Over
    <2>2. CASE \E p \in DOMAIN files : files[p].pc = "failed"
      <3>1. fate' = "failed" /\ ctxDone' = TRUE
        BY <2>2 DEF Wait, Fail
      <3> QED BY <1>1, <2>1, <3>1 DEF FateShape
    <2>3. CASE ~\E p \in DOMAIN files : files[p].pc = "failed"
      <3>1. fate' = "ok" /\ ctxDone' = ctxDone
        BY <2>3 DEF Wait
      <3> QED BY <1>1, <2>1, <2>3, <3>1 DEF OpenInv, FateShape
    <2> QED BY <2>2, <2>3
  <1> QED BY <1>1, <1>2, <1>3 DEF OpenInv

LEMMA CancelOpen ==
    ASSUME OpenInv, Cancel
    PROVE  OpenInv'
  <1>1. UNCHANGED <<sc, files, fds, loop, list, fate, held>> /\ ctxDone' = TRUE
    BY DEF Cancel, AsyncFixed, DiffFixed
  <1>2. LoopShape'
    BY <1>1 DEF OpenInv, LoopShape, Piped
  <1> QED BY <1>1, <1>2, LoopOnly

LEMMA NextAttemptOpen ==
    ASSUME OpenInv, NextAttempt
    PROVE  OpenInv'
  <1>1. /\ UNCHANGED sc /\ sc \in Scenarios /\ list' = Difference /\ fds' = {} /\ loop' = Idle
        /\ files' = [p \in DOMAIN sc.source |-> NoFile]
    BY DEF NextAttempt, OpenInv, FilesShape
  <1>2. FilesShape'
    BY <1>1 DEF FilesShape, IsFile, Life, NoFile, Pcs
  <1>3. ListShape'
    <2>1. \A p \in DOMAIN sc.source : files'[p].pc = "off"
      BY <1>1 DEF NoFile
    <2>2. Names' = Names
      BY <1>1 DEF Names, Paths, Temp
    <2> QED BY <1>1, <2>1, <2>2, DifferenceFacts DEF ListShape
  <1>4. LoopShape'
    BY <1>1 DEF LoopShape, Idle
  <1>5. FateShape'
    BY DEF NextAttempt, FateShape
  <1> QED BY <1>1, <1>2, <1>3, <1>4, <1>5 DEF OpenInv

-----------------------------------------------------------------------------
(* The goroutine of a file.                                                *)
LEMMA AsyncOpen ==
    ASSUME OpenInv, NEW p \in DOMAIN files,
           AsyncStarts(p) \/ AsyncHasContent(p) \/ AsyncGivesUp(p) \/ AsyncSetsTimes(p) \/ AsyncFails(p)
    PROVE  OpenInv'
  <1> DEFINE f == files[p]
             g(l) == [pc |-> l, f |-> f.f, saved |-> f.saved, closed |-> f.closed, done |-> f.done]
  <1>1. p \in DOMAIN sc.source /\ IsFile(f) /\ Life(f, p \in fds)
    BY DEF OpenInv, FilesShape
  <1>2. UNCHANGED <<sc, list, loop, fate, ctxDone>>
    BY DEF AsyncStarts, AsyncHasContent, AsyncGivesUp, AsyncSetsTimes, AsyncFails, AsyncStays
  <1>3. \A l : files' = Goto(p, l) => Only(p, g(l))
    BY <1>1, GotoIs DEF OpenInv
  <1>4. \A l \in Pcs : IsFile(g(l))
    BY <1>1 DEF IsFile
  <1>5. \A l : g(l).pc = l /\ g(l).done = f.done
    OBVIOUS
  <1>6. CASE AsyncStarts(p)
    <2>1. Only(p, g("wait")) /\ f.pc = "start" /\ fds' = fds
      BY <1>3, <1>6 DEF AsyncStarts
    <2>2. Life(g("wait"), p \in fds')
      BY <1>1, <2>1 DEF Life
    <2>3. IsFile(g("wait"))
      BY <1>4 DEF Pcs
    <2> HIDE DEF g, f
    <2> QED BY <1>1, <1>2, <1>5, <2>1, <2>2, <2>3, MovesOn DEF f
  <1>7. CASE AsyncHasContent(p)
    <2>1. Only(p, g("times")) /\ f.pc = "wait" /\ f.done /\ fds' = fds
      BY <1>3, <1>7 DEF AsyncHasContent
    <2>2. Life(g("times"), p \in fds')
      BY <1>1, <2>1 DEF Life
    <2>3. IsFile(g("times"))
      BY <1>4 DEF Pcs
    <2> HIDE DEF g, f
    <2> QED BY <1>1, <1>2, <1>5, <2>1, <2>2, <2>3, MovesOn DEF f
  <1>8. CASE AsyncGivesUp(p)
    <2>1. f.pc = "wait"
      BY <1>8 DEF AsyncGivesUp
    <2>2. CASE sc.rooted /\ ~f.closed
      <3> DEFINE c == [pc |-> "failed", f |-> IF f.f = "open" THEN "closed" ELSE f.f,
                       saved |-> f.saved, closed |-> TRUE, done |-> f.done]
      <3>1. files' = [files EXCEPT ![p] = Closed(p, [files[p] EXCEPT !.pc = "failed"])] /\ fds' = fds \ {p}
        BY <1>8, <2>2 DEF AsyncGivesUp
      <3>2. [files[p] EXCEPT !.pc = "failed"] = g("failed")
        BY <1>1, FieldUpdates
      <3>3. IsFile(g("failed"))
        BY <1>4 DEF Pcs
      <3>4. Closed(p, g("failed")) = c
        <4> DEFINE h == g("failed")
        <4>1. h.pc = "failed" /\ h.f = f.f /\ h.saved = f.saved /\ h.done = f.done
          OBVIOUS
        <4> HIDE DEF h
        <4>2. Closed(p, h) = [pc |-> h.pc, f |-> IF h.f = "open" THEN "closed" ELSE h.f,
                              saved |-> h.saved, closed |-> TRUE, done |-> h.done]
          BY <3>3, ClosedIs DEF h
        <4> QED BY <4>1, <4>2 DEF h
      <3> HIDE DEF c
      <3>5. files = [q \in DOMAIN sc.source |-> files[q]]
        BY DEF OpenInv, FilesShape
      <3>6. files' = [files EXCEPT ![p] = c]
        BY <3>1, <3>2, <3>4
      <3>7. Only(p, c)
        BY <3>5, <3>6 DEF Only
      <3>8. IsFile(c) /\ Life(c, p \in fds') /\ c.pc = "failed" /\ c.done = f.done
        BY <1>1, <2>1, <3>1 DEF c, IsFile, Life, Pcs
      <3> HIDE DEF f
      <3> QED BY <1>1, <1>2, <2>1, <3>1, <3>7, <3>8, MovesOn DEF f
    <2>3. CASE ~(sc.rooted /\ ~f.closed)
      <3>1. Only(p, g("failed")) /\ fds' = fds
        BY <1>3, <1>8, <2>3 DEF AsyncGivesUp
      <3>2. Life(g("failed"), p \in fds')
        BY <1>1, <2>1, <2>3, <3>1 DEF Life
      <3>3. IsFile(g("failed"))
        BY <1>4 DEF Pcs
      <3> HIDE DEF g, f
      <3> QED BY <1>1, <1>2, <1>5, <2>1, <3>1, <3>2, <3>3, MovesOn DEF f
    <2> QED BY <2>2, <2>3
  <1>9. CASE AsyncSetsTimes(p)
    <2>1. Only(p, g("done")) /\ f.pc = "times" /\ fds' = fds
      BY <1>3, <1>9 DEF AsyncSetsTimes
    <2>2. Life(g("done"), p \in fds')
      BY <1>1, <2>1 DEF Life
    <2>3. IsFile(g("done"))
      BY <1>4 DEF Pcs
    <2> HIDE DEF g, f
    <2> QED BY <1>1, <1>2, <1>5, <2>1, <2>2, <2>3, MovesOn DEF f
  <1>10. CASE AsyncFails(p)
    <2>1. Only(p, g("failed")) /\ f.pc = "times" /\ fds' = fds
      BY <1>3, <1>10 DEF AsyncFails
    <2>2. Life(g("failed"), p \in fds')
      BY <1>1, <2>1 DEF Life
    <2>3. IsFile(g("failed"))
      BY <1>4 DEF Pcs
    <2> HIDE DEF g, f
    <2> QED BY <1>1, <1>2, <1>5, <2>1, <2>2, <2>3, MovesOn DEF f
  <1> QED BY <1>6, <1>7, <1>8, <1>9, <1>10

-----------------------------------------------------------------------------
(* The receive loop.                                                       *)
LEMMA OpensOpen ==
    ASSUME OpenInv, NEW p \in DOMAIN sc.source, Piped(p), Opens(p), UNCHANGED <<sc, list, fate, held>>
    PROVE  OpenInv'
  <1> DEFINE f == files[p]
             g == [pc |-> f.pc, f |-> "open", saved |-> f.saved, closed |-> f.closed, done |-> f.done]
  <1>1. IsFile(f) /\ Life(f, p \in fds) /\ f.pc \in {"wait", "failed"} /\ ~f.done
    BY DEF OpenInv, FilesShape, Piped
  <1>2. files' = [files EXCEPT ![p] = [files[p] EXCEPT !.f = "open"]] /\ fds' = fds \cup {p}
    BY DEF Opens
  <1>3. [files[p] EXCEPT !.f = "open"] = g
    BY <1>1, FieldUpdates
  <1>4. files = [q \in DOMAIN sc.source |-> files[q]]
    BY DEF OpenInv, FilesShape
  <1>5. IsFile(g) /\ Life(g, p \in fds') /\ g.pc = f.pc
    BY <1>1 DEF IsFile, Life
  <1> HIDE DEF g
  <1>6. Only(p, g)
    BY <1>2, <1>3, <1>4 DEF Only
  <1>7. LoopShape'
    BY DEF Opens, Idle, LoopShape
  <1> QED BY <1>2, <1>5, <1>6, <1>7, LoopMoves DEF Opens

LEMMA LoopFailsOpen ==
    ASSUME OpenInv, LoopFails, UNCHANGED <<sc, list, fate, held>>
    PROVE  OpenInv'
  <1>1. LoopShape'
    BY DEF LoopFails, LoopShape
  <1> QED BY <1>1, LoopOnly DEF LoopFails

LEMMA LoopWritesOpen ==
    ASSUME OpenInv, NEW p \in DOMAIN files, LoopWrites(p)
    PROVE  OpenInv'
  <1>1. p \in DOMAIN sc.source /\ Piped(p) /\ UNCHANGED <<sc, list, fate, held>>
    BY DEF LoopWrites, LoopStays, OpenInv, FilesShape
  <1>2. CASE Opens(p)
    BY <1>1, <1>2, OpensOpen
  <1>3. CASE LoopFails
    BY <1>1, <1>3, LoopFailsOpen
  <1>4. CASE loop' = [at |-> "chmod", path |-> p] /\ UNCHANGED <<files, fds, ctxDone>>
    <2>1. LoopShape'
      BY <1>1, <1>4 DEF LoopShape, Piped
    <2> QED BY <1>1, <1>4, <2>1, LoopOnly
  <1>5. CASE UNCHANGED <<files, loop, fds, ctxDone>>
    <2>1. LoopShape'
      BY <1>1, <1>5 DEF OpenInv, LoopShape, Piped
    <2> QED BY <1>1, <1>5, <2>1, LoopOnly
  <1> QED BY <1>2, <1>3, <1>4, <1>5 DEF LoopWrites

LEMMA LoopWidensOpen ==
    ASSUME OpenInv, LoopWidens
    PROVE  OpenInv'
  <1> DEFINE p == loop.path
             f == files[p]
             v == At(p).mode
             g == [pc |-> f.pc, f |-> f.f, saved |-> v, closed |-> f.closed, done |-> f.done]
  <1>1. p \in DOMAIN sc.source /\ Piped(p) /\ UNCHANGED <<sc, list, fate, held, fds, ctxDone>>
    BY DEF LoopWidens, LoopStays, OpenInv, LoopShape
  <1>2. IsFile(f) /\ Life(f, p \in fds)
    BY <1>1 DEF OpenInv, FilesShape
  <1> HIDE DEF v
  <1>3. files' = [files EXCEPT ![p] = [files[p] EXCEPT !.saved = v]]
    BY DEF LoopWidens, v
  <1>4. [files[p] EXCEPT !.saved = v] = g
    BY <1>2, FieldUpdates
  <1>5. files = [q \in DOMAIN sc.source |-> files[q]]
    BY DEF OpenInv, FilesShape
  <1>6. IsFile(g) /\ Life(g, p \in fds') /\ g.pc = f.pc /\ g.done = f.done
    BY <1>1, <1>2 DEF IsFile, Life
  <1> HIDE DEF g
  <1>7. Only(p, g)
    BY <1>3, <1>4, <1>5 DEF Only
  <1>8. LoopShape'
    <2>1. loop' = [loop EXCEPT !.at = "reopen"] /\ loop = [at |-> loop.at, path |-> loop.path]
      BY DEF LoopWidens, OpenInv, LoopShape
    <2>2. loop' = [at |-> "reopen", path |-> p]
      BY <2>1
    <2>3. files'[p] = g
      BY <1>1, <1>7 DEF Only
    <2>4. files'[p].pc \in {"wait", "failed"} /\ ~files'[p].done
      BY <1>1, <1>6, <2>3 DEF Piped
    <2> QED BY <1>1, <2>2, <2>4 DEF LoopShape, Piped
  <1> HIDE DEF p
  <1> QED BY <1>1, <1>6, <1>7, <1>8, LoopMoves

LEMMA LoopReopensOpen ==
    ASSUME OpenInv, LoopReopens
    PROVE  OpenInv'
  <1>1. loop.path \in DOMAIN sc.source /\ Piped(loop.path) /\ UNCHANGED <<sc, list, fate, held>>
    BY DEF LoopReopens, LoopStays, OpenInv, LoopShape
  <1>2. CASE LoopFails
    BY <1>1, <1>2, LoopFailsOpen
  <1>3. CASE Opens(loop.path)
    BY <1>1, <1>3, OpensOpen
  <1> QED BY <1>2, <1>3 DEF LoopReopens

LEMMA LoopClosesOpen ==
    ASSUME OpenInv, NEW p \in DOMAIN files, LoopCloses(p)
    PROVE  OpenInv'
  <1> DEFINE f == files[p]
             e == IF f.f = "open" THEN "closed" ELSE f.f
             c == [pc |-> f.pc, f |-> e, saved |-> f.saved, closed |-> TRUE, done |-> f.done]
             g == [pc |-> f.pc, f |-> e, saved |-> f.saved, closed |-> TRUE, done |-> TRUE]
  <1>1. /\ p \in DOMAIN sc.source /\ IsFile(f) /\ Life(f, p \in fds)
        /\ f.pc \in {"wait", "failed"} /\ ~f.done /\ loop = Idle
        /\ UNCHANGED <<sc, list, fate, held, ctxDone, loop>>
    BY DEF LoopCloses, LoopStays, Piped, OpenInv, FilesShape
  <1>2. files' = [files EXCEPT ![p] = [Closed(p, files[p]) EXCEPT !.done = TRUE]]
    BY DEF LoopCloses
  <1>3. Closed(p, f) = c /\ IsFile(c)
    BY <1>1, ClosedIs DEF IsFile
  <1>4. [Closed(p, files[p]) EXCEPT !.done = TRUE] = g
    <2>1. [c EXCEPT !.done = TRUE] = [pc |-> c.pc, f |-> c.f, saved |-> c.saved, closed |-> c.closed, done |-> TRUE]
      <3> HIDE DEF c
      <3> QED BY <1>3, FieldUpdates
    <2>2. c.pc = f.pc /\ c.f = e /\ c.saved = f.saved /\ c.closed = TRUE
      BY DEF c
    <2> HIDE DEF c, e
    <2> QED BY <1>3, <2>1, <2>2
  <1>5. files = [q \in DOMAIN sc.source |-> files[q]]
    BY DEF OpenInv, FilesShape
  <1>6. fds' \in {fds, fds \ {p}} /\ (~f.closed => p \notin fds')
    BY DEF LoopCloses
  <1>7. IsFile(g) /\ Life(g, p \in fds') /\ g.pc = f.pc
    BY <1>1, <1>6 DEF IsFile, Life
  <1> HIDE DEF g
  <1>8. Only(p, g)
    BY <1>2, <1>4, <1>5 DEF Only
  <1>9. LoopShape'
    BY <1>1 DEF LoopShape, Idle
  <1> QED BY <1>1, <1>6, <1>7, <1>8, <1>9, LoopMoves

LEMMA LoopEndsOpen ==
    ASSUME OpenInv, LoopEnds
    PROVE  OpenInv'
  <1>1. UNCHANGED <<sc, files, fds, list, fate, held, ctxDone>> /\ LoopShape'
    BY DEF LoopEnds, LoopStays, LoopShape
  <1> QED BY <1>1, LoopOnly

-----------------------------------------------------------------------------
LEMMA StepOpen == OpenInv /\ [Next]_vars => OpenInv'
  <1> SUFFICES ASSUME OpenInv, [Next]_vars PROVE OpenInv'
    OBVIOUS
  <1>1. CASE Diff
    BY <1>1, StartChangeOpen, MakeOpen, MetaOpen, SwapOpen, WaitStartsOpen, WaitOpen DEF Diff
  <1>2. CASE Async
    BY <1>2, AsyncOpen DEF Async
  <1>3. CASE Loop
    BY <1>3, LoopWritesOpen, LoopClosesOpen, LoopWidensOpen, LoopReopensOpen, LoopEndsOpen DEF Loop
  <1>4. CASE CallFails
    BY <1>4, CallFailsOpen
  <1>5. CASE \E p \in DOMAIN files : AsyncFails(p)
    BY <1>5, AsyncOpen
  <1>6. CASE Cancel
    BY <1>6, CancelOpen
  <1>7. CASE NextAttempt
    BY <1>7, NextAttemptOpen
  <1>8. CASE OtherMkdir
    BY <1>8, OtherMkdirOpen
  <1>9. CASE UNCHANGED vars
    <2>1. UNCHANGED <<sc, files, fds, list, fate, held, ctxDone, loop>>
      BY <1>9 DEF vars
    <2>2. LoopShape'
      BY <2>1 DEF OpenInv, LoopShape, Piped
    <2> QED BY <2>1, <2>2, LoopOnly
  <1> QED BY <1>1, <1>2, <1>3, <1>4, <1>5, <1>6, <1>7, <1>8, <1>9 DEF Next

-----------------------------------------------------------------------------
(* The name space.  What an entry is a name of, and the entries that were  *)
(* there before as what they become.                                       *)
Inodes  == Names \X (0..3)
Home(q) == IF IsLink(q) THEN Src(q).link ELSE q
Listed(p) == \E i \in 1..Len(list) : list[i].path = p
Lasting ==
    {p \in DOMAIN sc.source \cap DOMAIN sc.before :
       (sc.before[p].node.kind = "dir") = (Src(p).kind = "dir")}

IsNode(i) == i = [kind |-> i.kind, ver |-> i.ver, n |-> i.n, mode |-> i.mode, mtime |-> i.mtime]
AreNodes(nodes) == nodes = [i \in Inodes |-> nodes[i]] /\ \A i \in Inodes : IsNode(nodes[i])
NodesShape == attempt \in {1, 2} /\ AreNodes(inode) /\ disk = [x \in Names |-> disk[x]]

(* An inode made by a transfer or by somebody else is that of one entry,   *)
(* under its name, its temporary name, or that of a link to it; and that   *)
(* of an entry still to be announced is not there yet.                     *)
NameOf(x, q) == x = q \/ x = Temp(q, 1) \/ x = Temp(q, 2)
Owned(x, i) ==
    /\ i \in Inodes /\ (i[2] <= attempt \/ i[2] = 3)
    /\ i[2] # 0 => \E q \in DOMAIN sc.source : NameOf(x, q) /\ i[1] = Home(q)
Owners == \A x \in Names : Present(x) => Owned(x, disk[x])
Unmade ==
    \A x \in Names, i \in 1..Len(list) :
      disk[x] = <<list[i].path, attempt>> => i = 1 /\ step \in {"meta", "swap"} /\ x = newPath

(* What is in a directory has it.                                          *)
Tree == \A x, y \in Names : Present(x) /\ IsStrictPrefix(y, x) => IsDirAt(y)

(* An entry of the source is there as a directory or not, from before or   *)
(* once it was handled.                                                    *)
InSort(x, p) == Present(x) /\ (IsDirAt(x) <=> Src(p).kind = "dir") /\ At(x).mode # "fresh"
Settled(p) == p \in Lasting \/ (p \notin sc.filtered /\ ~Listed(p))
Placed == \A p \in DOMAIN sc.source : Settled(p) => InSort(p, p)

(* The change in hand.                                                     *)
ListKinds ==
    \A i \in 1..Len(list) : list[i].kind = "delete" <=> list[i].path \notin DOMAIN sc.source
ChangeShape ==
    /\ step \in {"next", "make", "meta", "swap"} /\ rename \in BOOLEAN
    /\ ListKinds
    /\ step # "next" => list # <<>> /\ change \in DOMAIN sc.source /\ change \notin sc.filtered
                        /\ (~rename => change \notin Lasting)
    /\ step = "make" /\ ~rename => (Present(change) => Src(change).kind = "dir")
    /\ step = "swap" => rename /\ At(newPath).mode # "fresh"
    /\ step \in {"meta", "swap"} =>
         /\ Present(newPath) /\ (IsDirAt(newPath) <=> Src(change).kind = "dir")
         /\ disk[newPath] = IF IsLink(change) THEN disk[Src(change).link] ELSE <<change, attempt>>

DiskInv == NodesShape /\ Owners /\ Unmade /\ Tree /\ Placed /\ ChangeShape

(* The files that receive content.                                         *)
Landed ==
    \A p \in DOMAIN sc.source : files[p].pc # "off" =>
      ~sc.sync /\ Src(p).kind = "file" /\ ~IsLink(p) /\ p \notin sc.filtered /\ disk[p] = <<p, attempt>>
ClosedOnce ==
    \A p \in DOMAIN sc.source : (files[p].f = "closed" => files[p].closed) /\ files[p].saved # "fresh"
Widened ==
    loop.at = "reopen" =>
      At(loop.path).mode = "wide" \/ blame # {} \/ \E q \in DOMAIN sc.source : Src(q).link = loop.path
Blamed == ctxDone \/ (\E p \in DOMAIN sc.source : files[p].pc = "failed") => blame # {}

FileInv == Landed /\ ClosedOnce /\ Widened /\ Blamed

(* With SyncDataCb a file is made with its content.                        *)
Whole ==
    sc.sync => \A x \in Names : Present(x) /\ disk[x][2] # 0 /\ disk[x][1] \in DOMAIN sc.source =>
                 At(x).n = Src(disk[x][1]).n

NameInv == OpenInv /\ DiskInv /\ FileInv /\ Whole

-----------------------------------------------------------------------------
(* The source.                                                             *)
LEMMA SourceIs ==
    ASSUME sc \in Scenarios, NEW p \in DOMAIN sc.source
    PROVE  /\ p \in Paths /\ p \in Names /\ p \in Seq(Nat) /\ p # <<>> /\ Src(p).mode # "fresh"
           /\ Src(p).kind = "dir" => Src(p).n = 0 /\ p \notin sc.filtered /\ ~IsLink(p)
           /\ IsLink(p) => /\ Src(p).link \in DOMAIN sc.source /\ Before(Src(p).link, p)
                           /\ ~IsLink(Src(p).link) /\ Src(Src(p).link).n = Src(p).n
                           /\ Src(Src(p).link).kind = "file" /\ Src(p).kind = "file"
           /\ Home(p) \in DOMAIN sc.source /\ Src(Home(p)).n = Src(p).n /\ Home(Home(p)) = Home(p)
  <1>1. p \in Paths /\ p \in Names /\ p \in Seq(Nat) /\ p # <<>>
    BY NameTypes, PathTypes DEF Paths
  <1> DEFINE source == sc.source
  <1>2. /\ source[p].mode # "fresh"
        /\ source[p].kind = "dir" => source[p].n = 0 /\ p \notin sc.filtered
        /\ source[p].link # <<>> =>
             /\ source[p].link \in DOMAIN source /\ Before(source[p].link, p)
             /\ source[source[p].link].link = <<>> /\ source[source[p].link].n = source[p].n
             /\ source[source[p].link].kind = "file" /\ source[p].kind = "file"
    <2>1. source[p].mode # "fresh" /\ (source[p].kind = "dir" => source[p].n = 0 /\ p \notin sc.filtered)
      BY WriterAssumption
    <2>2. source[p].link # <<>> =>
             /\ source[p].link \in DOMAIN source /\ Before(source[p].link, p)
             /\ source[source[p].link].link = <<>> /\ source[source[p].link].n = source[p].n
             /\ source[source[p].link].kind = "file" /\ source[p].kind = "file"
      BY WriterAssumption
    <2> QED BY <2>1, <2>2
  <1>3. /\ Src(p).mode # "fresh"
        /\ Src(p).kind = "dir" => Src(p).n = 0 /\ p \notin sc.filtered /\ ~IsLink(p)
        /\ IsLink(p) => /\ Src(p).link \in DOMAIN sc.source /\ Before(Src(p).link, p)
                        /\ ~IsLink(Src(p).link) /\ Src(Src(p).link).n = Src(p).n
                        /\ Src(Src(p).link).kind = "file" /\ Src(p).kind = "file"
    BY <1>2 DEF Src, IsLink
  <1> QED BY <1>1, <1>3 DEF Home

LEMMA SourceTree ==
    ASSUME sc \in Scenarios, NEW p \in DOMAIN sc.source, NEW q \in Names, IsStrictPrefix(q, p)
    PROVE  q \in DOMAIN sc.source /\ Src(q).kind = "dir" /\ q \notin sc.filtered /\ Before(q, p)
  <1>1. q \in Paths
    <2>1. p \in Names
      BY SourceIs
    <2>2. ASSUME NEW r \in Paths, NEW k \in {1, 2}, q = Temp(r, k) PROVE FALSE
      BY <2>1, <2>2, TempFacts
    <2> QED BY <2>2 DEF Names
  <1>2. q \in DOMAIN sc.source /\ sc.source[q].kind = "dir"
    <2>1. IsTree(DOMAIN sc.source, {r \in DOMAIN sc.source : sc.source[r].kind = "dir"}, Paths)
      BY WriterAssumption DEF Paths
    <2> QED BY <1>1, <2>1 DEF IsTree
  <1> QED BY <1>2, SourceIs DEF Src, Before

(* Only its own name is that of an entry of the source.                    *)
LEMMA SourceName ==
    ASSUME sc \in Scenarios, NEW p \in DOMAIN sc.source, NEW q \in DOMAIN sc.source, NameOf(p, q)
    PROVE  p = q
  BY SourceIs, TempFacts DEF NameOf

LEMMA SourceOwned ==
    ASSUME sc \in Scenarios, NEW p \in DOMAIN sc.source, NEW i, Owned(p, i), i[2] # 0
    PROVE  i[1] = Home(p)
  BY SourceName DEF Owned

LEMMA Static ==
    ASSUME UNCHANGED sc
    PROVE  /\ Paths' = Paths /\ Names' = Names /\ Inodes' = Inodes /\ Lasting' = Lasting
           /\ \A p : Src(p)' = Src(p) /\ (IsLink(p)' <=> IsLink(p)) /\ Home(p)' = Home(p)
           /\ \A nodes : AreNodes(nodes)' <=> AreNodes(nodes)
  <1>1. /\ Paths' = Paths /\ Names' = Names
        /\ \A p : Src(p)' = Src(p) /\ (IsLink(p)' <=> IsLink(p)) /\ Home(p)' = Home(p)
    BY DEF Paths, Names, Temp, Src, IsLink, Home
  <1>2. Inodes' = Inodes /\ Lasting' = Lasting
    BY <1>1 DEF Inodes, Lasting
  <1> QED BY <1>1, <1>2 DEF AreNodes, IsNode

(* The change in hand is the first of the list.                            *)
LEMMA FirstListed ==
    ASSUME sc \in Scenarios, ListShape, list # <<>>
    PROVE  /\ Len(list) \in Nat /\ 1 \in 1..Len(list) /\ Listed(change)
           /\ change \in Names /\ change \in Seq(Nat)
           /\ \A i \in 1..Len(list) : list[i].path = change => i = 1
           /\ \A p \in Seq(Nat) : Before(p, change) => ~Listed(p)
  <1> DEFINE C == [path : Names, kind : {"add", "modify", "delete"}]
  <1>1. /\ Len(list) \in Nat /\ 1 \in 1..Len(list) /\ \A i \in 1..Len(list) : list[i] \in C
        /\ \A i, j \in 1..Len(list) : i < j => Before(list[i].path, list[j].path)
    <2>1. list \in Seq(C) /\ \A i, j \in 1..Len(list) : i < j => Before(list[i].path, list[j].path)
      BY DEF ListShape
    <2> HIDE DEF C
    <2>2. Len(list) \in Nat /\ 1 \in 1..Len(list)
      BY <2>1, TailFacts
    <2> QED BY <2>1, <2>2, ElementOfSeq
  <1>2. \A i \in 1..Len(list) : list[i].path \in Names /\ list[i].path \in Seq(Nat)
    BY <1>1, NameTypes
  <1>3. ASSUME NEW i \in 1..Len(list), i # 1 PROVE Before(change, list[i].path)
    BY <1>1, <1>3 DEF change
  <1>4. ASSUME NEW i \in 1..Len(list), list[i].path = change PROVE i = 1
    BY <1>2, <1>3, <1>4, BeforeIrreflexive
  <1>5. ASSUME NEW p \in Seq(Nat), Before(p, change), Listed(p) PROVE FALSE
    <2>1. PICK i \in 1..Len(list) : list[i].path = p
      BY <1>5 DEF Listed
    <2>2. change \in Seq(Nat)
      BY <1>1, <1>2 DEF change
    <2>3. CASE i = 1
      BY <1>5, <2>1, <2>2, <2>3, BeforeIrreflexive DEF change
    <2>4. CASE i # 1
      BY <1>3, <1>5, <2>1, <2>2, <2>4, BeforeTransitive, BeforeIrreflexive
    <2> QED BY <2>3, <2>4
  <1> QED BY <1>1, <1>2, <1>4, <1>5 DEF Listed, change

(* newPath, and the target of a link.                                      *)
LEMMA NewPathIs ==
    ASSUME sc \in Scenarios, ListShape, list # <<>>, change \in DOMAIN sc.source, attempt \in {1, 2}, rename \in BOOLEAN
    PROVE  /\ newPath \in Names /\ NameOf(newPath, change)
           /\ newPath = change \/ (rename /\ newPath \notin DOMAIN sc.source)
           /\ rename => newPath \notin Paths /\ ~IsPrefix(change, newPath) /\ \A x \in Names : ~IsStrictPrefix(newPath, x)
           /\ \A y \in Names : IsStrictPrefix(y, newPath) <=> IsStrictPrefix(y, change)
  <1>1. change \in Paths /\ change \in Names
    BY SourceIs
  <1>2. CASE ~rename
    BY <1>1, <1>2 DEF newPath, NameOf
  <1>3. CASE rename
    <2>1. newPath = Temp(change, attempt)
      BY <1>3 DEF newPath
    <2> QED BY <1>1, <1>3, <2>1, TempFacts, NameTypes DEF NameOf, Paths
  <1> QED BY <1>2, <1>3

-----------------------------------------------------------------------------
(* What the calls do to the inodes.                                        *)
Same(m, n) == m.kind = n.kind /\ m.ver = n.ver /\ m.n = n.n /\ m.mode = n.mode

LEMMA TimeUpdate ==
    ASSUME NEW g, IsNode(g), NEW v
    PROVE  IsNode([g EXCEPT !.mtime = v]) /\ Same([g EXCEPT !.mtime = v], g) /\ [g EXCEPT !.mtime = v].mtime = v
  <1> DEFINE h == [kind |-> g.kind, ver |-> g.ver, n |-> g.n, mode |-> g.mode, mtime |-> g.mtime]
  <1>1. g = h
    BY DEF IsNode
  <1>2. [h EXCEPT !.mtime = v] = [kind |-> g.kind, ver |-> g.ver, n |-> g.n, mode |-> g.mode, mtime |-> v]
    OBVIOUS
  <1> HIDE DEF h
  <1>3. [g EXCEPT !.mtime = v] = [kind |-> g.kind, ver |-> g.ver, n |-> g.n, mode |-> g.mode, mtime |-> v]
    BY <1>1, <1>2
  <1> QED BY <1>3 DEF IsNode, Same

LEMMA ModeUpdate ==
    ASSUME NEW g, IsNode(g), NEW v
    PROVE  /\ IsNode([g EXCEPT !.mode = v]) /\ [g EXCEPT !.mode = v].mode = v
           /\ [g EXCEPT !.mode = v].kind = g.kind /\ [g EXCEPT !.mode = v].n = g.n
           /\ [g EXCEPT !.mode = v].ver = g.ver /\ [g EXCEPT !.mode = v].mtime = g.mtime
  <1> DEFINE h == [kind |-> g.kind, ver |-> g.ver, n |-> g.n, mode |-> g.mode, mtime |-> g.mtime]
  <1>1. g = h
    BY DEF IsNode
  <1>2. [h EXCEPT !.mode = v] = [kind |-> g.kind, ver |-> g.ver, n |-> g.n, mode |-> v, mtime |-> g.mtime]
    OBVIOUS
  <1> HIDE DEF h
  <1>3. [g EXCEPT !.mode = v] = [kind |-> g.kind, ver |-> g.ver, n |-> g.n, mode |-> v, mtime |-> g.mtime]
    BY <1>1, <1>2
  <1> QED BY <1>3 DEF IsNode, Same

LEMMA CountUpdate ==
    ASSUME NEW g, IsNode(g), NEW v
    PROVE  /\ IsNode([g EXCEPT !.n = v])
           /\ [g EXCEPT !.n = v].kind = g.kind /\ [g EXCEPT !.n = v].mode = g.mode /\ [g EXCEPT !.n = v].ver = g.ver
  <1> DEFINE h == [kind |-> g.kind, ver |-> g.ver, n |-> g.n, mode |-> g.mode, mtime |-> g.mtime]
  <1>1. g = h
    BY DEF IsNode
  <1>2. [h EXCEPT !.n = v] = [kind |-> g.kind, ver |-> g.ver, n |-> v, mode |-> g.mode, mtime |-> g.mtime]
    OBVIOUS
  <1> HIDE DEF h
  <1>3. [g EXCEPT !.n = v] = [kind |-> g.kind, ver |-> g.ver, n |-> v, mode |-> g.mode, mtime |-> g.mtime]
    BY <1>1, <1>2
  <1> QED BY <1>3 DEF IsNode, Same

(* One inode is given another node.                                        *)
Given(new, nodes, i, m) == new = [nodes EXCEPT ![i] = m]

LEMMA OneNode ==
    ASSUME NEW nodes, AreNodes(nodes), NEW i, NEW m, IsNode(m), NEW new, Given(new, nodes, i, m)
    PROVE  AreNodes(new) /\ (i \in Inodes => new[i] = m) /\ \A j \in Inodes : j # i => new[j] = nodes[j]
  <1>1. nodes = [j \in Inodes |-> nodes[j]] /\ \A j \in Inodes : IsNode(nodes[j])
    BY DEF AreNodes
  <1>2. new = [j \in Inodes |-> IF j = i THEN m ELSE nodes[j]]
    BY <1>1 DEF Given
  <1> QED BY <1>1, <1>2 DEF AreNodes

LEMMA TouchedIs ==
    ASSUME NEW nodes, AreNodes(nodes), NEW x
    PROVE  AreNodes(Touched(nodes, x)) /\ \A i \in Inodes : Same(Touched(nodes, x)[i], nodes[i])
  <1>1. CASE Touched(nodes, x) = nodes
    BY <1>1 DEF Same
  <1>2. CASE Touched(nodes, x) # nodes
    <2> DEFINE d == disk[Front(x)]
               m == [nodes[d] EXCEPT !.mtime = "now"]
    <2>1. Touched(nodes, x) = [nodes EXCEPT ![d] = m]
      BY <1>2 DEF Touched
    <2>2. CASE d \in Inodes
      <3>1. IsNode(m) /\ Same(m, nodes[d])
        BY <2>2, TimeUpdate DEF AreNodes
      <3> HIDE DEF m, d
      <3> DEFINE t == Touched(nodes, x)
      <3>2. Given(t, nodes, d, m)
        BY <2>1 DEF Given
      <3> HIDE DEF t
      <3>3. AreNodes(t) /\ (d \in Inodes => t[d] = m) /\ \A j \in Inodes : j # d => t[j] = nodes[j]
        BY <3>1, <3>2, OneNode
      <3> QED BY <3>1, <3>3 DEF Same, t
    <2>3. CASE d \notin Inodes
      <3>1. nodes = [j \in Inodes |-> nodes[j]]
        BY DEF AreNodes
      <3>2. [nodes EXCEPT ![d] = m] = nodes
        BY <2>3, <3>1
      <3> QED BY <1>2, <2>1, <3>2
    <2> QED BY <2>2, <2>3
  <1> QED BY <1>1, <1>2

(* The metadata are written over what the inode has.                       *)
Rewritten(d, mode) ==
    \A i \in Inodes :
      /\ inode'[i].kind = inode[i].kind /\ inode'[i].n = inode[i].n /\ inode'[i].ver = inode[i].ver
      /\ inode'[i].mode = IF i = d THEN mode ELSE inode[i].mode
      /\ inode'[i].mtime = IF i = d THEN "src" ELSE inode[i].mtime

LEMMA MetadataIs ==
    ASSUME AreNodes(inode), NEW x, NEW p, disk[x] \in Inodes, rewriteMetadata(x, p), UNCHANGED sc
    PROVE  AreNodes(inode)' /\ Rewritten(disk[x], Src(p).mode)
  <1>1. PICK d : d = disk[x]
    OBVIOUS
  <1>2. PICK v : v = Src(p).mode
    OBVIOUS
  <1>3. PICK g : g = inode[d]
    OBVIOUS
  <1>4. PICK m : m = [g EXCEPT !.mode = v]
    OBVIOUS
  <1>5. PICK n : n = [m EXCEPT !.mtime = "src"]
    OBVIOUS
  <1>6. PICK step1 : step1 = [inode EXCEPT ![d] = m]
    OBVIOUS
  <1>7. IsNode(g)
    BY <1>1, <1>3 DEF AreNodes
  <1>8. IsNode(m) /\ m.mode = v /\ m.kind = g.kind /\ m.n = g.n /\ m.ver = g.ver
    BY <1>4, <1>7, ModeUpdate
  <1>9. IsNode(n) /\ Same(n, m) /\ n.mtime = "src"
    BY <1>5, <1>8, TimeUpdate
  <1>10. AreNodes(step1) /\ step1[d] = m /\ \A j \in Inodes : j # d => step1[j] = inode[j]
    <2>1. Given(step1, inode, d, m)
      BY <1>6 DEF Given
    <2> QED BY <1>1, <1>8, <2>1, OneNode
  <1>11. Given(inode', step1, d, n)
    <2>1. inode' = [step1 EXCEPT ![d].mtime = "src"]
      BY <1>1, <1>2, <1>3, <1>4, <1>6 DEF rewriteMetadata
    <2>2. inode' = [step1 EXCEPT ![d] = [step1[d] EXCEPT !.mtime = "src"]]
      BY <2>1
    <2> QED BY <1>5, <1>10, <2>2 DEF Given
  <1>12. PICK new : new = inode'
    OBVIOUS
  <1>13. AreNodes(new) /\ new[d] = n /\ \A j \in Inodes : j # d => new[j] = step1[j]
    <2>1. Given(new, step1, d, n)
      BY <1>11, <1>12 DEF Given
    <2> QED BY <1>1, <1>9, <1>10, <2>1, OneNode
  <1>14. AreNodes(inode)'
    BY <1>12, <1>13, Static DEF AreNodes, IsNode
  <1>15. Rewritten(d, v)
    BY <1>3, <1>8, <1>9, <1>10, <1>12, <1>13 DEF Same, Rewritten
  <1> QED BY <1>1, <1>2, <1>14, <1>15

LEMMA CreateIs ==
    ASSUME NodesShape, NEW x \in Names, NEW i \in Inodes, NEW m, IsNode(m), Create(x, i, m), UNCHANGED sc
    PROVE  /\ disk' = [y \in Names |-> IF y = x THEN i ELSE disk[y]]
           /\ AreNodes(inode)' /\ Same(inode'[i], m)
           /\ \A j \in Inodes : j # i => Same(inode'[j], inode[j])
  <1> DEFINE made == [inode EXCEPT ![i] = m]
  <1>1. disk' = [y \in Names |-> IF y = x THEN i ELSE disk[y]]
    BY DEF Create, NodesShape
  <1>2. AreNodes(made) /\ (i \in Inodes => made[i] = m) /\ \A j \in Inodes : j # i => made[j] = inode[j]
    <2>1. Given(made, inode, i, m) /\ AreNodes(inode)
      BY DEF NodesShape, Given
    <2> HIDE DEF made
    <2> QED BY <2>1, OneNode
  <1>3. inode' = Touched(made, x)
    BY DEF Create
  <1> HIDE DEF made
  <1>4. AreNodes(inode') /\ \A j \in Inodes : Same(inode'[j], made[j])
    BY <1>2, <1>3, TouchedIs
  <1>5. AreNodes(inode)'
    BY <1>4, Static DEF AreNodes, IsNode
  <1> QED BY <1>1, <1>2, <1>4, <1>5 DEF Same

(* A directory entry is removed or renamed.                                *)
LEMMA TouchIs ==
    ASSUME NodesShape, NEW x, inode' = Touched(inode, x), UNCHANGED sc
    PROVE  AreNodes(inode)' /\ \A j \in Inodes : Same(inode'[j], inode[j])
  <1>1. AreNodes(inode') /\ \A j \in Inodes : Same(inode'[j], inode[j])
    BY TouchedIs DEF NodesShape
  <1>2. AreNodes(inode)'
    BY <1>1, Static DEF AreNodes, IsNode
  <1> QED BY <1>1, <1>2

(* One inode's mode, times or length.                                      *)
LEMMA OneNodeIs ==
    ASSUME AreNodes(inode), UNCHANGED sc, NEW i, NEW m, IsNode(m), Given(inode', inode, i, m)
    PROVE  AreNodes(inode)' /\ (i \in Inodes => inode'[i] = m) /\ \A j \in Inodes : j # i => inode'[j] = inode[j]
  <1>1. AreNodes(inode') /\ (i \in Inodes => inode'[i] = m) /\ \A j \in Inodes : j # i => inode'[j] = inode[j]
    BY OneNode
  <1>2. AreNodes(inode)'
    BY <1>1, Static DEF AreNodes, IsNode
  <1> QED BY <1>1, <1>2

(* os.Chmod of an inode.                                                   *)
Chmod(i, v) == inode' = [inode EXCEPT ![i].mode = v]

LEMMA ModeIs ==
    ASSUME AreNodes(inode), UNCHANGED sc, NEW i \in Inodes, NEW v, Chmod(i, v)
    PROVE  /\ AreNodes(inode)'
           /\ \A j \in Inodes : /\ inode'[j].kind = inode[j].kind /\ inode'[j].n = inode[j].n
                                /\ inode'[j].mode = IF j = i THEN v ELSE inode[j].mode
           /\ \A j \in Inodes : inode'[j].ver = inode[j].ver /\ inode'[j].mtime = inode[j].mtime
  <1> DEFINE m == [inode[i] EXCEPT !.mode = v]
  <1>1. Given(inode', inode, i, m)
    BY DEF Given, Chmod
  <1>2. /\ IsNode(m) /\ m.mode = v /\ m.kind = inode[i].kind /\ m.n = inode[i].n
        /\ m.ver = inode[i].ver /\ m.mtime = inode[i].mtime
    <2>1. PICK g : g = inode[i]
      OBVIOUS
    <2>2. IsNode(g)
      BY <2>1 DEF AreNodes
    <2> QED BY <2>1, <2>2, ModeUpdate
  <1> HIDE DEF m
  <1>3. AreNodes(inode)' /\ (i \in Inodes => inode'[i] = m) /\ \A j \in Inodes : j # i => inode'[j] = inode[j]
    BY <1>1, <1>2, OneNodeIs
  <1> QED BY <1>2, <1>3

LEMMA TimeIs ==
    ASSUME AreNodes(inode), UNCHANGED sc, NEW i \in Inodes, NEW v, inode' = [inode EXCEPT ![i].mtime = v]
    PROVE  /\ AreNodes(inode)' /\ \A j \in Inodes : Same(inode'[j], inode[j])
           /\ inode'[i].mtime = v /\ \A j \in Inodes : j # i => inode'[j] = inode[j]
  <1> DEFINE m == [inode[i] EXCEPT !.mtime = v]
  <1>1. Given(inode', inode, i, m)
    BY DEF Given
  <1>2. IsNode(m) /\ Same(m, inode[i]) /\ m.mtime = v
    BY TimeUpdate DEF AreNodes
  <1> HIDE DEF m
  <1>3. AreNodes(inode)' /\ (i \in Inodes => inode'[i] = m) /\ \A j \in Inodes : j # i => inode'[j] = inode[j]
    BY <1>1, <1>2, OneNodeIs
  <1> QED BY <1>2, <1>3 DEF Same

LEMMA WrittenIs ==
    ASSUME AreNodes(inode), UNCHANGED sc, NEW p, disk[p] \in Inodes, inode' = Written(p)
    PROVE  /\ AreNodes(inode)' /\ \A j \in Inodes : inode'[j].kind = inode[j].kind /\ inode'[j].mode = inode[j].mode
           /\ inode'[disk[p]].ver = inode[disk[p]].ver /\ \A j \in Inodes : j # disk[p] => inode'[j] = inode[j]
  <1> DEFINE d == disk[p]
             v == inode[d].n + 1
             m == [inode[d] EXCEPT !.n = v]
             n == [m EXCEPT !.mtime = "now"]
             long == [inode EXCEPT ![d] = m]
  <1>1. IsNode(m) /\ m.kind = inode[d].kind /\ m.mode = inode[d].mode /\ m.ver = inode[d].ver
    <2>1. IsNode(inode[d])
      BY DEF AreNodes
    <2> HIDE DEF d, v
    <2> QED BY <2>1, CountUpdate
  <1>2. IsNode(n) /\ Same(n, m)
    <2> HIDE DEF m
    <2> QED BY <1>1, TimeUpdate
  <1>3. Given(inode', long, d, n)
    <2>1. long[d] = m
      BY DEF AreNodes
    <2>2. inode' = [long EXCEPT ![d].mtime = "now"]
      BY DEF Written
    <2>3. inode' = [long EXCEPT ![d] = [long[d] EXCEPT !.mtime = "now"]]
      <3> HIDE DEF long, d
      <3> QED BY <2>2
    <2> QED BY <2>1, <2>3 DEF Given
  <1> HIDE DEF m, n
  <1>4. AreNodes(long) /\ (d \in Inodes => long[d] = m) /\ \A j \in Inodes : j # d => long[j] = inode[j]
    <2>1. Given(long, inode, d, m)
      BY DEF Given
    <2> HIDE DEF d, long
    <2> QED BY <1>1, <2>1, OneNode
  <1> HIDE DEF long
  <1>5. AreNodes(inode') /\ (d \in Inodes => inode'[d] = n) /\ \A j \in Inodes : j # d => inode'[j] = long[j]
    <2> HIDE DEF d
    <2> QED BY <1>2, <1>3, <1>4, OneNode
  <1>6. AreNodes(inode)'
    BY <1>5, Static DEF AreNodes, IsNode
  <1> QED BY <1>1, <1>2, <1>4, <1>5, <1>6 DEF Same

-----------------------------------------------------------------------------
(* What stays where it is.                                                 *)
Kept(i)  == inode'[i].kind = inode[i].kind /\ (inode[i].mode # "fresh" => inode'[i].mode # "fresh")
Stays(x) == disk'[x] = disk[x] /\ (Present(x) => Kept(disk[x]))

LEMMA StaysFacts ==
    ASSUME UNCHANGED sc, NEW x, Stays(x)
    PROVE  /\ Present(x)' <=> Present(x)
           /\ IsDirAt(x)' <=> IsDirAt(x)
           /\ Present(x) /\ At(x).mode # "fresh" => At(x)'.mode # "fresh"
           /\ \A p : InSort(x, p) => InSort(x, p)'
  <1>1. Present(x)' <=> Present(x)
    BY DEF Stays, Present
  <1>2. ASSUME Present(x) PROVE At(x)'.kind = At(x).kind /\ (At(x).mode # "fresh" => At(x)'.mode # "fresh")
    BY <1>2 DEF Stays, Kept, At
  <1>3. \A p : Src(p)' = Src(p)
    BY Static
  <1>4. IsDirAt(x)' <=> IsDirAt(x)
    BY <1>1, <1>2 DEF IsDirAt
  <1> QED BY <1>1, <1>2, <1>3, <1>4 DEF InSort

LEMMA OwnedStays ==
    ASSUME UNCHANGED <<sc, attempt>>, NEW x, NEW i
    PROVE  Owned(x, i)' <=> Owned(x, i)
  <1>1. Inodes' = Inodes /\ \A q : (NameOf(x, q)' <=> NameOf(x, q)) /\ Home(q)' = Home(q)
    BY Static DEF NameOf, Temp
  <1> QED BY <1>1 DEF Owned

Sound == sc \in Scenarios /\ ListShape /\ DiskInv

(* In the steps that make an entry there is one to make, and a place for   *)
(* it.                                                                     *)
LEMMA MakingIs ==
    ASSUME Sound, step # "next"
    PROVE  /\ list # <<>> /\ change \in DOMAIN sc.source /\ change \notin sc.filtered /\ Listed(change)
           /\ attempt \in {1, 2} /\ rename \in BOOLEAN /\ change \in Names /\ change \in Seq(Nat) /\ newPath \in Names
           /\ ~rename => change \notin Lasting /\ newPath = change
           /\ ~Settled(change) \/ (rename /\ change \in Lasting)
  <1>1. /\ list # <<>> /\ change \in DOMAIN sc.source /\ change \notin sc.filtered
        /\ attempt \in {1, 2} /\ rename \in BOOLEAN /\ (~rename => change \notin Lasting)
    BY DEF Sound, DiskInv, ChangeShape, NodesShape
  <1>2. newPath \in Names
    BY <1>1, NewPathIs DEF Sound
  <1>3. Listed(change) /\ change \in Names /\ change \in Seq(Nat)
    BY <1>1, FirstListed DEF Sound
  <1> QED BY <1>1, <1>2, <1>3 DEF newPath, Settled

(* Only nodes change, and neither what they are nor that they are made.    *)
LEMMA DiskStays ==
    ASSUME Sound, UNCHANGED <<sc, disk, attempt, list, step, rename>>, AreNodes(inode)', \A i \in Inodes : Kept(i)
    PROVE  DiskInv'
  <1>1. \A x \in Names : Stays(x)
    BY DEF Stays, Sound, DiskInv, Owners, Owned
  <1>2. /\ Names' = Names /\ Lasting' = Lasting
        /\ \A p : Src(p)' = Src(p) /\ (IsLink(p)' <=> IsLink(p)) /\ (Listed(p)' <=> Listed(p))
        /\ change' = change /\ newPath' = newPath
    BY Static DEF Listed, change, newPath, Temp
  <1>3. NodesShape'
    BY <1>2 DEF Sound, DiskInv, NodesShape
  <1>4. Owners'
    BY <1>2, OwnedStays DEF Sound, DiskInv, Owners, Present
  <1>5. Unmade'
    BY <1>2 DEF Sound, DiskInv, Unmade
  <1>6. Tree'
    BY <1>1, <1>2, StaysFacts DEF Sound, DiskInv, Tree
  <1>7. Placed'
    <2>1. ASSUME NEW p \in DOMAIN sc.source, Settled(p)' PROVE InSort(p, p)'
      <3>1. InSort(p, p)
        BY <1>2, <2>1 DEF Sound, DiskInv, Placed, Settled
      <3>2. p \in Names
        BY SourceIs DEF Sound
      <3> QED BY <1>1, <3>1, <3>2, StaysFacts
    <2> QED BY <2>1 DEF Placed
  <1>8. ChangeShape'
    <2>1. CASE step = "next"
      BY <1>2, <2>1 DEF Sound, DiskInv, ChangeShape, ListKinds
    <2>2. CASE step # "next"
      <3>1. /\ Present(change)' <=> Present(change)
            /\ Present(newPath)' <=> Present(newPath)
            /\ IsDirAt(newPath)' <=> IsDirAt(newPath)
            /\ Present(newPath) /\ At(newPath).mode # "fresh" => At(newPath)'.mode # "fresh"
        <4>1. Stays(change) /\ Stays(newPath)
          BY <1>1, <2>2, MakingIs
        <4>2. /\ \A x : Present(x)' <=> disk'[x] # None
              /\ \A x : IsDirAt(x)' <=> disk'[x] # None /\ inode'[disk'[x]].kind = "dir"
          BY DEF Present, IsDirAt, At
        <4> QED BY <1>2, <4>1, StaysFacts DEF Present, IsDirAt, At
      <3>2. ListKinds'
        BY DEF Sound, DiskInv, ChangeShape, ListKinds
      <3> QED BY <1>2, <3>1, <3>2 DEF Sound, DiskInv, ChangeShape
    <2> QED BY <2>1, <2>2
  <1> QED BY <1>3, <1>4, <1>5, <1>6, <1>7, <1>8 DEF DiskInv

-----------------------------------------------------------------------------
(* HandleChange returns: the change is off the list.                       *)
LEMMA TailIs ==
    ASSUME ListShape, list # <<>>, list' = Tail(list)
    PROVE  /\ \A i \in 1..Len(list)' : list'[i] = list[i + 1] /\ i + 1 \in 1..Len(list) /\ i + 1 # 1
           /\ \A p : Listed(p) => Listed(p)' \/ p = change
  <1> DEFINE C == [path : Names, kind : {"add", "modify", "delete"}]
             t == Tail(list)
  <1>1. /\ Len(list) \in Nat /\ Len(t) = Len(list) - 1
        /\ \A i \in 1..Len(t) : t[i] = list[i + 1] /\ i + 1 \in 1..Len(list) /\ 1 < i + 1
    <2>1. list \in Seq(C)
      BY DEF ListShape
    <2> HIDE DEF C
    <2> QED BY <2>1, TailFacts
  <1> HIDE DEF t
  <1>2. list' = t
    BY DEF t
  <1>3. ASSUME NEW p, NEW i \in 1..Len(list), list[i].path = p, p # change PROVE \E j \in 1..Len(t) : t[j].path = p
    <2>1. i # 1
      BY <1>3 DEF change
    <2>2. i - 1 \in 1..Len(t) /\ (i - 1) + 1 = i
      BY <1>1, <2>1
    <2>3. t[i - 1] = list[i]
      BY <1>1, <2>2
    <2> QED BY <1>3, <2>2, <2>3
  <1>4. \A i \in 1..Len(t) : i + 1 # 1
    BY <1>1
  <1> QED BY <1>1, <1>2, <1>3, <1>4 DEF Listed

LEMMA ReturnsDisk ==
    ASSUME Sound, list # <<>>, list' = Tail(list), step' = "next", rename' \in BOOLEAN, UNCHANGED <<sc, attempt>>,
           AreNodes(inode)', disk' = [x \in Names |-> disk'[x]],
           \A x \in Names : Present(x)' => Owned(x, disk'[x]) /\ \E y \in Names : disk'[x] = disk[y],
           Tree',
           \A p \in DOMAIN sc.source : Settled(p) \/ (p = change /\ p \notin sc.filtered) => InSort(p, p)'
    PROVE  DiskInv'
  <1>1. /\ \A i \in 1..Len(list)' : list'[i] = list[i + 1] /\ i + 1 \in 1..Len(list) /\ i + 1 # 1
        /\ \A p : Listed(p) => Listed(p)' \/ p = change
    BY TailIs DEF Sound
  <1>2. Names' = Names /\ Lasting' = Lasting
    BY Static
  <1>3. NodesShape'
    BY <1>2 DEF Sound, DiskInv, NodesShape
  <1>4. Owners'
    BY <1>2, OwnedStays DEF Owners
  <1>5. Unmade'
    <2>1. ASSUME NEW x \in Names, NEW i \in 1..Len(list)', disk'[x] = <<list'[i].path, attempt>> PROVE FALSE
      <3>1. disk'[x] # None
        BY <2>1 DEF None
      <3>2. PICK y \in Names : disk'[x] = disk[y]
        BY <3>1 DEF Present
      <3>3. disk[y] = <<list[i + 1].path, attempt>> /\ i + 1 \in 1..Len(list) /\ i + 1 # 1
        BY <1>1, <2>1, <3>2
      <3> QED BY <3>3 DEF Sound, DiskInv, Unmade
    <2> QED BY <1>2, <2>1 DEF Unmade
  <1>6. Placed'
    <2>1. ASSUME NEW p \in DOMAIN sc.source, Settled(p)' PROVE InSort(p, p)'
      <3>1. p \in Lasting \/ (p \notin sc.filtered /\ (~Listed(p) \/ p = change))
        BY <1>1, <1>2, <2>1 DEF Settled
      <3> QED BY <3>1 DEF Settled
    <2> QED BY <2>1 DEF Placed
  <1>7. ListKinds'
    BY <1>1 DEF Sound, DiskInv, ChangeShape, ListKinds
  <1>8. ChangeShape'
    BY <1>7 DEF ChangeShape
  <1> QED BY <1>3, <1>4, <1>5, <1>6, <1>8, Zenon DEF DiskInv

(* What was made before the change in hand.                                *)
LEMMA SettledBefore ==
    ASSUME Sound, list # <<>>, NEW p \in DOMAIN sc.source, p \notin sc.filtered, Before(p, change)
    PROVE  Settled(p) /\ InSort(p, p)
  <1>1. Settled(p)
    BY FirstListed, SourceIs DEF Sound, Settled
  <1> QED BY <1>1 DEF Sound, DiskInv, Placed

-----------------------------------------------------------------------------
(* Nothing below a name is left when it is removed.                        *)
LEMMA RemoveAllIs ==
    ASSUME Sound, NEW x \in Names, RemoveAll(x), UNCHANGED sc
    PROVE  /\ AreNodes(inode)' /\ \A i \in Inodes : Same(inode'[i], inode[i])
           /\ disk' = [y \in Names |-> disk'[y]]
           /\ \A y \in Names : IF IsPrefix(x, y) THEN ~Present(y)' ELSE Stays(y)
           /\ Tree'
  <1>1. AreNodes(inode)' /\ \A i \in Inodes : Same(inode'[i], inode[i])
    BY TouchIs DEF Sound, DiskInv, RemoveAll
  <1>2. disk' = [y \in Names |-> IF IsPrefix(x, y) THEN None ELSE disk[y]]
    BY DEF RemoveAll
  <1>3. ASSUME NEW y \in Names PROVE IF IsPrefix(x, y) THEN ~Present(y)' ELSE Stays(y)
    <2>1. CASE IsPrefix(x, y)
      BY <1>2, <2>1 DEF Present
    <2>2. CASE ~IsPrefix(x, y)
      <3>1. Present(y) => disk[y] \in Inodes
        BY DEF Sound, DiskInv, Owners, Owned
      <3> QED BY <1>1, <1>2, <2>2, <3>1 DEF Stays, Kept, Same
    <2> QED BY <2>1, <2>2
  <1>4. ASSUME NEW y \in Names, NEW z \in Names, Present(z)', IsStrictPrefix(y, z) PROVE IsDirAt(y)'
    <2>1. ~IsPrefix(x, z) /\ Present(z)
      BY <1>3, <1>4, StaysFacts
    <2>2. ~IsPrefix(x, y)
      BY <1>4, <2>1, PrefixTransitive, NameTypes DEF Sound, IsStrictPrefix
    <2>3. IsDirAt(y)
      BY <1>4, <2>1 DEF Sound, DiskInv, Tree
    <2> QED BY <1>3, <2>2, <2>3, StaysFacts
  <1>5. Tree'
    BY <1>4, Static DEF Tree
  <1>6. disk' = [y \in Names |-> disk'[y]]
    BY <1>2
  <1> QED BY <1>1, <1>3, <1>5, <1>6

LEMMA TreeStays ==
    ASSUME Tree, UNCHANGED sc, \A x \in Names : Stays(x)
    PROVE  Tree'
  BY Static, StaysFacts DEF Tree

-----------------------------------------------------------------------------
(* A file whose goroutine has started is in its place.                     *)
LEMMA LiveIs ==
    ASSUME OpenInv, DiskInv, Landed, NEW p \in DOMAIN sc.source, files[p].pc # "off"
    PROVE  /\ ~sc.sync /\ Src(p).kind = "file" /\ ~IsLink(p) /\ p \notin sc.filtered /\ p \in Names
           /\ disk[p] = <<p, attempt>> /\ disk[p] \in Inodes
           /\ ~Listed(p) /\ Settled(p) /\ InSort(p, p)
  <1>1. /\ ~sc.sync /\ Src(p).kind = "file" /\ ~IsLink(p) /\ p \notin sc.filtered /\ disk[p] = <<p, attempt>>
    BY DEF Landed
  <1>2. p \in Names
    BY SourceIs DEF OpenInv
  <1>3. disk[p] # None
    BY <1>1 DEF None
  <1>4. disk[p] \in Inodes
    BY <1>2, <1>3 DEF DiskInv, Owners, Owned, Present
  <1>5. ~Listed(p)
    BY DEF OpenInv, ListShape, Listed
  <1>6. Settled(p) /\ InSort(p, p)
    BY <1>1, <1>5 DEF Settled, DiskInv, Placed
  <1> QED BY <1>1, <1>2, <1>4, <1>5, <1>6

(* What a step of HandleChange leaves to the files.                        *)
Spared(p) == disk'[p] = disk[p] /\ (inode'[disk[p]].mode = inode[disk[p]].mode \/ \E q \in DOMAIN sc.source : Src(q).link = p)
Starts(p) == ~sc.sync /\ Src(p).kind = "file" /\ ~IsLink(p) /\ p \notin sc.filtered /\ disk'[p] = <<p, attempt>>

LEMMA FilesThrough ==
    ASSUME NameInv, UNCHANGED <<sc, attempt, loop>>, blame \subseteq blame', ctxDone' => ctxDone \/ blame' # {},
           \A p \in DOMAIN sc.source :
             /\ files'[p].f = files[p].f /\ files'[p].closed = files[p].closed /\ files'[p].saved = files[p].saved
             /\ files'[p].pc = "failed" => files[p].pc = "failed"
             /\ IF files[p].pc # "off" THEN Spared(p) ELSE files'[p].pc # "off" => Starts(p)
    PROVE  FileInv'
  <1>1. Landed'
    <2>1. ASSUME NEW p \in DOMAIN sc.source, files'[p].pc # "off" PROVE Starts(p)
      <3>1. CASE files[p].pc # "off"
        BY <3>1 DEF NameInv, FileInv, Landed, Starts, Spared
      <3>2. CASE files[p].pc = "off"
        BY <2>1, <3>2
      <3> QED BY <3>1, <3>2
    <2> QED BY <2>1, Static DEF Starts, Landed
  <1>2. ClosedOnce'
    BY DEF NameInv, FileInv, ClosedOnce
  <1>3. Blamed'
    BY DEF NameInv, FileInv, Blamed
  <1>4. Widened'
    <2>1. ASSUME loop.at = "reopen", blame = {}, ~\E q \in DOMAIN sc.source : Src(q).link = loop.path
          PROVE  inode'[disk'[loop.path]].mode = "wide"
      <3>1. loop.path \in DOMAIN sc.source /\ files[loop.path].pc # "off"
        BY <2>1 DEF NameInv, OpenInv, LoopShape, Piped
      <3>2. Spared(loop.path)
        BY <3>1
      <3>3. inode[disk[loop.path]].mode = "wide"
        BY <2>1 DEF NameInv, FileInv, Widened, At
      <3> QED BY <2>1, <3>2, <3>3 DEF Spared
    <2> QED BY <2>1, Static DEF Widened, At
  <1> QED BY <1>1, <1>2, <1>3, <1>4 DEF FileInv

LEMMA WholeThrough ==
    ASSUME NameInv, UNCHANGED sc,
           sc.sync => \A x \in Names : Present(x)' /\ disk'[x][2] # 0 /\ disk'[x][1] \in DOMAIN sc.source =>
                        \/ inode'[disk'[x]].n = Src(disk'[x][1]).n
                        \/ inode'[disk'[x]].n = inode[disk'[x]].n /\ \E y \in Names : disk'[x] = disk[y]
    PROVE  Whole'
  <1>1. ASSUME sc.sync, NEW x \in Names, Present(x)', disk'[x][2] # 0, disk'[x][1] \in DOMAIN sc.source
        PROVE  inode'[disk'[x]].n = Src(disk'[x][1]).n
    <2>1. CASE inode'[disk'[x]].n = inode[disk'[x]].n /\ \E y \in Names : disk'[x] = disk[y]
      <3>1. PICK y \in Names : disk'[x] = disk[y]
        BY <2>1
      <3>2. disk[y] # None
        BY <1>1, <3>1 DEF Present, None
      <3>3. inode[disk[y]].n = Src(disk[y][1]).n
        BY <1>1, <3>1, <3>2 DEF NameInv, Whole, Present, At
      <3> QED BY <2>1, <3>1, <3>3
    <2> QED BY <1>1, <2>1
  <1> QED BY <1>1, Static DEF Whole, At

-----------------------------------------------------------------------------
(* HandleChange, up to Lstat.                                              *)
LEMMA SoundHere == NameInv => Sound
  BY DEF NameInv, Sound, OpenInv

(* Nothing happens to the names, and to the nodes nothing that matters.    *)
LEMMA FilesSpared ==
    ASSUME NameInv, UNCHANGED <<sc, attempt, files, loop, disk>>, blame \subseteq blame', ctxDone' => ctxDone \/ blame' # {},
           \A i \in Inodes : inode'[i].mode = inode[i].mode /\ inode'[i].n = inode[i].n
    PROVE  FileInv' /\ Whole'
  <1>1. \A p \in DOMAIN sc.source : files[p].pc # "off" => Spared(p)
    BY LiveIs DEF NameInv, FileInv, Spared
  <1>2. \A x \in Names : Present(x) => disk[x] \in Inodes
    BY DEF NameInv, DiskInv, Owners, Owned
  <1>3. FileInv'
    BY <1>1, FilesThrough
  <1>4. Whole'
    BY <1>2, WholeThrough DEF Present
  <1> QED BY <1>3, <1>4

LEMMA StartsDelete ==
    ASSUME NameInv, Handling, step = "next", kind = "delete", RemoveAll(change), Returns,
           UNCHANGED <<sc, attempt, files, loop, ctxDone, rename, blame>>
    PROVE  DiskInv' /\ FileInv' /\ Whole'
  <1>1. Sound /\ list # <<>>
    BY SoundHere DEF Handling
  <1>2. change \in Names /\ change \in Seq(Nat) /\ change \notin DOMAIN sc.source
    BY <1>1, FirstListed DEF Sound, DiskInv, ChangeShape, ListKinds, kind, change
  <1>3. /\ AreNodes(inode)' /\ \A i \in Inodes : Same(inode'[i], inode[i])
        /\ disk' = [y \in Names |-> disk'[y]] /\ Tree'
        /\ \A y \in Names : IF IsPrefix(change, y) THEN ~Present(y)' ELSE Stays(y)
    BY <1>1, <1>2, RemoveAllIs
  <1>4. \A p \in DOMAIN sc.source : Stays(p)
    <2>1. ASSUME NEW p \in DOMAIN sc.source, IsPrefix(change, p) PROVE FALSE
      <3>1. IsStrictPrefix(change, p)
        BY <1>2, <2>1 DEF IsStrictPrefix
      <3> QED BY <1>1, <1>2, <3>1, SourceTree DEF Sound
    <2> QED BY <1>1, <1>3, <2>1, SourceIs DEF Sound
  <1>5. \A y \in Names : Present(y)' => Stays(y) /\ Present(y)
    BY <1>3, StaysFacts
  <1>6. DiskInv'
    <2>1. \A x \in Names : Present(x)' => Owned(x, disk'[x]) /\ \E y \in Names : disk'[x] = disk[y]
      BY <1>1, <1>5 DEF Stays, Sound, DiskInv, Owners
    <2>2. \A p \in DOMAIN sc.source : Settled(p) \/ (p = change /\ p \notin sc.filtered) => InSort(p, p)'
      BY <1>1, <1>2, <1>4, StaysFacts DEF Sound, DiskInv, Placed
    <2>3. rename' \in BOOLEAN /\ list' = Tail(list) /\ step' = "next"
      BY <1>1 DEF Sound, DiskInv, ChangeShape, Returns
    <2> QED BY <1>1, <1>3, <2>1, <2>2, <2>3, ReturnsDisk
  <1>7. FileInv'
    <2>1. ASSUME NEW p \in DOMAIN sc.source, files[p].pc # "off" PROVE Spared(p)
      <3>1. disk[p] \in Inodes
        BY <2>1, LiveIs DEF NameInv, FileInv
      <3> QED BY <1>3, <1>4, <3>1 DEF Spared, Stays, Same
    <2> QED BY <2>1, FilesThrough
  <1>8. Whole'
    <2>1. ASSUME NEW x \in Names, Present(x)' PROVE inode'[disk'[x]].n = inode[disk'[x]].n /\ disk'[x] = disk[x]
      <3>1. disk[x] \in Inodes /\ disk'[x] = disk[x]
        BY <1>1, <1>5, <2>1 DEF Sound, DiskInv, Owners, Owned, Stays
      <3> QED BY <1>3, <3>1 DEF Same
    <2> QED BY <2>1, WholeThrough
  <1> QED BY <1>6, <1>7, <1>8

LEMMA StartsDirectory ==
    ASSUME NameInv, Handling, step = "next", kind # "delete", change \notin sc.filtered,
           IsDirAt(change), Src(change).kind = "dir", rewriteMetadata(change, change), Returns,
           UNCHANGED <<sc, disk, attempt, files, loop, ctxDone, rename, blame>>
    PROVE  DiskInv' /\ FileInv' /\ Whole'
  <1>1. Sound /\ list # <<>>
    BY SoundHere DEF Handling
  <1>2. change \in Names /\ change \in DOMAIN sc.source
    BY <1>1, FirstListed DEF Sound, DiskInv, ChangeShape, ListKinds, kind, change
  <1> DEFINE d == disk[change]
  <1>3. d \in Inodes
    BY <1>1, <1>2 DEF Sound, DiskInv, Owners, Owned, IsDirAt
  <1>4. /\ AreNodes(inode)'
        /\ \A i \in Inodes : /\ inode'[i].kind = inode[i].kind /\ inode'[i].n = inode[i].n
                             /\ inode'[i].mode = IF i = d THEN Src(change).mode ELSE inode[i].mode
    <2>1. AreNodes(inode)' /\ Rewritten(d, Src(change).mode)
      BY <1>1, <1>3, MetadataIs DEF Sound, DiskInv, NodesShape
    <2> QED BY <2>1 DEF Rewritten
  <1>5. Src(change).mode # "fresh"
    BY <1>1, <1>2, SourceIs DEF Sound
  <1>6. \A x \in Names : Stays(x)
    <2>1. ASSUME NEW x \in Names, Present(x) PROVE Kept(disk[x])
      <3>1. disk[x] \in Inodes
        BY <1>1, <2>1 DEF Sound, DiskInv, Owners, Owned
      <3> QED BY <1>4, <1>5, <3>1 DEF Kept
    <2> QED BY <2>1 DEF Stays
  <1>7. DiskInv'
    <2>1. \A x \in Names : Present(x)' => Owned(x, disk'[x]) /\ \E y \in Names : disk'[x] = disk[y]
      BY <1>1 DEF Sound, DiskInv, Owners, Present
    <2>2. ASSUME NEW p \in DOMAIN sc.source, Settled(p) PROVE InSort(p, p)'
      BY <1>1, <1>6, <2>2, SourceIs, StaysFacts DEF Sound, DiskInv, Placed
    <2>3. ASSUME NEW p, p = change PROVE InSort(p, p)'
      <3>1. Stays(p) /\ IsDirAt(p) /\ Src(p).kind = "dir"
        BY <1>2, <1>6, <2>3
      <3>2. Present(p)' /\ IsDirAt(p)'
        BY <3>1, StaysFacts DEF IsDirAt
      <3>3. At(p)'.mode # "fresh"
        BY <1>3, <1>4, <1>5, <2>3 DEF At
      <3> QED BY <3>1, <3>2, <3>3, Static DEF InSort
    <2>4. Tree'
      BY <1>1, <1>6, TreeStays DEF Sound, DiskInv
    <2>5. rename' \in BOOLEAN /\ list' = Tail(list) /\ step' = "next" /\ disk' = [x \in Names |-> disk'[x]]
      BY <1>1 DEF Sound, DiskInv, ChangeShape, Returns, NodesShape
    <2> QED BY <1>1, <1>4, <2>1, <2>2, <2>3, <2>4, <2>5, ReturnsDisk
  <1>8. FileInv'
    <2>1. ASSUME NEW p \in DOMAIN sc.source, files[p].pc # "off" PROVE Spared(p)
      <3>1. disk[p] \in Inodes /\ InSort(p, p) /\ Src(p).kind = "file"
        BY <2>1, LiveIs DEF NameInv, FileInv
      <3>2. disk[p] # d
        BY <1>3, <3>1 DEF InSort, IsDirAt, Present, At
      <3> QED BY <1>4, <3>1, <3>2 DEF Spared
    <2> QED BY <2>1, FilesThrough
  <1>9. Whole'
    <2>1. ASSUME NEW x \in Names, Present(x)' PROVE inode'[disk'[x]].n = inode[disk'[x]].n /\ disk'[x] = disk[x]
      <3>1. disk[x] \in Inodes /\ disk'[x] = disk[x]
        BY <1>1, <2>1 DEF Sound, DiskInv, Owners, Owned, Present
      <3> QED BY <1>4, <3>1
    <2> QED BY <2>1, WholeThrough
  <1> QED BY <1>7, <1>8, <1>9

LEMMA StartChangeName ==
    ASSUME NameInv, StartChange
    PROVE  DiskInv' /\ FileInv' /\ Whole'
  <1>1. Sound /\ list # <<>> /\ Handling /\ step = "next" /\ UNCHANGED <<sc, attempt, blame, files, loop>>
    BY SoundHere DEF StartChange, Handling, AsyncFixed
  <1>2. change \in Names /\ 1 \in 1..Len(list)
    BY <1>1, FirstListed DEF Sound
  <1>3. AreNodes(inode) /\ rename \in BOOLEAN
    BY <1>1 DEF Sound, DiskInv, NodesShape, ChangeShape
  <1>4. CASE ctxDone /\ Fail /\ DiskFixed
    <2>1. UNCHANGED <<disk, inode, list, step, rename>>
      BY <1>4 DEF Fail, DiskFixed, diskVars
    <2>2. DiskInv'
      BY <1>1, <1>3, <2>1, DiskStays, Static DEF Kept, AreNodes, IsNode
    <2> QED BY <1>1, <1>4, <2>1, <2>2, FilesSpared DEF Fail
  <1>5. CASE change \in sc.filtered /\ Returns /\ DiskFixed /\ UNCHANGED <<rename, ctxDone>>
    <2>1. UNCHANGED <<disk, inode>> /\ list' = Tail(list) /\ step' = "next"
      BY <1>5 DEF Returns, DiskFixed, diskVars
    <2>2. \A x \in Names : Stays(x)
      BY <2>1 DEF Stays, Kept
    <2>3. AreNodes(inode)'
      BY <1>1, <1>3, <2>1, Static DEF AreNodes, IsNode
    <2>4. DiskInv'
      <3>1. \A x \in Names : Present(x)' => Owned(x, disk'[x]) /\ \E y \in Names : disk'[x] = disk[y]
        BY <1>1, <2>1 DEF Sound, DiskInv, Owners, Present
      <3>2. ASSUME NEW p \in DOMAIN sc.source, Settled(p) \/ (p = change /\ p \notin sc.filtered) PROVE InSort(p, p)'
        BY <1>1, <1>5, <2>2, <3>2, SourceIs, StaysFacts DEF Sound, DiskInv, Placed
      <3>3. Tree' /\ disk' = [x \in Names |-> disk'[x]]
        BY <1>1, <2>1, <2>2, TreeStays DEF Sound, DiskInv, NodesShape
      <3> QED BY <1>1, <1>3, <1>5, <2>1, <2>3, <3>1, <3>2, <3>3, ReturnsDisk
    <2>5. FileInv' /\ Whole'
      BY <1>1, <1>5, <2>1, FilesSpared
    <2> QED BY <2>4, <2>5
  <1>6. CASE kind = "delete" /\ RemoveAll(change) /\ Returns /\ UNCHANGED <<rename, ctxDone>>
    BY <1>1, <1>6, StartsDelete
  <1>7. CASE /\ change \notin sc.filtered /\ kind # "delete" /\ IsDirAt(change) /\ Src(change).kind = "dir"
             /\ rewriteMetadata(change, change) /\ Returns /\ UNCHANGED <<disk, rename, ctxDone>>
    BY <1>1, <1>7, StartsDirectory
  <1>8. CASE /\ change \notin sc.filtered /\ kind # "delete" /\ rename' = Present(change) /\ step' = "make"
             /\ UNCHANGED <<diskVars, list, ctxDone>>
    <2>1. UNCHANGED <<disk, inode, list>>
      BY <1>8 DEF diskVars
    <2>2. change \in DOMAIN sc.source
      BY <1>1, <1>2, <1>8 DEF Sound, DiskInv, ChangeShape, ListKinds, kind, change
    <2>3. DiskInv'
      <3> DEFINE there == Present(change)
      <3>1. /\ Names' = Names /\ Lasting' = Lasting /\ change' = change
            /\ \A p : Src(p)' = Src(p) /\ (Listed(p)' <=> Listed(p)) /\ (Settled(p)' <=> Settled(p))
            /\ \A x, p : InSort(x, p)' <=> InSort(x, p)
        BY <1>1, <2>1, Static DEF Listed, change, Settled, InSort, Present, IsDirAt, At
      <3>2. NodesShape' /\ Owners' /\ Tree' /\ Placed'
        <4>1. NodesShape'
          BY <1>1, <2>1, <3>1, Static DEF Sound, DiskInv, NodesShape, AreNodes, IsNode
        <4>2. Owners'
          BY <1>1, <2>1, <3>1, OwnedStays DEF Sound, DiskInv, Owners, Present
        <4>3. Tree'
          BY <1>1, <2>1, TreeStays DEF Sound, DiskInv, Stays, Kept
        <4>4. Placed'
          BY <1>1, <3>1 DEF Sound, DiskInv, Placed
        <4> QED BY <4>1, <4>2, <4>3, <4>4
      <3>3. Unmade'
        <4>1. \A x \in Names, i \in 1..Len(list) : disk[x] # <<list[i].path, attempt>>
          BY <1>1 DEF Sound, DiskInv, Unmade
        <4> QED BY <1>1, <2>1, <3>1, <4>1 DEF Unmade
      <3>4. there => Present(change)'
        BY <2>1, <3>1 DEF Present
      <3>5. ~there => change \notin Lasting /\ ~Present(change)'
        BY <1>1, <2>1, <2>2, <3>1 DEF Sound, DiskInv, Placed, Settled, InSort, Present
      <3>6. ListKinds'
        BY <1>1, <2>1 DEF Sound, DiskInv, ChangeShape, ListKinds
      <3>7. step' = "make" /\ rename' = there /\ there \in BOOLEAN
        BY <1>8 DEF Present
      <3> HIDE DEF there
      <3>8. ChangeShape'
        BY <1>1, <1>8, <2>1, <2>2, <3>1, <3>4, <3>5, <3>6, <3>7 DEF ChangeShape
      <3> QED BY <3>2, <3>3, <3>8 DEF DiskInv
    <2>4. FileInv' /\ Whole'
      BY <1>1, <1>8, <2>1, FilesSpared
    <2> QED BY <2>3, <2>4
  <1>9. \/ ctxDone /\ Fail /\ DiskFixed
        \/ change \in sc.filtered /\ Returns /\ DiskFixed /\ UNCHANGED <<rename, ctxDone>>
        \/ kind = "delete" /\ RemoveAll(change) /\ Returns /\ UNCHANGED <<rename, ctxDone>>
        \/ /\ change \notin sc.filtered /\ kind # "delete" /\ IsDirAt(change) /\ Src(change).kind = "dir"
           /\ rewriteMetadata(change, change) /\ Returns /\ UNCHANGED <<disk, rename, ctxDone>>
        \/ /\ change \notin sc.filtered /\ kind # "delete" /\ rename' = Present(change) /\ step' = "make"
           /\ UNCHANGED <<diskVars, list, ctxDone>>
    BY DEF StartChange
  <1> QED BY <1>4, <1>5, <1>6, <1>7, <1>8, <1>9

-----------------------------------------------------------------------------
(* An entry is made at newPath.                                            *)
LEMMA NothingMade ==
    ASSUME Sound, step = "make"
    PROVE  \A x \in Names, i \in 1..Len(list) : disk[x] # <<list[i].path, attempt>>
  BY DEF Sound, DiskInv, Unmade

LEMMA FreeChange ==
    ASSUME Sound, step = "make", ~(Src(change).kind = "dir" /\ Present(newPath)), ~rename
    PROVE  ~Present(change)
  BY MakingIs DEF Sound, DiskInv, ChangeShape

LEMMA EntryMade ==
    ASSUME Sound, step = "make", ~rename => ~Present(change), UNCHANGED <<sc, attempt, list, rename>>,
           step' \in {"make", "meta"}, AreNodes(inode)', NEW x, x = newPath, NEW v, v # None, Owned(x, v),
           disk' = [y \in Names |-> IF y = x THEN v ELSE disk[y]],
           \A y \in Names : y # x /\ IsDirAt(y) => IsDirAt(y)',
           \A p \in DOMAIN sc.source : p # x => Stays(p),
           \A i \in 1..Len(list) : v = <<list[i].path, attempt>> => i = 1 /\ step' = "meta"
    PROVE  NodesShape' /\ Owners' /\ Unmade' /\ Tree' /\ Placed'
  <1>1. /\ list # <<>> /\ change \in DOMAIN sc.source /\ change \notin sc.filtered /\ change \in Names /\ change \in Seq(Nat)
        /\ attempt \in {1, 2} /\ rename \in BOOLEAN /\ x \in Names
        /\ ~rename => x = change /\ ~Settled(change)
    BY MakingIs
  <1>2. /\ rename => x \notin DOMAIN sc.source /\ \A y \in Names : ~IsStrictPrefix(x, y)
        /\ \A y \in Names : IsStrictPrefix(y, x) <=> IsStrictPrefix(y, change)
    BY <1>1, NewPathIs DEF Sound, Paths
  <1>3. /\ Names' = Names /\ Lasting' = Lasting /\ newPath' = newPath
        /\ \A p : Listed(p)' <=> Listed(p)
    BY Static DEF newPath, change, Temp, Listed
  <1>4. NodesShape'
    BY <1>1, <1>3 DEF NodesShape
  <1>5. Owners'
    <2>1. ASSUME NEW y \in Names, disk'[y] # None PROVE Owned(y, disk'[y])
      BY <2>1 DEF Sound, DiskInv, Owners, Present
    <2> QED BY <1>3, <2>1, OwnedStays DEF Owners, Present
  <1>6. Unmade'
    <2>1. ASSUME NEW y \in Names, NEW i \in 1..Len(list), disk'[y] = <<list[i].path, attempt>>
          PROVE  i = 1 /\ step' = "meta" /\ y = x
      BY <2>1, NothingMade
    <2> QED BY <1>3, <2>1 DEF Unmade
  <1>7. Tree'
    <2>1. ASSUME NEW y \in Names, NEW z \in Names, disk'[z] # None, IsStrictPrefix(y, z) PROVE IsDirAt(y)'
      <3>1. CASE z = x
        <4>1. IsStrictPrefix(y, change) /\ y # x
          BY <1>2, <2>1, <3>1 DEF IsStrictPrefix
        <4>2. y \in DOMAIN sc.source /\ Src(y).kind = "dir" /\ y \notin sc.filtered /\ Before(y, change)
          BY <1>1, <4>1, SourceTree DEF Sound
        <4>3. InSort(y, y)
          BY <1>1, <4>2, SettledBefore
        <4> QED BY <4>1, <4>2, <4>3 DEF InSort
      <3>2. CASE z # x
        <4>1. Present(z)
          BY <2>1, <3>2 DEF Present
        <4>2. IsDirAt(y)
          BY <2>1, <4>1 DEF Sound, DiskInv, Tree
        <4>3. y # x
          BY <1>1, <1>2, <2>1, <4>2 DEF IsDirAt
        <4> QED BY <4>2, <4>3
      <3> QED BY <3>1, <3>2
    <2> QED BY <1>3, <2>1 DEF Tree, Present
  <1>8. Placed'
    <2>1. ASSUME NEW p \in DOMAIN sc.source, Settled(p)' PROVE InSort(p, p)'
      <3>1. Settled(p)
        BY <1>3, <2>1 DEF Settled
      <3>2. p # x
        BY <1>1, <1>2, <3>1
      <3>3. InSort(p, p)
        BY <3>1 DEF Sound, DiskInv, Placed
      <3> QED BY <3>2, <3>3, StaysFacts
    <2> QED BY <2>1 DEF Placed
  <1> QED BY <1>4, <1>5, <1>6, <1>7, <1>8

LEMMA MadeShape ==
    ASSUME Sound, step = "make", step' = "meta", UNCHANGED <<sc, attempt, list, rename>>, NEW x, x = newPath,
           disk'[x] # None, IsDirAt(x)' <=> Src(change).kind = "dir",
           disk'[x] = IF IsLink(change) THEN disk'[Src(change).link] ELSE <<change, attempt>>
    PROVE  ChangeShape'
  <1>1. /\ list # <<>> /\ change \in DOMAIN sc.source /\ change \notin sc.filtered /\ rename \in BOOLEAN
        /\ ~rename => change \notin Lasting
    BY MakingIs
  <1>2. /\ Lasting' = Lasting /\ change' = change /\ newPath' = x
        /\ \A p : Src(p)' = Src(p) /\ (IsLink(p)' <=> IsLink(p))
    BY Static DEF newPath, change, Temp
  <1>3. ListKinds'
    BY DEF Sound, DiskInv, ChangeShape, ListKinds
  <1>4. Present(newPath)' /\ (IsDirAt(newPath)' <=> IsDirAt(x)')
    BY <1>2 DEF Present, IsDirAt, At
  <1> QED BY <1>1, <1>2, <1>3, <1>4 DEF ChangeShape

(* What a link is made to is there.                                        *)
LEMMA LinkIs ==
    ASSUME Sound, list # <<>>, change \in DOMAIN sc.source, IsLink(change), NEW l, l = Src(change).link
    PROVE  /\ l \in DOMAIN sc.source /\ l \in Names /\ l \in Seq(Nat) /\ Before(l, change) /\ l # change /\ ~IsLink(l)
           /\ Src(change).kind = "file" /\ Src(l).kind = "file" /\ Home(change) = l /\ Home(l) = l
           /\ l \notin sc.filtered => Present(l) /\ ~IsDirAt(l)
           /\ ~IsPrefix(change, l)
  <1>1. /\ l \in DOMAIN sc.source /\ Before(l, change) /\ ~IsLink(l)
        /\ Src(change).kind = "file" /\ Src(l).kind = "file" /\ Home(change) = l /\ Home(l) = l
    BY SourceIs DEF Sound, Home
  <1>2. l \in Names /\ l \in Seq(Nat) /\ change \in Seq(Nat)
    BY <1>1, SourceIs DEF Sound
  <1>3. l # change
    BY <1>1, <1>2, BeforeIrreflexive
  <1>4. l \notin sc.filtered => Present(l) /\ ~IsDirAt(l)
    BY <1>1, SettledBefore DEF InSort
  <1>5. ~IsPrefix(change, l)
    <2>1. IsPrefix(change, l) => Before(change, l)
      BY <1>3 DEF Before, IsStrictPrefix
    <2> QED BY <1>1, <1>2, <2>1, BeforeTransitive, BeforeIrreflexive
  <1> QED BY <1>1, <1>2, <1>3, <1>4, <1>5

LEMMA MakesNew ==
    ASSUME NameInv, Handling, step = "make", ~(Src(change).kind = "dir" /\ Present(newPath)), ~IsLink(change),
           NEW m, IsNode(m), m.kind = Src(change).kind, sc.sync => m.n = Src(change).n,
           Create(newPath, <<change, attempt>>, m), step' = "meta",
           UNCHANGED <<sc, attempt, list, rename, files, loop, ctxDone, blame>>
    PROVE  DiskInv' /\ FileInv' /\ Whole'
  <1> DEFINE new == <<change, attempt>>
  <1>0. PICK x : x = newPath
    OBVIOUS
  <1>1. Sound /\ list # <<>>
    BY SoundHere DEF Handling
  <1>2. /\ change \in DOMAIN sc.source /\ change \in Names /\ attempt \in {1, 2} /\ x \in Names
        /\ ~rename => x = change
        /\ Listed(change) /\ 1 \in 1..Len(list) /\ change = list[1].path
        /\ \A i \in 1..Len(list) : list[i].path = change => i = 1
    BY <1>0, <1>1, MakingIs, FirstListed DEF Sound, change
  <1>3. new \in Inodes /\ new # None /\ new[1] = change /\ new[2] = attempt
    BY <1>2 DEF Inodes, None
  <1>4. \A y \in Names : disk[y] # new
    BY <1>1, <1>2, NothingMade
  <1>5. /\ disk' = [y \in Names |-> IF y = x THEN new ELSE disk[y]]
        /\ AreNodes(inode)' /\ Same(inode'[new], m)
        /\ \A j \in Inodes : j # new => Same(inode'[j], inode[j])
    <2> HIDE DEF new
    <2>1. Create(x, new, m)
      BY <1>0 DEF new
    <2> QED BY <1>1, <1>2, <1>3, <2>1, CreateIs DEF Sound, DiskInv
  <1>6. Owned(x, new)
    <2>1. NameOf(x, change)
      BY <1>0, <1>1, <1>2, MakingIs, NewPathIs DEF Sound
    <2> QED BY <1>2, <1>3, <2>1 DEF Owned, Home
  <1> HIDE DEF new
  <1>7. \A y \in Names : Present(y) => disk[y] \in Inodes /\ Same(inode'[disk[y]], inode[disk[y]])
    BY <1>1, <1>4, <1>5 DEF Sound, DiskInv, Owners, Owned
  <1>8. \A y \in Names : y # x => Stays(y)
    BY <1>5, <1>7 DEF Stays, Kept, Same
  <1>9. NodesShape' /\ Owners' /\ Unmade' /\ Tree' /\ Placed'
    <2>1. ~rename => ~Present(change)
      BY <1>1, FreeChange
    <2>2. \A y \in Names : y # x /\ IsDirAt(y) => IsDirAt(y)'
      BY <1>8, StaysFacts
    <2>3. \A p \in DOMAIN sc.source : p # x => Stays(p)
      BY <1>1, <1>8, SourceIs DEF Sound
    <2>4. \A i \in 1..Len(list) : new = <<list[i].path, attempt>> => i = 1 /\ step' = "meta"
      BY <1>2 DEF new
    <2> QED BY <1>0, <1>1, <1>3, <1>5, <1>6, <2>1, <2>2, <2>3, <2>4, EntryMade
  <1>10. ChangeShape'
    <2>1. disk'[x] = new /\ inode'[new].kind = Src(change).kind
      BY <1>2, <1>5 DEF Same
    <2>2. disk'[x] # None /\ (IsDirAt(x)' <=> Src(change).kind = "dir")
      BY <1>3, <2>1 DEF IsDirAt, Present, At
    <2>3. new = <<change, attempt>>
      BY DEF new
    <2> QED BY <1>0, <1>1, <2>1, <2>2, <2>3, MadeShape
  <1>11. FileInv'
    <2>1. ASSUME NEW p \in DOMAIN sc.source, files[p].pc # "off" PROVE Spared(p)
      <3>1. p \in Names /\ InSort(p, p) /\ ~Listed(p)
        BY <2>1, LiveIs DEF NameInv, FileInv
      <3>2. p # x
        <4>1. p # change
          BY <1>2, <3>1
        <4> QED BY <1>0, <1>1, <1>2, <4>1, MakingIs, NewPathIs DEF Sound
      <3> QED BY <1>5, <1>7, <3>1, <3>2 DEF Spared, InSort, Same
    <2> QED BY <2>1, FilesThrough
  <1>12. Whole'
    <2>1. ASSUME sc.sync, NEW y \in Names, disk'[y] # None
          PROVE  \/ inode'[disk'[y]].n = Src(disk'[y][1]).n
                 \/ inode'[disk'[y]].n = inode[disk'[y]].n /\ \E z \in Names : disk'[y] = disk[z]
      <3>1. CASE y = x
        BY <1>2, <1>3, <1>5, <2>1, <3>1 DEF Same
      <3>2. CASE y # x
        BY <1>5, <1>7, <2>1, <3>2 DEF Same, Present
      <3> QED BY <3>1, <3>2
    <2> QED BY <2>1, WholeThrough DEF Present
  <1> QED BY <1>9, <1>10, <1>11, <1>12 DEF DiskInv

(* Link: another name for the inode of the target.                         *)
LinksTo(l) == disk' = [disk EXCEPT ![newPath] = disk[l]] /\ inode' = Touched(inode, newPath)

LEMMA MakesLink ==
    ASSUME NameInv, Handling, step = "make", IsLink(change), NEW l, l = Src(change).link, Present(l), ~IsDirAt(l),
           LinksTo(l), step' = "meta",
           UNCHANGED <<sc, attempt, list, rename, files, loop, ctxDone, blame>>
    PROVE  DiskInv' /\ FileInv' /\ Whole'
  <1>0. PICK x : x = newPath
    OBVIOUS
  <1>1. Sound /\ list # <<>>
    BY SoundHere DEF Handling
  <1>2. /\ change \in DOMAIN sc.source /\ change \in Names /\ attempt \in {1, 2} /\ x \in Names /\ rename \in BOOLEAN
        /\ ~rename => x = change
        /\ Listed(change) /\ NameOf(x, change)
        /\ x = change \/ (rename /\ x \notin DOMAIN sc.source)
    BY <1>0, <1>1, MakingIs, NewPathIs DEF Sound
  <1>3. /\ l \in DOMAIN sc.source /\ l \in Names /\ l # change /\ ~IsLink(l)
        /\ Src(change).kind = "file" /\ Home(change) = l /\ Home(l) = l
    BY <1>1, <1>2, LinkIs
  <1>4. l # x
    BY <1>2, <1>3
  <1>5. PICK v : v = disk[l]
    OBVIOUS
  <1>6. v # None /\ v \in Inodes /\ Owned(l, v)
    BY <1>1, <1>3, <1>5 DEF Sound, DiskInv, Owners, Owned, Present
  <1>7. Owned(x, v)
    <2>1. v[2] # 0 => v[1] = Home(change)
      BY <1>1, <1>3, <1>6, SourceOwned DEF Sound
    <2> QED BY <1>2, <1>6, <2>1 DEF Owned
  <1>8. disk' = [y \in Names |-> IF y = x THEN v ELSE disk[y]]
    BY <1>0, <1>1, <1>5 DEF Sound, DiskInv, NodesShape, LinksTo
  <1>9. AreNodes(inode)' /\ \A j \in Inodes : Same(inode'[j], inode[j])
    BY <1>1, TouchIs DEF Sound, DiskInv, LinksTo
  <1>10. \A y \in Names : Present(y) => disk[y] \in Inodes /\ Same(inode'[disk[y]], inode[disk[y]])
    BY <1>1, <1>9 DEF Sound, DiskInv, Owners, Owned
  <1>11. \A y \in Names : y # x => Stays(y)
    BY <1>8, <1>10 DEF Stays, Kept, Same
  <1>12. NodesShape' /\ Owners' /\ Unmade' /\ Tree' /\ Placed'
    <2>1. ~rename => ~Present(change)
      BY <1>1, <1>3, FreeChange
    <2>2. \A y \in Names : y # x /\ IsDirAt(y) => IsDirAt(y)'
      BY <1>11, StaysFacts
    <2>3. \A p \in DOMAIN sc.source : p # x => Stays(p)
      BY <1>1, <1>11, SourceIs DEF Sound
    <2>4. \A i \in 1..Len(list) : v = <<list[i].path, attempt>> => i = 1 /\ step' = "meta"
      BY <1>1, <1>3, <1>5, NothingMade
    <2>5. UNCHANGED <<sc, attempt, list, rename>> /\ step' \in {"make", "meta"} /\ AreNodes(inode)'
      BY <1>9
    <2> QED BY <1>0, <1>1, <1>6, <1>7, <1>8, <2>1, <2>2, <2>3, <2>4, <2>5, EntryMade
  <1>13. ChangeShape'
    <2>1. disk'[x] = v /\ disk'[l] = v /\ inode'[v].kind = inode[v].kind
      BY <1>2, <1>3, <1>4, <1>5, <1>6, <1>8, <1>9 DEF Same
    <2>2. inode[v].kind # "dir"
      BY <1>5 DEF IsDirAt, At
    <2>3. disk'[x] # None /\ (IsDirAt(x)' <=> Src(change).kind = "dir")
      BY <1>3, <1>6, <2>1, <2>2 DEF IsDirAt, Present, At
    <2> QED BY <1>0, <1>1, <2>1, <2>3, MadeShape
  <1>14. FileInv'
    <2>1. ASSUME NEW p \in DOMAIN sc.source, files[p].pc # "off" PROVE Spared(p)
      <3>1. p \in Names /\ InSort(p, p) /\ ~Listed(p)
        BY <2>1, LiveIs DEF NameInv, FileInv
      <3>2. p # x
        BY <1>2, <3>1
      <3> QED BY <1>8, <1>10, <3>1, <3>2 DEF Spared, InSort, Same
    <2> QED BY <2>1, FilesThrough
  <1>15. Whole'
    <2>1. ASSUME NEW y \in Names, disk'[y] # None
          PROVE  inode'[disk'[y]].n = inode[disk'[y]].n /\ \E z \in Names : disk'[y] = disk[z]
      <3>1. CASE y = x
        BY <1>3, <1>5, <1>6, <1>8, <1>9, <2>1, <3>1 DEF Same
      <3>2. CASE y # x
        BY <1>8, <1>10, <2>1, <3>2 DEF Same, Present
      <3> QED BY <3>1, <3>2
    <2> QED BY <2>1, WholeThrough DEF Present
  <1> QED BY <1>12, <1>13, <1>14, <1>15 DEF DiskInv

LEMMA MakeName ==
    ASSUME NameInv, Make
    PROVE  DiskInv' /\ FileInv' /\ Whole'
  <1>1. /\ Sound /\ list # <<>> /\ Handling /\ step = "make"
        /\ UNCHANGED <<sc, attempt, files, loop>>
    BY SoundHere DEF Make, Handling, AsyncFixed
  <1>2. AreNodes(inode) /\ change \in DOMAIN sc.source
    BY <1>1, MakingIs DEF Sound, DiskInv, NodesShape
  <1>3. CASE /\ Src(change).kind = "dir" /\ Present(newPath) /\ step' = "next"
             /\ UNCHANGED <<diskVars, list, rename, ctxDone, blame>>
    <2>1. UNCHANGED <<disk, inode>>
      BY <1>3 DEF diskVars
    <2>2. /\ Names' = Names /\ Lasting' = Lasting
          /\ \A p : Src(p)' = Src(p) /\ (Listed(p)' <=> Listed(p)) /\ (Settled(p)' <=> Settled(p))
          /\ \A x, p : InSort(x, p)' <=> InSort(x, p)
      BY <1>1, <1>3, <2>1, Static DEF Listed, Settled, InSort, Present, IsDirAt, At
    <2>3. NodesShape'
      BY <1>1, <2>1, <2>2, Static DEF Sound, DiskInv, NodesShape, AreNodes, IsNode
    <2>4. Owners'
      BY <1>1, <2>1, <2>2, OwnedStays DEF Sound, DiskInv, Owners, Present
    <2>5. Tree'
      BY <1>1, <2>1, TreeStays DEF Sound, DiskInv, Stays, Kept
    <2>6. Placed'
      BY <1>1, <2>2 DEF Sound, DiskInv, Placed
    <2>7. Unmade'
      BY <1>1, <1>3, <2>1, <2>2, NothingMade DEF Unmade
    <2>8. ListKinds' /\ rename' \in BOOLEAN
      BY <1>1, <1>3 DEF Sound, DiskInv, ChangeShape, ListKinds
    <2>9. ChangeShape'
      BY <1>3, <2>8 DEF ChangeShape
    <2>10. FileInv' /\ Whole'
      BY <1>1, <1>3, <2>1, FilesSpared
    <2> QED BY <2>3, <2>4, <2>5, <2>6, <2>7, <2>9, <2>10 DEF DiskInv
  <1>4. CASE /\ IsLink(change) /\ (~Present(Src(change).link) \/ IsDirAt(Src(change).link))
             /\ Fail /\ DiskFixed
             /\ blame' = IF Src(change).link \in sc.filtered THEN blame \cup {"filter"} ELSE blame
    <2>1. UNCHANGED <<disk, inode, list, step, rename>>
      BY <1>4 DEF Fail, DiskFixed, diskVars
    <2>2. DiskInv'
      BY <1>1, <1>2, <2>1, DiskStays, Static DEF Kept, AreNodes, IsNode
    <2>3. Src(change).link \in sc.filtered
      BY <1>1, <1>2, <1>4, LinkIs
    <2>4. blame' = blame \cup {"filter"}
      BY <1>4, <2>3
    <2> QED BY <1>1, <2>1, <2>2, <2>4, FilesSpared
  <1>5. CASE /\ IsLink(change) /\ Present(Src(change).link) /\ ~IsDirAt(Src(change).link)
             /\ disk' = [disk EXCEPT ![newPath] = disk[Src(change).link]] /\ inode' = Touched(inode, newPath)
             /\ step' = "meta" /\ UNCHANGED <<list, rename, ctxDone, blame>>
    <2>1. PICK l : l = Src(change).link
      OBVIOUS
    <2> QED BY <1>1, <1>5, <2>1, MakesLink DEF LinksTo
  <1>6. CASE /\ ~IsLink(change) /\ (Src(change).kind = "dir" => ~Present(newPath))
             /\ Create(newPath, <<change, attempt>>,
                       Node(Src(change).kind, "src", IF sc.sync THEN Src(change).n ELSE 0, "fresh", "now"))
             /\ step' = "meta" /\ UNCHANGED <<list, rename, ctxDone, blame>>
    <2>1. PICK m : m = Node(Src(change).kind, "src", IF sc.sync THEN Src(change).n ELSE 0, "fresh", "now")
      OBVIOUS
    <2>2. IsNode(m) /\ m.kind = Src(change).kind /\ (sc.sync => m.n = Src(change).n)
      BY <2>1 DEF IsNode, Node
    <2> QED BY <1>1, <1>6, <2>1, <2>2, MakesNew
  <1>7. \/ Src(change).kind = "dir" /\ Present(newPath) /\ step' = "next" /\ UNCHANGED <<diskVars, list, rename, ctxDone, blame>>
        \/ /\ IsLink(change) /\ (~Present(Src(change).link) \/ IsDirAt(Src(change).link))
           /\ Fail /\ DiskFixed
           /\ blame' = IF Src(change).link \in sc.filtered THEN blame \cup {"filter"} ELSE blame
        \/ /\ IsLink(change) /\ Present(Src(change).link) /\ ~IsDirAt(Src(change).link)
           /\ disk' = [disk EXCEPT ![newPath] = disk[Src(change).link]] /\ inode' = Touched(inode, newPath)
           /\ step' = "meta" /\ UNCHANGED <<list, rename, ctxDone, blame>>
        \/ /\ ~IsLink(change) /\ (Src(change).kind = "dir" => ~Present(newPath))
           /\ Create(newPath, <<change, attempt>>,
                     Node(Src(change).kind, "src", IF sc.sync THEN Src(change).n ELSE 0, "fresh", "now"))
           /\ step' = "meta" /\ UNCHANGED <<list, rename, ctxDone, blame>>
    BY DEF Make
  <1> QED BY <1>3, <1>4, <1>5, <1>6, <1>7

LEMMA OtherMkdirName ==
    ASSUME NameInv, OtherMkdir
    PROVE  DiskInv' /\ FileInv' /\ Whole'
  <1> DEFINE new == <<change, 3>>
             m == Node("dir", "src", 0, "fresh", "now")
  <1>0. PICK x : x = newPath
    OBVIOUS
  <1>1. /\ Sound /\ list # <<>> /\ step = "make" /\ ~rename /\ Src(change).kind = "dir" /\ ~Present(change)
        /\ Create(change, new, m)
        /\ UNCHANGED <<sc, attempt, ctxDone, blame, files, loop, list, step, rename>>
    BY SoundHere DEF OtherMkdir, Handling, AsyncFixed, DiffFixed
  <1>2. /\ change \in DOMAIN sc.source /\ change \in Names /\ attempt \in {1, 2} /\ x = change
        /\ change \notin sc.filtered /\ change \notin Lasting /\ Listed(change)
    BY <1>0, <1>1, MakingIs
  <1>3. /\ new \in Inodes /\ new # None /\ new[1] = change /\ new[2] = 3
        /\ ~IsLink(change) /\ Home(change) = change /\ Src(change).n = 0
    BY <1>1, <1>2, SourceIs DEF Inodes, None, Sound, Home
  <1>4. IsNode(m) /\ m.kind = "dir" /\ m.n = 0
    BY DEF IsNode, Node
  <1> HIDE DEF m, new
  <1>5. /\ disk' = [y \in Names |-> IF y = x THEN new ELSE disk[y]]
        /\ AreNodes(inode)' /\ Same(inode'[new], m)
        /\ \A j \in Inodes : j # new => Same(inode'[j], inode[j])
    <2>1. Create(x, new, m) /\ NodesShape
      BY <1>1, <1>2 DEF Sound, DiskInv
    <2> QED BY <1>1, <1>2, <1>3, <1>4, <2>1, CreateIs
  <1>6. Owned(x, new)
    BY <1>2, <1>3 DEF Owned, NameOf
  <1>7. \A y \in Names : Present(y) => disk[y] \in Inodes
    BY <1>1 DEF Sound, DiskInv, Owners, Owned
  <1>8. \A p \in DOMAIN sc.source : p # x => disk[p] # new /\ Stays(p)
    <2>1. ASSUME NEW p \in DOMAIN sc.source, p # x, disk[p] = new PROVE FALSE
      <3>1. Owned(p, new) /\ p \in Names
        BY <1>1, <1>3, <2>1, SourceIs DEF Sound, DiskInv, Owners, Present
      <3>2. change = Home(p)
        BY <1>1, <1>3, <3>1, SourceOwned DEF Sound
      <3>3. IsLink(p)
        BY <1>2, <2>1, <3>2 DEF Home
      <3>4. Src(Src(p).link).kind = "file"
        BY <1>1, <3>3, SourceIs DEF Sound
      <3> QED BY <1>1, <3>2, <3>3, <3>4 DEF Home
    <2>2. ASSUME NEW p \in DOMAIN sc.source, p # x PROVE Stays(p)
      <3>1. p \in Names /\ disk[p] # new
        BY <1>1, <2>1, <2>2, SourceIs DEF Sound
      <3> QED BY <1>5, <1>7, <2>2, <3>1 DEF Stays, Kept, Same
    <2> QED BY <2>1, <2>2
  <1>9. NodesShape' /\ Owners' /\ Unmade' /\ Tree' /\ Placed'
    <2>1. ASSUME NEW y \in Names, y # x, IsDirAt(y) PROVE IsDirAt(y)'
      <3>1. disk'[y] = disk[y] /\ disk[y] # None /\ inode[disk[y]].kind = "dir" /\ disk[y] \in Inodes
        BY <1>5, <1>7, <2>1 DEF IsDirAt, Present, At
      <3>2. inode'[disk[y]].kind = "dir"
        BY <1>4, <1>5, <3>1 DEF Same
      <3> QED BY <3>1, <3>2 DEF IsDirAt, Present, At
    <2>2. \A i \in 1..Len(list) : new # <<list[i].path, attempt>>
      BY <1>2, <1>3
    <2> QED BY <1>0, <1>1, <1>3, <1>5, <1>6, <1>8, <2>1, <2>2, EntryMade
  <1>10. ChangeShape'
    <2>1. /\ Lasting' = Lasting /\ change' = change /\ \A p : Src(p)' = Src(p)
      BY <1>1, Static DEF change
    <2>2. ListKinds'
      BY <1>1 DEF Sound, DiskInv, ChangeShape, ListKinds
    <2>3. Src(change)'.kind = "dir"
      BY <1>1 DEF Src, change
    <2>4. /\ step' = "make" /\ rename' = FALSE /\ list' # <<>> /\ change' \in DOMAIN sc'.source
          /\ change' \notin sc'.filtered /\ change' \notin Lasting'
      BY <1>1, <1>2, <2>1
    <2> QED BY <2>2, <2>3, <2>4 DEF ChangeShape
  <1>11. FileInv'
    <2>1. ASSUME NEW p \in DOMAIN sc.source, files[p].pc # "off" PROVE Spared(p)
      <3>1. p \in Names /\ disk[p] \in Inodes /\ ~Listed(p)
        BY <2>1, LiveIs DEF NameInv, FileInv
      <3>2. p # x
        BY <1>2, <3>1
      <3> QED BY <1>5, <1>8, <3>1, <3>2 DEF Spared, Same
    <2> QED BY <1>1, <2>1, FilesThrough
  <1>12. Whole'
    <2>1. ASSUME NEW y \in Names, disk'[y] # None
          PROVE  \/ inode'[disk'[y]].n = Src(disk'[y][1]).n
                 \/ inode'[disk'[y]].n = inode[disk'[y]].n /\ \E z \in Names : disk'[y] = disk[z]
      <3>1. CASE disk'[y] = new
        BY <1>3, <1>4, <1>5, <3>1 DEF Same
      <3>2. CASE disk'[y] # new
        BY <1>5, <1>7, <2>1, <3>2 DEF Same, Present
      <3> QED BY <3>1, <3>2
    <2> QED BY <1>1, <2>1, WholeThrough DEF Present
  <1> QED BY <1>9, <1>10, <1>11, <1>12 DEF DiskInv

-----------------------------------------------------------------------------
(* The entry that was made gets its metadata and its place.                *)
LEMMA NodesStay ==
    ASSUME Sound, UNCHANGED <<sc, disk, attempt>>, AreNodes(inode)', \A i \in Inodes : Kept(i)
    PROVE  /\ NodesShape' /\ Owners' /\ Tree' /\ disk' = [x \in Names |-> disk'[x]]
           /\ \A x \in Names : Stays(x)
           /\ \A p \in DOMAIN sc.source : Settled(p) => InSort(p, p)'
  <1>1. \A x \in Names : Stays(x)
    BY DEF Stays, Sound, DiskInv, Owners, Owned
  <1>2. NodesShape' /\ disk' = [x \in Names |-> disk'[x]]
    BY Static DEF Sound, DiskInv, NodesShape
  <1>3. Owners'
    BY Static, OwnedStays DEF Sound, DiskInv, Owners, Present
  <1>4. Tree'
    BY <1>1, TreeStays DEF Sound, DiskInv
  <1>5. ASSUME NEW p \in DOMAIN sc.source, Settled(p) PROVE InSort(p, p)'
    BY <1>1, <1>5, SourceIs, StaysFacts DEF Sound, DiskInv, Placed
  <1> QED BY <1>1, <1>2, <1>3, <1>4, <1>5

LEMMA HandOverIs ==
    ASSUME FilesShape, HandOver, change \in DOMAIN sc.source
    PROVE  /\ list' = Tail(list) /\ step' = "next"
           /\ \A p \in DOMAIN sc.source :
                /\ files'[p].f = files[p].f /\ files'[p].closed = files[p].closed /\ files'[p].saved = files[p].saved
                /\ files'[p].pc = "failed" => files[p].pc = "failed"
                /\ files[p].pc = "off" /\ files'[p].pc # "off" =>
                     p = change /\ ~sc.sync /\ Src(p).kind = "file" /\ ~IsLink(p)
  <1>1. list' = Tail(list) /\ step' = "next"
    BY DEF HandOver, Returns
  <1>2. CASE files' = files
    BY <1>1, <1>2
  <1>3. CASE files' # files
    <2>1. files' = Goto(change, "start") /\ Src(change).kind = "file" /\ ~IsLink(change) /\ ~sc.sync
      BY <1>3 DEF HandOver, Goto
    <2>2. Only(change, [pc |-> "start", f |-> files[change].f, saved |-> files[change].saved,
                        closed |-> files[change].closed, done |-> files[change].done])
      BY <2>1, GotoIs
    <2>3. \A p \in DOMAIN sc.source : p # change => files'[p] = files[p]
      BY <2>2 DEF Only
    <2>4. /\ files'[change].pc = "start" /\ files'[change].f = files[change].f
          /\ files'[change].closed = files[change].closed /\ files'[change].saved = files[change].saved
      BY <2>2 DEF Only
    <2> QED BY <1>1, <2>1, <2>3, <2>4
  <1> QED BY <1>2, <1>3

(* What was made at newPath.                                               *)
LEMMA MadeIs ==
    ASSUME NameInv, step \in {"meta", "swap"}, NEW x, x = newPath
    PROVE  /\ Sound /\ list # <<>> /\ change \in DOMAIN sc.source /\ change \notin sc.filtered
           /\ x \in Names /\ Present(x) /\ disk[x] \in Inodes
           /\ (IsDirAt(x) <=> Src(change).kind = "dir")
           /\ ~IsLink(change) => disk[x] = <<change, attempt>>
           /\ disk[x][2] # 0 => disk[x][1] = Home(change)
           /\ \A p \in DOMAIN sc.source : files[p].pc # "off" /\ disk[p] = disk[x] => Src(change).link = p
           /\ \A p \in DOMAIN sc.source : files[p].pc # "off" => p # change /\ p # x
  <1>1. Sound /\ step # "next"
    BY SoundHere
  <1>2. /\ list # <<>> /\ change \in DOMAIN sc.source /\ change \notin sc.filtered /\ Listed(change)
        /\ attempt \in {1, 2} /\ rename \in BOOLEAN /\ x \in Names
    BY <1>1, MakingIs
  <1>3. /\ Present(x) /\ (IsDirAt(x) <=> Src(change).kind = "dir")
        /\ disk[x] = IF IsLink(change) THEN disk[Src(change).link] ELSE <<change, attempt>>
    BY <1>1 DEF Sound, DiskInv, ChangeShape
  <1>4. disk[x] \in Inodes
    BY <1>1, <1>2, <1>3 DEF Sound, DiskInv, Owners, Owned
  <1> DEFINE Whose ==
               /\ disk[x][2] # 0 => disk[x][1] = Home(change)
               /\ \A p \in DOMAIN sc.source : files[p].pc # "off" /\ disk[p] = disk[x] => Src(change).link = p
  <1>5. ASSUME IsLink(change) PROVE Whose
    <2>1. PICK l : l = Src(change).link
      OBVIOUS
    <2>2. l \in DOMAIN sc.source /\ l \in Names /\ Home(change) = l /\ Home(l) = l
      BY <1>1, <1>2, <1>5, <2>1, LinkIs
    <2>3. disk[x] = disk[l] /\ Present(l)
      BY <1>3, <1>5, <2>1 DEF Present
    <2>4. disk[l][2] # 0 => disk[l][1] = l
      BY <1>1, <2>2, <2>3, SourceOwned DEF Sound, DiskInv, Owners
    <2>5. ASSUME NEW p \in DOMAIN sc.source, files[p].pc # "off", disk[p] = disk[x] PROVE Src(change).link = p
      <3>1. disk[l] = <<p, attempt>>
        BY <2>3, <2>5, LiveIs DEF NameInv, FileInv
      <3> QED BY <1>2, <2>1, <2>4, <3>1
    <2> QED BY <2>2, <2>3, <2>4, <2>5
  <1>6. ASSUME ~IsLink(change) PROVE Whose
    <2>1. disk[x] = <<change, attempt>> /\ Home(change) = change
      BY <1>3, <1>6 DEF Home
    <2>2. ASSUME NEW p \in DOMAIN sc.source, files[p].pc # "off", disk[p] = disk[x] PROVE FALSE
      <3>1. disk[p] = <<p, attempt>> /\ ~Listed(p)
        BY <2>2, LiveIs DEF NameInv, FileInv
      <3>2. p = change
        BY <2>1, <2>2, <3>1
      <3> QED BY <1>2, <3>1, <3>2
    <2> QED BY <1>2, <2>1, <2>2
  <1>7. ASSUME NEW p \in DOMAIN sc.source, files[p].pc # "off" PROVE p # change /\ p # x
    <2>1. p # change
      BY <1>2, <1>7, LiveIs DEF NameInv, FileInv
    <2> QED BY <1>1, <1>2, <2>1, NewPathIs DEF Sound
  <1>8. /\ disk[x][2] # 0 => disk[x][1] = Home(change)
        /\ \A p \in DOMAIN sc.source : files[p].pc # "off" /\ disk[p] = disk[x] => Src(change).link = p
    BY <1>5, <1>6
  <1> QED BY <1>1, <1>2, <1>3, <1>4, <1>7, <1>8

LEMMA MetaName ==
    ASSUME NameInv, Meta
    PROVE  DiskInv' /\ FileInv' /\ Whole'
  <1>0. PICK x : x = newPath
    OBVIOUS
  <1>1. /\ step = "meta" /\ rewriteMetadata(x, change) /\ UNCHANGED <<disk, sc, attempt, rename, loop, ctxDone, blame>>
    BY <1>0 DEF Meta
  <1>2. /\ Sound /\ list # <<>> /\ change \in DOMAIN sc.source /\ change \notin sc.filtered
        /\ x \in Names /\ Present(x) /\ disk[x] \in Inodes
        /\ (IsDirAt(x) <=> Src(change).kind = "dir")
        /\ ~IsLink(change) => disk[x] = <<change, attempt>>
        /\ \A p \in DOMAIN sc.source : files[p].pc # "off" /\ disk[p] = disk[x] => Src(change).link = p
    BY <1>0, <1>1, MadeIs
  <1>3. /\ AreNodes(inode)'
        /\ \A i \in Inodes : /\ inode'[i].kind = inode[i].kind /\ inode'[i].n = inode[i].n
                             /\ inode'[i].mode = IF i = disk[x] THEN Src(change).mode ELSE inode[i].mode
    <2>1. AreNodes(inode)' /\ Rewritten(disk[x], Src(change).mode)
      BY <1>1, <1>2, MetadataIs DEF Sound, DiskInv, NodesShape
    <2> QED BY <2>1 DEF Rewritten
  <1>4. Src(change).mode # "fresh"
    BY <1>2, SourceIs DEF Sound
  <1>5. \A i \in Inodes : Kept(i)
    BY <1>3, <1>4 DEF Kept
  <1>6. /\ NodesShape' /\ Owners' /\ Tree' /\ disk' = [y \in Names |-> disk'[y]]
        /\ \A y \in Names : Stays(y)
        /\ \A p \in DOMAIN sc.source : Settled(p) => InSort(p, p)'
    BY <1>1, <1>2, <1>3, <1>5, NodesStay
  <1>7. /\ Present(x)' /\ (IsDirAt(x)' <=> Src(change).kind = "dir") /\ At(x)'.mode # "fresh"
    <2>1. Present(x)' /\ (IsDirAt(x)' <=> IsDirAt(x))
      BY <1>2, <1>6, StaysFacts, <1>1
    <2> QED BY <1>1, <1>2, <1>3, <1>4, <2>1 DEF At
  <1>8. \A p \in DOMAIN sc.source : files[p].pc # "off" => Spared(p)
    <2>1. ASSUME NEW p \in DOMAIN sc.source, files[p].pc # "off" PROVE Spared(p)
      <3>1. disk[p] \in Inodes
        BY <2>1, LiveIs DEF NameInv, FileInv
      <3> QED BY <1>1, <1>2, <1>3, <2>1, <3>1 DEF Spared
    <2> QED BY <2>1
  <1>9. Whole'
    <2>1. ASSUME NEW y \in Names, Present(y)' PROVE inode'[disk'[y]].n = inode[disk'[y]].n /\ disk'[y] = disk[y]
      <3>1. disk[y] \in Inodes /\ disk'[y] = disk[y]
        BY <1>1, <1>2, <2>1 DEF Sound, DiskInv, Owners, Owned, Present
      <3> QED BY <1>3, <3>1
    <2> QED BY <1>1, <2>1, WholeThrough
  <1>10. CASE rename /\ step' = "swap" /\ UNCHANGED <<list, files>>
    <2>1. /\ Names' = Names /\ Lasting' = Lasting /\ newPath' = x /\ change' = change
          /\ \A p : Src(p)' = Src(p) /\ (IsLink(p)' <=> IsLink(p)) /\ (Settled(p)' <=> Settled(p))
      BY <1>0, <1>1, <1>10, Static DEF newPath, change, Temp, Settled, Listed
    <2>2. Unmade'
      <3>1. \A y \in Names, i \in 1..Len(list) : disk[y] = <<list[i].path, attempt>> => i = 1 /\ y = x
        BY <1>0, <1>2 DEF Sound, DiskInv, Unmade
      <3> QED BY <1>1, <1>10, <2>1, <3>1 DEF Unmade
    <2>3. Placed'
      BY <1>1, <1>6, <2>1 DEF Placed
    <2>4. ChangeShape'
      <3>1. ListKinds'
        BY <1>1, <1>2, <1>10 DEF Sound, DiskInv, ChangeShape, ListKinds
      <3>2. /\ Present(newPath)' <=> Present(x)'
            /\ IsDirAt(newPath)' <=> IsDirAt(x)'
            /\ At(newPath)' = At(x)'
        BY <2>1 DEF Present, IsDirAt, At
      <3>3. disk[x] = IF IsLink(change) THEN disk[Src(change).link] ELSE <<change, attempt>>
        BY <1>0, <1>1, <1>2 DEF Sound, DiskInv, ChangeShape
      <3>4. Src(change)' = Src(change) /\ (IsLink(change)' <=> IsLink(change))
        BY <1>1, <2>1 DEF Src, IsLink
      <3> QED BY <1>1, <1>2, <1>7, <1>10, <2>1, <3>1, <3>2, <3>3, <3>4 DEF ChangeShape
    <2>5. DiskInv'
      BY <1>6, <2>2, <2>3, <2>4 DEF DiskInv
    <2>6. FileInv'
      BY <1>1, <1>8, <1>10, FilesThrough
    <2> QED BY <1>9, <2>5, <2>6
  <1>11. CASE ~rename /\ HandOver
    <2>1. x = change
      BY <1>0, <1>11 DEF newPath
    <2>2. /\ list' = Tail(list) /\ step' = "next"
          /\ \A p \in DOMAIN sc.source :
               /\ files'[p].f = files[p].f /\ files'[p].closed = files[p].closed /\ files'[p].saved = files[p].saved
               /\ files'[p].pc = "failed" => files[p].pc = "failed"
               /\ files[p].pc = "off" /\ files'[p].pc # "off" =>
                    p = change /\ ~sc.sync /\ Src(p).kind = "file" /\ ~IsLink(p)
      BY <1>2, <1>11, HandOverIs DEF NameInv, OpenInv
    <2>3. DiskInv'
      <3>1. \A y \in Names : Present(y)' => Owned(y, disk'[y]) /\ \E z \in Names : disk'[y] = disk[z]
        BY <1>1, <1>2 DEF Sound, DiskInv, Owners, Present
      <3>2. ASSUME NEW p \in DOMAIN sc.source, p = change PROVE InSort(p, p)'
        BY <1>1, <1>7, <2>1, <3>2, Static DEF InSort
      <3>3. rename' \in BOOLEAN
        BY <1>1, <1>2 DEF Sound, DiskInv, ChangeShape
      <3> QED BY <1>1, <1>2, <1>3, <1>6, <2>2, <3>1, <3>2, <3>3, ReturnsDisk
    <2>4. FileInv'
      <3>1. ASSUME NEW p \in DOMAIN sc.source, files[p].pc = "off", files'[p].pc # "off" PROVE Starts(p)
        BY <1>1, <1>2, <2>1, <2>2, <3>1 DEF Starts
      <3> QED BY <1>1, <1>8, <2>2, <3>1, FilesThrough
    <2> QED BY <1>9, <2>3, <2>4
  <1> QED BY <1>10, <1>11 DEF Meta

(* What is of another sort is removed; then the rename.                    *)
LEMMA SwapRemoves ==
    ASSUME NameInv, step = "swap", Differs, RemoveAll(change),
           UNCHANGED <<sc, attempt, list, step, rename, files, loop, ctxDone, blame>>
    PROVE  DiskInv' /\ FileInv' /\ Whole'
  <1>0. PICK x : x = newPath
    OBVIOUS
  <1>1. /\ Sound /\ list # <<>> /\ change \in DOMAIN sc.source /\ change \notin sc.filtered
        /\ x \in Names /\ Present(x) /\ (IsDirAt(x) <=> Src(change).kind = "dir")
        /\ \A p \in DOMAIN sc.source : files[p].pc # "off" => p # change
    BY <1>0, MadeIs
  <1>2. /\ change \in Names /\ change \in Seq(Nat) /\ attempt \in {1, 2} /\ rename /\ At(x).mode # "fresh"
    BY <1>0, <1>1, SourceIs DEF Sound, DiskInv, ChangeShape, NodesShape
  <1>3. ~IsPrefix(change, x)
    BY <1>0, <1>1, <1>2, NewPathIs DEF Sound
  <1>4. /\ AreNodes(inode)' /\ \A i \in Inodes : Same(inode'[i], inode[i])
        /\ disk' = [y \in Names |-> disk'[y]] /\ Tree'
        /\ \A y \in Names : IF IsPrefix(change, y) THEN ~Present(y)' ELSE Stays(y)
    BY <1>1, <1>2, RemoveAllIs
  <1>5. \A y \in Names : Present(y)' => Stays(y) /\ Present(y)
    BY <1>4, StaysFacts
  <1>6. \A p \in DOMAIN sc.source : Settled(p) => p # change /\ InSort(p, p) /\ Stays(p)
    <2>1. ASSUME NEW p \in DOMAIN sc.source, Settled(p) PROVE p # change /\ InSort(p, p) /\ Stays(p)
      <3>1. InSort(p, p) /\ p \in Names /\ p \in Seq(Nat)
        BY <1>1, <2>1, SourceIs DEF Sound, DiskInv, Placed
      <3>2. p # change
        BY <3>1 DEF InSort, Differs, IsDirAt, Present
      <3>3. ASSUME IsPrefix(change, p) PROVE FALSE
        <4>1. IsStrictPrefix(change, p)
          BY <3>2, <3>3 DEF IsStrictPrefix
        <4>2. Src(change).kind = "dir"
          BY <1>1, <1>2, <4>1, SourceTree DEF Sound
        <4>3. IsDirAt(change)
          BY <1>1, <1>2, <3>1, <4>1 DEF Sound, DiskInv, Tree, InSort
        <4> QED BY <4>2, <4>3 DEF Differs
      <3> QED BY <1>4, <3>1, <3>2, <3>3
    <2> QED BY <2>1
  <1>7. /\ Names' = Names /\ Lasting' = Lasting /\ newPath' = x /\ change' = change
        /\ \A p : Src(p)' = Src(p) /\ (IsLink(p)' <=> IsLink(p)) /\ (Settled(p)' <=> Settled(p))
    BY <1>0, Static DEF newPath, change, Temp, Settled, Listed
  <1>8. NodesShape' /\ Owners'
    BY <1>1, <1>4, <1>5, <1>7, OwnedStays DEF Sound, DiskInv, NodesShape, Owners, Stays
  <1>9. Unmade'
    <2>1. ASSUME NEW y \in Names, NEW i \in 1..Len(list), disk'[y] = <<list[i].path, attempt>> PROVE i = 1 /\ y = x
      <3>1. disk'[y] # None
        BY <2>1 DEF None
      <3>2. disk[y] = <<list[i].path, attempt>>
        BY <1>5, <2>1, <3>1 DEF Present, Stays
      <3> QED BY <1>0, <1>1, <3>2 DEF Sound, DiskInv, Unmade
    <2> QED BY <1>7, <2>1 DEF Unmade
  <1>10. Placed'
    BY <1>6, <1>7, StaysFacts DEF Placed
  <1>11. ChangeShape'
    <2>1. ListKinds'
      BY <1>1 DEF Sound, DiskInv, ChangeShape, ListKinds
    <2>2. Stays(x)
      BY <1>1, <1>3, <1>4
    <2>3. Present(x)' /\ (IsDirAt(x)' <=> IsDirAt(x)) /\ At(x)'.mode # "fresh"
      BY <1>1, <1>2, <2>2, StaysFacts
    <2>4. /\ Present(newPath)' <=> Present(x)'
          /\ IsDirAt(newPath)' <=> IsDirAt(x)'
          /\ At(newPath)' = At(x)'
      BY <1>7 DEF Present, IsDirAt, At
    <2>5. Src(change)' = Src(change) /\ (IsLink(change)' <=> IsLink(change))
      BY <1>7 DEF Src, IsLink
    <2>6. disk'[x] = IF IsLink(change) THEN disk'[Src(change).link] ELSE <<change, attempt>>
      <3>1. disk'[x] = disk[x] /\ disk[x] = IF IsLink(change) THEN disk[Src(change).link] ELSE <<change, attempt>>
        BY <1>0, <1>1, <2>2 DEF Sound, DiskInv, ChangeShape, Stays
      <3>2. CASE IsLink(change)
        <4>1. PICK l : l = Src(change).link
          OBVIOUS
        <4>2. l \in Names /\ ~IsPrefix(change, l)
          BY <1>1, <3>2, <4>1, LinkIs
        <4> QED BY <1>4, <3>1, <3>2, <4>1, <4>2 DEF Stays
      <3> QED BY <3>1, <3>2
    <2> QED BY <1>1, <1>2, <1>7, <2>1, <2>3, <2>4, <2>5, <2>6 DEF ChangeShape
  <1>12. FileInv'
    <2>1. ASSUME NEW p \in DOMAIN sc.source, files[p].pc # "off" PROVE Spared(p)
      <3>1. Settled(p) /\ disk[p] \in Inodes
        BY <2>1, LiveIs DEF NameInv, FileInv
      <3> QED BY <1>4, <1>6, <3>1 DEF Spared, Stays, Same
    <2> QED BY <2>1, FilesThrough
  <1>13. Whole'
    <2>1. ASSUME NEW y \in Names, Present(y)' PROVE inode'[disk'[y]].n = inode[disk'[y]].n /\ disk'[y] = disk[y]
      <3>1. disk[y] \in Inodes /\ disk'[y] = disk[y]
        BY <1>1, <1>5, <2>1 DEF Sound, DiskInv, Owners, Owned, Stays
      <3> QED BY <1>4, <3>1 DEF Same
    <2> QED BY <2>1, WholeThrough
  <1> QED BY <1>4, <1>8, <1>9, <1>10, <1>11, <1>12, <1>13 DEF DiskInv

LEMMA RenameIs ==
    ASSUME NodesShape, NEW x \in Names, NEW c \in Names, x # c, disk[x] # None, Rename(x, c)
    PROVE  /\ disk' = [y \in Names |-> disk'[y]] /\ disk'[c] = disk[x]
           /\ \A y \in Names : y # c /\ y # x => disk'[y] = disk[y]
           /\ disk'[x] \in {disk[x], None}
  <1>1. CASE disk[x] = disk[c]
    BY <1>1 DEF Rename, NodesShape
  <1>2. CASE disk[x] # disk[c]
    <2>1. disk' = [[disk EXCEPT ![c] = disk[x]] EXCEPT ![x] = None]
      BY <1>2 DEF Rename
    <2>2. disk' = [y \in Names |-> IF y = x THEN None ELSE IF y = c THEN disk[x] ELSE disk[y]]
      BY <2>1 DEF NodesShape
    <2> QED BY <2>2
  <1> QED BY <1>1, <1>2

LEMMA SwapRenames ==
    ASSUME NameInv, step = "swap", ~Differs, Rename(newPath, change), HandOver,
           UNCHANGED <<sc, attempt, rename, loop, ctxDone, blame>>
    PROVE  DiskInv' /\ FileInv' /\ Whole'
  <1>0. PICK x : x = newPath
    OBVIOUS
  <1>1. PICK c : c = change
    OBVIOUS
  <1>2. /\ Sound /\ list # <<>> /\ c \in DOMAIN sc.source /\ c \notin sc.filtered
        /\ x \in Names /\ Present(x) /\ disk[x] \in Inodes
        /\ (IsDirAt(x) <=> Src(c).kind = "dir")
        /\ ~IsLink(c) => disk[x] = <<c, attempt>>
        /\ disk[x][2] # 0 => disk[x][1] = Home(c)
        /\ \A p \in DOMAIN sc.source : files[p].pc # "off" => p # c /\ p # x
    BY <1>0, <1>1, MadeIs
  <1>3. c \in Names /\ rename /\ At(x).mode # "fresh" /\ attempt \in {1, 2}
    BY <1>0, <1>2, SourceIs DEF Sound, DiskInv, ChangeShape, NodesShape
  <1>4. /\ x \notin DOMAIN sc.source /\ x # c
        /\ \A y \in Names : ~IsStrictPrefix(x, y)
        /\ \A y \in Names : IsStrictPrefix(y, x) <=> IsStrictPrefix(y, c)
    BY <1>0, <1>1, <1>2, <1>3, NewPathIs DEF Sound, Paths
  <1>5. /\ disk' = [y \in Names |-> disk'[y]] /\ disk'[c] = disk[x]
        /\ \A y \in Names : y # c /\ y # x => disk'[y] = disk[y]
        /\ disk'[x] \in {disk[x], None}
    <2>1. Rename(x, c) /\ disk[x] # None /\ NodesShape
      BY <1>0, <1>1, <1>2 DEF Present, Sound, DiskInv
    <2> QED BY <1>2, <1>3, <1>4, <2>1, RenameIs
  <1>6. AreNodes(inode)' /\ \A i \in Inodes : Same(inode'[i], inode[i])
    <2>1. inode' = Touched(inode, c) /\ NodesShape
      BY <1>1, <1>2 DEF Rename, Sound, DiskInv
    <2> QED BY <2>1, TouchIs
  <1>7. \A y \in Names : Present(y) => disk[y] \in Inodes
    BY <1>2 DEF Sound, DiskInv, Owners, Owned
  <1>8. \A y \in Names : y # c /\ y # x => Stays(y)
    BY <1>5, <1>6, <1>7 DEF Stays, Kept, Same
  <1>9. Present(c)' /\ (IsDirAt(c)' <=> Src(c).kind = "dir") /\ At(c)'.mode # "fresh"
    BY <1>2, <1>3, <1>5, <1>6 DEF Present, IsDirAt, At, Same
  <1>10. \A y \in Names : disk'[y] # None =>
           /\ Owned(y, disk'[y]) /\ disk'[y] \in Inodes
           /\ IF y = c THEN disk'[y] = disk[x] ELSE disk'[y] = disk[y]
    <2>1. ASSUME NEW y \in Names, disk'[y] # None PROVE IF y = c THEN disk'[y] = disk[x] ELSE disk'[y] = disk[y]
      BY <1>5, <2>1
    <2>2. Owned(c, disk[x])
      <3>1. Owned(x, disk[x])
        BY <1>2 DEF Sound, DiskInv, Owners
      <3>2. NameOf(c, c)
        BY DEF NameOf
      <3> QED BY <1>2, <3>1, <3>2 DEF Owned
    <2>3. ASSUME NEW y \in Names, disk'[y] # None PROVE Owned(y, disk'[y])
      <3>1. CASE y = c
        BY <1>5, <2>2, <3>1
      <3>2. CASE y # c
        BY <1>2, <2>1, <2>3, <3>2 DEF Sound, DiskInv, Owners, Present
      <3> QED BY <3>1, <3>2
    <2> QED BY <2>1, <2>3 DEF Owned
  <1>11. Tree'
    <2>1. ASSUME NEW y \in Names, NEW z \in Names, disk'[z] # None, IsStrictPrefix(y, z) PROVE IsDirAt(y)'
      <3>1. y # x
        BY <1>4, <2>1
      <3>2. IsDirAt(y)
        <4>1. CASE z = c
          BY <1>2, <1>4, <2>1, <4>1 DEF Sound, DiskInv, Tree
        <4>2. CASE z # c
          BY <1>2, <1>10, <2>1, <4>2 DEF Sound, DiskInv, Tree, Present
        <4> QED BY <4>1, <4>2
      <3>3. CASE y = c
        <4>1. Src(c).kind = "dir"
          BY <1>1, <3>2, <3>3 DEF Differs, IsDirAt
        <4> QED BY <1>9, <3>3, <4>1
      <3>4. CASE y # c
        BY <1>8, <3>1, <3>2, <3>4, StaysFacts
      <3> QED BY <3>3, <3>4
    <2> QED BY <2>1, Static DEF Tree, Present
  <1>12. /\ list' = Tail(list) /\ step' = "next"
         /\ \A p \in DOMAIN sc.source :
              /\ files'[p].f = files[p].f /\ files'[p].closed = files[p].closed /\ files'[p].saved = files[p].saved
              /\ files'[p].pc = "failed" => files[p].pc = "failed"
              /\ files[p].pc = "off" /\ files'[p].pc # "off" =>
                   p = c /\ ~sc.sync /\ Src(p).kind = "file" /\ ~IsLink(p)
    BY <1>1, <1>2, HandOverIs DEF NameInv, OpenInv
  <1>13. DiskInv'
    <2>1. \A y \in Names : Present(y)' => Owned(y, disk'[y]) /\ \E z \in Names : disk'[y] = disk[z]
      BY <1>2, <1>10 DEF Present
    <2>2. ASSUME NEW p \in DOMAIN sc.source, p = c PROVE InSort(p, p)'
      BY <1>9, <2>2, Static DEF InSort
    <2>3. ASSUME NEW p \in DOMAIN sc.source, p # c, Settled(p) PROVE InSort(p, p)'
      BY <1>2, <1>4, <1>8, <2>3, SourceIs, StaysFacts DEF Sound, DiskInv, Placed
    <2>4. \A p \in DOMAIN sc.source : Settled(p) \/ (p = change /\ p \notin sc.filtered) => InSort(p, p)'
      BY <1>1, <2>2, <2>3
    <2>5. rename' \in BOOLEAN
      BY <1>2 DEF Sound, DiskInv, ChangeShape
    <2> QED BY <1>2, <1>5, <1>6, <1>11, <1>12, <2>1, <2>4, <2>5, ReturnsDisk
  <1>14. FileInv'
    <2>1. ASSUME NEW p \in DOMAIN sc.source, files[p].pc # "off" PROVE Spared(p)
      <3>1. p \in Names /\ disk[p] \in Inodes
        BY <2>1, LiveIs DEF NameInv, FileInv
      <3> QED BY <1>2, <1>5, <1>6, <2>1, <3>1 DEF Spared, Same
    <2>2. ASSUME NEW p \in DOMAIN sc.source, files[p].pc = "off", files'[p].pc # "off" PROVE Starts(p)
      BY <1>2, <1>5, <1>12, <2>2 DEF Starts
    <2> QED BY <1>12, <2>1, <2>2, FilesThrough
  <1>15. Whole'
    <2>1. ASSUME NEW y \in Names, disk'[y] # None
          PROVE  inode'[disk'[y]].n = inode[disk'[y]].n /\ \E z \in Names : disk'[y] = disk[z]
      BY <1>2, <1>6, <1>10, <2>1 DEF Same
    <2> QED BY <2>1, WholeThrough DEF Present
  <1> QED BY <1>13, <1>14, <1>15

LEMMA SwapName ==
    ASSUME NameInv, Swap
    PROVE  DiskInv' /\ FileInv' /\ Whole'
  <1>1. step = "swap" /\ UNCHANGED <<sc, attempt, rename, loop, ctxDone, blame>>
    BY DEF Swap
  <1>2. CASE Differs
    BY <1>1, <1>2, SwapRemoves DEF Swap
  <1>3. CASE ~Differs
    BY <1>1, <1>3, SwapRenames DEF Swap
  <1> QED BY <1>2, <1>3

-----------------------------------------------------------------------------
(* What happens beside HandleChange: the goroutines, the receive loop,     *)
(* Wait and the caller move no name.                                       *)
LEMMA AsideDisk ==
    ASSUME NameInv, UNCHANGED <<sc, disk, attempt, list, step, rename>>, AreNodes(inode)',
           \A i \in Inodes : Kept(i) /\ (sc.sync => inode'[i].n = inode[i].n)
    PROVE  DiskInv' /\ Whole'
  <1>1. DiskInv'
    BY SoundHere, DiskStays
  <1>2. \A x \in Names : Present(x) => disk[x] \in Inodes
    BY DEF NameInv, DiskInv, Owners, Owned
  <1>3. Whole'
    BY <1>2, WholeThrough DEF Present
  <1> QED BY <1>1, <1>3

LEMMA NodesKept ==
    ASSUME NameInv, UNCHANGED <<sc, inode>>
    PROVE  /\ AreNodes(inode)' /\ \A i \in Inodes : Kept(i) /\ inode'[i].n = inode[i].n
           /\ \A p : inode'[disk[p]].mode = inode[disk[p]].mode
  BY Static DEF NameInv, DiskInv, NodesShape, AreNodes, IsNode, Kept

LEMMA AsideFiles ==
    ASSUME NameInv, UNCHANGED <<sc, disk, attempt>>,
           \A p \in DOMAIN sc.source :
             /\ files[p].pc = "off" => files'[p].pc = "off"
             /\ files'[p].f = "closed" => files'[p].closed
             /\ files'[p].saved # "fresh",
           ctxDone' \/ (\E p \in DOMAIN sc.source : files'[p].pc = "failed") => blame' # {},
           loop'.at = "reopen" =>
             \/ inode'[disk[loop'.path]].mode = "wide" \/ blame' # {}
             \/ \E q \in DOMAIN sc.source : Src(q).link = loop'.path
    PROVE  FileInv'
  <1>1. Landed'
    BY Static DEF NameInv, FileInv, Landed
  <1>2. ClosedOnce' /\ Blamed'
    BY DEF ClosedOnce, Blamed
  <1>3. Widened'
    BY Static DEF Widened, At
  <1> QED BY <1>1, <1>2, <1>3 DEF FileInv

(* The loop stays where it is.                                             *)
LEMMA LoopRests ==
    ASSUME NameInv, loop' = loop, blame \subseteq blame', \A i \in Inodes : inode'[i].mode = inode[i].mode
    PROVE  loop'.at = "reopen" =>
             \/ inode'[disk[loop'.path]].mode = "wide" \/ blame' # {}
             \/ \E q \in DOMAIN sc.source : Src(q).link = loop'.path
  <1>1. SUFFICES ASSUME loop.at = "reopen" PROVE inode'[disk[loop.path]].mode = inode[disk[loop.path]].mode
    BY DEF NameInv, FileInv, Widened, At
  <1>2. loop.path \in DOMAIN sc.source /\ files[loop.path].pc # "off"
    BY <1>1 DEF NameInv, OpenInv, LoopShape, Piped
  <1> QED BY <1>2, LiveIs DEF NameInv, FileInv

LEMMA FileHere ==
    ASSUME NameInv, NEW p \in DOMAIN files
    PROVE  /\ p \in DOMAIN sc.source /\ IsFile(files[p]) /\ FilesShape
           /\ \A q \in DOMAIN sc.source :
                (files[q].f = "closed" => files[q].closed) /\ files[q].saved # "fresh"
           /\ files[p].pc # "off" => disk[p] \in Inodes /\ ~sc.sync /\ InSort(p, p) /\ Life(files[p], p \in fds)
  <1>1. p \in DOMAIN sc.source /\ IsFile(files[p]) /\ FilesShape /\ Life(files[p], p \in fds)
    BY DEF NameInv, OpenInv, FilesShape
  <1>2. files[p].pc # "off" => disk[p] \in Inodes /\ ~sc.sync /\ InSort(p, p)
    BY <1>1, LiveIs DEF NameInv, FileInv
  <1> QED BY <1>1, <1>2 DEF NameInv, FileInv, ClosedOnce

(* Close gives the saved mode back.                                        *)
LEMMA RestoredIs ==
    ASSUME NameInv, NEW p \in DOMAIN files, files[p].pc # "off", inode' = Restored(p), UNCHANGED sc
    PROVE  AreNodes(inode)' /\ \A i \in Inodes : Kept(i)
  <1>1. disk[p] \in Inodes /\ files[p].saved # "fresh"
    BY FileHere
  <1>2. CASE files[p].saved = ""
    <2>1. inode' = inode
      BY <1>2 DEF Restored
    <2> QED BY <2>1, NodesKept
  <1>3. CASE files[p].saved # ""
    <2>1. PICK i \in Inodes : i = disk[p]
      BY <1>1
    <2>2. PICK v : v = files[p].saved
      OBVIOUS
    <2>3. Chmod(i, v) /\ AreNodes(inode)
      BY <1>3, <2>1, <2>2 DEF Chmod, Restored, NameInv, DiskInv, NodesShape
    <2>4. /\ AreNodes(inode)'
          /\ \A j \in Inodes : /\ inode'[j].kind = inode[j].kind
                               /\ inode'[j].mode = IF j = i THEN v ELSE inode[j].mode
      BY <2>1, <2>3, ModeIs
    <2> QED BY <1>1, <2>1, <2>2, <2>4 DEF Kept
  <1> QED BY <1>2, <1>3

(* What Close makes of a writer.                                           *)
Closes(c, g) == c.closed = TRUE /\ c.saved = g.saved /\ c.pc = g.pc /\ IsFile(c)

LEMMA ClosedFile ==
    ASSUME NEW p, NEW g, IsFile(g)
    PROVE  Closes(Closed(p, g), g)
  <1>1. PICK c : c = Closed(p, g)
    OBVIOUS
  <1>2. c = [pc |-> g.pc, f |-> IF g.f = "open" THEN "closed" ELSE g.f,
             saved |-> g.saved, closed |-> TRUE, done |-> g.done]
    BY <1>1, ClosedIs
  <1>3. g.pc \in Pcs /\ g.f \in {"none", "open", "closed"} /\ g.done \in BOOLEAN
    BY DEF IsFile
  <1>4. Closes(c, g)
    BY <1>2, <1>3 DEF IsFile, Closes
  <1> QED BY <1>1, <1>4

LEMMA AsyncName ==
    ASSUME NameInv, NEW p \in DOMAIN files,
           AsyncStarts(p) \/ AsyncHasContent(p) \/ AsyncGivesUp(p) \/ AsyncSetsTimes(p) \/ AsyncFails(p)
    PROVE  DiskInv' /\ FileInv' /\ Whole'
  <1>1. /\ p \in DOMAIN sc.source /\ IsFile(files[p]) /\ FilesShape /\ DOMAIN files = DOMAIN sc.source
        /\ \A q \in DOMAIN sc.source :
             (files[q].f = "closed" => files[q].closed) /\ files[q].saved # "fresh"
    BY FileHere DEF FilesShape
  <1>2. UNCHANGED <<sc, disk, attempt, list, step, rename, loop, ctxDone>> /\ files[p].pc # "off" /\ blame \subseteq blame'
    BY DEF AsyncStarts, AsyncHasContent, AsyncGivesUp, AsyncSetsTimes, AsyncFails, AsyncStays, diskVars
  <1>3. disk[p] \in Inodes /\ ~sc.sync
    BY <1>2, FileHere
  <1>4. ctxDone \/ (\E q \in DOMAIN sc.source : files[q].pc = "failed") => blame # {}
    BY DEF NameInv, FileInv, Blamed
  <1>5. \A l : files' = Goto(p, l) =>
          /\ files'[p].pc = l /\ files'[p].f = files[p].f /\ files'[p].closed = files[p].closed
          /\ files'[p].saved = files[p].saved
          /\ \A q \in DOMAIN sc.source : q # p => files'[q] = files[q]
    <2>1. ASSUME NEW l, files' = Goto(p, l)
          PROVE  Only(p, [pc |-> l, f |-> files[p].f, saved |-> files[p].saved,
                          closed |-> files[p].closed, done |-> files[p].done])
      BY <1>1, <2>1, GotoIs
    <2> QED BY <1>1, <2>1 DEF Only
  <1>6. CASE UNCHANGED <<inode, blame>> /\ \E l \in {"wait", "times"} : files' = Goto(p, l)
    <2>1. PICK l \in {"wait", "times"} : files' = Goto(p, l)
      BY <1>6
    <2>2. /\ AreNodes(inode)' /\ \A i \in Inodes : Kept(i) /\ inode'[i].n = inode[i].n
          /\ \A i \in Inodes : inode'[i].mode = inode[i].mode
      BY <1>2, <1>6, NodesKept
    <2>3. FileInv'
      BY <1>1, <1>2, <1>4, <1>5, <1>6, <2>1, <2>2, AsideFiles, LoopRests
    <2> QED BY <1>2, <2>2, <2>3, AsideDisk
  <1>7. CASE AsyncSetsTimes(p)
    <2>1. files' = Goto(p, "done") /\ inode' = [inode EXCEPT ![disk[p]].mtime = "src"] /\ blame' = blame /\ AreNodes(inode)
      BY <1>7 DEF AsyncSetsTimes, AsyncStays, NameInv, DiskInv, NodesShape
    <2>2. AreNodes(inode)' /\ \A i \in Inodes : Same(inode'[i], inode[i])
      BY <1>2, <1>3, <2>1, TimeIs
    <2>3. \A i \in Inodes : Kept(i) /\ inode'[i].mode = inode[i].mode
      BY <2>2 DEF Kept, Same
    <2>4. FileInv'
      BY <1>1, <1>2, <1>4, <1>5, <2>1, <2>3, AsideFiles, LoopRests
    <2> QED BY <1>2, <1>3, <2>2, <2>3, <2>4, AsideDisk
  <1>8. CASE AsyncFails(p)
    <2>1. files' = Goto(p, "failed") /\ inode' = inode /\ blame' # {}
      BY <1>8 DEF AsyncFails, diskVars
    <2>2. AreNodes(inode)' /\ \A i \in Inodes : Kept(i) /\ inode'[i].n = inode[i].n
      BY <1>2, <2>1, NodesKept
    <2>3. FileInv'
      BY <1>1, <1>2, <1>5, <2>1, AsideFiles
    <2> QED BY <1>2, <2>2, <2>3, AsideDisk
  <1>9. CASE AsyncGivesUp(p)
    <2>1. blame # {} /\ blame' = blame
      BY <1>1, <1>4, <1>9 DEF AsyncGivesUp, egDone, AsyncStays
    <2>2. CASE files' = Goto(p, "failed") /\ UNCHANGED inode
      <3>1. AreNodes(inode)' /\ \A i \in Inodes : Kept(i) /\ inode'[i].n = inode[i].n
        BY <1>2, <2>2, NodesKept
      <3>2. FileInv'
        BY <1>1, <1>2, <1>5, <2>1, <2>2, AsideFiles
      <3> QED BY <1>2, <3>1, <3>2, AsideDisk
    <2>3. CASE files' = [files EXCEPT ![p] = Closed(p, [@ EXCEPT !.pc = "failed"])] /\ inode' = Restored(p)
      <3>1. PICK g : g = [files[p] EXCEPT !.pc = "failed"]
        OBVIOUS
      <3>2. IsFile(g) /\ g.saved = files[p].saved
        BY <1>1, <3>1, FieldUpdates DEF IsFile, Pcs
      <3>3. PICK c : c = Closed(p, g)
        OBVIOUS
      <3>4. c.closed = TRUE /\ c.saved = files[p].saved
        <4>1. Closes(c, g)
          BY <3>2, <3>3, ClosedFile
        <4> QED BY <3>2, <4>1 DEF Closes
      <3>5. files'[p] = c /\ \A q \in DOMAIN sc.source : q # p => files'[q] = files[q]
        BY <1>1, <2>3, <3>1, <3>3
      <3>6. AreNodes(inode)' /\ \A i \in Inodes : Kept(i)
        BY <1>2, <2>3, RestoredIs
      <3>7. FileInv'
        BY <1>1, <1>2, <2>1, <3>4, <3>5, AsideFiles
      <3> QED BY <1>2, <1>3, <3>6, <3>7, AsideDisk
    <2> QED BY <1>9, <2>2, <2>3 DEF AsyncGivesUp
  <1>10. CASE AsyncStarts(p)
    BY <1>6, <1>10 DEF AsyncStarts, AsyncStays
  <1>11. CASE AsyncHasContent(p)
    BY <1>6, <1>11 DEF AsyncHasContent, AsyncStays
  <1> QED BY <1>7, <1>8, <1>9, <1>10, <1>11

-----------------------------------------------------------------------------
(* The receive loop.                                                       *)
LEMMA OpensName ==
    ASSUME NameInv, NEW p \in DOMAIN files, Piped(p), Opens(p), LoopStays, blame \subseteq blame'
    PROVE  DiskInv' /\ FileInv' /\ Whole'
  <1>1. /\ p \in DOMAIN sc.source /\ FilesShape /\ disk[p] \in Inodes /\ ~sc.sync /\ IsFile(files[p])
        /\ \A q \in DOMAIN sc.source : (files[q].f = "closed" => files[q].closed) /\ files[q].saved # "fresh"
    BY FileHere DEF Piped
  <1>2. /\ files' = [files EXCEPT ![p].f = "open"] /\ inode' = Written(p) /\ loop'.at # "reopen"
        /\ UNCHANGED <<sc, disk, attempt, list, step, rename, ctxDone>>
    BY DEF Opens, LoopStays, Idle
  <1>3. AreNodes(inode)' /\ \A i \in Inodes : Kept(i)
    BY <1>1, <1>2, WrittenIs DEF Kept, NameInv, DiskInv, NodesShape
  <1>4. PICK g : g = [files[p] EXCEPT !.f = "open"]
    OBVIOUS
  <1>5. g.f = "open" /\ g.saved = files[p].saved /\ g.pc = files[p].pc
    BY <1>1, <1>4, FieldUpdates
  <1>6. files'[p] = g /\ \A q \in DOMAIN sc.source : q # p => files'[q] = files[q]
    BY <1>1, <1>2, <1>4 DEF FilesShape
  <1>7. ctxDone \/ (\E q \in DOMAIN sc.source : files[q].pc = "failed") => blame # {}
    BY DEF NameInv, FileInv, Blamed
  <1>8. FileInv'
    BY <1>1, <1>2, <1>5, <1>6, <1>7, AsideFiles DEF Piped
  <1> QED BY <1>1, <1>2, <1>3, <1>8, AsideDisk

(* The loop moves, and no file does.                                       *)
LEMMA LoopGoes ==
    ASSUME NameInv, LoopStays, UNCHANGED <<inode, files>>, blame \subseteq blame', ctxDone' => ctxDone \/ blame' # {},
           loop' = loop \/ loop'.at # "reopen"
    PROVE  DiskInv' /\ FileInv' /\ Whole'
  <1>1. UNCHANGED <<sc, disk, attempt, list, step, rename>>
    BY DEF LoopStays
  <1>2. /\ AreNodes(inode)' /\ \A i \in Inodes : Kept(i) /\ inode'[i].n = inode[i].n
        /\ \A i \in Inodes : inode'[i].mode = inode[i].mode
    BY <1>1, NodesKept
  <1>3. /\ \A q \in DOMAIN sc.source : (files[q].f = "closed" => files[q].closed) /\ files[q].saved # "fresh"
        /\ ctxDone \/ (\E q \in DOMAIN sc.source : files[q].pc = "failed") => blame # {}
    BY DEF NameInv, FileInv, ClosedOnce, Blamed
  <1>4. loop'.at = "reopen" =>
          \/ inode'[disk[loop'.path]].mode = "wide" \/ blame' # {}
          \/ \E q \in DOMAIN sc.source : Src(q).link = loop'.path
    BY <1>2, LoopRests
  <1>5. FileInv'
    BY <1>1, <1>3, <1>4, AsideFiles
  <1> QED BY <1>1, <1>2, <1>5, AsideDisk

LEMMA LoopFailsName ==
    ASSUME NameInv, LoopFails, LoopStays, blame \subseteq blame', blame' # {}
    PROVE  DiskInv' /\ FileInv' /\ Whole'
  BY LoopGoes DEF LoopFails

LEMMA LoopWritesName ==
    ASSUME NameInv, NEW p \in DOMAIN files, LoopWrites(p)
    PROVE  DiskInv' /\ FileInv' /\ Whole'
  <1>1. Piped(p) /\ LoopStays /\ blame' = blame /\ loop = Idle
    BY DEF LoopWrites
  <1>2. /\ p \in DOMAIN sc.source /\ disk[p] \in Inodes /\ ~sc.sync /\ Life(files[p], p \in fds)
        /\ \A q \in DOMAIN sc.source : (files[q].f = "closed" => files[q].closed) /\ files[q].saved # "fresh"
    BY <1>1, FileHere DEF Piped
  <1>3. ctxDone \/ (\E q \in DOMAIN sc.source : files[q].pc = "failed") => blame # {}
    BY DEF NameInv, FileInv, Blamed
  <1>4. CASE Opens(p)
    BY <1>1, <1>4, OpensName
  <1>5. CASE loop' = [at |-> "chmod", path |-> p] /\ UNCHANGED <<inode, files, ctxDone>>
    BY <1>1, <1>5, LoopGoes
  <1>6. CASE inode' = Written(p) /\ UNCHANGED <<files, loop, ctxDone>>
    <2>1. UNCHANGED <<sc, disk, attempt, list, step, rename>>
      BY <1>1 DEF LoopStays
    <2>2. AreNodes(inode)' /\ \A i \in Inodes : Kept(i)
      BY <1>2, <1>6, <2>1, WrittenIs DEF Kept, NameInv, DiskInv, NodesShape
    <2>3. loop'.at # "reopen"
      BY <1>1, <1>6 DEF Idle
    <2>4. FileInv'
      BY <1>1, <1>2, <1>3, <1>6, <2>1, <2>3, AsideFiles
    <2> QED BY <1>2, <2>1, <2>2, <2>4, AsideDisk
  <1>7. CASE LoopFails /\ (files[p].f = "closed" \/ files[p].pc = "failed")
    <2>1. files[p].pc = "failed"
      BY <1>1, <1>2, <1>7 DEF Life, Piped
    <2> QED BY <1>1, <1>2, <1>3, <1>7, <2>1, LoopFailsName
  <1> QED BY <1>4, <1>5, <1>6, <1>7 DEF LoopWrites

LEMMA LoopWidensName ==
    ASSUME NameInv, LoopWidens
    PROVE  DiskInv' /\ FileInv' /\ Whole'
  <1>1. PICK p : p = loop.path
    OBVIOUS
  <1>2. p \in DOMAIN files /\ files[p].pc # "off" /\ loop = [at |-> loop.at, path |-> loop.path]
    BY <1>1 DEF LoopWidens, NameInv, OpenInv, LoopShape, Piped, FilesShape
  <1>3. /\ p \in DOMAIN sc.source /\ FilesShape /\ disk[p] \in Inodes /\ ~sc.sync /\ IsFile(files[p]) /\ InSort(p, p)
        /\ \A q \in DOMAIN sc.source : (files[q].f = "closed" => files[q].closed) /\ files[q].saved # "fresh"
    BY <1>2, FileHere
  <1>4. PICK v : v = At(p).mode
    OBVIOUS
  <1>5. v # "fresh"
    BY <1>3, <1>4 DEF InSort
  <1>6. PICK g : g = [files[p] EXCEPT !.saved = v]
    OBVIOUS
  <1>7. g.f = files[p].f /\ g.closed = files[p].closed /\ g.saved = v /\ g.pc = files[p].pc
    BY <1>3, <1>6, FieldUpdates
  <1>8. files'[p] = g /\ \A q \in DOMAIN sc.source : q # p => files'[q] = files[q]
    BY <1>1, <1>3, <1>4, <1>6 DEF LoopWidens, FilesShape
  <1>9. PICK i \in Inodes : i = disk[p]
    BY <1>3
  <1>10. UNCHANGED <<sc, disk, attempt, list, step, rename, ctxDone, blame>> /\ Chmod(i, "wide")
    BY <1>1, <1>9 DEF LoopWidens, LoopStays, Chmod
  <1>11. /\ AreNodes(inode)'
         /\ \A j \in Inodes : /\ inode'[j].kind = inode[j].kind
                              /\ inode'[j].mode = IF j = i THEN "wide" ELSE inode[j].mode
    <2>1. PICK w : w = "wide"
      OBVIOUS
    <2>2. AreNodes(inode) /\ Chmod(i, w) /\ UNCHANGED sc
      BY <1>10, <2>1 DEF NameInv, DiskInv, NodesShape
    <2> QED BY <2>1, <2>2, ModeIs
  <1>12. \A j \in Inodes : Kept(j)
    BY <1>11 DEF Kept
  <1>13. loop'.path = p
    BY <1>1, <1>2 DEF LoopWidens
  <1>14. inode'[disk[p]].mode = "wide"
    BY <1>9, <1>11
  <1>15. ctxDone \/ (\E q \in DOMAIN sc.source : files[q].pc = "failed") => blame # {}
    BY DEF NameInv, FileInv, Blamed
  <1>16. FileInv'
    BY <1>2, <1>3, <1>5, <1>7, <1>8, <1>10, <1>13, <1>14, <1>15, AsideFiles
  <1> QED BY <1>3, <1>10, <1>11, <1>12, <1>16, AsideDisk

LEMMA LoopReopensName ==
    ASSUME NameInv, LoopReopens
    PROVE  DiskInv' /\ FileInv' /\ Whole'
  <1>1. PICK p : p = loop.path
    OBVIOUS
  <1>2. p \in DOMAIN files /\ Piped(p) /\ LoopStays /\ loop.at = "reopen"
    BY <1>1 DEF LoopReopens, NameInv, OpenInv, LoopShape, FilesShape
  <1>3. CASE Protected(p)
    <2>1. /\ LoopFails
          /\ blame' = IF \E q \in DOMAIN sc.source : Src(q).link = p THEN blame \cup {"chmod"} ELSE blame
      BY <1>1, <1>3 DEF LoopReopens
    <2>2. At(p).mode # "wide"
      BY <1>3 DEF Protected
    <2>3. blame # {} \/ \E q \in DOMAIN sc.source : Src(q).link = p
      BY <1>1, <1>2, <2>2 DEF NameInv, FileInv, Widened
    <2>4. blame \subseteq blame' /\ blame' # {}
      BY <2>1, <2>3
    <2> QED BY <1>2, <2>1, <2>4, LoopFailsName
  <1>4. CASE ~Protected(p)
    <2>1. Opens(p) /\ blame' = blame
      BY <1>1, <1>4 DEF LoopReopens
    <2> QED BY <1>2, <2>1, OpensName
  <1> QED BY <1>3, <1>4

LEMMA LoopClosesName ==
    ASSUME NameInv, NEW p \in DOMAIN files, LoopCloses(p)
    PROVE  DiskInv' /\ FileInv' /\ Whole'
  <1>1. /\ Piped(p) /\ loop' = Idle /\ UNCHANGED <<sc, disk, attempt, list, step, rename, ctxDone, blame>>
        /\ files[p].pc # "off"
    BY DEF LoopCloses, LoopStays, Piped
  <1>2. /\ p \in DOMAIN sc.source /\ FilesShape /\ disk[p] \in Inodes /\ ~sc.sync /\ IsFile(files[p])
        /\ \A q \in DOMAIN sc.source : (files[q].f = "closed" => files[q].closed) /\ files[q].saved # "fresh"
    BY <1>1, FileHere
  <1>3. AreNodes(inode)' /\ \A i \in Inodes : Kept(i)
    <2>1. CASE inode' = inode
      BY <1>1, <2>1, NodesKept
    <2>2. CASE inode' = Restored(p)
      BY <1>1, <2>2, RestoredIs
    <2> QED BY <2>1, <2>2 DEF LoopCloses
  <1>4. PICK c : c = Closed(p, files[p])
    OBVIOUS
  <1>5. c.closed = TRUE /\ c.saved = files[p].saved /\ c.pc = files[p].pc /\ IsFile(c)
    <2>1. Closes(c, files[p])
      BY <1>2, <1>4, ClosedFile
    <2> QED BY <2>1 DEF Closes
  <1>6. PICK g : g = [c EXCEPT !.done = TRUE]
    OBVIOUS
  <1>7. g.closed = TRUE /\ g.saved = files[p].saved /\ g.pc = files[p].pc
    BY <1>5, <1>6, FieldUpdates
  <1>8. files'[p] = g /\ \A q \in DOMAIN sc.source : q # p => files'[q] = files[q]
    BY <1>2, <1>4, <1>6 DEF LoopCloses, FilesShape
  <1>9. ctxDone \/ (\E q \in DOMAIN sc.source : files[q].pc = "failed") => blame # {}
    BY DEF NameInv, FileInv, Blamed
  <1>10. loop'.at # "reopen"
    BY <1>1 DEF Idle
  <1>11. FileInv'
    BY <1>1, <1>2, <1>7, <1>8, <1>9, <1>10, AsideFiles
  <1> QED BY <1>1, <1>2, <1>3, <1>11, AsideDisk

LEMMA LoopEndsName ==
    ASSUME NameInv, LoopEnds
    PROVE  DiskInv' /\ FileInv' /\ Whole'
  <1>1. LoopStays /\ UNCHANGED <<inode, files, ctxDone, blame>> /\ loop'.at # "reopen"
    BY DEF LoopEnds
  <1> QED BY <1>1, LoopGoes

(* Wait, a failed call, and the caller.                                    *)
LEMMA CallerName ==
    ASSUME NameInv, WaitStarts \/ CallFails \/ Cancel
    PROVE  DiskInv' /\ FileInv' /\ Whole'
  <1>1. /\ UNCHANGED <<sc, disk, inode, attempt, list, step, rename, files, loop>>
        /\ blame \subseteq blame' /\ (ctxDone' => ctxDone \/ blame' # {})
    BY DEF WaitStarts, CallFails, Cancel, Fail, AsyncFixed, DiffFixed, diskVars
  <1>2. AreNodes(inode)' /\ \A i \in Inodes : Kept(i) /\ inode'[i].n = inode[i].n
    BY <1>1, NodesKept
  <1>3. FileInv'
    BY <1>1, FilesSpared
  <1> QED BY <1>1, <1>2, <1>3, AsideDisk

LEMMA WaitName ==
    ASSUME NameInv, Wait
    PROVE  DiskInv' /\ FileInv' /\ Whole'
  <1>1. UNCHANGED <<sc, disk, attempt, list, step, rename, files, loop, blame>> /\ DOMAIN files = DOMAIN sc.source
    BY DEF Wait, Fail, AsyncFixed, NameInv, OpenInv, FilesShape
  <1>2. ctxDone' => ctxDone \/ blame # {}
    BY <1>1 DEF Wait, Fail, NameInv, FileInv, Blamed
  <1>3. AreNodes(inode)' /\ \A i \in Inodes : Same(inode'[i], inode[i])
    <2>1. CASE inode' = inode
      BY <1>1, <2>1, NodesKept DEF Same
    <2>2. CASE inode' # inode
      <3>1. inode' = [i \in DOMAIN inode |->
                        IF \E d \in dirTimes : disk[d] = i THEN [inode[i] EXCEPT !.mtime = "src"] ELSE inode[i]]
        BY <2>2 DEF Wait
      <3>2. DOMAIN inode = Inodes /\ \A i \in Inodes : IsNode(inode[i])
        BY DEF NameInv, DiskInv, NodesShape, AreNodes
      <3>3. \A i \in Inodes : IsNode([inode[i] EXCEPT !.mtime = "src"]) /\ Same([inode[i] EXCEPT !.mtime = "src"], inode[i])
        BY <3>2, TimeUpdate
      <3>4. \A i \in Inodes : inode'[i] = inode[i] \/ inode'[i] = [inode[i] EXCEPT !.mtime = "src"]
        BY <3>1, <3>2
      <3>5. \A i \in Inodes : IsNode(inode'[i]) /\ Same(inode'[i], inode[i])
        BY <3>2, <3>3, <3>4 DEF Same
      <3>6. inode' = [i \in Inodes |-> inode'[i]]
        BY <3>1, <3>2
      <3>7. AreNodes(inode')
        BY <3>5, <3>6 DEF AreNodes
      <3>8. AreNodes(inode)'
        BY <1>1, <3>7, Static DEF AreNodes, IsNode
      <3> QED BY <3>5, <3>8
    <2> QED BY <2>1, <2>2
  <1>4. \A i \in Inodes : Kept(i) /\ inode'[i].n = inode[i].n /\ inode'[i].mode = inode[i].mode
    BY <1>3 DEF Kept, Same
  <1>5. FileInv'
    BY <1>1, <1>2, <1>4, FilesSpared
  <1> QED BY <1>1, <1>3, <1>4, <1>5, AsideDisk

-----------------------------------------------------------------------------
(* An attempt starts.  What the difference leaves out is as the source has *)
(* it.                                                                     *)
LEMMA LeftOut ==
    ASSUME sc \in Scenarios, NEW p \in DOMAIN sc.source, ~\E i \in 1..Len(Difference) : Difference[i].path = p
    PROVE  InSort(p, p)
  <1>1. p \in Names /\ p \notin Changed
    BY SourceIs, DifferenceFacts
  <1>2. Present(p) /\ SameFile(p)
    BY <1>1 DEF Changed
  <1>3. At(p).kind = Src(p).kind /\ At(p).mode = Src(p).mode
    BY <1>2 DEF SameFile
  <1> QED BY <1>2, <1>3, SourceIs DEF InSort, IsDirAt

LEMMA NextAttemptName ==
    ASSUME NameInv, NextAttempt
    PROVE  DiskInv' /\ FileInv' /\ Whole'
  <1>1. /\ sc \in Scenarios /\ UNCHANGED <<sc, disk, inode>> /\ attempt = 1 /\ attempt' = 2 /\ list' = Difference
        /\ step' = "next" /\ rename' = FALSE /\ loop' = Idle /\ ctxDone' = FALSE
        /\ files' = [p \in DOMAIN sc.source |-> NoFile]
    BY DEF NextAttempt, diskVars, NameInv, OpenInv, FilesShape
  <1>2. NodesShape /\ Owners /\ Tree /\ Placed
    BY DEF NameInv, DiskInv
  <1>3. \A x : (Present(x)' <=> Present(x)) /\ (IsDirAt(x)' <=> IsDirAt(x)) /\ At(x)' = At(x)
    BY <1>1 DEF Present, IsDirAt, At
  <1>4. NodesShape'
    BY <1>1, <1>2, Static DEF NodesShape
  <1>5. Owners'
    <2>1. ASSUME NEW x \in Names, Owned(x, disk[x]) PROVE Owned(x, disk[x])'
      <3>1. PICK i : i = disk[x]
        OBVIOUS
      <3>2. i \in Inodes /\ (i[2] <= 2 \/ i[2] = 3)
        BY <1>1, <2>1, <3>1 DEF Owned, Inodes
      <3>3. i[2] # 0 => \E q \in DOMAIN sc.source : NameOf(x, q) /\ i[1] = Home(q)
        BY <2>1, <3>1 DEF Owned
      <3>4. \A q : NameOf(x, q)' <=> NameOf(x, q)
        BY DEF NameOf, Temp
      <3>5. disk[x]' = i
        BY <1>1, <3>1
      <3> QED BY <1>1, <3>2, <3>3, <3>4, <3>5, Static DEF Owned
    <2> QED BY <1>1, <1>2, <1>3, <2>1, Static DEF Owners
  <1>6. Unmade'
    <2>1. ASSUME NEW x \in Names, NEW p, disk[x] = <<p, 2>> PROVE FALSE
      <3>1. Present(x)
        BY <2>1 DEF Present, None
      <3>2. disk[x][2] = 2
        BY <2>1
      <3> QED BY <1>1, <1>2, <3>1, <3>2 DEF Owners, Owned
    <2> QED BY <1>1, <2>1, Static DEF Unmade
  <1>7. Tree'
    BY <1>1, <1>2, <1>3, Static DEF Tree
  <1>8. Placed'
    <2>1. ASSUME NEW p \in DOMAIN sc.source, Settled(p)' PROVE InSort(p, p)
      <3>1. CASE p \in Lasting
        BY <1>2, <3>1 DEF Placed, Settled
      <3>2. CASE p \notin Lasting
        <4>1. ~Listed(p)'
          BY <1>1, <2>1, <3>2, Static DEF Settled
        <4>2. ~\E i \in 1..Len(Difference) : Difference[i].path = p
          BY <1>1, <4>1 DEF Listed
        <4> QED BY <1>1, <4>2, LeftOut
      <3> QED BY <3>1, <3>2
    <2>2. \A p : InSort(p, p)' <=> InSort(p, p)
      BY <1>1, <1>3 DEF InSort, Src
    <2> QED BY <1>1, <2>1, <2>2 DEF Placed
  <1>9. ChangeShape'
    <2>1. ListKinds'
      BY <1>1, DifferenceFacts DEF ListKinds
    <2> QED BY <1>1, <2>1 DEF ChangeShape
  <1>10. FileInv'
    BY <1>1 DEF FileInv, Landed, ClosedOnce, Widened, Blamed, NoFile, Idle
  <1>11. Whole'
    BY <1>1, <1>3, Static DEF Whole, NameInv
  <1> QED BY <1>4, <1>5, <1>6, <1>7, <1>8, <1>9, <1>10, <1>11 DEF DiskInv

(* What was there before.                                                  *)
LEMMA ThereBefore ==
    ASSUME Init, NEW x \in Names
    PROVE  /\ Present(x) <=> x \in DOMAIN sc.before
           /\ Present(x) =>
                /\ disk[x] \in Inodes /\ disk[x][2] = 0
                /\ (At(x).kind = "dir" <=> sc.before[x].node.kind = "dir") /\ At(x).mode # "fresh"
  <1>1. sc \in Scenarios
    BY DEF Init
  <1>2. disk[x] = IF x \in DOMAIN sc.before
                  THEN <<IF sc.before[x].link = <<>> THEN x ELSE sc.before[x].link, 0>> ELSE None
    BY DEF Init
  <1>3. CASE x \notin DOMAIN sc.before
    BY <1>2, <1>3 DEF Present
  <1>4. CASE x \in DOMAIN sc.before
    <2>1. PICK y : y = IF sc.before[x].link = <<>> THEN x ELSE sc.before[x].link
      OBVIOUS
    <2>2. \A p \in DOMAIN sc.before :
            /\ sc.before[p].node.mode # "fresh"
            /\ sc.before[p].link # <<>> =>
                 /\ sc.before[p].link \in DOMAIN sc.before
                 /\ sc.before[sc.before[p].link].node.kind # "dir" /\ sc.before[p].node.kind # "dir"
      <3>1. \A p \in DOMAIN sc.before : sc.before[p].node.mode # "fresh"
        BY <1>1, WriterAssumption
      <3>2. \A p \in DOMAIN sc.before : sc.before[p].link # <<>> =>
              /\ sc.before[p].link \in DOMAIN sc.before
              /\ sc.before[sc.before[p].link].node.kind # "dir" /\ sc.before[p].node.kind # "dir"
        BY <1>1, WriterAssumption
      <3> QED BY <3>1, <3>2
    <2>3. /\ y \in DOMAIN sc.before /\ sc.before[y].node.mode # "fresh"
          /\ sc.before[y].node.kind = "dir" <=> sc.before[x].node.kind = "dir"
      BY <1>4, <2>1, <2>2
    <2>4. y \in Names
      BY <1>1, <2>3, NameTypes DEF Paths
    <2>5. PICK i : i = <<y, 0>>
      OBVIOUS
    <2>6. disk[x] = i /\ i \in Inodes /\ i[1] = y /\ i[2] = 0 /\ i # None
      BY <1>2, <1>4, <2>1, <2>4, <2>5 DEF Inodes, None
    <2>7. inode[i] = sc.before[y].node
      BY <2>3, <2>6 DEF Init, Inodes
    <2> QED BY <1>4, <2>3, <2>6, <2>7 DEF Present, At
  <1> QED BY <1>3, <1>4

LEMMA InitName ==
    ASSUME Init
    PROVE  NameInv
  <1>1. /\ sc \in Scenarios /\ attempt = 1 /\ list = Difference /\ step = "next" /\ rename = FALSE
        /\ loop = Idle /\ ctxDone = FALSE /\ files = [p \in DOMAIN sc.source |-> NoFile]
    BY DEF Init
  <1>2. NodesShape
    <2>1. \A p \in DOMAIN sc.before : IsNode(sc.before[p].node)
      BY <1>1, WriterAssumption DEF IsNode, Node
    <2>2. IsNode(Node("", "", 0, "", ""))
      BY DEF IsNode, Node
    <2>3. inode = [i \in Inodes |-> IF i[2] = 0 /\ i[1] \in DOMAIN sc.before THEN sc.before[i[1]].node
                                    ELSE Node("", "", 0, "", "")]
      BY DEF Init, Inodes
    <2>4. \A i \in Inodes : IsNode(inode[i])
      BY <2>1, <2>2, <2>3
    <2>5. AreNodes(inode)
      BY <2>3, <2>4 DEF AreNodes
    <2>6. disk = [x \in Names |-> disk[x]]
      BY DEF Init
    <2> QED BY <1>1, <2>5, <2>6 DEF NodesShape
  <1>3. Owners
    BY <1>1, ThereBefore DEF Owners, Owned
  <1>4. Unmade
    <2>1. ASSUME NEW x \in Names, NEW p, disk[x] = <<p, 1>> PROVE FALSE
      <3>1. Present(x) /\ disk[x][2] = 1
        BY <2>1 DEF Present, None
      <3> QED BY <3>1, ThereBefore
    <2> QED BY <1>1, <2>1 DEF Unmade
  <1>5. Tree
    <2>1. ASSUME NEW x \in Names, NEW y \in Names, Present(x), IsStrictPrefix(y, x) PROVE IsDirAt(y)
      <3>1. x \in DOMAIN sc.before
        BY <2>1, ThereBefore
      <3>2. y \in Paths
        <4>1. ASSUME NEW r \in Paths, NEW k \in {1, 2}, y = Temp(r, k) PROVE FALSE
          BY <1>1, <2>1, <4>1, TempFacts
        <4> QED BY <4>1 DEF Names
      <3>3. y \in DOMAIN sc.before /\ sc.before[y].node.kind = "dir"
        <4>1. IsTree(DOMAIN sc.before, {q \in DOMAIN sc.before : sc.before[q].node.kind = "dir"}, Paths)
          BY <1>1, WriterAssumption DEF Paths
        <4> QED BY <2>1, <3>1, <3>2, <4>1 DEF IsTree
      <3> QED BY <3>3, ThereBefore DEF IsDirAt
    <2> QED BY <2>1 DEF Tree
  <1>6. Placed
    <2>1. ASSUME NEW p \in DOMAIN sc.source, p \in Lasting PROVE InSort(p, p)
      <3>1. p \in Names /\ p \in DOMAIN sc.before /\ ((sc.before[p].node.kind = "dir") = (Src(p).kind = "dir"))
        BY <1>1, <2>1, SourceIs DEF Lasting
      <3> QED BY <3>1, ThereBefore DEF InSort, IsDirAt
    <2>2. ASSUME NEW p \in DOMAIN sc.source, ~Listed(p) PROVE InSort(p, p)
      BY <1>1, <2>2, LeftOut DEF Listed
    <2> QED BY <2>1, <2>2 DEF Placed, Settled
  <1>7. ChangeShape
    BY <1>1, DifferenceFacts DEF ChangeShape, ListKinds
  <1>8. FileInv
    BY <1>1 DEF FileInv, Landed, ClosedOnce, Widened, Blamed, NoFile, Idle
  <1>9. Whole
    BY ThereBefore DEF Whole
  <1> QED BY <1>2, <1>3, <1>4, <1>5, <1>6, <1>7, <1>8, <1>9, InitOpen DEF NameInv, DiskInv

-----------------------------------------------------------------------------
LEMMA StillName ==
    ASSUME NameInv, UNCHANGED vars
    PROVE  DiskInv' /\ FileInv' /\ Whole'
  <1>1. UNCHANGED <<sc, disk, inode, attempt, list, step, rename, files, loop, ctxDone, blame>>
    BY DEF vars, diskVars
  <1>2. AreNodes(inode)' /\ \A i \in Inodes : Kept(i) /\ inode'[i].n = inode[i].n /\ inode'[i].mode = inode[i].mode
    BY <1>1, NodesKept
  <1>3. FileInv'
    BY <1>1, <1>2, FilesSpared
  <1> QED BY <1>1, <1>2, <1>3, AsideDisk

LEMMA StepName == NameInv /\ [Next]_vars => NameInv'
  <1> SUFFICES ASSUME NameInv, [Next]_vars PROVE NameInv'
    OBVIOUS
  <1>1. OpenInv'
    BY StepOpen DEF NameInv
  <1>2. DiskInv' /\ FileInv' /\ Whole'
    <2>1. CASE Diff
      BY <2>1, StartChangeName, MakeName, MetaName, SwapName, CallerName, WaitName DEF Diff
    <2>2. CASE Async
      BY <2>2, AsyncName DEF Async
    <2>3. CASE Loop
      BY <2>3, LoopWritesName, LoopClosesName, LoopWidensName, LoopReopensName, LoopEndsName DEF Loop
    <2>4. CASE CallFails \/ Cancel
      BY <2>4, CallerName
    <2>5. CASE \E p \in DOMAIN files : AsyncFails(p)
      BY <2>5, AsyncName
    <2>6. CASE NextAttempt
      BY <2>6, NextAttemptName
    <2>7. CASE OtherMkdir
      BY <2>7, OtherMkdirName
    <2>8. CASE UNCHANGED vars
      BY <2>8, StillName
    <2> QED BY <2>1, <2>2, <2>3, <2>4, <2>5, <2>6, <2>7, <2>8 DEF Next
  <1> QED BY <1>1, <1>2 DEF NameInv

LEMMA NameImplies == NameInv => FailsForCause /\ OldOrNew
  <1> SUFFICES ASSUME NameInv PROVE FailsForCause /\ OldOrNew
    OBVIOUS
  <1>1. FailsForCause
    BY DEF NameInv, FileInv, Blamed, FailsForCause
  <1>2. ASSUME NEW p \in Wanted \cap DOMAIN sc.before,
               (sc.before[p].node.kind = "dir") = (Src(p).kind = "dir")
        PROVE  Present(p) /\ At(p).mode # "fresh" /\ (disk[p][2] = 0 \/ (sc.sync => At(p).n = Src(p).n))
    <2>1. p \in DOMAIN sc.source /\ p \in Lasting /\ p \in Names /\ sc \in Scenarios
      BY <1>2, SourceIs DEF Wanted, Lasting, NameInv, OpenInv
    <2>2. InSort(p, p)
      BY <2>1 DEF NameInv, DiskInv, Placed, Settled
    <2>3. Present(p) /\ At(p).mode # "fresh"
      BY <2>2 DEF InSort
    <2>4. ASSUME disk[p][2] # 0, sc.sync PROVE At(p).n = Src(p).n
      <3>1. Owned(p, disk[p])
        BY <2>1, <2>3 DEF NameInv, DiskInv, Owners
      <3>2. disk[p][1] = Home(p)
        BY <2>1, <2>4, <3>1, SourceOwned
      <3>3. Home(p) \in DOMAIN sc.source /\ Src(Home(p)).n = Src(p).n
        BY <2>1, SourceIs
      <3> QED BY <2>1, <2>3, <2>4, <3>2, <3>3 DEF NameInv, Whole
    <2> QED BY <2>3, <2>4
  <1> QED BY <1>1, <1>2 DEF OldOrNew

-----------------------------------------------------------------------------
(* What a transfer that succeeds leaves.  Nothing is filtered here: a link *)
(* made to a filtered file would set the mode of an inode that another     *)
(* entry may share.                                                        *)
NoFilter == sc.filtered = {}

(* What the source does not have is still to be removed, with or without a *)
(* directory it is in, or is the temporary name in hand.                   *)
Removes(d, x) == Listed(d) /\ IsStrictPrefix(d, x) /\ (d \in DOMAIN sc.source => Src(d).kind # "dir")
Leftovers ==
    \A x \in Names \ DOMAIN sc.source : Present(x) =>
      \/ Listed(x) \/ (rename /\ step \in {"meta", "swap"} /\ x = newPath)
      \/ \E d \in Names : Removes(d, x)
Deletable ==
    \A x \in Names : Listed(x) /\ x \notin DOMAIN sc.source /\ Len(x) > 1 =>
      Front(x) \in DOMAIN sc.source /\ Src(Front(x)).kind = "dir"

(* A link that was handled is one, and one that was not is not yet: its    *)
(* rename will do something.                                               *)
Linked ==
    \A p \in DOMAIN sc.source : IsLink(p) /\ ~Listed(p) => ~Listed(Src(p).link) /\ disk[p] = disk[Src(p).link]
Parted(p) ==
    /\ disk[p] # <<Src(p).link, attempt>>
    /\ Present(p) /\ ~Listed(Src(p).link) => disk[p] # disk[Src(p).link]
Apart ==
    \A p \in DOMAIN sc.source : IsLink(p) /\ Listed(p) => Parted(p) \/ (p = change /\ ~rename /\ step = "meta")
DirHome == \A x \in Names : IsDirAt(x) /\ disk[x][2] = 0 => disk[x][1] = x

NamesDone == Leftovers /\ Deletable /\ Linked /\ Apart /\ DirHome

(* What has a time of the source's was made from it.                       *)
Dated(m) == IF m.kind = "dir" THEN m.n = 0 ELSE m.mtime = "src" => m.ver = "src"
AllDated == \A i \in Inodes : Dated(inode[i])

(* The entry in hand, and the entry that was handled, with the goroutine   *)
(* that waits for its content: the mode is the source's, or will be given  *)
(* back.                                                                   *)
Made(m, s) == m.kind = s.kind /\ m.ver = "src" /\ (sc.sync \/ s.kind # "file" => m.n = s.n)
InHand ==
    step \in {"meta", "swap"} /\ ~IsLink(change) =>
      /\ Made(At(newPath), Src(change))
      /\ step = "swap" => /\ At(newPath).mode = Src(change).mode
                          /\ Src(change).kind # "dir" => At(newPath).mtime = "src"
FileFit(m, g, s) ==
    /\ g.saved \in {"", s.mode} /\ (m.mode = s.mode \/ (g.saved # "" /\ ~g.closed))
    /\ g.pc = "off" \/ g.done => m.n = s.n
    /\ g.pc \in {"off", "done"} => m.mtime = "src"
Fit(m, g, s) ==
    /\ m.kind = s.kind
    /\ s.kind = "dir" => m.mode = s.mode
    /\ s.kind # "dir" => m.ver = "src" /\ (g.pc # "failed" => FileFit(m, g, s))
Fits == \A p \in DOMAIN sc.source : ~IsLink(p) /\ ~Listed(p) => Fit(At(p), files[p], Src(p))
Timed ==
    /\ \A d \in dirTimes : d \in DOMAIN sc.source /\ Src(d).kind = "dir"
    /\ fate = "ok" => \A d \in dirTimes : At(d).mtime = "src"

NodesDone == AllDated /\ InHand /\ Fits /\ Timed

(* The mode is saved as the file is opened, once.                          *)
Saving ==
    /\ \A p \in DOMAIN sc.source :
         /\ files[p].saved # "" => files[p].f # "none" \/ loop = [at |-> "reopen", path |-> p] \/ loop.at = "ended"
         /\ files[p].pc \in {"off", "start"} => files[p].saved = ""
    /\ loop.at \in {"chmod", "reopen"} => files[loop.path].f = "none"

(* In the second attempt nothing else goes wrong.                          *)
Causes == attempt = 2 => blame \subseteq {"filter", "chmod"}

DoneInv == NamesDone /\ NodesDone /\ Saving /\ Causes

-----------------------------------------------------------------------------
LEMMA Unlisted ==
    ASSUME NoFilter, NameInv, NEW p \in DOMAIN sc.source
    PROVE  /\ sc \in Scenarios /\ sc.filtered = {} /\ p \in Names
           /\ ~Listed(p) => InSort(p, p) /\ Present(p) /\ disk[p] \in Inodes
                            /\ (disk[p][2] # 0 => disk[p][1] = Home(p))
  <1>1. sc \in Scenarios /\ sc.filtered = {} /\ p \in Names
    BY SourceIs DEF NoFilter, NameInv, OpenInv
  <1>2. ASSUME ~Listed(p) PROVE InSort(p, p)
    BY <1>1, <1>2 DEF NameInv, DiskInv, Placed, Settled
  <1>3. ASSUME InSort(p, p) PROVE Present(p) /\ Owned(p, disk[p])
    BY <1>1, <1>3 DEF InSort, NameInv, DiskInv, Owners
  <1>4. ASSUME Owned(p, disk[p]) PROVE disk[p] \in Inodes /\ (disk[p][2] # 0 => disk[p][1] = Home(p))
    BY <1>1, <1>4, SourceOwned DEF Owned
  <1> QED BY <1>1, <1>2, <1>3, <1>4

(* The directory of a name.                                                *)
LEMMA FrontTemp ==
    ASSUME sc \in Scenarios, NEW p \in Paths, NEW k \in {1, 2}
    PROVE  Front(Temp(p, k)) = Front(p)
  <1>1. /\ Ranked(p) /\ Ranked(Temp(p, k)) /\ Len(Temp(p, k)) = Len(p)
        /\ \A j \in 1..Len(p) : j < Len(p) => Temp(p, k)[j] = p[j]
    BY TempIs, PathTypes
  <1> DEFINE a == Front(p)
             b == Front(Temp(p, k))
  <1>2. a \in Seq(Nat) /\ Len(a) = Len(p) - 1 /\ \A j \in 1..(Len(p) - 1) : a[j] = p[j]
    BY <1>1, FrontFacts DEF Ranked
  <1>3. b \in Seq(Nat) /\ Len(b) = Len(p) - 1 /\ \A j \in 1..(Len(p) - 1) : b[j] = Temp(p, k)[j]
    BY <1>1, FrontFacts DEF Ranked
  <1>4. \A j \in 1..(Len(p) - 1) : j \in 1..Len(p) /\ j < Len(p)
    BY <1>1 DEF Ranked
  <1>5. \A j \in 1..Len(a) : a[j] = b[j]
    BY <1>1, <1>2, <1>3, <1>4
  <1> HIDE DEF a, b
  <1>6. a = b
    BY <1>2, <1>3, <1>5, SeqEqual
  <1> QED BY <1>6 DEF a, b

LEMMA FrontName ==
    ASSUME sc \in Scenarios, NEW x \in Names, Len(x) > 1
    PROVE  Front(x) \in Names /\ IsStrictPrefix(Front(x), x) /\ Before(Front(x), x)
  <1>1. x \in Seq(Nat) /\ x # <<>>
    BY NameTypes, EmptySeq
  <1>2. IsStrictPrefix(Front(x), x) /\ Before(Front(x), x)
    BY <1>1, FrontFacts DEF Before
  <1>3. ASSUME NEW p \in Paths, Len(p) > 1 PROVE Front(p) \in Names
    <2>1. Front(p) \in Paths
      BY <1>3, WriterAssumption DEF Paths
    <2> QED BY <2>1 DEF Names
  <1>4. CASE x \in Paths
    BY <1>2, <1>3, <1>4
  <1>5. CASE x \notin Paths
    <2>1. PICK p \in Paths, k \in {1, 2} : x = Temp(p, k)
      BY <1>5 DEF Names
    <2>2. Front(x) = Front(p) /\ Len(p) = Len(x)
      BY <2>1, FrontTemp, TempIs
    <2> QED BY <1>2, <1>3, <2>2
  <1> QED BY <1>4, <1>5

(* A change has a directory to be made or removed in.                      *)
LEMMA ParentIs ==
    ASSUME NoFilter, NameInv, Deletable, list # <<>>, NEW x, x \in {change, newPath}, x \in Names, Len(x) > 1,
           x # change => step # "next"
    PROVE  IsDirAt(Front(x)) /\ Front(x) \in DOMAIN sc.source /\ ~Listed(Front(x)) /\ Present(Front(x))
  <1>1. Sound /\ sc \in Scenarios /\ ListShape
    BY SoundHere DEF Sound
  <1>2. Front(x) \in Names /\ IsStrictPrefix(Front(x), x) /\ Front(x) \in Seq(Nat)
    BY <1>1, FrontName, NameTypes
  <1>3. Listed(change) /\ change \in Names /\ change \in Seq(Nat) /\ \A p \in Seq(Nat) : Before(p, change) => ~Listed(p)
    BY <1>1, FirstListed
  <1>4. IsStrictPrefix(Front(x), change)
    <2>1. CASE x = change
      BY <1>2, <2>1
    <2>2. CASE x # change
      BY <1>1, <1>2, <2>2, MakingIs, NewPathIs
    <2> QED BY <2>1, <2>2
  <1>5. ~Listed(Front(x))
    BY <1>2, <1>3, <1>4 DEF Before
  <1>6. Front(x) \in DOMAIN sc.source /\ Src(Front(x)).kind = "dir"
    <2>1. CASE change \in DOMAIN sc.source
      BY <1>1, <1>2, <1>4, <2>1, SourceTree
    <2>2. CASE change \notin DOMAIN sc.source
      <3>1. x = change
        BY <1>1, <2>2, MakingIs
      <3> QED BY <1>3, <2>2, <3>1 DEF Deletable
    <2> QED BY <2>1, <2>2
  <1> QED BY <1>5, <1>6, Unlisted DEF InSort

(* Touching a directory leaves the times of files alone.                   *)
Steady(i) == Same(inode'[i], inode[i]) /\ (inode[i].kind # "dir" => inode'[i].mtime = inode[i].mtime)

LEMMA TouchedSteady ==
    ASSUME NEW nodes, AreNodes(nodes), NEW x, Len(x) # 1 => nodes[disk[Front(x)]].kind = "dir",
           NEW i \in Inodes, nodes[i].kind # "dir"
    PROVE  Touched(nodes, x)[i] = nodes[i]
  <1>1. CASE Touched(nodes, x) = nodes
    BY <1>1
  <1>2. CASE Touched(nodes, x) # nodes
    <2> DEFINE d == disk[Front(x)]
               m == [nodes[d] EXCEPT !.mtime = "now"]
    <2>1. Touched(nodes, x) = [nodes EXCEPT ![d] = m] /\ Len(x) # 1
      BY <1>2 DEF Touched
    <2>2. i # d
      BY <2>1
    <2> QED BY <2>1, <2>2
  <1> QED BY <1>1, <1>2

LEMMA NameFilled ==
    ASSUME sc \in Scenarios, NEW x \in Names
    PROVE  x \in Seq(Nat) /\ (Len(x) # 1 => Len(x) > 1)
  <1>1. ASSUME NEW p \in Paths PROVE Len(p) \in Nat /\ Len(p) >= 1
    BY PathTypes DEF Ranked
  <1>2. ASSUME NEW p \in Paths, NEW k \in {1, 2} PROVE Len(Temp(p, k)) = Len(p)
    BY TempIs
  <1>3. Len(x) \in Nat /\ Len(x) >= 1
    BY <1>1, <1>2 DEF Names
  <1>4. x \in Seq(Nat)
    BY NameTypes
  <1>5. Len(x) # 1 => Len(x) > 1
    <2>1. PICK n : n = Len(x)
      OBVIOUS
    <2>2. n \in Nat /\ n >= 1
      BY <1>3, <2>1
    <2>3. n # 1 => n > 1
      BY <2>2
    <2> QED BY <2>1, <2>3
  <1> QED BY <1>4, <1>5

LEMMA Touches ==
    ASSUME NoFilter, NameInv, NamesDone, list # <<>>, UNCHANGED sc,
           NEW x, x \in {change, newPath}, x \in Names, x # change => step # "next",
           NEW nodes, AreNodes(nodes), \A i \in Inodes : i[1] # change => nodes[i] = inode[i], inode' = Touched(nodes, x)
    PROVE  \A i \in Inodes : Same(inode'[i], nodes[i]) /\ (nodes[i].kind # "dir" => inode'[i] = nodes[i])
  <1>1. \A i \in Inodes : Same(inode'[i], nodes[i])
    BY TouchedIs
  <1>2. ASSUME Len(x) # 1 PROVE nodes[disk[Front(x)]].kind = "dir"
    <2>1. Sound /\ sc \in Scenarios /\ ListShape /\ Listed(change)
      BY SoundHere, FirstListed DEF Sound
    <2>2. Len(x) > 1
      BY <1>2, <2>1, NameFilled
    <2>3. PICK f : f = Front(x)
      OBVIOUS
    <2>4. IsDirAt(f) /\ f \in DOMAIN sc.source /\ ~Listed(f) /\ Present(f)
      BY <2>2, <2>3, ParentIs DEF NamesDone
    <2>5. PICK i : i = disk[f]
      OBVIOUS
    <2>6. f \in Names /\ i \in Inodes /\ (i[2] # 0 => i[1] = Home(f)) /\ inode[i].kind = "dir"
      BY <2>4, <2>5, Unlisted DEF IsDirAt, At
    <2>7. Src(f).kind = "dir" /\ Home(f) = f
      BY <2>1, <2>4, Unlisted, SourceIs DEF InSort, Home
    <2>8. i[1] = f
      BY <2>4, <2>5, <2>6, <2>7 DEF NamesDone, DirHome
    <2>9. nodes[i] = inode[i]
      BY <2>1, <2>4, <2>6, <2>8
    <2> QED BY <2>3, <2>5, <2>6, <2>9
  <1> QED BY <1>1, <1>2, TouchedSteady

LEMMA TouchesOnly ==
    ASSUME NoFilter, NameInv, NamesDone, list # <<>>, UNCHANGED sc,
           NEW x, x \in {change, newPath}, x \in Names, x # change => step # "next", inode' = Touched(inode, x)
    PROVE  \A i \in Inodes : Steady(i)
  <1>1. AreNodes(inode)
    BY DEF NameInv, DiskInv, NodesShape
  <1> QED BY <1>1, Touches DEF Steady

(* What a step does to an entry that was handled before.                   *)
LEMMA FitSteady ==
    ASSUME NEW m, NEW n, NEW g, NEW s, Fit(m, g, s), Same(n, m), m.kind # "dir" => n.mtime = m.mtime
    PROVE  Fit(n, g, s)
  BY DEF Fit, FileFit, Same

LEMMA FitSet ==
    ASSUME NEW m, NEW n, NEW g, NEW s, Fit(m, g, s), n.kind = m.kind, n.ver = m.ver, n.n = m.n,
           n.mode = s.mode, n.mtime = "src"
    PROVE  Fit(n, g, s)
  BY DEF Fit, FileFit

-----------------------------------------------------------------------------
(* A step of HandleChange keeps the list or returns.                       *)
Advances == list # <<>> /\ list' \in {list, Tail(list)}

LEMMA ListedOn ==
    ASSUME NameInv, Advances
    PROVE  /\ \A p : Listed(p)' => Listed(p)
           /\ \A p : Listed(p) /\ (p # change \/ list' = list) => Listed(p)'
           /\ \A p : list' = Tail(list) /\ p = change => ~Listed(p)'
  <1>1. ListShape /\ list # <<>> /\ sc \in Scenarios
    BY DEF NameInv, OpenInv, Advances
  <1>2. CASE list' = list
    <2>1. list' # Tail(list)
      BY <1>1, <1>2, TailFacts DEF ListShape
    <2> QED BY <1>2, <2>1 DEF Listed
  <1>3. CASE list' = Tail(list)
    <2>1. list' # list
      BY <1>1, <1>3, TailFacts DEF ListShape
    <2>2. /\ \A i \in 1..Len(list)' : list'[i] = list[i + 1] /\ i + 1 \in 1..Len(list) /\ i + 1 # 1
          /\ \A p : Listed(p) => Listed(p)' \/ p = change
      BY <1>1, <1>3, TailIs
    <2>3. \A i \in 1..Len(list) : list[i].path = change => i = 1
      BY <1>1, FirstListed
    <2>4. \A p : Listed(p)' => Listed(p) /\ p # change
      BY <2>2, <2>3 DEF Listed
    <2> QED BY <2>1, <2>2, <2>4
  <1> QED BY <1>2, <1>3 DEF Advances

LEMMA UnlistedNext ==
    ASSUME NoFilter, NameInv, NameInv', UNCHANGED sc, NEW p \in DOMAIN sc.source, ~Listed(p)'
    PROVE  InSort(p, p)'
  <1>1. sc.filtered = {}
    BY Unlisted
  <1> QED BY <1>1 DEF NameInv, DiskInv, Placed, Settled

Temporary(x) == rename /\ step \in {"meta", "swap"} /\ x = newPath

LEMMA LeftoversThrough ==
    ASSUME NoFilter, NameInv, NameInv', Leftovers, UNCHANGED sc, Advances,
           \A x \in Names \ DOMAIN sc.source : Present(x)' => Temporary(x)' \/ (Present(x) /\ ~Temporary(x)),
           \A x \in Names : x = change /\ x \notin DOMAIN sc.source /\ list' = Tail(list) => ~Present(x)'
    PROVE  Leftovers'
  <1>1. ASSUME NEW x \in Names \ DOMAIN sc.source, Present(x)', ~Temporary(x)'
        PROVE  Listed(x)' \/ \E d \in Names : Removes(d, x)'
    <2>1. Present(x) /\ ~Temporary(x)
      BY <1>1
    <2>2. ASSUME Listed(x) PROVE Listed(x)'
      <3>1. CASE x # change \/ list' = list
        BY <2>2, <3>1, ListedOn
      <3>2. CASE x = change /\ list' = Tail(list)
        BY <1>1, <3>2
      <3> QED BY <3>1, <3>2 DEF Advances
    <2>3. ASSUME NEW d \in Names, Removes(d, x) PROVE Removes(d, x)'
      <3>1. CASE d # change \/ list' = list
        BY <2>3, <3>1, ListedOn DEF Removes, Src
      <3>2. CASE d = change /\ list' = Tail(list)
        <4>1. IsDirAt(d)'
          BY <1>1, <2>3, Static DEF NameInv, DiskInv, Tree, Removes
        <4>2. d \in DOMAIN sc.source
          BY <3>2, <4>1 DEF IsDirAt
        <4>3. InSort(d, d)'
          BY <3>2, <4>2, ListedOn, UnlistedNext
        <4> QED BY <2>3, <4>1, <4>2, <4>3 DEF Removes, InSort, Src
      <3> QED BY <3>1, <3>2 DEF Advances
    <2> QED BY <2>1, <2>2, <2>3 DEF Leftovers, Temporary
  <1> QED BY <1>1, Static DEF Leftovers, Temporary

LEMMA DeletableThrough ==
    ASSUME NameInv, Deletable, UNCHANGED sc, Advances
    PROVE  Deletable'
  BY ListedOn, Static DEF Deletable, Src

LEMMA DirHomeThrough ==
    ASSUME DirHome, UNCHANGED sc, \A x \in Names : IsDirAt(x)' /\ disk'[x][2] = 0 => IsDirAt(x) /\ disk'[x] = disk[x]
    PROVE  DirHome'
  BY Static DEF DirHome

(* An entry that was handled keeps its inode, one that was not is not made *)
(* another's, and the one in hand is made what it is to be.                *)
LEMMA LinksThrough ==
    ASSUME NoFilter, NameInv, Linked, Apart, UNCHANGED <<sc, attempt>>, Advances,
           \A p \in DOMAIN sc.source : ~Listed(p) => disk'[p] = disk[p],
           \A p \in DOMAIN sc.source : p # change => disk'[p] = disk[p] \/ disk'[p] = None,
           \A p \in DOMAIN sc.source : p = change /\ list' = Tail(list) =>
             /\ IsLink(p) => disk'[p] = disk[Src(p).link]
             /\ ~IsLink(p) /\ Src(p).kind = "file" => disk'[p] = <<p, attempt>>,
           \A p \in DOMAIN sc.source : p = change /\ IsLink(p) /\ list' = list =>
             \/ ~rename' /\ step' = "meta"
             \/ (disk'[p] = disk[p] \/ disk'[p] = None) /\ (rename \/ step # "meta")
    PROVE  Linked' /\ Apart'
  <1>1. sc \in Scenarios /\ ListShape /\ list # <<>>
    BY DEF NameInv, OpenInv, Advances
  <1>2. \A p : Src(p)' = Src(p) /\ (IsLink(p)' <=> IsLink(p))
    BY Static
  <1>3. ASSUME NEW p \in DOMAIN sc.source, IsLink(p), NEW l, l = Src(p).link, ~Listed(p)'
        PROVE  ~Listed(l)' /\ disk'[p] = disk'[l]
    <2>1. l \in DOMAIN sc.source /\ Before(l, p) /\ l \in Seq(Nat)
      BY <1>1, <1>3, SourceIs
    <2>2. ~Listed(l)
      <3>1. CASE Listed(p)
        <4>1. p = change
          BY <1>3, <3>1, ListedOn
        <4> QED BY <1>1, <2>1, <4>1, FirstListed
      <3>2. CASE ~Listed(p)
        BY <1>3, <3>2 DEF Linked
      <3> QED BY <3>1, <3>2
    <2>3. disk'[l] = disk[l] /\ ~Listed(l)'
      BY <2>1, <2>2, ListedOn
    <2>4. disk'[p] = disk[l]
      <3>1. CASE Listed(p)
        <4>1. p = change /\ list' = Tail(list)
          BY <1>3, <3>1, ListedOn DEF Advances
        <4> QED BY <1>3, <4>1
      <3>2. CASE ~Listed(p)
        BY <1>3, <3>2 DEF Linked
      <3> QED BY <3>1, <3>2
    <2> QED BY <2>3, <2>4
  <1>4. ASSUME NEW p \in DOMAIN sc.source, IsLink(p), NEW l, l = Src(p).link, Listed(p)',
               ~(p = change /\ list' = list /\ ~rename' /\ step' = "meta")
        PROVE  disk'[p] # <<l, attempt>> /\ (disk'[p] # None /\ ~Listed(l)' => disk'[p] # disk'[l])
    <2>1. l \in DOMAIN sc.source /\ ~IsLink(l) /\ Src(l).kind = "file"
      BY <1>1, <1>4, SourceIs
    <2>2. Listed(p) /\ (p = change => list' = list)
      BY <1>4, ListedOn DEF Advances
    <2>3. disk'[p] = disk[p] \/ disk'[p] = None
      BY <1>4, <2>2
    <2>4. Parted(p)
      BY <1>4, <2>2 DEF Apart
    <2>5. disk[p] # <<l, attempt>> /\ (Present(p) /\ ~Listed(l) => disk[p] # disk[l])
      BY <1>4, <2>4 DEF Parted
    <2>6. disk'[p] # <<l, attempt>>
      BY <2>3, <2>5 DEF None
    <2>7. ASSUME disk'[p] # None, ~Listed(l)' PROVE disk'[p] # disk'[l]
      <3>1. CASE Listed(l)
        <4>1. l = change /\ list' = Tail(list)
          BY <2>7, <3>1, ListedOn DEF Advances
        <4>2. disk'[l] = <<l, attempt>>
          BY <2>1, <4>1
        <4> QED BY <2>6, <4>2
      <3>2. CASE ~Listed(l)
        BY <2>1, <2>3, <2>5, <2>7, <3>2 DEF Present
      <3> QED BY <3>1, <3>2
    <2> QED BY <2>6, <2>7
  <1>5. Linked'
    BY <1>2, <1>3 DEF Linked
  <1>6. ASSUME NEW p \in DOMAIN sc.source, IsLink(p), Listed(p)'
        PROVE  Parted(p)' \/ (p = change' /\ ~rename' /\ step' = "meta")
    <2>1. CASE p = change /\ list' = list /\ ~rename' /\ step' = "meta"
      BY <2>1 DEF change
    <2>2. CASE ~(p = change /\ list' = list /\ ~rename' /\ step' = "meta")
      <3>1. PICK l : l = Src(p).link
        OBVIOUS
      <3>2. disk'[p] # <<l, attempt>> /\ (disk'[p] # None /\ ~Listed(l)' => disk'[p] # disk'[l])
        BY <1>6, <2>2, <3>1, <1>4
      <3>3. Src(p)' = Src(p) /\ l = (Src(p).link)'
        BY <1>2, <3>1
      <3>4. Parted(p)'
        BY <3>2, <3>3 DEF Parted, Present
      <3> QED BY <3>4
    <2> QED BY <2>1, <2>2
  <1>7. Apart'
    BY <1>2, <1>6 DEF Apart
  <1> QED BY <1>5, <1>7

LEMMA FitsThrough ==
    ASSUME NameInv, Fits, UNCHANGED sc, Advances,
           \A p \in DOMAIN sc.source : ~IsLink(p) /\ ~Listed(p) =>
             files'[p] = files[p] /\ Fit(At(p)', files[p], Src(p)),
           \A p \in DOMAIN sc.source : p = change /\ ~IsLink(p) /\ list' = Tail(list) => Fit(At(p)', files'[p], Src(p))
    PROVE  Fits'
  <1>1. \A p : Src(p)' = Src(p) /\ (IsLink(p)' <=> IsLink(p))
    BY Static
  <1>2. ASSUME NEW p \in DOMAIN sc.source, ~IsLink(p), ~Listed(p)' PROVE Fit(At(p)', files'[p], Src(p))
    <2>1. CASE Listed(p)
      <3>1. p = change /\ list' = Tail(list)
        BY <1>2, <2>1, ListedOn DEF Advances
      <3> QED BY <1>2, <3>1
    <2>2. CASE ~Listed(p)
      BY <1>2, <2>2
    <2> QED BY <2>1, <2>2
  <1>3. \A p : Fit(At(p), files[p], Src(p))' <=> Fit(At(p)', files'[p], Src(p))
    BY <1>1 DEF Fit, FileFit
  <1> QED BY <1>1, <1>2, <1>3 DEF Fits

LEMMA SavingKept ==
    ASSUME NameInv, Saving, UNCHANGED <<sc, loop>>,
           \A p \in DOMAIN sc.source :
             /\ files'[p].saved = files[p].saved /\ (files'[p].f = "none" <=> files[p].f = "none")
             /\ files'[p].pc \in {"off", "start"} => files[p].pc \in {"off", "start"}
    PROVE  Saving'
  <1>1. loop.at \in {"chmod", "reopen"} => loop.path \in DOMAIN sc.source
    BY DEF NameInv, OpenInv, LoopShape
  <1> QED BY <1>1 DEF Saving

LEMMA CausesStep ==
    ASSUME Causes, [Next]_vars
    PROVE  Causes'
  <1>1. CASE Diff
    BY <1>1 DEF Diff, StartChange, Make, Meta, Swap, WaitStarts, Wait, Causes
  <1>2. CASE Async
    BY <1>2 DEF Async, AsyncStarts, AsyncHasContent, AsyncGivesUp, AsyncSetsTimes, AsyncStays, Causes
  <1>3. CASE Loop
    BY <1>3 DEF Loop, LoopWrites, LoopCloses, LoopWidens, LoopReopens, LoopEnds, LoopStays, Causes
  <1>4. CASE CallFails \/ Cancel \/ OtherMkdir \/ \E p \in DOMAIN files : AsyncFails(p)
    BY <1>4 DEF CallFails, Cancel, OtherMkdir, AsyncFails, Causes
  <1>5. CASE NextAttempt
    BY <1>5 DEF NextAttempt, Causes
  <1>6. CASE UNCHANGED vars
    BY <1>6 DEF vars, Causes
  <1> QED BY <1>1, <1>2, <1>3, <1>4, <1>5, <1>6 DEF Next

(* Only what is being made is made, and directories are touched.           *)
LEMMA NodesThrough ==
    ASSUME NoFilter, NameInv, NodesDone, UNCHANGED sc, Advances,
           \A i \in Inodes : Steady(i) \/ (i[1] = change /\ i[2] # 0 /\ Dated(inode'[i])),
           \A p \in DOMAIN sc.source : ~Listed(p) => disk'[p] = disk[p] /\ files'[p] = files[p],
           \A p \in DOMAIN sc.source : p = change /\ ~IsLink(p) /\ list' = Tail(list) => Fit(At(p)', files'[p], Src(p)),
           \A d \in dirTimes' : d \in DOMAIN sc.source /\ Src(d).kind = "dir", fate' # "ok"
    PROVE  AllDated' /\ Fits' /\ Timed'
  <1>1. AllDated'
    <2>1. ASSUME NEW i \in Inodes, Steady(i) PROVE Dated(inode'[i])
      <3>1. Dated(inode[i])
        BY DEF NodesDone, AllDated
      <3> QED BY <2>1, <3>1 DEF Steady, Same, Dated
    <2> QED BY <2>1, Static DEF AllDated, Dated
  <1>2. Listed(change) /\ sc \in Scenarios
    BY FirstListed DEF NameInv, OpenInv, Advances
  <1>3. ASSUME NEW p \in DOMAIN sc.source, ~IsLink(p), ~Listed(p)
        PROVE  files'[p] = files[p] /\ Fit(At(p)', files[p], Src(p))
    <2>1. PICK i : i = disk[p]
      OBVIOUS
    <2>2. i \in Inodes /\ (i[2] # 0 => i[1] = p)
      BY <1>3, <2>1, Unlisted DEF Home
    <2>3. Steady(i)
      BY <1>2, <1>3, <2>2
    <2>4. Fit(inode[i], files[p], Src(p))
      BY <1>3, <2>1 DEF NodesDone, Fits, At
    <2>5. disk'[p] = i /\ files'[p] = files[p]
      BY <1>3, <2>1
    <2>6. Fit(inode'[i], files[p], Src(p))
      BY <2>3, <2>4, FitSteady DEF Steady
    <2> QED BY <2>5, <2>6 DEF At
  <1>4. Fits'
    BY <1>3, FitsThrough DEF NodesDone
  <1>5. Timed'
    BY Static DEF Timed
  <1> QED BY <1>1, <1>4, <1>5

(* Nothing on the disk changes, nor what is in hand.                       *)
LEMMA StillThere ==
    ASSUME NameInv, DoneInv, UNCHANGED <<sc, disk, inode, attempt, list, dirTimes, files>>, fate' = "ok" => fate = "ok",
           UNCHANGED <<step, rename>> \/ {step, step'} \subseteq {"next", "make"}
    PROVE  NamesDone' /\ NodesDone'
  <1>1. /\ Names' = Names /\ Inodes' = Inodes
        /\ \A p : Src(p)' = Src(p) /\ (IsLink(p)' <=> IsLink(p)) /\ (Listed(p)' <=> Listed(p))
        /\ \A x : (Present(x)' <=> Present(x)) /\ (IsDirAt(x)' <=> IsDirAt(x)) /\ At(x)' = At(x)
    BY Static DEF Listed, Present, IsDirAt, At
  <1>3. \A x : Temporary(x)' <=> Temporary(x)
    <2>1. CASE UNCHANGED <<step, rename>>
      BY <2>1, <1>1 DEF Temporary, newPath, Temp, change
    <2>2. CASE {step, step'} \subseteq {"next", "make"}
      BY <2>2 DEF Temporary
    <2> QED BY <2>1, <2>2
  <1>4. Leftovers'
    <2>1. \A d, x : Removes(d, x)' <=> Removes(d, x)
      BY <1>1 DEF Removes
    <2>2. Leftovers => Leftovers'
      BY <1>1, <1>3, <2>1 DEF Leftovers, Temporary
    <2> QED BY <2>2 DEF DoneInv, NamesDone
  <1>5. Deletable' /\ Linked' /\ DirHome'
    BY <1>1 DEF DoneInv, NamesDone, Deletable, Linked, DirHome
  <1>6. Apart'
    <2>1. \A p : (Parted(p)' <=> Parted(p)) /\ (p = change' <=> p = change)
      BY <1>1 DEF Parted, change
    <2> QED BY <1>1, <2>1 DEF DoneInv, NamesDone, Apart
  <1>7. AllDated' /\ Timed'
    BY <1>1 DEF DoneInv, NodesDone, AllDated, Timed
  <1>8. Fits'
    BY <1>1 DEF DoneInv, NodesDone, Fits
  <1>9. InHand'
    <2>1. CASE UNCHANGED <<step, rename>>
      <3>1. newPath' = newPath /\ change' = change
        BY <2>1 DEF newPath, Temp, change
      <3>2. At(newPath)' = At(newPath) /\ Src(change)' = Src(change) /\ (IsLink(change)' <=> IsLink(change))
        BY <1>1, <3>1 DEF At, Src, IsLink
      <3> QED BY <2>1, <3>2 DEF DoneInv, NodesDone, InHand, Made
    <2>2. CASE {step, step'} \subseteq {"next", "make"}
      BY <2>2 DEF InHand
    <2> QED BY <2>1, <2>2
  <1> QED BY <1>4, <1>5, <1>6, <1>7, <1>8, <1>9 DEF NamesDone, NodesDone

LEMMA StillDone ==
    ASSUME NameInv, DoneInv, UNCHANGED <<sc, disk, inode, attempt, list, dirTimes, files, loop>>, fate' = "ok" => fate = "ok",
           UNCHANGED <<step, rename>> \/ {step, step'} \subseteq {"next", "make"}
    PROVE  NamesDone' /\ NodesDone' /\ Saving'
  <1>1. Saving'
    BY DEF DoneInv, Saving
  <1> QED BY <1>1, StillThere

-----------------------------------------------------------------------------
(* HandleChange, up to Lstat.                                              *)
LEMMA StartsDeleteDone ==
    ASSUME NoFilter, NameInv, NameInv', DoneInv, Handling, step = "next", kind = "delete", RemoveAll(change), Returns,
           UNCHANGED <<sc, attempt, files, loop, dirTimes, fate>>
    PROVE  NamesDone' /\ NodesDone' /\ Saving'
  <1>0. PICK c : c = change
    OBVIOUS
  <1>1. Sound /\ sc \in Scenarios /\ list # <<>> /\ list' = Tail(list) /\ step' = "next" /\ Advances /\ fate' # "ok"
    BY SoundHere DEF Handling, Sound, Returns, Advances
  <1>2. c \in Names /\ c \in Seq(Nat) /\ c \notin DOMAIN sc.source
    BY <1>0, <1>1, FirstListed DEF Sound, DiskInv, ChangeShape, ListKinds, kind, change
  <1>3. \A y \in Names : IF IsPrefix(c, y) THEN ~Present(y)' ELSE Stays(y)
    BY <1>0, <1>1, <1>2, RemoveAllIs
  <1>4. \A i \in Inodes : Steady(i)
    <2>1. inode' = Touched(inode, c)
      BY <1>0 DEF RemoveAll
    <2> QED BY <1>0, <1>1, <1>2, <2>1, TouchesOnly DEF DoneInv
  <1>5. ASSUME NEW p \in DOMAIN sc.source PROVE p # c /\ disk'[p] = disk[p]
    <2>1. p \in Names /\ p \in Seq(Nat)
      BY <1>1, SourceIs
    <2>2. ~IsPrefix(c, p)
      <3>1. ~IsStrictPrefix(c, p)
        BY <1>1, <1>2, SourceTree
      <3> QED BY <1>2, <2>1, <3>1 DEF IsStrictPrefix
    <2> QED BY <1>2, <1>3, <2>1, <2>2 DEF Stays
  <1>6. \A x \in Names : Present(x)' => disk'[x] = disk[x] /\ Present(x) /\ (IsDirAt(x)' <=> IsDirAt(x))
    BY <1>3, StaysFacts DEF Stays
  <1>7. ~Present(c)'
    BY <1>2, <1>3, PrefixReflexive
  <1>8. Leftovers'
    <2>1. \A x \in Names \ DOMAIN sc.source : Present(x)' => Temporary(x)' \/ (Present(x) /\ ~Temporary(x))
      BY <1>6 DEF Temporary
    <2>2. \A x \in Names : x = change /\ x \notin DOMAIN sc.source /\ list' = Tail(list) => ~Present(x)'
      BY <1>0, <1>7
    <2> QED BY <1>1, <2>1, <2>2, LeftoversThrough DEF DoneInv, NamesDone
  <1>9. Linked' /\ Apart'
    <2>1. \A p \in DOMAIN sc.source : p # change
      BY <1>0, <1>2
    <2> QED BY <1>1, <1>5, <2>1, LinksThrough DEF DoneInv, NamesDone
  <1>10. DirHome'
    <2>1. \A x \in Names : IsDirAt(x)' /\ disk'[x][2] = 0 => IsDirAt(x) /\ disk'[x] = disk[x]
      BY <1>6 DEF IsDirAt
    <2> QED BY <2>1, DirHomeThrough DEF DoneInv, NamesDone
  <1>11. AllDated' /\ Fits' /\ Timed'
    BY <1>0, <1>1, <1>2, <1>4, <1>5, NodesThrough DEF DoneInv, NodesDone, Timed
  <1>12. InHand'
    BY <1>1 DEF InHand
  <1>13. Saving'
    BY SavingKept DEF DoneInv
  <1> QED BY <1>1, <1>8, <1>9, <1>10, <1>11, <1>12, <1>13, DeletableThrough DEF NamesDone, NodesDone, DoneInv

LEMMA RewrittenIs ==
    ASSUME NameInv, NEW x, NEW p, disk[x] \in Inodes, rewriteMetadata(x, p), UNCHANGED <<sc, disk>>
    PROVE  /\ Rewritten(disk[x], Src(p).mode)
           /\ \A y \in Names : /\ Present(y)' <=> Present(y)
                               /\ IsDirAt(y)' <=> IsDirAt(y)
  <1>1. Rewritten(disk[x], Src(p).mode)
    BY MetadataIs DEF NameInv, DiskInv, NodesShape
  <1>2. \A y \in Names : Present(y) => disk[y] \in Inodes
    BY DEF NameInv, DiskInv, Owners, Owned
  <1> QED BY <1>1, <1>2 DEF Rewritten, Present, IsDirAt, At

LEMMA RewrittenNames ==
    ASSUME NoFilter, NameInv, NameInv', DoneInv, UNCHANGED <<sc, disk, attempt, rename>>, Advances,
           \A y \in Names : (Present(y)' <=> Present(y)) /\ (IsDirAt(y)' <=> IsDirAt(y)), change \in DOMAIN sc.source,
           \A y \in Names : Temporary(y) => Temporary(y)',
           list' = Tail(list) =>
             /\ IsLink(change) => disk[change] = disk[Src(change).link]
             /\ ~IsLink(change) /\ Src(change).kind = "file" => disk[change] = <<change, attempt>>,
           IsLink(change) /\ list' = list => rename \/ step # "meta"
    PROVE  NamesDone'
  <1>1. Leftovers'
    <2>1. \A x \in Names \ DOMAIN sc.source : Present(x)' => Temporary(x)' \/ (Present(x) /\ ~Temporary(x))
      OBVIOUS
    <2> QED BY <2>1, LeftoversThrough DEF DoneInv, NamesDone
  <1>2. Linked' /\ Apart'
    BY LinksThrough DEF DoneInv, NamesDone
  <1>3. DirHome'
    BY DirHomeThrough DEF DoneInv, NamesDone
  <1> QED BY <1>1, <1>2, <1>3, DeletableThrough DEF DoneInv, NamesDone

LEMMA RewrittenFits ==
    ASSUME NEW d, NEW v, Rewritten(d, v), NEW i \in Inodes, i # d, NEW g, NEW s, Fit(inode[i], g, s)
    PROVE  Fit(inode'[i], g, s)
  <1>1. Same(inode'[i], inode[i]) /\ inode'[i].mtime = inode[i].mtime
    BY DEF Rewritten, Same
  <1> QED BY <1>1, FitSteady

LEMMA StartsDirectoryDone ==
    ASSUME NoFilter, NameInv, NameInv', DoneInv, Handling, step = "next", kind # "delete",
           IsDirAt(change), Src(change).kind = "dir", rewriteMetadata(change, change), Returns,
           UNCHANGED <<sc, disk, attempt, files, loop, rename, dirTimes, fate>>
    PROVE  NamesDone' /\ NodesDone' /\ Saving'
  <1>0. PICK c : c = change
    OBVIOUS
  <1>1. Sound /\ sc \in Scenarios /\ list # <<>> /\ list' = Tail(list) /\ step' = "next" /\ Advances /\ fate' # "ok"
    BY SoundHere DEF Handling, Sound, Returns, Advances
  <1>2. Listed(c) /\ c \in Names /\ c \in DOMAIN sc.source
    BY <1>0, <1>1, FirstListed DEF Sound, DiskInv, ChangeShape, ListKinds, kind, change
  <1>3. ~IsLink(c) /\ Home(c) = c
    BY <1>0, <1>1, <1>2, SourceIs DEF Home
  <1>4. Present(c) /\ disk[c] \in Inodes /\ disk[c][1] = c
    <2>1. Present(c) /\ Owned(c, disk[c])
      BY <1>0, <1>1, <1>2 DEF IsDirAt, Sound, DiskInv, Owners
    <2>2. disk[c][2] = 0 => disk[c][1] = c
      BY <1>0, <1>2 DEF DoneInv, NamesDone, DirHome
    <2> QED BY <1>1, <1>2, <1>3, <2>1, <2>2, SourceOwned DEF Owned
  <1>5. Rewritten(disk[c], Src(c).mode) /\ \A y \in Names : (Present(y)' <=> Present(y)) /\ (IsDirAt(y)' <=> IsDirAt(y))
    BY <1>0, <1>4, RewrittenIs
  <1>6. NamesDone'
    <2>1. \A y \in Names : ~Temporary(y)
      BY DEF Temporary
    <2>2. list' # list
      BY <1>0, <1>1, <1>2, ListedOn
    <2> QED BY <1>0, <1>1, <1>2, <1>3, <1>5, <2>1, <2>2, RewrittenNames
  <1>7. inode[disk[c]].kind = "dir"
    BY <1>0 DEF IsDirAt, At
  <1>8. AllDated'
    <2>1. \A i \in Inodes : Dated(inode[i])
      BY DEF DoneInv, NodesDone, AllDated
    <2>2. \A i \in Inodes : Dated(inode'[i])
      BY <1>5, <1>7, <2>1 DEF Rewritten, Dated
    <2>3. Inodes' = Inodes
      BY Static
    <2> QED BY <2>2, <2>3 DEF AllDated, Dated
  <1>9. Fits'
    <2>1. ASSUME NEW p \in DOMAIN sc.source, ~IsLink(p), ~Listed(p) PROVE Fit(At(p)', files[p], Src(p))
      <3>1. PICK i : i = disk[p]
        OBVIOUS
      <3>2. i \in Inodes /\ p \in Names /\ Fit(inode[i], files[p], Src(p)) /\ (i[2] # 0 => i[1] = p) /\ Present(p)
        BY <2>1, <3>1, Unlisted DEF DoneInv, NodesDone, Fits, At, Home
      <3>3. i # disk[c]
        <4>1. ASSUME i = disk[c] PROVE FALSE
          <5>1. IsDirAt(p)
            BY <1>7, <3>1, <3>2, <4>1 DEF IsDirAt, At
          <5>2. i[1] = p
            BY <3>1, <3>2, <5>1 DEF DoneInv, NamesDone, DirHome
          <5> QED BY <1>2, <1>4, <2>1, <4>1, <5>2
        <4> QED BY <4>1
      <3>4. Fit(inode'[i], files[p], Src(p))
        BY <1>5, <3>2, <3>3, RewrittenFits
      <3> QED BY <3>1, <3>4 DEF At
    <2>2. Fit(At(c)', files'[c], Src(c))
      <3>1. inode'[disk[c]].kind = "dir" /\ inode'[disk[c]].mode = Src(c).mode
        BY <1>4, <1>5, <1>7 DEF Rewritten
      <3> QED BY <1>0, <3>1 DEF Fit, At
    <2> QED BY <1>0, <1>1, <2>1, <2>2, FitsThrough DEF DoneInv, NodesDone
  <1>10. Timed' /\ InHand' /\ Saving'
    BY <1>1, SavingKept DEF DoneInv, NodesDone, Timed, InHand, Src
  <1> QED BY <1>6, <1>8, <1>9, <1>10 DEF NodesDone

LEMMA StartChangeDone ==
    ASSUME NoFilter, NameInv, NameInv', DoneInv, StartChange
    PROVE  NamesDone' /\ NodesDone' /\ Saving'
  <1>1. Handling /\ step = "next" /\ UNCHANGED <<sc, attempt, files, loop>>
    BY DEF StartChange, AsyncFixed
  <1>2. sc.filtered = {}
    BY DEF NoFilter
  <1>3. CASE Fail /\ DiskFixed
    BY <1>1, <1>3, StillDone DEF Fail, DiskFixed, diskVars
  <1>4. CASE kind = "delete" /\ RemoveAll(change) /\ Returns /\ UNCHANGED <<rename, dirTimes, fate, ctxDone>>
    BY <1>1, <1>4, StartsDeleteDone
  <1>5. CASE /\ kind # "delete" /\ IsDirAt(change) /\ Src(change).kind = "dir"
             /\ rewriteMetadata(change, change) /\ Returns /\ UNCHANGED <<disk, rename, dirTimes, fate, ctxDone>>
    BY <1>1, <1>5, StartsDirectoryDone
  <1>6. CASE step' = "make" /\ UNCHANGED <<diskVars, list, dirTimes, fate, ctxDone>>
    BY <1>1, <1>6, StillDone DEF diskVars
  <1> QED BY <1>2, <1>3, <1>4, <1>5, <1>6 DEF StartChange

-----------------------------------------------------------------------------
(* What is to be there is made.                                            *)
LEMMA AddsDone ==
    ASSUME NoFilter, NameInv, NameInv', DoneInv, step = "make", fate # "ok",
           UNCHANGED <<sc, attempt, list, rename, files, loop, fate>>,
           step' = "meta" \/ (step' = "make" /\ ~rename /\ ~IsLink(change)),
           NEW x, x = newPath, NEW v, v \in Inodes, v[2] # 0 \/ inode[v].kind # "dir",
           disk' = [y \in Names |-> IF y = x THEN v ELSE disk[y]],
           \A i \in Inodes : Steady(i) \/ (i[1] = change /\ i[2] # 0 /\ Dated(inode'[i])),
           dirTimes' \in {dirTimes, dirTimes \cup {change}}, dirTimes' # dirTimes => Src(change).kind = "dir"
    PROVE  NamesDone' /\ AllDated' /\ Fits' /\ Timed' /\ Saving'
  <1>0. PICK c : c = change
    OBVIOUS
  <1>1. /\ Sound /\ sc \in Scenarios /\ list # <<>> /\ c \in DOMAIN sc.source /\ Listed(c) /\ x \in Names
        /\ attempt \in {1, 2} /\ rename \in BOOLEAN
    BY <1>0, SoundHere, MakingIs DEF Sound
  <1>2. Advances /\ list' # Tail(list)
    <2>1. Advances
      BY <1>1 DEF Advances
    <2>2. Listed(c)'
      BY <1>1 DEF Listed
    <2> QED BY <1>0, <2>1, <2>2, ListedOn
  <1>3. x = c \/ (rename /\ x \notin DOMAIN sc.source)
    BY <1>0, <1>1, NewPathIs DEF Sound
  <1>4. \A p \in DOMAIN sc.source : p # c => disk'[p] = disk[p]
    BY <1>1, <1>3, SourceIs
  <1>5. Leftovers'
    <2>1. ASSUME NEW y \in Names \ DOMAIN sc.source, Present(y)' PROVE Temporary(y)' \/ (Present(y) /\ ~Temporary(y))
      <3>1. CASE y = x
        <4>1. rename' /\ step' = "meta"
          BY <1>1, <1>3, <2>1, <3>1
        <4>2. newPath' = x
          BY DEF newPath, change, Temp
        <4> QED BY <3>1, <4>1, <4>2 DEF Temporary
      <3>2. CASE y # x
        BY <2>1, <3>2 DEF Present, Temporary
      <3> QED BY <3>1, <3>2
    <2> QED BY <1>2, <2>1, LeftoversThrough DEF DoneInv, NamesDone
  <1>6. Linked' /\ Apart'
    <2>1. \A p \in DOMAIN sc.source : ~Listed(p) => disk'[p] = disk[p]
      BY <1>1, <1>4
    <2>2. ASSUME NEW p \in DOMAIN sc.source, p = change, IsLink(p)
          PROVE  (~rename' /\ step' = "meta") \/ (disk'[p] = disk[p] /\ step # "meta")
      <3>1. step' = "meta"
        BY <2>2
      <3>2. CASE x = c
        <4>1. ~rename
          <5>1. ASSUME rename PROVE FALSE
            <6>1. Temp(c, attempt) = c /\ c \in Paths
              BY <1>0, <1>1, <3>2, <5>1 DEF newPath, Paths
            <6> QED BY <1>1, <6>1, TempFacts
          <5> QED BY <5>1
        <4> QED BY <3>1, <4>1
      <3>3. CASE x # c
        BY <1>0, <1>1, <2>2, <3>3, SourceIs
      <3> QED BY <3>2, <3>3
    <2> QED BY <1>0, <1>2, <1>4, <2>1, <2>2, LinksThrough DEF DoneInv, NamesDone
  <1>7. DirHome'
    <2>1. ASSUME NEW y \in Names, IsDirAt(y)', disk'[y][2] = 0 PROVE IsDirAt(y) /\ disk'[y] = disk[y]
      <3>1. PICK i : i = disk'[y]
        OBVIOUS
      <3>2. i # None /\ inode'[i].kind = "dir" /\ i[2] = 0
        BY <2>1, <3>1 DEF IsDirAt, Present, At
      <3>3. i \in Inodes
        <4>1. Owned(y, disk[y])'
          BY <2>1, <3>1, <3>2, Static DEF NameInv, DiskInv, Owners, Present
        <4> QED BY <3>1, <4>1, Static DEF Owned
      <3>4. inode[i].kind = "dir"
        BY <3>2, <3>3 DEF Steady, Same
      <3>5. y # x
        BY <3>1, <3>2, <3>4
      <3> QED BY <3>1, <3>2, <3>4, <3>5 DEF IsDirAt, Present, At
    <2> QED BY <2>1, DirHomeThrough DEF DoneInv, NamesDone
  <1>8. AllDated' /\ Fits' /\ Timed'
    <2>1. \A d \in dirTimes' : d \in DOMAIN sc.source /\ Src(d).kind = "dir"
      BY <1>0, <1>1 DEF DoneInv, NodesDone, Timed
    <2>2. \A p \in DOMAIN sc.source : ~Listed(p) => disk'[p] = disk[p] /\ files'[p] = files[p]
      BY <1>1, <1>4
    <2> QED BY <1>2, <2>1, <2>2, NodesThrough DEF DoneInv
  <1>9. Saving'
    BY SavingKept DEF DoneInv
  <1> QED BY <1>2, <1>5, <1>6, <1>7, <1>8, <1>9, DeletableThrough DEF NamesDone, DoneInv

LEMMA CreatesDone ==
    ASSUME NoFilter, NameInv, DoneInv, step = "make", UNCHANGED sc, NEW x, x = newPath,
           NEW k \in {attempt, 3}, NEW i, i = <<change, k>>, NEW m, IsNode(m), Dated(m), Create(x, i, m)
    PROVE  /\ disk' = [y \in Names |-> IF y = x THEN i ELSE disk[y]] /\ i \in Inodes /\ i[1] = change /\ i[2] # 0
           /\ Same(inode'[i], m)
           /\ \A j \in Inodes : Steady(j) \/ (j[1] = change /\ j[2] # 0 /\ Dated(inode'[j]))
  <1>1. /\ Sound /\ list # <<>> /\ change \in Names /\ attempt \in {1, 2} /\ x \in Names
        /\ NodesShape
    BY SoundHere, MakingIs DEF Sound, DiskInv
  <1>2. i \in Inodes /\ i[1] = change /\ i[2] # 0
    BY <1>1 DEF Inodes
  <1>3. disk' = [y \in Names |-> IF y = x THEN i ELSE disk[y]] /\ Same(inode'[i], m)
    BY <1>1, <1>2, CreateIs
  <1>4. PICK nodes : nodes = [inode EXCEPT ![i] = m]
    OBVIOUS
  <1>5. AreNodes(nodes) /\ nodes[i] = m /\ \A j \in Inodes : j # i => nodes[j] = inode[j]
    <2>1. Given(nodes, inode, i, m) /\ AreNodes(inode)
      BY <1>1, <1>4 DEF Given, NodesShape
    <2> QED BY <1>2, <2>1, OneNode
  <1>6. \A j \in Inodes : Same(inode'[j], nodes[j]) /\ (nodes[j].kind # "dir" => inode'[j] = nodes[j])
    <2>1. inode' = Touched(nodes, x)
      BY <1>4 DEF Create
    <2>2. \A j \in Inodes : j[1] # change => nodes[j] = inode[j]
      BY <1>2, <1>5
    <2> QED BY <1>1, <1>5, <2>1, <2>2, Touches DEF DoneInv
  <1>7. Dated(inode'[i])
    BY <1>2, <1>5, <1>6 DEF Dated, Same
  <1>8. \A j \in Inodes : j # i => Steady(j)
    BY <1>5, <1>6 DEF Steady
  <1> QED BY <1>2, <1>3, <1>7, <1>8

LEMMA MakesNewDone ==
    ASSUME NoFilter, NameInv, NameInv', DoneInv, Handling, step = "make", ~IsLink(change),
           NEW m, IsNode(m), Dated(m), Made(m, Src(change)), Create(newPath, <<change, attempt>>, m), step' = "meta",
           UNCHANGED <<sc, attempt, list, rename, files, loop, fate>>,
           dirTimes' = IF Src(change).kind = "dir" THEN dirTimes \cup {change} ELSE dirTimes
    PROVE  NamesDone' /\ NodesDone' /\ Saving'
  <1>0. PICK c : c = change
    OBVIOUS
  <1>1. PICK x : x = newPath
    OBVIOUS
  <1>2. PICK i : i = <<c, attempt>>
    OBVIOUS
  <1>3. /\ disk' = [y \in Names |-> IF y = x THEN i ELSE disk[y]] /\ i \in Inodes /\ i[2] # 0
        /\ Same(inode'[i], m)
        /\ \A j \in Inodes : Steady(j) \/ (j[1] = change /\ j[2] # 0 /\ Dated(inode'[j]))
    <2>1. Create(x, i, m) /\ i = <<change, attempt>>
      BY <1>0, <1>1, <1>2
    <2> QED BY <1>1, <2>1, CreatesDone
  <1>4. NamesDone' /\ AllDated' /\ Fits' /\ Timed' /\ Saving'
    <2>1. fate # "ok" /\ dirTimes' \in {dirTimes, dirTimes \cup {change}} /\ (dirTimes' # dirTimes => Src(change).kind = "dir")
      BY DEF Handling
    <2> QED BY <1>1, <1>3, <2>1, AddsDone
  <1>5. InHand'
    <2>1. newPath' = x /\ change' = c /\ x \in Names /\ c \in DOMAIN sc.source
      BY <1>0, <1>1, SoundHere, MakingIs DEF newPath, change, Temp
    <2>2. At(newPath)' = inode'[i]
      BY <1>3, <2>1 DEF At
    <2>3. Src(change)' = Src(c) /\ (IsLink(change)' <=> IsLink(c))
      BY <2>1, Static DEF Src, IsLink
    <2>4. Made(inode'[i], Src(c))
      BY <1>0, <1>3 DEF Made, Same
    <2> QED BY <2>2, <2>3, <2>4 DEF InHand, Made
  <1> QED BY <1>4, <1>5 DEF NodesDone

LEMMA MakesLinkDone ==
    ASSUME NoFilter, NameInv, NameInv', DoneInv, Handling, step = "make", IsLink(change), NEW l, l = Src(change).link,
           Present(l), ~IsDirAt(l), LinksTo(l), step' = "meta",
           UNCHANGED <<sc, attempt, list, rename, files, loop, fate, dirTimes>>
    PROVE  NamesDone' /\ NodesDone' /\ Saving'
  <1>0. PICK c : c = change
    OBVIOUS
  <1>1. PICK x : x = newPath
    OBVIOUS
  <1>2. PICK v : v = disk[l]
    OBVIOUS
  <1>3. Sound /\ list # <<>> /\ c \in DOMAIN sc.source /\ x \in Names /\ sc \in Scenarios
    BY <1>0, <1>1, SoundHere, MakingIs DEF Sound
  <1>4. l \in Names
    BY <1>0, <1>3, LinkIs
  <1>5. v \in Inodes /\ inode[v].kind # "dir"
    BY <1>2, <1>3, <1>4 DEF Sound, DiskInv, Owners, Owned, IsDirAt, At
  <1>6. disk' = [y \in Names |-> IF y = x THEN v ELSE disk[y]]
    BY <1>1, <1>2, <1>3 DEF LinksTo, Sound, DiskInv, NodesShape
  <1>7. \A i \in Inodes : Steady(i)
    <2>1. inode' = Touched(inode, x)
      BY <1>1 DEF LinksTo
    <2> QED BY <1>1, <1>3, <2>1, TouchesOnly DEF DoneInv
  <1>8. NamesDone' /\ AllDated' /\ Fits' /\ Timed' /\ Saving'
    <2>1. fate # "ok"
      BY DEF Handling
    <2> QED BY <1>1, <1>5, <1>6, <1>7, <2>1, AddsDone
  <1>9. InHand'
    <2>1. IsLink(change)'
      BY Static DEF change, IsLink, Src
    <2> QED BY <2>1 DEF InHand
  <1> QED BY <1>8, <1>9 DEF NodesDone

LEMMA MakeDone ==
    ASSUME NoFilter, NameInv, NameInv', DoneInv, Make
    PROVE  NamesDone' /\ NodesDone' /\ Saving'
  <1>1. Handling /\ step = "make" /\ UNCHANGED <<sc, attempt, files, loop>>
    BY DEF Make, AsyncFixed
  <1>2. CASE step' = "next" /\ UNCHANGED <<diskVars, list, rename, dirTimes, fate, ctxDone, blame>>
    BY <1>1, <1>2, StillDone DEF diskVars
  <1>3. CASE Fail /\ DiskFixed
    BY <1>1, <1>3, StillDone DEF Fail, DiskFixed, diskVars
  <1>4. ASSUME step' = "meta", UNCHANGED <<list, rename, fate, ctxDone, blame>>,
               dirTimes' = IF Src(change).kind = "dir" THEN dirTimes \cup {change} ELSE dirTimes,
               IF IsLink(change)
               THEN /\ Present(Src(change).link) /\ ~IsDirAt(Src(change).link)
                    /\ disk' = [disk EXCEPT ![newPath] = disk[Src(change).link]] /\ inode' = Touched(inode, newPath)
               ELSE Create(newPath, <<change, attempt>>,
                           Node(Src(change).kind, "src", IF sc.sync THEN Src(change).n ELSE 0, "fresh", "now"))
        PROVE  NamesDone' /\ NodesDone' /\ Saving'
    <2>1. change \in DOMAIN sc.source /\ sc \in Scenarios
      BY <1>1, SoundHere, MakingIs DEF Sound
    <2>2. CASE IsLink(change)
      <3>1. PICK l : l = Src(change).link
        OBVIOUS
      <3>2. Src(change).kind # "dir"
        BY <2>1, <2>2, SourceIs
      <3>3. Present(l) /\ ~IsDirAt(l) /\ LinksTo(l) /\ dirTimes' = dirTimes
        BY <1>4, <2>2, <3>1, <3>2 DEF LinksTo
      <3> QED BY <1>1, <1>4, <2>2, <3>1, <3>3, MakesLinkDone
    <2>3. CASE ~IsLink(change)
      <3>1. PICK m : m = Node(Src(change).kind, "src", IF sc.sync THEN Src(change).n ELSE 0, "fresh", "now")
        OBVIOUS
      <3>2. Src(change).kind # "file" => Src(change).n = 0
        BY <2>1, WriterAssumption DEF Src
      <3>3. IsNode(m) /\ Dated(m) /\ Made(m, Src(change))
        BY <3>1, <3>2 DEF IsNode, Dated, Made, Node
      <3> QED BY <1>1, <1>4, <2>3, <3>1, <3>3, MakesNewDone
    <2> QED BY <2>2, <2>3
  <1> QED BY <1>1, <1>2, <1>3, <1>4 DEF Make

LEMMA OtherMkdirDone ==
    ASSUME NoFilter, NameInv, NameInv', DoneInv, OtherMkdir
    PROVE  NamesDone' /\ NodesDone' /\ Saving'
  <1>1. /\ Handling /\ step = "make" /\ ~rename /\ Src(change).kind = "dir"
        /\ UNCHANGED <<sc, attempt, files, loop, list, step, rename, dirTimes, fate>>
    BY DEF OtherMkdir, AsyncFixed, DiffFixed
  <1>2. PICK x : x = newPath
    OBVIOUS
  <1>3. PICK i : i = <<change, 3>>
    OBVIOUS
  <1>4. PICK m : m = Node("dir", "src", 0, "fresh", "now")
    OBVIOUS
  <1>5. x = change /\ ~IsLink(change)
    <2>1. change \in DOMAIN sc.source /\ sc \in Scenarios
      BY <1>1, SoundHere, MakingIs DEF Sound
    <2> QED BY <1>1, <1>2, <2>1, SourceIs DEF newPath
  <1>6. Create(x, i, m) /\ IsNode(m) /\ Dated(m)
    BY <1>3, <1>4, <1>5 DEF OtherMkdir, IsNode, Dated, Node
  <1>7. /\ disk' = [y \in Names |-> IF y = x THEN i ELSE disk[y]] /\ i \in Inodes /\ i[2] # 0
        /\ \A j \in Inodes : Steady(j) \/ (j[1] = change /\ j[2] # 0 /\ Dated(inode'[j]))
    BY <1>1, <1>2, <1>3, <1>6, CreatesDone
  <1>8. NamesDone' /\ AllDated' /\ Fits' /\ Timed' /\ Saving'
    BY <1>1, <1>2, <1>5, <1>7, AddsDone DEF Handling
  <1>9. InHand'
    BY <1>1 DEF InHand
  <1> QED BY <1>8, <1>9 DEF NodesDone

-----------------------------------------------------------------------------
(* The entry gets its metadata and its name, and is handed over.           *)
LEMMA HandsOver ==
    ASSUME NameInv, Saving, list # <<>>, NEW c \in DOMAIN sc.source, c = change, HandOver
    PROVE  /\ \A p \in DOMAIN sc.source : p # c => files'[p] = files[p]
           /\ files'[c].saved = "" /\ files'[c].f = files[c].f /\ ~files'[c].done /\ files[c].pc = "off"
           /\ files[c].saved = ""
           /\ files'[c].pc = "off" \/ (files'[c].pc = "start" /\ ~sc.sync /\ Src(c).kind = "file")
           /\ files'[c].pc = "off" /\ ~IsLink(c) => sc.sync \/ Src(c).kind # "file"
  <1>1. FilesShape /\ IsFile(files[c]) /\ Life(files[c], c \in fds) /\ files[c].pc = "off"
    <2>1. FilesShape /\ ListShape /\ sc \in Scenarios
      BY DEF NameInv, OpenInv
    <2>2. FilesShape /\ IsFile(files[c]) /\ Life(files[c], c \in fds)
      BY <2>1, FileIs
    <2>3. Listed(c)
      BY <2>1, FirstListed
    <2> QED BY <2>1, <2>2, <2>3 DEF ListShape, Listed
  <1>2. files[c].saved = "" /\ ~files[c].done
    BY <1>1 DEF Saving, Life
  <1>3. CASE Src(c).kind = "file" /\ ~IsLink(c) /\ ~sc.sync
    <2>1. files' = Goto(c, "start")
      BY <1>3 DEF HandOver, Goto
    <2>2. Only(c, [pc |-> "start", f |-> files[c].f, saved |-> files[c].saved,
                   closed |-> files[c].closed, done |-> files[c].done])
      BY <1>1, <2>1, GotoIs
    <2>3. \A p \in DOMAIN sc.source : p # c => files'[p] = files[p]
      BY <2>2 DEF Only
    <2>4. files'[c] = [pc |-> "start", f |-> files[c].f, saved |-> files[c].saved,
                       closed |-> files[c].closed, done |-> files[c].done]
      BY <2>2 DEF Only
    <2>5. files'[c].pc = "start" /\ files'[c].f = files[c].f /\ files'[c].saved = files[c].saved /\ files'[c].done = files[c].done
      BY <2>4
    <2> QED BY <1>1, <1>2, <1>3, <2>3, <2>5
  <1>4. CASE ~(Src(c).kind = "file" /\ ~IsLink(c) /\ ~sc.sync)
    <2>1. files' = files
      BY <1>4 DEF HandOver
    <2> QED BY <1>1, <1>2, <1>4, <2>1
  <1> QED BY <1>3, <1>4

LEMMA HandedFit ==
    ASSUME NameInv, Saving, list # <<>>, NEW c \in DOMAIN sc.source, c = change, HandOver, ~IsLink(c),
           NEW m, Made(m, Src(c)), m.mode = Src(c).mode, Src(c).kind # "dir" => m.mtime = "src"
    PROVE  Fit(m, files'[c], Src(c))
  <1>1. /\ files'[c].saved = "" /\ ~files'[c].done /\ files'[c].pc \in {"off", "start"}
        /\ files'[c].pc = "off" => sc.sync \/ Src(c).kind # "file"
    BY HandsOver
  <1>2. m.kind = Src(c).kind /\ m.ver = "src" /\ (sc.sync \/ Src(c).kind # "file" => m.n = Src(c).n)
    BY DEF Made
  <1> QED BY <1>1, <1>2 DEF Fit, FileFit

(* A mode that is set again through a link was the same before.            *)
LEMMA LinkedFits ==
    ASSUME NoFilter, NameInv, DoneInv, NEW c \in DOMAIN sc.source, c = change, IsLink(c), list # <<>>,
           NEW l, l = Src(c).link, NEW p \in DOMAIN sc.source, ~IsLink(p), ~Listed(p), disk[p] = disk[l],
           NEW n, n.kind = At(p).kind, n.ver = At(p).ver, n.n = At(p).n, n.mode = Src(c).mode, n.mtime = "src"
    PROVE  Fit(n, files[p], Src(p))
  <1>1. Sound /\ sc \in Scenarios /\ ListShape
    BY SoundHere DEF Sound
  <1>2. /\ l \in DOMAIN sc.source /\ Before(l, c) /\ l \in Seq(Nat) /\ ~IsLink(l) /\ Src(l).kind = "file"
        /\ Src(l).mode = Src(c).mode
    <2>1. Src(l).mode = Src(c).mode
      BY <1>1, WriterAssumption DEF Src, IsLink
    <2> QED BY <1>1, <2>1, SourceIs
  <1>3. ~Listed(l)
    BY <1>1, <1>2, FirstListed
  <1>4. Fit(At(p), files[p], Src(p)) /\ Fit(At(l), files[l], Src(l)) /\ At(p) = At(l)
    BY <1>2, <1>3 DEF DoneInv, NodesDone, Fits, At
  <1>5. CASE p = l
    BY <1>2, <1>4, <1>5, FitSet
  <1>6. CASE p # l
    <2>1. disk[p][2] = 0
      BY <1>2, <1>3, <1>6, Unlisted DEF Home
    <2>2. files[p].pc = "off" /\ files[l].pc = "off"
      <3>1. \A q \in {p, l} : files[q].pc # "off" => disk[q] = <<q, attempt>>
        BY <1>2 DEF NameInv, FileInv, Landed
      <3>2. attempt # 0
        BY DEF NameInv, DiskInv, NodesShape
      <3> QED BY <2>1, <3>1, <3>2
    <2>3. files[p].saved = "" /\ files[l].saved = ""
      BY <1>2, <2>2 DEF DoneInv, Saving
    <2>4. Src(p).kind = Src(l).kind
      BY <1>4 DEF Fit
    <2>5. At(l).mode = Src(l).mode /\ At(p).mode = Src(p).mode
      BY <1>2, <1>4, <2>2, <2>3, <2>4 DEF Fit, FileFit
    <2>6. Src(p).mode = Src(c).mode
      BY <1>2, <1>4, <2>5
    <2> QED BY <1>4, <2>6, FitSet
  <1> QED BY <1>5, <1>6

LEMMA MetaDone ==
    ASSUME NoFilter, NameInv, NameInv', DoneInv, Meta
    PROVE  NamesDone' /\ NodesDone' /\ Saving'
  <1>0. PICK c : c = change
    OBVIOUS
  <1>1. PICK x : x = newPath
    OBVIOUS
  <1>2. /\ Handling /\ step = "meta" /\ rewriteMetadata(x, c) /\ UNCHANGED <<disk, sc, attempt, rename, loop, dirTimes, fate>>
        /\ IF rename THEN step' = "swap" /\ UNCHANGED <<list, files>> ELSE HandOver
    BY <1>0, <1>1 DEF Meta
  <1>3. /\ Sound /\ sc \in Scenarios /\ ListShape /\ list # <<>> /\ c \in DOMAIN sc.source /\ Listed(c)
        /\ x \in Names /\ Present(x) /\ disk[x] \in Inodes /\ attempt \in {1, 2}
        /\ rename \in BOOLEAN
    BY <1>0, <1>1, <1>2, MadeIs, MakingIs DEF Sound
  <1>4. disk[x] = IF IsLink(c) THEN disk[Src(c).link] ELSE <<c, attempt>>
    BY <1>0, <1>1, <1>2, <1>3 DEF Sound, DiskInv, ChangeShape
  <1>5. list' \in {list, Tail(list)} /\ Advances /\ (list' = list <=> rename) /\ (list' = Tail(list) => HandOver /\ ~rename)
    <2>1. list' = IF rename THEN list ELSE Tail(list)
      BY <1>2 DEF HandOver, Returns
    <2>2. Advances
      BY <1>3, <2>1 DEF Advances
    <2>3. list # Tail(list)
      BY <1>3, TailFacts DEF ListShape
    <2> QED BY <1>2, <1>3, <2>1, <2>2, <2>3
  <1>6. Rewritten(disk[x], Src(c).mode) /\ \A y \in Names : (Present(y)' <=> Present(y)) /\ (IsDirAt(y)' <=> IsDirAt(y))
    BY <1>2, <1>3, RewrittenIs
  <1>7. NamesDone'
    <2>1. ASSUME NEW y \in Names, Temporary(y) PROVE Temporary(y)'
      <3>1. rename /\ y = x
        BY <1>1, <2>1 DEF Temporary
      <3>2. step' = "swap" /\ newPath' = newPath
        BY <1>2, <3>1 DEF newPath, change, Temp
      <3> QED BY <1>1, <1>2, <3>1, <3>2 DEF Temporary
    <2>2. ~rename => x = c
      BY <1>0, <1>1 DEF newPath
    <2> QED BY <1>0, <1>2, <1>3, <1>4, <1>5, <1>6, <2>1, <2>2, RewrittenNames
  <1>8. ASSUME IsLink(c), NEW l, l = Src(c).link
        PROVE  /\ l \in DOMAIN sc.source /\ ~Listed(l) /\ ~IsLink(l) /\ Src(l).kind = "file" /\ disk[x] = disk[l]
               /\ At(x).ver = "src"
    <2>1. l \in DOMAIN sc.source /\ Before(l, c) /\ l \in Seq(Nat) /\ ~IsLink(l) /\ Src(l).kind = "file"
      BY <1>3, <1>8, SourceIs
    <2>2. ~Listed(l)
      BY <1>0, <1>3, <2>1, FirstListed
    <2>3. disk[x] = disk[l] /\ At(x) = At(l)
      BY <1>4, <1>8 DEF At
    <2>4. Fit(At(l), files[l], Src(l))
      BY <2>1, <2>2 DEF DoneInv, NodesDone, Fits
    <2> QED BY <2>1, <2>2, <2>3, <2>4 DEF Fit
  <1>9. ~IsLink(c) => Made(At(x), Src(c))
    BY <1>0, <1>1, <1>2 DEF DoneInv, NodesDone, InHand
  <1>10. At(x).ver = "src"
    BY <1>8, <1>9 DEF Made
  <1>11. AllDated'
    <2>1. \A i \in Inodes : Dated(inode[i])
      BY DEF DoneInv, NodesDone, AllDated
    <2>2. \A i \in Inodes : Dated(inode'[i])
      BY <1>6, <1>10, <2>1 DEF Rewritten, Dated, At
    <2>3. Inodes' = Inodes
      BY <1>2, Static
    <2> QED BY <2>2, <2>3 DEF AllDated, Dated
  <1>12. ASSUME ~IsLink(c)
         PROVE  /\ Made(inode'[disk[x]], Src(c)) /\ inode'[disk[x]].mode = Src(c).mode
                /\ inode'[disk[x]].mtime = "src"
    BY <1>3, <1>6, <1>9, <1>12 DEF Rewritten, Made, At
  <1>13. Fits'
    <2>1. ASSUME NEW p \in DOMAIN sc.source, ~IsLink(p), ~Listed(p)
          PROVE  files'[p] = files[p] /\ Fit(At(p)', files[p], Src(p))
      <3>1. PICK i : i = disk[p]
        OBVIOUS
      <3>2. i \in Inodes /\ Fit(inode[i], files[p], Src(p)) /\ (i[2] # 0 => i[1] = p)
        BY <2>1, <3>1, Unlisted DEF DoneInv, NodesDone, Fits, At, Home
      <3>3. files'[p] = files[p]
        <4>1. p # c
          BY <1>3, <2>1
        <4> QED BY <1>0, <1>2, <1>3, <4>1, HandsOver DEF DoneInv
      <3>4. CASE i # disk[x]
        <4>1. Fit(inode'[i], files[p], Src(p))
          BY <1>6, <3>2, <3>4, RewrittenFits
        <4> QED BY <1>2, <3>1, <3>3, <4>1 DEF At
      <3>5. CASE i = disk[x]
        <4>1. IsLink(c)
          BY <1>3, <1>4, <2>1, <3>2, <3>5
        <4>2. PICK l : l = Src(c).link
          OBVIOUS
        <4>3. disk[p] = disk[l]
          BY <1>8, <3>1, <3>5, <4>1, <4>2
        <4>4. PICK n : n = inode'[i]
          OBVIOUS
        <4>5. n.kind = At(p).kind /\ n.ver = At(p).ver /\ n.n = At(p).n /\ n.mode = Src(c).mode /\ n.mtime = "src"
          BY <1>6, <3>1, <3>2, <3>5, <4>4 DEF Rewritten, At
        <4>6. Fit(n, files[p], Src(p))
          BY <1>0, <1>3, <2>1, <4>1, <4>2, <4>3, <4>5, LinkedFits
        <4> QED BY <1>2, <3>1, <3>3, <4>4, <4>6 DEF At
      <3> QED BY <3>4, <3>5
    <2>2. ASSUME list' = Tail(list), ~IsLink(c) PROVE Fit(At(c)', files'[c], Src(c))
      <3>1. HandOver /\ x = c
        BY <1>0, <1>1, <1>5, <2>2 DEF newPath
      <3>2. PICK m : m = inode'[disk[x]]
        OBVIOUS
      <3>3. Fit(m, files'[c], Src(c))
        BY <1>0, <1>3, <1>12, <2>2, <3>1, <3>2, HandedFit DEF DoneInv
      <3> QED BY <1>2, <3>1, <3>2, <3>3 DEF At
    <2> QED BY <1>0, <1>2, <1>5, <2>1, <2>2, FitsThrough DEF DoneInv, NodesDone
  <1>14. InHand'
    <2>1. CASE rename
      <3>1. newPath' = x /\ change' = c
        BY <1>0, <1>1, <1>2, <2>1 DEF newPath, change, Temp
      <3>2. At(newPath)' = inode'[disk[x]]
        BY <1>2, <3>1 DEF At
      <3>3. Src(change)' = Src(c) /\ (IsLink(change)' <=> IsLink(c))
        BY <1>2, <3>1, Static DEF Src, IsLink
      <3> QED BY <1>2, <1>12, <3>2, <3>3 DEF InHand, Made
    <2>2. CASE ~rename
      BY <1>2, <2>2 DEF InHand, HandOver, Returns
    <2> QED BY <2>1, <2>2
  <1>15. Timed'
    BY <1>2 DEF DoneInv, NodesDone, Timed, Src, Handling
  <1>16. Saving'
    <2>1. CASE rename
      BY <1>2, <2>1, SavingKept DEF DoneInv
    <2>2. CASE ~rename
      <3>1. \A p \in DOMAIN sc.source :
              /\ files'[p].saved = files[p].saved /\ files'[p].f = files[p].f
              /\ files'[p].pc \in {"off", "start"} => files[p].pc \in {"off", "start"}
        BY <1>0, <1>2, <1>3, <2>2, HandsOver DEF DoneInv
      <3> QED BY <1>2, <3>1, SavingKept DEF DoneInv
    <2> QED BY <2>1, <2>2
  <1> QED BY <1>7, <1>11, <1>13, <1>14, <1>15, <1>16 DEF NodesDone

LEMMA SwapRemovesDone ==
    ASSUME NoFilter, NameInv, NameInv', DoneInv, Handling, step = "swap", Differs, RemoveAll(change),
           UNCHANGED <<sc, attempt, list, step, rename, files, loop, dirTimes, fate>>
    PROVE  NamesDone' /\ NodesDone' /\ Saving'
  <1>0. PICK c : c = change
    OBVIOUS
  <1>1. PICK x : x = newPath
    OBVIOUS
  <1>2. /\ Sound /\ sc \in Scenarios /\ ListShape /\ list # <<>> /\ c \in DOMAIN sc.source /\ Listed(c) /\ rename
        /\ x \in Names /\ c \in Names /\ c \in Seq(Nat) /\ Present(x) /\ disk[x] \in Inodes /\ attempt \in {1, 2}
    BY <1>0, <1>1, MadeIs, MakingIs, SourceIs DEF Sound, DiskInv, ChangeShape
  <1>3. Advances /\ list' # Tail(list) /\ fate' # "ok"
    BY <1>2, TailFacts DEF ListShape, Advances, Handling
  <1>4. newPath' = x /\ change' = c
    BY <1>0, <1>1 DEF newPath, change, Temp
  <1>5. \A y \in Names : IF IsPrefix(c, y) THEN ~Present(y)' ELSE Stays(y)
    BY <1>0, <1>2, RemoveAllIs
  <1>6. \A i \in Inodes : Steady(i)
    <2>1. inode' = Touched(inode, c)
      BY <1>0 DEF RemoveAll
    <2> QED BY <1>0, <1>2, <2>1, TouchesOnly DEF DoneInv
  <1>7. \A y \in Names : disk'[y] # None => disk'[y] = disk[y] /\ Present(y) /\ (IsDirAt(y)' <=> IsDirAt(y))
    BY <1>5, StaysFacts DEF Stays, Present
  <1>8. \A y \in Names : disk'[y] = disk[y] \/ disk'[y] = None
    BY <1>5 DEF Stays, Present
  <1>9. ASSUME NEW p \in DOMAIN sc.source, ~Listed(p) PROVE disk'[p] = disk[p]
    <2>1. p \in Names /\ Present(p)
      BY <1>9, Unlisted
    <2>2. ~IsStrictPrefix(c, p)
      <3>1. ASSUME IsStrictPrefix(c, p) PROVE FALSE
        <4>1. IsDirAt(c)
          BY <1>2, <2>1, <3>1 DEF Sound, DiskInv, Tree
        <4>2. Src(c).kind = "dir"
          BY <1>2, <1>9, <3>1, SourceTree
        <4> QED BY <1>0, <4>1, <4>2 DEF Differs
      <3> QED BY <3>1
    <2>3. ~IsPrefix(c, p)
      BY <1>2, <1>9, <2>2 DEF IsStrictPrefix
    <2> QED BY <1>5, <2>1, <2>3 DEF Stays
  <1>10. Leftovers'
    <2>1. ASSUME NEW y \in Names \ DOMAIN sc.source, Present(y)' PROVE Temporary(y)' \/ (Present(y) /\ ~Temporary(y))
      BY <1>1, <1>4, <1>7, <2>1 DEF Temporary, Present
    <2> QED BY <1>3, <2>1, LeftoversThrough DEF DoneInv, NamesDone
  <1>11. Linked' /\ Apart'
    <2>1. \A p \in DOMAIN sc.source : p \in Names
      BY <1>2, SourceIs
    <2> QED BY <1>3, <1>8, <1>9, <2>1, LinksThrough DEF DoneInv, NamesDone
  <1>12. DirHome'
    <2>1. \A y \in Names : IsDirAt(y)' /\ disk'[y][2] = 0 => IsDirAt(y) /\ disk'[y] = disk[y]
      BY <1>7 DEF IsDirAt, Present
    <2> QED BY <2>1, DirHomeThrough DEF DoneInv, NamesDone
  <1>13. AllDated' /\ Fits' /\ Timed'
    BY <1>3, <1>6, <1>9, NodesThrough DEF DoneInv, NodesDone, Timed
  <1>14. InHand'
    <2>1. ~IsPrefix(c, x)
      BY <1>0, <1>1, <1>2, NewPathIs
    <2>2. disk'[x] = disk[x] /\ Steady(disk[x])
      BY <1>2, <1>5, <1>6, <2>1 DEF Stays
    <2>3. At(newPath)' = inode'[disk[x]] /\ Src(change)' = Src(c) /\ (IsLink(change)' <=> IsLink(c))
      BY <1>4, <2>2, Static DEF At, Src, IsLink
    <2>4. ~IsLink(c) =>
            /\ Made(inode[disk[x]], Src(c)) /\ inode[disk[x]].mode = Src(c).mode
            /\ Src(c).kind # "dir" => inode[disk[x]].mtime = "src"
      BY <1>0, <1>1 DEF DoneInv, NodesDone, InHand, At
    <2>5. ~IsLink(c) =>
            /\ Made(inode'[disk[x]], Src(c)) /\ inode'[disk[x]].mode = Src(c).mode
            /\ Src(c).kind # "dir" => inode'[disk[x]].mtime = "src"
      BY <2>2, <2>4 DEF Made, Steady, Same
    <2> QED BY <2>3, <2>5 DEF InHand, Made
  <1>15. Saving'
    BY SavingKept DEF DoneInv
  <1> QED BY <1>3, <1>10, <1>11, <1>12, <1>13, <1>14, <1>15, DeletableThrough DEF NamesDone, NodesDone, DoneInv

LEMMA SwapRenamesDone ==
    ASSUME NoFilter, NameInv, NameInv', DoneInv, Handling, step = "swap", ~Differs, Rename(newPath, change), HandOver,
           UNCHANGED <<sc, attempt, rename, loop, dirTimes, fate>>
    PROVE  NamesDone' /\ NodesDone' /\ Saving'
  <1>0. PICK c : c = change
    OBVIOUS
  <1>1. PICK x : x = newPath
    OBVIOUS
  <1>2. /\ Sound /\ sc \in Scenarios /\ ListShape /\ list # <<>> /\ c \in DOMAIN sc.source /\ Listed(c) /\ rename
        /\ x \in Names /\ c \in Names /\ c \in Seq(Nat) /\ Present(x) /\ disk[x] \in Inodes /\ attempt \in {1, 2}
        /\ (IsDirAt(x) <=> Src(c).kind = "dir")
    BY <1>0, <1>1, MadeIs, MakingIs, SourceIs DEF Sound, DiskInv, ChangeShape
  <1>3. list' = Tail(list) /\ step' = "next" /\ Advances /\ list' # list /\ fate' # "ok"
    <2>1. list' = Tail(list) /\ step' = "next"
      BY DEF HandOver, Returns
    <2> QED BY <1>2, <2>1, TailFacts DEF ListShape, Advances, Handling
  <1>4. x # c /\ x \notin DOMAIN sc.source
    BY <1>0, <1>1, <1>2, NewPathIs DEF Paths
  <1>5. disk[x] = IF IsLink(c) THEN disk[Src(c).link] ELSE <<c, attempt>>
    BY <1>0, <1>1, <1>2 DEF Sound, DiskInv, ChangeShape
  <1>6. disk[x] # disk[c]
    <2>1. CASE IsLink(c)
      <3>1. PICK l : l = Src(c).link
        OBVIOUS
      <3>2. Before(l, c) /\ l \in Seq(Nat)
        BY <1>2, <2>1, <3>1, SourceIs
      <3>3. ~Listed(l)
        BY <1>0, <1>2, <3>2, FirstListed
      <3>4. Parted(c)
        BY <1>0, <1>2, <2>1 DEF DoneInv, NamesDone, Apart
      <3> QED BY <1>2, <1>5, <2>1, <3>1, <3>3, <3>4 DEF Parted, Present
    <2>2. CASE ~IsLink(c)
      <3>1. disk[c] = <<c, attempt>> => c = x
        BY <1>0, <1>1, <1>2, FirstListed DEF Sound, DiskInv, Unmade, change
      <3> QED BY <1>4, <1>5, <2>2, <3>1
    <2> QED BY <2>1, <2>2
  <1>7. disk' = [y \in Names |-> IF y = x THEN None ELSE IF y = c THEN disk[x] ELSE disk[y]]
    <2>1. disk' = [disk EXCEPT ![c] = disk[x], ![x] = None]
      BY <1>0, <1>1, <1>6 DEF Rename
    <2>2. disk = [y \in Names |-> disk[y]]
      BY <1>2 DEF Sound, DiskInv, NodesShape
    <2> QED BY <1>4, <2>1, <2>2
  <1>8. \A i \in Inodes : Steady(i)
    <2>1. inode' = Touched(inode, c)
      BY <1>0 DEF Rename
    <2> QED BY <1>0, <1>2, <2>1, TouchesOnly DEF DoneInv
  <1>9. \A p \in DOMAIN sc.source : p \in Names /\ p # x /\ (p # c => disk'[p] = disk[p])
    BY <1>2, <1>4, <1>7, SourceIs
  <1>10. disk'[c] = disk[x]
    BY <1>2, <1>4, <1>7
  <1>11. Leftovers'
    <2>1. ASSUME NEW y \in Names \ DOMAIN sc.source, Present(y)' PROVE Present(y) /\ ~Temporary(y)
      <3>1. y # x /\ y # c
        BY <1>2, <1>7, <2>1 DEF Present
      <3> QED BY <1>1, <1>7, <2>1, <3>1 DEF Present, Temporary
    <2>2. \A y \in Names : ~(y = change /\ y \notin DOMAIN sc.source)
      BY <1>0, <1>2
    <2> QED BY <1>3, <2>1, <2>2, LeftoversThrough DEF DoneInv, NamesDone
  <1>12. Linked' /\ Apart'
    <2>1. \A p \in DOMAIN sc.source : ~Listed(p) => disk'[p] = disk[p]
      BY <1>2, <1>9
    <2> QED BY <1>0, <1>3, <1>5, <1>9, <1>10, <2>1, LinksThrough DEF DoneInv, NamesDone
  <1>13. DirHome'
    <2>1. ASSUME NEW y \in Names, IsDirAt(y)', disk'[y][2] = 0 PROVE IsDirAt(y) /\ disk'[y] = disk[y]
      <3>1. PICK i : i = disk'[y]
        OBVIOUS
      <3>2. i # None /\ inode'[i].kind = "dir" /\ i[2] = 0 /\ y # x
        BY <1>7, <2>1, <3>1 DEF IsDirAt, Present, At
      <3>3. i \in Inodes
        <4>1. Owned(y, disk[y])'
          BY <2>1, <3>1, <3>2, Static DEF NameInv, DiskInv, Owners, Present
        <4> QED BY <3>1, <4>1, Static DEF Owned
      <3>4. inode[i].kind = "dir"
        BY <1>8, <3>2, <3>3 DEF Steady, Same
      <3>5. y # c
        <4>1. ASSUME y = c PROVE FALSE
          <5>1. i = disk[x] /\ IsDirAt(x)
            BY <1>2, <1>10, <3>1, <3>4, <4>1 DEF IsDirAt, At
          <5>2. ~IsLink(c)
            BY <1>2, <5>1, SourceIs
          <5> QED BY <1>2, <1>5, <3>2, <5>1, <5>2
        <4> QED BY <4>1
      <3>6. disk'[y] = disk[y]
        BY <1>7, <3>2, <3>5
      <3> QED BY <3>1, <3>2, <3>4, <3>6 DEF IsDirAt, Present, At
    <2> QED BY <2>1, DirHomeThrough DEF DoneInv, NamesDone
  <1>14. /\ \A p \in DOMAIN sc.source : p # c => files'[p] = files[p]
         /\ files'[c].saved = files[c].saved /\ files'[c].f = files[c].f /\ files[c].pc = "off"
    BY <1>0, <1>2, HandsOver DEF DoneInv
  <1>15. AllDated' /\ Fits' /\ Timed'
    <2>1. ASSUME ~IsLink(c) PROVE Fit(At(c)', files'[c], Src(c))
      <3>1. PICK m : m = inode'[disk[x]]
        OBVIOUS
      <3>2. /\ Made(At(x), Src(c)) /\ At(x).mode = Src(c).mode
            /\ Src(c).kind # "dir" => At(x).mtime = "src"
        BY <1>0, <1>1, <2>1 DEF DoneInv, NodesDone, InHand
      <3>3. /\ Made(m, Src(c)) /\ m.mode = Src(c).mode
            /\ Src(c).kind # "dir" => m.mtime = "src"
        BY <1>2, <1>8, <3>1, <3>2 DEF Made, Steady, Same, At
      <3>4. Fit(m, files'[c], Src(c))
        BY <1>0, <1>2, <2>1, <3>3, HandedFit DEF DoneInv
      <3> QED BY <1>10, <3>1, <3>4 DEF At
    <2>2. \A p \in DOMAIN sc.source : ~Listed(p) => disk'[p] = disk[p] /\ files'[p] = files[p]
      BY <1>2, <1>9, <1>14
    <2> QED BY <1>0, <1>3, <1>8, <2>1, <2>2, NodesThrough DEF DoneInv, NodesDone, Timed
  <1>16. InHand'
    BY <1>3 DEF InHand
  <1>17. Saving'
    <2>1. \A p \in DOMAIN sc.source :
            /\ files'[p].saved = files[p].saved /\ files'[p].f = files[p].f
            /\ files'[p].pc \in {"off", "start"} => files[p].pc \in {"off", "start"}
      BY <1>14
    <2> QED BY <2>1, SavingKept DEF DoneInv
  <1> QED BY <1>3, <1>11, <1>12, <1>13, <1>15, <1>16, <1>17, DeletableThrough DEF NamesDone, NodesDone, DoneInv

LEMMA SwapDone ==
    ASSUME NoFilter, NameInv, NameInv', DoneInv, Swap
    PROVE  NamesDone' /\ NodesDone' /\ Saving'
  <1>1. Handling /\ step = "swap" /\ UNCHANGED <<sc, attempt, rename, dirTimes, loop, fate>>
    BY DEF Swap
  <1>2. CASE Differs
    BY <1>1, <1>2, SwapRemovesDone DEF Swap
  <1>3. CASE ~Differs
    BY <1>1, <1>3, SwapRenamesDone DEF Swap
  <1> QED BY <1>2, <1>3

-----------------------------------------------------------------------------
(* What happens beside HandleChange.                                       *)
LEMMA NamesStill ==
    ASSUME DoneInv, UNCHANGED <<sc, disk, attempt, list, step, rename>>, \A y \in Names : IsDirAt(y)' <=> IsDirAt(y)
    PROVE  NamesDone'
  <1>1. /\ Names' = Names /\ newPath' = newPath /\ change' = change
        /\ \A p : Src(p)' = Src(p) /\ (IsLink(p)' <=> IsLink(p)) /\ (Listed(p)' <=> Listed(p))
        /\ \A x : Present(x)' <=> Present(x)
    BY Static DEF Listed, Present, newPath, change, Temp
  <1>2. Leftovers'
    <2>1. \A d, x : Removes(d, x)' <=> Removes(d, x)
      BY <1>1 DEF Removes
    <2> QED BY <1>1, <2>1 DEF DoneInv, NamesDone, Leftovers
  <1>3. Deletable' /\ Linked' /\ DirHome'
    BY <1>1 DEF DoneInv, NamesDone, Deletable, Linked, DirHome
  <1>4. Apart'
    <2>1. \A p : Parted(p)' <=> Parted(p)
      BY <1>1 DEF Parted
    <2> QED BY <1>1, <2>1 DEF DoneInv, NamesDone, Apart
  <1> QED BY <1>2, <1>3, <1>4 DEF NamesDone

LEMMA WaitDone ==
    ASSUME NoFilter, NameInv, DoneInv, Wait
    PROVE  NamesDone' /\ NodesDone' /\ Saving'
  <1>1. fate = "wait" /\ UNCHANGED <<sc, disk, attempt, list, step, rename, dirTimes, files, loop>>
    BY DEF Wait, AsyncFixed, Fail
  <1>2. CASE Fail /\ UNCHANGED inode
    BY <1>1, <1>2, StillDone DEF Fail
  <1>3. CASE inode' = [i \in DOMAIN inode |->
                         IF \E d \in dirTimes : disk[d] = i THEN [inode[i] EXCEPT !.mtime = "src"] ELSE inode[i]]
    <2>1. AreNodes(inode) /\ list = <<>> /\ step = "next"
      BY <1>1 DEF NameInv, OpenInv, FateShape, DiskInv, NodesShape, ChangeShape
    <2>2. \A p : ~Listed(p)
      BY <2>1, EmptySeq DEF Listed
    <2>3. ASSUME NEW i \in Inodes
          PROVE  Steady(i) /\ ((\E d \in dirTimes : disk[d] = i) => inode'[i].mtime = "src")
      <3>1. inode'[i] = IF \E d \in dirTimes : disk[d] = i THEN [inode[i] EXCEPT !.mtime = "src"] ELSE inode[i]
        BY <1>3, <2>1 DEF AreNodes
      <3>2. CASE \E d \in dirTimes : disk[d] = i
        <4>1. PICK d \in dirTimes : disk[d] = i
          BY <3>2
        <4>2. d \in DOMAIN sc.source /\ Src(d).kind = "dir"
          BY DEF DoneInv, NodesDone, Timed
        <4>3. inode[i].kind = "dir"
          BY <2>2, <4>1, <4>2, Unlisted DEF InSort, IsDirAt, At
        <4>4. PICK g : g = inode[i]
          OBVIOUS
        <4>5. IsNode(g)
          BY <2>1, <4>4 DEF AreNodes
        <4>6. inode'[i] = [g EXCEPT !.mtime = "src"]
          BY <3>1, <3>2, <4>4
        <4>7. Same(inode'[i], g) /\ inode'[i].mtime = "src"
          BY <4>5, <4>6, TimeUpdate
        <4> QED BY <4>3, <4>4, <4>7 DEF Steady
      <3>3. CASE ~\E d \in dirTimes : disk[d] = i
        BY <3>1, <3>3 DEF Steady, Same
      <3> QED BY <3>2, <3>3
    <2>4. \A y \in Names : Present(y) => disk[y] \in Inodes
      BY DEF NameInv, DiskInv, Owners, Owned
    <2>5. NamesDone'
      <3>1. \A y \in Names : IsDirAt(y)' <=> IsDirAt(y)
        BY <1>1, <2>3, <2>4 DEF IsDirAt, Present, At, Steady, Same
      <3> QED BY <1>1, <3>1, NamesStill
    <2>6. AllDated'
      <3>1. \A i \in Inodes : Dated(inode[i])
        BY DEF DoneInv, NodesDone, AllDated
      <3>2. \A i \in Inodes : Dated(inode'[i])
        BY <2>3, <3>1 DEF Dated, Steady, Same
      <3>3. Inodes' = Inodes
        BY <1>1, Static
      <3> QED BY <3>2, <3>3 DEF AllDated, Dated
    <2>7. Fits'
      <3>1. ASSUME NEW p \in DOMAIN sc.source, ~IsLink(p) PROVE Fit(inode'[disk[p]], files[p], Src(p))
        <4>1. disk[p] \in Inodes /\ Fit(inode[disk[p]], files[p], Src(p))
          BY <2>2, <3>1, Unlisted DEF DoneInv, NodesDone, Fits, At
        <4>2. Same(inode'[disk[p]], inode[disk[p]])
              /\ (inode[disk[p]].kind # "dir" => inode'[disk[p]].mtime = inode[disk[p]].mtime)
          BY <2>3, <4>1 DEF Steady
        <4> QED BY <4>1, <4>2, FitSteady
      <3>2. \A p : Src(p)' = Src(p) /\ (IsLink(p)' <=> IsLink(p)) /\ At(p)' = inode'[disk[p]] /\ files'[p] = files[p]
        BY <1>1, Static DEF At
      <3>3. \A p : Fit(At(p), files[p], Src(p))' <=> Fit(inode'[disk[p]], files[p], Src(p))
        BY <3>2 DEF Fit, FileFit
      <3> QED BY <1>1, <3>1, <3>2, <3>3 DEF Fits
    <2>8. InHand'
      BY <1>1, <2>1 DEF InHand
    <2>9. Timed'
      <3>1. ASSUME NEW d \in dirTimes PROVE d \in DOMAIN sc.source /\ Src(d).kind = "dir" /\ inode'[disk[d]].mtime = "src"
        <4>1. d \in DOMAIN sc.source /\ Src(d).kind = "dir"
          BY DEF DoneInv, NodesDone, Timed
        <4>2. disk[d] \in Inodes
          BY <2>2, <4>1, Unlisted
        <4> QED BY <2>3, <4>1, <4>2
      <3>2. \A d : At(d)' = inode'[disk[d]] /\ Src(d)' = Src(d)
        BY <1>1 DEF At, Src
      <3> QED BY <1>1, <3>1, <3>2 DEF Timed
    <2>10. Saving'
      BY <1>1, SavingKept DEF DoneInv
    <2> QED BY <2>5, <2>6, <2>7, <2>8, <2>9, <2>10 DEF NodesDone
  <1> QED BY <1>2, <1>3 DEF Wait

LEMMA CallerDone ==
    ASSUME NoFilter, NameInv, DoneInv, WaitStarts \/ CallFails \/ Cancel
    PROVE  NamesDone' /\ NodesDone' /\ Saving'
  <1>1. UNCHANGED <<sc, disk, inode, attempt, list, dirTimes, files, loop, step, rename>>
    BY DEF WaitStarts, CallFails, Cancel, AsyncFixed, DiffFixed, Fail, diskVars
  <1>2. fate' = "ok" => fate = "ok"
    BY DEF WaitStarts, CallFails, Cancel, Fail, DiffFixed
  <1> QED BY <1>1, <1>2, StillDone

(* The file of one goroutine.                                              *)
LEMMA AsideDone ==
    ASSUME NoFilter, NameInv, DoneInv, UNCHANGED <<sc, disk, attempt, list, step, rename, dirTimes, fate>>, fate # "ok",
           NEW p \in DOMAIN sc.source, files[p].pc # "off",
           \A q \in DOMAIN sc.source : q # p => files'[q] = files[q],
           \A i \in Inodes : i # disk[p] => inode'[i] = inode[i],
           Fit(inode'[disk[p]], files'[p], Src(p))
    PROVE  NamesDone' /\ NodesDone'
  <1>1. PICK i : i = disk[p]
    OBVIOUS
  <1>2. /\ Src(p).kind = "file" /\ ~IsLink(p) /\ p \in Names /\ i = <<p, attempt>> /\ i \in Inodes
        /\ ~Listed(p) /\ inode[i].kind # "dir" /\ attempt # 0
    BY <1>1, LiveIs DEF NameInv, FileInv, InSort, IsDirAt, At, DiskInv, NodesShape
  <1>3. inode'[i].kind = "file" /\ inode'[i].ver = "src"
    BY <1>1, <1>2 DEF Fit
  <1>4. \A y \in Names : Present(y) => disk[y] \in Inodes
    BY DEF NameInv, DiskInv, Owners, Owned
  <1>5. NamesDone'
    <2>1. ASSUME NEW y \in Names, Present(y) PROVE inode'[disk[y]].kind = "dir" <=> inode[disk[y]].kind = "dir"
      <3>1. CASE disk[y] = i
        BY <1>2, <1>3, <3>1
      <3>2. CASE disk[y] # i
        BY <1>1, <1>4, <2>1, <3>2
      <3> QED BY <3>1, <3>2
    <2>2. \A y \in Names : IsDirAt(y)' <=> IsDirAt(y)
      BY <2>1 DEF IsDirAt, Present, At
    <2> QED BY <2>2, NamesStill
  <1>6. AllDated'
    <2>1. \A j \in Inodes : Dated(inode'[j])
      <3>1. \A j \in Inodes : j # i => Dated(inode'[j])
        BY <1>1 DEF DoneInv, NodesDone, AllDated
      <3>2. Dated(inode'[i])
        BY <1>3 DEF Dated
      <3> QED BY <3>1, <3>2
    <2>2. Inodes' = Inodes
      BY Static
    <2> QED BY <2>1, <2>2 DEF AllDated, Dated
  <1>7. \A q : Src(q)' = Src(q) /\ (IsLink(q)' <=> IsLink(q)) /\ (Listed(q)' <=> Listed(q)) /\ At(q)' = inode'[disk[q]]
    BY Static DEF Listed, At
  <1>8. Fits'
    <2>1. ASSUME NEW q \in DOMAIN sc.source, ~IsLink(q), ~Listed(q) PROVE Fit(inode'[disk[q]], files'[q], Src(q))
      <3>1. CASE q = p
        BY <3>1
      <3>2. CASE q # p
        <4>1. disk[q] \in Inodes /\ (disk[q][2] # 0 => disk[q][1] = q)
          BY <2>1, Unlisted DEF Home
        <4>2. disk[q] # i
          BY <1>2, <3>2, <4>1
        <4>3. Fit(inode[disk[q]], files[q], Src(q))
          BY <2>1 DEF DoneInv, NodesDone, Fits, At
        <4> QED BY <1>1, <3>2, <4>1, <4>2, <4>3
      <3> QED BY <3>1, <3>2
    <2>2. \A q : Fit(At(q), files[q], Src(q))' <=> Fit(inode'[disk[q]], files'[q], Src(q))
      BY <1>7 DEF Fit, FileFit
    <2> QED BY <1>7, <2>1, <2>2 DEF Fits
  <1>9. InHand'
    <2>1. PICK x : x = newPath
      OBVIOUS
    <2>2. PICK c : c = change
      OBVIOUS
    <2>3. newPath' = x /\ change' = c
      BY <2>1, <2>2 DEF newPath, Temp, change
    <2>4. ASSUME step \in {"meta", "swap"}, ~IsLink(c) PROVE inode'[disk[x]] = inode[disk[x]]
      <3>1. disk[x] \in Inodes /\ disk[x] = <<c, attempt>> /\ p # c
        BY <2>1, <2>2, <2>4, MadeIs
      <3> QED BY <1>1, <1>2, <3>1
    <2>5. ASSUME step \in {"meta", "swap"}, ~IsLink(c)
          PROVE  /\ Made(inode[disk[x]], Src(c))
                 /\ step = "swap" => /\ inode[disk[x]].mode = Src(c).mode
                                     /\ Src(c).kind # "dir" => inode[disk[x]].mtime = "src"
      BY <2>1, <2>2, <2>5 DEF DoneInv, NodesDone, InHand, At
    <2>6. At(x)' = inode'[disk[x]] /\ Src(c)' = Src(c)
      BY <1>7
    <2> QED BY <1>7, <2>3, <2>4, <2>5, <2>6 DEF InHand, Made, At
  <1>10. Timed'
    BY <1>7 DEF DoneInv, NodesDone, Timed
  <1> QED BY <1>5, <1>6, <1>8, <1>9, <1>10 DEF NodesDone

(* Where the loop is.                                                      *)
LEMMA LoopAt ==
    ASSUME NEW l, NEW q
    PROVE  /\ l = Idle => l.at = "idle"
           /\ l = [at |-> "reopen", path |-> q] => l.at = "reopen" /\ l.path = q
  BY DEF Idle

LEMMA SavingOne ==
    ASSUME NameInv, Saving, UNCHANGED sc, NEW p \in DOMAIN sc.source,
           \A q \in DOMAIN sc.source : q # p => files'[q] = files[q],
           loop' = loop \/ loop = Idle \/ (loop.at \in {"chmod", "reopen"} /\ loop.path = p),
           files'[p].saved # "" => files'[p].f # "none" \/ loop' = [at |-> "reopen", path |-> p] \/ loop'.at = "ended",
           files'[p].pc \notin {"off", "start"},
           loop'.at \in {"chmod", "reopen"} => files'[loop'.path].f = "none"
    PROVE  Saving'
  <1>1. loop = Idle => loop.at = "idle"
    BY LoopAt
  <1>2. ASSUME NEW q \in DOMAIN sc.source, q # p, files[q].saved # "", files[q].f = "none"
        PROVE  loop' = [at |-> "reopen", path |-> q] \/ loop'.at = "ended"
    <2>1. loop = [at |-> "reopen", path |-> q] \/ loop.at = "ended"
      BY <1>2 DEF Saving
    <2>2. loop.at = "ended" \/ (loop.at = "reopen" /\ loop.path = q)
      BY <2>1, LoopAt
    <2>3. loop' = loop
      BY <1>1, <1>2, <2>2
    <2> QED BY <2>1, <2>3
  <1>3. ASSUME NEW q \in DOMAIN sc.source
        PROVE  /\ files'[q].saved # "" => files'[q].f # "none" \/ loop' = [at |-> "reopen", path |-> q] \/ loop'.at = "ended"
               /\ files'[q].pc \in {"off", "start"} => files'[q].saved = ""
    <2>1. CASE q = p
      BY <2>1
    <2>2. CASE q # p
      BY <1>2, <2>2 DEF Saving
    <2> QED BY <2>1, <2>2
  <1> QED BY <1>3 DEF Saving

(* What a goroutine and the receive loop do to the file of one of them.    *)
LEMMA FitGoes ==
    ASSUME NEW m, NEW g, NEW h, NEW s, Fit(m, g, s), s.kind # "dir",
           h.saved = g.saved, h.closed = g.closed, h.done = g.done,
           h.pc = "failed" \/ (h.pc \in {"wait", "times"} /\ g.pc # "failed")
    PROVE  Fit(m, h, s)
  BY DEF Fit, FileFit

LEMMA FitTimed ==
    ASSUME NEW m, NEW n, NEW g, NEW h, NEW s, Fit(m, g, s), s.kind # "dir", Same(n, m), n.mtime = "src",
           h.saved = g.saved, h.closed = g.closed, h.done = g.done, g.done, h.pc = "done", g.pc # "failed"
    PROVE  Fit(n, h, s)
  BY DEF Fit, FileFit, Same

LEMMA FitWritten ==
    ASSUME NEW m, NEW n, NEW g, NEW h, NEW s, Fit(m, g, s), s.kind # "dir",
           n.kind = m.kind, n.ver = m.ver, n.mode = m.mode,
           h.saved = g.saved, h.closed = g.closed, h.done = g.done, h.pc = g.pc, g.pc \in {"wait", "failed"}, ~g.done
    PROVE  Fit(n, h, s)
  BY DEF Fit, FileFit

LEMMA FitWidened ==
    ASSUME NEW m, NEW n, NEW g, NEW h, NEW s, Fit(m, g, s), s.kind # "dir", s.mode # "",
           n.kind = m.kind, n.ver = m.ver,
           g.saved = "", h.saved = m.mode, h.closed = g.closed, h.done = g.done, h.pc = g.pc,
           g.pc = "failed" \/ (g.pc = "wait" /\ ~g.closed /\ ~g.done)
    PROVE  Fit(n, h, s)
  BY DEF Fit, FileFit

LEMMA FitClosed ==
    ASSUME NEW m, NEW n, NEW g, NEW h, NEW s, Fit(m, g, s), s.kind # "dir",
           n.kind = m.kind, n.ver = m.ver, n.n = s.n, n.mode = IF g.saved = "" THEN m.mode ELSE g.saved,
           h.saved = g.saved, h.pc = g.pc, g.pc \in {"wait", "failed"}
    PROVE  Fit(n, h, s)
  BY DEF Fit, FileFit

LEMMA LiveFit ==
    ASSUME NoFilter, NameInv, DoneInv, NEW p \in DOMAIN files, files[p].pc # "off"
    PROVE  /\ p \in DOMAIN sc.source /\ disk[p] \in Inodes /\ Src(p).kind = "file" /\ Src(p).mode # ""
           /\ IsFile(files[p]) /\ FilesShape /\ Life(files[p], p \in fds) /\ DOMAIN files = DOMAIN sc.source
           /\ AreNodes(inode) /\ Fit(inode[disk[p]], files[p], Src(p))
           /\ ~Over(p) \/ files[p].pc = "failed" => fate # "ok"
  <1>1. p \in DOMAIN sc.source /\ IsFile(files[p]) /\ FilesShape /\ Life(files[p], p \in fds) /\ DOMAIN files = DOMAIN sc.source
    BY FileHere DEF FilesShape
  <1>2. disk[p] \in Inodes /\ Src(p).kind = "file" /\ ~IsLink(p) /\ ~Listed(p)
    BY <1>1, LiveIs DEF NameInv, FileInv
  <1>3. Fit(inode[disk[p]], files[p], Src(p))
    BY <1>1, <1>2 DEF DoneInv, NodesDone, Fits, At
  <1>4. Src(p).mode # ""
    <2>1. sc \in Scenarios
      BY DEF NameInv, OpenInv
    <2> QED BY <1>1, <2>1, WriterAssumption DEF Src
  <1>5. ~Over(p) \/ files[p].pc = "failed" => fate # "ok"
    BY <1>1 DEF NameInv, OpenInv, FateShape
  <1> QED BY <1>1, <1>2, <1>3, <1>4, <1>5 DEF NameInv, DiskInv, NodesShape

LEMMA RestoredTo ==
    ASSUME AreNodes(inode), UNCHANGED sc, NEW p, NEW i \in Inodes, i = disk[p], inode' = Restored(p)
    PROVE  /\ inode'[i].kind = inode[i].kind /\ inode'[i].ver = inode[i].ver /\ inode'[i].n = inode[i].n
           /\ inode'[i].mode = IF files[p].saved = "" THEN inode[i].mode ELSE files[p].saved
           /\ \A j \in Inodes : j # i => inode'[j] = inode[j]
  <1>1. CASE files[p].saved = ""
    BY <1>1 DEF Restored
  <1>2. CASE files[p].saved # ""
    <2>1. PICK v : v = files[p].saved
      OBVIOUS
    <2>2. Chmod(i, v)
      BY <1>2, <2>1 DEF Chmod, Restored
    <2>3. \A j \in Inodes : j # i => inode'[j] = inode[j]
      <3>1. inode = [j \in Inodes |-> inode[j]]
        BY DEF AreNodes
      <3> QED BY <2>2, <3>1 DEF Chmod
    <2>4. /\ inode'[i].kind = inode[i].kind /\ inode'[i].ver = inode[i].ver /\ inode'[i].n = inode[i].n
          /\ inode'[i].mode = v
      BY <2>2, ModeIs
    <2> QED BY <1>2, <2>1, <2>3, <2>4
  <1> QED BY <1>1, <1>2

(* What Goto makes of a goroutine.                                         *)
LEMMA GoesIs ==
    ASSUME FilesShape, NEW p \in DOMAIN sc.source, NEW l, files' = Goto(p, l)
    PROVE  /\ files'[p].pc = l /\ files'[p].f = files[p].f /\ files'[p].saved = files[p].saved
           /\ files'[p].closed = files[p].closed /\ files'[p].done = files[p].done
           /\ \A q \in DOMAIN sc.source : q # p => files'[q] = files[q]
  <1>1. PICK g : g = [pc |-> l, f |-> files[p].f, saved |-> files[p].saved,
                      closed |-> files[p].closed, done |-> files[p].done]
    OBVIOUS
  <1>2. Only(p, g)
    BY <1>1, GotoIs
  <1>3. files'[p] = g /\ \A q \in DOMAIN sc.source : q # p => files'[q] = files[q]
    BY <1>2 DEF Only
  <1> QED BY <1>1, <1>3

LEMMA AsyncDone ==
    ASSUME NoFilter, NameInv, DoneInv, NEW p \in DOMAIN files,
           AsyncStarts(p) \/ AsyncHasContent(p) \/ AsyncGivesUp(p) \/ AsyncSetsTimes(p) \/ AsyncFails(p)
    PROVE  NamesDone' /\ NodesDone' /\ Saving'
  <1>1. /\ UNCHANGED <<sc, disk, attempt, list, step, rename, dirTimes, loop, fate>>
        /\ files[p].pc \in {"start", "wait", "times"}
    BY DEF AsyncStarts, AsyncHasContent, AsyncGivesUp, AsyncSetsTimes, AsyncFails, AsyncStays, diskVars
  <1>2. /\ p \in DOMAIN sc.source /\ disk[p] \in Inodes /\ Src(p).kind # "dir"
        /\ IsFile(files[p]) /\ FilesShape /\ DOMAIN files = DOMAIN sc.source
        /\ AreNodes(inode) /\ Fit(inode[disk[p]], files[p], Src(p)) /\ fate # "ok"
        /\ (files[p].pc = "times" => files[p].done)
    BY <1>1, LiveFit DEF Over, Life
  <1>3. ASSUME \A q \in DOMAIN sc.source : q # p => files'[q] = files[q], files'[p].saved = files[p].saved,
               files'[p].f = "none" <=> files[p].f = "none", files'[p].pc \notin {"off", "start"}
        PROVE  Saving'
    <2>1. ASSUME NEW q \in DOMAIN sc.source
          PROVE  /\ files'[q].saved = files[q].saved /\ (files'[q].f = "none" <=> files[q].f = "none")
                 /\ files'[q].pc \in {"off", "start"} => files[q].pc \in {"off", "start"}
      BY <1>3
    <2>2. Saving
      BY DEF DoneInv
    <2> QED BY <1>1, <2>1, <2>2, SavingKept
  <1>4. ASSUME NEW l, files' = Goto(p, l), l \notin {"off", "start"}, Fit(inode'[disk[p]], files'[p], Src(p)),
               \A i \in Inodes : i # disk[p] => inode'[i] = inode[i]
        PROVE  NamesDone' /\ NodesDone' /\ Saving'
    <2>1. /\ files'[p].pc = l /\ files'[p].f = files[p].f /\ files'[p].saved = files[p].saved
          /\ files'[p].pc \notin {"off", "start"}
          /\ \A q \in DOMAIN sc.source : q # p => files'[q] = files[q]
      BY <1>2, <1>4, GoesIs
    <2>2. NamesDone' /\ NodesDone'
      BY <1>1, <1>2, <1>4, <2>1, AsideDone
    <2>3. Saving'
      BY <1>3, <2>1
    <2> QED BY <2>2, <2>3
  <1>5. CASE inode' = inode /\ \E l \in {"wait", "times", "failed"} : files' = Goto(p, l)
    <2>1. PICK l \in {"wait", "times", "failed"} : files' = Goto(p, l)
      BY <1>5
    <2>2. Fit(inode'[disk[p]], files'[p], Src(p))
      <3>1. /\ files'[p].pc = l /\ files'[p].saved = files[p].saved
            /\ files'[p].closed = files[p].closed /\ files'[p].done = files[p].done
        BY <1>2, <2>1, GoesIs
      <3>2. Fit(inode[disk[p]], files'[p], Src(p))
        BY <1>1, <1>2, <3>1, FitGoes
      <3> QED BY <1>5, <3>2
    <2> QED BY <1>4, <1>5, <2>1, <2>2
  <1>6. CASE AsyncSetsTimes(p)
    <2>1. files' = Goto(p, "done") /\ inode' = [inode EXCEPT ![disk[p]].mtime = "src"] /\ files[p].pc = "times"
      BY <1>6 DEF AsyncSetsTimes
    <2>2. PICK l : l = "done"
      OBVIOUS
    <2>3. /\ files'[p].pc = l /\ files'[p].saved = files[p].saved
          /\ files'[p].closed = files[p].closed /\ files'[p].done = files[p].done
      BY <1>2, <2>1, <2>2, GoesIs
    <2>4. PICK i \in Inodes : i = disk[p]
      BY <1>2
    <2>5. /\ Same(inode'[i], inode[i]) /\ inode'[i].mtime = "src"
          /\ \A j \in Inodes : j # i => inode'[j] = inode[j]
      <3>1. PICK v : v = "src"
        OBVIOUS
      <3>2. inode' = [inode EXCEPT ![i].mtime = v]
        BY <2>1, <2>4, <3>1
      <3>3. /\ \A j \in Inodes : Same(inode'[j], inode[j])
            /\ inode'[i].mtime = v /\ \A j \in Inodes : j # i => inode'[j] = inode[j]
        BY <1>1, <1>2, <3>2, TimeIs
      <3> QED BY <3>1, <3>3
    <2>6. Fit(inode'[i], files'[p], Src(p))
      BY <1>2, <2>1, <2>2, <2>3, <2>4, <2>5, FitTimed
    <2> QED BY <1>4, <2>1, <2>4, <2>5, <2>6
  <1>7. CASE files' = [files EXCEPT ![p] = Closed(p, [@ EXCEPT !.pc = "failed"])] /\ inode' = Restored(p)
    <2>1. PICK g : g = [files[p] EXCEPT !.pc = "failed"]
      OBVIOUS
    <2>2. IsFile(g) /\ g.saved = files[p].saved /\ g.f = files[p].f /\ g.pc = "failed"
      BY <1>2, <2>1, FieldUpdates DEF IsFile, Pcs
    <2>3. PICK c : c = Closed(p, g)
      OBVIOUS
    <2>4. c.saved = files[p].saved /\ c.pc = "failed" /\ (c.f = "none" <=> files[p].f = "none")
      <3>1. c = [pc |-> g.pc, f |-> IF g.f = "open" THEN "closed" ELSE g.f,
                 saved |-> g.saved, closed |-> TRUE, done |-> g.done]
        BY <2>2, <2>3, ClosedIs
      <3> QED BY <2>2, <3>1
    <2>5. files'[p] = c /\ \A q \in DOMAIN sc.source : q # p => files'[q] = files[q]
      BY <1>2, <1>7, <2>1, <2>3
    <2>6. PICK i \in Inodes : i = disk[p]
      BY <1>2
    <2>7. /\ inode'[i].kind = inode[i].kind /\ inode'[i].ver = inode[i].ver
          /\ \A j \in Inodes : j # i => inode'[j] = inode[j]
      BY <1>1, <1>2, <1>7, <2>6, RestoredTo
    <2>8. Fit(inode'[i], files'[p], Src(p))
      BY <1>2, <2>4, <2>5, <2>6, <2>7 DEF Fit
    <2>9. NamesDone' /\ NodesDone'
      BY <1>1, <1>2, <2>5, <2>6, <2>7, <2>8, AsideDone
    <2>10. Saving'
      BY <1>3, <2>4, <2>5
    <2> QED BY <2>9, <2>10
  <1>8. CASE AsyncGivesUp(p)
    BY <1>5, <1>7, <1>8 DEF AsyncGivesUp
  <1>9. CASE AsyncStarts(p) \/ AsyncHasContent(p) \/ AsyncFails(p)
    BY <1>5, <1>9 DEF AsyncStarts, AsyncHasContent, AsyncFails, diskVars
  <1> QED BY <1>6, <1>8, <1>9

-----------------------------------------------------------------------------
(* The receive loop.                                                       *)
LEMMA LoopStands ==
    ASSUME NameInv, DoneInv, LoopStays, UNCHANGED <<inode, files>>,
           loop' = loop \/ loop'.at = "ended"
    PROVE  NamesDone' /\ NodesDone' /\ Saving'
  <1>1. NamesDone' /\ NodesDone'
    BY StillThere DEF LoopStays
  <1>2. Saving'
    BY DEF DoneInv, Saving, LoopStays
  <1> QED BY <1>1, <1>2

LEMMA OpensDone ==
    ASSUME NoFilter, NameInv, DoneInv, NEW p \in DOMAIN files, Piped(p), Opens(p), LoopStays,
           loop = Idle \/ (loop.at \in {"chmod", "reopen"} /\ loop.path = p)
    PROVE  NamesDone' /\ NodesDone' /\ Saving'
  <1>1. /\ p \in DOMAIN sc.source /\ disk[p] \in Inodes /\ Src(p).kind # "dir"
        /\ IsFile(files[p]) /\ FilesShape /\ AreNodes(inode) /\ Fit(inode[disk[p]], files[p], Src(p)) /\ fate # "ok"
        /\ files[p].pc \in {"wait", "failed"} /\ ~files[p].done /\ files[p].pc # "off"
    BY LiveFit DEF Over, Piped
  <1>2. /\ files' = [files EXCEPT ![p].f = "open"] /\ inode' = Written(p) /\ loop' = Idle
        /\ UNCHANGED <<sc, disk, attempt, list, step, rename, dirTimes, fate>>
    BY DEF Opens, LoopStays
  <1>3. /\ \A j \in Inodes : inode'[j].kind = inode[j].kind /\ inode'[j].mode = inode[j].mode
        /\ inode'[disk[p]].ver = inode[disk[p]].ver /\ \A j \in Inodes : j # disk[p] => inode'[j] = inode[j]
    BY <1>1, <1>2, WrittenIs
  <1>4. PICK g : g = [files[p] EXCEPT !.f = "open"]
    OBVIOUS
  <1>5. /\ g.f = "open" /\ g.saved = files[p].saved /\ g.pc = files[p].pc
        /\ g.closed = files[p].closed /\ g.done = files[p].done
    BY <1>1, <1>4, FieldUpdates
  <1>6. files'[p] = g /\ \A q \in DOMAIN sc.source : q # p => files'[q] = files[q]
    BY <1>1, <1>2, <1>4 DEF FilesShape
  <1>7. Fit(inode'[disk[p]], files'[p], Src(p))
    BY <1>1, <1>3, <1>5, <1>6, FitWritten
  <1>8. NamesDone' /\ NodesDone'
    BY <1>1, <1>2, <1>3, <1>6, <1>7, AsideDone
  <1>9. Saving'
    <2>1. Saving /\ loop'.at = "idle"
      BY <1>2, LoopAt DEF DoneInv
    <2>2. files'[p].f # "none" /\ files'[p].pc \notin {"off", "start"} /\ loop'.at \notin {"chmod", "reopen"}
      BY <1>1, <1>5, <1>6, <2>1
    <2> QED BY <1>1, <1>2, <1>6, <2>1, <2>2, SavingOne
  <1> QED BY <1>8, <1>9

LEMMA LoopWritesDone ==
    ASSUME NoFilter, NameInv, DoneInv, NEW p \in DOMAIN files, LoopWrites(p)
    PROVE  NamesDone' /\ NodesDone' /\ Saving'
  <1>1. Piped(p) /\ LoopStays /\ loop = Idle /\ loop.at = "idle"
    BY LoopAt DEF LoopWrites
  <1>2. CASE Opens(p)
    BY <1>1, <1>2, OpensDone
  <1>3. CASE files[p].f = "none" /\ loop' = [at |-> "chmod", path |-> p] /\ UNCHANGED <<inode, files>>
    <2>1. NamesDone' /\ NodesDone'
      BY <1>1, <1>3, StillThere DEF LoopStays
    <2>2. \A q \in DOMAIN sc.source :
            /\ files[q].saved # "" => files[q].f # "none"
            /\ files[q].pc \in {"off", "start"} => files[q].saved = ""
      BY <1>1, LoopAt DEF DoneInv, Saving
    <2>3. loop'.path = p
      BY <1>3
    <2>4. Saving'
      BY <1>1, <1>3, <2>2, <2>3 DEF Saving, LoopStays
    <2> QED BY <2>1, <2>4
  <1>4. CASE inode' = Written(p) /\ UNCHANGED <<files, loop>>
    <2>1. /\ p \in DOMAIN sc.source /\ disk[p] \in Inodes /\ Src(p).kind # "dir" /\ files[p].pc # "off"
          /\ AreNodes(inode) /\ Fit(inode[disk[p]], files[p], Src(p)) /\ fate # "ok"
          /\ files[p].pc \in {"wait", "failed"} /\ ~files[p].done
      BY <1>1, LiveFit DEF Over, Piped
    <2>2. UNCHANGED <<sc, disk, attempt, list, step, rename, dirTimes, fate, files, loop>>
      BY <1>1, <1>4 DEF LoopStays
    <2>3. /\ \A j \in Inodes : inode'[j].kind = inode[j].kind /\ inode'[j].mode = inode[j].mode
          /\ inode'[disk[p]].ver = inode[disk[p]].ver /\ \A j \in Inodes : j # disk[p] => inode'[j] = inode[j]
      BY <1>4, <2>1, <2>2, WrittenIs
    <2>4. Fit(inode'[disk[p]], files'[p], Src(p))
      BY <2>1, <2>2, <2>3, FitWritten
    <2>5. NamesDone' /\ NodesDone'
      BY <2>1, <2>2, <2>3, <2>4, AsideDone
    <2>6. Saving'
      BY <2>2 DEF DoneInv, Saving
    <2> QED BY <2>5, <2>6
  <1>5. CASE LoopFails
    BY <1>1, <1>5, LoopStands DEF LoopFails
  <1> QED BY <1>2, <1>3, <1>4, <1>5 DEF LoopWrites

LEMMA LoopWidensDone ==
    ASSUME NoFilter, NameInv, DoneInv, LoopWidens
    PROVE  NamesDone' /\ NodesDone' /\ Saving'
  <1>1. PICK p : p = loop.path
    OBVIOUS
  <1>2. /\ p \in DOMAIN files /\ Piped(p) /\ loop = [at |-> loop.at, path |-> loop.path] /\ loop.at = "chmod"
        /\ files[p].pc # "off"
    BY <1>1 DEF LoopWidens, NameInv, OpenInv, LoopShape, Piped, FilesShape
  <1>3. /\ p \in DOMAIN sc.source /\ disk[p] \in Inodes /\ Src(p).kind # "dir" /\ Src(p).mode # ""
        /\ IsFile(files[p]) /\ FilesShape /\ AreNodes(inode) /\ Fit(inode[disk[p]], files[p], Src(p)) /\ fate # "ok"
        /\ (files[p].pc = "failed" \/ (files[p].pc = "wait" /\ ~files[p].closed /\ ~files[p].done))
    BY <1>2, LiveFit DEF Over, Piped, Life
  <1>4. /\ Saving /\ files[p].f = "none" /\ files[p].saved = ""
    <2>1. Saving /\ files[p].f = "none"
      BY <1>1, <1>2 DEF DoneInv, Saving
    <2>2. loop # [at |-> "reopen", path |-> p]
      BY <1>2, LoopAt
    <2> QED BY <1>2, <1>3, <2>1, <2>2 DEF Saving
  <1>5. PICK i \in Inodes : i = disk[p]
    BY <1>3
  <1>6. PICK v : v = inode[i].mode
    OBVIOUS
  <1>7. PICK g : g = [files[p] EXCEPT !.saved = v]
    OBVIOUS
  <1>8. g.f = files[p].f /\ g.closed = files[p].closed /\ g.saved = v /\ g.pc = files[p].pc /\ g.done = files[p].done
    <2>1. IsFile(files[p])
      BY <1>3
    <2> QED BY <1>7, <2>1, FieldUpdates
  <1>9. files'[p] = g /\ \A q \in DOMAIN sc.source : q # p => files'[q] = files[q]
    BY <1>1, <1>3, <1>5, <1>6, <1>7 DEF LoopWidens, FilesShape, At
  <1>10. /\ UNCHANGED <<sc, disk, attempt, list, step, rename, dirTimes, fate>>
         /\ inode' = [inode EXCEPT ![i].mode = "wide"] /\ loop' = [at |-> "reopen", path |-> p]
    BY <1>1, <1>2, <1>5 DEF LoopWidens, LoopStays
  <1>11. /\ inode'[i].kind = inode[i].kind /\ inode'[i].ver = inode[i].ver
         /\ \A j \in Inodes : j # i => inode'[j] = inode[j]
    <2>1. PICK w : w = "wide"
      OBVIOUS
    <2>2. Chmod(i, w)
      BY <1>10, <2>1 DEF Chmod
    <2>3. \A j \in Inodes : j # i => inode'[j] = inode[j]
      <3>1. inode = [j \in Inodes |-> inode[j]]
        BY <1>3 DEF AreNodes
      <3> QED BY <2>2, <3>1 DEF Chmod
    <2> QED BY <1>3, <1>10, <2>2, <2>3, ModeIs
  <1>12. Fit(inode'[i], files'[p], Src(p))
    <2>1. Fit(inode[i], files[p], Src(p)) /\ inode'[i].kind = inode[i].kind /\ inode'[i].ver = inode[i].ver
      BY <1>3, <1>5, <1>11
    <2>2. /\ files'[p].saved = inode[i].mode /\ files'[p].closed = files[p].closed
          /\ files'[p].done = files[p].done /\ files'[p].pc = files[p].pc
      BY <1>6, <1>8, <1>9
    <2>3. files[p].saved = "" /\ Src(p).kind # "dir" /\ Src(p).mode # ""
      BY <1>3, <1>4
    <2>4. files[p].pc = "failed" \/ (files[p].pc = "wait" /\ ~files[p].closed /\ ~files[p].done)
      BY <1>3
    <2> QED BY <2>1, <2>2, <2>3, <2>4, FitWidened
  <1>13. NamesDone' /\ NodesDone'
    BY <1>2, <1>3, <1>5, <1>9, <1>10, <1>11, <1>12, AsideDone
  <1>14. Saving'
    <2>1. loop'.path = p
      BY <1>10
    <2>2. files'[p].f = "none" /\ files'[p].pc \notin {"off", "start"}
      BY <1>3, <1>4, <1>8, <1>9
    <2> QED BY <1>1, <1>2, <1>3, <1>4, <1>9, <1>10, <2>1, <2>2, SavingOne
  <1> QED BY <1>13, <1>14

LEMMA LoopReopensDone ==
    ASSUME NoFilter, NameInv, DoneInv, LoopReopens
    PROVE  NamesDone' /\ NodesDone' /\ Saving'
  <1>1. PICK p : p = loop.path
    OBVIOUS
  <1>2. p \in DOMAIN files /\ Piped(p) /\ LoopStays /\ loop.at = "reopen"
    BY <1>1 DEF LoopReopens, NameInv, OpenInv, LoopShape, FilesShape
  <1>3. CASE Protected(p)
    BY <1>1, <1>2, <1>3, LoopStands DEF LoopReopens, LoopFails
  <1>4. CASE ~Protected(p)
    BY <1>1, <1>2, <1>4, OpensDone DEF LoopReopens
  <1> QED BY <1>3, <1>4

LEMMA LoopClosesDone ==
    ASSUME NoFilter, NameInv, DoneInv, NEW p \in DOMAIN files, LoopCloses(p)
    PROVE  NamesDone' /\ NodesDone' /\ Saving'
  <1>1. /\ Piped(p) /\ files[p].pc # "off" /\ loop = Idle /\ loop' = loop /\ loop.at = "idle" /\ At(p).n = Src(p).n
        /\ UNCHANGED <<sc, disk, attempt, list, step, rename, dirTimes, fate>>
    BY LoopAt DEF LoopCloses, LoopStays, Piped
  <1>2. /\ p \in DOMAIN sc.source /\ disk[p] \in Inodes /\ Src(p).kind # "dir"
        /\ IsFile(files[p]) /\ FilesShape /\ AreNodes(inode) /\ Fit(inode[disk[p]], files[p], Src(p)) /\ fate # "ok"
        /\ files[p].pc \in {"wait", "failed"} /\ (files[p].closed => files[p].pc = "failed")
    BY <1>1, LiveFit DEF Over, Piped, Life
  <1>3. PICK c : c = Closed(p, files[p])
    OBVIOUS
  <1>4. IsFile(c) /\ c.saved = files[p].saved /\ c.pc = files[p].pc /\ (c.f = "none" <=> files[p].f = "none")
    <2>1. Closes(c, files[p])
      BY <1>2, <1>3, ClosedFile
    <2>2. c = [pc |-> files[p].pc, f |-> IF files[p].f = "open" THEN "closed" ELSE files[p].f,
               saved |-> files[p].saved, closed |-> TRUE, done |-> files[p].done]
      BY <1>2, <1>3, ClosedIs
    <2> QED BY <2>1, <2>2 DEF Closes
  <1>5. PICK g : g = [c EXCEPT !.done = TRUE]
    OBVIOUS
  <1>6. g.saved = files[p].saved /\ g.pc = files[p].pc /\ (g.f = "none" <=> files[p].f = "none")
    BY <1>4, <1>5, FieldUpdates
  <1>7. files'[p] = g /\ \A q \in DOMAIN sc.source : q # p => files'[q] = files[q]
    BY <1>2, <1>3, <1>5 DEF LoopCloses, FilesShape
  <1>8. PICK i \in Inodes : i = disk[p]
    BY <1>2
  <1>9. /\ Fit(inode'[i], files'[p], Src(p))
        /\ \A j \in Inodes : j # i => inode'[j] = inode[j]
    <2>1. CASE files[p].closed
      <3>1. inode' = inode /\ files[p].pc = "failed"
        BY <1>2, <2>1 DEF LoopCloses
      <3> QED BY <1>2, <1>6, <1>7, <1>8, <3>1 DEF Fit
    <2>2. CASE ~files[p].closed
      <3>1. inode' = Restored(p)
        BY <2>2 DEF LoopCloses
      <3>2. /\ inode'[i].kind = inode[i].kind /\ inode'[i].ver = inode[i].ver /\ inode'[i].n = Src(p).n
            /\ inode'[i].mode = IF files[p].saved = "" THEN inode[i].mode ELSE files[p].saved
            /\ \A j \in Inodes : j # i => inode'[j] = inode[j]
        BY <1>1, <1>2, <1>8, <3>1, RestoredTo DEF At
      <3>3. Fit(inode'[i], files'[p], Src(p))
        BY <1>2, <1>6, <1>7, <1>8, <3>2, FitClosed
      <3> QED BY <3>2, <3>3
    <2> QED BY <2>1, <2>2
  <1>10. NamesDone' /\ NodesDone'
    BY <1>1, <1>2, <1>7, <1>8, <1>9, AsideDone
  <1>11. Saving'
    <2>1. Saving /\ (files[p].saved # "" => files[p].f # "none")
      <3>1. loop # [at |-> "reopen", path |-> p]
        BY <1>1, LoopAt
      <3> QED BY <1>1, <1>2, <3>1 DEF DoneInv, Saving
    <2>2. /\ files'[p].saved # "" => files'[p].f # "none"
          /\ files'[p].pc \notin {"off", "start"} /\ loop'.at \notin {"chmod", "reopen"}
      BY <1>1, <1>2, <1>6, <1>7, <2>1
    <2> QED BY <1>1, <1>2, <1>7, <2>1, <2>2, SavingOne
  <1> QED BY <1>10, <1>11

LEMMA LoopEndsDone ==
    ASSUME NameInv, DoneInv, LoopEnds
    PROVE  NamesDone' /\ NodesDone' /\ Saving'
  BY LoopStands DEF LoopEnds

-----------------------------------------------------------------------------
(* An attempt starts: the difference leaves out what is as it should be.   *)
Announced(p) == \E i \in 1..Len(Difference) : Difference[i].path = p

LEMMA LeastName ==
    ASSUME sc \in Scenarios, NEW S, S \subseteq Names, S # {}
    PROVE  \E p \in S : \A q \in S : ~Before(q, p)
  <1>1. S \subseteq Seq(Nat) /\ IsFiniteSet(S)
    BY NameTypes, FS_Subset
  <1> DEFINE T == {Rank(S, p) : p \in S}
  <1>2. /\ Cardinality(S) \in Nat /\ \A p \in S : Rank(S, p) \in 0..(Cardinality(S) - 1)
        /\ \A p, q \in S : Before(p, q) => Rank(S, p) < Rank(S, q)
    BY <1>1, RankFacts
  <1>3. T \subseteq Nat /\ T # {}
    BY <1>2
  <1>4. PICK n \in T : \A m \in T : n <= m
    <2> HIDE DEF T
    <2> QED BY <1>3, LeastNumber
  <1>5. PICK p \in S : Rank(S, p) = n
    BY <1>4
  <1>6. ASSUME NEW q \in S, Before(q, p) PROVE FALSE
    <2>1. Rank(S, q) < Rank(S, p) /\ Rank(S, q) \in Nat /\ Rank(S, p) \in Nat /\ Rank(S, p) <= Rank(S, q)
      BY <1>2, <1>4, <1>5, <1>6
    <2> QED BY <2>1
  <1> QED BY <1>6

(* The first name of an inode.                                             *)
LEMMA FirstNameIs ==
    ASSUME sc \in Scenarios, NEW x \in Names
    PROVE  FirstName(x) \in Names /\ disk[FirstName(x)] = disk[x]
  <1> DEFINE S == {y \in Names : disk[y] = disk[x]}
  <1>1. PICK y \in S : \A z \in S : ~Before(z, y)
    <2>1. S \subseteq Names /\ S # {}
      OBVIOUS
    <2> HIDE DEF S
    <2> QED BY <2>1, LeastName
  <1>2. \E z \in Names : disk[z] = disk[x] /\ \A w \in Names : disk[w] = disk[x] => ~Before(w, z)
    BY <1>1
  <1> QED BY <1>2 DEF FirstName

LEMMA NotAnnounced ==
    ASSUME sc \in Scenarios, NEW p \in DOMAIN sc.source
    PROVE  Announced(p) <=> ~(Present(p) /\ SameFile(p))
  <1>1. p \in Names
    BY SourceIs
  <1>2. Announced(p) <=> p \in Changed
    BY DifferenceFacts DEF Announced
  <1> QED BY <1>1, <1>2 DEF Changed

LEMMA LeavesLinks ==
    ASSUME sc \in Scenarios, NEW p \in DOMAIN sc.source, IsLink(p), NEW l, l = Src(p).link
    PROVE  /\ ~Announced(p) => ~Announced(l) /\ disk[p] = disk[l]
           /\ Announced(p) /\ Present(p) /\ ~Announced(l) => disk[p] # disk[l]
  <1>1. /\ l \in DOMAIN sc.source /\ l \in Names /\ p \in Names /\ l # p /\ ~IsLink(l)
        /\ Src(l).kind = "file" /\ Src(p).kind = "file" /\ Src(l).n = Src(p).n
    <2>1. /\ l \in DOMAIN sc.source /\ p \in Names /\ Before(l, p) /\ p \in Seq(Nat) /\ ~IsLink(l)
          /\ Src(l).kind = "file" /\ Src(p).kind = "file" /\ Src(l).n = Src(p).n
      BY SourceIs
    <2>2. l \in Names
      BY <2>1, SourceIs
    <2>3. l # p
      BY <2>1, BeforeIrreflexive
    <2> QED BY <2>1, <2>2, <2>3
  <1>2. Src(l).mode = Src(p).mode /\ l # <<>> /\ Src(l).link = <<>>
    BY <1>1, WriterAssumption DEF Src, IsLink
  <1>3. disk[p] = disk[l] => FirstName(p) = FirstName(l) /\ At(p) = At(l) /\ (Present(p) <=> Present(l))
    BY DEF FirstName, At, Present
  <1>4. disk[p] = disk[l] /\ FirstName(p) = l => (SameFile(p) <=> SameFile(l))
    BY <1>1, <1>2, <1>3 DEF SameFile
  <1>5. ASSUME ~Announced(p) PROVE ~Announced(l) /\ disk[p] = disk[l]
    <2>1. Present(p) /\ SameFile(p)
      BY <1>5, NotAnnounced
    <2>2. FirstName(p) = l
      BY <1>1, <1>2, <2>1 DEF SameFile
    <2>3. disk[p] = disk[l]
      BY <1>1, <2>2, FirstNameIs
    <2> QED BY <1>1, <1>3, <1>4, <2>1, <2>2, <2>3, NotAnnounced
  <1>6. ASSUME Announced(p), Present(p), ~Announced(l), disk[p] = disk[l] PROVE FALSE
    <2>1. Present(l) /\ SameFile(l)
      BY <1>1, <1>6, NotAnnounced
    <2>2. FirstName(l) # <<>>
      <3>1. PICK f : f = FirstName(l)
        OBVIOUS
      <3>2. f \in Names
        BY <1>1, <3>1, FirstNameIs
      <3>3. Len(f) # 1 => Len(f) > 1
        BY <3>2, NameFilled
      <3>4. Len(<<>>) = 0
        BY EmptySeq
      <3> QED BY <3>1, <3>3, <3>4
    <2>3. FirstName(l) = l
      BY <1>1, <1>2, <2>1, <2>2 DEF SameFile
    <2> QED BY <1>3, <1>4, <1>6, <2>1, <2>3, NotAnnounced
  <1>7. CASE Announced(p)
    BY <1>6, <1>7
  <1>8. CASE ~Announced(p)
    BY <1>5, <1>8
  <1> QED BY <1>7, <1>8

LEMMA LeavesFits ==
    ASSUME sc \in Scenarios, \A i \in Inodes : Dated(inode[i]), NEW p \in DOMAIN sc.source, ~IsLink(p), ~Announced(p),
           disk[p] \in Inodes
    PROVE  Fit(At(p), NoFile, Src(p))
  <1>1. SameFile(p)
    BY NotAnnounced
  <1>2. Dated(At(p))
    BY DEF At
  <1> QED BY <1>1, <1>2 DEF SameFile, Dated, Fit, FileFit, NoFile

(* What the source does not have.                                          *)
LEMMA LeavesLeftovers ==
    ASSUME sc \in Scenarios, Tree, NEW x \in Names \ DOMAIN sc.source, Present(x)
    PROVE  /\ Announced(x) \/ \E d \in Names : /\ Announced(d) /\ IsStrictPrefix(d, x)
                                              /\ (d \in DOMAIN sc.source => Src(d).kind # "dir")
           /\ Announced(x) /\ Len(x) > 1 => Front(x) \in DOMAIN sc.source /\ Src(Front(x)).kind = "dir"
  <1> DEFINE S(y) == {d \in Names : IsStrictPrefix(d, y) /\ IsDirAt(d) /\ (d \in DOMAIN sc.source => Src(d).kind # "dir")}
  <1>1. \A y : Announced(y) <=> y \in Changed
    BY DifferenceFacts DEF Announced
  <1>2. \A y \in Names : Present(y) /\ y \notin DOMAIN sc.source => (Announced(y) <=> S(y) = {})
    BY <1>1 DEF Changed
  <1>3. ASSUME ~Announced(x) PROVE \E d \in S(x) : Announced(d)
    <2>1. S(x) \subseteq Names /\ S(x) # {}
      BY <1>2, <1>3
    <2>2. PICK d \in S(x) : \A e \in S(x) : ~Before(e, d)
      <3> HIDE DEF S
      <3> QED BY <2>1, LeastName
    <2>3. d \in Names /\ IsStrictPrefix(d, x) /\ IsDirAt(d) /\ (d \in DOMAIN sc.source => Src(d).kind # "dir")
      BY <2>2
    <2>4. CASE d \in DOMAIN sc.source
      BY <2>2, <2>3, <2>4, NotAnnounced DEF SameFile, IsDirAt
    <2>5. CASE d \notin DOMAIN sc.source
      <3>1. ASSUME NEW e \in S(d) PROVE FALSE
        <4>1. e \in Names /\ e \in Seq(Nat) /\ d \in Seq(Nat) /\ x \in Seq(Nat) /\ IsStrictPrefix(e, d)
          BY <2>3, <3>1, NameTypes
        <4>2. IsStrictPrefix(e, x) /\ Before(e, d)
          BY <2>3, <4>1, PrefixTransitive DEF IsStrictPrefix, Before
        <4> QED BY <2>2, <3>1, <4>2
      <3> QED BY <1>2, <2>2, <2>3, <2>5, <3>1 DEF IsDirAt
    <2> QED BY <2>2, <2>4, <2>5
  <1>4. ASSUME Announced(x), Len(x) > 1 PROVE Front(x) \in DOMAIN sc.source /\ Src(Front(x)).kind = "dir"
    <2>1. Front(x) \in Names /\ IsStrictPrefix(Front(x), x)
      BY <1>4, FrontName
    <2>2. IsDirAt(Front(x))
      BY <2>1 DEF Tree
    <2> QED BY <1>2, <1>4, <2>1, <2>2
  <1> QED BY <1>3, <1>4

LEMMA Leaves ==
    ASSUME sc \in Scenarios, Tree, AllDated, \A x \in Names : Present(x) => disk[x] \in Inodes
    PROVE  /\ \A x \in Names \ DOMAIN sc.source : Present(x) =>
                Announced(x) \/ \E d \in Names : /\ Announced(d) /\ IsStrictPrefix(d, x)
                                                 /\ (d \in DOMAIN sc.source => Src(d).kind # "dir")
           /\ \A x \in Names : Announced(x) /\ x \notin DOMAIN sc.source /\ Len(x) > 1 =>
                Front(x) \in DOMAIN sc.source /\ Src(Front(x)).kind = "dir"
           /\ \A p \in DOMAIN sc.source : IsLink(p) =>
                /\ ~Announced(p) => ~Announced(Src(p).link) /\ disk[p] = disk[Src(p).link]
                /\ Announced(p) /\ Present(p) /\ ~Announced(Src(p).link) => disk[p] # disk[Src(p).link]
           /\ \A p \in DOMAIN sc.source : ~IsLink(p) /\ ~Announced(p) => Fit(At(p), NoFile, Src(p))
  <1>1. \A x \in Names \ DOMAIN sc.source : Announced(x) => Present(x)
    BY DifferenceFacts DEF Announced, Changed
  <1>2. ASSUME NEW x \in Names, Announced(x), x \notin DOMAIN sc.source, Len(x) > 1
        PROVE  Front(x) \in DOMAIN sc.source /\ Src(Front(x)).kind = "dir"
    BY <1>1, <1>2, LeavesLeftovers
  <1>3. ASSUME NEW p \in DOMAIN sc.source, IsLink(p)
        PROVE  /\ ~Announced(p) => ~Announced(Src(p).link) /\ disk[p] = disk[Src(p).link]
               /\ Announced(p) /\ Present(p) /\ ~Announced(Src(p).link) => disk[p] # disk[Src(p).link]
    BY <1>3, LeavesLinks
  <1>4. ASSUME NEW p \in DOMAIN sc.source, ~IsLink(p), ~Announced(p) PROVE Fit(At(p), NoFile, Src(p))
    <2>1. p \in Names /\ Present(p)
      BY <1>4, SourceIs, NotAnnounced
    <2>2. disk[p] \in Inodes /\ \A i \in Inodes : Dated(inode[i])
      BY <2>1 DEF AllDated
    <2> QED BY <1>4, <2>2, LeavesFits
  <1>5. ASSUME NEW x \in Names \ DOMAIN sc.source, Present(x)
        PROVE  Announced(x) \/ \E d \in Names : /\ Announced(d) /\ IsStrictPrefix(d, x)
                                                /\ (d \in DOMAIN sc.source => Src(d).kind # "dir")
    BY <1>5, LeavesLeftovers
  <1> QED BY <1>2, <1>3, <1>4, <1>5

LEMMA NextAttemptDone ==
    ASSUME NoFilter, NameInv, DoneInv, NextAttempt
    PROVE  NamesDone' /\ NodesDone' /\ Saving'
  <1>1. /\ sc \in Scenarios /\ UNCHANGED <<sc, disk, inode>> /\ attempt = 1 /\ attempt' = 2 /\ list' = Difference
        /\ step' = "next" /\ rename' = FALSE /\ loop' = Idle /\ fate' = "run" /\ dirTimes' = {}
        /\ files' = [p \in DOMAIN sc.source |-> NoFile]
    BY DEF NextAttempt, diskVars, NameInv, OpenInv, FilesShape
  <1>2. /\ Names' = Names /\ Inodes' = Inodes
        /\ \A p : Src(p)' = Src(p) /\ (IsLink(p)' <=> IsLink(p)) /\ (Listed(p)' <=> Announced(p))
        /\ \A x : (Present(x)' <=> Present(x)) /\ (IsDirAt(x)' <=> IsDirAt(x)) /\ At(x)' = At(x)
    BY <1>1, Static DEF Present, IsDirAt, At, Listed, Announced
  <1>3. Tree /\ AllDated /\ DirHome /\ \A x \in Names : Present(x) => disk[x] \in Inodes /\ disk[x][2] # 2
    BY <1>1 DEF NameInv, DiskInv, DoneInv, NodesDone, NamesDone, Owners, Owned
  <1>4. Leftovers'
    <2>1. \A d, x : Removes(d, x)' <=>
            Announced(d) /\ IsStrictPrefix(d, x) /\ (d \in DOMAIN sc.source => Src(d).kind # "dir")
      BY <1>1, <1>2 DEF Removes
    <2>2. ASSUME NEW x \in Names \ DOMAIN sc.source, Present(x) PROVE Listed(x)' \/ \E d \in Names : Removes(d, x)'
      BY <1>1, <1>2, <1>3, <2>1, <2>2, Leaves
    <2> QED BY <1>1, <1>2, <2>2 DEF Leftovers
  <1>5. Deletable'
    <2>1. ASSUME NEW x \in Names, Announced(x), x \notin DOMAIN sc.source, Len(x) > 1
          PROVE  Front(x) \in DOMAIN sc.source /\ Src(Front(x)).kind = "dir"
      BY <1>1, <1>3, <2>1, Leaves
    <2> QED BY <1>1, <1>2, <2>1 DEF Deletable
  <1>6. ASSUME NEW p \in DOMAIN sc.source, IsLink(p), NEW l, l = Src(p).link
        PROVE  /\ ~Announced(p) => ~Announced(l) /\ disk[p] = disk[l]
               /\ Announced(p) /\ Present(p) /\ ~Announced(l) => disk[p] # disk[l]
               /\ disk[p] # <<l, 2>>
    <2>1. /\ ~Announced(p) => ~Announced(l) /\ disk[p] = disk[l]
          /\ Announced(p) /\ Present(p) /\ ~Announced(l) => disk[p] # disk[l]
      BY <1>1, <1>3, <1>6, Leaves
    <2>2. disk[p] # <<l, 2>>
      <3>1. p \in Names
        BY <1>1, SourceIs
      <3> QED BY <1>3, <3>1 DEF Present, None
    <2> QED BY <2>1, <2>2
  <1>7. Linked'
    BY <1>1, <1>2, <1>6 DEF Linked
  <1>8. Apart'
    <2>1. \A p \in DOMAIN sc.source : IsLink(p) /\ Announced(p) => Parted(p)'
      BY <1>1, <1>2, <1>6 DEF Parted
    <2> QED BY <1>1, <1>2, <2>1 DEF Apart
  <1>9. DirHome' /\ AllDated' /\ InHand' /\ Timed'
    BY <1>1, <1>2, <1>3 DEF DirHome, AllDated, Dated, InHand, Timed
  <1>10. Fits'
    <2>1. ASSUME NEW p \in DOMAIN sc.source, ~IsLink(p), ~Announced(p) PROVE Fit(At(p), files'[p], Src(p))
      <3>1. files'[p] = NoFile
        BY <1>1
      <3> QED BY <1>1, <1>3, <2>1, <3>1, Leaves
    <2>2. \A p : Fit(At(p), files[p], Src(p))' <=> Fit(At(p), files'[p], Src(p))
      BY <1>2 DEF Fit, FileFit
    <2> QED BY <1>1, <1>2, <2>1, <2>2 DEF Fits
  <1>11. Saving'
    <2>1. loop'.at = "idle" /\ \A p \in DOMAIN sc.source : files'[p].saved = ""
      BY <1>1, LoopAt DEF NoFile
    <2> QED BY <1>1, <2>1 DEF Saving
  <1> QED BY <1>4, <1>5, <1>7, <1>8, <1>9, <1>10, <1>11 DEF NamesDone, NodesDone

(* What was there before the first attempt.                                *)
LEMMA InitDated ==
    ASSUME Init
    PROVE  AllDated /\ DirHome
  <1>1. sc \in Scenarios
    BY DEF Init
  <1>2. \A p \in DOMAIN sc.before :
          /\ Dated(sc.before[p].node)
          /\ sc.before[p].link # <<>> => sc.before[p].node.kind # "dir"
    BY <1>1, WriterAssumption DEF Dated
  <1>3. AllDated
    <2>1. Dated(Node("", "", 0, "", ""))
      BY DEF Dated, Node
    <2>2. inode = [i \in Inodes |-> IF i[2] = 0 /\ i[1] \in DOMAIN sc.before THEN sc.before[i[1]].node
                                    ELSE Node("", "", 0, "", "")]
      BY DEF Init, Inodes
    <2> QED BY <1>2, <2>1, <2>2 DEF AllDated
  <1>4. ASSUME NEW x \in Names, IsDirAt(x) PROVE disk[x][1] = x
    <2>1. x \in DOMAIN sc.before /\ sc.before[x].node.kind = "dir"
      BY <1>4, ThereBefore DEF IsDirAt
    <2>2. sc.before[x].link = <<>>
      BY <1>2, <2>1
    <2> QED BY <2>1, <2>2 DEF Init
  <1> QED BY <1>3, <1>4 DEF DirHome

LEMMA InitDone ==
    ASSUME NoFilter, Init
    PROVE  DoneInv
  <1>1. /\ sc \in Scenarios /\ attempt = 1 /\ list = Difference /\ step = "next" /\ rename = FALSE
        /\ loop = Idle /\ fate = "run" /\ dirTimes = {} /\ files = [p \in DOMAIN sc.source |-> NoFile]
    BY DEF Init
  <1>2. Tree /\ AllDated /\ DirHome /\ \A x \in Names : Present(x) => disk[x] \in Inodes /\ disk[x][2] # 1
    BY InitName, InitDated, ThereBefore DEF NameInv, DiskInv
  <1>3. \A p : Listed(p) <=> Announced(p)
    BY <1>1 DEF Listed, Announced
  <1>4. Leftovers /\ Deletable /\ Linked
    <2>1. \A d, x : Removes(d, x) <=>
            Announced(d) /\ IsStrictPrefix(d, x) /\ (d \in DOMAIN sc.source => Src(d).kind # "dir")
      BY <1>3 DEF Removes
    <2>2. Leftovers
      BY <1>1, <1>2, <1>3, <2>1, Leaves DEF Leftovers
    <2>3. Deletable
      BY <1>1, <1>2, <1>3, Leaves DEF Deletable
    <2>4. Linked
      BY <1>1, <1>2, <1>3, Leaves DEF Linked
    <2> QED BY <2>2, <2>3, <2>4
  <1>5. Apart
    <2>1. ASSUME NEW p \in DOMAIN sc.source, IsLink(p), Announced(p) PROVE Parted(p)
      <3>1. p \in Names
        BY <1>1, SourceIs
      <3>2. disk[p] # <<Src(p).link, attempt>>
        BY <1>1, <1>2, <3>1 DEF Present, None
      <3>3. Present(p) /\ ~Announced(Src(p).link) => disk[p] # disk[Src(p).link]
        BY <1>1, <1>2, <2>1, Leaves
      <3> QED BY <1>3, <3>2, <3>3 DEF Parted
    <2> QED BY <1>3, <2>1 DEF Apart
  <1>6. InHand /\ Timed /\ Causes
    BY <1>1 DEF InHand, Timed, Causes
  <1>7. Fits
    <2>1. ASSUME NEW p \in DOMAIN sc.source, ~IsLink(p), ~Announced(p) PROVE Fit(At(p), files[p], Src(p))
      <3>1. files[p] = NoFile
        BY <1>1
      <3> QED BY <1>1, <1>2, <2>1, <3>1, Leaves
    <2> QED BY <1>3, <2>1 DEF Fits
  <1>8. Saving
    <2>1. loop.at = "idle" /\ \A p \in DOMAIN sc.source : files[p].saved = ""
      BY <1>1, LoopAt DEF NoFile
    <2> QED BY <2>1 DEF Saving
  <1> QED BY <1>2, <1>4, <1>5, <1>6, <1>7, <1>8 DEF DoneInv, NamesDone, NodesDone

-----------------------------------------------------------------------------
LEMMA ScenarioStays == [Next]_vars => (NoFilter' <=> NoFilter)
  <1>1. Next => UNCHANGED sc
    <2>1. Diff => UNCHANGED sc
      BY DEF Diff, StartChange, Make, Meta, Swap, WaitStarts, Wait
    <2>2. Async => UNCHANGED sc
      BY DEF Async, AsyncStarts, AsyncHasContent, AsyncGivesUp, AsyncSetsTimes, AsyncStays
    <2>3. Loop => UNCHANGED sc
      BY DEF Loop, LoopWrites, LoopCloses, LoopWidens, LoopReopens, LoopEnds, LoopStays
    <2> QED BY <2>1, <2>2, <2>3 DEF Next, CallFails, Cancel, OtherMkdir, AsyncFails, NextAttempt
  <1> QED BY <1>1 DEF NoFilter, vars

LEMMA StepDone == NoFilter /\ NameInv /\ DoneInv /\ [Next]_vars => DoneInv'
  <1> SUFFICES ASSUME NoFilter, NameInv, DoneInv, [Next]_vars PROVE DoneInv'
    OBVIOUS
  <1>1. NameInv'
    BY StepName
  <1>2. Causes'
    BY CausesStep DEF DoneInv
  <1>3. NamesDone' /\ NodesDone' /\ Saving'
    <2>1. CASE Diff
      <3>1. CASE StartChange \/ Make \/ Meta \/ Swap
        BY <1>1, <3>1, StartChangeDone, MakeDone, MetaDone, SwapDone
      <3>2. CASE WaitStarts \/ Wait
        BY <3>2, CallerDone, WaitDone
      <3> QED BY <2>1, <3>1, <3>2 DEF Diff
    <2>2. CASE Async
      BY <2>2, AsyncDone DEF Async
    <2>3. CASE Loop
      BY <2>3, LoopWritesDone, LoopClosesDone, LoopWidensDone, LoopReopensDone, LoopEndsDone DEF Loop
    <2>4. CASE CallFails \/ Cancel
      BY <2>4, CallerDone
    <2>5. CASE \E p \in DOMAIN files : AsyncFails(p)
      BY <2>5, AsyncDone
    <2>6. CASE NextAttempt
      BY <2>6, NextAttemptDone
    <2>7. CASE OtherMkdir
      BY <1>1, <2>7, OtherMkdirDone
    <2>8. CASE UNCHANGED vars
      BY <2>8, StillDone DEF vars, diskVars
    <2> QED BY <2>1, <2>2, <2>3, <2>4, <2>5, <2>6, <2>7, <2>8 DEF Next
  <1> QED BY <1>2, <1>3 DEF DoneInv

(* A file is as the source has it once its goroutine is over.              *)
LEMMA FitOver ==
    ASSUME NEW m, NEW g, NEW s, Fit(m, g, s), s.kind # "dir", g.pc \in {"off", "done"},
           g.pc = "off" => g.saved = "", g.pc = "done" => g.done /\ g.closed
    PROVE  m.kind = s.kind /\ m.mode = s.mode /\ m.n = s.n /\ m.ver = "src" /\ m.mtime = "src"
  BY DEF Fit, FileFit

LEMMA DoneImplies == NoFilter /\ NameInv /\ DoneInv => DoneMeansDone
  <1> SUFFICES ASSUME NoFilter, NameInv, DoneInv PROVE DoneMeansDone
    OBVIOUS
  <1>1. ASSUME Returned, attempt = 2, "filter" \notin blame, "chmod" \notin blame PROVE Success
    <2>1. blame = {}
      BY <1>1 DEF DoneInv, Causes
    <2>2. ~ctxDone
      BY <2>1 DEF NameInv, FileInv, Blamed
    <2>3. fate # "failed"
      BY <2>2 DEF NameInv, OpenInv, FateShape
    <2> QED BY <1>1, <2>2, <2>3 DEF Returned, Success
  <1>2. ASSUME fate = "ok"
        PROVE  /\ \A p \in Wanted :
                    InPlace(p) /\ (At(p).mtime = "src" \/ (Src(p).kind = "dir" /\ p \notin dirTimes))
               /\ \A x \in Names \ DOMAIN sc.source : ~Present(x)
               /\ fds = {} /\ held = {}
    <2>1. /\ sc \in Scenarios /\ list = <<>> /\ step = "next" /\ held = {}
          /\ \A p \in DOMAIN sc.source : files[p].pc \in {"off", "done"}
      BY <1>2 DEF NameInv, OpenInv, FateShape, Over, DiskInv, ChangeShape
    <2>2. \A p : ~Listed(p)
      BY <2>1, EmptySeq DEF Listed
    <2>3. fds = {}
      BY <2>1 DEF NameInv, OpenInv, FilesShape, Life
    <2>4. \A x \in Names \ DOMAIN sc.source : ~Present(x)
      BY <2>1, <2>2 DEF DoneInv, NamesDone, Leftovers, Removes
    <2>5. ASSUME NEW p \in DOMAIN sc.source, ~IsLink(p)
          PROVE  /\ Present(p) /\ At(p).kind = Src(p).kind /\ At(p).mode = Src(p).mode /\ At(p).n = Src(p).n
                 /\ IF Src(p).kind = "dir" THEN p \in dirTimes => At(p).mtime = "src"
                    ELSE At(p).ver = "src" /\ At(p).mtime = "src"
      <3>1. Present(p) /\ disk[p] \in Inodes
        BY <2>2, Unlisted
      <3>2. Fit(At(p), files[p], Src(p))
        BY <2>2, <2>5 DEF DoneInv, NodesDone, Fits
      <3>3. CASE Src(p).kind = "dir"
        <4>1. At(p).kind = Src(p).kind /\ At(p).mode = Src(p).mode
          BY <3>2, <3>3 DEF Fit
        <4>2. At(p).n = Src(p).n
          <5>1. Dated(At(p))
            BY <3>1 DEF DoneInv, NodesDone, AllDated, At
          <5>2. Src(p).n = 0
            BY <2>1, <3>3, SourceIs
          <5> QED BY <3>3, <4>1, <5>1, <5>2 DEF Dated
        <4>3. p \in dirTimes => At(p).mtime = "src"
          BY <1>2 DEF DoneInv, NodesDone, Timed
        <4> QED BY <3>1, <3>3, <4>1, <4>2, <4>3
      <3>4. CASE Src(p).kind # "dir"
        <4>1. files[p].pc \in {"off", "done"} /\ (files[p].pc = "done" => files[p].done /\ files[p].closed)
          BY <2>1 DEF NameInv, OpenInv, FilesShape, Life
        <4>2. files[p].pc = "off" => files[p].saved = ""
          BY DEF DoneInv, Saving
        <4>3. PICK m : m = At(p)
          OBVIOUS
        <4>4. PICK g : g = files[p]
          OBVIOUS
        <4>5. PICK s : s = Src(p)
          OBVIOUS
        <4>6. Fit(m, g, s) /\ s.kind # "dir" /\ g.pc \in {"off", "done"}
          BY <3>2, <3>4, <4>1, <4>3, <4>4, <4>5
        <4>7. m.kind = s.kind /\ m.mode = s.mode /\ m.n = s.n /\ m.ver = "src" /\ m.mtime = "src"
          BY <4>1, <4>2, <4>4, <4>6, FitOver
        <4> QED BY <3>1, <3>4, <4>3, <4>5, <4>7
      <3> QED BY <3>3, <3>4
    <2>6. ASSUME NEW p \in DOMAIN sc.source, IsLink(p)
          PROVE  /\ Present(p) /\ At(p).kind = Src(p).kind /\ At(p).mode = Src(p).mode /\ At(p).n = Src(p).n
                 /\ At(p).ver = "src" /\ At(p).mtime = "src" /\ disk[p] = disk[Src(p).link]
      <3>1. PICK l : l = Src(p).link
        OBVIOUS
      <3>2. /\ l \in DOMAIN sc.source /\ ~IsLink(l) /\ Src(l).n = Src(p).n
            /\ Src(l).kind = "file" /\ Src(p).kind = "file"
        BY <2>1, <2>6, <3>1, SourceIs
      <3>3. Src(l).mode = Src(p).mode
        BY <2>1, <2>6, <3>1, WriterAssumption DEF Src, IsLink
      <3>4. disk[p] = disk[l]
        BY <2>2, <2>6, <3>1 DEF DoneInv, NamesDone, Linked
      <3>5. /\ Present(l) /\ At(l).kind = Src(l).kind /\ At(l).mode = Src(l).mode /\ At(l).n = Src(l).n
            /\ At(l).ver = "src" /\ At(l).mtime = "src"
        BY <2>5, <3>2
      <3>6. At(p) = At(l) /\ (Present(p) <=> Present(l))
        BY <3>4 DEF At, Present
      <3> QED BY <3>1, <3>2, <3>3, <3>4, <3>5, <3>6
    <2>7. ASSUME NEW p \in Wanted
          PROVE  InPlace(p) /\ (At(p).mtime = "src" \/ (Src(p).kind = "dir" /\ p \notin dirTimes))
      <3>1. p \in DOMAIN sc.source
        BY DEF Wanted
      <3>2. CASE IsLink(p)
        BY <2>6, <3>1, <3>2 DEF InPlace
      <3>3. CASE ~IsLink(p)
        BY <2>5, <3>1, <3>3 DEF InPlace
      <3> QED BY <3>2, <3>3
    <2> QED BY <2>1, <2>3, <2>4, <2>7
  <1> QED BY <1>1, <1>2 DEF DoneMeansDone, Success

-----------------------------------------------------------------------------
(* Once a transfer has returned and its goroutines are over, what is open  *)
(* is a file that was given up, and directories after a failed diff:       *)
(* nothing after a success (HandleChange, Wait, Close).                    *)
THEOREM NothingLeftOpenHolds == Spec => []NothingLeftOpen
<1> QED BY InitOpen, StepOpen, OpenImplies, PTL DEF Spec

(* A transfer fails for a reason: a call that failed, a cancellation, a    *)
(* link to what the filter leaves out, or a mode set again through another *)
(* name of a file that was opened by widening it (HandleChange, run, Write *)
(* of lazyFileWriter).                                                     *)
THEOREM FailsForCauseHolds == Spec => []FailsForCause
<1> QED BY InitName, StepName, NameImplies, PTL DEF Spec

(* An entry that is replaced by one of its sort is there all the time, in  *)
(* a transfer that fails, after a crash and in the next one: as it was, or *)
(* with its new metadata, and whole where its content is written first     *)
(* (HandleChange: a temporary name, then Rename).                          *)
THEOREM OldOrNewHolds == Spec => []OldOrNew
<1> QED BY InitName, StepName, NameImplies, PTL DEF Spec

(* A transfer that succeeds leaves the source's tree, where no filter      *)
(* leaves anything out: every entry with its mode, time, links and         *)
(* content, nothing else under any name, nothing open; and the second      *)
(* attempt succeeds whatever a failure, a cancellation or a crash left     *)
(* behind (HandleChange, Wait, the lazy writers, receiver.run).            *)
THEOREM DoneMeansDoneHolds == Spec => [](NoFilter => DoneMeansDone)
<1>1. Init => NameInv /\ (NoFilter => DoneInv)
  BY InitName, InitDone
<1>2. NameInv /\ (NoFilter => DoneInv) /\ [Next]_vars => NameInv' /\ (NoFilter' => DoneInv')
  BY ScenarioStays, StepName, StepDone
<1>3. NameInv /\ (NoFilter => DoneInv) => (NoFilter => DoneMeansDone)
  BY DoneImplies
<1> QED BY <1>1, <1>2, <1>3, PTL DEF Spec
=============================================================================
