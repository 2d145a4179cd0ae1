--------------------------- MODULE RootCacheProofs ---------------------------
(***************************************************************************)
(* Proofs about RootCache, for any number of goroutines, any directories,  *)
(* any capacity and any supply of descriptors.                             *)
(***************************************************************************)
EXTENDS RootCache, FiniteSetTheorems, SequenceTheorems, TLAPS

-----------------------------------------------------------------------------
(* The inductive invariant, in parts.                                      *)

(* refs counts the leases, so that "no reference" is "no user".            *)
Counting == \A h \in Handles \cup {Root} : refs[h] = Cardinality(Users(h))

(* What was opened is in the map or evicted, and closed exactly when it is *)
(* evicted and not leased.                                                 *)
Flags ==
    /\ entries \subseteq opened /\ entries \cap evicted = {}
    /\ opened \subseteq entries \cup evicted /\ evicted \subseteq opened
    /\ \A h \in Handles :
         closes[h] = IF h \in evicted /\ refs[h] = 0 THEN 1 ELSE 0

(* The list holds the entries of the map, each once.                       *)
ListIsMap ==
    /\ \A i \in 1..Len(lru) : lru[i] \in entries
    /\ \A h \in entries : \E i \in 1..Len(lru) : lru[i] = h
    /\ \A i, j \in 1..Len(lru) : lru[i] = lru[j] => i = j

(* The client that walks a chain holds the lock and stands on an entry;    *)
(* after an open that entry is the first of the list.                      *)
Walking ==
    \A c \in Clients :
      /\ pc[c] \in {"descend", "evict"} <=> mu = c
      /\ mu = c => at[c] = Root \/ at[c] \in entries
      /\ pc[c] = "evict" => lru # <<>> /\ lru[1] = at[c]

(* Only while evicting may the map be over its capacity.                   *)
Capacity ==
    /\ IsFiniteSet(entries)
    /\ (\A c \in Clients : pc[c] # "evict") => Cardinality(entries) <= MaxSize

(* Where a client stands is what it has walked of its directory.           *)
Standing ==
    \A c \in Clients :
      /\ pc[c] = "idle" => at[c] = Root
      /\ at[c] = Root => depth[c] = 0
      /\ at[c] # Root => at[c] \in opened /\ name[at[c]] = SubSeq(Dir[c], 1, depth[c])
      /\ pc[c] = "use" => depth[c] = Len(Dir[c])

IInv ==
    /\ TypeOK
    /\ Counting
    /\ Flags
    /\ ListIsMap
    /\ Walking
    /\ Capacity
    /\ Standing

-----------------------------------------------------------------------------
(* The lists.                                                              *)
NoneTwice(s) == \A i, j \in 1..Len(s) : s[i] = s[j] => i = j

SameMembers(t, s) ==
    /\ \A i \in 1..Len(t) : \E j \in 1..Len(s) : t[i] = s[j]
    /\ \A j \in 1..Len(s) : \E i \in 1..Len(t) : t[i] = s[j]

LEMMA MovedFacts ==
  ASSUME NEW S, NEW s \in Seq(S), NEW h \in S,
         \E i \in 1..Len(s) : s[i] = h,
         NoneTwice(s)
  PROVE  /\ MovedToFront(s, h) \in Seq(S)
         /\ Len(MovedToFront(s, h)) = Len(s)
         /\ SameMembers(MovedToFront(s, h), s)
         /\ NoneTwice(MovedToFront(s, h))
<1> DEFINE k == CHOOSE i \in 1..Len(s) : s[i] = h
           f == [i \in 1..Len(s) |-> IF i = 1 THEN h ELSE IF i <= k THEN s[i - 1] ELSE s[i]]
<1>1. k \in 1..Len(s) /\ s[k] = h
  OBVIOUS
<1>2. Len(s) \in Nat /\ \A i \in 1..Len(s) : s[i] \in S
  BY ElementOfSeq, LenProperties
<1> HIDE DEF k
<1>3. \A i \in 1..Len(s) : i # 1 /\ i <= k => i - 1 \in 1..Len(s) /\ i - 1 < k
  BY <1>1, <1>2
<1>4. f \in [1..Len(s) -> S]
  BY <1>2, <1>3
<1>5. f \in Seq(S) /\ Len(f) = Len(s)
  BY <1>2, <1>4, SeqDef, LenProperties
<1>6. \A i \in 1..Len(s) : \E j \in 1..Len(s) : f[i] = s[j]
  BY <1>1, <1>3
<1>7. \A j \in 1..Len(s) : \E i \in 1..Len(s) : f[i] = s[j]
  <2> TAKE j \in 1..Len(s)
  <2>1. CASE j = k
    BY <1>1, <1>2, <2>1
  <2>2. CASE j < k
    <3>1. j + 1 \in 1..Len(s) /\ j + 1 # 1 /\ j + 1 <= k /\ (j + 1) - 1 = j
      BY <1>1, <1>2, <2>2
    <3> QED  BY <3>1
  <2>3. CASE j > k
    <3>1. j # 1 /\ ~(j <= k)
      BY <1>1, <1>2, <2>3
    <3> QED  BY <3>1
  <2> QED  BY <1>1, <1>2, <2>1, <2>2, <2>3
<1>8. \A i, j \in 1..Len(s) : f[i] = f[j] => i = j
  <2>1. \A i \in 1..Len(s) :
          \E m \in 1..Len(s) : /\ f[i] = s[m]
                               /\ i = 1 => m = k
                               /\ i # 1 /\ i <= k => m = i - 1
                               /\ i # 1 /\ ~(i <= k) => m = i
    BY <1>1, <1>3
  <2> TAKE i, j \in 1..Len(s)
  <2> HAVE f[i] = f[j]
  <2>2. PICK m \in 1..Len(s) : /\ f[i] = s[m]
                               /\ i = 1 => m = k
                               /\ i # 1 /\ i <= k => m = i - 1
                               /\ i # 1 /\ ~(i <= k) => m = i
    BY <2>1
  <2>3. PICK n \in 1..Len(s) : /\ f[j] = s[n]
                               /\ j = 1 => n = k
                               /\ j # 1 /\ j <= k => n = j - 1
                               /\ j # 1 /\ ~(j <= k) => n = j
    BY <2>1
  <2>4. m = n
    BY <2>2, <2>3 DEF NoneTwice
  <2> QED  BY <1>1, <1>2, <2>2, <2>3, <2>4
<1>9. MovedToFront(s, h) = f
  BY DEF MovedToFront, k
<1> HIDE DEF f
<1>10. NoneTwice(f)
  BY <1>5, <1>8 DEF NoneTwice
<1>11. SameMembers(f, s)
  BY <1>5, <1>6, <1>7 DEF SameMembers
<1> QED  BY <1>5, <1>9, <1>10, <1>11

LEMMA PushedFacts ==
  ASSUME NEW S, NEW s \in Seq(S), NEW h \in S
  PROVE  /\ PushedFront(s, h) \in Seq(S)
         /\ PushedFront(s, h) # <<>>
         /\ Len(PushedFront(s, h)) = Len(s) + 1
         /\ PushedFront(s, h)[1] = h
         /\ \A i \in 1..Len(s) : PushedFront(s, h)[i + 1] = s[i]
         /\ \A i \in 1..Len(PushedFront(s, h)) : i = 1 \/ (i - 1 \in 1..Len(s) /\ PushedFront(s, h)[i] = s[i - 1])
<1> DEFINE f == [i \in 1..(Len(s) + 1) |-> IF i = 1 THEN h ELSE s[i - 1]]
<1>1. Len(s) \in Nat /\ \A i \in 1..Len(s) : s[i] \in S
  BY ElementOfSeq, LenProperties
<1>2. \A i \in 1..(Len(s) + 1) : i = 1 \/ i - 1 \in 1..Len(s)
  BY <1>1
<1>3. f \in [1..(Len(s) + 1) -> S]
  BY <1>1, <1>2
<1>4. f \in Seq(S) /\ Len(f) = Len(s) + 1
  BY <1>1, <1>3, SeqDef, LenProperties
<1>5. \A i \in 1..Len(s) : i + 1 \in 1..(Len(s) + 1) /\ i + 1 # 1 /\ (i + 1) - 1 = i
  BY <1>1
<1>6. f # <<>> /\ f[1] = h
  BY <1>1, <1>4, EmptySeq
<1>7. PushedFront(s, h) = f
  BY DEF PushedFront
<1> QED  BY <1>1, <1>2, <1>4, <1>5, <1>6, <1>7

LEMMA WithoutBackFacts ==
  ASSUME NEW S, NEW s \in Seq(S), s # <<>>
  PROVE  /\ Len(s) \in Nat \ {0}
         /\ WithoutBack(s) \in Seq(S)
         /\ Len(WithoutBack(s)) = Len(s) - 1
         /\ \A i \in 1..(Len(s) - 1) : WithoutBack(s)[i] = s[i]
<1>1. Len(s) \in Nat \ {0} /\ \A i \in 1..Len(s) : s[i] \in S
  BY ElementOfSeq, LenProperties, EmptySeq
<1>2. [i \in 1..(Len(s) - 1) |-> s[i]] \in [1..(Len(s) - 1) -> S] /\ Len(s) - 1 \in Nat
  BY <1>1
<1> QED  BY <1>1, <1>2, SeqDef, LenProperties DEF WithoutBack
-----------------------------------------------------------------------------
(* Users, and the counters that follow them.                               *)
LEMMA UsersFinite ==
  ASSUME NEW h
  PROVE  IsFiniteSet(Users(h)) /\ Cardinality(Users(h)) \in Nat
<1>1. Users(h) \in SUBSET Clients
  BY DEF Users
<1> QED  BY <1>1, FS_Subset, FS_CardinalityType, RootCacheAssumption DEF RootCacheAssumption

(* A step in which nobody gets or releases a lease keeps the users.        *)
LEMMA UsersKept ==
  ASSUME TypeOK,
         \A c \in Clients : (pc[c] = "use") <=> (pc'[c] = "use"),
         \A c \in Clients : pc[c] = "use" => at'[c] = at[c]
  PROVE  \A h : Users(h)' = Users(h)
  BY DEF Users

LEMMA DirFacts == \A c \in Clients : Dir[c] \in Seq(Nat) /\ Len(Dir[c]) \in Nat
  BY LenProperties, RootCacheAssumption DEF RootCacheAssumption

LEMMA InitInv == Init => IInv
<1> SUFFICES ASSUME Init PROVE IInv
  OBVIOUS
<1> USE DEF Init
<1>1. TypeOK
  <2>1. \A c \in Clients : depth[c] <= Len(Dir[c])
    BY DirFacts
  <2>2. lru \in Seq(Handles) /\ name \in [Handles -> Seq(Nat)]
    BY EmptySeq
  <2> QED  BY <2>1, <2>2 DEF TypeOK
<1>2. Counting
  <2>1. \A h : Users(h) = {}
    BY DEF Users
  <2> QED  BY <2>1, FS_EmptySet DEF Counting
<1>3. Flags
  BY DEF Flags
<1>4. ListIsMap
  BY EmptySeq DEF ListIsMap
<1>5. Walking
  BY RootCacheAssumption DEF Walking, RootCacheAssumption
<1>6. Capacity
  BY FS_EmptySet, RootCacheAssumption DEF Capacity, RootCacheAssumption
<1>7. Standing
  BY DEF Standing
<1> QED  BY <1>1, <1>2, <1>3, <1>4, <1>5, <1>6, <1>7 DEF IInv

-----------------------------------------------------------------------------
(* One lemma per operation.                                                *)
LEMMA GetStartsInv ==
  ASSUME IInv, NEW c \in Clients, GetStarts(c)
  PROVE  IInv'
<1> USE DEF IInv, GetStarts
<1>0. c # Nobody
  BY RootCacheAssumption DEF RootCacheAssumption
<1>1. TypeOK'
  BY DEF TypeOK
<1>2. Counting'
  <2>1. \A h : Users(h)' = Users(h)
    BY UsersKept DEF TypeOK
  <2> QED  BY <2>1 DEF Counting
<1>3. Flags' /\ ListIsMap'
  BY DEF Flags, ListIsMap
<1>4. Walking'
  <2>1. at[c] = Root
    BY DEF Standing, TypeOK
  <2>2. CASE closed
    BY <1>0, <2>1, <2>2 DEF Walking, TypeOK
  <2>3. CASE ~closed
    <3>1. mu' = c /\ pc' = [pc EXCEPT ![c] = "descend"] /\ UNCHANGED <<at, entries, lru>>
      BY <2>3
    <3>2. \A d \in Clients : pc[d] \notin {"descend", "evict"}
      BY RootCacheAssumption DEF Walking, RootCacheAssumption
    <3> QED  BY <2>1, <3>1, <3>2 DEF Walking, TypeOK
  <2> QED  BY <2>2, <2>3
<1>5. Capacity'
  BY DEF Capacity, TypeOK
<1>6. Standing'
  BY DEF Standing, TypeOK
<1> QED  BY <1>1, <1>2, <1>3, <1>4, <1>5, <1>6

LEMMA HitInv ==
  ASSUME IInv, NEW c \in Clients, Hit(c)
  PROVE  IInv'
<1> USE DEF IInv
<1>1. PICK h \in Known(c) : lru' = MovedToFront(lru, h) /\ Arrives(c, h)
  BY DEF Hit
<1>2. h \in entries /\ h \in Handles /\ h \in opened /\ h # Root /\ name[h] = NextName(c)
  BY <1>1, RootCacheAssumption DEF Known, TypeOK, Flags, RootCacheAssumption
<1>3. /\ lru' \in Seq(Handles)
      /\ Len(lru') = Len(lru)
      /\ \A i \in 1..Len(lru') : \E j \in 1..Len(lru) : lru'[i] = lru[j]
      /\ \A j \in 1..Len(lru) : \E i \in 1..Len(lru') : lru'[i] = lru[j]
      /\ \A i, j \in 1..Len(lru') : lru'[i] = lru'[j] => i = j
  <2>1. /\ lru \in Seq(Handles)
        /\ \E i \in 1..Len(lru) : lru[i] = h
        /\ NoneTwice(lru)
    BY <1>2 DEF TypeOK, ListIsMap, NoneTwice
  <2>2. MovedToFront(lru, h) \in Seq(Handles) /\ Len(MovedToFront(lru, h)) = Len(lru)
    BY <1>2, <2>1, MovedFacts
  <2>3. SameMembers(MovedToFront(lru, h), lru)
    BY <1>2, <2>1, MovedFacts
  <2>4. NoneTwice(MovedToFront(lru, h))
    BY <1>2, <2>1, MovedFacts
  <2> QED  BY <1>1, <2>2, <2>3, <2>4 DEF NoneTwice, SameMembers
<1>4. Len(Dir[c]) \in Nat /\ depth[c] \in Nat /\ depth[c] + 1 <= Len(Dir[c])
  BY DirFacts DEF Hit, Descends, TypeOK
<1>5. TypeOK'
  BY <1>1, <1>2, <1>3, <1>4 DEF Hit, Arrives, TypeOK
<1>6. Counting'
  <2>1. \A g : Users(g)' = Users(g)
    BY <1>1, UsersKept DEF Hit, Descends, Arrives, TypeOK
  <2> QED  BY <2>1 DEF Counting, Hit
<1>7. Flags'
  BY DEF Flags, Hit
<1>8. ListIsMap'
  <2>1. entries' = entries
    BY DEF Hit
  <2>2. \A i \in 1..Len(lru') : lru'[i] \in entries'
    <3> TAKE i \in 1..Len(lru')
    <3>1. PICK j \in 1..Len(lru) : lru'[i] = lru[j]
      BY <1>3
    <3> QED  BY <2>1, <3>1 DEF ListIsMap
  <2>3. \A g \in entries' : \E i \in 1..Len(lru') : lru'[i] = g
    <3> TAKE g \in entries'
    <3>1. PICK j \in 1..Len(lru) : lru[j] = g
      BY <2>1 DEF ListIsMap
    <3>2. PICK i \in 1..Len(lru') : lru'[i] = lru[j]
      BY <1>3
    <3> QED  BY <3>1, <3>2
  <2> QED  BY <1>3, <2>2, <2>3 DEF ListIsMap
<1>9. Walking'
  BY <1>1, <1>2 DEF Walking, Hit, Descends, Arrives, TypeOK
<1>10. Capacity'
  BY DEF Capacity, Hit
<1>11. Standing'
  BY <1>1, <1>2, <1>4 DEF Standing, Hit, Descends, Arrives, NextName, TypeOK
<1> QED  BY <1>5, <1>6, <1>7, <1>8, <1>9, <1>10, <1>11

LEMMA MissInv ==
  ASSUME IInv, NEW c \in Clients, Miss(c)
  PROVE  IInv'
<1> USE DEF IInv
<1>1. PICK h \in Handles \ opened :
        /\ opened' = opened \cup {h}
        /\ name' = [name EXCEPT ![h] = NextName(c)]
        /\ entries' = entries \cup {h}
        /\ lru' = PushedFront(lru, h)
        /\ Arrives(c, h)
  BY DEF Miss
<1>2. /\ h \in Handles /\ h \notin opened /\ h # Root /\ h \notin entries /\ h \notin evicted
  BY <1>1, RootCacheAssumption DEF TypeOK, Flags, RootCacheAssumption
<1>3. /\ lru' \in Seq(Handles) /\ lru' # <<>>
      /\ Len(lru') = Len(lru) + 1
      /\ lru'[1] = h
      /\ \A i \in 1..Len(lru) : lru'[i + 1] = lru[i]
      /\ \A i \in 1..Len(lru') : i = 1 \/ (i - 1 \in 1..Len(lru) /\ lru'[i] = lru[i - 1])
  <2>1. lru \in Seq(Handles)
    BY DEF TypeOK
  <2>2. PushedFront(lru, h) \in Seq(Handles) /\ PushedFront(lru, h) # <<>>
    BY <1>2, <2>1, PushedFacts
  <2>3. Len(PushedFront(lru, h)) = Len(lru) + 1 /\ PushedFront(lru, h)[1] = h
    BY <1>2, <2>1, PushedFacts
  <2>4. \A i \in 1..Len(lru) : PushedFront(lru, h)[i + 1] = lru[i]
    BY <1>2, <2>1, PushedFacts
  <2>5. \A i \in 1..Len(PushedFront(lru, h)) :
          i = 1 \/ (i - 1 \in 1..Len(lru) /\ PushedFront(lru, h)[i] = lru[i - 1])
    BY <1>2, <2>1, PushedFacts
  <2> QED  BY <1>1, <2>2, <2>3, <2>4, <2>5
<1>l. Len(lru) \in Nat
  BY LenProperties DEF TypeOK
<1>4. Len(Dir[c]) \in Nat /\ depth[c] \in Nat /\ depth[c] + 1 <= Len(Dir[c]) /\ Dir[c] \in Seq(Nat)
  BY DirFacts DEF Miss, Descends, TypeOK
<1>n. NextName(c) \in Seq(Nat)
  <2>1. \A i \in 1..(depth[c] + 1) : Dir[c][i] \in Nat
    BY <1>4, ElementOfSeq
  <2>2. SubSeq(Dir[c], 1, depth[c] + 1) \in Seq(Nat)
    BY <1>4, <2>1, SubSeqProperties
  <2> QED  BY <2>2 DEF NextName
<1>5. TypeOK'
  <2>1. name' \in [Handles -> Seq(Nat)]
    BY <1>1, <1>2, <1>n DEF TypeOK
  <2>2. at' \in [Clients -> Handles \cup {Root}] /\ depth' \in [Clients -> Nat]
    BY <1>1, <1>2, <1>4 DEF Arrives, TypeOK
  <2>3. \A d \in Clients : depth'[d] <= Len(Dir[d])
    BY <1>1, <1>4 DEF Arrives, TypeOK
  <2>4. pc' \in [Clients -> {"idle", "descend", "evict", "use", "done", "failed"}]
    BY DEF Miss, TypeOK
  <2>5. entries' \subseteq Handles /\ opened' \subseteq Handles
    BY <1>1, <1>2 DEF TypeOK
  <2> QED  BY <1>3, <2>1, <2>2, <2>3, <2>4, <2>5 DEF Miss, TypeOK
<1>6. Counting'
  <2>1. \A g : Users(g)' = Users(g)
    BY <1>1, UsersKept DEF Miss, Descends, Arrives, TypeOK
  <2> QED  BY <2>1 DEF Counting, Miss
<1>7. Flags'
  BY <1>1, <1>2 DEF Flags, Miss
<1>8. ListIsMap'
  <2>1. \A i \in 1..Len(lru') : lru'[i] \in entries'
    BY <1>1, <1>3 DEF ListIsMap
  <2>2. \A g \in entries' : \E i \in 1..Len(lru') : lru'[i] = g
    <3> TAKE g \in entries'
    <3>1. CASE g = h
      BY <1>3, <1>l, <3>1
    <3>2. CASE g # h
      <4>1. PICK i \in 1..Len(lru) : lru[i] = g
        BY <1>1, <3>2 DEF ListIsMap
      <4>2. i + 1 \in 1..Len(lru') /\ lru'[i + 1] = g
        BY <1>3, <1>l, <4>1
      <4> QED  BY <4>2
    <3> QED  BY <3>1, <3>2
  <2>3. \A i, j \in 1..Len(lru') : lru'[i] = lru'[j] => i = j
    <3> TAKE i, j \in 1..Len(lru')
    <3> HAVE lru'[i] = lru'[j]
    <3>1. \A k \in 1..Len(lru) : lru[k] # h
      BY <1>2 DEF ListIsMap
    <3>2. CASE i = 1 /\ j = 1
      BY <3>2
    <3>3. CASE i = 1 /\ j # 1
      BY <1>3, <3>1, <3>3
    <3>4. CASE i # 1 /\ j = 1
      BY <1>3, <3>1, <3>4
    <3>5. CASE i # 1 /\ j # 1
      <4>1. i - 1 = j - 1
        BY <1>3, <3>5 DEF ListIsMap
      <4> QED  BY <1>3, <1>l, <4>1
    <3> QED  BY <3>2, <3>3, <3>4, <3>5
  <2> QED  BY <2>1, <2>2, <2>3 DEF ListIsMap
<1>w. /\ pc[c] = "descend" /\ mu = c /\ mu' = c
      /\ pc' = [pc EXCEPT ![c] = "evict"]
      /\ at' = [at EXCEPT ![c] = h] /\ depth' = [depth EXCEPT ![c] = depth[c] + 1]
      /\ pc'[c] = "evict" /\ at'[c] = h /\ depth'[c] = depth[c] + 1
      /\ \A d \in Clients \ {c} : pc'[d] = pc[d] /\ at'[d] = at[d] /\ depth'[d] = depth[d]
  BY <1>1 DEF Miss, Descends, Arrives, TypeOK
<1>9. Walking'
  <2> SUFFICES ASSUME NEW d \in Clients
               PROVE  /\ pc'[d] \in {"descend", "evict"} <=> mu' = d
                      /\ mu' = d => at'[d] = Root \/ at'[d] \in entries'
                      /\ pc'[d] = "evict" => lru' # <<>> /\ lru'[1] = at'[d]
    BY DEF Walking
  <2>1. CASE d = c
    BY <1>1, <1>3, <1>w, <2>1
  <2>2. CASE d # c
    BY <1>w, <2>2 DEF Walking
  <2> QED  BY <2>1, <2>2
<1>10. Capacity'
  <2>1. pc'[c] = "evict"
    BY DEF Miss, TypeOK
  <2> QED  BY <1>1, <2>1, FS_AddElement DEF Capacity
<1>11. Standing'
  <2> SUFFICES ASSUME NEW d \in Clients
               PROVE  /\ pc'[d] = "idle" => at'[d] = Root
                      /\ at'[d] = Root => depth'[d] = 0
                      /\ at'[d] # Root => /\ at'[d] \in opened'
                                          /\ name'[at'[d]] = SubSeq(Dir[d], 1, depth'[d])
                      /\ pc'[d] = "use" => depth'[d] = Len(Dir[d])
    BY DEF Standing
  <2>1. name'[h] = SubSeq(Dir[c], 1, depth[c] + 1) /\ \A g \in opened : name'[g] = name[g]
    BY <1>1, <1>2 DEF NextName, TypeOK
  <2>2. CASE d = c
    BY <1>1, <1>2, <1>w, <2>1, <2>2
  <2>3. CASE d # c
    BY <1>1, <1>w, <2>1, <2>3 DEF Standing
  <2> QED  BY <2>2, <2>3
<1> QED  BY <1>5, <1>6, <1>7, <1>8, <1>9, <1>10, <1>11

LEMMA MissFailsInv ==
  ASSUME IInv, NEW c \in Clients, MissFails(c)
  PROVE  IInv'
<1> USE DEF IInv, MissFails
<1>0. /\ pc[c] = "descend" /\ mu = c /\ c # Nobody
  BY RootCacheAssumption DEF Descends, RootCacheAssumption
<1>1. TypeOK'
  BY DEF TypeOK
<1>2. Counting'
  <2>1. \A h : Users(h)' = Users(h)
    BY <1>0, UsersKept DEF TypeOK
  <2> QED  BY <2>1 DEF Counting
<1>3. Flags' /\ ListIsMap'
  BY DEF Flags, ListIsMap
<1>4. Walking'
  BY <1>0, RootCacheAssumption DEF Walking, TypeOK, RootCacheAssumption
<1>5. Capacity'
  BY <1>0 DEF Capacity, Walking, TypeOK
<1>6. Standing'
  BY <1>0 DEF Standing, TypeOK
<1> QED  BY <1>1, <1>2, <1>3, <1>4, <1>5, <1>6

(* Evicting: the victim is not where the client stands, as the map holds   *)
(* more than one entry and the client's is the first of the list.          *)
LEMMA VictimIsAnother ==
  ASSUME IInv, NEW c \in Clients, Evict(c)
  PROVE  /\ Len(lru) \in Nat /\ Len(lru) > 1
         /\ lru[1] = at[c]
         /\ lru[Len(lru)] # at[c]
         /\ lru[Len(lru)] \in entries
<1> USE DEF IInv
<1>1. lru # <<>> /\ lru[1] = at[c] /\ Len(lru) \in Nat \ {0}
  BY WithoutBackFacts DEF Evict, Walking, TypeOK
<1>2. Len(lru) # 1
  <2> SUFFICES ASSUME Len(lru) = 1 PROVE FALSE
    OBVIOUS
  <2>1. entries = {lru[1]}
    BY DEF ListIsMap
  <2>2. Cardinality(entries) = 1
    BY <2>1, FS_Singleton
  <2> QED  BY <2>2, RootCacheAssumption DEF Evict, Over, RootCacheAssumption
<1>3. Len(lru) > 1 /\ 1 \in 1..Len(lru) /\ Len(lru) \in 1..Len(lru)
  <2>1. \A n \in Nat \ {0} : n # 1 => n > 1 /\ 1 \in 1..n /\ n \in 1..n
    OBVIOUS
  <2> QED  BY <1>1, <1>2, <2>1
<1>4. lru[Len(lru)] # lru[1] /\ lru[Len(lru)] \in entries
  BY <1>2, <1>3 DEF ListIsMap
<1> QED  BY <1>1, <1>3, <1>4

LEMMA EvictInv ==
  ASSUME IInv, NEW c \in Clients, Evict(c)
  PROVE  IInv'
<1> USE DEF IInv
<1> DEFINE v == lru[Len(lru)]
<1>1. /\ Len(lru) \in Nat /\ Len(lru) > 1
      /\ lru[1] = at[c]
      /\ v # at[c] /\ v \in entries
  BY VictimIsAnother
<1>2. v \in Handles /\ v \notin evicted /\ v \in opened /\ closes[v] = 0
  BY <1>1 DEF TypeOK, Flags
<1>3. /\ lru' = WithoutBack(lru)
      /\ evicted' = evicted \cup {v}
      /\ entries' = entries \ {v}
      /\ closes' = CloseOf(Unleased(v))
      /\ UNCHANGED <<mu, closed, name, refs, opened, pc, at, depth>>
      /\ mu = c /\ pc[c] = "evict"
  BY DEF Evict, clientVars
<1>4. /\ lru' \in Seq(Handles)
      /\ Len(lru') = Len(lru) - 1
      /\ \A i \in 1..(Len(lru) - 1) : lru'[i] = lru[i]
  <2>1. lru \in Seq(Handles) /\ lru # <<>>
    BY DEF TypeOK, Evict
  <2>2. /\ WithoutBack(lru) \in Seq(Handles)
        /\ Len(WithoutBack(lru)) = Len(lru) - 1
        /\ \A i \in 1..(Len(lru) - 1) : WithoutBack(lru)[i] = lru[i]
    BY <2>1, WithoutBackFacts
  <2> QED  BY <1>3, <2>2
<1> HIDE DEF v
<1>5. /\ closes' \in [Handles -> Nat]
      /\ closes'[v] = IF refs[v] = 0 THEN 1 ELSE 0
      /\ \A h \in Handles \ {v} : closes'[h] = closes[h]
  BY <1>2, <1>3 DEF CloseOf, Unleased, TypeOK
<1>6. TypeOK'
  BY <1>2, <1>3, <1>4, <1>5 DEF TypeOK
<1>7. Counting'
  <2>1. \A h : Users(h)' = Users(h)
    BY <1>3 DEF Users
  <2> QED  BY <1>3, <2>1 DEF Counting
<1>8. Flags'
  <2>1. /\ entries' \subseteq opened' /\ entries' \cap evicted' = {}
        /\ opened' \subseteq entries' \cup evicted' /\ evicted' \subseteq opened'
    BY <1>2, <1>3 DEF Flags
  <2>2. \A h \in Handles : closes'[h] = IF h \in evicted' /\ refs'[h] = 0 THEN 1 ELSE 0
    BY <1>2, <1>3, <1>5 DEF Flags
  <2> QED  BY <2>1, <2>2 DEF Flags
<1>9. ListIsMap'
  <2>1. \A i \in 1..Len(lru') : i \in 1..Len(lru) /\ i # Len(lru) /\ lru'[i] = lru[i]
    BY <1>1, <1>4
  <2>2. v = lru[Len(lru)] /\ Len(lru) \in 1..Len(lru)
    BY <1>1 DEF v
  <2>3. \A i \in 1..Len(lru') : lru'[i] \in entries'
    <3> TAKE i \in 1..Len(lru')
    <3>1. lru[i] \in entries /\ lru[i] # v
      BY <2>1, <2>2 DEF ListIsMap
    <3> QED  BY <1>3, <2>1, <3>1
  <2>4. \A h \in entries' : \E i \in 1..Len(lru') : lru'[i] = h
    <3> TAKE h \in entries'
    <3>1. PICK i \in 1..Len(lru) : lru[i] = h
      BY <1>3 DEF ListIsMap
    <3>2. i # Len(lru)
      BY <1>3, <2>2, <3>1
    <3>3. i \in 1..Len(lru')
      BY <1>1, <1>4, <3>2
    <3> QED  BY <2>1, <3>1, <3>3
  <2>5. \A i, j \in 1..Len(lru') : lru'[i] = lru'[j] => i = j
    BY <2>1 DEF ListIsMap
  <2> QED  BY <2>3, <2>4, <2>5 DEF ListIsMap
<1>10. Walking'
  <2>1. lru'[1] = at[c] /\ lru' # <<>>
    BY <1>1, <1>4, EmptySeq
  <2>2. at[c] \in entries'
    BY <1>1, <1>3 DEF ListIsMap
  <2> QED  BY <1>3, <2>1, <2>2 DEF Walking
<1>11. Capacity'
  BY <1>3, FS_RemoveElement DEF Capacity
<1>12. Standing'
  BY <1>3 DEF Standing
<1> QED  BY <1>6, <1>7, <1>8, <1>9, <1>10, <1>11, <1>12

LEMMA EvictedInv ==
  ASSUME IInv, NEW c \in Clients, Evicted(c)
  PROVE  IInv'
<1> USE DEF IInv, Evicted, cacheVars
<1>1. TypeOK'
  BY DEF TypeOK
<1>2. Counting'
  <2>1. \A h : Users(h)' = Users(h)
    BY UsersKept DEF TypeOK
  <2> QED  BY <2>1 DEF Counting
<1>3. Flags' /\ ListIsMap'
  BY DEF Flags, ListIsMap
<1>4. Walking'
  BY DEF Walking, TypeOK
<1>5. Capacity'
  <2>1. ~Over
    BY DEF Walking
  <2>2. Cardinality(entries) <= MaxSize
    BY <2>1, FS_CardinalityType, RootCacheAssumption DEF Over, Capacity, RootCacheAssumption
  <2> QED  BY <2>2 DEF Capacity
<1>6. Standing'
  BY DEF Standing, TypeOK
<1> QED  BY <1>1, <1>2, <1>3, <1>4, <1>5, <1>6

LEMMA GetEndsInv ==
  ASSUME IInv, NEW c \in Clients, GetEnds(c)
  PROVE  IInv'
<1> USE DEF IInv, GetEnds
<1>g. PICK g : g = at[c]
  OBVIOUS
<1>0. /\ g \in Handles \cup {Root} /\ refs[g] \in Nat
      /\ g = Root \/ g \in entries
      /\ c # Nobody
  BY <1>g, RootCacheAssumption DEF TypeOK, Walking, RootCacheAssumption
<1>1. TypeOK'
  BY <1>g, <1>0 DEF TypeOK
<1>2. Counting'
  <2>1. Users(g)' = Users(g) \cup {c} /\ c \notin Users(g)
    BY <1>g DEF Users, TypeOK
  <2>2. \A h : h # g => Users(h)' = Users(h)
    BY <1>g DEF Users, TypeOK
  <2>3. Cardinality(Users(g) \cup {c}) = Cardinality(Users(g)) + 1
    BY <2>1, UsersFinite, FS_AddElement
  <2>4. \A h \in Handles \cup {Root} : refs'[h] = IF h = g THEN refs[h] + 1 ELSE refs[h]
    BY <1>g, <1>0 DEF TypeOK
  <2>5. \A h \in Handles \cup {Root} : refs'[h] = Cardinality(Users(h)')
    <3> TAKE h \in Handles \cup {Root}
    <3>1. CASE h = g
      BY <2>1, <2>3, <2>4, <3>1 DEF Counting
    <3>2. CASE h # g
      BY <2>2, <2>4, <3>2 DEF Counting
    <3> QED  BY <3>1, <3>2
  <2> QED  BY <2>5 DEF Counting
<1>3. Flags'
  <2>1. \A h \in Handles : h \in evicted => refs'[h] = refs[h]
    BY <1>g, <1>0, RootCacheAssumption DEF Flags, TypeOK, RootCacheAssumption
  <2> QED  BY <2>1 DEF Flags
<1>4. ListIsMap'
  BY DEF ListIsMap
<1>5. Walking'
  BY <1>g, <1>0, RootCacheAssumption DEF Walking, TypeOK, RootCacheAssumption
<1>6. Capacity'
  BY DEF Capacity, Walking, TypeOK
<1>7. Standing'
  BY DEF Standing, TypeOK
<1> QED  BY <1>1, <1>2, <1>3, <1>4, <1>5, <1>6, <1>7

LEMMA ReleaseInv ==
  ASSUME IInv, NEW c \in Clients, Release(c)
  PROVE  IInv'
<1> USE DEF IInv, Release
<1>g. PICK g : g = at[c]
  OBVIOUS
<1>0. g \in Handles \cup {Root} /\ c \in Users(g)
  BY <1>g DEF TypeOK, Users
<1>1. /\ Users(g)' = Users(g) \ {c}
      /\ \A h : h # g => Users(h)' = Users(h)
  BY <1>g DEF Users, TypeOK
<1>2. /\ Cardinality(Users(g) \ {c}) = Cardinality(Users(g)) - 1
      /\ Cardinality(Users(g) \ {c}) \in Nat
  BY <1>0, UsersFinite, FS_RemoveElement, FS_CardinalityType
<1>3. refs[g] \in Nat /\ refs[g] = Cardinality(Users(g)) /\ refs[g] - 1 \in Nat
  BY <1>0, <1>2, UsersFinite DEF Counting
<1>4. /\ refs' = [refs EXCEPT ![g] = refs[g] - 1]
      /\ closes' = IF g # Root /\ ClosedByRelease(g) THEN CloseOf({g}) ELSE closes
      /\ pc' = [pc EXCEPT ![c] = "done"]
      /\ UNCHANGED <<mu, closed, entries, lru, name, evicted, opened, at, depth>>
  BY <1>g
<1>5. \A h \in Handles \cup {Root} : refs'[h] = IF h = g THEN refs[h] - 1 ELSE refs[h]
  BY <1>0, <1>4 DEF TypeOK
<1>6. /\ closes' \in [Handles -> Nat]
      /\ \A h \in Handles :
           closes'[h] = IF h = g /\ refs[h] = 1 /\ h \in evicted THEN closes[h] + 1 ELSE closes[h]
  BY <1>0, <1>4, RootCacheAssumption DEF CloseOf, ClosedByRelease, TypeOK, RootCacheAssumption
<1>7. TypeOK'
  <2>1. refs' \in [Handles \cup {Root} -> Nat]
    BY <1>0, <1>3, <1>4 DEF TypeOK
  <2>2. pc' \in [Clients -> {"idle", "descend", "evict", "use", "done", "failed"}]
    BY <1>4 DEF TypeOK
  <2> QED  BY <1>4, <1>6, <2>1, <2>2 DEF TypeOK
<1>8. Counting'
  <2>1. \A h \in Handles \cup {Root} : refs'[h] = Cardinality(Users(h)')
    <3> TAKE h \in Handles \cup {Root}
    <3>1. CASE h = g
      BY <1>1, <1>2, <1>3, <1>5, <3>1
    <3>2. CASE h # g
      BY <1>1, <1>5, <3>2 DEF Counting
    <3> QED  BY <3>1, <3>2
  <2> QED  BY <2>1 DEF Counting
<1>9. Flags'
  <2>1. \A h \in Handles : closes'[h] = IF h \in evicted' /\ refs'[h] = 0 THEN 1 ELSE 0
    <3> TAKE h \in Handles
    <3>1. CASE h = g
      <4>1. refs'[h] = refs[h] - 1 /\ refs[h] \in Nat \ {0} /\ closes[h] = 0
        BY <1>3, <1>5, <3>1 DEF Flags
      <4>2. closes'[h] = IF refs[h] = 1 /\ h \in evicted THEN 1 ELSE 0
        <5>1. closes'[h] = IF refs[h] = 1 /\ h \in evicted THEN closes[h] + 1 ELSE closes[h]
          BY <1>6, <3>1
        <5> QED  BY <4>1, <5>1
      <4> QED  BY <1>4, <4>1, <4>2
    <3>2. CASE h # g
      BY <1>4, <1>5, <1>6, <3>2 DEF Flags
    <3> QED  BY <3>1, <3>2
  <2> QED  BY <1>4, <2>1 DEF Flags
<1>10. ListIsMap'
  BY <1>4 DEF ListIsMap
<1>11. Walking'
  BY <1>4 DEF Walking, TypeOK
<1>12. Capacity'
  BY <1>4 DEF Capacity, TypeOK
<1>13. Standing'
  BY <1>4 DEF Standing, TypeOK
<1> QED  BY <1>7, <1>8, <1>9, <1>10, <1>11, <1>12, <1>13

LEMMA CloseInv ==
  ASSUME IInv, Close
  PROVE  IInv'
<1> USE DEF IInv, Close, clientVars
<1>1. TypeOK'
  BY EmptySeq DEF TypeOK, CloseOf, Idle
<1>2. Counting'
  <2>1. \A h : Users(h)' = Users(h)
    BY DEF Users
  <2> QED  BY <2>1 DEF Counting
<1>3. Flags'
  <2>1. \A h \in Handles : closes'[h] = IF h \in evicted' /\ refs'[h] = 0 THEN 1 ELSE 0
    BY DEF Flags, CloseOf, Idle, TypeOK
  <2> QED  BY <2>1 DEF Flags
<1>4. ListIsMap'
  BY EmptySeq DEF ListIsMap
<1>5. Walking'
  BY RootCacheAssumption DEF Walking, RootCacheAssumption
<1>6. Capacity'
  BY FS_EmptySet, RootCacheAssumption DEF Capacity, RootCacheAssumption
<1>7. Standing'
  BY DEF Standing
<1> QED  BY <1>1, <1>2, <1>3, <1>4, <1>5, <1>6, <1>7

LEMMA StutterInv ==
  ASSUME IInv, UNCHANGED vars
  PROVE  IInv'
<1>1. \A h : Users(h)' = Users(h)
  BY DEF Users, vars, clientVars
<1> QED
  BY <1>1 DEF IInv, TypeOK, Counting, Flags, ListIsMap, Walking, Capacity, Standing,
              vars, cacheVars, clientVars

-----------------------------------------------------------------------------
LEMMA StepInv == IInv /\ [Next]_vars => IInv'
<1> SUFFICES ASSUME IInv, [Next]_vars PROVE IInv'
  OBVIOUS
<1>1. CASE Close
  BY <1>1, CloseInv
<1>2. ASSUME NEW c \in Clients, Client(c) PROVE IInv'
  BY <1>2, GetStartsInv, HitInv, MissInv, MissFailsInv, EvictInv, EvictedInv, GetEndsInv,
     ReleaseInv DEF Client
<1>3. CASE UNCHANGED vars
  BY <1>3, StutterInv
<1> QED  BY <1>1, <1>2, <1>3 DEF Next

(* The inductive invariant holds of every state.                           *)
THEOREM Inductive == Spec => []IInv
  BY InitInv, StepInv, PTL DEF Spec

(* The state is what the declarations of rootcache.go:16-36 say.           *)
THEOREM TypeCorrect == Spec => []TypeOK
<1>1. IInv => TypeOK
  BY DEF IInv
<1> QED  BY <1>1, Inductive, PTL

(* A leased directory is open until its lease is released: an eviction     *)
(* (rootcache.go:163-178) and Close (rootcache.go:79-102) leave it to      *)
(* Release.  It is refs that count the users, and a user's entry is never  *)
(* closed while it counts one.                                             *)
THEOREM LeaseOpenHolds == Spec => []LeaseOpen
<1>1. IInv => LeaseOpen
  <2> SUFFICES ASSUME IInv, NEW c \in Clients, pc[c] = "use", at[c] # Root
               PROVE  at[c] \in opened /\ closes[at[c]] = 0
    BY DEF LeaseOpen, IsOpen
  <2>1. at[c] \in Handles /\ at[c] \in opened
    BY DEF IInv, TypeOK, Standing
  <2>2. Users(at[c]) # {}
    BY DEF Users
  <2>3. refs[at[c]] # 0
    BY <2>1, <2>2, UsersFinite, FS_EmptySet DEF IInv, Counting
  <2> QED  BY <2>1, <2>3 DEF IInv, Flags
<1> QED  BY <1>1, Inductive, PTL

(* getDirLocked always opens the next component from an open directory     *)
(* (rootcache.go:139): what it stands on is in the map, and the eviction   *)
(* after an open takes another entry.                                      *)
THEOREM ChainOpenHolds == Spec => []ChainOpen
<1>1. IInv => ChainOpen
  <2> SUFFICES ASSUME IInv, NEW c \in Clients, mu = c, at[c] # Root
               PROVE  at[c] \in opened /\ closes[at[c]] = 0
    BY DEF ChainOpen, IsOpen, IInv, Walking
  <2>1. at[c] \in entries /\ at[c] \in Handles
    BY DEF IInv, Walking, TypeOK
  <2> QED  BY <2>1 DEF IInv, Flags
<1> QED  BY <1>1, Inductive, PTL

(* No descriptor is closed twice, by an eviction, by Close and by Release  *)
(* (rootcache.go:95-113, 173-176).                                         *)
THEOREM ClosedOnceHolds == Spec => []ClosedOnce
<1>1. IInv => ClosedOnce
  BY DEF IInv, Flags, ClosedOnce
<1> QED  BY <1>1, Inductive, PTL

(* What is open is in the map or leased: nothing leaks, and once the cache *)
(* is closed and all leases are back nothing is open.                      *)
THEOREM NoLeakHolds == Spec => []NoLeak
<1>1. IInv => NoLeak
  <2> SUFFICES ASSUME IInv, NEW h \in opened, closes[h] = 0, h \notin entries
               PROVE  Users(h) # {}
    BY DEF NoLeak
  <2>1. h \in Handles /\ h \in evicted /\ refs[h] # 0
    BY DEF IInv, TypeOK, Flags
  <2>2. Cardinality(Users(h)) # 0
    BY <2>1 DEF IInv, Counting
  <2> QED  BY <2>2, FS_EmptySet
<1> QED  BY <1>1, Inductive, PTL

(* What goroutines use is open, on a lease and on the way to one.          *)
THEOREM InUseOpenHolds == Spec => []InUseOpen
<1>1. LeaseOpen /\ ChainOpen => InUseOpen
  BY DEF InUseOpen
<1> QED  BY <1>1, LeaseOpenHolds, ChainOpenHolds, PTL

(* What was opened is closed once, and is not left open (rootcache.go:     *)
(* 79-116, 163-178).                                                       *)
THEOREM ClosedExactlyHolds == Spec => []ClosedExactly
<1>1. ClosedOnce /\ NoLeak => ClosedExactly
  BY DEF ClosedExactly
<1> QED  BY <1>1, ClosedOnceHolds, NoLeakHolds, PTL

(* With the lock free the cache is within its capacity (rootcache.go:164). *)
THEOREM BoundedHolds == Spec => []Bounded
<1>1. IInv => Bounded
  BY RootCacheAssumption DEF IInv, Bounded, Walking, Capacity, RootCacheAssumption
<1> QED  BY <1>1, Inductive, PTL

(* A lease is on the directory asked for: the components of the path, one  *)
(* by one, are the whole path at its end (rootcache.go:118-155).           *)
THEOREM LeaseIsDirHolds == Spec => []LeaseIsDir
<1>1. IInv => LeaseIsDir
  <2> SUFFICES ASSUME IInv, NEW c \in Clients, pc[c] = "use"
               PROVE  IF at[c] = Root THEN Dir[c] = <<>> ELSE name[at[c]] = Dir[c]
    BY DEF LeaseIsDir
  <2>1. Dir[c] \in Seq(Nat) /\ depth[c] = Len(Dir[c])
    BY DirFacts DEF IInv, Standing
  <2>2. CASE at[c] = Root
    BY <2>1, <2>2, EmptySeq DEF IInv, Standing
  <2>3. CASE at[c] # Root
    BY <2>1, <2>3, SubSeqFull DEF IInv, Standing
  <2> QED  BY <2>2, <2>3
<1> QED  BY <1>1, Inductive, PTL
=============================================================================
