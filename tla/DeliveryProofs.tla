--------------------------- MODULE DeliveryProofs ---------------------------
(***************************************************************************)
(* Why every content arrives in a Transfer, once and in order: a file is   *)
(* asked for once, and what it asks for is at any moment in one place      *)
(* between the goroutine that asks and the end of file that answers it.    *)
(* From this follow the order of the contents, that neither side finds the *)
(* other out of protocol, that a file whose size is right is complete, and *)
(* that FIN finds nothing under way.                                       *)
(***************************************************************************)
EXTENDS TransferProofs

(* The packets about p, on each side.                                      *)
IsReq(m, p)   == m.type = "REQ" /\ m.id = p - 1
IsData(m, p)  == m.type = "DATA" /\ m.id = p - 1
IsChunk(m, p) == IsData(m, p) /\ m.data # Eof
IsEof(m, p)   == IsData(m, p) /\ m.data = Eof

(* A worker that has the handle of p.                                      *)
Busy(w, p) == sWork[w].pc \in {"data", "eof"} /\ sWork[w].h.path = p

(* The stages in the life of a request for p.                              *)
Stages == {"unasked", "asked", "held", "queued", "served", "ended"}

At(p, s) ==
    \/ s = "unasked" /\ async[p].pc \in {"none", "start", "req"}
    \/ s = "asked"   /\ \E i \in 1..Len(toS) : IsReq(toS[i], p)
    \/ s = "held"    /\ sRecv = "queue" /\ sHandle.path = p
    \/ s = "queued"  /\ \E i \in 1..Len(sPipe) : sPipe[i].path = p
    \/ s = "served"  /\ \E w \in Workers : Busy(w, p)
    \/ s = "ended"   /\ (pipe[p] # "open" \/ \E i \in 1..Len(toR) : IsEof(toR[i], p))

-----------------------------------------------------------------------------
(* What is on its way to the diff, in one queue.  A file passes it once:   *)
(* the receiver counts it once, and only directories are replayed.         *)
Coming == c2 \o (walkQ \o rPend)

ToAsk(p) == rFiles[p] # NoId /\ async[p].pc = "none"

HandedOver ==
    /\ rRecv = "recv" => rPend = <<>>
    /\ \A i \in 1..Len(rParents) : ~fileCanRequestData(rParents[i])
    /\ \A i \in 1..Len(Coming) : fileCanRequestData(Coming[i]) => ToAsk(Coming[i])
    /\ \A i, j \in 1..Len(Coming) :
         i < j /\ fileCanRequestData(Coming[i]) /\ fileCanRequestData(Coming[j])
           => Coming[i] < Coming[j]

(* Who may still ask, and that the sender knows every id he may ask for.   *)
Tickets ==
    /\ \A p \in Entries : rFiles[p] # NoId =>
         p <= rI /\ sFiles[p - 1] = p /\ async[p].pc \in {"none", "start"}
    /\ \A p \in Entries : async[p].pc # "none" => p <= rI
    /\ \A p \in Entries : async[p].pc = "start" => rFiles[p] # NoId
    /\ \A p \in Entries : async[p].pc = "req" => sFiles[p - 1] = p /\ rPipes[p - 1] = p
    /\ \A p \in Entries : async[p].pc \in {"req", "wait"} => async[p].id = p - 1
    /\ \A i \in 1..Len(toR) :
         IsStat(toR[i]) /\ fileCanRequestData(toR[i].path) => sFiles[toR[i].path - 1] = toR[i].path
    /\ sWalk = "stat" /\ fileCanRequestData(sNext) => sFiles[sNext - 1] = sNext

(* A request is in one stage, and there in one place.                      *)
OneStage(p) == \A s, t \in Stages : At(p, s) /\ At(p, t) => s = t

OnePlace(p) ==
    /\ \A i, j \in 1..Len(toS) : IsReq(toS[i], p) /\ IsReq(toS[j], p) => i = j
    /\ \A i, j \in 1..Len(sPipe) : sPipe[i].path = p /\ sPipe[j].path = p => i = j
    /\ \A v, w \in Workers : Busy(v, p) /\ Busy(w, p) => v = w

(* Before the end the receiver knows where the content goes.               *)
Expected(p) ==
    /\ \A s \in {"asked", "held", "queued", "served"} : At(p, s) => rPipes[p - 1] = p
    /\ At(p, "asked") => sFiles[p - 1] = p

(* Data is under way only after the request reached a worker and before    *)
(* the end was seen, and nothing follows the end.                          *)
DataLate(p) ==
    /\ \A i \in 1..Len(toR) : IsData(toR[i], p) =>
         /\ \A s \in {"unasked", "asked", "held", "queued"} : ~At(p, s)
         /\ pipe[p] = "open" /\ rPipes[p - 1] = p
    /\ \A i, j \in 1..Len(toR) : i < j /\ IsEof(toR[i], p) => ~IsData(toR[j], p)

LifeOf(p) == OneStage(p) /\ OnePlace(p) /\ Expected(p) /\ DataLate(p)

(* Every id under way is that of an entry.                                 *)
InRange ==
    /\ \A i \in 1..Len(toR) : toR[i].type = "DATA" => toR[i].id + 1 \in Entries
    /\ \A i \in 1..Len(toS) : toS[i].type = "REQ" => toS[i].id + 1 \in Entries
    /\ sRecv = "queue" => sHandle.path \in Entries
    /\ \A i \in 1..Len(sPipe) : sPipe[i].path \in Entries
    /\ \A w \in Workers : sWork[w].pc \in {"data", "eof"} => sWork[w].h.path \in Entries

Life == InRange /\ \A p \in Entries : LifeOf(p)

LInv == GInv /\ HandedOver /\ Tickets /\ Life

-----------------------------------------------------------------------------
(* Entries and their ids, and queues.                                      *)
LEMMA EntryFacts ==
  ASSUME NEW p \in Entries
  PROVE  p \in Nat /\ p # NoPath /\ p <= N /\ p - 1 \in Ids /\ p - 1 \in Nat /\ (p - 1) + 1 = p
  BY NatFacts DEF Entries, Ids, NoPath

LEMMA FirstMoves ==
  ASSUME NEW S, NEW a \in Seq(S), NEW b \in Seq(S), b # <<>>
  PROVE  Append(a, Head(b)) \o Tail(b) = a \o b
<1>1. /\ Head(b) \in S /\ Head(b) = b[1] /\ Tail(b) \in Seq(S)
      /\ Len(b) \in Nat /\ Len(b) > 0 /\ Len(Tail(b)) = Len(b) - 1 /\ Len(a) \in Nat
      /\ \A i \in 1..Len(Tail(b)) : Tail(b)[i] = b[i + 1]
  BY TailFacts, LenProperties
<1> DEFINE c == Append(a, Head(b))
           l == c \o Tail(b)
           r == a \o b
<1>2. /\ c \in Seq(S) /\ Len(c) = Len(a) + 1
      /\ \A i \in 1..Len(a) : c[i] = a[i]
      /\ c[Len(a) + 1] = b[1]
  BY <1>1, AppendFacts
<1> HIDE DEF c
<1>3. /\ l \in Seq(S) /\ Len(l) = Len(c) + Len(Tail(b))
      /\ \A i \in 1..Len(c) + Len(Tail(b)) : l[i] = IF i <= Len(c) THEN c[i] ELSE Tail(b)[i - Len(c)]
  BY <1>1, <1>2, ConcatProperties
<1>4. /\ r \in Seq(S) /\ Len(r) = Len(a) + Len(b)
      /\ \A i \in 1..Len(a) + Len(b) : r[i] = IF i <= Len(a) THEN a[i] ELSE b[i - Len(a)]
  BY ConcatProperties
<1> HIDE DEF l, r
<1>5. Len(l) = Len(r)
  BY <1>1, <1>2, <1>3, <1>4
<1>6. \A i \in 1..Len(l) : l[i] = r[i]
  <2> SUFFICES ASSUME NEW i \in 1..Len(l) PROVE l[i] = r[i]
    OBVIOUS
  <2>1. CASE i <= Len(a)
    <3>1. /\ i \in 1..Len(a) /\ i <= Len(c)
          /\ i \in 1..Len(c) + Len(Tail(b)) /\ i \in 1..Len(a) + Len(b)
      BY <1>1, <1>2, <2>1
    <3>2. l[i] = c[i] /\ r[i] = a[i]
      BY <1>3, <1>4, <2>1, <3>1
    <3> QED  BY <1>2, <3>1, <3>2
  <2>2. CASE i = Len(a) + 1
    <3>1. l[i] = c[i] /\ r[i] = b[i - Len(a)] /\ i - Len(a) = 1
      BY <1>1, <1>2, <1>3, <1>4, <2>2
    <3> QED  BY <1>2, <2>2, <3>1
  <2>3. CASE i > Len(a) + 1
    <3>1. /\ l[i] = Tail(b)[i - Len(c)] /\ r[i] = b[i - Len(a)]
          /\ i - Len(c) \in 1..Len(Tail(b)) /\ (i - Len(c)) + 1 = i - Len(a)
      BY <1>1, <1>2, <1>3, <1>4, <2>3
    <3> QED  BY <1>1, <3>1
  <2>4. i \in Int /\ Len(a) \in Int
    BY <1>1
  <2> QED  BY <2>1, <2>2, <2>3, <2>4
<1>7. l = r
  BY <1>3, <1>4, <1>5, <1>6, SeqEqual
<1> QED  BY <1>7 DEF c, l, r

LEMMA FirstOfConcat ==
  ASSUME NEW S, NEW a \in Seq(S), NEW b \in Seq(S), a # <<>>
  PROVE  /\ a \o b \in Seq(S) /\ a \o b # <<>>
         /\ Head(a \o b) = Head(a) /\ Tail(a \o b) = Tail(a) \o b
<1>1. /\ Head(a) \in S /\ Head(a) = a[1] /\ Tail(a) \in Seq(S)
      /\ Len(a) \in Nat /\ Len(a) > 0 /\ Len(Tail(a)) = Len(a) - 1 /\ Len(b) \in Nat
      /\ \A i \in 1..Len(Tail(a)) : Tail(a)[i] = a[i + 1]
  BY TailFacts, LenProperties
<1> DEFINE c == a \o b
           r == Tail(a) \o b
<1>2. /\ c \in Seq(S) /\ Len(c) = Len(a) + Len(b)
      /\ \A i \in 1..Len(a) + Len(b) : c[i] = IF i <= Len(a) THEN a[i] ELSE b[i - Len(a)]
  BY ConcatProperties
<1>3. /\ r \in Seq(S) /\ Len(r) = Len(Tail(a)) + Len(b)
      /\ \A i \in 1..Len(Tail(a)) + Len(b) :
           r[i] = IF i <= Len(Tail(a)) THEN Tail(a)[i] ELSE b[i - Len(Tail(a))]
  BY <1>1, ConcatProperties
<1> HIDE DEF c, r
<1>4. c # <<>>
  BY <1>1, <1>2, EmptySeq
<1>5. /\ Head(c) = c[1] /\ Tail(c) \in Seq(S) /\ Len(Tail(c)) = Len(c) - 1
      /\ \A i \in 1..Len(Tail(c)) : Tail(c)[i] = c[i + 1]
  BY <1>2, <1>4, TailFacts
<1>6. c[1] = a[1]
  BY <1>1, <1>2
<1>7. Len(Tail(c)) = Len(r)
  BY <1>1, <1>2, <1>3, <1>5
<1>8. \A i \in 1..Len(r) : Tail(c)[i] = r[i]
  <2> SUFFICES ASSUME NEW i \in 1..Len(r) PROVE Tail(c)[i] = r[i]
    OBVIOUS
  <2>0. Tail(c)[i] = c[i + 1] /\ i + 1 \in 1..Len(c)
    BY <1>1, <1>2, <1>3, <1>5, <1>7
  <2>1. CASE i <= Len(Tail(a))
    <3>1. /\ i \in 1..Len(Tail(a)) /\ i + 1 <= Len(a)
          /\ i + 1 \in 1..Len(a) + Len(b) /\ i \in 1..Len(Tail(a)) + Len(b)
      BY <1>1, <1>2, <1>3, <2>1
    <3>2. c[i + 1] = a[i + 1] /\ r[i] = Tail(a)[i]
      BY <1>2, <1>3, <2>1, <3>1
    <3> QED  BY <1>1, <2>0, <3>1, <3>2
  <2>2. CASE i > Len(Tail(a))
    <3>1. ~(i + 1 <= Len(a)) /\ i + 1 \in 1..Len(a) + Len(b) /\ (i + 1) - Len(a) = i - Len(Tail(a))
      BY <1>1, <1>2, <1>3, <2>2
    <3> QED  BY <1>1, <1>2, <1>3, <2>0, <2>2, <3>1
  <2>3. i <= Len(Tail(a)) \/ i > Len(Tail(a))
    BY <1>1
  <2> QED  BY <2>1, <2>2, <2>3
<1>9. Tail(c) = r
  BY <1>3, <1>5, <1>7, <1>8, SeqEqual
<1> QED  BY <1>1, <1>2, <1>4, <1>5, <1>6, <1>9 DEF c, r

-----------------------------------------------------------------------------
(* Steps that take packets away, or add some of no concern: DATA and STAT  *)
(* packets to the receiver, REQ packets to the sender.                     *)
DLess ==
    \E d \in Nat : \A i \in 1..Len(toR') :
      toR'[i].type = "DATA" => i + d \in 1..Len(toR) /\ toR'[i] = toR[i + d]

TLess ==
    \E d \in Nat : \A i \in 1..Len(toR') :
      IsStat(toR'[i]) => i + d \in 1..Len(toR) /\ toR'[i] = toR[i + d]

SLess ==
    \E d \in Nat : \A i \in 1..Len(toS') :
      toS'[i].type = "REQ" => i + d \in 1..Len(toS) /\ toS'[i] = toS[i + d]

LEMMA LessFacts ==
  ASSUME WireTypeOK
  PROVE  /\ toR' = toR => DLess /\ TLess
         /\ \A t : ReceiverGets(t) => DLess /\ TLess
         /\ \A m \in Packets : SendToReceiver(m) =>
              (m.type # "DATA" => DLess) /\ (~IsStat(m) => TLess)
<1>0. toR \in Seq(Packets) /\ Len(toR) \in Nat
  BY LenProperties DEF WireTypeOK
<1>1. ASSUME toR' = toR PROVE DLess /\ TLess
  <2>1. \A i \in 1..Len(toR') : i + 0 \in 1..Len(toR) /\ toR'[i] = toR[i + 0]
    BY <1>0, <1>1
  <2> QED  BY <2>1 DEF DLess, TLess
<1>2. ASSUME NEW t, ReceiverGets(t) PROVE DLess /\ TLess
  <2>1. /\ Len(toR') = Len(toR) - 1
        /\ \A i \in 1..Len(toR') : toR'[i] = toR[i + 1]
    BY <1>0, <1>2, TailFacts DEF ReceiverGets
  <2>2. \A i \in 1..Len(toR') : i + 1 \in 1..Len(toR) /\ toR'[i] = toR[i + 1]
    BY <1>0, <2>1
  <2> QED  BY <2>2 DEF DLess, TLess
<1>3. ASSUME NEW m \in Packets, SendToReceiver(m)
      PROVE  (m.type # "DATA" => DLess) /\ (~IsStat(m) => TLess)
  <2>1. toR' = Append(toR, m)
    BY <1>3 DEF SendToReceiver
  <2>2. /\ Len(toR') = Len(toR) + 1
        /\ \A i \in 1..Len(toR) : toR'[i] = toR[i]
        /\ toR'[Len(toR) + 1] = m
    BY <1>0, <2>1, AppendFacts
  <2>3. \A i \in 1..Len(toR') : (i + 0 = i) /\ (i \in 1..Len(toR) \/ i = Len(toR) + 1)
    BY <1>0, <2>2
  <2>4. m.type # "DATA" => DLess
    BY <2>2, <2>3 DEF DLess
  <2>5. ~IsStat(m) => TLess
    BY <2>2, <2>3 DEF TLess
  <2> QED  BY <2>4, <2>5
<1> QED  BY <1>1, <1>2, <1>3

LEMMA SLessFacts ==
  ASSUME WireTypeOK
  PROVE  /\ toS' = toS => SLess
         /\ \A t : SenderGets(t) => SLess
         /\ \A m \in Packets : m.type # "REQ" /\ SendToSender(m) => SLess
<1>0. toS \in Seq(Packets) /\ Len(toS) \in Nat
  BY LenProperties DEF WireTypeOK
<1>1. toS' = toS => SLess
  <2> SUFFICES ASSUME toS' = toS PROVE SLess
    OBVIOUS
  <2>1. \A i \in 1..Len(toS') : i + 0 \in 1..Len(toS) /\ toS'[i] = toS[i + 0]
    BY <1>0
  <2> QED  BY <2>1 DEF SLess
<1>2. ASSUME NEW t, SenderGets(t) PROVE SLess
  <2>1. /\ Len(toS') = Len(toS) - 1
        /\ \A i \in 1..Len(toS') : toS'[i] = toS[i + 1]
    BY <1>0, <1>2, TailFacts DEF SenderGets
  <2>2. \A i \in 1..Len(toS') : i + 1 \in 1..Len(toS) /\ toS'[i] = toS[i + 1]
    BY <1>0, <2>1
  <2> QED  BY <2>2 DEF SLess
<1>3. ASSUME NEW m \in Packets, m.type # "REQ", SendToSender(m) PROVE SLess
  <2>1. toS' = Append(toS, m)
    BY <1>3 DEF SendToSender
  <2>2. /\ Len(toS') = Len(toS) + 1
        /\ \A i \in 1..Len(toS) : toS'[i] = toS[i]
        /\ toS'[Len(toS) + 1] = m
    BY <1>0, <2>1, AppendFacts
  <2>3. \A i \in 1..Len(toS') : (i + 0 = i) /\ (i \in 1..Len(toS) \/ i = Len(toS) + 1)
    BY <1>0, <2>2
  <2>4. \A i \in 1..Len(toS') : toS'[i].type = "REQ" =>
          i + 0 \in 1..Len(toS) /\ toS'[i] = toS[i + 0]
    BY <1>3, <2>2, <2>3
  <2> QED  BY <2>4 DEF SLess
<1> QED  BY <1>1, <1>2, <1>3

-----------------------------------------------------------------------------
(* What each part of the invariant depends on.                             *)
LEMMA HandedKept ==
  ASSUME HandedOver, Coming \in Seq(Entries), Coming' = Coming, rParents' = rParents,
         rRecv' = "recv" => rPend' = <<>>,
         \A p \in Entries : ToAsk(p) => rFiles'[p] # NoId /\ async'[p].pc = "none"
  PROVE  HandedOver'
<1>1. \A i \in 1..Len(Coming) : Coming[i] \in Entries
  BY ElementOfSeq
<1> HIDE DEF Coming
<1>2. \A i \in 1..Len(Coming) : fileCanRequestData(Coming[i]) =>
        rFiles'[Coming[i]] # NoId /\ async'[Coming[i]].pc = "none"
  BY <1>1 DEF HandedOver
<1> QED  BY <1>2 DEF HandedOver, ToAsk, fileCanRequestData

(* Ids stay known to the sender.                                           *)
StillKnown == \A p \in Entries : sFiles[p - 1] = p => sFiles'[p - 1] = p

LEMMA TicketsKept ==
  ASSUME WireTypeOK, Tickets, TLess, StillKnown, UNCHANGED <<rFiles, rPipes, rI, async>>,
         sWalk' = "stat" => sWalk = "stat" /\ sNext' = sNext, sNext \in 1..(N + 1), sWalk = "stat" => sNext <= N
  PROVE  Tickets'
<1>1. \A i \in 1..Len(toR) : IsStat(toR[i]) => toR[i].path \in Entries
  BY ElementOfSeq, PacketFields DEF WireTypeOK, IsStat
<1>2. PICK d \in Nat : \A i \in 1..Len(toR') :
        IsStat(toR'[i]) => i + d \in 1..Len(toR) /\ toR'[i] = toR[i + d]
  BY DEF TLess
<1>3. \A i \in 1..Len(toR') : IsStat(toR'[i]) /\ fileCanRequestData(toR'[i].path) =>
        sFiles'[toR'[i].path - 1] = toR'[i].path
  BY <1>1, <1>2 DEF Tickets, StillKnown
<1>4. sWalk' = "stat" /\ fileCanRequestData(sNext') => sFiles'[sNext' - 1] = sNext'
  <2>1. sWalk = "stat" => sNext \in Entries
    BY NatFacts DEF Entries
  <2> QED  BY <2>1 DEF Tickets, StillKnown
<1> QED  BY <1>3, <1>4 DEF Tickets, StillKnown, IsStat, fileCanRequestData

(* A step that moves the request for p no further.                         *)
CalmFor(p) ==
    /\ \E d \in Nat : \A i \in 1..Len(toR') :
         IsData(toR'[i], p) => i + d \in 1..Len(toR) /\ toR'[i] = toR[i + d]
    /\ \E d \in Nat : \A i \in 1..Len(toS') :
         IsReq(toS'[i], p) => i + d \in 1..Len(toS) /\ toS'[i] = toS[i + d]
    /\ \E d \in Nat : \A i \in 1..Len(sPipe') :
         sPipe'[i].path = p => i + d \in 1..Len(sPipe) /\ sPipe'[i] = sPipe[i + d]
    /\ sFiles[p - 1] = p => sFiles'[p - 1] = p
    /\ pipe'[p] = pipe[p] /\ rPipes'[p - 1] \in {rPipes[p - 1], p}
    /\ sRecv' = "queue" /\ sHandle'.path = p => sRecv = "queue" /\ sHandle.path = p
    /\ \A w \in Workers : Busy(w, p)' => Busy(w, p)
    /\ async'[p].pc \in {"none", "start", "req"} => async[p].pc \in {"none", "start", "req"}

LEMMA CalmStages ==
  ASSUME NEW p \in Entries, CalmFor(p), NEW s \in Stages, At(p, s)'
  PROVE  At(p, s)
<1>1. PICK d \in Nat : \A i \in 1..Len(toR') :
        IsData(toR'[i], p) => i + d \in 1..Len(toR) /\ toR'[i] = toR[i + d]
  BY DEF CalmFor
<1>2. PICK e \in Nat : \A i \in 1..Len(toS') :
        IsReq(toS'[i], p) => i + e \in 1..Len(toS) /\ toS'[i] = toS[i + e]
  BY DEF CalmFor
<1>3. PICK f \in Nat : \A i \in 1..Len(sPipe') :
        sPipe'[i].path = p => i + f \in 1..Len(sPipe) /\ sPipe'[i] = sPipe[i + f]
  BY DEF CalmFor
<1>4. CASE s = "unasked"
  BY <1>4 DEF At, CalmFor
<1>5. CASE s = "asked"
  <2>1. PICK i \in 1..Len(toS') : IsReq(toS'[i], p)
    BY <1>5 DEF At, IsReq
  <2> QED  BY <1>2, <1>5, <2>1 DEF At
<1>6. CASE s = "held"
  BY <1>6 DEF At, CalmFor
<1>7. CASE s = "queued"
  BY <1>3, <1>7 DEF At
<1>8. CASE s = "served"
  <2>1. PICK w \in Workers : Busy(w, p)'
    BY <1>8 DEF At
  <2> QED  BY <1>8, <2>1 DEF At, CalmFor
<1>9. CASE s = "ended"
  <2>1. CASE pipe'[p] # "open"
    BY <1>9, <2>1 DEF At, CalmFor
  <2>2. ASSUME NEW i \in 1..Len(toR'), IsEof(toR'[i], p) PROVE At(p, s)
    BY <1>1, <1>9, <2>2 DEF At, IsEof
  <2> QED  BY <1>9, <2>1, <2>2 DEF At, IsEof, IsData, Eof
<1> QED  BY <1>4, <1>5, <1>6, <1>7, <1>8, <1>9 DEF Stages

LEMMA CalmOf ==
  ASSUME NEW p \in Entries, CalmFor(p), LifeOf(p)
  PROVE  LifeOf(p)'
<1>1. \A s \in Stages : At(p, s)' => At(p, s)
  BY CalmStages
<1>2. PICK d \in Nat : \A i \in 1..Len(toR') :
        IsData(toR'[i], p) => i + d \in 1..Len(toR) /\ toR'[i] = toR[i + d]
  BY DEF CalmFor
<1>3. PICK e \in Nat : \A i \in 1..Len(toS') :
        IsReq(toS'[i], p) => i + e \in 1..Len(toS) /\ toS'[i] = toS[i + e]
  BY DEF CalmFor
<1>f. PICK f \in Nat : \A i \in 1..Len(sPipe') :
        sPipe'[i].path = p => i + f \in 1..Len(sPipe) /\ sPipe'[i] = sPipe[i + f]
  BY DEF CalmFor
<1>s. {"asked", "held", "queued", "served", "unasked"} \subseteq Stages
  BY DEF Stages
<1>4. OneStage(p)'
  BY <1>1 DEF LifeOf, OneStage
<1>5. OnePlace(p)'
  <2>1. ASSUME NEW i \in 1..Len(toS'), NEW j \in 1..Len(toS'), IsReq(toS'[i], p), IsReq(toS'[j], p)
        PROVE  i = j
    <3>1. i + e = j + e
      BY <1>3, <2>1 DEF LifeOf, OnePlace
    <3> QED  BY <3>1
  <2>2. ASSUME NEW i \in 1..Len(sPipe'), NEW j \in 1..Len(sPipe'), sPipe'[i].path = p, sPipe'[j].path = p
        PROVE  i = j
    <3>1. i + f = j + f
      BY <1>f, <2>2 DEF LifeOf, OnePlace
    <3> QED  BY <3>1
  <2>3. \A v, w \in Workers : Busy(v, p)' /\ Busy(w, p)' => v = w
    BY DEF LifeOf, OnePlace, CalmFor
  <2> QED  BY <2>1, <2>2, <2>3 DEF OnePlace, IsReq
<1>6. Expected(p)'
  BY <1>1, <1>s DEF LifeOf, Expected, CalmFor
<1>7. DataLate(p)'
  <2>1. ASSUME NEW i \in 1..Len(toR'), IsData(toR'[i], p)
        PROVE  /\ \A s \in {"unasked", "asked", "held", "queued"} : ~(At(p, s)')
               /\ pipe'[p] = "open" /\ rPipes'[p - 1] = p
    <3>1. i + d \in 1..Len(toR) /\ IsData(toR[i + d], p)
      BY <1>2, <2>1
    <3> QED  BY <1>1, <1>s, <3>1 DEF LifeOf, DataLate, CalmFor
  <2>2. ASSUME NEW i \in 1..Len(toR'), NEW j \in 1..Len(toR'),
               i < j, IsEof(toR'[i], p), IsData(toR'[j], p)
        PROVE  FALSE
    <3>1. /\ i + d \in 1..Len(toR) /\ IsEof(toR[i + d], p)
          /\ j + d \in 1..Len(toR) /\ IsData(toR[j + d], p)
          /\ i + d < j + d
      BY <1>2, <2>2 DEF IsEof
    <3> QED  BY <3>1 DEF LifeOf, DataLate
  <2> QED  BY <2>1, <2>2 DEF DataLate, IsData, IsEof, Eof
<1> QED  BY <1>4, <1>5, <1>6, <1>7 DEF LifeOf

(* A step that moves no request further.                                   *)
QLess ==
    \E d \in Nat : \A i \in 1..Len(sPipe') : i + d \in 1..Len(sPipe) /\ sPipe'[i] = sPipe[i + d]

Calm ==
    /\ DLess /\ SLess /\ QLess /\ StillKnown
    /\ UNCHANGED pipe
    /\ \A p \in Entries : rPipes'[p - 1] \in {rPipes[p - 1], p}
    /\ sRecv' = "queue" => sRecv = "queue" /\ sHandle' = sHandle
    /\ \A w \in Workers : sWork'[w].pc \in {"data", "eof"} =>
         sWork[w].pc \in {"data", "eof"} /\ sWork'[w].h = sWork[w].h
    /\ \A p \in Entries : async'[p].pc \in {"none", "start", "req"} =>
         async[p].pc \in {"none", "start", "req"}

LEMMA CalmForAll ==
  ASSUME Calm
  PROVE  \A p \in Entries : CalmFor(p)
<1> SUFFICES ASSUME NEW p \in Entries PROVE CalmFor(p)
  OBVIOUS
<1>1. \E d \in Nat : \A i \in 1..Len(toR') :
        IsData(toR'[i], p) => i + d \in 1..Len(toR) /\ toR'[i] = toR[i + d]
  BY DEF Calm, DLess, IsData
<1>2. \E d \in Nat : \A i \in 1..Len(toS') :
        IsReq(toS'[i], p) => i + d \in 1..Len(toS) /\ toS'[i] = toS[i + d]
  BY DEF Calm, SLess, IsReq
<1>3. \E d \in Nat : \A i \in 1..Len(sPipe') :
        sPipe'[i].path = p => i + d \in 1..Len(sPipe) /\ sPipe'[i] = sPipe[i + d]
  BY DEF Calm, QLess
<1>4. \A w \in Workers : Busy(w, p)' => Busy(w, p)
  BY DEF Calm, Busy
<1>5. /\ sFiles[p - 1] = p => sFiles'[p - 1] = p
      /\ pipe'[p] = pipe[p] /\ rPipes'[p - 1] \in {rPipes[p - 1], p}
      /\ sRecv' = "queue" /\ sHandle'.path = p => sRecv = "queue" /\ sHandle.path = p
      /\ async'[p].pc \in {"none", "start", "req"} => async[p].pc \in {"none", "start", "req"}
  BY DEF Calm, StillKnown
<1> QED  BY <1>1, <1>2, <1>3, <1>4, <1>5 DEF CalmFor

LEMMA CalmRange ==
  ASSUME Calm, InRange
  PROVE  InRange'
<1>1. \A i \in 1..Len(toR') : toR'[i].type = "DATA" => toR'[i].id + 1 \in Entries
  BY DEF Calm, DLess, InRange
<1>2. \A i \in 1..Len(toS') : toS'[i].type = "REQ" => toS'[i].id + 1 \in Entries
  BY DEF Calm, SLess, InRange
<1>3. \A i \in 1..Len(sPipe') : sPipe'[i].path \in Entries
  BY DEF Calm, QLess, InRange
<1> QED  BY <1>1, <1>2, <1>3 DEF InRange, Calm

LEMMA CalmLife ==
  ASSUME Life, Calm
  PROVE  Life'
<1>1. \A p \in Entries : LifeOf(p)'
  BY CalmForAll, CalmOf DEF Life
<1> QED  BY <1>1, CalmRange DEF Life


-----------------------------------------------------------------------------
(* The steps of the sender.                                                *)
LEMMA HandedBySender ==
  ASSUME HandedOver, UNCHANGED receiverVars
  PROVE  HandedOver'
  BY DEF HandedOver, ToAsk, Coming, receiverVars, recvVars, reqVars, walkerVars, diskVars

LEMMA PipeLess ==
  ASSUME sPipe \in Seq(Handles), sPipe' = sPipe \/ (sPipe # <<>> /\ sPipe' = Tail(sPipe))
  PROVE  QLess
<1>1. CASE sPipe' = sPipe
  <2>1. \A i \in 1..Len(sPipe') : i + 0 \in 1..Len(sPipe) /\ sPipe'[i] = sPipe[i + 0]
    BY <1>1, LenProperties
  <2> QED  BY <2>1 DEF QLess
<1>2. CASE sPipe # <<>> /\ sPipe' = Tail(sPipe)
  <2>1. /\ Len(sPipe) \in Nat /\ Len(sPipe') = Len(sPipe) - 1
        /\ \A i \in 1..Len(sPipe') : sPipe'[i] = sPipe[i + 1]
    BY <1>2, TailFacts
  <2>2. \A i \in 1..Len(sPipe') : i + 1 \in 1..Len(sPipe) /\ sPipe'[i] = sPipe[i + 1]
    BY <2>1
  <2> QED  BY <2>2 DEF QLess
<1> QED  BY <1>1, <1>2

(* A worker's state is a handle of an entry.                               *)
LEMMA WorkerFacts ==
  ASSUME LInv, NEW w \in Workers, sWork[w].pc \in {"data", "eof"}
  PROVE  /\ sWork \in [Workers -> WorkSet] /\ sWork[w] \in WorkSet
         /\ sWork[w].h.path \in Entries /\ sWork[w].h.path \in Nat
         /\ sWork[w].h.id \in Ids /\ sWork[w].h.id = sWork[w].h.path - 1
         /\ sWork[w].pos \in Nat
<1>1. sWork \in [Workers -> WorkSet] /\ sWork[w] \in WorkSet
  BY DEF LInv, GInv, TInv, SInv, SenderTypeOK
<1>2. sWork[w].h \in Handles /\ sWork[w].pos \in Nat
  BY <1>1 DEF WorkSet
<1>3. sWork[w].h.id \in Ids /\ sWork[w].h.id \in Nat
  BY <1>2, NatFacts DEF Handles
<1>4. sWork[w].h.path = sWork[w].h.id + 1 /\ sWork[w].h.path \in Entries
  BY DEF LInv, GInv, SenderIds, OwnId, Life, InRange
<1> QED  BY <1>1, <1>2, <1>3, <1>4, EntryFacts

LEMMA WalkLife ==
  ASSUME LInv, Walk, UNCHANGED receiverVars
  PROVE  Tickets' /\ Life'
<1> USE DEF LInv, GInv, TInv, SInv
<1>r. UNCHANGED <<rFiles, rPipes, rI, async, pipe>>
  BY DEF receiverVars, recvVars, reqVars, diskVars
<1>w. UNCHANGED <<sPipe, sRecv, sHandle, sWork, toS>>
  BY DEF Walk, WalkVisit, WalkSendStat, WalkSendLast, WalkFails, WalkSendFails, WalkSendErr, pipeVars,
         SendToReceiver, SendFails, wireVars
<1>s. SLess
  BY <1>w, SLessFacts
<1>n. sNext \in 1..(N + 1) /\ sNext \in Nat /\ sI \in Ids /\ N \in Nat
  BY NatFacts DEF SenderTypeOK
<1>q. QLess
  BY <1>w, PipeLess DEF SenderTypeOK
<1>c. DLess /\ StillKnown => Life'
  BY <1>r, <1>w, <1>s, <1>q, CalmLife DEF Calm
<1>t. /\ TLess /\ StillKnown /\ (sWalk' = "stat" => sWalk = "stat" /\ sNext' = sNext) => Tickets'
  <2>1. sWalk = "stat" => sNext <= N
    BY DEF WalkCount
  <2> QED  BY <1>r, <1>n, <2>1, TicketsKept
<1>1. CASE WalkVisit
  <2>1. sI = sNext - 1 /\ sNext \in Entries
    BY <1>1, <1>n DEF WalkVisit, WalkCount, Entries
  <2>2. /\ sFiles' = Registered(sFiles, sI, sNext)
        /\ sNext' = sNext /\ toR' = toR
    BY <1>1 DEF WalkVisit, wireVars
  <2>3. sFiles \in [Ids -> Entries \cup {NoPath}]
    BY DEF SenderTypeOK
  <2>4. StillKnown /\ (fileCanRequestData(sNext) => sFiles'[sNext - 1] = sNext)
    <3>1. ASSUME NEW p \in Entries, sFiles[p - 1] = p PROVE sFiles'[p - 1] = p
      <4>1. p - 1 \in Ids /\ p \in Nat
        BY EntryFacts
      <4>2. p - 1 = sI => p = sNext
        BY <1>n, <2>1, <4>1
      <4> QED  BY <2>2, <2>3, <3>1, <4>1, <4>2 DEF Registered
    <3>2. fileCanRequestData(sNext) => sFiles'[sNext - 1] = sNext
      BY <1>n, <2>1, <2>2, <2>3 DEF Registered
    <3> QED  BY <3>1, <3>2 DEF StillKnown
  <2>5. DLess /\ TLess
    BY <2>2, LessFacts
  <2>6. Tickets'
    <3>1. \A i \in 1..Len(toR) : IsStat(toR[i]) => toR[i].path \in Entries
      BY ElementOfSeq, PacketFields DEF WireTypeOK, IsStat
    <3>2. \A i \in 1..Len(toR') : IsStat(toR'[i]) /\ fileCanRequestData(toR'[i].path) =>
            sFiles'[toR'[i].path - 1] = toR'[i].path
      BY <2>2, <2>4, <3>1 DEF Tickets, StillKnown
    <3> QED  BY <1>r, <2>2, <2>4, <3>2 DEF Tickets, StillKnown, IsStat, fileCanRequestData
  <2> QED  BY <1>c, <2>4, <2>5, <2>6
<1>2. CASE WalkSendStat
  <2>0. sNext \in Entries /\ sNext # NoPath
    BY <1>2, <1>n DEF WalkSendStat, WalkCount, Entries, NoPath
  <2>1. /\ toR \in Seq(Packets) /\ Len(toR) \in Nat /\ SendToReceiver(StatPacket(sNext))
        /\ toR' = Append(toR, StatPacket(sNext)) /\ StatPacket(sNext) \in Packets
        /\ sFiles' = sFiles /\ sWalk' = "visit" /\ sWalk = "stat"
    BY <1>2, <2>0, LenProperties, PacketsBuilt DEF WalkSendStat, SendToReceiver, WireTypeOK
  <2>2. /\ Len(toR') = Len(toR) + 1
        /\ \A i \in 1..Len(toR) : toR'[i] = toR[i]
        /\ toR'[Len(toR) + 1] = StatPacket(sNext)
    BY <2>1, AppendFacts
  <2>3. DLess /\ StillKnown
    BY <2>1, LessFacts DEF StatPacket, StillKnown
  <2>4. \A i \in 1..Len(toR') : i \in 1..Len(toR) \/ i = Len(toR) + 1
    BY <2>1, <2>2
  <2>5. \A i \in 1..Len(toR') : IsStat(toR'[i]) /\ fileCanRequestData(toR'[i].path) =>
          sFiles'[toR'[i].path - 1] = toR'[i].path
    <3> SUFFICES ASSUME NEW i \in 1..Len(toR'), IsStat(toR'[i]), fileCanRequestData(toR'[i].path)
                 PROVE  sFiles'[toR'[i].path - 1] = toR'[i].path
      OBVIOUS
    <3>1. CASE i \in 1..Len(toR)
      BY <2>1, <2>2, <3>1 DEF Tickets
    <3>2. CASE i = Len(toR) + 1
      <4>1. toR'[i].path = sNext
        BY <2>2, <3>2 DEF StatPacket
      <4> QED  BY <2>1, <4>1 DEF Tickets
    <3> QED  BY <2>4, <3>1, <3>2
  <2>6. Tickets'
    BY <1>r, <2>1, <2>5 DEF Tickets, IsStat, fileCanRequestData
  <2> QED  BY <1>c, <2>3, <2>6
<1>3. CASE WalkSendLast
  <2>1. LastStat \in Packets /\ LastStat.type # "DATA" /\ ~IsStat(LastStat)
    BY PacketsBuilt, NotStat DEF LastStat, StatPacket
  <2>2. DLess /\ TLess
    BY <1>3, <2>1, LessFacts DEF WalkSendLast
  <2>3. sFiles' = sFiles /\ sWalk' # "stat"
    BY <1>3 DEF WalkSendLast
  <2> QED  BY <1>c, <1>t, <2>2, <2>3 DEF StillKnown
<1>4. CASE WalkFails \/ WalkSendFails
  <2>1. toR' = toR /\ sFiles' = sFiles /\ sWalk' # "stat"
    BY <1>4 DEF WalkFails, WalkSendFails, SendFails, wireVars
  <2> QED  BY <1>c, <1>t, <2>1, LessFacts DEF StillKnown
<1>5. CASE WalkSendErr
  <2>1. ErrPacket(sWalkErr) \in Packets /\ ErrPacket(sWalkErr).type # "DATA" /\ ~IsStat(ErrPacket(sWalkErr))
    BY PacketsBuilt, NotStat DEF ErrPacket, SenderTypeOK
  <2>2. SendToReceiver(ErrPacket(sWalkErr)) \/ toR' = toR
    BY <1>5 DEF WalkSendErr, SendFails, wireVars
  <2>3. DLess /\ TLess
    BY <2>1, <2>2, LessFacts
  <2>4. sFiles' = sFiles /\ sWalk' # "stat"
    BY <1>5 DEF WalkSendErr
  <2> QED  BY <1>c, <1>t, <2>3, <2>4 DEF StillKnown
<1> QED  BY <1>1, <1>2, <1>3, <1>4, <1>5 DEF Walk

(* What a worker that sends data of p does to the channel.                 *)
LEMMA DataSent ==
  ASSUME WireTypeOK, NEW m \in Packets, m.type = "DATA", SendToReceiver(m)
  PROVE  /\ TLess
         /\ toR \in Seq(Packets) /\ Len(toR) \in Nat /\ Len(toR') = Len(toR) + 1
         /\ \A i \in 1..Len(toR) : i \in 1..Len(toR') /\ toR'[i] = toR[i]
         /\ toR'[Len(toR) + 1] = m
         /\ \A i \in 1..Len(toR') : i \in 1..Len(toR) \/ i = Len(toR) + 1
         /\ \A p \in Entries : m.id # p - 1 =>
              \E d \in Nat : \A i \in 1..Len(toR') :
                IsData(toR'[i], p) => i + d \in 1..Len(toR) /\ toR'[i] = toR[i + d]
<1>1. toR \in Seq(Packets) /\ Len(toR) \in Nat /\ toR' = Append(toR, m)
  BY LenProperties DEF WireTypeOK, SendToReceiver
<1>2. /\ Len(toR') = Len(toR) + 1
      /\ \A i \in 1..Len(toR) : toR'[i] = toR[i]
      /\ toR'[Len(toR) + 1] = m
  BY <1>1, AppendFacts
<1>3. \A i \in 1..Len(toR') : i + 0 = i /\ (i \in 1..Len(toR) \/ i = Len(toR) + 1)
  BY <1>1, <1>2
<1>4. ~IsStat(m)
  BY DEF IsStat
<1>5. TLess
  BY <1>4, LessFacts
<1>6. ASSUME NEW p \in Entries, m.id # p - 1
      PROVE  \E d \in Nat : \A i \in 1..Len(toR') :
               IsData(toR'[i], p) => i + d \in 1..Len(toR) /\ toR'[i] = toR[i + d]
  <2>1. \A i \in 1..Len(toR') :
          IsData(toR'[i], p) => i + 0 \in 1..Len(toR) /\ toR'[i] = toR[i + 0]
    BY <1>2, <1>3, <1>6 DEF IsData
  <2> QED  BY <2>1
<1>7. \A i \in 1..Len(toR) : i \in 1..Len(toR')
  BY <1>1, <1>2
<1>8. \A i \in 1..Len(toR') : i \in 1..Len(toR) \/ i = Len(toR) + 1
  BY <1>3
<1> QED  BY <1>1, <1>2, <1>5, <1>6, <1>7, <1>8, Zenon

LEMMA WorkerLife ==
  ASSUME LInv, NEW w \in Workers, Worker(w), UNCHANGED receiverVars
  PROVE  Tickets' /\ Life'
<1> USE DEF LInv, GInv, TInv, SInv
<1>r. UNCHANGED <<rFiles, rPipes, rI, async, pipe>>
  BY DEF receiverVars, recvVars, reqVars, diskVars
<1>w. UNCHANGED <<sFiles, sRecv, sHandle, toS, sWalk, sNext>>
  BY DEF Worker, WorkerTakes, WorkerExits, WorkerOpenFails, WorkerSendsData, WorkerSendsEOF, WorkerFails,
         SendToReceiver, SendFails, wireVars, walkVars
<1>s. SLess /\ StillKnown
  BY <1>w, SLessFacts DEF StillKnown
<1>u. \A p \in Entries : \E d \in Nat : \A i \in 1..Len(toS') :
        IsReq(toS'[i], p) => i + d \in 1..Len(toS) /\ toS'[i] = toS[i + d]
  BY <1>s DEF SLess, IsReq
<1>n. sNext \in 1..(N + 1) /\ (sWalk = "stat" => sNext <= N)
  BY DEF SenderTypeOK, WalkCount
<1>t. TLess => Tickets'
  BY <1>r, <1>w, <1>s, <1>n, TicketsKept
<1>k. sPipe \in Seq(Handles) /\ sWork \in [Workers -> WorkSet] /\ sWork[w] \in WorkSet
  BY DEF SenderTypeOK
<1>e. \A p \in Entries : LifeOf(p)
  BY DEF Life
<1>v. {"asked", "held", "queued", "served", "unasked", "ended"} = Stages
  BY DEF Stages
<1>1. CASE /\ WorkerTakes(w) /\ sCtxDone
           \/ WorkerExits(w) \/ WorkerOpenFails(w) \/ WorkerFails(w)
  <2>1. DLess /\ TLess
    BY <1>1, LessFacts DEF WorkerTakes, WorkerExits, WorkerOpenFails, WorkerFails, SendFails, wireVars
  <2>2. QLess
    BY <1>1, <1>k, PipeLess DEF WorkerTakes, WorkerExits, WorkerOpenFails, WorkerFails, pipeVars
  <2>3. \A v \in Workers : sWork'[v].pc \in {"data", "eof"} =>
         sWork[v].pc \in {"data", "eof"} /\ sWork'[v].h = sWork[v].h
    <3>1. CASE WorkerOpenFails(w)
      <4>1. sWork' = [sWork EXCEPT ![w].pc = "eof"] /\ sWork[w].pc = "data"
        BY <3>1 DEF WorkerOpenFails
      <4> QED  BY <1>k, <4>1 DEF WorkSet
    <3>2. CASE sWork' = [sWork EXCEPT ![w] = Done]
      BY <1>k, <3>2 DEF Done
    <3> QED  BY <1>1, <3>1, <3>2 DEF WorkerTakes, WorkerExits, WorkerFails
  <2>4. Calm
    BY <1>r, <1>w, <1>s, <2>1, <2>2, <2>3 DEF Calm
  <2> QED  BY <1>t, <2>1, <2>4, CalmLife
<1>2. CASE WorkerTakes(w) /\ ~sCtxDone
  <2>1. /\ sPipe # <<>> /\ sPipe' = Tail(sPipe) /\ toR' = toR
        /\ sWork' = [sWork EXCEPT ![w] = Working(Head(sPipe))]
    BY <1>2 DEF WorkerTakes, wireVars
  <2>2. /\ Head(sPipe) \in Handles /\ Head(sPipe) = sPipe[1] /\ Len(sPipe) \in Nat /\ Len(sPipe) > 0
        /\ Len(sPipe') = Len(sPipe) - 1
        /\ \A i \in 1..Len(sPipe') : sPipe'[i] = sPipe[i + 1]
    BY <1>k, <2>1, TailFacts
  <2>3. DLess /\ TLess /\ QLess
    BY <1>k, <2>1, LessFacts, PipeLess
  <2>4. /\ \A v \in Workers : v # w => sWork'[v] = sWork[v]
        /\ sWork'[w].pc = "data" /\ sWork'[w].h = Head(sPipe)
    BY <1>k, <2>1 DEF Working
  <2>q. PICK q \in Entries : q = Head(sPipe).path
    BY <2>2 DEF Life, InRange
  <2>5. q \in Entries /\ q = Head(sPipe).path /\ 1 \in 1..Len(sPipe)
    BY <2>2, <2>q
  <2>6. \A p \in Entries : p # q => CalmFor(p)
    <3> SUFFICES ASSUME NEW p \in Entries, p # q PROVE CalmFor(p)
      OBVIOUS
    <3>1. \E d \in Nat : \A i \in 1..Len(toR') :
         IsData(toR'[i], p) => i + d \in 1..Len(toR) /\ toR'[i] = toR[i + d]
      BY <2>3 DEF DLess, IsData
    <3>2. \E d \in Nat : \A i \in 1..Len(sPipe') :
         sPipe'[i].path = p => i + d \in 1..Len(sPipe) /\ sPipe'[i] = sPipe[i + d]
      BY <2>3 DEF QLess
    <3>3. \A v \in Workers : Busy(v, p)' => Busy(v, p)
      BY <2>4, <2>5 DEF Busy
    <3> QED  BY <1>r, <1>w, <1>u, <3>1, <3>2, <3>3 DEF CalmFor
  <2>7. At(q, "queued")
    BY <2>2, <2>5 DEF At
  <2>8. \A u \in Stages : At(q, u)' => u = "served"
    <3> SUFFICES ASSUME NEW u \in Stages, At(q, u)', u # "served" PROVE FALSE
      OBVIOUS
    <3>1. CASE u = "queued"
      <4>1. PICK i \in 1..Len(sPipe') : sPipe'[i].path = q
        BY <3>1 DEF At
      <4>2. i + 1 \in 1..Len(sPipe) /\ i + 1 # 1 /\ sPipe[i + 1].path = q
        BY <2>2, <4>1
      <4> QED  BY <1>e, <2>2, <2>5, <4>2 DEF LifeOf, OnePlace
    <3>2. CASE u # "queued"
      <4>1. At(q, u)
        BY <1>r, <1>w, <2>1, <3>2 DEF At
      <4> QED  BY <1>e, <1>v, <2>5, <2>7, <3>2, <4>1 DEF LifeOf, OneStage
    <3> QED  BY <3>1, <3>2
  <2>9. \A u \in Stages : At(q, u) => u = "queued"
    BY <1>e, <1>v, <2>5, <2>7 DEF LifeOf, OneStage
  <2>10. LifeOf(q)'
    <3>1. OneStage(q)'
      BY <2>8 DEF OneStage
    <3>2. \A v \in Workers : Busy(v, q)' => v = w
      <4> SUFFICES ASSUME NEW v \in Workers, Busy(v, q)', v # w PROVE FALSE
        OBVIOUS
      <4>1. Busy(v, q)
        BY <2>4 DEF Busy
      <4>2. At(q, "served")
        BY <4>1 DEF At
      <4> QED  BY <1>v, <2>9, <4>2
    <3>3. ~(\E i \in 1..Len(sPipe') : sPipe'[i].path = q)
      BY <1>v, <2>8 DEF At
    <3>4. OnePlace(q)'
      BY <1>e, <1>w, <2>5, <3>2, <3>3 DEF LifeOf, OnePlace
    <3>5. Expected(q)'
      BY <1>e, <1>r, <1>v, <2>5, <2>7, <2>8 DEF LifeOf, Expected
    <3>6. DataLate(q)'
      BY <1>e, <1>v, <2>1, <2>5, <2>7 DEF LifeOf, DataLate
    <3> QED  BY <3>1, <3>4, <3>5, <3>6 DEF LifeOf
  <2>11. InRange'
    <3>1. \A i \in 1..Len(sPipe') : sPipe'[i].path \in Entries
      BY <2>2 DEF Life, InRange
    <3>2. \A v \in Workers : sWork'[v].pc \in {"data", "eof"} => sWork'[v].h.path \in Entries
      BY <2>4, <2>5 DEF Life, InRange
    <3> QED  BY <1>w, <2>1, <3>1, <3>2 DEF Life, InRange
  <2>12. \A p \in Entries : LifeOf(p)'
    BY <1>e, <2>6, <2>10, CalmOf
  <2> QED  BY <1>t, <2>3, <2>11, <2>12 DEF Life
<1>3. CASE WorkerSendsData(w) \/ WorkerSendsEOF(w)
  <2>1. sWork[w].pc \in {"data", "eof"}
    BY <1>3 DEF WorkerSendsData, WorkerSendsEOF, AtEOF
  <2>q. PICK q \in Entries : q = sWork[w].h.path
    BY <2>1, WorkerFacts
  <2> DEFINE d == IF WorkerSendsData(w) THEN <<sWork[w].h.path, sWork[w].pos + 1>> ELSE Eof
             m == DataPacket(sWork[w].h.id, d)
  <2>2. /\ q \in Entries /\ q \in Nat /\ sWork[w].h.id \in Ids /\ sWork[w].h.id = q - 1
        /\ sWork[w].pos \in Nat
    BY <2>1, <2>q, WorkerFacts
  <2>3. m \in Packets /\ m.type = "DATA" /\ m.id = q - 1 /\ m.data = d
    <3>1. <<sWork[w].h.path, sWork[w].pos + 1>> \in Chunk
      BY <2>q, <2>2 DEF Chunk
    <3>2. d \in Chunk
      BY <3>1, NatFacts
    <3> QED  BY <2>2, <3>2, PacketsBuilt DEF DataPacket
  <2>4. SendToReceiver(m) /\ sPipe' = sPipe
    BY <1>3 DEF WorkerSendsData, WorkerSendsEOF, pipeVars
  <2>5. \/ d # Eof /\ sWork' = [sWork EXCEPT ![w].pos = sWork[w].pos + 1]
        \/ d = Eof /\ sWork' = [sWork EXCEPT ![w] = Idle]
    BY <1>3, <2>2 DEF WorkerSendsData, WorkerSendsEOF, Eof
  <2> HIDE DEF d, m
  <2>6. /\ TLess
        /\ toR \in Seq(Packets) /\ Len(toR) \in Nat /\ Len(toR') = Len(toR) + 1
        /\ \A i \in 1..Len(toR) : i \in 1..Len(toR') /\ toR'[i] = toR[i]
        /\ toR'[Len(toR) + 1] = m
        /\ \A i \in 1..Len(toR') : i \in 1..Len(toR) \/ i = Len(toR) + 1
        /\ \A p \in Entries : m.id # p - 1 =>
              \E k \in Nat : \A i \in 1..Len(toR') :
                IsData(toR'[i], p) => i + k \in 1..Len(toR) /\ toR'[i] = toR[i + k]
    BY <2>3, <2>4, DataSent
  <2>7. \A v \in Workers : sWork'[v].pc \in {"data", "eof"} =>
          sWork[v].pc \in {"data", "eof"} /\ sWork'[v].h = sWork[v].h /\ (v = w => d # Eof)
    BY <1>k, <2>5 DEF Idle, WorkSet
  <2>b. \A p \in Entries, v \in Workers : Busy(v, p)' => Busy(v, p)
    BY <2>7 DEF Busy
  <2>8. QLess
    BY <1>k, <2>4, PipeLess
  <2>9. \A p \in Entries : p # q => CalmFor(p)
    <3> SUFFICES ASSUME NEW p \in Entries, p # q PROVE CalmFor(p)
      OBVIOUS
    <3>1. m.id # p - 1
      BY <2>2, <2>3, EntryFacts
    <3>2. \E k \in Nat : \A i \in 1..Len(sPipe') :
         sPipe'[i].path = p => i + k \in 1..Len(sPipe) /\ sPipe'[i] = sPipe[i + k]
      BY <2>8 DEF QLess
    <3> QED  BY <1>r, <1>w, <1>u, <2>6, <2>b, <3>1, <3>2 DEF CalmFor
  <2>10. Busy(w, q) /\ At(q, "served")
    BY <2>1, <2>q DEF At, Busy
  <2>11. \A u \in Stages : At(q, u) => u = "served"
    BY <1>e, <1>v, <2>2, <2>10 DEF LifeOf, OneStage
  <2>12. ASSUME NEW u \in Stages, At(q, u)'
         PROVE  (d # Eof => u = "served") /\ (d = Eof => u = "ended")
    <3>1. CASE u = "served"
      <4>1. PICK v \in Workers : Busy(v, q)'
        BY <2>12, <3>1 DEF At
      <4>2. v = w
        BY <1>e, <2>2, <2>b, <2>10, <4>1 DEF LifeOf, OnePlace
      <4> QED  BY <2>7, <3>1, <4>1, <4>2 DEF Busy
    <3>2. CASE u = "ended"
      <4>1. pipe[q] = "open" /\ \A i \in 1..Len(toR) : ~IsEof(toR[i], q)
        BY <1>v, <2>11 DEF At
      <4>2. \E i \in 1..Len(toR') : IsEof(toR'[i], q)
        BY <1>r, <2>12, <3>2, <4>1 DEF At, IsEof, IsData, Eof
      <4> QED  BY <2>3, <2>6, <3>2, <4>1, <4>2 DEF IsEof
    <3>3. CASE u \notin {"served", "ended"}
      <4>1. At(q, u)
        BY <1>r, <1>w, <2>4, <2>12, <3>3 DEF At
      <4> QED  BY <1>v, <2>11, <3>3, <4>1
    <3> QED  BY <3>1, <3>2, <3>3
  <2>13. LifeOf(q)'
    <3>1. OneStage(q)'
      BY <2>12 DEF OneStage
    <3>2. OnePlace(q)'
      BY <1>e, <1>w, <2>2, <2>4, <2>b DEF LifeOf, OnePlace
    <3>x. rPipes[q - 1] = q /\ pipe[q] = "open"
      BY <1>e, <1>v, <2>2, <2>10, <2>11 DEF LifeOf, Expected, At
    <3>3. Expected(q)'
      BY <1>r, <1>v, <2>12, <3>x DEF Expected
    <3>4. \A i \in 1..Len(toR) : ~IsEof(toR[i], q)
      BY <1>v, <2>11 DEF At
    <3>5. \A i, j \in 1..Len(toR') : i < j /\ IsEof(toR'[i], q) => ~IsData(toR'[j], q)
      BY <2>6, <3>4
    <3>6. DataLate(q)'
      BY <1>r, <1>v, <2>12, <3>x, <3>5 DEF DataLate, IsData, IsEof, Eof
    <3> QED  BY <3>1, <3>2, <3>3, <3>6 DEF LifeOf
  <2>14. InRange'
    <3>1. ASSUME NEW i \in 1..Len(toR'), toR'[i].type = "DATA"
          PROVE  toR'[i].id + 1 \in Entries
      <4>1. CASE i \in 1..Len(toR)
        BY <2>6, <3>1, <4>1 DEF Life, InRange
      <4>2. CASE i = Len(toR) + 1
        BY <2>2, <2>3, <2>6, <4>2
      <4> QED  BY <2>6, <4>1, <4>2
    <3>2. \A v \in Workers : sWork'[v].pc \in {"data", "eof"} => sWork'[v].h.path \in Entries
      BY <2>7 DEF Life, InRange
    <3> QED  BY <1>w, <2>4, <3>1, <3>2 DEF Life, InRange
  <2>15. \A p \in Entries : LifeOf(p)'
    BY <1>e, <2>9, <2>13, CalmOf
  <2> QED  BY <1>t, <2>6, <2>14, <2>15 DEF Life
<1> QED  BY <1>1, <1>2, <1>3 DEF Worker

LEMMA LoopLife ==
  ASSUME LInv, SenderLoop \/ SendReturns, UNCHANGED receiverVars
  PROVE  Tickets' /\ Life'
<1> USE DEF LInv, GInv, TInv, SInv
<1>r. UNCHANGED <<rFiles, rPipes, rI, async, pipe>>
  BY DEF receiverVars, recvVars, reqVars, diskVars
<1>w. UNCHANGED <<sWork, sWalk, sNext>>
  BY DEF SenderLoop, LoopCheck, LoopGetsErr, LoopGetsReq, LoopQueues, LoopGetsFin, LoopSendsFin,
         LoopRecvFails, SendReturns, walkVars
<1>n. sNext \in 1..(N + 1) /\ (sWalk = "stat" => sNext <= N)
  BY DEF SenderTypeOK, WalkCount
<1>t. TLess /\ StillKnown => Tickets'
  BY <1>r, <1>w, <1>n, TicketsKept
<1>k. sPipe \in Seq(Handles) /\ toS \in Seq(Packets) /\ sHandle \in Handles
  BY DEF SenderTypeOK, WireTypeOK
<1>e. \A p \in Entries : LifeOf(p)
  BY DEF Life
<1>v. {"asked", "held", "queued", "served", "unasked", "ended"} = Stages
  BY DEF Stages
<1>b. \A p \in Entries, v \in Workers : Busy(v, p)' => Busy(v, p)
  BY <1>w DEF Busy
<1>1. CASE LoopCheck \/ LoopGetsErr \/ LoopGetsFin \/ LoopSendsFin \/ LoopRecvFails \/ SendReturns
  <2>1. UNCHANGED <<sFiles, sHandle, sPipe>> /\ (sRecv' = "queue" => sRecv = "queue")
    BY <1>1 DEF LoopCheck, LoopGetsErr, LoopGetsFin, LoopSendsFin, LoopRecvFails, SendReturns, LoopEnds, pipeVars
  <2>2. SLess
    <3>1. toS' = toS \/ \E t : SenderGets(t)
      BY <1>1 DEF LoopCheck, LoopGetsErr, LoopGetsFin, LoopSendsFin, LoopRecvFails, SendReturns,
                  RecvFails, SendFails, SendToReceiver, wireVars
    <3> QED  BY <3>1, SLessFacts
  <2>3. DLess /\ TLess
    <3>1. toR' = toR \/ SendToReceiver(FinPacket)
      BY <1>1 DEF LoopCheck, LoopGetsErr, LoopGetsFin, LoopSendsFin, LoopRecvFails, SendReturns,
                  RecvFails, SendFails, SenderGets, wireVars
    <3>2. FinPacket \in Packets /\ FinPacket.type # "DATA" /\ ~IsStat(FinPacket)
      BY PacketsBuilt, NotStat DEF FinPacket
    <3> QED  BY <3>1, <3>2, LessFacts
  <2>4. QLess /\ StillKnown
    BY <1>k, <2>1, PipeLess DEF StillKnown
  <2>5. Calm
    BY <1>r, <1>w, <2>1, <2>2, <2>3, <2>4 DEF Calm
  <2> QED  BY <1>t, <2>3, <2>4, <2>5, CalmLife
<1>2. CASE LoopGetsReq
  <2>1. /\ toS # <<>> /\ Head(toS).type = "REQ" /\ toS' = Tail(toS)
        /\ UNCHANGED <<toR, sPipe>> /\ sRecv = "recv"
    BY <1>2 DEF LoopGetsReq, SenderGets
  <2>2. /\ Head(toS) \in Packets /\ Head(toS) = toS[1] /\ Len(toS) \in Nat /\ Len(toS) > 0
        /\ Len(toS') = Len(toS) - 1
        /\ \A i \in 1..Len(toS') : toS'[i] = toS[i + 1]
    BY <1>k, <2>1, TailFacts
  <2>3. 1 \in 1..Len(toS) /\ Head(toS).id \in Ids /\ Head(toS).id \in Nat
    <3>1. 1 \in 1..Len(toS)
      BY <2>2
    <3>2. Head(toS).id \in Ids
      BY <2>1, <2>2, PacketFields
    <3> QED  BY <3>1, <3>2, NatFacts
  <2>q. PICK q \in Entries : q = Head(toS).id + 1
    BY <2>1, <2>2, <2>3 DEF Life, InRange
  <2>4. /\ q \in Nat /\ q # NoPath /\ q - 1 \in Ids /\ Head(toS).id = q - 1
        /\ IsReq(toS[1], q) /\ At(q, "asked")
    BY <2>1, <2>2, <2>3, <2>q, EntryFacts DEF At, IsReq
  <2>5. sFiles[q - 1] = q /\ rPipes[q - 1] = q
    BY <1>e, <2>4 DEF LifeOf, Expected
  <2>6. /\ sFiles' = [sFiles EXCEPT ![q - 1] = NoPath]
        /\ sHandle' = Handle(q - 1, q) /\ sRecv' = "queue"
    BY <1>2, <2>4, <2>5 DEF LoopGetsReq
  <2>7. /\ sHandle'.path = q
        /\ \A p \in Entries : p # q /\ sFiles[p - 1] = p => sFiles'[p - 1] = p
    <3>1. sFiles \in [Ids -> Entries \cup {NoPath}]
      BY DEF SenderTypeOK
    <3> QED  BY <2>4, <2>6, <3>1, EntryFacts DEF Handle
  <2>8. DLess /\ TLess /\ SLess /\ QLess
    BY <1>2, <1>k, <2>1, LessFacts, SLessFacts, PipeLess DEF LoopGetsReq
  <2>9. \A p \in Entries : p # q => CalmFor(p)
    <3> SUFFICES ASSUME NEW p \in Entries, p # q PROVE CalmFor(p)
      OBVIOUS
    <3>1. /\ \E d \in Nat : \A i \in 1..Len(toR') :
               IsData(toR'[i], p) => i + d \in 1..Len(toR) /\ toR'[i] = toR[i + d]
          /\ \E d \in Nat : \A i \in 1..Len(toS') :
               IsReq(toS'[i], p) => i + d \in 1..Len(toS) /\ toS'[i] = toS[i + d]
          /\ \E d \in Nat : \A i \in 1..Len(sPipe') :
               sPipe'[i].path = p => i + d \in 1..Len(sPipe) /\ sPipe'[i] = sPipe[i + d]
      BY <2>8 DEF DLess, SLess, QLess, IsData, IsReq
    <3> QED  BY <1>r, <1>b, <2>7, <3>1 DEF CalmFor
  <2>10. \A u \in Stages : At(q, u) => u = "asked"
    BY <1>e, <1>v, <2>4 DEF LifeOf, OneStage
  <2>11. ASSUME NEW i \in 1..Len(toS') PROVE ~IsReq(toS'[i], q)
    <3>1. i + 1 \in 1..Len(toS) /\ i + 1 # 1 /\ toS'[i] = toS[i + 1]
      BY <2>2
    <3> QED  BY <1>e, <2>3, <2>4, <3>1 DEF LifeOf, OnePlace
  <2>12. ASSUME NEW u \in Stages, At(q, u)' PROVE u = "held"
    <3>1. u # "asked"
      BY <2>11, <2>12 DEF At, IsReq
    <3>2. u # "held" => At(q, u)
      BY <1>r, <1>w, <2>1, <2>12, <3>1 DEF At, Busy, IsEof, IsData, Eof
    <3> QED  BY <2>10, <3>1, <3>2
  <2>13. LifeOf(q)'
    <3>1. OneStage(q)'
      BY <2>12 DEF OneStage
    <3>2. OnePlace(q)'
      BY <1>e, <1>b, <2>1, <2>11 DEF LifeOf, OnePlace, IsReq
    <3>3. Expected(q)'
      BY <1>r, <1>v, <2>5, <2>12 DEF Expected
    <3>4. \A i \in 1..Len(toR) : ~IsData(toR[i], q)
      BY <1>e, <2>4 DEF LifeOf, DataLate
    <3>5. DataLate(q)'
      BY <2>1, <3>4 DEF DataLate, IsEof, IsData
    <3> QED  BY <3>1, <3>2, <3>3, <3>5 DEF LifeOf
  <2>14. InRange'
    <3>1. \A i \in 1..Len(toS') : toS'[i].type = "REQ" => toS'[i].id + 1 \in Entries
      BY <2>8 DEF Life, InRange, SLess
    <3> QED  BY <1>w, <2>1, <2>7, <3>1 DEF Life, InRange
  <2>15. \A p \in Entries : LifeOf(p)'
    BY <1>e, <2>9, <2>13, CalmOf
  <2>16. Tickets'
    <3>1. async[q].pc \notin {"none", "start", "req"} /\ q <= rI /\ rI \in Nat
      <4>1. async[q].pc \notin {"none", "start", "req"}
        BY <1>v, <2>10 DEF At
      <4> QED  BY <4>1, NatFacts DEF Tickets, ReceiverTypeOK
    <3>2. \A p \in Entries : rFiles[p] # NoId \/ async[p].pc = "req" => p # q
      BY <3>1 DEF Tickets
    <3>3. \A i \in 1..Len(toR) : IsStat(toR[i]) => toR[i].path \in Entries /\ toR[i].path # q
      <4> SUFFICES ASSUME NEW i \in 1..Len(toR), IsStat(toR[i])
                   PROVE  toR[i].path \in Entries /\ toR[i].path # q
        OBVIOUS
      <4>1. toR[i].path \in Entries /\ toR[i].path \in Nat
        BY ElementOfSeq, PacketFields, NatFacts DEF WireTypeOK, IsStat
      <4>2. rI < toR[i].path
        BY DEF StatsInOrder
      <4> QED  BY <2>4, <3>1, <4>1, <4>2
    <3>4. sWalk = "stat" => sNext \in Entries /\ sNext # q
      <4>1. rI < sNext /\ sNext \in Nat
        BY <1>n DEF StatsInOrder
      <4> QED  BY <1>n, <2>4, <3>1, <4>1, NatFacts DEF Entries
    <3>5. \A i \in 1..Len(toR') : IsStat(toR'[i]) /\ fileCanRequestData(toR'[i].path) =>
            sFiles'[toR'[i].path - 1] = toR'[i].path
      BY <2>1, <2>7, <3>3 DEF Tickets
    <3>6. sWalk' = "stat" /\ fileCanRequestData(sNext') => sFiles'[sNext' - 1] = sNext'
      BY <1>w, <2>7, <3>4 DEF Tickets
    <3>7. \A p \in Entries : rFiles[p] # NoId \/ async[p].pc = "req" => sFiles'[p - 1] = p
      BY <2>7, <3>2 DEF Tickets
    <3> QED  BY <1>r, <3>5, <3>6, <3>7 DEF Tickets, IsStat, fileCanRequestData
  <2> QED  BY <2>14, <2>15, <2>16 DEF Life
<1>3. CASE LoopQueues
  <2>1. /\ sRecv = "queue" /\ sRecv' = "check" /\ sPipe' = Append(sPipe, sHandle)
        /\ UNCHANGED <<toR, toS, sFiles>>
    BY <1>3 DEF LoopQueues, wireVars
  <2>q. PICK q \in Entries : q = sHandle.path
    BY <2>1 DEF Life, InRange
  <2>2. /\ Len(sPipe) \in Nat /\ Len(sPipe') = Len(sPipe) + 1
        /\ \A i \in 1..Len(sPipe) : sPipe'[i] = sPipe[i]
        /\ sPipe'[Len(sPipe) + 1].path = q
    BY <1>k, <2>1, <2>q, AppendFacts, LenProperties
  <2>3. \A i \in 1..Len(sPipe') : i + 0 = i /\ (i \in 1..Len(sPipe) \/ i = Len(sPipe) + 1)
    BY <2>2
  <2>4. DLess /\ TLess /\ SLess /\ StillKnown
    BY <2>1, LessFacts, SLessFacts DEF StillKnown
  <2>5. \A p \in Entries : p # q => CalmFor(p)
    <3> SUFFICES ASSUME NEW p \in Entries, p # q PROVE CalmFor(p)
      OBVIOUS
    <3>1. /\ \E d \in Nat : \A i \in 1..Len(toR') :
               IsData(toR'[i], p) => i + d \in 1..Len(toR) /\ toR'[i] = toR[i + d]
          /\ \E d \in Nat : \A i \in 1..Len(toS') :
               IsReq(toS'[i], p) => i + d \in 1..Len(toS) /\ toS'[i] = toS[i + d]
      BY <2>4 DEF DLess, SLess, IsData, IsReq
    <3>2. \A i \in 1..Len(sPipe') :
            sPipe'[i].path = p => i + 0 \in 1..Len(sPipe) /\ sPipe'[i] = sPipe[i + 0]
      BY <2>2, <2>3
    <3>3. \E d \in Nat : \A i \in 1..Len(sPipe') :
            sPipe'[i].path = p => i + d \in 1..Len(sPipe) /\ sPipe'[i] = sPipe[i + d]
      BY <3>2
    <3> QED  BY <1>r, <1>b, <2>1, <3>1, <3>3 DEF CalmFor
  <2>6. At(q, "held")
    BY <2>1, <2>q DEF At
  <2>7. \A u \in Stages : At(q, u) => u = "held"
    BY <1>e, <1>v, <2>6 DEF LifeOf, OneStage
  <2>8. ASSUME NEW u \in Stages, At(q, u)' PROVE u = "queued"
    <3>1. u # "held"
      BY <2>1, <2>8 DEF At
    <3>2. u # "queued" => At(q, u)
      BY <1>r, <1>w, <2>1, <2>8, <3>1 DEF At, Busy, IsEof, IsData, IsReq, Eof
    <3> QED  BY <2>7, <3>1, <3>2
  <2>9. LifeOf(q)'
    <3>1. OneStage(q)'
      BY <2>8 DEF OneStage
    <3>2. \A i \in 1..Len(sPipe) : sPipe[i].path # q
      BY <1>v, <2>7 DEF At
    <3>3. \A i, j \in 1..Len(sPipe') : sPipe'[i].path = q /\ sPipe'[j].path = q => i = j
      BY <2>2, <2>3, <3>2
    <3>4. OnePlace(q)'
      BY <1>e, <1>b, <2>1, <3>3 DEF LifeOf, OnePlace, IsReq
    <3>5. Expected(q)'
      BY <1>e, <1>r, <1>v, <2>6, <2>8 DEF LifeOf, Expected
    <3>6. \A i \in 1..Len(toR) : ~IsData(toR[i], q)
      BY <1>e, <2>6 DEF LifeOf, DataLate
    <3>7. DataLate(q)'
      BY <2>1, <3>6 DEF DataLate, IsEof, IsData
    <3> QED  BY <3>1, <3>4, <3>5, <3>7 DEF LifeOf
  <2>10. InRange'
    <3>1. \A i \in 1..Len(sPipe') : sPipe'[i].path \in Entries
      BY <2>2, <2>3 DEF Life, InRange
    <3> QED  BY <1>w, <2>1, <3>1 DEF Life, InRange
  <2>11. \A p \in Entries : LifeOf(p)'
    BY <1>e, <2>5, <2>9, CalmOf
  <2> QED  BY <1>t, <2>4, <2>10, <2>11 DEF Life
<1> QED  BY <1>1, <1>2, <1>3 DEF SenderLoop

-----------------------------------------------------------------------------
(* The steps of the receiver.                                              *)
LEMMA ComingTyped ==
  ASSUME ReceiverTypeOK
  PROVE  /\ Coming \in Seq(Entries) /\ walkQ \o rPend \in Seq(Entries)
         /\ Len(Coming) \in Nat
         /\ \A i \in 1..Len(Coming) : Coming[i] \in Entries /\ Coming[i] \in Nat
<1>1. walkQ \o rPend \in Seq(Entries)
  BY ConcatProperties DEF ReceiverTypeOK
<1>2. Coming \in Seq(Entries)
  BY <1>1, ConcatProperties DEF Coming, ReceiverTypeOK
<1> HIDE DEF Coming
<1>3. Len(Coming) \in Nat /\ \A i \in 1..Len(Coming) : Coming[i] \in Entries
  BY <1>2, LenProperties, ElementOfSeq
<1> QED  BY <1>1, <1>2, <1>3, NatFacts

(* A step that neither moves an entry towards the diff nor a request.      *)
LEMMA QuietLife ==
  ASSUME LInv, UNCHANGED senderVars, UNCHANGED <<rI, rFiles, rPipes, rParents, async, pipe>>,
         DLess, TLess, SLess, Coming' = Coming, rRecv' = "recv" => rPend' = <<>>
  PROVE  HandedOver' /\ Tickets' /\ Life'
<1> USE DEF LInv, GInv, TInv, SInv
<1>1. UNCHANGED <<sFiles, sRecv, sHandle, sPipe, sWork, sWalk, sNext>>
  BY DEF senderVars, walkVars, pipeVars
<1>2. StillKnown /\ QLess
  BY <1>1, PipeLess DEF StillKnown, SenderTypeOK
<1>3. HandedOver'
  BY ComingTyped, HandedKept DEF ToAsk
<1>4. Tickets'
  BY <1>1, <1>2, TicketsKept DEF SenderTypeOK, WalkCount
<1>5. Life'
  BY <1>1, <1>2, CalmLife DEF Calm
<1> QED  BY <1>3, <1>4, <1>5

LEMMA RecvQuietLife ==
  ASSUME LInv, RecvGetsErr \/ RecvGetsLast \/ RecvGetsFin \/ RecvDrains \/ RecvEOF \/ RecvLoopFails,
         UNCHANGED senderVars
  PROVE  HandedOver' /\ Tickets' /\ Life'
<1> USE DEF LInv, GInv, TInv, SInv
<1>1. /\ UNCHANGED <<rI, rFiles, rPipes, rParents, async, pipe, c2, walkQ, rPend, toS>>
      /\ rRecv' = "recv" => rRecv = "recv"
  BY DEF RecvGetsErr, RecvGetsLast, RecvGetsFin, RecvDrains, RecvEOF, RecvLoopFails, RecvEnds,
         ReceiverGets, ReceiverGetsEOF, RecvFails, wireVars,
         receiverVars, recvVars, reqVars, diskVars, walkerVars
<1>2. toR' = toR \/ \E t : ReceiverGets(t)
  BY DEF RecvGetsErr, RecvGetsLast, RecvGetsFin, RecvDrains, RecvEOF, RecvLoopFails,
         ReceiverGetsEOF, RecvFails, wireVars
<1>3. DLess /\ TLess /\ SLess
  BY <1>1, <1>2, LessFacts, SLessFacts
<1>4. Coming' = Coming /\ (rRecv' = "recv" => rPend' = <<>>)
  BY <1>1 DEF Coming, HandedOver
<1> QED  BY <1>1, <1>3, <1>4, QuietLife

LEMMA MovesLife ==
  ASSUME LInv, RecvUpdates \/ Fill, UNCHANGED senderVars
  PROVE  HandedOver' /\ Tickets' /\ Life'
<1> USE DEF LInv, GInv, TInv, SInv
<1>1. UNCHANGED <<rI, rFiles, rPipes, rParents, async, pipe, toS, toR>>
  BY DEF RecvUpdates, RecvEnds, Fill, wireVars, recvVars, reqVars, diskVars
<1>2. DLess /\ TLess /\ SLess
  BY <1>1, LessFacts, SLessFacts
<1>t. c2 \in Seq(Entries) /\ walkQ \in Seq(Entries) /\ rPend \in Seq(Entries)
  BY DEF ReceiverTypeOK
<1>3. CASE RecvUpdates
  <2>1. CASE UNCHANGED <<rPend, walkQ>> /\ rRecv' = "done"
    <3>1. Coming' = Coming
      BY <1>3, <2>1 DEF Coming, RecvUpdates
    <3> QED  BY <1>1, <1>2, <2>1, <3>1, QuietLife
  <2>2. CASE /\ walkQ' = Append(walkQ, Head(rPend)) /\ rPend' = Tail(rPend)
             /\ rRecv' = IF Len(rPend) = 1 THEN "recv" ELSE "update"
    <3>1. rPend # <<>>
      BY <1>3 DEF RecvUpdates, RecvShape
    <3>2. walkQ' \o rPend' = walkQ \o rPend
      BY <1>t, <2>2, <3>1, FirstMoves
    <3>3. Coming' = Coming
      BY <1>3, <3>2 DEF Coming, RecvUpdates
    <3>4. rRecv' = "recv" => rPend' = <<>>
      <4>1. Tail(rPend) \in Seq(Entries) /\ Len(Tail(rPend)) = Len(rPend) - 1 /\ Len(rPend) \in Nat
        BY <1>t, <3>1, TailFacts
      <4>2. rRecv' = "recv" => Len(rPend) = 1
        BY <2>2
      <4> QED  BY <2>2, <4>1, <4>2, EmptySeq
    <3> QED  BY <1>1, <1>2, <3>3, <3>4, QuietLife
  <2> QED  BY <1>3, <2>1, <2>2 DEF RecvUpdates, RecvEnds
<1>4. CASE Fill
  <2>1. rRecv' = rRecv /\ rPend' = rPend
    BY <1>4 DEF Fill, recvVars
  <2>2. CASE FillEnds \/ FillCanceled
    <3>1. Coming' = Coming
      BY <2>1, <2>2 DEF Coming, FillEnds, FillCanceled
    <3> QED  BY <1>1, <1>2, <2>1, <3>1, QuietLife DEF HandedOver
  <2>3. CASE FillMoves
    <3>1. walkQ # <<>> /\ c2' = Append(c2, Head(walkQ)) /\ walkQ' = Tail(walkQ)
      BY <2>3 DEF FillMoves
    <3> DEFINE rest == walkQ \o rPend
    <3>2. /\ rest \in Seq(Entries) /\ rest # <<>>
          /\ Head(rest) = Head(walkQ) /\ Tail(rest) = Tail(walkQ) \o rPend
      BY <1>t, <3>1, FirstOfConcat
    <3>3. walkQ' \o rPend' = Tail(rest) /\ c2' = Append(c2, Head(rest))
      BY <2>1, <3>1, <3>2
    <3>4. Append(c2, Head(rest)) \o Tail(rest) = c2 \o rest
      <4> HIDE DEF rest
      <4> QED  BY <1>t, <3>2, FirstMoves
    <3>5. Coming' = Coming
      BY <3>3, <3>4 DEF Coming
    <3> QED  BY <1>1, <1>2, <2>1, <3>5, QuietLife DEF HandedOver
  <2> QED  BY <1>4, <2>2, <2>3 DEF Fill
<1> QED  BY <1>3, <1>4

(* metadataParents holds directories only.                                 *)
LEMMA ParentsDirs ==
  ASSUME NEW stack \in Seq(Entries), NEW p \in Entries,
         \A i \in 1..Len(stack) : ~fileCanRequestData(stack[i])
  PROVE  \A i \in 1..Len(ParentsOf(stack, p)) : ~fileCanRequestData(ParentsOf(stack, p)[i])
<1> DEFINE above == {k \in 1..Len(stack) : stack[k] = Parent[p]}
           top   == CHOOSE k \in above : TRUE
           held  == IF above = {} THEN <<>> ELSE SubSeq(stack, 1, top)
<1>1. above # {} => top \in 1..Len(stack)
  OBVIOUS
<1>2. Len(stack) \in Nat /\ \A k \in 1..Len(stack) : stack[k] \in Entries
  BY LenProperties, ElementOfSeq
<1>5. ParentsOf(stack, p) = IF Kind[p] = "dir" THEN Append(held, p) ELSE held
  BY DEF ParentsOf, top
<1> HIDE DEF top
<1>3. above # {} => /\ SubSeq(stack, 1, top) \in Seq(Entries)
                    /\ \A i \in 1..Len(SubSeq(stack, 1, top)) :
                         ~fileCanRequestData(SubSeq(stack, 1, top)[i])
  <2> SUFFICES ASSUME above # {}
               PROVE  /\ SubSeq(stack, 1, top) \in Seq(Entries)
                      /\ \A i \in 1..Len(SubSeq(stack, 1, top)) :
                           ~fileCanRequestData(SubSeq(stack, 1, top)[i])
    OBVIOUS
  <2>1. top \in Int /\ 1 \in Int /\ 1 <= top /\ \A k \in 1..top : k \in 1..Len(stack) /\ stack[k] \in Entries
    BY <1>1, <1>2
  <2>2. /\ SubSeq(stack, 1, top) \in Seq(Entries)
        /\ Len(SubSeq(stack, 1, top)) = top
        /\ \A i \in 1..top : SubSeq(stack, 1, top)[i] = stack[i]
    BY <2>1, SubSeqProperties
  <2> QED  BY <2>1, <2>2
<1>4. held \in Seq(Entries) /\ \A i \in 1..Len(held) : ~fileCanRequestData(held[i])
  <2>1. Len(<<>>) = 0 /\ <<>> \in Seq(Entries)
    BY EmptySeq
  <2> QED  BY <1>3, <2>1
<1> HIDE DEF held
<1>6. CASE Kind[p] # "dir"
  BY <1>4, <1>5, <1>6
<1>7. CASE Kind[p] = "dir"
  <2>1. /\ Len(held) \in Nat /\ Len(Append(held, p)) = Len(held) + 1
        /\ \A i \in 1..Len(held) : Append(held, p)[i] = held[i]
        /\ Append(held, p)[Len(held) + 1] = p
    BY <1>4, AppendFacts, LenProperties
  <2>2. \A i \in 1..Len(Append(held, p)) : i \in 1..Len(held) \/ i = Len(held) + 1
    BY <2>1
  <2>3. ~fileCanRequestData(p)
    BY <1>7 DEF fileCanRequestData
  <2> QED  BY <1>4, <1>5, <1>7, <2>1, <2>2, <2>3
<1> QED  BY <1>6, <1>7

LEMMA StatLife ==
  ASSUME NoneSkipped, LInv, RecvGetsStat, UNCHANGED senderVars
  PROVE  HandedOver' /\ Tickets' /\ Life'
<1> USE DEF LInv, GInv, TInv, SInv
<1>q. PICK p \in Entries : p = Head(toR).path
  BY StatGot, NatFacts DEF senderVars, walkVars, ReceiverTypeOK
<1>1. /\ p = rI + 1 /\ rI \in Nat /\ rI \in Ids /\ p \in Nat /\ rI = p - 1 /\ ~Skipped(p)
      /\ ReceiverGets("STAT") /\ Head(toR) = toR[1] /\ 1 \in 1..Len(toR) /\ IsStat(toR[1])
  <2>1. toR \in Seq(Packets) /\ toR # <<>> /\ IsStat(Head(toR)) /\ ReceiverGets("STAT")
    BY DEF WireTypeOK, RecvGetsStat, ReceiverGets, IsStat
  <2>2. Head(toR) = toR[1] /\ Len(toR) \in Nat /\ Len(toR) > 0
    BY <2>1, TailFacts
  <2>3. p = rI + 1
    BY <1>q, NextStat
  <2>4. rI \in Ids /\ rI \in Nat /\ p \in Nat
    BY NatFacts DEF ReceiverTypeOK
  <2>5. 1 \in 1..Len(toR)
    BY <2>2
  <2>6. rI = p - 1
    BY <2>3, <2>4
  <2> QED  BY <2>1, <2>2, <2>3, <2>4, <2>5, <2>6 DEF NoneSkipped
<1> DEFINE parents == ParentsOf(rParents, p)
<1>2. /\ rI' = rI + 1 /\ rFiles' = Requestable(rFiles, p, rI)
      /\ \/ MetaOnly(p) /\ rParents' = parents /\ UNCHANGED <<rRecv, rPend>>
         \/ /\ ~MetaOnly(p) /\ rRecv' = "update" /\ rParents' = <<>>
            /\ \/ rPend' = Append(parents, p)
               \/ rPend' = <<p>>
      /\ UNCHANGED <<rPipes, async, pipe, c2, walkQ, toS>> /\ rRecv = "recv"
  BY <1>q, <1>1 DEF RecvGetsStat, NextIndex, walkerVars, diskVars, ReceiverGets
<1>3. /\ parents \in Seq(Entries) /\ \A i \in 1..Len(parents) : ~fileCanRequestData(parents[i])
  BY ParentsTypes, ParentsDirs DEF ReceiverTypeOK, HandedOver
<1> HIDE DEF parents
<1>4. UNCHANGED <<sFiles, sRecv, sHandle, sPipe, sWork, sWalk, sNext>>
  BY DEF senderVars, walkVars, pipeVars
<1>5. DLess /\ TLess /\ SLess /\ StillKnown /\ QLess
  BY <1>1, <1>2, <1>4, LessFacts, SLessFacts, PipeLess DEF StillKnown, SenderTypeOK
<1>6. Life'
  BY <1>2, <1>4, <1>5, CalmLife DEF Calm
<1>7. async[p].pc = "none"
  <2>1. ~(p <= rI)
    BY <1>1
  <2> QED  BY <2>1 DEF Tickets
<1>8. /\ \A q \in Entries : q # p => rFiles'[q] = rFiles[q]
      /\ rFiles'[p] \in {rFiles[p], rI}
      /\ rI # NoId
      /\ fileCanRequestData(p) /\ ~MetaOnly(p) => rFiles'[p] = rI
      /\ rFiles'[p] # rFiles[p] => fileCanRequestData(p)
  <2>1. rFiles \in [Entries -> Ids \cup {NoId}]
    BY DEF ReceiverTypeOK
  <2> QED  BY <1>1, <1>2, <2>1 DEF Requestable, NoId
<1>9. Tickets'
  <2>1. fileCanRequestData(p) => sFiles[p - 1] = p
    <3>1. toR[1].path = p /\ 1 \in 1..Len(toR) /\ IsStat(toR[1])
      BY <1>q, <1>1
    <3>2. \A i \in 1..Len(toR) :
            IsStat(toR[i]) /\ fileCanRequestData(toR[i].path) => sFiles[toR[i].path - 1] = toR[i].path
      BY DEF Tickets
    <3> QED  BY <3>1, <3>2
  <2>2. \A q \in Entries : q <= rI => q <= rI'
    BY <1>1, <1>2, NatFacts
  <2>3. p <= rI'
    BY <1>1, <1>2
  <2>4. \A q \in Entries : rFiles'[q] # NoId =>
          q <= rI' /\ sFiles'[q - 1] = q /\ async'[q].pc \in {"none", "start"}
    BY <1>2, <1>4, <1>7, <1>8, <2>1, <2>2, <2>3 DEF Tickets
  <2>5. \A q \in Entries : async'[q].pc = "start" => rFiles'[q] # NoId
    BY <1>2, <1>8 DEF Tickets
  <2>6. PICK d \in Nat : \A i \in 1..Len(toR') :
          IsStat(toR'[i]) => i + d \in 1..Len(toR) /\ toR'[i] = toR[i + d]
    BY <1>5 DEF TLess
  <2>7. \A i \in 1..Len(toR') : IsStat(toR'[i]) /\ fileCanRequestData(toR'[i].path) =>
          sFiles'[toR'[i].path - 1] = toR'[i].path
    BY <1>4, <2>6 DEF Tickets
  <2> QED  BY <1>2, <1>4, <2>2, <2>4, <2>5, <2>7 DEF Tickets, IsStat, fileCanRequestData
<1>10. HandedOver'
  <2>1. rPend = <<>>
    BY <1>2 DEF HandedOver
  <2>2. CASE MetaOnly(p) /\ rParents' = parents /\ UNCHANGED <<rRecv, rPend>>
    <3>1. Coming' = Coming
      BY <1>2, <2>2 DEF Coming
    <3>2. \A q \in Entries : ToAsk(q) => rFiles'[q] # NoId /\ async'[q].pc = "none"
      BY <1>2, <1>8 DEF ToAsk
    <3>3. \A i \in 1..Len(Coming) : Coming[i] \in Entries
      BY ComingTyped
    <3> HIDE DEF Coming
    <3>4. \A i \in 1..Len(Coming) : fileCanRequestData(Coming[i]) =>
            rFiles'[Coming[i]] # NoId /\ async'[Coming[i]].pc = "none"
      BY <3>2, <3>3 DEF HandedOver
    <3>5. \A i \in 1..Len(rParents') : ~fileCanRequestData(rParents'[i])
      BY <1>3, <2>2
    <3> QED  BY <2>1, <2>2, <3>1, <3>4, <3>5 DEF HandedOver, ToAsk, fileCanRequestData
  <2>3. CASE /\ ~MetaOnly(p) /\ rRecv' = "update" /\ rParents' = <<>>
             /\ \/ rPend' = Append(parents, p)
                \/ rPend' = <<p>>
    <3>1. /\ rPend' \in Seq(Entries) /\ Len(rPend') \in Nat /\ rPend'[Len(rPend')] = p
          /\ \A j \in 1..Len(rPend') : j # Len(rPend') => ~fileCanRequestData(rPend'[j])
      <4>1. CASE rPend' = <<p>>
        BY <4>1
      <4>2. CASE rPend' = Append(parents, p)
        <5>1. /\ Append(parents, p) \in Seq(Entries) /\ Len(parents) \in Nat
              /\ Len(Append(parents, p)) = Len(parents) + 1
              /\ \A i \in 1..Len(parents) : Append(parents, p)[i] = parents[i]
              /\ Append(parents, p)[Len(parents) + 1] = p
          BY <1>3, AppendFacts, LenProperties
        <5>2. \A j \in 1..Len(rPend') : j # Len(rPend') => j \in 1..Len(parents)
          BY <4>2, <5>1
        <5> QED  BY <1>3, <4>2, <5>1, <5>2
      <4> QED  BY <2>3, <4>1, <4>2
    <3> DEFINE old == c2 \o walkQ
               new == Coming'
    <3>2. /\ old \in Seq(Entries) /\ Coming = old
          /\ new = old \o rPend'
      <4>1. c2 \in Seq(Entries) /\ walkQ \in Seq(Entries) /\ rPend' \in Seq(Entries)
        BY <3>1 DEF ReceiverTypeOK
      <4>2. walkQ \o <<>> = walkQ
        BY <4>1, ConcatEmptySeq
      <4>3. c2 \o (walkQ \o rPend') = (c2 \o walkQ) \o rPend'
        <5>1. \A a, b, c \in Seq(Entries) : a \o (b \o c) = (a \o b) \o c
          BY ConcatAssociative
        <5> QED  BY <4>1, <5>1
      <4>4. old \in Seq(Entries)
        BY <4>1, ConcatProperties
      <4> QED  BY <1>2, <2>1, <4>2, <4>3, <4>4 DEF Coming
    <3> HIDE DEF old, new
    <3>3. /\ Len(old) \in Nat /\ Len(new) = Len(old) + Len(rPend')
          /\ \A i \in 1..Len(old) + Len(rPend') : new[i] = IF i <= Len(old) THEN old[i] ELSE rPend'[i - Len(old)]
      BY <3>1, <3>2, ConcatProperties, LenProperties
    <3>4. \A i \in 1..Len(new) :
            \/ i \in 1..Len(old) /\ new[i] = old[i]
            \/ ~fileCanRequestData(new[i])
            \/ i = Len(new) /\ new[i] = p
      <4> SUFFICES ASSUME NEW i \in 1..Len(new), ~(i <= Len(old)), i # Len(new)
                   PROVE  ~fileCanRequestData(new[i])
        <5>1. \A i \in 1..Len(new) : i <= Len(old) => i \in 1..Len(old) /\ new[i] = old[i]
          BY <3>3
        <5>2. \A i \in 1..Len(new) : ~(i <= Len(old)) /\ i = Len(new) => new[i] = p
          BY <3>1, <3>3
        <5> QED  BY <5>1, <5>2
      <4>1. /\ new[i] = rPend'[i - Len(old)]
            /\ i - Len(old) \in 1..Len(rPend') /\ i - Len(old) # Len(rPend')
        BY <3>1, <3>3
      <4> QED  BY <3>1, <4>1
    <3>5. /\ \A i \in 1..Len(old) : old[i] \in Entries /\ old[i] \in Nat
          /\ \A i \in 1..Len(old) : fileCanRequestData(old[i]) => ToAsk(old[i])
          /\ \A i, j \in 1..Len(old) :
               i < j /\ fileCanRequestData(old[i]) /\ fileCanRequestData(old[j]) => old[i] < old[j]
      BY <3>2, ComingTyped DEF HandedOver
    <3>6. \A i \in 1..Len(old) : fileCanRequestData(old[i]) => old[i] < p
      BY <1>1, <3>5 DEF ToAsk, Tickets
    <3>7. \A q \in Entries : ToAsk(q) => rFiles'[q] # NoId /\ async'[q].pc = "none"
      BY <1>2, <1>8 DEF ToAsk
    <3>8. \A i \in 1..Len(new) : fileCanRequestData(new[i]) =>
            rFiles'[new[i]] # NoId /\ async'[new[i]].pc = "none"
      BY <1>2, <1>7, <1>8, <2>3, <3>4, <3>5, <3>7
    <3>9. \A i, j \in 1..Len(new) :
            i < j /\ fileCanRequestData(new[i]) /\ fileCanRequestData(new[j]) => new[i] < new[j]
      <4> SUFFICES ASSUME NEW i \in 1..Len(new), NEW j \in 1..Len(new), i < j,
                          fileCanRequestData(new[i]), fileCanRequestData(new[j])
                   PROVE  new[i] < new[j]
        OBVIOUS
      <4>1. i # Len(new)
        BY <3>1, <3>3
      <4>2. i \in 1..Len(old) /\ new[i] = old[i]
        BY <3>4, <4>1
      <4> QED  BY <3>4, <3>5, <3>6, <4>2
    <3>10. Len(rParents') = 0
      BY <2>3, EmptySeq
    <3> QED  BY <2>3, <3>8, <3>9, <3>10 DEF HandedOver, ToAsk, fileCanRequestData, new
  <2> QED  BY <1>2, <2>2, <2>3
<1> QED  BY <1>6, <1>9, <1>10

(* DATA: a pipe is closed only by the end of file.                         *)
LEMMA DataLife ==
  ASSUME LInv, RecvGetsData, UNCHANGED senderVars
  PROVE  HandedOver' /\ Tickets' /\ Life'
<1> USE DEF LInv, GInv, TInv, SInv
<1>1. /\ UNCHANGED <<rI, rFiles, rPipes, rParents, async, c2, walkQ, rPend, toS>>
      /\ rRecv = "recv"
  BY DEF RecvGetsData, ReceiverGets, reqVars, walkerVars
<1>2. UNCHANGED <<sFiles, sRecv, sHandle, sPipe, sWork, sWalk, sNext>>
  BY DEF senderVars, walkVars, pipeVars
<1>3. DLess /\ TLess /\ SLess /\ StillKnown /\ QLess
  BY <1>1, <1>2, LessFacts, SLessFacts, PipeLess DEF RecvGetsData, StillKnown, SenderTypeOK
<1>4. Coming' = Coming /\ (rRecv' = "recv" => rPend' = <<>>)
  BY <1>1 DEF Coming, HandedOver
<1>5. CASE pipe' = pipe
  BY <1>1, <1>3, <1>4, <1>5, QuietLife
<1>6. CASE pipe' # pipe
  <2>1. /\ toR \in Seq(Packets) /\ toR # <<>> /\ Head(toR).type = "DATA" /\ toR' = Tail(toR)
    BY DEF WireTypeOK, RecvGetsData, ReceiverGets
  <2>2. /\ Head(toR) = toR[1] /\ Head(toR) \in Packets /\ Len(toR) \in Nat /\ Len(toR) > 0
        /\ Len(toR') = Len(toR) - 1
        /\ \A i \in 1..Len(toR') : toR'[i] = toR[i + 1]
    BY <2>1, TailFacts
  <2>3. 1 \in 1..Len(toR)
    BY <2>2
  <2>4. Head(toR).id \in Ids /\ Head(toR).id \in Nat
    BY <2>1, <2>2, PacketFields, NatFacts
  <2>q. PICK q \in Entries : q = Head(toR).id + 1
    BY <2>1, <2>2, <2>3 DEF Life, InRange
  <2>5. q \in Nat /\ q # NoPath /\ Head(toR).id = q - 1 /\ IsData(toR[1], q)
    BY <2>1, <2>2, <2>4, <2>q, EntryFacts DEF IsData
  <2>6. LifeOf(q) /\ rPipes[q - 1] = q
    BY <2>3, <2>5 DEF Life, LifeOf, DataLate
  <2>7. /\ Head(toR).data = Eof
        /\ \/ pipe' = [pipe EXCEPT ![q] = "closed"]
           \/ pipe' = [pipe EXCEPT ![q] = "failed"]
    BY <1>6, <2>5, <2>6 DEF RecvGetsData
  <2>8. pipe'[q] # "open" /\ \A p \in Entries : p # q => pipe'[p] = pipe[p]
    BY <2>7 DEF ReceiverTypeOK
  <2>9. IsEof(toR[1], q) /\ At(q, "ended")
    BY <2>2, <2>3, <2>5, <2>7 DEF IsEof, At
  <2>10. \A p \in Entries : p # q => CalmFor(p)
    <3> SUFFICES ASSUME NEW p \in Entries, p # q PROVE CalmFor(p)
      OBVIOUS
    <3>1. /\ \E d \in Nat : \A i \in 1..Len(toR') :
               IsData(toR'[i], p) => i + d \in 1..Len(toR) /\ toR'[i] = toR[i + d]
          /\ \E d \in Nat : \A i \in 1..Len(toS') :
               IsReq(toS'[i], p) => i + d \in 1..Len(toS) /\ toS'[i] = toS[i + d]
          /\ \E d \in Nat : \A i \in 1..Len(sPipe') :
               sPipe'[i].path = p => i + d \in 1..Len(sPipe) /\ sPipe'[i] = sPipe[i + d]
      BY <1>3 DEF DLess, SLess, QLess, IsData, IsReq
    <3>2. \A w \in Workers : Busy(w, p)' => Busy(w, p)
      BY <1>2 DEF Busy
    <3> QED  BY <1>1, <1>2, <2>8, <3>1, <3>2 DEF CalmFor
  <2>11. \A u \in Stages : At(q, u) => u = "ended"
    BY <2>6, <2>9 DEF LifeOf, OneStage, Stages
  <2>12. ASSUME NEW u \in Stages, At(q, u)' PROVE u = "ended"
    <3>1. u # "ended" => At(q, u)
      BY <1>1, <1>2, <2>12 DEF At, Busy, IsReq
    <3> QED  BY <2>11, <3>1
  <2>13. LifeOf(q)'
    <3>1. OneStage(q)'
      BY <2>12 DEF OneStage
    <3>2. OnePlace(q)'
      BY <1>1, <1>2, <2>6 DEF LifeOf, OnePlace, IsReq, Busy
    <3>3. Expected(q)'
      BY <2>12 DEF Expected, Stages
    <3>4. ASSUME NEW j \in 1..Len(toR') PROVE ~IsData(toR'[j], q)
      <4>1. 1 < j + 1 /\ j + 1 \in 1..Len(toR) /\ toR'[j] = toR[j + 1]
        BY <2>2
      <4> QED  BY <2>3, <2>6, <2>9, <4>1 DEF LifeOf, DataLate
    <3>5. DataLate(q)'
      BY <3>4 DEF DataLate, IsEof, IsData
    <3> QED  BY <3>1, <3>2, <3>3, <3>5 DEF LifeOf
  <2>14. InRange'
    <3>1. \A i \in 1..Len(toR') : toR'[i].type = "DATA" => toR'[i].id + 1 \in Entries
      BY <1>3 DEF Life, InRange, DLess
    <3> QED  BY <1>1, <1>2, <3>1 DEF Life, InRange
  <2>15. \A p \in Entries : LifeOf(p)'
    BY <2>10, <2>13, CalmOf DEF Life
  <2>16. Tickets'
    BY <1>1, <1>2, <1>3, TicketsKept DEF SenderTypeOK, WalkCount
  <2>17. HandedOver'
    BY <1>1, <1>4, ComingTyped, HandedKept DEF ToAsk
  <2> QED  BY <2>14, <2>15, <2>16, <2>17 DEF Life
<1> QED  BY <1>5, <1>6

(* The diff takes the first of what is coming.                             *)
LEMMA DiffNextLife ==
  ASSUME LInv, DiffNext, UNCHANGED <<senderVars, recvVars, reqVars, wireVars>>
  PROVE  HandedOver' /\ Tickets' /\ Life'
<1> USE DEF LInv, GInv, TInv, SInv
<1>1. UNCHANGED <<rRecv, rPend, rI, rParents, rFiles, rPipes, toR, toS, pipe, walkQ>>
  BY DEF recvVars, reqVars, wireVars, DiffNext
<1>2. UNCHANGED <<sFiles, sRecv, sHandle, sPipe, sWork, sWalk, sNext>>
  BY DEF senderVars, walkVars, pipeVars
<1>3. DLess /\ TLess /\ SLess /\ StillKnown /\ QLess
  BY <1>1, <1>2, LessFacts, SLessFacts, PipeLess DEF StillKnown, SenderTypeOK
<1>t. c2 \in Seq(Entries) /\ walkQ \o rPend \in Seq(Entries) /\ c2 # <<>>
  BY ComingTyped DEF ReceiverTypeOK, DiffNext
<1>4. /\ Coming \in Seq(Entries) /\ Coming # <<>> /\ Head(Coming) = Head(c2)
      /\ Coming' = Tail(Coming) /\ Head(c2) \in Entries
  <2>1. c2' = Tail(c2) /\ walkQ' \o rPend' = walkQ \o rPend
    BY <1>1 DEF DiffNext
  <2>2. Head(c2) \in Entries
    BY <1>t, TailFacts
  <2> DEFINE rest == walkQ \o rPend
  <2>3. Coming' = Tail(c2) \o rest /\ Coming = c2 \o rest /\ rest \in Seq(Entries)
    BY <1>t, <2>1 DEF Coming
  <2> HIDE DEF rest
  <2>4. /\ c2 \o rest \in Seq(Entries) /\ c2 \o rest # <<>>
        /\ Head(c2 \o rest) = Head(c2) /\ Tail(c2 \o rest) = Tail(c2) \o rest
    BY <1>t, <2>3, FirstOfConcat
  <2> QED  BY <2>2, <2>3, <2>4
<1>q. PICK p \in Entries : p = Head(c2)
  BY <1>4
<1>5. \/ async' = async
      \/ Kind[p] = "file" /\ async' = [async EXCEPT ![p] = [pc |-> "start", id |-> NoId]]
  BY <1>q DEF DiffNext, HandleChange
<1> DEFINE new == Coming'
<1>6. /\ Len(Coming) \in Nat /\ Len(Coming) > 0 /\ Coming[1] = p /\ Len(new) = Len(Coming) - 1
      /\ \A i \in 1..Len(new) : new[i] = Coming[i + 1]
      /\ \A i \in 1..Len(Coming) : Coming[i] \in Entries /\ Coming[i] \in Nat
  <2> HIDE DEF Coming
  <2> QED  BY <1>4, <1>q, TailFacts, ComingTyped
<1>h. /\ \A i \in 1..Len(Coming) : fileCanRequestData(Coming[i]) => ToAsk(Coming[i])
      /\ \A i, j \in 1..Len(Coming) :
           i < j /\ fileCanRequestData(Coming[i]) /\ fileCanRequestData(Coming[j])
             => Coming[i] < Coming[j]
  BY DEF HandedOver
<1>p. p \in Nat
  BY NatFacts
<1> HIDE DEF Coming, new
<1>7. 1 \in 1..Len(Coming) /\ \A i \in 1..Len(new) : i + 1 \in 1..Len(Coming) /\ 1 < i + 1
  BY <1>6
<1>8. Kind[p] = "file" => fileCanRequestData(p) /\ ToAsk(p)
  BY <1>6, <1>7, <1>h DEF fileCanRequestData
<1>9. /\ \A q \in Entries : q # p => async'[q] = async[q]
      /\ \/ async'[p].pc = async[p].pc /\ async'[p].id = async[p].id
         \/ async'[p].pc = "start" /\ async[p].pc = "none" /\ rFiles[p] # NoId
  BY <1>5, <1>8 DEF ReceiverTypeOK, ToAsk
<1>a. async'[p].pc # async[p].pc => fileCanRequestData(p)
  BY <1>5, <1>8
<1>10. HandedOver'
  <2>1. \A i \in 1..Len(new) : fileCanRequestData(new[i]) =>
          rFiles'[new[i]] # NoId /\ async'[new[i]].pc = "none"
    <3> SUFFICES ASSUME NEW i \in 1..Len(new), fileCanRequestData(new[i])
                 PROVE  rFiles'[new[i]] # NoId /\ async'[new[i]].pc = "none"
      OBVIOUS
    <3>1. new[i] \in Entries /\ new[i] \in Nat /\ ToAsk(new[i])
      BY <1>6, <1>7, <1>h
    <3>2. fileCanRequestData(p) => p < new[i]
      BY <1>6, <1>7, <1>h
    <3> QED  BY <1>1, <1>9, <1>a, <1>p, <3>1, <3>2 DEF ToAsk
  <2>2. \A i, j \in 1..Len(new) :
          i < j /\ fileCanRequestData(new[i]) /\ fileCanRequestData(new[j]) => new[i] < new[j]
    <3> TAKE i, j \in 1..Len(new)
    <3>1. i < j => i + 1 < j + 1
      BY <1>6
    <3> QED  BY <1>6, <1>7, <1>h, <3>1
  <2> QED  BY <1>1, <2>1, <2>2 DEF HandedOver, ToAsk, fileCanRequestData, new
<1>11. Tickets'
  <2>1. \A q \in Entries : rFiles'[q] # NoId =>
          q <= rI' /\ sFiles'[q - 1] = q /\ async'[q].pc \in {"none", "start"}
    BY <1>1, <1>2, <1>9 DEF Tickets
  <2>2. \A q \in Entries : async'[q].pc # "none" => q <= rI'
    BY <1>1, <1>9 DEF Tickets
  <2>3. \A q \in Entries : async'[q].pc = "start" => rFiles'[q] # NoId
    BY <1>1, <1>9 DEF Tickets
  <2>4. /\ \A q \in Entries : async'[q].pc = "req" => sFiles'[q - 1] = q /\ rPipes'[q - 1] = q
        /\ \A q \in Entries : async'[q].pc \in {"req", "wait"} => async'[q].id = q - 1
    BY <1>1, <1>2, <1>9 DEF Tickets
  <2>5. \A i \in 1..Len(toR') :
         IsStat(toR'[i]) /\ fileCanRequestData(toR'[i].path) => sFiles'[toR'[i].path - 1] = toR'[i].path
    BY <1>1, <1>2 DEF Tickets
  <2> QED  BY <1>2, <2>1, <2>2, <2>3, <2>4, <2>5 DEF Tickets, IsStat, fileCanRequestData
<1>12. Life'
  <2>1. \A q \in Entries : async'[q].pc \in {"none", "start", "req"} =>
         async[q].pc \in {"none", "start", "req"}
    BY <1>9
  <2> QED  BY <1>1, <1>2, <1>3, <2>1, CalmLife DEF Calm
<1> QED  BY <1>10, <1>11, <1>12

LEMMA DiffLife ==
  ASSUME LInv, Diff, UNCHANGED senderVars
  PROVE  HandedOver' /\ Tickets' /\ Life'
<1> USE DEF LInv, GInv, TInv, SInv
<1>1. CASE DiffApplies /\ DiffNext
  BY <1>1, DiffNextLife DEF DiffApplies
<1>2. CASE \/ DiffApplies /\ (DiffCanceled \/ DiffJoins \/ DiffWaits)
           \/ DiffSendsFin \/ DiffSendsErr
  <2>1. UNCHANGED <<rI, rFiles, rPipes, rParents, async, pipe, rRecv, rPend, c2, walkQ, toR>>
    BY <1>2 DEF DiffApplies, DiffCanceled, DiffJoins, DiffWaits, DiffSendsFin, DiffSendsErr,
                SendToSender, SendFails, wireVars, recvVars, reqVars, walkerVars, diskVars
  <2>2. SLess
    <3>1. FinPacket \in Packets /\ FinPacket.type # "REQ"
      BY PacketsBuilt DEF FinPacket
    <3>2. ErrPacket(ReportedErr(diffErr)) \in Packets /\ ErrPacket(ReportedErr(diffErr)).type # "REQ"
      <4>1. ReportedErr(diffErr) \in Causes
        BY DEF ReportedErr, ReceiverTypeOK
      <4> QED  BY <4>1, PacketsBuilt DEF ErrPacket
    <3>3. toS' = toS \/ SendToSender(FinPacket) \/ SendToSender(ErrPacket(ReportedErr(diffErr)))
      BY <1>2 DEF DiffApplies, DiffSendsFin, DiffSendsErr, SendFails, wireVars
    <3> QED  BY <3>1, <3>2, <3>3, SLessFacts
  <2>3. Coming' = Coming /\ (rRecv' = "recv" => rPend' = <<>>)
    BY <2>1 DEF Coming, HandedOver
  <2> QED  BY <2>1, <2>2, <2>3, LessFacts, QuietLife
<1> QED  BY <1>1, <1>2 DEF Diff, DiffApplies

(* The goroutine of a file asks once, with the id both sides know.         *)
LEMMA AsyncLife ==
  ASSUME LInv, NEW p \in Entries, Async(p), UNCHANGED senderVars
  PROVE  HandedOver' /\ Tickets' /\ Life'
<1> USE DEF LInv, GInv, TInv, SInv
<1>1. UNCHANGED <<rRecv, rPend, rI, rParents, c2, walkQ, toR, pipe>>
  BY DEF Async, AsyncRegisters, AsyncSendsReq, AsyncWaits, AsyncFinishes, SendToSender, SendFails,
         wireVars, recvVars, walkerVars
<1>2. UNCHANGED <<sFiles, sRecv, sHandle, sPipe, sWork, sWalk, sNext>>
  BY DEF senderVars, walkVars, pipeVars
<1>3. DLess /\ TLess /\ StillKnown /\ QLess
  BY <1>1, <1>2, LessFacts, PipeLess DEF StillKnown, SenderTypeOK
<1>4. Coming' = Coming /\ (rRecv' = "recv" => rPend' = <<>>) /\ rParents' = rParents
  BY <1>1 DEF Coming, HandedOver
<1>t. /\ async \in [Entries -> AsyncSet] /\ async[p] \in AsyncSet
      /\ rFiles \in [Entries -> Ids \cup {NoId}] /\ rPipes \in [Ids -> Entries \cup {NoPath}]
  BY DEF ReceiverTypeOK
<1>e. p \in Nat /\ p - 1 \in Ids /\ p # NoPath /\ \A q \in Entries : q # p => q - 1 # p - 1 /\ q - 1 \in Ids
  BY EntryFacts
<1>5. async[p].pc \in {"start", "req", "wait", "finish"}
  BY DEF Async, AsyncRegisters, AsyncSendsReq, AsyncWaits, AsyncFinishes
<1>v. {"asked", "held", "queued", "served", "unasked", "ended"} = Stages
  BY DEF Stages
(* What the step makes of the other files, and of its own.                 *)
<1>6. /\ \A q \in Entries : q # p => async'[q] = async[q] /\ rFiles'[q] = rFiles[q]
      /\ \A q \in Entries : q # p => rPipes'[q - 1] = rPipes[q - 1]
      /\ \/ /\ async[p].pc = "start" /\ rFiles[p] = p - 1 /\ rFiles[p] # NoId
            /\ async'[p].pc = "req" /\ async'[p].id = p - 1
            /\ rFiles'[p] = NoId /\ rPipes'[p - 1] = p /\ toS' = toS
         \/ /\ async[p].pc = "req" /\ async'[p].pc = "wait" /\ async'[p].id = p - 1
            /\ SendToSender(ReqPacket(p - 1)) /\ UNCHANGED <<rFiles, rPipes>>
         \/ /\ async[p].pc \in {"req", "wait", "finish"} /\ async'[p].pc \in {"failed", "done"}
            /\ UNCHANGED <<rFiles, rPipes, toS>>
         \/ /\ async[p].pc = "wait" /\ async'[p].pc = "finish" /\ pipe[p] = "closed"
            /\ rPipes'[p - 1] = NoPath /\ UNCHANGED <<rFiles, toS>>
  <2>1. CASE AsyncRegisters(p)
    <3>1. async[p].pc = "start" /\ rFiles[p] # NoId /\ rFiles[p] = p - 1
      BY <2>1 DEF AsyncRegisters, Tickets, ReceiverIds
    <3> QED  BY <1>t, <1>e, <2>1, <3>1 DEF AsyncRegisters, wireVars
  <2>2. CASE AsyncSendsReq(p)
    <3>1. async[p].pc = "req" /\ async[p].id = p - 1
      BY <2>2 DEF AsyncSendsReq, Tickets
    <3>2. CASE SendToSender(ReqPacket(async[p].id)) /\ async' = [async EXCEPT ![p].pc = "wait"]
      BY <1>t, <2>2, <3>1, <3>2 DEF AsyncSendsReq, AsyncSet, reqVars
    <3>3. CASE SendFails /\ async' = [async EXCEPT ![p].pc = "failed"]
      BY <1>t, <2>2, <3>1, <3>3 DEF AsyncSendsReq, AsyncSet, reqVars, SendFails, wireVars
    <3> QED  BY <2>2, <3>2, <3>3 DEF AsyncSendsReq, AsyncFails
  <2>3. CASE AsyncWaits(p)
    <3>1. async[p].pc = "wait" /\ async[p].id = p - 1 /\ UNCHANGED <<rFiles, toS>>
      BY <2>3 DEF AsyncWaits, Tickets, wireVars
    <3>2. CASE /\ pipe[p] = "closed" /\ rPipes' = [rPipes EXCEPT ![p - 1] = NoPath]
               /\ async' = [async EXCEPT ![p].pc = "finish"]
      BY <1>t, <1>e, <3>1, <3>2 DEF AsyncSet
    <3>3. CASE rPipes' = rPipes /\ async' = [async EXCEPT ![p].pc = "failed"]
      BY <1>t, <3>1, <3>3 DEF AsyncSet
    <3> QED  BY <2>3, <3>1, <3>2, <3>3 DEF AsyncWaits, AsyncFails
  <2>4. CASE AsyncFinishes(p)
    <3>1. async[p].pc = "finish" /\ UNCHANGED <<rFiles, rPipes, toS>>
      BY <2>4 DEF AsyncFinishes, wireVars, reqVars
    <3>2. async' = [async EXCEPT ![p].pc = "done"] \/ async' = [async EXCEPT ![p].pc = "failed"]
      BY <2>4 DEF AsyncFinishes, AsyncFails
    <3> QED  BY <1>t, <3>1, <3>2 DEF AsyncSet
  <2> QED  BY <2>1, <2>2, <2>3, <2>4 DEF Async
<1>7. HandedOver'
  <2>1. \A q \in Entries : ToAsk(q) => rFiles'[q] # NoId /\ async'[q].pc = "none"
    BY <1>5, <1>6 DEF ToAsk
  <2> QED  BY <1>4, <2>1, ComingTyped, HandedKept
<1>8. Tickets'
  <2>1. async[p].pc # "start" => rFiles[p] = NoId
    BY <1>5 DEF Tickets
  <2>2. async[p].pc = "start" => sFiles[p - 1] = p
    BY DEF Tickets
  <2>3. \A q \in Entries : rFiles'[q] # NoId =>
          q <= rI' /\ sFiles'[q - 1] = q /\ async'[q].pc \in {"none", "start"}
    BY <1>1, <1>2, <1>6, <2>1 DEF Tickets
  <2>4. \A q \in Entries : async'[q].pc # "none" => q <= rI'
    BY <1>1, <1>5, <1>6 DEF Tickets
  <2>5. \A q \in Entries : async'[q].pc = "start" => rFiles'[q] # NoId
    BY <1>6 DEF Tickets
  <2>6. \A q \in Entries : async'[q].pc = "req" => sFiles'[q - 1] = q /\ rPipes'[q - 1] = q
    BY <1>2, <1>6, <2>2 DEF Tickets
  <2>7. \A q \in Entries : async'[q].pc \in {"req", "wait"} => async'[q].id = q - 1
    BY <1>6 DEF Tickets
  <2>8. \A i \in 1..Len(toR') :
         IsStat(toR'[i]) /\ fileCanRequestData(toR'[i].path) => sFiles'[toR'[i].path - 1] = toR'[i].path
    BY <1>1, <1>2 DEF Tickets
  <2> QED  BY <1>2, <2>3, <2>4, <2>5, <2>6, <2>7, <2>8 DEF Tickets, IsStat, fileCanRequestData
<1>b. \A q \in Entries, w \in Workers : Busy(w, q)' => Busy(w, q)
  BY <1>2 DEF Busy
<1>9. CASE toS' = toS /\ rPipes'[p - 1] \in {rPipes[p - 1], p}
  <2>1. SLess
    BY <1>9, SLessFacts
  <2>2. \A q \in Entries : async'[q].pc \in {"none", "start", "req"} => async[q].pc \in {"none", "start", "req"}
    BY <1>6
  <2>3. \A q \in Entries : rPipes'[q - 1] \in {rPipes[q - 1], q}
    BY <1>6, <1>9
  <2> QED  BY <1>1, <1>2, <1>3, <1>7, <1>8, <2>1, <2>2, <2>3, CalmLife DEF Calm
<1>d. \A q \in Entries : \E d \in Nat : \A i \in 1..Len(toR') :
         IsData(toR'[i], q) => i + d \in 1..Len(toR) /\ toR'[i] = toR[i + d]
  BY <1>3 DEF DLess, IsData
<1>q. \A q \in Entries : \E d \in Nat : \A i \in 1..Len(sPipe') :
         sPipe'[i].path = q => i + d \in 1..Len(sPipe) /\ sPipe'[i] = sPipe[i + d]
  BY <1>3 DEF QLess
<1>10. CASE /\ async[p].pc = "wait" /\ async'[p].pc = "finish" /\ pipe[p] = "closed"
            /\ UNCHANGED <<rFiles, toS>>
  <2>1. At(p, "ended")
    BY <1>10 DEF At
  <2>2. \A u \in Stages : At(p, u) => u = "ended"
    BY <2>1 DEF Life, LifeOf, OneStage, Stages
  <2>3. ASSUME NEW u \in Stages, At(p, u)' PROVE u = "ended"
    <3>1. u # "ended" => At(p, u)
      BY <1>2, <1>10, <2>3 DEF At, Busy, IsReq
    <3> QED  BY <2>2, <3>1
  <2>4. LifeOf(p)'
    <3>1. OneStage(p)'
      BY <2>3 DEF OneStage
    <3>2. OnePlace(p)'
      BY <1>2, <1>10 DEF Life, LifeOf, OnePlace, IsReq, Busy
    <3>3. Expected(p)'
      BY <2>3 DEF Expected, Stages
    <3>4. \A i \in 1..Len(toR') : ~IsData(toR'[i], p)
      BY <1>1, <1>10 DEF Life, LifeOf, DataLate
    <3>5. DataLate(p)'
      BY <3>4 DEF DataLate, IsEof, IsData
    <3> QED  BY <3>1, <3>2, <3>3, <3>5 DEF LifeOf
  <2>5. SLess
    BY <1>10, SLessFacts
  <2>6. \A q \in Entries : \E d \in Nat : \A i \in 1..Len(toS') :
          IsReq(toS'[i], q) => i + d \in 1..Len(toS) /\ toS'[i] = toS[i + d]
    BY <2>5 DEF SLess, IsReq
  <2>7. \A q \in Entries : q # p => CalmFor(q)
    BY <1>1, <1>2, <1>6, <1>b, <1>d, <1>q, <2>6 DEF CalmFor
  <2>8. \A q \in Entries : LifeOf(q)'
    BY <2>4, <2>7, CalmOf DEF Life
  <2>9. InRange'
    BY <1>1, <1>2, <1>10 DEF Life, InRange
  <2> QED  BY <1>7, <1>8, <2>8, <2>9 DEF Life
<1>11. CASE /\ async[p].pc = "req" /\ async'[p].pc = "wait"
            /\ SendToSender(ReqPacket(p - 1)) /\ UNCHANGED <<rFiles, rPipes>>
  <2>1. toS \in Seq(Packets) /\ Len(toS) \in Nat /\ toS' = Append(toS, ReqPacket(p - 1))
        /\ ReqPacket(p - 1) \in Packets /\ IsReq(ReqPacket(p - 1), p)
    BY <1>e, <1>11, PacketsBuilt, LenProperties DEF WireTypeOK, SendToSender, ReqPacket, IsReq
  <2>2. /\ Len(toS') = Len(toS) + 1
        /\ \A i \in 1..Len(toS) : toS'[i] = toS[i]
        /\ toS'[Len(toS) + 1] = ReqPacket(p - 1)
    BY <2>1, AppendFacts
  <2>3. \A i \in 1..Len(toS') : i + 0 = i /\ (i \in 1..Len(toS) \/ i = Len(toS) + 1)
    BY <2>1, <2>2
  <2>4. ASSUME NEW q \in Entries, q # p
        PROVE  \E d \in Nat : \A i \in 1..Len(toS') :
                 IsReq(toS'[i], q) => i + d \in 1..Len(toS) /\ toS'[i] = toS[i + d]
    <3>1. ~IsReq(ReqPacket(p - 1), q)
      BY <1>e, <2>4 DEF IsReq, ReqPacket
    <3>2. \A i \in 1..Len(toS') : IsReq(toS'[i], q) => i + 0 \in 1..Len(toS) /\ toS'[i] = toS[i + 0]
      BY <2>2, <2>3, <3>1
    <3> QED  BY <3>2
  <2>5. \A q \in Entries : q # p => CalmFor(q)
    BY <1>1, <1>2, <1>6, <1>b, <1>d, <1>q, <2>4 DEF CalmFor
  <2>6. At(p, "unasked") /\ sFiles[p - 1] = p /\ rPipes[p - 1] = p
    BY <1>11 DEF At, Tickets
  <2>7. \A u \in Stages : At(p, u) => u = "unasked"
    BY <1>v, <2>6 DEF Life, LifeOf, OneStage
  <2>8. ASSUME NEW u \in Stages, At(p, u)' PROVE u = "asked"
    <3>1. u # "unasked"
      BY <1>11, <2>8 DEF At
    <3>2. u # "asked" => At(p, u)
      BY <1>1, <1>2, <2>8, <3>1 DEF At, Busy, IsEof, IsData, Eof
    <3> QED  BY <2>7, <3>1, <3>2
  <2>9. LifeOf(p)'
    <3>1. OneStage(p)'
      BY <2>8 DEF OneStage
    <3>2. \A i \in 1..Len(toS) : ~IsReq(toS[i], p)
      BY <1>v, <2>7 DEF At
    <3>3. \A i, j \in 1..Len(toS') : IsReq(toS'[i], p) /\ IsReq(toS'[j], p) => i = j
      BY <2>2, <2>3, <3>2
    <3>4. OnePlace(p)'
      BY <1>2, <3>3 DEF Life, LifeOf, OnePlace, IsReq, Busy
    <3>5. Expected(p)'
      BY <1>2, <1>11, <2>6, <2>8 DEF Expected, Stages
    <3>6. \A i \in 1..Len(toR') : ~IsData(toR'[i], p)
      BY <1>1, <2>6 DEF Life, LifeOf, DataLate
    <3>7. DataLate(p)'
      BY <3>6 DEF DataLate, IsEof, IsData
    <3> QED  BY <3>1, <3>4, <3>5, <3>7 DEF LifeOf
  <2>10. InRange'
    <3>1. (p - 1) + 1 = p /\ ReqPacket(p - 1).id = p - 1
      BY <1>e DEF ReqPacket
    <3>2. \A i \in 1..Len(toS') : toS'[i].type = "REQ" => toS'[i].id + 1 \in Entries
      BY <2>2, <2>3, <3>1 DEF Life, InRange
    <3> QED  BY <1>1, <1>2, <3>2 DEF Life, InRange
  <2>11. \A q \in Entries : LifeOf(q)'
    BY <2>5, <2>9, CalmOf DEF Life
  <2> QED  BY <1>7, <1>8, <2>10, <2>11 DEF Life
<1> QED  BY <1>6, <1>9, <1>10, <1>11

-----------------------------------------------------------------------------
LEMMA InitLife == Init => LInv
<1> SUFFICES ASSUME Init PROVE LInv
  OBVIOUS
<1>0. /\ toR = <<>> /\ toS = <<>> /\ sPipe = <<>> /\ c2 = <<>> /\ walkQ = <<>> /\ rPend = <<>>
      /\ rParents = <<>> /\ sRecv = "check" /\ sWalk = "visit"
      /\ sWork = [w \in Workers |-> Idle]
      /\ async = [p \in Entries |-> NoAsync] /\ pipe = [p \in Entries |-> "open"]
      /\ rFiles = [p \in Entries |-> NoId]
  BY DEF Init, WireInit, SenderInit, ReceiverInit
<1>1. /\ Len(toR) = 0 /\ Len(toS) = 0 /\ Len(sPipe) = 0 /\ Len(rParents) = 0
      /\ \A w \in Workers : sWork[w].pc = "idle"
      /\ \A p \in Entries : async[p].pc = "none" /\ pipe[p] = "open" /\ rFiles[p] = NoId
  BY <1>0, EmptySeq DEF Idle, NoAsync
<1>2. Len(Coming) = 0
  <2>1. walkQ \o rPend = <<>> /\ c2 \o <<>> = <<>>
    BY <1>0, EmptySeq, ConcatEmptySeq
  <2> QED  BY <2>1, EmptySeq DEF Coming
<1>3. HandedOver
  <2> HIDE DEF Coming
  <2> QED  BY <1>0, <1>1, <1>2 DEF HandedOver
<1>4. Tickets
  BY <1>0, <1>1 DEF Tickets
<1>5. \A p \in Entries : \A s \in Stages : At(p, s) => s = "unasked"
  BY <1>0, <1>1 DEF At, Busy
<1>6. \A p \in Entries : LifeOf(p)
  BY <1>1, <1>5 DEF LifeOf, OneStage, OnePlace, Expected, DataLate, Busy, Stages
<1>7. InRange
  BY <1>0, <1>1 DEF InRange
<1> QED  BY <1>3, <1>4, <1>6, <1>7, InitIds DEF LInv, Life

LEMMA StepLife ==
  ASSUME NoneSkipped, LInv, [Next]_vars
  PROVE  LInv'
<1>0. GInv'
  BY StepIds DEF LInv
<1>1. CASE SenderStep /\ UNCHANGED receiverVars
  <2>1. HandedOver'
    BY <1>1, HandedBySender DEF LInv
  <2>2. Tickets' /\ Life'
    BY <1>1, WalkLife, WorkerLife, LoopLife DEF SenderStep
  <2> QED  BY <1>0, <2>1, <2>2 DEF LInv
<1>2. CASE ReceiverStep /\ UNCHANGED senderVars
  <2>1. CASE ReceiveReturns
    <3>1. UNCHANGED <<rI, rFiles, rPipes, rParents, async, pipe, rRecv, rPend, c2, walkQ, toR, toS>>
      BY <2>1 DEF ReceiveReturns, recvVars, reqVars, walkerVars, diskVars
    <3>2. Coming' = Coming /\ (rRecv' = "recv" => rPend' = <<>>)
      BY <3>1 DEF Coming, LInv, HandedOver
    <3>3. DLess /\ TLess /\ SLess
      BY <3>1, LessFacts, SLessFacts DEF LInv, GInv, TInv, SInv
    <3>4. HandedOver' /\ Tickets' /\ Life'
      BY <1>2, <3>1, <3>2, <3>3, QuietLife
    <3> QED  BY <1>0, <3>4 DEF LInv
  <2>2. CASE ReceiverLoop
    <3>1. HandedOver' /\ Tickets' /\ Life'
      BY <1>2, <2>2, RecvQuietLife, MovesLife, StatLife, DataLife DEF ReceiverLoop
    <3> QED  BY <1>0, <3>1 DEF LInv
  <2>3. ASSUME Fill \/ Diff \/ \E p \in Entries : Async(p) PROVE LInv'
    <3>1. HandedOver' /\ Tickets' /\ Life'
      BY <1>2, <2>3, MovesLife, DiffLife, AsyncLife
    <3> QED  BY <1>0, <3>1 DEF LInv
  <2> QED  BY <1>2, <2>1, <2>2, <2>3 DEF ReceiverStep
<1>3. CASE ConnFails \/ UNCHANGED vars
  <2>1. /\ UNCHANGED senderVars
        /\ UNCHANGED <<rI, rFiles, rPipes, rParents, async, pipe, rRecv, rPend, c2, walkQ, toR, toS>>
    BY <1>3 DEF ConnFails, vars, wireVars, receiverVars, recvVars, reqVars, walkerVars, diskVars
  <2>2. Coming' = Coming /\ (rRecv' = "recv" => rPend' = <<>>)
    BY <2>1 DEF Coming, LInv, HandedOver
  <2>3. DLess /\ TLess /\ SLess
    BY <2>1, LessFacts, SLessFacts DEF LInv, GInv, TInv, SInv
  <2>4. HandedOver' /\ Tickets' /\ Life'
    BY <2>1, <2>2, <2>3, QuietLife
  <2> QED  BY <1>0, <2>4 DEF LInv
<1> QED  BY <1>1, <1>2, <1>3 DEF Next, Over

-----------------------------------------------------------------------------
(* No error of either side is one of protocol, nor is one on its way.      *)
NoneInvalid ==
    /\ sErr # "invalid id" /\ sWalkErr # "invalid id"
    /\ rErr # "invalid request" /\ diffErr # "invalid request" /\ egErr # "invalid request"

(* The file asked for is registered, and data has somewhere to go.         *)
LEMMA RegisteredWhenAsked ==
  ASSUME LInv, LoopGetsReq
  PROVE  sFiles[Head(toS).id] # NoPath
<1>1. /\ toS \in Seq(Packets) /\ toS # <<>> /\ Head(toS).type = "REQ"
  BY DEF LoopGetsReq, SenderGets, LInv, GInv, TInv, SInv, WireTypeOK
<1>2. Head(toS) \in Packets /\ Head(toS) = toS[1] /\ Len(toS) \in Nat /\ Len(toS) > 0
  BY <1>1, TailFacts
<1>3. 1 \in 1..Len(toS)
  BY <1>2
<1>4. Head(toS).id \in Ids /\ Head(toS).id \in Nat
  BY <1>1, <1>2, PacketFields, NatFacts
<1>5. PICK q \in Entries : q = Head(toS).id + 1
  BY <1>1, <1>2, <1>3 DEF LInv, Life, InRange
<1>6. q - 1 = Head(toS).id /\ q # NoPath /\ IsReq(toS[1], q)
  BY <1>1, <1>2, <1>4, <1>5, EntryFacts DEF IsReq
<1>7. At(q, "asked")
  BY <1>3, <1>6 DEF At
<1> QED  BY <1>6, <1>7 DEF LInv, Life, LifeOf, Expected

LEMMA PipeWhenDelivered ==
  ASSUME LInv, RecvGetsData
  PROVE  rPipes[Head(toR).id] # NoPath
<1>1. /\ toR \in Seq(Packets) /\ toR # <<>> /\ Head(toR).type = "DATA"
  BY DEF RecvGetsData, ReceiverGets, LInv, GInv, TInv, SInv, WireTypeOK
<1>2. Head(toR) \in Packets /\ Head(toR) = toR[1] /\ Len(toR) \in Nat /\ Len(toR) > 0
  BY <1>1, TailFacts
<1>3. 1 \in 1..Len(toR)
  BY <1>2
<1>4. Head(toR).id \in Ids /\ Head(toR).id \in Nat
  BY <1>1, <1>2, PacketFields, NatFacts
<1>5. PICK q \in Entries : q = Head(toR).id + 1
  BY <1>1, <1>2, <1>3 DEF LInv, Life, InRange
<1>6. q - 1 = Head(toR).id /\ q # NoPath /\ IsData(toR[1], q)
  BY <1>1, <1>2, <1>4, <1>5, EntryFacts DEF IsData
<1> QED  BY <1>3, <1>6 DEF LInv, Life, LifeOf, DataLate

LEMMA StepValid ==
  ASSUME LInv, NoneInvalid, [Next]_vars
  PROVE  NoneInvalid'
<1> USE DEF NoneInvalid
<1>1. CASE SenderStep /\ UNCHANGED receiverVars
  <2>r. UNCHANGED <<rErr, diffErr, egErr>>
    BY <1>1 DEF receiverVars, diffVars, diskVars
  <2>1. CASE Walk
    BY <2>r, <2>1 DEF Walk, WalkVisit, WalkSendStat, WalkSendLast, WalkFails, WalkSendFails, WalkSendErr, FirstErr
  <2>2. ASSUME NEW w \in Workers, Worker(w) PROVE NoneInvalid'
    BY <2>r, <2>2 DEF Worker, WorkerTakes, WorkerExits, WorkerOpenFails, WorkerSendsData, WorkerSendsEOF,
                      WorkerFails, FirstErr, walkVars
  <2>3. CASE LoopGetsReq
    <3>1. sFiles[Head(toS).id] # NoPath
      BY <2>3, RegisteredWhenAsked
    <3> QED  BY <2>r, <2>3, <3>1 DEF LoopGetsReq, walkVars
  <2>4. CASE LoopCheck \/ LoopGetsErr \/ LoopQueues \/ LoopGetsFin \/ LoopSendsFin \/ LoopRecvFails \/ SendReturns
    BY <2>r, <2>4 DEF LoopCheck, LoopGetsErr, LoopQueues, LoopGetsFin, LoopSendsFin, LoopRecvFails,
                      SendReturns, LoopEnds, FirstErr, walkVars
  <2> QED  BY <1>1, <2>1, <2>2, <2>3, <2>4 DEF SenderStep, SenderLoop
<1>2. CASE ReceiverStep /\ UNCHANGED senderVars
  <2>s. UNCHANGED <<sErr, sWalkErr>>
    BY <1>2 DEF senderVars, walkVars
  <2>1. CASE RecvGetsData
    <3>1. rPipes[Head(toR).id] # NoPath
      BY <2>1, PipeWhenDelivered
    <3> QED  BY <2>s, <2>1, <3>1 DEF RecvGetsData, RecvEnds, FirstErr, diffVars
  <2>2. CASE \/ RecvGetsErr \/ RecvGetsLast \/ RecvGetsStat \/ RecvUpdates
             \/ RecvGetsFin \/ RecvDrains \/ RecvEOF \/ RecvLoopFails
    BY <2>s, <2>2 DEF RecvGetsErr, RecvGetsLast, RecvGetsStat, RecvUpdates, RecvGetsFin, RecvDrains, RecvEOF,
                      RecvLoopFails, RecvEnds, FirstErr, receiverVars, diffVars, diskVars
  <2>3. CASE Fill
    BY <2>s, <2>3 DEF Fill, diffVars, diskVars
  <2>4. CASE Diff
    BY <2>s, <2>4 DEF Diff, DiffApplies, DiffNext, DiffCanceled, DiffJoins, DiffWaits, DiffSendsFin, DiffSendsErr,
                      FirstErr, ReportedErr, diskVars
  <2>5. ASSUME NEW p \in Entries, Async(p) PROVE NoneInvalid'
    <3>1. UNCHANGED <<rErr, diffErr>>
      BY <2>5 DEF Async, diffVars
    <3>2. CASE AsyncRegisters(p)
      <4>1. rFiles[p] # NoId
        BY <3>2 DEF AsyncRegisters, LInv, Tickets
      <4> QED  BY <2>s, <3>1, <3>2, <4>1 DEF AsyncRegisters
    <3>3. CASE AsyncSendsReq(p) \/ AsyncWaits(p) \/ AsyncFinishes(p)
      BY <2>s, <3>1, <3>3 DEF AsyncSendsReq, AsyncWaits, AsyncFinishes, AsyncFails, FirstErr
    <3> QED  BY <2>5, <3>2, <3>3 DEF Async
  <2>6. CASE ReceiveReturns
    BY <2>s, <2>6 DEF ReceiveReturns, diffVars, diskVars
  <2> QED  BY <1>2, <2>1, <2>2, <2>3, <2>4, <2>5, <2>6 DEF ReceiverStep, ReceiverLoop
<1>3. CASE ConnFails \/ UNCHANGED vars
  BY <1>3 DEF ConnFails, vars, senderVars, walkVars, receiverVars, diffVars, diskVars
<1> QED  BY <1>1, <1>2, <1>3 DEF Next, Over

(* Neither side finds the other out of protocol, for every tree, any       *)
(* number of workers, any capacities and whatever fails: a file is asked   *)
(* for once, with an id the sender has registered before it announced the  *)
(* file, and data comes only while the receiver keeps the pipe of that id  *)
(* (send.go:121-134, 170-175; receive.go:326-341, 411-436).                *)
THEOREM NoProtocolErrorHolds ==
  ASSUME NoneSkipped
  PROVE  Spec => []NoProtocolError
<1>1. Init => LInv /\ NoneInvalid
  BY InitLife DEF Init, SenderInit, ReceiverInit, NoneInvalid
<1>2. LInv /\ NoneInvalid /\ [Next]_vars => LInv' /\ NoneInvalid'
  BY StepLife, StepValid
<1>3. NoneInvalid => NoProtocolError
  BY DEF NoneInvalid, NoProtocolError
<1> QED  BY <1>1, <1>2, <1>3, PTL DEF Spec

-----------------------------------------------------------------------------
(* The goroutines of the files end with their pipe closed, or leave an     *)
(* error; FIN is sent only when all have ended and none left one.          *)
FinSent == (\E i \in 1..Len(toS) : toS[i].type = "FIN") \/ sRecv = "fin"

FinLast ==
    /\ diff = "fin" \/ FinSent => AsyncOver /\ egErr = "none"
    /\ FinSent => diff = "done"
    /\ \A p \in Entries : async[p].pc = "failed" => egErr # "none"
    /\ \A p \in Entries : async[p].pc \in {"finish", "done"} => pipe[p] = "closed"
    /\ sRecv # "queue" => sHandle = NoHandle

LEMMA FinLastKept ==
  ASSUME FinLast, FinSent' => FinSent, sRecv' # "queue" => sHandle' = NoHandle,
         UNCHANGED <<async, egErr, pipe>>,
         diff' = diff \/ (~FinSent /\ diff' # "fin")
  PROVE  FinLast'
  BY DEF FinLast, AsyncOver

LEMMA SenderFin ==
  ASSUME LInv, FinLast, SenderStep, UNCHANGED receiverVars
  PROVE  FinLast'
<1>r. UNCHANGED <<async, egErr, pipe, diff>>
  BY DEF receiverVars, diskVars, diffVars
<1>t. toS \in Seq(Packets)
  BY DEF LInv, GInv, TInv, SInv, WireTypeOK
<1>1. CASE toS' = toS /\ sRecv' # "fin"
  <2>1. sRecv' # "queue" => sHandle' = NoHandle
    BY <1>1 DEF SenderStep, Walk, WalkVisit, WalkSendStat, WalkSendLast, WalkFails, WalkSendFails, WalkSendErr,
       SenderLoop, LoopCheck, LoopGetsErr, LoopGetsReq, LoopQueues, LoopGetsFin, LoopSendsFin, LoopRecvFails,
       LoopEnds, SendReturns, Worker, WorkerTakes, WorkerExits, WorkerOpenFails, WorkerSendsData, WorkerSendsEOF,
       WorkerFails, FinLast
  <2> QED  BY <1>r, <1>1, <2>1, FinLastKept DEF FinSent
<1>2. CASE LoopGetsErr \/ LoopGetsReq \/ LoopGetsFin
  <2>1. toS # <<>> /\ toS' = Tail(toS)
    BY <1>2 DEF LoopGetsErr, LoopGetsReq, LoopGetsFin, SenderGets
  <2>2. /\ Head(toS) = toS[1] /\ Len(toS) \in Nat /\ Len(toS) > 0 /\ Len(toS') = Len(toS) - 1
        /\ \A i \in 1..Len(toS') : toS'[i] = toS[i + 1]
    BY <1>t, <2>1, TailFacts
  <2>3. 1 \in 1..Len(toS) /\ \A i \in 1..Len(toS') : i + 1 \in 1..Len(toS)
    BY <2>2
  <2>4. sRecv' = "fin" => toS[1].type = "FIN"
    BY <1>2, <2>2 DEF LoopGetsErr, LoopGetsReq, LoopGetsFin, LoopEnds, SenderGets
  <2>5. FinSent' => FinSent
    BY <2>2, <2>3, <2>4 DEF FinSent
  <2>6. sRecv' # "queue" => sHandle' = NoHandle
    BY <1>2 DEF LoopGetsErr, LoopGetsReq, LoopGetsFin, LoopEnds, FinLast
  <2> QED  BY <1>r, <2>5, <2>6, FinLastKept
<1>3. toS' = toS \/ LoopGetsErr \/ LoopGetsReq \/ LoopGetsFin
  BY DEF SenderStep, Walk, WalkVisit, WalkSendStat, WalkSendLast, WalkFails, WalkSendFails, WalkSendErr,
     SenderLoop, LoopCheck, LoopQueues, LoopSendsFin, LoopRecvFails,
     SendReturns, Worker, WorkerTakes, WorkerExits, WorkerOpenFails, WorkerSendsData, WorkerSendsEOF,
     WorkerFails, SendToReceiver, SendFails, RecvFails, wireVars
<1>4. sRecv' = "fin" /\ sRecv # "fin" => LoopGetsFin
  BY DEF SenderStep, Walk, WalkVisit, WalkSendStat, WalkSendLast, WalkFails, WalkSendFails, WalkSendErr,
     SenderLoop, LoopCheck, LoopGetsErr, LoopGetsReq, LoopQueues, LoopSendsFin, LoopRecvFails, LoopEnds,
     SendReturns, Worker, WorkerTakes, WorkerExits, WorkerOpenFails, WorkerSendsData, WorkerSendsEOF,
     WorkerFails
<1>5. CASE toS' = toS /\ sRecv = "fin" /\ sRecv' = "fin"
  <2>1. sHandle' = sHandle
    BY <1>5 DEF SenderStep, Walk, WalkVisit, WalkSendStat, WalkSendLast, WalkFails, WalkSendFails, WalkSendErr,
       SenderLoop, LoopCheck, LoopGetsErr, LoopGetsReq, LoopQueues, LoopGetsFin, LoopSendsFin, LoopRecvFails,
       SendReturns, Worker, WorkerTakes, WorkerExits, WorkerOpenFails, WorkerSendsData, WorkerSendsEOF, WorkerFails
  <2> QED  BY <1>r, <1>5, <2>1, FinLastKept DEF FinSent, FinLast
<1> QED  BY <1>1, <1>2, <1>3, <1>4, <1>5

LEMMA ReceiverFin ==
  ASSUME LInv, FinLast, ReceiverStep, UNCHANGED senderVars
  PROVE  FinLast'
<1>s. UNCHANGED <<sRecv, sHandle>>
  BY DEF senderVars
<1>t. /\ toS \in Seq(Packets) /\ async \in [Entries -> AsyncSet]
      /\ pipe \in [Entries -> {"open", "closed", "failed"}]
  BY DEF LInv, GInv, TInv, SInv, WireTypeOK, ReceiverTypeOK
<1>h. sRecv' # "queue" => sHandle' = NoHandle
  BY <1>s DEF FinLast
<1>1. CASE RecvGetsData
  <2>1. UNCHANGED <<toS, async, egErr, diff>>
    BY <1>1 DEF RecvGetsData, ReceiverGets, diffVars
  <2>2. \A p \in Entries : pipe[p] = "closed" => pipe'[p] = "closed"
    <3>1. CASE pipe' = pipe
      BY <3>1
    <3>2. CASE pipe' # pipe
      <4>1. /\ toR \in Seq(Packets) /\ toR # <<>> /\ Head(toR).type = "DATA"
        BY <1>1 DEF RecvGetsData, ReceiverGets, LInv, GInv, TInv, SInv, WireTypeOK
      <4>2. Head(toR) \in Packets /\ Head(toR) = toR[1] /\ Len(toR) \in Nat /\ Len(toR) > 0
        BY <4>1, TailFacts
      <4>3. 1 \in 1..Len(toR) /\ Head(toR).id \in Ids
        BY <4>1, <4>2, PacketFields
      <4>q. PICK q \in Entries : q = Head(toR).id + 1
        BY <4>1, <4>2, <4>3 DEF LInv, Life, InRange
      <4>n. Head(toR).id \in Nat
        BY <4>3, NatFacts
      <4>e. q - 1 = Head(toR).id
        BY <4>q, <4>n
      <4>4. IsData(toR[1], q)
        BY <4>1, <4>2, <4>e DEF IsData
      <4>5. rPipes[Head(toR).id] = q /\ pipe[q] = "open"
        BY <4>3, <4>e, <4>4 DEF LInv, Life, LifeOf, DataLate
      <4>6. \E c \in {"closed", "failed"} : pipe' = [pipe EXCEPT ![q] = c]
        BY <1>1, <3>2, <4>5 DEF RecvGetsData
      <4> QED  BY <1>t, <4>5, <4>6
    <3> QED  BY <3>1, <3>2
  <2> QED  BY <1>h, <1>s, <2>1, <2>2 DEF FinLast, FinSent, AsyncOver
<1>2. CASE \/ RecvGetsErr \/ RecvGetsLast \/ RecvGetsStat \/ RecvUpdates
           \/ RecvGetsFin \/ RecvDrains \/ RecvEOF \/ RecvLoopFails \/ Fill \/ ReceiveReturns
  <2>1. UNCHANGED <<toS, async, egErr, pipe, diff>>
    BY <1>2 DEF RecvGetsErr, RecvGetsLast, RecvGetsStat, RecvUpdates, RecvGetsFin, RecvDrains, RecvEOF,
                RecvLoopFails, Fill, ReceiveReturns, ReceiverGets, ReceiverGetsEOF, RecvFails, wireVars,
                receiverVars, diskVars, diffVars
  <2> QED  BY <1>h, <1>s, <2>1, FinLastKept DEF FinSent
<1>3. CASE DiffApplies
  <2>1. toS' = toS /\ pipe' = pipe /\ egErr' = egErr /\ ~FinSent
    BY <1>3 DEF DiffApplies, DiffNext, DiffCanceled, DiffJoins, DiffWaits, diskVars, wireVars, FinLast
  <2>2. ~(FinSent')
    BY <1>s, <2>1 DEF FinSent
  <2>3. CASE DiffNext
    <3>1. diff' # "fin" /\ \A p \in Entries : async'[p] = async[p] \/ async'[p].pc = "start"
      BY <1>t, <2>3 DEF DiffNext, HandleChange
    <3> QED  BY <1>h, <2>1, <2>2, <3>1 DEF FinLast
  <2>4. CASE DiffCanceled \/ DiffJoins
    <3>1. diff' # "fin" /\ async' = async
      BY <2>4 DEF DiffCanceled, DiffJoins, diskVars
    <3> QED  BY <1>h, <2>1, <2>2, <3>1 DEF FinLast
  <2>5. CASE DiffWaits
    <3>1. async' = async /\ AsyncOver /\ (diff' = "fin" => egErr = "none")
      BY <2>5 DEF DiffWaits, diskVars
    <3> QED  BY <1>h, <2>1, <2>2, <3>1 DEF FinLast, AsyncOver
  <2> QED  BY <1>3, <2>3, <2>4, <2>5 DEF DiffApplies
<1>4. CASE DiffSendsFin
  BY <1>4, <1>h DEF DiffSendsFin, diskVars, FinLast, AsyncOver
<1>5. CASE DiffSendsErr
  <2>1. UNCHANGED <<async, egErr, pipe>> /\ ~FinSent /\ diff' = "done"
    BY <1>5 DEF DiffSendsErr, diskVars, FinLast
  <2>2. ErrPacket(ReportedErr(diffErr)) \in Packets /\ ErrPacket(ReportedErr(diffErr)).type = "ERR"
    <3>1. ReportedErr(diffErr) \in Causes
      BY DEF ReportedErr, LInv, GInv, TInv, ReceiverTypeOK
    <3> QED  BY <3>1, PacketsBuilt DEF ErrPacket
  <2>3. ~(FinSent')
    <3>1. CASE toS' = toS
      BY <1>s, <2>1, <3>1 DEF FinSent
    <3>2. CASE toS' = Append(toS, ErrPacket(ReportedErr(diffErr)))
      <4>1. /\ Len(toS') = Len(toS) + 1 /\ Len(toS) \in Nat
            /\ \A i \in 1..Len(toS) : toS'[i] = toS[i]
            /\ toS'[Len(toS) + 1].type = "ERR"
        BY <1>t, <2>2, <3>2, AppendFacts, LenProperties
      <4>2. \A i \in 1..Len(toS') : i \in 1..Len(toS) \/ i = Len(toS) + 1
        BY <4>1
      <4> QED  BY <1>s, <2>1, <4>1, <4>2 DEF FinSent
    <3> QED  BY <1>5, <3>1, <3>2 DEF DiffSendsErr, SendToSender, SendFails, wireVars
  <2> QED  BY <1>h, <2>1, <2>3, FinLastKept
<1>6. ASSUME NEW p \in Entries, Async(p) PROVE FinLast'
  <2>1. async[p].pc \in {"start", "req", "wait", "finish"} /\ UNCHANGED <<pipe, diff>>
    BY <1>6 DEF Async, AsyncRegisters, AsyncSendsReq, AsyncWaits, AsyncFinishes, diffVars
  <2>2. ~AsyncOver
    BY <2>1 DEF AsyncOver
  <2>3. ~FinSent /\ diff # "fin"
    BY <2>2 DEF FinLast
  <2>4. ~(FinSent')
    <3>1. CASE toS' = toS
      BY <1>s, <2>3, <3>1 DEF FinSent
    <3>2. CASE toS' = Append(toS, ReqPacket(async[p].id)) /\ async[p].pc = "req"
      <4>1. async[p].id \in Ids
        BY <3>2, EntryFacts DEF LInv, Tickets
      <4>2. ReqPacket(async[p].id) \in Packets /\ ReqPacket(async[p].id).type = "REQ"
        BY <4>1, PacketsBuilt DEF ReqPacket
      <4>3. /\ Len(toS') = Len(toS) + 1 /\ Len(toS) \in Nat
            /\ \A i \in 1..Len(toS) : toS'[i] = toS[i]
            /\ toS'[Len(toS) + 1].type = "REQ"
        BY <1>t, <3>2, <4>2, AppendFacts, LenProperties
      <4>4. \A i \in 1..Len(toS') : i \in 1..Len(toS) \/ i = Len(toS) + 1
        BY <4>3
      <4> QED  BY <1>s, <2>3, <4>3, <4>4 DEF FinSent
    <3> QED  BY <1>6, <3>1, <3>2 DEF Async, AsyncRegisters, AsyncSendsReq, AsyncWaits, AsyncFinishes,
                                     SendToSender, SendFails, wireVars
  <2>5. /\ \A q \in Entries : q # p => async'[q] = async[q]
        /\ async'[p].pc \in {"finish", "done"} => pipe[p] = "closed"
        /\ async'[p].pc = "failed" => egErr' # "none"
        /\ egErr # "none" => egErr' # "none"
    <3>1. CASE AsyncRegisters(p)
      <4>1. CASE rFiles[p] = NoId
        <5>1. /\ async' = [async EXCEPT ![p].pc = "failed"]
              /\ egErr' = FirstErr(egErr, "invalid request")
          BY <3>1, <4>1 DEF AsyncRegisters, AsyncFails
        <5> QED  BY <1>t, <5>1 DEF FirstErr, AsyncSet
      <4>2. CASE rFiles[p] # NoId
        <5>1. async' = [async EXCEPT ![p] = [pc |-> "req", id |-> rFiles[p]]] /\ egErr' = egErr
          BY <3>1, <4>2 DEF AsyncRegisters
        <5>2. async'[p].pc = "req"
          BY <1>t, <5>1
        <5> QED  BY <1>t, <5>1, <5>2
      <4> QED  BY <4>1, <4>2
    <3>2. CASE AsyncSendsReq(p)
      BY <1>t, <3>2 DEF AsyncSendsReq, AsyncFails, FirstErr, AsyncSet
    <3>3. CASE AsyncWaits(p)
      BY <1>t, <3>3 DEF AsyncWaits, AsyncFails, FirstErr, AsyncSet
    <3>4. CASE AsyncFinishes(p)
      BY <1>t, <2>1, <3>4 DEF AsyncFinishes, AsyncFails, FirstErr, AsyncSet, FinLast
    <3> QED  BY <1>6, <3>1, <3>2, <3>3, <3>4 DEF Async
  <2> QED  BY <1>h, <2>1, <2>3, <2>4, <2>5 DEF FinLast
<1> QED  BY <1>1, <1>2, <1>3, <1>4, <1>5, <1>6 DEF ReceiverStep, ReceiverLoop, Diff

LEMMA InitFin == Init => FinLast
<1> SUFFICES ASSUME Init PROVE FinLast
  OBVIOUS
<1>1. Len(toS) = 0 /\ sRecv = "check" /\ diff = "diff" /\ sHandle = NoHandle
  BY EmptySeq DEF Init, WireInit, SenderInit, ReceiverInit
<1>2. \A p \in Entries : async[p].pc = "none"
  BY DEF Init, ReceiverInit, NoAsync
<1>3. ~FinSent
  BY <1>1 DEF FinSent
<1> QED  BY <1>1, <1>2, <1>3 DEF FinLast

LEMMA StepFin == LInv /\ FinLast /\ [Next]_vars => FinLast'
<1> SUFFICES ASSUME LInv, FinLast, [Next]_vars PROVE FinLast'
  OBVIOUS
<1>1. CASE ConnFails \/ UNCHANGED vars
  <2>1. UNCHANGED <<toS, async, egErr, pipe, diff, sRecv, sHandle>>
    BY <1>1 DEF ConnFails, vars, wireVars, senderVars, receiverVars, diskVars, diffVars
  <2> QED  BY <2>1, FinLastKept DEF FinSent, FinLast
<1> QED  BY <1>1, SenderFin, ReceiverFin DEF Next, Over

(* FIN finds nothing asked for and not delivered, for every tree, any      *)
(* number of workers and any capacities (receive.go:12-13, 221-224).       *)
THEOREM FinMeansQuietHolds ==
  ASSUME NoneSkipped
  PROVE  Spec => []FinMeansQuiet
<1>1. Init => LInv /\ FinLast
  BY InitLife, InitFin
<1>2. LInv /\ FinLast /\ [Next]_vars => LInv' /\ FinLast'
  BY StepLife, StepFin
<1>3. LInv /\ FinLast => FinMeansQuiet
  <2> SUFFICES ASSUME LInv, FinLast, FinSent
               PROVE  /\ sHandle = NoHandle /\ sPipe = <<>>
                      /\ \A w \in Workers : sWork[w].pc \in {"idle", "done"}
                      /\ \A i \in DOMAIN toR : toR[i].type # "DATA"
    <3>1. toS \in Seq(Packets) => DOMAIN toS = 1..Len(toS)
      BY LenProperties
    <3> QED  BY <3>1 DEF FinMeansQuiet, FinSent, LInv, GInv, TInv, SInv, WireTypeOK
  <2>1. ASSUME NEW p \in Entries
        PROVE  /\ \A s \in {"held", "queued", "served"} : ~At(p, s)
               /\ \A i \in 1..Len(toR) : ~IsData(toR[i], p)
    <3>1. async[p].pc = "none" \/ (async[p].pc = "done" /\ pipe[p] = "closed")
      BY DEF FinLast, AsyncOver
    <3>2. At(p, "unasked") \/ (At(p, "ended") /\ pipe[p] = "closed")
      BY <3>1 DEF At
    <3>3. OneStage(p) /\ DataLate(p)
      BY DEF LInv, Life, LifeOf
    <3>4. \A s \in {"held", "queued", "served"} : ~At(p, s)
      BY <3>2, <3>3 DEF OneStage, Stages
    <3>5. \A i \in 1..Len(toR) : ~IsData(toR[i], p)
      BY <3>2, <3>3 DEF DataLate
    <3> QED  BY <3>4, <3>5
  <2>2. /\ sPipe \in Seq(Handles) /\ toR \in Seq(Packets) /\ sWork \in [Workers -> WorkSet]
    BY DEF LInv, GInv, TInv, SInv, WireTypeOK, SenderTypeOK
  <2>3. sHandle = NoHandle
    <3>1. sRecv = "queue" => \E p \in Entries : At(p, "held")
      BY DEF At, LInv, Life, InRange
    <3> QED  BY <2>1, <3>1 DEF FinLast
  <2>4. sPipe = <<>>
    <3> SUFFICES ASSUME sPipe # <<>> PROVE FALSE
      OBVIOUS
    <3>1. Len(sPipe) \in Nat \ {0}
      BY <2>2, EmptySeq
    <3>2. 1 \in 1..Len(sPipe)
      BY <3>1
    <3>3. \E p \in Entries : At(p, "queued")
      BY <3>2 DEF At, LInv, Life, InRange
    <3> QED  BY <2>1, <3>3
  <2>5. ASSUME NEW w \in Workers PROVE sWork[w].pc \in {"idle", "done"}
    <3>1. sWork[w].pc \in {"data", "eof"} => \E p \in Entries : At(p, "served")
      BY DEF At, Busy, LInv, Life, InRange
    <3> QED  BY <2>1, <2>2, <3>1 DEF WorkSet
  <2>6. ASSUME NEW i \in DOMAIN toR PROVE toR[i].type # "DATA"
    <3>1. i \in 1..Len(toR) /\ toR[i] \in Packets
      BY <2>2, LenProperties, ElementOfSeq
    <3> SUFFICES ASSUME toR[i].type = "DATA" PROVE FALSE
      OBVIOUS
    <3>2. toR[i].id \in Ids /\ toR[i].id \in Nat
      BY <3>1, PacketFields, NatFacts
    <3>q. PICK p \in Entries : p = toR[i].id + 1
      BY <3>1 DEF LInv, Life, InRange
    <3>3. p - 1 = toR[i].id
      BY <3>2, <3>q
    <3> QED  BY <2>1, <3>1, <3>3 DEF IsData
  <2> QED  BY <2>3, <2>4, <2>5, <2>6
<1> QED  BY <1>1, <1>2, <1>3, PTL DEF Spec

-----------------------------------------------------------------------------
(* What arrives in a file: its reads in order, from the first, none left   *)
(* out and none twice; all of them when its end has arrived, unless the    *)
(* sender could not open it.  And in what order the entries are applied: a *)
(* directory before anything in it.                                        *)

Got(p) == Len(dest[p].data)

(* The n-th read of p is on its way.                                       *)
UnderWay(p, n) == \E i \in 1..Len(toR) : IsChunk(toR[i], p) /\ toR[i].data[2] = n

(* The content of p is still to be asked for, or to be opened.             *)
Early(p) ==
    \/ async[p].pc \in {"start", "req"}
    \/ \E s \in {"asked", "held", "queued"} : At(p, s)

(* What is in the file, then what is under way, then what the worker has   *)
(* still to send.                                                          *)
Arrives(p) ==
    /\ Got(p) <= Chunks[p]
    /\ \A k \in 1..Got(p) : dest[p].data[k] = <<p, k>>
    /\ Early(p) => Got(p) = 0
    /\ \A i \in 1..Len(toR) : IsChunk(toR[i], p) =>
         Got(p) < toR[i].data[2] /\ toR[i].data[2] <= Chunks[p]
    /\ \A i, j \in 1..Len(toR) :
         i < j /\ IsChunk(toR[i], p) /\ IsChunk(toR[j], p) => toR[i].data[2] < toR[j].data[2]
    /\ \A w \in Workers : Busy(w, p) =>
         /\ Got(p) <= sWork[w].pos /\ sWork[w].pos <= Chunks[p]
         /\ \A i \in 1..Len(toR) : IsChunk(toR[i], p) => toR[i].data[2] <= sWork[w].pos

(* While the receive loop runs, no read is lost.                           *)
NoHoles(p) ==
    Counts =>
      /\ \A i \in 1..Len(toR) : IsChunk(toR[i], p) =>
           \A n \in Nat : Got(p) < n /\ n < toR[i].data[2] => UnderWay(p, n)
      /\ \A w \in Workers : Busy(w, p) /\ Got(p) < sWork[w].pos => UnderWay(p, sWork[w].pos)

(* The end comes after everything, or the file could not be opened.        *)
NotRead(p) == fault = "open" /\ Got(p) = 0

EndsWhole(p) ==
    /\ Counts /\ (\E i \in 1..Len(toR) : IsEof(toR[i], p)) =>
         \/ Got(p) = Chunks[p]
         \/ UnderWay(p, Chunks[p])
         \/ NotRead(p) /\ \A i \in 1..Len(toR) : ~IsChunk(toR[i], p)
    /\ pipe[p] = "closed" => Got(p) = Chunks[p] \/ NotRead(p)

ContentOf(p) == Arrives(p) /\ NoHoles(p) /\ EndsWhole(p)

(* Only a file that could not be opened is ended before it is read, and    *)
(* only regular files have a goroutine.                                    *)
NotOpened == \A w \in Workers : sWork[w].pc = "eof" => fault = "open" /\ sWork[w].pos = 0

FilesOnly == \A p \in Entries : async[p].pc # "none" => Kind[p] = "file"

CInv == LInv /\ NotOpened /\ FilesOnly /\ \A p \in Entries : ContentOf(p)

-----------------------------------------------------------------------------
LEMMA ContentTypes ==
  ASSUME LInv, NEW p \in Entries
  PROVE  /\ dest[p].data \in Seq(Chunk) /\ Got(p) \in Nat /\ Chunks[p] \in Nat
         /\ \A i \in 1..Len(toR) : IsData(toR[i], p) =>
              toR[i].data \in Chunk /\ toR[i].data[2] \in Nat
         /\ \A i \in 1..Len(toR) : IsChunk(toR[i], p) => toR[i].data[1] = p
         /\ \A w \in Workers : sWork[w].pos \in Nat
<1>1. dest[p].data \in Seq(Chunk)
  BY DEF LInv, GInv, TInv, ReceiverTypeOK
<1>2. Chunks[p] \in Nat
  BY WireAssumption
<1>3. \A i \in 1..Len(toR) : IsData(toR[i], p) => toR[i].data \in Chunk
  BY ElementOfSeq, PacketFields DEF LInv, GInv, TInv, SInv, WireTypeOK, IsData
<1>4. \A w \in Workers : sWork[w].pos \in Nat
  BY DEF LInv, GInv, TInv, SInv, SenderTypeOK, WorkSet
<1>5. \A i \in 1..Len(toR) : IsChunk(toR[i], p) => toR[i].data[1] = p
  BY EntryFacts DEF LInv, GInv, DataIds, OwnData, IsChunk, IsData
<1>6. \A d \in Chunk : d[2] \in Nat
  BY DEF Chunk
<1> QED  BY <1>1, <1>2, <1>3, <1>4, <1>5, <1>6, LenProperties DEF Got

(* A step that does nothing to the content of p.                           *)
SameFor(p) ==
    /\ \E d \in Nat : \A i \in 1..Len(toR') :
         IsData(toR'[i], p) => i + d \in 1..Len(toR) /\ toR'[i] = toR[i + d]
    /\ Counts' => Counts /\ \A n \in Nat : UnderWay(p, n) => UnderWay(p, n)'
    /\ dest'[p].data = dest[p].data
    /\ pipe'[p] = "closed" => pipe[p] = "closed"
    /\ \A w \in Workers : Busy(w, p)' => Busy(w, p) /\ sWork'[w].pos = sWork[w].pos
    /\ Early(p)' => Early(p)
    /\ fault = "open" => fault' = "open"

LEMMA SameContent ==
  ASSUME LInv, NEW p \in Entries, SameFor(p), ContentOf(p)
  PROVE  ContentOf(p)'
<1>1. PICK d \in Nat : \A i \in 1..Len(toR') :
        IsData(toR'[i], p) => i + d \in 1..Len(toR) /\ toR'[i] = toR[i + d]
  BY DEF SameFor
<1>2. \A i \in 1..Len(toR') : IsChunk(toR'[i], p) =>
        i + d \in 1..Len(toR) /\ IsChunk(toR[i + d], p) /\ toR'[i] = toR[i + d]
  BY <1>1 DEF IsChunk
<1>3. Got(p)' = Got(p)
  BY DEF Got, SameFor
<1>4. /\ Got(p) \in Nat /\ Chunks[p] \in Nat /\ \A w \in Workers : sWork[w].pos \in Nat
      /\ \A i \in 1..Len(toR) : IsChunk(toR[i], p) => toR[i].data[2] \in Nat
  BY ContentTypes DEF IsChunk
<1>5. Arrives(p)'
  <2>1. \A k \in 1..Got(p) : dest'[p].data[k] = <<p, k>>
    BY DEF ContentOf, Arrives, SameFor
  <2>2. Early(p)' => Got(p) = 0
    BY DEF ContentOf, Arrives, SameFor
  <2>3. \A i \in 1..Len(toR') : IsChunk(toR'[i], p) =>
          Got(p) < toR'[i].data[2] /\ toR'[i].data[2] <= Chunks[p]
    BY <1>2 DEF ContentOf, Arrives
  <2>4. ASSUME NEW i \in 1..Len(toR'), NEW j \in 1..Len(toR'),
               i < j, IsChunk(toR'[i], p), IsChunk(toR'[j], p)
        PROVE  toR'[i].data[2] < toR'[j].data[2]
    <3>1. i + d < j + d
      BY <2>4
    <3> QED  BY <1>2, <2>4, <3>1 DEF ContentOf, Arrives
  <2>5. ASSUME NEW w \in Workers, Busy(w, p)'
        PROVE  /\ Got(p) <= sWork'[w].pos /\ sWork'[w].pos <= Chunks[p]
               /\ \A i \in 1..Len(toR') : IsChunk(toR'[i], p) => toR'[i].data[2] <= sWork'[w].pos
    BY <1>2, <2>5 DEF ContentOf, Arrives, SameFor
  <2>6. Got(p) <= Chunks[p]
    BY DEF ContentOf, Arrives
  <2> QED  BY <1>3, <2>1, <2>2, <2>3, <2>4, <2>5, <2>6 DEF Arrives, IsChunk, IsData, Eof
<1>6. NoHoles(p)'
  <2> SUFFICES ASSUME Counts' PROVE NoHoles(p)'
    BY DEF NoHoles
  <2>1. NoHoles(p) /\ Counts /\ \A n \in Nat : UnderWay(p, n) => UnderWay(p, n)'
    BY DEF ContentOf, SameFor
  <2>2. ASSUME NEW i \in 1..Len(toR'), IsChunk(toR'[i], p), NEW n \in Nat, Got(p) < n, n < toR'[i].data[2]
        PROVE  UnderWay(p, n)'
    BY <1>2, <2>1, <2>2 DEF NoHoles
  <2>3. ASSUME NEW w \in Workers, Busy(w, p)', Got(p) < sWork'[w].pos
        PROVE  UnderWay(p, sWork[w].pos)' /\ sWork'[w].pos = sWork[w].pos
    BY <1>4, <2>1, <2>3 DEF NoHoles, SameFor
  <2>4. \A w \in Workers : Busy(w, p)' /\ Got(p) < sWork'[w].pos => UnderWay(p, sWork[w].pos)'
    BY <2>3
  <2> QED  BY <1>3, <2>2, <2>3 DEF NoHoles, IsChunk, IsData, UnderWay, Eof
<1>7. EndsWhole(p)'
  <2>1. NotRead(p) => NotRead(p)'
    BY <1>3 DEF NotRead, SameFor
  <2>2. pipe'[p] = "closed" => Got(p)' = Chunks[p] \/ NotRead(p)'
    BY <1>3, <2>1 DEF ContentOf, EndsWhole, SameFor
  <2>3. ASSUME Counts', NEW i \in 1..Len(toR'), IsEof(toR'[i], p)
        PROVE  \/ Got(p)' = Chunks[p]
               \/ UnderWay(p, Chunks[p])'
               \/ NotRead(p)' /\ \A j \in 1..Len(toR') : ~IsChunk(toR'[j], p)
    <3>1. i + d \in 1..Len(toR) /\ IsEof(toR[i + d], p)
      BY <1>1, <2>3 DEF IsEof
    <3>2. Counts /\ (UnderWay(p, Chunks[p]) => UnderWay(p, Chunks[p])')
      BY <1>4, <2>3 DEF SameFor
    <3> QED  BY <1>2, <1>3, <2>1, <3>1, <3>2 DEF ContentOf, EndsWhole
  <2> QED  BY <2>2, <2>3 DEF EndsWhole, IsEof, IsChunk, IsData, Eof
<1> QED  BY <1>5, <1>6, <1>7 DEF ContentOf

-----------------------------------------------------------------------------
(* The channel, seen from one file.                                        *)
Shifted(p) ==
    \E d \in Nat : \A i \in 1..Len(toR') :
      IsData(toR'[i], p) => i + d \in 1..Len(toR) /\ toR'[i] = toR[i + d]

StillUnderWay(p) == \A n \in Nat : UnderWay(p, n) => UnderWay(p, n)'

LEMMA ChannelOf ==
  ASSUME WireTypeOK, NEW p \in Entries
  PROVE  /\ toR' = toR => Shifted(p) /\ StillUnderWay(p)
         /\ \A m \in Packets : SendToReceiver(m) =>
              (~IsData(m, p) => Shifted(p)) /\ StillUnderWay(p)
         /\ \A t : ReceiverGets(t) =>
              Shifted(p) /\ (~IsChunk(Head(toR), p) => StillUnderWay(p))
<1>0. toR \in Seq(Packets) /\ Len(toR) \in Nat
  BY LenProperties DEF WireTypeOK
<1>1. ASSUME toR' = toR PROVE Shifted(p) /\ StillUnderWay(p)
  <2>1. \A i \in 1..Len(toR') : i + 0 \in 1..Len(toR) /\ toR'[i] = toR[i + 0]
    BY <1>0, <1>1
  <2>2. Shifted(p)
    BY <2>1 DEF Shifted
  <2> QED  BY <1>1, <2>2 DEF StillUnderWay, UnderWay, IsChunk, IsData, Eof
<1>2. ASSUME NEW m \in Packets, SendToReceiver(m)
      PROVE  (~IsData(m, p) => Shifted(p)) /\ StillUnderWay(p)
  <2>1. toR' = Append(toR, m)
    BY <1>2 DEF SendToReceiver
  <2>2. /\ Len(toR') = Len(toR) + 1
        /\ \A i \in 1..Len(toR) : toR'[i] = toR[i]
        /\ toR'[Len(toR) + 1] = m
    BY <1>0, <2>1, AppendFacts
  <2>3. /\ \A i \in 1..Len(toR') : i + 0 = i /\ (i \in 1..Len(toR) \/ i = Len(toR) + 1)
        /\ \A i \in 1..Len(toR) : i \in 1..Len(toR')
    BY <1>0, <2>2
  <2>4. ASSUME ~IsData(m, p) PROVE Shifted(p)
    <3>1. \A i \in 1..Len(toR') : IsData(toR'[i], p) => i + 0 \in 1..Len(toR) /\ toR'[i] = toR[i + 0]
      BY <2>2, <2>3, <2>4
    <3> QED  BY <3>1 DEF Shifted
  <2>5. ASSUME NEW n \in Nat, UnderWay(p, n)
        PROVE  \E i \in 1..Len(toR') : IsChunk(toR'[i], p) /\ toR'[i].data[2] = n
    <3>1. PICK i \in 1..Len(toR) : IsChunk(toR[i], p) /\ toR[i].data[2] = n
      BY <2>5 DEF UnderWay
    <3>2. i \in 1..Len(toR') /\ toR'[i] = toR[i]
      BY <2>2, <2>3
    <3> QED  BY <3>1, <3>2
  <2> QED  BY <2>4, <2>5 DEF StillUnderWay, UnderWay, IsChunk, IsData, Eof
<1>3. ASSUME NEW t, ReceiverGets(t)
      PROVE  Shifted(p) /\ (~IsChunk(Head(toR), p) => StillUnderWay(p))
  <2>1. /\ Head(toR) = toR[1] /\ Len(toR) > 0 /\ Len(toR') = Len(toR) - 1
        /\ \A i \in 1..Len(toR') : toR'[i] = toR[i + 1]
    BY <1>0, <1>3, TailFacts DEF ReceiverGets
  <2>2. /\ \A i \in 1..Len(toR') : i + 1 \in 1..Len(toR)
        /\ \A i \in 1..Len(toR) : i = 1 \/ (i - 1 \in 1..Len(toR') /\ (i - 1) + 1 = i)
    BY <1>0, <2>1
  <2>3. Shifted(p)
    BY <2>1, <2>2 DEF Shifted
  <2>4. ASSUME ~IsChunk(Head(toR), p), NEW n \in Nat, UnderWay(p, n)
        PROVE  \E i \in 1..Len(toR') : IsChunk(toR'[i], p) /\ toR'[i].data[2] = n
    <3>1. PICK i \in 1..Len(toR) : IsChunk(toR[i], p) /\ toR[i].data[2] = n
      BY <2>4 DEF UnderWay
    <3>2. i # 1
      BY <2>1, <2>4, <3>1
    <3>3. i - 1 \in 1..Len(toR') /\ toR'[i - 1] = toR[i]
      BY <2>1, <2>2, <3>2
    <3> QED  BY <3>1, <3>3
  <2> QED  BY <2>3, <2>4 DEF StillUnderWay, UnderWay, IsChunk, IsData, Eof
<1> QED  BY <1>1, <1>2, <1>3

(* The parts of SameFor that a step of one side leaves to the other.       *)
LEMMA SameParts ==
  ASSUME NEW p \in Entries, Shifted(p), Counts' => Counts /\ StillUnderWay(p),
         dest'[p].data = dest[p].data, pipe'[p] = "closed" => pipe[p] = "closed",
         \A w \in Workers : Busy(w, p)' => Busy(w, p) /\ sWork'[w].pos = sWork[w].pos,
         Early(p)' => Early(p), fault = "open" => fault' = "open"
  PROVE  SameFor(p)
  BY DEF SameFor, Shifted, StillUnderWay

(* A request before it is served.                                          *)
LEMMA EarlyKept ==
  ASSUME NEW p \in Entries, UNCHANGED async, UNCHANGED <<toS, sRecv, sHandle, sPipe>>
  PROVE  Early(p)' => Early(p)
  BY DEF Early, At, IsReq

(* Failures happen once.                                                   *)
LEMMA FaultKept == [Next]_vars /\ fault = "open" => fault' = "open"
<1> SUFFICES ASSUME [Next]_vars, fault = "open" PROVE fault' = "open"
  OBVIOUS
<1>1. CASE SenderStep
  BY <1>1 DEF SenderStep, Walk, WalkVisit, WalkSendStat, WalkSendLast, WalkFails, WalkSendFails, WalkSendErr,
     SenderLoop, LoopCheck, LoopGetsErr, LoopGetsReq, LoopQueues, LoopGetsFin, LoopSendsFin, LoopRecvFails,
     SendReturns, Worker, WorkerTakes, WorkerExits, WorkerOpenFails, WorkerSendsData, WorkerSendsEOF,
     WorkerFails, Fault
<1>2. CASE ReceiverStep
  <2>1. CASE ReceiverLoop
    BY <2>1 DEF ReceiverLoop, RecvGetsData, Fault
  <2>2. CASE Fill \/ ReceiveReturns
    BY <2>2 DEF Fill, ReceiveReturns
  <2>3. CASE Diff
    BY <2>3 DEF Diff, DiffApplies, DiffNext, DiffCanceled, DiffJoins, DiffWaits, DiffSendsFin, DiffSendsErr, Fault
  <2>4. CASE \E p \in Entries : Async(p)
    BY <2>4 DEF Async, AsyncRegisters, AsyncSendsReq, AsyncWaits, AsyncFinishes, Fault
  <2> QED  BY <1>2, <2>1, <2>2, <2>3, <2>4 DEF ReceiverStep
<1>3. CASE ConnFails \/ UNCHANGED vars
  BY <1>3 DEF ConnFails, Fault, vars
<1> QED  BY <1>1, <1>2, <1>3 DEF Next, Over

-----------------------------------------------------------------------------
(* The steps of the sender.                                                *)
LEMMA WalkLoopContent ==
  ASSUME LInv, \A p \in Entries : ContentOf(p), [Next]_vars,
         Walk \/ SenderLoop \/ SendReturns, UNCHANGED receiverVars
  PROVE  \A p \in Entries : ContentOf(p)'
<1> USE DEF LInv, GInv, TInv, SInv
<1>r. UNCHANGED <<rRecv, async, pipe, dest>>
  BY DEF receiverVars, recvVars, diskVars
<1>w. UNCHANGED sWork
  BY DEF Walk, WalkVisit, WalkSendStat, WalkSendLast, WalkFails, WalkSendFails, WalkSendErr,
         SenderLoop, LoopCheck, LoopGetsErr, LoopGetsReq, LoopQueues, LoopGetsFin, LoopSendsFin, LoopRecvFails,
         SendReturns
<1> SUFFICES ASSUME NEW p \in Entries PROVE ContentOf(p)'
  OBVIOUS
<1>1. Shifted(p) /\ StillUnderWay(p)
  <2>1. /\ StatPacket(NoPath) \in Packets /\ (sWalk = "stat" => StatPacket(sNext) \in Packets)
        /\ ErrPacket(sWalkErr) \in Packets /\ FinPacket \in Packets
    <3>1. sWalk = "stat" => sNext \in Entries
      BY NatFacts DEF WalkCount, SenderTypeOK, Entries
    <3> QED  BY <3>1, PacketsBuilt DEF SenderTypeOK
  <2>2. /\ \A q \in Entries \cup {NoPath} : ~IsData(StatPacket(q), p)
        /\ \A c : ~IsData(ErrPacket(c), p)
        /\ ~IsData(FinPacket, p)
    BY DEF IsData, StatPacket, ErrPacket, FinPacket
  <2>3. \/ toR' = toR
        \/ SendToReceiver(StatPacket(NoPath))
        \/ sWalk = "stat" /\ SendToReceiver(StatPacket(sNext))
        \/ SendToReceiver(ErrPacket(sWalkErr))
        \/ SendToReceiver(FinPacket)
    BY DEF Walk, WalkVisit, WalkSendStat, WalkSendLast, WalkFails, WalkSendFails, WalkSendErr,
         SenderLoop, LoopCheck, LoopGetsErr, LoopGetsReq, LoopQueues, LoopGetsFin, LoopSendsFin, LoopRecvFails,
         SendReturns, SendFails, RecvFails, SenderGets, wireVars, LastStat
  <2>4. sWalk = "stat" => ~IsData(StatPacket(sNext), p)
    BY DEF IsData, StatPacket
  <2> QED  BY <2>1, <2>2, <2>3, <2>4, ChannelOf
<1>2. Early(p)' => Early(p)
  <2>1. CASE UNCHANGED <<toS, sPipe>> /\ UNCHANGED <<sRecv, sHandle>>
    BY <1>r, <2>1, EarlyKept
  <2>2. CASE LoopGetsReq
    <3>1. /\ toS # <<>> /\ Head(toS).type = "REQ" /\ toS' = Tail(toS)
          /\ sPipe' = sPipe /\ toS \in Seq(Packets)
          /\ \/ sRecv' = "done"
             \/ sRecv' = "queue" /\ sHandle' = Handle(Head(toS).id, sFiles[Head(toS).id])
                /\ sFiles[Head(toS).id] # NoPath
      BY <2>2 DEF LoopGetsReq, SenderGets, LoopEnds, WireTypeOK
    <3>2. /\ Head(toS) \in Packets /\ Head(toS) = toS[1] /\ Len(toS) \in Nat /\ Len(toS) > 0
          /\ Len(toS') = Len(toS) - 1
          /\ \A i \in 1..Len(toS') : toS'[i] = toS[i + 1]
      BY <3>1, TailFacts
    <3>3. 1 \in 1..Len(toS) /\ \A i \in 1..Len(toS') : i + 1 \in 1..Len(toS)
      BY <3>2
    <3>4. Head(toS).id \in Ids /\ Head(toS).id \in Nat
      BY <3>1, <3>2, PacketFields, NatFacts
    <3>5. ASSUME sRecv' = "queue", sHandle'.path = p PROVE IsReq(toS[1], p)
      <4>1. sFiles[Head(toS).id] = p /\ sFiles[Head(toS).id] = Head(toS).id + 1
        BY <3>1, <3>4, <3>5 DEF Handle, SenderIds
      <4> QED  BY <3>1, <3>2, <3>4, <4>1, EntryFacts DEF IsReq
    <3>6. At(p, "asked")' => At(p, "asked")
      BY <3>2, <3>3 DEF At, IsReq
    <3>7. At(p, "held")' => At(p, "asked")
      BY <3>3, <3>5 DEF At
    <3>8. At(p, "queued")' => At(p, "queued")
      BY <3>1 DEF At
    <3> QED  BY <1>r, <3>6, <3>7, <3>8 DEF Early
  <2>3. CASE LoopQueues
    <3>1. /\ sRecv = "queue" /\ sRecv' = "check" /\ sPipe' = Append(sPipe, sHandle) /\ toS' = toS
          /\ sPipe \in Seq(Handles) /\ sHandle \in Handles
      BY <2>3 DEF LoopQueues, wireVars, SenderTypeOK
    <3>2. /\ Len(sPipe) \in Nat /\ Len(sPipe') = Len(sPipe) + 1
          /\ \A i \in 1..Len(sPipe) : sPipe'[i] = sPipe[i]
          /\ sPipe'[Len(sPipe) + 1] = sHandle
      BY <3>1, AppendFacts, LenProperties
    <3>3. \A i \in 1..Len(sPipe') : i \in 1..Len(sPipe) \/ i = Len(sPipe) + 1
      BY <3>2
    <3>4. At(p, "queued")' => At(p, "queued") \/ At(p, "held")
      BY <3>1, <3>2, <3>3 DEF At
    <3>5. ~(At(p, "held")') /\ (At(p, "asked")' => At(p, "asked"))
      BY <3>1 DEF At, IsReq
    <3> QED  BY <1>r, <3>4, <3>5 DEF Early
  <2>4. CASE LoopCheck \/ LoopGetsErr \/ LoopGetsFin \/ LoopSendsFin \/ LoopRecvFails \/ SendReturns
    <3>1. sPipe' = sPipe /\ sHandle' = sHandle /\ (sRecv' = "queue" => sRecv = "queue")
      BY <2>4 DEF LoopCheck, LoopGetsErr, LoopGetsFin, LoopSendsFin, LoopRecvFails, SendReturns, LoopEnds, pipeVars
    <3>2. SLess
      <4>1. toS' = toS \/ \E t : SenderGets(t)
        BY <2>4 DEF LoopCheck, LoopGetsErr, LoopGetsFin, LoopSendsFin, LoopRecvFails, SendReturns,
                    RecvFails, SendFails, SendToReceiver, wireVars
      <4> QED  BY <4>1, SLessFacts
    <3>3. At(p, "asked")' => At(p, "asked")
      BY <3>2 DEF At, SLess, IsReq
    <3>4. (At(p, "held")' => At(p, "held")) /\ (At(p, "queued")' => At(p, "queued"))
      BY <3>1 DEF At
    <3> QED  BY <1>r, <3>3, <3>4 DEF Early
  <2>5. Walk => UNCHANGED <<toS, sPipe>> /\ UNCHANGED <<sRecv, sHandle>>
    BY DEF Walk, WalkVisit, WalkSendStat, WalkSendLast, WalkFails, WalkSendFails, WalkSendErr, pipeVars,
           SendToReceiver, SendFails, wireVars
  <2> QED  BY <2>1, <2>2, <2>3, <2>4, <2>5 DEF SenderLoop
<1>3. SameFor(p)
  <2>1. \A w \in Workers : Busy(w, p)' => Busy(w, p) /\ sWork'[w].pos = sWork[w].pos
    BY <1>w DEF Busy
  <2>2. (Counts' => Counts) /\ dest'[p].data = dest[p].data /\ (pipe'[p] = "closed" => pipe[p] = "closed")
    BY <1>r DEF Counts
  <2> QED  BY <1>1, <1>2, <2>1, <2>2, FaultKept, SameParts
<1> QED  BY <1>3, SameContent

(* A file is read from its beginning, each read once, and ended after the  *)
(* last.                                                                   *)
LEMMA WorkerContent ==
  ASSUME LInv, LInv', NotOpened, \A p \in Entries : ContentOf(p), [Next]_vars,
         NEW w \in Workers, Worker(w), UNCHANGED receiverVars
  PROVE  \A p \in Entries : ContentOf(p)'
<1>r. UNCHANGED <<rRecv, async, pipe, dest>> /\ Counts' = Counts
  BY DEF receiverVars, recvVars, diskVars, Counts
<1>w. UNCHANGED <<toS, sRecv, sHandle>>
  BY DEF Worker, WorkerTakes, WorkerExits, WorkerOpenFails, WorkerSendsData, WorkerSendsEOF, WorkerFails,
         SendToReceiver, SendFails, wireVars
<1>k. sPipe \in Seq(Handles) /\ sWork \in [Workers -> WorkSet] /\ sWork[w] \in WorkSet /\ WireTypeOK
  BY DEF LInv, GInv, TInv, SInv, SenderTypeOK
<1>f. fault = "open" => fault' = "open"
  BY FaultKept
<1>e. \A p \in Entries : Early(p)' => Early(p)
  <2>1. sPipe' = sPipe \/ (sPipe # <<>> /\ sPipe' = Tail(sPipe))
    BY DEF Worker, WorkerTakes, WorkerExits, WorkerOpenFails, WorkerSendsData, WorkerSendsEOF, WorkerFails, pipeVars
  <2>2. QLess
    BY <1>k, <2>1, PipeLess
  <2>3. \A p \in Entries : At(p, "queued")' => At(p, "queued")
    BY <2>2 DEF At, QLess
  <2>4. \A p \in Entries : \A s \in {"asked", "held"} : At(p, s)' => At(p, s)
    BY <1>w DEF At, IsReq
  <2> QED  BY <1>r, <2>3, <2>4 DEF Early
<1>s. ASSUME NEW p \in Entries, Shifted(p), StillUnderWay(p),
             \A v \in Workers : Busy(v, p)' => Busy(v, p) /\ sWork'[v].pos = sWork[v].pos
      PROVE  ContentOf(p)'
  <2>1. SameFor(p)
    BY <1>r, <1>f, <1>e, <1>s, SameParts
  <2> QED  BY <2>1, SameContent
<1>1. CASE WorkerExits(w) \/ WorkerOpenFails(w) \/ WorkerFails(w) \/ (WorkerTakes(w) /\ sCtxDone)
  <2>1. toR' = toR
    BY <1>1 DEF WorkerTakes, WorkerExits, WorkerOpenFails, WorkerFails, SendFails, wireVars
  <2>2. \A v \in Workers : sWork'[v].pc \in {"data", "eof"} =>
         /\ sWork[v].pc \in {"data", "eof"}
         /\ sWork'[v].h = sWork[v].h /\ sWork'[v].pos = sWork[v].pos
    <3>1. CASE WorkerOpenFails(w)
      <4>1. sWork' = [sWork EXCEPT ![w].pc = "eof"] /\ sWork[w].pc = "data"
        BY <3>1 DEF WorkerOpenFails
      <4> QED  BY <1>k, <4>1 DEF WorkSet
    <3>2. CASE sWork' = [sWork EXCEPT ![w] = Done]
      BY <1>k, <3>2 DEF Done
    <3> QED  BY <1>1, <3>1, <3>2 DEF WorkerTakes, WorkerExits, WorkerFails
  <2>3. \A p \in Entries, v \in Workers : Busy(v, p)' => Busy(v, p) /\ sWork'[v].pos = sWork[v].pos
    BY <2>2 DEF Busy
  <2> QED  BY <1>k, <1>s, <2>1, <2>3, ChannelOf
<1>2. CASE WorkerTakes(w) /\ ~sCtxDone
  <2>1. /\ sPipe # <<>> /\ toR' = toR /\ sWork' = [sWork EXCEPT ![w] = Working(Head(sPipe))]
    BY <1>2 DEF WorkerTakes, wireVars
  <2>2. Head(sPipe) \in Handles /\ Head(sPipe) = sPipe[1] /\ Len(sPipe) \in Nat /\ Len(sPipe) > 0
    BY <1>k, <2>1, TailFacts
  <2>3. 1 \in 1..Len(sPipe)
    BY <2>2
  <2>q. PICK q \in Entries : q = Head(sPipe).path
    BY <2>2, <2>3 DEF LInv, Life, InRange
  <2>4. /\ \A v \in Workers : v # w => sWork'[v] = sWork[v]
        /\ sWork'[w].pc = "data" /\ sWork'[w].h.path = q /\ sWork'[w].pos = 0
    BY <1>k, <2>1, <2>q DEF Working
  <2>5. \A p \in Entries : p # q => ContentOf(p)'
    <3> SUFFICES ASSUME NEW p \in Entries, p # q PROVE ContentOf(p)'
      OBVIOUS
    <3>1. \A v \in Workers : Busy(v, p)' => Busy(v, p) /\ sWork'[v].pos = sWork[v].pos
      BY <2>4 DEF Busy
    <3> QED  BY <1>k, <1>s, <2>1, <3>1, ChannelOf
  <2>6. At(q, "queued") /\ Early(q)
    BY <2>2, <2>3, <2>q DEF At, Early
  <2>7. Got(q) = 0 /\ Got(q)' = 0 /\ Chunks[q] \in Nat
    BY <1>r, <2>6, ContentTypes DEF ContentOf, Arrives, Got
  <2>8. \A i \in 1..Len(toR) : ~IsData(toR[i], q)
    BY <2>6 DEF LInv, Life, LifeOf, DataLate
  <2>9. \A i \in 1..Len(toR') : ~IsData(toR'[i], q)
    BY <2>1, <2>8
  <2>10. \A v \in Workers : Busy(v, q)' => v = w
    <3>1. LifeOf(q)'
      BY DEF LInv, Life
    <3>2. Busy(w, q)'
      BY <2>4 DEF Busy
    <3> QED  BY <3>1, <3>2 DEF LifeOf, OnePlace
  <2>11. pipe'[q] # "closed"
    <3>1. ~At(q, "ended")
      BY <2>6 DEF LInv, Life, LifeOf, OneStage, Stages
    <3> QED  BY <1>r, <3>1 DEF At
  <2>12. Arrives(q)'
    BY <2>4, <2>7, <2>9, <2>10 DEF Arrives, IsChunk, IsData, Eof
  <2>13. NoHoles(q)'
    BY <2>4, <2>7, <2>9, <2>10 DEF NoHoles, IsChunk, IsData, Eof
  <2>14. EndsWhole(q)'
    BY <2>9, <2>11 DEF EndsWhole, IsEof, IsData, Eof
  <2>15. ContentOf(q)'
    BY <2>12, <2>13, <2>14 DEF ContentOf
  <2> QED  BY <2>5, <2>15
<1>3. CASE WorkerSendsData(w) \/ WorkerSendsEOF(w)
  <2>1. sWork[w].pc \in {"data", "eof"}
    BY <1>3 DEF WorkerSendsData, WorkerSendsEOF, AtEOF
  <2>q. PICK q \in Entries : q = sWork[w].h.path
    BY <2>1, WorkerFacts
  <2>2. /\ q \in Nat /\ q # 0 /\ sWork[w].h.id \in Ids /\ sWork[w].h.id = q - 1 /\ sWork[w].pos \in Nat
        /\ Chunks[q] \in Nat /\ Got(q) \in Nat
    BY <2>1, <2>q, WorkerFacts, EntryFacts, ContentTypes DEF NoPath
  <2>n. PICK n \in Nat : n = sWork[w].pos
    BY <2>2
  <2>3. Busy(w, q) /\ ContentOf(q) /\ Got(q)' = Got(q) /\ dest'[q] = dest[q] /\ pipe'[q] = pipe[q]
    BY <1>r, <2>1, <2>q DEF Busy, Got
  <2>4. ~Early(q) /\ ~(Early(q)') /\ pipe[q] = "open" /\ \A i \in 1..Len(toR) : ~IsEof(toR[i], q)
    <3>1. At(q, "served")
      BY <2>3 DEF At
    <3>2. \A u \in Stages : At(q, u) => u = "served"
      BY <3>1 DEF LInv, Life, LifeOf, OneStage, Stages
    <3>3. ~At(q, "unasked") /\ ~At(q, "asked") /\ ~At(q, "held") /\ ~At(q, "queued") /\ ~At(q, "ended")
      BY <3>2 DEF Stages
    <3> QED  BY <1>e, <3>3 DEF At, Early
  <2>b. /\ Got(q) <= n /\ n <= Chunks[q]
        /\ \A i \in 1..Len(toR) : IsChunk(toR[i], q) => toR[i].data[2] <= n
    BY <2>3, <2>n DEF ContentOf, Arrives
  <2>c. /\ Got(q) <= Chunks[q]
        /\ \A k \in 1..Got(q) : dest'[q].data[k] = <<q, k>>
        /\ \A i \in 1..Len(toR) : IsChunk(toR[i], q) =>
             Got(q) < toR[i].data[2] /\ toR[i].data[2] <= Chunks[q] /\ toR[i].data[2] \in Nat
        /\ \A i, j \in 1..Len(toR) :
             i < j /\ IsChunk(toR[i], q) /\ IsChunk(toR[j], q) => toR[i].data[2] < toR[j].data[2]
    BY <2>3, ContentTypes DEF ContentOf, Arrives, IsChunk
  <2>d. /\ \A i \in 1..Len(toR) : IsChunk(toR[i], q) =>
             \A k \in Nat : Counts /\ Got(q) < k /\ k < toR[i].data[2] => UnderWay(q, k)
        /\ Counts /\ Got(q) < n => UnderWay(q, n)
    BY <2>3, <2>n DEF ContentOf, NoHoles
  <2>e. \A v \in Workers : Busy(v, q)' => v = w
    <3>1. \A v \in Workers : Busy(v, q)' => Busy(v, q)
      BY <1>3, <1>k DEF Busy, WorkerSendsData, WorkerSendsEOF, WorkSet, Idle
    <3> QED  BY <2>3, <3>1 DEF LInv, Life, LifeOf, OnePlace
  <2>5. CASE WorkerSendsData(w)
    <3> DEFINE m == DataPacket(q - 1, <<q, n + 1>>)
    <3>1. /\ SendToReceiver(m) /\ sWork' = [sWork EXCEPT ![w].pos = sWork[w].pos + 1]
          /\ n + 1 <= Chunks[q]
      BY <2>2, <2>5, <2>q, <2>n DEF WorkerSendsData
    <3>2. /\ m \in Packets /\ m.type = "DATA" /\ m.id = q - 1 /\ IsChunk(m, q) /\ ~IsEof(m, q)
          /\ m.data[2] = n + 1
      <4>1. <<q, n + 1>> \in Chunk
        BY <2>2 DEF Chunk
      <4>2. <<q, n + 1>> # Eof
        BY <2>2 DEF Eof
      <4> QED  BY <2>2, <4>1, <4>2, PacketsBuilt DEF DataPacket, IsChunk, IsEof, IsData
    <3> HIDE DEF m
    <3>3. /\ toR \in Seq(Packets) /\ Len(toR) \in Nat /\ Len(toR') = Len(toR) + 1
          /\ \A i \in 1..Len(toR) : i \in 1..Len(toR') /\ toR'[i] = toR[i]
          /\ toR'[Len(toR) + 1] = m
          /\ \A i \in 1..Len(toR') : i \in 1..Len(toR) \/ i = Len(toR) + 1
      BY <1>k, <3>1, <3>2, DataSent
    <3>4. sWork'[w].pos = n + 1 /\ \A v \in Workers : v # w => sWork'[v] = sWork[v]
      BY <1>k, <2>n, <3>1 DEF WorkSet
    <3>5. \A p \in Entries : p # q => ContentOf(p)'
      <4> SUFFICES ASSUME NEW p \in Entries, p # q PROVE ContentOf(p)'
        OBVIOUS
      <4>1. ~IsData(m, p)
        BY <2>2, <3>2, EntryFacts DEF IsData
      <4>2. \A v \in Workers : Busy(v, p)' => Busy(v, p) /\ sWork'[v].pos = sWork[v].pos
        <5>1. sWork'[w].h = sWork[w].h
          BY <1>k, <3>1 DEF WorkSet
        <5> QED  BY <2>q, <3>4, <5>1 DEF Busy
      <4> QED  BY <1>k, <1>s, <3>1, <3>2, <4>1, <4>2, ChannelOf
    <3>6. StillUnderWay(q)
      BY <1>k, <3>1, <3>2, ChannelOf
    <3>7. UnderWay(q, n + 1)'
      <4>1. Len(toR) + 1 \in 1..Len(toR')
        BY <3>3
      <4>2. \E i \in 1..Len(toR') : IsChunk(toR'[i], q) /\ toR'[i].data[2] = n + 1
        BY <3>2, <3>3, <4>1
      <4> QED  BY <4>2 DEF UnderWay, IsChunk, IsData, Eof
    <3>8. Arrives(q)'
      <4>1. \A i \in 1..Len(toR') : IsChunk(toR'[i], q) =>
              Got(q) < toR'[i].data[2] /\ toR'[i].data[2] <= Chunks[q] /\ toR'[i].data[2] <= n + 1
        <5> SUFFICES ASSUME NEW i \in 1..Len(toR'), IsChunk(toR'[i], q)
                     PROVE  Got(q) < toR'[i].data[2] /\ toR'[i].data[2] <= Chunks[q] /\ toR'[i].data[2] <= n + 1
          OBVIOUS
        <5>1. CASE i \in 1..Len(toR)
          <6>1. toR'[i] = toR[i] /\ IsChunk(toR[i], q)
            BY <3>3, <5>1
          <6>2. /\ Got(q) < toR[i].data[2] /\ toR[i].data[2] <= Chunks[q] /\ toR[i].data[2] \in Nat
                /\ toR[i].data[2] <= n
            BY <2>b, <2>c, <5>1, <6>1
          <6> QED BY <2>2, <6>1, <6>2
        <5>2. CASE i = Len(toR) + 1
          <6>1. toR'[i].data[2] = n + 1
            BY <3>2, <3>3, <5>2
          <6> QED BY <2>2, <2>b, <3>1, <6>1
        <5> QED BY <3>3, <5>1, <5>2
      <4>2. ASSUME NEW i \in 1..Len(toR'), NEW j \in 1..Len(toR'),
                   i < j, IsChunk(toR'[i], q), IsChunk(toR'[j], q)
            PROVE  toR'[i].data[2] < toR'[j].data[2]
        <5>1. i \in 1..Len(toR)
          BY <3>3, <4>2
        <5>2. CASE j \in 1..Len(toR)
          BY <2>c, <3>3, <4>2, <5>1, <5>2
        <5>3. CASE j = Len(toR) + 1
          BY <2>b, <2>c, <3>2, <3>3, <4>2, <5>1, <5>3
        <5> QED  BY <3>3, <5>2, <5>3
      <4>3. Got(q) <= n + 1
        BY <2>2, <2>b
      <4> QED  BY <2>3, <2>4, <2>c, <2>e, <3>1, <3>4, <4>1, <4>2, <4>3 DEF Arrives, IsChunk, IsData, Eof
    <3>9. NoHoles(q)'
      <4> SUFFICES ASSUME Counts PROVE NoHoles(q)'
        BY <1>r DEF NoHoles
      <4>1. \A k \in Nat : Got(q) < k /\ k <= n => UnderWay(q, k)
        <5> SUFFICES ASSUME NEW k \in Nat, Got(q) < k, k <= n PROVE UnderWay(q, k)
          OBVIOUS
        <5>1. UnderWay(q, n)
          BY <2>2, <2>d
        <5>2. PICK i \in 1..Len(toR) : IsChunk(toR[i], q) /\ toR[i].data[2] = n
          BY <5>1 DEF UnderWay
        <5> QED  BY <2>d, <5>1, <5>2
      <4>2. ASSUME NEW i \in 1..Len(toR'), IsChunk(toR'[i], q), NEW k \in Nat, Got(q) < k, k < toR'[i].data[2]
            PROVE  UnderWay(q, k)'
        <5>1. UnderWay(q, k)
          <6>1. CASE i \in 1..Len(toR)
            BY <2>d, <3>3, <4>2, <6>1
          <6>2. CASE i = Len(toR) + 1
            BY <3>2, <3>3, <4>1, <4>2, <6>2
          <6> QED  BY <3>3, <6>1, <6>2
        <5> QED  BY <3>6, <5>1 DEF StillUnderWay
      <4>3. \A v \in Workers : Busy(v, q)' => UnderWay(q, n + 1)' /\ sWork'[v].pos = n + 1
        BY <2>e, <3>4, <3>7
      <4> QED  BY <2>3, <4>2, <4>3 DEF NoHoles, IsChunk, IsData, UnderWay, Eof
    <3>10. EndsWhole(q)'
      <4>1. \A i \in 1..Len(toR') : ~IsEof(toR'[i], q)
        BY <2>4, <3>2, <3>3
      <4> QED  BY <2>3, <2>4, <4>1 DEF EndsWhole, IsEof, IsData, Eof
    <3>11. ContentOf(q)'
      BY <3>8, <3>9, <3>10 DEF ContentOf
    <3> QED  BY <3>5, <3>11
  <2>6. CASE WorkerSendsEOF(w)
    <3> DEFINE m == DataPacket(q - 1, Eof)
    <3>1. /\ SendToReceiver(m) /\ sWork' = [sWork EXCEPT ![w] = Idle]
          /\ n = Chunks[q] \/ (fault = "open" /\ n = 0)
      BY <2>2, <2>6, <2>q, <2>n DEF WorkerSendsEOF, AtEOF, NotOpened
    <3>2. m \in Packets /\ m.type = "DATA" /\ m.id = q - 1 /\ ~IsChunk(m, q)
      BY <2>2, PacketsBuilt, NatFacts DEF DataPacket, IsChunk, IsData
    <3> HIDE DEF m
    <3>3. /\ toR \in Seq(Packets) /\ Len(toR) \in Nat /\ Len(toR') = Len(toR) + 1
          /\ \A i \in 1..Len(toR) : i \in 1..Len(toR') /\ toR'[i] = toR[i]
          /\ toR'[Len(toR) + 1] = m
          /\ \A i \in 1..Len(toR') : i \in 1..Len(toR) \/ i = Len(toR) + 1
      BY <1>k, <3>1, <3>2, DataSent
    <3>4. sWork'[w].pc = "idle" /\ \A v \in Workers : v # w => sWork'[v] = sWork[v]
      BY <1>k, <3>1 DEF Idle
    <3>5. \A p \in Entries : p # q => ContentOf(p)'
      <4> SUFFICES ASSUME NEW p \in Entries, p # q PROVE ContentOf(p)'
        OBVIOUS
      <4>1. ~IsData(m, p)
        BY <2>2, <3>2, EntryFacts DEF IsData
      <4>2. \A v \in Workers : Busy(v, p)' => Busy(v, p) /\ sWork'[v].pos = sWork[v].pos
        BY <3>4 DEF Busy
      <4> QED  BY <1>k, <1>s, <3>1, <3>2, <4>1, <4>2, ChannelOf
    <3>6. StillUnderWay(q)
      BY <1>k, <3>1, <3>2, ChannelOf
    <3>7. \A i \in 1..Len(toR') : IsChunk(toR'[i], q) => i \in 1..Len(toR) /\ toR'[i] = toR[i]
      BY <3>2, <3>3
    <3>8. \A v \in Workers : ~(Busy(v, q)')
      BY <2>e, <3>4 DEF Busy
    <3>9. Arrives(q)'
      BY <2>3, <2>4, <2>c, <3>7, <3>8 DEF Arrives, IsChunk, IsData, Eof
    <3>10. NoHoles(q)'
      <4> SUFFICES ASSUME Counts PROVE NoHoles(q)'
        BY <1>r DEF NoHoles
      <4>1. ASSUME NEW i \in 1..Len(toR'), IsChunk(toR'[i], q), NEW k \in Nat, Got(q) < k, k < toR'[i].data[2]
            PROVE  UnderWay(q, k)'
        BY <2>d, <3>6, <3>7, <4>1 DEF StillUnderWay
      <4> QED  BY <2>3, <3>8, <4>1 DEF NoHoles, IsChunk, IsData, UnderWay, Eof
    <3>11. EndsWhole(q)'
      <4>1. ASSUME Counts, Got(q) # Chunks[q], ~UnderWay(q, Chunks[q])
            PROVE  NotRead(q) /\ \A i \in 1..Len(toR) : ~IsChunk(toR[i], q)
        <5>1. fault = "open" /\ n = 0
          <6>1. n = Chunks[q] => Got(q) < n
            BY <2>2, <2>b, <4>1
          <6> QED  BY <2>d, <3>1, <4>1, <6>1
        <5>2. Got(q) = 0
          BY <2>2, <2>b, <5>1
        <5>3. \A i \in 1..Len(toR) : ~IsChunk(toR[i], q)
          BY <2>b, <2>c, <5>1, <5>2
        <5> QED  BY <5>1, <5>2, <5>3 DEF NotRead
      <4>2. NotRead(q) => NotRead(q)'
        BY <1>f, <2>3 DEF NotRead
      <4>3. UnderWay(q, Chunks[q]) => UnderWay(q, Chunks[q])'
        BY <2>2, <3>6 DEF StillUnderWay
      <4>4. \/ ~Counts \/ Got(q)' = Chunks[q] \/ UnderWay(q, Chunks[q])'
            \/ NotRead(q)' /\ \A i \in 1..Len(toR') : ~IsChunk(toR'[i], q)
        BY <2>3, <3>7, <4>1, <4>2, <4>3
      <4> QED  BY <1>r, <2>3, <2>4, <4>4 DEF EndsWhole, IsEof, IsChunk, IsData, Eof
    <3>12. ContentOf(q)'
      BY <3>9, <3>10, <3>11 DEF ContentOf
    <3> QED  BY <3>5, <3>12
  <2> QED  BY <1>3, <2>5, <2>6
<1> QED  BY <1>1, <1>2, <1>3 DEF Worker

-----------------------------------------------------------------------------
(* The steps of the receiver.                                              *)

(* The receive loop, DATA excepted.                                        *)
LEMMA RecvContent ==
  ASSUME LInv, \A p \in Entries : ContentOf(p), [Next]_vars,
         \/ RecvGetsErr \/ RecvGetsLast \/ RecvGetsStat \/ RecvUpdates
         \/ RecvGetsFin \/ RecvDrains \/ RecvEOF \/ RecvLoopFails \/ Fill \/ ReceiveReturns,
         UNCHANGED senderVars
  PROVE  \A p \in Entries : ContentOf(p)'
<1>0. WireTypeOK
  BY DEF LInv, GInv, TInv, SInv
<1>1. UNCHANGED <<async, pipe, dest, toS>>
  BY DEF RecvGetsErr, RecvGetsLast, RecvGetsStat, RecvUpdates, RecvGetsFin, RecvDrains, RecvEOF, RecvLoopFails,
         Fill, ReceiveReturns, ReceiverGets, ReceiverGetsEOF, RecvFails, wireVars, receiverVars, diskVars
<1>2. UNCHANGED <<sRecv, sHandle, sPipe, sWork>>
  BY DEF senderVars, pipeVars
<1>3. Counts' => Counts
  BY DEF RecvGetsErr, RecvGetsLast, RecvGetsStat, RecvUpdates, RecvGetsFin, RecvDrains, RecvEOF, RecvLoopFails,
         RecvEnds, Fill, ReceiveReturns, recvVars, receiverVars, Counts
<1> SUFFICES ASSUME NEW p \in Entries PROVE ContentOf(p)'
  OBVIOUS
<1>4. toR' = toR \/ \E t : ReceiverGets(t) /\ (Counts' => t = "STAT")
  <2>1. CASE RecvGetsErr \/ RecvGetsFin
    BY <2>1 DEF RecvGetsErr, RecvGetsFin, RecvEnds, Counts
  <2>2. CASE RecvGetsLast \/ RecvGetsStat
    BY <2>2 DEF RecvGetsLast, RecvGetsStat
  <2>3. CASE RecvDrains
    BY <2>3 DEF RecvDrains, receiverVars, recvVars, Counts
  <2>4. CASE RecvUpdates \/ RecvEOF \/ RecvLoopFails \/ Fill \/ ReceiveReturns
    BY <2>4 DEF RecvUpdates, RecvEOF, RecvLoopFails, Fill, ReceiveReturns, ReceiverGetsEOF, RecvFails, wireVars
  <2> QED  BY <2>1, <2>2, <2>3, <2>4
<1>5. Shifted(p) /\ (Counts' => StillUnderWay(p))
  <2>1. CASE toR' = toR
    BY <1>0, <2>1, ChannelOf
  <2>2. ASSUME NEW t, ReceiverGets(t), Counts' => t = "STAT"
        PROVE  Shifted(p) /\ (Counts' => StillUnderWay(p))
    <3>1. t = "STAT" => ~IsChunk(Head(toR), p)
      BY <2>2 DEF ReceiverGets, IsChunk, IsData
    <3> QED  BY <1>0, <2>2, <3>1, ChannelOf
  <2> QED  BY <1>4, <2>1, <2>2
<1>6. Early(p)' => Early(p)
  BY <1>1, <1>2, EarlyKept
<1>7. \A w \in Workers : Busy(w, p)' => Busy(w, p) /\ sWork'[w].pos = sWork[w].pos
  BY <1>2 DEF Busy
<1>8. SameFor(p)
  BY <1>1, <1>3, <1>5, <1>6, <1>7, FaultKept, SameParts
<1> QED  BY <1>8, SameContent

(* The goroutine of a file, and the diff where it creates nothing.         *)
LEMMA AskingContent ==
  ASSUME LInv, \A p \in Entries : ContentOf(p), [Next]_vars,
         \/ \E p \in Entries : Async(p)
         \/ Diff /\ ~DiffNext
         \/ ConnFails \/ UNCHANGED vars,
         UNCHANGED senderVars
  PROVE  \A p \in Entries : ContentOf(p)'
<1>0. WireTypeOK /\ toS \in Seq(Packets) /\ async \in [Entries -> AsyncSet]
      /\ dest \in [Entries -> [data : Seq(Chunk), meta : {"old", "src", "now"}]]
  BY DEF LInv, GInv, TInv, SInv, WireTypeOK, ReceiverTypeOK
<1>1. UNCHANGED <<toR, pipe, rRecv>>
  BY DEF Async, AsyncRegisters, AsyncSendsReq, AsyncWaits, AsyncFinishes, Diff, DiffApplies, DiffCanceled,
         DiffJoins, DiffWaits, DiffSendsFin, DiffSendsErr, ConnFails, SendToSender, SendFails,
         wireVars, receiverVars, recvVars, diskVars, vars
<1>2. UNCHANGED <<sRecv, sHandle, sPipe, sWork>>
  BY DEF senderVars, pipeVars
<1> SUFFICES ASSUME NEW p \in Entries PROVE ContentOf(p)'
  OBVIOUS
<1>3. dest'[p].data = dest[p].data
  <2>1. ASSUME NEW q \in Entries, AsyncFinishes(q) PROVE dest'[p].data = dest[p].data
    <3>1. dest' = dest \/ dest' = [dest EXCEPT ![q].meta = "src"]
      BY <2>1 DEF AsyncFinishes
    <3>2. p \in DOMAIN dest /\ q \in DOMAIN dest
      BY <1>0
    <3>3. CASE dest' = [dest EXCEPT ![q].meta = "src"]
      <4>1. CASE q = p
        <5>1. dest'[p] = [dest[p] EXCEPT !.meta = "src"]
          BY <3>2, <3>3, <4>1
        <5>2. dest[p] \in [data : Seq(Chunk), meta : {"old", "src", "now"}]
          BY <1>0
        <5> QED  BY <5>1, <5>2
      <4>2. CASE q # p
        BY <3>2, <3>3, <4>2
      <4> QED  BY <4>1, <4>2
    <3> QED  BY <3>1, <3>3
  <2>2. (\E q \in Entries : AsyncFinishes(q)) \/ dest' = dest
    BY DEF Async, AsyncRegisters, AsyncSendsReq, AsyncWaits, Diff, DiffApplies, DiffCanceled,
         DiffJoins, DiffWaits, DiffSendsFin, DiffSendsErr, ConnFails, receiverVars, diskVars, vars
  <2> QED  BY <2>1, <2>2
<1>4. Early(p)' => Early(p)
  <2>1. At(p, "held")' => At(p, "held")
    BY <1>2 DEF At
  <2>2. At(p, "queued")' => At(p, "queued")
    BY <1>2 DEF At
  <2>3. CASE async' = async /\ SLess
    <3>1. At(p, "asked")' => At(p, "asked")
      BY <2>3 DEF At, SLess, IsReq
    <3> QED  BY <2>1, <2>2, <2>3, <3>1 DEF Early
  <2>4. ASSUME NEW q \in Entries, Async(q) PROVE Early(p)' => Early(p)
    <3>1. CASE AsyncSendsReq(q) /\ SendToSender(ReqPacket(async[q].id))
      <4>1. /\ async[q].pc = "req" /\ async[q].id = q - 1
            /\ toS' = Append(toS, ReqPacket(q - 1)) /\ ReqPacket(q - 1) \in Packets
        BY <3>1, EntryFacts, PacketsBuilt DEF AsyncSendsReq, SendToSender, LInv, Tickets
      <4>2. /\ Len(toS') = Len(toS) + 1 /\ Len(toS) \in Nat
            /\ \A i \in 1..Len(toS) : toS'[i] = toS[i]
            /\ toS'[Len(toS) + 1] = ReqPacket(q - 1)
        BY <1>0, <4>1, AppendFacts, LenProperties
      <4>3. \A i \in 1..Len(toS') : i \in 1..Len(toS) \/ i = Len(toS) + 1
        BY <4>2
      <4>4. IsReq(ReqPacket(q - 1), p) => q = p
        BY EntryFacts DEF IsReq, ReqPacket
      <4>5. At(p, "asked")' => At(p, "asked") \/ q = p
        BY <4>2, <4>3, <4>4 DEF At, IsReq
      <4>6. async'[p].pc \in {"start", "req"} => async[p].pc \in {"start", "req"}
        <5>1. CASE async' = [async EXCEPT ![q].pc = "wait"]
          BY <1>0, <5>1 DEF AsyncSet
        <5>2. CASE async' = [async EXCEPT ![q].pc = "failed"]
          BY <1>0, <5>2 DEF AsyncSet
        <5> QED  BY <3>1, <5>1, <5>2 DEF AsyncSendsReq, AsyncFails
      <4> QED  BY <2>1, <2>2, <4>1, <4>5, <4>6 DEF Early
    <3>2. CASE ~(AsyncSendsReq(q) /\ SendToSender(ReqPacket(async[q].id)))
      <4>1. toS' = toS
        BY <2>4, <3>2 DEF Async, AsyncRegisters, AsyncSendsReq, AsyncWaits, AsyncFinishes, SendFails, wireVars
      <4>2. async'[p].pc \in {"start", "req"} => async[p].pc \in {"start", "req"}
        <5>1. CASE async' = [async EXCEPT ![q] = [pc |-> "req", id |-> rFiles[q]]] /\ async[q].pc = "start"
          BY <1>0, <5>1 DEF AsyncSet
        <5>2. ASSUME NEW c \in {"wait", "finish", "done", "failed"}, async' = [async EXCEPT ![q].pc = c]
              PROVE  async'[p].pc \in {"start", "req"} => async[p].pc \in {"start", "req"}
          BY <1>0, <5>2 DEF AsyncSet
        <5>3. \/ async' = [async EXCEPT ![q] = [pc |-> "req", id |-> rFiles[q]]] /\ async[q].pc = "start"
              \/ \E c \in {"wait", "finish", "done", "failed"} : async' = [async EXCEPT ![q].pc = c]
          BY <2>4 DEF Async, AsyncRegisters, AsyncSendsReq, AsyncWaits, AsyncFinishes, AsyncFails
        <5> QED  BY <5>1, <5>2, <5>3
      <4>3. At(p, "asked")' => At(p, "asked")
        BY <4>1 DEF At, IsReq
      <4> QED  BY <2>1, <2>2, <4>2, <4>3 DEF Early
    <3> QED  BY <3>1, <3>2
  <2>5. (\E q \in Entries : Async(q)) \/ (async' = async /\ SLess)
    <3>1. FinPacket \in Packets /\ FinPacket.type # "REQ"
      BY PacketsBuilt DEF FinPacket
    <3>2. ErrPacket(ReportedErr(diffErr)) \in Packets /\ ErrPacket(ReportedErr(diffErr)).type # "REQ"
      <4>1. ReportedErr(diffErr) \in Causes
        BY DEF ReportedErr, LInv, GInv, TInv, ReceiverTypeOK
      <4> QED  BY <4>1, PacketsBuilt DEF ErrPacket
    <3>3. \/ \E q \in Entries : Async(q)
          \/ /\ async' = async
             /\ toS' = toS \/ SendToSender(FinPacket) \/ SendToSender(ErrPacket(ReportedErr(diffErr)))
      BY DEF Diff, DiffApplies, DiffCanceled, DiffJoins, DiffWaits, DiffSendsFin, DiffSendsErr, SendFails,
             ConnFails, wireVars, receiverVars, diskVars, vars
    <3> QED  BY <1>0, <3>1, <3>2, <3>3, SLessFacts
  <2> QED  BY <2>3, <2>4, <2>5
<1>5. \A w \in Workers : Busy(w, p)' => Busy(w, p) /\ sWork'[w].pos = sWork[w].pos
  BY <1>2 DEF Busy
<1>6. Shifted(p) /\ StillUnderWay(p) /\ (Counts' => Counts)
  BY <1>0, <1>1, ChannelOf DEF Counts
<1>7. SameFor(p)
  BY <1>1, <1>3, <1>4, <1>5, <1>6, FaultKept, SameParts
<1> QED  BY <1>7, SameContent

(* A change starts the file anew: nothing of it can be under way.          *)
LEMMA CreateContent ==
  ASSUME LInv, FilesOnly, \A p \in Entries : ContentOf(p), [Next]_vars,
         DiffNext, UNCHANGED <<senderVars, recvVars, reqVars, wireVars>>
  PROVE  FilesOnly' /\ \A p \in Entries : ContentOf(p)'
<1>0. /\ WireTypeOK /\ async \in [Entries -> AsyncSet]
      /\ dest \in [Entries -> [data : Seq(Chunk), meta : {"old", "src", "now"}]]
      /\ c2 \in Seq(Entries) /\ c2 # <<>>
  BY DEF LInv, GInv, TInv, SInv, ReceiverTypeOK, DiffNext
<1>1. UNCHANGED <<rRecv, rPend, rFiles, toR, toS, pipe, sRecv, sHandle, sPipe, sWork>> /\ Counts' = Counts
  BY DEF recvVars, reqVars, wireVars, DiffNext, senderVars, pipeVars, Counts
<1>q. PICK q \in Entries : q = Head(c2)
  BY <1>0, TailFacts
<1>2. \/ UNCHANGED <<async, dest>>
      \/ HandleChange(q)
  BY <1>q DEF DiffNext
<1>s. ASSUME NEW p \in Entries, async'[p] = async[p], dest'[p].data = dest[p].data
      PROVE  ContentOf(p)'
  <2>1. Shifted(p) /\ StillUnderWay(p)
    BY <1>0, <1>1, ChannelOf
  <2>2. Early(p)' => Early(p)
    BY <1>1, <1>s DEF Early, At, IsReq
  <2>3. \A w \in Workers : Busy(w, p)' => Busy(w, p) /\ sWork'[w].pos = sWork[w].pos
    BY <1>1 DEF Busy
  <2>4. SameFor(p)
    BY <1>1, <1>s, <2>1, <2>2, <2>3, FaultKept, SameParts
  <2> QED  BY <2>4, SameContent
<1>3. CASE UNCHANGED <<async, dest>>
  BY <1>3, <1>s DEF FilesOnly
<1>4. CASE HandleChange(q)
  <2>1. /\ \A p \in Entries : p # q => async'[p] = async[p] /\ dest'[p] = dest[p]
        /\ dest'[q].data = <<>>
        /\ Kind[q] # "file" => async' = async
    BY <1>0, <1>4 DEF HandleChange, Created
  <2>2. async[q].pc = "none"
    <3>1. CASE Kind[q] # "file"
      BY <3>1 DEF FilesOnly
    <3>2. CASE Kind[q] = "file"
      <4>1. /\ walkQ \o rPend \in Seq(Entries) /\ Coming = c2 \o (walkQ \o rPend)
            /\ Coming \in Seq(Entries) /\ Len(Coming) \in Nat
        BY ComingTyped DEF Coming, LInv, GInv, TInv
      <4> DEFINE rest == walkQ \o rPend
      <4>2. c2 \o rest # <<>> /\ Head(c2 \o rest) = Head(c2)
        <5> HIDE DEF rest
        <5> QED  BY <1>0, <4>1, FirstOfConcat DEF rest
      <4>3. Coming # <<>> /\ Head(Coming) = q
        BY <1>q, <4>1, <4>2
      <4> HIDE DEF Coming
      <4>4. Coming[1] = q /\ 1 \in 1..Len(Coming)
        BY <4>1, <4>3, TailFacts
      <4>5. ToAsk(q)
        BY <3>2, <4>4 DEF LInv, HandedOver, fileCanRequestData
      <4> QED  BY <4>5 DEF ToAsk
    <3> QED  BY <3>1, <3>2
  <2>3. At(q, "unasked")
    BY <2>2 DEF At
  <2>4. \A u \in Stages : At(q, u) => u = "unasked"
    BY <2>3 DEF LInv, Life, LifeOf, OneStage, Stages
  <2>5. /\ \A w \in Workers : ~Busy(w, q)
        /\ pipe[q] = "open"
        /\ \A i \in 1..Len(toR) : ~IsData(toR[i], q)
    <3>1. \A i \in 1..Len(toR) : ~IsData(toR[i], q)
      BY <2>3 DEF LInv, Life, LifeOf, DataLate
    <3> QED  BY <2>4, <3>1 DEF At, Stages
  <2>6. Got(q)' = 0 /\ Chunks[q] \in Nat
    BY <2>1, ContentTypes, EmptySeq DEF Got
  <2>7. ContentOf(q)'
    <3>1. /\ \A w \in Workers : ~(Busy(w, q)')
          /\ pipe'[q] = "open"
          /\ \A i \in 1..Len(toR') : ~IsData(toR'[i], q)
      BY <1>1, <2>5 DEF Busy
    <3>2. Arrives(q)'
      BY <2>6, <3>1 DEF Arrives, IsChunk, IsData, Eof
    <3>3. NoHoles(q)' /\ EndsWhole(q)'
      BY <3>1 DEF NoHoles, EndsWhole, IsEof, IsChunk, IsData, Eof
    <3> QED  BY <3>2, <3>3 DEF ContentOf
  <2>8. FilesOnly'
    BY <2>1 DEF FilesOnly
  <2> QED  BY <1>s, <2>1, <2>7, <2>8
<1> QED  BY <1>2, <1>3, <1>4

(* A read that arrives is the next one of its file, and the end arrives    *)
(* after the last.                                                         *)
LEMMA DataContent ==
  ASSUME LInv, \A p \in Entries : ContentOf(p), [Next]_vars, RecvGetsData, UNCHANGED senderVars
  PROVE  \A p \in Entries : ContentOf(p)'
<1>0. /\ WireTypeOK /\ rRecv = "recv" /\ Counts
      /\ dest \in [Entries -> [data : Seq(Chunk), meta : {"old", "src", "now"}]]
      /\ pipe \in [Entries -> {"open", "closed", "failed"}]
  BY DEF LInv, GInv, TInv, SInv, ReceiverTypeOK, RecvGetsData, Counts
<1>1. UNCHANGED <<async, toS, sRecv, sHandle, sPipe, sWork>>
  BY DEF RecvGetsData, ReceiverGets, senderVars, pipeVars
<1>2. /\ toR \in Seq(Packets) /\ toR # <<>> /\ Head(toR).type = "DATA" /\ toR' = Tail(toR)
      /\ ReceiverGets("DATA")
  BY <1>0 DEF WireTypeOK, RecvGetsData, ReceiverGets
<1>3. /\ Head(toR) = toR[1] /\ Head(toR) \in Packets /\ Len(toR) \in Nat /\ Len(toR) > 0
      /\ Len(toR') = Len(toR) - 1
      /\ \A i \in 1..Len(toR') : toR'[i] = toR[i + 1]
  BY <1>2, TailFacts
<1>4. /\ 1 \in 1..Len(toR)
      /\ \A i \in 1..Len(toR') : i + 1 \in 1..Len(toR) /\ 1 < i + 1
      /\ \A i \in 1..Len(toR) : i = 1 \/ (i - 1 \in 1..Len(toR') /\ (i - 1) + 1 = i)
  BY <1>3
<1>5. Head(toR).id \in Ids /\ Head(toR).id \in Nat /\ Head(toR).data \in Chunk
  BY <1>2, <1>3, PacketFields, NatFacts
<1>q. PICK q \in Entries : q = Head(toR).id + 1
  BY <1>2, <1>3, <1>4 DEF LInv, Life, InRange
<1>6. q \in Nat /\ q # NoPath /\ Head(toR).id = q - 1 /\ IsData(toR[1], q)
  BY <1>2, <1>3, <1>5, <1>q, EntryFacts DEF IsData
<1>7. /\ LifeOf(q) /\ rPipes[Head(toR).id] = q /\ pipe[q] = "open"
      /\ \A s \in {"unasked", "asked", "held", "queued"} : ~At(q, s)
  BY <1>4, <1>6 DEF LInv, Life, LifeOf, DataLate
<1>8. ~Early(q) /\ \A p \in Entries : Early(p)' => Early(p)
  <2>1. ~Early(q)
    BY <1>7 DEF Early, At
  <2> QED  BY <1>1, <2>1, EarlyKept
<1>9. Counts' => UNCHANGED rRecv
  BY <1>0 DEF RecvGetsData, RecvEnds, Counts
<1>a. \A p \in Entries : p # q => dest'[p] = dest[p] /\ pipe'[p] = pipe[p]
  BY <1>0, <1>7 DEF RecvGetsData
<1>b. \A p \in Entries : \A w \in Workers : Busy(w, p)' => Busy(w, p) /\ sWork'[w].pos = sWork[w].pos
  BY <1>1 DEF Busy
<1>c. \A p \in Entries : p # q => ContentOf(p)'
  <2> SUFFICES ASSUME NEW p \in Entries, p # q PROVE ContentOf(p)'
    OBVIOUS
  <2>1. ~IsChunk(Head(toR), p)
    BY <1>6, EntryFacts DEF IsChunk, IsData
  <2>2. Shifted(p) /\ StillUnderWay(p)
    BY <1>0, <1>2, <2>1, ChannelOf
  <2>3. SameFor(p)
    BY <1>0, <1>8, <1>a, <1>b, <2>2, FaultKept, SameParts
  <2> QED  BY <2>3, SameContent
<1>t. /\ dest[q].data \in Seq(Chunk) /\ Got(q) \in Nat /\ Chunks[q] \in Nat /\ ContentOf(q)
      /\ Head(toR).data[2] \in Nat
      /\ (Head(toR).data # Eof => Head(toR).data[1] = q)
      /\ \A i \in 1..Len(toR) : IsChunk(toR[i], q) => toR[i].data[2] \in Nat
  <2>1. \A i \in 1..Len(toR) : IsData(toR[i], q) => toR[i].data \in Chunk /\ toR[i].data[2] \in Nat
    BY ContentTypes
  <2>2. Head(toR).data # Eof => IsChunk(toR[1], q)
    BY <1>3, <1>6 DEF IsChunk
  <2>3. \A i \in 1..Len(toR) : IsChunk(toR[i], q) => toR[i].data[1] = q
    BY ContentTypes
  <2> QED  BY <1>3, <1>4, <1>6, <2>1, <2>2, <2>3, ContentTypes DEF IsChunk
<1>10. CASE dest'[q] = dest[q] /\ pipe'[q] # "closed" /\ (Counts' => Head(toR).data = Eof)
  <2>1. Head(toR).data = Eof => ~IsChunk(Head(toR), q)
    BY DEF IsChunk
  <2>2. Shifted(q) /\ (Counts' => StillUnderWay(q))
    BY <1>0, <1>2, <1>10, <2>1, ChannelOf
  <2>3. SameFor(q)
    BY <1>0, <1>8, <1>10, <1>b, <2>2, FaultKept, SameParts
  <2>4. ContentOf(q)'
    BY <2>3, SameContent
  <2> QED  BY <1>c, <2>4
<1>11. CASE Head(toR).data = Eof /\ pipe' = [pipe EXCEPT ![q] = "closed"] /\ dest' = dest
  <2>1. IsEof(toR[1], q) /\ ~IsChunk(Head(toR), q) /\ ~IsChunk(toR[1], q)
    BY <1>3, <1>6, <1>11 DEF IsEof, IsChunk
  <2>2. \A i \in 1..Len(toR) : i # 1 => ~IsData(toR[i], q)
    <3> SUFFICES ASSUME NEW i \in 1..Len(toR), i # 1 PROVE ~IsData(toR[i], q)
      OBVIOUS
    <3>1. 1 < i
      BY <1>3
    <3> QED  BY <1>4, <1>7, <2>1, <3>1 DEF LifeOf, DataLate
  <2>3. Got(q) = Chunks[q] \/ NotRead(q)
    <3>1. ~UnderWay(q, Chunks[q])
      BY <2>1, <2>2 DEF UnderWay, IsChunk
    <3> QED  BY <1>0, <1>4, <1>t, <2>1, <3>1 DEF ContentOf, EndsWhole
  <2>4. Shifted(q) /\ StillUnderWay(q)
    BY <1>0, <1>2, <2>1, ChannelOf
  <2>5. \A i \in 1..Len(toR') : ~IsData(toR'[i], q)
    BY <1>3, <1>4, <2>2
  <2>6. Got(q)' = Got(q) /\ dest'[q] = dest[q]
    BY <1>11 DEF Got
  <2>7. Arrives(q)'
    BY <1>8, <1>b, <1>t, <2>5, <2>6 DEF ContentOf, Arrives, IsChunk, IsData, Eof
  <2>8. NoHoles(q)'
    <3> SUFFICES ASSUME Counts' PROVE NoHoles(q)'
      BY DEF NoHoles
    <3>1. \A w \in Workers : Busy(w, q) /\ Got(q) < sWork[w].pos => FALSE
      BY <1>0, <1>t, <2>1, <2>2 DEF ContentOf, NoHoles, UnderWay, IsChunk
    <3> QED  BY <1>b, <2>5, <2>6, <3>1 DEF NoHoles, IsChunk, IsData, Eof
  <2>9. EndsWhole(q)'
    <3>1. NotRead(q) => NotRead(q)'
      BY <2>6, FaultKept DEF NotRead
    <3> QED  BY <2>3, <2>5, <2>6, <3>1 DEF EndsWhole, IsEof, IsChunk, IsData, Eof
  <2>10. ContentOf(q)'
    BY <2>7, <2>8, <2>9 DEF ContentOf
  <2> QED  BY <1>c, <2>10
<1>12. CASE /\ Head(toR).data # Eof /\ pipe' = pipe
            /\ dest' = [dest EXCEPT ![q] = Written(dest[q], Head(toR).data)]
  <2>1. IsChunk(toR[1], q) /\ Got(q) < toR[1].data[2] /\ toR[1].data[2] <= Chunks[q]
    BY <1>3, <1>4, <1>6, <1>12, <1>t DEF IsChunk, ContentOf, Arrives
  <2>2. ASSUME NEW i \in 1..Len(toR), IsChunk(toR[i], q), i # 1 PROVE toR[1].data[2] < toR[i].data[2]
    <3>1. 1 < i
      BY <1>3, <2>2
    <3> QED  BY <1>4, <1>t, <2>1, <2>2, <3>1 DEF ContentOf, Arrives
  <2>3. toR[1].data[2] = Got(q) + 1
    <3> SUFFICES ASSUME Got(q) + 1 < toR[1].data[2] PROVE FALSE
      BY <1>3, <1>t, <2>1
    <3>1. UnderWay(q, Got(q) + 1)
      BY <1>0, <1>4, <1>t, <2>1 DEF ContentOf, NoHoles
    <3>2. PICK i \in 1..Len(toR) : IsChunk(toR[i], q) /\ toR[i].data[2] = Got(q) + 1
      BY <3>1 DEF UnderWay
    <3> QED  BY <1>3, <1>t, <2>2, <3>2
  <2>n. PICK n \in Nat : n = Got(q)
    BY <1>t
  <2>4. /\ Head(toR).data = <<q, n + 1>>
        /\ dest'[q].data = Append(dest[q].data, <<q, n + 1>>)
    <3>1. \A d \in Chunk : d = <<d[1], d[2]>>
      BY DEF Chunk
    <3>2. Head(toR).data = <<q, n + 1>>
      BY <1>3, <1>5, <1>12, <1>t, <2>3, <2>n, <3>1
    <3> QED  BY <1>0, <1>12, <3>2 DEF Written
  <2>5. /\ Got(q)' = n + 1
        /\ \A k \in 1..n : dest'[q].data[k] = dest[q].data[k]
        /\ dest'[q].data[n + 1] = <<q, n + 1>>
    <3>1. <<q, n + 1>> \in Chunk
      BY <1>5, <2>4
    <3> QED  BY <1>t, <2>4, <2>n, <3>1, AppendFacts DEF Got
  <2>6. \A i \in 1..Len(toR') : IsChunk(toR'[i], q) =>
          /\ i + 1 \in 1..Len(toR) /\ IsChunk(toR[i + 1], q) /\ toR'[i] = toR[i + 1]
          /\ n + 1 < toR'[i].data[2]
    <3> SUFFICES ASSUME NEW i \in 1..Len(toR'), IsChunk(toR'[i], q)
                 PROVE  /\ i + 1 \in 1..Len(toR) /\ IsChunk(toR[i + 1], q) /\ toR'[i] = toR[i + 1]
                        /\ n + 1 < toR'[i].data[2]
      OBVIOUS
    <3>1. i + 1 \in 1..Len(toR) /\ toR'[i] = toR[i + 1] /\ i + 1 # 1
      BY <1>3, <1>4
    <3> QED  BY <2>2, <2>3, <2>n, <3>1
  <2>7. \A k \in Nat : k # n + 1 /\ UnderWay(q, k) => UnderWay(q, k)'
    <3> SUFFICES ASSUME NEW k \in Nat, k # n + 1, UnderWay(q, k)
                 PROVE  \E i \in 1..Len(toR') : IsChunk(toR'[i], q) /\ toR'[i].data[2] = k
      BY DEF UnderWay, IsChunk, IsData, Eof
    <3>1. PICK i \in 1..Len(toR) : IsChunk(toR[i], q) /\ toR[i].data[2] = k
      BY DEF UnderWay
    <3>2. i # 1
      BY <2>3, <2>n, <3>1
    <3>3. i - 1 \in 1..Len(toR') /\ toR'[i - 1] = toR[i]
      BY <1>3, <1>4, <3>2
    <3> QED  BY <3>1, <3>3
  <2>8. Arrives(q)'
    <3>1. \A k \in 1..(n + 1) : dest'[q].data[k] = <<q, k>>
      <4>1. \A k \in 1..n : dest[q].data[k] = <<q, k>>
        BY <1>t, <2>n DEF ContentOf, Arrives
      <4>2. \A k \in 1..(n + 1) : k \in 1..n \/ k = n + 1
        OBVIOUS
      <4> QED  BY <2>5, <4>1, <4>2
    <3>2. \A i \in 1..Len(toR') : IsChunk(toR'[i], q) =>
            n + 1 < toR'[i].data[2] /\ toR'[i].data[2] <= Chunks[q]
      BY <1>t, <2>6 DEF ContentOf, Arrives
    <3>3. ASSUME NEW i \in 1..Len(toR'), NEW j \in 1..Len(toR'),
                 i < j, IsChunk(toR'[i], q), IsChunk(toR'[j], q)
          PROVE  toR'[i].data[2] < toR'[j].data[2]
      <4>1. i + 1 < j + 1
        BY <3>3
      <4> QED  BY <1>t, <2>6, <3>3, <4>1 DEF ContentOf, Arrives
    <3>4. ASSUME NEW w \in Workers, Busy(w, q)'
          PROVE  /\ n + 1 <= sWork'[w].pos /\ sWork'[w].pos <= Chunks[q]
                 /\ \A i \in 1..Len(toR') : IsChunk(toR'[i], q) => toR'[i].data[2] <= sWork'[w].pos
      BY <1>4, <1>b, <1>t, <2>1, <2>3, <2>6, <2>n, <3>4 DEF ContentOf, Arrives
    <3>5. n + 1 <= Chunks[q]
      BY <2>1, <2>3, <2>n
    <3> QED  BY <1>8, <2>5, <3>1, <3>2, <3>3, <3>4, <3>5 DEF Arrives, IsChunk, IsData, Eof
  <2>9. NoHoles(q)'
    <3> SUFFICES ASSUME Counts' PROVE NoHoles(q)'
      BY DEF NoHoles
    <3>1. ASSUME NEW i \in 1..Len(toR'), IsChunk(toR'[i], q), NEW k \in Nat, n + 1 < k, k < toR'[i].data[2]
          PROVE  UnderWay(q, k)'
      <4>1. UnderWay(q, k) /\ k # n + 1
        <5>1. PICK j \in 1..Len(toR) : IsChunk(toR[j], q) /\ k < toR[j].data[2]
          BY <2>6, <3>1
        <5>2. Got(q) < k /\ k # n + 1
          BY <2>n, <3>1
        <5> QED  BY <1>0, <1>t, <5>1, <5>2 DEF ContentOf, NoHoles
      <4> QED  BY <2>7, <4>1
    <3>2. ASSUME NEW w \in Workers, Busy(w, q)', n + 1 < sWork'[w].pos
          PROVE  UnderWay(q, sWork[w].pos)' /\ sWork'[w].pos = sWork[w].pos
      <4>1. Busy(w, q) /\ sWork'[w].pos = sWork[w].pos /\ sWork[w].pos \in Nat
        BY <1>b, <3>2, ContentTypes
      <4>k. PICK k \in Nat : k = sWork[w].pos
        BY <4>1
      <4>2. UnderWay(q, k)
        BY <1>0, <1>t, <2>n, <3>2, <4>1, <4>k DEF ContentOf, NoHoles
      <4>3. UnderWay(q, k)'
        BY <2>7, <3>2, <4>1, <4>k, <4>2
      <4>4. k = sWork'[w].pos
        BY <4>1, <4>k
      <4> QED  BY <4>1, <4>3, <4>4 DEF UnderWay
    <3> QED  BY <2>5, <3>1, <3>2 DEF NoHoles, IsChunk, IsData, UnderWay, Eof
  <2>10. EndsWhole(q)'
    <3>1. ASSUME Counts', NEW i \in 1..Len(toR'), IsEof(toR'[i], q)
          PROVE  Got(q)' = Chunks[q] \/ UnderWay(q, Chunks[q])'
      <4>1. i + 1 \in 1..Len(toR) /\ IsEof(toR[i + 1], q)
        BY <1>3, <1>4, <3>1
      <4>2. UnderWay(q, Chunks[q])
        BY <1>0, <1>3, <1>4, <1>t, <2>1, <4>1 DEF ContentOf, EndsWhole
      <4> QED  BY <1>t, <2>5, <2>7, <4>2
    <3> QED  BY <1>7, <1>12, <3>1 DEF EndsWhole, IsEof, IsChunk, IsData, Eof
  <2>11. ContentOf(q)'
    BY <2>8, <2>9, <2>10 DEF ContentOf
  <2> QED  BY <1>c, <2>11
<1>13. \/ Head(toR).data = Eof /\ pipe' = [pipe EXCEPT ![q] = "closed"] /\ dest' = dest
       \/ /\ Head(toR).data # Eof /\ pipe' = pipe
          /\ dest' = [dest EXCEPT ![q] = Written(dest[q], Head(toR).data)]
       \/ dest' = dest /\ rRecv' = "done" /\ (pipe' = pipe \/ pipe' = [pipe EXCEPT ![q] = "failed"])
  BY <1>6, <1>7 DEF RecvGetsData, RecvEnds
<1>14. ASSUME dest' = dest, rRecv' = "done", pipe' = pipe \/ pipe' = [pipe EXCEPT ![q] = "failed"]
       PROVE  dest'[q] = dest[q] /\ pipe'[q] # "closed" /\ (Counts' => Head(toR).data = Eof)
  BY <1>0, <1>7, <1>14 DEF Counts
<1> QED  BY <1>10, <1>11, <1>12, <1>13, <1>14

-----------------------------------------------------------------------------
LEMMA NotOpenedKept ==
  ASSUME LInv, NotOpened, [Next]_vars
  PROVE  NotOpened'
<1>0. sWork \in [Workers -> WorkSet] /\ (fault = "open" => fault' = "open")
  BY FaultKept DEF LInv, GInv, TInv, SInv, SenderTypeOK
<1>1. CASE sWork' = sWork
  BY <1>0, <1>1 DEF NotOpened
<1>2. ASSUME NEW w \in Workers, Worker(w) PROVE NotOpened'
  <2>1. CASE WorkerOpenFails(w)
    <3>1. /\ fault' = "open" /\ sWork' = [sWork EXCEPT ![w].pc = "eof"] /\ sWork[w].pos = 0
      BY <2>1 DEF WorkerOpenFails, Fault
    <3>2. sWork'[w].pos = 0 /\ \A v \in Workers : v # w => sWork'[v] = sWork[v]
      BY <1>0, <3>1 DEF WorkSet
    <3> QED  BY <3>1, <3>2 DEF NotOpened
  <2>2. ASSUME \/ \E s \in {Done, Idle} \cup {Working(Head(sPipe))} : sWork' = [sWork EXCEPT ![w] = s]
               \/ sWork[w].pc = "data" /\ sWork' = [sWork EXCEPT ![w].pos = sWork[w].pos + 1]
        PROVE  NotOpened'
    <3>1. \A v \in Workers : sWork'[v] = sWork[v] \/ sWork'[v].pc # "eof"
      BY <1>0, <2>2 DEF Done, Idle, Working, WorkSet
    <3> QED  BY <1>0, <3>1 DEF NotOpened
  <2>3. CASE \/ WorkerTakes(w) \/ WorkerExits(w) \/ WorkerSendsData(w) \/ WorkerSendsEOF(w) \/ WorkerFails(w)
    BY <2>2, <2>3 DEF WorkerTakes, WorkerExits, WorkerSendsData, WorkerSendsEOF, WorkerFails
  <2> QED  BY <1>2, <2>1, <2>3 DEF Worker
<1>3. (\E w \in Workers : Worker(w)) \/ sWork' = sWork
  BY DEF Next, Over, vars, senderVars, SenderStep, ConnFails, Walk, WalkVisit, WalkSendStat, WalkSendLast,
         WalkFails, WalkSendFails, WalkSendErr, SenderLoop, LoopCheck, LoopGetsErr, LoopGetsReq, LoopQueues,
         LoopGetsFin, LoopSendsFin, LoopRecvFails, SendReturns
<1> QED  BY <1>1, <1>2, <1>3

LEMMA FilesKept ==
  ASSUME LInv, FilesOnly, \/ async' = async \/ \E p \in Entries : Async(p)
  PROVE  FilesOnly'
<1>1. CASE async' = async
  BY <1>1 DEF FilesOnly
<1>2. ASSUME NEW p \in Entries, Async(p) PROVE FilesOnly'
  <2>1. /\ async[p].pc # "none"
        /\ \A q \in Entries : q # p => async'[q] = async[q]
    BY <1>2 DEF Async, AsyncRegisters, AsyncSendsReq, AsyncWaits, AsyncFinishes, AsyncFails,
                LInv, GInv, TInv, ReceiverTypeOK
  <2> QED  BY <2>1 DEF FilesOnly
<1> QED  BY <1>1, <1>2

LEMMA InitContent == Init => CInv
<1> SUFFICES ASSUME Init PROVE CInv
  OBVIOUS
<1>0. /\ toR = <<>> /\ toS = <<>> /\ sPipe = <<>> /\ sRecv = "check"
      /\ sWork = [w \in Workers |-> Idle]
      /\ async = [p \in Entries |-> NoAsync] /\ pipe = [p \in Entries |-> "open"]
      /\ dest = [p \in Entries |->
                   IF p \in Stale THEN [data |-> <<>>, meta |-> "old"] ELSE Synced(p)]
  BY DEF Init, WireInit, SenderInit, ReceiverInit
<1>1. /\ Len(toR) = 0 /\ Len(toS) = 0 /\ Len(sPipe) = 0
      /\ \A w \in Workers : sWork[w].pc = "idle"
      /\ \A p \in Entries : async[p].pc = "none" /\ pipe[p] = "open"
  BY <1>0, EmptySeq DEF Idle, NoAsync
<1>2. NotOpened /\ FilesOnly
  BY <1>1 DEF NotOpened, FilesOnly
<1>3. ASSUME NEW p \in Entries PROVE ContentOf(p)
  <2>1. Chunks[p] \in Nat
    BY WireAssumption
  <2>2. dest[p].data = <<>> \/ dest[p].data = Content(p)
    BY <1>0 DEF Synced
  <2>3. Got(p) <= Chunks[p] /\ \A k \in 1..Got(p) : dest[p].data[k] = <<p, k>>
    <3>1. CASE dest[p].data = <<>>
      BY <2>1, <3>1, EmptySeq DEF Got
    <3>2. CASE dest[p].data = Content(p)
      BY <2>1, <3>2 DEF Got, Content
    <3> QED  BY <2>2, <3>1, <3>2
  <2>4. ~Early(p)
    BY <1>0, <1>1 DEF Early, At
  <2> QED  BY <1>1, <2>3, <2>4 DEF ContentOf, Arrives, NoHoles, EndsWhole, Busy
<1> QED  BY <1>2, <1>3, InitLife DEF CInv

LEMMA StepContent ==
  ASSUME NoneSkipped, CInv, [Next]_vars
  PROVE  CInv'
<1>0. LInv /\ LInv' /\ NotOpened /\ NotOpened' /\ FilesOnly /\ \A p \in Entries : ContentOf(p)
  BY StepLife, NotOpenedKept DEF CInv
<1>1. CASE SenderStep /\ UNCHANGED receiverVars
  <2>1. FilesOnly'
    BY <1>0, <1>1, FilesKept DEF receiverVars, diskVars
  <2>2. \A p \in Entries : ContentOf(p)'
    BY <1>0, <1>1, WalkLoopContent, WorkerContent DEF SenderStep
  <2> QED  BY <1>0, <2>1, <2>2 DEF CInv
<1>2. CASE ReceiverStep /\ UNCHANGED senderVars
  <2>1. CASE Diff /\ DiffNext
    <3>1. DiffNext /\ UNCHANGED <<senderVars, recvVars, reqVars, wireVars>>
      <4>1. diff = "diff"
        BY <2>1 DEF DiffNext
      <4> QED  BY <1>2, <2>1, <4>1 DEF Diff, DiffApplies, DiffSendsFin, DiffSendsErr
    <3> QED  BY <1>0, <3>1, CreateContent DEF CInv
  <2>2. CASE (\E p \in Entries : Async(p)) \/ (Diff /\ ~DiffNext)
    <3>1. FilesOnly'
      <4>1. async' = async \/ \E p \in Entries : Async(p)
        BY <2>2 DEF Diff, DiffApplies, DiffCanceled, DiffJoins, DiffWaits, DiffSendsFin, DiffSendsErr, diskVars
      <4> QED  BY <1>0, <4>1, FilesKept
    <3>2. \A p \in Entries : ContentOf(p)'
      BY <1>0, <1>2, <2>2, AskingContent
    <3> QED  BY <1>0, <3>1, <3>2 DEF CInv
  <2>3. CASE RecvGetsData
    <3>1. FilesOnly'
      BY <1>0, <2>3, FilesKept DEF RecvGetsData
    <3>2. \A p \in Entries : ContentOf(p)'
      BY <1>0, <1>2, <2>3, DataContent
    <3> QED  BY <1>0, <3>1, <3>2 DEF CInv
  <2>4. CASE \/ RecvGetsErr \/ RecvGetsLast \/ RecvGetsStat \/ RecvUpdates
             \/ RecvGetsFin \/ RecvDrains \/ RecvEOF \/ RecvLoopFails \/ Fill \/ ReceiveReturns
    <3>1. FilesOnly'
      <4>1. async' = async
        BY <2>4 DEF RecvGetsErr, RecvGetsLast, RecvGetsStat, RecvUpdates, RecvGetsFin, RecvDrains, RecvEOF,
                    RecvLoopFails, Fill, ReceiveReturns, receiverVars, diskVars
      <4> QED  BY <1>0, <4>1, FilesKept
    <3>2. \A p \in Entries : ContentOf(p)'
      BY <1>0, <1>2, <2>4, RecvContent
    <3> QED  BY <1>0, <3>1, <3>2 DEF CInv
  <2> QED  BY <1>2, <2>1, <2>2, <2>3, <2>4 DEF ReceiverStep, ReceiverLoop
<1>3. CASE ConnFails \/ UNCHANGED vars
  <2>1. UNCHANGED senderVars /\ async' = async
    BY <1>3 DEF ConnFails, vars, receiverVars, diskVars
  <2>2. FilesOnly'
    BY <1>0, <2>1, FilesKept
  <2>3. \A p \in Entries : ContentOf(p)'
    BY <1>0, <1>3, <2>1, AskingContent
  <2> QED  BY <1>0, <2>2, <2>3 DEF CInv
<1> QED  BY <1>1, <1>2, <1>3 DEF Next, Over

-----------------------------------------------------------------------------
(* What is in a file is at any moment the beginning of its content, for    *)
(* every tree, any number of workers, any capacities and whatever fails    *)
(* (send.go:136-147; receive.go:326-341).                                  *)
THEOREM ContentPrefixHolds ==
  ASSUME NoneSkipped
  PROVE  Spec => []ContentPrefix
<1>1. Init => CInv
  BY InitContent
<1>2. CInv /\ [Next]_vars => CInv'
  BY StepContent
<1>3. CInv => ContentPrefix
  BY DEF CInv, ContentOf, Arrives, Got, ContentPrefix
<1> QED  BY <1>1, <1>2, <1>3, PTL DEF Spec

(* A file of the right size and time is complete.                          *)
LEMMA SyncedFacts ==
  ASSUME NEW p \in Entries
  PROVE  /\ Synced(p).data \in Seq(Chunk) /\ Len(Synced(p).data) = Size(p)
         /\ \A k \in 1..Size(p) : Synced(p).data[k] = <<p, k>>
         /\ sameFile(Synced(p), p)
<1>1. Chunks[p] \in Nat /\ p \in Nat
  BY WireAssumption, EntryFacts
<1>2. /\ Content(p) \in Seq(Chunk) /\ Len(Content(p)) = Chunks[p]
      /\ \A k \in 1..Chunks[p] : Content(p)[k] = <<p, k>>
  <2>1. \A k \in 1..Chunks[p] : <<p, k>> \in Chunk
    BY <1>1 DEF Chunk
  <2>2. Content(p) \in [1..Chunks[p] -> Chunk]
    BY <2>1 DEF Content
  <2>3. Content(p) \in Seq(Chunk)
    BY <1>1, <2>2
  <2> QED  BY <1>1, <2>2, <2>3, LenProperties DEF Content
<1>3. CASE Kind[p] = "file"
  BY <1>2, <1>3 DEF Synced, Size, sameFile
<1>4. CASE Kind[p] # "file"
  BY <1>4, EmptySeq DEF Synced, Size, sameFile
<1> QED  BY <1>3, <1>4

LEMMA SameIsSynced ==
  ASSUME CInv, NEW p \in Entries, sameFile(dest[p], p)
  PROVE  dest[p] = Synced(p)
<1>1. /\ dest[p] \in [data : Seq(Chunk), meta : {"old", "src", "now"}]
      /\ dest[p].data \in Seq(Chunk) /\ Len(dest[p].data) = Size(p) /\ dest[p].meta = "src"
  BY DEF CInv, LInv, GInv, TInv, ReceiverTypeOK, sameFile
<1>2. \A k \in 1..Len(dest[p].data) : dest[p].data[k] = <<p, k>>
  BY DEF CInv, ContentOf, Arrives, Got
<1>3. dest[p].data = Synced(p).data
  <2>1. /\ Synced(p).data \in Seq(Chunk) /\ Len(dest[p].data) = Len(Synced(p).data)
        /\ \A k \in 1..Len(dest[p].data) : dest[p].data[k] = Synced(p).data[k]
    BY <1>1, <1>2, SyncedFacts
  <2> QED  BY <1>1, <2>1, SeqEqual
<1> QED  BY <1>1, <1>3 DEF Synced

(* A file is never taken for unchanged by a later transfer unless it is    *)
(* complete, wherever this one stops (diskwriter.go:188-205, 238).         *)
THEOREM ResumeSafeHolds ==
  ASSUME NoneSkipped
  PROVE  Spec => []ResumeSafe
<1>1. Init => CInv
  BY InitContent
<1>2. CInv /\ [Next]_vars => CInv'
  BY StepContent
<1>3. CInv => ResumeSafe
  BY SameIsSynced DEF ResumeSafe
<1> QED  BY <1>1, <1>2, <1>3, PTL DEF Spec

-----------------------------------------------------------------------------
(* The first packet, when it is a STAT or DATA.                            *)
LEMMA DataTarget ==
  ASSUME LInv, RecvGetsData
  PROVE  \E q \in Entries :
           /\ rPipes[Head(toR).id] = q /\ pipe[q] = "open"
           /\ async[q].pc \notin {"none", "start", "req"}
           /\ 1 \in 1..Len(toR) /\ toR[1] = Head(toR) /\ IsData(toR[1], q)
<1>1. /\ toR \in Seq(Packets) /\ toR # <<>> /\ Head(toR).type = "DATA"
  BY DEF RecvGetsData, ReceiverGets, LInv, GInv, TInv, SInv, WireTypeOK
<1>2. Head(toR) \in Packets /\ Head(toR) = toR[1] /\ Len(toR) \in Nat /\ Len(toR) > 0
  BY <1>1, TailFacts
<1>3. 1 \in 1..Len(toR)
  BY <1>2
<1>4. Head(toR).id \in Ids /\ Head(toR).id \in Nat
  BY <1>1, <1>2, PacketFields, NatFacts
<1>5. PICK q \in Entries : q = Head(toR).id + 1
  BY <1>1, <1>2, <1>3 DEF LInv, Life, InRange
<1>6. q - 1 = Head(toR).id /\ IsData(toR[1], q)
  BY <1>1, <1>2, <1>4, <1>5 DEF IsData
<1>7. /\ rPipes[q - 1] = q /\ pipe[q] = "open" /\ ~At(q, "unasked")
  BY <1>3, <1>6 DEF LInv, Life, LifeOf, DataLate
<1> QED  BY <1>2, <1>3, <1>6, <1>7 DEF At

LEMMA StatTarget ==
  ASSUME NoneSkipped, LInv, RecvGetsStat
  PROVE  /\ rI + 1 \in Entries /\ Head(toR).path = rI + 1 /\ ~Skipped(rI + 1)
         /\ rI \in Nat /\ rI' = rI + 1 /\ rRecv = "recv" /\ rPend = <<>>
<1>1. toR \in Seq(Packets) /\ toR # <<>> /\ Head(toR).type = "STAT" /\ Head(toR).path # NoPath /\ rRecv = "recv"
  BY DEF RecvGetsStat, ReceiverGets, LInv, GInv, TInv, SInv, WireTypeOK
<1>2. Head(toR) \in Packets
  BY <1>1, TailFacts
<1>3. Head(toR).path \in Entries
  BY <1>1, <1>2, PacketFields
<1>4. Head(toR).path = rI + 1
  BY NextStat DEF LInv, GInv
<1>5. rI \in Nat /\ ~Skipped(rI + 1)
  BY <1>3, <1>4, NatFacts DEF LInv, GInv, TInv, ReceiverTypeOK, NoneSkipped
<1>6. rI' = rI + 1
  BY <1>4, <1>5 DEF RecvGetsStat, NextIndex
<1> QED  BY <1>1, <1>3, <1>4, <1>5, <1>6 DEF LInv, HandedOver

-----------------------------------------------------------------------------
(* Directories before what is in them.  Members of a queue, and queues in  *)
(* which every entry comes after its directory, or has it in S.            *)
Members(s) == {s[i] : i \in 1..Len(s)}

LedBy(s, S) ==
    \A i \in 1..Len(s) :
      Parent[s[i]] \in S \/ \E j \in 1..Len(s) : j < i /\ s[j] = Parent[s[i]]

(* The directories that are there, and those that will be before whatever  *)
(* comes now, unless the diff has given up.                                *)
Ready == {NoPath} \cup {a \in Entries : Kind[a] = "dir" => dest[a].meta = "src" \/ diff # "diff"}
Sent  == Ready \cup Members(c2) \cup Members(walkQ) \cup Members(rPend)

Queued ==
    /\ LedBy(c2, Ready)
    /\ LedBy(walkQ, Ready \cup Members(c2))
    /\ LedBy(rPend, Ready \cup Members(c2) \cup Members(walkQ))
    /\ LedBy(rParents, Sent)

(* The directories the walk is in: each is held back, or was sent, and     *)
(* then every one held back is below it.                                   *)
Open(a) == Kind[a] = "dir" /\ a <= rI /\ \A q \in Entries : a < q /\ q <= rI => a <= Parent[q]

HeldBack ==
    \A a \in Entries : Open(a) =>
      a \in Members(rParents) \/ (a \in Sent /\ \A b \in Members(rParents) : a < b)

Held ==
    /\ \A i, j \in 1..Len(rParents) : i < j => rParents[i] < rParents[j]
    /\ \A i \in 1..Len(rParents) : rParents[i] <= rI
    /\ ~MetadataTransfer => rParents = <<>>

(* A file that has a goroutine was created.                                *)
Begun == \A p \in Entries : async[p].pc # "none" => dest[p].meta # "old"

PInv == CInv /\ Queued /\ HeldBack /\ Held /\ Begun /\ ParentsFirst

LEMMA MemberFacts ==
  ASSUME NEW s \in Seq(Entries)
  PROVE  /\ Members(s) \subseteq Entries /\ Members(<<>>) = {}
         /\ s # <<>> => Head(s) \in Entries /\ Members(s) = Members(Tail(s)) \cup {Head(s)}
         /\ \A q \in Entries : Members(Append(s, q)) = Members(s) \cup {q}
<1>0. Len(s) \in Nat /\ \A i \in 1..Len(s) : s[i] \in Entries
  BY LenProperties, ElementOfSeq
<1>1. Members(s) \subseteq Entries /\ Members(<<>>) = {}
  BY <1>0, EmptySeq DEF Members
<1>2. ASSUME s # <<>>
      PROVE  Head(s) \in Entries /\ Members(s) = Members(Tail(s)) \cup {Head(s)}
  <2>1. /\ Head(s) = s[1] /\ Head(s) \in Entries /\ Len(s) > 0 /\ Len(Tail(s)) = Len(s) - 1
        /\ \A k \in 1..Len(Tail(s)) : Tail(s)[k] = s[k + 1]
    BY <1>2, TailFacts
  <2>2. \A k \in 1..Len(Tail(s)) : k + 1 \in 1..Len(s)
    BY <1>0, <2>1
  <2>3. \A i \in 1..Len(s) : i = 1 \/ (i - 1 \in 1..Len(Tail(s)) /\ (i - 1) + 1 = i)
    BY <1>0, <2>1
  <2>4. 1 \in 1..Len(s)
    BY <1>0, <2>1
  <2>5. \A i \in 1..Len(s) : s[i] \in Members(Tail(s)) \cup {Head(s)}
    BY <2>1, <2>3 DEF Members
  <2>6. Members(Tail(s)) \subseteq Members(s)
    BY <2>1, <2>2 DEF Members
  <2>7. Head(s) \in Members(s)
    BY <2>1, <2>4 DEF Members
  <2>8. Members(s) \subseteq Members(Tail(s)) \cup {Head(s)}
    BY <2>5 DEF Members
  <2> QED  BY <2>1, <2>6, <2>7, <2>8
<1>3. ASSUME NEW q \in Entries PROVE Members(Append(s, q)) = Members(s) \cup {q}
  <2>1. /\ Len(Append(s, q)) = Len(s) + 1
        /\ \A i \in 1..Len(s) : Append(s, q)[i] = s[i]
        /\ Append(s, q)[Len(s) + 1] = q
    BY AppendFacts
  <2>2. \A i \in 1..(Len(s) + 1) : i \in 1..Len(s) \/ i = Len(s) + 1
    BY <1>0
  <2>3. Len(s) + 1 \in 1..(Len(s) + 1) /\ \A i \in 1..Len(s) : i \in 1..(Len(s) + 1)
    BY <1>0
  <2> QED  BY <2>1, <2>2, <2>3 DEF Members
<1> QED  BY <1>1, <1>2, <1>3

LEMMA LedMore ==
  ASSUME NEW s, NEW S, NEW T, LedBy(s, S), S \subseteq T
  PROVE  LedBy(s, T)
  BY DEF LedBy

LEMMA LedNone == \A S : LedBy(<<>>, S)
  BY EmptySeq DEF LedBy

LEMMA LedTail ==
  ASSUME NEW s \in Seq(Entries), NEW S, LedBy(s, S), s # <<>>
  PROVE  Parent[Head(s)] \in S /\ LedBy(Tail(s), S \cup {Head(s)})
<1>1. /\ Head(s) = s[1] /\ Len(s) \in Nat /\ Len(s) > 0 /\ Len(Tail(s)) = Len(s) - 1
      /\ \A k \in 1..Len(Tail(s)) : Tail(s)[k] = s[k + 1]
  BY TailFacts
<1>2. 1 \in 1..Len(s) /\ \A j \in 1..Len(s) : ~(j < 1)
  BY <1>1
<1>3. Parent[Head(s)] \in S
  BY <1>1, <1>2 DEF LedBy
<1>4. ASSUME NEW i \in 1..Len(Tail(s))
      PROVE  \/ Parent[Tail(s)[i]] \in S \cup {Head(s)}
             \/ \E j \in 1..Len(Tail(s)) : j < i /\ Tail(s)[j] = Parent[Tail(s)[i]]
  <2>1. i + 1 \in 1..Len(s) /\ Tail(s)[i] = s[i + 1]
    BY <1>1
  <2>2. CASE Parent[s[i + 1]] \in S
    BY <2>1, <2>2
  <2>3. ASSUME NEW j \in 1..Len(s), j < i + 1, s[j] = Parent[s[i + 1]]
        PROVE  \/ Parent[Tail(s)[i]] \in S \cup {Head(s)}
               \/ \E m \in 1..Len(Tail(s)) : m < i /\ Tail(s)[m] = Parent[Tail(s)[i]]
    <3>1. CASE j = 1
      BY <1>1, <2>1, <2>3, <3>1
    <3>2. CASE j # 1
      <4>1. j - 1 \in 1..Len(Tail(s)) /\ j - 1 < i /\ (j - 1) + 1 = j
        BY <1>1, <2>3, <3>2
      <4> QED  BY <1>1, <2>1, <2>3, <4>1
    <3> QED  BY <3>1, <3>2
  <2> QED  BY <2>1, <2>2, <2>3 DEF LedBy
<1> QED  BY <1>3, <1>4 DEF LedBy

LEMMA LedAppend ==
  ASSUME NEW s \in Seq(Entries), NEW S, LedBy(s, S), NEW q \in Entries, Parent[q] \in S \cup Members(s)
  PROVE  LedBy(Append(s, q), S)
<1>1. /\ Len(Append(s, q)) = Len(s) + 1 /\ Len(s) \in Nat
      /\ \A i \in 1..Len(s) : Append(s, q)[i] = s[i]
      /\ Append(s, q)[Len(s) + 1] = q
  BY AppendFacts, LenProperties
<1>2. \A i \in 1..(Len(s) + 1) : i \in 1..Len(s) \/ i = Len(s) + 1
  BY <1>1
<1>3. \A i \in 1..Len(s) : i \in 1..(Len(s) + 1) /\ i < Len(s) + 1
  BY <1>1
<1>4. Parent[q] \in S \/ \E j \in 1..Len(s) : s[j] = Parent[q]
  BY DEF Members
<1> QED  BY <1>1, <1>2, <1>3, <1>4 DEF LedBy

LEMMA LedPrefix ==
  ASSUME NEW s \in Seq(Entries), NEW S, LedBy(s, S), NEW k \in 1..Len(s), NEW h \in Seq(Entries),
         Len(h) = k, \A i \in 1..k : h[i] = s[i]
  PROVE  LedBy(h, S)
<1>1. Len(s) \in Nat /\ \A i \in 1..k : i \in 1..Len(s) /\ \A j \in 1..Len(s) : j < i => j \in 1..k
  BY LenProperties
<1> QED  BY <1>1 DEF LedBy

(* What is replayed before p: the directories held back, down to its own.  *)
LEMMA HeldFacts ==
  ASSUME NEW s \in Seq(Entries), NEW p \in Entries,
         \A i, j \in 1..Len(s) : i < j => s[i] < s[j],
         \A i \in 1..Len(s) : s[i] < p
  PROVE  \E h \in Seq(Entries) :
           /\ ParentsOf(s, p) = IF Kind[p] = "dir" THEN Append(h, p) ELSE h
           /\ \A i, j \in 1..Len(h) : i < j => h[i] < h[j]
           /\ Members(h) \subseteq Members(s)
           /\ \A S : LedBy(s, S) => LedBy(h, S)
           /\ \/ Parent[p] \in Members(h) /\ \A a \in Members(s) : a <= Parent[p] => a \in Members(h)
              \/ Parent[p] \notin Members(s) /\ h = <<>>
<1> DEFINE above == {k \in 1..Len(s) : s[k] = Parent[p]}
           top   == CHOOSE k \in above : TRUE
           held  == IF above = {} THEN <<>> ELSE SubSeq(s, 1, top)
<1>0. Len(s) \in Nat /\ \A k \in 1..Len(s) : s[k] \in Entries /\ s[k] \in Nat
  BY LenProperties, ElementOfSeq, EntryFacts
<1>1. ParentsOf(s, p) = IF Kind[p] = "dir" THEN Append(held, p) ELSE held
  BY DEF ParentsOf
<1>2. CASE above = {}
  <2>1. Parent[p] \notin Members(s)
    BY <1>2 DEF Members
  <2>2. held = <<>> /\ <<>> \in Seq(Entries) /\ Len(<<>>) = 0 /\ Members(<<>>) = {}
    BY <1>2, EmptySeq, MemberFacts
  <2>3. \A S : LedBy(<<>>, S)
    BY LedNone
  <2> HIDE DEF held
  <2>4. \A i, j \in 1..Len(<<>>) : i < j => <<>>[i] < <<>>[j]
    BY <2>2
  <2> WITNESS <<>> \in Seq(Entries)
  <2> QED  BY <1>1, <2>1, <2>2, <2>3, <2>4
<1>3. CASE above # {}
  <2>1. top \in 1..Len(s) /\ s[top] = Parent[p] /\ held = SubSeq(s, 1, top)
    BY <1>3
  <2> HIDE DEF top
  <2> DEFINE h == SubSeq(s, 1, top)
  <2>2. top \in Nat /\ top >= 1 /\ \A k \in 1..top : k \in 1..Len(s)
    BY <1>0, <2>1
  <2>3. h \in Seq(Entries) /\ Len(h) = top /\ \A k \in 1..top : h[k] = s[k]
    <3>1. top \in Int /\ 1 \in Int /\ \A k \in 1..top : s[k] \in Entries
      BY <1>0, <2>2
    <3> QED  BY <2>2, <3>1, SubSeqProperties
  <2> HIDE DEF h
  <2>4. \A i, j \in 1..Len(h) : i < j => h[i] < h[j]
    BY <2>2, <2>3
  <2>5. Members(h) \subseteq Members(s)
    BY <2>2, <2>3 DEF Members
  <2>6. \A S : LedBy(s, S) => LedBy(h, S)
    BY <2>1, <2>3, LedPrefix
  <2>7. Parent[p] \in Members(h)
    <3>1. top \in 1..Len(h) /\ h[top] = Parent[p]
      BY <2>1, <2>2, <2>3
    <3> QED  BY <3>1 DEF Members
  <2>8. ASSUME NEW a \in Members(s), a <= Parent[p] PROVE a \in Members(h)
    <3>1. PICK m \in 1..Len(s) : s[m] = a
      BY DEF Members
    <3>2. ~(top < m)
      <4> SUFFICES ASSUME top < m PROVE FALSE
        OBVIOUS
      <4>1. s[top] < s[m] /\ s[top] \in Nat /\ s[m] \in Nat
        BY <1>0, <2>1
      <4> QED  BY <2>1, <2>8, <3>1, <4>1
    <3>3. m \in 1..top
      BY <1>0, <2>2, <3>2
    <3>4. h[m] = a /\ m \in 1..Len(h)
      BY <2>3, <3>1, <3>3
    <3> QED  BY <3>4 DEF Members
  <2>9. ParentsOf(s, p) = IF Kind[p] = "dir" THEN Append(h, p) ELSE h
    BY <1>1, <2>1 DEF h
  <2> HIDE DEF held, above
  <2> QED  BY <2>3, <2>4, <2>5, <2>6, <2>7, <2>8, <2>9
<1> QED  BY <1>2, <1>3

(* An entry is announced: it is recorded with the directories held back,   *)
(* or handed over after them.                                              *)
LEMMA StatParents ==
  ASSUME NoneSkipped, PInv, RecvGetsStat
  PROVE  Queued' /\ HeldBack' /\ Held'
<1>t. /\ c2 \in Seq(Entries) /\ walkQ \in Seq(Entries) /\ rPend \in Seq(Entries) /\ rParents \in Seq(Entries)
      /\ LInv
  BY DEF PInv, CInv, LInv, GInv, TInv, ReceiverTypeOK
<1>p. PICK p \in Entries : p = rI + 1
  BY <1>t, StatTarget
<1>1. /\ rI \in Nat /\ rI' = p /\ rPend = <<>> /\ Head(toR).path = p /\ ~Skipped(p)
      /\ UNCHANGED <<c2, walkQ, dest, diff>>
  BY <1>t, <1>p, StatTarget DEF RecvGetsStat, walkerVars, diskVars, diffVars
<1>2. \A i \in 1..Len(rParents) : rParents[i] < p
  <2>1. \A i \in 1..Len(rParents) : rParents[i] <= rI /\ rParents[i] \in Nat
    BY <1>t, ElementOfSeq, EntryFacts DEF PInv, Held
  <2> QED  BY <1>p, <1>1, <2>1
<1>h. PICK h \in Seq(Entries) :
        /\ ParentsOf(rParents, p) = IF Kind[p] = "dir" THEN Append(h, p) ELSE h
        /\ \A i, j \in 1..Len(h) : i < j => h[i] < h[j]
        /\ Members(h) \subseteq Members(rParents)
        /\ \A S : LedBy(rParents, S) => LedBy(h, S)
        /\ \/ Parent[p] \in Members(h) /\ \A a \in Members(rParents) : a <= Parent[p] => a \in Members(h)
           \/ Parent[p] \notin Members(rParents) /\ h = <<>>
  BY <1>t, <1>2, HeldFacts DEF PInv, Held
<1> DEFINE parents == ParentsOf(rParents, p)
<1>3. Sent = Ready \cup Members(c2) \cup Members(walkQ) /\ Members(rPend) = {}
  BY <1>1, MemberFacts DEF Sent
<1>4. Ready' = Ready /\ Members(c2)' = Members(c2) /\ Members(walkQ)' = Members(walkQ)
  BY <1>1 DEF Ready, Members
<1>5. Members(rParents) \subseteq Entries /\ Members(h) \subseteq Entries
  BY <1>t, MemberFacts
<1>m. \A b \in Members(rParents) : b \in Nat /\ b < p
  BY <1>2, <1>5, EntryFacts DEF Members
<1>6. Parent[p] \in Entries => Open(Parent[p]) /\ Parent[p] < p
  <2> SUFFICES ASSUME Parent[p] \in Entries PROVE Open(Parent[p]) /\ Parent[p] < p
    OBVIOUS
  <2>1. Parent[p] # NoPath /\ Parent[p] \in Nat /\ Parent[p] < p
    BY EntryFacts, ReceiverAssumption DEF NoPath
  <2>2. /\ Kind[Parent[p]] = "dir"
        /\ \A q \in Entries : Parent[p] < q /\ q < p => Parent[p] <= Parent[q]
    BY <2>1, TreeAssumption
  <2>3. Parent[p] <= rI /\ \A q \in Entries : q <= rI => q < p
    BY <1>p, <1>1, <2>1, EntryFacts
  <2> QED  BY <2>1, <2>2, <2>3 DEF Open
<1>7. Parent[p] \in Sent \cup Members(h)
  <2>1. CASE Parent[p] \in Entries
    <3>1. Parent[p] \in Members(rParents) \/ Parent[p] \in Sent
      BY <1>6, <2>1 DEF PInv, HeldBack
    <3> QED  BY <1>h, <3>1
  <2>2. CASE Parent[p] \notin Entries
    BY <2>2, ReceiverAssumption DEF Sent, Ready
  <2> QED  BY <2>1, <2>2
<1>8. LedBy(h, Sent)
  BY <1>h DEF PInv, Queued
<1>9. LedBy(Append(h, p), Sent)
  BY <1>7, <1>8, LedAppend
<1>10. /\ parents \in Seq(Entries) /\ LedBy(parents, Sent)
       /\ Members(parents) = IF Kind[p] = "dir" THEN Members(h) \cup {p} ELSE Members(h)
  <2>1. CASE Kind[p] = "dir"
    <3>1. Append(h, p) \in Seq(Entries) /\ Members(Append(h, p)) = Members(h) \cup {p}
      BY AppendFacts, MemberFacts
    <3> QED  BY <1>h, <1>9, <2>1, <3>1
  <2>2. CASE Kind[p] # "dir"
    BY <1>h, <1>8, <2>2
  <2> QED  BY <2>1, <2>2
(* A directory the walk is in now was open before, or is p.                *)
<1>11. ASSUME NEW a \in Entries, Open(a)'
       PROVE  \/ a = p /\ Kind[p] = "dir"
              \/ a \in Members(h)
              \/ a \in Sent /\ (\A b \in Members(h) : a < b) /\ a < p
  <2>0. Kind[a] = "dir" /\ a <= p /\ (\A q \in Entries : a < q /\ q <= p => a <= Parent[q]) /\ a \in Nat
    BY <1>1, <1>11, EntryFacts DEF Open
  <2>1. CASE a = p
    BY <2>0, <2>1
  <2>2. CASE a # p
    <3>1. a <= rI /\ a < p /\ a <= Parent[p] /\ \A q \in Entries : q <= rI => q <= p
      BY <1>p, <1>1, <2>0, <2>2, EntryFacts
    <3>2. Open(a)
      BY <2>0, <3>1 DEF Open
    <3>3. CASE a \in Sent /\ \A b \in Members(rParents) : a < b
      BY <1>h, <3>1, <3>3
    <3>4. CASE a \in Members(rParents)
      <4>1. CASE Parent[p] \in Members(h)
        <5>1. Parent[p] \in Members(rParents)
          BY <1>h, <4>1
        <5> QED  BY <1>h, <3>1, <3>4, <5>1
      <4>2. CASE Parent[p] \notin Members(rParents)
        <5>1. Parent[p] \in Entries
          <6>1. Parent[p] # NoPath
            BY <2>0, <3>1, EntryFacts DEF NoPath
          <6> QED  BY <6>1, ReceiverAssumption
        <5>2. Parent[p] < a
          BY <1>6, <3>4, <4>2, <5>1 DEF PInv, HeldBack
        <5>3. Parent[p] \in Nat
          BY <5>1, EntryFacts
        <5> QED  BY <2>0, <3>1, <5>2, <5>3
      <4> QED  BY <1>h, <4>1, <4>2
    <3> QED  BY <3>2, <3>3, <3>4 DEF PInv, HeldBack
  <2> QED  BY <2>1, <2>2
<1> HIDE DEF parents
<1>12. CASE MetaOnly(p) /\ rParents' = parents /\ UNCHANGED rPend
  <2>1. Sent' = Sent
    BY <1>1, <1>4, <1>12 DEF Sent, Members
  <2>2. Queued'
    <3>1. LedBy(rParents, Sent)' = LedBy(parents, Sent)
      BY <1>12, <2>1 DEF LedBy
    <3>2. /\ LedBy(c2, Ready)' = LedBy(c2, Ready)
          /\ LedBy(walkQ, Ready \cup Members(c2))' = LedBy(walkQ, Ready \cup Members(c2))
          /\ LedBy(rPend, Ready \cup Members(c2) \cup Members(walkQ))'
               = LedBy(rPend, Ready \cup Members(c2) \cup Members(walkQ))
      BY <1>1, <1>4, <1>12 DEF LedBy
    <3> QED  BY <1>10, <3>1, <3>2 DEF PInv, Queued
  <2>3. HeldBack'
    <3> SUFFICES ASSUME NEW a \in Entries, Open(a)'
                 PROVE  a \in Members(parents) \/ (a \in Sent /\ \A b \in Members(parents) : a < b)
      BY <1>12, <2>1 DEF HeldBack, Members, Open
    <3>1. a < p => \A b \in Members(h) \cup {p} : a < b \/ ~(\A c \in Members(h) : a < c)
      OBVIOUS
    <3> QED  BY <1>10, <1>11, <3>1
  <2>4. Held'
    <3>1. \A b \in Members(h) : b < p /\ b \in Nat
      BY <1>h, <1>m
    <3>2. /\ Len(h) \in Nat /\ \A i \in 1..Len(h) : h[i] \in Members(h)
          /\ Len(Append(h, p)) = Len(h) + 1
          /\ \A i \in 1..Len(h) : Append(h, p)[i] = h[i]
          /\ Append(h, p)[Len(h) + 1] = p
      BY AppendFacts, LenProperties DEF Members
    <3>3. \A i \in 1..(Len(h) + 1) : i \in 1..Len(h) \/ i = Len(h) + 1
      BY <3>2
    <3>4. \A i, j \in 1..(Len(h) + 1) : i < j => Append(h, p)[i] < Append(h, p)[j]
      <4>1. \A i, j \in 1..(Len(h) + 1) : i < j => i \in 1..Len(h)
        BY <3>2
      <4> QED  BY <1>h, <3>1, <3>2, <3>3, <4>1
    <3>5. \A i \in 1..(Len(h) + 1) : Append(h, p)[i] <= p
      <4> SUFFICES ASSUME NEW i \in 1..(Len(h) + 1) PROVE Append(h, p)[i] <= p
        OBVIOUS
      <4>1. p \in Nat
        BY EntryFacts
      <4>2. CASE i \in 1..Len(h)
        <5>1. h[i] < p /\ h[i] \in Nat /\ Append(h, p)[i] = h[i]
          BY <3>1, <3>2, <4>2
        <5> QED BY <4>1, <5>1
      <4>3. CASE i = Len(h) + 1
        BY <3>2, <4>1, <4>3
      <4> QED BY <3>3, <4>2, <4>3
    <3>6. \A i, j \in 1..Len(parents) : i < j => parents[i] < parents[j]
      BY <1>h, <3>2, <3>4 DEF parents
    <3>7. \A i \in 1..Len(parents) : parents[i] <= p
      <4>1. ASSUME NEW i \in 1..Len(h) PROVE h[i] <= p
        <5>1. h[i] < p /\ h[i] \in Nat
          BY <3>1, <3>2
        <5>2. p \in Nat
          BY EntryFacts
        <5> QED BY <5>1, <5>2
      <4> QED  BY <1>h, <3>2, <3>5, <4>1 DEF parents
    <3>8. MetadataTransfer
      BY <1>12 DEF MetaOnly
    <3> QED  BY <1>1, <1>12, <3>6, <3>7, <3>8 DEF Held
  <2> QED  BY <2>2, <2>3, <2>4
<1>13. CASE rParents' = <<>> /\ rPend' = (IF MetadataTransfer THEN Append(parents, p) ELSE <<p>>)
  <2>1. Sent' = Sent \cup Members(rPend')
    BY <1>1, <1>3, <1>4 DEF Sent, Members
  <2>2. LedBy(rPend', Sent) /\ Members(h) \cup {p} \subseteq Members(rPend')
    <3>1. CASE MetadataTransfer
      <4>1. Parent[p] \in Sent \cup Members(parents)
        BY <1>7, <1>10
      <4>2. LedBy(Append(parents, p), Sent)
        BY <1>10, <4>1, LedAppend
      <4>3. Members(Append(parents, p)) = Members(parents) \cup {p}
        BY <1>10, MemberFacts
      <4> QED  BY <1>10, <1>13, <3>1, <4>2, <4>3
    <3>2. CASE ~MetadataTransfer
      <4>1. rParents = <<>> /\ Members(h) = {}
        BY <1>h, <3>2, MemberFacts DEF PInv, Held
      <4>2. Parent[p] \in Sent
        BY <1>7, <4>1
      <4>3. Append(<<>>, p) = <<p>> /\ <<>> \in Seq(Entries)
        BY EmptySeq
      <4>4. Members(<<p>>) = {p}
        <5>1. Members(Append(<<>>, p)) = Members(<<>>) \cup {p} /\ Members(<<>>) = {}
          BY <4>3, MemberFacts
        <5> QED  BY <4>3, <5>1
      <4>5. LedBy(<<p>>, Sent)
        BY <4>2, <4>3, LedNone, LedAppend
      <4> QED  BY <1>13, <3>2, <4>1, <4>4, <4>5
    <3> QED  BY <3>1, <3>2
  <2>3. Queued'
    <3>1. LedBy(rParents, Sent)'
      BY <1>13, EmptySeq DEF LedBy
    <3>2. /\ LedBy(c2, Ready)' = LedBy(c2, Ready)
          /\ LedBy(walkQ, Ready \cup Members(c2))' = LedBy(walkQ, Ready \cup Members(c2))
          /\ LedBy(rPend, Ready \cup Members(c2) \cup Members(walkQ))' = LedBy(rPend', Sent)
      BY <1>1, <1>3, <1>4 DEF LedBy
    <3> QED  BY <2>2, <3>1, <3>2 DEF PInv, Queued
  <2>4. HeldBack'
    <3>1. Members(rParents)' = {}
      BY <1>13, EmptySeq DEF Members
    <3>2. \A a \in Entries : Open(a)' => a \in Sent'
      BY <1>11, <2>1, <2>2
    <3> QED  BY <3>1, <3>2 DEF HeldBack
  <2>5. Held'
    BY <1>13, EmptySeq DEF Held
  <2> QED  BY <2>3, <2>4, <2>5
<1> QED  BY <1>1, <1>12, <1>13 DEF RecvGetsStat, parents

(* What a step may do to an entry: what a directory has it keeps, and      *)
(* nothing is created before its directory.                                *)
LEMMA EntriesKept ==
  ASSUME PInv, [Next]_vars
  PROVE  /\ diff # "diff" => diff' # "diff"
         /\ \A p \in Entries :
              /\ Kind[p] = "dir" /\ dest[p].meta = "src" => dest'[p].meta = "src"
              /\ dest[p].meta = "old" /\ dest'[p].meta # "old" => Parent[p] \in Ready /\ diff = "diff"
              /\ async'[p].pc # "none" => dest'[p].meta # "old"
<1>t. /\ c2 \in Seq(Entries) /\ async \in [Entries -> AsyncSet] /\ LInv
      /\ dest \in [Entries -> [data : Seq(Chunk), meta : {"old", "src", "now"}]]
  BY DEF PInv, CInv, LInv, GInv, TInv, ReceiverTypeOK
<1>b. \A p \in Entries : async[p].pc # "none" => dest[p].meta # "old" /\ Kind[p] = "file"
  BY DEF PInv, Begun, CInv, FilesOnly
<1>1. CASE UNCHANGED <<async, dest>> /\ (diff # "diff" => diff' # "diff")
  BY <1>b, <1>1
<1>2. CASE RecvGetsData
  <2>1. async' = async /\ diff' = diff
    BY <1>2 DEF RecvGetsData, diffVars
  <2>2. PICK q \in Entries : rPipes[Head(toR).id] = q /\ async[q].pc # "none"
    BY <1>t, <1>2, DataTarget
  <2>3. /\ \A p \in Entries : p # q => dest'[p] = dest[p]
        /\ dest'[q].meta \in {dest[q].meta, "now"}
    <3>1. dest' = dest \/ dest' = [dest EXCEPT ![q] = Written(dest[q], Head(toR).data)]
      BY <1>2, <2>2 DEF RecvGetsData
    <3>2. CASE dest' = [dest EXCEPT ![q] = Written(dest[q], Head(toR).data)]
      <4>1. dest'[q] = Written(dest[q], Head(toR).data) /\ \A p \in Entries : p # q => dest'[p] = dest[p]
        BY <1>t, <3>2
      <4> QED  BY <4>1 DEF Written
    <3> QED  BY <3>1, <3>2
  <2> QED  BY <1>b, <2>1, <2>2, <2>3
<1>3. CASE DiffNext
  <2>0. diff = "diff" /\ c2 # <<>>
    BY <1>3 DEF DiffNext
  <2>1. PICK q \in Entries : q = Head(c2)
    BY <1>t, <2>0, TailFacts
  <2>2. CASE HandleChange(q)
    <3>1. Parent[q] \in Ready
      BY <1>t, <2>0, <2>1, LedTail DEF PInv, Queued
    <3>2. /\ \A p \in Entries : p # q => dest'[p] = dest[p] /\ async'[p] = async[p]
          /\ dest'[q].meta = "src"
      BY <1>t, <2>2 DEF HandleChange, Created
    <3> QED  BY <1>b, <2>0, <3>1, <3>2
  <2> QED  BY <1>1, <1>3, <2>0, <2>1, <2>2 DEF DiffNext
<1>4. ASSUME NEW q \in Entries, Async(q)
      PROVE  /\ diff' = diff
             /\ \A p \in Entries :
                  /\ Kind[p] = "dir" /\ dest[p].meta = "src" => dest'[p].meta = "src"
                  /\ dest[p].meta = "old" => dest'[p].meta = "old"
                  /\ async'[p].pc # "none" => dest'[p].meta # "old"
  <2>1. diff' = diff
    BY <1>4 DEF Async, diffVars
  <2>2. \A p \in Entries : p # q => async'[p] = async[p] /\ dest'[p] = dest[p]
    BY <1>t, <1>4 DEF Async, AsyncRegisters, AsyncSendsReq, AsyncWaits, AsyncFinishes, AsyncFails
  <2>3. dest'[q].meta \in {dest[q].meta, "src"} /\ async[q].pc # "none"
    BY <1>t, <1>4 DEF Async, AsyncRegisters, AsyncSendsReq, AsyncWaits, AsyncFinishes
  <2> QED  BY <1>b, <2>1, <2>2, <2>3
<1>5. CASE \/ RecvGetsErr \/ RecvGetsLast \/ RecvGetsStat \/ RecvUpdates \/ RecvGetsFin
           \/ RecvDrains \/ RecvEOF \/ RecvLoopFails
  BY <1>1, <1>5 DEF RecvGetsErr, RecvGetsLast, RecvGetsStat, RecvUpdates, RecvGetsFin,
                    RecvDrains, RecvEOF, RecvLoopFails, receiverVars, diskVars, diffVars
<1>6. CASE Fill \/ ReceiveReturns \/ ConnFails \/ UNCHANGED vars \/ UNCHANGED receiverVars
  BY <1>1, <1>6 DEF Fill, ReceiveReturns, ConnFails, vars, receiverVars, diskVars, diffVars
<1>7. CASE DiffCanceled \/ DiffJoins \/ DiffWaits \/ DiffSendsFin \/ DiffSendsErr
  BY <1>1, <1>7 DEF DiffCanceled, DiffJoins, DiffWaits, DiffSendsFin, DiffSendsErr, diskVars
<1>8. CASE \E q \in Entries : Async(q)
  BY <1>4, <1>8
<1> QED  BY <1>2, <1>3, <1>5, <1>6, <1>7, <1>8 DEF Next, ReceiverStep, ReceiverLoop, Diff, DiffApplies, Over

LEMMA ParentsKept ==
  ASSUME PInv, [Next]_vars
  PROVE  Ready \subseteq Ready' /\ Begun' /\ ParentsFirst'
<1>1. Ready \subseteq Ready'
  BY EntriesKept DEF Ready
<1>2. Begun'
  BY EntriesKept DEF Begun
<1>3. ParentsFirst'
  <2> SUFFICES ASSUME NEW p \in Entries, p \in Stale, dest'[p].meta # "old", Parent[p] # NoPath
               PROVE  dest'[Parent[p]].meta = "src"
    BY DEF ParentsFirst
  <2>1. Kind[Parent[p]] = "dir" /\ Parent[p] \in Entries
    BY ReceiverAssumption, TreeAssumption
  <2>2. dest[Parent[p]].meta = "src"
    <3>1. CASE dest[p].meta # "old"
      BY <3>1 DEF PInv, ParentsFirst
    <3>2. CASE dest[p].meta = "old"
      <4>1. Parent[p] \in Ready /\ diff = "diff"
        BY <3>2, EntriesKept
      <4> QED  BY <2>1, <4>1 DEF Ready
    <3> QED  BY <3>1, <3>2
  <2> QED  BY <2>1, <2>2, EntriesKept
<1> QED  BY <1>1, <1>2, <1>3

(* The queues move an entry from one to the next.                          *)
LEMMA HeldKept ==
  ASSUME Queued, HeldBack, Held, Sent \subseteq Sent', UNCHANGED <<rI, rParents>>
  PROVE  LedBy(rParents, Sent)' /\ HeldBack' /\ Held'
<1>1. LedBy(rParents, Sent)'
  <2>1. LedBy(rParents, Sent')
    BY LedMore DEF Queued
  <2> QED  BY <2>1 DEF LedBy
<1>2. HeldBack'
  <2>1. \A a : Open(a)' => Open(a)
    BY DEF Open
  <2>2. Members(rParents)' = Members(rParents)
    BY DEF Members
  <2> QED  BY <2>1, <2>2 DEF HeldBack
<1> QED  BY <1>1, <1>2 DEF Held

LEMMA QueuesKept ==
  ASSUME PInv, [Next]_vars, ~RecvGetsStat
  PROVE  Queued' /\ HeldBack' /\ Held'
<1>t. /\ c2 \in Seq(Entries) /\ walkQ \in Seq(Entries) /\ rPend \in Seq(Entries) /\ rParents \in Seq(Entries)
      /\ LInv
  BY DEF PInv, CInv, LInv, GInv, TInv, ReceiverTypeOK
<1> DEFINE C == Members(c2)
           W == Members(walkQ)
           R == Members(rPend)
<1>r. Ready \subseteq Ready'
  BY ParentsKept
<1>q. LedBy(c2, Ready) /\ LedBy(walkQ, Ready \cup C) /\ LedBy(rPend, Ready \cup C \cup W)
  BY DEF PInv, Queued
<1>s. ASSUME LedBy(c2', Ready'), LedBy(walkQ', Ready' \cup C'), LedBy(rPend', Ready' \cup C' \cup W'),
             UNCHANGED <<rI, rParents>>, C \cup W \cup R \subseteq Ready' \cup C' \cup W' \cup R'
      PROVE  Queued' /\ HeldBack' /\ Held'
  <2>1. Sent \subseteq Sent'
    BY <1>r, <1>s DEF Sent
  <2>2. LedBy(rParents, Sent)' /\ HeldBack' /\ Held'
    BY <1>s, <2>1, HeldKept DEF PInv
  <2>3. LedBy(c2, Ready)' /\ LedBy(walkQ, Ready \cup C)' /\ LedBy(rPend, Ready \cup C \cup W)'
    BY <1>s DEF LedBy
  <2> QED  BY <2>2, <2>3 DEF Queued
<1>0. CASE UNCHANGED <<rI, rParents, c2, walkQ, rPend>>
  <2>1. C' = C /\ W' = W /\ R' = R
    BY <1>0 DEF Members
  <2> HIDE DEF C, W, R
  <2>2. LedBy(c2, Ready') /\ LedBy(walkQ, Ready' \cup C) /\ LedBy(rPend, Ready' \cup C \cup W)
    BY <1>r, <1>q, LedMore
  <2> QED  BY <1>0, <1>s, <2>1, <2>2
<1>1. CASE RecvUpdates
  <2>1. UNCHANGED <<rI, rParents, c2>> /\ (UNCHANGED <<rPend, walkQ>>
            \/ (walkQ' = Append(walkQ, Head(rPend)) /\ rPend' = Tail(rPend)))
    BY <1>1 DEF RecvUpdates
  <2>2. CASE walkQ' = Append(walkQ, Head(rPend)) /\ rPend' = Tail(rPend)
    <3>1. rPend # <<>>
      BY <1>t, <1>1 DEF RecvUpdates, LInv, GInv, TInv, RecvShape
    <3>2. PICK x \in Entries : x = Head(rPend)
      BY <1>t, <3>1, TailFacts
    <3>3. C' = C /\ W' = W \cup {x} /\ R = R' \cup {x}
      <4>1. C' = C
        BY <2>1 DEF Members
      <4>2. Members(walkQ') = W \cup {x} /\ R = Members(rPend') \cup {x}
        BY <1>t, <2>2, <3>1, <3>2, MemberFacts
      <4> QED  BY <4>1, <4>2 DEF Members
    <3>4. Parent[x] \in Ready \cup C \cup W /\ LedBy(rPend', (Ready \cup C \cup W) \cup {x})
      BY <1>t, <1>q, <2>2, <3>1, <3>2, LedTail
    <3>5. LedBy(walkQ', Ready \cup C)
      BY <1>t, <1>q, <2>2, <3>2, <3>4, LedAppend
    <3> HIDE DEF C, W, R
    <3>6. LedBy(c2', Ready') /\ LedBy(walkQ', Ready' \cup C) /\ LedBy(rPend', Ready' \cup C \cup (W \cup {x}))
      <4>1. LedBy(c2', Ready')
        BY <1>r, <1>q, <2>1, LedMore
      <4>2. LedBy(walkQ', Ready' \cup C)
        BY <1>r, <3>5, LedMore
      <4>3. LedBy(rPend', Ready' \cup C \cup (W \cup {x}))
        BY <1>r, <3>4, LedMore
      <4> QED  BY <4>1, <4>2, <4>3
    <3> QED  BY <1>s, <2>1, <3>3, <3>6
  <2> QED  BY <1>0, <2>1, <2>2
<1>2. CASE Fill
  <2>1. UNCHANGED <<rI, rParents, rPend>> /\ (UNCHANGED <<c2, walkQ>>
            \/ (walkQ # <<>> /\ c2' = Append(c2, Head(walkQ)) /\ walkQ' = Tail(walkQ)))
    BY <1>2 DEF Fill, FillMoves, FillEnds, FillCanceled, recvVars
  <2>2. CASE walkQ # <<>> /\ c2' = Append(c2, Head(walkQ)) /\ walkQ' = Tail(walkQ)
    <3>1. PICK x \in Entries : x = Head(walkQ)
      BY <1>t, <2>2, TailFacts
    <3>2. C' = C \cup {x} /\ W = W' \cup {x} /\ R' = R
      <4>1. R' = R
        BY <2>1 DEF Members
      <4>2. Members(c2') = C \cup {x} /\ W = Members(walkQ') \cup {x}
        BY <1>t, <2>2, <3>1, MemberFacts
      <4> QED  BY <4>1, <4>2 DEF Members
    <3>3. Parent[x] \in Ready \cup C /\ LedBy(walkQ', (Ready \cup C) \cup {x})
      BY <1>t, <1>q, <2>2, <3>1, LedTail
    <3>4. LedBy(c2', Ready)
      BY <1>t, <1>q, <2>2, <3>1, <3>3, LedAppend
    <3> HIDE DEF C, W, R
    <3>5. LedBy(c2', Ready')
      BY <1>r, <3>4, LedMore
    <3>6. LedBy(walkQ', Ready' \cup (C \cup {x}))
      BY <1>r, <3>3, LedMore
    <3>7. LedBy(rPend', Ready' \cup (C \cup {x}) \cup W')
      <4>1. Ready \cup C \cup W \subseteq Ready' \cup (C \cup {x}) \cup W'
        BY <1>r, <3>2
      <4> QED  BY <1>q, <2>1, <4>1, LedMore
    <3> QED  BY <1>s, <2>1, <3>2, <3>5, <3>6, <3>7
  <2> QED  BY <1>0, <2>1, <2>2
<1>3. CASE DiffNext /\ UNCHANGED recvVars
  <2>1. UNCHANGED <<rI, rParents, rPend, walkQ>> /\ c2 # <<>> /\ c2' = Tail(c2) /\ diff = "diff"
    BY <1>3 DEF DiffNext, recvVars
  <2>2. PICK x \in Entries : x = Head(c2)
    BY <1>t, <2>1, TailFacts
  <2>3. x \in Ready'
    <3>1. CASE sameFile(dest[x], x) /\ dest' = dest
      BY <3>1 DEF sameFile, Ready
    <3>2. CASE HandleChange(x)
      <4>1. dest'[x].meta = "src"
        BY <3>2 DEF HandleChange, Created, PInv, CInv, LInv, GInv, TInv, ReceiverTypeOK
      <4> QED  BY <4>1 DEF Ready
    <3>3. CASE diff' = "join"
      BY <3>3 DEF Ready
    <3> QED  BY <1>3, <2>2, <3>1, <3>2, <3>3 DEF DiffNext
  <2>4. C = C' \cup {x} /\ W' = W /\ R' = R
    <3>1. W' = W /\ R' = R
      BY <2>1 DEF Members
    <3>2. C = Members(c2') \cup {x}
      BY <1>t, <2>1, <2>2, MemberFacts
    <3> QED  BY <3>1, <3>2 DEF Members
  <2>5. LedBy(c2', Ready \cup {x})
    BY <1>t, <1>q, <2>1, <2>2, LedTail
  <2> HIDE DEF C, W, R
  <2>6. LedBy(c2', Ready')
    BY <1>r, <2>3, <2>5, LedMore
  <2>7. LedBy(walkQ', Ready' \cup C') /\ LedBy(rPend', Ready' \cup C' \cup W')
    <3>1. Ready \cup C \subseteq Ready' \cup C' /\ Ready \cup C \cup W \subseteq Ready' \cup C' \cup W'
      BY <1>r, <2>3, <2>4
    <3> QED  BY <1>q, <2>1, <3>1, LedMore
  <2> QED  BY <1>s, <2>1, <2>3, <2>4, <2>6, <2>7
<1>4. CASE \/ RecvGetsErr \/ RecvGetsLast \/ RecvGetsFin \/ RecvDrains \/ RecvEOF \/ RecvLoopFails \/ RecvGetsData
  BY <1>0, <1>4 DEF RecvGetsErr, RecvGetsLast, RecvGetsFin, RecvDrains, RecvEOF, RecvLoopFails, RecvGetsData,
                    RecvEnds, receiverVars, recvVars, walkerVars
<1>5. CASE (DiffCanceled \/ DiffJoins \/ DiffWaits) /\ UNCHANGED recvVars
  BY <1>0, <1>5 DEF DiffCanceled, DiffJoins, DiffWaits, recvVars, walkerVars
<1>6. CASE \/ DiffSendsFin \/ DiffSendsErr \/ ReceiveReturns \/ ConnFails \/ UNCHANGED vars
           \/ UNCHANGED receiverVars
  BY <1>0, <1>6 DEF DiffSendsFin, DiffSendsErr, ReceiveReturns, ConnFails, vars, receiverVars, recvVars, walkerVars
<1>7. ASSUME NEW p \in Entries, Async(p) PROVE UNCHANGED <<rI, rParents, c2, walkQ, rPend>>
  BY <1>7 DEF Async, recvVars, walkerVars
<1> QED  BY <1>0, <1>1, <1>2, <1>3, <1>4, <1>5, <1>6, <1>7
         DEF Next, ReceiverStep, ReceiverLoop, Diff, DiffApplies, Over

LEMMA InitParents == Init => PInv
<1> SUFFICES ASSUME Init PROVE PInv
  OBVIOUS
<1>1. /\ c2 = <<>> /\ walkQ = <<>> /\ rPend = <<>> /\ rParents = <<>> /\ rI = 0
      /\ \A p \in Entries : async[p].pc = "none"
      /\ \A p \in Entries : p \in Stale => dest[p].meta = "old"
  BY DEF Init, ReceiverInit, NoAsync
<1>2. Queued
  BY <1>1, LedNone DEF Queued
<1>3. HeldBack
  <2>1. \A a \in Entries : ~Open(a)
    BY <1>1, EntryFacts DEF Open, NoPath
  <2> QED  BY <2>1 DEF HeldBack
<1>4. Held
  BY <1>1, EmptySeq DEF Held
<1>5. Begun /\ ParentsFirst
  BY <1>1 DEF Begun, ParentsFirst
<1> QED  BY <1>2, <1>3, <1>4, <1>5, InitContent DEF PInv

LEMMA StepParents ==
  ASSUME NoneSkipped
  PROVE  PInv /\ [Next]_vars => PInv'
<1> SUFFICES ASSUME PInv, [Next]_vars PROVE PInv'
  OBVIOUS
<1>1. CInv' /\ Begun' /\ ParentsFirst'
  BY StepContent, ParentsKept DEF PInv
<1>2. Queued' /\ HeldBack' /\ Held'
  <2>1. CASE RecvGetsStat
    BY <2>1, StatParents
  <2>2. CASE ~RecvGetsStat
    BY <2>2, QueuesKept
  <2> QED  BY <2>1, <2>2
<1> QED  BY <1>1, <1>2 DEF PInv

(* A directory is applied before anything in it, for every tree and every  *)
(* choice of the entries a metadata transfer accepts (receive.go:298-321). *)
THEOREM ParentsFirstHolds ==
  ASSUME NoneSkipped
  PROVE  Spec => []ParentsFirst
<1>1. PInv => ParentsFirst
  BY DEF PInv
<1> QED  BY <1>1, InitParents, StepParents, PTL DEF Spec
=============================================================================
