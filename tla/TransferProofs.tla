--------------------------- MODULE TransferProofs ---------------------------
(***************************************************************************)
(* Proofs about Transfer, for every tree, every number of workers, every   *)
(* capacity of the channels and every set of failures.                     *)
(***************************************************************************)
EXTENDS Transfer, SequenceTheorems, TLAPS

-----------------------------------------------------------------------------
(* Packets and channels.                                                   *)

(* Every packet the two programs build is a packet.                        *)
LEMMA PacketsBuilt ==
    /\ \A p \in Entries \cup {NoPath} : StatPacket(p) \in Packets
    /\ \A id \in Ids : ReqPacket(id) \in Packets
    /\ \A id \in Ids, d \in Chunk : DataPacket(id, d) \in Packets
    /\ FinPacket \in Packets
    /\ \A c \in Causes : ErrPacket(c) \in Packets
  BY DEF StatPacket, ReqPacket, DataPacket, FinPacket, ErrPacket, Packets

(* What a packet of each type carries.                                     *)
LEMMA PacketFields ==
  ASSUME NEW m \in Packets
  PROVE  /\ m.type = "STAT" => m.path \in Entries \cup {NoPath}
         /\ m.type = "REQ" => m.id \in Ids
         /\ m.type = "DATA" => m.id \in Ids /\ m.data \in Chunk
  BY DEF Packets

(* Appending to a sequence and taking its tail, element by element.        *)
LEMMA AppendFacts ==
  ASSUME NEW S, NEW s \in Seq(S), NEW m \in S
  PROVE  /\ Append(s, m) \in Seq(S)
         /\ Len(Append(s, m)) = Len(s) + 1
         /\ \A i \in 1..Len(s) : Append(s, m)[i] = s[i]
         /\ Append(s, m)[Len(s) + 1] = m
  BY AppendProperties

LEMMA TailFacts ==
  ASSUME NEW S, NEW s \in Seq(S), s # <<>>
  PROVE  /\ Head(s) \in S
         /\ Head(s) = s[1]
         /\ Len(s) \in Nat /\ Len(s) > 0
         /\ Tail(s) \in Seq(S)
         /\ Len(Tail(s)) = Len(s) - 1
         /\ \A i \in 1..Len(Tail(s)) : Tail(s)[i] = s[i + 1]
  BY HeadTailProperties, ElementOfSeq, LenProperties, EmptySeq

(* Reading and writing a channel keeps it a sequence of packets.           *)
LEMMA SendTypes ==
  ASSUME WireTypeOK, NEW m \in Packets
  PROVE  (SendToReceiver(m) \/ SendToSender(m)) => WireTypeOK'
<1>1. SendToReceiver(m) => WireTypeOK'
  BY AppendFacts DEF WireTypeOK, SendToReceiver
<1>2. SendToSender(m) => WireTypeOK'
  BY AppendFacts DEF WireTypeOK, SendToSender
<1> QED  BY <1>1, <1>2

LEMMA GetTypes ==
  ASSUME WireTypeOK, NEW t
  PROVE  /\ ReceiverGets(t) => WireTypeOK' /\ Head(toR) \in Packets /\ Head(toR).type = t
         /\ SenderGets(t) => WireTypeOK' /\ Head(toS) \in Packets /\ Head(toS).type = t
<1>1. ReceiverGets(t) => WireTypeOK' /\ Head(toR) \in Packets /\ Head(toR).type = t
  BY TailFacts DEF WireTypeOK, ReceiverGets
<1>2. SenderGets(t) => WireTypeOK' /\ Head(toS) \in Packets /\ Head(toS).type = t
  BY TailFacts DEF WireTypeOK, SenderGets
<1> QED  BY <1>1, <1>2

LEMMA QuietTypes ==
  ASSUME WireTypeOK
  PROVE  SendFails \/ RecvFails \/ ReceiverGetsEOF \/ UNCHANGED wireVars => WireTypeOK'
  BY DEF WireTypeOK, SendFails, RecvFails, ReceiverGetsEOF, wireVars

LEMMA NatFacts == /\ N \in Nat
                  /\ Entries \subseteq Nat
                  /\ NoPath \in Nat
                  /\ Ids \subseteq Nat
                  /\ Eof \in Chunk
                  /\ 0 \in Ids
  BY WireAssumption DEF WireAssumption, Entries, NoPath, Ids, Eof, Chunk

-----------------------------------------------------------------------------
(* The types of the sender.  That i stays an id needs how it follows the   *)
(* walk.                                                                   *)
WalkCount ==
    /\ sWalk = "visit" => sI = sNext - 1
    /\ sWalk = "stat" => sI = sNext /\ sNext <= N

SInv == WireTypeOK /\ SenderTypeOK /\ WalkCount

LEMMA SenderInitTypes == Init => SInv
<1> SUFFICES ASSUME Init PROVE SInv
  OBVIOUS
<1>1. WireTypeOK
  BY EmptySeq DEF Init, WireInit, WireTypeOK
<1>2. SenderTypeOK
  <2>1. NoHandle \in Handles /\ Idle \in WorkSet
    BY NatFacts DEF NoHandle, Handle, Handles, Idle, WorkSet
  <2>2. sFiles \in [Ids -> Entries \cup {NoPath}] /\ sWork \in [Workers -> WorkSet]
    BY <2>1 DEF Init, SenderInit
  <2>3. 1 \in 1..(N + 1) /\ "none" \in Causes
    BY NatFacts DEF Causes
  <2>4. sPipe \in Seq(Handles)
    BY EmptySeq DEF Init, SenderInit
  <2> QED  BY <2>1, <2>2, <2>3, <2>4, NatFacts DEF Init, SenderInit, SenderTypeOK
<1>3. WalkCount
  BY DEF Init, SenderInit, WalkCount
<1> QED  BY <1>1, <1>2, <1>3 DEF SInv

LEMMA WalkTypes ==
  ASSUME SInv, Walk
  PROVE  SInv'
<1> USE DEF SInv
<1>c. "walk" \in Causes /\ "canceled" \in Causes /\ "conn" \in Causes
  BY DEF Causes
<1>n. N \in Nat /\ sNext \in Nat /\ sI \in Nat
  BY WireAssumption DEF WireAssumption, SenderTypeOK, Ids
<1>1. CASE WalkVisit
  <2>1. WireTypeOK'
    BY <1>1, QuietTypes DEF WalkVisit
  <2>2. sI + 1 \in Ids /\ sNext \in Entries
    BY <1>1, <1>n DEF WalkVisit, WalkCount, SenderTypeOK, Ids, Entries
  <2>3. SenderTypeOK'
    BY <1>1, <2>2 DEF WalkVisit, SenderTypeOK, Registered, pipeVars
  <2>4. WalkCount'
    BY <1>1, <1>n DEF WalkVisit, WalkCount
  <2> QED  BY <2>1, <2>3, <2>4
<1>2. CASE WalkSendStat
  <2>1. sNext \in Entries
    BY <1>2, <1>n DEF WalkSendStat, WalkCount, SenderTypeOK, Entries
  <2>2. WireTypeOK'
    BY <1>2, <2>1, SendTypes, PacketsBuilt DEF WalkSendStat
  <2>3. SenderTypeOK'
    BY <1>2, <1>n, <2>1 DEF WalkSendStat, SenderTypeOK, pipeVars, Entries
  <2>4. WalkCount'
    BY <1>2, <1>n DEF WalkSendStat, WalkCount
  <2> QED  BY <2>2, <2>3, <2>4
<1>3. CASE WalkSendLast
  <2>1. WireTypeOK'
    BY <1>3, SendTypes, PacketsBuilt DEF WalkSendLast, LastStat
  <2>2. SenderTypeOK' /\ WalkCount'
    BY <1>3 DEF WalkSendLast, SenderTypeOK, WalkCount, pipeVars
  <2> QED  BY <2>1, <2>2
<1>4. CASE WalkFails
  <2>1. WireTypeOK'
    BY <1>4, QuietTypes DEF WalkFails
  <2>2. SenderTypeOK' /\ WalkCount'
    BY <1>4, <1>c DEF WalkFails, SenderTypeOK, WalkCount, pipeVars, Fault
  <2> QED  BY <2>1, <2>2
<1>5. CASE WalkSendFails
  <2>1. WireTypeOK'
    BY <1>5, QuietTypes DEF WalkSendFails
  <2>2. SenderTypeOK' /\ WalkCount'
    BY <1>5, <1>c DEF WalkSendFails, SenderTypeOK, WalkCount, pipeVars
  <2> QED  BY <2>1, <2>2
<1>6. CASE WalkSendErr
  <2>1. WireTypeOK'
    BY <1>6, SendTypes, QuietTypes, PacketsBuilt DEF WalkSendErr, SenderTypeOK
  <2>2. SenderTypeOK' /\ WalkCount'
    BY <1>6 DEF WalkSendErr, SenderTypeOK, WalkCount, pipeVars, FirstErr
  <2> QED  BY <2>1, <2>2
<1> QED  BY <1>1, <1>2, <1>3, <1>4, <1>5, <1>6 DEF Walk

LEMMA WorkerTypes ==
  ASSUME SInv, NEW w \in Workers, Worker(w)
  PROVE  SInv'
<1> USE DEF SInv
<1>c. "read" \in Causes /\ "canceled" \in Causes /\ "conn" \in Causes
  BY DEF Causes
<1>w. /\ sWork \in [Workers -> WorkSet]
      /\ sWork[w] \in WorkSet /\ sWork[w].h \in Handles
      /\ sWork[w].h.id \in Ids /\ sWork[w].h.path \in Nat /\ sWork[w].pos \in Nat
  BY NatFacts DEF SenderTypeOK, WorkSet, Handles
<1>i. Idle \in WorkSet /\ Done \in WorkSet
  BY NatFacts DEF Idle, Done, NoHandle, Handle, Handles, WorkSet
<1>1. CASE WorkerTakes(w)
  <2>1. Head(sPipe) \in Handles /\ Tail(sPipe) \in Seq(Handles)
    BY <1>1, TailFacts DEF WorkerTakes, SenderTypeOK
  <2>2. Working(Head(sPipe)) \in WorkSet
    BY <2>1 DEF Working, WorkSet
  <2>3. WireTypeOK'
    BY <1>1, QuietTypes DEF WorkerTakes
  <2>4. SenderTypeOK'
    BY <1>1, <1>c, <1>i, <2>1, <2>2 DEF WorkerTakes, SenderTypeOK, walkVars, FirstErr
  <2>5. WalkCount'
    BY <1>1 DEF WorkerTakes, WalkCount, walkVars
  <2> QED  BY <2>3, <2>4, <2>5
<1>2. CASE WorkerExits(w)
  <2>1. WireTypeOK'
    BY <1>2, QuietTypes DEF WorkerExits
  <2>2. SenderTypeOK' /\ WalkCount'
    BY <1>2, <1>i DEF WorkerExits, SenderTypeOK, WalkCount, walkVars, pipeVars
  <2> QED  BY <2>1, <2>2
<1>3. CASE WorkerOpenFails(w)
  <2>1. WireTypeOK'
    BY <1>3, QuietTypes DEF WorkerOpenFails
  <2>2. [sWork EXCEPT ![w].pc = "eof"] \in [Workers -> WorkSet]
    BY <1>w DEF WorkSet
  <2>3. SenderTypeOK' /\ WalkCount'
    BY <1>3, <2>2 DEF WorkerOpenFails, SenderTypeOK, WalkCount, walkVars, pipeVars, Fault
  <2> QED  BY <2>1, <2>3
<1>4. CASE WorkerSendsData(w)
  <2>1. sWork[w].pos + 1 \in Nat /\ <<sWork[w].h.path, sWork[w].pos + 1>> \in Chunk
    BY <1>w DEF Chunk
  <2>2. WireTypeOK'
    BY <1>4, <1>w, <2>1, SendTypes, PacketsBuilt DEF WorkerSendsData
  <2>3. [sWork EXCEPT ![w].pos = sWork[w].pos + 1] \in [Workers -> WorkSet]
    BY <1>w, <2>1 DEF WorkSet
  <2>4. SenderTypeOK' /\ WalkCount'
    BY <1>4, <2>3 DEF WorkerSendsData, SenderTypeOK, WalkCount, walkVars, pipeVars
  <2> QED  BY <2>2, <2>4
<1>5. CASE WorkerSendsEOF(w)
  <2>1. WireTypeOK'
    BY <1>5, <1>w, NatFacts, SendTypes, PacketsBuilt DEF WorkerSendsEOF
  <2>2. SenderTypeOK' /\ WalkCount'
    BY <1>5, <1>i DEF WorkerSendsEOF, SenderTypeOK, WalkCount, walkVars, pipeVars
  <2> QED  BY <2>1, <2>2
<1>6. CASE WorkerFails(w)
  <2>1. WireTypeOK'
    BY <1>6, QuietTypes DEF WorkerFails
  <2>2. SenderTypeOK' /\ WalkCount'
    BY <1>6, <1>c, <1>i DEF WorkerFails, SenderTypeOK, WalkCount, walkVars, pipeVars, Fault, FirstErr
  <2> QED  BY <2>1, <2>2
<1> QED  BY <1>1, <1>2, <1>3, <1>4, <1>5, <1>6 DEF Worker

(* The receive loop ends with an error, or goes on.                        *)
LEMMA LoopTypes ==
  ASSUME SInv, SenderLoop
  PROVE  SInv'
<1> USE DEF SInv
<1>c. /\ {"none", "canceled", "peer", "invalid id", "conn"} \subseteq Causes
      /\ \A e \in Causes : FirstErr(sErr, e) \in Causes
  BY DEF Causes, FirstErr, SenderTypeOK
<1>1. CASE LoopCheck
  <2>1. WireTypeOK'
    BY <1>1, QuietTypes DEF LoopCheck
  <2>2. SenderTypeOK' /\ WalkCount'
    BY <1>1, <1>c DEF LoopCheck, LoopEnds, SenderTypeOK, WalkCount, walkVars
  <2> QED  BY <2>1, <2>2
<1>2. CASE LoopGetsErr
  <2>1. WireTypeOK'
    BY <1>2, GetTypes DEF LoopGetsErr
  <2>2. SenderTypeOK' /\ WalkCount'
    BY <1>2, <1>c DEF LoopGetsErr, LoopEnds, SenderTypeOK, WalkCount, walkVars
  <2> QED  BY <2>1, <2>2
<1>3. CASE LoopGetsReq
  <2>1. WireTypeOK' /\ Head(toS).id \in Ids
    BY <1>3, GetTypes, PacketFields DEF LoopGetsReq
  <2> DEFINE id == Head(toS).id
  <2>2. CASE sFiles[id] = NoPath
    BY <1>3, <1>c, <2>1, <2>2 DEF LoopGetsReq, LoopEnds, SenderTypeOK, WalkCount, walkVars
  <2>3. CASE sFiles[id] # NoPath
    <3>1. /\ [sFiles EXCEPT ![id] = NoPath] \in [Ids -> Entries \cup {NoPath}]
          /\ Handle(id, sFiles[id]) \in Handles
      BY <2>1 DEF SenderTypeOK, Handle, Handles
    <3> QED  BY <1>3, <2>1, <2>3, <3>1 DEF LoopGetsReq, SenderTypeOK, WalkCount, walkVars
  <2> QED  BY <2>2, <2>3
<1>4. CASE LoopQueues
  <2>1. WireTypeOK'
    BY <1>4, QuietTypes DEF LoopQueues
  <2>2. NoHandle \in Handles
    BY NatFacts DEF NoHandle, Handle, Handles
  <2>3. Append(sPipe, sHandle) \in Seq(Handles)
    BY AppendFacts DEF SenderTypeOK
  <2>4. SenderTypeOK' /\ WalkCount'
    BY <1>4, <2>2, <2>3 DEF LoopQueues, SenderTypeOK, WalkCount, walkVars
  <2> QED  BY <2>1, <2>4
<1>5. CASE LoopGetsFin
  <2>1. WireTypeOK'
    BY <1>5, GetTypes DEF LoopGetsFin
  <2>2. SenderTypeOK' /\ WalkCount'
    BY <1>5 DEF LoopGetsFin, SenderTypeOK, WalkCount, walkVars, pipeVars
  <2> QED  BY <2>1, <2>2
<1>6. CASE LoopSendsFin
  <2>1. WireTypeOK'
    BY <1>6, SendTypes, QuietTypes, PacketsBuilt DEF LoopSendsFin
  <2>2. SenderTypeOK' /\ WalkCount'
    BY <1>6, <1>c DEF LoopSendsFin, LoopEnds, SenderTypeOK, WalkCount, walkVars
  <2> QED  BY <2>1, <2>2
<1>7. CASE LoopRecvFails
  <2>1. WireTypeOK'
    BY <1>7, QuietTypes DEF LoopRecvFails
  <2>2. SenderTypeOK' /\ WalkCount'
    BY <1>7, <1>c DEF LoopRecvFails, LoopEnds, SenderTypeOK, WalkCount, walkVars
  <2> QED  BY <2>1, <2>2
<1> QED  BY <1>1, <1>2, <1>3, <1>4, <1>5, <1>6, <1>7 DEF SenderLoop

LEMMA SenderTypes ==
  ASSUME SInv, SenderStep
  PROVE  SInv'
<1>1. CASE SendReturns
  BY <1>1 DEF SendReturns, SInv, WireTypeOK, SenderTypeOK, WalkCount, walkVars, pipeVars
<1>2. ASSUME NEW w \in Workers, Worker(w) PROVE SInv'
  BY <1>2, WorkerTypes
<1> QED  BY <1>1, <1>2, WalkTypes, LoopTypes DEF SenderStep

(* A step of the receiver or of the connection leaves the sender alone.    *)
LEMMA SenderLeft ==
  ASSUME SInv, WireTypeOK', UNCHANGED senderVars, fault' \in Faults \cup {"none"}
  PROVE  SInv'
  BY DEF SInv, SenderTypeOK, WalkCount, senderVars, walkVars, pipeVars

-----------------------------------------------------------------------------
(* The types of the receiver.  That i stays an id needs that it counts     *)
(* STAT packets whose paths increase, and that none is beyond the walk.    *)
IsStat(m) == m.type = "STAT" /\ m.path # NoPath

StatsInOrder ==
    /\ rI < sNext
    /\ \A i \in 1..Len(toR) : IsStat(toR[i]) => rI < toR[i].path /\ toR[i].path < sNext
    /\ \A i, j \in 1..Len(toR) :
         i < j /\ IsStat(toR[i]) /\ IsStat(toR[j]) => toR[i].path < toR[j].path

(* An entry being handed over is there; a goroutine that asks has an id.   *)
RecvShape ==
    /\ rRecv = "update" => rPend # <<>>
    /\ \A p \in Entries : async[p].pc \in {"req", "wait"} => async[p].id \in Ids

TInv == SInv /\ ReceiverTypeOK /\ RecvShape /\ StatsInOrder

LEMMA StatsKept ==
  ASSUME StatsInOrder, UNCHANGED <<toR, rI, sNext>>
  PROVE  StatsInOrder'
  BY DEF StatsInOrder, IsStat

LEMMA StatsAppended ==
  ASSUME WireTypeOK, StatsInOrder, UNCHANGED <<rI, sNext>>,
         NEW m \in Packets, ~IsStat(m), SendToReceiver(m)
  PROVE  StatsInOrder'
<1>1. /\ toR \in Seq(Packets) /\ Len(toR) \in Nat
      /\ toR' = Append(toR, m)
  BY LenProperties DEF WireTypeOK, SendToReceiver
<1>2. /\ Len(toR') = Len(toR) + 1
      /\ \A i \in 1..Len(toR) : toR'[i] = toR[i]
      /\ toR'[Len(toR) + 1] = m
  BY <1>1, AppendFacts
<1>3. \A i \in 1..Len(toR') : IsStat(toR'[i]) => i \in 1..Len(toR) /\ toR'[i] = toR[i]
  BY <1>1, <1>2
<1>4. \A i \in 1..Len(toR') : IsStat(toR'[i]) => rI' < toR'[i].path /\ toR'[i].path < sNext'
  BY <1>3 DEF StatsInOrder
<1>5. \A i, j \in 1..Len(toR') :
        i < j /\ IsStat(toR'[i]) /\ IsStat(toR'[j]) => toR'[i].path < toR'[j].path
  BY <1>3 DEF StatsInOrder
<1> QED  BY <1>4, <1>5 DEF StatsInOrder, IsStat

LEMMA StatsTaken ==
  ASSUME WireTypeOK, StatsInOrder, UNCHANGED <<rI, sNext>>, NEW t, ReceiverGets(t)
  PROVE  StatsInOrder'
<1>1. /\ Len(toR) \in Nat /\ Len(toR') = Len(toR) - 1
      /\ \A i \in 1..Len(toR') : toR'[i] = toR[i + 1]
  BY TailFacts DEF WireTypeOK, ReceiverGets
<1>2. \A i \in 1..Len(toR') : i + 1 \in 1..Len(toR)
  BY <1>1
<1>3. \A i \in 1..Len(toR') : IsStat(toR'[i]) => rI' < toR'[i].path /\ toR'[i].path < sNext'
  BY <1>1, <1>2 DEF StatsInOrder
<1>4. \A i, j \in 1..Len(toR') :
        i < j /\ IsStat(toR'[i]) /\ IsStat(toR'[j]) => toR'[i].path < toR'[j].path
  <2> TAKE i, j \in 1..Len(toR')
  <2>1. i < j => i + 1 < j + 1
    OBVIOUS
  <2> QED  BY <1>1, <1>2, <2>1 DEF StatsInOrder
<1> QED  BY <1>3, <1>4 DEF StatsInOrder, IsStat

(* The sender's steps.                                                     *)
LEMMA NotStat ==
  /\ ~IsStat(LastStat) /\ ~IsStat(FinPacket)
  /\ \A id, d : ~IsStat(DataPacket(id, d))
  /\ \A e : ~IsStat(ErrPacket(e))
  BY DEF IsStat, LastStat, StatPacket, FinPacket, DataPacket, ErrPacket

LEMMA StatSent ==
  ASSUME SInv, StatsInOrder, rI \in Nat, UNCHANGED rI, WalkSendStat
  PROVE  StatsInOrder'
<1>0. /\ sNext \in Entries /\ sNext \in Nat /\ sNext # NoPath /\ sNext' = sNext + 1
  BY NatFacts DEF SInv, WalkCount, SenderTypeOK, WalkSendStat, Entries, NoPath
<1>1. StatPacket(sNext) \in Packets /\ StatPacket(sNext).path = sNext
  BY <1>0, PacketsBuilt DEF StatPacket
<1>2. /\ toR \in Seq(Packets) /\ Len(toR) \in Nat
      /\ toR' = Append(toR, StatPacket(sNext))
  BY LenProperties DEF SInv, WireTypeOK, WalkSendStat, SendToReceiver
<1>3. /\ Len(toR') = Len(toR) + 1
      /\ \A i \in 1..Len(toR) : toR'[i] = toR[i]
      /\ toR'[Len(toR) + 1] = StatPacket(sNext)
  BY <1>1, <1>2, AppendFacts
<1>4. \A i \in 1..Len(toR') : \/ i = Len(toR) + 1 /\ toR'[i].path = sNext
                              \/ i \in 1..Len(toR) /\ toR'[i] = toR[i]
  BY <1>1, <1>2, <1>3
<1>5. \A i \in 1..Len(toR) : IsStat(toR[i]) => toR[i].path \in Nat
  BY <1>2, ElementOfSeq, PacketFields, NatFacts DEF IsStat
<1>6. \A i \in 1..Len(toR') : IsStat(toR'[i]) => rI' < toR'[i].path /\ toR'[i].path < sNext'
  BY <1>0, <1>4, <1>5 DEF StatsInOrder
<1>7. \A i, j \in 1..Len(toR') :
        i < j /\ IsStat(toR'[i]) /\ IsStat(toR'[j]) => toR'[i].path < toR'[j].path
  BY <1>0, <1>2, <1>4, <1>5 DEF StatsInOrder
<1>8. rI' < sNext'
  BY <1>0 DEF StatsInOrder
<1> QED  BY <1>6, <1>7, <1>8 DEF StatsInOrder, IsStat

LEMMA SenderStats ==
  ASSUME SInv, StatsInOrder, rI \in Nat, UNCHANGED rI, SenderStep
  PROVE  StatsInOrder'
<1> USE DEF SInv
<1>1. CASE WalkSendStat
  BY <1>1, StatSent
<1>2. CASE WalkSendLast
  BY <1>2, StatsAppended, PacketsBuilt, NotStat DEF WalkSendLast, LastStat
<1>3. CASE WalkSendErr
  BY <1>3, StatsAppended, StatsKept, PacketsBuilt, NotStat
     DEF WalkSendErr, SendFails, wireVars, SenderTypeOK
<1>4. CASE LoopSendsFin
  BY <1>4, StatsAppended, StatsKept, PacketsBuilt, NotStat
     DEF LoopSendsFin, LoopEnds, SendFails, wireVars, walkVars
<1>5. ASSUME NEW w \in Workers, WorkerSendsData(w) PROVE StatsInOrder'
  <2>1. sWork[w] \in WorkSet
    BY DEF SenderTypeOK
  <2>h. sWork[w].h \in Handles /\ sWork[w].pos \in Nat
    BY <2>1 DEF WorkSet
  <2>p. sWork[w].h.id \in Ids /\ sWork[w].h.path \in Entries \cup {NoPath}
    BY <2>h DEF Handles
  <2>a. sWork[w].h.path \in Nat
    BY <2>p, NatFacts
  <2>n. sWork[w].pos + 1 \in Nat
    BY <2>h
  <2>b. <<sWork[w].h.path, sWork[w].pos + 1>> \in Chunk
    BY <2>a, <2>n DEF Chunk
  <2>2. DataPacket(sWork[w].h.id, <<sWork[w].h.path, sWork[w].pos + 1>>) \in Packets
    BY <2>p, <2>b, PacketsBuilt
  <2> QED  BY <1>5, <2>2, StatsAppended, NotStat DEF WorkerSendsData, walkVars
<1>6. ASSUME NEW w \in Workers, WorkerSendsEOF(w) PROVE StatsInOrder'
  <2>1. sWork[w] \in WorkSet
    BY DEF SenderTypeOK
  <2>2. DataPacket(sWork[w].h.id, Eof) \in Packets
    BY <2>1, PacketsBuilt, NatFacts DEF WorkSet, Handles
  <2> QED  BY <1>6, <2>2, StatsAppended, NotStat DEF WorkerSendsEOF, walkVars
<1>7. ASSUME NEW w \in Workers,
             WorkerTakes(w) \/ WorkerExits(w) \/ WorkerOpenFails(w) \/ WorkerFails(w)
      PROVE  StatsInOrder'
  BY <1>7, StatsKept
     DEF WorkerTakes, WorkerExits, WorkerOpenFails, WorkerFails, SendFails, wireVars, walkVars
<1>8. CASE WalkVisit \/ WalkFails \/ WalkSendFails
  BY <1>8, StatsKept DEF WalkVisit, WalkFails, WalkSendFails, SendFails, wireVars
<1>9. CASE LoopCheck \/ LoopGetsErr \/ LoopGetsReq \/ LoopQueues \/ LoopGetsFin \/ LoopRecvFails
  BY <1>9, StatsKept
     DEF LoopCheck, LoopGetsErr, LoopGetsReq, LoopQueues, LoopGetsFin, LoopRecvFails, SenderGets,
         RecvFails, wireVars, walkVars
<1>10. CASE SendReturns
  BY <1>10, StatsKept DEF SendReturns, walkVars
<1> QED
  BY <1>1, <1>2, <1>3, <1>4, <1>5, <1>6, <1>7, <1>8, <1>9, <1>10
     DEF SenderStep, Walk, SenderLoop, Worker


(* What the receive loop does with a STAT: the index stays in front of     *)
(* the STATs on their way.                                                 *)
LEMMA StatGot ==
  ASSUME SInv, StatsInOrder, rI \in Nat, RecvGetsStat, UNCHANGED sNext
  PROVE  StatsInOrder' /\ rI' \in Ids /\ rI' \in Nat /\ Head(toR).path \in Entries
<1> DEFINE p == Head(toR).path
<1>1. /\ toR \in Seq(Packets) /\ toR # <<>> /\ toR' = Tail(toR)
      /\ IsStat(Head(toR)) /\ rI' = NextIndex(p, rI)
  BY DEF SInv, WireTypeOK, RecvGetsStat, ReceiverGets, IsStat
<1>2. /\ Head(toR) = toR[1] /\ Head(toR) \in Packets
      /\ Len(toR) \in Nat /\ Len(toR) > 0 /\ Len(toR') = Len(toR) - 1
      /\ \A i \in 1..Len(toR') : toR'[i] = toR[i + 1]
  BY <1>1, TailFacts
<1>3. p \in Entries /\ p \in Nat /\ p <= N /\ N \in Nat
  BY <1>1, <1>2, PacketFields, NatFacts DEF IsStat, Entries
<1>4. rI < p /\ (rI' = rI \/ rI' = rI + 1) /\ rI' \in Nat /\ rI' <= p
  BY <1>1, <1>2, <1>3 DEF StatsInOrder, NextIndex
<1>5. \A i \in 1..Len(toR') : i + 1 \in 1..Len(toR) /\ 1 < i + 1
  BY <1>2
<1>6. \A i \in 1..Len(toR') : IsStat(toR'[i]) => toR'[i].path \in Nat /\ p < toR'[i].path
  <2> TAKE i \in 1..Len(toR')
  <2>1. toR[i + 1] \in Packets /\ toR'[i] = toR[i + 1]
    BY <1>1, <1>2, <1>5, ElementOfSeq
  <2>2. IsStat(toR[i + 1]) => toR[i + 1].path \in Nat
    BY <2>1, PacketFields, NatFacts DEF IsStat
  <2>3. IsStat(toR[1]) /\ toR[1].path = p /\ 1 \in 1..Len(toR)
    BY <1>1, <1>2
  <2>4. IsStat(toR[i + 1]) => p < toR[i + 1].path
    BY <1>5, <2>3 DEF StatsInOrder
  <2> QED  BY <2>1, <2>2, <2>4
<1>7. \A i \in 1..Len(toR') : IsStat(toR'[i]) => rI' < toR'[i].path /\ toR'[i].path < sNext'
  <2> TAKE i \in 1..Len(toR')
  <2> HAVE IsStat(toR'[i])
  <2>1. toR'[i] = toR[i + 1] /\ i + 1 \in 1..Len(toR)
    BY <1>2, <1>5
  <2>2. toR'[i].path < sNext'
    BY <2>1 DEF StatsInOrder
  <2>3. toR'[i].path \in Nat /\ p < toR'[i].path
    BY <1>6
  <2> HIDE DEF p
  <2>4. \A a, b, d \in Nat : a <= b /\ b < d => a < d
    OBVIOUS
  <2>5. rI' < toR'[i].path
    BY <1>3, <1>4, <2>3, <2>4
  <2> QED  BY <2>2, <2>5
<1>8. \A i, j \in 1..Len(toR') :
        i < j /\ IsStat(toR'[i]) /\ IsStat(toR'[j]) => toR'[i].path < toR'[j].path
  <2> TAKE i, j \in 1..Len(toR')
  <2>1. i < j => i + 1 < j + 1
    OBVIOUS
  <2> QED  BY <1>2, <1>5, <2>1 DEF StatsInOrder
<1>9. rI' < sNext'
  <2>1. p < sNext /\ sNext \in Nat
    BY <1>1, <1>2 DEF StatsInOrder, SInv, SenderTypeOK
  <2> QED  BY <1>3, <1>4, <2>1
<1>10. rI' \in Ids
  BY <1>3, <1>4 DEF Ids
<1> QED  BY <1>3, <1>4, <1>7, <1>8, <1>9, <1>10 DEF StatsInOrder, IsStat

(* metadataParents stays a sequence of entries.                            *)
LEMMA ParentsTypes ==
  ASSUME NEW stack \in Seq(Entries), NEW p \in Entries
  PROVE  ParentsOf(stack, p) \in Seq(Entries)
<1> DEFINE above == {k \in 1..Len(stack) : stack[k] = Parent[p]}
           top   == CHOOSE k \in above : TRUE
           held  == IF above = {} THEN <<>> ELSE SubSeq(stack, 1, top)
<1>1. above # {} => top \in 1..Len(stack)
  OBVIOUS
<1>2. Len(stack) \in Nat /\ \A k \in 1..Len(stack) : stack[k] \in Entries
  BY LenProperties, ElementOfSeq
<1> HIDE DEF top
<1>3. above # {} => SubSeq(stack, 1, top) \in Seq(Entries)
  <2> SUFFICES ASSUME above # {} PROVE SubSeq(stack, 1, top) \in Seq(Entries)
    OBVIOUS
  <2>1. top \in Int /\ 1 \in Int /\ \A k \in 1..top : stack[k] \in Entries
    BY <1>1, <1>2
  <2> QED  BY <2>1, SubSeqProperties
<1>4. held \in Seq(Entries)
  BY <1>3, EmptySeq
<1>5. ParentsOf(stack, p) = IF Kind[p] = "dir" THEN Append(held, p) ELSE held
  BY DEF ParentsOf, top
<1> HIDE DEF held
<1> QED  BY <1>4, <1>5, AppendFacts


(* The receive loop.                                                       *)
LEMMA RecvTypes ==
  ASSUME TInv, ReceiverLoop, UNCHANGED senderVars
  PROVE  TInv'
<1> USE DEF TInv
<1>c. /\ {"none", "peer", "walker closed", "invalid request", "write", "eof", "conn"} \subseteq Causes
      /\ \A e \in Causes : FirstErr(rErr, e) \in Causes
  BY DEF Causes, FirstErr, ReceiverTypeOK
<1>s. sNext' = sNext /\ WireTypeOK /\ rI \in Nat
  BY NatFacts DEF senderVars, walkVars, SInv, ReceiverTypeOK
<1>f. fault \in Faults \cup {"none"}
  BY DEF SInv, SenderTypeOK
<1>1. CASE RecvGetsErr /\ UNCHANGED fault
  <2>1. WireTypeOK' /\ StatsInOrder'
    BY <1>1, <1>s, GetTypes, StatsTaken DEF RecvGetsErr
  <2>2. ReceiverTypeOK' /\ RecvShape'
    BY <1>1, <1>c DEF RecvGetsErr, RecvEnds, ReceiverTypeOK, RecvShape,
                      reqVars, walkerVars, diffVars, diskVars, retVars
  <2> QED  BY <1>1, <1>f, <2>1, <2>2, SenderLeft
<1>2. CASE RecvGetsLast /\ UNCHANGED fault
  <2>1. WireTypeOK' /\ StatsInOrder'
    BY <1>2, <1>s, GetTypes, StatsTaken DEF RecvGetsLast
  <2>2. ReceiverTypeOK' /\ RecvShape'
    BY <1>2, <1>c DEF RecvGetsLast, RecvEnds, ReceiverTypeOK, RecvShape,
                      reqVars, diffVars, diskVars, retVars
  <2> QED  BY <1>2, <1>f, <2>1, <2>2, SenderLeft
<1>3. CASE RecvGetsStat /\ UNCHANGED fault
  <2> DEFINE p == Head(toR).path
             parents == ParentsOf(rParents, p)
  <2>1. WireTypeOK'
    BY <1>3, <1>s, GetTypes DEF RecvGetsStat
  <2>2. StatsInOrder' /\ rI' \in Ids /\ p \in Entries
    BY <1>3, <1>s, StatGot
  <2>3. parents \in Seq(Entries) /\ Append(parents, p) \in Seq(Entries) /\ Append(parents, p) # <<>>
    <3>1. parents \in Seq(Entries)
      BY <2>2, ParentsTypes DEF ReceiverTypeOK
    <3> HIDE DEF parents, p
    <3> QED  BY <2>2, <3>1, AppendProperties
  <2>4. <<p>> \in Seq(Entries) /\ <<p>> # <<>> /\ <<>> \in Seq(Entries)
    BY <2>2, EmptySeq
  <2>5. Append(rMeta, p) \in Seq(Entries)
    BY <2>2, AppendFacts DEF ReceiverTypeOK
  <2>6. [rFiles EXCEPT ![p] = rI] \in [Entries -> Ids \cup {NoId}]
    BY <2>2 DEF ReceiverTypeOK
  <2>7. /\ rI' = NextIndex(p, rI)
        /\ \/ UNCHANGED <<rRecv, rPend, rMeta, rParents, rFiles>>
           \/ /\ rFiles' = Requestable(rFiles, p, rI)
              /\ rMeta' = IF MetadataTransfer THEN Append(rMeta, p) ELSE rMeta
              /\ \/ rParents' = parents /\ UNCHANGED <<rRecv, rPend>>
                 \/ /\ rRecv' = "update"
                    /\ rPend' = IF MetadataTransfer THEN Append(parents, p) ELSE <<p>>
                    /\ rParents' = <<>>
        /\ UNCHANGED <<rPipes, walkerVars, diffVars, diskVars, rErr, retVars>>
    BY <1>3 DEF RecvGetsStat
  <2> HIDE DEF p, parents
  <2>8. /\ rFiles' \in [Entries -> Ids \cup {NoId}]
        /\ rMeta' \in Seq(Entries) /\ rParents' \in Seq(Entries) /\ rPend' \in Seq(Entries)
        /\ rRecv' \in {"recv", "update", "drain", "done"}
        /\ rRecv' = "update" => rPend' # <<>>
    BY <2>3, <2>4, <2>5, <2>6, <2>7 DEF Requestable, ReceiverTypeOK, RecvShape
  <2>9. ReceiverTypeOK' /\ RecvShape'
    BY <2>2, <2>7, <2>8 DEF ReceiverTypeOK, RecvShape, walkerVars, diffVars, diskVars, retVars
  <2> QED  BY <1>3, <1>f, <2>1, <2>2, <2>9, SenderLeft
<1>4. CASE RecvUpdates /\ UNCHANGED fault
  <2>1. WireTypeOK' /\ StatsInOrder'
    BY <1>4, <1>s, QuietTypes, StatsKept DEF RecvUpdates, wireVars
  <2>2. /\ rPend # <<>> /\ Head(rPend) \in Entries /\ Tail(rPend) \in Seq(Entries)
        /\ Len(rPend) \in Nat /\ Len(Tail(rPend)) = Len(rPend) - 1
        /\ Len(rPend) # 1 => Tail(rPend) # <<>>
    <3>1. rPend \in Seq(Entries) /\ rPend # <<>>
      BY <1>4 DEF RecvUpdates, ReceiverTypeOK, RecvShape
    <3>2. /\ Head(rPend) \in Entries /\ Tail(rPend) \in Seq(Entries)
          /\ Len(rPend) \in Nat /\ Len(Tail(rPend)) = Len(rPend) - 1
      BY <3>1, TailFacts
    <3>3. Tail(rPend) = <<>> => Len(rPend) = 1
      BY <3>2, EmptySeq
    <3> QED  BY <3>1, <3>2, <3>3
  <2>3. Append(walkQ, Head(rPend)) \in Seq(Entries)
    BY <2>2, AppendFacts DEF ReceiverTypeOK
  <2>4. ReceiverTypeOK' /\ RecvShape'
    BY <1>4, <1>c, <2>2, <2>3 DEF RecvUpdates, RecvEnds, ReceiverTypeOK, RecvShape,
                      reqVars, diffVars, diskVars, retVars
  <2> QED  BY <1>4, <1>f, <2>1, <2>4, SenderLeft
<1>5. CASE RecvGetsFin /\ UNCHANGED fault
  <2>1. WireTypeOK' /\ StatsInOrder'
    BY <1>5, <1>s, GetTypes, StatsTaken DEF RecvGetsFin
  <2>2. ReceiverTypeOK' /\ RecvShape'
    BY <1>5 DEF RecvGetsFin, ReceiverTypeOK, RecvShape,
                      reqVars, walkerVars, diffVars, diskVars, retVars
  <2> QED  BY <1>5, <1>f, <2>1, <2>2, SenderLeft
<1>6. CASE RecvDrains /\ UNCHANGED fault
  <2>1. WireTypeOK' /\ StatsInOrder'
    BY <1>6, <1>s, GetTypes, StatsTaken DEF RecvDrains, receiverVars, recvVars
  <2>2. ReceiverTypeOK' /\ RecvShape'
    BY <1>6 DEF RecvDrains, ReceiverTypeOK, RecvShape, receiverVars, recvVars,
                      reqVars, walkerVars, diffVars, diskVars, retVars
  <2> QED  BY <1>6, <1>f, <2>1, <2>2, SenderLeft
<1>7. CASE (RecvEOF \/ RecvLoopFails) /\ UNCHANGED fault
  <2>1. WireTypeOK' /\ StatsInOrder'
    BY <1>7, <1>s, QuietTypes, StatsKept DEF RecvEOF, RecvLoopFails, ReceiverGetsEOF, RecvFails, wireVars
  <2>2. ReceiverTypeOK' /\ RecvShape'
    BY <1>7, <1>c DEF RecvEOF, RecvLoopFails, RecvEnds, ReceiverTypeOK, RecvShape,
                      reqVars, walkerVars, diffVars, diskVars, retVars
  <2> QED  BY <1>7, <1>f, <2>1, <2>2, SenderLeft
<1>8. CASE RecvGetsData
  <2>1. WireTypeOK' /\ StatsInOrder' /\ Head(toR).id \in Ids /\ Head(toR).data \in Chunk
    BY <1>8, <1>s, GetTypes, StatsTaken, PacketFields DEF RecvGetsData
  <2> DEFINE p == rPipes[Head(toR).id]
             data == Head(toR).data
  <2>2. p \in Entries \cup {NoPath}
    BY <2>1 DEF ReceiverTypeOK
  <2>3. p # NoPath => [dest EXCEPT ![p] = Written(dest[p], data)]
                        \in [Entries -> [data : Seq(Chunk), meta : {"old", "src", "now"}]]
    <3> HIDE DEF p, data
    <3>1. SUFFICES ASSUME p \in Entries, data \in Chunk
                   PROVE  Written(dest[p], data) \in [data : Seq(Chunk), meta : {"old", "src", "now"}]
      BY <2>1, <2>2 DEF ReceiverTypeOK, data
    <3>2. dest[p].data \in Seq(Chunk)
      BY <3>1 DEF ReceiverTypeOK
    <3>3. Append(dest[p].data, data) \in Seq(Chunk)
      BY <3>1, <3>2, AppendFacts
    <3> QED  BY <3>3 DEF Written
  <2>4. /\ rRecv' = rRecv \/ rRecv' = "done"
        /\ rErr' = rErr \/ rErr' \in Causes
        /\ pipe' = pipe \/ pipe' = [pipe EXCEPT ![p] = "closed"] \/ pipe' = [pipe EXCEPT ![p] = "failed"]
        /\ dest' = dest \/ (p # NoPath /\ dest' = [dest EXCEPT ![p] = Written(dest[p], data)])
        /\ fault' \in Faults \cup {"none"}
        /\ UNCHANGED <<rPend, rI, rMeta, rParents, reqVars, walkerVars, diffVars, async, egErr, retVars>>
    BY <1>8, <1>c, <1>f DEF RecvGetsData, RecvEnds, Fault
  <2> HIDE DEF p, data
  <2>5. /\ pipe' \in [Entries -> {"open", "closed", "failed"}]
        /\ dest' \in [Entries -> [data : Seq(Chunk), meta : {"old", "src", "now"}]]
        /\ rErr' \in Causes
        /\ rRecv' \in {"recv", "update", "drain", "done"}
    BY <2>3, <2>4 DEF ReceiverTypeOK
  <2>6. ReceiverTypeOK'
    BY <2>4, <2>5 DEF ReceiverTypeOK, reqVars, walkerVars, diffVars, retVars
  <2>7. RecvShape'
    BY <2>4 DEF RecvShape
  <2> QED  BY <2>1, <2>4, <2>6, <2>7, SenderLeft
<1> QED
  BY <1>1, <1>2, <1>3, <1>4, <1>5, <1>6, <1>7, <1>8 DEF ReceiverLoop


(* fill and the diff.                                                      *)
LEMMA FillTypes ==
  ASSUME TInv, Fill, UNCHANGED senderVars
  PROVE  TInv'
<1> USE DEF TInv
<1>1. WireTypeOK' /\ StatsInOrder' /\ fault' \in Faults \cup {"none"}
  BY QuietTypes, StatsKept
     DEF Fill, wireVars, recvVars, senderVars, walkVars, SInv, SenderTypeOK
<1>2. CASE FillMoves
  <2>1. Head(walkQ) \in Entries /\ Tail(walkQ) \in Seq(Entries)
    BY <1>2, TailFacts DEF FillMoves, ReceiverTypeOK
  <2>2. Append(c2, Head(walkQ)) \in Seq(Entries)
    BY <2>1, AppendFacts DEF ReceiverTypeOK
  <2>3. ReceiverTypeOK' /\ RecvShape'
    BY <1>2, <2>1, <2>2 DEF Fill, FillMoves, ReceiverTypeOK, RecvShape,
                            recvVars, reqVars, diffVars, diskVars, retVars
  <2> QED  BY <1>1, <2>3, SenderLeft
<1>3. CASE FillEnds \/ FillCanceled
  <2>1. ReceiverTypeOK' /\ RecvShape'
    BY <1>3 DEF Fill, FillEnds, FillCanceled, ReceiverTypeOK, RecvShape,
                recvVars, reqVars, diffVars, diskVars, retVars
  <2> QED  BY <1>1, <2>1, SenderLeft
<1> QED  BY <1>2, <1>3 DEF Fill

LEMMA DiffTypes ==
  ASSUME TInv, Diff, UNCHANGED senderVars
  PROVE  TInv'
<1> USE DEF TInv
<1>c. /\ {"none", "canceled", "apply"} \subseteq Causes
      /\ \A d, e \in Causes : FirstErr(d, e) \in Causes
      /\ \A e \in Causes : ReportedErr(e) \in Causes
  BY DEF Causes, FirstErr, ReportedErr, ReceiverTypeOK
<1>s. sNext' = sNext /\ WireTypeOK
  BY DEF senderVars, walkVars, SInv
<1>f. fault \in Faults \cup {"none"}
  BY DEF SInv, SenderTypeOK
<1>1. CASE DiffApplies
  <2>1. WireTypeOK' /\ StatsInOrder'
    BY <1>1, <1>s, QuietTypes, StatsKept DEF DiffApplies, wireVars, recvVars
  <2>2. UNCHANGED <<rRecv, rPend, rI, rMeta, rParents, rFiles, rPipes, rErr, rRet, metaFile>>
    BY <1>1 DEF DiffApplies, recvVars, reqVars, retVars
  <2>3. CASE DiffNext
    <3> DEFINE p == Head(c2)
    <3>1. p \in Entries /\ Tail(c2) \in Seq(Entries)
      BY <2>3, TailFacts DEF DiffNext, ReceiverTypeOK
    <3>2. /\ c2' = Tail(c2)
          /\ diff' \in {diff, "join"} /\ diffErr' \in {diffErr, "apply", "canceled"}
          /\ fault' \in Faults \cup {"none"}
          /\ \/ UNCHANGED <<async, dest>>
             \/ HandleChange(p)
          /\ UNCHANGED <<walkQ, walkClosed, fill, pipe, egErr>>
      BY <2>3, <1>f DEF DiffNext, Fault
    <3> HIDE DEF p
    <3>3. Created \in [data : Seq(Chunk), meta : {"old", "src", "now"}]
      BY EmptySeq DEF Created
    <3>4. [pc |-> "start", id |-> NoId] \in AsyncSet
      BY DEF AsyncSet
    <3>d. /\ dest' = dest \/ dest' = [dest EXCEPT ![p] = Created]
          /\ async' = async \/ async' = [async EXCEPT ![p] = [pc |-> "start", id |-> NoId]]
      BY <3>2 DEF HandleChange
    <3>5. dest' \in [Entries -> [data : Seq(Chunk), meta : {"old", "src", "now"}]]
      <4>1. dest \in [Entries -> [data : Seq(Chunk), meta : {"old", "src", "now"}]]
        BY DEF ReceiverTypeOK
      <4> QED  BY <3>1, <3>3, <3>d, <4>1
    <3>a. async' \in [Entries -> AsyncSet]
      BY <3>1, <3>4, <3>d DEF ReceiverTypeOK
    <3>6. \A q \in Entries : async'[q].pc \in {"req", "wait"} => async'[q].id \in Ids
      <4>1. async \in [Entries -> AsyncSet] /\ \A q \in Entries : async[q].pc \in {"req", "wait"} => async[q].id \in Ids
        BY DEF ReceiverTypeOK, RecvShape
      <4>2. \A q \in Entries : async'[q] = async[q] \/ async'[q] = [pc |-> "start", id |-> NoId]
        BY <3>1, <3>d, <4>1
      <4> QED  BY <4>1, <4>2
    <3>7. ReceiverTypeOK'
      <4>1. diff' \in {"diff", "join", "wait", "fin", "err", "done"} /\ diffErr' \in Causes
        BY <1>c, <3>2 DEF ReceiverTypeOK
      <4> QED  BY <2>2, <3>1, <3>2, <3>5, <3>a, <4>1 DEF ReceiverTypeOK
    <3>8. RecvShape'
      BY <2>2, <3>6 DEF RecvShape
    <3> QED  BY <2>1, <3>2, <3>7, <3>8, SenderLeft
  <2>4. CASE DiffCanceled \/ DiffJoins \/ DiffWaits
    <3>1. ReceiverTypeOK' /\ RecvShape'
      BY <1>c, <2>2, <2>4 DEF DiffCanceled, DiffJoins, DiffWaits, ReceiverTypeOK, RecvShape,
                              walkerVars, diskVars
    <3>2. UNCHANGED fault
      BY <2>4 DEF DiffCanceled, DiffJoins, DiffWaits
    <3> QED  BY <1>f, <2>1, <3>1, <3>2, SenderLeft
  <2> QED  BY <1>1, <2>3, <2>4 DEF DiffApplies
<1>2. CASE DiffSendsFin
  <2>1. WireTypeOK' /\ StatsInOrder'
    BY <1>2, <1>s, PacketsBuilt, SendTypes, QuietTypes, StatsKept
       DEF DiffSendsFin, SendToSender, SendFails, wireVars, recvVars
  <2>2. ReceiverTypeOK' /\ RecvShape'
    BY <1>2 DEF DiffSendsFin, ReceiverTypeOK, RecvShape,
                recvVars, reqVars, walkerVars, diskVars, retVars
  <2> QED  BY <1>2, <1>f, <2>1, <2>2, SenderLeft DEF DiffSendsFin
<1>3. CASE DiffSendsErr
  <2>1. ErrPacket(ReportedErr(diffErr)) \in Packets
    BY <1>c, PacketsBuilt DEF ReceiverTypeOK
  <2>2. WireTypeOK' /\ StatsInOrder'
    BY <1>3, <1>s, <2>1, SendTypes, QuietTypes, StatsKept
       DEF DiffSendsErr, SendToSender, SendFails, wireVars, recvVars
  <2>3. ReceiverTypeOK' /\ RecvShape'
    BY <1>3, <1>c DEF DiffSendsErr, ReceiverTypeOK, RecvShape,
                recvVars, reqVars, walkerVars, diskVars, retVars
  <2> QED  BY <1>3, <1>f, <2>2, <2>3, SenderLeft DEF DiffSendsErr
<1> QED  BY <1>1, <1>2, <1>3 DEF Diff


(* The goroutine of a file.                                                *)
LEMMA AsyncTypes ==
  ASSUME TInv, NEW p \in Entries, Async(p), UNCHANGED senderVars
  PROVE  TInv'
<1> USE DEF TInv
<1>c. /\ {"invalid request", "conn", "write", "canceled", "async"} \subseteq Causes
      /\ \A e \in Causes : FirstErr(egErr, e) \in Causes
  BY DEF Causes, FirstErr, ReceiverTypeOK
<1>s. sNext' = sNext /\ WireTypeOK
  BY DEF senderVars, walkVars, SInv
<1>f. fault \in Faults \cup {"none"}
  BY DEF SInv, SenderTypeOK
<1>a. /\ async \in [Entries -> AsyncSet] /\ async[p] \in AsyncSet
      /\ \A q \in Entries : async[q].pc \in {"req", "wait"} => async[q].id \in Ids
      /\ rFiles[p] \in Ids \cup {NoId}
  BY DEF ReceiverTypeOK, RecvShape
<1>u. UNCHANGED <<rRecv, rPend, rI, rMeta, rParents, walkQ, walkClosed, fill, c2, diff, diffErr,
                  rErr, rRet, metaFile>>
  BY DEF Async, recvVars, walkerVars, diffVars, retVars
<1>e. /\ \A k \in {"failed", "wait", "finish", "done"} :
           [async EXCEPT ![p].pc = k] \in [Entries -> AsyncSet]
      /\ \A k \in {"failed", "finish", "done"} : \A q \in Entries :
           [async EXCEPT ![p].pc = k][q].pc \in {"req", "wait"} => async[q].id \in Ids
                                           /\ [async EXCEPT ![p].pc = k][q].id = async[q].id
  <2>1. \A k \in {"failed", "wait", "finish", "done"} : [async[p] EXCEPT !.pc = k] \in AsyncSet
    BY <1>a DEF AsyncSet
  <2> QED  BY <1>a, <2>1
(* Any step of it keeps the types if what it makes of the goroutine, of    *)
(* the pipes and of the file is well-typed.                                *)
<1>q. ASSUME async' \in [Entries -> AsyncSet],
             \A q \in Entries : async'[q].pc \in {"req", "wait"} => async'[q].id \in Ids,
             rFiles' \in [Entries -> Ids \cup {NoId}],
             rPipes' \in [Ids -> Entries \cup {NoPath}],
             egErr' \in Causes,
             dest' \in [Entries -> [data : Seq(Chunk), meta : {"old", "src", "now"}]],
             pipe' = pipe, WireTypeOK', toR' = toR, fault' \in Faults \cup {"none"}
      PROVE  TInv'
  <2>1. ReceiverTypeOK' /\ RecvShape'
    BY <1>q, <1>u DEF ReceiverTypeOK, RecvShape
  <2>2. StatsInOrder'
    BY <1>q, <1>s, <1>u, StatsKept
  <2> QED  BY <1>q, <2>1, <2>2, SenderLeft
<1>t. /\ rFiles \in [Entries -> Ids \cup {NoId}] /\ rPipes \in [Ids -> Entries \cup {NoPath}]
      /\ egErr \in Causes
      /\ dest \in [Entries -> [data : Seq(Chunk), meta : {"old", "src", "now"}]]
  BY DEF ReceiverTypeOK
<1>w. ASSUME UNCHANGED wireVars PROVE WireTypeOK' /\ toR' = toR
  BY <1>w, <1>s, QuietTypes DEF wireVars
<1>x. ASSUME NEW k \in {"failed", "wait", "finish", "done"}, k = "wait" => async[p].id \in Ids,
             async' = [async EXCEPT ![p].pc = k]
      PROVE  /\ async' \in [Entries -> AsyncSet]
             /\ \A q \in Entries : async'[q].pc \in {"req", "wait"} => async'[q].id \in Ids
  <2>1. async' \in [Entries -> AsyncSet]
    BY <1>e, <1>x
  <2>2. \A q \in Entries : async'[q].id = async[q].id
    BY <1>a, <1>x DEF AsyncSet
  <2>3. \A q \in Entries : q # p => async'[q] = async[q]
    BY <1>a, <1>x
  <2>4. async'[p].pc = k
    BY <1>a, <1>x DEF AsyncSet
  <2> QED  BY <1>a, <1>x, <2>1, <2>2, <2>3, <2>4
<1>1. CASE AsyncRegisters(p)
  <2>1. UNCHANGED <<fault, pipe, dest, wireVars>>
    BY <1>1 DEF AsyncRegisters
  <2>2. CASE rFiles[p] = NoId
    <3>1. /\ async' = [async EXCEPT ![p].pc = "failed"] /\ egErr' \in Causes
          /\ UNCHANGED <<rFiles, rPipes>>
      BY <1>1, <1>c, <2>2 DEF AsyncRegisters, AsyncFails, reqVars
    <3> QED  BY <1>q, <1>t, <1>f, <1>w, <1>x, <2>1, <3>1
  <2>3. CASE rFiles[p] # NoId
    <3> DEFINE asking == [pc |-> "req", id |-> rFiles[p]]
    <3>1. rFiles[p] \in Ids /\ asking \in AsyncSet
      BY <1>a, <2>3 DEF AsyncSet
    <3>2. /\ rFiles' = [rFiles EXCEPT ![p] = NoId]
          /\ rPipes' = [rPipes EXCEPT ![rFiles[p]] = p]
          /\ async' = [async EXCEPT ![p] = asking]
          /\ egErr' = egErr
      BY <1>1, <2>3 DEF AsyncRegisters
    <3>3. asking.id = rFiles[p]
      OBVIOUS
    <3> HIDE DEF asking
    <3>4. /\ rFiles' \in [Entries -> Ids \cup {NoId}] /\ rPipes' \in [Ids -> Entries \cup {NoPath}]
          /\ async' \in [Entries -> AsyncSet]
      BY <1>a, <1>t, <3>1, <3>2
    <3>5. \A q \in Entries : async'[q] = async[q] \/ async'[q] = asking
      BY <1>a, <3>2
    <3>6. \A q \in Entries : async'[q].pc \in {"req", "wait"} => async'[q].id \in Ids
      BY <1>a, <3>1, <3>3, <3>5
    <3> QED  BY <1>q, <1>t, <1>f, <1>w, <2>1, <3>2, <3>4, <3>6
  <2> QED  BY <2>2, <2>3
<1>2. CASE AsyncSendsReq(p)
  <2>1. async[p].id \in Ids /\ ReqPacket(async[p].id) \in Packets
    BY <1>2, <1>a, PacketsBuilt DEF AsyncSendsReq
  <2>2. WireTypeOK' /\ toR' = toR
    BY <1>2, <1>s, <2>1, SendTypes, QuietTypes DEF AsyncSendsReq, SendToSender, SendFails, wireVars
  <2>3. /\ \/ async' = [async EXCEPT ![p].pc = "wait"]
           \/ async' = [async EXCEPT ![p].pc = "failed"]
        /\ egErr' \in Causes
        /\ UNCHANGED <<fault, rFiles, rPipes, pipe, dest>>
    BY <1>2, <1>c, <1>t DEF AsyncSendsReq, AsyncFails, reqVars
  <2> QED  BY <1>q, <1>t, <1>f, <1>x, <2>1, <2>2, <2>3
<1>3. CASE AsyncWaits(p)
  <2>1. /\ \/ async' = [async EXCEPT ![p].pc = "finish"]
           \/ async' = [async EXCEPT ![p].pc = "failed"]
        /\ egErr' \in Causes
        /\ rPipes' = rPipes \/ rPipes' = [rPipes EXCEPT ![async[p].id] = NoPath]
        /\ UNCHANGED <<fault, rFiles, pipe, dest, wireVars>>
    BY <1>3, <1>c, <1>t DEF AsyncWaits, AsyncFails
  <2>2. rPipes' \in [Ids -> Entries \cup {NoPath}]
    BY <1>t, <2>1
  <2> QED  BY <1>q, <1>t, <1>f, <1>w, <1>x, <2>1, <2>2
<1>4. CASE AsyncFinishes(p)
  <2>1. /\ \/ async' = [async EXCEPT ![p].pc = "done"]
           \/ async' = [async EXCEPT ![p].pc = "failed"]
        /\ egErr' \in Causes
        /\ dest' = dest \/ dest' = [dest EXCEPT ![p].meta = "src"]
        /\ fault' \in Faults \cup {"none"}
        /\ UNCHANGED <<rFiles, rPipes, pipe, wireVars>>
    BY <1>4, <1>c, <1>t, <1>f DEF AsyncFinishes, AsyncFails, Fault, reqVars
  <2>2. dest' \in [Entries -> [data : Seq(Chunk), meta : {"old", "src", "now"}]]
    BY <1>t, <2>1
  <2> QED  BY <1>q, <1>t, <1>w, <1>x, <2>1, <2>2
<1> QED  BY <1>1, <1>2, <1>3, <1>4 DEF Async

-----------------------------------------------------------------------------
LEMMA InitTypes == Init => TInv
<1> SUFFICES ASSUME Init PROVE TInv
  OBVIOUS
<1>1. ReceiverTypeOK
  <2>1. \A p \in Entries : Synced(p) \in [data : Seq(Chunk), meta : {"old", "src", "now"}]
    <3> SUFFICES ASSUME NEW p \in Entries
                 PROVE  Synced(p) \in [data : Seq(Chunk), meta : {"old", "src", "now"}]
      OBVIOUS
    <3>1. Chunks[p] \in Nat /\ p \in Nat
      BY NatFacts, WireAssumption DEF WireAssumption
    <3>2. Content(p) \in [1..Chunks[p] -> Chunk]
      BY <3>1 DEF Content, Chunk
    <3>3. Content(p) \in Seq(Chunk) /\ <<>> \in Seq(Chunk)
      BY <3>1, <3>2, SeqDef, EmptySeq
    <3> QED  BY <3>3 DEF Synced
  <2>2. [data |-> <<>>, meta |-> "old"] \in [data : Seq(Chunk), meta : {"old", "src", "now"}]
    BY EmptySeq
  <2>3. dest \in [Entries -> [data : Seq(Chunk), meta : {"old", "src", "now"}]]
    BY <2>1, <2>2 DEF Init, ReceiverInit
  <2>4. NoAsync \in AsyncSet /\ "none" \in Causes
    BY DEF NoAsync, AsyncSet, Causes
  <2>5. /\ rPend \in Seq(Entries) /\ rMeta \in Seq(Entries) /\ rParents \in Seq(Entries)
        /\ walkQ \in Seq(Entries) /\ c2 \in Seq(Entries) /\ metaFile \in Seq(Entries)
    BY EmptySeq DEF Init, ReceiverInit
  <2>6. /\ rFiles \in [Entries -> Ids \cup {NoId}] /\ rPipes \in [Ids -> Entries \cup {NoPath}]
        /\ async \in [Entries -> AsyncSet] /\ pipe \in [Entries -> {"open", "closed", "failed"}]
    BY <2>4 DEF Init, ReceiverInit
  <2> QED  BY <2>3, <2>4, <2>5, <2>6, NatFacts DEF Init, ReceiverInit, ReceiverTypeOK
<1>2. RecvShape
  BY DEF Init, ReceiverInit, RecvShape, NoAsync
<1>3. StatsInOrder
  <2>1. Len(toR) = 0 /\ rI = 0 /\ sNext = 1
    BY EmptySeq DEF Init, WireInit, ReceiverInit, SenderInit
  <2> QED  BY <2>1 DEF StatsInOrder
<1> QED  BY <1>1, <1>2, <1>3, SenderInitTypes DEF TInv

LEMMA StepTypes == TInv /\ [Next]_vars => TInv'
<1> SUFFICES ASSUME TInv, [Next]_vars PROVE TInv'
  OBVIOUS
<1>1. CASE SenderStep /\ UNCHANGED receiverVars
  <2>1. SInv' /\ StatsInOrder'
    BY <1>1, SenderTypes, SenderStats, NatFacts DEF TInv, ReceiverTypeOK, receiverVars, recvVars
  <2>2. ReceiverTypeOK' /\ RecvShape'
    BY <1>1 DEF TInv, ReceiverTypeOK, RecvShape, receiverVars, recvVars, reqVars, walkerVars,
                diffVars, diskVars, retVars
  <2> QED  BY <2>1, <2>2 DEF TInv
<1>2. CASE ReceiverStep /\ UNCHANGED senderVars
  <2>1. CASE ReceiveReturns
    <3>1. WireTypeOK' /\ StatsInOrder'
      BY <1>2, <2>1, StatsKept
         DEF ReceiveReturns, TInv, SInv, WireTypeOK, recvVars, senderVars, walkVars
    <3>2. ReceiverTypeOK' /\ RecvShape'
      BY <2>1 DEF ReceiveReturns, TInv, ReceiverTypeOK, RecvShape, recvVars, reqVars, walkerVars,
                  diffVars, diskVars
    <3> QED  BY <1>2, <2>1, <3>1, <3>2, SenderLeft DEF TInv, SInv, SenderTypeOK, ReceiveReturns
  <2>2. ASSUME NEW p \in Entries, Async(p) PROVE TInv'
    BY <1>2, <2>2, AsyncTypes
  <2> QED  BY <1>2, <2>1, <2>2, RecvTypes, FillTypes, DiffTypes DEF ReceiverStep
<1>3. CASE ConnFails
  <2>1. WireTypeOK' /\ StatsInOrder'
    BY <1>3, StatsKept DEF ConnFails, TInv, SInv, WireTypeOK, receiverVars, recvVars, senderVars, walkVars
  <2>2. ReceiverTypeOK' /\ RecvShape'
    BY <1>3 DEF ConnFails, TInv, ReceiverTypeOK, RecvShape, receiverVars, recvVars, reqVars,
                walkerVars, diffVars, diskVars, retVars
  <2> QED  BY <1>3, <2>1, <2>2, SenderLeft DEF ConnFails, Fault, TInv
<1>4. CASE UNCHANGED vars
  <2>1. WireTypeOK' /\ StatsInOrder'
    BY <1>4, StatsKept DEF vars, TInv, SInv, WireTypeOK, wireVars, receiverVars, recvVars, senderVars, walkVars
  <2>2. ReceiverTypeOK' /\ RecvShape'
    BY <1>4 DEF vars, TInv, ReceiverTypeOK, RecvShape, receiverVars, recvVars, reqVars,
                walkerVars, diffVars, diskVars, retVars
  <2> QED  BY <1>4, <2>1, <2>2, SenderLeft DEF vars, TInv, SInv, SenderTypeOK
<1>5. CASE Over
  BY <1>4, <1>5 DEF Over
<1> QED  BY <1>1, <1>2, <1>3, <1>4, <1>5 DEF Next

(* The types of the two programs and of the connection: for every tree,    *)
(* any capacities, any number of workers, and whatever fails.              *)
THEOREM TypesHold == Spec => []TypeOK
<1>1. TInv => TypeOK
  BY DEF TInv, SInv, TypeOK
<1> QED  BY <1>1, InitTypes, StepTypes, PTL DEF Spec

(* The STAT packets under way are in the order of the walk, ahead of what  *)
(* the receiver has counted and behind where the walk is                   *)
(* (send.go:164-176, receive.go:251-289).                                  *)
THEOREM StatsOrdered == Spec => []StatsInOrder
<1>1. TInv => StatsInOrder
  BY DEF TInv
<1> QED  BY <1>1, InitTypes, StepTypes, PTL DEF Spec

-----------------------------------------------------------------------------
(* Why contents are never mixed up in a Transfer: the sender numbers its   *)
(* entries while it walks and the receiver numbers the STAT packets it     *)
(* gets, no number is ever sent along with a path, and yet every id means  *)
(* the same file on both sides.  A metadata transfer whose source holds    *)
(* the reserved .fsutil-metadata is excluded: there they disagree, as the  *)
(* README tells.                                                           *)

NoneSkipped == \A p \in Entries : ~Skipped(p)

(* An entry's id is its rank less one; the handle and the data carry both. *)
OwnId(h)   == h.path = h.id + 1
OwnData(m) == m.type = "DATA" => m.data = Eof \/ m.data[1] = m.id + 1

SenderIds ==
    /\ \A id \in Ids : sFiles[id] \in {NoPath, id + 1}
    /\ sRecv = "queue" => OwnId(sHandle)
    /\ \A i \in 1..Len(sPipe) : OwnId(sPipe[i])
    /\ \A w \in Workers : sWork[w].pc \in {"data", "eof"} => OwnId(sWork[w].h)

DataIds == \A i \in 1..Len(toR) : OwnData(toR[i])

(* While the receiver counts, every STAT between what it has counted and   *)
(* where the walk is, is under way.                                        *)
Counts == rRecv \in {"recv", "update"}
NoGaps ==
    Counts => \A q \in Entries : rI < q /\ q < sNext =>
                \E i \in 1..Len(toR) : toR[i] = StatPacket(q)

ReceiverIds ==
    /\ \A p \in Entries : rFiles[p] \in {NoId, p - 1}
    /\ \A id \in Ids : rPipes[id] \in {NoPath, id + 1}

GInv == TInv /\ SenderIds /\ DataIds /\ NoGaps /\ ReceiverIds /\ OwnContent

-----------------------------------------------------------------------------
(* The channel to the receiver.                                            *)
LEMMA ChannelKept ==
  ASSUME DataIds, NoGaps, UNCHANGED <<toR, rI, sNext>>, Counts' => Counts
  PROVE  DataIds' /\ NoGaps'
  BY DEF DataIds, NoGaps

LEMMA ChannelAppended ==
  ASSUME WireTypeOK, DataIds, NoGaps, UNCHANGED <<rI, sNext>>, Counts' => Counts,
         NEW m \in Packets, OwnData(m), SendToReceiver(m)
  PROVE  DataIds' /\ NoGaps'
<1>1. /\ toR \in Seq(Packets) /\ Len(toR) \in Nat /\ toR' = Append(toR, m)
  BY LenProperties DEF WireTypeOK, SendToReceiver
<1>2. /\ Len(toR') = Len(toR) + 1
      /\ \A i \in 1..Len(toR) : toR'[i] = toR[i]
      /\ toR'[Len(toR) + 1] = m
  BY <1>1, AppendFacts
<1>3. /\ \A i \in 1..Len(toR) : i \in 1..Len(toR')
      /\ \A i \in 1..Len(toR') : i \in 1..Len(toR) \/ i = Len(toR) + 1
  BY <1>1, <1>2
<1>4. DataIds'
  <2>1. \A i \in 1..Len(toR') : OwnData(toR'[i])
    BY <1>2, <1>3 DEF DataIds
  <2> QED  BY <2>1 DEF DataIds, OwnData
<1>5. NoGaps'
  <2> SUFFICES ASSUME Counts', NEW q \in Entries, rI < q, q < sNext
               PROVE  \E i \in 1..Len(toR') : toR'[i] = StatPacket(q)
    BY DEF NoGaps, StatPacket
  <2>1. PICK i \in 1..Len(toR) : toR[i] = StatPacket(q)
    BY DEF NoGaps
  <2> QED  BY <1>2, <1>3, <2>1
<1> QED  BY <1>4, <1>5

(* Taking a packet, a counted STAT excepted.                               *)
LEMMA ChannelTaken ==
  ASSUME WireTypeOK, DataIds, NoGaps, UNCHANGED <<rI, sNext>>, Counts' => Counts,
         NEW t, ReceiverGets(t), IsStat(Head(toR)) => ~Counts'
  PROVE  DataIds' /\ NoGaps'
<1>1. /\ Head(toR) = toR[1] /\ Len(toR) \in Nat /\ Len(toR') = Len(toR) - 1
      /\ \A i \in 1..Len(toR') : toR'[i] = toR[i + 1]
  BY TailFacts DEF WireTypeOK, ReceiverGets
<1>2. /\ \A i \in 1..Len(toR') : i + 1 \in 1..Len(toR)
      /\ \A i \in 1..Len(toR) : i = 1 \/ (i - 1 \in 1..Len(toR') /\ (i - 1) + 1 = i)
  BY <1>1
<1>3. DataIds'
  <2>1. \A i \in 1..Len(toR') : OwnData(toR'[i])
    BY <1>1, <1>2 DEF DataIds
  <2> QED  BY <2>1 DEF DataIds, OwnData
<1>4. NoGaps'
  <2> SUFFICES ASSUME Counts', NEW q \in Entries, rI < q, q < sNext
               PROVE  \E i \in 1..Len(toR') : toR'[i] = StatPacket(q)
    BY DEF NoGaps, StatPacket
  <2>1. PICK i \in 1..Len(toR) : toR[i] = StatPacket(q)
    BY DEF NoGaps
  <2>2. q # NoPath
    BY DEF Entries, NoPath
  <2>3. i # 1
    BY <1>1, <2>1, <2>2 DEF IsStat, StatPacket
  <2>4. i - 1 \in 1..Len(toR') /\ (i - 1) + 1 = i
    BY <1>2, <2>3
  <2>5. toR'[i - 1] = StatPacket(q)
    BY <1>1, <2>1, <2>4
  <2> QED  BY <2>4, <2>5
<1> QED  BY <1>3, <1>4

(* The next STAT is that of the entry the receiver's index stands for.     *)
LEMMA NextStat ==
  ASSUME TInv, NoGaps, RecvGetsStat
  PROVE  Head(toR).path = rI + 1
<1> DEFINE p == Head(toR).path
<1>1. /\ toR \in Seq(Packets) /\ toR # <<>> /\ IsStat(Head(toR)) /\ Counts
  BY DEF TInv, SInv, WireTypeOK, RecvGetsStat, ReceiverGets, IsStat, Counts
<1>2. Head(toR) = toR[1] /\ Head(toR) \in Packets /\ Len(toR) \in Nat /\ 1 \in 1..Len(toR)
  BY <1>1, TailFacts
<1>3. p \in Entries /\ p \in Nat /\ p <= N /\ N \in Nat /\ rI \in Nat /\ sNext \in Nat
  BY <1>1, <1>2, PacketFields, NatFacts
     DEF IsStat, Entries, TInv, ReceiverTypeOK, SInv, SenderTypeOK
<1>4. rI < p /\ p < sNext
  BY <1>1, <1>2 DEF TInv, StatsInOrder
<1> HIDE DEF p
<1>5. SUFFICES ASSUME rI + 1 < p PROVE FALSE
  BY <1>3, <1>4 DEF p
<1>6. rI + 1 \in Entries /\ rI < rI + 1 /\ rI + 1 < sNext
  BY <1>3, <1>4, <1>5 DEF Entries
<1>7. PICK i \in 1..Len(toR) : toR[i] = StatPacket(rI + 1)
  BY <1>1, <1>6 DEF NoGaps
<1>8. IsStat(toR[i]) /\ toR[i].path = rI + 1
  BY <1>3, <1>7 DEF IsStat, StatPacket, NoPath
<1>9. i # 1 /\ 1 < i
  BY <1>2, <1>3, <1>5, <1>8 DEF p
<1>10. toR[1].path < toR[i].path
  BY <1>1, <1>2, <1>8, <1>9 DEF TInv, StatsInOrder
<1> QED  BY <1>2, <1>3, <1>5, <1>8, <1>10 DEF p


-----------------------------------------------------------------------------
(* The steps of the sender.                                                *)
LEMMA WalkIds ==
  ASSUME GInv, Walk, UNCHANGED receiverVars
  PROVE  SenderIds' /\ DataIds' /\ NoGaps'
<1> USE DEF GInv, TInv, SInv
<1>r. rI' = rI /\ rRecv' = rRecv /\ Counts' = Counts
  BY DEF receiverVars, recvVars, Counts
<1>n. sNext \in Nat /\ sI \in Nat /\ N \in Nat
  BY NatFacts DEF SenderTypeOK
<1>i. UNCHANGED <<sFiles, sRecv, sHandle, sPipe, sWork>> => SenderIds'
  BY DEF SenderIds, OwnId
<1>1. CASE WalkVisit
  <2>1. sI \in Ids /\ sI + 1 = sNext
    BY <1>1, <1>n DEF WalkVisit, WalkCount, SenderTypeOK
  <2>2. \A id \in Ids : sFiles'[id] \in {NoPath, id + 1}
    BY <1>1, <2>1 DEF WalkVisit, Registered, SenderTypeOK, SenderIds
  <2>3. SenderIds'
    BY <1>1, <2>2 DEF WalkVisit, SenderIds, OwnId, pipeVars
  <2>4. DataIds' /\ NoGaps'
    BY <1>1, <1>r, ChannelKept DEF WalkVisit, wireVars
  <2> QED  BY <2>3, <2>4
<1>2. CASE WalkSendStat
  <2>0. sNext \in Entries /\ sNext # NoPath
    BY <1>2, <1>n DEF WalkSendStat, WalkCount, SenderTypeOK, Entries, NoPath
  <2>1. /\ toR \in Seq(Packets) /\ Len(toR) \in Nat /\ toR' = Append(toR, StatPacket(sNext))
        /\ StatPacket(sNext) \in Packets /\ sNext' = sNext + 1
    BY <1>2, <2>0, LenProperties, PacketsBuilt DEF WalkSendStat, SendToReceiver, WireTypeOK
  <2>2. /\ Len(toR') = Len(toR) + 1
        /\ \A i \in 1..Len(toR) : toR'[i] = toR[i]
        /\ toR'[Len(toR) + 1] = StatPacket(sNext)
    BY <2>1, AppendFacts
  <2>3. /\ \A i \in 1..Len(toR) : i \in 1..Len(toR')
        /\ \A i \in 1..Len(toR') : i \in 1..Len(toR) \/ i = Len(toR) + 1
        /\ Len(toR) + 1 \in 1..Len(toR')
    BY <2>1, <2>2
  <2>4. OwnData(StatPacket(sNext))
    BY DEF OwnData, StatPacket
  <2>5. DataIds'
    <3>1. \A i \in 1..Len(toR') : OwnData(toR'[i])
      BY <2>2, <2>3, <2>4 DEF DataIds
    <3> QED  BY <3>1 DEF DataIds, OwnData
  <2>6. NoGaps'
    <3> SUFFICES ASSUME Counts, NEW q \in Entries, rI < q, q < sNext + 1
                 PROVE  \E i \in 1..Len(toR') : toR'[i] = StatPacket(q)
      BY <1>r, <2>1 DEF NoGaps, StatPacket
    <3>1. CASE q = sNext
      BY <2>2, <2>3, <3>1
    <3>2. CASE q # sNext
      <4>1. q < sNext
        BY <1>n, <3>2, NatFacts
      <4>2. PICK i \in 1..Len(toR) : toR[i] = StatPacket(q)
        BY <4>1 DEF NoGaps
      <4> QED  BY <2>2, <2>3, <4>2
    <3> QED  BY <3>1, <3>2
  <2>7. SenderIds'
    BY <1>2, <1>i DEF WalkSendStat, pipeVars
  <2> QED  BY <2>5, <2>6, <2>7
<1>3. CASE WalkSendLast
  <2>1. OwnData(LastStat) /\ LastStat \in Packets
    BY PacketsBuilt DEF OwnData, LastStat, StatPacket
  <2>2. SenderIds'
    BY <1>3, <1>i DEF WalkSendLast, pipeVars
  <2> QED  BY <1>3, <1>r, <2>1, <2>2, ChannelAppended DEF WalkSendLast
<1>4. CASE WalkFails \/ WalkSendFails
  <2>1. SenderIds'
    BY <1>4, <1>i DEF WalkFails, WalkSendFails, pipeVars
  <2> QED  BY <1>4, <1>r, <2>1, ChannelKept DEF WalkFails, WalkSendFails, SendFails, wireVars
<1>5. CASE WalkSendErr
  <2>1. OwnData(ErrPacket(sWalkErr)) /\ ErrPacket(sWalkErr) \in Packets
    BY PacketsBuilt DEF OwnData, ErrPacket, SenderTypeOK
  <2>2. SenderIds'
    BY <1>5, <1>i DEF WalkSendErr, pipeVars
  <2> QED  BY <1>5, <1>r, <2>1, <2>2, ChannelAppended, ChannelKept DEF WalkSendErr, SendFails, wireVars
<1> QED  BY <1>1, <1>2, <1>3, <1>4, <1>5 DEF Walk

LEMMA WorkerIds ==
  ASSUME GInv, NEW w \in Workers, Worker(w), UNCHANGED receiverVars
  PROVE  SenderIds' /\ DataIds' /\ NoGaps'
<1> USE DEF GInv, TInv, SInv
<1>r. rI' = rI /\ Counts' = Counts
  BY DEF receiverVars, recvVars, Counts
<1>s. /\ sPipe \in Seq(Handles) /\ sWork \in [Workers -> WorkSet]
      /\ \A i \in 1..Len(sPipe) : OwnId(sPipe[i])
  BY DEF SenderTypeOK, SenderIds
<1>h. sWork[w].h \in Handles /\ sWork[w].pos \in Nat
  BY <1>s DEF WorkSet
<1>t. sWork[w].h.id \in Ids /\ sWork[w].h.path \in Entries \cup {NoPath} /\ sWork[w].h.path \in Nat
  BY <1>h, NatFacts DEF Handles
(* Only the worker's own state and the pipeline change.                    *)
<1>q. ASSUME UNCHANGED <<sFiles, sRecv, sHandle>>,
             \A i \in 1..Len(sPipe') : OwnId(sPipe'[i]),
             \A v \in Workers : sWork'[v].pc \in {"data", "eof"} => OwnId(sWork'[v].h)
      PROVE  SenderIds'
  BY <1>q DEF SenderIds, OwnId
<1>v. \A v \in Workers : sWork[v].pc \in {"data", "eof"} => OwnId(sWork[v].h)
  BY DEF SenderIds
<1>1. CASE WorkerTakes(w)
  <2>1. /\ Head(sPipe) = sPipe[1] /\ Len(sPipe) \in Nat /\ Len(sPipe) > 0
        /\ Len(sPipe') = Len(sPipe) - 1
        /\ \A i \in 1..Len(sPipe') : sPipe'[i] = sPipe[i + 1]
    BY <1>1, <1>s, TailFacts DEF WorkerTakes
  <2>2. /\ OwnId(Head(sPipe))
        /\ \A i \in 1..Len(sPipe') : OwnId(sPipe'[i])
    BY <1>s, <2>1
  <2>3. \A v \in Workers : sWork'[v] = sWork[v] \/ sWork'[v] = Done \/ sWork'[v] = Working(Head(sPipe))
    BY <1>1, <1>s DEF WorkerTakes
  <2>4. \A v \in Workers : sWork'[v].pc \in {"data", "eof"} => OwnId(sWork'[v].h)
    BY <1>v, <2>2, <2>3 DEF Done, Working
  <2>5. SenderIds'
    BY <1>1, <1>q, <2>2, <2>4 DEF WorkerTakes
  <2> QED  BY <1>1, <1>r, <2>5, ChannelKept DEF WorkerTakes, wireVars, walkVars
<1>2. CASE WorkerExits(w) \/ WorkerFails(w)
  <2>1. \A v \in Workers : sWork'[v] = sWork[v] \/ sWork'[v] = Done
    BY <1>2, <1>s DEF WorkerExits, WorkerFails
  <2>2. SenderIds'
    BY <1>2, <1>s, <1>q, <1>v, <2>1 DEF WorkerExits, WorkerFails, pipeVars, Done
  <2> QED  BY <1>2, <1>r, <2>2, ChannelKept DEF WorkerExits, WorkerFails, SendFails, wireVars, walkVars
<1>3. CASE WorkerOpenFails(w)
  <2>1. \A v \in Workers : sWork'[v].h = sWork[v].h /\ (sWork'[v].pc = sWork[v].pc \/ sWork[v].pc = "data")
    BY <1>3, <1>s DEF WorkerOpenFails, WorkSet
  <2>2. SenderIds'
    BY <1>3, <1>s, <1>q, <1>v, <2>1 DEF WorkerOpenFails, pipeVars
  <2> QED  BY <1>3, <1>r, <2>2, ChannelKept DEF WorkerOpenFails, wireVars, walkVars
<1>4. CASE WorkerSendsData(w)
  <2> DEFINE m == DataPacket(sWork[w].h.id, <<sWork[w].h.path, sWork[w].pos + 1>>)
  <2>0. sWork[w].pos + 1 \in Nat
    BY <1>h
  <2>1. <<sWork[w].h.path, sWork[w].pos + 1>> \in Chunk
    BY <1>t, <2>0 DEF Chunk
  <2>2. m \in Packets
    BY <1>t, <2>1, PacketsBuilt
  <2>3. OwnId(sWork[w].h)
    BY <1>4, <1>v DEF WorkerSendsData
  <2>4. OwnData(m)
    BY <2>3 DEF OwnData, OwnId, DataPacket
  <2>5. \A v \in Workers : sWork'[v].h = sWork[v].h /\ sWork'[v].pc = sWork[v].pc
    BY <1>4, <1>s DEF WorkerSendsData, WorkSet
  <2>6. SenderIds'
    BY <1>4, <1>s, <1>q, <1>v, <2>5 DEF WorkerSendsData, pipeVars
  <2>7. SendToReceiver(m) /\ sNext' = sNext
    BY <1>4 DEF WorkerSendsData, walkVars
  <2> HIDE DEF m
  <2> QED  BY <1>r, <2>2, <2>4, <2>6, <2>7, ChannelAppended
<1>5. CASE WorkerSendsEOF(w)
  <2>1. DataPacket(sWork[w].h.id, Eof) \in Packets
    BY <1>t, PacketsBuilt, NatFacts
  <2>2. OwnData(DataPacket(sWork[w].h.id, Eof))
    BY DEF OwnData, DataPacket
  <2>3. \A v \in Workers : sWork'[v] = sWork[v] \/ sWork'[v] = Idle
    BY <1>5, <1>s DEF WorkerSendsEOF
  <2>4. SenderIds'
    BY <1>5, <1>s, <1>q, <1>v, <2>3 DEF WorkerSendsEOF, pipeVars, Idle
  <2> QED  BY <1>5, <1>r, <2>1, <2>2, <2>4, ChannelAppended DEF WorkerSendsEOF, walkVars
<1> QED  BY <1>1, <1>2, <1>3, <1>4, <1>5 DEF Worker

LEMMA LoopIds ==
  ASSUME GInv, SenderLoop \/ SendReturns, UNCHANGED receiverVars
  PROVE  SenderIds' /\ DataIds' /\ NoGaps'
<1> USE DEF GInv, TInv, SInv
<1>r. rI' = rI /\ Counts' = Counts
  BY DEF receiverVars, recvVars, Counts
<1>q. ASSUME UNCHANGED <<sFiles, sHandle, sPipe, sWork>>, sRecv' = sRecv \/ sRecv' # "queue"
      PROVE  SenderIds'
  BY <1>q DEF SenderIds, OwnId
<1>1. CASE LoopCheck \/ LoopGetsErr \/ LoopGetsFin \/ LoopRecvFails \/ SendReturns
  <2>1. SenderIds'
    BY <1>1, <1>q DEF LoopCheck, LoopGetsErr, LoopGetsFin, LoopRecvFails, SendReturns, LoopEnds, pipeVars
  <2>2. toR' = toR /\ sNext' = sNext
    BY <1>1 DEF LoopCheck, LoopGetsErr, LoopGetsFin, LoopRecvFails, SendReturns, SenderGets,
                RecvFails, wireVars, walkVars
  <2> QED  BY <1>r, <2>1, <2>2, ChannelKept
<1>2. CASE LoopGetsReq
  <2>1. Head(toS).id \in Ids
    BY <1>2, GetTypes, PacketFields DEF LoopGetsReq
  <2> DEFINE id == Head(toS).id
  <2>2. \/ /\ sRecv' = "done" /\ UNCHANGED <<sFiles, sHandle>>
        \/ /\ sFiles[id] # NoPath
           /\ sFiles' = [sFiles EXCEPT ![id] = NoPath]
           /\ sHandle' = Handle(id, sFiles[id])
    BY <1>2 DEF LoopGetsReq, LoopEnds
  <2>3. sFiles[id] # NoPath => OwnId(Handle(id, sFiles[id]))
    BY <2>1 DEF SenderIds, OwnId, Handle
  <2>4. UNCHANGED <<sPipe, sWork, toR, sNext>>
    BY <1>2 DEF LoopGetsReq, SenderGets, walkVars
  <2> HIDE DEF id
  <2>5. \A i \in Ids : sFiles'[i] \in {NoPath, i + 1}
    BY <2>2 DEF SenderIds, SenderTypeOK
  <2>6. sRecv' = "queue" => OwnId(sHandle')
    BY <2>2, <2>3
  <2>7. SenderIds'
    BY <2>4, <2>5, <2>6 DEF SenderIds, OwnId
  <2> QED  BY <1>r, <2>4, <2>7, ChannelKept
<1>3. CASE LoopQueues
  <2>1. sPipe \in Seq(Handles) /\ sHandle \in Handles /\ OwnId(sHandle) /\ sPipe' = Append(sPipe, sHandle)
    BY <1>3 DEF LoopQueues, SenderTypeOK, SenderIds
  <2>2. /\ Len(sPipe) \in Nat /\ Len(sPipe') = Len(sPipe) + 1
        /\ \A i \in 1..Len(sPipe) : sPipe'[i] = sPipe[i]
        /\ sPipe'[Len(sPipe) + 1] = sHandle
    BY <2>1, AppendFacts, LenProperties
  <2>3. \A i \in 1..Len(sPipe') : OwnId(sPipe'[i])
    <3> TAKE i \in 1..Len(sPipe')
    <3>1. i \in 1..Len(sPipe) \/ i = Len(sPipe) + 1
      BY <2>2
    <3> QED  BY <2>1, <2>2, <3>1 DEF SenderIds
  <2>4. SenderIds'
    BY <1>3, <2>3 DEF LoopQueues, SenderIds, OwnId
  <2> QED  BY <1>3, <1>r, <2>4, ChannelKept DEF LoopQueues, wireVars, walkVars
<1>4. CASE LoopSendsFin
  <2>1. OwnData(FinPacket) /\ FinPacket \in Packets
    BY PacketsBuilt DEF OwnData, FinPacket
  <2>2. SenderIds'
    BY <1>4, <1>q DEF LoopSendsFin, LoopEnds
  <2> QED  BY <1>4, <1>r, <2>1, <2>2, ChannelAppended, ChannelKept
              DEF LoopSendsFin, LoopEnds, SendFails, wireVars, walkVars
<1> QED  BY <1>1, <1>2, <1>3, <1>4 DEF SenderLoop


-----------------------------------------------------------------------------
(* The steps of the receiver.                                              *)
LEMMA SenderIdsLeft ==
  ASSUME SenderIds, UNCHANGED senderVars
  PROVE  SenderIds'
  BY DEF SenderIds, OwnId, senderVars, pipeVars

LEMMA ReceiverIdsLeft ==
  ASSUME ReceiverIds, OwnContent, UNCHANGED <<rFiles, rPipes, dest>>
  PROVE  ReceiverIds' /\ OwnContent'
  BY DEF ReceiverIds, OwnContent

(* A counted STAT: the id is the rank of its entry less one.               *)
LEMMA StatIds ==
  ASSUME NoneSkipped, GInv, RecvGetsStat, UNCHANGED senderVars
  PROVE  DataIds' /\ NoGaps' /\ ReceiverIds' /\ OwnContent'
<1> DEFINE p == Head(toR).path
<1>s. sNext' = sNext
  BY DEF senderVars, walkVars
<1>1. /\ WireTypeOK /\ toR \in Seq(Packets) /\ toR # <<>> /\ ReceiverGets("STAT")
      /\ IsStat(Head(toR)) /\ Counts
  BY DEF GInv, TInv, SInv, WireTypeOK, RecvGetsStat, ReceiverGets, IsStat, Counts
<1>2. /\ Head(toR) = toR[1] /\ Head(toR) \in Packets
      /\ Len(toR) \in Nat /\ Len(toR') = Len(toR) - 1
      /\ \A i \in 1..Len(toR') : toR'[i] = toR[i + 1]
  BY <1>1, TailFacts DEF ReceiverGets
<1>3. p \in Entries /\ p \in Nat
  BY <1>1, <1>2, PacketFields, NatFacts DEF IsStat
<1>4. p = rI + 1 /\ rI \in Nat /\ sNext \in Nat /\ ~Skipped(p) /\ rI \in Ids
  <2>1. rI \in Nat /\ sNext \in Nat /\ rI \in Ids
    BY NatFacts DEF GInv, TInv, SInv, SenderTypeOK, ReceiverTypeOK
  <2> QED  BY <1>3, <2>1, NextStat DEF GInv, NoneSkipped
<1>5. /\ rI' = rI + 1
      /\ rFiles' = Requestable(rFiles, p, rI)
      /\ UNCHANGED <<rPipes, diskVars>>
  BY <1>4 DEF RecvGetsStat, NextIndex
<1> HIDE DEF p
<1>6. ReceiverIds'
  <2>1. rFiles \in [Entries -> Ids \cup {NoId}] /\ \A q \in Entries : rFiles[q] \in {NoId, q - 1}
    BY DEF GInv, ReceiverIds, TInv, ReceiverTypeOK
  <2>2. rI = p - 1
    BY <1>4
  <2>3. \A q \in Entries : rFiles'[q] \in {NoId, q - 1}
    BY <1>3, <1>5, <2>1, <2>2 DEF Requestable
  <2> QED  BY <1>5, <2>3 DEF GInv, ReceiverIds
<1>7. OwnContent'
  BY <1>5 DEF GInv, OwnContent, diskVars
<1>8. \A i \in 1..Len(toR') : i + 1 \in 1..Len(toR)
  BY <1>2
<1>9. DataIds'
  <2>1. \A i \in 1..Len(toR') : OwnData(toR'[i])
    BY <1>2, <1>8 DEF GInv, DataIds
  <2> QED  BY <2>1 DEF DataIds, OwnData
<1>10. NoGaps'
  <2> SUFFICES ASSUME NEW q \in Entries, rI + 1 < q, q < sNext
               PROVE  \E i \in 1..Len(toR') : toR'[i] = StatPacket(q)
    BY <1>s, <1>5 DEF NoGaps, StatPacket
  <2>0. q \in Nat /\ rI < q
    BY <1>4, NatFacts
  <2>1. PICK i \in 1..Len(toR) : toR[i] = StatPacket(q)
    BY <1>1, <2>0 DEF GInv, NoGaps
  <2>2. i # 1
    BY <1>2, <1>4, <2>0, <2>1 DEF p, StatPacket
  <2>3. i - 1 \in 1..Len(toR') /\ (i - 1) + 1 = i
    BY <1>2, <2>2
  <2>4. toR'[i - 1] = StatPacket(q)
    BY <1>2, <2>1, <2>3
  <2> QED  BY <2>3, <2>4
<1> QED  BY <1>6, <1>7, <1>9, <1>10

(* DATA: it is written to the file it was read from.                       *)
LEMMA GotDataIds ==
  ASSUME GInv, RecvGetsData, UNCHANGED senderVars
  PROVE  DataIds' /\ NoGaps' /\ ReceiverIds' /\ OwnContent'
<1> DEFINE m == Head(toR)
<1>s. sNext' = sNext
  BY DEF senderVars, walkVars
<1>1. /\ WireTypeOK /\ toR \in Seq(Packets) /\ toR # <<>> /\ ReceiverGets("DATA")
      /\ m.type = "DATA" /\ Counts
  BY DEF GInv, TInv, SInv, WireTypeOK, RecvGetsData, ReceiverGets, Counts
<1>2. m = toR[1] /\ m \in Packets /\ Len(toR) \in Nat /\ 1 \in 1..Len(toR)
  BY <1>1, TailFacts
<1>3. m.id \in Ids /\ m.data \in Chunk /\ OwnData(m)
  BY <1>1, <1>2, PacketFields DEF GInv, DataIds
<1>4. DataIds' /\ NoGaps'
  <2>1. ~IsStat(m) /\ UNCHANGED rI
    BY <1>1 DEF IsStat, RecvGetsData
  <2> QED  BY <1>1, <1>s, <2>1, ChannelTaken DEF GInv
<1>5. ReceiverIds'
  BY DEF GInv, ReceiverIds, RecvGetsData, reqVars
<1>6. OwnContent'
  <2> DEFINE p == rPipes[m.id]
  <2>1. \/ dest' = dest
        \/ /\ p # NoPath /\ m.data # Eof
           /\ dest' = [dest EXCEPT ![p] = Written(dest[p], m.data)]
    BY DEF RecvGetsData
  <2>2. CASE dest' = dest
    BY <2>2 DEF GInv, OwnContent
  <2>3. CASE /\ p # NoPath /\ m.data # Eof
             /\ dest' = [dest EXCEPT ![p] = Written(dest[p], m.data)]
    <3>1. p \in Entries /\ p = m.id + 1
      BY <1>3, <2>3 DEF GInv, ReceiverIds, TInv, ReceiverTypeOK
    <3>2. m.data[1] = p
      BY <1>1, <1>3, <2>3, <3>1 DEF OwnData
    <3>3. dest \in [Entries -> [data : Seq(Chunk), meta : {"old", "src", "now"}]]
      BY DEF GInv, TInv, ReceiverTypeOK
    <3> HIDE DEF p, m
    <3>4. dest[p].data \in Seq(Chunk) /\ Len(dest[p].data) \in Nat
      BY <3>1, <3>3, LenProperties
    <3>5. /\ dest'[p].data = Append(dest[p].data, m.data)
          /\ \A q \in Entries : q # p => dest'[q] = dest[q]
      BY <2>3, <3>1, <3>3 DEF Written
    <3>6. /\ Len(dest'[p].data) = Len(dest[p].data) + 1
          /\ \A k \in 1..Len(dest[p].data) : dest'[p].data[k] = dest[p].data[k]
          /\ dest'[p].data[Len(dest[p].data) + 1] = m.data
      BY <1>3, <3>4, <3>5, AppendFacts
    <3>7. \A k \in 1..Len(dest'[p].data) : dest'[p].data[k][1] = p
      <4> TAKE k \in 1..Len(dest'[p].data)
      <4>1. k \in 1..Len(dest[p].data) \/ k = Len(dest[p].data) + 1
        BY <3>4, <3>6
      <4> QED  BY <3>1, <3>2, <3>6, <4>1 DEF GInv, OwnContent
    <3>8. \A q \in Entries : q # p => \A k \in 1..Len(dest'[q].data) : dest'[q].data[k][1] = q
      BY <3>5 DEF GInv, OwnContent
    <3> QED  BY <3>7, <3>8 DEF OwnContent
  <2> QED  BY <2>1, <2>2, <2>3
<1> QED  BY <1>4, <1>5, <1>6

LEMMA ReceiverLoopIds ==
  ASSUME NoneSkipped, GInv, ReceiverLoop, UNCHANGED senderVars
  PROVE  DataIds' /\ NoGaps' /\ ReceiverIds' /\ OwnContent'
<1> USE DEF GInv
<1>s. sNext' = sNext /\ WireTypeOK
  BY DEF senderVars, walkVars, TInv, SInv
<1>1. CASE RecvGetsErr \/ RecvGetsLast \/ RecvGetsFin \/ RecvDrains
  <2>1. UNCHANGED <<rI, rFiles, rPipes, dest>>
    BY <1>1 DEF RecvGetsErr, RecvGetsLast, RecvGetsFin, RecvDrains,
                receiverVars, recvVars, reqVars, diskVars
  <2>2. PICK t : ReceiverGets(t)
    BY <1>1 DEF RecvGetsErr, RecvGetsLast, RecvGetsFin, RecvDrains
  <2>3. IsStat(Head(toR)) => ~Counts'
    <3>1. RecvDrains \/ ~IsStat(Head(toR))
      BY <1>1 DEF RecvGetsErr, RecvGetsLast, RecvGetsFin, RecvDrains, ReceiverGets, IsStat
    <3> QED  BY <3>1 DEF RecvDrains, receiverVars, recvVars, Counts
  <2>4. Counts' => Counts
    BY <1>1 DEF RecvGetsErr, RecvGetsLast, RecvGetsFin, RecvDrains, RecvEnds,
                receiverVars, recvVars, Counts
  <2>5. DataIds' /\ NoGaps'
    BY <1>s, <2>1, <2>2, <2>3, <2>4, ChannelTaken
  <2> QED  BY <2>1, <2>5, ReceiverIdsLeft
<1>2. CASE RecvUpdates \/ RecvEOF \/ RecvLoopFails
  <2>1. UNCHANGED <<toR, rI, rFiles, rPipes, dest>> /\ (Counts' => Counts)
    BY <1>2 DEF RecvUpdates, RecvEOF, RecvLoopFails, RecvEnds, ReceiverGetsEOF, RecvFails,
                wireVars, reqVars, diskVars, Counts
  <2> QED  BY <1>s, <2>1, ChannelKept, ReceiverIdsLeft
<1> QED  BY <1>1, <1>2, StatIds, GotDataIds DEF ReceiverLoop

(* The steps that leave the channel to the receiver and its counting alone. *)
LEMMA ElsewhereIds ==
  ASSUME GInv, UNCHANGED senderVars, UNCHANGED <<toR, rRecv, rI>>
  PROVE  DataIds' /\ NoGaps'
<1>1. sNext' = sNext /\ (Counts' => Counts)
  BY DEF senderVars, walkVars, Counts
<1> QED  BY <1>1, ChannelKept DEF GInv

LEMMA FillDiffIds ==
  ASSUME GInv, Fill \/ Diff
  PROVE  /\ UNCHANGED <<toR, rRecv, rI>>
         /\ ReceiverIds' /\ OwnContent'
<1>1. UNCHANGED <<toR, rRecv, rI, rFiles, rPipes>>
  BY DEF Fill, Diff, DiffApplies, DiffSendsFin, DiffSendsErr, SendToSender, SendFails,
         wireVars, recvVars, reqVars
<1>2. CASE dest' = dest
  BY <1>1, <1>2, ReceiverIdsLeft DEF GInv
<1>3. CASE dest' # dest
  <2>1. PICK p \in Entries : dest' = [dest EXCEPT ![p] = Created]
    <3>1. DiffNext
      BY <1>3 DEF Fill, Diff, DiffApplies, DiffCanceled, DiffJoins, DiffWaits, DiffSendsFin,
                  DiffSendsErr, diskVars
    <3>2. Head(c2) \in Entries
      BY <3>1, TailFacts DEF DiffNext, GInv, TInv, ReceiverTypeOK
    <3> QED  BY <1>3, <3>1, <3>2 DEF DiffNext, HandleChange
  <2>2. dest \in [Entries -> [data : Seq(Chunk), meta : {"old", "src", "now"}]]
    BY DEF GInv, TInv, ReceiverTypeOK
  <2>3. \A q \in Entries : dest'[q] = dest[q] \/ (dest'[q].data = <<>> /\ Len(dest'[q].data) = 0)
    BY <2>1, <2>2, EmptySeq DEF Created
  <2>4. OwnContent'
    BY <2>3 DEF GInv, OwnContent
  <2>5. ReceiverIds'
    BY <1>1 DEF GInv, ReceiverIds
  <2> QED  BY <1>1, <2>4, <2>5
<1> QED  BY <1>2, <1>3

LEMMA AsyncIds ==
  ASSUME GInv, NEW p \in Entries, Async(p)
  PROVE  /\ UNCHANGED <<toR, rRecv, rI>>
         /\ ReceiverIds' /\ OwnContent'
<1>t. /\ rFiles \in [Entries -> Ids \cup {NoId}] /\ rPipes \in [Ids -> Entries \cup {NoPath}]
      /\ dest \in [Entries -> [data : Seq(Chunk), meta : {"old", "src", "now"}]]
      /\ p \in Nat
  BY NatFacts DEF GInv, TInv, ReceiverTypeOK
<1>i. /\ \A q \in Entries : rFiles[q] \in {NoId, q - 1}
      /\ \A id \in Ids : rPipes[id] \in {NoPath, id + 1}
  BY DEF GInv, ReceiverIds
<1>1. UNCHANGED <<toR, rRecv, rI>>
  BY DEF Async, AsyncRegisters, AsyncSendsReq, AsyncWaits, AsyncFinishes, SendToSender, SendFails,
         wireVars, recvVars
<1>2. OwnContent'
  <2>1. dest' = dest \/ dest' = [dest EXCEPT ![p].meta = "src"]
    BY DEF Async, AsyncRegisters, AsyncSendsReq, AsyncWaits, AsyncFinishes
  <2>2. \A q \in Entries : dest'[q] = dest[q] \/ dest'[q] = [dest[q] EXCEPT !.meta = "src"]
    BY <1>t, <2>1
  <2>3. \A q \in Entries : [dest[q] EXCEPT !.meta = "src"].data = dest[q].data
    BY <1>t
  <2>4. \A q \in Entries : dest'[q].data = dest[q].data
    BY <2>2, <2>3
  <2> QED  BY <2>4 DEF GInv, OwnContent
<1>3. ReceiverIds'
  <2>1. CASE AsyncRegisters(p)
    <3>1. CASE UNCHANGED reqVars
      BY <3>1 DEF GInv, ReceiverIds, reqVars
    <3>2. CASE /\ rFiles[p] # NoId
               /\ rFiles' = [rFiles EXCEPT ![p] = NoId]
               /\ rPipes' = [rPipes EXCEPT ![rFiles[p]] = p]
      <4>1. rFiles[p] = p - 1 /\ p = (p - 1) + 1
        BY <1>t, <1>i, <3>2
      <4>2. \A q \in Entries : rFiles'[q] \in {NoId, q - 1}
        BY <1>t, <1>i, <3>2
      <4>3. \A id \in Ids : rPipes'[id] \in {NoPath, id + 1}
        BY <1>t, <1>i, <3>2, <4>1
      <4> QED  BY <4>2, <4>3 DEF ReceiverIds
    <3> QED  BY <2>1, <3>1, <3>2 DEF AsyncRegisters
  <2>2. CASE AsyncSendsReq(p) \/ AsyncFinishes(p)
    BY <2>2 DEF AsyncSendsReq, AsyncFinishes, reqVars, GInv, ReceiverIds
  <2>3. CASE AsyncWaits(p)
    <3>1. rFiles' = rFiles /\ \A id \in Ids : rPipes'[id] \in {rPipes[id], NoPath}
      BY <1>t, <2>3 DEF AsyncWaits
    <3> QED  BY <1>i, <3>1 DEF ReceiverIds
  <2> QED  BY <2>1, <2>2, <2>3 DEF Async
<1> QED  BY <1>1, <1>2, <1>3

-----------------------------------------------------------------------------
LEMMA InitIds == Init => GInv
<1> SUFFICES ASSUME Init PROVE GInv
  OBVIOUS
<1>1. Len(toR) = 0 /\ Len(sPipe) = 0 /\ rI = 0 /\ sNext = 1
  BY EmptySeq DEF Init, WireInit, SenderInit, ReceiverInit
<1>2. SenderIds
  BY <1>1 DEF Init, SenderInit, SenderIds, Idle
<1>3. DataIds
  BY <1>1 DEF DataIds
<1>4. NoGaps
  <2>1. \A q \in Entries : ~(0 < q /\ q < 1)
    BY NatFacts
  <2> QED  BY <1>1, <2>1 DEF NoGaps
<1>5. ReceiverIds
  BY DEF Init, ReceiverInit, ReceiverIds
<1>6. OwnContent
  <2> SUFFICES ASSUME NEW p \in Entries, NEW k \in 1..Len(dest[p].data)
               PROVE  dest[p].data[k][1] = p
    BY DEF OwnContent
  <2>1. dest[p].data = <<>> \/ dest[p].data = Content(p)
    BY DEF Init, ReceiverInit, Synced
  <2>2. dest[p].data # <<>>
    BY EmptySeq
  <2>3. Chunks[p] \in Nat
    BY WireAssumption DEF WireAssumption
  <2>4. DOMAIN Content(p) = 1..Chunks[p] /\ \A j \in 1..Chunks[p] : Content(p)[j] = <<p, j>>
    BY DEF Content
  <2>5. Content(p) \in Seq(Chunk)
    <3>1. p \in Nat
      BY NatFacts
    <3>2. Content(p) \in [1..Chunks[p] -> Chunk]
      BY <2>3, <3>1 DEF Content, Chunk
    <3> QED  BY <2>3, <3>2, SeqDef
  <2>6. Len(Content(p)) = Chunks[p]
    BY <2>3, <2>4, <2>5, LenProperties
  <2> QED  BY <2>1, <2>2, <2>4, <2>6
<1> QED  BY <1>2, <1>3, <1>4, <1>5, <1>6, InitTypes DEF GInv

LEMMA StepIds ==
  ASSUME NoneSkipped, GInv, [Next]_vars
  PROVE  GInv'
<1>0. TInv'
  BY StepTypes DEF GInv
<1>1. CASE SenderStep /\ UNCHANGED receiverVars
  <2>1. SenderIds' /\ DataIds' /\ NoGaps'
    BY <1>1, WalkIds, WorkerIds, LoopIds DEF SenderStep
  <2>2. UNCHANGED <<rFiles, rPipes, dest>>
    BY <1>1 DEF receiverVars, reqVars, diskVars
  <2>3. ReceiverIds' /\ OwnContent'
    BY <2>2, ReceiverIdsLeft DEF GInv
  <2> QED  BY <1>0, <2>1, <2>3 DEF GInv
<1>2. CASE ReceiverStep /\ UNCHANGED senderVars
  <2>1. SenderIds'
    BY <1>2, SenderIdsLeft DEF GInv
  <2>2. CASE ReceiverLoop
    BY <1>0, <1>2, <2>1, <2>2, ReceiverLoopIds DEF GInv
  <2>3. CASE Fill \/ Diff
    BY <1>0, <1>2, <2>1, <2>3, FillDiffIds, ElsewhereIds DEF GInv
  <2>4. ASSUME NEW p \in Entries, Async(p) PROVE GInv'
    BY <1>0, <1>2, <2>1, <2>4, AsyncIds, ElsewhereIds DEF GInv
  <2>5. CASE ReceiveReturns
    <3>1. UNCHANGED <<toR, rRecv, rI, rFiles, rPipes, dest>>
      BY <2>5 DEF ReceiveReturns, recvVars, reqVars, diskVars
    <3> QED  BY <1>0, <1>2, <2>1, <3>1, ElsewhereIds, ReceiverIdsLeft DEF GInv
  <2> QED  BY <1>2, <2>2, <2>3, <2>4, <2>5 DEF ReceiverStep
<1>3. CASE ConnFails \/ UNCHANGED vars
  <2>1. UNCHANGED <<toR, rRecv, rI, rFiles, rPipes, dest>> /\ UNCHANGED senderVars
    BY <1>3 DEF ConnFails, vars, wireVars, receiverVars, recvVars, reqVars, diskVars
  <2> QED  BY <1>0, <2>1, SenderIdsLeft, ElsewhereIds, ReceiverIdsLeft DEF GInv
<1> QED  BY <1>1, <1>2, <1>3 DEF Next, Over

(* What arrives in a file was read from that file, for every tree, any     *)
(* number of workers, any capacities and whatever fails, unless a metadata *)
(* transfer carries an entry of the reserved name: the two sides' separate *)
(* counts of the STAT sequence agree (send.go:170-175;                     *)
(* receive.go:284-289, 326-341).                                           *)
THEOREM OwnContentHolds ==
  ASSUME NoneSkipped
  PROVE  Spec => []OwnContent
<1>1. Init => GInv
  BY InitIds
<1>2. GInv /\ [Next]_vars => GInv'
  BY StepIds
<1>3. GInv => OwnContent
  BY DEF GInv
<1> QED  BY <1>1, <1>2, <1>3, PTL DEF Spec
=============================================================================
