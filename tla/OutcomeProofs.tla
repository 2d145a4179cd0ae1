---------------------------- MODULE OutcomeProofs ----------------------------
(***************************************************************************)
(* How a Transfer ends: that an error names its cause, that only a failure *)
(* leads to one, that success means that everything was carried, and that  *)
(* the two programs implement Sync.                                        *)
(***************************************************************************)
EXTENDS DeliveryProofs

-----------------------------------------------------------------------------
(* Where the diff goroutine stands, and what it holds then.                *)
DiffShape ==
    /\ diff \in {"diff", "wait", "fin"} => diffErr = "none"
    /\ diff = "join" => diffErr \in {"apply", "canceled"}
    /\ diff = "err" => diffErr # "none"
    /\ diff \in {"wait", "fin", "err", "done"} => fill # "run"
    /\ rRet # "none" => rRecv = "done" /\ diff = "done"
    /\ diffErr # "walker closed" /\ egErr # "walker closed"

(* An error of the group that is not the echo of another, and whether the  *)
(* reason of a cancellation is known: the stream's own, such an error, or  *)
(* the change that could not be applied, which the ERR packet will name.   *)
RealErr == rErr \notin {"none", "canceled", "walker closed"}
Known   == ~up \/ RealErr \/ diffErr = "apply"

Blamed ==
    /\ fill = "failed" => Known
    /\ diffErr = "canceled" => Known
    /\ egErr = "canceled" => Known \/ diff = "done"
    /\ rErr \in {"canceled", "walker closed"} => ~up \/ diffErr = "apply"

(* Bare packets only from a cancelled stream.                              *)
BareErr(m) == m.type = "ERR" /\ m.cause \in {"canceled", "walker closed"}
NoneBare   == \A i \in 1..Len(toS) : BareErr(toS[i]) => ~up

EInv == TInv /\ DiffShape /\ Blamed /\ NoneBare

(* As long as nothing has failed, no goroutine has an error, the end of    *)
(* the stream is announced, and the diff has waited for the files.         *)
FinComes == (\E i \in 1..Len(toR) : toR[i].type = "FIN") \/ rRecv \in {"drain", "done"}

Clean ==
    /\ up /\ sErr = "none" /\ rErr = "none" /\ diffErr = "none" /\ egErr = "none"
    /\ sWalk # "err" /\ fill # "failed" /\ diff # "err"
    /\ sRet \in {"none", "ok"} /\ rRet \in {"none", "ok"}
    /\ \A p \in Entries : pipe[p] # "failed" /\ async[p].pc # "failed"
    /\ \A i \in 1..Len(toR) : toR[i].type # "ERR"
    /\ \A i \in 1..Len(toS) : toS[i].type # "ERR"
    /\ diff \in {"fin", "done"} => AsyncOver
    /\ sRecv = "done" => FinComes

Unharmed == fault \in {"none", "open"}
CleanInv == (closed => sRecv = "done") /\ (Unharmed => Clean)

-----------------------------------------------------------------------------
(* The diff goroutine's state and the errors, step by step.                *)
LEMMA ShapeKept ==
  ASSUME TInv, DiffShape, [Next]_vars
  PROVE  DiffShape'
<1> USE DEF DiffShape
<1>1. CASE SenderStep /\ UNCHANGED receiverVars
  BY <1>1 DEF receiverVars, recvVars, walkerVars, diffVars, diskVars, retVars
<1>2. CASE ReceiverLoop
  BY <1>2 DEF ReceiverLoop, RecvGetsErr, RecvGetsLast, RecvGetsStat, RecvUpdates, RecvGetsFin, RecvDrains,
              RecvEOF, RecvLoopFails, RecvGetsData, RecvEnds, receiverVars, recvVars, walkerVars, diffVars,
              diskVars, retVars
<1>3. CASE Fill
  BY <1>3 DEF Fill, FillMoves, FillEnds, FillCanceled, recvVars, diffVars, diskVars, retVars
<1>4. CASE Diff
  <2>1. UNCHANGED <<rRecv, rRet>>
    BY <1>4 DEF Diff, DiffApplies, DiffSendsFin, DiffSendsErr, recvVars, retVars
  <2>2. CASE DiffNext \/ DiffCanceled
    BY <2>1, <2>2 DEF DiffNext, DiffCanceled, HandleChange, walkerVars, diskVars
  <2>3. CASE DiffJoins
    BY <2>1, <2>3 DEF DiffJoins, FirstErr, walkerVars, diskVars
  <2>4. CASE DiffWaits
    BY <2>1, <2>4 DEF DiffWaits, walkerVars, diskVars
  <2>5. CASE DiffSendsFin \/ DiffSendsErr
    BY <2>1, <2>5 DEF DiffSendsFin, DiffSendsErr, walkerVars, diskVars
  <2> QED  BY <1>4, <2>2, <2>3, <2>4, <2>5 DEF Diff, DiffApplies
<1>5. ASSUME NEW p \in Entries, Async(p) PROVE DiffShape'
  <2>1. UNCHANGED <<rRecv, rRet, diff, diffErr, fill>>
    BY <1>5 DEF Async, recvVars, retVars, diffVars, walkerVars
  <2>2. egErr' # "walker closed"
    BY <1>5 DEF Async, AsyncRegisters, AsyncSendsReq, AsyncWaits, AsyncFinishes, AsyncFails, FirstErr
  <2> QED  BY <2>1, <2>2
<1>6. CASE ReceiveReturns
  BY <1>6 DEF ReceiveReturns, recvVars, walkerVars, diffVars, diskVars
<1>7. CASE ConnFails \/ UNCHANGED vars
  BY <1>7 DEF ConnFails, vars, receiverVars, recvVars, walkerVars, diffVars, diskVars, retVars
<1> QED  BY <1>1, <1>2, <1>3, <1>4, <1>5, <1>6, <1>7 DEF Next, ReceiverStep, Over

(* The first error stays, and with it what is known of the cause.          *)
LEMMA KnownKept ==
  ASSUME DiffShape, [Next]_vars
  PROVE  /\ ~up => ~(up')
         /\ rErr # "none" => rErr' = rErr
         /\ diffErr = "apply" => diffErr' = "apply"
         /\ diff = "done" => diff' = "done"
         /\ Known => Known'
<1>1. CASE SenderStep /\ UNCHANGED receiverVars
  <2>1. ~up => ~(up')
    BY <1>1 DEF SenderStep, Walk, WalkVisit, WalkSendStat, WalkSendLast, WalkFails, WalkSendFails, WalkSendErr,
       SenderLoop, LoopCheck, LoopGetsErr, LoopGetsReq, LoopQueues, LoopGetsFin, LoopSendsFin, LoopRecvFails,
       SendReturns, Worker, WorkerTakes, WorkerExits, WorkerOpenFails, WorkerSendsData, WorkerSendsEOF,
       WorkerFails, SendToReceiver, SendFails, RecvFails, SenderGets, wireVars
  <2> QED  BY <1>1, <2>1 DEF receiverVars, diffVars, Known, RealErr
<1>2. CASE ReceiverLoop
  <2>1. UNCHANGED <<up, diff, diffErr>> /\ (rErr # "none" => rErr' = rErr)
    BY <1>2 DEF ReceiverLoop, RecvGetsErr, RecvGetsLast, RecvGetsStat, RecvUpdates, RecvGetsFin, RecvDrains,
              RecvEOF, RecvLoopFails, RecvGetsData, RecvEnds, FirstErr, receiverVars, diffVars,
              ReceiverGets, ReceiverGetsEOF, RecvFails, wireVars
  <2> QED  BY <2>1 DEF Known, RealErr
<1>3. CASE Fill
  BY <1>3 DEF Fill, diffVars, wireVars, Known, RealErr
<1>4. CASE Diff
  <2>1. UNCHANGED up
    BY <1>4 DEF Diff, DiffApplies, DiffSendsFin, DiffSendsErr, SendToSender, SendFails, wireVars
  <2>2. rErr # "none" => rErr' = rErr
    BY <1>4 DEF Diff, DiffApplies, DiffSendsFin, DiffSendsErr, FirstErr
  <2>3. diffErr = "apply" => diffErr' = "apply"
    BY <1>4 DEF Diff, DiffApplies, DiffNext, DiffCanceled, DiffJoins, DiffWaits, DiffSendsFin, DiffSendsErr,
                FirstErr, DiffShape
  <2>4. diff = "done" => diff' = "done"
    BY <1>4 DEF Diff, DiffApplies, DiffNext, DiffCanceled, DiffJoins, DiffWaits, DiffSendsFin, DiffSendsErr
  <2> QED  BY <2>1, <2>2, <2>3, <2>4 DEF Known, RealErr
<1>5. ASSUME NEW p \in Entries, Async(p)
      PROVE  UNCHANGED <<up, rErr, diff, diffErr>>
  BY <1>5 DEF Async, AsyncRegisters, AsyncSendsReq, AsyncWaits, AsyncFinishes, diffVars,
              SendToSender, SendFails, wireVars
<1>6. CASE ReceiveReturns
  BY <1>6 DEF ReceiveReturns, diffVars, Known, RealErr
<1>7. CASE ConnFails \/ UNCHANGED vars
  <2>1. UNCHANGED <<rErr, diff, diffErr>>
    BY <1>7 DEF ConnFails, vars, receiverVars, diffVars
  <2>2. ~up => ~(up')
    BY <1>7 DEF ConnFails, vars, wireVars
  <2> QED  BY <2>1, <2>2 DEF Known, RealErr
<1>8. CASE \E p \in Entries : Async(p)
  BY <1>5, <1>8 DEF Known, RealErr
<1> QED  BY <1>1, <1>2, <1>3, <1>4, <1>6, <1>7, <1>8 DEF Next, ReceiverStep, Over

(* A cancelled context has a known reason.                                 *)
LEMMA CtxKnown ==
  ASSUME TInv, DiffShape, Blamed
  PROVE  /\ rCtxDone => Known \/ diff = "done"
         /\ innerCtxDone => Known \/ diff \in {"err", "done"}
         /\ egCtxDone => Known \/ diff = "done" \/ egErr # "none"
  BY DEF rCtxDone, innerCtxDone, egCtxDone, Known, RealErr, DiffShape, Blamed, TInv, ReceiverTypeOK

-----------------------------------------------------------------------------
(* Every error that only echoes a cancellation has its reason known.       *)
LEMMA BlamedKept ==
  ASSUME TInv, DiffShape, Blamed, [Next]_vars
  PROVE  Blamed'
<1>k. /\ ~up => ~(up')
      /\ rErr # "none" => rErr' = rErr
      /\ diffErr = "apply" => diffErr' = "apply"
      /\ diff = "done" => diff' = "done"
      /\ Known => Known'
  BY KnownKept
<1>1. CASE UNCHANGED <<fill, diffErr, egErr, rErr>>
  BY <1>k, <1>1 DEF Blamed
<1>2. CASE ReceiverLoop
  <2>1. UNCHANGED <<fill, diffErr, egErr>>
    BY <1>2 DEF ReceiverLoop, RecvGetsErr, RecvGetsLast, RecvGetsStat, RecvUpdates, RecvGetsFin, RecvDrains,
              RecvEOF, RecvLoopFails, RecvGetsData, receiverVars, walkerVars, diffVars, diskVars
  <2>2. rErr' = rErr \/ rErr' \notin {"canceled", "walker closed"} \/ (fill = "failed" /\ rErr = "none")
    BY <1>2 DEF ReceiverLoop, RecvGetsErr, RecvGetsLast, RecvGetsStat, RecvUpdates, RecvGetsFin, RecvDrains,
              RecvEOF, RecvLoopFails, RecvGetsData, RecvEnds, FirstErr, receiverVars
  <2>3. fill = "failed" /\ rErr = "none" => ~up \/ diffErr = "apply"
    BY DEF Blamed, Known, RealErr
  <2> QED  BY <1>k, <2>1, <2>2, <2>3 DEF Blamed
<1>3. CASE Fill
  <2>1. UNCHANGED <<diffErr, egErr, rErr>>
    BY <1>3 DEF Fill, diffVars, diskVars
  <2>2. fill' = "failed" => innerCtxDone /\ fill = "run"
    BY <1>3 DEF Fill, FillMoves, FillEnds, FillCanceled
  <2>3. fill' = "failed" => Known
    BY <2>2, CtxKnown DEF DiffShape
  <2> QED  BY <1>k, <2>1, <2>3 DEF Blamed
<1>4. CASE DiffApplies
  <2>1. UNCHANGED rErr
    BY <1>4 DEF DiffApplies
  <2>2. CASE DiffNext
    <3>1. UNCHANGED <<fill, egErr>> /\ (diffErr' = diffErr \/ diffErr' = "apply"
                                         \/ (rCtxDone /\ diff = "diff"))
      BY <2>2 DEF DiffNext
    <3>2. rCtxDone /\ diff = "diff" => Known
      BY CtxKnown
    <3> QED  BY <1>k, <2>1, <3>1, <3>2 DEF Blamed
  <2>3. CASE DiffCanceled
    <3>1. UNCHANGED <<fill, egErr>> /\ innerCtxDone /\ diff = "diff"
      BY <2>3 DEF DiffCanceled, walkerVars, diskVars
    <3>2. Known
      BY <3>1, CtxKnown
    <3> QED  BY <1>k, <2>1, <3>1, <3>2 DEF Blamed
  <2>4. CASE DiffJoins
    <3>1. UNCHANGED <<fill, egErr>>
          /\ (diffErr' = diffErr \/ diffErr' = "none" \/ fill = "failed")
      BY <2>4 DEF DiffJoins, walkerVars, diskVars, FirstErr
    <3> QED  BY <1>k, <2>1, <3>1 DEF Blamed
  <2>5. CASE DiffWaits
    <3>1. UNCHANGED <<fill, egErr>> /\ diffErr' = egErr /\ diff = "wait"
      BY <2>5 DEF DiffWaits, walkerVars, diskVars
    <3> QED  BY <1>k, <2>1, <3>1 DEF Blamed
  <2> QED  BY <1>4, <2>2, <2>3, <2>4, <2>5 DEF DiffApplies
<1>5. CASE DiffSendsErr
  <2>1. UNCHANGED <<fill, diffErr, egErr>> /\ rErr' = FirstErr(rErr, ReportedErr(diffErr))
    BY <1>5 DEF DiffSendsErr, walkerVars, diskVars
  <2>2. rErr = "none" /\ rErr' \in {"canceled", "walker closed"} => diffErr = "canceled"
    BY <2>1 DEF FirstErr, ReportedErr, DiffShape
  <2>3. rErr = "none" /\ diffErr = "canceled" => ~up
    BY DEF Blamed, Known, RealErr
  <2> QED  BY <1>k, <2>1, <2>2, <2>3 DEF Blamed
<1>6. ASSUME NEW p \in Entries, Async(p) PROVE Blamed'
  <2>1. UNCHANGED <<fill, diffErr, rErr>>
    BY <1>6 DEF Async, walkerVars, diffVars
  <2>2. egErr' = egErr \/ egErr' # "canceled" \/ (egCtxDone /\ egErr = "none")
    BY <1>6 DEF Async, AsyncRegisters, AsyncSendsReq, AsyncWaits, AsyncFinishes, AsyncFails, FirstErr
  <2>3. egCtxDone /\ egErr = "none" => Known \/ diff = "done"
    BY CtxKnown
  <2> QED  BY <1>k, <2>1, <2>2, <2>3 DEF Blamed
<1> QED  BY <1>1, <1>2, <1>3, <1>4, <1>5, <1>6
         DEF Next, SenderStep, ReceiverStep, Diff, DiffSendsFin, ReceiveReturns, ConnFails, Over, vars,
             receiverVars, walkerVars, diffVars, diskVars

(* An ERR packet without a reason leaves only a cancelled stream.          *)
LEMMA BareKept ==
  ASSUME EInv, [Next]_vars
  PROVE  NoneBare'
<1>k. ~up => ~(up')
  BY KnownKept DEF EInv
<1>t. toS \in Seq(Packets)
  BY DEF EInv, TInv, SInv, WireTypeOK
<1>1. CASE toS' = toS
  BY <1>k, <1>1 DEF EInv, NoneBare
<1>2. CASE toS # <<>> /\ toS' = Tail(toS)
  <2>1. /\ Len(toS) \in Nat /\ Len(toS') = Len(toS) - 1
        /\ \A i \in 1..Len(toS') : toS'[i] = toS[i + 1]
    BY <1>t, <1>2, TailFacts
  <2>2. \A i \in 1..Len(toS') : i + 1 \in 1..Len(toS)
    BY <2>1
  <2>3. \A i \in 1..Len(toS') : BareErr(toS'[i]) => ~up
    BY <2>1, <2>2 DEF EInv, NoneBare
  <2> QED  BY <1>k, <2>3 DEF NoneBare, BareErr
<1>3. ASSUME NEW m \in Packets, toS' = Append(toS, m), BareErr(m) => ~up
      PROVE  NoneBare'
  <2>1. /\ Len(toS') = Len(toS) + 1 /\ Len(toS) \in Nat
        /\ \A i \in 1..Len(toS) : toS'[i] = toS[i]
        /\ toS'[Len(toS) + 1] = m
    BY <1>t, <1>3, AppendFacts, LenProperties
  <2>2. \A i \in 1..Len(toS') : i \in 1..Len(toS) \/ i = Len(toS) + 1
    BY <2>1
  <2>3. \A i \in 1..Len(toS') : BareErr(toS'[i]) => ~up
    BY <1>3, <2>1, <2>2 DEF EInv, NoneBare
  <2> QED  BY <1>k, <2>3 DEF NoneBare, BareErr
<1>4. CASE SenderStep
  <2>1. toS' = toS \/ (toS # <<>> /\ toS' = Tail(toS))
    BY <1>4 DEF SenderStep, Walk, WalkVisit, WalkSendStat, WalkSendLast, WalkFails, WalkSendFails, WalkSendErr,
       SenderLoop, LoopCheck, LoopGetsErr, LoopGetsReq, LoopQueues, LoopGetsFin, LoopSendsFin, LoopRecvFails,
       SendReturns, Worker, WorkerTakes, WorkerExits, WorkerOpenFails, WorkerSendsData, WorkerSendsEOF,
       WorkerFails, SendToReceiver, SendFails, RecvFails, SenderGets, wireVars
  <2> QED  BY <1>1, <1>2, <2>1
<1>5. CASE ReceiverLoop \/ Fill \/ DiffApplies \/ ReceiveReturns \/ ConnFails \/ UNCHANGED vars
  <2>1. toS' = toS
    BY <1>5 DEF ReceiverLoop, RecvGetsErr, RecvGetsLast, RecvGetsStat, RecvUpdates, RecvGetsFin, RecvDrains,
              RecvEOF, RecvLoopFails, RecvGetsData, ReceiverGets, ReceiverGetsEOF, RecvFails, wireVars,
              Fill, DiffApplies, ReceiveReturns, ConnFails, vars
  <2> QED  BY <1>1, <2>1
<1>6. CASE DiffSendsFin
  <2>1. toS' = toS \/ toS' = Append(toS, FinPacket)
    BY <1>6 DEF DiffSendsFin, SendToSender, SendFails, wireVars
  <2>2. FinPacket \in Packets /\ ~BareErr(FinPacket)
    BY PacketsBuilt DEF FinPacket, BareErr
  <2> QED  BY <1>1, <1>3, <2>1, <2>2
<1>7. CASE DiffSendsErr
  <2>1. toS' = toS \/ toS' = Append(toS, ErrPacket(ReportedErr(diffErr)))
    BY <1>7 DEF DiffSendsErr, SendToSender, SendFails, wireVars
  <2>2. ReportedErr(diffErr) \in Causes
    BY DEF ReportedErr, EInv, TInv, ReceiverTypeOK
  <2>3. ErrPacket(ReportedErr(diffErr)) \in Packets
    BY <2>2, PacketsBuilt DEF ErrPacket
  <2>4. ReportedErr(diffErr) \in {"canceled", "walker closed"} => ~up
    BY DEF ReportedErr, EInv, Blamed, Known, RealErr, DiffShape
  <2>5. BareErr(ErrPacket(ReportedErr(diffErr))) => ~up
    BY <2>4 DEF BareErr, ErrPacket
  <2> QED  BY <1>1, <1>3, <2>1, <2>3, <2>5
<1>8. ASSUME NEW p \in Entries, Async(p) PROVE NoneBare'
  <2>1. toS' = toS \/ (toS' = Append(toS, ReqPacket(async[p].id)) /\ async[p].pc = "req")
    BY <1>8 DEF Async, AsyncRegisters, AsyncSendsReq, AsyncWaits, AsyncFinishes, SendToSender, SendFails, wireVars
  <2>2. async[p].pc = "req" => async[p].id \in Ids
    BY DEF EInv, TInv, RecvShape
  <2>3. async[p].pc = "req" => ReqPacket(async[p].id) \in Packets /\ ~BareErr(ReqPacket(async[p].id))
    BY <2>2, PacketsBuilt DEF ReqPacket, BareErr
  <2> QED  BY <1>1, <1>3, <2>1, <2>3
<1> QED  BY <1>4, <1>5, <1>6, <1>7, <1>8 DEF Next, ReceiverStep, Diff, Over

LEMMA InitBlamed == Init => EInv
<1> SUFFICES ASSUME Init PROVE EInv
  OBVIOUS
<1>1. Len(toS) = 0
  BY EmptySeq DEF Init, WireInit
<1>2. NoneBare
  BY <1>1 DEF NoneBare
<1>3. DiffShape /\ Blamed
  BY DEF Init, ReceiverInit, DiffShape, Blamed
<1> QED  BY <1>2, <1>3, InitTypes DEF EInv

LEMMA StepBlamed == EInv /\ [Next]_vars => EInv'
  BY StepTypes, ShapeKept, BlamedKept, BareKept DEF EInv

(* The ERR packet of the receiver names what went wrong, for every tree,   *)
(* any capacities and whatever fails, a metadata transfer included         *)
(* (receive.go:201-209).                                                   *)
THEOREM ErrNamesCauseHolds == Spec => []ErrNamesCause
<1>1. EInv => ErrNamesCause
  <2>1. toS \in Seq(Packets) => DOMAIN toS = 1..Len(toS)
    BY LenProperties
  <2> QED  BY <2>1 DEF EInv, TInv, SInv, WireTypeOK, NoneBare, BareErr, ErrNamesCause
<1> QED  BY <1>1, InitBlamed, StepBlamed, PTL DEF Spec

-----------------------------------------------------------------------------
(* A type of packet in a queue that moves.                                 *)
Moved(s, r, t) ==
    \/ r = s
    \/ s # <<>> /\ r = Tail(s)
    \/ \E m : m.type # t /\ r = Append(s, m)

LEMMA AppendAny ==
  ASSUME NEW s \in Seq(Packets), NEW m
  PROVE  /\ Len(Append(s, m)) = Len(s) + 1 /\ Len(s) \in Nat
         /\ \A i \in 1..Len(s) : Append(s, m)[i] = s[i]
         /\ Append(s, m)[Len(s) + 1] = m
<1>1. s \in Seq(Packets \cup {m}) /\ m \in Packets \cup {m}
  <2>1. Len(s) \in Nat /\ s \in [1..Len(s) -> Packets]
    BY LenProperties
  <2>2. s \in [1..Len(s) -> Packets \cup {m}]
    BY <2>1
  <2> QED  BY <2>1, <2>2
<1> QED  BY <1>1, AppendProperties, LenProperties

LEMMA NoneOfType ==
  ASSUME NEW s \in Seq(Packets), NEW r, NEW t, Moved(s, r, t),
         \A i \in 1..Len(s) : s[i].type # t
  PROVE  \A i \in 1..Len(r) : r[i].type # t
<1>1. CASE s # <<>> /\ r = Tail(s)
  <2>1. /\ Len(s) \in Nat /\ Len(r) = Len(s) - 1
        /\ \A i \in 1..Len(r) : r[i] = s[i + 1]
    BY <1>1, TailFacts
  <2>2. \A i \in 1..Len(r) : i + 1 \in 1..Len(s)
    BY <2>1
  <2> QED  BY <2>1, <2>2
<1>2. ASSUME NEW m, m.type # t, r = Append(s, m)
      PROVE  \A i \in 1..Len(r) : r[i].type # t
  <2>1. /\ Len(r) = Len(s) + 1 /\ Len(s) \in Nat
        /\ \A i \in 1..Len(s) : r[i] = s[i]
        /\ r[Len(s) + 1] = m
    BY <1>2, AppendAny
  <2>2. \A i \in 1..Len(r) : i \in 1..Len(s) \/ i = Len(s) + 1
    BY <2>1
  <2> QED  BY <1>2, <2>1, <2>2
<1> QED  BY <1>1, <1>2 DEF Moved

LEMMA StillOfType ==
  ASSUME NEW s \in Seq(Packets), NEW r, NEW t,
         r = s \/ (\E m : r = Append(s, m)) \/ (s # <<>> /\ Head(s).type # t /\ r = Tail(s)),
         \E i \in 1..Len(s) : s[i].type = t
  PROVE  \E i \in 1..Len(r) : r[i].type = t
<1>0. PICK k \in 1..Len(s) : s[k].type = t
  OBVIOUS
<1>1. CASE r = s
  BY <1>1
<1>2. CASE \E m : r = Append(s, m)
  <2>1. r[k] = s[k] /\ k \in 1..Len(r)
    BY <1>2, AppendAny
  <2> QED  BY <1>0, <2>1
<1>3. CASE s # <<>> /\ Head(s).type # t /\ r = Tail(s)
  <2>1. /\ Len(s) \in Nat /\ Len(r) = Len(s) - 1 /\ Head(s) = s[1]
        /\ \A i \in 1..Len(r) : r[i] = s[i + 1]
    BY <1>3, TailFacts
  <2>2. k # 1
    BY <1>0, <1>3, <2>1
  <2>3. k - 1 \in 1..Len(r) /\ (k - 1) + 1 = k
    BY <2>1, <2>2
  <2>4. r[k - 1] = s[k]
    BY <2>1, <2>3
  <2> QED  BY <1>0, <2>3, <2>4
<1> QED  BY <1>1, <1>2, <1>3

-----------------------------------------------------------------------------
(* As long as nothing has failed.                                          *)
FInv == LInv /\ NoneInvalid /\ DiffShape /\ CleanInv

LEMMA HarmStays == [Next]_vars /\ Unharmed' => Unharmed
<1> SUFFICES ASSUME [Next]_vars, Unharmed' PROVE fault' = fault \/ fault = "none"
  BY DEF Unharmed
<1>1. CASE SenderStep
  BY <1>1 DEF SenderStep, Walk, WalkVisit, WalkSendStat, WalkSendLast, WalkFails, WalkSendFails, WalkSendErr,
       SenderLoop, LoopCheck, LoopGetsErr, LoopGetsReq, LoopQueues, LoopGetsFin, LoopSendsFin, LoopRecvFails,
       SendReturns, Worker, WorkerTakes, WorkerExits, WorkerOpenFails, WorkerSendsData, WorkerSendsEOF,
       WorkerFails, Fault
<1>2. CASE ReceiverLoop \/ Fill \/ Diff \/ ReceiveReturns \/ ConnFails \/ UNCHANGED vars
  BY <1>2 DEF ReceiverLoop, RecvGetsData, Fill, Diff, DiffApplies, DiffNext, DiffCanceled, DiffJoins, DiffWaits,
              DiffSendsFin, DiffSendsErr, ReceiveReturns, ConnFails, vars, Fault
<1>3. ASSUME NEW p \in Entries, Async(p) PROVE fault' = fault \/ fault = "none"
  BY <1>3 DEF Async, AsyncRegisters, AsyncSendsReq, AsyncWaits, AsyncFinishes, Fault
<1> QED  BY <1>1, <1>2, <1>3 DEF Next, ReceiverStep, Over

LEMMA FirstIsNot ==
  ASSUME NEW s \in Seq(Packets), s # <<>>, NEW t, \A i \in 1..Len(s) : s[i].type # t
  PROVE  Head(s).type # t
<1>1. Head(s) = s[1] /\ Len(s) \in Nat /\ Len(s) > 0
  BY TailFacts
<1>2. 1 \in 1..Len(s)
  BY <1>1
<1> QED  BY <1>1, <1>2

LEMMA ClosedKept ==
  ASSUME closed => sRecv = "done", [Next]_vars
  PROVE  closed' => sRecv' = "done"
<1>1. CASE SenderStep
  BY <1>1 DEF SenderStep, Walk, WalkVisit, WalkSendStat, WalkSendLast, WalkFails, WalkSendFails, WalkSendErr,
       SenderLoop, LoopCheck, LoopGetsErr, LoopGetsReq, LoopQueues, LoopGetsFin, LoopSendsFin, LoopRecvFails,
       SendReturns, Worker, WorkerTakes, WorkerExits, WorkerOpenFails, WorkerSendsData, WorkerSendsEOF,
       WorkerFails, SendToReceiver, SendFails, RecvFails, SenderGets, wireVars, LoopEnds
<1>2. CASE ReceiverStep /\ UNCHANGED senderVars
  <2>1. UNCHANGED sRecv
    BY <1>2 DEF senderVars
  <2>2. CASE ReceiverLoop \/ Fill \/ Diff \/ ReceiveReturns
    BY <2>1, <2>2 DEF ReceiverLoop, RecvGetsErr, RecvGetsLast, RecvGetsStat, RecvUpdates, RecvGetsFin, RecvDrains,
       RecvEOF, RecvLoopFails, RecvGetsData, ReceiverGets, ReceiverGetsEOF, RecvFails, wireVars, Fill, Diff,
       DiffApplies, DiffSendsFin, DiffSendsErr, SendToSender, SendFails, ReceiveReturns
  <2>3. ASSUME NEW p \in Entries, Async(p) PROVE closed' => sRecv' = "done"
    BY <2>1, <2>3 DEF Async, AsyncRegisters, AsyncSendsReq, AsyncWaits, AsyncFinishes, SendToSender, SendFails,
                      wireVars
  <2> QED  BY <1>2, <2>2, <2>3 DEF ReceiverStep
<1>3. CASE ConnFails \/ UNCHANGED vars
  BY <1>3 DEF ConnFails, vars, wireVars, senderVars
<1> QED  BY <1>1, <1>2, <1>3 DEF Next, Over

LEMMA CleanSender ==
  ASSUME FInv, NoneInvalid', SenderStep, UNCHANGED receiverVars, Unharmed, Unharmed'
  PROVE  Clean'
<1>c. Clean
  BY DEF FInv, CleanInv
<1>r. UNCHANGED <<rErr, diffErr, egErr, fill, diff, rRet, pipe, async, rRecv>>
  BY DEF receiverVars, recvVars, walkerVars, diffVars, diskVars, retVars
<1>t. toR \in Seq(Packets) /\ toS \in Seq(Packets)
  BY DEF FInv, LInv, GInv, TInv, SInv, WireTypeOK
<1>s. ~sCtxDone /\ up /\ sErr = "none" /\ sWalk # "err" /\ sRet \in {"none", "ok"}
  BY <1>c DEF Clean, sCtxDone
<1>h. toS # <<>> => Head(toS).type # "ERR"
  BY <1>c, <1>t, FirstIsNot DEF Clean
<1>1. /\ sErr' = "none" /\ up' = up /\ sWalk' # "err" /\ sRet' \in {"none", "ok"}
      /\ Moved(toR, toR', "ERR") /\ Moved(toS, toS', "ERR")
      /\ toR' = toR \/ \E m : toR' = Append(toR, m)
      /\ sRecv' = "done" => sRecv = "done" \/ toR' = Append(toR, FinPacket)
  <2> USE DEF Moved
  <2>1. CASE Walk
    <3>1. CASE WalkVisit \/ WalkFails \/ WalkSendFails \/ WalkSendErr
      BY <1>s, <3>1 DEF WalkVisit, WalkFails, WalkSendFails, WalkSendErr, Fault, Unharmed, SendFails, wireVars
    <3>2. CASE WalkSendStat
      <4>1. StatPacket(sNext).type # "ERR"
        BY DEF StatPacket
      <4> QED  BY <1>s, <3>2, <4>1 DEF WalkSendStat, SendToReceiver
    <3>3. CASE WalkSendLast
      <4>1. LastStat.type # "ERR"
        BY DEF LastStat, StatPacket
      <4> QED  BY <1>s, <3>3, <4>1 DEF WalkSendLast, SendToReceiver
    <3> QED  BY <2>1, <3>1, <3>2, <3>3 DEF Walk
  <2>2. ASSUME NEW w \in Workers, Worker(w)
        PROVE  /\ sErr' = "none" /\ up' = up /\ sWalk' # "err" /\ sRet' \in {"none", "ok"}
               /\ Moved(toR, toR', "ERR") /\ Moved(toS, toS', "ERR")
               /\ toR' = toR \/ \E m : toR' = Append(toR, m)
               /\ sRecv' = "done" => sRecv = "done" \/ toR' = Append(toR, FinPacket)
    <3>1. UNCHANGED <<sWalk, sRet, sRecv, toS>>
      BY <2>2 DEF Worker, WorkerTakes, WorkerExits, WorkerOpenFails, WorkerSendsData, WorkerSendsEOF,
       WorkerFails, walkVars, SendToReceiver, SendFails, wireVars
    <3>2. sErr' = "none" /\ up' = up
      BY <1>s, <2>2 DEF Worker, WorkerTakes, WorkerExits, WorkerOpenFails, WorkerSendsData, WorkerSendsEOF,
       WorkerFails, SendToReceiver, SendFails, wireVars, Fault, Unharmed
    <3>3. toR' = toR \/ \E id, d : toR' = Append(toR, DataPacket(id, d))
      BY <2>2 DEF Worker, WorkerTakes, WorkerExits, WorkerOpenFails, WorkerSendsData, WorkerSendsEOF,
       WorkerFails, SendToReceiver, SendFails, wireVars
    <3>4. \A id, d : DataPacket(id, d).type # "ERR"
      BY DEF DataPacket
    <3> QED  BY <1>s, <3>1, <3>2, <3>3, <3>4
  <2>3. CASE SendReturns
    BY <1>s, <2>3 DEF SendReturns, walkVars
  <2>4. CASE LoopSendsFin
    <3>1. toR' = Append(toR, FinPacket) /\ toS' = toS /\ up' = up
      BY <1>s, <2>4 DEF LoopSendsFin, SendFails, SendToReceiver
    <3>2. FinPacket.type # "ERR"
      BY DEF FinPacket
    <3>3. sErr' = "none" /\ UNCHANGED <<sWalk, sRet>>
      BY <1>s, <2>4 DEF LoopSendsFin, SendFails, LoopEnds, FirstErr, walkVars
    <3> QED  BY <1>s, <3>1, <3>2, <3>3
  <2>5. CASE LoopGetsReq
    <3>1. sErr' = "none" /\ UNCHANGED <<sWalk, sRet>> /\ sRecv' # "done"
      BY <1>s, <2>5 DEF LoopGetsReq, LoopEnds, FirstErr, walkVars, NoneInvalid
    <3> QED  BY <1>s, <2>5, <3>1 DEF LoopGetsReq, SenderGets
  <2>6. CASE LoopCheck \/ LoopGetsErr \/ LoopQueues \/ LoopGetsFin \/ LoopRecvFails
    BY <1>s, <1>h, <2>6 DEF LoopCheck, LoopGetsErr, LoopQueues, LoopGetsFin, LoopRecvFails, SenderGets,
       RecvFails, wireVars, walkVars
  <2> QED  BY <2>1, <2>2, <2>3, <2>4, <2>5, <2>6 DEF SenderStep, SenderLoop
<1>2. /\ \A i \in 1..Len(toR') : toR'[i].type # "ERR"
      /\ \A i \in 1..Len(toS') : toS'[i].type # "ERR"
  BY <1>c, <1>t, <1>1, NoneOfType DEF Clean
<1>3. sRecv' = "done" => FinComes'
  <2>1. CASE sRecv = "done"
    <3>1. (\E i \in 1..Len(toR) : toR[i].type = "FIN") => \E i \in 1..Len(toR') : toR'[i].type = "FIN"
      <4>1. ASSUME NEW m, toR' = Append(toR, m), \E i \in 1..Len(toR) : toR[i].type = "FIN"
            PROVE  \E i \in 1..Len(toR') : toR'[i].type = "FIN"
        BY <1>t, <4>1, StillOfType
      <4> QED  BY <1>1, <4>1
    <3> QED  BY <1>c, <1>r, <2>1, <3>1 DEF Clean, FinComes
  <2>2. CASE toR' = Append(toR, FinPacket)
    <3>1. Len(toR') = Len(toR) + 1 /\ Len(toR) \in Nat /\ toR'[Len(toR) + 1] = FinPacket
      BY <1>t, <2>2, AppendAny
    <3>2. Len(toR) + 1 \in 1..Len(toR') /\ FinPacket.type = "FIN"
      BY <3>1 DEF FinPacket
    <3> QED  BY <3>1, <3>2 DEF FinComes
  <2> QED  BY <1>1, <2>1, <2>2
<1> QED  BY <1>c, <1>r, <1>s, <1>1, <1>2, <1>3 DEF Clean, AsyncOver

LEMMA CleanLoop ==
  ASSUME FInv, NoneInvalid', ReceiverLoop, UNCHANGED senderVars, Unharmed, Unharmed'
  PROVE  Clean'
<1>c. Clean
  BY DEF FInv, CleanInv
<1>s. UNCHANGED <<sErr, sWalk, sRet, sRecv>>
  BY DEF senderVars, walkVars
<1>t. toR \in Seq(Packets) /\ toS \in Seq(Packets)
  BY DEF FInv, LInv, GInv, TInv, SInv, WireTypeOK
<1>u. up /\ rErr = "none" /\ fill # "failed"
  BY <1>c DEF Clean
<1>h. toR # <<>> => Head(toR).type # "ERR"
  BY <1>c, <1>t, FirstIsNot DEF Clean
<1>1. UNCHANGED <<toS, up, closed, diffErr, egErr, fill, diff, rRet, async>>
  BY DEF ReceiverLoop, RecvGetsErr, RecvGetsLast, RecvGetsStat, RecvUpdates, RecvGetsFin, RecvDrains,
         RecvEOF, RecvLoopFails, RecvGetsData, ReceiverGets, ReceiverGetsEOF, RecvFails, wireVars,
         receiverVars, walkerVars, diffVars, diskVars, retVars
<1>2. toR' = toR \/ (toR # <<>> /\ toR' = Tail(toR))
  BY DEF ReceiverLoop, RecvGetsErr, RecvGetsLast, RecvGetsStat, RecvUpdates, RecvGetsFin, RecvDrains,
         RecvEOF, RecvLoopFails, RecvGetsData, ReceiverGets, ReceiverGetsEOF, RecvFails, wireVars
<1>3. \A i \in 1..Len(toR') : toR'[i].type # "ERR"
  <2>1. Moved(toR, toR', "ERR")
    BY <1>2 DEF Moved
  <2> QED  BY <1>c, <1>t, <2>1, NoneOfType DEF Clean
<1>4. rErr' = "none" /\ \A p \in Entries : pipe'[p] # "failed"
  <2>1. CASE RecvGetsData
    <3>1. rErr' # "invalid request"
      BY DEF NoneInvalid
    <3>2. pipe \in [Entries -> {"open", "closed", "failed"}]
      BY DEF FInv, LInv, GInv, TInv, ReceiverTypeOK
    <3> QED  BY <1>c, <1>u, <2>1, <3>1, <3>2 DEF RecvGetsData, RecvEnds, FirstErr, Fault, Unharmed, Clean
  <2>2. CASE RecvEOF
    <3>1. rRecv # "recv"
      <4> SUFFICES ASSUME rRecv = "recv" PROVE FALSE
        OBVIOUS
      <4>1. closed /\ toR = <<>>
        BY <2>2 DEF RecvEOF, ReceiverGetsEOF
      <4>2. FinComes
        BY <1>c, <4>1 DEF FInv, CleanInv, Clean
      <4>3. Len(toR) = 0
        BY <4>1, EmptySeq
      <4> QED  BY <4>2, <4>3 DEF FinComes
    <3> QED  BY <1>c, <1>u, <2>2, <3>1 DEF RecvEOF, RecvEnds, FirstErr, diskVars, Clean
  <2>3. CASE \/ RecvGetsErr \/ RecvGetsLast \/ RecvGetsStat \/ RecvUpdates
             \/ RecvGetsFin \/ RecvDrains \/ RecvLoopFails
    BY <1>c, <1>u, <1>h, <2>3 DEF RecvGetsErr, RecvGetsLast, RecvGetsStat, RecvUpdates, RecvGetsFin, RecvDrains,
       RecvLoopFails, RecvFails, ReceiverGets, receiverVars, diskVars, Clean
  <2> QED  BY <2>1, <2>2, <2>3 DEF ReceiverLoop
<1>5. FinComes => FinComes'
  <2> SUFFICES ASSUME FinComes PROVE FinComes'
    OBVIOUS
  <2>1. rRecv \in {"drain", "done"} => rRecv' \in {"drain", "done"}
    BY DEF ReceiverLoop, RecvGetsErr, RecvGetsLast, RecvGetsStat, RecvUpdates, RecvGetsFin, RecvDrains,
         RecvEOF, RecvLoopFails, RecvGetsData, RecvEnds, receiverVars, recvVars
  <2>2. toR' = toR \/ Head(toR).type # "FIN" \/ rRecv' \in {"drain", "done"}
    BY DEF ReceiverLoop, RecvGetsErr, RecvGetsLast, RecvGetsStat, RecvUpdates, RecvGetsFin, RecvDrains,
         RecvEOF, RecvLoopFails, RecvGetsData, ReceiverGets, ReceiverGetsEOF, RecvFails, wireVars,
         receiverVars, recvVars
  <2>3. CASE (toR' = toR \/ (toR # <<>> /\ Head(toR).type # "FIN" /\ toR' = Tail(toR)))
             /\ \E i \in 1..Len(toR) : toR[i].type = "FIN"
    <3>1. \E i \in 1..Len(toR') : toR'[i].type = "FIN"
      <4>1. CASE toR' = toR
        BY <2>3, <4>1
      <4>2. CASE toR # <<>> /\ Head(toR).type # "FIN" /\ toR' = Tail(toR)
        <5> DEFINE r == toR'
                   s == toR
        <5>1. s \in Seq(Packets) /\ s # <<>> /\ Head(s).type # "FIN" /\ r = Tail(s)
          BY <1>t, <4>2
        <5>2. \E i \in 1..Len(s) : s[i].type = "FIN"
          BY <2>3
        <5> HIDE DEF r, s
        <5>3. \E i \in 1..Len(r) : r[i].type = "FIN"
          BY <5>1, <5>2, StillOfType
        <5> QED  BY <5>3 DEF r
      <4> QED  BY <2>3, <4>1, <4>2
    <3> QED  BY <3>1 DEF FinComes
  <2> QED  BY <1>2, <2>1, <2>2, <2>3 DEF FinComes
<1> QED  BY <1>c, <1>s, <1>1, <1>3, <1>4, <1>5 DEF Clean, AsyncOver

LEMMA CleanElse ==
  ASSUME FInv, NoneInvalid', UNCHANGED senderVars, Unharmed, Unharmed',
         Fill \/ Diff \/ ReceiveReturns \/ \E p \in Entries : Async(p)
  PROVE  Clean'
<1>c. Clean
  BY DEF FInv, CleanInv
<1>s. UNCHANGED <<sErr, sWalk, sRet, sRecv>>
  BY DEF senderVars, walkVars
<1>t. /\ toR \in Seq(Packets) /\ toS \in Seq(Packets)
      /\ async \in [Entries -> AsyncSet] /\ pipe \in [Entries -> {"open", "closed", "failed"}]
  BY DEF FInv, LInv, GInv, TInv, SInv, WireTypeOK, ReceiverTypeOK
<1>u. up /\ rErr = "none" /\ diffErr = "none" /\ egErr = "none" /\ fill # "failed" /\ diff # "err"
  BY <1>c DEF Clean
<1>i. /\ rCtxDone => diff = "done"
      /\ innerCtxDone => diff = "done"
      /\ egCtxDone => diff = "done"
  BY <1>u DEF rCtxDone, innerCtxDone, egCtxDone, FInv, DiffShape
<1>1. CASE Fill
  <2>1. fill' # "failed"
    BY <1>u, <1>i, <1>1 DEF Fill, FillMoves, FillEnds, FillCanceled, FInv, DiffShape
  <2>2. UNCHANGED <<toR, toS, up, rErr, diffErr, egErr, diff, rRet, pipe, async, rRecv>>
    BY <1>1 DEF Fill, recvVars, diffVars, diskVars, retVars, wireVars
  <2> QED  BY <1>c, <1>s, <2>1, <2>2 DEF Clean, AsyncOver, FinComes
<1>2. CASE DiffApplies
  <2>0. UNCHANGED <<toR, toS, up, rErr, fill, rRet, rRecv>>
    BY <1>2 DEF DiffApplies, DiffNext, DiffCanceled, DiffJoins, DiffWaits, walkerVars, recvVars, retVars, wireVars
  <2>1. CASE DiffNext
    <3>1. /\ diffErr' = "none" /\ diff' = "diff"
          /\ UNCHANGED <<egErr, pipe>>
          /\ \A p \in Entries : async'[p].pc # "failed"
      BY <1>c, <1>u, <1>i, <1>t, <2>1 DEF DiffNext, HandleChange, Fault, Unharmed, Clean
    <3> QED  BY <1>c, <1>s, <2>0, <3>1 DEF Clean, FinComes
  <2>2. CASE DiffCanceled
    BY <1>i, <2>2 DEF DiffCanceled
  <2>3. CASE DiffJoins
    <3>1. diffErr' = "none" /\ diff' = "wait" /\ UNCHANGED <<egErr, pipe, async>>
      BY <1>u, <2>3 DEF DiffJoins, FirstErr, diskVars
    <3> QED  BY <1>c, <1>s, <2>0, <3>1 DEF Clean, FinComes
  <2>4. CASE DiffWaits
    <3>1. diffErr' = "none" /\ diff' = "fin" /\ AsyncOver /\ UNCHANGED <<egErr, pipe, async>>
      BY <1>u, <2>4 DEF DiffWaits, diskVars
    <3> QED  BY <1>c, <1>s, <2>0, <3>1 DEF Clean, FinComes, AsyncOver
  <2> QED  BY <1>2, <2>1, <2>2, <2>3, <2>4 DEF DiffApplies
<1>3. CASE DiffSendsFin
  <2>1. /\ UNCHANGED <<toR, up, rErr, diffErr, egErr, fill, rRet, pipe, async, rRecv>>
        /\ diff = "fin" /\ diff' = "done" /\ toS' = Append(toS, FinPacket)
    BY <1>u, <1>3 DEF DiffSendsFin, SendToSender, SendFails, recvVars, walkerVars, diskVars, retVars
  <2>2. \A i \in 1..Len(toS') : toS'[i].type # "ERR"
    <3>1. Moved(toS, toS', "ERR")
      <4>1. FinPacket.type # "ERR"
        BY DEF FinPacket
      <4> QED  BY <2>1, <4>1 DEF Moved
    <3> QED  BY <1>c, <1>t, <3>1, NoneOfType DEF Clean
  <2> QED  BY <1>c, <1>s, <2>1, <2>2 DEF Clean, FinComes, AsyncOver
<1>4. CASE DiffSendsErr
  BY <1>u, <1>4 DEF DiffSendsErr
<1>5. CASE ReceiveReturns
  <2>1. /\ UNCHANGED <<toR, toS, rErr, diffErr, egErr, fill, diff, pipe, async, rRecv>>
        /\ up' /\ rRet' = "ok"
    BY <1>u, <1>5 DEF ReceiveReturns, recvVars, walkerVars, diffVars, diskVars
  <2> QED  BY <1>c, <1>s, <2>1 DEF Clean, FinComes, AsyncOver
<1>6. ASSUME NEW p \in Entries, Async(p) PROVE Clean'
  <2>0. UNCHANGED <<toR, up, rErr, diffErr, fill, diff, rRet, pipe, rRecv>>
    BY <1>6 DEF Async, AsyncRegisters, AsyncSendsReq, AsyncWaits, AsyncFinishes, SendToSender, SendFails,
                recvVars, walkerVars, diffVars, retVars, wireVars
  <2>1. ~AsyncOver
    BY <1>6 DEF AsyncOver, Async, AsyncRegisters, AsyncSendsReq, AsyncWaits, AsyncFinishes
  <2>2. diff \notin {"fin", "done"}
    BY <1>c, <2>1 DEF Clean
  <2>3. toS' = toS \/ toS' = Append(toS, ReqPacket(async[p].id))
    BY <1>6 DEF Async, AsyncRegisters, AsyncSendsReq, AsyncWaits, AsyncFinishes, SendToSender, SendFails, wireVars
  <2>4. \A i \in 1..Len(toS') : toS'[i].type # "ERR"
    <3>1. Moved(toS, toS', "ERR")
      <4>1. ReqPacket(async[p].id).type # "ERR"
        BY DEF ReqPacket
      <4> QED  BY <2>3, <4>1 DEF Moved
    <3> QED  BY <1>c, <1>t, <3>1, NoneOfType DEF Clean
  <2>6. egErr' = "none" /\ async'[p].pc # "failed"
    <3>1. CASE AsyncRegisters(p)
      <4>1. rFiles[p] # NoId
        BY <1>u, <3>1 DEF AsyncRegisters, AsyncFails, FirstErr, NoneInvalid
      <4>2. egErr' = egErr /\ async' = [async EXCEPT ![p] = [pc |-> "req", id |-> rFiles[p]]]
        BY <3>1, <4>1 DEF AsyncRegisters
      <4>3. async'[p].pc = "req"
        BY <1>t, <4>2
      <4> QED  BY <1>u, <4>2, <4>3
    <3>2. CASE AsyncSendsReq(p)
      BY <1>t, <1>u, <3>2 DEF AsyncSendsReq, SendFails, AsyncSet
    <3>3. CASE AsyncWaits(p)
      BY <1>c, <1>t, <1>u, <1>i, <2>2, <3>3 DEF AsyncWaits, AsyncSet, Clean
    <3>4. CASE AsyncFinishes(p)
      BY <1>t, <1>u, <3>4 DEF AsyncFinishes, Fault, Unharmed, AsyncSet
    <3> QED  BY <1>6, <3>1, <3>2, <3>3, <3>4 DEF Async
  <2>7. \A q \in Entries : q # p => async'[q] = async[q]
    BY <1>t, <1>6 DEF Async, AsyncRegisters, AsyncSendsReq, AsyncWaits, AsyncFinishes, AsyncFails
  <2> QED  BY <1>c, <1>s, <2>0, <2>2, <2>4, <2>6, <2>7 DEF Clean, FinComes
<1> QED  BY <1>1, <1>2, <1>3, <1>4, <1>5, <1>6 DEF Diff

LEMMA InitClean == Init => FInv
<1> SUFFICES ASSUME Init PROVE FInv
  OBVIOUS
<1>1. Len(toS) = 0 /\ Len(toR) = 0
  BY EmptySeq DEF Init, WireInit
<1>2. CleanInv
  BY <1>1 DEF CleanInv, Clean, Init, WireInit, SenderInit, ReceiverInit, NoAsync
<1>3. NoneInvalid /\ DiffShape
  BY DEF Init, SenderInit, ReceiverInit, NoneInvalid, DiffShape
<1> QED  BY <1>2, <1>3, InitLife DEF FInv

LEMMA StepClean ==
  ASSUME NoneSkipped, FInv, [Next]_vars
  PROVE  FInv'
<1>1. LInv' /\ NoneInvalid' /\ DiffShape'
  BY StepLife, StepValid, ShapeKept DEF FInv, LInv, GInv
<1>2. closed' => sRecv' = "done"
  BY ClosedKept DEF FInv, CleanInv
<1>3. ASSUME Unharmed' PROVE Clean'
  <2>1. Unharmed
    BY <1>3, HarmStays
  <2>2. CASE SenderStep /\ UNCHANGED receiverVars
    BY <1>1, <1>3, <2>1, <2>2, CleanSender
  <2>3. CASE ReceiverStep /\ UNCHANGED senderVars
    BY <1>1, <1>3, <2>1, <2>3, CleanLoop, CleanElse DEF ReceiverStep
  <2>4. CASE ConnFails
    BY <1>3, <2>4 DEF ConnFails, Fault, Unharmed
  <2>5. CASE UNCHANGED vars
    <3>1. Clean
      BY <2>1 DEF FInv, CleanInv
    <3> QED  BY <2>5, <3>1 DEF vars, wireVars, senderVars, walkVars, receiverVars, recvVars, walkerVars, diffVars,
                               diskVars, retVars, Clean, FinComes, AsyncOver
  <2> QED  BY <2>2, <2>3, <2>4, <2>5 DEF Next, Over
<1> QED  BY <1>1, <1>2, <1>3 DEF FInv, CleanInv

(* Neither call returns an error unless something failed, for every tree,  *)
(* any number of workers and any capacities: the end of one program, or a  *)
(* context that ends with it, is never taken for an error by the other     *)
(* (send.go:105-112; receive.go:224-247, 342-409).                         *)
THEOREM OnlyFaultsFailHolds ==
  ASSUME NoneSkipped
  PROVE  Spec => []OnlyFaultsFail
<1>1. FInv /\ [Next]_vars => FInv'
  BY StepClean
<1>2. FInv => OnlyFaultsFail
  BY DEF FInv, CleanInv, Clean, Unharmed, OnlyFaultsFail
<1> QED  BY <1>1, <1>2, InitClean, PTL DEF Spec

-----------------------------------------------------------------------------
(* What a receiver that ends without an error has.  The walk: all STAT     *)
(* packets precede the last one, and after it all are counted.             *)
IsLast(m) == m.type = "STAT" /\ m.path = NoPath

LastAlone ==
    \A i \in 1..Len(toR) : IsLast(toR[i]) =>
      /\ sWalk = "done" /\ sNext = N + 1
      /\ \A j \in 1..Len(toR) : i < j => ~IsStat(toR[j])

WalkWhole ==
    /\ LastAlone
    /\ walkClosed => rI = N /\ rPend = <<>>
    /\ fill = "done" => walkClosed /\ walkQ = <<>>

(* The list of a metadata transfer names what was counted.                 *)
AllListed ==
    /\ MetadataTransfer => rMeta = [k \in 1..rI |-> k]
    /\ MetadataTransfer /\ rRet = "ok" => metaFile = rMeta

(* What was announced and is to be carried is on its way to the diff, or   *)
(* unchanged, or has a goroutine, unless the diff has given up.            *)
InQueue(s, p) == \E i \in 1..Len(s) : s[i] = p

OnTheWay(p) == InQueue(c2, p) \/ InQueue(walkQ, p) \/ InQueue(rPend, p)
Seen(p)     == async[p].pc # "none" \/ dest[p] = Synced(p)

NoneLost ==
    \A p \in Entries : ~MetaOnly(p) /\ p <= rI => OnTheWay(p) \/ Seen(p) \/ diffErr # "none"

(* A diff that goes on to wait has seen the whole walk, and one that ends  *)
(* without an error leaves no goroutine.                                   *)
EndsWell == diff = "fin" \/ (diff = "done" /\ rErr = "none")

AllSeen ==
    /\ diff = "wait" \/ EndsWell => walkClosed /\ walkQ = <<>> /\ c2 = <<>> /\ diffErr = "none"
    /\ EndsWell => AsyncOver /\ egErr = "none"
    /\ rRet = "ok" => rErr = "none"
    /\ \A p \in Entries : async[p].pc = "done" => dest[p].meta = "src"

QInv == CInv /\ FinLast /\ DiffShape /\ WalkWhole /\ AllListed /\ NoneLost /\ AllSeen

-----------------------------------------------------------------------------
(* The last STAT comes after all others.                                   *)
LEMMA LastTaken ==
  ASSUME WireTypeOK, LastAlone, toR # <<>>, toR' = Tail(toR), UNCHANGED <<sWalk, sNext>>
  PROVE  LastAlone'
<1>1. /\ Len(toR) \in Nat /\ Len(toR') = Len(toR) - 1
      /\ \A i \in 1..Len(toR') : toR'[i] = toR[i + 1]
  BY TailFacts DEF WireTypeOK
<1>2. \A i \in 1..Len(toR') : i + 1 \in 1..Len(toR)
  BY <1>1
<1>3. \A i, j \in 1..Len(toR') : i < j => i + 1 < j + 1
  OBVIOUS
<1> SUFFICES ASSUME NEW i \in 1..Len(toR'), IsLast(toR'[i])
             PROVE  /\ sWalk' = "done" /\ sNext' = N + 1
                    /\ \A j \in 1..Len(toR') : i < j => ~IsStat(toR'[j])
  BY DEF LastAlone, IsLast, IsStat
<1> QED  BY <1>1, <1>2, <1>3 DEF LastAlone

LEMMA LastAppended ==
  ASSUME WireTypeOK, LastAlone, NEW m, toR' = Append(toR, m),
         sWalk = "done" => UNCHANGED <<sWalk, sNext>>,
         IsLast(m) => sWalk' = "done" /\ sNext' = N + 1,
         IsStat(m) => sWalk # "done"
  PROVE  LastAlone'
<1>1. /\ Len(toR') = Len(toR) + 1 /\ Len(toR) \in Nat
      /\ \A i \in 1..Len(toR) : toR'[i] = toR[i]
      /\ toR'[Len(toR) + 1] = m
  BY AppendAny DEF WireTypeOK
<1>2. \A i \in 1..Len(toR') : i \in 1..Len(toR) \/ i = Len(toR) + 1
  BY <1>1
<1> SUFFICES ASSUME NEW i \in 1..Len(toR'), IsLast(toR'[i])
             PROVE  /\ sWalk' = "done" /\ sNext' = N + 1
                    /\ \A j \in 1..Len(toR') : i < j => ~IsStat(toR'[j])
  BY DEF LastAlone, IsLast, IsStat
<1>3. CASE i = Len(toR) + 1
  <2>1. \A j \in 1..Len(toR') : ~(i < j)
    BY <1>1, <1>3
  <2> QED  BY <1>1, <1>3, <2>1
<1>4. CASE i \in 1..Len(toR)
  <2>1. sWalk = "done" /\ sNext = N + 1 /\ \A j \in 1..Len(toR) : i < j => ~IsStat(toR[j])
    BY <1>1, <1>4 DEF LastAlone
  <2> QED  BY <1>1, <1>2, <2>1
<1> QED  BY <1>2, <1>3, <1>4

LEMMA LastKept ==
  ASSUME SInv, LastAlone, [Next]_vars
  PROVE  LastAlone'
<1>t. WireTypeOK
  BY DEF SInv
<1>0. CASE toR' = toR /\ (sWalk = "done" => UNCHANGED <<sWalk, sNext>>)
  BY <1>0 DEF LastAlone, IsLast, IsStat
<1>1. CASE toR # <<>> /\ toR' = Tail(toR) /\ UNCHANGED <<sWalk, sNext>>
  BY <1>t, <1>1, LastTaken
<1>2. CASE SenderStep
  <2>1. CASE WalkSendStat
    <3>1. sWalk # "done" /\ toR' = Append(toR, StatPacket(sNext)) /\ ~IsLast(StatPacket(sNext))
      BY <2>1, NatFacts DEF WalkSendStat, SendToReceiver, IsLast, StatPacket, SInv, SenderTypeOK, NoPath
    <3> QED  BY <1>t, <3>1, LastAppended
  <2>2. CASE WalkSendLast
    <3>1. sWalk # "done" /\ toR' = Append(toR, LastStat) /\ sWalk' = "done" /\ sNext' = sNext /\ sNext > N
      BY <2>2 DEF WalkSendLast, SendToReceiver
    <3>2. sNext' = N + 1
      BY <3>1, NatFacts DEF SInv, SenderTypeOK
    <3> QED  BY <1>t, <3>1, <3>2, LastAppended
  <2>3. CASE WalkSendErr
    <3>1. sWalk # "done" /\ (toR' = toR \/ toR' = Append(toR, ErrPacket(sWalkErr)))
      BY <2>3 DEF WalkSendErr, SendToReceiver, SendFails, wireVars
    <3>2. ~IsLast(ErrPacket(sWalkErr)) /\ ~IsStat(ErrPacket(sWalkErr))
      BY DEF IsLast, IsStat, ErrPacket
    <3> QED  BY <1>0, <1>t, <3>1, <3>2, LastAppended
  <2>4. ASSUME NEW w \in Workers, Worker(w) PROVE LastAlone'
    <3>1. UNCHANGED <<sWalk, sNext>> /\ (toR' = toR \/ \E id, d : toR' = Append(toR, DataPacket(id, d)))
      BY <2>4 DEF Worker, WorkerTakes, WorkerExits, WorkerOpenFails, WorkerSendsData, WorkerSendsEOF,
       WorkerFails, walkVars, SendToReceiver, SendFails, wireVars
    <3>2. \A id, d : ~IsLast(DataPacket(id, d)) /\ ~IsStat(DataPacket(id, d))
      BY DEF IsLast, IsStat, DataPacket
    <3>3. ASSUME NEW id, NEW d, toR' = Append(toR, DataPacket(id, d)) PROVE LastAlone'
      BY <1>t, <3>1, <3>2, <3>3, LastAppended
    <3> QED  BY <1>0, <3>1, <3>3
  <2>5. CASE LoopSendsFin
    <3>1. UNCHANGED <<sWalk, sNext>> /\ (toR' = toR \/ toR' = Append(toR, FinPacket))
      BY <2>5 DEF LoopSendsFin, walkVars, SendToReceiver, SendFails, wireVars
    <3>2. ~IsLast(FinPacket) /\ ~IsStat(FinPacket)
      BY DEF IsLast, IsStat, FinPacket
    <3> QED  BY <1>0, <1>t, <3>1, <3>2, LastAppended
  <2>6. CASE \/ WalkVisit \/ WalkFails \/ WalkSendFails
             \/ LoopCheck \/ LoopGetsErr \/ LoopGetsReq \/ LoopQueues \/ LoopGetsFin \/ LoopRecvFails
             \/ SendReturns
    BY <1>0, <2>6 DEF WalkVisit, WalkFails, WalkSendFails, LoopCheck, LoopGetsErr, LoopGetsReq, LoopQueues,
       LoopGetsFin, LoopRecvFails, SendReturns, SendFails, RecvFails, SenderGets, walkVars, wireVars
  <2> QED  BY <1>2, <2>1, <2>2, <2>3, <2>4, <2>5, <2>6 DEF SenderStep, Walk, SenderLoop
<1>3. CASE ReceiverStep /\ UNCHANGED senderVars
  <2>1. UNCHANGED <<sWalk, sNext>>
    BY <1>3 DEF senderVars, walkVars
  <2>2. CASE ReceiverLoop \/ Fill \/ Diff \/ ReceiveReturns
    <3>1. toR' = toR \/ (toR # <<>> /\ toR' = Tail(toR))
      BY <2>2 DEF ReceiverLoop, RecvGetsErr, RecvGetsLast, RecvGetsStat, RecvUpdates, RecvGetsFin, RecvDrains,
       RecvEOF, RecvLoopFails, RecvGetsData, ReceiverGets, ReceiverGetsEOF, RecvFails, wireVars, Fill, Diff,
       DiffApplies, DiffSendsFin, DiffSendsErr, SendToSender, SendFails, ReceiveReturns
    <3> QED  BY <1>0, <1>1, <2>1, <3>1
  <2>3. ASSUME NEW p \in Entries, Async(p) PROVE toR' = toR
    BY <2>3 DEF Async, AsyncRegisters, AsyncSendsReq, AsyncWaits, AsyncFinishes, SendToSender, SendFails,
                      wireVars
  <2> QED  BY <1>0, <1>3, <2>1, <2>2, <2>3 DEF ReceiverStep
<1>4. CASE ConnFails \/ UNCHANGED vars
  BY <1>0, <1>4 DEF ConnFails, vars, wireVars, senderVars, walkVars
<1> QED  BY <1>2, <1>3, <1>4 DEF Next, Over

-----------------------------------------------------------------------------
(* When the walk is closed, all of it is counted, and nothing comes after. *)
LEMMA AllCounted ==
  ASSUME LInv, LastAlone, RecvGetsLast
  PROVE  rI = N /\ rPend = <<>>
<1>1. toR \in Seq(Packets) /\ toR # <<>> /\ IsLast(Head(toR)) /\ rRecv = "recv"
  BY DEF RecvGetsLast, ReceiverGets, IsLast, LInv, GInv, TInv, SInv, WireTypeOK
<1>2. Head(toR) = toR[1] /\ Len(toR) \in Nat /\ Len(toR) > 0
  BY <1>1, TailFacts
<1>3. 1 \in 1..Len(toR)
  BY <1>2
<1>4. sNext = N + 1 /\ \A j \in 1..Len(toR) : 1 < j => ~IsStat(toR[j])
  BY <1>1, <1>2, <1>3 DEF LastAlone
<1>5. rI \in Nat /\ N \in Nat /\ rI < sNext
  BY NatFacts DEF LInv, GInv, TInv, ReceiverTypeOK, StatsInOrder
<1>6. ~(rI < N)
  <2> SUFFICES ASSUME rI < N PROVE FALSE
    OBVIOUS
  <2>1. N \in Entries /\ N # NoPath
    BY <1>5 DEF Entries, NoPath
  <2>2. PICK i \in 1..Len(toR) : toR[i] = StatPacket(N)
    BY <1>1, <1>4, <1>5, <2>1 DEF LInv, GInv, NoGaps, Counts
  <2>3. IsStat(toR[i]) /\ ~IsLast(toR[i])
    BY <2>1, <2>2 DEF IsStat, IsLast, StatPacket
  <2>4. i # 1
    BY <1>1, <1>2, <2>3
  <2>5. 1 < i
    BY <2>4
  <2> QED  BY <1>4, <2>3, <2>5
<1> QED  BY <1>1, <1>4, <1>5, <1>6 DEF LInv, HandedOver

LEMMA WholeKept ==
  ASSUME NoneSkipped, LInv, WalkWhole, [Next]_vars
  PROVE  WalkWhole'
<1>0. LastAlone'
  BY LastKept DEF WalkWhole, LInv, GInv, TInv
<1>1. CASE UNCHANGED <<rI, rPend, walkClosed, fill, walkQ>>
  BY <1>0, <1>1 DEF WalkWhole
<1>2. CASE RecvGetsStat
  <2>1. ~walkClosed
    <3>1. rI + 1 \in Entries /\ rI \in Nat
      BY <1>2, StatTarget
    <3>2. rI # N
      BY <3>1, EntryFacts, NatFacts
    <3> QED  BY <3>2 DEF WalkWhole
  <2>2. UNCHANGED <<walkClosed, fill>>
    BY <1>2 DEF RecvGetsStat, walkerVars
  <2> QED  BY <1>0, <2>1, <2>2 DEF WalkWhole
<1>3. CASE RecvUpdates
  <2>1. UNCHANGED <<rI, walkClosed, fill>> /\ rPend # <<>>
    BY <1>3 DEF RecvUpdates, LInv, GInv, TInv, RecvShape
  <2> QED  BY <1>0, <2>1 DEF WalkWhole
<1>4. CASE RecvGetsLast
  <2>1. UNCHANGED <<rI, rPend, walkQ, fill>> /\ (walkClosed' = walkClosed \/ walkClosed')
    BY <1>4 DEF RecvGetsLast
  <2>2. rI = N /\ rPend = <<>>
    BY <1>4, AllCounted DEF WalkWhole
  <2>3. fill' = "done" => walkClosed'
    BY <2>1 DEF WalkWhole
  <2> QED  BY <1>0, <2>1, <2>2, <2>3 DEF WalkWhole
<1>5. CASE Fill
  BY <1>0, <1>5 DEF Fill, FillMoves, FillEnds, FillCanceled, recvVars, WalkWhole
<1>6. CASE RecvGetsErr \/ RecvGetsFin \/ RecvDrains \/ RecvEOF \/ RecvLoopFails \/ RecvGetsData
  BY <1>1, <1>6 DEF RecvGetsErr, RecvGetsFin, RecvDrains, RecvEOF, RecvLoopFails, RecvGetsData, receiverVars,
                    recvVars, walkerVars
<1>7. CASE Diff \/ ReceiveReturns \/ ConnFails \/ UNCHANGED vars \/ UNCHANGED receiverVars
  BY <1>1, <1>7 DEF Diff, DiffApplies, DiffNext, DiffCanceled, DiffJoins, DiffWaits, DiffSendsFin, DiffSendsErr,
                    ReceiveReturns, ConnFails, vars, receiverVars, recvVars, walkerVars
<1>8. ASSUME NEW p \in Entries, Async(p) PROVE WalkWhole'
  BY <1>1, <1>8 DEF Async, recvVars, walkerVars
<1> QED  BY <1>2, <1>3, <1>4, <1>5, <1>6, <1>7, <1>8 DEF Next, ReceiverStep, ReceiverLoop, Over

(* The list.                                                               *)
LEMMA ListedKept ==
  ASSUME NoneSkipped, LInv, DiffShape, AllListed, [Next]_vars
  PROVE  AllListed'
<1>1. CASE UNCHANGED <<rI, rMeta, rRet, metaFile>>
  BY <1>1 DEF AllListed
<1>2. CASE RecvGetsStat
  <2>1. rI + 1 \in Entries /\ rI \in Nat /\ rI' = rI + 1 /\ rRecv = "recv" /\ Head(toR).path = rI + 1
        /\ ~Skipped(rI + 1)
    BY <1>2, StatTarget
  <2>2. rRet = "none" /\ rRet' = rRet
    BY <1>2, <2>1 DEF DiffShape, RecvGetsStat, retVars
  <2>3. MetadataTransfer => rMeta' = Append(rMeta, rI + 1)
    BY <1>2, <2>1 DEF RecvGetsStat
  <2>4. ASSUME rMeta = [k \in 1..rI |-> k] PROVE Append(rMeta, rI + 1) = [k \in 1..(rI + 1) |-> k]
    <3>1. rMeta \in Seq(Nat) /\ Len(rMeta) = rI
      <4>1. rMeta \in [1..rI -> Nat]
        BY <2>4, <2>1
      <4>2. rMeta \in Seq(Nat)
        BY <2>1, <4>1
      <4> QED  BY <2>1, <4>1, <4>2, LenProperties
    <3>2. /\ Append(rMeta, rI + 1) \in Seq(Nat) /\ Len(Append(rMeta, rI + 1)) = rI + 1
          /\ \A i \in 1..rI : Append(rMeta, rI + 1)[i] = rMeta[i]
          /\ Append(rMeta, rI + 1)[rI + 1] = rI + 1
      BY <2>1, <3>1, AppendFacts
    <3> DEFINE s == [k \in 1..(rI + 1) |-> k]
    <3>3. s \in Seq(Nat) /\ Len(s) = rI + 1
      <4>1. s \in [1..(rI + 1) -> Nat] /\ rI + 1 \in Nat
        BY <2>1
      <4>2. s \in Seq(Nat)
        BY <4>1
      <4> QED  BY <4>1, <4>2, LenProperties
    <3>4. \A i \in 1..(rI + 1) : Append(rMeta, rI + 1)[i] = s[i]
      <4>1. \A i \in 1..(rI + 1) : i \in 1..rI \/ i = rI + 1
        BY <2>1
      <4> QED  BY <2>1, <2>4, <3>2, <4>1
    <3> HIDE DEF s
    <3>5. Append(rMeta, rI + 1) = s
      BY <3>2, <3>3, <3>4, SeqEqual
    <3> QED  BY <3>5 DEF s
  <2> QED  BY <2>1, <2>2, <2>3, <2>4 DEF AllListed
<1>3. CASE ReceiveReturns
  <2>1. UNCHANGED <<rI, rMeta>>
    BY <1>3 DEF ReceiveReturns, recvVars
  <2>2. MetadataTransfer /\ rRet' = "ok" => metaFile' = rMeta
    BY <1>3 DEF ReceiveReturns, LInv, GInv, TInv, ReceiverTypeOK, Causes
  <2> QED  BY <2>1, <2>2 DEF AllListed
<1>6. CASE \/ RecvGetsErr \/ RecvGetsFin \/ RecvDrains \/ RecvEOF \/ RecvLoopFails \/ RecvGetsData
           \/ RecvGetsLast \/ RecvUpdates
  BY <1>1, <1>6 DEF RecvGetsErr, RecvGetsFin, RecvDrains, RecvEOF, RecvLoopFails, RecvGetsData, RecvGetsLast,
                    RecvUpdates, receiverVars, recvVars, retVars
<1>7. CASE Fill \/ Diff \/ ConnFails \/ UNCHANGED vars \/ UNCHANGED receiverVars
  BY <1>1, <1>7 DEF Fill, Diff, DiffApplies, DiffSendsFin, DiffSendsErr, ConnFails, vars, receiverVars, recvVars,
                    retVars
<1>8. ASSUME NEW p \in Entries, Async(p) PROVE AllListed'
  BY <1>1, <1>8 DEF Async, recvVars, retVars
<1> QED  BY <1>2, <1>3, <1>6, <1>7, <1>8 DEF Next, ReceiverStep, ReceiverLoop, Over

-----------------------------------------------------------------------------
(* An entry passes from queue to queue.                                    *)
LEMMA QueueFacts ==
  ASSUME NEW s \in Seq(Entries), NEW p
  PROVE  /\ s # <<>> /\ InQueue(s, p) => p = Head(s) \/ InQueue(Tail(s), p)
         /\ \A q \in Entries : InQueue(Append(s, q), q) /\ (InQueue(s, p) => InQueue(Append(s, q), p))
<1>1. ASSUME s # <<>>, NEW i \in 1..Len(s), s[i] = p
      PROVE  p = Head(s) \/ InQueue(Tail(s), p)
  <2>1. /\ Head(s) = s[1] /\ Len(s) \in Nat /\ Len(Tail(s)) = Len(s) - 1
        /\ \A k \in 1..Len(Tail(s)) : Tail(s)[k] = s[k + 1]
    BY <1>1, TailFacts
  <2>2. CASE i = 1
    BY <1>1, <2>1, <2>2
  <2>3. CASE i # 1
    <3>1. i - 1 \in 1..Len(Tail(s)) /\ (i - 1) + 1 = i
      BY <2>1, <2>3
    <3>2. Tail(s)[i - 1] = p
      BY <1>1, <2>1, <3>1
    <3> QED  BY <3>1, <3>2 DEF InQueue
  <2> QED  BY <2>2, <2>3
<1>2. ASSUME NEW q \in Entries
      PROVE  InQueue(Append(s, q), q) /\ (InQueue(s, p) => InQueue(Append(s, q), p))
  <2>1. /\ Len(Append(s, q)) = Len(s) + 1 /\ Len(s) \in Nat
        /\ \A i \in 1..Len(s) : Append(s, q)[i] = s[i]
        /\ Append(s, q)[Len(s) + 1] = q
    BY AppendFacts, LenProperties
  <2>2. Len(s) + 1 \in 1..Len(Append(s, q)) /\ \A i \in 1..Len(s) : i \in 1..Len(Append(s, q))
    BY <2>1
  <2> QED  BY <2>1, <2>2 DEF InQueue
<1> QED  BY <1>1, <1>2 DEF InQueue

LEMMA NoneLostKept ==
  ASSUME NoneLost, rI' = rI, diffErr # "none" => diffErr' # "none",
         \A p \in Entries : OnTheWay(p) => OnTheWay(p)' \/ Seen(p)' \/ diffErr' # "none",
         \A p \in Entries : Seen(p) => Seen(p)'
  PROVE  NoneLost'
  BY DEF NoneLost, MetaOnly

LEMMA LostKept ==
  ASSUME NoneSkipped, CInv, DiffShape, NoneLost, [Next]_vars
  PROVE  NoneLost'
<1>t. /\ c2 \in Seq(Entries) /\ walkQ \in Seq(Entries) /\ rPend \in Seq(Entries) /\ rParents \in Seq(Entries)
      /\ async \in [Entries -> AsyncSet]
      /\ dest \in [Entries -> [data : Seq(Chunk), meta : {"old", "src", "now"}]]
  BY DEF CInv, LInv, GInv, TInv, ReceiverTypeOK
<1>l. LInv
  BY DEF CInv
<1>1. CASE UNCHANGED <<rI, c2, walkQ, rPend, async, dest, diffErr>>
  <2>1. \A p \in Entries : OnTheWay(p)' = OnTheWay(p) /\ Seen(p)' = Seen(p)
    BY <1>1 DEF OnTheWay, Seen
  <2> QED  BY <1>1, <2>1, NoneLostKept
<1>2. CASE RecvGetsStat
  <2> DEFINE p == rI + 1
  <2>1. p \in Entries /\ rI \in Nat /\ rI' = p /\ Head(toR).path = p /\ ~Skipped(p) /\ rPend = <<>>
    BY <1>l, <1>2, StatTarget
  <2>2. UNCHANGED <<c2, walkQ, async, dest, diffErr>>
    BY <1>2 DEF RecvGetsStat, walkerVars, diffVars, diskVars
  <2>3. MetaOnly(p) \/ InQueue(rPend', p)
    <3>1. ASSUME ~MetaOnly(p) PROVE rPend' = Append(ParentsOf(rParents, p), p) \/ rPend' = <<p>>
      BY <1>2, <2>1, <3>1 DEF RecvGetsStat
    <3>2. ParentsOf(rParents, p) \in Seq(Entries)
      BY <1>t, <2>1, ParentsTypes
    <3>3. InQueue(Append(ParentsOf(rParents, p), p), p)
      BY <2>1, <3>2, QueueFacts
    <3>4. InQueue(<<p>>, p)
      BY DEF InQueue
    <3> QED  BY <3>1, <3>3, <3>4
  <2>4. \A q : ~InQueue(rPend, q)
    BY <2>1, EmptySeq DEF InQueue
  <2> HIDE DEF p
  <2> SUFFICES ASSUME NEW q \in Entries, ~MetaOnly(q), q <= rI'
               PROVE  OnTheWay(q)' \/ Seen(q)' \/ diffErr' # "none"
    BY DEF NoneLost, MetaOnly
  <2>5. CASE q = p
    BY <2>3, <2>5 DEF OnTheWay
  <2>6. CASE q # p
    <3>1. q <= rI
      BY <2>1, <2>6, EntryFacts DEF p
    <3>2. OnTheWay(q) \/ Seen(q) \/ diffErr # "none"
      BY <3>1 DEF NoneLost
    <3>3. OnTheWay(q) => OnTheWay(q)'
      BY <2>2, <2>4 DEF OnTheWay
    <3> QED  BY <2>2, <3>2, <3>3 DEF Seen
  <2> QED  BY <2>5, <2>6
<1>3. CASE RecvUpdates
  <2>1. UNCHANGED <<rI, c2, async, dest, diffErr>>
    BY <1>3 DEF RecvUpdates, diffVars, diskVars
  <2>2. \A p : Seen(p)' = Seen(p)
    BY <2>1 DEF Seen
  <2>3. UNCHANGED <<rPend, walkQ>> \/ (walkQ' = Append(walkQ, Head(rPend)) /\ rPend' = Tail(rPend))
    BY <1>3 DEF RecvUpdates
  <2>4. rPend # <<>> /\ Head(rPend) \in Entries
    BY <1>l, <1>t, <1>3, TailFacts DEF RecvUpdates, LInv, GInv, TInv, RecvShape
  <2>5. \A p \in Entries : OnTheWay(p) => OnTheWay(p)'
    <3> SUFFICES ASSUME NEW p \in Entries, OnTheWay(p) PROVE OnTheWay(p)'
      OBVIOUS
    <3>1. CASE UNCHANGED <<rPend, walkQ>>
      BY <2>1, <3>1 DEF OnTheWay
    <3>2. CASE walkQ' = Append(walkQ, Head(rPend)) /\ rPend' = Tail(rPend)
      <4>1. InQueue(rPend, p) => p = Head(rPend) \/ InQueue(rPend', p)
        BY <1>t, <2>4, <3>2, QueueFacts
      <4>2. InQueue(walkQ', Head(rPend)) /\ (InQueue(walkQ, p) => InQueue(walkQ', p))
        BY <1>t, <2>4, <3>2, QueueFacts
      <4> QED  BY <2>1, <4>1, <4>2 DEF OnTheWay
    <3> QED  BY <2>3, <3>1, <3>2
  <2> QED  BY <2>1, <2>2, <2>5, NoneLostKept
<1>4. CASE Fill
  <2>1. UNCHANGED <<rI, rPend, async, dest, diffErr>>
    BY <1>4 DEF Fill, recvVars, diffVars, diskVars
  <2>2. \A p : Seen(p)' = Seen(p)
    BY <2>1 DEF Seen
  <2>3. UNCHANGED <<c2, walkQ>> \/ (walkQ # <<>> /\ c2' = Append(c2, Head(walkQ)) /\ walkQ' = Tail(walkQ))
    BY <1>4 DEF Fill, FillMoves, FillEnds, FillCanceled
  <2>4. walkQ # <<>> => Head(walkQ) \in Entries
    BY <1>t, TailFacts
  <2>5. \A p \in Entries : OnTheWay(p) => OnTheWay(p)'
    <3> SUFFICES ASSUME NEW p \in Entries, OnTheWay(p) PROVE OnTheWay(p)'
      OBVIOUS
    <3>1. CASE UNCHANGED <<c2, walkQ>>
      BY <2>1, <3>1 DEF OnTheWay
    <3>2. CASE walkQ # <<>> /\ c2' = Append(c2, Head(walkQ)) /\ walkQ' = Tail(walkQ)
      <4>1. InQueue(walkQ, p) => p = Head(walkQ) \/ InQueue(walkQ', p)
        BY <1>t, <2>4, <3>2, QueueFacts
      <4>2. InQueue(c2', Head(walkQ)) /\ (InQueue(c2, p) => InQueue(c2', p))
        BY <1>t, <2>4, <3>2, QueueFacts
      <4> QED  BY <2>1, <4>1, <4>2 DEF OnTheWay
    <3> QED  BY <2>3, <3>1, <3>2
  <2> QED  BY <2>1, <2>2, <2>5, NoneLostKept
<1>5. CASE DiffApplies
  <2>0. UNCHANGED <<rI, rPend>>
    BY <1>5 DEF DiffApplies, recvVars
  <2>1. CASE DiffNext
    <3>1. c2 # <<>> /\ c2' = Tail(c2) /\ walkQ' = walkQ /\ diffErr = "none"
      BY <2>1 DEF DiffNext, DiffShape
    <3>q. PICK q \in Entries : q = Head(c2)
      BY <1>t, <3>1, TailFacts
    <3>2. \A p \in Entries : p # q /\ OnTheWay(p) => OnTheWay(p)'
      BY <1>t, <2>0, <3>1, <3>q, QueueFacts DEF OnTheWay
    <3>3. CASE UNCHANGED <<async, dest>> /\ sameFile(dest[q], q)
      <4>1. \A p : Seen(p)' = Seen(p)
        BY <3>3 DEF Seen
      <4>2. Seen(q)
        BY <1>l, <3>3, SameIsSynced DEF CInv, Seen
      <4> QED  BY <2>0, <3>1, <3>2, <4>1, <4>2, NoneLostKept
    <3>4. CASE diffErr' # "none" /\ UNCHANGED <<async, dest>>
      <4>1. \A p : Seen(p)' = Seen(p)
        BY <3>4 DEF Seen
      <4> QED  BY <2>0, <3>2, <3>4, <4>1, NoneLostKept
    <3>5. CASE HandleChange(q) /\ UNCHANGED diffErr
      <4>1. \A p \in Entries : p # q => dest'[p] = dest[p] /\ async'[p] = async[p]
        BY <1>t, <3>5 DEF HandleChange
      <4>2. Seen(q)'
        <5>1. CASE Kind[q] = "file"
          BY <1>t, <3>5, <5>1 DEF HandleChange, Seen
        <5>2. CASE Kind[q] # "file"
          <6>1. dest'[q] = Created
            BY <1>t, <3>5 DEF HandleChange
          <6>2. Synced(q) = Created
            BY <5>2 DEF Synced, Created
          <6> QED  BY <6>1, <6>2 DEF Seen, Synced, Content
        <5> QED  BY <5>1, <5>2
      <4>3. \A p \in Entries : Seen(p) => Seen(p)'
        <5>1. \A p \in Entries : p # q /\ Seen(p) => Seen(p)'
          BY <4>1 DEF Seen, Synced, Content
        <5> QED  BY <4>2, <5>1
      <4> QED  BY <2>0, <3>1, <3>2, <3>5, <4>2, <4>3, NoneLostKept
    <3> QED  BY <2>1, <3>3, <3>4, <3>5, <3>q DEF DiffNext
  <2>2. CASE DiffCanceled \/ DiffJoins \/ DiffWaits
    <3>1. UNCHANGED <<c2, walkQ, async, dest>>
      BY <2>2 DEF DiffCanceled, DiffJoins, DiffWaits, walkerVars, diskVars
    <3>2. diffErr # "none" => diffErr' # "none"
      BY <2>2 DEF DiffCanceled, DiffJoins, DiffWaits, FirstErr, DiffShape
    <3>3. \A p \in Entries : OnTheWay(p)' = OnTheWay(p) /\ Seen(p)' = Seen(p)
      BY <2>0, <3>1 DEF OnTheWay, Seen
    <3> QED  BY <2>0, <3>2, <3>3, NoneLostKept
  <2> QED  BY <1>5, <2>1, <2>2 DEF DiffApplies
<1>6. CASE RecvGetsData
  <2>1. UNCHANGED <<rI, c2, walkQ, rPend, async, diffErr>>
    BY <1>6 DEF RecvGetsData, walkerVars, diffVars
  <2>q. PICK q \in Entries : rPipes[Head(toR).id] = q /\ async[q].pc # "none"
    BY <1>l, <1>6, DataTarget
  <2>2. \A p \in Entries : p # q => dest'[p] = dest[p]
    BY <1>t, <1>6, <2>q DEF RecvGetsData
  <2>3. \A p \in Entries : Seen(p) => Seen(p)'
    BY <2>1, <2>q, <2>2 DEF Seen, Synced, Content
  <2>4. \A p \in Entries : OnTheWay(p)' = OnTheWay(p)
    BY <2>1 DEF OnTheWay
  <2> QED  BY <2>1, <2>3, <2>4, NoneLostKept
<1>7. ASSUME NEW q \in Entries, Async(q) PROVE NoneLost'
  <2>1. UNCHANGED <<rI, c2, walkQ, rPend, diffErr>>
    BY <1>7 DEF Async, recvVars, walkerVars, diffVars
  <2>2. async'[q].pc # "none"
    <3>1. CASE AsyncRegisters(q)
      <4>1. \/ async' = [async EXCEPT ![q].pc = "failed"]
            \/ async' = [async EXCEPT ![q] = [pc |-> "req", id |-> rFiles[q]]]
        BY <3>1 DEF AsyncRegisters, AsyncFails
      <4>2. CASE async' = [async EXCEPT ![q].pc = "failed"]
        BY <1>t, <4>2 DEF AsyncSet
      <4>3. CASE async' = [async EXCEPT ![q] = [pc |-> "req", id |-> rFiles[q]]]
        BY <1>t, <4>3
      <4> QED  BY <4>1, <4>2, <4>3
    <3>2. CASE AsyncSendsReq(q)
      BY <1>t, <3>2 DEF AsyncSendsReq, AsyncFails, AsyncSet
    <3>3. CASE AsyncWaits(q)
      BY <1>t, <3>3 DEF AsyncWaits, AsyncFails, AsyncSet
    <3>4. CASE AsyncFinishes(q)
      BY <1>t, <3>4 DEF AsyncFinishes, AsyncFails, AsyncSet
    <3> QED  BY <1>7, <3>1, <3>2, <3>3, <3>4 DEF Async
  <2>3. \A p \in Entries : p # q => async'[p] = async[p] /\ dest'[p] = dest[p]
    BY <1>t, <1>7 DEF Async, AsyncRegisters, AsyncSendsReq, AsyncWaits, AsyncFinishes, AsyncFails
  <2>4. \A p \in Entries : Seen(p) => Seen(p)'
    BY <2>2, <2>3 DEF Seen, Synced, Content
  <2>5. \A p \in Entries : OnTheWay(p)' = OnTheWay(p)
    BY <2>1 DEF OnTheWay
  <2> QED  BY <2>1, <2>4, <2>5, NoneLostKept
<1>8. CASE RecvGetsErr \/ RecvGetsFin \/ RecvDrains \/ RecvEOF \/ RecvLoopFails \/ RecvGetsLast
  BY <1>1, <1>8 DEF RecvGetsErr, RecvGetsFin, RecvDrains, RecvEOF, RecvLoopFails, RecvGetsLast,
                    receiverVars, recvVars, walkerVars, diffVars, diskVars
<1>9. CASE DiffSendsFin \/ DiffSendsErr \/ ReceiveReturns \/ ConnFails \/ UNCHANGED vars \/ UNCHANGED receiverVars
  BY <1>1, <1>9 DEF DiffSendsFin, DiffSendsErr, ReceiveReturns, ConnFails, vars, receiverVars, recvVars,
                    walkerVars, diffVars, diskVars
<1> QED  BY <1>2, <1>3, <1>4, <1>5, <1>6, <1>7, <1>8, <1>9 DEF Next, ReceiverStep, ReceiverLoop, Diff, Over

-----------------------------------------------------------------------------
(* The diff waits for the files only after the whole walk.                 *)
LEMMA WaitKept ==
  ASSUME LInv, DiffShape, WalkWhole, AllSeen, [Next]_vars
  PROVE  diff' = "wait" \/ EndsWell' =>
           walkClosed' /\ walkQ' = <<>> /\ c2' = <<>> /\ diffErr' = "none"
<1> USE DEF AllSeen
<1>k. rErr' = "none" => rErr = "none"
  BY KnownKept
<1>0. CASE UNCHANGED <<diff, diffErr, walkQ, c2>> /\ (walkClosed => walkClosed')
  BY <1>k, <1>0 DEF EndsWell
<1>1. CASE RecvUpdates
  <2>1. UNCHANGED <<diff, diffErr, walkClosed, c2>> /\ rPend # <<>>
    BY <1>1 DEF RecvUpdates, diffVars, LInv, GInv, TInv, RecvShape
  <2>2. ~walkClosed
    BY <2>1 DEF WalkWhole
  <2> QED  BY <1>k, <2>1, <2>2 DEF EndsWell
<1>2. CASE ReceiverLoop /\ ~RecvUpdates
  <2>1. UNCHANGED <<diff, diffErr, walkQ, c2>> /\ (walkClosed' = walkClosed \/ walkClosed' = TRUE)
    BY <1>2 DEF ReceiverLoop, RecvGetsErr, RecvGetsLast, RecvGetsStat, RecvGetsFin, RecvDrains, RecvEOF,
                RecvLoopFails, RecvGetsData, receiverVars, walkerVars, diffVars
  <2> QED  BY <1>0, <2>1
<1>3. CASE Fill
  <2>1. UNCHANGED <<diff, diffErr, walkClosed>> /\ (walkQ # <<>> \/ UNCHANGED <<walkQ, c2>>)
    BY <1>3 DEF Fill, FillMoves, FillEnds, FillCanceled, diffVars
  <2> QED  BY <1>k, <1>0, <2>1 DEF EndsWell
<1>4. CASE DiffNext \/ DiffCanceled
  BY <1>4 DEF DiffNext, DiffCanceled, EndsWell
<1>5. CASE DiffJoins
  <2>1. fill \in {"done", "failed"} /\ diff' \in {"wait", "err"} /\ UNCHANGED walkerVars
    BY <1>5 DEF DiffJoins, LInv, GInv, TInv, ReceiverTypeOK
  <2>2. diff' = "wait" => diffErr' = "none" /\ diff = "diff" /\ c2 = <<>> /\ fill # "failed"
    BY <1>5 DEF DiffJoins, FirstErr, DiffShape
  <2> QED  BY <2>1, <2>2 DEF WalkWhole, EndsWell, walkerVars
<1>6. CASE DiffWaits
  BY <1>6 DEF DiffWaits, EndsWell, walkerVars
<1>7. CASE DiffSendsFin
  BY <1>k, <1>7 DEF DiffSendsFin, EndsWell, walkerVars
<1>8. CASE DiffSendsErr
  <2>1. diff' = "done" /\ rErr' # "none"
    BY <1>8 DEF DiffSendsErr, FirstErr, ReportedErr, DiffShape
  <2> QED  BY <2>1 DEF EndsWell
<1>9. CASE ReceiveReturns \/ ConnFails \/ UNCHANGED vars \/ UNCHANGED receiverVars
  BY <1>0, <1>9 DEF ReceiveReturns, ConnFails, vars, receiverVars, walkerVars, diffVars
<1>10. ASSUME NEW p \in Entries, Async(p)
       PROVE  UNCHANGED <<diff, diffErr, walkQ, walkClosed, c2>>
  BY <1>10 DEF Async, walkerVars, diffVars
<1> QED  BY <1>0, <1>1, <1>2, <1>3, <1>4, <1>5, <1>6, <1>7, <1>8, <1>9, <1>10
         DEF Next, ReceiverStep, Diff, DiffApplies, Over

(* It ends without an error only when the files have ended without one.    *)
LEMMA OverKept ==
  ASSUME LInv, DiffShape, AllSeen, [Next]_vars
  PROVE  /\ EndsWell' => AsyncOver' /\ egErr' = "none"
         /\ rRet' = "ok" => rErr' = "none"
<1> USE DEF AllSeen
<1>k. rErr' = "none" => rErr = "none"
  BY KnownKept
<1>t. rErr \in Causes /\ "ok" \notin Causes
  BY DEF LInv, GInv, TInv, ReceiverTypeOK, Causes
<1>0. CASE UNCHANGED <<diff, async, egErr, rRet>> /\ (rErr' = rErr \/ rRet # "ok")
  BY <1>k, <1>0 DEF EndsWell, AsyncOver
<1>1. CASE ReceiverLoop
  <2>1. UNCHANGED <<diff, async, egErr, rRet>> /\ rRecv # "done"
    BY <1>1 DEF ReceiverLoop, RecvGetsErr, RecvGetsLast, RecvGetsStat, RecvUpdates, RecvGetsFin, RecvDrains,
                RecvEOF, RecvLoopFails, RecvGetsData, receiverVars, diffVars, diskVars, retVars
  <2> QED  BY <1>0, <2>1 DEF DiffShape
<1>2. CASE DiffApplies
  <2>1. UNCHANGED <<rRet, rErr>>
    BY <1>2 DEF DiffApplies, retVars
  <2>2. CASE DiffNext \/ DiffCanceled
    BY <2>1, <2>2 DEF DiffNext, DiffCanceled, EndsWell
  <2>3. CASE DiffJoins
    BY <2>1, <2>3 DEF DiffJoins, EndsWell
  <2>4. CASE DiffWaits
    BY <2>1, <2>4 DEF DiffWaits, EndsWell, diskVars, AsyncOver
  <2> QED  BY <1>2, <2>2, <2>3, <2>4 DEF DiffApplies
<1>3. CASE DiffSendsFin
  BY <1>k, <1>3 DEF DiffSendsFin, EndsWell, diskVars, retVars, AsyncOver
<1>4. CASE DiffSendsErr
  <2>1. diff' = "done" /\ rErr' # "none"
    BY <1>4 DEF DiffSendsErr, FirstErr, ReportedErr, DiffShape
  <2>2. rRet = "none" /\ rRet' = rRet
    BY <1>4 DEF DiffSendsErr, DiffShape, retVars
  <2> QED  BY <2>1, <2>2 DEF EndsWell
<1>5. CASE ReceiveReturns
  <2>1. UNCHANGED <<diff, async, egErr, rErr>> /\ (rRet' = "ok" => rErr = "none")
    BY <1>t, <1>5 DEF ReceiveReturns, diffVars, diskVars
  <2> QED  BY <2>1 DEF EndsWell, AsyncOver
<1>6. CASE Fill \/ ConnFails \/ UNCHANGED vars \/ UNCHANGED receiverVars
  BY <1>0, <1>6 DEF Fill, ConnFails, vars, receiverVars, diffVars, diskVars, retVars
<1>7. ASSUME NEW p \in Entries, Async(p)
      PROVE  ~AsyncOver /\ UNCHANGED <<diff, rErr, rRet>>
  BY <1>7 DEF Async, AsyncRegisters, AsyncSendsReq, AsyncWaits, AsyncFinishes, AsyncOver, diffVars, retVars
<1>8. CASE \E p \in Entries : Async(p)
  BY <1>7, <1>8 DEF EndsWell
<1> QED  BY <1>1, <1>2, <1>3, <1>4, <1>5, <1>6, <1>8 DEF Next, ReceiverStep, Diff, Over

(* A file whose goroutine has ended carries the source's metadata.         *)
LEMMA DoneKept ==
  ASSUME LInv, FinLast, AllSeen, [Next]_vars
  PROVE  \A p \in Entries : async'[p].pc = "done" => dest'[p].meta = "src"
<1> USE DEF AllSeen
<1>t. /\ c2 \in Seq(Entries) /\ async \in [Entries -> AsyncSet]
      /\ dest \in [Entries -> [data : Seq(Chunk), meta : {"old", "src", "now"}]]
  BY DEF LInv, GInv, TInv, ReceiverTypeOK
<1>1. CASE UNCHANGED <<async, dest>>
  BY <1>1
<1>2. CASE RecvGetsData
  <2>1. async' = async
    BY <1>2 DEF RecvGetsData
  <2>2. PICK q \in Entries : rPipes[Head(toR).id] = q /\ pipe[q] = "open"
    BY <1>2, DataTarget
  <2>3. \A p \in Entries : p # q => dest'[p] = dest[p]
    BY <1>t, <1>2, <2>2 DEF RecvGetsData
  <2>4. async[q].pc # "done"
    BY <2>2 DEF FinLast
  <2> QED  BY <2>1, <2>3, <2>4
<1>3. CASE DiffNext
  <2>1. PICK q \in Entries : q = Head(c2)
    BY <1>t, <1>3, TailFacts DEF DiffNext
  <2>2. CASE HandleChange(q)
    BY <1>t, <2>2 DEF HandleChange, Created
  <2> QED  BY <1>1, <1>3, <2>1, <2>2 DEF DiffNext
<1>4. CASE DiffCanceled \/ DiffJoins \/ DiffWaits \/ DiffSendsFin \/ DiffSendsErr
  BY <1>1, <1>4 DEF DiffCanceled, DiffJoins, DiffWaits, DiffSendsFin, DiffSendsErr, diskVars
<1>5. ASSUME NEW q \in Entries, Async(q)
      PROVE  \A p \in Entries : async'[p].pc = "done" => dest'[p].meta = "src"
  <2>1. \A p \in Entries : p # q => async'[p] = async[p] /\ dest'[p] = dest[p]
    BY <1>t, <1>5 DEF Async, AsyncRegisters, AsyncSendsReq, AsyncWaits, AsyncFinishes, AsyncFails
  <2>2. async'[q].pc = "done" => dest'[q].meta = "src"
    <3>1. CASE AsyncRegisters(q)
      <4>1. \/ async' = [async EXCEPT ![q].pc = "failed"]
            \/ async' = [async EXCEPT ![q] = [pc |-> "req", id |-> rFiles[q]]]
        BY <3>1 DEF AsyncRegisters, AsyncFails
      <4>2. CASE async' = [async EXCEPT ![q].pc = "failed"]
        BY <1>t, <4>2 DEF AsyncSet
      <4>3. CASE async' = [async EXCEPT ![q] = [pc |-> "req", id |-> rFiles[q]]]
        BY <1>t, <4>3
      <4> QED  BY <4>1, <4>2, <4>3
    <3>2. CASE AsyncSendsReq(q)
      BY <1>t, <3>2 DEF AsyncSendsReq, AsyncFails, AsyncSet
    <3>3. CASE AsyncWaits(q)
      BY <1>t, <3>3 DEF AsyncWaits, AsyncFails, AsyncSet
    <3>4. CASE AsyncFinishes(q)
      BY <1>t, <3>4 DEF AsyncFinishes, AsyncFails, AsyncSet
    <3> QED  BY <1>5, <3>1, <3>2, <3>3, <3>4 DEF Async
  <2> QED  BY <2>1, <2>2
<1>6. CASE \/ RecvGetsErr \/ RecvGetsLast \/ RecvGetsStat \/ RecvUpdates \/ RecvGetsFin
           \/ RecvDrains \/ RecvEOF \/ RecvLoopFails
  BY <1>1, <1>6 DEF RecvGetsErr, RecvGetsLast, RecvGetsStat, RecvUpdates, RecvGetsFin,
                    RecvDrains, RecvEOF, RecvLoopFails, receiverVars, diskVars
<1>7. CASE Fill \/ ReceiveReturns \/ ConnFails \/ UNCHANGED vars \/ UNCHANGED receiverVars
  BY <1>1, <1>7 DEF Fill, ReceiveReturns, ConnFails, vars, receiverVars, diskVars
<1> QED  BY <1>2, <1>3, <1>4, <1>5, <1>6, <1>7 DEF Next, ReceiverStep, ReceiverLoop, Diff, DiffApplies, Over

LEMMA InitWhole == Init => QInv
<1> SUFFICES ASSUME Init PROVE QInv
  OBVIOUS
<1>1. Len(toR) = 0 /\ rI = 0 /\ rMeta = <<>> /\ rRet = "none" /\ ~walkClosed /\ fill = "run"
      /\ diff = "diff" /\ diffErr = "none" /\ egErr = "none" /\ rErr = "none"
      /\ \A p \in Entries : async[p].pc = "none"
  BY EmptySeq DEF Init, WireInit, ReceiverInit, NoAsync
<1>2. WalkWhole
  BY <1>1 DEF WalkWhole, LastAlone
<1>3. AllListed
  <2>1. [k \in 1..0 |-> k] = <<>>
    OBVIOUS
  <2> QED  BY <1>1, <2>1 DEF AllListed
<1>4. NoneLost
  <2>1. \A p \in Entries : ~(p <= 0)
    BY EntryFacts
  <2> QED  BY <1>1, <2>1 DEF NoneLost
<1>5. AllSeen /\ DiffShape
  BY <1>1 DEF AllSeen, EndsWell, DiffShape
<1> QED  BY <1>2, <1>3, <1>4, <1>5, InitContent, InitFin DEF QInv

LEMMA StepWhole ==
  ASSUME NoneSkipped
  PROVE  QInv /\ [Next]_vars => QInv'
<1> SUFFICES ASSUME QInv, [Next]_vars PROVE QInv'
  OBVIOUS
<1>1. LInv /\ CInv /\ TInv
  BY DEF QInv, CInv, LInv, GInv
<1>2. CInv' /\ FinLast' /\ DiffShape'
  BY <1>1, StepContent, StepFin, ShapeKept DEF QInv
<1>3. WalkWhole' /\ AllListed' /\ NoneLost'
  BY <1>1, WholeKept, ListedKept, LostKept DEF QInv
<1>4. AllSeen'
  <2>1. diff' = "wait" \/ EndsWell' =>
           walkClosed' /\ walkQ' = <<>> /\ c2' = <<>> /\ diffErr' = "none"
    BY <1>1, WaitKept DEF QInv
  <2>2. (EndsWell' => AsyncOver' /\ egErr' = "none") /\ (rRet' = "ok" => rErr' = "none")
    BY <1>1, OverKept DEF QInv
  <2>3. \A p \in Entries : async'[p].pc = "done" => dest'[p].meta = "src"
    BY <1>1, DoneKept DEF QInv
  <2> QED  BY <2>1, <2>2, <2>3 DEF AllSeen
<1> QED  BY <1>2, <1>3, <1>4 DEF QInv

-----------------------------------------------------------------------------
(* Where the diff ended without an error, every entry is as in the source, *)
(* but for a file that could not be opened.                                *)
LEMMA CarriedWhole ==
  ASSUME QInv, EndsWell, NEW p \in Entries, ~MetaOnly(p)
  PROVE  \/ dest[p] = Synced(p)
         \/ fault = "open" /\ dest[p] = [Synced(p) EXCEPT !.data = <<>>]
<1>1. /\ dest[p] \in [data : Seq(Chunk), meta : {"old", "src", "now"}]
      /\ async[p] \in AsyncSet
  BY DEF QInv, CInv, LInv, GInv, TInv, ReceiverTypeOK
<1>2. /\ c2 = <<>> /\ walkQ = <<>> /\ rPend = <<>> /\ diffErr = "none" /\ rI = N
      /\ AsyncOver /\ egErr = "none"
  BY DEF QInv, AllSeen, WalkWhole
<1>3. Seen(p)
  <2>1. ~OnTheWay(p)
    BY <1>2, EmptySeq DEF OnTheWay, InQueue
  <2>2. p <= rI
    BY <1>2, EntryFacts
  <2> QED  BY <1>2, <2>1, <2>2 DEF QInv, NoneLost
<1>4. CASE async[p].pc # "none"
  <2>1. async[p].pc = "done"
    BY <1>2, <1>4 DEF AsyncOver, QInv, FinLast
  <2>2. dest[p].meta = "src" /\ pipe[p] = "closed" /\ Kind[p] = "file"
    BY <1>4, <2>1 DEF QInv, AllSeen, FinLast, CInv, FilesOnly
  <2>3. Got(p) = Chunks[p] \/ NotRead(p)
    BY <2>2 DEF QInv, CInv, ContentOf, EndsWhole
  <2>4. CASE Got(p) = Chunks[p]
    <3>1. sameFile(dest[p], p)
      BY <2>2, <2>4 DEF sameFile, Size, Got
    <3> QED  BY <3>1, SameIsSynced DEF QInv
  <2>5. CASE NotRead(p)
    <3>1. dest[p].data = <<>> /\ fault = "open"
      <4>1. Len(dest[p].data) = 0 /\ dest[p].data \in Seq(Chunk)
        BY <1>1, <2>5 DEF NotRead, Got
      <4> QED  BY <2>5, <4>1, EmptySeq DEF NotRead
    <3>2. dest[p] = [data |-> <<>>, meta |-> "src"]
      BY <1>1, <2>2, <3>1
    <3>3. [Synced(p) EXCEPT !.data = <<>>] = [data |-> <<>>, meta |-> "src"]
      BY DEF Synced
    <3> QED  BY <3>1, <3>2, <3>3
  <2> QED  BY <2>3, <2>4, <2>5
<1> QED  BY <1>3, <1>4 DEF Seen

(* Success means that everything was carried, and listed (receive.go:      *)
(* 217-225, 356-364): for every tree, any capacities, any interleaving.    *)
THEOREM SuccessMeansCompleteHolds ==
  ASSUME NoneSkipped
  PROVE  Spec => []SuccessMeansComplete
<1>1. QInv => SuccessMeansComplete
  <2> SUFFICES ASSUME QInv, rRet = "ok" PROVE SuccessMeansComplete
    BY DEF SuccessMeansComplete
  <2>1. EndsWell
    BY DEF QInv, AllSeen, DiffShape, EndsWell
  <2>2. ASSUME NEW p \in Carried
        PROVE  \/ dest[p] = Synced(p)
               \/ fault = "open" /\ dest[p] = [Synced(p) EXCEPT !.data = <<>>]
    <3>1. p \in Entries /\ ~MetaOnly(p)
      BY ReceiverAssumption DEF Carried, MetaOnly
    <3> QED  BY <2>1, <3>1, CarriedWhole
  <2>3. ASSUME MetadataTransfer PROVE metaFile = Listed
    <3>1. MetaPath = NoPath
      BY <2>3, ReceiverAssumption DEF NoneSkipped, Skipped
    <3>2. metaFile = [k \in 1..rI |-> k] /\ rI = N
      BY <2>1, <2>3 DEF QInv, AllListed, AllSeen, WalkWhole
    <3> QED  BY <3>1, <3>2 DEF Listed, Entries
  <2> QED  BY <2>2, <2>3 DEF SuccessMeansComplete
<1> QED  BY <1>1, InitWhole, StepWhole, PTL DEF Spec

-----------------------------------------------------------------------------
(* The two programs and Sync: the refinement mapping of Promise, named.    *)
InSync  == {p \in Entries : dest[p] = Synced(p)}
Outcome == CASE rRet = "none" -> "running"
             [] rRet = "ok"   -> "ok"
             [] OTHER         -> "failed"

SyncStep == [Promise!Next]_<<InSync, Outcome>>

LEMMA InSyncNext == InSync' = {p \in Entries : dest'[p] = Synced(p)}
  BY DEF InSync, Synced, Content

(* A step on one entry.                                                    *)
LEMMA OneEntry ==
  ASSUME NEW q \in Entries, \A p \in Entries : p # q => dest'[p] = dest[p]
  PROVE  \/ InSync' = InSync \cup {q}
         \/ InSync' = InSync \ {q} /\ q \notin InSync'
<1>1. InSync' = {p \in Entries : dest'[p] = Synced(p)}
  BY InSyncNext
<1>2. \A p \in Entries : p # q => (p \in InSync' <=> p \in InSync)
  BY <1>1 DEF InSync
<1>3. InSync \subseteq Entries /\ InSync' \subseteq Entries
  BY <1>1 DEF InSync
<1>4. CASE q \in InSync'
  BY <1>2, <1>3, <1>4
<1>5. CASE q \notin InSync'
  BY <1>2, <1>3, <1>5
<1> QED  BY <1>4, <1>5

LEMMA StaysSame ==
  ASSUME InSync' = InSync, rRet' = rRet
  PROVE  SyncStep
<1>1. Outcome' = Outcome
  BY DEF Outcome
<1> QED  BY <1>1 DEF SyncStep

LEMMA DestSame ==
  ASSUME UNCHANGED <<dest, rRet>>
  PROVE  SyncStep
<1>1. InSync' = InSync
  BY InSyncNext DEF InSync
<1> QED  BY <1>1, StaysSame

LEMMA Completes ==
  ASSUME NEW q \in Entries, InSync' = InSync \cup {q}, rRet # "ok", rRet' = rRet
  PROVE  SyncStep
<1>1. Outcome # "ok" /\ Outcome' = Outcome
  BY DEF Outcome
<1>2. Promise!Complete(q)
  BY <1>1 DEF Promise!Complete, InSync, Outcome
<1> QED  BY <1>2 DEF SyncStep, Promise!Next

LEMMA Refetches ==
  ASSUME NEW q \in Entries, Merge, InSync' = InSync \ {q}, rRet = "none", rRet' = rRet
  PROVE  SyncStep
<1>1. Outcome = "running" /\ Outcome' = Outcome
  BY DEF Outcome
<1>2. Promise!Refetch(q)
  BY <1>1 DEF Promise!Refetch, InSync, Outcome
<1> QED  BY <1>2 DEF SyncStep, Promise!Next

(* DATA reaches only a file that is not complete, and is not the last      *)
(* thing that happens to it.                                               *)
LEMMA DataStep ==
  ASSUME QInv, RecvGetsData
  PROVE  SyncStep
<1>t. /\ LInv
      /\ dest \in [Entries -> [data : Seq(Chunk), meta : {"old", "src", "now"}]]
  BY DEF QInv, CInv, LInv, GInv, TInv, ReceiverTypeOK
<1>1. PICK q \in Entries :
        /\ rPipes[Head(toR).id] = q /\ pipe[q] = "open"
        /\ async[q].pc \notin {"none", "start", "req"}
        /\ 1 \in 1..Len(toR) /\ toR[1] = Head(toR) /\ IsData(toR[1], q)
  BY <1>t, DataTarget
<1>r. rRet' = rRet
  BY DEF RecvGetsData, retVars
<1>2. CASE dest' = dest
  BY <1>r, <1>2, DestSame
<1>3. CASE Head(toR).data # Eof /\ dest' = [dest EXCEPT ![q] = Written(dest[q], Head(toR).data)]
  <2>1. \A p \in Entries : p # q => dest'[p] = dest[p]
    BY <1>t, <1>3
  <2>2. dest'[q] # Synced(q)
    <3>1. dest'[q].meta = "now"
      BY <1>t, <1>3 DEF Written
    <3> QED  BY <3>1 DEF Synced
  <2>3. dest[q] # Synced(q)
    <3>1. IsChunk(toR[1], q) /\ Kind[q] = "file"
      BY <1>1, <1>3 DEF IsChunk, QInv, CInv, FilesOnly
    <3>2. Got(q) < toR[1].data[2] /\ toR[1].data[2] <= Chunks[q]
      BY <1>1, <3>1 DEF QInv, CInv, ContentOf, Arrives
    <3>3. Got(q) \in Nat /\ Chunks[q] \in Nat /\ toR[1].data[2] \in Nat
      BY <1>1, <1>t, <3>1, ContentTypes DEF IsChunk
    <3>4. Got(q) # Size(q)
      BY <3>1, <3>2, <3>3 DEF Size
    <3> QED  BY <3>4, SyncedFacts DEF Got
  <2>4. InSync' = InSync
    <3>1. q \notin InSync /\ q \notin InSync'
      BY <2>2, <2>3, InSyncNext DEF InSync
    <3> QED  BY <2>1, <3>1, OneEntry
  <2> QED  BY <1>r, <2>4, StaysSame
<1> QED  BY <1>1, <1>2, <1>3 DEF RecvGetsData

(* A change makes an entry complete, or takes a complete one back, which   *)
(* only a merge does.                                                      *)
LEMMA ChangeStep ==
  ASSUME QInv, DiffNext, rRet' = rRet
  PROVE  SyncStep
<1>t. /\ c2 \in Seq(Entries) /\ c2 # <<>>
      /\ dest \in [Entries -> [data : Seq(Chunk), meta : {"old", "src", "now"}]]
  BY DEF QInv, CInv, LInv, GInv, TInv, ReceiverTypeOK, DiffNext
<1>1. PICK q \in Entries : q = Head(c2)
  BY <1>t, TailFacts
<1>r. rRet = "none"
  BY DEF DiffNext, QInv, DiffShape
<1>2. CASE dest' = dest
  BY <1>2, DestSame
<1>3. CASE HandleChange(q) /\ (Merge \/ ~sameFile(dest[q], q))
  <2>1. \A p \in Entries : p # q => dest'[p] = dest[p]
    BY <1>t, <1>3 DEF HandleChange
  <2>2. CASE InSync' = InSync \cup {q}
    BY <1>r, <2>2, Completes
  <2>3. CASE InSync' = InSync \ {q}
    <3>1. CASE q \in InSync
      <4>1. sameFile(dest[q], q)
        BY <3>1, SyncedFacts DEF InSync
      <4> QED  BY <1>r, <1>3, <2>3, <4>1, Refetches
    <3>2. CASE q \notin InSync
      <4>1. InSync' = InSync
        BY <2>3, <3>2
      <4> QED  BY <4>1, StaysSame
    <3> QED  BY <3>1, <3>2
  <2> QED  BY <2>1, <2>2, <2>3, OneEntry
<1> QED  BY <1>1, <1>2, <1>3 DEF DiffNext

(* A goroutine ends its file before Receive returns without error.         *)
LEMMA FileStep ==
  ASSUME QInv, NEW q \in Entries, Async(q)
  PROVE  SyncStep
<1>t. dest \in [Entries -> [data : Seq(Chunk), meta : {"old", "src", "now"}]]
  BY DEF QInv, CInv, LInv, GInv, TInv, ReceiverTypeOK
<1>r. rRet' = rRet
  BY DEF Async, retVars
<1>1. rRet # "ok"
  <2>1. ~AsyncOver
    BY DEF Async, AsyncRegisters, AsyncSendsReq, AsyncWaits, AsyncFinishes, AsyncOver
  <2> QED  BY <2>1 DEF QInv, AllSeen, DiffShape, EndsWell
<1>2. CASE dest' = dest
  BY <1>r, <1>2, DestSame
<1>3. CASE dest' = [dest EXCEPT ![q].meta = "src"]
  <2>1. \A p \in Entries : p # q => dest'[p] = dest[p]
    BY <1>t, <1>3
  <2>2. CASE InSync' = InSync \cup {q}
    BY <1>r, <1>1, <2>2, Completes
  <2>3. CASE InSync' = InSync \ {q} /\ q \notin InSync'
    <3>1. q \notin InSync
      <4> SUFFICES ASSUME dest[q] = Synced(q) PROVE q \in InSync'
        BY <2>3 DEF InSync
      <4>1. dest[q].meta = "src"
        BY DEF Synced
      <4>2. dest'[q] = dest[q]
        BY <1>t, <1>3, <4>1
      <4> QED  BY <4>2, InSyncNext
    <3>2. InSync' = InSync
      BY <2>3, <3>1
    <3> QED  BY <1>r, <3>2, StaysSame
  <2> QED  BY <2>1, <2>2, <2>3, OneEntry
<1> QED  BY <1>2, <1>3 DEF Async, AsyncRegisters, AsyncSendsReq, AsyncWaits, AsyncFinishes

(* Receive returns: without error only when everything was carried.        *)
LEMMA ReturnStep ==
  ASSUME QInv, "open" \notin Faults, ReceiveReturns
  PROVE  SyncStep
<1>1. /\ rRet = "none" /\ dest' = dest /\ rErr \in Causes /\ "ok" \notin Causes
      /\ rRet' = IF rErr = "none" THEN "ok" ELSE rErr
  BY DEF ReceiveReturns, diskVars, QInv, CInv, LInv, GInv, TInv, ReceiverTypeOK, Causes
<1>2. InSync' = InSync /\ Outcome = "running"
  BY <1>1, InSyncNext DEF InSync, Outcome
<1>3. CASE rErr = "none"
  <2>1. EndsWell /\ fault # "open"
    BY <1>3 DEF ReceiveReturns, EndsWell, QInv, CInv, LInv, GInv, TInv, SInv, SenderTypeOK
  <2>2. Carried \subseteq InSync
    <3> SUFFICES ASSUME NEW p \in Carried PROVE p \in InSync
      OBVIOUS
    <3>1. p \in Entries /\ ~MetaOnly(p)
      BY ReceiverAssumption DEF Carried, MetaOnly
    <3> QED  BY <2>1, <3>1, CarriedWhole DEF InSync
  <2>3. Outcome' = "ok"
    BY <1>1, <1>3 DEF Outcome
  <2>4. Promise!Succeed
    BY <1>2, <2>2, <2>3 DEF Promise!Succeed, InSync, Outcome
  <2> QED  BY <2>4 DEF SyncStep, Promise!Next
<1>4. CASE rErr # "none"
  <2>1. Outcome' = "failed"
    BY <1>1, <1>4 DEF Outcome
  <2>2. Promise!Fail
    BY <1>2, <2>1 DEF Promise!Fail, InSync, Outcome
  <2> QED  BY <2>2 DEF SyncStep, Promise!Next
<1> QED  BY <1>3, <1>4

LEMMA StepPromised ==
  ASSUME QInv, "open" \notin Faults, [Next]_vars
  PROVE  SyncStep
<1>1. CASE UNCHANGED <<dest, rRet>>
  BY <1>1, DestSame
<1>2. CASE DiffApplies
  <2>1. CASE DiffNext
    BY <1>2, <2>1, ChangeStep DEF DiffApplies, retVars
  <2>2. CASE DiffCanceled \/ DiffJoins \/ DiffWaits
    BY <1>1, <1>2, <2>2 DEF DiffApplies, DiffCanceled, DiffJoins, DiffWaits, diskVars, retVars
  <2> QED  BY <1>2, <2>1, <2>2 DEF DiffApplies
<1>3. CASE \/ RecvGetsErr \/ RecvGetsLast \/ RecvGetsStat \/ RecvUpdates \/ RecvGetsFin
           \/ RecvDrains \/ RecvEOF \/ RecvLoopFails
  BY <1>1, <1>3 DEF RecvGetsErr, RecvGetsLast, RecvGetsStat, RecvUpdates, RecvGetsFin,
                    RecvDrains, RecvEOF, RecvLoopFails, receiverVars, diskVars, retVars
<1>4. CASE Fill \/ DiffSendsFin \/ DiffSendsErr \/ ConnFails \/ UNCHANGED vars \/ UNCHANGED receiverVars
  BY <1>1, <1>4 DEF Fill, DiffSendsFin, DiffSendsErr, ConnFails, vars, receiverVars, diskVars, retVars
<1> QED  BY <1>2, <1>3, <1>4, DataStep, FileStep, ReturnStep
         DEF Next, ReceiverStep, ReceiverLoop, Diff, Over

(* The two programs keep Receive's promise: Transfer implements Sync, when *)
(* every file of the source can be opened (receive.go:217-225, 356-364).   *)
THEOREM ImplementsSyncHolds ==
  ASSUME NoneSkipped, "open" \notin Faults
  PROVE  Spec => ImplementsSync
<1>1. Init => Promise!Init
  BY DEF Init, ReceiverInit, Promise!Init
<1>2. QInv /\ [Next]_vars => [Promise!Next]_<<InSync, Outcome>>
  BY StepPromised DEF SyncStep
<1> QED  BY <1>1, <1>2, InitWhole, StepWhole, PTL DEF Spec, ImplementsSync, Promise!Spec, InSync, Outcome
=============================================================================
