------------------------------- MODULE Sender -------------------------------
(***************************************************************************)
(* Send (send.go): the goroutines of one sender.  They are                 *)
(*   - the walk, which announces every entry with a STAT packet;           *)
(*   - the workers, which send the contents asked for;                     *)
(*   - the receive loop, which turns REQ packets into handles on the       *)
(*     sendpipeline channel, and answers FIN with FIN.                     *)
(* They run under one errgroup: sErr is the first error returned to it,    *)
(* and its context is done from then on.                                   *)
(***************************************************************************)
EXTENDS Wire

CONSTANTS
    Workers,   \* the goroutines that range over the sendpipeline (4 in the code)
    PipeCap,   \* capacity of the sendpipeline (128 in the code)
    Faults     \* the kinds of failure the environment may cause

ASSUME SenderAssumption ==
    /\ PipeCap \in Nat \ {0}
    /\ Faults \subseteq {"walk", "open", "read", "apply", "write", "async", "conn"}

VARIABLES
    fault,        \* the failure that happened, "none" before it
    sWalk,        \* the walk: "visit", "stat", "err", "done"
    sWalkErr,     \* the error the walk is about to report
    sNext,        \* the entry the walk visits next
    sI,           \* i, the id the next entry gets
    sFiles,       \* files: the path of each id that may still be requested
    sRecv,        \* the receive loop: "check", "recv", "queue", "fin", "done"
    sHandle,      \* the handle queue() is sending to the pipeline
    sPipe,        \* the sendpipeline
    sPipeClosed,  \* the sendpipeline is closed
    sWork,        \* the workers
    sErr,         \* the first error of the errgroup
    sRet          \* the result of Send, "none" until it returns

walkVars   == <<sWalk, sWalkErr, sNext, sI>>
pipeVars   == <<sPipe, sPipeClosed>>
senderVars == <<walkVars, sFiles, sRecv, sHandle, pipeVars, sWork, sErr, sRet>>

Handle(id, p) == [id |-> id, path |-> p]
NoHandle      == Handle(0, NoPath)
Handles       == [id : Ids, path : Entries \cup {NoPath}]

Idle    == [pc |-> "idle", h |-> NoHandle, pos |-> 0]
Working(h) == [pc |-> "data", h |-> h, pos |-> 0]
Done    == [pc |-> "done", h |-> NoHandle, pos |-> 0]
WorkSet == [pc : {"idle", "data", "eof", "done"}, h : Handles, pos : Nat]

(* One failure of a kind the run allows.                                   *)
Fault(k) == fault = "none" /\ k \in Faults /\ fault' = k

(* errgroup: the first error wins and cancels the group's context, which   *)
(* is derived from the stream's: the callers pass that one (the tests do). *)
FirstErr(old, e) == IF old = "none" THEN e ELSE old
sCtxDone         == sErr # "none" \/ ~up

SenderInit ==
    /\ fault = "none"
    /\ sWalk = "visit" /\ sWalkErr = "none" /\ sNext = 1 /\ sI = 0
    /\ sFiles = [id \in Ids |-> NoPath]
    /\ sRecv = "check" /\ sHandle = NoHandle
    /\ sPipe = <<>> /\ sPipeClosed = FALSE
    /\ sWork = [w \in Workers |-> Idle]
    /\ sErr = "none" /\ sRet = "none"

-----------------------------------------------------------------------------
(* The walk goroutine (send.go:61-67, 149-183).  fs.Walk looks at the      *)
(* context before each entry.  The entry is registered before its STAT is  *)
(* sent, so that a REQ can never overtake the registration.                *)
Registered(files, id, p) ==
    IF fileCanRequestData(p) THEN [files EXCEPT ![id] = p] ELSE files

WalkVisit ==
    /\ sWalk = "visit" /\ sNext <= N /\ ~sCtxDone
    /\ sFiles' = Registered(sFiles, sI, sNext)
    /\ sI' = sI + 1
    /\ sWalk' = "stat"
    /\ UNCHANGED <<fault, sWalkErr, sNext, sRecv, sHandle, pipeVars, sWork, sErr, sRet, wireVars>>

WalkSendStat ==
    /\ sWalk = "stat"
    /\ SendToReceiver(StatPacket(sNext))
    /\ sNext' = sNext + 1
    /\ sWalk' = "visit"
    /\ UNCHANGED <<fault, sWalkErr, sI, sFiles, sRecv, sHandle, pipeVars, sWork, sErr, sRet>>

(* The nil STAT that ends the sequence; no look at the context before it.  *)
WalkSendLast ==
    /\ sWalk = "visit" /\ sNext > N
    /\ SendToReceiver(LastStat)
    /\ sWalk' = "done"
    /\ UNCHANGED <<fault, sWalkErr, sNext, sI, sFiles, sRecv, sHandle, pipeVars, sWork, sErr, sRet>>

(* The walk ends with an error from the file system or from the context.   *)
WalkFails ==
    /\ sWalk = "visit" /\ sNext <= N
    /\ \/ ~sCtxDone /\ Fault("walk") /\ sWalkErr' = "walk"
       \/ sCtxDone /\ UNCHANGED fault /\ sWalkErr' = "canceled"
    /\ sWalk' = "err"
    /\ UNCHANGED <<sNext, sI, sFiles, sRecv, sHandle, pipeVars, sWork, sErr, sRet, wireVars>>

(* The walk ends because a STAT could not be sent.                         *)
WalkSendFails ==
    /\ sWalk = "stat" \/ (sWalk = "visit" /\ sNext > N)
    /\ SendFails
    /\ sWalk' = "err" /\ sWalkErr' = "conn"
    /\ UNCHANGED <<fault, sNext, sI, sFiles, sRecv, sHandle, pipeVars, sWork, sErr, sRet>>

(* A walk that failed sends an ERR packet, then returns its error.         *)
WalkSendErr ==
    /\ sWalk = "err"
    /\ SendToReceiver(ErrPacket(sWalkErr)) \/ SendFails
    /\ sErr' = FirstErr(sErr, sWalkErr)
    /\ sWalk' = "done"
    /\ UNCHANGED <<fault, sWalkErr, sNext, sI, sFiles, sRecv, sHandle, pipeVars, sWork, sRet>>

Walk == WalkVisit \/ WalkSendStat \/ WalkSendLast \/ WalkFails \/ WalkSendFails \/ WalkSendErr

-----------------------------------------------------------------------------
(* A worker (send.go:69-83, 136-147, 196-206).  It takes handles until the *)
(* pipeline is closed and drained, looking at the context for each one.    *)
WorkerTakes(w) ==
    /\ sWork[w].pc = "idle" /\ sPipe # <<>>
    /\ sPipe' = Tail(sPipe)
    /\ IF sCtxDone
       THEN /\ sWork' = [sWork EXCEPT ![w] = Done]
            /\ sErr' = FirstErr(sErr, "canceled")
       ELSE /\ sWork' = [sWork EXCEPT ![w] = Working(Head(sPipe))]
            /\ UNCHANGED sErr
    /\ UNCHANGED <<fault, walkVars, sFiles, sRecv, sHandle, sPipeClosed, sRet, wireVars>>

WorkerExits(w) ==
    /\ sWork[w].pc = "idle" /\ sPipe = <<>> /\ sPipeClosed
    /\ sWork' = [sWork EXCEPT ![w] = Done]
    /\ UNCHANGED <<fault, walkVars, sFiles, sRecv, sHandle, pipeVars, sErr, sRet, wireVars>>

(* fs.Open fails: the error is dropped and only the end of file is sent.   *)
WorkerOpenFails(w) ==
    /\ sWork[w].pc = "data" /\ sWork[w].pos = 0
    /\ Fault("open")
    /\ sWork' = [sWork EXCEPT ![w].pc = "eof"]
    /\ UNCHANGED <<walkVars, sFiles, sRecv, sHandle, pipeVars, sErr, sRet, wireVars>>

(* Mutant: the buffer is given back to bufPool before it is sent, and what *)
(* another worker reads meanwhile goes out under this worker's id.         *)
WorkersShareBuffer(w) ==
    LET pos == sWork[w].pos + 1 IN
    /\ sWork[w].pc = "data" /\ pos <= Chunks[sWork[w].h.path]
    /\ \E v \in Workers :
         /\ sWork[v].pc = "data" /\ sWork[v].pos < Chunks[sWork[v].h.path]
         /\ SendToReceiver(DataPacket(sWork[w].h.id, <<sWork[v].h.path, sWork[v].pos + 1>>))
    /\ sWork' = [sWork EXCEPT ![w].pos = pos]
    /\ UNCHANGED <<fault, walkVars, sFiles, sRecv, sHandle, pipeVars, sErr, sRet>>

(* io.CopyBuffer: one DATA packet for each non-empty read.                 *)
WorkerSendsData(w) ==
    LET h == sWork[w].h  pos == sWork[w].pos + 1 IN
    /\ sWork[w].pc = "data" /\ pos <= Chunks[h.path]
    /\ SendToReceiver(DataPacket(h.id, <<h.path, pos>>))
    /\ sWork' = [sWork EXCEPT ![w].pos = pos]
    /\ UNCHANGED <<fault, walkVars, sFiles, sRecv, sHandle, pipeVars, sErr, sRet>>

AtEOF(w) == \/ sWork[w].pc = "eof"
            \/ sWork[w].pc = "data" /\ sWork[w].pos = Chunks[sWork[w].h.path]

WorkerSendsEOF(w) ==
    /\ AtEOF(w)
    /\ SendToReceiver(DataPacket(sWork[w].h.id, Eof))
    /\ sWork' = [sWork EXCEPT ![w] = Idle]
    /\ UNCHANGED <<fault, walkVars, sFiles, sRecv, sHandle, pipeVars, sErr, sRet>>

(* A read that fails, or a SendMsg: the worker returns the error, and no   *)
(* ERR packet is sent.                                                     *)
WorkerFails(w) ==
    /\ sWork[w].pc \in {"data", "eof"}
    /\ \/ /\ sWork[w].pc = "data" /\ Fault("read") /\ UNCHANGED wireVars
          /\ sErr' = FirstErr(sErr, "read")
       \/ /\ SendFails /\ UNCHANGED fault
          /\ sErr' = FirstErr(sErr, "conn")
    /\ sWork' = [sWork EXCEPT ![w] = Done]
    /\ UNCHANGED <<walkVars, sFiles, sRecv, sHandle, pipeVars, sRet>>

Worker(w) == \/ WorkerTakes(w) \/ WorkerExits(w) \/ WorkerOpenFails(w)
             \/ WorkerSendsData(w) \/ WorkerSendsEOF(w) \/ WorkerFails(w)

-----------------------------------------------------------------------------
(* The receive loop (send.go:85-109).  Whichever way it ends, it closes    *)
(* the pipeline.                                                           *)
LoopEnds(e) ==
    /\ sRecv' = "done"
    /\ sPipeClosed' = TRUE
    /\ sErr' = FirstErr(sErr, e)

LoopCheck ==
    /\ sRecv = "check"
    /\ IF sCtxDone THEN LoopEnds("canceled")
                   ELSE sRecv' = "recv" /\ UNCHANGED <<sPipeClosed, sErr>>
    /\ UNCHANGED <<fault, walkVars, sFiles, sHandle, sPipe, sWork, sRet, wireVars>>

LoopGetsErr ==
    /\ sRecv = "recv"
    /\ SenderGets("ERR")
    /\ LoopEnds("peer")
    /\ UNCHANGED <<fault, walkVars, sFiles, sHandle, sPipe, sWork, sRet>>

(* queue: an id may be requested once; the handle is built under the lock  *)
(* and sent to the pipeline outside it (LoopQueues).                       *)
LoopGetsReq ==
    /\ sRecv = "recv"
    /\ SenderGets("REQ")
    /\ LET id == Head(toS).id IN
         IF sFiles[id] = NoPath
         THEN LoopEnds("invalid id") /\ UNCHANGED <<sFiles, sHandle>>
         ELSE /\ sFiles' = [sFiles EXCEPT ![id] = NoPath]
              /\ sHandle' = Handle(id, sFiles[id])
              /\ sRecv' = "queue"
              /\ UNCHANGED <<sPipeClosed, sErr>>
    /\ UNCHANGED <<fault, walkVars, sPipe, sWork, sRet>>

(* The send blocks while the pipeline is full, whatever the context says.  *)
LoopQueues ==
    /\ sRecv = "queue" /\ Len(sPipe) < PipeCap
    /\ sPipe' = Append(sPipe, sHandle)
    /\ sHandle' = NoHandle
    /\ sRecv' = "check"
    /\ UNCHANGED <<fault, walkVars, sFiles, sPipeClosed, sWork, sErr, sRet, wireVars>>

LoopGetsFin ==
    /\ sRecv = "recv"
    /\ SenderGets("FIN")
    /\ sRecv' = "fin"
    /\ UNCHANGED <<fault, walkVars, sFiles, sHandle, pipeVars, sWork, sErr, sRet>>

LoopSendsFin ==
    /\ sRecv = "fin"
    /\ \/ SendToReceiver(FinPacket) /\ LoopEnds("none")
       \/ SendFails /\ LoopEnds("conn")
    /\ UNCHANGED <<fault, walkVars, sFiles, sHandle, sPipe, sWork, sRet>>

LoopRecvFails ==
    /\ sRecv = "recv"
    /\ RecvFails
    /\ LoopEnds("conn")
    /\ UNCHANGED <<fault, walkVars, sFiles, sHandle, sPipe, sWork, sRet>>

SenderLoop == \/ LoopCheck \/ LoopGetsErr \/ LoopGetsReq \/ LoopQueues
              \/ LoopGetsFin \/ LoopSendsFin \/ LoopRecvFails

-----------------------------------------------------------------------------
(* g.Wait returns when every goroutine has; the caller of Send then closes *)
(* its end, and an error cancels the stream.                               *)
SendReturns ==
    /\ sRet = "none"
    /\ sWalk = "done" /\ sRecv = "done" /\ \A w \in Workers : sWork[w].pc = "done"
    /\ sRet' = IF sErr = "none" THEN "ok" ELSE sErr
    /\ closed' = TRUE
    /\ up' = (up /\ sErr = "none")
    /\ UNCHANGED <<toR, toS, fault, walkVars, sFiles, sRecv, sHandle, pipeVars, sWork, sErr>>

SenderStep == Walk \/ SenderLoop \/ SendReturns \/ \E w \in Workers : Worker(w)

SenderTypeOK ==
    /\ fault \in Faults \cup {"none"}
    /\ sWalk \in {"visit", "stat", "err", "done"}
    /\ sWalkErr \in Causes
    /\ sNext \in 1..(N + 1)
    /\ sI \in Ids
    /\ sFiles \in [Ids -> Entries \cup {NoPath}]
    /\ sRecv \in {"check", "recv", "queue", "fin", "done"}
    /\ sHandle \in Handles
    /\ sPipe \in Seq(Handles)
    /\ sPipeClosed \in BOOLEAN
    /\ sWork \in [Workers -> WorkSet]
    /\ sErr \in Causes
    /\ sRet \in Causes \cup {"ok"}
=============================================================================
