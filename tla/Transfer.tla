------------------------------ MODULE Transfer ------------------------------
(***************************************************************************)
(* One transfer: a Send and a Receive over one connection, and the         *)
(* connection's own failure.                                               *)
(***************************************************************************)
EXTENDS Receiver

vars == <<fault, senderVars, receiverVars, wireVars>>

Init == WireInit /\ SenderInit /\ ReceiverInit

(* The stream is cancelled from outside.                                   *)
ConnFails ==
    /\ up /\ Fault("conn")
    /\ up' = FALSE
    /\ UNCHANGED <<toR, toS, closed, senderVars, receiverVars>>

(* Both calls have returned and no goroutine is left: nothing more happens. *)
Over ==
    /\ sRet # "none" /\ rRet # "none" /\ AsyncOver
    /\ UNCHANGED vars

Next ==
    \/ SenderStep /\ UNCHANGED receiverVars
    \/ ReceiverStep /\ UNCHANGED senderVars
    \/ ConnFails
    \/ Over

(* Every goroutine that can run does, in the end; failures need not occur. *)
Runs(A) == A /\ UNCHANGED fault

Fairness ==
    /\ WF_vars(Runs(Walk) /\ UNCHANGED receiverVars)
    /\ \A w \in Workers : WF_vars(Runs(Worker(w)) /\ UNCHANGED receiverVars)
    /\ WF_vars(Runs(SenderLoop) /\ UNCHANGED receiverVars)
    /\ WF_vars(Runs(SendReturns) /\ UNCHANGED receiverVars)
    /\ WF_vars(Runs(ReceiverLoop) /\ UNCHANGED senderVars)
    /\ WF_vars(Runs(Fill) /\ UNCHANGED senderVars)
    /\ WF_vars(Runs(Diff) /\ UNCHANGED senderVars)
    /\ \A p \in Entries : WF_vars(Runs(Async(p)) /\ UNCHANGED senderVars)
    /\ WF_vars(Runs(ReceiveReturns) /\ UNCHANGED senderVars)

Spec     == Init /\ [][Next]_vars
FairSpec == Spec /\ Fairness

-----------------------------------------------------------------------------
(* Every variable stays in its type.                                       *)
TypeOK == WireTypeOK /\ SenderTypeOK /\ ReceiverTypeOK

(* What arrives in a file was read from that file: the workers, the        *)
(* interleaved DATA packets and the two sides' separate counting of ids    *)
(* never mix files up (send.go:69-83, 170-175; receive.go:284-289,         *)
(* 326-341).                                                               *)
OwnContent ==
    \A p \in Entries : \A k \in 1..Len(dest[p].data) : dest[p].data[k][1] = p

(* What arrived in a file is at any moment the beginning of its content,   *)
(* in order and without repetition (send.go:136-147; receive.go:326-341).  *)
ContentPrefix ==
    \A p \in Entries :
      /\ Len(dest[p].data) <= Chunks[p]
      /\ \A k \in 1..Len(dest[p].data) : dest[p].data[k] = <<p, k>>

(* Neither side ever finds the other's requests or data out of protocol:   *)
(* "invalid file id" (send.go:128) and "invalid file request"              *)
(* (receive.go:331, 416) are not reached, whatever fails elsewhere.        *)
NoProtocolError ==
    /\ sErr # "invalid id"
    /\ rErr # "invalid request" /\ egErr # "invalid request"

(* What a receiver that returned without error has: every entry that the   *)
(* transfer carries is as in the source, and in a metadata transfer the    *)
(* list names every entry but its own.  One exception is real: a file the  *)
(* sender could not open is empty (see FileErrorIsSent).                   *)
Carried == IF MetadataTransfer THEN {p \in Matched : p # MetaPath} ELSE Entries
Listed  == IF MetaPath = NoPath THEN [k \in Entries |-> k]
           ELSE [k \in 1..(N - 1) |-> IF k < MetaPath THEN k ELSE k + 1]

SuccessMeansComplete ==
    rRet = "ok" =>
      /\ \A p \in Carried :
           \/ dest[p] = Synced(p)
           \/ fault = "open" /\ dest[p] = [Synced(p) EXCEPT !.data = <<>>]
      /\ MetadataTransfer => metaFile = Listed

(* A transfer that stops anywhere leaves no file that a later one would    *)
(* take for unchanged although its content is not complete: created empty  *)
(* with its final time (diskwriter.go:188-205), written later, and given   *)
(* its time back at the end (diskwriter.go:238).                           *)
ResumeSafe ==
    \A p \in Entries : sameFile(dest[p], p) => dest[p] = Synced(p)

(* The ERR packet of the receiver names what went wrong, not the           *)
(* cancellation that followed (receive.go:201-209); only the stream's own  *)
(* cancellation is reported as one.                                        *)
ErrNamesCause ==
    \A i \in DOMAIN toS :
      (toS[i].type = "ERR" /\ toS[i].cause \in {"canceled", "walker closed"}) => ~up

(* FIN means that everything asked for was delivered: when it reaches the  *)
(* sender, no handle is queued, no worker is busy, and no DATA is on its   *)
(* way (receive.go:12-13, 221-224).                                        *)
FinMeansQuiet ==
    (\E i \in DOMAIN toS : toS[i].type = "FIN") \/ sRecv = "fin" =>
      /\ sHandle = NoHandle /\ sPipe = <<>>
      /\ \A w \in Workers : sWork[w].pc \in {"idle", "done"}
      /\ \A i \in DOMAIN toR : toR[i].type # "DATA"

(* A directory is applied before anything in it, also when a metadata      *)
(* transfer holds it back until an entry below it is accepted              *)
(* (receive.go:298-321).                                                   *)
ParentsFirst ==
    \A p \in Entries :
      (p \in Stale /\ dest[p].meta # "old" /\ Parent[p] # NoPath)
        => dest[Parent[p]].meta = "src"

(* Neither call returns an error unless something failed, a file that      *)
(* cannot be opened not being a failure: the two programs never take each  *)
(* other's normal end, or a context cancelled at it, for one               *)
(* (send.go:105-112; receive.go:224-247, 342-409).                         *)
OnlyFaultsFail == fault \in {"none", "open"} => {sRet, rRet} \subseteq {"none", "ok"}

(* Both calls return, whatever the capacities and whatever fails, save in  *)
(* two states that only a failure leads to.  In one the                    *)
(* receive loop of the sender stands in queue() (send.go:132), which does  *)
(* not look at the context, before a full pipeline whose workers have all  *)
(* returned.  In the other each side waits to send to one that no longer   *)
(* reads: neither loop takes a packet any more, both channels are full,    *)
(* and the ERR packet whose arrival would end it is not sent.  A read      *)
(* error of a worker is not among the failures: see FileErrorIsSent.       *)
BothReturned == sRet # "none" /\ rRet # "none"

QueueStuck == sRecv = "queue" /\ Len(sPipe) = PipeCap

Wedged ==
    \/ QueueStuck /\ \A w \in Workers : sWork[w].pc = "done"
    \/ /\ Len(toR) = CapR /\ rRecv = "done"
       /\ Len(toS) = CapS /\ (sRecv = "done" \/ QueueStuck)

CallsEnd ==
    <>[](\/ BothReturned \/ fault = "read"
         \/ fault \notin {"none", "open"} /\ Wedged)

-----------------------------------------------------------------------------
(* The transfer implements Sync.                                           *)
Promise == INSTANCE Sync WITH
    Entry   <- Entries,
    ToCarry <- Carried,
    Redo    <- Merge,
    insync  <- {p \in Entries : dest[p] = Synced(p)},
    outcome <- CASE rRet = "none" -> "running"
                 [] rRet = "ok"   -> "ok"
                 [] OTHER         -> "failed"

(* Every step of the two programs is a step of Sync or leaves it alone     *)
(* (receive.go:217-225, 356-364): in particular no goroutine touches an    *)
(* entry after Receive has returned without error.                         *)
ImplementsSync == Promise!Spec

-----------------------------------------------------------------------------
(* What the documentation says and the code does not do (see the README).  *)

(* receive.go:14-15, "If an error is encountered on either side, an ERR    *)
(* packet is sent": for a file the sender cannot open, or fails to read.   *)
ErrOnTheWayToR == \E i \in DOMAIN toR : toR[i].type = "ERR"
FileErrorIsSent == (fault \in {"open", "read"}) ~> ErrOnTheWayToR
=============================================================================
