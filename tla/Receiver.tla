------------------------------ MODULE Receiver ------------------------------
(***************************************************************************)
(* Receive (receive.go): the goroutines of one receiver.  They are         *)
(*   - the receive loop, which takes every packet of the sender;           *)
(*   - fill, which feeds the announced entries to the diff;                *)
(*   - the diff, which compares them with the destination, applies each    *)
(*     change through the disk writer and ends the transfer;               *)
(*   - one goroutine per regular file that changed, which asks for the     *)
(*     content and waits until the receive loop has written it.            *)
(* rErr is the first error of the receiver's errgroup, egErr that of the   *)
(* disk writer's.                                                          *)
(*                                                                         *)
(* An entry of the destination is [data, meta]: meta is "old" while it     *)
(* differs from the source (or is absent), "src" when it carries the       *)
(* source's metadata and modification time, "now" after a write.           *)
(***************************************************************************)
EXTENDS Sender

CONSTANTS
    Stale,            \* the entries the destination does not have as the source
    Merge,            \* ReceiveOpt.Merge: no walk of the destination
    WalkCap,          \* capacity of dynamicWalker.walkChan (128 in the code)
    C2Cap,            \* capacity of the diff's channel c2 (128 in the code)
    MetadataTransfer, \* ReceiveOpt.MetadataOnly is set
    Matched,          \* the entries the MetadataOnly filter accepts
    MetaPath,         \* the entry named .fsutil-metadata, NoPath if there is none
    Parent            \* Parent[p]: the directory of p, NoPath for the top level

ASSUME ReceiverAssumption ==
    /\ Stale \subseteq Entries
    /\ Merge \in BOOLEAN
    /\ WalkCap \in Nat \ {0}
    /\ C2Cap \in Nat \ {0}
    /\ MetadataTransfer \in BOOLEAN
    /\ Matched \subseteq Entries
    /\ MetaPath \in Entries \cup {NoPath}
    /\ Parent \in [Entries -> Entries \cup {NoPath}]
    /\ \A p \in Entries : Parent[p] < p

(* The source is walked in depth first order: only directories hold        *)
(* entries, and those below one follow it without a break.                 *)
ASSUME TreeAssumption ==
    \A p \in Entries : Parent[p] # NoPath =>
      /\ Kind[Parent[p]] = "dir"
      /\ \A q \in Entries : Parent[p] < q /\ q < p => Parent[p] <= Parent[q]

VARIABLES
    rRecv,       \* the receive loop: "recv", "update", "drain", "done"
    rPend,       \* the entries it is handing to dynamicWalker.update
    rI,          \* i, the index of the next STAT
    rFiles,      \* files: the id of each path whose content may be requested
    rPipes,      \* pipes: the path written for each id that was requested
    rMeta,       \* metadataBuffer
    rParents,    \* metadataParents
    walkQ,       \* dynamicWalker.walkChan
    walkClosed,  \* walkChan is closed
    fill,        \* "run", "done", or "failed" once closeCh is closed
    c2,          \* the diff's channel of source entries
    diff,        \* the diff goroutine: "diff", "join", "wait", "fin", "err", "done"
    diffErr,     \* the error it is returning
    async,       \* the goroutines of requestAsyncFileData
    pipe,        \* wrappedWriteCloser: "open", "closed", "failed"
    egErr,       \* first error of the disk writer's errgroup
    dest,        \* the destination tree
    rErr,        \* the first error of the receiver's errgroup
    rRet,        \* the result of Receive, "none" until it returns
    metaFile     \* what the .fsutil-metadata file of the destination lists

recvVars   == <<rRecv, rPend, rI, rMeta, rParents>>
reqVars    == <<rFiles, rPipes>>
walkerVars == <<walkQ, walkClosed, fill, c2>>
diffVars   == <<diff, diffErr>>
diskVars   == <<async, pipe, egErr, dest>>
retVars    == <<rRet, metaFile>>
receiverVars == <<recvVars, reqVars, walkerVars, diffVars, diskVars, rErr, retVars>>

(* Contexts.  The errgroup's is done after an error, when the stream's is, *)
(* and when Receive has returned; the disk writer's errgroup context also  *)
(* after its own first error or a failed HandleChange; the one inside      *)
(* doubleWalkDiff also when the diff failed.                               *)
rCtxDone     == rErr # "none" \/ ~up \/ rRet # "none"
egCtxDone    == rCtxDone \/ egErr # "none" \/ diffErr = "apply"
innerCtxDone == rCtxDone \/ diffErr # "none"

NoAsync  == [pc |-> "none", id |-> NoId]
AsyncSet == [pc : {"none", "start", "req", "wait", "finish", "done", "failed"},
             id : Ids \cup {NoId}]

Size(p)  == IF Kind[p] = "file" THEN Chunks[p] ELSE 0
Synced(p) == [data |-> IF Kind[p] = "file" THEN Content(p) ELSE <<>>, meta |-> "src"]

ReceiverInit ==
    /\ rRecv = "recv" /\ rPend = <<>> /\ rI = 0
    /\ rMeta = <<>> /\ rParents = <<>>
    /\ rFiles = [p \in Entries |-> NoId]
    /\ rPipes = [id \in Ids |-> NoPath]
    /\ walkQ = <<>> /\ walkClosed = FALSE /\ fill = "run" /\ c2 = <<>>
    /\ diff = "diff" /\ diffErr = "none"
    /\ async = [p \in Entries |-> NoAsync]
    /\ pipe = [p \in Entries |-> "open"]
    /\ egErr = "none"
    /\ dest = [p \in Entries |->
                 IF p \in Stale THEN [data |-> <<>>, meta |-> "old"] ELSE Synced(p)]
    /\ rErr = "none" /\ rRet = "none" /\ metaFile = <<>>

-----------------------------------------------------------------------------
(* The receive loop (receive.go:228-354).                                  *)
RecvEnds(e) == rRecv' = "done" /\ rErr' = FirstErr(rErr, e)

RecvGetsErr ==
    /\ rRecv = "recv"
    /\ ReceiverGets("ERR")
    /\ RecvEnds("peer")
    /\ UNCHANGED <<rPend, rI, rMeta, rParents, reqVars, walkerVars, diffVars, diskVars, retVars>>

(* The nil STAT closes the walk, unless fill has stopped.                  *)
RecvGetsLast ==
    /\ rRecv = "recv"
    /\ ReceiverGets("STAT") /\ Head(toR).path = NoPath
    /\ IF fill = "failed"
       THEN RecvEnds("walker closed") /\ UNCHANGED walkClosed
       ELSE walkClosed' = TRUE /\ UNCHANGED <<rRecv, rErr>>
    /\ UNCHANGED <<rPend, rI, rMeta, rParents, reqVars, walkQ, fill, c2, diffVars, diskVars, retVars>>

(* An announced entry gets the next index; in a metadata transfer the      *)
(* entries the filter rejects are recorded and go no further.              *)
Skipped(p)  == MetadataTransfer /\ p = MetaPath
MetaOnly(p) == MetadataTransfer /\ p \notin Matched

Requestable(files, p, id) ==
    IF ~MetaOnly(p) /\ fileCanRequestData(p) THEN [files EXCEPT ![p] = id] ELSE files

(* Mutants: a directory counts again for its replay; links do not count;   *)
(* entries that are only recorded do not count.                            *)
NextIndexTwice(p, i)   == IF Kind[p] = "dir" THEN i + 2 ELSE i + 1
NextIndexNoLinks(p, i) == IF Kind[p] = "link" THEN i ELSE i + 1
NextIndexSent(p, i)    == IF MetaOnly(p) THEN i ELSE i + 1

NextIndex(p, i) == IF Skipped(p) THEN i ELSE i + 1

(* Mutant: the directories held back above p are forgotten.                *)
ParentsForgotten(stack, p) == IF Kind[p] = "dir" THEN <<p>> ELSE <<>>

(* metadataParents, popped down to the parent of p (to nothing when it is  *)
(* not there), with p itself on top if it is a directory: what is replayed *)
(* when p is accepted.                                                     *)
ParentsOf(stack, p) ==
    LET above == {k \in 1..Len(stack) : stack[k] = Parent[p]}
        held  == IF above = {} THEN <<>> ELSE SubSeq(stack, 1, CHOOSE k \in above : TRUE)
    IN  IF Kind[p] = "dir" THEN Append(held, p) ELSE held

RecvGetsStat ==
    /\ rRecv = "recv"
    /\ ReceiverGets("STAT") /\ Head(toR).path # NoPath
    /\ LET p == Head(toR).path
           parents == ParentsOf(rParents, p)
       IN /\ rI' = NextIndex(p, rI)
          /\ IF Skipped(p)
             THEN UNCHANGED <<rRecv, rPend, rMeta, rParents, rFiles>>
             ELSE /\ rFiles' = Requestable(rFiles, p, rI)
                  /\ rMeta' = IF MetadataTransfer THEN Append(rMeta, p) ELSE rMeta
                  /\ IF MetaOnly(p)
                     THEN rParents' = parents /\ UNCHANGED <<rRecv, rPend>>
                     ELSE /\ rRecv' = "update"
                          /\ rPend' = IF MetadataTransfer THEN Append(parents, p) ELSE <<p>>
                          /\ rParents' = <<>>
    /\ UNCHANGED <<rPipes, walkerVars, diffVars, diskVars, rErr, retVars>>

(* dynamicWalker.update: one entry at a time, blocking while walkChan is   *)
(* full, an error once fill has stopped.                                   *)
RecvUpdates ==
    /\ rRecv = "update"
    /\ IF fill = "failed"
       THEN RecvEnds("walker closed") /\ UNCHANGED <<rPend, walkQ>>
       ELSE /\ Len(walkQ) < WalkCap
            /\ walkQ' = Append(walkQ, Head(rPend))
            /\ rPend' = Tail(rPend)
            /\ rRecv' = IF Len(rPend) = 1 THEN "recv" ELSE "update"
            /\ UNCHANGED rErr
    /\ UNCHANGED <<rI, rMeta, rParents, reqVars, walkClosed, fill, c2, diffVars, diskVars, retVars, wireVars>>

(* DATA goes to the file the id was requested for: written, or closed by   *)
(* an empty array.  A write or close that fails ends the loop, and a close *)
(* that fails is also what the waiting goroutine gets.                     *)
Written(d, data) == [data |-> Append(d.data, data), meta |-> "now"]

RecvGetsData ==
    /\ rRecv = "recv"
    /\ ReceiverGets("DATA")
    /\ LET p == rPipes[Head(toR).id]  data == Head(toR).data IN
         \/ /\ p = NoPath
            /\ RecvEnds("invalid request")
            /\ UNCHANGED <<pipe, dest, fault>>
         \/ /\ p # NoPath /\ data = Eof
            /\ pipe' = [pipe EXCEPT ![p] = "closed"]
            /\ UNCHANGED <<dest, fault, rRecv, rErr>>
         \/ /\ p # NoPath /\ data # Eof
            /\ dest' = [dest EXCEPT ![p] = Written(dest[p], data)]
            /\ UNCHANGED <<pipe, fault, rRecv, rErr>>
         \/ /\ p # NoPath /\ Fault("write")
            /\ RecvEnds("write")
            /\ pipe' = IF data = Eof THEN [pipe EXCEPT ![p] = "failed"] ELSE pipe
            /\ UNCHANGED dest
    /\ UNCHANGED <<rPend, rI, rMeta, rParents, reqVars, walkerVars, diffVars, async, egErr, retVars>>

(* After FIN everything is dropped until the sender closes its end.        *)
RecvGetsFin ==
    /\ rRecv = "recv"
    /\ ReceiverGets("FIN")
    /\ rRecv' = "drain"
    /\ UNCHANGED <<rPend, rI, rMeta, rParents, reqVars, walkerVars, diffVars, diskVars, rErr, retVars>>

RecvDrains ==
    /\ rRecv = "drain"
    /\ \E t \in {"STAT", "DATA", "FIN", "ERR"} : ReceiverGets(t)
    /\ UNCHANGED <<receiverVars>>

RecvEOF ==
    /\ rRecv \in {"recv", "drain"}
    /\ ReceiverGetsEOF
    /\ RecvEnds(IF rRecv = "drain" THEN "none" ELSE "eof")
    /\ UNCHANGED <<rPend, rI, rMeta, rParents, reqVars, walkerVars, diffVars, diskVars, retVars>>

RecvLoopFails ==
    /\ rRecv \in {"recv", "drain"}
    /\ RecvFails
    /\ RecvEnds("conn")
    /\ UNCHANGED <<rPend, rI, rMeta, rParents, reqVars, walkerVars, diffVars, diskVars, retVars>>

ReceiverLoop ==
    \/ /\ \/ RecvGetsErr \/ RecvGetsLast \/ RecvGetsStat \/ RecvUpdates
          \/ RecvGetsFin \/ RecvDrains \/ RecvEOF \/ RecvLoopFails
       /\ UNCHANGED fault
    \/ RecvGetsData

-----------------------------------------------------------------------------
(* dynamicWalker.fill (receive.go:156-176), with the channel it feeds.  A  *)
(* cancelled context is one of the ready cases of its selects.             *)
FillMoves ==
    /\ fill = "run" /\ walkQ # <<>> /\ Len(c2) < C2Cap
    /\ c2' = Append(c2, Head(walkQ))
    /\ walkQ' = Tail(walkQ)
    /\ UNCHANGED <<walkClosed, fill>>

FillEnds ==
    /\ fill = "run" /\ walkQ = <<>> /\ walkClosed
    /\ fill' = "done"
    /\ UNCHANGED <<walkQ, walkClosed, c2>>

(* Mutant: fill does not look at the context.                              *)
FillKeepsWaiting == FALSE /\ UNCHANGED walkerVars

FillCanceled ==
    /\ fill = "run" /\ innerCtxDone
    /\ fill' = "failed"
    /\ UNCHANGED <<walkQ, walkClosed, c2>>

Fill ==
    /\ FillMoves \/ FillEnds \/ FillCanceled
    /\ UNCHANGED <<fault, recvVars, reqVars, diffVars, diskVars, rErr, retVars, wireVars>>

-----------------------------------------------------------------------------
(* The diff goroutine (receive.go:198-226) over doubleWalkDiff and the     *)
(* disk writer.  Whether an entry is taken for unchanged is the size,      *)
(* modification time and metadata test of sameFile; what the walk of the   *)
(* destination saw of p is what dest[p] is, as only p's own change touches *)
(* it.                                                                     *)
(* Mutant: the sizes are not compared.                                     *)
sameTime(d, p) == d.meta = "src"

sameFile(d, p) == d.meta = "src" /\ Len(d.data) = Size(p)

(* HandleChange: directories and links are complete when it returns; a     *)
(* regular file is created empty, with its final metadata, and its content *)
(* is left to a goroutine.                                                 *)
Created == [data |-> <<>>, meta |-> "src"]

HandleChange(p) ==
    /\ dest' = [dest EXCEPT ![p] = Created]
    /\ async' = IF Kind[p] = "file"
                THEN [async EXCEPT ![p] = [pc |-> "start", id |-> NoId]] ELSE async

(* Taking the next source entry and applying it.  HandleChange looks at    *)
(* the context first, and an error of it cancels the disk writer.          *)
DiffNext ==
    /\ diff = "diff" /\ c2 # <<>>
    /\ c2' = Tail(c2)
    /\ LET p == Head(c2) IN
         \/ /\ ~Merge /\ sameFile(dest[p], p)
            /\ UNCHANGED <<fault, diff, diffErr, async, dest>>
         \/ /\ Merge \/ ~sameFile(dest[p], p)
            /\ \/ ~rCtxDone /\ HandleChange(p) /\ UNCHANGED <<fault, diff, diffErr>>
               \/ /\ \/ ~rCtxDone /\ Fault("apply") /\ diffErr' = "apply"
                     \/ rCtxDone /\ diffErr' = "canceled" /\ UNCHANGED fault
                  /\ diff' = "join"
                  /\ UNCHANGED <<async, dest>>
    /\ UNCHANGED <<walkQ, walkClosed, fill, pipe, egErr>>

(* nextPath may return the context's error instead of an entry.            *)
DiffCanceled ==
    /\ diff = "diff" /\ innerCtxDone
    /\ diff' = "join" /\ diffErr' = "canceled"
    /\ UNCHANGED <<fault, walkerVars, diskVars>>

(* g.Wait of doubleWalkDiff: its error is the diff's, or that of fill.     *)
DiffJoins ==
    /\ fill # "run"
    /\ diff = "join" \/ (diff = "diff" /\ c2 = <<>>)
    /\ diffErr' = FirstErr(diffErr, IF fill = "failed" THEN "canceled" ELSE "none")
    /\ diff' = IF diffErr' = "none" THEN "wait" ELSE "err"
    /\ UNCHANGED <<fault, walkerVars, diskVars>>

(* dw.Wait: every file goroutine has ended; only then FIN may be sent.     *)
(* Mutants: nothing is waited for; or only that every REQ has been sent.   *)
NotWaited  == TRUE
Requested  == \A p \in Entries : async[p].pc \notin {"start", "req"}

AsyncOver == \A p \in Entries : async[p].pc \in {"none", "done", "failed"}

DiffWaits ==
    /\ diff = "wait" /\ AsyncOver
    /\ diffErr' = egErr
    /\ diff' = IF egErr = "none" THEN "fin" ELSE "err"
    /\ UNCHANGED <<fault, walkerVars, diskVars>>

DiffApplies ==
    /\ DiffNext \/ DiffCanceled \/ DiffJoins \/ DiffWaits
    /\ UNCHANGED <<recvVars, reqVars, rErr, retVars, wireVars>>

(* FIN, whose own error is ignored.                                        *)
DiffSendsFin ==
    /\ diff = "fin"
    /\ SendToSender(FinPacket) \/ SendFails
    /\ diff' = "done"
    /\ UNCHANGED <<fault, recvVars, reqVars, walkerVars, diffErr, diskVars, rErr, retVars>>

(* ERR, with the root cause in place of a bare "context canceled".         *)
(* Mutant: the error as it is.                                             *)
ReportedBare(e) == e

ReportedErr(e) == IF e = "canceled" /\ rErr # "none" THEN rErr ELSE e

DiffSendsErr ==
    /\ diff = "err"
    /\ SendToSender(ErrPacket(ReportedErr(diffErr))) \/ SendFails
    /\ diff' = "done"
    /\ rErr' = FirstErr(rErr, ReportedErr(diffErr))
    /\ UNCHANGED <<fault, recvVars, reqVars, walkerVars, diffErr, diskVars, retVars>>

Diff == DiffApplies \/ DiffSendsFin \/ DiffSendsErr

-----------------------------------------------------------------------------
(* The goroutine of one file: requestAsyncFileData (diskwriter.go:230-240) *)
(* and asyncDataFunc (receive.go:411-436).  The pipe is registered before  *)
(* the REQ is sent, so that no DATA can precede it.                        *)
AsyncFails(p, e) ==
    /\ async' = [async EXCEPT ![p].pc = "failed"]
    /\ egErr' = FirstErr(egErr, e)

AsyncRegisters(p) ==
    /\ async[p].pc = "start"
    /\ IF rFiles[p] = NoId
       THEN AsyncFails(p, "invalid request") /\ UNCHANGED reqVars
       ELSE /\ rFiles' = [rFiles EXCEPT ![p] = NoId]
            /\ rPipes' = [rPipes EXCEPT ![rFiles[p]] = p]
            /\ async' = [async EXCEPT ![p] = [pc |-> "req", id |-> rFiles[p]]]
            /\ UNCHANGED egErr
    /\ UNCHANGED <<fault, pipe, dest, wireVars>>

AsyncSendsReq(p) ==
    /\ async[p].pc = "req"
    /\ \/ /\ SendToSender(ReqPacket(async[p].id))
          /\ async' = [async EXCEPT ![p].pc = "wait"]
          /\ UNCHANGED egErr
       \/ SendFails /\ AsyncFails(p, "conn")
    /\ UNCHANGED <<fault, reqVars, pipe, dest>>

(* Mutant: the pipe is also dropped when the wait is cancelled.            *)
AsyncDropsPipe(p) ==
    /\ async[p].pc = "wait"
    /\ \/ pipe[p] = "closed" /\ UNCHANGED egErr /\ async' = [async EXCEPT ![p].pc = "finish"]
       \/ pipe[p] = "failed" /\ AsyncFails(p, "write")
       \/ egCtxDone /\ AsyncFails(p, "canceled")
    /\ rPipes' = [rPipes EXCEPT ![async[p].id] = NoPath]
    /\ UNCHANGED <<fault, rFiles, pipe, dest, wireVars>>

(* wwc.Wait returns the error of the close, or that of the context.        *)
AsyncWaits(p) ==
    /\ async[p].pc = "wait"
    /\ \/ /\ pipe[p] = "closed"
          /\ rPipes' = [rPipes EXCEPT ![async[p].id] = NoPath]
          /\ async' = [async EXCEPT ![p].pc = "finish"]
          /\ UNCHANGED egErr
       \/ pipe[p] = "failed" /\ AsyncFails(p, "write") /\ UNCHANGED rPipes
       \/ egCtxDone /\ AsyncFails(p, "canceled") /\ UNCHANGED rPipes
    /\ UNCHANGED <<fault, rFiles, pipe, dest, wireVars>>

(* The notification and chtimes, once the content is there.                *)
AsyncFinishes(p) ==
    /\ async[p].pc = "finish"
    /\ \/ /\ async' = [async EXCEPT ![p].pc = "done"]
          /\ dest' = [dest EXCEPT ![p].meta = "src"]
          /\ UNCHANGED <<fault, egErr>>
       \/ Fault("async") /\ AsyncFails(p, "async") /\ UNCHANGED dest
    /\ UNCHANGED <<reqVars, pipe, wireVars>>

Async(p) ==
    /\ AsyncRegisters(p) \/ AsyncSendsReq(p) \/ AsyncWaits(p) \/ AsyncFinishes(p)
    /\ UNCHANGED <<recvVars, walkerVars, diffVars, rErr, retVars>>

-----------------------------------------------------------------------------
(* Receive returns when the loop and the diff have; a metadata transfer    *)
(* that succeeded then writes its list (writeMetadata).  An error cancels  *)
(* the stream.                                                             *)
ReceiveReturns ==
    /\ rRet = "none" /\ rRecv = "done" /\ diff = "done"
    /\ rRet' = IF rErr = "none" THEN "ok" ELSE rErr
    /\ metaFile' = IF rErr = "none" /\ MetadataTransfer THEN rMeta ELSE metaFile
    /\ up' = (up /\ rErr = "none")
    /\ UNCHANGED <<toR, toS, closed, fault, recvVars, reqVars, walkerVars, diffVars, diskVars, rErr>>

ReceiverStep ==
    ReceiverLoop \/ Fill \/ Diff \/ ReceiveReturns \/ \E p \in Entries : Async(p)

ReceiverTypeOK ==
    /\ rRecv \in {"recv", "update", "drain", "done"}
    /\ rPend \in Seq(Entries)
    /\ rI \in Ids
    /\ rFiles \in [Entries -> Ids \cup {NoId}]
    /\ rPipes \in [Ids -> Entries \cup {NoPath}]
    /\ rMeta \in Seq(Entries)
    /\ rParents \in Seq(Entries)
    /\ walkQ \in Seq(Entries)
    /\ walkClosed \in BOOLEAN
    /\ fill \in {"run", "done", "failed"}
    /\ c2 \in Seq(Entries)
    /\ diff \in {"diff", "join", "wait", "fin", "err", "done"}
    /\ diffErr \in Causes
    /\ async \in [Entries -> AsyncSet]
    /\ pipe \in [Entries -> {"open", "closed", "failed"}]
    /\ egErr \in Causes
    /\ dest \in [Entries -> [data : Seq(Chunk), meta : {"old", "src", "now"}]]
    /\ rErr \in Causes
    /\ rRet \in Causes \cup {"ok"}
    /\ metaFile \in Seq(Entries)
=============================================================================
