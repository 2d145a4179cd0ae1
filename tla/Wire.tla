-------------------------------- MODULE Wire --------------------------------
(***************************************************************************)
(* The connection a Send and a Receive share: two bounded FIFO channels of *)
(* packets (wire.proto) and the state of the stream under them.  The       *)
(* Stream interface (send.go:23-27) is implemented outside the package (a  *)
(* gRPC stream; in the tests a pair of Go channels), so its behaviour is   *)
(* taken from how Send and Receive use it: SendMsg blocks while the        *)
(* channel is full, RecvMsg blocks while it is empty, both may fail once   *)
(* the stream's context is cancelled, and RecvMsg returns io.EOF when the  *)
(* other end has closed its direction and everything was read.             *)
(***************************************************************************)
EXTENDS Integers, Sequences

CONSTANTS
    N,         \* the number of entries of the source tree
    Kind,      \* Kind[p]: "dir", "file" or "link" (a hard link)
    Chunks,    \* Chunks[p]: the number of non-empty reads the content of p takes
    CapR,      \* packets the channel to the receiver holds
    CapS       \* packets the channel to the sender holds

(* An entry is named by its rank in the sender's walk, which is its path.  *)
Entries == 1..N
NoPath  == 0
Ids     == 0..N
NoId    == 0 - 1

ASSUME WireAssumption ==
    /\ N \in Nat
    /\ Kind \in [Entries -> {"dir", "file", "link"}]
    /\ Chunks \in [Entries -> Nat]
    /\ CapR \in Nat \ {0}
    /\ CapS \in Nat \ {0}

(* The mode test both sides share: a regular file, a hard link included.   *)
fileCanRequestData(p) == Kind[p] # "dir"

(* What the source file p holds, and the empty array that ends a file.     *)
Content(p) == [k \in 1..Chunks[p] |-> <<p, k>>]
Eof        == <<0, 0>>
Chunk      == Nat \X Nat

Causes == {"none", "walk", "read", "apply", "write", "async", "conn", "eof",
           "canceled", "peer", "invalid id", "invalid request",
           "walker closed"}

StatPacket(p)    == [type |-> "STAT", path |-> p]
LastStat         == StatPacket(NoPath)
ReqPacket(id)    == [type |-> "REQ", id |-> id]
DataPacket(id, d) == [type |-> "DATA", id |-> id, data |-> d]
FinPacket        == [type |-> "FIN"]
ErrPacket(c)     == [type |-> "ERR", cause |-> c]

Packets ==
    [type : {"STAT"}, path : Entries \cup {NoPath}]
      \cup [type : {"REQ"}, id : Ids]
      \cup [type : {"DATA"}, id : Ids, data : Chunk]
      \cup [type : {"FIN"}]
      \cup [type : {"ERR"}, cause : Causes]

VARIABLES
    toR,       \* packets on their way to the receiver
    toS,       \* packets on their way to the sender
    up,        \* FALSE once the context of the stream is cancelled
    closed     \* TRUE once the sender's end is closed (closeSend)

wireVars == <<toR, toS, up, closed>>

WireInit == toR = <<>> /\ toS = <<>> /\ up = TRUE /\ closed = FALSE

(* SendMsg of each side: it appends when there is room, and may fail, with *)
(* nothing sent, once the stream is cancelled.                             *)
SendToReceiver(m) ==
    /\ Len(toR) < CapR
    /\ toR' = Append(toR, m)
    /\ UNCHANGED <<toS, up, closed>>

SendToSender(m) ==
    /\ Len(toS) < CapS
    /\ toS' = Append(toS, m)
    /\ UNCHANGED <<toR, up, closed>>

SendFails == ~up /\ UNCHANGED wireVars

(* RecvMsg of each side, returning a packet of type t.                     *)
ReceiverGets(t) ==
    /\ toR # <<>>
    /\ Head(toR).type = t
    /\ toR' = Tail(toR)
    /\ UNCHANGED <<toS, up, closed>>

SenderGets(t) ==
    /\ toS # <<>>
    /\ Head(toS).type = t
    /\ toS' = Tail(toS)
    /\ UNCHANGED <<toR, up, closed>>

RecvFails == ~up /\ UNCHANGED wireVars

ReceiverGetsEOF == closed /\ toR = <<>> /\ UNCHANGED wireVars

WireTypeOK ==
    /\ toR \in Seq(Packets)
    /\ toS \in Seq(Packets)
    /\ up \in BOOLEAN
    /\ closed \in BOOLEAN
=============================================================================
