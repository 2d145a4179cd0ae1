-------------------------------- MODULE Sync --------------------------------
(***************************************************************************)
(* What a Receive promises its caller, with no protocol in it: entries of  *)
(* the destination become as the source's one at a time; success is        *)
(* reported only when all that were to be carried are, and nothing changes *)
(* afterwards.  A call that failed may still complete single files: the    *)
(* goroutines of the disk writer are not waited for then.                  *)
(***************************************************************************)
CONSTANTS
    Entry,      \* the entries
    ToCarry,    \* those the transfer has to bring
    Redo        \* TRUE when entries that are as the source's are fetched again

VARIABLES
    insync,     \* the entries whose destination is as the source
    outcome     \* "running", "ok" or "failed"

Init == insync \subseteq Entry /\ outcome = "running"

Complete(p) ==
    /\ outcome # "ok"
    /\ insync' = insync \cup {p}
    /\ UNCHANGED outcome

Refetch(p) ==
    /\ outcome = "running" /\ Redo
    /\ insync' = insync \ {p}
    /\ UNCHANGED outcome

Succeed ==
    /\ outcome = "running" /\ ToCarry \subseteq insync
    /\ outcome' = "ok"
    /\ UNCHANGED insync

Fail ==
    /\ outcome = "running"
    /\ outcome' = "failed"
    /\ UNCHANGED insync

Next == (\E p \in Entry : Complete(p) \/ Refetch(p)) \/ Succeed \/ Fail

Spec == Init /\ [][Next]_<<insync, outcome>>
=============================================================================
