------------------------------ MODULE PathOrder ------------------------------
(***************************************************************************)
(* The order of paths (ComparePath, validator.go).  A path is its sequence *)
(* of names, a name its rank among the names.                              *)
(***************************************************************************)
EXTENDS Integers, Sequences, SequencesExt, FiniteSets

(* ComparePath(p, q) < 0: by components, a directory before what is in it. *)
Before(p, q) ==
    \/ IsStrictPrefix(p, q)
    \/ \E i \in 1..Len(p) :
         /\ i <= Len(q) /\ p[i] < q[i]
         /\ \A j \in 1..(i - 1) : p[j] = q[j]

(* A set of paths in this order: as a directory is listed.                 *)
Sorted(S) == [i \in 1..Cardinality(S) |-> CHOOSE p \in S : Cardinality({q \in S : Before(q, p)}) = i - 1]
=============================================================================
