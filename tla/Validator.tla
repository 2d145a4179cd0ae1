------------------------------ MODULE Validator ------------------------------
(***************************************************************************)
(* The two checks a receiver makes of the entries announced to it, before  *)
(* anything is applied (receive.go:291-297): Validator (validator.go) that *)
(* they come in the order of a walk, every directory before what is in it, *)
(* and Hardlinks (hardlinks.go) that a link points at a file announced     *)
(* before.  The changes are arbitrary here: nothing is assumed of the      *)
(* sender.                                                                 *)
(*                                                                         *)
(* A path is a sequence of names, <<>> the root; a name is its rank among  *)
(* the names, NoName the empty string.                                     *)
(***************************************************************************)
EXTENDS Integers, Sequences, FiniteSets

CONSTANTS
    Names,     \* the names of entries, ordered as their strings are
    Paths      \* the paths that may be announced

ASSUME ValidatorAssumption ==
    Names \subseteq Nat \ {0} /\ Paths \subseteq Seq(Names) \ {<<>>}

NoName == 0

(* A path that is not clean, is absolute, or leaves the root.              *)
Malformed == <<NoName>>

Dir(p)  == SubSeq(p, 1, Len(p) - 1)
Base(p) == p[Len(p)]

(* ComparePath(p, q) < 0: bytes in order, the separator before any other,  *)
(* so name by name.                                                        *)
Before(p, q) ==
    \E k \in 0..Len(p) :
      /\ k < Len(q) /\ \A j \in 1..k : p[j] = q[j]
      /\ k = Len(p) \/ p[k + 1] < q[k + 1]

Changes ==
    [op : {"add"}, kind : {"dir", "file", "symlink"}, path : Paths \cup {Malformed}, linkname : {<<>>}]
      \cup [op : {"add"}, kind : {"file"}, path : Paths, linkname : Paths]
      \cup [op : {"delete"}, kind : {"none"}, path : Paths, linkname : {<<>>}]
NoChange == [op |-> "none", kind |-> "none", path |-> <<>>, linkname |-> <<>>]

VARIABLES
    parentDirs,   \* Validator.parentDirs: the open directories, root first
    seenFiles,    \* Hardlinks.seenFiles
    accepted,     \* the changes both checks let through
    rejected      \* the change that was refused, NoChange before it

vars == <<parentDirs, seenFiles, accepted, rejected>>

Init ==
    /\ parentDirs = <<[dir |-> <<>>, last |-> NoName]>>
    /\ seenFiles = {} /\ accepted = <<>> /\ rejected = NoChange

(* sort.Search over the saved directories, innermost first: how many are   *)
(* at or before dir, as long as they are sorted.                           *)
ParentIndex(dir) ==
    Cardinality({i \in 1..Len(parentDirs) : parentDirs[i].dir = dir \/ Before(parentDirs[i].dir, dir)})

(* Mutant: the same name may come again.                                   *)
NotOlder(last, base) == last <= base

Newer(last, base) == last < base
Opens(c)          == c.op = "add" /\ c.kind = "dir"

Kept(c)     == SubSeq(parentDirs, 1, ParentIndex(Dir(c.path)))
Ordered(c)  == LET top == Kept(c)[Len(Kept(c))]
               IN  top.dir = Dir(c.path) /\ Newer(top.last, Base(c.path))

(* Mutant: the name is not recorded.                                       *)
NotRecorded(c) == IF Opens(c) THEN Append(Kept(c), [dir |-> c.path, last |-> NoName]) ELSE Kept(c)

Advanced(c) == LET moved == [Kept(c) EXCEPT ![Len(Kept(c))].last = Base(c.path)]
               IN  IF Opens(c) THEN Append(moved, [dir |-> c.path, last |-> NoName]) ELSE moved

(* Hardlinks.HandleChange.                                                 *)
IsLink(c)   == c.op = "add" /\ c.kind = "file" /\ c.linkname # <<>>
LinkKnown(c) == IsLink(c) => c.linkname \in seenFiles

Seen(c) == IF c.op = "add" /\ c.kind = "file" /\ ~IsLink(c)
           THEN seenFiles \cup {c.path} ELSE seenFiles

Accept(c) ==
    /\ c.path # Malformed /\ Ordered(c) /\ LinkKnown(c)
    /\ parentDirs' = Advanced(c)
    /\ seenFiles' = Seen(c)
    /\ accepted' = Append(accepted, c)
    /\ UNCHANGED rejected

(* The first error ends the stream; the directories popped stay popped.    *)
Reject(c) ==
    /\ \/ c.path = Malformed /\ UNCHANGED parentDirs
       \/ c.path # Malformed /\ ~Ordered(c) /\ parentDirs' = Kept(c)
       \/ c.path # Malformed /\ Ordered(c) /\ ~LinkKnown(c) /\ parentDirs' = Advanced(c)
    /\ rejected' = c
    /\ UNCHANGED <<seenFiles, accepted>>

Next == rejected = NoChange /\ \E c \in Changes : Accept(c) \/ Reject(c)

Spec == Init /\ [][Next]_vars

-----------------------------------------------------------------------------
(* What the two checks are for, said without their state: paths strictly   *)
(* increase, the directory of every entry was added before it, and so was  *)
(* the file of every link, which is not a link itself.                     *)
Increasing(s)   == \A i, j \in DOMAIN s : i < j => Before(s[i].path, s[j].path)
ParentsAdded(s) ==
    \A j \in DOMAIN s : Len(s[j].path) > 1 =>
        \E i \in 1..(j - 1) : Opens(s[i]) /\ s[i].path = Dir(s[j].path)
LinksAdded(s) ==
    \A j \in DOMAIN s : IsLink(s[j]) =>
        \E i \in 1..(j - 1) : s[i].op = "add" /\ s[i].kind = "file" /\ ~IsLink(s[i])
                              /\ s[i].path = s[j].linkname
WellFormed(s) == \A j \in DOMAIN s : s[j].path # Malformed

Valid(s) == WellFormed(s) /\ Increasing(s) /\ ParentsAdded(s) /\ LinksAdded(s)

(* Only valid streams get through (validator.go:31-62, hardlinks.go:43-50) *)
(* and a change is refused only where the stream would not be valid with   *)
(* it: no walk of a real tree fails on the receiver.                       *)
Exact ==
    /\ Valid(accepted)
    /\ rejected # NoChange => ~Valid(Append(accepted, rejected))

(* The saved directories are those the next entry may be in: each is in    *)
(* the one before it, where its name is the last one seen.  So they are    *)
(* sorted, as the binary search over them needs (validator.go:46-52).      *)
SavedChain ==
    /\ parentDirs[1].dir = <<>>
    /\ \A i \in 2..Len(parentDirs) :
         /\ parentDirs[i - 1].dir = Dir(parentDirs[i].dir)
         /\ parentDirs[i - 1].last = Base(parentDirs[i].dir)
=============================================================================
