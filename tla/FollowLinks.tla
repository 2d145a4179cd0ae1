----------------------------- MODULE FollowLinks -----------------------------
(***************************************************************************)
(* FollowLinks (followlinks.go): the symlinks met on the way along the     *)
(* given paths, and what they lead to, become include patterns.  The       *)
(* recursion of symlinkResolver.append is the stack todo.                  *)
(*                                                                         *)
(* Paths are clean, and the last element alone may be a wildcard that is   *)
(* expanded, as in the code.                                               *)
(***************************************************************************)
EXTENDS Patterns

(* What is on disk: a directory, a file (ino tells which names share one   *)
(* inode), or a symlink to `to', from the root when up = Absolute, else    *)
(* from up levels above the link's own directory.                          *)
Absolute    == -1
DirNode       == [kind |-> "dir",  ino |-> 0, up |-> 0, to |-> <<>>]
FileNode(i)   == [kind |-> "file", ino |-> i, up |-> 0, to |-> <<>>]
LinkNode(u, t) == [kind |-> "link", ino |-> 0, up |-> u, to |-> t]

CONSTANT
    Cases    \* [fs, tree, follow, include, exclude, map, closed, vanishing]

VARIABLES
    case,      \* what is walked, and the FilterOpt
    todo,      \* the calls of append that have not returned: [at, rest]
    resolved,  \* symlinkResolver.resolved
    dropped,   \* what was given up because its link was resolved before
    phase      \* "follow", then "walk", then "ok" or "err"

followVars == <<todo, resolved, dropped>>

ASSUME CasesAssumption ==
    \A c \in Cases :
      /\ c.fs \in {"fs", "root", "sub"}
      /\ \A p \in DOMAIN c.tree :
           Len(p) = 1 \/ (Front(p) \in DOMAIN c.tree /\ c.tree[Front(p)].kind = "dir")
      /\ c.fs = "sub" => \A p \in DOMAIN c.tree : Len(p) = 1 => c.tree[p].kind = "dir"

Exists(p)   == p \in DOMAIN case.tree
Kind(p)     == case.tree[p].kind
IsDir(p)    == p = <<>> \/ (Exists(p) /\ Kind(p) = "dir")
Children(d) == {p \in DOMAIN case.tree : Len(p) = Len(d) + 1 /\ IsPrefix(d, p)}

-----------------------------------------------------------------------------
(* Clean(Join(Dir(p), link)): leading ".." only, as a path leaves p.       *)
LinkTarget(p) ==
    LET n == case.tree[p]
    IN  IF n.up = Absolute THEN n.to ELSE SubSeq(p, 1, Len(p) - 1 - n.up) \o n.to
(* os.Root follows no link that is absolute or leads out of it.            *)
Escapes(p) == case.tree[p].up \notin 0..(Len(p) - 1)

(* Where p leads to when only the entries S are there: for the kernel, or  *)
(* for an os.Root.                                                         *)
MaxSymlinks == 8
Lookup(S, rooted, p) ==
    LET At[n \in 0..MaxSymlinks, at \in Seq(Nat), rest \in Seq(Nat)] ==
          IF at # <<>> /\ at \notin S THEN [is |-> "missing", at |-> at]
          ELSE IF at # <<>> /\ Kind(at) = "link" THEN
                 IF n = 0 \/ (rooted /\ Escapes(at)) THEN [is |-> "error", at |-> at]
                 ELSE At[n - 1, <<>>, LinkTarget(at) \o rest]
          ELSE IF rest = <<>> THEN [is |-> "found", at |-> at]
          ELSE At[n, Append(at, Head(rest)), Tail(rest)]
    IN  At[MaxSymlinks, <<>>, p]

(* statFile and readDir are walks of the FS.  The walk of a rootFS stats   *)
(* where it starts, and so follows a link there (io/fs.WalkDir): it fails  *)
(* on one that os.Root does not follow, finds nothing at one that dangles, *)
(* and goes into one that leads to a directory, which statFile does not    *)
(* expect.  A SubDirFS announces the top directory before anything in it,  *)
(* which neither expects: they fail on whatever is in one, and its root    *)
(* lists nothing.                                                          *)
RootStat(p) == Lookup(DOMAIN case.tree, TRUE, p)
StatFails(p) ==
    \/ case.fs = "sub" /\ p # <<>> /\ Exists(SubSeq(p, 1, 1))
    \/ case.fs = "root" /\ LET s == RootStat(p) IN
         \/ s.is = "error"
         \/ s.is = "found" /\ s.at # p /\ IsDir(s.at) /\ (s.at \in case.closed \/ Children(s.at) # {})
Stats(p) == Exists(p) /\ (case.fs = "root" => RootStat(p).is = "found")
ListFails(d) ==
    \/ d \in case.closed \ {<<>>}
    \/ case.fs = "sub" /\ Len(d) > 1 /\ Exists(SubSeq(d, 1, 1))
Listed(d) ==
    IF ~IsDir(d) \/ d \in case.closed \/ (case.fs = "sub" /\ d = <<>>) THEN {} ELSE Children(d)

LinksOf(S) == {p \in S : Stats(p) /\ Kind(p) = "link"}

(* readSymlink: the last name of p may be a wildcard.                      *)
Matching(p)    == IF p # <<>> /\ Last(p) = Star THEN Listed(Front(p)) ELSE {p}
ReadFails(p)   == \/ \E q \in Matching(p) : StatFails(q)
                  \/ p # <<>> /\ Last(p) = Star /\ ListFails(Front(p))
readSymlink(p) == LET links == Sorted(LinksOf(Matching(p)))
                  IN  [i \in DOMAIN links |-> LinkTarget(links[i])]

-----------------------------------------------------------------------------
Frame(p) == [at |-> <<>>, rest |-> p]

FollowInit ==
    /\ case \in Cases
    /\ todo = [i \in DOMAIN case.follow |-> Frame(case.follow[i])]
    /\ resolved = {} /\ dropped = {}
    /\ phase = "follow"

call    == todo[1]
current == IF call.rest = <<>> THEN call.at ELSE Append(call.at, Head(call.rest))
left    == IF call.rest = <<>> THEN <<>> ELSE Tail(call.rest)
targets == readSymlink(current)

(* Mutant: a link that was met before is followed again.                   *)
NeverKnown == left = <<>> /\ targets = <<>> /\ current \in resolved

Known == (left = <<>> \/ targets # <<>>) /\ current \in resolved

(* Mutant: what a link leads to is added, and not followed any further.    *)
FollowOneLevel ==
    /\ targets # <<>> /\ ~Known
    /\ resolved' = resolved \cup {current} \cup {targets[i] \o left : i \in DOMAIN targets}
    /\ todo' = Tail(todo)
    /\ UNCHANGED <<dropped, phase>>

FollowLink ==
    /\ targets # <<>> /\ ~Known
    /\ resolved' = resolved \cup {current}
    /\ todo' = [i \in DOMAIN targets |-> Frame(targets[i] \o left)] \o Tail(todo)
    /\ UNCHANGED <<dropped, phase>>

FollowKnown ==
    /\ Known
    /\ todo' = Tail(todo)
    /\ dropped' = IF targets # <<>> /\ left # <<>> THEN dropped \cup {current \o left} ELSE dropped
    /\ UNCHANGED <<resolved, phase>>

FollowLast ==
    /\ targets = <<>> /\ left = <<>> /\ ~Known
    /\ resolved' = resolved \cup {current}
    /\ todo' = Tail(todo)
    /\ UNCHANGED <<dropped, phase>>

Descend ==
    /\ targets = <<>> /\ left # <<>>
    /\ todo' = [todo EXCEPT ![1] = [at |-> current, rest |-> left]]
    /\ UNCHANGED <<resolved, dropped, phase>>

(* One turn of append's loop.                                              *)
Follow ==
    /\ phase = "follow" /\ todo # <<>>
    /\ IF ReadFails(current)
       THEN todo' = <<>> /\ phase' = "err" /\ UNCHANGED <<resolved, dropped>>
       ELSE FollowLink \/ FollowKnown \/ FollowLast \/ Descend
    /\ UNCHANGED case
=============================================================================
