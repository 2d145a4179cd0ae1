------------------------------ MODULE DoubleWalk ------------------------------
(***************************************************************************)
(* doubleWalkDiff (diff_containerd.go) at work on a destination that       *)
(* changes under it: one goroutine walks the destination (diff.go, fs.go), *)
(* one delivers the source's entries, and the third merges the two sorted  *)
(* sequences and applies each change to the very tree the first one is     *)
(* still reading.  Removing a directory takes many steps.                  *)
(*                                                                         *)
(* A path is its sequence of name ranks; <<>> is the root.  A tree maps    *)
(* each path to what is there: Absent, or a directory or file with a       *)
(* version, which stands for size, modification time and metadata.         *)
(* ReceiveOpt.Filter is not set.                                           *)
(***************************************************************************)
EXTENDS PathOrder

CONSTANTS
    Paths,        \* the paths that may exist
    LowerKinds,   \* what the destination may hold to begin with
    UpperKinds,   \* what the source may hold
    ChanCap,      \* capacity of c1 and c2 (128 in the code)
    Rooted,       \* TRUE for a RootDiskWriter, which opens parents by a rootStack
    Faults        \* {"walk"}: the destination walk fails; {"cancel"}: the caller's context

Absent == "absent"
Dirs   == {"d1", "d2"}
Kinds  == {Absent, "f1", "f2"} \cup Dirs

ASSUME DoubleWalkAssumption ==
    /\ Paths \subseteq Seq(Nat) \ {<<>>} /\ IsFiniteSet(Paths)
    /\ \A p \in Paths : Front(p) \in Paths \cup {<<>>}
    /\ LowerKinds \subseteq Kinds /\ UpperKinds \subseteq Kinds
    /\ ChanCap \in Nat \ {0}
    /\ Rooted \in BOOLEAN
    /\ Faults \subseteq {"walk", "cancel"}

VARIABLES
    source,     \* the source tree
    lower,      \* the destination tree as it was before
    dest,       \* the destination tree
    walk,       \* the destination walk: [pc, todo, at, err]
    feed,       \* the source's goroutine: [pc, rest, err]
    c1, c2,     \* the two channels
    open1, open2, \* FALSE once the channel is closed
    f1, f2,     \* the entry taken from each side, Nil when there is none
    end1, end2, \* the loop's c1 (c2) is nil
    rmdir,      \* the directory whose entries need no removal, <<>> for ""
    loop,       \* the loop: "take", "apply", "remove", "put", "done"
    change,     \* the change being applied
    changes,    \* the changes given to changeFn so far, in order
    stack,      \* rootStack.items: [path, live], without the root
    gErr,       \* first error of the errgroup
    loopErr,    \* the error the loop returns
    canceled    \* the caller's context is done

walkVars == <<walk, c1, open1>>
feedVars == <<feed, c2, open2>>
loopVars == <<f1, f2, end1, end2, rmdir, loop, change, changes, stack, loopErr>>
vars == <<source, lower, dest, walkVars, feedVars, loopVars, gErr, canceled>>

-----------------------------------------------------------------------------
Nil == [path |-> <<>>, kind |-> Absent]
Entry(p, k) == [path |-> p, kind |-> k]

IsDir(k) == k \in Dirs
Below(p, d) == IsStrictPrefix(d, p)

Trees(kinds) ==
    {t \in [Paths -> kinds \cup {Absent}] :
        \A p \in Paths : t[p] # Absent => Front(p) = <<>> \/ IsDir(t[Front(p)])}

Present(t)     == {p \in Paths : t[p] # Absent}
Children(t, d) == {p \in Present(t) : Front(p) = d}
HasDir(t, d)   == d = <<>> \/ (d \in Paths /\ IsDir(t[d]))

ctxDone == gErr # "none" \/ canceled
First(old, e) == IF old = "none" THEN e ELSE old

Init ==
    /\ source \in Trees(UpperKinds)
    /\ lower \in Trees(LowerKinds)
    /\ dest = lower
    /\ walk = [pc |-> "walk", todo |-> << [op |-> "list", path |-> <<>>, isDir |-> TRUE] >>,
               at |-> Nil, err |-> "none"]
    /\ feed = [pc |-> "feed", rest |-> Sorted(Present(source)), err |-> "none"]
    /\ c1 = <<>> /\ c2 = <<>> /\ open1 = TRUE /\ open2 = TRUE
    /\ f1 = Nil /\ f2 = Nil /\ end1 = FALSE /\ end2 = FALSE
    /\ rmdir = <<>> /\ loop = "take" /\ change = [kind |-> "none", path |-> <<>>]
    /\ changes = <<>> /\ stack = <<>>
    /\ gErr = "none" /\ loopErr = "none" /\ canceled = FALSE

-----------------------------------------------------------------------------
(* The walk of the destination.  walk.todo is the recursion of WalkDir:    *)
(* the entries listed and not visited yet, and the directories visited and *)
(* not listed yet.                                                         *)
Visits(t, d) ==
    LET c == Sorted(Children(t, d))
    IN  [i \in 1..Len(c) |-> [op |-> "visit", path |-> c[i], isDir |-> IsDir(t[c[i]])]]

WalkStops(e) == walk' = [walk EXCEPT !.pc = "close", !.err = e]

(* ReadDir.  A directory that went away, or became a file, is skipped:     *)
(* isNotExist turns both errors into SkipDir.                              *)
WalkLists ==
    /\ walk.pc = "walk" /\ walk.todo # <<>> /\ Head(walk.todo).op = "list"
    /\ LET d == Head(walk.todo).path IN
         /\ HasDir(dest, d) \/ ~ctxDone
         /\ walk' = [walk EXCEPT !.todo =
                      IF HasDir(dest, d) THEN Visits(dest, d) \o Tail(walk.todo)
                                         ELSE Tail(walk.todo)]
    /\ UNCHANGED <<c1, open1>>

(* SkipDir: from a directory, that directory; from anything else, what is  *)
(* left of the directory it is in, which is visited next.                  *)
SkipMissing(todo, h) ==
    IF h.isDir THEN Tail(todo)
    ELSE LET siblings == {i \in 1..Len(todo) : todo[i].op = "visit" /\ Front(todo[i].path) = Front(h.path)}
         IN  SubSeq(todo, Cardinality(siblings) + 1, Len(todo))

(* The callback: the context first, then Info, which stats the entry.      *)
WalkVisits ==
    /\ walk.pc = "walk" /\ walk.todo # <<>> /\ Head(walk.todo).op = "visit"
    /\ ~ctxDone
    /\ LET h == Head(walk.todo) IN
         walk' = IF dest[h.path] = Absent
                 THEN [walk EXCEPT !.todo = SkipMissing(walk.todo, h)]
                 ELSE [walk EXCEPT !.pc = "send", !.at = Entry(h.path, dest[h.path])]
    /\ UNCHANGED <<c1, open1>>

(* Mutant: the rest of the directory comes before what is in this one.     *)
VisitedBreadth(todo, lists) == Tail(todo) \o lists

Visited(todo, lists) == lists \o Tail(todo)

WalkSends ==
    /\ walk.pc = "send" /\ Len(c1) < ChanCap
    /\ c1' = Append(c1, walk.at)
    /\ LET h == Head(walk.todo)
           lists == IF h.isDir THEN << [h EXCEPT !.op = "list"] >> ELSE <<>>
       IN walk' = [walk EXCEPT !.pc = "walk", !.at = Nil, !.todo = Visited(walk.todo, lists)]
    /\ UNCHANGED open1

(* Mutant: the send is tried again whatever the context says.              *)
SpinsToSend ==
    /\ ctxDone
    /\ \/ walk.pc = "walk" /\ walk.todo # <<>> /\ WalkStops("canceled")
       \/ walk.pc = "send" /\ UNCHANGED walk
    /\ UNCHANGED <<c1, open1>>

WalkCanceled ==
    /\ ctxDone
    /\ \/ walk.pc = "send"
       \/ /\ walk.pc = "walk" /\ walk.todo # <<>>
          /\ LET h == Head(walk.todo) IN h.op = "list" => ~HasDir(dest, h.path)
    /\ WalkStops("canceled")
    /\ UNCHANGED <<c1, open1>>

WalkFails ==
    /\ "walk" \in Faults /\ ~ctxDone
    /\ walk.pc = "walk" /\ walk.todo # <<>>
    /\ WalkStops("walk")
    /\ UNCHANGED <<c1, open1>>

WalkEnds ==
    /\ walk.pc = "walk" /\ walk.todo = <<>>
    /\ WalkStops("none")
    /\ UNCHANGED <<c1, open1>>

(* The channel is closed before the errgroup learns of the error.          *)
WalkCloses ==
    /\ walk.pc = "close"
    /\ open1' = FALSE
    /\ walk' = [walk EXCEPT !.pc = "return"]
    /\ UNCHANGED c1

WalkReturns ==
    /\ walk.pc = "return"
    /\ walk' = [walk EXCEPT !.pc = "done"]
    /\ gErr' = First(gErr, walk.err)
    /\ UNCHANGED <<source, lower, dest, c1, open1, feedVars, loopVars, canceled>>

Walk ==
    \/ /\ \/ WalkLists \/ WalkVisits \/ WalkSends \/ WalkCanceled \/ WalkFails
          \/ WalkEnds \/ WalkCloses
       /\ UNCHANGED <<source, lower, dest, feedVars, loopVars, gErr, canceled>>
    \/ WalkReturns

-----------------------------------------------------------------------------
(* The source's entries (dynamicWalker.fill in a Receive).                 *)
FeedSends ==
    /\ feed.pc = "feed" /\ feed.rest # <<>> /\ Len(c2) < ChanCap
    /\ LET p == Head(feed.rest) IN c2' = Append(c2, Entry(p, source[p]))
    /\ feed' = [feed EXCEPT !.rest = Tail(feed.rest)]
    /\ UNCHANGED open2

FeedStops ==
    /\ feed.pc = "feed"
    /\ \/ feed.rest = <<>> /\ feed' = [feed EXCEPT !.pc = "close"]
       \/ ctxDone /\ feed' = [feed EXCEPT !.pc = "close", !.err = "canceled"]
    /\ UNCHANGED <<c2, open2>>

FeedCloses ==
    /\ feed.pc = "close"
    /\ open2' = FALSE
    /\ feed' = [feed EXCEPT !.pc = "return"]
    /\ UNCHANGED c2

FeedReturns ==
    /\ feed.pc = "return"
    /\ feed' = [feed EXCEPT !.pc = "done"]
    /\ gErr' = First(gErr, feed.err)
    /\ UNCHANGED <<source, lower, dest, walkVars, c2, open2, loopVars, canceled>>

Feed ==
    \/ /\ FeedSends \/ FeedStops \/ FeedCloses
       /\ UNCHANGED <<source, lower, dest, walkVars, loopVars, gErr, canceled>>
    \/ FeedReturns

-----------------------------------------------------------------------------
(* The merge (diff_containerd.go:81-158).                                  *)
LoopFails(e) == loop' = "done" /\ loopErr' = e

(* nextPath, for each side: an entry, nil from a closed channel, or the    *)
(* context's error.                                                        *)
TakeLower ==
    /\ loop = "take" /\ f1 = Nil /\ ~end1
    /\ \/ c1 # <<>> /\ f1' = Head(c1) /\ c1' = Tail(c1) /\ UNCHANGED end1
       \/ c1 = <<>> /\ ~open1 /\ end1' = TRUE /\ UNCHANGED <<f1, c1>>
    /\ UNCHANGED <<dest, walk, open1, feedVars, f2, end2, rmdir, loop, change, changes, stack, loopErr>>

TakeUpper ==
    /\ loop = "take" /\ (f1 # Nil \/ end1) /\ f2 = Nil /\ ~end2
    /\ \/ c2 # <<>> /\ f2' = Head(c2) /\ c2' = Tail(c2) /\ UNCHANGED end2
       \/ c2 = <<>> /\ ~open2 /\ end2' = TRUE /\ UNCHANGED <<f2, c2>>
    /\ UNCHANGED <<dest, walkVars, feed, open2, f1, end1, rmdir, loop, change, changes, stack, loopErr>>

TakeCanceled ==
    /\ loop = "take" /\ ctxDone
    /\ (f1 = Nil /\ ~end1) \/ (f2 = Nil /\ ~end2)
    /\ LoopFails("canceled")
    /\ UNCHANGED <<dest, walkVars, feedVars, f1, f2, end1, end2, rmdir, change, changes, stack>>

LoopEnds ==
    /\ loop = "take" /\ end1 /\ end2 /\ f1 = Nil /\ f2 = Nil
    /\ LoopFails("none")
    /\ UNCHANGED <<dest, walkVars, feedVars, f1, f2, end1, end2, rmdir, change, changes, stack>>

Taken == loop = "take" /\ (f1 # Nil \/ end1) /\ (f2 # Nil \/ end2) /\ (f1 # Nil \/ f2 # Nil)

(* Mutant: the paths are not compared.                                     *)
KindByLower(a, b) == IF a # Nil THEN "delete" ELSE "add"

pathChange(a, b) ==
    IF a = Nil THEN "add"
    ELSE IF b = Nil \/ Before(a.path, b.path) THEN "delete"
    ELSE IF a.path = b.path THEN "modify" ELSE "add"

(* Mutant: only the types are compared.                                    *)
SameType(a, b) == IsDir(a.kind) = IsDir(b.kind)

sameFile(a, b) == a.kind = b.kind

Removed(p) == rmdir # <<>> /\ Below(p, rmdir)

(* rmdir after a Delete, and after a Modify.                               *)
DeleteRmdir(e) == IF rmdir = <<>> /\ IsDir(e.kind) THEN e.path ELSE <<>>

(* Mutant: a directory that became a file is not remembered.               *)
ModifyForgets(a, b) == <<>>

ModifyRmdir(a, b) == IF IsDir(a.kind) /\ ~IsDir(b.kind) THEN a.path ELSE <<>>

Emit(k, p) ==
    /\ loop' = "apply"
    /\ change' = [kind |-> k, path |-> p]
    /\ changes' = Append(changes, [kind |-> k, path |-> p])

Quiet == UNCHANGED <<loop, change, changes>>

Compare ==
    /\ Taken
    /\ CASE pathChange(f1, f2) = "add" ->
              /\ Emit("add", f2.path)
              /\ rmdir' = <<>> /\ f2' = Nil /\ UNCHANGED f1
         [] pathChange(f1, f2) = "delete" ->
              /\ f1' = Nil /\ UNCHANGED f2
              /\ IF Removed(f1.path)
                 THEN Quiet /\ UNCHANGED rmdir
                 ELSE Emit("delete", f1.path) /\ rmdir' = DeleteRmdir(f1)
         [] OTHER ->
              /\ f1' = Nil /\ f2' = Nil /\ rmdir' = ModifyRmdir(f1, f2)
              /\ IF sameFile(f1, f2) THEN Quiet ELSE Emit("modify", f2.path)
    /\ UNCHANGED <<dest, walkVars, feedVars, end1, end2, stack, loopErr>>

-----------------------------------------------------------------------------
(* The disk writer's HandleChange, one system call at a time where the     *)
(* walk can see it.  With Rooted the parent is opened through the          *)
(* rootStack: pop to the nearest item at or above it, then open the rest.  *)
(* Mutant: nothing is popped.                                              *)
NeverPopped(dir) == stack

Fitting(dir) == SubSeq(stack, 1, Cardinality({i \in 1..Len(stack) : IsPrefix(stack[i].path, dir)}))

AtTop(items, dir) ==
    \/ items = <<>> /\ dir = <<>>
    \/ items # <<>> /\ Last(items).path = dir

Opened(dir) ==
    LET items == Fitting(dir)
    IN  IF AtTop(items, dir) THEN items ELSE Append(items, [path |-> dir, live |-> TRUE])

ParentOpens(dir) == AtTop(Fitting(dir), dir) \/ HasDir(dest, dir)

(* Mutant: the context is not looked at.                                   *)
NeverDone == FALSE

(* The disk writer's context is the caller's, not the errgroup's here.     *)
CallerDone == canceled

ApplyStarts ==
    /\ loop = "apply"
    /\ LET p == change.path  dir == Front(p)
           typeChanges == IsDir(dest[p]) # IsDir(source[p])
       IN \/ CallerDone /\ LoopFails("canceled") /\ UNCHANGED stack
          \/ /\ ~CallerDone /\ Rooted /\ ~ParentOpens(dir)
             /\ LoopFails("openroot") /\ stack' = Fitting(dir)
          \/ /\ ~CallerDone /\ (Rooted => ParentOpens(dir))
             /\ stack' = IF Rooted THEN Opened(dir) ELSE stack
             /\ \/ /\ change.kind = "delete"
                   /\ loop' = "remove" /\ UNCHANGED loopErr
                \/ /\ change.kind # "delete"
                   /\ IF \/ change.kind = "modify" /\ dest[p] = Absent
                         \/ ~HasDir(dest, dir)
                      THEN LoopFails("missing")
                      ELSE /\ loop' = IF dest[p] # Absent /\ typeChanges THEN "remove" ELSE "put"
                           /\ UNCHANGED loopErr
    /\ UNCHANGED <<dest, walkVars, feedVars, f1, f2, end1, end2, rmdir, change, changes>>

(* RemoveAll: leaves first, in any order; a stack item whose directory is  *)
(* gone is not live any more.                                              *)
RemoveOne ==
    /\ loop = "remove"
    /\ \E q \in Present(dest) :
         /\ q = change.path \/ Below(q, change.path)
         /\ Children(dest, q) = {}
         /\ dest' = [dest EXCEPT ![q] = Absent]
         /\ stack' = [i \in DOMAIN stack |->
                        [stack[i] EXCEPT !.live = @ /\ stack[i].path # q]]
    /\ UNCHANGED <<walkVars, feedVars, f1, f2, end1, end2, rmdir, loop, change, changes, loopErr>>

RemoveEnds ==
    /\ loop = "remove" /\ dest[change.path] = Absent
    /\ loop' = IF change.kind = "delete" THEN "take" ELSE "put"
    /\ UNCHANGED <<dest, walkVars, feedVars, f1, f2, end1, end2, rmdir, change, changes, stack, loopErr>>

(* mkdir, or the rename of the new file over the old one.                  *)
Put ==
    /\ loop = "put"
    /\ dest' = [dest EXCEPT ![change.path] = source[change.path]]
    /\ loop' = "take"
    /\ UNCHANGED <<walkVars, feedVars, f1, f2, end1, end2, rmdir, change, changes, stack, loopErr>>

LoopReturns ==
    /\ loop = "done"
    /\ loop' = "over"
    /\ gErr' = First(gErr, loopErr)
    /\ UNCHANGED <<source, lower, dest, walkVars, feedVars, canceled,
                   f1, f2, end1, end2, rmdir, change, changes, stack, loopErr>>

Loop ==
    \/ /\ \/ TakeLower \/ TakeUpper \/ TakeCanceled \/ LoopEnds \/ Compare
          \/ ApplyStarts \/ RemoveOne \/ RemoveEnds \/ Put
       /\ UNCHANGED <<source, lower, gErr, canceled>>
    \/ LoopReturns

-----------------------------------------------------------------------------
(* The caller's context is cancelled.                                      *)
Cancel ==
    /\ "cancel" \in Faults /\ ~canceled /\ gErr = "none"
    /\ canceled' = TRUE
    /\ UNCHANGED <<source, lower, dest, walkVars, feedVars, loopVars, gErr>>

Ended == walk.pc = "done" /\ feed.pc = "done" /\ loop = "over"

Over == Ended /\ UNCHANGED vars

Next == Walk \/ Feed \/ Loop \/ Cancel \/ Over

Spec == Init /\ [][Next]_vars
FairSpec == Spec /\ WF_vars(Walk) /\ WF_vars(Feed) /\ WF_vars(Loop)

-----------------------------------------------------------------------------
(* What a diff must tell its changeFn: every addition, every difference,   *)
(* every entry that is gone from a directory that stays; and at most       *)
(* further removals below a directory that goes.                           *)
Expected ==
    LET ch(k, S) == {[kind |-> k, path |-> p] : p \in S}
        both == Present(source) \cap Present(lower)
    IN  ch("add", Present(source) \ Present(lower))
          \cup ch("modify", {p \in both : source[p] # lower[p]})
          \cup ch("delete", {p \in Present(lower) \ Present(source) : HasDir(source, Front(p))})

(* A diff that ends without error has made the destination the source's    *)
(* tree, although the walk it relies on ran over a tree that was changing, *)
(* and has told exactly the changes from one to the other                  *)
(* (diff_containerd.go:81-158).                                            *)
Converges ==
    (Ended /\ gErr = "none") =>
      LET told == {changes[i] : i \in DOMAIN changes}
      IN  /\ dest = source
          /\ Expected \subseteq told
          /\ \A c \in told \ Expected : c.kind = "delete" /\ ~HasDir(source, Front(c.path))

(* Changes come in the order of ComparePath and never twice for a path:    *)
(* what the writer's rootStack, and a Validator behind it, rely on.        *)
InOrder ==
    \A i, j \in DOMAIN changes : i < j => Before(changes[i].path, changes[j].path)

(* The writer creates an entry (and its .tmp sibling) only in a directory  *)
(* the walk has listed already, or never will: the walk never reports what *)
(* the diff itself made (diskwriter.go:145-151, diff.go:33-65).            *)
CreatesBehindWalk ==
    loop = "put" /\ walk.pc \in {"walk", "send"} =>
      \A i \in DOMAIN walk.todo :
        walk.todo[i].isDir => ~IsPrefix(walk.todo[i].path, Front(change.path))

(* What the source also has, in the same type, never goes away, not even   *)
(* for a moment (diff_containerd.go:174-183).                              *)
KeepsShared ==
    [][\A p \in Paths :
         (dest[p] # Absent /\ dest'[p] = Absent) =>
            source[p] = Absent \/ IsDir(source[p]) # IsDir(dest[p])]_vars

(* An entry that is as in the source is not touched (diff_containerd.go:   *)
(* 149-151), nor one that has become so.                                   *)
SettledStays ==
    [][\A p \in Paths : (dest[p] = source[p]) => dest'[p] = dest[p]]_vars

(* The writer meets a missing parent or entry in one case only: a removal  *)
(* below a directory whose own removal was reported before, which          *)
(* doubleWalkDiff asks for when one removed directory follows another, as  *)
(* rmdir is not set for the second (diff_containerd.go:125-134).           *)
WriterFails == (loop = "done" /\ loopErr \in {"openroot", "missing"})
RemovedAgain ==
    /\ change.kind = "delete"
    /\ \E i \in DOMAIN changes :
         changes[i].kind = "delete" /\ Below(change.path, changes[i].path)

FailsOnlyBelowRemoved == WriterFails => RemovedAgain

(* The directory a change is applied in is the open top of the rootStack,  *)
(* the items nest, and none of them is a directory that was removed        *)
(* (rootstack.go:26-52).                                                   *)
StackFresh ==
    /\ \A i, j \in DOMAIN stack : i < j => IsStrictPrefix(stack[i].path, stack[j].path)
    /\ \A i \in DOMAIN stack : stack[i].live
    /\ (Rooted /\ loop \in {"remove", "put"}) => AtTop(stack, Front(change.path))

(* All three goroutines end, whatever fails (errgroup's Wait returns).     *)
Ends == <>Ended

(* diff_containerd.go:176, "File in lower that is not in upper": only an   *)
(* entry the source does not have is reported as a removal.                *)
DeletesOnlyExtra ==
    \A i \in DOMAIN changes :
      changes[i].kind = "delete" => source[changes[i].path] = Absent
=============================================================================
