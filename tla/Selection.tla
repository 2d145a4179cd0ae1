------------------------------ MODULE Selection ------------------------------
(***************************************************************************)
(* What Send walks: a file system (fs.go) behind the include, exclude and  *)
(* follow patterns of a filterFS (filter.go), behind the hard link reset   *)
(* (hardlinks.go).  One step is one callback of filepath.WalkDir, while    *)
(* entries may vanish from the disk.                                       *)
(*                                                                         *)
(* case.map is the MapFunc, for the paths it does not keep.  Directories   *)
(* in case.closed can be searched and not listed.                          *)
(***************************************************************************)
EXTENDS FollowLinks

VARIABLES
    include,     \* the patterns of includeMatcher, <<>> when it is nil
    pend,        \* callbacks WalkDir has still to make: [path, err]
    parentDirs,  \* filterFS.Walk: [path, inc, exc, info, calledFn, skipFn]
    inodes,      \* seenFiles of fs.Walk: <<file system, inode>> to first path
    seenFiles,   \* hardlinkFilter.Walk
    out,         \* what reaches Send: [path, kind, ino, link]
    gone         \* entries removed from the disk meanwhile

walkVars == <<pend, parentDirs, inodes, seenFiles, out>>
vars == <<case, followVars, phase, include, walkVars, gone>>

-----------------------------------------------------------------------------
Trimmed(c, w) == IF Len(c) > 1 /\ Last(c) = w THEN Front(c) ELSE c
patternWithoutTrailingGlob(c) == Trimmed(Trimmed(c, DoubleStar), Star)
(* Mutant: patterns with a wildcard in the middle count as prefixes too.   *)
AnyPrefix(pats, neg) == TRUE

OnlyPrefix(pats, neg) ==
    \A i \in DOMAIN pats : pats[i].neg = neg =>
      \A j \in DOMAIN patternWithoutTrailingGlob(pats[i].comps) : pats[i].comps[j] > 0

(* Some pattern of that sign leads into directory p.                       *)
Leads(pats, neg, p) ==
    \E i \in DOMAIN pats :
      pats[i].neg = neg /\ IsPrefix(p, patternWithoutTrailingGlob(pats[i].comps))

-----------------------------------------------------------------------------
(* NewFilterFS.                                                            *)
dedupePaths(in) ==
    LET last[n \in 0..Len(in)] ==
          IF n = 0 THEN 0
          ELSE LET l == last[n - 1]
               IN  IF l > 0 /\ in[l].neg = in[n].neg /\ IsStrictPrefix(in[l].comps, in[n].comps) THEN l ELSE n
        kept == SelectSeq([n \in DOMAIN in |-> n], LAMBDA n : last[n] = n)
    IN  [k \in DOMAIN kept |-> in[kept[k]]]

Init ==
    /\ FollowInit
    /\ include = <<>> /\ pend = <<>> /\ parentDirs = <<>> /\ out = <<>>
    /\ inodes = <<>> /\ seenFiles = <<>> /\ gone = {}

Event(p, e) == [path |-> p, err |-> e]
Gone(p)     == \E q \in gone : IsPrefix(q, p)

(* "Skip root" (fs.go:67) drops the error of reading it as well.           *)
WalkRoot(d) == d = <<>> \/ (case.fs = "sub" /\ Len(d) = 1)

(* ReadDir, and the second callback when it fails.                         *)
Listing(d) ==
    IF d \in case.closed \/ Gone(d)
    THEN IF WalkRoot(d) THEN <<>> ELSE <<Event(d, IF Gone(d) THEN "ENOENT" ELSE "EPERM")>>
    ELSE LET names == Sorted({p \in Children(d) : ~Gone(p)})
         IN  [i \in DOMAIN names |-> Event(names[i], "none")]

Targets ==    \* FollowLinks' result; a resolved root stands for no target
    IF <<>> \in resolved THEN <<>>
    ELSE LET t == Sorted(resolved) IN [i \in DOMAIN t |-> IncludePattern(t[i])]

NewFilterFS ==
    /\ phase = "follow" /\ todo = <<>>
    /\ phase' = "walk"
    /\ include' = IF Targets # <<>> THEN dedupePaths(case.include \o dedupePaths(Targets))
                  ELSE case.include
    /\ pend' = Listing(<<>>)
    /\ UNCHANGED <<case, followVars, parentDirs, inodes, seenFiles, out, gone>>

-----------------------------------------------------------------------------
(* The callback under way.                                                 *)
path == pend[1].path
TopOfSub == case.fs = "sub" /\ Len(path) = 1

MapOf(p) == IF p \in DOMAIN case.map THEN case.map[p] ELSE "keep"

(* The parents of path: the loop that pops parentDirs.                     *)
Parents ==
    LET n == {i \in DOMAIN parentDirs : IsStrictPrefix(parentDirs[i].path, path)}
    IN  SubSeq(parentDirs, 1, IF n = {} THEN 0 ELSE Max(n))

ParentInc == IF Parents = <<>> THEN <<>> ELSE Last(Parents).inc
ParentExc == IF Parents = <<>> THEN <<>> ELSE Last(Parents).exc
IncInfo == MatchInfo(include, path, ParentInc)
ExcInfo == MatchInfo(case.exclude, path, ParentExc)
IncMiss == include # <<>> /\ ~Decides(include, IncInfo)
ExcHit  == Decides(case.exclude, ExcInfo)
Skip    == IncMiss \/ ExcHit

Prunable ==
    /\ IsDir(path)
    /\ \/ IncMiss /\ OnlyPrefix(include, FALSE) /\ ~Leads(include, FALSE, path)
       \/ ExcHit /\ OnlyPrefix(case.exclude, TRUE) /\ ~Leads(case.exclude, TRUE, path)

Filtering == include # <<>> \/ case.exclude # <<>>
PushDir(dirs, called, info) ==
    IF Filtering /\ IsDir(path)
    THEN Append(dirs, [path |-> path, inc |-> IncInfo, exc |-> ExcInfo,
                       calledFn |-> called, skipFn |-> FALSE, info |-> info])
    ELSE dirs

(* What WalkDir makes of the callback's result: SkipDir for a directory    *)
(* skips it, for a file the rest of its parent.  subDirFS returns the      *)
(* SkipDir it gets for one of its own directories (fs.go:199).             *)
Return(ret) ==
    CASE ret = "nil" ->
           /\ pend' = (IF IsDir(path) /\ pend[1].err = "none" THEN Listing(path) ELSE <<>>) \o Tail(pend)
           /\ phase' = phase
      [] ret = "SkipDir" /\ ~TopOfSub ->
           /\ pend' = IF IsDir(path) THEN Tail(pend)
                      ELSE SelectSeq(pend, LAMBDA e : Front(e.path) # Front(path))
           /\ phase' = phase
      [] OTHER -> pend' = <<>> /\ phase' = "err"

-----------------------------------------------------------------------------
(* mkstat, setUnixOpt: the first name of an inode, as long as there are    *)
(* several.  rootFS and subDirFS stat every entry walked, fs only those    *)
(* whose Info is asked for.                                                *)
Eager     == case.fs \in {"root", "sub"}
Inode(p)  == <<IF case.fs = "sub" THEN p[1] ELSE 0, case.tree[p].ino>>
Linked(p) ==
    /\ Kind(p) = "file" /\ Inode(p) \in DOMAIN inodes
    /\ \E q \in DOMAIN case.tree : q # p /\ Kind(q) = "file" /\ Inode(q) = Inode(p) /\ ~Gone(q)
Inodes(p) == IF Kind(p) = "file" /\ ~Linked(p) THEN Extend(inodes, Inode(p), p) ELSE inodes
Stat(p)   == [path |-> p, kind |-> Kind(p), ino |-> IF Kind(p) = "file" THEN Inode(p) ELSE <<>>,
              link |-> IF Linked(p) THEN inodes[Inode(p)] ELSE <<>>]

(* hardlinkFilter's callback.                                              *)
Reset(s) ==
    IF s.link \in DOMAIN seenFiles THEN [s EXCEPT !.link = seenFiles[s.link]]
    ELSE [s EXCEPT !.link = <<>>]
Learn(s) ==
    IF s.kind # "file" THEN seenFiles
    ELSE LET learnt == IF s.link # <<>> /\ s.link \notin DOMAIN seenFiles
                       THEN Extend(seenFiles, s.link, s.path) ELSE seenFiles
         IN  Extend(learnt, s.path, s.path)

-----------------------------------------------------------------------------
(* The late parents: each is announced before the first entry below it     *)
(* that is, up to one the map skips or that is gone.                       *)
InfoFails(d) == ~Eager /\ ~d.info /\ Gone(d.path)
Stops(i) ==
    LET d == Parents[i]
    IN  d.skipFn \/ (~d.calledFn /\ (InfoFails(d) \/ MapOf(d.path) = "skipdir"))
FirstStop  == Min({i \in DOMAIN Parents : Stops(i)} \cup {Len(Parents) + 1})
CallsFn(i) == i < FirstStop /\ ~Parents[i].calledFn /\ MapOf(Parents[i].path) = "keep"
LateParents ==
    LET called == SelectSeq([i \in DOMAIN Parents |-> i], CallsFn)
    IN  [k \in DOMAIN called |-> Stat(Parents[called[k]].path)]

(* Mutant: that a parent was announced is not recorded.                    *)
Forgotten == Parents

Called ==
    [i \in DOMAIN Parents |->
       [Parents[i] EXCEPT !.calledFn = @ \/ CallsFn(i),
                          !.info = @ \/ i < FirstStop,
                          !.skipFn = @ \/ (i = FirstStop /\ ~InfoFails(Parents[i]))]]

(* Send's own callback is given the parents and then the entry itself.     *)
Announce(s) ==
    IF MapOf(path) # "keep" THEN
       /\ Return(IF MapOf(path) = "skipdir" THEN "SkipDir" ELSE "nil")
       /\ parentDirs' = PushDir(Parents, TRUE, TRUE)
       /\ UNCHANGED <<seenFiles, out>>
    ELSE LET stopped == FirstStop <= Len(Parents) IN
       /\ Return(IF stopped THEN "SkipDir" ELSE "nil")
       /\ parentDirs' = PushDir(Called, TRUE, TRUE)
       /\ out' = out \o LateParents \o (IF stopped THEN <<>> ELSE <<Reset(s)>>)
       /\ seenFiles' = IF stopped THEN seenFiles ELSE Learn(s)

(* The entry passes both matchers and its Info is read.                    *)
Emit ==
    IF ~Eager /\ Gone(path) THEN
       /\ Return("SkipDir")
       /\ parentDirs' = PushDir(Parents, TRUE, FALSE)
       /\ UNCHANGED <<inodes, seenFiles, out>>
    ELSE Announce(Stat(path)) /\ inodes' = Inodes(path)

PassOver ==
    /\ Return("nil")
    /\ parentDirs' = PushDir(Parents, FALSE, FALSE)
    /\ inodes' = IF Eager /\ ~TopOfSub THEN Inodes(path) ELSE inodes
    /\ UNCHANGED <<seenFiles, out>>

Prune ==
    /\ Return("SkipDir")
    /\ parentDirs' = Parents
    /\ UNCHANGED <<inodes, seenFiles, out>>

WalkError ==
    /\ Return(IF pend[1].err = "ENOENT" THEN "SkipDir" ELSE IF Skip /\ case.fs # "sub" THEN "nil" ELSE "err")
    /\ parentDirs' = IF case.fs = "sub" THEN parentDirs ELSE Parents
    /\ UNCHANGED <<inodes, seenFiles, out>>

(* rootFS and subDirFS stat the entry before the filter sees it.           *)
Missing == Eager /\ ~TopOfSub /\ Gone(path)
StatError ==
    /\ Return("SkipDir")
    /\ UNCHANGED <<parentDirs, inodes, seenFiles, out>>

Callback ==
    /\ phase = "walk" /\ pend # <<>>
    /\ IF pend[1].err # "none" /\ case.fs = "sub" THEN WalkError
       ELSE IF Missing THEN StatError
       ELSE CASE Prunable                                -> Prune
              [] ~Prunable /\ pend[1].err # "none"          -> WalkError
              [] ~Prunable /\ pend[1].err = "none" /\ Skip  -> PassOver
              [] ~Prunable /\ pend[1].err = "none" /\ ~Skip -> Emit
    /\ UNCHANGED <<case, followVars, include, gone>>

WalkReturns ==
    /\ phase = "walk" /\ pend = <<>>
    /\ phase' = "ok"
    /\ UNCHANGED <<case, followVars, include, walkVars, gone>>

(* Somebody else removes an entry.                                         *)
Vanish ==
    /\ phase = "walk" /\ gone = {}
    /\ \E p \in case.vanishing : gone' = {p}
    /\ UNCHANGED <<case, followVars, phase, include, walkVars>>

FollowStep == Follow /\ UNCHANGED <<include, walkVars, gone>>
Done == phase \in {"ok", "err"} /\ UNCHANGED vars

Next == FollowStep \/ NewFilterFS \/ Callback \/ WalkReturns \/ Vanish \/ Done
Spec == Init /\ [][Next]_vars /\ WF_vars(FollowStep \/ NewFilterFS \/ Callback \/ WalkReturns)

-----------------------------------------------------------------------------
(* filterFS.Open                                                           *)
Opens(p) ==
    /\ include # <<>> => MatchesOrParentMatches(include, p)
    /\ ~MatchesOrParentMatches(case.exclude, p)

(* What the FilterOpt asks for, with no dedupe, pruning or inherited match. *)
Selected(p) ==
    LET wanted == case.include \o Targets
    IN  /\ wanted # <<>> => MatchesOrParentMatches(wanted, p)
        /\ ~MatchesOrParentMatches(case.exclude, p)

(* What may be missing: what the map skips; what is gone, and, behind a    *)
(* vanished file, the rest of its directory; what is below a directory     *)
(* that cannot be listed; and what a trailing "/*/**" hides.               *)
Hides(q, p) == IsPrefix(q, p) \/ (~IsDir(q) /\ IsStrictPrefix(Front(q), p) /\ Before(q, p))
MapCuts(p)  == \E q \in DOMAIN case.map :
                 /\ case.map[q] = "skipdir" /\ Hides(q, p)
                 /\ IsPrefix(q, p) \/ Selected(q)
GoneCuts(p)   == \E q \in gone : Hides(q, p)
ClosedCuts(p) == \E d \in case.closed : IsStrictPrefix(d, p) /\ (WalkRoot(d) \/ ~Selected(d))
GlobCuts      == \E i \in DOMAIN (include \o case.exclude) :
                   LET c == (include \o case.exclude)[i].comps
                   IN  Len(c) > 2 /\ Last(c) = DoubleStar /\ c[Len(c) - 1] = Star

Kept(p)  == Selected(p) /\ MapOf(p) = "keep"
Due      == {p \in DOMAIN case.tree : Kept(p) /\ ~MapCuts(p) /\ ~GoneCuts(p) /\ ~ClosedCuts(p)}
Above(S) == {p \in DOMAIN case.tree : MapOf(p) = "keep" /\ \E q \in S : IsStrictPrefix(p, q)}
Sent     == {out[i].path : i \in DOMAIN out}

(* A walk that ends well has announced all that is selected and the        *)
(* directories above, and no walk announces more; what is announced can be *)
(* opened (filter.go: pruning, inherited matches, late parents).           *)
ExactSelection ==
    /\ phase = "ok" /\ ~GlobCuts => Due \cup Above(Due) \subseteq Sent
    /\ Sent \subseteq {p \in DOMAIN case.tree : Kept(p)} \cup Above({p \in DOMAIN case.tree : Kept(p)})
    /\ \A i \in DOMAIN out : out[i].kind = "file" => Opens(out[i].path)

(* The same, taking "we can skip walking this dir if no include patterns   *)
(* could match anything inside it" (filter.go:235) at its word.            *)
PrunedMatchesNothing == phase = "ok" => Due \subseteq Sent

(* However much is filtered, the receiver's Validator and Hardlinks accept *)
(* the stream, unless the map drops a directory and keeps what is in it;   *)
(* and names of one inode stay names of one file (hardlinkFilter.Walk).    *)
StreamLegal ==
    \A j \in DOMAIN out :
      LET s == out[j] IN
      /\ \A i \in 1..(j - 1) : Before(out[i].path, s.path)
      /\ \/ Len(s.path) = 1 \/ MapOf(Front(s.path)) = "exclude"
         \/ \E i \in 1..(j - 1) : out[i].path = Front(s.path) /\ out[i].kind = "dir"
      /\ s.link # <<>> => \E i \in 1..(j - 1) : out[i].path = s.link /\ out[i].link = <<>> /\ out[i].ino = s.ino
      /\ gone = {} /\ s.kind = "file" /\ s.link = <<>> => \A i \in 1..(j - 1) : out[i].ino # s.ino

(* Where a path leads to, when only the entries S are there.               *)
Resolve(S, p) == LET r == Lookup(S, FALSE, p) IN IF r.is = "found" THEN {r.at} ELSE {}

(* A followed path leads, in what is sent, to what it leads to on disk     *)
(* (FollowLinks, NewFilterFS).  Two gaps of the code are left out: a path  *)
(* dropped since its link was resolved before with another rest, and a     *)
(* path that leads to the root while there are include patterns.           *)
FollowedIsReachable ==
    /\ phase = "ok" /\ case.exclude = <<>> /\ case.closed = {} /\ gone = {}
    /\ DOMAIN case.map = {} /\ \A i \in DOMAIN case.include : ~case.include[i].neg
    => \A i \in DOMAIN case.follow :
         \/ Star \in ToSet(case.follow[i])
         \/ dropped # {}
         \/ <<>> \in resolved /\ case.include # <<>>
         \/ Resolve(DOMAIN case.tree, case.follow[i]) \subseteq Resolve(Sent, case.follow[i])

(* Links that lead to each other do not keep FollowLinks, and pruning does *)
(* not keep Walk, from returning (symlinkResolver.resolved).               *)
WalkEnds == <>(phase \in {"ok", "err"})
=============================================================================
