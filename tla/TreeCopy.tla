------------------------------ MODULE TreeCopy ------------------------------
(***************************************************************************)
(* Copy (copy/copy.go): the sources a path or a wildcard names are copied  *)
(* below a destination root, through include and exclude patterns, while   *)
(* entries may vanish from the source and the context may be cancelled.    *)
(* The recursion of copier.copy is the stack todo; one step is one call up *)
(* to its children, or the rest of a directory's call after them.          *)
(*                                                                         *)
(* A source entry is [kind, ino, to]; the names of one inode share ino.    *)
(* An entry of the destination is [kind, node, data, mode, time]: hard     *)
(* links share node, data is the ino whose content (or target) it holds,   *)
(* mode and time the ino they were copied from, or one of Now, Old, Given. *)
(* Symlinks lead nowhere in the destination.                               *)
(***************************************************************************)
EXTENDS Patterns

Now   ==  0    \* set by the kernel
Old   == -1    \* as before Copy
Given == -2    \* set by the caller's Mode and Utime, or the default mode

CONSTANT
    Cases  \* [src, dst, from, to, slash, wild, follow, contents, replace,
           \*  include, exclude, mode, utime, bad, vanishing, cancels]

VARIABLES
    case,        \* the two trees, the arguments and CopyInfo
    phase,       \* "start", "run", then "ok" or "err"
    srcs,        \* the sources still to come
    todo,        \* the calls of copy that have not returned
    parentDirs,  \* copier.parentDirs: [src, dst, copied]
    inodes,      \* copier.inodes: ino to the first name it was copied to
    files,       \* the destination
    made,        \* what MkdirAll created
    notified,    \* the calls of ChangeFunc
    tops,        \* the sources begun: [src, dst, had]
    gone,        \* source entries removed meanwhile
    cancelled

vars == <<case, phase, srcs, todo, parentDirs, inodes, files, made, notified, tops, gone, cancelled>>

ASSUME CasesAssumption ==
    \A c \in Cases :
      /\ \A tree \in {c.src, c.dst} :
           /\ <<>> \in DOMAIN tree /\ tree[<<>>].kind = "dir"
           /\ \A p \in DOMAIN tree \ {<<>>} : Front(p) \in DOMAIN tree /\ tree[Front(p)].kind = "dir"
      /\ \A n \in 0..Len(c.to) : SubSeq(c.to, 1, n) \in DOMAIN c.dst => c.dst[SubSeq(c.to, 1, n)].kind # "link"

Src(p)    == case.src[p]
SrcDir(p) == Src(p).kind = "dir"
Gone(p)   == p \notin DOMAIN case.src \/ \E q \in gone : IsPrefix(q, p)
Bad(op, p) == <<op, p>> \in case.bad

-----------------------------------------------------------------------------
(* The destination's file system: each operator gives the tree after it.   *)
IsDir(F, p)  == p \in DOMAIN F /\ F[p].kind = "dir"
NonDir(F, p) == p \in DOMAIN F /\ F[p].kind # "dir"
Touch(F, p)  == IF p = <<>> THEN F ELSE [F EXCEPT ![Front(p)].time = Now]
Put(F, p, e) == Touch(Extend(F, p, e), p)
Fresh(F, kind, data, mode) ==
    [kind |-> kind, node |-> 1 + Max({F[p].node : p \in DOMAIN F}), data |-> data, mode |-> mode, time |-> Now]
RemoveAll(F, p) ==
    IF p \in DOMAIN F
    THEN Touch([q \in {r \in DOMAIN F : ~IsPrefix(p, r)} |-> F[q]], p) ELSE F
Chmod(F, p, m) == [q \in DOMAIN F |-> IF F[q].node = F[p].node THEN [F[q] EXCEPT !.mode = m] ELSE F[q]]
Utimes(F, p, t) == [q \in DOMAIN F |-> IF F[q].node = F[p].node THEN [F[q] EXCEPT !.time = t] ELSE F[q]]
(* Lstat(p) fails with ENOTDIR, not with ENOENT.                           *)
NoDirAbove(F, p) == \E q \in DOMAIN F : IsStrictPrefix(q, p) /\ F[q].kind \notin {"dir", "link"}

MkdirFails(F, p) == \E q \in DOMAIN F : IsPrefix(q, p) /\ F[q].kind # "dir"
Created(F, p)    == {q \in {SubSeq(p, 1, n) : n \in 1..Len(p)} : q \notin DOMAIN F}
MkdirAll(F, p) ==
    LET upto[n \in 0..Len(p)] ==
          IF n = 0 THEN F
          ELSE LET G == upto[n - 1]
                   q == SubSeq(p, 1, n)
               IN  IF q \in DOMAIN G THEN G
                   ELSE LET H == Put(G, q, Fresh(G, "dir", 0, Given))
                        IN  IF case.utime THEN Utimes(H, q, Given) ELSE H
    IN  upto[Len(p)]

(* Mutant: the times of the directories made first are left.               *)
LeftAsIs(F, dirs) == F

(* fixCreatedParentDirs, deferred to the end of Copy.                      *)
Fixed(F, dirs) ==
    IF case.utime
    THEN [p \in DOMAIN F |-> IF p \in dirs THEN [F[p] EXCEPT !.time = Given] ELSE F[p]] ELSE F

CopiedMode(p) == IF case.mode THEN Given ELSE Src(p).ino
CopiedTime(p) == IF case.utime THEN Given ELSE Src(p).ino
copyFileTimestamp(F, p, t) == Utimes(F, t, CopiedTime(p))
copyFileInfo(F, p, t) ==
    copyFileTimestamp(IF Src(p).kind = "link" THEN F ELSE Chmod(F, t, CopiedMode(p)), p, t)

-----------------------------------------------------------------------------
Init ==
    /\ case \in Cases
    /\ phase = "start" /\ srcs = <<>> /\ todo = <<>> /\ parentDirs = <<>> /\ inodes = <<>>
    /\ files = case.dst /\ made = {} /\ notified = <<>> /\ tops = <<>>
    /\ gone = {} /\ cancelled = FALSE

environment == <<case, gone, cancelled>>

Fail(F) ==
    /\ phase' = "err" /\ files' = Fixed(F, made)
    /\ srcs' = <<>> /\ todo' = <<>> /\ parentDirs' = <<>>

rootPath(p) == IF case.follow /\ ~Gone(p) /\ Src(p).kind = "link" THEN Src(p).to ELSE p

Wildcards == {i \in DOMAIN case.from : case.from[i] = Star}
Matches ==
    LET base == SubSeq(case.from, 1, Min(Wildcards) - 1)
    IN  Sorted({p \in DOMAIN case.src : /\ IsStrictPrefix(rootPath(base), p) /\ ~Gone(p)
                                        /\ Len(p) = Len(rootPath(base)) + Len(case.from) - Len(base)
                                        /\ OwnMatch(rootPath(base) \o SubSeq(case.from, Len(base) + 1, Len(case.from)), p)})

(* Up to the loop over the sources.                                        *)
Start ==
    LET ensure == IF case.slash \/ case.to = <<>> THEN case.to ELSE Front(case.to)
        F      == MkdirAll(files, ensure)
        wild   == case.wild /\ Wildcards # {}
    IN
    /\ phase = "start"
    /\ IF MkdirFails(files, ensure) THEN Fail(files) /\ UNCHANGED made
       ELSE /\ made' = Created(files, ensure)
            /\ UNCHANGED <<todo, parentDirs>>
            /\ IF wild /\ Matches = <<>>
               THEN phase' = "err" /\ files' = Fixed(F, made') /\ UNCHANGED srcs
               ELSE phase' = "run" /\ files' = F /\ srcs' = IF wild THEN Matches ELSE <<case.from>>
    /\ UNCHANGED <<environment, inodes, notified, tops>>

Frame(p, at, t, top, inc, exc) ==
    [op |-> "copy", src |-> p, at |-> at, dst |-> t, top |-> top, inc |-> inc, exc |-> exc]

(* prepareTargetDir, and the call of copy.                                 *)
HasDest   == case.to \in DOMAIN files /\ files[case.to].kind # "link"
DestOf(p, src) ==
    IF HasDest /\ src # <<>> /\ IF SrcDir(p) THEN ~case.contents ELSE IsDir(files, case.to)
    THEN Append(case.to, Last(src)) ELSE case.to
NextSource ==
    /\ phase = "run" /\ todo = <<>> /\ srcs # <<>>
    /\ LET p == rootPath(Head(srcs)) IN
       IF Gone(p) THEN Fail(files) /\ UNCHANGED <<made, tops>>
       ELSE LET t == DestOf(p, Head(srcs))
                target == IF t = <<>> \/ (case.contents /\ SrcDir(p) /\ ~HasDest) THEN t ELSE Front(t)
            IN
            IF MkdirFails(files, target) THEN Fail(files) /\ UNCHANGED <<made, tops>>
            ELSE /\ files' = MkdirAll(files, target)
                 /\ made' = made \cup Created(files, target)
                 /\ todo' = <<Frame(p, <<>>, t, TRUE, <<>>, <<>>)>>
                 /\ srcs' = Tail(srcs)
                 /\ tops' = Append(tops, [src |-> p, dst |-> t, had |-> IsDir(files', t)])
                 /\ UNCHANGED <<phase, parentDirs>>
    /\ UNCHANGED <<environment, inodes, notified>>

-----------------------------------------------------------------------------
(* The call under way: copier.copy.                                        *)
f == todo[1]

IncInfo  == IF f.at = <<>> THEN <<>> ELSE MatchInfo(case.include, f.at, f.inc)
ExcInfo  == IF f.at = <<>> THEN <<>> ELSE MatchInfo(case.exclude, f.at, f.exc)
Excluded == f.at # <<>> /\ Decides(case.exclude, ExcInfo)
Included == f.at = <<>> \/ ((case.include = <<>> \/ Decides(case.include, IncInfo)) /\ ~Excluded)
(* Mutant: exceptions below what is excluded are forgotten.                *)
SkipsAll == ~Included /\ case.include = <<>>

CanSkip  == ~Included /\ case.include = <<>> /\ ~Exclusions(case.exclude)

(* Mutant: an entry of another kind is not removed either.                 *)
KeepsTarget(F) == F

removeTargetIfNeeded(F) ==
    IF case.replace /\ ~(SrcDir(f.src) /\ IsDir(F, f.dst)) THEN RemoveAll(F, f.dst) ELSE F

(* copyDirectoryOnly                                                       *)
DirOnly(F, p, t, overwrite) ==
    IF t \notin DOMAIN F THEN Put(F, t, Fresh(F, "dir", 0, Src(p).ino))
    ELSE IF overwrite THEN Chmod(F, t, Src(p).ino) ELSE F

(* createParentDirs: the delayed directories above what is selected.       *)
ParentFails(F, d) ==
    /\ ~d.copied
    /\ Gone(d.src) \/ NonDir(F, d.dst) \/ (d.dst \notin DOMAIN F /\ Bad("meta", d.src))
WithParent(F, d) ==
    IF d.copied \/ Gone(d.src) \/ NonDir(F, d.dst) THEN F
    ELSE LET G == DirOnly(F, d.src, d.dst, TRUE)
         IN  IF d.dst \in DOMAIN F \/ Bad("meta", d.src) THEN G ELSE copyFileInfo(G, d.src, d.dst)
createParentDirs(F) ==
    LET failing   == {i \in DOMAIN parentDirs : ParentFails(F, parentDirs[i])}
        last      == Min(failing \cup {Len(parentDirs)})
        upto[i \in 0..last] == IF i = 0 THEN F ELSE WithParent(upto[i - 1], parentDirs[i])
    IN  [tree |-> upto[last], ok |-> failing = {}]

(* Mutant: a directory that was there before is not told of.               *)
TellsCreated(created) == Included /\ created

Tells(created) == Included /\ (created \/ ~f.top)

(* The rest of the call for a directory follows its children.              *)
CopyDirectory(F, dirs) ==
    LET created == f.dst \notin DOMAIN F
        G       == IF Included THEN DirOnly(F, f.src, f.dst, ~f.top) ELSE F
        tells   == Tells(created)
        prune   == Excluded /\ ~Exclusions(case.exclude)
        names   == IF prune THEN <<>> ELSE Sorted({p \in DOMAIN case.src : p # <<>> /\ Front(p) = f.src /\ ~Gone(p)})
        calls   == [i \in DOMAIN names |->
                      Frame(names[i], Append(f.at, Last(names[i])), Append(f.dst, Last(names[i])), FALSE, IncInfo, ExcInfo)]
        info    == IF ~Included THEN "none" ELSE IF f.top /\ ~created THEN "time" ELSE "all"
    IN
    /\ IF Included /\ NonDir(F, f.dst) THEN Fail(F) /\ UNCHANGED notified
       ELSE /\ notified' = IF tells /\ ~Bad("notify", f.src) THEN Append(notified, f.dst) ELSE notified
            /\ IF (tells /\ Bad("notify", f.src)) \/ (~prune /\ Bad("read", f.src)) THEN Fail(G)
               ELSE /\ files' = G
                    /\ parentDirs' = Append(dirs, [src |-> f.src, dst |-> f.dst, copied |-> Included])
                    /\ todo' = calls \o <<[op |-> "leave", src |-> f.src, dst |-> f.dst, info |-> info]>> \o Tail(todo)
                    /\ UNCHANGED <<phase, srcs>>
    /\ UNCHANGED inodes

(* getLinkSource                                                           *)
HasLinks(p) == Src(p).kind = "file" /\ \E q \in DOMAIN case.src \ {p} : ~Gone(q) /\ Src(q).ino = Src(p).ino
(* Mutant: the names copied before are not looked up.                      *)
NeverLink   == FALSE

IsLink      == HasLinks(f.src) /\ Src(f.src).ino \in DOMAIN inodes

(* A file is linked or its content copied; a symlink, device or pipe made. *)
CopyOther(F, dirs) ==
    LET G    == RemoveAll(F, f.dst)
        ino  == Src(f.src).ino
        link == inodes[ino]
        cannot == IF IsLink THEN link \notin DOMAIN G \/ IsDir(G, link) ELSE Bad("read", f.src)
        H    == Put(G, f.dst, IF IsLink THEN G[link] ELSE Fresh(G, Src(f.src).kind, ino, Now))
        dead == H[f.dst].kind = "link" /\ Src(f.src).kind # "link"    \* chmod follows it
        I    == copyFileInfo(H, f.src, f.dst)
    IN
    /\ inodes' = IF HasLinks(f.src) /\ ~IsLink /\ ~IsDir(F, f.dst) THEN Extend(inodes, ino, f.dst) ELSE inodes
    /\ IF IsDir(F, f.dst) THEN Fail(F) /\ UNCHANGED notified
       ELSE IF cannot THEN Fail(G) /\ UNCHANGED notified
       ELSE IF dead \/ Bad("meta", f.src) THEN Fail(H) /\ UNCHANGED notified
       ELSE IF Bad("notify", f.src) THEN Fail(I) /\ UNCHANGED notified
       ELSE /\ files' = I /\ notified' = Append(notified, f.dst)
            /\ todo' = Tail(todo) /\ parentDirs' = dirs
            /\ UNCHANGED <<phase, srcs>>

Skip ==
    /\ todo' = Tail(todo)
    /\ UNCHANGED <<phase, srcs, parentDirs, inodes, files, notified>>

copy ==
    /\ phase = "run" /\ todo # <<>> /\ f.op = "copy"
    /\ IF cancelled THEN Fail(files) /\ UNCHANGED <<inodes, notified>>
       ELSE IF CanSkip THEN Skip
       ELSE IF Gone(f.src) THEN Fail(files) /\ UNCHANGED <<inodes, notified>>
       ELSE IF ~Included /\ ~SrcDir(f.src) THEN Skip
       ELSE IF NoDirAbove(files, f.dst) THEN Fail(files) /\ UNCHANGED <<inodes, notified>>
       ELSE IF ~Included THEN CopyDirectory(files, parentDirs)
       ELSE LET above == createParentDirs(removeTargetIfNeeded(files))
                dirs  == [i \in DOMAIN parentDirs |-> [parentDirs[i] EXCEPT !.copied = TRUE]]
            IN  IF ~above.ok THEN Fail(above.tree) /\ UNCHANGED <<inodes, notified>>
                ELSE IF SrcDir(f.src) THEN CopyDirectory(above.tree, dirs)
                ELSE CopyOther(above.tree, dirs)
    /\ UNCHANGED <<environment, made, tops>>

(* What a directory's call does once its children are copied.              *)
LeaveDirectory ==
    /\ phase = "run" /\ todo # <<>> /\ f.op = "leave"
    /\ IF f.info # "none" /\ Bad("meta", f.src) THEN Fail(files)
       ELSE /\ files' = CASE f.info = "all"  -> copyFileInfo(files, f.src, f.dst)
                          [] f.info = "time" -> copyFileTimestamp(files, f.src, f.dst)
                          [] OTHER           -> files
            /\ todo' = Tail(todo) /\ parentDirs' = Front(parentDirs)
            /\ UNCHANGED <<phase, srcs>>
    /\ UNCHANGED <<environment, inodes, made, notified, tops>>

Return ==
    /\ phase = "run" /\ todo = <<>> /\ srcs = <<>>
    /\ phase' = "ok" /\ files' = Fixed(files, made)
    /\ UNCHANGED <<environment, srcs, todo, parentDirs, inodes, made, notified, tops>>

(* Somebody else removes a source entry, or gives the copy up.             *)
Vanish ==
    /\ phase = "run" /\ gone = {}
    /\ \E p \in case.vanishing : gone' = {p}
    /\ UNCHANGED <<case, phase, srcs, todo, parentDirs, inodes, files, made, notified, tops, cancelled>>
Cancel ==
    /\ phase = "run" /\ case.cancels /\ ~cancelled
    /\ cancelled' = TRUE
    /\ UNCHANGED <<case, phase, srcs, todo, parentDirs, inodes, files, made, notified, tops, gone>>

Done == phase \in {"ok", "err"} /\ UNCHANGED vars

Next == Start \/ NextSource \/ copy \/ LeaveDirectory \/ Return \/ Vanish \/ Cancel \/ Done
Spec == Init /\ [][Next]_vars

-----------------------------------------------------------------------------
(* What was asked for.  x = <<k, p>> is entry p of the k-th source.        *)
Entries   == {<<k, p>> : k \in DOMAIN tops, p \in {q \in DOMAIN case.src : TRUE}}
InSource(x) == IsPrefix(tops[x[1]].src, x[2])
Rel(x)    == SubSeq(x[2], Len(tops[x[1]].src) + 1, Len(x[2]))
Target(x) == tops[x[1]].dst \o Rel(x)
Selected  ==
    {x \in Entries :
       /\ InSource(x)
       /\ \/ Rel(x) = <<>>
          \/ /\ case.include # <<>> => MatchesOrParentMatches(case.include, Rel(x))
             /\ ~MatchesOrParentMatches(case.exclude, Rel(x))}
Delayed   == {x \in Entries \ Selected : InSource(x) /\ \E y \in Selected : y[1] = x[1] /\ IsStrictPrefix(x[2], y[2])}
IsFile(x) == Src(x[2]).kind # "dir"

(* A later source may bring another entry to the same place.               *)
Replaces(y, x) ==
    y[1] > x[1] /\ (Target(y) = Target(x) \/ (IsFile(y) /\ IsStrictPrefix(Target(y), Target(x))))
Stays     == {x \in Selected : \A y \in Selected : ~Replaces(y, x)}

(* A name in inodes that a later source replaced: what is linked to it     *)
(* holds the content of the other source's file.                           *)
StaleName == \E x \in Selected \ Stays : HasLinks(x[2])

(* What is selected, with its kind and content, arrives; what is not,      *)
(* changes nothing, but that a delayed directory already there gets the    *)
(* source's mode (copier.copy: inherited matches, delayed parents,         *)
(* AlwaysReplaceExistingDestPaths).                                        *)
CopyIsSelection ==
    /\ phase = "ok" /\ gone = {} =>
         \A x \in Stays :
           /\ Target(x) \in DOMAIN files /\ files[Target(x)].kind = Src(x[2]).kind
           /\ IsFile(x) /\ ~StaleName => files[Target(x)].data = Src(x[2]).ino
    /\ \A t \in DOMAIN files \ DOMAIN case.dst :
         IsPrefix(t, case.to) \/ \E x \in Selected : IsPrefix(t, Target(x))
    /\ \A t \in DOMAIN case.dst :
         \/ \E x \in Selected : Target(x) = t \/ (IsFile(x) /\ IsPrefix(Target(x), t))
         \/ /\ t \in DOMAIN files
            /\ files[t].kind = case.dst[t].kind /\ files[t].data = case.dst[t].data
            /\ files[t].mode = Old \/ \E x \in Delayed : Target(x) = t

(* A source's own directory is merged into one that was there before.      *)
Merged(x)    == Rel(x) = <<>> /\ SrcDir(x[2]) /\ tops[x[1]].had
WasThere(t)  == t \in DOMAIN case.dst /\ case.dst[t].kind = "dir"
(* Another source put something there or below.                            *)
Shared(x)    == \E y \in Selected \cup Delayed : y[1] # x[1] /\ IsPrefix(Target(x), Target(y))
Disturbed(x) == \E y \in Selected \cup Delayed : y[1] > x[1] /\ IsPrefix(Target(x), Target(y))

(* Every entry copied has its source's mode and time, or those asked for,  *)
(* when Copy returns, directories too although their children come later.  *)
(* A directory merged into one that was there does not overwrite its mode  *)
(* (copy_test.go:257), and leaves it a time that is not that of the copy:  *)
(* the previous one, by the comment at copy.go:429; the source's, by the   *)
(* code.  Left out: where another source was copied over or into it.       *)
MetadataKept ==
    phase = "ok" /\ gone = {} =>
      /\ ~StaleName => \A x \in Stays :
           /\ ~Merged(x) /\ ~Disturbed(x) =>
                /\ files[Target(x)].time = CopiedTime(x[2])
                /\ Src(x[2]).kind = "link" \/ files[Target(x)].mode = CopiedMode(x[2])
           /\ Merged(x) /\ WasThere(Target(x)) /\ ~Shared(x) =>
                /\ files[Target(x)].time \in {Old, CopiedTime(x[2])}
                /\ files[Target(x)].mode = Old
      /\ case.utime => \A t \in made : files[t].time = Given

(* Names of one inode stay names of one file, and no others become so      *)
(* (getLinkSource).                                                        *)
LinksKept ==
    phase = "ok" /\ gone = {} /\ ~StaleName =>
      \A x, y \in {z \in Stays : Src(z[2]).kind = "file"} :
        x # y => (files[Target(x)].node = files[Target(y)].node <=> HasLinks(x[2]) /\ Src(x[2]).ino = Src(y[2]).ino)

(* ChangeFunc hears of every entry copied once for each source that brings *)
(* it, after the directory it is in (notifyChange); of a directory that    *)
(* was made late, never.                                                   *)
Count(t) == Cardinality({i \in DOMAIN notified : notified[i] = t})
NotifiedOnce ==
    /\ phase = "ok" /\ gone = {} =>
         \A t \in DOMAIN files \cup ToSet(notified) :
           Count(t) = Cardinality({x \in Selected : Target(x) = t /\ (IsFile(x) \/ Rel(x) # <<>> \/ ~tops[x[1]].had)})
    /\ \A i, j \in DOMAIN notified :
         i < j /\ IsStrictPrefix(notified[j], notified[i]) => \E h \in 1..i : notified[h] = notified[j]

(* Copy fails only when something else did, when there is no source, or    *)
(* when a file is where a directory has to be or the reverse; with         *)
(* AlwaysReplaceExistingDestPaths only where a directory is made late, or  *)
(* is walked and not copied.                                               *)
Clash(x, t, kind) ==
    \/ t = Target(x) /\ (kind = "dir") # SrcDir(x[2])
    \/ IsStrictPrefix(t, Target(x)) /\ kind # "dir"
InTheWay(x) ==
    \/ \E t \in DOMAIN case.dst : Clash(x, t, case.dst[t].kind)
    \/ \E y \in Selected : y[1] < x[1] /\ Clash(x, Target(y), Src(y[2]).kind)
Sources  == IF Wildcards = {} THEN <<case.from>> ELSE Matches
NoSource == Sources = <<>> \/ \E i \in DOMAIN Sources : Gone(rootPath(Sources[i]))
Below    == case.slash \/ (~case.contents /\ \E i \in DOMAIN Sources : SrcDir(rootPath(Sources[i])))
NoPlace  == \E F \in {case.dst, files}, n \in 0..Len(case.to) :
              NonDir(F, SubSeq(case.to, 1, n)) /\ (n = Len(case.to) => Below)
FailsForCause ==
    phase = "err" =>
      \/ cancelled \/ gone # {} \/ case.bad # {} \/ NoSource \/ NoPlace \/ StaleName
      \/ \E x \in Selected : InTheWay(x) /\ ~case.replace
      \/ \E x \in Entries \ Selected : InSource(x) /\ SrcDir(x[2]) /\ InTheWay(x)
=============================================================================
