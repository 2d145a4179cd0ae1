-------------------------------- MODULE Writer --------------------------------
(***************************************************************************)
(* DiskWriter and RootDiskWriter (diskwriter.go, rootdiskwriter.go), one   *)
(* system call at a time: HandleChange for one change after the other, a   *)
(* goroutine per file that waits for its content, and the receive loop,    *)
(* which writes what arrives into those files (receive.go).  Calls fail,   *)
(* the transfer is cancelled, the process dies, and a second transfer      *)
(* follows on what the first one left.                                     *)
(*                                                                         *)
(* A name is its sequence of ranks.  The disk maps names to inodes; an     *)
(* inode is named after the entry and the attempt it was made for, 0 for   *)
(* what was there before, 3 for what somebody else made.  How the changes  *)
(* come about is DoubleWalk's subject: here they are the difference found  *)
(* when an attempt starts.                                                 *)
(***************************************************************************)
EXTENDS PathOrder

CONSTANT
    Scenarios  \* [source, before, rooted, sync, root, filtered, trouble]

Node(kind, ver, n, mode, mtime) == [kind |-> kind, ver |-> ver, n |-> n, mode |-> mode, mtime |-> mtime]

(* Trees of directories; a link names an earlier regular file and has its  *)
(* mode.  "fresh" is the mode of what is being made, and what has a time   *)
(* of the source's was made from it.  A filter leaves out no directory:    *)
(* what is in it would find no parent.                                     *)
IsTree(entries, dirs, names) == \A p \in entries, q \in names : IsStrictPrefix(q, p) => q \in dirs

ASSUME WriterAssumption ==
    \A s \in Scenarios :
      LET source == s.source  before == s.before
          names == DOMAIN source \cup DOMAIN before
      IN  /\ names \subseteq Seq(Nat) \ {<<>>} /\ IsFiniteSet(names)
          /\ \A p \in names : (\A k \in 1..Len(p) : p[k] < 100) /\ (Len(p) > 1 => Front(p) \in names)
          /\ IsTree(DOMAIN source, {q \in DOMAIN source : source[q].kind = "dir"}, names)
          /\ IsTree(DOMAIN before, {q \in DOMAIN before : before[q].node.kind = "dir"}, names)
          /\ \A p \in DOMAIN source :
               /\ source[p].mode \notin {"fresh", ""}
               /\ source[p].kind # "file" => source[p].n = 0
               /\ source[p].kind = "dir" => p \notin s.filtered
               /\ source[p].link # <<>> =>
                    LET l == source[p].link
                    IN  /\ l \in DOMAIN source /\ Before(l, p)
                        /\ source[l].link = <<>> /\ source[l].n = source[p].n /\ source[l].mode = source[p].mode
                        /\ source[l].kind = "file" /\ source[p].kind = "file"
          /\ \A p \in DOMAIN before :
               LET node == before[p].node  l == before[p].link
               IN  /\ node = Node(node.kind, node.ver, node.n, node.mode, node.mtime) /\ node.mode # "fresh"
                   /\ IF node.kind = "dir" THEN node.n = 0 ELSE node.mtime = "src" => node.ver = "src"
                   /\ l # <<>> => /\ l \in DOMAIN before /\ before[l].link = <<>>
                                  /\ before[l].node.kind # "dir" /\ node.kind # "dir"

VARIABLES
    sc,        \* the scenario
    disk,      \* the name space: inode or None
    inode,     \* [kind, ver, n, mode, mtime]
    attempt,   \* 1, 2
    list,      \* the changes HandleChange has still to be called with
    step,      \* HandleChange: "next", "make", "meta", "swap"
    rename,    \* newPath is a temporary name
    dirTimes,  \* dirModTimes
    files,     \* the goroutines: [pc, f, saved, closed, done]
    loop,      \* the receive loop: [at, path]
    fate,      \* doubleWalkDiff and Wait: "run", "wait", "ok", "failed"
    ctxDone,   \* the errgroup's context of receiver.run
    held,      \* directories kept open: "stack", "cache"
    fds,       \* files open for writing
    blame      \* why something may fail: "fault", "cancel", "chmod", "filter"

diskVars == <<disk, inode>>
vars == <<sc, diskVars, attempt, list, step, rename, dirTimes, files, loop, fate, ctxDone, held, fds, blame>>

None == <<>>
Paths == DOMAIN sc.source \cup DOMAIN sc.before
Temp(p, k) == Append(Front(p), 100 * k + Last(p))
Names == Paths \cup {Temp(p, k) : p \in Paths, k \in {1, 2}}

Present(x)  == disk[x] # None
At(x)       == inode[disk[x]]
IsDirAt(x)  == Present(x) /\ At(x).kind = "dir"
Src(p)      == sc.source[p]
IsLink(p)   == Src(p).link # <<>>

-----------------------------------------------------------------------------
(* The difference: sameFile with DiffMetadata, the Linkname of the         *)
(* destination being the first name of the inode.                          *)
FirstName(x) == CHOOSE y \in Names : disk[y] = disk[x] /\ \A z \in Names : disk[z] = disk[x] => ~Before(z, y)
SameFile(p) ==
    LET s == Src(p) o == At(p) IN
    /\ s.kind = o.kind /\ s.mode = o.mode
    /\ s.kind = "dir" \/ (s.n = o.n /\ o.mtime = "src" /\ s.link = IF FirstName(p) = p THEN <<>> ELSE FirstName(p))

Changed ==
    {x \in Names :
       IF x \in DOMAIN sc.source THEN ~Present(x) \/ ~SameFile(x)
       ELSE Present(x) /\ ~\E d \in Names : IsStrictPrefix(d, x) /\ IsDirAt(d)
                                              /\ (d \in DOMAIN sc.source => Src(d).kind # "dir")}
Difference ==
    LET names == Sorted(Changed)
    IN  [i \in DOMAIN names |->
           [path |-> names[i],
            kind |-> IF names[i] \notin DOMAIN sc.source THEN "delete"
                     ELSE IF Present(names[i]) THEN "modify" ELSE "add"]]

NoFile == [pc |-> "off", f |-> "none", saved |-> "", closed |-> FALSE, done |-> FALSE]
Idle   == [at |-> "idle", path |-> <<>>]

Init ==
    /\ sc \in Scenarios
    /\ disk = [x \in Names |-> IF x \in DOMAIN sc.before
                               THEN <<IF sc.before[x].link = <<>> THEN x ELSE sc.before[x].link, 0>> ELSE None]
    /\ inode = [i \in Names \X (0..3) |->
                  IF i[2] = 0 /\ i[1] \in DOMAIN sc.before THEN sc.before[i[1]].node
                  ELSE Node("", "", 0, "", "")]
    /\ attempt = 1 /\ list = Difference /\ step = "next" /\ rename = FALSE /\ dirTimes = {}
    /\ files = [p \in DOMAIN sc.source |-> NoFile] /\ loop = Idle /\ fate = "run"
    /\ ctxDone = FALSE /\ held = {} /\ fds = {} /\ blame = {}

-----------------------------------------------------------------------------
(* File system calls.  What changes in a directory changes its mtime.      *)
Touched(nodes, x) ==
    IF Len(x) = 1 \/ ~Present(Front(x)) THEN nodes ELSE [nodes EXCEPT ![disk[Front(x)]].mtime = "now"]
RemoveAll(x) ==
    /\ disk' = [y \in Names |-> IF IsPrefix(x, y) THEN None ELSE disk[y]]
    /\ inode' = Touched(inode, x)
Rename(x, y) ==    \* of two names of one inode rename does nothing
    /\ disk' = IF disk[x] = disk[y] THEN disk ELSE [disk EXCEPT ![y] = disk[x], ![x] = None]
    /\ inode' = Touched(inode, y)
Create(x, i, node) ==
    /\ disk' = [disk EXCEPT ![x] = i]
    /\ inode' = Touched([inode EXCEPT ![i] = node], x)

(* rewriteMetadata: owner, mode, then times.                               *)
rewriteMetadata(x, p) == inode' = [inode EXCEPT ![disk[x]].mode = Src(p).mode, ![disk[x]].mtime = "src"]

-----------------------------------------------------------------------------
change == list[1].path
kind   == list[1].kind
newPath == IF rename THEN Temp(change, attempt) ELSE change
Handling == fate = "run" /\ list # <<>>

DiskFixed == UNCHANGED diskVars
AsyncFixed == UNCHANGED <<files, loop, fds>>
DiffFixed == UNCHANGED <<list, step, rename, dirTimes, fate>>

(* An error of HandleChange cancels the writer and ends the transfer, and  *)
(* Wait is not called.                                                     *)
Fail ==
    /\ fate' = "failed" /\ ctxDone' = TRUE
    /\ UNCHANGED <<list, step, rename, dirTimes>>
Returns == list' = Tail(list) /\ step' = "next"

(* The checks up to Lstat, and what needs no new entry.                    *)
StartChange ==
    /\ Handling /\ step = "next"
    /\ held' = IF sc.rooted THEN held \cup {"stack"} ELSE held
    /\ UNCHANGED <<sc, attempt, blame>> /\ AsyncFixed
    /\ \/ ctxDone /\ Fail /\ DiskFixed
       \/ ~ctxDone /\ change \in sc.filtered /\ Returns /\ DiskFixed
          /\ UNCHANGED <<rename, dirTimes, fate, ctxDone>>
       \/ ~ctxDone /\ change \notin sc.filtered /\ kind = "delete" /\ RemoveAll(change) /\ Returns
          /\ UNCHANGED <<rename, dirTimes, fate, ctxDone>>
       \/ /\ ~ctxDone /\ change \notin sc.filtered /\ kind # "delete"
          /\ IsDirAt(change) /\ Src(change).kind = "dir"
          /\ rewriteMetadata(change, change) /\ Returns
          /\ UNCHANGED <<disk, rename, dirTimes, fate, ctxDone>>
       \/ /\ ~ctxDone /\ change \notin sc.filtered /\ kind # "delete"
          /\ ~(IsDirAt(change) /\ Src(change).kind = "dir")
          /\ rename' = Present(change) /\ step' = "make"
          /\ UNCHANGED <<diskVars, list, dirTimes, fate, ctxDone>>

(* Mkdir, Symlink, Link or OpenFile at newPath; with SyncDataCb the content *)
(* as well.  A directory somebody else made meanwhile is handled afresh.   *)
Make ==
    /\ Handling /\ step = "make"
    /\ LET s == Src(change) new == <<change, attempt>> IN
       \/ /\ s.kind = "dir" /\ Present(newPath)
          /\ step' = "next"
          /\ UNCHANGED <<diskVars, list, rename, dirTimes, fate, ctxDone, blame>>
       \/ /\ IsLink(change) /\ (~Present(s.link) \/ IsDirAt(s.link))
          /\ Fail /\ DiskFixed
          /\ blame' = IF s.link \in sc.filtered THEN blame \cup {"filter"} ELSE blame
       \/ /\ IF IsLink(change)
             THEN /\ Present(s.link) /\ ~IsDirAt(s.link)
                  /\ disk' = [disk EXCEPT ![newPath] = disk[s.link]]
                  /\ inode' = Touched(inode, newPath)
             ELSE /\ s.kind = "dir" => ~Present(newPath)
                  /\ Create(newPath, new, Node(s.kind, "src", IF sc.sync THEN s.n ELSE 0, "fresh", "now"))
          /\ dirTimes' = IF s.kind = "dir" THEN dirTimes \cup {change} ELSE dirTimes
          /\ step' = "meta"
          /\ UNCHANGED <<list, rename, fate, ctxDone, blame>>
    /\ UNCHANGED <<sc, attempt, held>> /\ AsyncFixed

(* requestAsyncFileData for a regular file; processChange notifies of      *)
(* anything else.                                                          *)
HandOver ==
    /\ Returns
    /\ files' = IF Src(change).kind = "file" /\ ~IsLink(change) /\ ~sc.sync
                THEN [files EXCEPT ![change].pc = "start"] ELSE files

Meta ==
    /\ Handling /\ step = "meta"
    /\ rewriteMetadata(newPath, change) /\ UNCHANGED disk
    /\ IF rename THEN step' = "swap" /\ UNCHANGED <<list, files>> ELSE HandOver
    /\ UNCHANGED <<sc, attempt, rename, dirTimes, loop, fate, ctxDone, held, fds, blame>>

(* Mutant: whatever was there is removed first.                            *)
AlwaysRemoved == Present(change)

(* A directory in the place of something else, or the other way round, is  *)
(* removed first; then the rename.                                         *)
Differs == Present(change) /\ IsDirAt(change) # (Src(change).kind = "dir")

Swap ==
    /\ Handling /\ step = "swap"
    /\ IF Differs THEN RemoveAll(change) /\ UNCHANGED <<list, step, files>>
       ELSE Rename(newPath, change) /\ HandOver
    /\ UNCHANGED <<sc, attempt, rename, dirTimes, loop, fate, ctxDone, held, fds, blame>>

-----------------------------------------------------------------------------
(* Any call may fail before it has an effect.                              *)
CallFails ==
    /\ "fault" \in sc.trouble /\ attempt = 1 /\ Handling /\ step # "next" /\ "fault" \notin blame
    /\ Fail /\ blame' = blame \cup {"fault"}
    /\ UNCHANGED <<sc, diskVars, attempt, held>> /\ AsyncFixed

(* Wait: after the goroutines, the caches are closed and the directories   *)
(* made get their times.                                                   *)
WaitStarts ==
    /\ fate = "run" /\ list = <<>> /\ fate' = "wait"
    /\ UNCHANGED <<sc, diskVars, attempt, list, step, rename, dirTimes, ctxDone, held, blame>> /\ AsyncFixed

Over(p) == files[p].pc \in {"off", "done", "failed"}
Wait ==
    /\ fate = "wait" /\ \A p \in DOMAIN files : Over(p)
    /\ held' = {}
    /\ IF \E p \in DOMAIN files : files[p].pc = "failed"
       THEN Fail /\ UNCHANGED inode
       ELSE /\ inode' = [i \in DOMAIN inode |->
                           IF \E d \in dirTimes : disk[d] = i THEN [inode[i] EXCEPT !.mtime = "src"] ELSE inode[i]]
            /\ fate' = "ok"
            /\ UNCHANGED <<list, step, rename, dirTimes, ctxDone>>
    /\ UNCHANGED <<sc, disk, attempt, blame>> /\ AsyncFixed

-----------------------------------------------------------------------------
(* The goroutine of requestAsyncFileData.                                  *)
AsyncStays == UNCHANGED <<sc, disk, attempt, list, step, rename, dirTimes, loop, fate, ctxDone, blame>>
egDone == ctxDone \/ \E p \in DOMAIN files : files[p].pc = "failed"
Goto(p, l) == [files EXCEPT ![p].pc = l]

(* It gets its lease and sends its request.                                *)
AsyncStarts(p) ==
    /\ files[p].pc = "start"
    /\ files' = Goto(p, "wait")
    /\ held' = IF sc.rooted THEN held \cup {"cache"} ELSE held
    /\ AsyncStays /\ UNCHANGED <<inode, fds>>

(* wwc.Wait returns as the content is complete; NotifyCb has the digest.   *)
AsyncHasContent(p) ==
    /\ files[p].pc = "wait" /\ files[p].done
    /\ files' = Goto(p, "times")
    /\ AsyncStays /\ UNCHANGED <<inode, held, fds>>

(* Mutant: the widened mode stays.                                         *)
Unrestored(p) == inode

(* Close gives the mode back, when the file was opened by widening it.     *)
Restored(p) ==
    IF files[p].saved = "" THEN inode ELSE [inode EXCEPT ![disk[p]].mode = files[p].saved]
Closed(p, f) == [f EXCEPT !.f = IF f.f = "open" THEN "closed" ELSE f.f, !.closed = TRUE]

(* Mutant: the writer is not closed when its goroutine gives up.           *)
AsyncForgets(p) ==
    /\ files[p].pc = "wait" /\ egDone
    /\ files' = Goto(p, "failed")
    /\ AsyncStays /\ UNCHANGED <<inode, held, fds>>

(* wwc.Wait returns as the context is done.  rootLazyFileWriter is closed, *)
(* lazyFileWriter is not.                                                  *)
AsyncGivesUp(p) ==
    /\ files[p].pc = "wait" /\ egDone
    /\ IF sc.rooted /\ ~files[p].closed
       THEN /\ files' = [files EXCEPT ![p] = Closed(p, [@ EXCEPT !.pc = "failed"])]
            /\ inode' = Restored(p) /\ fds' = fds \ {p}
       ELSE files' = Goto(p, "failed") /\ UNCHANGED <<inode, fds>>
    /\ AsyncStays /\ UNCHANGED held

AsyncSetsTimes(p) ==
    /\ files[p].pc = "times"
    /\ inode' = [inode EXCEPT ![disk[p]].mtime = "src"]
    /\ files' = Goto(p, "done")
    /\ AsyncStays /\ UNCHANGED <<held, fds>>

(* NotifyCb or chtimes fails.                                              *)
AsyncFails(p) ==
    /\ "fault" \in sc.trouble /\ attempt = 1 /\ "fault" \notin blame
    /\ files[p].pc = "times"
    /\ files' = Goto(p, "failed") /\ blame' = blame \cup {"fault"}
    /\ UNCHANGED <<sc, diskVars, attempt, list, step, rename, dirTimes, loop, fate, ctxDone, held, fds>>

-----------------------------------------------------------------------------
(* The receive loop, given the next packet of a file.                      *)
LoopStays == UNCHANGED <<sc, disk, attempt, list, step, rename, dirTimes, fate, held>>
LoopFails ==
    /\ ctxDone' = TRUE /\ loop' = [at |-> "ended", path |-> <<>>]
    /\ UNCHANGED <<inode, files, fds>>

(* A pipe stays registered when its goroutine gives up.                    *)
Piped(p) == files[p].pc \in {"wait", "failed"} /\ ~files[p].done
Written(p) == [inode EXCEPT ![disk[p]].n = @ + 1, ![disk[p]].mtime = "now"]
Opens(p) ==
    /\ fds' = fds \cup {p} /\ files' = [files EXCEPT ![p].f = "open"]
    /\ inode' = Written(p) /\ loop' = Idle /\ UNCHANGED ctxDone
Protected(p) == ~sc.root /\ At(p).mode = "ro"

(* Write: the file is opened at the first one, after a chmod when that is  *)
(* refused.  The root of a released lease may have been closed.            *)
LoopWrites(p) ==
    /\ loop = Idle /\ Piped(p) /\ At(p).n < Src(p).n
    /\ \/ files[p].f = "none" /\ ~Protected(p) /\ Opens(p)
       \/ /\ files[p].f = "none" /\ Protected(p)
          /\ loop' = [at |-> "chmod", path |-> p]
          /\ UNCHANGED <<inode, files, fds, ctxDone>>
       \/ /\ files[p].f = "open"
          /\ inode' = Written(p) /\ UNCHANGED <<files, loop, fds, ctxDone>>
       \/ files[p].f = "closed" /\ LoopFails
       \/ files[p].f = "none" /\ sc.rooted /\ files[p].pc = "failed" /\ LoopFails
    /\ LoopStays /\ UNCHANGED blame

(* Mutant: the mode is saved, the file not made writable.                  *)
LoopSaves ==
    /\ loop.at = "chmod"
    /\ files' = [files EXCEPT ![loop.path].saved = At(loop.path).mode]
    /\ loop' = [loop EXCEPT !.at = "reopen"]
    /\ LoopStays /\ UNCHANGED <<inode, fds, ctxDone, blame>>

LoopWidens ==
    /\ loop.at = "chmod"
    /\ files' = [files EXCEPT ![loop.path].saved = At(loop.path).mode]
    /\ inode' = [inode EXCEPT ![disk[loop.path]].mode = "wide"]
    /\ loop' = [loop EXCEPT !.at = "reopen"]
    /\ LoopStays /\ UNCHANGED <<fds, ctxDone, blame>>

LoopReopens ==
    /\ loop.at = "reopen"
    /\ IF Protected(loop.path)
       THEN LoopFails /\ blame' = IF \E q \in DOMAIN sc.source : Src(q).link = loop.path
                                  THEN blame \cup {"chmod"} ELSE blame
       ELSE Opens(loop.path) /\ UNCHANGED blame
    /\ LoopStays

(* The empty packet: Close, by whoever comes first.                        *)
LoopCloses(p) ==
    /\ loop = Idle /\ Piped(p) /\ At(p).n = Src(p).n
    /\ files' = [files EXCEPT ![p] = [Closed(p, @) EXCEPT !.done = TRUE]]
    /\ IF files[p].closed THEN UNCHANGED <<inode, fds>> ELSE inode' = Restored(p) /\ fds' = fds \ {p}
    /\ UNCHANGED <<loop, ctxDone, blame>> /\ LoopStays

(* Mutant: the loop does not notice that the context is done.              *)
LoopEndsByEOF ==
    /\ loop = Idle /\ fate = "ok"
    /\ loop' = [at |-> "ended", path |-> <<>>]
    /\ LoopStays /\ UNCHANGED <<inode, files, fds, ctxDone, blame>>

(* RecvMsg fails once the context is done, and returns io.EOF after FIN.   *)
LoopEnds ==
    /\ loop = Idle /\ (ctxDone \/ fate = "ok")
    /\ loop' = [at |-> "ended", path |-> <<>>]
    /\ LoopStays /\ UNCHANGED <<inode, files, fds, ctxDone, blame>>

-----------------------------------------------------------------------------
(* The caller gives up.                                                    *)
Cancel ==
    /\ "cancel" \in sc.trouble /\ attempt = 1 /\ ~ctxDone /\ loop.at # "ended"
    /\ ctxDone' = TRUE /\ blame' = blame \cup {"cancel"}
    /\ UNCHANGED <<sc, diskVars, attempt, held>> /\ AsyncFixed /\ DiffFixed

Returned == fate \in {"ok", "failed"} /\ loop.at = "ended"
Quiet    == Returned /\ \A p \in DOMAIN files : Over(p)
Success  == fate = "ok" /\ ~ctxDone

(* The process dies, or the transfer has failed, and is started again.     *)
NextAttempt ==
    /\ attempt = 1
    /\ "crash" \in sc.trouble \/ (Quiet /\ ~Success)
    /\ attempt' = 2 /\ list' = Difference /\ step' = "next" /\ rename' = FALSE /\ dirTimes' = {}
    /\ files' = [p \in DOMAIN files |-> NoFile] /\ loop' = Idle /\ fate' = "run"
    /\ ctxDone' = FALSE /\ held' = {} /\ fds' = {} /\ blame' = {}
    /\ UNCHANGED <<sc, diskVars>>

(* Somebody else makes a directory that is about to be made.               *)
OtherMkdir ==
    /\ "mkdir" \in sc.trouble /\ Handling /\ step = "make" /\ ~rename
    /\ Src(change).kind = "dir" /\ ~Present(change) /\ ~ctxDone
    /\ Create(change, <<change, 3>>, Node("dir", "src", 0, "fresh", "now"))
    /\ UNCHANGED <<sc, attempt, ctxDone, held, blame>> /\ AsyncFixed /\ DiffFixed

Diff  == StartChange \/ Make \/ Meta \/ Swap \/ WaitStarts \/ Wait
Async == \E p \in DOMAIN files : AsyncStarts(p) \/ AsyncHasContent(p) \/ AsyncGivesUp(p) \/ AsyncSetsTimes(p)
Loop  == \/ \E p \in DOMAIN files : LoopWrites(p) \/ LoopCloses(p)
         \/ LoopWidens \/ LoopReopens \/ LoopEnds

Next == Diff \/ Async \/ Loop \/ CallFails \/ (\E p \in DOMAIN files : AsyncFails(p)) \/ Cancel \/ NextAttempt \/ OtherMkdir
Spec == Init /\ [][Next]_vars /\ WF_vars(Diff) /\ WF_vars(Async) /\ WF_vars(Loop)

-----------------------------------------------------------------------------
Wanted == {p \in DOMAIN sc.source : {p, Src(p).link} \cap sc.filtered = {}}

(* The entry is the source's: its mode, its links and all of its content.  *)
InPlace(p) ==
    /\ Present(p) /\ At(p).kind = Src(p).kind /\ At(p).mode = Src(p).mode
    /\ At(p).n = Src(p).n /\ (At(p).ver = "src" \/ Src(p).kind = "dir")
    /\ IsLink(p) => disk[p] = disk[Src(p).link]

(* A transfer that succeeds leaves the source's tree: every mode given     *)
(* back, every time set, no temporary name, nothing open; and the second   *)
(* attempt succeeds whatever the first left (HandleChange, Wait).  But a   *)
(* directory that was there when it was announced has no time of its own;  *)
(* and what the filter leaves out stays, with what is in it and, for a     *)
(* link made again to such a file, with a temporary name, as rename does   *)
(* nothing between two names of one inode.                                 *)
DoneMeansDone ==
    /\ Returned /\ Success =>
         /\ \A p \in Wanted :
              InPlace(p) /\ (At(p).mtime = "src" \/ (Src(p).kind = "dir" /\ p \notin dirTimes))
         /\ \A x \in Names \ DOMAIN sc.source :
              Present(x) => \E f \in sc.filtered : disk[x] = disk[f] \/ IsPrefix(f, x)
         /\ fds = {} /\ held = {}
    /\ Returned /\ attempt = 2 /\ "filter" \notin blame /\ "chmod" \notin blame => Success

(* An entry that is replaced by one of its sort is there all the time, as  *)
(* it was or with its new metadata, and with all of its content where that *)
(* is written first (temporary name and rename).                           *)
OldOrNew ==
    \A p \in Wanted \cap DOMAIN sc.before :
      (sc.before[p].node.kind = "dir") = (Src(p).kind = "dir") =>
        /\ Present(p)
        /\ At(p).mode # "fresh"
        /\ disk[p][2] = 0 \/ (sc.sync => At(p).n = Src(p).n)

(* Once a transfer has returned and its goroutines are over, what is still *)
(* open are files written after they were given up, or, with a DiskWriter, *)
(* given up half written; and directories, when Wait was not reached.      *)
NothingLeftOpen ==
    Quiet =>
      /\ \A p \in fds : files[p].pc = "failed" /\ (sc.rooted => files[p].closed)
      /\ held # {} => fate = "failed" /\ list # <<>>
      /\ ctxDone \/ fds = {}

(* A transfer fails for a reason: a failed call, a cancellation, a link to *)
(* what the filter leaves out; or, unprivileged, as the mode of a file     *)
(* that was widened to open it is set again through another of its names.  *)
FailsForCause == ctxDone => blame # {}

(* Every attempt returns.                                                  *)
Ends == <>(attempt = 2 \/ Quiet) /\ (attempt = 2 ~> Quiet)
=============================================================================
