# fsutil: a formal model

fsutil sends a directory tree from one process to another. `Send` walks a
source tree and announces it; `Receive` compares what is announced with a
destination, applies the differences, and asks for the content of the regular
files that changed. Around that core, a filtered walk selects what is sent,
symlinks named by the caller are followed, and a separate package copies trees
on one machine.

This directory holds TLA+ modules of these parts, the configurations that check
them with TLC, and proofs that TLAPS checks. All line numbers refer to the
repository's Go sources.

## Inventory

| Part | State it keeps | Operations | Modelled in |
| --- | --- | --- | --- |
| Sender (`send.go`) | `files` (id to path), the send pipeline, the errgroup | walk goroutine, 4 workers, receive loop | `Sender` |
| Receiver (`receive.go`) | `files` (path to id), `pipes`, the index `i`, held-back parents, metadata buffer, `dynamicWalker` | receive loop, `fill`, diff goroutine, one goroutine per requested file | `Receiver` |
| Stream (`Stream`, `wire.proto`) | two directions of packets, a context | `SendMsg`, `RecvMsg`, cancellation, end of stream | `Wire` |
| Diff (`diff_containerd.go`, `diff.go`) | one pending entry per side, `rmdir`, two channels | two walkers, the merge, `HandleChange` callbacks | `DoubleWalk` |
| Order and link checks (`validator.go`, `hardlinks.go`) | open directories, files seen | `HandleChange` of each | `Validator` |
| Root cache (`rootcache.go`) | map and LRU list of open directories, reference counts | `get`, `Release`, `Close`, eviction | `RootCache` |
| Root stack (`rootstack.go`) | stack of open parents | `get`, `Close` | `DoubleWalk`, `Writer` |
| Disk writers (`diskwriter.go`, `rootdiskwriter.go`) | errgroup, temporary names, `dirModTimes`, the lazy writer of each file | `HandleChange`, file goroutine, `Write`, `Close`, `Wait` | `Writer`; as one step in `Receiver` |
| Hard link reset (`hardlinks.go:56-108`) | seen files of a filtered walk | `Walk` | `Selection` |
| Filtered walk (`filter.go`), file systems (`fs.go`) | visited parents, matchers | `NewFilterFS`, `Walk`, `Open` | `Patterns`, `Selection` |
| Follow links (`followlinks.go`) | resolved paths | `FollowLinks` | `FollowLinks` |
| Recursive copy (`copy/`) | pending parents, inode map | `Copy`, `MkdirAll` | `TreeCopy` |
| Metadata buffer (`buffer.go`), packet framing (`util/protostream.go`), tar writer, xattr and platform calls, generated code, commands | | | not modelled |

How they interact: the sender's walk (a file system, behind a filter, behind the
hard link reset) calls back into `SendMsg`; the receiver's loop checks each
entry for order and links and hands it to `dynamicWalker.walkChan`; `fill` moves
it to the diff's channel `c2`; the diff calls `HandleChange` of a disk writer,
which starts a goroutine for each regular file; that goroutine sends REQ and
waits until the receive loop, which writes each DATA packet to the pipe of its
id, has seen the empty one. FIN goes to the sender when the diff and all those
goroutines are done, comes back, and the receiver drains the stream.

The hard behaviours are listed under `hazards` in `PROJECT.json`, each at its
line: two sides that count ids independently; many goroutines in a cycle of
bounded channels; errors that must unwind all of them; a merge that modifies the
tree one of its inputs is still walking; a cache whose entries outlive their
eviction; files whose modes and times are set in three places; entries that
vanish under a walk; directories announced late; links that lead to each other.

What makes the parts correct: content is never mixed up, lost or duplicated;
success means the trees agree; no goroutine waits for ever; an interrupted
transfer can be resumed; the diff converges and removes only what it may; a
lease stays usable and nothing is closed twice; what is announced is what the
options select, in an order the receiver accepts; a copy is its source.

## Modules

    Wire <- Sender <- Receiver <- Transfer
    Transfer : INSTANCE Sync (refinement)
    Transfer <- TransferProofs <- DeliveryProofs <- OutcomeProofs
    PathOrder <- Patterns, DoubleWalk, Writer  PathOrder <- PathOrderProofs
    Patterns <- FollowLinks <- Selection       Patterns <- TreeCopy
    Validator <- ValidatorProofs               RootCache <- RootCacheProofs
    DoubleWalk, PathOrderProofs <- DoubleWalkProofs
    Writer, PathOrderProofs <- WriterProofs
    MCTransfer, MCDoubleWalk, MCValidator, MCRootCache, MCSelection, MCWriter,
    MCTreeCopy: instances for TLC

**Wire** has the packets and the two channels. An entry is named by its rank in
the sender's walk, so "index in the STAT sequence" can be compared with what
each side counts; paths, sizes and bytes are abstracted to that rank, a kind
(directory, file, hard link), and the number of reads a file takes. A chunk of
content is the pair of the file it was read from and its position, so mixing,
losing, repeating and reordering are all visible. The stream is external code
(gRPC, or Go channels in the tests) and is modelled from how it is used: bounded,
FIFO, with failures only after its context is cancelled.

**Sender** is `send.go`: one action per step of the walk (`WalkVisit`
registers, `WalkSendStat` sends: `send.go:164-176`), of a worker
(`WorkerTakes`, `WorkerSendsData`, `WorkerSendsEOF`: `send.go:136-147`), and of
the receive loop (`LoopGetsReq` is `queue` up to its unlock, `LoopQueues` the
channel send after it: `send.go:118-134`).

**Receiver** is `receive.go` and the goroutine part of the disk writer:
`RecvGets...` is the receive loop by packet type, `RecvUpdates` is
`dynamicWalker.update`, `Fill...` is `fill`, `Diff...` is the diff goroutine
with `HandleChange` as one step, `Async...(p)` is `requestAsyncFileData` with
`asyncDataFunc`. Contexts are operators (`rCtxDone`, `egCtxDone`,
`innerCtxDone`) over the errors that cancel them. A destination entry has its
data and a `meta` that says whether it differs (`old`), carries the source's
metadata and time (`src`), or was just written (`now`).

**Transfer** composes the two over one connection, adds its cancellation, and
states the properties. **Sync** is the promise to the caller with no protocol
in it: entries become right one at a time, success only when all are, and
nothing afterwards. `ImplementsSync` is the refinement.

**DoubleWalk** is the merge at work: a walk of the destination (`WalkDir` as a
list of entries to visit and directories to list, with its `SkipDir` rules), the
source's feed, and the loop with `rmdir`, applying every change, with removal
one entry at a time, to the tree under the walk. With `Rooted` it is the
`RootDiskWriter`, whose `rootStack` must fit each change.

**Writer** is both disk writers one system call at a time, over a disk that maps
names to inodes with kind, mode, time and the packets written (an inode is
called after the entry and the attempt that made it, 0 what was there before, 3
what somebody else made): `StartChange`,
`Make`, `Meta` and `Swap` are the stretches of `HandleChange`, `Async...` the
file's goroutine, `Loop...` the receive loop writing into it
(`LoopWidens`/`LoopReopens` is the chmod-and-retry of a file that cannot be
opened), `WaitStarts` and `Wait` the end. A scenario chooses the writer, whether
content comes synchronously (`SyncDataCb`), whether the process is privileged,
what a filter leaves out, and what goes wrong: a call, the caller's context, the
process, or somebody who makes the same directory. After a failure or a crash
`NextAttempt` starts a second transfer on what is left.

**Validator** is the two checks on announced entries, fed with arbitrary
changes.

**RootCache** is the cache with one action per step a goroutine takes under the
lock (component by component), so opening a chain, eviction, release and close
interleave as the mutex allows.

**PathOrder** is the order of paths (`ComparePath`) and sets listed in it.

**Patterns** is what `moby/patternmatcher` does for the two users of it: a
pattern is a sequence of components, `*` and `**` among them, with a sign;
matching a path from its parent's result and from nothing are both defined, as
the code uses both.

**FollowLinks** is `symlinkResolver.append` with its recursion as a stack: a
step is one component of a path, with the listing of a directory for a wildcard.
`statFile` and `readDir` are walks, and differ with the file system: that of a
`rootFS` stats where it starts (`RootStat`, through `Lookup`), so it follows a
link there; it fails on one that is absolute, leads out or in circles, does not
see one that dangles, and goes into a directory behind one.

**Selection** is what `Send` walks: `fs`, `rootFS` or `subDirFS`, behind
`filterFS`, behind `hardlinkFilter`; one step is one callback of `WalkDir`.
`Callback` is the whole of `filterFS.Walk`'s closure: inherited matches, the
prune test, the map function, late parents; then the inode map of `mkstat` and
the link reset.

**TreeCopy** is `copy.Copy`: `Start` up to the loop over the sources,
`NextSource` is `prepareTargetDir`, `copy` one call of `copier.copy` up to its
children, `LeaveDirectory` the rest of a directory's call.

## Runs

With two workers the runs take from seconds to under two minutes.

| Run | What it checks | Bounds |
| --- | --- | --- |
| `TransferTree` | `TypeOK`, `OwnContent`, `SuccessMeansComplete`, `FinMeansQuiet`, `ParentsFirst`, `OnlyFaultsFail`, `ContentPrefix`, `ResumeSafe`, no deadlock | 5 entries: two nested directories, a file of two packets and one of one, a hard link; a metadata transfer whose filter rejects the directories; 2 workers, every channel of capacity 1; a file that cannot be opened or a broken stream |
| `TransferFailures` | `NoProtocolError`, `ErrNamesCause`, `CallsEnd`, `ImplementsSync` | 3 files, merge mode, 1 worker, capacity 1: one failure of walk, read, apply, write or file goroutine |
| `TreeDiff` | `Converges`, `InOrder`, `CreatesBehindWalk`, `KeepsShared` | every pair of trees over a, a/x, a/y, b |
| `TreeCancel` | `FailsOnlyBelowRemoved`, `StackFresh`, `SettledStays`, `Ends` | every pair over a, a/b, a/b/x, a/c, a/c/x, the `RootDiskWriter`, cancelled anywhere |
| `Writer` | `DoneMeansDone`, `OldOrNew`, `NothingLeftOpen`, `FailsForCause`, `Ends` | a directory with a read-only file of two packets, a second name of it, an entry whose kind changes; over nothing, an older version, and one with kinds swapped; both writers; two attempts |
| `StreamChecks` | `Exact`, `SavedChain` | every stream over 7 paths on 3 levels, all kinds of changes |
| `CacheLeases` | `InUseOpen`, `ClosedExactly`, `Bounded`, `LeaseIsDir` | 4 goroutines in 4 directories, capacity 1, 7 descriptors |
| `Selection` | `ExactSelection`, `StreamLegal`, `FollowedIsReachable`, `WalkEnds` | 3 file systems; 7 include, 6 exclude, 6 map options on a tree with three names of one inode; closed directories and one vanishing entry; followed paths through a tree of absolute and one of relative links, to files, full and empty directories, nothing, each other |
| `TreeCopy` | `CopyIsSelection`, `MetadataKept`, `LinksKept`, `NotifiedOnce`, `FailsForCause` | a tree with hard links, a symlink and a pipe to empty and occupied destinations, all options; one failing call, vanishing entry or cancellation |

Why these bounds are enough to be interesting: with capacity 1 every send that
can block does; two workers and two files in flight interleave DATA; the tree
has ids that are never requested (directories), one that is registered and never
requested (a link), and requested ones after both, so a miscount shows. Three
files are needed for the stuck states of `Wedged`: one handle in the pipeline,
one being queued, one REQ in the channel. Four paths are the fewest in which a
removed directory has two entries and a successor. A cache of one directory
evicts on every open. Three names of one inode leave two to be reset when a
filter drops the first. Two packets let a file be given up half written.

`CHECK_DEADLOCK FALSE` appears only where the program can really stop: in the
transfer runs with failures, because of the stuck states below; in
`StreamChecks`, which ends with the first refused change; and in `Writer`, which
ends after the second attempt.

### Fairness

Every goroutine has weak fairness on its own steps: Go's scheduler runs what can
run. In `Transfer` a step that is a failure (`fault' # fault`) is never
required; in `Writer` and `Selection` the failures, the cancellation, the crash
and the vanishing entries are outside the fair actions. A select with several
ready cases may take any of them; no strong fairness is assumed. Nothing is
assumed of the stream but that a packet in it can be received. A broken stream
is in `TransferTree`, which has no liveness property: liveness over it is too
large a graph.

### Disagreements with the documentation and tests

Runs that TLC is expected to refute, each on one property that states what a
comment or a test says:

- `FileError` (`send.go:77`, `send.go:137`): a worker that fails to read sends
  no ERR, and once the walk is over both calls hang; a file that cannot be
  opened is sent as an empty one, and the receiver succeeds. The comment at
  `receive.go:14` says an ERR packet is sent for an error on either side.
- `WalkFault` (`diff_containerd.go:251`): when the destination walk fails, the
  closed channel of the source looks like its end, and entries it has are
  removed.
- `PrunedGlob` (`filter.go:422`): a directory is pruned although a pattern that
  ends in `/*/**` selects entries in it.

Exceptions that a passing property names, so that the run shows them to be the
only ones:

- `Wedged`, in `CallsEnd`: after a failure a call may never return. In one
  state both loops have stopped reading while each side waits to send
  (`receive.go:210`), as after a walk error; in the other `queue` blocks on a
  full pipeline that no worker reads any more, whatever the context says
  (`send.go:132`). The tests treat a transfer that does not end as fatal
  (`receive_test.go:105`).
- `RemovedAgain`, in `FailsOnlyBelowRemoved` and, as further removals, in
  `Converges`: after one removed directory the next one is not remembered in
  `rmdir` (`diff_containerd.go:130-134`), and its entries are removed again one
  by one; the `RootDiskWriter` then fails to open their parent.
- In `DoneMeansDone`: a directory that was there when it was announced does not
  get its time again after its entries were written (`diskwriter.go:140`); what
  is where a filter leaves a file out stays, with what is in it; a link made
  again to such a file keeps a temporary name, because rename does nothing
  between two names of one inode (`diskwriter.go:214`).
- In `NothingLeftOpen`: DATA that arrives after its file was given up opens the
  file again and nobody closes it (`rootdiskwriter.go:304`); the `DiskWriter`
  does not close the writer of a file it gives up (`diskwriter.go:233`), the
  `RootDiskWriter` does; `Wait` is not called after a failed diff, so cache and
  stack keep their directories (`receive.go:218`).
- In `FailsForCause` of `Writer`: a link whose target the filter left out fails;
  and without privileges a read-only file with a second name can fail, as the
  mode that was widened to open it is set again through the other name before
  the retry (`diskwriter.go:318-325`).
- In `FollowedIsReachable`: `FollowLinks(["l/x", "l/y"])` drops the rest of the
  second path, as `l` was resolved before (`followlinks.go:59-63`); a followed
  path that leads to the root adds nothing when include patterns exist.
- In `ExactSelection` and `StreamLegal`: a file that vanished hides what comes
  after it in its directory (`fs.go:56`); a map function that excludes a
  directory and keeps its children makes a stream the receiver refuses.
- In `TreeCopy`, `StaleName`: the inode map keeps a name that a later source has
  replaced, and later names are linked to what took its place
  (`copy/hardlink.go:22`). `MetadataKept` leaves out a directory that another
  source was copied into. A directory made late gets its metadata before its
  children and is never notified (`copy.go:549-561`), an existing one only its
  mode. `AlwaysReplaceExistingDestPaths` does not help where such a directory
  meets a file.

Known without a run of their own:

- In a metadata transfer the STAT of an entry of the reserved name
  `.fsutil-metadata` is skipped before the index is counted (`receive.go:268`),
  while the sender counts it (`send.go:175`), so later ids differ, although
  `receive.go:9` says "using the ID for the file (determined as its index in the
  STAT sequence)". The theorem `OwnContentHolds` assumes there is none
  (`NoneSkipped`); with `KindPair` and `MetaPath = 1` in an
  instance of `Transfer`, TLC finds `OwnContent` violated.
- After an error in the diff the receive loop may end first with "walker is
  closed", which is then what `Receive` returns (`receive.go:141`); the ERR
  packet keeps the cause (`ErrNamesCause`).
- With `DiffContent` the two files are opened by their relative paths
  (`diff_containerd.go:205`).
- `copyFileContent` loops until the size it read first is written; if the source
  gets shorter meanwhile, `CopyFileRange` returns 0 for ever
  (`copy_linux.go:101-127`).
- The comment at `copy.go:429-431` says the previous time of an existing
  directory is restored; the code sets the source's (`copy.go:472-475`).
  `MetadataKept` allows both and no third: the children must not leave it the
  time of the copy.
- `FollowPaths` with a `rootFS`: over a link to a directory that is not empty the
  walk of `statFile` goes into it (`fs.go:106`) and `NewFilterFS` fails with
  "expected single entry" (`followlinks.go:149`), although the comment at
  `filter.go:26` says the links are resolved; so does an absolute link, which
  `readSymlink` has a case for (`followlinks.go:130`), and a link that dangles is
  not seen to be one. No test follows links through a `rootFS`. In `Selection`
  these end with "err", of which `FollowedIsReachable` says nothing; what it says
  of a `rootFS` is about relative links to files and to empty directories.
- `FollowPaths` with a `SubDirFS` fails on every path that exists: its walk
  announces the top directory first (`fs.go:199`), for which `statFile` has no use.
- In `SubDirFS` a `SkipDir` for a top directory ends the whole walk with an error
  (`fs.go:199`); an unreadable root gives an empty walk without one (`fs.go:67`).

A harmless oddity: in metadata transfers a directory that is itself accepted is
handed to the diff twice (`receive.go:311-325`), once in the replay and once on
its own. `SuccessMeansComplete` and `ParentsFirst` hold all the same.

## Proofs

TLC checks the instances above. The theorems hold for every value of the
constants: any tree, any number of workers or goroutines, any capacities, any
set of failures.

**RootCacheProofs.** `Inductive` proves `Spec => []IInv`, and the properties of
`CacheLeases` follow from it one by one. None of them is inductive alone.
`IInv` adds to the types:

- `Counting`: `refs[h]` is the number of clients that hold a lease on `h`;
- `Flags`: what is in the map is open and not evicted, what is evicted is
  closed exactly when no lease is left;
- `ListIsMap`: the list has each entry of the map once and nothing else;
- `Walking`: only the holder of the lock is between `get` and its return;
- `Standing`: that client's entry is in the map (or the root) and is the
  directory of the components it has passed, and while it evicts, the entry is
  the first of the list;
- `Capacity`: at most one entry too many, and only while evicting.

`Counting` is why an evicted directory is closed once and by the last lease;
`Standing` is why eviction cannot reach the directory a chain stands on: it is
in front, and eviction stops at the capacity, which is at least one.

**TransferProofs.** `TypesHold` (`Spec => []TypeOK`). That the receiver's index
stays an id is not a matter of types: the receiver could count past `N` if
STATs were repeated. The invariant `TInv` therefore carries `StatsInOrder`: the
STATs under way increase strictly, all ahead of what the receiver has counted
and behind where the walk is. That is also the theorem `StatsOrdered`.

Its second half is `OwnContentHolds`: what is written to a file was read from
it. The two sides never exchange a path with an id, so the proof has to show
that both counts mean the same. `GInv` adds to `TInv`:

- `SenderIds`: on the sender an id stands for the entry of rank id + 1, in
  `files`, in the pipeline and in the workers;
- `DataIds`: a DATA packet's content is of the entry its id stands for;
- `NoGaps`: while the receiver counts, every STAT between its index and the
  walk is under way, so the next one it takes is that of index + 1
  (`NextStat`);
- `ReceiverIds`: `files` and `pipes` of the receiver use the same numbering.

The theorem assumes `NoneSkipped`: a metadata transfer carries no entry of the
reserved name. Without it the statement is false, and so are those of the next
two modules as far as they speak of ids; they assume it too.

**DeliveryProofs.** `NoProtocolErrorHolds` and `FinMeansQuietHolds`. A file's
request changes its form at each hand-over: a goroutine that is to ask, a REQ
packet, the handle `queue` holds, an entry of the pipeline, a worker, the empty
DATA packet that ends the content. `LInv` adds to `GInv`:

- `HandedOver`: whatever is on its way to the diff (`Coming`, the queues of
  `update`, `fill` and the diff taken as one) has each regular file once, in
  order, and only files nobody has asked for;
- `Tickets`: who may still ask holds an id that both sides know, although
  `files` and `pipes` are filled at different times;
- `Life`: the request of each file is in exactly one of the stages `unasked`,
  `asked`, `held`, `queued`, `served`, `ended` (`OneStage`), and in one place
  there (`OnePlace`); until it is ended, the receiver knows where the content
  goes (`Expected`).

The sender therefore finds each id it is asked for, and the receiver a pipe for
each DATA packet. `FinLast` adds that FIN is sent after the goroutines of all
files are over, and that those ended with their pipe closed, so `Life` leaves
nothing for FIN to overtake.

Its second half is `ContentPrefixHolds`, `ResumeSafeHolds` and
`ParentsFirstHolds`. `CInv` adds to `LInv`, for each file, where its chunks are: `Arrives` (in the
file the first reads, then those under way in increasing order, then what the
worker has still to send), `NoHoles` (as long as the receive loop runs, none in
between is missing), `EndsWhole` (the end comes after the last, unless the file
could not be opened). As a file gets its final time only after its pipe was
closed, one that looks unchanged is complete. `PInv` follows the directories of
a metadata transfer through `rParents` and the replay: `HeldBack` (each
directory the walk is still in is held back, or was sent and everything held
back is below it), `Held` (what is held back is in order, and only a metadata
transfer holds anything back), `Queued` (the parent of whatever is queued is
applied or in front of it), `Begun` (a file with a goroutine was created). It
uses `TreeAssumption` of
`Receiver`: the entries are numbered in a depth-first walk, so what is inside a
directory comes directly after it. `fs.Walk` and every filter of it do that;
TLC checks the assumption on the trees of the runs.

**OutcomeProofs.** How the calls end.

- `ErrNamesCauseHolds` needs no assumption. `EInv` says where each goroutine
  stands with which error, and that an error which only echoes another
  (`canceled`, `walker closed`) is never the first: its cause is already
  recorded (`Known`) before anybody can see the echo.
- `OnlyFaultsFailHolds`: `CleanInv` is what all goroutines have in common while
  nothing has failed, in particular that the receiver's stream ends only after
  it has FIN (`FinComes`).
- `SuccessMeansCompleteHolds`: `QInv` collects `CInv`, `FinLast` and what is
  known of the walk (`WalkWhole`: its end is announced after every entry;
  `NoneLost`: each entry is announced, on its way to the diff, or settled;
  `AllListed` for the list of a metadata transfer; `AllSeen`).
- `ImplementsSyncHolds`: each step of the two programs makes one entry right, is
  the return of `Receive`, or changes nothing that `Sync` sees (`StepPromised`,
  from `DataStep`, `ChangeStep`, `FileStep`, `ReturnStep`). It assumes besides
  that every file can be opened (`"open" \notin Faults`): with a file that
  cannot, `Receive` succeeds and the file is empty, which is the finding
  `FileError` and not what `Sync` promises.

With these every safety property of `Transfer` that a run checks is a theorem.

**ValidatorProofs.** `ExactHolds`: for any names, any paths and any changes, the
two checks let through exactly the valid streams. The validator keeps one name
per open directory and forgets everything else, so the proof has to say what it
still knows about what it forgot. What is let through is valid
(`OnlyValidAccepted`) by `IInv`:

- `Chain`: the k-th saved directory has k - 1 components, which are the names
  last seen in those before it. `SavedChainHolds` follows;
- `AllPast`: for every change accepted and every directory saved, the change is
  before the directory, is the directory, or is in it at or before the last name
  seen. A new entry, whose name is greater than that last name in its own
  directory, is therefore after everything accepted (`PastBefore`);
- `SavedAdded`, `SeenAdded`: directories saved and files seen were accepted.

What is refused was not valid (`RefusedRightly`) by three more facts in `XInv`:

- `LastSeen`: the last name of a saved directory is that of an accepted change;
  so a name that is not newer is out of order or there twice;
- `OpenOrLeft`: a directory that was added is still saved, or an accepted change
  lies after everything in it (`Left`); so an entry whose directory is not saved
  is out of order, or its directory was never added;
- `FilesSeen`: every file accepted is remembered; so a link that finds no target
  has none.

**DoubleWalkProofs.** The merge walks a tree that its own changes remove from
and add to. `IInv` gives `InOrderHolds`, `CreatesBehindWalkHolds` and
`StackFreshHolds`, whatever fails:

- `WalkShape`: what the walk has still to do lies apart and in order
  (`TodoOrder`), before it what waits in the channel (`WaitOrder`, `SentFirst`).
  The tree may change at any step: a listing only ever adds what is below the
  directory just visited (`ListsKept`), whatever it finds there;
- `FeedShape`: the same for the entries of the source;
- `LoopShape`: the change told last, and so every one, is before all that
  either side has still to bring (`ToldPast`); an entry that was fetched is
  before the rest of its side (`Fetched`); an ended side has no rest (`AtEnd`);
- `StackShape`: the items nest and are live; while a change is applied, its
  directory is on top. A removal kills the items at or below it, and
  `NotOnStack` says that there are none: `get` has popped them.

`CreatesBehindWalk` is `ToldPast` and `Applying` together: what is applied was
told, so the walk is past it, and a directory still to be listed is not above
it. It is asked only while the walk runs: what an ended walk had not done is
never done.

`KInv` gives the action properties `KeepsSharedHolds` and `SettledStaysHolds`.
What the merge reports as removed has no match in the source only if the source
was complete, so `Supplied` says why a side stops early (`Reason`: the caller
has cancelled, or the merge is over), and that otherwise each entry of the
source is still to come or the walk is past it (`RestDone`, `Complete`).
`TreeShape` keeps both trees trees and says what each step of a change has
found (`ApplyShape`). Both theorems assume that the walk of the destination does
not fail (`"walk" \notin Faults`). With a walk that fails they are false, as the
finding `WalkFault` shows, and the runs that check them inject no such failure.

`ConvergesHolds` needs no assumption: a diff that met a failure ends with an
error. `CInv` is `KInv` and, as long as nothing has stopped early (`Clean`),
three groups of facts:

- `Original`: what the walk still lists, has queued or holds is what was there
  before the diff (`ListedWas`, `SentWas`, `LowerWas`), although it reads the
  tree only when it gets there; what the source side brings is in the source
  (`UpperHas`). A walk that finds an entry gone skips the rest of the directory
  it thinks it is in; `Deepest` and `BetweenSiblings` say that it is the right
  one, and that everything skipped went with a directory above it;
- `Applied`: a path nothing was told of is as it was or gone (`Untouched`), and
  gone only with a directory that leaves (`Changed`, `Gone`); a path that was
  told and is not in hand is as in the source (`Settled`); what the source has
  is still to come, was told, or is there already (`Provided`); a directory of
  both stays one (`SharedDirs`);
- `Merged`: an entry of the old tree is still to come, was told, went with its
  directory, or is the same in both (`Reached`); a change has the right kind
  (`RightKind`); what `rmdir` names does go (`RmdirGoes`), so that what is passed
  over below it need not be told.

`Finished` ties the ends of the goroutines to the errgroup's error, so an end
without error is `Clean`, nothing is to come, and both halves of `Converges`
follow.

`FailsOnlyBelowRemovedHolds` reads off the same invariant, at the moment a
change is applied, what can be missing: the parent of what the source has is
there (`ParentStands`), so it is a removal whose parent went with a directory
above it (`RemovedBefore`). That directory was itself told as removed and did
not become a file, because below one that did nothing is removed by its name
(`Covered`, `NotBelow`). The theorem assumes that the walk does not fail, as the
run does.

`pathChange` agrees with the order of paths (`PathChangeFacts`). `Paths` is
assumed finite: a directory has a listing.

**PathOrderProofs.** The lemmas these modules compute with: `Before` is a strict
total order in which a subtree is contiguous (`BeforeTransitive`, `BeforeTotal`,
`LeftBelow`), and `Sorted` lists a finite set in it (`SortedFacts`, `SortedAll`).

**WriterProofs.** `NothingLeftOpenHolds`, `FailsForCauseHolds`,
`OldOrNewHolds` and `DoneMeansDoneHolds`, for both disk writers, any scenario and
any failure; the last where no filter leaves anything out (`NoFilter`).

For the first: a file has two owners, its goroutine and the receive loop, and
either may close it. `OpenInv` says how far each can be without the other:

- `FilesShape`, from `Life`: a file is open only while its goroutine waits for
  the end of the content or has given up; whoever sees the end has closed it;
  one that was closed without its end was given up, and by a `RootDiskWriter`
  every one given up is;
- `ListShape`: a name is announced once in an attempt, so that no goroutine
  starts over on a file already given up. That is the order of the difference;
- `LoopShape`: the file that is being made writable and opened again has not got
  its end yet, whatever its goroutine does in between;
- `FateShape`: `Wait` is reached only after the last change, ends with all
  goroutines over and the directories closed, and with success only if none of
  them failed.

For the next two, what an entry is depends on the name space: that a file is
handed to its goroutine only under its own name, that nobody takes a half made
entry for a whole one, that a second attempt finds on the disk what the first
left. `NameInv` is `OpenInv` with `DiskInv`, `FileInv` and `Whole`:

- `Owners`: an inode that a transfer made is that of one entry, and is found only
  under its name, its temporary names, or those of a link to it (`Home`);
- `Unmade`: the inode of an entry still to be announced is nowhere, so a file in
  hand is the one made for it in this attempt;
- `Tree`: what has an entry in it is a directory, in the middle of a swap as well;
- `Placed`, from `Settled` and `InSort`: an entry that was there before in the
  same sort (`Lasting`), or that is not on the list any more, is there, as a
  directory or not as in the source, and no longer with the mode it was made
  with. In a later attempt the difference leaves out only what is so (`LeftOut`);
- `ChangeShape`: what each stretch of `HandleChange` finds of the one before: a
  new entry without a temporary name is not one that was there (`Lasting`), what
  was made is at `newPath` with the inode of the change or of the link's target;
- `Landed`: a file that receives content is the inode of this attempt, under the
  file's own name, and was not filtered;
- `ClosedOnce`: a mode that is given back is never that of an entry being made;
- `Widened`: a file about to be opened again is writable, or something has been
  blamed, or it has another name, through which its mode may have been set again
  meanwhile; `Blamed`: there is a cause before anything fails or is cancelled;
- `Whole`: with `SyncDataCb` an inode a transfer made has all of its content.

`OldOrNew` is `Placed`, and `Whole` through `Owners`; `FailsForCause` is
`Blamed`. Each action preserves the three parts by a lemma of its own
(`StartChangeName` to `NextAttemptName`); those that move no name share
`AsideDisk` and `AsideFiles`.

`DoneMeansDone` is about all of the tree at once, and about what nobody will
touch any more. `DoneInv` says it of every moment, beside `NameInv`:

- `Leftovers`: what the source does not have is still to be removed, itself or
  with a directory it is in, or is the temporary name in hand. So a temporary
  name that an earlier attempt left is found by the difference of the next;
- `Apart`: a link still to be handled is not yet a name of its target's inode.
  Otherwise rename would do nothing and leave the temporary name behind;
  `Linked`: one that was handled is such a name, and stays one;
- `Fits`: an entry that was handled has kind, mode, time and content of the
  source, or has them coming: a mode that was widened is saved and not given
  back (`Saving`: it is saved once, as the file is opened), a time is set by the
  goroutine that waits for the content. `InHand` is the same of the entry being
  made;
- `AllDated`: what has a time of the source's was made from it. Without that an
  entry taken for unchanged could be another one;
- `Timed`: with success, every directory that was made has its time;
- `Causes`: nothing but a filter or a shared mode is blamed in the second
  attempt, so that without a filter it fails only for a shared mode.

`Fits` needs `NoFilter`: a link whose target was left out gets its mode set on
the inode of whatever is there, which may be that of another entry that was
handled already.

`WriterAssumption` is what the theorems assume of a scenario: source and
destination are finite trees; a link of the source names an earlier regular file,
as the sender announces it, and has the mode and the content of that inode, and
one in the destination is no directory; only a file has content; the mode of what
is just being made is no mode of an entry, and an entry of the source has a mode;
what has a time of the source's was made from it, which is what `sameFile` trusts;
the filter leaves out no directory, whose entries would find no parent; and ranks
are below 100, so that the ranks of temporary names are new.

**Only model-checked.** Liveness (`CallsEnd`, `WalkEnds`, the two `Ends`) and
anything that needs ENABLED is outside what TLAPS proves here. So are the
recursive functions over trees and patterns in `Selection`, `FollowLinks` and
`TreeCopy`, which use RECURSIVE operators. `DoneMeansDone` of `Writer` is proved
without a filter; with one, TLC checks it on the scenarios of `Writer`.

## Abstractions

- Merging steps: a step of a goroutine ends at each channel operation, packet,
  lock or look at a context; what happens between two of those and touches only
  its own state is one action. In `Writer` it ends at the system calls another
  goroutine or the next attempt could tell apart.
- `HandleChange` is one step in `Receiver`, one step per change the walk can see
  in `DoubleWalk`, and call by call in `Writer`, where the changes are the
  difference found at the start of an attempt.
- At most one failure is injected per behaviour, in `Writer` in its first
  attempt. What follows from it is modelled in full.
- In `Receiver`, `ContentHasher`, `NotifyCb` and progress callbacks are left
  out; a failing callback is the failure `async`.
- The order and link checks are taken to pass in `Receiver`: the sender
  announces a walk, `StreamLegal` says a filtered walk is a valid stream, and
  `Exact` that no valid stream is refused.
- Whether an entry is taken for unchanged is size, time and metadata, as in
  `sameFile`; content comparison (`DiffContent`) is not modelled.
- Names are ranks in their order; a pattern component is a name, `*` or `**`.
  Character classes and `?` are not modelled, nor patterns that do not parse.
- `ReceiveReturns` leaves out that the metadata list cannot be written, `Writer`
  a failing call before anything of a change is made (`Lstat`, the removals), and
  with `SyncDataCb` the content is one step.
- In `Selection` the context of the walk is never cancelled.
- In `TreeCopy` owners, extended attributes and `ModeStr` are left out, source
  and destination are different trees, symlinks lead nowhere in the destination,
  and the bytes of a file are copied in one step.

## Not modelled

`buffer.go`, `util/protostream.go` and `tarwriter.go` are sequential code over
bytes with nothing to interleave and no state kept from one call to the next
but the chunks. The generated marshalling code, the xattr, device and time calls
of each platform, the Windows variants and the commands have no control of their
own that these modules do not have.

## Plan

1. `DoneMeansDone` of `Writer` with a filter: for a link whose target is left out,
   whose inode its mode and time are set on.
2. Content mode of the diff, with the length of a file and the loop of
   `copyFileContent`.
