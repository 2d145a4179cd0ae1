------------------------------ MODULE RootCache ------------------------------
(***************************************************************************)
(* rootCache (rootcache.go): the directories of the destination a          *)
(* RootDiskWriter keeps open for the goroutines that write file contents.  *)
(* A goroutine gets a lease on the directory its file is in, works through *)
(* it without the lock, and releases it.  Directories are kept in LRU      *)
(* order up to maxSize; one that is evicted, or whose cache is closed,     *)
(* while leases are out is closed by the last Release.                     *)
(*                                                                         *)
(* Opening a chain of directories is taken component by component under    *)
(* the lock.  What the descriptor of an opened directory is, is a handle;  *)
(* the entry "." is the handle Root, which belongs to the caller.          *)
(***************************************************************************)
EXTENDS Integers, Sequences, FiniteSets

CONSTANTS
    Clients,   \* the goroutines of requestAsyncFileData
    Dir,       \* Dir[c]: the directory of c's file, its components; <<>> for "."
    MaxSize,   \* capacity (128 in the code)
    Handles,   \* the descriptors the system may hand out
    Root,      \* the handle of the entry "."
    Nobody     \* no client

ASSUME RootCacheAssumption ==
    /\ IsFiniteSet(Clients)
    /\ Dir \in [Clients -> Seq(Nat)]
    /\ MaxSize \in Nat \ {0}
    /\ Root \notin Handles
    /\ Nobody \notin Clients

VARIABLES
    mu,        \* who holds the mutex, Nobody
    closed,    \* the cache is closed
    entries,   \* the handles in the map, "." left out
    lru,       \* those handles, the most recently used first
    name,      \* name[h]: the path h was opened for
    refs,      \* refs[h]: rootCacheEntry.refs
    evicted,   \* the handles whose evicted flag is set
    opened,    \* the handles handed out so far
    closes,    \* closes[h]: how often h was closed
    pc,        \* the clients: "idle", "descend", "evict", "use", "done", "failed"
    at,        \* at[c]: the entry getDirLocked has reached, then the lease's
    depth      \* depth[c]: the components it has passed

cacheVars  == <<mu, closed, entries, lru, name, refs, evicted, opened, closes>>
clientVars == <<pc, at, depth>>
vars == <<cacheVars, clientVars>>

Init ==
    /\ mu = Nobody /\ closed = FALSE
    /\ entries = {} /\ lru = <<>>
    /\ name = [h \in Handles |-> <<>>]
    /\ refs = [h \in Handles \cup {Root} |-> 0]
    /\ evicted = {} /\ opened = {}
    /\ closes = [h \in Handles |-> 0]
    /\ pc = [c \in Clients |-> "idle"]
    /\ at = [c \in Clients |-> Root]
    /\ depth = [c \in Clients |-> 0]

-----------------------------------------------------------------------------
(* The usable directories.                                                 *)
IsOpen(h) == h = Root \/ (h \in opened /\ closes[h] = 0)

CloseOf(S) == [h \in Handles |-> IF h \in S THEN closes[h] + 1 ELSE closes[h]]

(* container/list: MoveToFront, PushFront, and Remove of the last element. *)
MovedToFront(s, h) ==
    LET k == CHOOSE i \in 1..Len(s) : s[i] = h
    IN  [i \in 1..Len(s) |-> IF i = 1 THEN h ELSE IF i <= k THEN s[i - 1] ELSE s[i]]

(* Mutant: pushed to the other end.                                        *)
PushedBack(s, h) == Append(s, h)

PushedFront(s, h) == [i \in 1..(Len(s) + 1) |-> IF i = 1 THEN h ELSE s[i - 1]]

WithoutBack(s) == [i \in 1..(Len(s) - 1) |-> s[i]]

(* get: a closed cache gives nothing.                                      *)
GetStarts(c) ==
    /\ pc[c] = "idle" /\ mu = Nobody
    /\ IF closed
       THEN /\ pc' = [pc EXCEPT ![c] = "failed"] /\ UNCHANGED mu
       ELSE /\ pc' = [pc EXCEPT ![c] = "descend"] /\ mu' = c
    /\ UNCHANGED <<closed, entries, lru, name, refs, evicted, opened, closes, at, depth>>

(* getDirLocked, one component: the entry of that path, or a new one.      *)
(* Mutant: the component alone.                                            *)
ComponentOnly(c) == <<Dir[c][depth[c] + 1]>>

NextName(c) == SubSeq(Dir[c], 1, depth[c] + 1)
Descends(c) == mu = c /\ pc[c] = "descend" /\ depth[c] < Len(Dir[c])
Known(c)    == {h \in entries : name[h] = NextName(c)}

Arrives(c, h) ==
    /\ at' = [at EXCEPT ![c] = h]
    /\ depth' = [depth EXCEPT ![c] = depth[c] + 1]

Hit(c) ==
    /\ Descends(c)
    /\ \E h \in Known(c) :
         /\ lru' = MovedToFront(lru, h)
         /\ Arrives(c, h)
    /\ UNCHANGED <<mu, closed, entries, name, refs, evicted, opened, closes, pc>>

Miss(c) ==
    /\ Descends(c) /\ Known(c) = {}
    /\ IsOpen(at[c])
    /\ \E h \in Handles \ opened :
         /\ opened' = opened \cup {h}
         /\ name' = [name EXCEPT ![h] = NextName(c)]
         /\ entries' = entries \cup {h}
         /\ lru' = PushedFront(lru, h)
         /\ Arrives(c, h)
    /\ pc' = [pc EXCEPT ![c] = "evict"]
    /\ UNCHANGED <<mu, closed, refs, evicted, closes>>

(* OpenRoot fails: what was opened on the way stays in the cache.          *)
MissFails(c) ==
    /\ Descends(c) /\ Known(c) = {}
    /\ pc' = [pc EXCEPT ![c] = "failed"]
    /\ mu' = Nobody
    /\ UNCHANGED <<closed, entries, lru, name, refs, evicted, opened, closes, at, depth>>

(* evictLocked: the least recently used ones go, and are closed unless     *)
(* leases are out.  Mutants: leases are not looked at; one too many stays. *)
EvictLeased(v) == {v}
Unleased(v)    == IF refs[v] = 0 THEN {v} ELSE {}

OverByTwo == Cardinality(entries) > MaxSize + 1
Over      == Cardinality(entries) > MaxSize

Evict(c) ==
    /\ mu = c /\ pc[c] = "evict" /\ Over /\ lru # <<>>
    /\ LET v == lru[Len(lru)] IN
         /\ lru' = WithoutBack(lru)
         /\ evicted' = evicted \cup {v}
         /\ entries' = entries \ {v}
         /\ closes' = CloseOf(Unleased(v))
    /\ UNCHANGED <<mu, closed, name, refs, opened, clientVars>>

Evicted(c) ==
    /\ mu = c /\ pc[c] = "evict" /\ ~(Over /\ lru # <<>>)
    /\ pc' = [pc EXCEPT ![c] = "descend"]
    /\ UNCHANGED <<cacheVars, at, depth>>

GetEnds(c) ==
    /\ mu = c /\ pc[c] = "descend" /\ depth[c] = Len(Dir[c])
    /\ refs' = [refs EXCEPT ![at[c]] = refs[at[c]] + 1]
    /\ pc' = [pc EXCEPT ![c] = "use"]
    /\ mu' = Nobody
    /\ UNCHANGED <<closed, entries, lru, name, evicted, opened, closes, at, depth>>

(* Release, through its sync.Once.                                         *)
ClosedByRelease(h) == refs[h] = 1 /\ h \in evicted

Release(c) ==
    /\ pc[c] = "use" /\ mu = Nobody
    /\ LET h == at[c] IN
         /\ refs' = [refs EXCEPT ![h] = refs[h] - 1]
         /\ closes' = IF h # Root /\ ClosedByRelease(h) THEN CloseOf({h}) ELSE closes
    /\ pc' = [pc EXCEPT ![c] = "done"]
    /\ UNCHANGED <<mu, closed, entries, lru, name, evicted, opened, at, depth>>

(* Close, at any time and more than once.                                  *)
Idle == {h \in entries : refs[h] = 0}

Close ==
    /\ mu = Nobody
    /\ closed' = TRUE
    /\ entries' = {} /\ lru' = <<>>
    /\ evicted' = evicted \cup entries
    /\ closes' = CloseOf(Idle)
    /\ UNCHANGED <<mu, name, refs, opened, clientVars>>

Client(c) ==
    \/ GetStarts(c) \/ Hit(c) \/ Miss(c) \/ MissFails(c) \/ Evict(c) \/ Evicted(c)
    \/ GetEnds(c) \/ Release(c)

Next == Close \/ \E c \in Clients : Client(c)

Spec == Init /\ [][Next]_vars

-----------------------------------------------------------------------------
Users(h) == {c \in Clients : pc[c] = "use" /\ at[c] = h}

TypeOK ==
    /\ mu \in Clients \cup {Nobody}
    /\ closed \in BOOLEAN
    /\ entries \subseteq Handles
    /\ lru \in Seq(Handles)
    /\ name \in [Handles -> Seq(Nat)]
    /\ refs \in [Handles \cup {Root} -> Nat]
    /\ evicted \subseteq Handles
    /\ opened \subseteq Handles
    /\ closes \in [Handles -> Nat]
    /\ pc \in [Clients -> {"idle", "descend", "evict", "use", "done", "failed"}]
    /\ at \in [Clients -> Handles \cup {Root}]
    /\ depth \in [Clients -> Nat]
    /\ \A c \in Clients : depth[c] <= Len(Dir[c])

(* A leased directory is open until its lease is released, whatever other  *)
(* goroutines evict and whenever the cache is closed (rootcache.go:69-76,  *)
(* 95-99, 173-176).                                                        *)
LeaseOpen == \A c \in Clients : pc[c] = "use" => IsOpen(at[c])

(* A client in the middle of a chain stands on an open directory: evicting *)
(* for the component just opened never closes the one the next component   *)
(* is opened from (rootcache.go:139-151).                                  *)
ChainOpen ==
    \A c \in Clients : pc[c] \in {"descend", "evict"} => IsOpen(at[c])

(* Nothing is closed twice (rootcache.go:111-113).                         *)
ClosedOnce == \A h \in Handles : closes[h] <= 1

(* Nothing stays open but what the map holds and what is leased; as Close  *)
(* empties the map, nothing stays open after it and the last Release       *)
(* (rootcache.go:79-116).                                                  *)
NoLeak ==
    \A h \in opened : (closes[h] = 0) => (h \in entries \/ Users(h) # {})

(* What is in use is open: leases and the walk that is under way.          *)
InUseOpen == LeaseOpen /\ ChainOpen

(* What was opened is closed exactly once: not twice, and in the end.      *)
ClosedExactly == ClosedOnce /\ NoLeak

(* The capacity holds whenever the lock is free (rootcache.go:164).        *)
Bounded == mu = Nobody => Cardinality(entries) <= MaxSize

(* A lease is on the directory that was asked for.                         *)
LeaseIsDir ==
    \A c \in Clients : pc[c] = "use" => IF at[c] = Root THEN Dir[c] = <<>> ELSE name[at[c]] = Dir[c]
=============================================================================
