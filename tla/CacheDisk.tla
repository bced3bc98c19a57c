----------------------------- MODULE CacheDisk -----------------------------
(***************************************************************************)
(* The files of the shared cache (cache/disk.go): loads that share one     *)
(* build, files pinned by their readers, eviction within a byte budget and *)
(* an entry budget, verification after a restart, recovery of a directory  *)
(* that a crashed process left behind, and Close.  The callers are those   *)
(* of repository/cache.go and gittransport/pack_cache.go, which read       *)
(* storage themselves when the cache has no room.                          *)
(*                                                                         *)
(* A step is a critical section of the cache's mutex or one effect on the  *)
(* directory.  Sizes are pages.  What a build writes is a function of its  *)
(* key; a file is good until it is damaged while no process runs.          *)
(***************************************************************************)
EXTENDS Integers, Sequences, FiniteSets, FiniteSetsExt, SequencesExt

CONSTANTS
    Caller,             \* goroutines that read through the cache
    Key,                \* keys of immutable content
    Names,              \* bound: files of one key that may exist at once
    Size,               \* pages of the content of each key
    MaxSize,            \* pages that a load of each key reserves
    Limits,             \* disk budgets that a process may be started with
    EntryLimit,         \* MaxDiskEntries
    RemoveMayFail,      \* whether os.Remove may fail
    None                \* no key, no path

\* A path: the digest of its key, and a part that os.CreateTemp chooses.
Path == Key \X (1 .. Names)

CacheDiskAssumption ==
    /\ IsFiniteSet(Caller) /\ IsFiniteSet(Key)
    /\ Size \in [Key -> Nat \ {0}] /\ MaxSize \in [Key -> Nat \ {0}]
    /\ Limits \subseteq Nat /\ Names \in Nat \ {0} /\ EntryLimit \in Nat \ {0}

VARIABLES
    file,       \* what the directory holds under each path
    entry,      \* diskEntry of each path: "none", or its pins and flags
    lru,        \* diskLRU, most recent first
    fill,       \* diskFills: the keys that are being built
    bytes,      \* diskBytes
    count,      \* diskEntries
    call,       \* where each caller is
    mode,       \* whether a process runs, and how far Close is
    lock,       \* whether the ownership lock of the directory is held
    limit,      \* diskLimit of the running process
    todo        \* files that recoverFiles has still to look at

vars == <<file, entry, lru, fill, bytes, count, call, mode, lock, limit, todo>>

NoEntry == [pins |-> 0, state |-> "none", verified |-> FALSE, checking |-> FALSE]
Entry == [pins |-> 0, state |-> "live", verified |-> FALSE, checking |-> FALSE]

Idle == [pc |-> "idle", key |-> None, target |-> None, path |-> None, cancelled |-> FALSE]

Init ==
    /\ file = [p \in Path |-> "none"] /\ entry = [p \in Path |-> NoEntry]
    /\ lru = <<>> /\ fill = {}
    /\ bytes = 0 /\ count = 0
    /\ call = [c \in Caller |-> Idle]
    /\ mode = "down" /\ lock = FALSE /\ limit \in Limits /\ todo = {}

Live(k) == {p \in Path : p[1] = k /\ entry[p].state = "live"}

Closed == mode # "up"

At(c, pc) == call[c].pc = pc

Goto(c, pc) == [call EXCEPT ![c].pc = pc]

End(c) == [call EXCEPT ![c] = Idle]

\* OpenFile found nothing: a caller that only looked for a pack goes on to load
\* its own key, a load goes on to the fills.
Missed(c) == [call EXCEPT ![c] =
    [@ EXCEPT !.pc = IF call[c].key = call[c].target THEN "load" ELSE "open",
              !.key = call[c].target, !.path = None]]

disk == <<file, entry, lru, fill, bytes, count>>
process == <<mode, lock, limit, todo>>

-----------------------------------------------------------------------------
\* The callers.

\* snapshotData and cachedPack: LoadFile, and without room the storage itself.
Load(c, k) ==
    /\ At(c, "idle") /\ mode = "up"
    /\ call' = [call EXCEPT ![c] = [Idle EXCEPT !.pc = "open", !.key = k, !.target = k]]
    /\ UNCHANGED <<disk, process>>

\* packedObject: a pack that another request cached, or else an entry of its own.
\* loadSharedPack does the same with one key.
LoadThrough(c, k, t) ==
    /\ At(c, "idle") /\ mode = "up" /\ k # t
    /\ call' = [call EXCEPT ![c] = [Idle EXCEPT !.pc = "open", !.key = k, !.target = t]]
    /\ UNCHANGED <<disk, process>>

\* The content came from storage, bypassing the cache.
Direct(c) ==
    /\ At(c, "direct")
    /\ call' = End(c)
    /\ UNCHANGED <<disk, process>>

Cancel(c) ==
    /\ ~ At(c, "idle") /\ ~ call[c].cancelled
    /\ call' = [call EXCEPT ![c].cancelled = TRUE]
    /\ UNCHANGED <<disk, process>>

-----------------------------------------------------------------------------
\* OpenFile.

ToFront(p) == <<p>> \o SelectSeq(lru, LAMBDA q : q # p)

Open(c) ==
    /\ At(c, "open")
    /\ IF call[c].cancelled \/ Closed
       THEN call' = End(c) /\ UNCHANGED <<entry, lru>>
       ELSE IF Live(call[c].key) = {}
       THEN call' = Missed(c) /\ UNCHANGED <<entry, lru>>
       ELSE \E p \in Live(call[c].key) :
            /\ entry' = [entry EXCEPT ![p].pins = @ + 1]
            /\ lru' = ToFront(p)
            /\ call' = [call EXCEPT ![c] = [@ EXCEPT !.pc = "verify", !.path = p]]
    /\ UNCHANGED <<file, fill, bytes, count, process>>

\* One turn of the loop of verifyFile: the file is known to be good, someone else
\* reads it, or this caller reads it.  os.Open or Stat may fail.
Verify(c) == LET p == call[c].path e == entry[call[c].path] IN
    /\ At(c, "verify")
    /\ \/ call' = Goto(c, "bad") /\ UNCHANGED entry
       \/ /\ ~ call[c].cancelled /\ e.state = "live"
          /\ IF e.verified THEN call' = Goto(c, "final") /\ UNCHANGED entry
             ELSE IF e.checking THEN call' = Goto(c, "checking") /\ UNCHANGED entry
             ELSE call' = Goto(c, "hashing") /\ entry' = [entry EXCEPT ![p].checking = TRUE]
    /\ UNCHANGED <<file, lru, fill, bytes, count, process>>

\* The checksum matches or not, or reading fails; those who waited look again.
Hash(c) == LET p == call[c].path IN
    /\ At(c, "hashing")
    /\ \E good \in BOOLEAN :
        /\ good => file[p] = "good" /\ ~ call[c].cancelled
        /\ entry' = [entry EXCEPT ![p] = [@ EXCEPT !.checking = FALSE, !.verified = good \/ @]]
        /\ call' = [d \in Caller |->
                IF d = c THEN [call[c] EXCEPT !.pc = IF good THEN "final" ELSE "bad"]
                ELSE IF At(d, "checking") /\ call[d].path = p THEN [call[d] EXCEPT !.pc = "verify"]
                ELSE call[d]]
    /\ UNCHANGED <<file, lru, fill, bytes, count, process>>

StopChecking(c) ==
    /\ At(c, "checking") /\ call[c].cancelled
    /\ call' = Goto(c, "bad")
    /\ UNCHANGED <<disk, process>>

\* A file that cannot be verified is retired: no later open finds it.
Bad(c) == LET p == call[c].path IN
    /\ At(c, "bad")
    /\ IF call[c].cancelled
       THEN UNCHANGED <<entry, lru>>
       ELSE /\ entry' = [entry EXCEPT ![p].state = "retired"]
            /\ lru' = SelectSeq(lru, LAMBDA q : q # p)
    /\ call' = Goto(c, "unpin")
    /\ UNCHANGED <<file, fill, bytes, count, process>>

\* The caller gets a File, unless the cache closed or the entry was retired.
Final(c) ==
    /\ At(c, "final")
    /\ call' = Goto(c, IF Closed \/ entry[call[c].path].state = "retired" THEN "drop" ELSE "using")
    /\ UNCHANGED <<disk, process>>

-----------------------------------------------------------------------------
\* unpin.  The last pin of a retired entry removes its file and gives its charge
\* back; if the file cannot be removed it stays charged.

Pins == MapThenSumSet(LAMBDA p : entry[p].pins, Path)

Unpin(p) == LET last == entry[p].state = "retired" /\ entry[p].pins = 1 IN
    /\ \E removed \in IF last THEN {TRUE, ~ RemoveMayFail} ELSE {FALSE} :
        /\ file' = IF removed THEN [file EXCEPT ![p] = "none"] ELSE file
        /\ entry' = IF removed THEN [entry EXCEPT ![p] = NoEntry]
                    ELSE [entry EXCEPT ![p].pins = @ - 1]
        /\ bytes' = IF removed THEN bytes - Size[p[1]] ELSE bytes
        /\ count' = IF removed THEN count - 1 ELSE count
    /\ lock' = (lock /\ ~ (mode = "closed" /\ Pins = 1))
    /\ UNCHANGED <<lru, fill, mode, limit, todo>>

DropBad(c) ==
    /\ At(c, "unpin") /\ Unpin(call[c].path)
    /\ call' = IF call[c].cancelled THEN End(c) ELSE Missed(c)

DropRetired(c) ==
    /\ At(c, "drop") /\ Unpin(call[c].path)
    /\ call' = Missed(c)

\* File.Close, by its user, or by LoadFile when the file that it found is larger
\* than the caller's bound.
CloseFile(c) ==
    /\ At(c, "using") /\ Unpin(call[c].path)
    /\ call' = End(c)

-----------------------------------------------------------------------------
\* LoadFile: eviction, reservation, build.

\* Unpinned entries, least recently used first.
Unpinned == SelectSeq(Reverse(lru), LAMBDA p : entry[p].pins = 0)

SumOf(s) == MapThenSumSet(LAMBDA p : Size[p[1]], ToSet(s))

Fits(n, charge) ==
    /\ bytes - SumOf(SubSeq(Unpinned, 1, n)) + charge <= limit
    /\ count - n < EntryLimit

\* How many victims makeDiskRoom takes: it stops when the charge fits, or when
\* no victim is left, which it only finds out after it evicted the others.
Victims(charge) == LET N == 0 .. Len(Unpinned) IN
    IF \E n \in N : Fits(n, charge) THEN Min({n \in N : Fits(n, charge)}) ELSE Len(Unpinned)

\* State after n victims are gone.
Evict(n) == LET gone == ToSet(SubSeq(Unpinned, 1, n)) IN
    /\ file' = [p \in Path |-> IF p \in gone THEN "none" ELSE file[p]]
    /\ entry' = [p \in Path |-> IF p \in gone THEN NoEntry ELSE entry[p]]
    /\ lru' = SelectSeq(lru, LAMBDA p : p \notin gone)

\* No room: all that can be evicted is gone, or a victim could not be removed.
Refuse(c) == LET k == call[c].key n == Victims(MaxSize[k]) IN
    \/ /\ MaxSize[k] > limit
       /\ call' = Goto(c, "direct") /\ UNCHANGED <<file, entry, lru, bytes, count>>
    \/ /\ MaxSize[k] <= limit /\ ~ Fits(n, MaxSize[k])
       /\ Evict(n) /\ call' = Goto(c, "direct")
       /\ bytes' = bytes - SumOf(SubSeq(Unpinned, 1, n)) /\ count' = count - n
    \/ /\ MaxSize[k] <= limit /\ RemoveMayFail
       /\ \E i \in 0 .. n - 1 :
            /\ Evict(i) /\ bytes' = bytes - SumOf(SubSeq(Unpinned, 1, i)) /\ count' = count - i
       /\ call' = End(c)

\* The reservation is charged before the callback runs.
Reserve(c) == LET k == call[c].key n == Victims(MaxSize[k]) IN
    /\ MaxSize[k] <= limit /\ Fits(n, MaxSize[k])
    /\ Evict(n)
    /\ bytes' = bytes - SumOf(SubSeq(Unpinned, 1, n)) + MaxSize[k]
    /\ count' = count - n + 1
    /\ fill' = fill \cup {k}
    /\ call' = Goto(c, "building")

LoadFile(c) == LET k == call[c].key IN
    /\ At(c, "load")
    /\ \/ Closed /\ call' = End(c) /\ UNCHANGED disk
       \/ ~ Closed /\ Live(k) # {} /\ call' = Goto(c, "open") /\ UNCHANGED disk
       \/ ~ Closed /\ Live(k) = {} /\ k \in fill /\ call' = Goto(c, "await") /\ UNCHANGED disk
       \/ ~ Closed /\ Live(k) = {} /\ k \notin fill /\ Refuse(c) /\ UNCHANGED fill
       \/ ~ Closed /\ Live(k) = {} /\ k \notin fill /\ Reserve(c)
    /\ UNCHANGED process

\* await: the caller's own context ends.
AwaitCancelled(c) ==
    /\ At(c, "await") /\ call[c].cancelled
    /\ call' = End(c)
    /\ UNCHANGED <<disk, process>>

CreateTemp(c) ==
    LET k == call[c].key
        free == {p \in Path : p[1] = k /\ file[p] = "none" /\ entry[p] = NoEntry} IN
    /\ At(c, "building") /\ free # {}
    /\ LET p == CHOOSE p \in free : \A q \in free : p[2] <= q[2] IN
        /\ file' = [file EXCEPT ![p] = "temp"]
        /\ call' = [call EXCEPT ![c] = [@ EXCEPT !.pc = "writing", !.path = p]]
    /\ UNCHANGED <<entry, lru, fill, bytes, count, process>>

\* The callback fails, the content exceeds its bound or the context ends: the
\* deferred removal of the temporary file ignores an error.
BuildFails(c) == LET k == call[c].key IN
    /\ At(c, "writing")
    /\ \E left \in {FALSE, RemoveMayFail} :
        file' = [file EXCEPT ![call[c].path] = IF left THEN "temp" ELSE "none"]
    /\ call' = [call EXCEPT ![c] =
         [@ EXCEPT !.pc = IF Size[k] > MaxSize[k] THEN "full" ELSE "failed", !.path = None]]
    /\ UNCHANGED <<entry, lru, fill, bytes, count, process>>

\* Synced, closed and renamed; not yet in the index.
Rename(c) ==
    /\ At(c, "writing") /\ ~ call[c].cancelled /\ Size[call[c].key] <= MaxSize[call[c].key]
    /\ file' = [file EXCEPT ![call[c].path] = "good"]
    /\ call' = Goto(c, "renamed")
    /\ UNCHANGED <<entry, lru, fill, bytes, count, process>>

\* The waiters of key k get the result of the flight.
Wake(new, k, pc) == [d \in Caller |->
    IF At(d, "await") /\ call[d].key = k
    THEN IF pc = "idle" THEN Idle ELSE [call[d] EXCEPT !.pc = pc]
    ELSE new[d]]

Publish(c) == LET k == call[c].key p == call[c].path IN
    /\ At(c, "renamed") /\ ~ call[c].cancelled /\ ~ Closed
    /\ bytes' = bytes - MaxSize[k] + Size[k]
    /\ entry' = [entry EXCEPT ![p] = Entry]
    /\ lru' = <<p>> \o lru
    /\ fill' = fill \ {k}
    /\ call' = Wake([call EXCEPT ![c] = [@ EXCEPT !.pc = "open", !.path = None]], k, "open")
    /\ UNCHANGED <<file, count, process>>

\* Mutant: the file that was already renamed stays.
WithdrawKeeps(c) == LET k == call[c].key IN
    /\ \/ At(c, "renamed") /\ (call[c].cancelled \/ Closed)
       \/ call[c].pc \in {"failed", "full"}
    /\ bytes' = bytes - MaxSize[k] /\ count' = count - 1
    /\ fill' = fill \ {k}
    /\ call' = Wake(End(c), k, "idle")
    /\ UNCHANGED <<file, entry, lru, process>>

\* The same deferred function after an error: the renamed file is removed.
Withdraw(c) == LET k == call[c].key p == call[c].path full == At(c, "full") IN
    /\ \/ At(c, "renamed") /\ (call[c].cancelled \/ Closed)
       \/ call[c].pc \in {"failed", "full"}
    /\ \E left \in {FALSE, RemoveMayFail} :
        file' = IF p = None \/ left THEN file ELSE [file EXCEPT ![p] = "none"]
    /\ bytes' = bytes - MaxSize[k] /\ count' = count - 1
    /\ fill' = fill \ {k}
    /\ call' = LET pc == IF full THEN "direct" ELSE "idle" IN
         Wake(IF full THEN [call EXCEPT ![c] = [@ EXCEPT !.pc = pc]] ELSE End(c), k, pc)
    /\ UNCHANGED <<entry, lru, process>>

-----------------------------------------------------------------------------
\* The process: New, Close, crash.

\* acquireLock and the listing of recoverFiles; the operator chose the budget.
New(n) ==
    /\ mode = "down" /\ ~ lock
    /\ mode' = "recovering" /\ lock' = TRUE /\ limit' = n
    /\ todo' = {p \in Path : file[p] # "none"}
    /\ UNCHANGED <<disk, call>>

\* recoverFile: what is no complete file, or larger than the budget, is removed,
\* and so is the file found before under the same key.
Discard(p) ==
    /\ file' = [file EXCEPT ![p] = "none"]
    /\ UNCHANGED <<entry, lru, bytes, count>>

Adopt(p) == LET old == Live(p[1]) IN
    /\ file' = [q \in Path |-> IF q \in old THEN "none" ELSE file[q]]
    /\ entry' = [q \in Path |-> IF q = p THEN Entry ELSE IF q \in old THEN NoEntry ELSE entry[q]]
    /\ lru' = <<p>> \o SelectSeq(lru, LAMBDA q : q \notin old)
    /\ bytes' = bytes + IF old = {} THEN Size[p[1]] ELSE 0
    /\ count' = count + IF old = {} THEN 1 ELSE 0

\* makeDiskRoom on behalf of a recovered file, before it is adopted.
MakeRoomFor(p) == LET n == Victims(Size[p[1]]) IN
    /\ ~ Fits(0, Size[p[1]])
    /\ Evict(n)
    /\ bytes' = bytes - SumOf(SubSeq(Unpinned, 1, n)) /\ count' = count - n

RecoverFile(p) ==
    /\ mode = "recovering" /\ p \in todo
    /\ \/ (file[p] = "temp" \/ Size[p[1]] > limit) /\ Discard(p) /\ todo' = todo \ {p}
       \/ file[p] # "temp" /\ Size[p[1]] <= limit /\ Live(p[1]) = {} /\ MakeRoomFor(p) /\ UNCHANGED todo
       \/ /\ file[p] # "temp" /\ Size[p[1]] <= limit
          /\ Live(p[1]) # {} \/ Fits(0, Size[p[1]])
          /\ Adopt(p) /\ todo' = todo \ {p}
    /\ UNCHANGED <<fill, call, mode, lock, limit>>

Recovered ==
    /\ mode = "recovering" /\ todo = {}
    /\ mode' = "up"
    /\ UNCHANGED <<disk, call, lock, limit, todo>>

Building(c) == call[c].pc \in {"building", "writing", "renamed", "failed", "full"}

\* Callers whose callback or open the WaitGroup counts.
Working(c) ==
    Building(c) \/ call[c].pc \in {"verify", "checking", "hashing", "bad", "final", "unpin", "drop"}

\* Close rejects new calls and cancels the builds.
Close ==
    /\ mode = "up" /\ mode' = "closing"
    /\ call' = [c \in Caller |-> IF Building(c)
                                 THEN [call[c] EXCEPT !.cancelled = TRUE] ELSE call[c]]
    /\ UNCHANGED <<disk, lock, limit, todo>>

\* Then it waits for them; handles may outlive it and keep the lock.
CloseDone ==
    /\ mode = "closing" /\ \A c \in Caller : ~ Working(c)
    /\ mode' = "closed"
    /\ lock' = (lock /\ Pins > 0)
    /\ UNCHANGED <<disk, call, limit, todo>>

\* The process ends, in order or not: memory and the lock are gone.
Crash ==
    /\ mode # "down"
    /\ entry' = [p \in Path |-> NoEntry] /\ lru' = <<>> /\ fill' = {}
    /\ bytes' = 0 /\ count' = 0
    /\ call' = [c \in Caller |-> Idle]
    /\ mode' = "down" /\ lock' = FALSE /\ todo' = {}
    /\ UNCHANGED <<file, limit>>

\* A file is damaged while no process owns the directory.
Damage(p) ==
    /\ mode = "down" /\ file[p] = "good"
    /\ file' = [file EXCEPT ![p] = "damaged"]
    /\ UNCHANGED <<entry, lru, fill, bytes, count, call, process>>

-----------------------------------------------------------------------------
Step(c) ==
    \/ Open(c) \/ Verify(c) \/ Hash(c) \/ StopChecking(c) \/ Bad(c) \/ Final(c)
    \/ DropBad(c) \/ DropRetired(c) \/ LoadFile(c) \/ AwaitCancelled(c)
    \/ CreateTemp(c) \/ BuildFails(c) \/ Rename(c) \/ Publish(c) \/ Withdraw(c)

Next ==
    \/ \E c \in Caller :
        \/ \E k \in Key : Load(c, k)
        \/ \E k, t \in Key : LoadThrough(c, k, t)
        \/ Step(c) \/ CloseFile(c) \/ Direct(c) \/ Cancel(c)
    \/ \E n \in Limits : New(n)
    \/ \E p \in Path : RecoverFile(p)
    \/ Recovered \/ Close \/ CloseDone \/ Crash
    \/ \E p \in Path : Damage(p)

Spec == Init /\ [][Next]_vars

-----------------------------------------------------------------------------
\* Every variable stays within its type.
TypeOK ==
    /\ file \in [Path -> {"none", "temp", "good", "damaged"}]
    /\ entry \in [Path -> [pins : 0 .. Cardinality(Caller), state : {"none", "live", "retired"},
                           verified : BOOLEAN, checking : BOOLEAN]]
    /\ ToSet(lru) = {p \in Path : entry[p].state = "live"} /\ IsInjective(lru)
    /\ fill \subseteq Key
    /\ bytes \in Nat /\ count \in Nat
    /\ \A c \in Caller : call[c].path \in Path \cup {None}
    /\ mode \in {"down", "recovering", "up", "closing", "closed"}
    /\ lock \in BOOLEAN /\ limit \in Limits /\ todo \subseteq Path

Known == {p \in Path : entry[p].state # "none"}

\* The counters are the sum of what the process reserved for builds and of the
\* files it knows, pinned and retired ones included, and stay within both
\* budgets whatever order opens, builds, failures and closes come in.
Accounted ==
    /\ bytes = MapThenSumSet(LAMBDA k : MaxSize[k], fill) + MapThenSumSet(LAMBDA p : Size[p[1]], Known)
    /\ count = Cardinality(fill) + Cardinality(Known)
    /\ bytes <= limit /\ count <= EntryLimit

\* While files can be removed, what the directory really holds is within the
\* budget of the running process: temporary files, files that are renamed and
\* not yet indexed, and retired files that are still read, included.
DirectoryBounded ==
    mode \in {"up", "closing", "closed"} =>
        MapThenSumSet(LAMBDA p : IF file[p] = "temp" THEN MaxSize[p[1]] ELSE Size[p[1]],
                      {p \in Path : file[p] # "none"}) <= limit

\* A caller never holds a handle to a file that is damaged, incomplete or
\* removed, although it was verified by someone else, or retired or evicted
\* meanwhile, or left behind by a process that crashed.
HandlesGood == \A c \in Caller : At(c, "using") => file[call[c].path] = "good"

\* One build and one live file for each key: concurrent loads share them, and
\* a recovered directory is no exception.
OnePerKey ==
    /\ \A k \in Key : Cardinality(Live(k)) <= 1 /\ (k \in fill => Live(k) = {})
    /\ \A k \in Key : Cardinality({c \in Caller : call[c].key = k /\ Building(c)}) <= 1

\* The directory has an owner as long as someone builds, opens or reads a file
\* in it, and is given up once a closed cache has no reader left.
LockFollowsUse ==
    /\ (Pins > 0 \/ \E c \in Caller : Working(c)) => lock
    /\ mode = "closed" => (lock <=> Pins > 0)

\* Nobody who waits for the build or the verification of another is forgotten
\* when that other succeeds, fails, is cancelled or closed: as long as a caller
\* waits, the one it waits for is still at it.
WaitersServed ==
    \A c \in Caller :
        /\ At(c, "await") =>
            \E d \in Caller : Building(d) /\ call[d].key = call[c].key
        /\ At(c, "checking") =>
            \E d \in Caller : At(d, "hashing") /\ call[d].path = call[c].path

=============================================================================
