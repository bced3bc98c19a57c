------------------------------ MODULE MCCaches ------------------------------
(* The two halves of the cache, one at a time: the files while they can be      *)
(* removed, the files while removal may fail, and the values in memory.         *)
EXTENDS Integers, Sequences, FiniteSets, SequencesExt, TLC

CONSTANTS c1, c2, c3, k1, k2, graph, object, other, huge, None

VARIABLES
    file, entry, lru, fill, bytes, count, call, mode, lock, limit, todo,    \* CacheDisk
    values, used, fills, loads, open,                                       \* CacheMemory
    side

diskVars == <<file, entry, lru, fill, bytes, count, call, mode, lock, limit, todo>>
memoryVars == <<values, used, fills, loads, open>>

\* The content of k1 takes less than a load of it reserves.
Sizes == k1 :> 1 @@ k2 :> 2
Reservations == k1 :> 2 @@ k2 :> 2
\* A load of k2 reserves less than its content takes.
ShortReservations == k1 :> 1 @@ k2 :> 1

Files == INSTANCE CacheDisk WITH
    Caller <- {c1, c2}, Key <- {k1, k2}, Names <- 2, Size <- Sizes, EntryLimit <- 2,
    MaxSize <- Reservations, Limits <- {1, 2, 3}, RemoveMayFail <- FALSE

Failing == INSTANCE CacheDisk WITH
    Caller <- {c1, c2}, Key <- {k1, k2}, Names <- 2, Size <- Sizes, EntryLimit <- 2,
    MaxSize <- ShortReservations, Limits <- {2}, RemoveMayFail <- TRUE

\* Two graphs share an object; one value is too large to be held.
Nesting == graph :> {object} @@ object :> {} @@ other :> {object} @@ huge :> {}
Charges == graph :> 2 @@ object :> 1 @@ other :> 3 @@ huge :> 4

Memory == INSTANCE CacheMemory WITH
    Caller <- {c1, c2, c3}, Key <- {graph, object, other, huge}, Inner <- Nesting,
    Charge <- Charges, Limit <- 3,
    lru <- values, bytes <- used, call <- loads, mode <- open

ASSUME Instances ==
    Files!CacheDiskAssumption /\ Failing!CacheDiskAssumption /\ Memory!CacheMemoryAssumption

CallerSymmetry == Permutations({c1, c2})

Init ==
    /\ side \in {"files", "failing", "memory"}
    /\ IF side = "failing" THEN Failing!Init ELSE Files!Init
    /\ Memory!Init

Next ==
    /\ \/ side = "files" /\ Files!Next /\ UNCHANGED memoryVars
       \/ side = "failing" /\ Failing!Next /\ UNCHANGED memoryVars
       \/ side = "memory" /\ Memory!Next /\ UNCHANGED diskVars
    /\ UNCHANGED side

Spec == Init /\ [][Next]_<<diskVars, memoryVars, side>>

-----------------------------------------------------------------------------
\* The files: no caller holds a bad one, one build and one live file for each key,
\* exact counters within both budgets, as is the directory while files can be
\* removed, an owner as long as they are used, and nobody who waits is forgotten
\* (CacheDisk).
FilesSound ==
    /\ IF side = "failing" THEN Failing!TypeOK /\ Failing!Accounted
       ELSE Files!TypeOK /\ Files!Accounted
    /\ side = "files" => Files!DirectoryBounded
    /\ Files!HandlesGood /\ Files!OnePerKey /\ Files!LockFollowsUse /\ Files!WaitersServed

\* The values: the counter is exact and within the budget, one load for each at a
\* time, nobody who waits is forgotten, and a closed cache stays empty (CacheMemory).
ValuesSound ==
    /\ Memory!TypeOK /\ Memory!BudgetExact /\ Memory!OneFill
    /\ Memory!WaitersServed /\ Memory!ClosedHoldsNothing
=============================================================================
