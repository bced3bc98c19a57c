---------------------------- MODULE CacheMemory ----------------------------
(***************************************************************************)
(* The values of the shared cache (cache/cache.go): LoadMemory, which      *)
(* loads a value once for concurrent callers in the goroutine of the       *)
(* first, and Close.  The loaders are those of repository/cache.go and     *)
(* repository/graph_cache.go: the graph of a generation loads the objects  *)
(* that it visits, through the same cache.                                 *)
(*                                                                         *)
(* A step is a critical section of the cache's mutex or the end of a       *)
(* loader.  A value is a function of its key, so it is not represented.    *)
(***************************************************************************)
EXTENDS Integers, Sequences, FiniteSets, FiniteSetsExt, SequencesExt

CONSTANTS
    Caller,             \* goroutines
    Key,                \* keys of immutable values
    Inner,              \* the keys that the loader of each key loads itself
    Charge,             \* retained size of each value, overhead included
    Limit               \* memoryLimit

CacheMemoryAssumption ==
    /\ IsFiniteSet(Caller) /\ IsFiniteSet(Key)
    /\ Inner \in [Key -> SUBSET Key]
    \* Loaders may load other keys, never their own.
    /\ \A k \in Key : \A j \in Inner[k] : Inner[j] = {}
    /\ Charge \in [Key -> Nat \ {0}] /\ Limit \in Nat

VARIABLES
    lru,        \* memoryLRU, most recent first; its members are the values held
    bytes,      \* memoryBytes
    fills,      \* memoryFills
    call,       \* each caller: its nested loads, innermost first, and where it is
    mode        \* "up", "closing" while Close waits for the loaders, "closed"

vars == <<lru, bytes, fills, call, mode>>

Idle == [stack |-> <<>>, pc |-> "idle", cancelled |-> FALSE]

Init ==
    /\ lru = <<>> /\ bytes = 0 /\ fills = {}
    /\ call = [c \in Caller |-> Idle]
    /\ mode = "up"

At(c, pc) == call[c].pc = pc

Top(c) == Head(call[c].stack)

\* LoadMemory returns: to the request, or to the loader around it, which goes on
\* with the value or fails with the error.
Return(x, ok) ==
    IF Len(x.stack) = 1 THEN Idle
    ELSE [x EXCEPT !.stack = Tail(@), !.pc = IF ok THEN "loading" ELSE "failing"]

-----------------------------------------------------------------------------
\* cachedObject, validateCachedGraph and cachedReachable.
Request(c, k) ==
    /\ At(c, "idle")
    /\ call' = [call EXCEPT ![c] = [Idle EXCEPT !.stack = <<k>>, !.pc = "enter"]]
    /\ UNCHANGED <<lru, bytes, fills, mode>>

\* The loader of a graph needs an object.
Nested(c, j) ==
    /\ At(c, "loading") /\ j \in Inner[Top(c)]
    /\ call' = [call EXCEPT ![c] = [@ EXCEPT !.stack = <<j>> \o @, !.pc = "enter"]]
    /\ UNCHANGED <<lru, bytes, fills, mode>>

\* The first part of LoadMemory: refuse, hit, wait for another, or load.
Enter(c) == LET k == Top(c) IN
    /\ At(c, "enter")
    /\ IF call[c].cancelled \/ mode # "up"
       THEN call' = [call EXCEPT ![c] = Return(@, FALSE)] /\ UNCHANGED <<lru, fills>>
       ELSE IF k \in ToSet(lru)
       THEN /\ lru' = <<k>> \o SelectSeq(lru, LAMBDA j : j # k)
            /\ call' = [call EXCEPT ![c] = Return(@, TRUE)] /\ UNCHANGED fills
       ELSE IF k \in fills
       THEN call' = [call EXCEPT ![c].pc = "await"] /\ UNCHANGED <<lru, fills>>
       ELSE /\ fills' = fills \cup {k}
            /\ call' = [call EXCEPT ![c].pc = "loading"] /\ UNCHANGED lru
    /\ UNCHANGED <<bytes, mode>>

AwaitCancelled(c) ==
    /\ At(c, "await") /\ call[c].cancelled
    /\ call' = [call EXCEPT ![c] = Return(@, FALSE)]
    /\ UNCHANGED <<lru, bytes, fills, mode>>

SumOf(s) == MapThenSumSet(LAMBDA k : Charge[k], ToSet(s))

\* What is left of the list when the least recently used values made room.
Kept(k) == LET N == {n \in 0 .. Len(lru) : SumOf(SubSeq(lru, 1, n)) + Charge[k] <= Limit} IN
    SubSeq(lru, 1, Max(N))

\* The result of the flight, for the caller that loaded and for those who wait:
\* one whose own context is done gets that error instead.
Results(c, ok) == LET k == Top(c) IN
    [d \in Caller |->
        IF d = c THEN Return(call[d], ok)
        ELSE IF At(d, "await") /\ Top(d) = k THEN Return(call[d], ok /\ ~ call[d].cancelled)
        ELSE call[d]]

\* The loader succeeds: the value is shared, and retained if it fits.
Retain(c) == LET k == Top(c) IN
    /\ At(c, "loading") /\ ~ call[c].cancelled /\ mode = "up"
    /\ IF Charge[k] <= Limit
       THEN lru' = <<k>> \o Kept(k) /\ bytes' = SumOf(Kept(k)) + Charge[k]
       ELSE UNCHANGED <<lru, bytes>>
    /\ fills' = fills \ {k}
    /\ call' = Results(c, TRUE)
    /\ UNCHANGED mode

\* The loader returns an error or panics, or its context is done, or the cache
\* closed while it ran.
LoadFails(c) ==
    /\ At(c, "loading") \/ At(c, "failing")
    /\ fills' = fills \ {Top(c)}
    /\ call' = Results(c, FALSE)
    /\ UNCHANGED <<lru, bytes, mode>>

Cancel(c) ==
    /\ ~ At(c, "idle") /\ ~ call[c].cancelled
    /\ call' = [call EXCEPT ![c].cancelled = TRUE]
    /\ UNCHANGED <<lru, bytes, fills, mode>>

\* Loads that this caller runs: those around the innermost, and it if it runs.
Running(c) == LET s == call[c].stack IN
    ToSet(IF At(c, "loading") \/ At(c, "failing") THEN s ELSE IF s = <<>> THEN s ELSE Tail(s))

\* Close rejects new calls and cancels the loads, then waits for them.
Close ==
    /\ mode = "up" /\ mode' = "closing"
    /\ call' = [c \in Caller |-> IF Running(c) = {} THEN call[c] ELSE [call[c] EXCEPT !.cancelled = TRUE]]
    /\ UNCHANGED <<lru, bytes, fills>>

\* Mutant: Close does not wait.
CloseDoneEarly ==
    /\ mode = "closing"
    /\ mode' = "closed" /\ lru' = <<>> /\ bytes' = 0
    /\ UNCHANGED <<fills, call>>

CloseDone ==
    /\ mode = "closing" /\ \A c \in Caller : Running(c) = {}
    /\ mode' = "closed" /\ lru' = <<>> /\ bytes' = 0
    /\ UNCHANGED <<fills, call>>

\* A new process.
Restart ==
    /\ mode = "closed" /\ (\A c \in Caller : At(c, "idle"))
    /\ mode' = "up"
    /\ UNCHANGED <<lru, bytes, fills, call>>

-----------------------------------------------------------------------------
Step(c) == Enter(c) \/ AwaitCancelled(c) \/ Retain(c) \/ LoadFails(c)

Next ==
    \/ \E c \in Caller :
        \/ \E k \in Key : Request(c, k) \/ Nested(c, k)
        \/ Step(c) \/ Cancel(c)
    \/ Close \/ CloseDone \/ Restart

Spec == Init /\ [][Next]_vars

-----------------------------------------------------------------------------
\* Every variable stays within its type.
TypeOK ==
    /\ ToSet(lru) \subseteq Key /\ IsInjective(lru)
    /\ bytes \in Nat /\ fills \subseteq Key
    /\ \A c \in Caller :
        /\ ToSet(call[c].stack) \subseteq Key /\ Len(call[c].stack) <= 2
        /\ call[c].pc \in {"idle", "enter", "await", "loading", "failing"}
        /\ (call[c].pc = "idle") = (call[c].stack = <<>>)
    /\ mode \in {"up", "closing", "closed"}

\* The memory counter is the sum of what is held, and within the budget.
BudgetExact == bytes = SumOf(lru) /\ bytes <= Limit

\* A value is loaded by one caller at a time, nested loads included, and is not
\* loaded while it is held.
OneFill ==
    /\ \A k \in Key : Cardinality({c \in Caller : k \in Running(c)}) = IF k \in fills THEN 1 ELSE 0
    /\ fills \cap ToSet(lru) = {}

\* Once Close returned nothing is held and no loader runs, and a loader that was
\* already on its way when Close began does not put its value back.
ClosedHoldsNothing == mode = "closed" => lru = <<>> /\ fills = {}

\* Nobody who waits for the load of another is forgotten, whether that load
\* succeeds, fails, is cancelled or waits itself: somebody runs it, and those who
\* wait for one another are never in a circle.
WaitersServed ==
    \A c \in Caller : At(c, "await") =>
        \E d \in Caller : Top(c) \in Running(d) /\ (At(d, "await") => Top(d) \in Inner[Top(c)])

=============================================================================
