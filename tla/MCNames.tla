------------------------------ MODULE MCNames ------------------------------
(* Names, of two kinds and one at a time: those of the repositories in a        *)
(* namespace, and the usernames that a group shows.                             *)
EXTENDS RepositoryCreation, TLC

CONSTANTS c1, c2, c3, a, b, p1, p2, NoUser

VARIABLES
    bound, roster, cache, stamp, now, proc, vouched,    \* GroupUsernames
    side

usernameVars == <<bound, roster, cache, stamp, now, proc, vouched>>

\* Three names whose keys sort in another order than the names do.
MCName == 1 .. 3
MCKeyRank == <<3, 1, 2>>

\* A founder and one other user, who may claim two usernames on two shards.
Users == INSTANCE GroupUsernames WITH
    User <- {a, b}, Username <- 1 .. 3, Shard <- {0, 1}, Reachable <- {0, 1},
    ShardOf <- [n \in 1 .. 3 |-> n % 2],
    SessionName <- [u \in {a, b} |-> IF u = a THEN 1 ELSE 2],
    Founder <- a, Process <- {p1, p2}, Attempts <- 2, Lifetime <- 1, MaxTime <- 1,
    MaxWrites <- 2, Counted <- TRUE

ASSUME Instance == Users!UsernamesAssumption

Symmetric == Permutations({c1, c2, c3}) \cup Permutations({p1, p2})

\* Bound: one of the repositories gets a README.  The side that is not looked at
\* is in some initial state.
MCInit ==
    /\ side \in {"repositories", "usernames"} /\ Init /\ Users!Init
    /\ Cardinality({c \in Creator : call[c].readme}) <= 1
    /\ side = "usernames" => \A c \in Creator : call[c].name = 1 /\ ~call[c].readme

MCNext ==
    /\ \/ side = "repositories" /\ Next /\ UNCHANGED usernameVars
       \/ side = "usernames" /\ Users!Next /\ UNCHANGED vars
    /\ UNCHANGED side

MCSpec == MCInit /\ [][MCNext]_<<vars, usernameVars, side>>

-----------------------------------------------------------------------------
\* The cache of a group gives each user a name that this user claimed, and can
\* always be loaded again (GroupUsernames).
CacheTrue == side = "usernames" => Users!CacheTrue

\* The alias that was saved for an invited user stays as long as the user is
\* invited or a member (GroupUsernames).
AliasKept == side = "usernames" => Users!AliasKept
=============================================================================
