---------------------------- MODULE MCLfsStorage ----------------------------
(* One content, also announced with a wrong size. *)
EXTENDS LfsStorage, TLC

CONSTANTS a, u1, u2, t1

SmallA == [oid |-> a, size |-> 1]
WrongA == [oid |-> a, size |-> 2]

OneObject == {SmallA}
WithWrong == {SmallA, WrongA}

UploadSymmetry == Permutations(Upload)

\* Bound: one upload announces the wrong size, one crashes, one expires, and a
\* push has one pointer.
OneEach ==
    /\ \A u, v \in Upload : request[u] = WrongA /\ request[v] = WrongA => u = v
    /\ \A u, v \in Upload : pc[u] = "crashed" /\ pc[v] = "crashed" => u = v
    /\ \A u, v \in expired : u = v
    /\ \A op \in Task : pc[op] = "push" => work[op] \in {{SmallA}, {WrongA}}

MCNext == Next /\ OneEach'

MCSpec == Init /\ [][MCNext]_vars
=============================================================================
