----------------------- MODULE MCRepositoryPublication -----------------------
(* A small repository: a README commit and a commit on top of it. *)
EXTENDS RepositoryPublication, TLC

CONSTANTS readme, commit, main, op1, op2, op3

CommitLinks == readme :> {} @@ commit :> {readme}

OpSymmetry == Permutations(Op)

Running(k) == {op \in Op : kind[op] = k /\ pc[op] # "idle"}

\* Bound: one reader, one repack and one restore, and a crash of one operation.
OneEach ==
    /\ \A k \in {"read", "repack", "restore"} : \A op, o \in Running(k) : op = o
    /\ \A op, o \in Op : pc[op] = "crashed" /\ pc[o] = "crashed" => op = o

MCNext == Next /\ OneEach'

MCSpec == Init /\ [][MCNext]_vars
=============================================================================
