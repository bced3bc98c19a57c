-------------------------- MODULE MCRepositoryLock --------------------------
(* Two Git operations on two branches, of which one is a directory of the      *)
(* other, and one upload that announces the right or a wrong size.             *)
EXTENDS RepositoryLock, TLC

CONSTANTS readme, commit, main, other, op1, op2, a, u1

CommitLinks == readme :> {} @@ commit :> {readme}

\* refs/heads/main and refs/heads/main/other
Nested == {<<main, other>>}

Small == [oid |-> a, size |-> 1]
Wrong == [oid |-> a, size |-> 2]

Announced == {Small, Wrong}
Right == {Small}

\* Bound: two of the three begin.
TwoBegin == upload[u1] = "idle" \/ \E op \in Op : pc[op] = "idle"

TwoNext == LockNext /\ TwoBegin'

TwoSpec == LockInit /\ [][TwoNext]_lockVars /\ LockFairness
=============================================================================
