--------------------------- MODULE RepositoryLock ---------------------------
(***************************************************************************)
(* Git operations and LFS uploads of one repository, which meet in its one  *)
(* durable lock (repository/maintenance_lock.go): RepositoryPublication and *)
(* LfsStorage side by side, with the lock in common.  Git operations take   *)
(* it or give up at once, uploads wait for it for a while.                  *)
(***************************************************************************)
EXTENDS RepositoryPublication

CONSTANTS
    LfsObject,          \* Object of LfsStorage
    Genuine,
    Upload,
    MaxRepositoryBytes,
    MaxRecords,
    MaxReservations,
    NoLedger

VARIABLES bucket, expired, upload, then, request, quota, seen, removal, report

LFS == INSTANCE LfsStorage WITH
    Object <- LfsObject,
    Task   <- {},        \* the pushes and collections are those of Op
    pc     <- upload,
    work   <- removal,
    result <- report

gitVars == <<state, store, pc, kind, base, updates, next, work, result, landed>>

lfsVars == <<bucket, expired, upload, then, request, quota, seen, removal, report>>

lockVars == <<gitVars, lock, lfsVars>>

LockInit == Init /\ LFS!Init

\* The operator runs collection again, as often as they like: GarbageCollect
\* with a lock token of its own.
CollectAgain(op) ==
    /\ kind[op] = "collect"
    /\ Goto(op, "done", "pinned")
    /\ base' = [base EXCEPT ![op] = state]
    /\ Report(op, "none")
    /\ UNCHANGED <<state, store, lock, kind, updates, next, work, landed>>

LockNext ==
    \/ /\ \E op \in Op : Prepare(op) \/ Step(op) \/ Mishap(op) \/ CollectAgain(op)
       /\ UNCHANGED lfsVars
    \/ /\ \/ LFS!Start
          \/ \E u \in Upload : LFS!Step(u) \/ LFS!Fail(u) \/ LFS!Expire(u)
       /\ UNCHANGED gitVars

\* As in the two modules: whoever has begun goes on.
LockFairness ==
    /\ \A op \in Op : WF_lockVars((Load(op) \/ Step(op)) /\ UNCHANGED lfsVars)
    /\ \A u \in Upload : WF_lockVars(LFS!Step(u) /\ UNCHANGED gitVars)

LockSpec == LockInit /\ [][LockNext]_lockVars /\ LockFairness

-----------------------------------------------------------------------------
\* Between taking and releasing the lock an upload is alone, and so is a Git
\* operation: what either does under the lock cannot meet the other, although
\* they take it, wait for it and give it up in different ways.
OneAtATime ==
    /\ \A op \in Op : pc[op] \in Guarded => lock = op
    /\ \A u \in Upload : upload[u] \in LFS!Guarded => lock = u

\* So each reports what it did: without lost responses, an error of a Git
\* operation means that nothing was published (publishObjects).
LockSound == OneAtATime /\ ReportsTruth

\* Every upload comes to its end, deferred cleanups included, although a
\* collection may take the lock whenever it is free, again and again: the upload
\* need not ever find it free when it looks, and lockLFS gives up in the end.
UploadEnds == LFS!UploadEnds

=============================================================================
