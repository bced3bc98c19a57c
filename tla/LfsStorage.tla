----------------------------- MODULE LfsStorage -----------------------------
(***************************************************************************)
(* The Git LFS content of one repository: uploads through S3 multipart      *)
(* transfers, their reservations, the quota ledger, the verified records    *)
(* that make content discoverable, the Git pushes that publish pointers to  *)
(* it, and the collection of what nothing refers to                         *)
(* (internal/repository/lfs*.go and the LFS parts of packed.go and          *)
(* maintenance.go).                                                         *)
(*                                                                          *)
(* Each upload has a random token that names its reservation, its multipart *)
(* transfer and its payload; the model uses the upload itself as the token, *)
(* so the object that a stored reservation, payload or record describes is  *)
(* the one that its upload asked for.  Pushes and collections are tasks     *)
(* that run again and again.  A version is an ETag, hence the content.      *)
(*                                                                          *)
(* Every storage call may fail; with Faults it may also take effect and     *)
(* still report an error, and a process may crash between any two calls.    *)
(***************************************************************************)
EXTENDS Integers, FiniteSets

CONSTANTS
    Object,             \* LFS objects [oid, size] that clients name
    Genuine,            \* the ones whose size is that of the content of the oid
    Upload,             \* uploads, and the tokens they draw
    Task,               \* processes that run pushes and collections
    MaxRepositoryBytes, \* the quota
    MaxRecords,         \* maxLFSRecords
    MaxReservations,    \* maxLFSReservations
    NoOp,               \* no lock, no record
    NoLedger,           \* quota.json does not exist
    NoObject,           \* an upload that has not begun
    Faults              \* may processes crash and responses be lost?

Oid == {o.oid : o \in Object}

Actor == Upload \cup Task

ASSUME LfsAssumption ==
    /\ \A o \in Object : o.size \in Nat
    /\ Genuine \subseteq Object
    /\ \A o, p \in Genuine : o.oid = p.oid => o = p
    /\ NoOp \notin Actor
    /\ Upload \cap Task = {}
    /\ {MaxRepositoryBytes, MaxRecords, MaxReservations} \subseteq Nat
    /\ Faults \in BOOLEAN

VARIABLES
    bucket,     \* the durable LFS artifacts of the repository
    expired,    \* the uploads whose reservation is past its 24 hours
    lock,       \* the holder of the durable repository lock, or NoOp
    pc,         \* pc[op]: the next step of an operation
    then,       \* then[op]: where it goes on once it has released the lock
    request,    \* request[u]: the object that an upload announces
    quota,      \* quota[op]: the counters it has in memory
    seen,       \* seen[op]: the ledger version it has read or written last
    work,       \* work[op]: a push's pointers, or what a collection removes
    result      \* result[op]: what it reports

local == <<quota, seen, work>>

vars == <<bucket, expired, lock, pc, then, request, local, result>>

\* What is charged: payloads and reservations; quota.json keeps it with a mark.
Quota == [bytes : Nat, objects : Nat, reservations : SUBSET Upload]

Stored == [bytes : Nat, objects : Nat, reservations : SUBSET Upload, dirty : BOOLEAN]

\* multipart[u]: nothing, an upload without parts, or one that holds parts.
Bucket ==
    [ledger    : Stored \cup {NoLedger},
     uploads   : SUBSET Upload,                 \* lfs/uploads/<token>.json
     recorded  : SUBSET Upload,                 \* the ones with an upload ID
     multipart : [Upload -> {"none", "open", "parts"}],
     payloads  : SUBSET Upload,                 \* lfs/objects/<token>
     verified  : [Oid -> Upload \cup {NoOp}],   \* lfs/verified/<oid>.json
     pointers  : SUBSET Object]                 \* of all retained snapshots

NoQuota == [bytes |-> 0, objects |-> 0, reservations |-> {}]

Init ==
    /\ bucket = [ledger    |-> NoLedger,
                 uploads   |-> {},
                 recorded  |-> {},
                 multipart |-> [u \in Upload |-> "none"],
                 payloads  |-> {},
                 verified  |-> [oid \in Oid |-> NoOp],
                 pointers  |-> {}]
    /\ expired = {}
    /\ lock = NoOp
    /\ pc = [op \in Actor |-> "idle"]
    /\ then = [op \in Actor |-> "idle"]
    /\ request = [u \in Upload |-> NoObject]
    /\ quota = [op \in Actor |-> NoQuota]
    /\ seen = [op \in Actor |-> NoLedger]
    /\ work = [op \in Actor |-> {}]
    /\ result = [op \in Actor |-> "none"]

-----------------------------------------------------------------------------
(* Control: steps under the lock, error exits, deferred cleanups. *)

\* Where an operation waits for the lock, and its first step under it.
Entry == [reserve |-> "lookup", finish |-> "head", confirm |-> "recheck",
          release |-> "releaseLoad", push |-> "validate", collect |-> "mark"]

Waiting == DOMAIN Entry

Guarded == {"lookup", "admitLoad", "admit", "announce", "create", "record", "charge",
            "undoAbort", "undoDelete", "cleanup", "cleanupAbort", "cleanupDelete",
            "cleanupSave", "head", "finishLoad", "finishFence", "complete", "verify",
            "settle", "releaseLoad", "releaseFence", "releaseDelete", "releaseSave",
            "recheck", "validate", "retain", "mark", "invalidate", "delete", "rebuild",
            "unlock"}

Stopped == {"idle", "done", "crashed"}

End(op) == IF op \in Upload THEN "done" ELSE "idle"

\* Uploads report their outcome; of the tasks only corruption is remembered.
Report(op, outcome) ==
    result' = [result EXCEPT ![op] =
                  IF op \in Upload \/ outcome = "corrupt" THEN outcome ELSE @]

\* The error paths that undo something before they release the lock.
Undo == [create |-> "undoDelete", record |-> "undoAbort", charge |-> "cleanup",
         verify |-> "settle"]

\* What an upload still has to clean up after an error return of finishLFS.
ErrorExit(op) ==
    CASE pc[op] \in {"head", "finishLoad", "finishFence", "complete"} -> "abort"
      [] pc[op] = "settle" -> "release"
      [] OTHER -> End(op)

Goto(op, to) == pc' = [pc EXCEPT ![op] = to]

\* A step under the lock succeeds and goes on, or returns to its caller.
Continue(op, to) == Goto(op, to) /\ UNCHANGED <<then, result>>

Return(op, to) ==
    /\ Goto(op, "unlock")
    /\ then' = [then EXCEPT ![op] = to]
    /\ UNCHANGED result

Raise(op, outcome) ==
    /\ Report(op, outcome)
    /\ IF pc[op] \in DOMAIN Undo
       THEN Goto(op, Undo[pc[op]]) /\ UNCHANGED then
       ELSE Goto(op, "unlock") /\ then' = [then EXCEPT ![op] = ErrorExit(op)]

\* A storage call that changes the bucket to new: it may succeed, or report an
\* error although it may have taken effect.
Lost(op, new) ==
    /\ Faults
    /\ bucket' = new
    /\ Raise(op, "failed")
    /\ UNCHANGED local

Call(op, new, Success) ==
    \/ bucket' = new /\ Success /\ UNCHANGED local
    \/ Lost(op, new)

\* What an operation had in memory under the lock is gone.
Forget(op) ==
    /\ then' = [then EXCEPT ![op] = "idle"]
    /\ quota' = [quota EXCEPT ![op] = NoQuota]
    /\ seen' = [seen EXCEPT ![op] = NoLedger]
    /\ work' = [work EXCEPT ![op] = {}]

\* Any call of a step under the lock fails without effect, authorization is
\* withdrawn, or the request is cancelled.
Fail(op) ==
    /\ pc[op] \in Guarded \ {"unlock"}
    /\ Raise(op, "failed")
    /\ UNCHANGED <<bucket, expired, lock, request, local>>

-----------------------------------------------------------------------------
(* The repository lock (lockLFS retries for 30 seconds, the others do not). *)

Lock(op) ==
    /\ pc[op] \in Waiting
    /\ lock = NoOp
    /\ lock' = op
    /\ Goto(op, Entry[pc[op]])
    /\ UNCHANGED <<bucket, expired, then, request, local, result>>

\* Mutant: lockLFS polls without a limit, so that only an error ends it.
LockFailsNever(op) ==
    /\ pc[op] \in Waiting
    /\ Faults
    /\ lock' \in {lock, IF lock = NoOp THEN op ELSE lock}
    /\ Goto(op, IF pc[op] = "finish" THEN "abort" ELSE End(op))
    /\ Report(op, "failed")
    /\ work' = [work EXCEPT ![op] = {}]
    /\ UNCHANGED <<bucket, expired, then, request, quota, seen>>

\* Busy for too long, or an error; the Put may have taken effect.  The deferred
\* cleanup of an upload still has to run.
LockFails(op) ==
    /\ pc[op] \in Waiting
    /\ \/ UNCHANGED lock
       \/ Faults /\ lock = NoOp /\ lock' = op
    /\ Goto(op, IF pc[op] = "finish" THEN "abort" ELSE End(op))
    /\ Report(op, "failed")
    /\ work' = [work EXCEPT ![op] = {}]
    /\ UNCHANGED <<bucket, expired, then, request, quota, seen>>

\* The deferred Delete of the lock.  An error of it is joined to the result:
\* after reserveLFS the upload then returns at once, without any cleanup.
Unlock(op) ==
    /\ pc[op] = "unlock"
    /\ \/ /\ lock = op
          /\ lock' = NoOp
          /\ Goto(op, then[op])
          /\ UNCHANGED result
       \/ /\ Faults
          /\ lock' \in {lock, IF lock = op THEN NoOp ELSE lock}
          /\ Goto(op, IF then[op] \in {"stream", "body"} THEN End(op) ELSE then[op])
          /\ Report(op, "failed")
    /\ Forget(op)
    /\ UNCHANGED <<bucket, expired, request>>

\* UnlockMaintenance, with every process of the repository stopped.
UnlockMaintenance ==
    /\ \A op \in Actor : pc[op] \in Stopped
    /\ lock # NoOp
    /\ lock' = NoOp
    /\ UNCHANGED <<bucket, expired, pc, then, request, local, result>>

Crash(op) ==
    /\ Faults
    /\ pc[op] \notin Stopped
    /\ Goto(op, IF op \in Upload THEN "crashed" ELSE "idle")
    /\ Forget(op)
    /\ UNCHANGED <<bucket, expired, lock, request, result>>

-----------------------------------------------------------------------------
(* The quota ledger (lfs_quota.go). *)

Size(u) == request[u].size

\* The bytes of all tokens, and how many they are: the sum of the sizes.
Bytes(tokens) == UNION {{u} \X (1..Size(u)) : u \in tokens}

Charge(tokens) == Cardinality(Bytes(tokens))

\* What a reconciliation counts: every payload, and the reservations whose
\* payload is not there.
CountWith(payloads, reservations) ==
    [bytes        |-> Charge(payloads \cup reservations),
     objects      |-> Cardinality(payloads \cup reservations),
     reservations |-> reservations]

Count(b) == CountWith(b.payloads, b.uploads)

Ledger(q, dirty) ==
    [bytes |-> q.bytes, objects |-> q.objects, reservations |-> q.reservations, dirty |-> dirty]

Counters(ledger) ==
    [bytes |-> ledger.bytes, objects |-> ledger.objects, reservations |-> ledger.reservations]

\* saveLFSQuota: a conditional Put on the version known to the operation.
Save(op, q, dirty, version, Success) ==
    LET new == [bucket EXCEPT !.ledger = Ledger(q, dirty)]
    IN  IF bucket.ledger = version
        THEN \/ /\ bucket' = new
                /\ quota' = [quota EXCEPT ![op] = q]
                /\ seen' = [seen EXCEPT ![op] = new.ledger]
                /\ Success
                /\ UNCHANGED work
             \/ Lost(op, new)
        ELSE Raise(op, "failed") /\ UNCHANGED <<bucket, local>>

\* readLFSRecord and the comparison with the payload: the record of an oid
\* names a payload that exists.
Backed(oid) == bucket.verified[oid] \in bucket.payloads

Verified(oid) == bucket.verified[oid] # NoOp

Rebuild(op, version, Success) ==
    IF \A oid \in Oid : Verified(oid) => Backed(oid)
    THEN IF Count(bucket).objects <= MaxRecords /\ Cardinality(bucket.uploads) <= MaxReservations
         THEN Save(op, Count(bucket), FALSE, version, Success)
         ELSE Raise(op, "failed") /\ UNCHANGED <<bucket, local>>
    ELSE Raise(op, "corrupt") /\ UNCHANGED <<bucket, local>>

\* Mutant: a dirty ledger is used as it is.
LoadTrusting(op, to) ==
    IF bucket.ledger = NoLedger
    THEN Rebuild(op, bucket.ledger, Continue(op, to))
    ELSE /\ quota' = [quota EXCEPT ![op] = Counters(bucket.ledger)]
         /\ seen' = [seen EXCEPT ![op] = bucket.ledger]
         /\ Continue(op, to)
         /\ UNCHANGED <<bucket, work>>

\* loadLFSQuota: a missing or dirty ledger is rebuilt before it is used.
Load(op, to) ==
    IF bucket.ledger = NoLedger \/ bucket.ledger.dirty
    THEN Rebuild(op, bucket.ledger, Continue(op, to))
    ELSE /\ quota' = [quota EXCEPT ![op] = Counters(bucket.ledger)]
         /\ seen' = [seen EXCEPT ![op] = bucket.ledger]
         /\ Continue(op, to)
         /\ UNCHANGED <<bucket, work>>

\* lfsQuota.check
Admits(q, object) ==
    /\ Cardinality(q.reservations) < MaxReservations
    /\ q.objects < MaxRecords
    /\ q.bytes + object.size <= MaxRepositoryBytes

Charged(q, u) ==
    [bytes |-> q.bytes + Size(u), objects |-> q.objects + 1,
     reservations |-> q.reservations \cup {u}]

Uncharged(q, u) ==
    [bytes |-> q.bytes - Size(u), objects |-> q.objects - 1,
     reservations |-> q.reservations \ {u}]

-----------------------------------------------------------------------------
(* reserveLFS *)

\* LFSUpload with a size within the limits, by an authorized client.
Begin(u, object) ==
    /\ pc[u] = "idle"
    /\ request' = [request EXCEPT ![u] = object]
    /\ Goto(u, "reserve")
    /\ UNCHANGED <<bucket, expired, lock, then, local, result>>

\* A verified record of the same size makes the upload a retry of an old one.
Lookup(u) ==
    LET object == request[u]
    IN  /\ pc[u] = "lookup"
        /\ IF ~ Verified(object.oid) THEN Continue(u, "admitLoad")
           ELSE IF ~ Backed(object.oid) THEN Raise(u, "corrupt")
           ELSE IF request[bucket.verified[object.oid]] # object THEN Raise(u, "failed")
           ELSE Return(u, "body")
        /\ UNCHANGED <<bucket, local>>

AdmitLoad(u) == pc[u] = "admitLoad" /\ Load(u, "admit")

Admit(u) ==
    /\ pc[u] = "admit"
    /\ IF Admits(quota[u], request[u])
       THEN Save(u, quota[u], TRUE, seen[u], Continue(u, "announce"))
       ELSE Raise(u, "failed") /\ UNCHANGED <<bucket, local>>

Announce(u) ==
    /\ pc[u] = "announce"
    /\ Call(u, [bucket EXCEPT !.uploads = @ \cup {u}], Continue(u, "create"))

CreateMultipart(u) ==
    /\ pc[u] = "create"
    /\ Call(u, [bucket EXCEPT !.multipart[u] = "open"], Continue(u, "record"))

\* The reservation is written again, with the upload ID.
RecordUpload(u) ==
    /\ pc[u] = "record"
    /\ Call(u, [bucket EXCEPT !.recorded = @ \cup {u}], Continue(u, "charge"))

ChargeReservation(u) ==
    /\ pc[u] = "charge"
    /\ Save(u, Charged(quota[u], u), FALSE, seen[u], Return(u, "stream"))

\* AbortMultipart; aborting what is not there succeeds.
Aborted(u) == [bucket EXCEPT !.multipart[u] = "none"]

\* Delete of the reservation, whatever its version.
Dropped(u) == [bucket EXCEPT !.uploads = @ \ {u}, !.recorded = @ \ {u}]

\* The upload ID could not be recorded: abort, then delete the reservation.
UndoAbort(u) ==
    /\ pc[u] = "undoAbort"
    /\ Call(u, Aborted(u), Continue(u, "undoDelete"))

UndoDelete(u) ==
    /\ pc[u] = "undoDelete"
    /\ Call(u, Dropped(u), Return(u, "done"))

\* cleanupLFSInitialization: the Put of the charged ledger reported an error.
Cleanup(u) ==
    /\ pc[u] = "cleanup"
    /\ IF Counters(bucket.ledger) \in {quota[u], Charged(quota[u], u)}
       THEN Save(u, Counters(bucket.ledger), TRUE, bucket.ledger, Continue(u, "cleanupAbort"))
       ELSE Raise(u, "failed") /\ UNCHANGED <<bucket, local>>

CleanupAbort(u) ==
    /\ pc[u] = "cleanupAbort"
    /\ Call(u, Aborted(u), Continue(u, "cleanupDelete"))

CleanupDelete(u) ==
    /\ pc[u] = "cleanupDelete"
    /\ IF u \in bucket.payloads THEN Raise(u, "corrupt") /\ UNCHANGED <<bucket, local>>
       ELSE Call(u, Dropped(u), Continue(u, "cleanupSave"))

\* The ledger without the reservation, whichever of the two was stored.
CleanupSave(u) ==
    /\ pc[u] = "cleanupSave"
    /\ Save(u, IF u \in quota[u].reservations THEN Uncharged(quota[u], u) ELSE quota[u],
            FALSE, seen[u], Return(u, "done"))

-----------------------------------------------------------------------------
(* streamLFSParts, and the deferred cleanup of LFSUpload; neither has the lock. *)

\* The parts are uploaded.  Only content of the announced hash and size passes;
\* after any other body, or an error, some parts may be left.
Stream(u) ==
    LET new == [bucket EXCEPT !.multipart[u] = "parts"]
    IN  /\ pc[u] = "stream"
        /\ IF bucket.multipart[u] # "none"
           THEN \/ request[u] \in Genuine /\ bucket' = new /\ Goto(u, "finish") /\ UNCHANGED result
                \/ bucket' \in {bucket, new} /\ Goto(u, "abort") /\ Report(u, "failed")
           ELSE UNCHANGED bucket /\ Goto(u, "abort") /\ Report(u, "failed")
        /\ UNCHANGED <<then, local>>

\* A failed abort keeps the reservation, so that a collection finds the parts.
Abort(u) ==
    /\ pc[u] = "abort"
    /\ \/ bucket' = Aborted(u) /\ Goto(u, "release")
       \/ bucket' \in {bucket, Aborted(u)} /\ Goto(u, "done")
    /\ UNCHANGED <<then, result, local>>

\* verifyLFSBody: what a retry sends is compared with the object it names.
VerifyBody(u) ==
    /\ pc[u] = "body"
    /\ \/ request[u] \in Genuine /\ Goto(u, "confirm") /\ UNCHANGED result
       \/ Goto(u, "done") /\ Report(u, "failed")
    /\ UNCHANGED <<bucket, then, local>>

-----------------------------------------------------------------------------
(* finishLFS and finishExistingLFS *)

\* Mutant: a reservation that is past its lifetime, or gone, is not noticed.
HeadSkipped(u) ==
    /\ pc[u] = "head"
    /\ Continue(u, "finishLoad")
    /\ UNCHANGED <<bucket, local>>

\* The reservation must still be there, in the version that was written last.
Head(u) ==
    /\ pc[u] = "head"
    /\ IF u \in bucket.uploads \cap bucket.recorded /\ u \notin expired
       THEN Continue(u, "finishLoad")
       ELSE Raise(u, "failed")
    /\ UNCHANGED <<bucket, local>>

FinishLoad(u) == pc[u] = "finishLoad" /\ Load(u, "finishFence")

FinishFence(u) ==
    /\ pc[u] = "finishFence"
    /\ IF u \in quota[u].reservations
       THEN Save(u, quota[u], TRUE, seen[u], Continue(u, "complete"))
       ELSE Raise(u, "corrupt") /\ UNCHANGED <<bucket, local>>

\* CompleteMultipart makes the parts one object.  One of the wrong size or without
\* a version is an error after the effect too; it is not aborted (Lost, and an
\* Abort that fails).
Complete(u) ==
    /\ pc[u] = "complete"
    /\ IF bucket.multipart[u] = "parts"
       THEN Call(u, [Aborted(u) EXCEPT !.payloads = @ \cup {u}], Continue(u, "verify"))
       ELSE Raise(u, "failed") /\ UNCHANGED <<bucket, local>>

\* Mutant: the record of an earlier upload is overwritten.
PutVerifiedOverwrites(u) ==
    /\ pc[u] = "verify"
    /\ Call(u, [bucket EXCEPT !.verified[request[u].oid] = u],
            Goto(u, "settle") /\ Report(u, "ok") /\ UNCHANGED then)

\* The record of the payload, unless there is one of the same object already.
PutVerified(u) ==
    LET oid == request[u].oid
    IN  /\ pc[u] = "verify"
        /\ IF ~ Verified(oid)
           THEN Call(u, [bucket EXCEPT !.verified[oid] = u],
                     Goto(u, "settle") /\ Report(u, "ok") /\ UNCHANGED then)
           ELSE /\ IF Backed(oid) /\ request[bucket.verified[oid]] = request[u]
                   THEN Goto(u, "settle") /\ Report(u, "ok") /\ UNCHANGED then
                   ELSE Raise(u, "corrupt")
                /\ UNCHANGED <<bucket, local>>

\* The deferred Put of the clean ledger: the payload took over the charge.
Settle(u) ==
    /\ pc[u] = "settle"
    /\ Save(u, quota[u], FALSE, seen[u], Return(u, "release"))

\* Mutant: the record is not looked up again under the lock.
RecheckSkipped(u) ==
    /\ pc[u] = "recheck"
    /\ Goto(u, "unlock") /\ then' = [then EXCEPT ![u] = "done"] /\ Report(u, "ok")
    /\ UNCHANGED <<bucket, local>>

\* A retry of a verified upload: the record is looked up again, since the body
\* was read and compared without the lock.
Recheck(u) ==
    LET oid == request[u].oid
    IN  /\ pc[u] = "recheck"
        /\ IF Verified(oid) /\ Backed(oid) /\ request[bucket.verified[oid]] = request[u]
           THEN Goto(u, "unlock") /\ then' = [then EXCEPT ![u] = "done"] /\ Report(u, "ok")
           ELSE Raise(u, IF Verified(oid) THEN "corrupt" ELSE "failed")
        /\ UNCHANGED <<bucket, local>>

-----------------------------------------------------------------------------
(* releaseLFSReservation *)

ReleaseLoad(u) == pc[u] = "releaseLoad" /\ Load(u, "releaseFence")

\* A collection may have released the reservation before.
ReleaseFence(u) ==
    /\ pc[u] = "releaseFence"
    /\ IF u \in quota[u].reservations
       THEN Save(u, quota[u], TRUE, seen[u], Continue(u, "releaseDelete"))
       ELSE /\ IF u \in bucket.uploads THEN Raise(u, "corrupt") ELSE Return(u, "done")
            /\ UNCHANGED <<bucket, local>>

ReleaseDelete(u) ==
    /\ pc[u] = "releaseDelete"
    /\ Call(u, Dropped(u), Continue(u, "releaseSave"))

\* A payload that was stored stays charged.
ReleaseSave(u) ==
    LET q == IF u \in bucket.payloads THEN [quota[u] EXCEPT !.reservations = @ \ {u}]
                                      ELSE Uncharged(quota[u], u)
    IN  /\ pc[u] = "releaseSave"
        /\ Save(u, q, FALSE, seen[u], Return(u, "done"))

-----------------------------------------------------------------------------
(* The LFS part of a push: publishObjects checks, under the lock, that every *)
(* pointer it publishes has verified content, and retains a snapshot later.  *)

BeginPush(op, pointers) ==
    /\ pc[op] = "idle"
    /\ pointers # {}
    /\ Goto(op, "push")
    /\ work' = [work EXCEPT ![op] = pointers]
    /\ UNCHANGED <<bucket, expired, lock, then, request, quota, seen, result>>

\* checkLFSRecord and the size of the pointer
Validate(op) ==
    LET valid(o) == Verified(o.oid) /\ Backed(o.oid) /\ request[bucket.verified[o.oid]] = o
    IN  /\ pc[op] = "validate"
        /\ IF \A o \in work[op] : valid(o)
           THEN Continue(op, "retain")
           ELSE IF \E o \in work[op] : Verified(o.oid) /\ ~ Backed(o.oid)
                THEN Raise(op, "corrupt") ELSE Raise(op, "failed")
        /\ UNCHANGED <<bucket, local>>

\* The state snapshot is durable: whatever happens next, it is retained.
Retain(op) ==
    /\ pc[op] = "retain"
    /\ Call(op, [bucket EXCEPT !.pointers = @ \cup work[op]], Return(op, "idle"))

-----------------------------------------------------------------------------
(* The LFS part of GarbageCollect. *)

BeginCollect(op) ==
    /\ pc[op] = "idle"
    /\ Goto(op, "collect")
    /\ UNCHANGED <<bucket, expired, lock, then, request, local, result>>

\* Time: the 24 hours of a reservation are over.
Expire(u) ==
    /\ u \in bucket.uploads \ expired
    /\ expired' = expired \cup {u}
    /\ UNCHANGED <<bucket, lock, pc, then, request, local, result>>

Pointed == {o.oid : o \in bucket.pointers}

Removals == ({"abort", "uploads", "objects"} \X Upload) \cup ({"verified"} \X Oid)

\* What a collection removes: expired reservations, with the multipart upload
\* they record, the records that no snapshot points to, and the payloads that
\* neither a record nor a reservation keeps.  An artifact within the grace
\* period is kept: how old each one is, the model leaves open.
Removal(reservations, records, payloads) ==
    {<<"abort", u>> : u \in reservations \cap bucket.recorded}
        \cup ({"uploads"} \X reservations)
        \cup ({"verified"} \X records)
        \cup ({"objects"} \X payloads)

KeptPayloads(reservations, records) ==
    {bucket.verified[oid] : oid \in Oid \ records} \cup (bucket.uploads \ reservations)

\* markSnapshotLFS and prepareLFSGC
Mark(op) ==
    /\ pc[op] = "mark"
    /\ IF \A o \in bucket.pointers :
             Backed(o.oid) /\ request[bucket.verified[o.oid]] = o
       THEN \E reservations \in SUBSET (bucket.uploads \cap expired),
               records \in SUBSET {oid \in Oid \ Pointed : Verified(oid)} :
               \E payloads \in SUBSET (bucket.payloads \ KeptPayloads(reservations, records)) :
                   /\ work' = [work EXCEPT ![op] = Removal(reservations, records, payloads)]
                   /\ Continue(op, "invalidate")
                   /\ UNCHANGED <<bucket, quota, seen>>
       ELSE Raise(op, "corrupt") /\ UNCHANGED <<bucket, local>>

\* invalidateLFSQuota
Invalidate(op) ==
    /\ pc[op] = "invalidate"
    /\ Save(op, IF bucket.ledger = NoLedger THEN NoQuota ELSE Counters(bucket.ledger),
            TRUE, bucket.ledger, Continue(op, "delete"))

\* abortExpiredLFS comes first, then lfsDeletionPriority.
Priority == [abort |-> 0, uploads |-> 1, verified |-> 2, objects |-> 3]

Without(k) ==
    CASE k[1] = "abort"    -> Aborted(k[2])
      [] k[1] = "uploads"  -> Dropped(k[2])
      [] k[1] = "verified" -> [bucket EXCEPT !.verified[k[2]] = NoOp]
      [] k[1] = "objects"  -> [bucket EXCEPT !.payloads = @ \ {k[2]}]

\* One call of the collection; an error at any of them ends it.
Delete(op) ==
    /\ pc[op] = "delete"
    /\ \E k \in work[op] :
           /\ \A j \in work[op] : Priority[k[1]] <= Priority[j[1]]
           /\ \/ /\ bucket' = Without(k)
                 /\ work' = [work EXCEPT ![op] = @ \ {k}]
                 /\ UNCHANGED <<pc, then, result, quota, seen>>
              \/ Lost(op, Without(k))

Deleted(op) ==
    /\ pc[op] = "delete" /\ work[op] = {}
    /\ Continue(op, "rebuild")
    /\ UNCHANGED <<bucket, local>>

\* The ledger is counted again before the lock is released.
RebuildAfter(op) ==
    /\ pc[op] = "rebuild"
    /\ Rebuild(op, seen[op], Return(op, "idle"))

-----------------------------------------------------------------------------
Reserve(u) ==
    \/ Lookup(u) \/ AdmitLoad(u) \/ Admit(u) \/ Announce(u) \/ CreateMultipart(u)
    \/ RecordUpload(u) \/ ChargeReservation(u) \/ UndoAbort(u) \/ UndoDelete(u)
    \/ Cleanup(u) \/ CleanupAbort(u) \/ CleanupDelete(u) \/ CleanupSave(u)

Finish(u) ==
    \/ Stream(u) \/ VerifyBody(u) \/ Head(u) \/ FinishLoad(u) \/ FinishFence(u)
    \/ Complete(u) \/ PutVerified(u) \/ Settle(u) \/ Recheck(u)
    \/ Abort(u) \/ ReleaseLoad(u) \/ ReleaseFence(u) \/ ReleaseDelete(u) \/ ReleaseSave(u)

Run(op) ==
    \/ Validate(op) \/ Retain(op)
    \/ Mark(op) \/ Invalidate(op) \/ Delete(op) \/ Deleted(op) \/ RebuildAfter(op)

Start ==
    \/ \E u \in Upload, object \in Object : Begin(u, object)
    \/ \E op \in Task : BeginCollect(op) \/ \E pointers \in SUBSET Object : BeginPush(op, pointers)

Step(op) ==
    \/ Lock(op) \/ LockFails(op) \/ Unlock(op)
    \/ /\ \/ op \in Upload /\ (Reserve(op) \/ Finish(op))
          \/ op \in Task /\ Run(op)
       /\ UNCHANGED <<expired, lock, request>>

Next ==
    \/ Start
    \/ \E op \in Actor : Step(op) \/ Fail(op) \/ Crash(op)
    \/ \E u \in Upload : Expire(u)
    \/ UnlockMaintenance

Spec == Init /\ [][Next]_vars

-----------------------------------------------------------------------------
TypeOK ==
    /\ bucket \in Bucket
    /\ expired \subseteq Upload
    /\ lock \in Actor \cup {NoOp}
    /\ pc \in [Actor -> Stopped \cup Waiting \cup Guarded \cup {"stream", "body", "abort"}]
    /\ then \in [Actor -> {"idle", "done", "stream", "body", "abort", "release"}]
    /\ request \in [Upload -> Object \cup {NoObject}]
    /\ quota \in [Actor -> Quota]
    /\ seen \in [Actor -> Stored \cup {NoLedger}]
    /\ work = [op \in Actor |-> work[op]]       \* TaskInv says what it holds
    /\ result \in [Actor -> {"none", "ok", "failed", "corrupt"}]

\* Between lockRepository and its release an operation owns the lock.
LockExcludes == \A op \in Actor : pc[op] \in Guarded => lock = op

\* Content that a retained snapshot points to is verified, of the right size and
\* stored, whatever uploads, pushes and collections do and wherever they stop:
\* validateLFSPointers holds from its check on, and GarbageCollect keeps it.
PointersHaveContent ==
    \A o \in bucket.pointers :
        Backed(o.oid) /\ request[bucket.verified[o.oid]] = o /\ o \in Genuine

\* A verified record never names content that is missing or not of its hash
\* (maintenance.go: "a partial delete then leaves reclaimable objects rather
\* than records pointing at missing content").
RecordsHaveContent ==
    \A oid \in Oid : Verified(oid) =>
        LET u == bucket.verified[oid]
        IN  Backed(oid) /\ request[u].oid = oid /\ request[u] \in Genuine

\* A clean ledger counts exactly the stored payloads and the reservations
\* without one, each once: loadLFSQuota may trust it without a listing.
LedgerExact ==
    bucket.ledger # NoLedger /\ ~ bucket.ledger.dirty
        => Counters(bucket.ledger) = Count(bucket)

\* The payloads and reservations together never exceed the quota, lost
\* responses, crashes and concurrent uploads included (lfsQuota.check).
QuotaHolds ==
    /\ Charge(bucket.payloads \cup bucket.uploads) <= MaxRepositoryBytes
    /\ Cardinality(bucket.payloads \cup bucket.uploads) <= MaxRecords
    /\ Cardinality(bucket.uploads) <= MaxReservations

\* Parts that the provider stores for an unfinished upload have a reservation
\* that records their upload ID, by which a collection can abort them.
PartsReserved ==
    \A u \in Upload : bucket.multipart[u] = "parts" => u \in bucket.uploads \cap bucket.recorded

\* No operation ever meets a state that it reports as corrupt.
NothingCorrupt == \A op \in Actor : result[op] # "corrupt"

\* An upload that is acknowledged is discoverable at that moment: also a retry
\* of an old one never reports success after collection won the race.
AcknowledgedStored ==
    [][\A u \in Upload : result'[u] = "ok" /\ result[u] # "ok" =>
           bucket.verified'[request[u].oid] \in bucket.payloads']_vars

\* The record and the payload of content that a snapshot points to never
\* change: LFSOpen reads one after the other without the lock.
PointedContentStable ==
    [][\A oid \in Pointed :
           /\ bucket.verified'[oid] = bucket.verified[oid]
           /\ bucket.verified[oid] \in bucket.payloads']_vars

-----------------------------------------------------------------------------
(* Why: what an operation may rely on at each of its steps. *)

UploadSteps == {"reserve", "lookup", "admitLoad", "admit", "announce", "create", "record",
                "charge", "undoAbort", "undoDelete", "cleanup", "cleanupAbort",
                "cleanupDelete", "cleanupSave", "stream", "finish", "head", "finishLoad",
                "finishFence", "complete", "verify", "settle", "body", "confirm", "recheck",
                "abort", "release", "releaseLoad", "releaseFence", "releaseDelete",
                "releaseSave", "unlock"}

TaskSteps == {"push", "validate", "retain", "collect", "mark", "invalidate", "delete",
              "rebuild", "unlock"}

\* At step s, or about to go there with the lock released.
Bound(op, s) == pc[op] = s \/ (pc[op] = "unlock" /\ then[op] = s)

\* The token of an upload names nothing before the reservation is written.
Fresh(u) ==
    /\ u \notin bucket.uploads \cup bucket.recorded \cup bucket.payloads
    /\ bucket.multipart[u] = "none"

TokenInv(u) ==
    /\ pc[u] \in UploadSteps \cup Stopped
    /\ pc[u] = "unlock" => then[u] # "idle"
    /\ pc[u] = "idle" \/ request[u] \in Object
    /\ pc[u] \in {"idle", "reserve", "lookup", "admitLoad", "admit", "announce"} => Fresh(u)
    /\ pc[u] \in {"create", "record", "charge", "cleanup", "cleanupAbort", "cleanupDelete",
                  "finishLoad", "finishFence", "complete", "verify", "releaseDelete"}
           => u \in bucket.uploads
    /\ pc[u] \in {"create", "record", "charge", "undoAbort", "undoDelete", "cleanup",
                  "cleanupAbort", "cleanupDelete", "cleanupSave"}
           => u \notin bucket.payloads /\ bucket.multipart[u] # "parts"
    /\ pc[u] = "verify" => u \in bucket.payloads
    /\ pc[u] \in {"cleanupSave", "releaseSave"} => u \notin bucket.uploads

\* Parts are only sent while the reservation and its upload ID are stored, and
\* the reservation is only removed after the parts.
PartsInv(u) ==
    /\ bucket.multipart[u] # "none" /\ Bound(u, "stream")
           => u \in bucket.uploads \cap bucket.recorded
    /\ pc[u] = "charge" => u \in bucket.recorded
    /\ pc[u] \in {"verify", "settle", "releaseLoad", "releaseFence", "releaseDelete",
                  "releaseSave"}
           => bucket.multipart[u] = "none"
    /\ Bound(u, "release") => bucket.multipart[u] = "none"

\* The content of an upload was compared with its name.
ContentInv(u) ==
    pc[u] \in {"finish", "head", "finishLoad", "finishFence", "complete", "verify", "settle",
               "confirm", "recheck"}
        => request[u] \in Genuine

\* The counters that an upload has in memory differ from the bucket by its own
\* charge at most, and the ledger is dirty while it changes what is charged.
QuotaInv(u) ==
    LET with(reservations) == CountWith(bucket.payloads, reservations)
    IN  /\ pc[u] \in {"admit", "announce", "finishFence", "complete", "verify", "settle",
                      "releaseFence", "releaseDelete"}
               => quota[u] = Count(bucket)
        /\ pc[u] \in {"create", "record", "charge", "cleanup"}
               => quota[u] = with(bucket.uploads \ {u})
        /\ pc[u] \in {"cleanupAbort", "cleanupDelete"}
               => quota[u] \in {with(bucket.uploads \ {u}), with(bucket.uploads)}
        /\ pc[u] = "cleanupSave"
               => quota[u] \in {with(bucket.uploads), with(bucket.uploads \cup {u})}
        /\ pc[u] = "releaseSave" => quota[u] = with(bucket.uploads \cup {u})
        /\ pc[u] = "announce" => Admits(quota[u], request[u])

Dirty == bucket.ledger # NoLedger => bucket.ledger.dirty

DirtyInv(op) ==
    pc[op] \in {"announce", "create", "record", "undoAbort", "undoDelete", "cleanupAbort",
                "cleanupDelete", "releaseDelete", "delete"} => Dirty

\* What a push has checked still holds, and what a collection removes is not
\* needed: no pointer, no record that stays, no parts.
TaskInv(op) ==
    /\ pc[op] \in TaskSteps \cup Stopped
    /\ pc[op] = "unlock" => then[op] = "idle"
    /\ pc[op] \in {"push", "validate", "retain"} => work[op] \subseteq Object
    /\ pc[op] = "retain" =>
           \A o \in work[op] :
               Backed(o.oid) /\ request[bucket.verified[o.oid]] = o /\ o \in Genuine
    /\ pc[op] \in {"invalidate", "delete"} =>
           /\ work[op] \subseteq Removals
           /\ \A oid \in Oid : <<"verified", oid>> \in work[op] => oid \notin Pointed
           /\ \A u \in Upload, oid \in Oid :
                  <<"objects", u>> \in work[op] /\ bucket.verified[oid] = u
                      => <<"verified", oid>> \in work[op]
           /\ \A u \in Upload :
                  <<"uploads", u>> \in work[op] /\ u \in bucket.recorded
                      => <<"abort", u>> \in work[op] \/ bucket.multipart[u] = "none"

Finite ==
    LET held == bucket.payloads \cup bucket.uploads
    IN  IsFiniteSet(held) /\ IsFiniteSet(Bytes(held))

\* The safety properties together, and what makes them inductive: every step of
\* an upload, a push or a collection finds what the step before it left.
LfsInv ==
    /\ TypeOK /\ LockExcludes /\ Finite
    /\ RecordsHaveContent /\ PointersHaveContent /\ PartsReserved /\ NothingCorrupt
    /\ LedgerExact /\ QuotaHolds
    /\ \A op \in Actor : DirtyInv(op)
    /\ \A u \in Upload : TokenInv(u) /\ PartsInv(u) /\ ContentInv(u) /\ QuotaInv(u)
    /\ \A op \in Task : TaskInv(op)

-----------------------------------------------------------------------------
(* Progress.  The storage calls answer, and lockLFS gives up after 30 seconds. *)

\* Every upload comes to its end, the deferred cleanups included.
UploadEnds == \A u \in Upload : pc[u] # "idle" ~> pc[u] \in Stopped

=============================================================================
