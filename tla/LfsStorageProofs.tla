--------------------------- MODULE LfsStorageProofs ---------------------------
(* Proofs that LFS content is complete, intact and within its quota, for any   *)
(* number of uploads, pushes and collections, whatever fails between them.     *)
EXTENDS LfsStorage, TLAPS

-----------------------------------------------------------------------------
(* What a collection removes. *)

\* The artifacts a collection may remove.
LEMMA RemovalKinds ==
    ASSUME NEW k \in Removals
    PROVE  \/ \E v \in Upload : k = <<"abort", v>> \/ k = <<"uploads", v>> \/ k = <<"objects", v>>
           \/ \E id \in Oid : k = <<"verified", id>>
<1>1. CASE k \in {"abort", "uploads", "objects"} \X Upload
  BY <1>1
<1>2. CASE k \in {"verified"} \X Oid
  BY <1>2
<1> QED BY Zenon, <1>1, <1>2 DEF Removals

\* What Removal makes of the reservations, records and payloads it is given.
LEMMA RemovalNames ==
    ASSUME NEW reservations, NEW records, NEW payloads, NEW x
    PROVE  /\ <<"abort", x>> \in Removal(reservations, records, payloads)
                  <=> x \in reservations \cap bucket.recorded
           /\ <<"uploads", x>> \in Removal(reservations, records, payloads) <=> x \in reservations
           /\ <<"verified", x>> \in Removal(reservations, records, payloads) <=> x \in records
           /\ <<"objects", x>> \in Removal(reservations, records, payloads) <=> x \in payloads
BY Zenon DEF Removal

\* What it makes of them is named by uploads and object names.
LEMMA RemovalTyped ==
    ASSUME NEW reservations \in SUBSET Upload, NEW records \in SUBSET Oid,
           NEW payloads \in SUBSET Upload
    PROVE  Removal(reservations, records, payloads) \subseteq Removals
BY DEF Removal, Removals

\* The order of a collection: parts are aborted before the reservation
\* that records them goes, and records go before payloads.
LEMMA RemovalOrder ==
    ASSUME NEW w, NEW k \in w, \A j \in w : Priority[k[1]] <= Priority[j[1]], NEW v, NEW x
    PROVE  /\ k = <<"uploads", v>> => <<"abort", x>> \notin w
           /\ k = <<"objects", v>> => <<"verified", x>> \notin w
<1>1. /\ Priority["abort"] < Priority["uploads"] /\ Priority["verified"] < Priority["objects"]
      /\ \A kind \in DOMAIN Priority : Priority[kind] \in Int
  BY DEF Priority
<1>2. ASSUME k = <<"uploads", v>>, <<"abort", x>> \in w
      PROVE  FALSE
  BY <1>1, <1>2 DEF Priority
<1>3. ASSUME k = <<"objects", v>>, <<"verified", x>> \in w
      PROVE  FALSE
  BY <1>1, <1>3 DEF Priority
<1> QED BY Zenon, <1>2, <1>3

-----------------------------------------------------------------------------
(* What a step may do to records, pointers and reports. *)

\* No upload is acknowledged, no record changes and no pointer goes.
Silent == \A u \in Upload : result'[u] = "ok" => result[u] = "ok"

Steady == bucket'.verified = bucket.verified /\ bucket.pointers \subseteq bucket'.pointers

\* An error or no report at all acknowledges nothing.
LEMMA ReportSilent ==
    ASSUME LfsInv, NEW op \in Actor, NEW outcome \in {"failed", "corrupt"},
           Raise(op, outcome) \/ Report(op, outcome) \/ UNCHANGED result
    PROVE  Silent
BY Zenon DEF LfsInv, TypeOK, Raise, Report, Silent, Actor

\* Only PutVerified, Recheck and Delete acknowledge an upload, change a record or
\* remove a pointer; the named steps go through the other actions.
LEMMA PlainSteps ==
    ASSUME LfsInv, [Next]_vars,
           \A u \in Upload : ~ (PutVerified(u) \/ Recheck(u)),
           \A op \in Task : ~ Delete(op)
    PROVE  Silent /\ Steady

<1>SavePlain.
    ASSUME NEW op \in Actor, NEW q, NEW dirty, NEW version, NEW to,
           \/ Save(op, q, dirty, version, Continue(op, to))
           \/ Save(op, q, dirty, version, Return(op, to))
    PROVE  Silent /\ Steady
  <2> USE <1>SavePlain
  <2>1. /\ UNCHANGED result \/ Raise(op, "failed")
        /\ bucket' = bucket \/ bucket' = [bucket EXCEPT !.ledger = Ledger(q, dirty)]
    BY Zenon DEF Save, Continue, Return, Lost
  <2>2. bucket \in Bucket
    BY Zenon DEF LfsInv, TypeOK
  <2> QED BY Zenon, <2>1, <2>2, ReportSilent DEF Steady, Bucket

<1>RebuildPlain.
    ASSUME NEW op \in Actor, NEW version, NEW to,
           Rebuild(op, version, Continue(op, to)) \/ Rebuild(op, version, Return(op, to))
    PROVE  Silent /\ Steady
  <2> USE <1>RebuildPlain
  <2>1. \/ Save(op, Count(bucket), FALSE, version, Continue(op, to))
        \/ Save(op, Count(bucket), FALSE, version, Return(op, to))
        \/ Raise(op, "failed") /\ UNCHANGED bucket
        \/ Raise(op, "corrupt") /\ UNCHANGED bucket
    BY ZenonT(30) DEF Rebuild
  <2> QED BY ZenonT(30), <2>1, <1>SavePlain, ReportSilent DEF Steady

<1>LoadPlain.
    ASSUME NEW op \in Actor, NEW to, Load(op, to)
    PROVE  Silent /\ Steady
  <2> USE <1>LoadPlain
  <2>1. \/ Rebuild(op, bucket.ledger, Continue(op, to))
        \/ Continue(op, to) /\ UNCHANGED bucket
    BY Zenon DEF Load
  <2> QED BY Zenon, <2>1, <1>RebuildPlain, ReportSilent DEF Steady, Continue

<1>CallPlain.
    ASSUME NEW op \in Actor, NEW new, NEW to,
           new.verified = bucket.verified, bucket.pointers \subseteq new.pointers,
           Call(op, new, Continue(op, to)) \/ Call(op, new, Return(op, to))
    PROVE  Silent /\ Steady
  <2> USE <1>CallPlain
  <2>1. bucket' = new /\ (UNCHANGED result \/ Raise(op, "failed"))
    BY Zenon DEF Call, Continue, Return, Lost
  <2> QED BY Zenon, <2>1, ReportSilent DEF Steady

\* reserveLFS
<1>ReservePlain.
    ASSUME NEW u \in Upload, Reserve(u)
    PROVE  Silent /\ Steady
  <2> USE <1>ReservePlain
  <2>1. u \in Actor /\ bucket \in Bucket
    BY Zenon DEF LfsInv, TypeOK, Actor
  <2>2. CASE Lookup(u)
    <3>1. UNCHANGED bucket /\ (UNCHANGED result \/ Raise(u, "failed") \/ Raise(u, "corrupt"))
      BY Zenon, <2>2 DEF Lookup, Continue, Return
    <3> QED BY Zenon, <2>1, <3>1, ReportSilent DEF Steady
  <2>3. CASE AdmitLoad(u)
    BY Zenon, <2>1, <2>3, <1>LoadPlain DEF AdmitLoad
  <2>4. CASE Admit(u)
    <3>1. \/ Save(u, quota[u], TRUE, seen[u], Continue(u, "announce"))
          \/ Raise(u, "failed") /\ UNCHANGED bucket
      BY Zenon, <2>4 DEF Admit
    <3> QED BY ZenonT(30), <2>1, <3>1, <1>SavePlain, ReportSilent DEF Steady
  <2>5. CASE ChargeReservation(u)
    BY ZenonT(30), <2>1, <2>5, <1>SavePlain DEF ChargeReservation
  <2>6. CASE Cleanup(u)
    <3>1. \/ Save(u, Counters(bucket.ledger), TRUE, bucket.ledger, Continue(u, "cleanupAbort"))
          \/ Raise(u, "failed") /\ UNCHANGED bucket
      BY Zenon, <2>6 DEF Cleanup
    <3> QED BY Zenon, <2>1, <3>1, <1>SavePlain, ReportSilent DEF Steady
  <2>7. CASE CleanupSave(u)
    BY Zenon, <2>1, <2>7, <1>SavePlain DEF CleanupSave
  <2>8. CASE Announce(u) \/ CreateMultipart(u) \/ RecordUpload(u)
    <3>1. PICK new \in {[bucket EXCEPT !.uploads = @ \cup {u}],
                        [bucket EXCEPT !.multipart[u] = "open"],
                        [bucket EXCEPT !.recorded = @ \cup {u}]} :
              \E to \in {"create", "record", "charge"} : Call(u, new, Continue(u, to))
      BY Zenon, <2>8 DEF Announce, CreateMultipart, RecordUpload
    <3>2. new.verified = bucket.verified /\ new.pointers = bucket.pointers
      BY Zenon, <2>1, <3>1 DEF Bucket
    <3> QED BY Zenon, <2>1, <3>1, <3>2, <1>CallPlain
  <2>9. CASE UndoAbort(u) \/ UndoDelete(u) \/ CleanupAbort(u) \/ CleanupDelete(u)
    <3>1. PICK new \in {Aborted(u), Dropped(u)} :
              \/ \E to \in {"undoDelete", "cleanupDelete", "cleanupSave"} :
                     Call(u, new, Continue(u, to))
              \/ Call(u, new, Return(u, "done"))
              \/ Raise(u, "corrupt") /\ UNCHANGED bucket
      BY ZenonT(30), <2>9 DEF UndoAbort, UndoDelete, CleanupAbort, CleanupDelete
    <3>2. /\ Aborted(u).verified = bucket.verified /\ Aborted(u).pointers = bucket.pointers
          /\ Dropped(u).verified = bucket.verified /\ Dropped(u).pointers = bucket.pointers
      BY Zenon, <2>1 DEF Aborted, Dropped, Bucket
    <3>3. new.verified = bucket.verified /\ new.pointers = bucket.pointers
      BY Zenon, <3>1, <3>2
    <3> QED BY ZenonT(30), <2>1, <3>1, <3>3, <1>CallPlain, ReportSilent DEF Steady
  <2> QED BY Zenon, <2>2, <2>3, <2>4, <2>5, <2>6, <2>7, <2>8, <2>9 DEF Reserve

\* finishLFS and releaseLFSReservation, but for the steps that acknowledge.
<1>FinishPlain.
    ASSUME NEW u \in Upload, Finish(u), ~ PutVerified(u), ~ Recheck(u)
    PROVE  Silent /\ Steady
  <2> USE <1>FinishPlain
  <2>1. u \in Actor /\ bucket \in Bucket
    BY Zenon DEF LfsInv, TypeOK, Actor
  <2>2. CASE Stream(u) \/ VerifyBody(u) \/ Abort(u) \/ Head(u)
    <3>1. /\ UNCHANGED result \/ Report(u, "failed") \/ Raise(u, "failed")
          /\ bucket' \in {bucket, [bucket EXCEPT !.multipart[u] = "parts"], Aborted(u)}
      BY Zenon, <2>2 DEF Stream, VerifyBody, Abort, Head, Continue
    <3>2. /\ Aborted(u).verified = bucket.verified /\ Aborted(u).pointers = bucket.pointers
          /\ [bucket EXCEPT !.multipart[u] = "parts"].verified = bucket.verified
          /\ [bucket EXCEPT !.multipart[u] = "parts"].pointers = bucket.pointers
      BY Zenon, <2>1 DEF Aborted, Bucket
    <3>3. Steady
      BY ZenonT(30), <3>1, <3>2 DEF Steady
    <3> QED BY Zenon, <2>1, <3>1, <3>3, ReportSilent
  <2>3. CASE FinishLoad(u) \/ ReleaseLoad(u)
    BY Zenon, <2>1, <2>3, <1>LoadPlain DEF FinishLoad, ReleaseLoad
  <2>4. CASE FinishFence(u) \/ ReleaseFence(u)
    <3>1. \/ \E to \in {"complete", "releaseDelete"} :
                 Save(u, quota[u], TRUE, seen[u], Continue(u, to))
          \/ UNCHANGED bucket /\ (Raise(u, "corrupt") \/ UNCHANGED result)
      BY Zenon, <2>4 DEF FinishFence, ReleaseFence, Return
    <3> QED BY Zenon, <2>1, <3>1, <1>SavePlain, ReportSilent DEF Steady
  <2>5. CASE Settle(u) \/ ReleaseSave(u)
    BY ZenonT(30), <2>1, <2>5, <1>SavePlain DEF Settle, ReleaseSave
  <2>6. CASE Complete(u)
    <3> DEFINE new == [Aborted(u) EXCEPT !.payloads = @ \cup {u}]
    <3>1. \/ Call(u, new, Continue(u, "verify"))
          \/ Raise(u, "failed") /\ UNCHANGED bucket
      BY Zenon, <2>6 DEF Complete
    <3>2. new.verified = bucket.verified /\ new.pointers = bucket.pointers
      BY Zenon, <2>1 DEF Aborted, Bucket
    <3> HIDE DEF new
    <3> QED BY ZenonT(30), <2>1, <3>1, <3>2, <1>CallPlain, ReportSilent DEF Steady
  <2>7. CASE ReleaseDelete(u)
    <3>1. Dropped(u).verified = bucket.verified /\ Dropped(u).pointers = bucket.pointers
      BY Zenon, <2>1 DEF Dropped, Bucket
    <3> QED BY ZenonT(30), <2>1, <2>7, <3>1, <1>CallPlain DEF ReleaseDelete
  <2> QED BY Zenon, <2>2, <2>3, <2>4, <2>5, <2>6, <2>7 DEF Finish

\* A push, and a collection but for its removals.
<1>RunPlain.
    ASSUME NEW op \in Task, Run(op), ~ Delete(op)
    PROVE  Silent /\ Steady
  <2> USE <1>RunPlain
  <2>1. op \in Actor /\ bucket \in Bucket
    BY Zenon DEF LfsInv, TypeOK, Actor
  <2>2. CASE Validate(op) \/ Mark(op) \/ Deleted(op)
    <3>1. UNCHANGED bucket /\ (UNCHANGED result \/ Raise(op, "failed") \/ Raise(op, "corrupt"))
      BY ZenonT(30), <2>2 DEF Validate, Mark, Deleted, Continue
    <3> QED BY Zenon, <2>1, <3>1, ReportSilent DEF Steady
  <2>3. CASE Retain(op)
    <3> DEFINE new == [bucket EXCEPT !.pointers = @ \cup work[op]]
    <3>1. Call(op, new, Return(op, "idle"))
      BY Zenon, <2>3 DEF Retain
    <3>2. new.verified = bucket.verified /\ bucket.pointers \subseteq new.pointers
      BY Zenon, <2>1 DEF Bucket
    <3> HIDE DEF new
    <3> QED BY Zenon, <2>1, <3>1, <3>2, <1>CallPlain
  <2>4. CASE Invalidate(op)
    BY ZenonT(30), <2>1, <2>4, <1>SavePlain DEF Invalidate
  <2>5. CASE RebuildAfter(op)
    BY Zenon, <2>1, <2>5, <1>RebuildPlain DEF RebuildAfter
  <2> QED BY Zenon, <2>2, <2>3, <2>4, <2>5 DEF Run
<1>1. CASE UNCHANGED vars
  BY Zenon, <1>1 DEF vars, Silent, Steady
<1>2. CASE Start
  BY ZenonT(30), <1>2 DEF Start, Begin, BeginCollect, BeginPush, Silent, Steady
<1>3. ASSUME NEW op \in Actor, Step(op) PROVE Silent /\ Steady
  <2>1. CASE Lock(op) \/ LockFails(op) \/ Unlock(op)
    <3>1. UNCHANGED bucket /\ (UNCHANGED result \/ Report(op, "failed"))
      BY ZenonT(30), <2>1 DEF Lock, LockFails, Unlock
    <3> QED BY Zenon, <3>1, ReportSilent DEF Steady
  <2> QED BY Zenon, <1>3, <2>1, <1>ReservePlain, <1>FinishPlain, <1>RunPlain DEF Step
<1>4. ASSUME NEW op \in Actor, Fail(op) \/ Crash(op) PROVE Silent /\ Steady
  <2>1. UNCHANGED bucket /\ (UNCHANGED result \/ Raise(op, "failed"))
    BY Zenon, <1>4 DEF Fail, Crash
  <2> QED BY Zenon, <2>1, ReportSilent DEF Steady
<1>5. CASE UnlockMaintenance \/ \E u \in Upload : Expire(u)
  BY Zenon, <1>5 DEF UnlockMaintenance, Expire, Silent, Steady
<1> QED BY Zenon, <1>1, <1>2, <1>3, <1>4, <1>5 DEF Next

\* The steps that write or read the record of an upload.
LEMMA AcknowledgeStep ==
    ASSUME LfsInv, NEW u \in Upload, PutVerified(u) \/ Recheck(u)
    PROVE  /\ \A v \in Upload \ {u} : result'[v] = result[v]
           /\ result'[u] = "ok" => bucket'.verified[request[u].oid] \in bucket'.payloads
           /\ bucket'.pointers = bucket.pointers
           /\ \A oid \in Oid : Verified(oid) => bucket'.verified[oid] = bucket.verified[oid]
<1> DEFINE oid == request[u].oid
           new == [bucket EXCEPT !.verified[oid] = u]
<1>1. u \in Actor /\ bucket \in Bucket /\ result \in [Actor -> {"none", "ok", "failed", "corrupt"}]
  BY Zenon DEF LfsInv, TypeOK, Actor
<1>2. pc[u] \in {"verify", "recheck"} /\ request[u] \in Genuine /\ oid \in Oid
  <2>1. pc[u] \in {"verify", "recheck"}
    BY Zenon DEF PutVerified, Recheck
  <2>2. request[u] \in Genuine
    BY Zenon, <2>1 DEF LfsInv, ContentInv
  <2> QED BY Zenon, <2>1, <2>2, LfsAssumption DEF Oid
<1>3. /\ new.verified[oid] = u /\ new.payloads = bucket.payloads /\ new.pointers = bucket.pointers
      /\ \A other \in Oid \ {oid} : new.verified[other] = bucket.verified[other]
  BY Zenon, <1>1, <1>2 DEF Bucket
<1>4. \E outcome \in {"ok", "failed", "corrupt"} : result' = [result EXCEPT ![u] = outcome]
  BY Zenon DEF PutVerified, Recheck, Call, Lost, Raise, Report
<1>5. /\ \A v \in Upload \ {u} : result'[v] = result[v]
      /\ Raise(u, "failed") => result'[u] = "failed"
      /\ Raise(u, "corrupt") => result'[u] = "corrupt"
  BY ZenonT(30), <1>1, <1>4 DEF Actor, Raise, Report
<1>6. CASE PutVerified(u) /\ ~ Verified(oid)
  <2>1. pc[u] = "verify" /\ bucket' = new
    BY Zenon, <1>6 DEF PutVerified, Call, Lost
  <2>2. u \in bucket.payloads
    BY Zenon, <2>1 DEF LfsInv, TokenInv
  <2> HIDE DEF oid, new
  <2>3. \A other \in Oid : Verified(other) => bucket'.verified[other] = bucket.verified[other]
    BY Zenon, <1>3, <1>6, <2>1
  <2> QED BY ZenonT(30), <1>3, <1>5, <2>1, <2>2, <2>3 DEF oid
<1>7. CASE Recheck(u) \/ Verified(oid)
  <2>1. /\ bucket' = bucket
        /\ (Verified(oid) /\ Backed(oid)) \/ Raise(u, "failed") \/ Raise(u, "corrupt")
    BY Zenon, <1>7 DEF PutVerified, Recheck
  <2> QED BY Zenon, <1>5, <2>1 DEF Backed
<1> QED BY ZenonT(30), <1>6, <1>7

\* A collection removes no record that a snapshot points to.
LEMMA DeleteStep ==
    ASSUME LfsInv, NEW op \in Task, Delete(op)
    PROVE  /\ Silent /\ bucket'.pointers = bucket.pointers
           /\ \A oid \in Pointed : bucket'.verified[oid] = bucket.verified[oid]
<1>1. op \in Actor /\ bucket \in Bucket /\ TaskInv(op) /\ pc[op] = "delete"
  BY Zenon DEF LfsInv, TypeOK, Actor, Delete
<1>2. PICK k \in work[op] : bucket' = Without(k) /\ (UNCHANGED result \/ Raise(op, "failed"))
  BY ZenonT(30) DEF Delete, Lost
<1>3. Silent
  BY Zenon, <1>1, <1>2, ReportSilent
<1>4. k \in Removals /\ \A oid \in Oid : k = <<"verified", oid>> => oid \notin Pointed
  BY ZenonT(30), <1>1, <1>2 DEF TaskInv
<1>5. Pointed \subseteq Oid
  BY Zenon, <1>1 DEF Pointed, Bucket, Oid
<1>6. CASE \E v \in Upload : k = <<"abort", v>> \/ k = <<"uploads", v>>
  <2>1. PICK v \in Upload : k = <<"abort", v>> \/ k = <<"uploads", v>>
    BY Zenon, <1>6
  <2>2. bucket' = Aborted(v) \/ bucket' = Dropped(v)
    BY <1>2, <2>1 DEF Without
  <2>3. bucket'.pointers = bucket.pointers /\ bucket'.verified = bucket.verified
    BY ZenonT(30), <1>1, <2>2 DEF Aborted, Dropped, Bucket
  <2> QED BY Zenon, <1>3, <2>3
<1>7. CASE \E id \in Oid : k = <<"verified", id>>
  <2>1. PICK id \in Oid : k = <<"verified", id>>
    BY Zenon, <1>7
  <2>2. bucket' = [bucket EXCEPT !.verified[id] = NoOp]
    BY Zenon, <1>2, <2>1 DEF Without
  <2>3. /\ bucket'.pointers = bucket.pointers
        /\ \A oid \in Oid \ {id} : bucket'.verified[oid] = bucket.verified[oid]
    BY Zenon, <1>1, <2>2 DEF Bucket
  <2> QED BY Zenon, <1>3, <1>4, <1>5, <2>1, <2>3
<1>8. CASE \E v \in Upload : k = <<"objects", v>>
  <2>1. PICK v \in Upload : k = <<"objects", v>>
    BY Zenon, <1>8
  <2>2. bucket' = [bucket EXCEPT !.payloads = @ \ {v}]
    BY Zenon, <1>2, <2>1 DEF Without
  <2>3. bucket'.pointers = bucket.pointers /\ bucket'.verified = bucket.verified
    BY Zenon, <1>1, <2>2 DEF Bucket
  <2> QED BY Zenon, <1>3, <2>3
<1> QED BY <1>4, <1>6, <1>7, <1>8 DEF Removals

\* What is acknowledged is stored.
LEMMA StoredStep ==
    ASSUME LfsInv, [Next]_vars
    PROVE  \A u \in Upload : result'[u] = "ok" /\ result[u] # "ok" =>
               bucket.verified'[request[u].oid] \in bucket.payloads'
<1>1. CASE \E u \in Upload : PutVerified(u) \/ Recheck(u)
  BY Zenon, <1>1, AcknowledgeStep
<1>2. CASE \E op \in Task : Delete(op)
  BY Zenon, <1>2, DeleteStep DEF Silent
<1>3. CASE /\ \A u \in Upload : ~ (PutVerified(u) \/ Recheck(u))
           /\ \A op \in Task : ~ Delete(op)
  BY Zenon, <1>3, PlainSteps DEF Silent
<1> QED BY ZenonT(30), <1>1, <1>2, <1>3

-----------------------------------------------------------------------------
(* Finite sets. *)

\* What the lemmas use of finite sets; FiniteSetLaws below proves it.
SetLaws ==
    /\ IsFiniteSet({}) /\ Cardinality({}) = 0
    /\ \A S : IsFiniteSet(S) => Cardinality(S) \in Nat
    /\ \A S : IsFiniteSet(S) =>
           \A T \in SUBSET S : IsFiniteSet(T) /\ Cardinality(T) <= Cardinality(S)
    /\ \A S, x : IsFiniteSet(S) =>
           /\ IsFiniteSet(S \cup {x})
           /\ Cardinality(S \cup {x}) = IF x \in S THEN Cardinality(S) ELSE Cardinality(S) + 1
    /\ \A S, T : IsFiniteSet(S) /\ IsFiniteSet(T) /\ S \cap T = {} =>
           /\ IsFiniteSet(S \cup T)
           /\ Cardinality(S \cup T) = Cardinality(S) + Cardinality(T)
    /\ \A x : \A n \in Nat :
           IsFiniteSet({x} \X (1..n)) /\ Cardinality({x} \X (1..n)) = n

-----------------------------------------------------------------------------
(* The first states, of the repository and of an upload. *)

\* An empty repository satisfies the invariant.
LEMMA InitHolds ==
    ASSUME SetLaws, Init
    PROVE  LfsInv
<1>1. TypeOK
  BY ZenonT(30) DEF Init, TypeOK, Bucket, NoQuota, Quota, Stopped
<1>2. Finite /\ QuotaHolds
  <2>1. /\ bucket.payloads \cup bucket.uploads = {} /\ bucket.uploads = {} /\ Bytes({}) = {}
        /\ IsFiniteSet({}) /\ Cardinality({}) = 0
    BY ZenonT(30) DEF Init, Bytes, SetLaws
  <2>2. MaxRepositoryBytes \in Nat /\ MaxRecords \in Nat /\ MaxReservations \in Nat
    BY Zenon, LfsAssumption
  <2>3. Finite
    BY Zenon, <2>1 DEF Finite
  <2>4. /\ Charge(bucket.payloads \cup bucket.uploads) = 0
        /\ Cardinality(bucket.payloads \cup bucket.uploads) = 0 /\ Cardinality(bucket.uploads) = 0
    BY Zenon, <2>1 DEF Charge
  <2>5. 0 <= MaxRepositoryBytes /\ 0 <= MaxRecords /\ 0 <= MaxReservations
    BY <2>2
  <2>6. QuotaHolds
    BY Zenon, <2>4, <2>5 DEF QuotaHolds
  <2> QED BY Zenon, <2>3, <2>6
<1>3. /\ LockExcludes /\ NothingCorrupt /\ RecordsHaveContent /\ PointersHaveContent
      /\ PartsReserved /\ LedgerExact
  BY ZenonT(30) DEF Init, LockExcludes, NothingCorrupt, RecordsHaveContent, PointersHaveContent,
         PartsReserved, LedgerExact, Guarded, Verified
<1>4. \A op \in Actor : pc[op] = "idle"
  BY Zenon DEF Init
<1>5. \A u \in Upload : TokenInv(u) /\ PartsInv(u) /\ ContentInv(u) /\ QuotaInv(u)
  BY ZenonT(30), <1>4 DEF Init, TokenInv, PartsInv, ContentInv, QuotaInv, Fresh, Bound, Stopped,
                          Actor
<1>6. \A op \in Task : TaskInv(op)
  BY Zenon, <1>4 DEF TaskInv, Stopped, Actor
<1>7. \A op \in Actor : DirtyInv(op)
  BY Zenon, <1>4 DEF DirtyInv
<1> QED BY Zenon, <1>1, <1>2, <1>3, <1>5, <1>6, <1>7 DEF LfsInv

UploadInv(u) == TokenInv(u) /\ PartsInv(u) /\ ContentInv(u) /\ QuotaInv(u)

content == <<bucket.uploads, bucket.recorded, bucket.multipart, bucket.payloads,
             bucket.verified, bucket.pointers>>

\* LFSUpload begins for an object that the client names.
LEMMA BeginKeeps ==
    ASSUME LfsInv, NEW u \in Upload, NEW object \in Object, Begin(u, object)
    PROVE  LfsInv'

\* What others have stored keeps its size when an upload names its object.
<1>OthersBytes.
    ASSUME NEW S, \A v \in S : request'[v] = request[v]
    PROVE  UNION {{v} \X (1..request'[v].size) : v \in S} = Bytes(S)
  <2> USE <1>OthersBytes
  <2>1. \A v \in S : {v} \X (1..request'[v].size) = {v} \X (1..request[v].size)
    BY Zenon
  <2> QED BY Zenon, <2>1 DEF Bytes, Size
<1>1. /\ pc[u] = "idle" /\ pc' = [pc EXCEPT ![u] = "reserve"]
      /\ request' = [request EXCEPT ![u] = object]
      /\ UNCHANGED <<bucket, expired, lock, then, local, result>>
  BY Zenon DEF Begin, Goto
<1>2. /\ u \in Actor /\ u \notin Task /\ TokenInv(u) /\ bucket \in Bucket /\ Fresh(u)
      /\ request \in [Upload -> Object \cup {NoObject}]
  BY Zenon, <1>1, LfsAssumption DEF LfsInv, TypeOK, Actor, TokenInv
<1>3. /\ pc'[u] = "reserve" /\ request'[u] = object
      /\ \A v \in Actor \ {u} : pc'[v] = pc[v]
      /\ \A v \in Upload \ {u} : request'[v] = request[v]
  BY Zenon, <1>1, <1>2 DEF LfsInv, TypeOK
<1>4. /\ bucket.payloads \cup bucket.uploads \subseteq Upload \ {u}
      /\ \A v \in bucket.payloads : request'[v] = request[v]
  BY ZenonT(30), <1>2, <1>3 DEF Fresh, Bucket
<1>5. TypeOK'
  BY Zenon, <1>1 DEF LfsInv, TypeOK, Waiting, Entry, local
<1>6. LockExcludes' /\ NothingCorrupt'
  BY ZenonT(30), <1>1, <1>3 DEF LfsInv, LockExcludes, NothingCorrupt, Guarded
<1>7. RecordsHaveContent' /\ PointersHaveContent' /\ PartsReserved'
  <2>1. RecordsHaveContent'
    <3>1. \A oid \in Oid : bucket.verified[oid] # NoOp =>
              /\ bucket.verified[oid] \in bucket.payloads
              /\ request[bucket.verified[oid]].oid = oid
              /\ request[bucket.verified[oid]] \in Genuine
      BY Zenon DEF LfsInv, RecordsHaveContent, Verified, Backed
    <3>2. \A oid \in Oid : bucket.verified[oid] # NoOp =>
              /\ bucket.verified[oid] \in bucket.payloads
              /\ request'[bucket.verified[oid]].oid = oid
              /\ request'[bucket.verified[oid]] \in Genuine
      BY Zenon, <1>4, <3>1
    <3> QED BY Zenon, <1>1, <3>2 DEF RecordsHaveContent, Verified, Backed
  <2>2. PointersHaveContent'
    <3>1. \A o \in bucket.pointers : Backed(o.oid)
      BY ZenonT(30), <1>1 DEF LfsInv, PointersHaveContent
    <3> QED BY ZenonT(30), <1>1, <1>4, <3>1 DEF LfsInv, PointersHaveContent, Backed
  <2>3. PartsReserved'
    BY ZenonT(30), <1>1 DEF LfsInv, PartsReserved
  <2> QED BY Zenon, <2>1, <2>2, <2>3
<1>8. ASSUME NEW S \in SUBSET (Upload \ {u})
      PROVE  UNION {{v} \X (1..request'[v].size) : v \in S} = Bytes(S)
  BY Zenon, <1>3, <1>8, <1>OthersBytes
<1>9. Finite' /\ QuotaHolds'
  <2> DEFINE S == bucket.payloads \cup bucket.uploads
  <2>1. UNION {{v} \X (1..request'[v].size) : v \in S} = Bytes(S)
    BY Zenon, <1>4, <1>8
  <2>2. Finite'
    BY ZenonT(30), <1>1, <2>1 DEF LfsInv, Finite, Bytes, Size
  <2>3. QuotaHolds'
    BY ZenonT(30), <1>1, <2>1 DEF LfsInv, QuotaHolds, Charge, Bytes, Size
  <2> QED BY Zenon, <2>2, <2>3
<1>10. ASSUME NEW U \in SUBSET (Upload \ {u})
       PROVE  [bytes |-> Cardinality(UNION {{v} \X (1..request'[v].size) :
                                                v \in bucket.payloads \cup U}),
               objects |-> Cardinality(bucket.payloads \cup U),
               reservations |-> U] = CountWith(bucket.payloads, U)
  <2>1. bucket.payloads \cup U \in SUBSET (Upload \ {u})
    BY Zenon, <1>4
  <2> QED BY ZenonT(30), <1>8, <2>1 DEF CountWith, Charge
<1>11. Count(bucket)' = Count(bucket)
  <2>1. bucket.uploads \in SUBSET (Upload \ {u})
    BY Zenon, <1>4
  <2> QED BY ZenonT(30), <1>1, <1>10, <2>1 DEF Count, CountWith, Charge, Bytes, Size
<1>12. LedgerExact'
  BY Zenon, <1>1, <1>11 DEF LfsInv, LedgerExact, Counters
<1>13. \A v \in Actor : DirtyInv(v)'
  BY Zenon, <1>1, <1>3 DEF LfsInv, DirtyInv, Dirty
<1>14. ASSUME NEW v \in Task
       PROVE  TaskInv(v)'
  <2>1. TaskInv(v) /\ pc'[v] = pc[v] /\ work' = work /\ then' = then /\ bucket' = bucket
    BY Zenon, <1>1, <1>2, <1>3 DEF LfsInv, Actor, local
  <2>2. pc[v] = "retain" => \A o \in work[v] : Backed(o.oid)' /\ o \in Genuine
                                /\ request'[bucket.verified[o.oid]] = o
    BY Zenon, <1>4, <2>1 DEF TaskInv, Backed
  <2> QED BY Zenon, <2>1, <2>2 DEF TaskInv, Pointed
<1>15. ASSUME NEW v \in Upload \ {u}
       PROVE  UploadInv(v)'
  <2>1. /\ TokenInv(v) /\ PartsInv(v) /\ ContentInv(v) /\ QuotaInv(v)
        /\ pc'[v] = pc[v] /\ request'[v] = request[v] /\ v \in Actor
    BY ZenonT(30), <1>3, <1>15 DEF LfsInv, Actor
  <2>2. TokenInv(v)' /\ PartsInv(v)' /\ ContentInv(v)'
    BY ZenonT(30), <1>1, <2>1 DEF TokenInv, PartsInv, ContentInv, Fresh, Bound
  <2>3. /\ bucket.uploads \ {v} \in SUBSET (Upload \ {u})
        /\ bucket.uploads \cup {v} \in SUBSET (Upload \ {u})
    BY Zenon, <1>4, <1>15
  <2>4. CountWith(bucket.payloads, bucket.uploads \ {v})'
            = CountWith(bucket.payloads, bucket.uploads \ {v})
    BY ZenonT(30), <1>1, <1>10, <2>3 DEF CountWith, Charge, Bytes, Size
  <2>5. CountWith(bucket.payloads, bucket.uploads \cup {v})'
            = CountWith(bucket.payloads, bucket.uploads \cup {v})
    BY ZenonT(30), <1>1, <1>10, <2>3 DEF CountWith, Charge, Bytes, Size
  <2>6. QuotaInv(v)'
    BY ZenonT(30), <1>1, <1>11, <2>1, <2>4, <2>5 DEF QuotaInv, Count, local
  <2> QED BY Zenon, <2>2, <2>6 DEF UploadInv
<1>16. UploadInv(u)'
  BY ZenonT(30), <1>1, <1>2, <1>3 DEF UploadInv, TokenInv, PartsInv, ContentInv, QuotaInv,
                                      Fresh, Bound, UploadSteps
<1> QED BY Zenon, <1>5, <1>6, <1>7, <1>9, <1>12, <1>13, <1>14, <1>15, <1>16 DEF LfsInv,
                                                                                UploadInv

-----------------------------------------------------------------------------
(* Sums of sizes. *)

\* The bytes of one more token.
LEMMA BytesAdd ==
    ASSUME NEW S, NEW u
    PROVE  Bytes(S \cup {u}) = Bytes(S) \cup ({u} \X (1..Size(u)))
BY Zenon DEF Bytes

\* One more token charges its size, once.
LEMMA ChargeAdd ==
    ASSUME SetLaws, NEW S, NEW u, IsFiniteSet(S), IsFiniteSet(Bytes(S)), Size(u) \in Nat
    PROVE  /\ IsFiniteSet(S \cup {u}) /\ IsFiniteSet(Bytes(S \cup {u}))
           /\ Charge(S) \in Nat
           /\ Charge(S \cup {u}) = IF u \in S THEN Charge(S) ELSE Charge(S) + Size(u)
<1> DEFINE own == {u} \X (1..Size(u))
<1>1. IsFiniteSet(own) /\ Cardinality(own) = Size(u)
  BY Zenon DEF SetLaws
<1>2. Bytes(S \cup {u}) = Bytes(S) \cup own
  BY Zenon, BytesAdd
<1>3. IsFiniteSet(S \cup {u}) /\ Cardinality(Bytes(S)) \in Nat
  BY Zenon DEF SetLaws
<1>4. CASE u \in S
  <2>1. S \cup {u} = S
    BY Zenon, <1>4
  <2> QED BY Zenon, <2>1, <1>3, <1>4 DEF Charge
<1>5. CASE u \notin S
  <2>1. Bytes(S) \cap own = {}
    BY <1>5 DEF Bytes
  <2> HIDE DEF own
  <2>2. /\ IsFiniteSet(Bytes(S \cup {u}))
        /\ Charge(S \cup {u}) = Charge(S) + Size(u)
    <3>1. /\ IsFiniteSet(Bytes(S) \cup own)
          /\ Cardinality(Bytes(S) \cup own) = Cardinality(Bytes(S)) + Cardinality(own)
      BY Zenon, <1>1, <2>1 DEF SetLaws
    <3> QED BY Zenon, <1>1, <1>2, <3>1 DEF Charge
  <2> QED BY Zenon, <1>3, <1>5, <2>2 DEF Charge
<1> QED BY Zenon, <1>4, <1>5

\* Fewer tokens charge less.
LEMMA ChargeSubset ==
    ASSUME SetLaws, NEW S, NEW T \in SUBSET S, IsFiniteSet(S), IsFiniteSet(Bytes(S))
    PROVE  /\ IsFiniteSet(T) /\ IsFiniteSet(Bytes(T))
           /\ Charge(T) \in Nat /\ Charge(S) \in Nat /\ Charge(T) <= Charge(S)
           /\ Cardinality(T) \in Nat /\ Cardinality(S) \in Nat
           /\ Cardinality(T) <= Cardinality(S)
<1>1. Bytes(T) \subseteq Bytes(S)
  BY Zenon DEF Bytes
<1>2. /\ IsFiniteSet(Bytes(T)) /\ Cardinality(Bytes(T)) <= Cardinality(Bytes(S))
      /\ IsFiniteSet(T) /\ Cardinality(T) <= Cardinality(S)
  BY Zenon, <1>1 DEF SetLaws
<1>3. /\ Cardinality(Bytes(T)) \in Nat /\ Cardinality(Bytes(S)) \in Nat
      /\ Cardinality(T) \in Nat /\ Cardinality(S) \in Nat
  BY Zenon, <1>2 DEF SetLaws
<1> QED BY Zenon, <1>2, <1>3 DEF Charge

\* A reservation without a payload adds its own charge, and takes it away.
LEMMA CountCharged ==
    ASSUME SetLaws, NEW P, NEW U, NEW u, u \notin P \cup U, Size(u) \in Nat,
           IsFiniteSet(P \cup U), IsFiniteSet(Bytes(P \cup U))
    PROVE  /\ CountWith(P, U \cup {u}) = Charged(CountWith(P, U), u)
           /\ CountWith(P, U) = Uncharged(CountWith(P, U \cup {u}), u)
<1> DEFINE S == P \cup U
<1>1. P \cup (U \cup {u}) = S \cup {u}
  BY Zenon
<1>2. Charge(S) \in Nat /\ Charge(S \cup {u}) = Charge(S) + Size(u)
  BY Zenon, ChargeAdd
<1>3. Cardinality(S) \in Nat /\ Cardinality(S \cup {u}) = Cardinality(S) + 1
  BY Zenon DEF SetLaws
<1>4. (U \cup {u}) \ {u} = U
  BY Zenon
<1> HIDE DEF S
<1>5. /\ CountWith(P, U) = [bytes |-> Charge(S), objects |-> Cardinality(S), reservations |-> U]
      /\ CountWith(P, U \cup {u})
             = [bytes |-> Charge(S \cup {u}), objects |-> Cardinality(S \cup {u}),
                reservations |-> U \cup {u}]
  BY Zenon, <1>1 DEF CountWith, S
<1>6. /\ Charge(S \cup {u}) - Size(u) = Charge(S)
      /\ Cardinality(S \cup {u}) - 1 = Cardinality(S)
  BY <1>2, <1>3
<1>7. CountWith(P, U \cup {u}) = Charged(CountWith(P, U), u)
  BY <1>2, <1>3, <1>5 DEF Charged
<1>8. CountWith(P, U) = Uncharged(CountWith(P, U \cup {u}), u)
  <2> DEFINE c == CountWith(P, U \cup {u})
  <2>1. /\ c.bytes = Charge(S \cup {u}) /\ c.objects = Cardinality(S \cup {u})
        /\ c.reservations = U \cup {u}
    BY <1>5
  <2> HIDE DEF c
  <2>2. /\ c.bytes - Size(u) = Charge(S) /\ c.objects - 1 = Cardinality(S)
        /\ c.reservations \ {u} = U
    BY Zenon, <1>4, <1>6, <2>1
  <2>3. Uncharged(c, u)
            = [bytes |-> Charge(S), objects |-> Cardinality(S), reservations |-> U]
    BY Zenon, <2>2 DEF Uncharged
  <2> QED BY Zenon, <1>5, <2>3 DEF c
<1> QED BY Zenon, <1>7, <1>8

\* The counters are numbers.
LEMMA CountType ==
    ASSUME SetLaws, NEW P, NEW U \in SUBSET Upload,
           IsFiniteSet(P \cup U), IsFiniteSet(Bytes(P \cup U))
    PROVE  CountWith(P, U) \in Quota
<1>1. Charge(P \cup U) \in Nat /\ Cardinality(P \cup U) \in Nat
  BY Zenon DEF SetLaws, Charge
<1> QED BY Zenon, <1>1 DEF CountWith, Quota

-----------------------------------------------------------------------------
(* Frames. *)

\* What an operation holds in memory, apart from versions and reports.
Mine(v) == <<pc[v], then[v], quota[v], work[v]>>

\* What op relies on at its next step.
Own(op) ==
    /\ DirtyInv(op)
    /\ op \in Upload => UploadInv(op)
    /\ op \in Task => TaskInv(op)

\* Reservations and transfers do not concern records and pointers.
LEMMA RecordsKept ==
    ASSUME LfsInv, bucket'.verified = bucket.verified, bucket'.pointers = bucket.pointers,
           bucket.payloads \subseteq bucket'.payloads, UNCHANGED request
    PROVE  RecordsHaveContent' /\ PointersHaveContent'
BY Zenon DEF LfsInv, RecordsHaveContent, PointersHaveContent, Verified, Backed

\* What is charged does not grow.
LEMMA ChargesShrink ==
    ASSUME SetLaws, LfsInv, bucket'.uploads \subseteq bucket.uploads,
           bucket'.payloads \cup bucket'.uploads \subseteq bucket.payloads \cup bucket.uploads,
           UNCHANGED request
    PROVE  Finite' /\ QuotaHolds'
<1> DEFINE S == bucket.payloads \cup bucket.uploads
           T == bucket'.payloads \cup bucket'.uploads
<1>1. IsFiniteSet(S) /\ IsFiniteSet(Bytes(S))
  BY Zenon DEF LfsInv, Finite
<1>2. /\ IsFiniteSet(T) /\ IsFiniteSet(Bytes(T))
      /\ Charge(T) \in Nat /\ Charge(S) \in Nat /\ Charge(T) <= Charge(S)
      /\ Cardinality(T) \in Nat /\ Cardinality(S) \in Nat /\ Cardinality(T) <= Cardinality(S)
  BY Zenon, <1>1, ChargeSubset
<1>3. /\ Cardinality(bucket.uploads) \in Nat /\ Cardinality(bucket'.uploads) \in Nat
      /\ Cardinality(bucket'.uploads) <= Cardinality(bucket.uploads)
  <2>1. IsFiniteSet(bucket.uploads)
    BY Zenon, <1>1 DEF SetLaws
  <2>2. /\ IsFiniteSet(bucket'.uploads)
        /\ Cardinality(bucket'.uploads) <= Cardinality(bucket.uploads)
    BY Zenon, <2>1 DEF SetLaws
  <2> QED BY Zenon, <2>1, <2>2 DEF SetLaws
<1>4. /\ Charge(S) <= MaxRepositoryBytes /\ Cardinality(S) <= MaxRecords
      /\ Cardinality(bucket.uploads) <= MaxReservations
  BY Zenon DEF LfsInv, QuotaHolds
<1>5. MaxRepositoryBytes \in Nat /\ MaxRecords \in Nat /\ MaxReservations \in Nat
  BY Zenon, LfsAssumption
<1>6. Bytes(T) = UNION {{u} \X (1..Size(u)') : u \in T} /\ Charge(T) = Cardinality(Bytes(T))
  BY Zenon DEF Bytes, Size, Charge
<1> HIDE DEF S, T
<1>7. /\ Charge(T) <= MaxRepositoryBytes /\ Cardinality(T) <= MaxRecords
      /\ Cardinality(bucket'.uploads) <= MaxReservations
  BY <1>2, <1>3, <1>4, <1>5
<1> QED BY ZenonT(30), <1>2, <1>6, <1>7 DEF Finite, QuotaHolds, Charge, Bytes, T

\* The counters with and without the reservation of u, before and after.
LEMMA CountersAround ==
    ASSUME NEW u, UNCHANGED request, bucket'.payloads = bucket.payloads
    PROVE  /\ bucket'.uploads = bucket.uploads =>
                  /\ CountWith(bucket.payloads, bucket.uploads)' = Count(bucket)
                  /\ CountWith(bucket.payloads, bucket.uploads \ {u})'
                         = CountWith(bucket.payloads, bucket.uploads \ {u})
           /\ u \in bucket.uploads /\ bucket'.uploads = bucket.uploads \ {u} =>
                  /\ CountWith(bucket.payloads, bucket.uploads)'
                         = CountWith(bucket.payloads, bucket.uploads \ {u})
                  /\ CountWith(bucket.payloads, bucket.uploads \cup {u})' = Count(bucket)
<1>1. ASSUME bucket'.uploads = bucket.uploads
      PROVE  /\ CountWith(bucket.payloads, bucket.uploads)' = Count(bucket)
             /\ CountWith(bucket.payloads, bucket.uploads \ {u})'
                    = CountWith(bucket.payloads, bucket.uploads \ {u})
  BY Zenon, <1>1 DEF Count, CountWith, Charge, Bytes, Size
<1>2. ASSUME u \in bucket.uploads, bucket'.uploads = bucket.uploads \ {u}
      PROVE  /\ CountWith(bucket.payloads, bucket.uploads)'
                    = CountWith(bucket.payloads, bucket.uploads \ {u})
             /\ CountWith(bucket.payloads, bucket.uploads \cup {u})' = Count(bucket)
  <2>1. bucket'.uploads \cup {u} = bucket.uploads
    BY Zenon, <1>2
  <2> QED BY ZenonT(30), <1>2, <2>1 DEF Count, CountWith, Charge, Bytes, Size
<1> QED BY Zenon, <1>1, <1>2

-----------------------------------------------------------------------------
(* Steps without the lock. *)

\* Waiting for the lock, leaving it, crashing, starting, and what is done to a
\* transfer outside the lock.
LEMMA ControlSteps ==
    ASSUME SetLaws, LfsInv
    PROVE  /\ \A op \in Actor : Lock(op) \/ LockFails(op) \/ Unlock(op) \/ Crash(op) => LfsInv'
           /\ \A op \in Task :
                  BeginCollect(op) \/ (\E pointers \in SUBSET Object : BeginPush(op, pointers))
                      => LfsInv'
           /\ UnlockMaintenance \/ (\E u \in Upload : Expire(u)) => LfsInv'
           /\ \A u \in Upload :
                  (Stream(u) \/ VerifyBody(u) \/ Abort(u)) /\ UNCHANGED <<expired, lock, request>>
                      => LfsInv'

\* Such a step changes the control state of one operation and, of the bucket,
\* a transfer of it that exists.
<1>UnlockedStep.
    ASSUME NEW op \in Actor, UNCHANGED request,
           bucket'.ledger = bucket.ledger, bucket'.payloads = bucket.payloads,
           bucket'.uploads = bucket.uploads, bucket'.recorded = bucket.recorded,
           bucket'.verified = bucket.verified, bucket'.pointers = bucket.pointers,
           \A v \in Upload : v # op \/ bucket.multipart[v] = "none"
                                 => bucket'.multipart[v] = bucket.multipart[v],
           \A v \in Actor \ {op} : UNCHANGED Mine(v),
           TypeOK', LockExcludes', PartsReserved', NothingCorrupt', Own(op)'
    PROVE  LfsInv'
  <2> USE <1>UnlockedStep
  <2>1. /\ CountWith(bucket.payloads, bucket.uploads)' = CountWith(bucket.payloads, bucket.uploads)
        /\ Count(bucket)' = Count(bucket)
    BY ZenonT(30), CountersAround DEF Count
  <2>2. ASSUME NEW v \in Upload \ {op}
        PROVE  UploadInv(v)'
    <3>1. /\ TokenInv(v) /\ PartsInv(v) /\ ContentInv(v) /\ QuotaInv(v) /\ v \in Actor \ {op}
          /\ pc'[v] = pc[v] /\ then'[v] = then[v] /\ quota'[v] = quota[v]
          /\ bucket'.multipart[v] = bucket.multipart[v]
      BY ZenonT(30), <2>2 DEF LfsInv, Actor, Mine
    <3>2. TokenInv(v)' /\ PartsInv(v)' /\ ContentInv(v)'
      BY ZenonT(30), <3>1 DEF TokenInv, PartsInv, ContentInv, Fresh, Bound
    <3>3. /\ CountWith(bucket.payloads, bucket.uploads \ {v})'
                 = CountWith(bucket.payloads, bucket.uploads \ {v})
          /\ CountWith(bucket.payloads, bucket.uploads \cup {v})'
                 = CountWith(bucket.payloads, bucket.uploads \cup {v})
      BY ZenonT(30) DEF CountWith, Charge, Bytes, Size
    <3>4. QuotaInv(v)'
      BY ZenonT(30), <2>1, <3>1, <3>3 DEF QuotaInv
    <3> QED BY ZenonT(30), <3>2, <3>4 DEF UploadInv
  <2>3. ASSUME NEW v \in Task \ {op}
        PROVE  TaskInv(v)'
    <3>1. /\ TaskInv(v) /\ v \in Actor \ {op}
          /\ pc'[v] = pc[v] /\ then'[v] = then[v] /\ work'[v] = work[v]
      BY Zenon, <2>3 DEF LfsInv, Actor, Mine
    <3> QED BY ZenonT(30), <3>1 DEF TaskInv, Backed, Pointed
  <2>4. ASSUME NEW v \in Actor \ {op}
        PROVE  DirtyInv(v)'
    BY ZenonT(30), <2>4 DEF LfsInv, DirtyInv, Dirty, Mine
  <2>5. RecordsHaveContent' /\ PointersHaveContent'
    BY Zenon, RecordsKept
  <2>6. Finite' /\ QuotaHolds'
    BY Zenon, ChargesShrink
  <2>7. LedgerExact'
    BY ZenonT(30), <2>1 DEF LfsInv, LedgerExact, Counters
  <2>8. /\ \A v \in Upload : UploadInv(v)'
        /\ \A v \in Task : TaskInv(v)'
        /\ \A v \in Actor : DirtyInv(v)'
    BY Zenon, <2>2, <2>3, <2>4 DEF Own
  <2> QED BY ZenonT(30), <2>5, <2>6, <2>7, <2>8 DEF LfsInv, UploadInv

\* A step that leaves the bucket alone.
<1>ControlStep.
    ASSUME NEW op \in Actor, UNCHANGED <<bucket, request>>,
           \A v \in Actor \ {op} : UNCHANGED Mine(v),
           TypeOK', LockExcludes', NothingCorrupt', Own(op)'
    PROVE  LfsInv'
  <2> USE <1>ControlStep
  <2>1. PartsReserved'
    BY ZenonT(30) DEF LfsInv, PartsReserved
  <2> QED BY ZenonT(30), <2>1, <1>UnlockedStep

\* While the lock is free nobody is under it.
<1>FreeLock.
    ASSUME lock = NoOp
    PROVE  \A v \in Actor : pc[v] \notin Guarded
  BY Zenon, <1>FreeLock, LfsAssumption DEF LfsInv, LockExcludes

<1>LockKeeps.
    ASSUME NEW op \in Actor, Lock(op)
    PROVE  LfsInv'
  <2> USE <1>LockKeeps
  <2>1. /\ pc[op] \in Waiting /\ lock = NoOp /\ lock' = op
        /\ pc' = [pc EXCEPT ![op] = Entry[pc[op]]]
        /\ UNCHANGED <<bucket, expired, then, request, local, result>>
    BY Zenon DEF Lock, Goto
  <2>2. /\ Entry[pc[op]] \in Guarded /\ pc'[op] = Entry[pc[op]]
        /\ \A v \in Actor \ {op} : pc'[v] = pc[v]
        /\ \/ pc[op] = "reserve" /\ pc'[op] = "lookup"
           \/ pc[op] = "finish" /\ pc'[op] = "head"
           \/ pc[op] = "confirm" /\ pc'[op] = "recheck"
           \/ pc[op] = "release" /\ pc'[op] = "releaseLoad"
           \/ pc[op] = "push" /\ pc'[op] = "validate"
           \/ pc[op] = "collect" /\ pc'[op] = "mark"
    BY <2>1 DEF Waiting, Entry, Guarded, LfsInv, TypeOK
  <2>3. TypeOK'
    BY Zenon, <2>1, <2>2 DEF LfsInv, TypeOK, local
  <2>4. LockExcludes' /\ NothingCorrupt'
    BY ZenonT(30), <2>1, <2>2, <1>FreeLock DEF LockExcludes, NothingCorrupt, LfsInv
  <2>5. \A v \in Actor \ {op} : UNCHANGED Mine(v)
    BY Zenon, <2>1, <2>2 DEF Mine, local
  <2>6. op \in Upload => UploadInv(op)'
    <3>1. SUFFICES ASSUME op \in Upload PROVE UploadInv(op)'
      BY Zenon
    <3>2. TokenInv(op) /\ PartsInv(op) /\ ContentInv(op)
      BY Zenon, <3>1 DEF LfsInv
    <3>3. TokenInv(op)' /\ PartsInv(op)' /\ ContentInv(op)'
      BY ZenonT(30), <2>1, <2>2, <3>2 DEF TokenInv, PartsInv, ContentInv, Fresh, Bound,
                                          UploadSteps, Stopped
    <3>4. QuotaInv(op)'
      BY ZenonT(30), <2>2 DEF QuotaInv
    <3> QED BY Zenon, <3>3, <3>4 DEF UploadInv
  <2>7. op \in Task => TaskInv(op)'
    BY ZenonT(30), <2>1, <2>2 DEF LfsInv, TaskInv, TaskSteps, Stopped, local
  <2>8. Own(op)'
    BY ZenonT(30), <2>2, <2>6, <2>7 DEF Own, DirtyInv
  <2> QED BY ZenonT(30), <2>1, <2>3, <2>4, <2>5, <2>8, <1>ControlStep

\* An operation comes to rest, or goes on to the cleanup of its upload.
<1>RestOwn.
    ASSUME NEW op \in Actor,
           \/ pc'[op] = "idle" /\ op \in Task
           \/ pc'[op] \in {"done", "crashed", "abort", "body"} /\ op \in Upload,
           op \in Upload => request'[op] \in Object
    PROVE  Own(op)'
  <2> USE <1>RestOwn
  <2>1. op \in Task => op \notin Upload
    BY Zenon, LfsAssumption
  <2>2. op \in Upload => UploadInv(op)'
    BY ZenonT(30), <2>1 DEF UploadInv, TokenInv, PartsInv, ContentInv, QuotaInv, Bound,
                            UploadSteps, Stopped
  <2>3. op \in Task => TaskInv(op)'
    BY Zenon, <2>1 DEF TaskInv, TaskSteps, Stopped
  <2> QED BY ZenonT(30), <2>2, <2>3 DEF Own, DirtyInv

<1>LockFailsKeeps.
    ASSUME NEW op \in Actor, LockFails(op)
    PROVE  LfsInv'
  <2> USE <1>LockFailsKeeps
  <2> DEFINE to == IF pc[op] = "finish" THEN "abort" ELSE End(op)
  <2>1. /\ pc[op] \in Waiting /\ (lock' = lock \/ (lock = NoOp /\ lock' = op))
        /\ pc' = [pc EXCEPT ![op] = to]
        /\ result' = [result EXCEPT ![op] = IF op \in Upload THEN "failed" ELSE @]
        /\ work' = [work EXCEPT ![op] = {}]
        /\ UNCHANGED <<bucket, expired, then, request, quota, seen>>
    BY Zenon DEF LockFails, Goto, Report
  <2>2. \/ op \in Task /\ op \notin Upload /\ to = "idle"
        \/ op \in Upload /\ to \in {"abort", "done"} /\ request[op] \in Object
    <3>1. op \in Task => pc[op] # "finish"
      BY Zenon DEF LfsInv, TaskInv, TaskSteps, Stopped
    <3>2. op \in Upload => request[op] \in Object
      BY ZenonT(30), <2>1 DEF LfsInv, TokenInv, Waiting, Entry
    <3> QED BY Zenon, <3>1, <3>2, LfsAssumption DEF End, Actor
  <2> HIDE DEF to
  <2>3. pc'[op] = to /\ \A v \in Actor \ {op} : pc'[v] = pc[v] /\ work'[v] = work[v]
    BY Zenon, <2>1 DEF LfsInv, TypeOK
  <2>4. TypeOK'
    BY ZenonT(30), <2>1, <2>2 DEF LfsInv, TypeOK, Stopped
  <2>5. NothingCorrupt'
    BY Zenon, <2>1 DEF NothingCorrupt, LfsInv, TypeOK
  <2>6. LockExcludes'
    <3>1. pc'[op] \notin Guarded
      BY Zenon, <2>2, <2>3 DEF Guarded
    <3> QED BY Zenon, <2>1, <2>3, <3>1, <1>FreeLock DEF LockExcludes, LfsInv
  <2>7. \A v \in Actor \ {op} : UNCHANGED Mine(v)
    BY ZenonT(30), <2>1, <2>3 DEF Mine
  <2>8. Own(op)'
    BY Zenon, <2>1, <2>2, <2>3, <1>RestOwn
  <2> QED BY Zenon, <2>1, <2>4, <2>5, <2>6, <2>7, <2>8, <1>ControlStep

\* What Forget and a new place leave of the type and of the other operations.
<1>ForgetTyped.
    ASSUME NEW op \in Actor, Forget(op),
           NEW to \in Stopped \cup Waiting \cup {"stream", "body", "abort"},
           pc' = [pc EXCEPT ![op] = to],
           \/ result' = result
           \/ result' = [result EXCEPT ![op] = IF op \in Upload THEN "failed" ELSE @],
           lock' \in Actor \cup {NoOp},
           UNCHANGED <<bucket, expired, request>>
    PROVE  /\ TypeOK' /\ NothingCorrupt' /\ pc'[op] = to /\ then'[op] = "idle"
           /\ \A v \in Actor \ {op} : UNCHANGED Mine(v)
  <2> USE <1>ForgetTyped
  <2>1. /\ then' = [then EXCEPT ![op] = "idle"] /\ quota' = [quota EXCEPT ![op] = NoQuota]
        /\ seen' = [seen EXCEPT ![op] = NoLedger] /\ work' = [work EXCEPT ![op] = {}]
    BY Zenon DEF Forget
  <2>2. NoQuota \in Quota
    BY ZenonT(30) DEF NoQuota, Quota
  <2>3. /\ quota' \in [Actor -> Quota] /\ seen' \in [Actor -> Stored \cup {NoLedger}]
        /\ work' = [v \in Actor |-> work'[v]]
        /\ then' \in [Actor -> {"idle", "done", "stream", "body", "abort", "release"}]
    BY ZenonT(30), <2>1, <2>2 DEF LfsInv, TypeOK
  <2>4. TypeOK'
    <3>1. pc' \in [Actor -> Stopped \cup Waiting \cup Guarded \cup {"stream", "body", "abort"}]
      BY Zenon DEF LfsInv, TypeOK
    <3>2. result' \in [Actor -> {"none", "ok", "failed", "corrupt"}]
      BY Zenon DEF LfsInv, TypeOK
    <3>3. bucket' \in Bucket /\ expired' \subseteq Upload
          /\ request' \in [Upload -> Object \cup {NoObject}]
      BY Zenon DEF LfsInv, TypeOK
    <3> QED BY Zenon, <2>3, <3>1, <3>2, <3>3 DEF TypeOK
  <2>5. NothingCorrupt'
    BY Zenon DEF LfsInv, TypeOK, NothingCorrupt
  <2>6. pc'[op] = to /\ then'[op] = "idle"
    BY Zenon, <2>1 DEF LfsInv, TypeOK
  <2>7. \A v \in Actor \ {op} : UNCHANGED Mine(v)
    BY Zenon, <2>1 DEF LfsInv, TypeOK, Mine
  <2> QED BY Zenon, <2>4, <2>5, <2>6, <2>7

<1>UnlockKeeps.
    ASSUME NEW op \in Actor, Unlock(op)
    PROVE  LfsInv'
  <2> USE <1>UnlockKeeps
  <2>1. /\ pc[op] = "unlock" /\ lock = op
        /\ op \in Upload => TokenInv(op) /\ PartsInv(op)
        /\ op \in Task => TaskInv(op)
    BY ZenonT(30) DEF Unlock, LfsInv, LockExcludes, Guarded
  <2>2. \/ op \in Task /\ op \notin Upload /\ then[op] = "idle"
        \/ /\ op \in Upload /\ then[op] \in {"done", "stream", "body", "abort", "release"}
           /\ request[op] \in Object
    BY ZenonT(30), <2>1, LfsAssumption DEF LfsInv, TypeOK, TokenInv, TaskInv, Actor
  <2>3. PICK to \in {then[op], End(op)} :
            /\ pc' = [pc EXCEPT ![op] = to]
            /\ \/ result' = result
               \/ result' = [result EXCEPT ![op] = IF op \in Upload THEN "failed" ELSE @]
            /\ lock' \in {lock, NoOp} /\ Forget(op)
            /\ UNCHANGED <<bucket, expired, request>>
    BY ZenonT(30) DEF Unlock, Goto, Report
  <2>4. \/ op \in Task /\ op \notin Upload /\ to = "idle"
        \/ /\ op \in Upload /\ to \in {"done", "stream", "body", "abort", "release"}
           /\ request[op] \in Object /\ to \in {then[op], "done"}
    BY ZenonT(30), <2>2, <2>3 DEF End
  <2>5. to \in Stopped \cup Waiting \cup {"stream", "body", "abort"} /\ to \notin Guarded
    BY ZenonT(30), <2>4 DEF Stopped, Waiting, Entry, Guarded
  <2>6. lock' \in Actor \cup {NoOp}
    BY Zenon, <2>1, <2>3
  <2>7. /\ TypeOK' /\ NothingCorrupt' /\ pc'[op] = to /\ then'[op] = "idle"
        /\ \A v \in Actor \ {op} : UNCHANGED Mine(v)
    BY ZenonT(30), <2>3, <2>5, <2>6, <1>ForgetTyped
  <2>8. LockExcludes'
    <3>1. \A v \in Actor \ {op} : pc'[v] \notin Guarded
      BY ZenonT(30), <2>1, <2>7 DEF LfsInv, LockExcludes, Mine
    <3> QED BY ZenonT(30), <2>5, <2>7, <3>1 DEF LockExcludes
  <2>9. Own(op)'
    <3>1. CASE to \in {"idle", "done", "body", "abort"}
      BY ZenonT(30), <2>3, <2>4, <2>7, <3>1, <1>RestOwn
    <3>2. CASE to \in {"stream", "release"}
      <4>1. op \in Upload /\ op \notin Task /\ then[op] = to /\ request[op] \in Object
        BY Zenon, <2>4, <3>2, LfsAssumption
      <4>2. /\ to = "stream" /\ bucket.multipart[op] # "none"
                   => op \in bucket.uploads \cap bucket.recorded
            /\ to = "release" => bucket.multipart[op] = "none"
        BY Zenon, <2>1, <4>1 DEF PartsInv, Bound
      <4>3. UploadInv(op)'
        BY ZenonT(30), <2>3, <2>7, <3>2, <4>1, <4>2 DEF UploadInv, TokenInv, PartsInv,
                                                        ContentInv,
                                                        QuotaInv, Bound, UploadSteps
      <4> QED BY ZenonT(30), <2>7, <3>2, <4>1, <4>3 DEF Own, DirtyInv
    <3> QED BY Zenon, <2>4, <3>1, <3>2
  <2> QED BY ZenonT(30), <2>3, <2>7, <2>8, <2>9, <1>ControlStep

<1>CrashKeeps.
    ASSUME NEW op \in Actor, Crash(op)
    PROVE  LfsInv'
  <2> USE <1>CrashKeeps
  <2> DEFINE to == IF op \in Upload THEN "crashed" ELSE "idle"
  <2>1. /\ pc[op] \notin Stopped /\ pc' = [pc EXCEPT ![op] = to] /\ Forget(op)
        /\ UNCHANGED <<bucket, expired, lock, request, result>>
    BY Zenon DEF Crash, Goto
  <2>2. \/ op \in Task /\ op \notin Upload /\ to = "idle"
        \/ op \in Upload /\ to = "crashed" /\ request[op] \in Object
    BY ZenonT(30), <2>1, LfsAssumption DEF LfsInv, TokenInv, Stopped, Actor
  <2> HIDE DEF to
  <2>3. to \in Stopped \cup Waiting \cup {"stream", "body", "abort"} /\ to \notin Guarded
    BY Zenon, <2>2 DEF Stopped, Guarded
  <2>4. lock' \in Actor \cup {NoOp}
    BY Zenon, <2>1 DEF LfsInv, TypeOK
  <2>5. /\ TypeOK' /\ NothingCorrupt' /\ pc'[op] = to
        /\ \A v \in Actor \ {op} : UNCHANGED Mine(v)
    BY ZenonT(30), <2>1, <2>3, <2>4, <1>ForgetTyped
  <2>6. LockExcludes'
    BY ZenonT(30), <2>1, <2>3, <2>5 DEF LfsInv, LockExcludes, Mine
  <2>7. Own(op)'
    BY Zenon, <2>1, <2>2, <2>5, <1>RestOwn
  <2> QED BY Zenon, <2>1, <2>5, <2>6, <2>7, <1>ControlStep

\* A push or a collection starts.
<1>TaskStarts.
    ASSUME NEW op \in Task,
           BeginCollect(op) \/ \E pointers \in SUBSET Object : BeginPush(op, pointers)
    PROVE  LfsInv'
  <2> USE <1>TaskStarts
  <2>1. PICK to \in {"push", "collect"} :
            /\ pc[op] = "idle" /\ pc' = [pc EXCEPT ![op] = to]
            /\ UNCHANGED <<bucket, expired, lock, then, request, quota, seen, result>>
            /\ \/ to = "collect" /\ work' = work
               \/ \E pointers \in SUBSET Object : work' = [work EXCEPT ![op] = pointers]
    BY Zenon DEF BeginCollect, BeginPush, Goto, local
  <2>2. op \in Actor /\ op \notin Upload /\ to \in Waiting /\ to \notin Guarded
    BY Zenon, LfsAssumption DEF Actor, Waiting, Entry, Guarded
  <2>3. /\ pc'[op] = to
        /\ to = "push" => work'[op] \subseteq Object
        /\ \A v \in Actor \ {op} : pc'[v] = pc[v] /\ work'[v] = work[v]
        /\ work' = [v \in Actor |-> work'[v]]
    BY Zenon, <2>1, <2>2 DEF LfsInv, TypeOK
  <2>4. TypeOK'
    BY Zenon, <2>1, <2>2, <2>3 DEF LfsInv, TypeOK
  <2>5. LockExcludes' /\ NothingCorrupt'
    BY Zenon, <2>1, <2>2, <2>3 DEF LfsInv, LockExcludes, NothingCorrupt
  <2>6. \A v \in Actor \ {op} : UNCHANGED Mine(v)
    BY Zenon, <2>1, <2>3 DEF Mine
  <2>7. Own(op)'
    <3>1. TaskInv(op)'
      BY Zenon, <2>1, <2>3 DEF TaskInv, TaskSteps
    <3> QED BY Zenon, <2>1, <2>2, <2>3, <3>1 DEF Own, DirtyInv
  <2> QED BY Zenon, <2>1, <2>2, <2>4, <2>5, <2>6, <2>7, <1>ControlStep

\* Time passes, or an operator clears a lock that nobody uses.
<1>EnvironmentKeeps.
    ASSUME UnlockMaintenance \/ \E u \in Upload : Expire(u)
    PROVE  LfsInv'
  <2> USE <1>EnvironmentKeeps
  <2>1. /\ UNCHANGED <<bucket, pc, then, request, local, result>>
        /\ expired' \subseteq Upload /\ lock' \in Actor \cup {NoOp} /\ Actor # {}
        /\ LockExcludes'
    <3>1. CASE UnlockMaintenance
      <4>1. \A v \in Actor : pc[v] \notin Guarded
        BY Zenon, <3>1 DEF UnlockMaintenance, Stopped, Guarded
      <4> QED BY Zenon, <3>1, <4>1 DEF UnlockMaintenance, LfsInv, TypeOK, LockExcludes
    <3>2. CASE \E u \in Upload : Expire(u)
      BY Zenon, <3>2 DEF Expire, LfsInv, TypeOK, LockExcludes, Actor
    <3> QED BY Zenon, <3>1, <3>2
  <2>2. PICK op \in Actor : TRUE
    BY Zenon, <2>1
  <2>3. TypeOK' /\ NothingCorrupt'
    BY Zenon, <2>1 DEF LfsInv, TypeOK, NothingCorrupt, local
  <2>4. \A v \in Actor : UNCHANGED Mine(v)
    BY Zenon, <2>1 DEF Mine, local
  <2>5. Own(op)'
    <3>1. DirtyInv(op)'
      BY Zenon, <2>1 DEF LfsInv, DirtyInv, Dirty
    <3>2. ASSUME op \in Upload PROVE UploadInv(op)'
      <4>1. TokenInv(op)' /\ PartsInv(op)' /\ ContentInv(op)'
        BY ZenonT(30), <2>1, <3>2 DEF LfsInv, TokenInv, PartsInv, ContentInv, Fresh, Bound
      <4>2. QuotaInv(op)'
        <5>1. /\ CountWith(bucket.payloads, bucket.uploads)'
                     = CountWith(bucket.payloads, bucket.uploads)
              /\ Count(bucket)' = Count(bucket)
              /\ CountWith(bucket.payloads, bucket.uploads \ {op})'
                     = CountWith(bucket.payloads, bucket.uploads \ {op})
              /\ CountWith(bucket.payloads, bucket.uploads \cup {op})'
                     = CountWith(bucket.payloads, bucket.uploads \cup {op})
          BY ZenonT(30), <2>1 DEF Count, CountWith, Charge, Bytes, Size
        <5> QED BY ZenonT(30), <2>1, <3>2, <5>1 DEF LfsInv, QuotaInv, local
      <4> QED BY Zenon, <4>1, <4>2 DEF UploadInv
    <3>3. ASSUME op \in Task PROVE TaskInv(op)'
      BY ZenonT(30), <2>1, <3>3 DEF LfsInv, TaskInv, Backed, Pointed, local
    <3> QED BY Zenon, <3>1, <3>2, <3>3 DEF Own
  <2> QED BY Zenon, <2>1, <2>3, <2>4, <2>5, <1>ControlStep

\* The parts of an upload are sent or aborted, without the lock.
<1>TransferOutside.
    ASSUME NEW u \in Upload, pc[u] \in {"stream", "body", "abort"},
           UNCHANGED <<expired, lock, request, then, local>>,
           NEW to \in {"finish", "confirm", "abort", "release", "done"},
           pc' = [pc EXCEPT ![u] = to],
           result' = result \/ result' = [result EXCEPT ![u] = "failed"],
           NEW m \in {"none", "parts"},
           bucket' = bucket \/ bucket' = [bucket EXCEPT !.multipart[u] = m],
           m = "parts" => /\ bucket.multipart[u] # "none"
                          /\ u \in bucket.uploads \cap bucket.recorded,
           to \in {"finish", "confirm"} => request[u] \in Genuine,
           to = "release" => bucket'.multipart[u] = "none"
    PROVE  LfsInv'
  <2> USE <1>TransferOutside
  <2>1. /\ bucket \in Bucket /\ u \in Actor /\ u \notin Task /\ TokenInv(u)
        /\ to \notin Guarded /\ to \in Stopped \cup Waiting \cup {"abort"}
    BY Zenon, LfsAssumption DEF LfsInv, TypeOK, Actor, Guarded, Stopped, Waiting, Entry
  <2>2. /\ bucket' \in Bucket /\ bucket'.ledger = bucket.ledger
        /\ bucket'.payloads = bucket.payloads /\ bucket'.uploads = bucket.uploads
        /\ bucket'.recorded = bucket.recorded /\ bucket'.verified = bucket.verified
        /\ bucket'.pointers = bucket.pointers
        /\ bucket'.multipart[u] \in {bucket.multipart[u], m}
        /\ \A v \in Upload \ {u} : bucket'.multipart[v] = bucket.multipart[v]
    <3>1. CASE bucket' = bucket
      BY Zenon, <2>1, <3>1
    <3>2. CASE bucket' = [bucket EXCEPT !.multipart[u] = m]
      BY Zenon, <2>1, <3>2 DEF Bucket
    <3> QED BY Zenon, <3>1, <3>2
  <2>3. PartsReserved'
    BY Zenon, <2>2 DEF LfsInv, PartsReserved
  <2>4. pc'[u] = to /\ \A v \in Actor \ {u} : pc'[v] = pc[v]
    BY Zenon, <2>1 DEF LfsInv, TypeOK
  <2>5. TypeOK'
    BY Zenon, <2>1, <2>2 DEF LfsInv, TypeOK, local
  <2>6. LockExcludes' /\ NothingCorrupt'
    BY Zenon, <2>1, <2>4 DEF LfsInv, TypeOK, LockExcludes, NothingCorrupt
  <2>7. \A v \in Actor \ {u} : UNCHANGED Mine(v)
    BY Zenon, <2>4 DEF Mine, local
  <2>8. request[u] \in Object
    BY Zenon, <2>1 DEF TokenInv
  <2>9. UploadInv(u)'
    BY Zenon, <2>4, <2>8 DEF UploadInv, TokenInv, PartsInv, ContentInv, QuotaInv, Bound,
                             UploadSteps,
                      Stopped
  <2>10. Own(u)'
    BY Zenon, <2>1, <2>4, <2>9 DEF Own, DirtyInv
  <2> QED BY Zenon, <2>1, <2>2, <2>3, <2>5, <2>6, <2>7, <2>10, <1>UnlockedStep

<1>OutsideKeeps.
    ASSUME NEW u \in Upload, Stream(u) \/ VerifyBody(u) \/ Abort(u),
           UNCHANGED <<expired, lock, request>>
    PROVE  LfsInv'
  <2> USE <1>OutsideKeeps
  <2> DEFINE new == [bucket EXCEPT !.multipart[u] = "parts"]
  <2>1. CASE Stream(u)
    <3>1. /\ pc[u] = "stream" /\ UNCHANGED <<then, local>>
          /\ \/ /\ bucket.multipart[u] # "none" /\ bucket' = new
                /\ \/ request[u] \in Genuine /\ Goto(u, "finish") /\ UNCHANGED result
                   \/ Goto(u, "abort") /\ Report(u, "failed")
             \/ bucket' = bucket /\ Goto(u, "abort") /\ Report(u, "failed")
      BY Zenon, <2>1 DEF Stream
    <3>2. bucket.multipart[u] # "none" => u \in bucket.uploads \cap bucket.recorded
      BY Zenon, <3>1 DEF LfsInv, PartsInv, Bound
    <3>3. CASE /\ bucket.multipart[u] # "none" /\ bucket' = new
               /\ request[u] \in Genuine /\ Goto(u, "finish") /\ UNCHANGED result
      BY ZenonT(30), <3>1, <3>2, <3>3, <1>TransferOutside DEF Goto
    <3>4. CASE /\ bucket.multipart[u] # "none" /\ bucket' = new
               /\ Goto(u, "abort") /\ Report(u, "failed")
      BY Zenon, <3>1, <3>2, <3>4, <1>TransferOutside DEF Goto, Report
    <3>5. CASE bucket' = bucket /\ Goto(u, "abort") /\ Report(u, "failed")
      <4>1. "none" = "parts" => FALSE
        BY Zenon
      <4> QED BY Zenon, <3>1, <3>5, <4>1, <1>TransferOutside DEF Goto, Report
    <3> QED BY Zenon, <3>1, <3>3, <3>4, <3>5
  <2>2. CASE VerifyBody(u)
    <3>1. /\ pc[u] = "body" /\ bucket' = bucket /\ UNCHANGED <<then, local>>
          /\ \/ request[u] \in Genuine /\ pc' = [pc EXCEPT ![u] = "confirm"] /\ result' = result
             \/ /\ pc' = [pc EXCEPT ![u] = "done"]
                /\ result' = [result EXCEPT ![u] = "failed"]
      BY Zenon, <2>2 DEF VerifyBody, Goto, Report
    <3> QED BY Zenon, <3>1, <1>TransferOutside
  <2>3. CASE Abort(u)
    <3>1. /\ pc[u] = "abort" /\ UNCHANGED <<then, result, local>>
          /\ \/ bucket' = Aborted(u) /\ pc' = [pc EXCEPT ![u] = "release"]
             \/ bucket' \in {bucket, Aborted(u)} /\ pc' = [pc EXCEPT ![u] = "done"]
      BY Zenon, <2>3 DEF Abort, Goto
    <3>2. Aborted(u) = [bucket EXCEPT !.multipart[u] = "none"] /\ Aborted(u).multipart[u] = "none"
      BY Zenon DEF Aborted, LfsInv, TypeOK, Bucket
    <3> QED BY Zenon, <3>1, <3>2, <1>TransferOutside
  <2> QED BY Zenon, <2>1, <2>2, <2>3
<1> QED BY Zenon, <1>LockKeeps, <1>LockFailsKeeps, <1>UnlockKeeps, <1>CrashKeeps, <1>TaskStarts,
           <1>EnvironmentKeeps, <1>OutsideKeeps

-----------------------------------------------------------------------------
(* Steps under the lock. *)

\* A step that only op takes; of what others have stored, it may only remove
\* artifacts, and a reservation only after its parts.
Alone(op) ==
    /\ pc[op] \in Guarded
    /\ UNCHANGED <<lock, request>>
    /\ \A v \in Actor \ {op} : UNCHANGED Mine(v)

Careful(op) ==
    \A v \in Upload \ {op} :
        /\ v \in bucket'.uploads => v \in bucket.uploads
        /\ v \in bucket'.recorded => v \in bucket.recorded
        /\ v \in bucket'.payloads => v \in bucket.payloads
        /\ bucket'.multipart[v] \in {bucket.multipart[v], "none"}
        /\ v \in bucket.uploads \cap bucket.recorded /\ bucket'.multipart[v] # "none"
               => v \in bucket'.uploads \cap bucket'.recorded

\* Nobody else is under the lock, and who waits or streams relies on nothing
\* that such a step changes.
LEMMA OthersKept ==
    ASSUME LfsInv, NEW op \in Actor, Alone(op), Careful(op)
    PROVE  /\ \A v \in Actor \ {op} : pc'[v] \notin Guarded
           /\ \A v \in Upload \ {op} : UploadInv(v)'
           /\ \A v \in Task \ {op} : TaskInv(v)'
           /\ \A v \in Actor \ {op} : DirtyInv(v)'
<1>1. \A v \in Actor \ {op} : pc[v] \notin Guarded /\ pc'[v] = pc[v] /\ then'[v] = then[v]
                           /\ quota'[v] = quota[v] /\ work'[v] = work[v]
  BY Zenon DEF LfsInv, LockExcludes, Alone, Mine
<1>2. ASSUME NEW v \in Upload \ {op}
      PROVE  UploadInv(v)'
  <2>1. TokenInv(v) /\ PartsInv(v) /\ ContentInv(v) /\ v \in Actor \ {op}
    BY Zenon, <1>2 DEF LfsInv, Actor
  <2>2. TokenInv(v)'
    BY Zenon, <1>1, <1>2, <2>1 DEF TokenInv, Fresh, Alone, Careful, Guarded, UploadSteps,
                                   Stopped
  <2>3. PartsInv(v)'
    BY Zenon, <1>1, <1>2, <2>1 DEF PartsInv, Bound, Alone, Careful, Guarded
  <2>4. ContentInv(v)'
    BY Zenon, <1>1, <2>1 DEF ContentInv, Alone, Guarded
  <2>5. QuotaInv(v)'
    BY ZenonT(30), <1>1, <2>1 DEF QuotaInv, Guarded
  <2> QED BY Zenon, <2>2, <2>3, <2>4, <2>5 DEF UploadInv
<1>3. ASSUME NEW v \in Task \ {op}
      PROVE  TaskInv(v)'
  <2>1. TaskInv(v) /\ v \in Actor \ {op}
    BY Zenon, <1>3 DEF LfsInv, Actor
  <2> QED BY Zenon, <1>1, <2>1 DEF TaskInv, Guarded, TaskSteps, Stopped
<1>4. ASSUME NEW v \in Actor \ {op}
      PROVE  DirtyInv(v)'
  <2>1. pc'[v] \notin Guarded
    BY Zenon, <1>1
  <2> QED BY ZenonT(30), <2>1 DEF DirtyInv, Guarded
<1> QED BY Zenon, <1>1, <1>2, <1>3, <1>4

\* A step under the lock keeps the invariant if it keeps what it can disturb.
LEMMA StepKeeps ==
    ASSUME LfsInv, NEW op \in Actor, Alone(op), Careful(op),
           TypeOK', Finite', RecordsHaveContent', PointersHaveContent', PartsReserved',
           NothingCorrupt', LedgerExact', QuotaHolds', DirtyInv(op)',
           op \in Upload => UploadInv(op)',
           op \in Task => TaskInv(op)'
    PROVE  LfsInv'
<1>1. /\ \A v \in Actor \ {op} : pc'[v] \notin Guarded
      /\ \A v \in Upload : UploadInv(v)'
      /\ \A v \in Task : TaskInv(v)'
      /\ \A v \in Actor : DirtyInv(v)'
  BY Zenon, OthersKept
<1>2. LockExcludes'
  BY Zenon, <1>1 DEF LockExcludes, LfsInv, Alone
<1> QED BY Zenon, <1>1, <1>2 DEF LfsInv, UploadInv

\* What the ledger does not decide.
LEMMA ContentKept ==
    ASSUME LfsInv, UNCHANGED content, UNCHANGED request
    PROVE  /\ \A op \in Actor : Careful(op)
           /\ Finite' /\ RecordsHaveContent' /\ PointersHaveContent' /\ PartsReserved'
           /\ QuotaHolds' /\ Count(bucket)' = Count(bucket)
<1>1. /\ bucket'.uploads = bucket.uploads /\ bucket'.recorded = bucket.recorded
      /\ bucket'.multipart = bucket.multipart /\ bucket'.payloads = bucket.payloads
      /\ bucket'.verified = bucket.verified /\ bucket'.pointers = bucket.pointers
      /\ request' = request
  BY Zenon DEF content
<1>2. \A op \in Actor : Careful(op)
  BY Zenon, <1>1 DEF Careful
<1>3. Finite'
  BY Zenon, <1>1 DEF LfsInv, Finite, Bytes, Size
<1>4. RecordsHaveContent' /\ PointersHaveContent'
  BY Zenon, <1>1 DEF LfsInv, RecordsHaveContent, PointersHaveContent, Verified, Backed
<1>5. PartsReserved'
  BY Zenon, <1>1 DEF LfsInv, PartsReserved
<1>6. QuotaHolds'
  BY Zenon, <1>1 DEF LfsInv, QuotaHolds, Charge, Bytes, Size
<1>7. Count(bucket)' = Count(bucket)
  BY Zenon, <1>1 DEF Count, CountWith, Charge, Bytes, Size
<1> QED BY Zenon, <1>2, <1>3, <1>4, <1>5, <1>6, <1>7

\* A step that changes no more than the ledger.
LEMMA LedgerStep ==
    ASSUME LfsInv, NEW op \in Actor, Alone(op), UNCHANGED content,
           TypeOK', NothingCorrupt', LedgerExact', DirtyInv(op)',
           op \in Upload => UploadInv(op)',
           op \in Task => TaskInv(op)'
    PROVE  LfsInv'
BY Zenon, StepKeeps, ContentKept DEF Alone

-----------------------------------------------------------------------------
(* Errors. *)

\* Where an error leads to, and what it leaves alone.
LEMMA RaiseEffect ==
    ASSUME LfsInv, NEW op \in Actor, pc[op] \in Guarded \ {"unlock"}, Raise(op, "failed")
    PROVE  /\ pc' \in [Actor -> Stopped \cup Waiting \cup Guarded \cup {"stream", "body", "abort"}]
           /\ then' \in [Actor -> {"idle", "done", "stream", "body", "abort", "release"}]
           /\ result' \in [Actor -> {"none", "ok", "failed", "corrupt"}]
           /\ NothingCorrupt'
           /\ \A v \in Actor \ {op} : pc'[v] = pc[v] /\ then'[v] = then[v]
           /\ \/ pc[op] \in DOMAIN Undo /\ pc'[op] = Undo[pc[op]]
              \/ /\ pc[op] \notin DOMAIN Undo /\ pc'[op] = "unlock"
                 /\ then'[op] = ErrorExit(op)
<1>1. /\ pc \in [Actor -> Stopped \cup Waiting \cup Guarded \cup {"stream", "body", "abort"}]
      /\ then \in [Actor -> {"idle", "done", "stream", "body", "abort", "release"}]
      /\ result \in [Actor -> {"none", "ok", "failed", "corrupt"}]
  BY Zenon DEF LfsInv, TypeOK
<1>2. result' = [result EXCEPT ![op] = IF op \in Upload THEN "failed" ELSE @]
  BY Zenon DEF Raise, Report
<1>3. result' \in [Actor -> {"none", "ok", "failed", "corrupt"}] /\ NothingCorrupt'
  BY Zenon, <1>1, <1>2 DEF NothingCorrupt, LfsInv
<1>4. CASE pc[op] \in DOMAIN Undo
  <2>1. pc' = [pc EXCEPT ![op] = Undo[pc[op]]] /\ UNCHANGED then
    BY Zenon, <1>4 DEF Raise, Goto
  <2>2. Undo[pc[op]] \in Guarded
    BY <1>4 DEF Undo, Guarded
  <2> QED BY SMTT(30), <1>1, <1>3, <1>4, <2>1, <2>2
<1>5. CASE pc[op] \notin DOMAIN Undo
  <2>1. ErrorExit(op) \in {"abort", "release", "done", "idle"}
    BY Zenon DEF ErrorExit, End
  <2> QED BY <1>1, <1>3, <1>5, <2>1 DEF Raise, Goto, Guarded
<1> QED BY Zenon, <1>4, <1>5

\* The counters of an upload depend on what is stored only.
LEMMA CountersKept ==
    ASSUME NEW u, UNCHANGED content, UNCHANGED request
    PROVE  /\ CountWith(bucket.payloads, bucket.uploads)'
                  = CountWith(bucket.payloads, bucket.uploads)
           /\ CountWith(bucket.payloads, bucket.uploads \ {u})'
                  = CountWith(bucket.payloads, bucket.uploads \ {u})
           /\ CountWith(bucket.payloads, bucket.uploads \cup {u})'
                  = CountWith(bucket.payloads, bucket.uploads \cup {u})
BY Zenon DEF content, CountWith, Charge, Bytes, Size

\* An error that leaves the content alone: every error path finds what it has
\* to clean up, and the ledger is exact or dirty.
LEMMA RaiseKeeps ==
    ASSUME LfsInv, NEW op \in Actor, pc[op] \in Guarded \ {"unlock"}, Raise(op, "failed"),
           UNCHANGED <<content, expired, lock, request, local>>,
           bucket' \in Bucket, LedgerExact',
           pc[op] \in {"create", "record"} => bucket' = bucket
    PROVE  LfsInv'
<1>1. TypeOK' /\ NothingCorrupt'
  BY Zenon, RaiseEffect DEF LfsInv, TypeOK, local
<1>2. Alone(op)
  BY Zenon, RaiseEffect DEF Alone, Mine, local
<1>3. /\ bucket'.uploads = bucket.uploads /\ bucket'.recorded = bucket.recorded
      /\ bucket'.multipart = bucket.multipart /\ bucket'.payloads = bucket.payloads
      /\ quota' = quota /\ request' = request /\ work' = work
  BY Zenon DEF content, local
<1>4. ASSUME op \in Upload
      PROVE  UploadInv(op)'
  <2>1. TokenInv(op) /\ PartsInv(op) /\ ContentInv(op) /\ QuotaInv(op)
    BY Zenon, <1>4 DEF LfsInv
  <2>2. \/ pc[op] = "create" /\ pc'[op] = "undoDelete"
        \/ pc[op] = "record" /\ pc'[op] = "undoAbort"
        \/ pc[op] = "charge" /\ pc'[op] = "cleanup"
        \/ pc[op] = "verify" /\ pc'[op] = "settle"
        \/ /\ pc'[op] = "unlock" /\ then'[op] \in {"done", "abort", "release"}
           /\ then'[op] = "release" => pc[op] = "settle"
    BY <1>4, RaiseEffect DEF Undo, ErrorExit, End
  <2>3. TokenInv(op)'
    BY Zenon, <1>3, <2>1, <2>2 DEF TokenInv, Fresh, UploadSteps, Stopped, Guarded
  <2>4. PartsInv(op)'
    BY Zenon, <1>3, <2>1, <2>2 DEF PartsInv, Bound
  <2>5. ContentInv(op)'
    BY Zenon, <1>3, <2>1, <2>2 DEF ContentInv
  <2>6. QuotaInv(op)'
    BY ZenonT(30), <1>3, <2>1, <2>2, CountersKept DEF QuotaInv, Count
  <2> QED BY Zenon, <2>3, <2>4, <2>5, <2>6 DEF UploadInv
<1>5. ASSUME op \in Task
      PROVE  TaskInv(op)'
  <2>1. TaskInv(op) /\ op \notin Upload
    BY Zenon, <1>5, LfsAssumption DEF LfsInv
  <2>2. pc'[op] = "unlock" /\ then'[op] = "idle"
    BY Zenon, <2>1, RaiseEffect DEF TaskInv, TaskSteps, Stopped, Undo, ErrorExit, End, Guarded
  <2> QED BY Zenon, <2>2 DEF TaskInv, TaskSteps
<1>6. DirtyInv(op)'
  <2>1. \/ pc[op] = "create" /\ pc'[op] = "undoDelete"
        \/ pc[op] = "record" /\ pc'[op] = "undoAbort"
        \/ pc'[op] \in {"cleanup", "settle", "unlock"}
    BY RaiseEffect DEF Undo
  <2>2. DirtyInv(op)
    BY Zenon DEF LfsInv
  <2> QED BY Zenon, <2>1, <2>2 DEF DirtyInv, Dirty
<1> QED BY Zenon, <1>1, <1>2, <1>4, <1>5, <1>6, LedgerStep

\* Fail: any call under the lock may fail without effect.
LEMMA FailKeeps ==
    ASSUME LfsInv, NEW op \in Actor, Fail(op)
    PROVE  LfsInv'
<1>1. UNCHANGED content /\ bucket' \in Bucket
  BY Zenon DEF Fail, content, LfsInv, TypeOK
<1>2. LedgerExact'
  <2>1. Count(bucket)' = Count(bucket)
    BY Zenon, <1>1, ContentKept DEF Fail
  <2> QED BY Zenon, <2>1 DEF Fail, LfsInv, LedgerExact, Counters
<1> QED BY Zenon, <1>1, <1>2, RaiseKeeps DEF Fail

\* The call has no effect, or is refused.
LEMMA RefusedKeeps ==
    ASSUME LfsInv, NEW op \in Actor, pc[op] \in Guarded \ {"unlock"}, Raise(op, "failed"),
           UNCHANGED <<bucket, expired, lock, request, local>>
    PROVE  LfsInv'
BY Zenon, FailKeeps DEF Fail

-----------------------------------------------------------------------------
(* Steps that read or write the ledger. *)

\* What is left to show of a successful Put, and from what.
Saved(op, q, d, to) ==
    /\ UNCHANGED <<content, request, work>>
    /\ pc'[op] = to /\ quota'[op] = q
    /\ d => Dirty'
    /\ Own(op)' => LfsInv'

\* lfsQuota: loading, marking, charging and releasing.
LEMMA LedgerSteps ==
    ASSUME SetLaws, LfsInv, UNCHANGED <<expired, lock, request>>
    PROVE  /\ \A u \in Upload :
                  AdmitLoad(u) \/ FinishLoad(u) \/ ReleaseLoad(u) \/ Admit(u) \/ FinishFence(u)
                  \/ ReleaseFence(u) \/ ChargeReservation(u) \/ CleanupSave(u) \/ ReleaseSave(u)
                  \/ Settle(u) \/ Cleanup(u) => LfsInv'
           /\ \A op \in Task : Invalidate(op) \/ RebuildAfter(op) => LfsInv'

\* A ledger that is dirty or counts what is stored may be written at any time.
<1>LedgerPut.
    ASSUME NEW q \in Quota, NEW d \in BOOLEAN, d \/ q = Count(bucket),
           bucket' = [bucket EXCEPT !.ledger = Ledger(q, d)], UNCHANGED request
    PROVE  /\ UNCHANGED content
           /\ bucket' \in Bucket /\ bucket'.ledger = Ledger(q, d) /\ bucket'.ledger \in Stored
           /\ LedgerExact'
           /\ d => Dirty'
  <2> USE <1>LedgerPut
  <2>1. bucket \in Bucket
    BY Zenon DEF LfsInv, TypeOK
  <2>2. Ledger(q, d) \in Stored
    BY Zenon DEF Quota, Stored, Ledger
  <2>3. bucket' \in Bucket /\ bucket'.ledger = Ledger(q, d) /\ UNCHANGED content
    BY Zenon, <2>1, <2>2 DEF Bucket, content
  <2>4. Ledger(q, d).dirty = d /\ Counters(Ledger(q, d)) = q
    BY Zenon DEF Ledger, Counters, Quota
  <2>5. LedgerExact'
    <3>1. Count(bucket)' = Count(bucket)
      BY Zenon, <2>3, ContentKept
    <3> QED BY Zenon, <2>3, <2>4, <3>1 DEF LedgerExact, Counters
  <2> QED BY Zenon, <2>2, <2>3, <2>4, <2>5 DEF Dirty

\* The Put reports an error although it took effect.
<1>LostKeeps.
    ASSUME NEW op \in Actor, pc[op] \in Guarded \ {"unlock", "create", "record"},
           NEW q \in Quota, NEW d \in BOOLEAN, d \/ q = Count(bucket),
           Lost(op, [bucket EXCEPT !.ledger = Ledger(q, d)]),
           UNCHANGED <<expired, lock, request>>
    PROVE  LfsInv'
  <2> USE <1>LostKeeps
  <2>1. /\ bucket' = [bucket EXCEPT !.ledger = Ledger(q, d)] /\ Raise(op, "failed")
        /\ UNCHANGED local
    BY Zenon DEF Lost
  <2>2. UNCHANGED content /\ bucket' \in Bucket /\ LedgerExact'
    BY Zenon, <2>1, <1>LedgerPut
  <2> QED BY Zenon, <2>1, <2>2, RaiseKeeps

\* The Put succeeds, and the operation goes on to a step that may rely on it.
<1>SavedKeeps.
    ASSUME NEW op \in Actor, pc[op] \in Guarded,
           NEW q \in Quota, NEW d \in BOOLEAN, d \/ q = Count(bucket),
           bucket' = [bucket EXCEPT !.ledger = Ledger(q, d)],
           quota' = [quota EXCEPT ![op] = q],
           seen' = [seen EXCEPT ![op] = bucket'.ledger],
           UNCHANGED <<work, expired, lock, request, result>>,
           NEW to \in Guarded, pc' = [pc EXCEPT ![op] = to],
           NEW back \in {"idle", "done", "stream", "body", "abort", "release"},
           then' = then \/ then' = [then EXCEPT ![op] = back],
           DirtyInv(op)',
           op \in Upload => UploadInv(op)',
           op \in Task => TaskInv(op)'
    PROVE  LfsInv'
  <2> USE <1>SavedKeeps
  <2>1. UNCHANGED content /\ bucket' \in Bucket /\ bucket'.ledger \in Stored /\ LedgerExact'
    BY Zenon, <1>LedgerPut
  <2>2. TypeOK'
    BY Zenon, <2>1 DEF LfsInv, TypeOK
  <2>3. NothingCorrupt'
    BY Zenon DEF LfsInv, NothingCorrupt
  <2>4. Alone(op)
    BY Zenon DEF Alone, Mine, LfsInv, TypeOK
  <2> QED BY Zenon, <2>1, <2>2, <2>3, <2>4, LedgerStep

\* Save and go on to the next step.
<1>SaveContinues.
    ASSUME NEW op \in Actor, pc[op] \in Guarded \ {"unlock", "create", "record"},
           NEW q \in Quota, NEW d \in BOOLEAN, d \/ q = Count(bucket), NEW version,
           NEW to \in Guarded, Save(op, q, d, version, Continue(op, to)),
           UNCHANGED <<expired, lock, request>>
    PROVE  LfsInv' \/ Saved(op, q, d, to)
  <2> USE <1>SaveContinues
  <2> DEFINE new == [bucket EXCEPT !.ledger = Ledger(q, d)]
  <2>1. CASE Raise(op, "failed") /\ UNCHANGED <<bucket, local>>
    BY Zenon, <2>1, RefusedKeeps
  <2>2. CASE Lost(op, new)
    BY Zenon, <2>2, <1>LostKeeps
  <2>3. CASE /\ bucket' = new /\ quota' = [quota EXCEPT ![op] = q]
             /\ seen' = [seen EXCEPT ![op] = new.ledger]
             /\ Continue(op, to) /\ UNCHANGED work
    <3>1. UNCHANGED content /\ (d => Dirty')
      BY Zenon, <2>3, <1>LedgerPut
    <3>2. pc'[op] = to /\ quota'[op] = q
      BY Zenon, <2>3 DEF Continue, Goto, LfsInv, TypeOK
    <3>3. Own(op)' => LfsInv'
      BY Zenon, <2>3, <1>SavedKeeps DEF Own, Continue, Goto
    <3> QED BY Zenon, <2>3, <3>1, <3>2, <3>3 DEF Saved
  <2> QED BY Zenon, <2>1, <2>2, <2>3 DEF Save

\* Save and return to the caller.
<1>SaveReturns.
    ASSUME NEW op \in Actor, pc[op] \in Guarded \ {"unlock", "create", "record"},
           NEW q \in Quota, NEW d \in BOOLEAN, d \/ q = Count(bucket), NEW version,
           NEW back \in {"idle", "done", "stream", "body", "abort", "release"},
           Save(op, q, d, version, Return(op, back)),
           UNCHANGED <<expired, lock, request>>
    PROVE  LfsInv' \/ (Saved(op, q, d, "unlock") /\ then'[op] = back)
  <2> USE <1>SaveReturns
  <2> DEFINE new == [bucket EXCEPT !.ledger = Ledger(q, d)]
  <2>1. CASE Raise(op, "failed") /\ UNCHANGED <<bucket, local>>
    BY Zenon, <2>1, RefusedKeeps
  <2>2. CASE Lost(op, new)
    BY Zenon, <2>2, <1>LostKeeps
  <2>3. CASE /\ bucket' = new /\ quota' = [quota EXCEPT ![op] = q]
             /\ seen' = [seen EXCEPT ![op] = new.ledger]
             /\ Return(op, back) /\ UNCHANGED work
    <3>1. UNCHANGED content /\ (d => Dirty')
      BY Zenon, <2>3, <1>LedgerPut
    <3>2. pc'[op] = "unlock" /\ quota'[op] = q /\ then'[op] = back
      BY Zenon, <2>3 DEF Return, Goto, LfsInv, TypeOK
    <3>3. Own(op)' => LfsInv'
      BY ZenonT(30), <2>3, <1>SavedKeeps DEF Own, Return, Goto, Guarded
    <3> QED BY Zenon, <2>3, <3>1, <3>2, <3>3 DEF Saved
  <2> QED BY Zenon, <2>1, <2>2, <2>3 DEF Save

\* The counters of what is stored are those of a ledger.
<1>CountIsQuota.
    /\ Count(bucket) \in Quota
    /\ bucket.ledger # NoLedger => Counters(bucket.ledger) \in Quota
  <2>1. bucket.uploads \in SUBSET Upload /\ bucket.ledger \in Stored \cup {NoLedger}
    BY Zenon DEF LfsInv, TypeOK, Bucket
  <2>2. Count(bucket) \in Quota
    BY Zenon, <2>1, CountType DEF LfsInv, Finite, Count
  <2> QED BY Zenon, <2>1, <2>2 DEF Stored, Quota, Counters

\* Load: the counters in memory are those of what is stored.
<1>LoadOutcome.
    ASSUME NEW op \in Actor, pc[op] \in Guarded \ {"unlock", "create", "record"},
           NEW to \in Guarded, Load(op, to), UNCHANGED <<expired, lock, request>>
    PROVE  \/ LfsInv'
           \/ /\ UNCHANGED <<content, request, work>>
              /\ pc'[op] = to /\ quota'[op] = Count(bucket)
              /\ Own(op)' => LfsInv'
  <2> USE <1>LoadOutcome
  <2>1. Count(bucket) \in Quota
    BY Zenon, <1>CountIsQuota
  <2>2. CASE bucket.ledger = NoLedger \/ bucket.ledger.dirty
    <3>1. Rebuild(op, bucket.ledger, Continue(op, to))
      BY Zenon, <2>2 DEF Load
    <3>2. \A oid \in Oid : Verified(oid) => Backed(oid)
      BY Zenon DEF LfsInv, RecordsHaveContent
    <3>3. \/ Save(op, Count(bucket), FALSE, bucket.ledger, Continue(op, to))
          \/ Raise(op, "failed") /\ UNCHANGED <<bucket, local>>
      BY Zenon, <3>1, <3>2 DEF Rebuild
    <3>4. LfsInv' \/ Saved(op, Count(bucket), FALSE, to)
      BY Zenon, <2>1, <3>3, <1>SaveContinues, RefusedKeeps
    <3> QED BY Zenon, <3>4 DEF Saved
  <2>3. CASE bucket.ledger # NoLedger /\ ~ bucket.ledger.dirty
    <3>1. /\ quota' = [quota EXCEPT ![op] = Counters(bucket.ledger)]
          /\ seen' = [seen EXCEPT ![op] = bucket.ledger]
          /\ Continue(op, to) /\ UNCHANGED <<bucket, work>>
      BY Zenon, <2>3 DEF Load
    <3>2. Counters(bucket.ledger) = Count(bucket)
      BY Zenon, <2>3 DEF LfsInv, LedgerExact
    <3>3. /\ UNCHANGED content /\ Count(bucket)' = Count(bucket)
          /\ pc'[op] = to /\ quota'[op] = Count(bucket)
      BY <3>1, <3>2 DEF content, Continue, Goto, Count, CountWith, Charge, Bytes, Size,
                        LfsInv, TypeOK
    <3>4. TypeOK' /\ NothingCorrupt' /\ Alone(op)
      BY <2>1, <3>1, <3>2 DEF LfsInv, TypeOK, NothingCorrupt, Alone, Mine, Continue, Goto,
                              Bucket
    <3>5. LedgerExact'
      BY Zenon, <3>1, <3>3 DEF LfsInv, LedgerExact, Counters
    <3>6. Own(op)' => LfsInv'
      BY ZenonT(30), <3>3, <3>4, <3>5, LedgerStep DEF Own
    <3> QED BY Zenon, <3>1, <3>3, <3>6
  <2> QED BY Zenon, <2>2, <2>3

\* loadLFSQuota in reserveLFS, finishLFS and releaseLFSReservation
<1>LoadKeeps.
    ASSUME NEW u \in Upload, AdmitLoad(u) \/ FinishLoad(u) \/ ReleaseLoad(u),
           UNCHANGED <<expired, lock, request>>
    PROVE  LfsInv'
  <2> USE <1>LoadKeeps
  <2>1. u \in Actor /\ u \notin Task
    BY Zenon, LfsAssumption DEF Actor
  <2>2. PICK to \in {"admit", "finishFence", "releaseFence"} :
            /\ Load(u, to)
            /\ \/ pc[u] = "admitLoad" /\ to = "admit"
               \/ pc[u] = "finishLoad" /\ to = "finishFence"
               \/ pc[u] = "releaseLoad" /\ to = "releaseFence"
    BY Zenon DEF AdmitLoad, FinishLoad, ReleaseLoad
  <2>3. CASE LfsInv'
    BY Zenon, <2>3
  <2>4. CASE /\ UNCHANGED <<content, request, work>>
             /\ pc'[u] = to /\ quota'[u] = Count(bucket)
             /\ Own(u)' => LfsInv'
    <3>1. /\ bucket'.uploads = bucket.uploads /\ bucket'.recorded = bucket.recorded
          /\ bucket'.multipart = bucket.multipart /\ bucket'.payloads = bucket.payloads
          /\ request' = request
      BY Zenon, <2>4 DEF content
    <3>2. TokenInv(u) /\ PartsInv(u) /\ ContentInv(u)
      BY Zenon DEF LfsInv
    <3>3. TokenInv(u)'
      BY Zenon, <2>2, <2>4, <3>1, <3>2 DEF TokenInv, Fresh, UploadSteps
    <3>4. PartsInv(u)' /\ ContentInv(u)'
      BY Zenon, <2>2, <2>4, <3>1, <3>2 DEF PartsInv, ContentInv, Bound
    <3>5. Count(bucket)' = Count(bucket)
      BY ZenonT(30), <2>4, ContentKept
    <3>6. QuotaInv(u)' /\ DirtyInv(u)'
      BY Zenon, <2>2, <2>4, <3>5 DEF QuotaInv, DirtyInv
    <3> QED BY ZenonT(30), <2>1, <2>4, <3>3, <3>4, <3>6 DEF Own, UploadInv
  <2> QED BY ZenonT(30), <2>1, <2>2, <2>3, <2>4, <1>LoadOutcome DEF Guarded

\* What a ledger step leaves to the invariant of its upload.
<1>SavedUpload.
    ASSUME NEW u \in Upload, NEW q, NEW d, NEW to, Saved(u, q, d, to)
    PROVE  /\ u \in Actor /\ u \notin Task
           /\ bucket'.uploads = bucket.uploads /\ bucket'.recorded = bucket.recorded
           /\ bucket'.multipart = bucket.multipart /\ bucket'.payloads = bucket.payloads
           /\ request' = request /\ pc'[u] = to /\ quota'[u] = q
           /\ d => Dirty'
           /\ TokenInv(u) /\ PartsInv(u) /\ ContentInv(u) /\ QuotaInv(u)
           /\ Count(bucket)' = Count(bucket)
           /\ CountWith(bucket.payloads, bucket.uploads)'
                  = CountWith(bucket.payloads, bucket.uploads)
           /\ CountWith(bucket.payloads, bucket.uploads \ {u})'
                  = CountWith(bucket.payloads, bucket.uploads \ {u})
           /\ CountWith(bucket.payloads, bucket.uploads \cup {u})'
                  = CountWith(bucket.payloads, bucket.uploads \cup {u})
           /\ DirtyInv(u)' /\ TokenInv(u)' /\ PartsInv(u)' /\ ContentInv(u)' /\ QuotaInv(u)'
                  => LfsInv'
  <2> USE <1>SavedUpload
  <2>1. UNCHANGED content /\ UNCHANGED request /\ (Own(u)' => LfsInv')
    BY Zenon DEF Saved
  <2>2. u \in Actor /\ u \notin Task
    BY Zenon, LfsAssumption DEF Actor
  <2>3. TokenInv(u) /\ PartsInv(u) /\ ContentInv(u) /\ QuotaInv(u)
    BY Zenon DEF LfsInv
  <2>4. Own(u)' <=> DirtyInv(u)' /\ TokenInv(u)' /\ PartsInv(u)' /\ ContentInv(u)' /\ QuotaInv(u)'
    BY Zenon, <2>2 DEF Own, UploadInv
  <2> QED BY ZenonT(30), <2>1, <2>2, <2>3, <2>4, ContentKept, CountersKept DEF Saved, content

\* The ledger is marked dirty before anything that it counts changes.
<1>FenceKeeps.
    ASSUME NEW u \in Upload, Admit(u) \/ FinishFence(u) \/ ReleaseFence(u),
           UNCHANGED <<expired, lock, request>>
    PROVE  LfsInv'
  <2> USE <1>FenceKeeps
  <2>1. /\ u \in Actor /\ quota[u] \in Quota
        /\ TokenInv(u) /\ PartsInv(u) /\ ContentInv(u) /\ QuotaInv(u)
    BY Zenon DEF LfsInv, TypeOK, Actor
  <2>2. /\ pc[u] \in {"admit", "finishFence", "releaseFence"}
        /\ pc[u] \in Guarded \ {"unlock", "create", "record"}
    BY Zenon DEF Admit, FinishFence, ReleaseFence, Guarded
  <2>3. quota[u] = Count(bucket) /\ quota[u].reservations = bucket.uploads
    <3>1. quota[u] = Count(bucket)
      BY Zenon, <2>1, <2>2 DEF QuotaInv
    <3>2. Count(bucket).reservations = bucket.uploads
      BY Zenon DEF Count, CountWith
    <3> QED BY Zenon, <3>1, <3>2
  <2>4. CASE \E to \in {"announce", "complete", "releaseDelete"} :
                 /\ Save(u, quota[u], TRUE, seen[u], Continue(u, to))
                 /\ \/ pc[u] = "admit" /\ to = "announce" /\ Admits(quota[u], request[u])
                    \/ pc[u] = "finishFence" /\ to = "complete"
                    \/ pc[u] = "releaseFence" /\ to = "releaseDelete" /\ u \in bucket.uploads
    <3>1. PICK to \in {"announce", "complete", "releaseDelete"} :
                 /\ Save(u, quota[u], TRUE, seen[u], Continue(u, to))
                 /\ \/ pc[u] = "admit" /\ to = "announce" /\ Admits(quota[u], request[u])
                    \/ pc[u] = "finishFence" /\ to = "complete"
                    \/ pc[u] = "releaseFence" /\ to = "releaseDelete" /\ u \in bucket.uploads
      BY ZenonT(30), <2>4
    <3>2. to \in Guarded
      BY Zenon DEF Guarded
    <3>3. LfsInv' \/ Saved(u, quota[u], TRUE, to)
      BY Zenon, <2>1, <2>2, <3>1, <3>2, <1>SaveContinues
    <3>4. ASSUME Saved(u, quota[u], TRUE, to) PROVE LfsInv'
      <4>1. /\ bucket'.uploads = bucket.uploads /\ bucket'.recorded = bucket.recorded
            /\ bucket'.multipart = bucket.multipart /\ bucket'.payloads = bucket.payloads
            /\ request' = request /\ pc'[u] = to /\ quota'[u] = quota[u] /\ Dirty'
            /\ Count(bucket)' = Count(bucket)
            /\ DirtyInv(u)' /\ TokenInv(u)' /\ PartsInv(u)' /\ ContentInv(u)' /\ QuotaInv(u)'
                    => LfsInv'
        BY ZenonT(30), <3>4, <1>SavedUpload
      <4>2. TokenInv(u)'
        BY Zenon, <2>1, <3>1, <4>1 DEF TokenInv, Fresh, UploadSteps
      <4>3. PartsInv(u)' /\ ContentInv(u)'
        BY Zenon, <2>1, <3>1, <4>1 DEF PartsInv, ContentInv, Bound
      <4>4. QuotaInv(u)'
        BY ZenonT(30), <2>3, <3>1, <4>1 DEF QuotaInv, Admits
      <4>5. DirtyInv(u)'
        BY ZenonT(30), <4>1 DEF DirtyInv
      <4> QED BY ZenonT(30), <4>1, <4>2, <4>3, <4>4, <4>5
    <3> QED BY Zenon, <3>3, <3>4
  <2>5. CASE Raise(u, "failed") /\ UNCHANGED <<bucket, local>>
    BY ZenonT(30), <2>1, <2>2, <2>5, RefusedKeeps
  <2>6. CASE pc[u] = "releaseFence" /\ Return(u, "done") /\ UNCHANGED <<bucket, local>>
    <3>1. /\ pc'[u] = "unlock" /\ then'[u] = "done"
          /\ UNCHANGED content /\ UNCHANGED request
          /\ quota' = quota /\ work' = work
      BY Zenon, <2>1, <2>6 DEF Return, Goto, content, local, LfsInv, TypeOK
    <3>2. TypeOK' /\ NothingCorrupt' /\ Alone(u)
      BY Zenon, <2>1, <2>2, <2>6, <3>1
         DEF LfsInv, TypeOK, NothingCorrupt, Alone, Mine, Return, Goto, local, Guarded
    <3>3. LedgerExact'
      <4>1. Count(bucket)' = Count(bucket)
        BY Zenon, <3>1, ContentKept
      <4> QED BY Zenon, <2>6, <4>1 DEF LfsInv, LedgerExact, Counters
    <3>4. UploadInv(u)' /\ DirtyInv(u)' /\ u \notin Task
      BY ZenonT(30), <2>1, <2>6, <3>1, LfsAssumption
         DEF UploadInv, TokenInv, PartsInv, ContentInv, QuotaInv, DirtyInv, Bound, UploadSteps
    <3> QED BY ZenonT(30), <2>1, <3>1, <3>2, <3>3, <3>4, LedgerStep
  <2> QED
    BY ZenonT(30), <2>1, <2>2, <2>3, <2>4, <2>5, <2>6 DEF Admit, FinishFence, ReleaseFence,
                                                          TokenInv

\* The counters with and without the reservation of an upload that has no payload.
<1>OwnCharge.
    ASSUME NEW u \in Upload, request[u] \in Object, u \notin bucket.payloads
    PROVE  /\ u \in bucket.uploads =>
                  /\ CountWith(bucket.payloads, bucket.uploads \ {u}) \in Quota
                  /\ Charged(CountWith(bucket.payloads, bucket.uploads \ {u}), u) = Count(bucket)
           /\ u \notin bucket.uploads =>
                  Uncharged(CountWith(bucket.payloads, bucket.uploads \cup {u}), u)
                      = Count(bucket)
  <2> USE <1>OwnCharge
  <2> DEFINE P == bucket.payloads
             U == bucket.uploads
  <2>1. Size(u) \in Nat /\ U \in SUBSET Upload
    BY Zenon, LfsAssumption DEF Size, LfsInv, TypeOK, Bucket
  <2>2. IsFiniteSet(P \cup U) /\ IsFiniteSet(Bytes(P \cup U)) /\ u \notin P
    BY ZenonT(30) DEF LfsInv, Finite
  <2>3. Count(bucket) = CountWith(P, U)
    BY Zenon DEF Count
  <2> HIDE DEF P, U
  <2>4. ASSUME u \in U
        PROVE  /\ CountWith(P, U \ {u}) \in Quota
               /\ Charged(CountWith(P, U \ {u}), u) = CountWith(P, U)
    <3>1. P \cup (U \ {u}) \in SUBSET (P \cup U)
      BY Zenon
    <3>2. IsFiniteSet(P \cup (U \ {u})) /\ IsFiniteSet(Bytes(P \cup (U \ {u})))
      BY Zenon, <2>2, <3>1, ChargeSubset
    <3>3. u \notin P \cup (U \ {u}) /\ (U \ {u}) \cup {u} = U
      BY Zenon, <2>2, <2>4
    <3>4. CountWith(P, (U \ {u}) \cup {u}) = Charged(CountWith(P, U \ {u}), u)
      BY <2>1, <3>2, <3>3, CountCharged
    <3>5. CountWith(P, U \ {u}) \in Quota
      BY Zenon, <2>1, <3>2, CountType
    <3> QED BY ZenonT(30), <3>3, <3>4, <3>5
  <2>5. ASSUME u \notin U
        PROVE  Uncharged(CountWith(P, U \cup {u}), u) = CountWith(P, U)
    BY <2>1, <2>2, <2>5, CountCharged
  <2> QED BY Zenon, <2>3, <2>4, <2>5 DEF P, U

\* The last Put of reserveLFS: the counters with the new reservation.
<1>ChargeReservationKeeps.
    ASSUME NEW u \in Upload, ChargeReservation(u), UNCHANGED <<expired, lock, request>>
    PROVE  LfsInv'
  <2> USE <1>ChargeReservationKeeps
  <2>1. pc[u] = "charge" /\ Save(u, Charged(quota[u], u), FALSE, seen[u], Return(u, "stream"))
    BY ZenonT(30) DEF ChargeReservation
  <2>2. u \in Actor /\ TokenInv(u) /\ PartsInv(u) /\ QuotaInv(u)
    BY Zenon DEF LfsInv, Actor
  <2>3. /\ request[u] \in Object /\ u \in bucket.uploads \cap bucket.recorded
        /\ u \notin bucket.payloads
        /\ quota[u] = CountWith(bucket.payloads, bucket.uploads \ {u})
    BY Zenon, <2>1, <2>2 DEF TokenInv, PartsInv, QuotaInv
  <2>4. Charged(quota[u], u) = Count(bucket)
    BY Zenon, <2>3, <1>OwnCharge
  <2>5. LfsInv' \/ (Saved(u, Count(bucket), FALSE, "unlock") /\ then'[u] = "stream")
    BY Zenon, <2>1, <2>2, <2>4, <1>CountIsQuota, <1>SaveReturns DEF Guarded
  <2>6. ASSUME Saved(u, Count(bucket), FALSE, "unlock"), then'[u] = "stream"
        PROVE  LfsInv'
    <3>1. /\ bucket'.uploads = bucket.uploads /\ bucket'.recorded = bucket.recorded
          /\ request' = request /\ pc'[u] = "unlock"
          /\ DirtyInv(u)' /\ TokenInv(u)' /\ PartsInv(u)' /\ ContentInv(u)' /\ QuotaInv(u)'
                 => LfsInv'
      BY ZenonT(30), <2>6, <1>SavedUpload
    <3>2. TokenInv(u)' /\ PartsInv(u)' /\ ContentInv(u)' /\ QuotaInv(u)' /\ DirtyInv(u)'
      BY ZenonT(30), <2>3, <2>6, <3>1
         DEF TokenInv, PartsInv, ContentInv, QuotaInv, DirtyInv, Bound, UploadSteps
    <3> QED BY Zenon, <3>1, <3>2
  <2> QED BY Zenon, <2>5, <2>6

\* A save after which the upload has nothing left to do under the lock.
<1>LastSaveKeeps.
    ASSUME NEW u \in Upload, pc[u] \in {"cleanupSave", "settle", "releaseSave"},
           NEW back \in {"done", "release"},
           back = "release" => bucket.multipart[u] = "none",
           Save(u, Count(bucket), FALSE, seen[u], Return(u, back)),
           UNCHANGED <<expired, lock, request>>
    PROVE  LfsInv'
  <2> USE <1>LastSaveKeeps
  <2>1. u \in Actor /\ TokenInv(u)
    BY Zenon DEF LfsInv, Actor
  <2>2. LfsInv' \/ (Saved(u, Count(bucket), FALSE, "unlock") /\ then'[u] = back)
    BY ZenonT(30), <2>1, <1>CountIsQuota, <1>SaveReturns DEF Guarded
  <2>3. ASSUME Saved(u, Count(bucket), FALSE, "unlock"), then'[u] = back
        PROVE  LfsInv'
    <3>1. /\ bucket'.multipart = bucket.multipart /\ request' = request /\ pc'[u] = "unlock"
          /\ DirtyInv(u)' /\ TokenInv(u)' /\ PartsInv(u)' /\ ContentInv(u)' /\ QuotaInv(u)'
                 => LfsInv'
      BY ZenonT(30), <2>3, <1>SavedUpload
    <3>2. TokenInv(u)' /\ PartsInv(u)' /\ ContentInv(u)' /\ QuotaInv(u)' /\ DirtyInv(u)'
      BY Zenon, <2>1, <2>3, <3>1
         DEF TokenInv, PartsInv, ContentInv, QuotaInv, DirtyInv, Bound, UploadSteps
    <3> QED BY Zenon, <3>1, <3>2
  <2> QED BY ZenonT(30), <2>2, <2>3

\* cleanupLFSInitialization takes its own charge off, if it was stored.
<1>CleanupSaveKeeps.
    ASSUME NEW u \in Upload, CleanupSave(u), UNCHANGED <<expired, lock, request>>
    PROVE  LfsInv'
  <2> USE <1>CleanupSaveKeeps
  <2> DEFINE with(U) == CountWith(bucket.payloads, U)
             q == IF u \in quota[u].reservations THEN Uncharged(quota[u], u) ELSE quota[u]
  <2>1. pc[u] = "cleanupSave" /\ Save(u, q, FALSE, seen[u], Return(u, "done"))
    BY Zenon DEF CleanupSave
  <2>2. TokenInv(u) /\ QuotaInv(u)
    BY Zenon DEF LfsInv
  <2>3. /\ request[u] \in Object /\ u \notin bucket.payloads /\ u \notin bucket.uploads
        /\ quota[u] \in {with(bucket.uploads), with(bucket.uploads \cup {u})}
    BY Zenon, <2>1, <2>2 DEF TokenInv, QuotaInv
  <2>4. with(bucket.uploads) = Count(bucket)
    BY Zenon DEF Count
  <2>5. /\ with(bucket.uploads).reservations = bucket.uploads
        /\ with(bucket.uploads \cup {u}).reservations = bucket.uploads \cup {u}
    BY Zenon DEF CountWith
  <2>6. Uncharged(with(bucket.uploads \cup {u}), u) = Count(bucket)
    BY Zenon, <2>3, <1>OwnCharge
  <2> HIDE DEF with
  <2>7. q = Count(bucket)
    BY Zenon, <2>3, <2>4, <2>5, <2>6
  <2> QED BY Zenon, <2>1, <2>7, <1>LastSaveKeeps

\* releaseLFSReservation, after the Delete: a payload stays charged.
<1>ReleaseSaveKeeps.
    ASSUME NEW u \in Upload, ReleaseSave(u), UNCHANGED <<expired, lock, request>>
    PROVE  LfsInv'
  <2> USE <1>ReleaseSaveKeeps
  <2> DEFINE with(U) == CountWith(bucket.payloads, U)
             q == IF u \in bucket.payloads THEN [quota[u] EXCEPT !.reservations = @ \ {u}]
                                           ELSE Uncharged(quota[u], u)
  <2>1. pc[u] = "releaseSave" /\ Save(u, q, FALSE, seen[u], Return(u, "done"))
    BY Zenon DEF ReleaseSave
  <2>2. TokenInv(u) /\ QuotaInv(u)
    BY Zenon DEF LfsInv
  <2>3. /\ request[u] \in Object /\ u \notin bucket.uploads
        /\ quota[u] = with(bucket.uploads \cup {u})
    BY Zenon, <2>1, <2>2 DEF TokenInv, QuotaInv
  <2>4. CASE u \in bucket.payloads
    <3>1. /\ bucket.payloads \cup (bucket.uploads \cup {u}) = bucket.payloads \cup bucket.uploads
          /\ (bucket.uploads \cup {u}) \ {u} = bucket.uploads
      BY Zenon, <2>3, <2>4
    <3>2. [with(bucket.uploads \cup {u}) EXCEPT !.reservations = @ \ {u}] = Count(bucket)
      BY <3>1 DEF CountWith, Count
    <3> QED BY Zenon, <2>1, <2>3, <2>4, <3>2, <1>LastSaveKeeps
  <2>5. CASE u \notin bucket.payloads
    <3>1. Uncharged(with(bucket.uploads \cup {u}), u) = Count(bucket)
      BY Zenon, <2>3, <2>5, <1>OwnCharge
    <3> QED BY Zenon, <2>1, <2>3, <2>5, <3>1, <1>LastSaveKeeps
  <2> QED BY Zenon, <2>4, <2>5

\* The deferred Put of finishLFS.
<1>SettleKeeps.
    ASSUME NEW u \in Upload, Settle(u), UNCHANGED <<expired, lock, request>>
    PROVE  LfsInv'
  <2> USE <1>SettleKeeps
  <2>1. pc[u] = "settle" /\ Save(u, quota[u], FALSE, seen[u], Return(u, "release"))
    BY Zenon DEF Settle
  <2>2. PartsInv(u) /\ QuotaInv(u)
    BY Zenon DEF LfsInv
  <2>3. bucket.multipart[u] = "none" /\ quota[u] = Count(bucket)
    BY Zenon, <2>1, <2>2 DEF PartsInv, QuotaInv
  <2> QED BY Zenon, <2>1, <2>3, <1>LastSaveKeeps

\* cleanupLFSInitialization marks whichever ledger it finds.
<1>CleanupKeeps.
    ASSUME NEW u \in Upload, Cleanup(u), UNCHANGED <<expired, lock, request>>
    PROVE  LfsInv'
  <2> USE <1>CleanupKeeps
  <2> DEFINE q == Counters(bucket.ledger)
  <2>1. /\ pc[u] = "cleanup"
        /\ IF q \in {quota[u], Charged(quota[u], u)}
           THEN Save(u, q, TRUE, bucket.ledger, Continue(u, "cleanupAbort"))
           ELSE Raise(u, "failed") /\ UNCHANGED <<bucket, local>>
    BY ZenonT(30) DEF Cleanup
  <2>2. u \in Actor /\ TokenInv(u) /\ PartsInv(u) /\ QuotaInv(u)
    BY Zenon DEF LfsInv, Actor
  <2>3. /\ request[u] \in Object /\ u \in bucket.uploads /\ u \notin bucket.payloads
        /\ quota[u] = CountWith(bucket.payloads, bucket.uploads \ {u})
    BY Zenon, <2>1, <2>2 DEF TokenInv, QuotaInv
  <2>4. Charged(quota[u], u) = Count(bucket) /\ quota[u] \in Quota
    BY Zenon, <2>3, <1>OwnCharge
  <2>5. pc[u] \in Guarded \ {"unlock", "create", "record"}
    BY Zenon, <2>1 DEF Guarded
  <2>6. CASE q \notin {quota[u], Charged(quota[u], u)}
    BY Zenon, <2>1, <2>2, <2>5, <2>6, RefusedKeeps
  <2>7. CASE q \in {quota[u], Charged(quota[u], u)}
    <3>1. q \in Quota /\ q \in {quota[u], Count(bucket)}
      BY Zenon, <2>4, <2>7, <1>CountIsQuota
    <3>2. Save(u, q, TRUE, bucket.ledger, Continue(u, "cleanupAbort"))
      BY Zenon, <2>1, <2>7
    <3> HIDE DEF q
    <3>3. LfsInv' \/ Saved(u, q, TRUE, "cleanupAbort")
      BY ZenonT(30), <2>2, <2>5, <3>1, <3>2, <1>SaveContinues DEF Guarded
    <3>4. ASSUME Saved(u, q, TRUE, "cleanupAbort") PROVE LfsInv'
      <4>1. /\ bucket'.uploads = bucket.uploads /\ bucket'.recorded = bucket.recorded
            /\ bucket'.multipart = bucket.multipart /\ bucket'.payloads = bucket.payloads
            /\ request' = request /\ pc'[u] = "cleanupAbort" /\ quota'[u] = q /\ Dirty'
            /\ CountWith(bucket.payloads, bucket.uploads)' = Count(bucket)
            /\ CountWith(bucket.payloads, bucket.uploads \ {u})' = quota[u]
            /\ DirtyInv(u)' /\ TokenInv(u)' /\ PartsInv(u)' /\ ContentInv(u)' /\ QuotaInv(u)'
                   => LfsInv'
        BY ZenonT(30), <2>3, <3>4, <1>SavedUpload DEF Count
      <4>2. TokenInv(u)' /\ PartsInv(u)' /\ ContentInv(u)'
        BY Zenon, <2>1, <2>2, <4>1 DEF TokenInv, PartsInv, ContentInv, Bound, UploadSteps
      <4>3. QuotaInv(u)'
        BY ZenonT(30), <3>1, <4>1 DEF QuotaInv
      <4>4. DirtyInv(u)'
        BY Zenon, <4>1 DEF DirtyInv
      <4> QED BY Zenon, <4>1, <4>2, <4>3, <4>4
    <3> QED BY Zenon, <3>3, <3>4
  <2> QED BY Zenon, <2>6, <2>7

\* invalidateLFSQuota: dirty before the first deletion.
<1>InvalidateKeeps.
    ASSUME NEW op \in Task, Invalidate(op), UNCHANGED <<expired, lock, request>>
    PROVE  LfsInv'
  <2> USE <1>InvalidateKeeps
  <2> DEFINE q == IF bucket.ledger = NoLedger THEN NoQuota ELSE Counters(bucket.ledger)
  <2>1. pc[op] = "invalidate" /\ Save(op, q, TRUE, bucket.ledger, Continue(op, "delete"))
    BY ZenonT(30) DEF Invalidate
  <2>2. /\ op \in Actor /\ op \notin Upload /\ TaskInv(op)
        /\ pc[op] \in Guarded \ {"unlock", "create", "record"}
    BY Zenon, <2>1, LfsAssumption DEF LfsInv, Actor, Guarded
  <2>3. q \in Quota
    BY Zenon, <1>CountIsQuota DEF NoQuota, Quota
  <2> HIDE DEF q
  <2>4. LfsInv' \/ Saved(op, q, TRUE, "delete")
    BY ZenonT(30), <2>1, <2>2, <2>3, <1>SaveContinues DEF Guarded
  <2>5. ASSUME Saved(op, q, TRUE, "delete") PROVE LfsInv'
    <3>1. /\ bucket'.recorded = bucket.recorded /\ bucket'.multipart = bucket.multipart
          /\ bucket'.verified = bucket.verified /\ bucket'.pointers = bucket.pointers
          /\ work' = work /\ pc'[op] = "delete" /\ Dirty' /\ (Own(op)' => LfsInv')
      BY Zenon, <2>5 DEF Saved, content
    <3>2. TaskInv(op)'
      BY Zenon, <2>1, <2>2, <3>1 DEF TaskInv, TaskSteps, Pointed
    <3> QED BY Zenon, <2>2, <3>1, <3>2 DEF Own, DirtyInv
  <2> QED BY Zenon, <2>4, <2>5

\* The collection counts again what it left.
<1>RebuildAfterKeeps.
    ASSUME NEW op \in Task, RebuildAfter(op), UNCHANGED <<expired, lock, request>>
    PROVE  LfsInv'
  <2> USE <1>RebuildAfterKeeps
  <2>1. pc[op] = "rebuild" /\ Rebuild(op, seen[op], Return(op, "idle"))
    BY Zenon DEF RebuildAfter
  <2>2. /\ op \in Actor /\ op \notin Upload
        /\ pc[op] \in Guarded \ {"unlock", "create", "record"}
    BY Zenon, <2>1, LfsAssumption DEF Actor, Guarded
  <2>3. \A oid \in Oid : Verified(oid) => Backed(oid)
    BY Zenon DEF LfsInv, RecordsHaveContent
  <2>4. \/ Save(op, Count(bucket), FALSE, seen[op], Return(op, "idle"))
        \/ Raise(op, "failed") /\ UNCHANGED <<bucket, local>>
    BY ZenonT(30), <2>1, <2>3 DEF Rebuild
  <2>5. LfsInv' \/ (Saved(op, Count(bucket), FALSE, "unlock") /\ then'[op] = "idle")
    BY Zenon, <2>2, <2>4, <1>CountIsQuota, <1>SaveReturns, RefusedKeeps
  <2>6. ASSUME Saved(op, Count(bucket), FALSE, "unlock"), then'[op] = "idle"
        PROVE  LfsInv'
    BY ZenonT(30), <2>2, <2>6 DEF Saved, Own, DirtyInv, TaskInv, TaskSteps
  <2> QED BY ZenonT(30), <2>5, <2>6
<1> QED BY Zenon, <1>LoadKeeps, <1>FenceKeeps, <1>ChargeReservationKeeps, <1>CleanupSaveKeeps,
           <1>ReleaseSaveKeeps, <1>SettleKeeps, <1>CleanupKeeps, <1>InvalidateKeeps,
           <1>RebuildAfterKeeps

-----------------------------------------------------------------------------
(* Steps that only read. *)

\* A step under the lock that changes nothing but its own control state.
LEMMA QuietStep ==
    ASSUME LfsInv, NEW op \in Actor, pc[op] \in Guarded,
           UNCHANGED <<bucket, expired, lock, request, quota, seen>>,
           NEW to \in Guarded, pc' = [pc EXCEPT ![op] = to],
           NEW back \in {"idle", "done", "stream", "body", "abort", "release"},
           then' = then \/ then' = [then EXCEPT ![op] = back],
           NEW report \in {"ok", "failed"},
           result' = result \/ result' = [result EXCEPT ![op] = report],
           NEW w, work' = work \/ work' = [work EXCEPT ![op] = w],
           Own(op)'
    PROVE  LfsInv'
<1>1. UNCHANGED content
  BY Zenon DEF content
<1>2. TypeOK'
  BY DEF LfsInv, TypeOK
<1>3. NothingCorrupt'
  BY Zenon DEF LfsInv, TypeOK, NothingCorrupt
<1>4. Alone(op)
  BY Zenon DEF Alone, Mine, LfsInv, TypeOK
<1>5. LedgerExact'
  <2>1. Count(bucket)' = Count(bucket)
    BY Zenon, <1>1, ContentKept
  <2> QED BY Zenon, <2>1 DEF LfsInv, LedgerExact, Counters
<1> QED BY Zenon, <1>1, <1>2, <1>3, <1>4, <1>5, LedgerStep DEF Own

\* A verified object is the one that its name stands for.
LEMMA OneObjectPerName ==
    ASSUME LfsInv, NEW o \in Genuine, Verified(o.oid)
    PROVE  Backed(o.oid) /\ request[bucket.verified[o.oid]] = o
<1>1. o \in Object /\ o.oid \in Oid
  BY Zenon, LfsAssumption DEF Oid
<1> QED BY ZenonT(30), <1>1, LfsAssumption DEF LfsInv, RecordsHaveContent

\* reserveLFS finds no record, one of another size, or one that makes it a retry.
LEMMA LookupKeeps ==
    ASSUME LfsInv, NEW u \in Upload, Lookup(u), UNCHANGED <<expired, lock, request>>
    PROVE  LfsInv'
<1>1. pc[u] = "lookup" /\ UNCHANGED <<bucket, local>>
  BY Zenon DEF Lookup
<1>2. u \in Actor /\ u \notin Task /\ TokenInv(u) /\ pc[u] \in Guarded \ {"unlock"}
  BY Zenon, <1>1, LfsAssumption DEF LfsInv, Actor, Guarded
<1>3. request[u] \in Object /\ Fresh(u)
  BY Zenon, <1>1, <1>2 DEF TokenInv
<1>4. Verified(request[u].oid) => Backed(request[u].oid)
  BY Zenon, <1>3 DEF LfsInv, RecordsHaveContent, Oid
<1>5. CASE Continue(u, "admitLoad")
  <2>1. pc' = [pc EXCEPT ![u] = "admitLoad"] /\ pc'[u] = "admitLoad"
    BY Zenon, <1>2, <1>5 DEF Continue, Goto, LfsInv, TypeOK
  <2>2. Own(u)'
    BY ZenonT(30), <1>1, <1>2, <1>3, <2>1 DEF Own, DirtyInv, UploadInv, TokenInv, PartsInv,
                                              ContentInv, QuotaInv, Fresh, Bound, UploadSteps
  <2> QED BY ZenonT(30), <1>1, <1>2, <1>5, <2>1, <2>2, QuietStep DEF Continue, local, Guarded
<1>6. CASE Return(u, "body")
  <2>1. /\ pc' = [pc EXCEPT ![u] = "unlock"] /\ pc'[u] = "unlock"
        /\ then' = [then EXCEPT ![u] = "body"] /\ then'[u] = "body"
    BY Zenon, <1>2, <1>6 DEF Return, Goto, LfsInv, TypeOK
  <2>2. Own(u)'
    BY Zenon, <1>1, <1>2, <1>3, <2>1 DEF Own, DirtyInv, UploadInv, TokenInv, PartsInv,
                                         ContentInv, QuotaInv, Bound, UploadSteps
  <2> QED BY ZenonT(30), <1>1, <1>2, <1>6, <2>1, <2>2, QuietStep DEF Return, local, Guarded
<1>7. CASE Raise(u, "failed")
  BY Zenon, <1>1, <1>2, <1>7, RefusedKeeps
<1> QED BY ZenonT(30), <1>4, <1>5, <1>6, <1>7 DEF Lookup

\* finishLFS finds its reservation.
LEMMA HeadKeeps ==
    ASSUME LfsInv, NEW u \in Upload, Head(u), UNCHANGED <<expired, lock, request>>
    PROVE  LfsInv'
<1>1. pc[u] = "head" /\ UNCHANGED <<bucket, local>>
  BY Zenon DEF Head
<1>2. /\ u \in Actor /\ u \notin Task /\ pc[u] \in Guarded \ {"unlock"}
      /\ TokenInv(u) /\ ContentInv(u)
  BY Zenon, <1>1, LfsAssumption DEF LfsInv, Actor, Guarded
<1>3. CASE u \in bucket.uploads /\ Continue(u, "finishLoad")
  <2>1. pc' = [pc EXCEPT ![u] = "finishLoad"] /\ pc'[u] = "finishLoad"
    BY Zenon, <1>2, <1>3 DEF Continue, Goto, LfsInv, TypeOK
  <2>2. Own(u)'
    BY Zenon, <1>1, <1>2, <1>3, <2>1 DEF Own, DirtyInv, UploadInv, TokenInv, PartsInv,
                                         ContentInv, QuotaInv, Bound, UploadSteps
  <2> QED BY ZenonT(30), <1>1, <1>2, <1>3, <2>1, <2>2, QuietStep DEF Continue, local, Guarded
<1>4. CASE Raise(u, "failed")
  BY Zenon, <1>1, <1>2, <1>4, RefusedKeeps
<1> QED BY Zenon, <1>3, <1>4 DEF Head

\* finishExistingLFS finds the record of its object, or none.
LEMMA RecheckKeeps ==
    ASSUME LfsInv, NEW u \in Upload, Recheck(u), UNCHANGED <<expired, lock, request>>
    PROVE  LfsInv'
<1>1. pc[u] = "recheck" /\ UNCHANGED <<bucket, local>>
  BY Zenon DEF Recheck
<1>2. /\ u \in Actor /\ u \notin Task /\ pc[u] \in Guarded \ {"unlock"}
      /\ TokenInv(u) /\ request[u] \in Genuine
  BY Zenon, <1>1, LfsAssumption DEF LfsInv, Actor, Guarded, ContentInv
<1>3. Verified(request[u].oid)
          => Backed(request[u].oid) /\ request[bucket.verified[request[u].oid]] = request[u]
  BY Zenon, <1>2, OneObjectPerName
<1>4. CASE Goto(u, "unlock") /\ then' = [then EXCEPT ![u] = "done"] /\ Report(u, "ok")
  <2>1. /\ pc' = [pc EXCEPT ![u] = "unlock"] /\ pc'[u] = "unlock" /\ then'[u] = "done"
        /\ result' = [result EXCEPT ![u] = "ok"]
    BY Zenon, <1>2, <1>4 DEF Report, Goto, LfsInv, TypeOK
  <2>2. Own(u)'
    BY ZenonT(30), <1>1, <1>2, <2>1, LfsAssumption
       DEF Own, DirtyInv, UploadInv, TokenInv, PartsInv, ContentInv, QuotaInv, Bound, UploadSteps
  <2> QED BY ZenonT(30), <1>1, <1>2, <1>4, <2>1, <2>2, QuietStep DEF local, Guarded
<1>5. CASE Raise(u, "failed")
  BY Zenon, <1>1, <1>2, <1>5, RefusedKeeps
<1> QED BY Zenon, <1>3, <1>4, <1>5 DEF Recheck

\* validateLFSPointers: every pointer has verified content of its size.
LEMMA ValidateKeeps ==
    ASSUME LfsInv, NEW op \in Task, Validate(op), UNCHANGED <<expired, lock, request>>
    PROVE  LfsInv'
<1> DEFINE valid(o) == Verified(o.oid) /\ Backed(o.oid) /\ request[bucket.verified[o.oid]] = o
<1>1. /\ pc[op] = "validate" /\ UNCHANGED <<bucket, local>>
      /\ IF \A o \in work[op] : valid(o)
         THEN Continue(op, "retain")
         ELSE IF \E o \in work[op] : Verified(o.oid) /\ ~ Backed(o.oid)
              THEN Raise(op, "corrupt") ELSE Raise(op, "failed")
  BY Zenon DEF Validate
<1>2. op \in Actor /\ op \notin Upload /\ TaskInv(op) /\ pc[op] \in Guarded \ {"unlock"}
  BY Zenon, <1>1, LfsAssumption DEF LfsInv, Actor, Guarded
<1>3. work[op] \subseteq Object
  BY ZenonT(30), <1>1, <1>2 DEF TaskInv
<1>4. ~ \E o \in work[op] : Verified(o.oid) /\ ~ Backed(o.oid)
  BY Zenon, <1>3 DEF LfsInv, RecordsHaveContent, Oid
<1>5. CASE (\A o \in work[op] : valid(o)) /\ Continue(op, "retain")
  <2>1. /\ pc' = [pc EXCEPT ![op] = "retain"] /\ pc'[op] = "retain"
        /\ work' = work /\ bucket' = bucket /\ request' = request
    BY Zenon, <1>1, <1>2, <1>5 DEF Continue, Goto, LfsInv, TypeOK, local
  <2>2. \A o \in work[op] : Backed(o.oid) /\ request[bucket.verified[o.oid]] = o /\ o \in Genuine
    BY ZenonT(30), <1>3, <1>5 DEF LfsInv, RecordsHaveContent, Oid
  <2>3. TaskInv(op)'
    BY Zenon, <1>3, <2>1, <2>2 DEF TaskInv, TaskSteps, Backed
  <2>4. Own(op)'
    BY Zenon, <1>2, <2>1, <2>3 DEF Own, DirtyInv
  <2> QED BY ZenonT(30), <1>1, <1>2, <1>5, <2>1, <2>4, QuietStep DEF Continue, local, Guarded
<1>6. CASE Raise(op, "failed")
  BY Zenon, <1>1, <1>2, <1>6, RefusedKeeps
<1> QED BY Zenon, <1>1, <1>4, <1>5, <1>6

\* markSnapshotLFS and prepareLFSGC
LEMMA MarkKeeps ==
    ASSUME LfsInv, NEW op \in Task, Mark(op), UNCHANGED <<expired, lock, request>>
    PROVE  LfsInv'

\* What prepareLFSGC may remove.
<1>RemovalSound.
    ASSUME NEW reservations \in SUBSET (bucket.uploads \cap expired),
           NEW records \in SUBSET {oid \in Oid \ Pointed : Verified(oid)},
           NEW payloads \in SUBSET (bucket.payloads \ KeptPayloads(reservations, records)),
           NEW w, w = Removal(reservations, records, payloads)
    PROVE  /\ w \subseteq Removals
           /\ \A oid \in Oid : <<"verified", oid>> \in w => oid \notin Pointed
           /\ \A u \in Upload, oid \in Oid :
                  <<"objects", u>> \in w /\ bucket.verified[oid] = u => <<"verified", oid>> \in w
           /\ \A u \in Upload :
                  <<"uploads", u>> \in w /\ u \in bucket.recorded => <<"abort", u>> \in w
  <2> USE <1>RemovalSound
  <2>1. bucket.uploads \subseteq Upload /\ bucket.payloads \subseteq Upload
    BY Zenon DEF LfsInv, TypeOK, Bucket
  <2>2. reservations \subseteq Upload /\ payloads \subseteq Upload /\ records \subseteq Oid
    BY Zenon, <2>1
  <2>3. \A x : /\ <<"abort", x>> \in w <=> x \in reservations \cap bucket.recorded
               /\ <<"uploads", x>> \in w <=> x \in reservations
               /\ <<"verified", x>> \in w <=> x \in records
               /\ <<"objects", x>> \in w <=> x \in payloads
    BY Zenon, RemovalNames
  <2>4. w \subseteq Removals
    BY Zenon, <2>2, RemovalTyped
  <2>5. \A u \in payloads, oid \in Oid : bucket.verified[oid] = u => oid \in records
    BY Zenon DEF KeptPayloads
  <2> QED BY Zenon, <2>3, <2>4, <2>5
<1>1. pc[op] = "mark"
  BY Zenon DEF Mark
<1>2. op \in Actor /\ op \notin Upload /\ pc[op] \in Guarded
  BY Zenon, <1>1, LfsAssumption DEF Actor, Guarded
<1>3. \A o \in bucket.pointers : Backed(o.oid) /\ request[bucket.verified[o.oid]] = o
  BY ZenonT(30) DEF LfsInv, PointersHaveContent
<1>4. PICK reservations \in SUBSET (bucket.uploads \cap expired),
           records \in SUBSET {oid \in Oid \ Pointed : Verified(oid)} :
           \E payloads \in SUBSET (bucket.payloads \ KeptPayloads(reservations, records)) :
               /\ work' = [work EXCEPT ![op] = Removal(reservations, records, payloads)]
               /\ Continue(op, "invalidate")
               /\ UNCHANGED <<bucket, quota, seen>>
  BY Zenon, <1>3 DEF Mark
<1>5. PICK payloads \in SUBSET (bucket.payloads \ KeptPayloads(reservations, records)) :
          /\ work' = [work EXCEPT ![op] = Removal(reservations, records, payloads)]
          /\ Continue(op, "invalidate")
          /\ UNCHANGED <<bucket, quota, seen>>
  BY Zenon, <1>4
<1>6. /\ pc' = [pc EXCEPT ![op] = "invalidate"] /\ pc'[op] = "invalidate"
      /\ work'[op] = Removal(reservations, records, payloads) /\ bucket' = bucket
  BY Zenon, <1>2, <1>5 DEF Continue, Goto, LfsInv, TypeOK
<1>7. TaskInv(op)'
  BY Zenon, <1>6, <1>RemovalSound DEF TaskInv, TaskSteps, Pointed
<1>8. Own(op)'
  BY ZenonT(30), <1>2, <1>6, <1>7 DEF Own, DirtyInv
<1> QED BY ZenonT(30), <1>2, <1>5, <1>6, <1>8, QuietStep DEF Continue, Guarded

\* The last artifact is gone.
LEMMA DeletedKeeps ==
    ASSUME LfsInv, NEW op \in Task, Deleted(op), UNCHANGED <<expired, lock, request>>
    PROVE  LfsInv'
<1>1. /\ pc[op] = "delete" /\ Continue(op, "rebuild") /\ UNCHANGED <<bucket, local>>
      /\ op \in Actor /\ op \notin Upload /\ pc[op] \in Guarded
  BY Zenon, LfsAssumption DEF Deleted, Actor, Guarded
<1>2. pc' = [pc EXCEPT ![op] = "rebuild"] /\ pc'[op] = "rebuild"
  BY Zenon, <1>1 DEF Continue, Goto, LfsInv, TypeOK
<1>3. Own(op)'
  BY Zenon, <1>1, <1>2 DEF Own, DirtyInv, TaskInv, TaskSteps
<1> QED BY ZenonT(30), <1>1, <1>2, <1>3, QuietStep DEF Continue, local, Guarded

-----------------------------------------------------------------------------
(* Steps that write or delete artifacts. *)

\* Such a step, successful or not, keeps the invariant if it keeps what the
\* artifacts decide; the ledger is dirty, or what it counts is the same.
LEMMA ArtifactStep ==
    ASSUME LfsInv, NEW op \in Actor, pc[op] \in Guarded \ {"unlock"},
           UNCHANGED <<expired, lock, request, quota, seen>>,
           NEW w, work' = work \/ work' = [work EXCEPT ![op] = w],
           NEW to \in Guarded,
           NEW back \in {"idle", "done", "stream", "body", "abort", "release"},
           \/ Raise(op, "failed")
           \/ /\ pc' = [pc EXCEPT ![op] = to]
              /\ then' = then \/ then' = [then EXCEPT ![op] = back]
              /\ result' = result \/ result' = [result EXCEPT ![op] = "ok"],
           bucket' \in Bucket, bucket'.ledger = bucket.ledger,
           Dirty \/ Count(bucket)' = Count(bucket),
           Careful(op), Finite', RecordsHaveContent', PointersHaveContent', PartsReserved',
           QuotaHolds', Own(op)'
    PROVE  LfsInv'
<1>1. /\ pc' \in [Actor -> Stopped \cup Waiting \cup Guarded \cup {"stream", "body", "abort"}]
      /\ then' \in [Actor -> {"idle", "done", "stream", "body", "abort", "release"}]
      /\ result' \in [Actor -> {"none", "ok", "failed", "corrupt"}]
      /\ NothingCorrupt'
      /\ \A v \in Actor \ {op} : pc'[v] = pc[v] /\ then'[v] = then[v]
  <2>1. CASE Raise(op, "failed")
    BY ZenonT(30), <2>1, RaiseEffect
  <2>2. CASE /\ pc' = [pc EXCEPT ![op] = to]
             /\ then' = then \/ then' = [then EXCEPT ![op] = back]
             /\ result' = result \/ result' = [result EXCEPT ![op] = "ok"]
    BY <2>2 DEF LfsInv, TypeOK, NothingCorrupt
  <2> QED BY ZenonT(30), <2>1, <2>2
<1>2. /\ work' = [v \in Actor |-> work'[v]]
      /\ \A v \in Actor \ {op} : work'[v] = work[v]
  BY Zenon DEF LfsInv, TypeOK
<1>3. TypeOK'
  BY Zenon, <1>1, <1>2 DEF LfsInv, TypeOK
<1>4. Alone(op)
  BY Zenon, <1>1, <1>2 DEF Alone, Mine
<1>5. LedgerExact'
  BY ZenonT(30) DEF LfsInv, LedgerExact, Dirty, Counters
<1> QED BY ZenonT(30), <1>1, <1>3, <1>4, <1>5, StepKeeps DEF Own

\* What Aborted and Dropped leave.
LEMMA CleanupEffect ==
    ASSUME LfsInv, NEW u \in Upload
    PROVE  /\ Aborted(u) \in Bucket /\ Dropped(u) \in Bucket
           /\ Aborted(u).ledger = bucket.ledger /\ Dropped(u).ledger = bucket.ledger
           /\ Aborted(u).payloads = bucket.payloads /\ Dropped(u).payloads = bucket.payloads
           /\ Aborted(u).verified = bucket.verified /\ Dropped(u).verified = bucket.verified
           /\ Aborted(u).pointers = bucket.pointers /\ Dropped(u).pointers = bucket.pointers
           /\ Aborted(u).uploads = bucket.uploads /\ Dropped(u).uploads = bucket.uploads \ {u}
           /\ Aborted(u).recorded = bucket.recorded
           /\ Dropped(u).recorded = bucket.recorded \ {u}
           /\ Aborted(u).multipart = [bucket.multipart EXCEPT ![u] = "none"]
           /\ Dropped(u).multipart = bucket.multipart
           /\ Aborted(u).multipart[u] = "none"
           /\ \A v \in Upload \ {u} : Aborted(u).multipart[v] = bucket.multipart[v]
<1>1. bucket \in Bucket
  BY Zenon DEF LfsInv, TypeOK
<1> QED BY ZenonT(30), <1>1 DEF Bucket, Aborted, Dropped

\* Call, as one of its two outcomes: the next step, or the error path.
LEMMA CallContinues ==
    ASSUME LfsInv, NEW op \in Actor, pc[op] \in Guarded \ {"unlock"}, NEW new,
           NEW to \in Guarded, Call(op, new, Continue(op, to))
    PROVE  /\ bucket' = new /\ UNCHANGED local
           /\ \/ /\ Raise(op, "failed")
                 /\ \/ pc[op] \in DOMAIN Undo /\ pc'[op] = Undo[pc[op]]
                    \/ /\ pc[op] \notin DOMAIN Undo /\ pc'[op] = "unlock"
                       /\ then'[op] = ErrorExit(op)
              \/ /\ pc' = [pc EXCEPT ![op] = to] /\ pc'[op] = to
                 /\ then' = then /\ result' = result
<1>1. CASE bucket' = new /\ Continue(op, to) /\ UNCHANGED local
  BY Zenon, <1>1 DEF Continue, Goto, LfsInv, TypeOK
<1>2. CASE Lost(op, new)
  BY Zenon, <1>2, RaiseEffect DEF Lost
<1> QED BY Zenon, <1>1, <1>2 DEF Call

\* A storage call that ends its operation: it returns, or reports an error.
LEMMA CallReturns ==
    ASSUME LfsInv, NEW op \in Actor, pc[op] \in Guarded \ {"unlock"}, NEW new,
           NEW back, Call(op, new, Return(op, back))
    PROVE  /\ bucket' = new /\ UNCHANGED local
           /\ \/ /\ Raise(op, "failed")
                 /\ \/ pc[op] \in DOMAIN Undo /\ pc'[op] = Undo[pc[op]]
                    \/ /\ pc[op] \notin DOMAIN Undo /\ pc'[op] = "unlock"
                       /\ then'[op] = ErrorExit(op)
              \/ /\ pc' = [pc EXCEPT ![op] = "unlock"] /\ pc'[op] = "unlock"
                 /\ then' = [then EXCEPT ![op] = back] /\ then'[op] = back
                 /\ result' = result
<1>1. CASE bucket' = new /\ Return(op, back) /\ UNCHANGED local
  BY Zenon, <1>1 DEF Return, Goto, LfsInv, TypeOK
<1>2. CASE Lost(op, new)
  BY Zenon, <1>2, RaiseEffect DEF Lost
<1> QED BY Zenon, <1>1, <1>2 DEF Call

\* Reservations and transfers, under a dirty ledger.
LEMMA TransferSteps ==
    ASSUME SetLaws, LfsInv, UNCHANGED <<expired, lock, request>>
    PROVE  \A u \in Upload :
               CreateMultipart(u) \/ RecordUpload(u) \/ UndoAbort(u) \/ CleanupAbort(u)
               \/ UndoDelete(u) \/ CleanupDelete(u) \/ ReleaseDelete(u) => LfsInv'

<1>Undone.
    /\ {"create", "record"} \subseteq DOMAIN Undo
    /\ Undo["create"] = "undoDelete" /\ Undo["record"] = "undoAbort"
  BY Zenon DEF Undo

\* An upload changes its own reservation and transfer, under a dirty ledger.
<1>TransferStep.
    ASSUME NEW u \in Upload,
           pc[u] \in {"create", "record", "undoAbort", "undoDelete", "cleanupAbort",
                      "cleanupDelete", "releaseDelete"},
           UNCHANGED <<expired, lock, request, local>>,
           NEW to \in Guarded,
           NEW back \in {"idle", "done", "stream", "body", "abort", "release"},
           \/ Raise(u, "failed")
           \/ /\ pc' = [pc EXCEPT ![u] = to] /\ result' = result
              /\ then' = then \/ then' = [then EXCEPT ![u] = back],
           bucket' \in Bucket, bucket'.ledger = bucket.ledger,
           bucket'.payloads = bucket.payloads, bucket'.verified = bucket.verified,
           bucket'.pointers = bucket.pointers,
           bucket'.uploads \subseteq bucket.uploads,
           bucket.uploads \subseteq bucket'.uploads \cup {u},
           bucket.recorded \ {u} = bucket'.recorded \ {u},
           \A v \in Upload \ {u} : bucket'.multipart[v] = bucket.multipart[v],
           bucket'.multipart[u] # "parts",
           UploadInv(u)', DirtyInv(u)'
    PROVE  LfsInv'
  <2> USE <1>TransferStep
  <2>1. u \in Actor /\ u \notin Task /\ pc[u] \in Guarded \ {"unlock"}
    BY Zenon, LfsAssumption DEF Actor, Guarded
  <2>2. Dirty
    BY ZenonT(30), <2>1 DEF LfsInv, DirtyInv
  <2>3. Careful(u)
    BY ZenonT(30) DEF Careful
  <2>4. Finite' /\ QuotaHolds'
    BY ZenonT(30), ChargesShrink
  <2>5. RecordsHaveContent' /\ PointersHaveContent'
    BY Zenon, RecordsKept
  <2>6. PartsReserved'
    BY ZenonT(30) DEF LfsInv, PartsReserved
  <2>7. Own(u)'
    BY Zenon, <2>1 DEF Own
  <2>8. UNCHANGED <<quota, seen>> /\ work' = work
    BY Zenon DEF local
  <2> QED BY ZenonT(30), <2>1, <2>2, <2>3, <2>4, <2>5, <2>6, <2>7, <2>8, ArtifactStep

<1>CreateMultipartKeeps.
    ASSUME NEW u \in Upload, CreateMultipart(u), UNCHANGED <<expired, lock, request>>
    PROVE  LfsInv'
  <2> USE <1>CreateMultipartKeeps
  <2> DEFINE new == [bucket EXCEPT !.multipart[u] = "open"]
  <2>1. pc[u] = "create" /\ Call(u, new, Continue(u, "record"))
    BY Zenon DEF CreateMultipart
  <2>2. /\ u \in Actor /\ u \notin Task /\ pc[u] \in Guarded \ {"unlock"} /\ "record" \in Guarded
        /\ TokenInv(u) /\ QuotaInv(u) /\ DirtyInv(u) /\ bucket \in Bucket
    BY Zenon, <2>1, LfsAssumption DEF LfsInv, TypeOK, Actor, Guarded
  <2>3. /\ new \in Bucket /\ new.ledger = bucket.ledger /\ new.payloads = bucket.payloads
        /\ new.verified = bucket.verified /\ new.pointers = bucket.pointers
        /\ new.uploads = bucket.uploads /\ new.recorded = bucket.recorded
        /\ new.multipart[u] = "open"
        /\ \A v \in Upload \ {u} : new.multipart[v] = bucket.multipart[v]
    BY Zenon, <2>2 DEF Bucket
  <2> HIDE DEF new
  <2>4. /\ bucket' = new /\ UNCHANGED local
        /\ \/ Raise(u, "failed") /\ pc'[u] = "undoDelete"
           \/ /\ pc' = [pc EXCEPT ![u] = "record"] /\ pc'[u] = "record"
              /\ then' = then /\ result' = result
    <3>1. /\ bucket' = new /\ UNCHANGED local
          /\ \/ /\ Raise(u, "failed")
                /\ \/ pc[u] \in DOMAIN Undo /\ pc'[u] = Undo[pc[u]]
                   \/ pc[u] \notin DOMAIN Undo
             \/ /\ pc' = [pc EXCEPT ![u] = "record"] /\ pc'[u] = "record"
                /\ then' = then /\ result' = result
      BY ZenonT(30), <2>1, <2>2, CallContinues
    <3>2. pc[u] \in DOMAIN Undo /\ Undo[pc[u]] = "undoDelete"
      BY Zenon, <2>1, <1>Undone
    <3> QED BY Zenon, <3>1, <3>2
  <2>5. TokenInv(u)' /\ PartsInv(u)' /\ ContentInv(u)'
    BY Zenon, <2>1, <2>2, <2>3, <2>4 DEF TokenInv, PartsInv, ContentInv, Bound, UploadSteps
  <2>6. QuotaInv(u)'
    <3>1. quota[u] = CountWith(bucket.payloads, bucket.uploads \ {u})'
      BY ZenonT(30), <2>1, <2>2, <2>3, <2>4, CountersAround DEF QuotaInv
    <3> QED BY ZenonT(30), <2>4, <3>1 DEF QuotaInv, local
  <2>7. DirtyInv(u)'
    BY Zenon, <2>1, <2>2, <2>3, <2>4 DEF DirtyInv, Dirty
  <2>8. UploadInv(u)'
    BY Zenon, <2>5, <2>6 DEF UploadInv
  <2> QED BY Zenon, <2>1, <2>2, <2>3, <2>4, <2>7, <2>8, <1>TransferStep

<1>RecordUploadKeeps.
    ASSUME NEW u \in Upload, RecordUpload(u), UNCHANGED <<expired, lock, request>>
    PROVE  LfsInv'
  <2> USE <1>RecordUploadKeeps
  <2> DEFINE new == [bucket EXCEPT !.recorded = @ \cup {u}]
  <2>1. pc[u] = "record" /\ Call(u, new, Continue(u, "charge"))
    BY Zenon DEF RecordUpload
  <2>2. /\ u \in Actor /\ u \notin Task /\ pc[u] \in Guarded \ {"unlock"} /\ "charge" \in Guarded
        /\ TokenInv(u) /\ QuotaInv(u) /\ DirtyInv(u) /\ bucket \in Bucket
    BY Zenon, <2>1, LfsAssumption DEF LfsInv, TypeOK, Actor, Guarded
  <2>3. /\ new \in Bucket /\ new.ledger = bucket.ledger /\ new.payloads = bucket.payloads
        /\ new.verified = bucket.verified /\ new.pointers = bucket.pointers
        /\ new.uploads = bucket.uploads /\ new.recorded = bucket.recorded \cup {u}
        /\ new.multipart = bucket.multipart
    BY Zenon, <2>2 DEF Bucket
  <2> HIDE DEF new
  <2>4. /\ bucket' = new /\ UNCHANGED local
        /\ \/ Raise(u, "failed") /\ pc'[u] = "undoAbort"
           \/ /\ pc' = [pc EXCEPT ![u] = "charge"] /\ pc'[u] = "charge"
              /\ then' = then /\ result' = result
    <3>1. /\ bucket' = new /\ UNCHANGED local
          /\ \/ /\ Raise(u, "failed")
                /\ \/ pc[u] \in DOMAIN Undo /\ pc'[u] = Undo[pc[u]]
                   \/ pc[u] \notin DOMAIN Undo
             \/ /\ pc' = [pc EXCEPT ![u] = "charge"] /\ pc'[u] = "charge"
                /\ then' = then /\ result' = result
      BY ZenonT(30), <2>1, <2>2, CallContinues
    <3>2. pc[u] \in DOMAIN Undo /\ Undo[pc[u]] = "undoAbort"
      BY Zenon, <2>1, <1>Undone
    <3> QED BY Zenon, <3>1, <3>2
  <2>5. TokenInv(u)' /\ PartsInv(u)' /\ ContentInv(u)' /\ bucket.multipart[u] # "parts"
    BY Zenon, <2>1, <2>2, <2>3, <2>4 DEF TokenInv, PartsInv, ContentInv, Bound, UploadSteps
  <2>6. QuotaInv(u)'
    <3>1. quota[u] = CountWith(bucket.payloads, bucket.uploads \ {u})'
      BY ZenonT(30), <2>1, <2>2, <2>3, <2>4, CountersAround DEF QuotaInv
    <3> QED BY ZenonT(30), <2>4, <3>1 DEF QuotaInv, local
  <2>7. DirtyInv(u)'
    BY ZenonT(30), <2>1, <2>2, <2>3, <2>4 DEF DirtyInv, Dirty
  <2>8. UploadInv(u)'
    BY ZenonT(30), <2>5, <2>6 DEF UploadInv
  <2>9. bucket.recorded \ {u} = bucket'.recorded \ {u}
    BY Zenon, <2>3, <2>4
  <2> QED BY ZenonT(30), <2>1, <2>2, <2>3, <2>4, <2>5, <2>7, <2>8, <2>9, <1>TransferStep

\* The deferred abort of a reservation that could not be recorded or charged.
<1>EarlyAbortKeeps.
    ASSUME NEW u \in Upload, UndoAbort(u) \/ CleanupAbort(u),
           UNCHANGED <<expired, lock, request>>
    PROVE  LfsInv'
  <2> USE <1>EarlyAbortKeeps
  <2> DEFINE to == IF pc[u] = "undoAbort" THEN "undoDelete" ELSE "cleanupDelete"
  <2>1. pc[u] \in {"undoAbort", "cleanupAbort"} /\ Call(u, Aborted(u), Continue(u, to))
    BY Zenon DEF UndoAbort, CleanupAbort
  <2>2. /\ u \in Actor /\ u \notin Task /\ pc[u] \in Guarded \ {"unlock"} /\ to \in Guarded
        /\ TokenInv(u) /\ QuotaInv(u) /\ DirtyInv(u)
    BY Zenon, <2>1, LfsAssumption DEF LfsInv, Actor, Guarded
  <2>3. \/ pc[u] = "undoAbort" /\ to = "undoDelete"
        \/ pc[u] = "cleanupAbort" /\ to = "cleanupDelete"
    BY Zenon, <2>1
  <2> HIDE DEF to
  <2>4. /\ bucket' = Aborted(u) /\ UNCHANGED local
        /\ \/ Raise(u, "failed") /\ pc'[u] = "unlock" /\ then'[u] = "done"
           \/ /\ pc' = [pc EXCEPT ![u] = to] /\ pc'[u] = to
              /\ then' = then /\ result' = result
    BY Zenon, <2>1, <2>2, CallContinues DEF Undo, ErrorExit, End
  <2>5. /\ bucket' \in Bucket /\ bucket'.ledger = bucket.ledger
        /\ bucket'.payloads = bucket.payloads /\ bucket'.verified = bucket.verified
        /\ bucket'.pointers = bucket.pointers /\ bucket'.uploads = bucket.uploads
        /\ bucket'.recorded = bucket.recorded /\ bucket'.multipart[u] = "none"
        /\ \A v \in Upload \ {u} : bucket'.multipart[v] = bucket.multipart[v]
    BY ZenonT(30), <2>4, CleanupEffect
  <2>6. TokenInv(u)' /\ PartsInv(u)' /\ ContentInv(u)'
    BY ZenonT(30), <2>2, <2>3, <2>4, <2>5 DEF TokenInv, PartsInv, ContentInv, Bound, UploadSteps
  <2>7. QuotaInv(u)'
    <3>1. pc[u] = "cleanupAbort" =>
              quota[u] \in {CountWith(bucket.payloads, bucket.uploads \ {u})',
                            CountWith(bucket.payloads, bucket.uploads)'}
      BY ZenonT(30), <2>2, <2>5, CountersAround DEF QuotaInv, Count
    <3> QED BY ZenonT(30), <2>3, <2>4, <3>1 DEF QuotaInv, local
  <2>8. DirtyInv(u)'
    BY Zenon, <2>1, <2>2, <2>4, <2>5 DEF DirtyInv, Dirty
  <2>9. UploadInv(u)'
    BY Zenon, <2>6, <2>7 DEF UploadInv
  <2> QED BY ZenonT(30), <2>1, <2>2, <2>4, <2>5, <2>8, <2>9, <1>TransferStep

<1>UndoDeleteKeeps.
    ASSUME NEW u \in Upload, UndoDelete(u), UNCHANGED <<expired, lock, request>>
    PROVE  LfsInv'
  <2> USE <1>UndoDeleteKeeps
  <2>1. pc[u] = "undoDelete" /\ Call(u, Dropped(u), Return(u, "done"))
    BY Zenon DEF UndoDelete
  <2>2. /\ u \in Actor /\ u \notin Task /\ pc[u] \in Guarded \ {"unlock"} /\ "unlock" \in Guarded
        /\ TokenInv(u)
    BY Zenon, <2>1, LfsAssumption DEF LfsInv, Actor, Guarded
  <2>3. /\ bucket' = Dropped(u) /\ UNCHANGED local /\ pc'[u] = "unlock" /\ then'[u] = "done"
        /\ \/ Raise(u, "failed")
           \/ /\ pc' = [pc EXCEPT ![u] = "unlock"] /\ then' = [then EXCEPT ![u] = "done"]
              /\ result' = result
    BY Zenon, <2>1, <2>2, CallReturns DEF Undo, ErrorExit, End
  <2>4. /\ bucket' \in Bucket /\ bucket'.ledger = bucket.ledger
        /\ bucket'.payloads = bucket.payloads /\ bucket'.verified = bucket.verified
        /\ bucket'.pointers = bucket.pointers /\ bucket'.uploads = bucket.uploads \ {u}
        /\ bucket'.recorded = bucket.recorded \ {u} /\ bucket'.multipart = bucket.multipart
    BY ZenonT(30), <2>3, CleanupEffect
  <2>5. UploadInv(u)' /\ DirtyInv(u)' /\ bucket.multipart[u] # "parts"
    BY Zenon, <2>1, <2>2, <2>3 DEF UploadInv, TokenInv, PartsInv, ContentInv, QuotaInv,
                                   DirtyInv,
                            Bound, UploadSteps
  <2>6. /\ bucket.uploads \subseteq bucket'.uploads \cup {u}
        /\ bucket.recorded \ {u} = bucket'.recorded \ {u}
    BY Zenon, <2>4
  <2> QED BY ZenonT(30), <2>1, <2>2, <2>3, <2>4, <2>5, <2>6, <1>TransferStep

\* The reservation is deleted; the ledger is written next.
<1>EarlyDeleteKeeps.
    ASSUME NEW u \in Upload, CleanupDelete(u) \/ ReleaseDelete(u),
           UNCHANGED <<expired, lock, request>>
    PROVE  LfsInv'
  <2> USE <1>EarlyDeleteKeeps
  <2> DEFINE to == IF pc[u] = "cleanupDelete" THEN "cleanupSave" ELSE "releaseSave"
  <2>1. pc[u] \in {"cleanupDelete", "releaseDelete"}
    BY Zenon DEF CleanupDelete, ReleaseDelete
  <2>2. /\ u \in Actor /\ u \notin Task /\ pc[u] \in Guarded \ {"unlock"} /\ to \in Guarded
        /\ TokenInv(u) /\ PartsInv(u) /\ QuotaInv(u) /\ DirtyInv(u)
    BY Zenon, <2>1, LfsAssumption DEF LfsInv, Actor, Guarded
  <2>3. /\ u \in bucket.uploads /\ bucket.multipart[u] # "parts"
        /\ pc[u] = "cleanupDelete" => u \notin bucket.payloads
        /\ pc[u] = "releaseDelete" => bucket.multipart[u] = "none"
    BY Zenon, <2>1, <2>2 DEF TokenInv, PartsInv
  <2>4. Call(u, Dropped(u), Continue(u, to))
    BY Zenon, <2>3 DEF CleanupDelete, ReleaseDelete
  <2>5. \/ pc[u] = "cleanupDelete" /\ to = "cleanupSave"
        \/ pc[u] = "releaseDelete" /\ to = "releaseSave"
    BY Zenon, <2>1
  <2> HIDE DEF to
  <2>6. /\ bucket' = Dropped(u) /\ UNCHANGED local
        /\ \/ Raise(u, "failed") /\ pc'[u] = "unlock" /\ then'[u] = "done"
           \/ /\ pc' = [pc EXCEPT ![u] = to] /\ pc'[u] = to
              /\ then' = then /\ result' = result
    BY Zenon, <2>1, <2>2, <2>4, CallContinues DEF Undo, ErrorExit, End
  <2>7. /\ bucket' \in Bucket /\ bucket'.ledger = bucket.ledger
        /\ bucket'.payloads = bucket.payloads /\ bucket'.verified = bucket.verified
        /\ bucket'.pointers = bucket.pointers /\ bucket'.uploads = bucket.uploads \ {u}
        /\ bucket'.recorded = bucket.recorded \ {u} /\ bucket'.multipart = bucket.multipart
    BY ZenonT(30), <2>6, CleanupEffect
  <2>8. TokenInv(u)' /\ PartsInv(u)' /\ ContentInv(u)'
    BY ZenonT(30), <2>2, <2>3, <2>5, <2>6, <2>7 DEF TokenInv, PartsInv, ContentInv, Bound,
                                                    UploadSteps
  <2>9. QuotaInv(u)'
    <3>1. /\ CountWith(bucket.payloads, bucket.uploads)'
                 = CountWith(bucket.payloads, bucket.uploads \ {u})
          /\ CountWith(bucket.payloads, bucket.uploads \cup {u})' = Count(bucket)
      BY ZenonT(30), <2>3, <2>7, CountersAround
    <3>2. /\ pc[u] = "cleanupDelete" =>
                 quota[u] \in {CountWith(bucket.payloads, bucket.uploads)',
                               CountWith(bucket.payloads, bucket.uploads \cup {u})'}
          /\ pc[u] = "releaseDelete" =>
                 quota[u] = CountWith(bucket.payloads, bucket.uploads \cup {u})'
      BY ZenonT(30), <2>2, <3>1 DEF QuotaInv, Count
    <3> QED BY ZenonT(30), <2>5, <2>6, <3>2 DEF QuotaInv, local
  <2>10. DirtyInv(u)'
    BY Zenon, <2>5, <2>6 DEF DirtyInv
  <2>11. UploadInv(u)'
    BY Zenon, <2>8, <2>9 DEF UploadInv
  <2>12. /\ bucket.uploads \subseteq bucket'.uploads \cup {u}
         /\ bucket.recorded \ {u} = bucket'.recorded \ {u}
    BY Zenon, <2>7
  <2> QED BY ZenonT(30), <2>1, <2>2, <2>3, <2>6, <2>7, <2>10, <2>11, <2>12, <1>TransferStep
<1> QED BY Zenon, <1>CreateMultipartKeeps, <1>RecordUploadKeeps, <1>EarlyAbortKeeps,
           <1>UndoDeleteKeeps, <1>EarlyDeleteKeeps

\* reserveLFS puts the reservation that the quota admitted.
LEMMA AnnounceKeeps ==
    ASSUME SetLaws, LfsInv, NEW u \in Upload, Announce(u), UNCHANGED <<expired, lock, request>>
    PROVE  LfsInv'

\* What the quota admits fits.
<1>AdmittedFits.
    ASSUME request[u] \in Object,
           Admits(Count(bucket), request[u]), u \notin bucket.uploads,
           bucket'.payloads = bucket.payloads, bucket'.uploads = bucket.uploads \cup {u}
    PROVE  Finite' /\ QuotaHolds'
  <2> USE <1>AdmittedFits
  <2> DEFINE S == bucket.payloads \cup bucket.uploads
             T == bucket'.payloads \cup bucket'.uploads
  <2>1. IsFiniteSet(S) /\ IsFiniteSet(Bytes(S)) /\ Size(u) \in Nat
    BY Zenon, LfsAssumption DEF LfsInv, Finite, Size
  <2>2. T = S \cup {u}
    BY Zenon
  <2>3. /\ Cardinality(bucket.uploads) < MaxReservations
        /\ Cardinality(S) < MaxRecords
        /\ Charge(S) + Size(u) <= MaxRepositoryBytes
    BY Zenon DEF Admits, Count, CountWith, Size
  <2>4. IsFiniteSet(bucket.uploads)
    BY <2>1 DEF SetLaws
  <2>5. MaxRepositoryBytes \in Nat /\ MaxRecords \in Nat /\ MaxReservations \in Nat
    BY Zenon, LfsAssumption
  <2> HIDE DEF S
  <2>6. /\ IsFiniteSet(S \cup {u}) /\ IsFiniteSet(Bytes(S \cup {u})) /\ Charge(S) \in Nat
        /\ Charge(S \cup {u}) = IF u \in S THEN Charge(S) ELSE Charge(S) + Size(u)
    BY ZenonT(30), <2>1, ChargeAdd
  <2>7. /\ Cardinality(S) \in Nat
        /\ Cardinality(S \cup {u}) = IF u \in S THEN Cardinality(S) ELSE Cardinality(S) + 1
    BY ZenonT(30), <2>1 DEF SetLaws
  <2>8. /\ Cardinality(bucket.uploads) \in Nat
        /\ Cardinality(bucket'.uploads) = Cardinality(bucket.uploads) + 1
    BY <2>4 DEF SetLaws
  <2>9. Charge(S \cup {u}) <= MaxRepositoryBytes
    BY <2>1, <2>3, <2>5, <2>6
  <2>10. Cardinality(S \cup {u}) <= MaxRecords
    BY <2>3, <2>5, <2>7
  <2>11. Cardinality(bucket'.uploads) <= MaxReservations
    BY <2>3, <2>5, <2>8
  <2>12. IsFiniteSet(T) /\ IsFiniteSet(Bytes(T)) /\ Charge(T) <= MaxRepositoryBytes
         /\ Cardinality(T) <= MaxRecords
    BY ZenonT(30), <2>2, <2>6, <2>9, <2>10
  <2>13. Bytes(T) = UNION {{v} \X (1..Size(v)') : v \in T}
    BY Zenon DEF Bytes, Size
  <2> QED BY ZenonT(30), <2>11, <2>12, <2>13 DEF Finite, QuotaHolds, Charge, Bytes
<1> DEFINE new == [bucket EXCEPT !.uploads = @ \cup {u}]
<1>1. pc[u] = "announce" /\ Call(u, new, Continue(u, "create"))
  BY Zenon DEF Announce
<1>2. /\ u \in Actor /\ u \notin Task /\ pc[u] \in Guarded \ {"unlock"} /\ "create" \in Guarded
      /\ TokenInv(u) /\ QuotaInv(u) /\ DirtyInv(u) /\ bucket \in Bucket
  BY Zenon, <1>1, LfsAssumption DEF LfsInv, TypeOK, Actor, Guarded
<1>3. /\ new \in Bucket /\ new.ledger = bucket.ledger /\ new.payloads = bucket.payloads
      /\ new.verified = bucket.verified /\ new.pointers = bucket.pointers
      /\ new.uploads = bucket.uploads \cup {u} /\ new.recorded = bucket.recorded
      /\ new.multipart = bucket.multipart
  BY Zenon, <1>2 DEF Bucket
<1> HIDE DEF new
<1>4. /\ bucket' = new /\ UNCHANGED local
      /\ \/ Raise(u, "failed") /\ pc'[u] = "unlock" /\ then'[u] = "done"
         \/ /\ pc' = [pc EXCEPT ![u] = "create"] /\ pc'[u] = "create"
            /\ then' = then /\ result' = result
  BY Zenon, <1>1, <1>2, CallContinues DEF Undo, ErrorExit, End
<1>5. /\ Fresh(u) /\ request[u] \in Object /\ quota[u] = Count(bucket)
      /\ Admits(quota[u], request[u]) /\ Dirty
  BY ZenonT(30), <1>1, <1>2 DEF TokenInv, QuotaInv, DirtyInv
<1>6. Finite' /\ QuotaHolds'
  BY ZenonT(30), <1>3, <1>4, <1>5, <1>AdmittedFits DEF Fresh
<1>7. RecordsHaveContent' /\ PointersHaveContent'
  BY Zenon, <1>3, <1>4, RecordsKept
<1>8. PartsReserved' /\ Careful(u)
  BY ZenonT(30), <1>3, <1>4 DEF LfsInv, PartsReserved, Careful
<1>9. TokenInv(u)' /\ PartsInv(u)' /\ ContentInv(u)'
  BY ZenonT(30), <1>2, <1>3, <1>4, <1>5 DEF TokenInv, PartsInv, ContentInv, Fresh, Bound,
                                            UploadSteps
<1>10. QuotaInv(u)'
  <2>1. bucket'.uploads \ {u} = bucket.uploads
    BY ZenonT(30), <1>3, <1>4, <1>5 DEF Fresh
  <2>2. CountWith(bucket.payloads, bucket.uploads \ {u})'
            = CountWith(bucket'.payloads, bucket'.uploads \ {u})
    BY Zenon DEF CountWith, Charge, Bytes, Size
  <2>3. CountWith(bucket.payloads, bucket.uploads \ {u})' = Count(bucket)
    BY ZenonT(30), <1>3, <1>4, <2>1, <2>2 DEF Count
  <2> QED BY ZenonT(30), <1>4, <1>5, <2>3 DEF QuotaInv, local
<1>11. DirtyInv(u)'
  BY ZenonT(30), <1>3, <1>4, <1>5 DEF DirtyInv, Dirty
<1>12. Own(u)'
  BY Zenon, <1>2, <1>9, <1>10, <1>11 DEF Own, UploadInv
<1>13. UNCHANGED <<quota, seen>> /\ work' = work
  BY Zenon, <1>4 DEF local
<1> QED BY Zenon, <1>2, <1>3, <1>4, <1>5, <1>6, <1>7, <1>8, <1>12, <1>13, ArtifactStep

\* CompleteMultipart: the payload takes over the charge of its reservation.
LEMMA CompleteKeeps ==
    ASSUME SetLaws, LfsInv, NEW u \in Upload, Complete(u), UNCHANGED <<expired, lock, request>>
    PROVE  LfsInv'
<1> DEFINE new == [Aborted(u) EXCEPT !.payloads = @ \cup {u}]
<1>1. /\ pc[u] = "complete"
      /\ \/ Call(u, new, Continue(u, "verify"))
         \/ Raise(u, "failed") /\ UNCHANGED <<bucket, local>>
  BY Zenon DEF Complete
<1>2. /\ u \in Actor /\ u \notin Task /\ pc[u] \in Guarded \ {"unlock"} /\ "verify" \in Guarded
      /\ TokenInv(u) /\ QuotaInv(u) /\ ContentInv(u)
  BY Zenon, <1>1, LfsAssumption DEF LfsInv, Actor, Guarded
<1>3. /\ new \in Bucket /\ new.ledger = bucket.ledger /\ new.payloads = bucket.payloads \cup {u}
      /\ new.verified = bucket.verified /\ new.pointers = bucket.pointers
      /\ new.uploads = bucket.uploads /\ new.recorded = bucket.recorded
      /\ new.multipart[u] = "none"
      /\ \A v \in Upload \ {u} : new.multipart[v] = bucket.multipart[v]
  <2> DEFINE a == Aborted(u)
  <2>1. /\ a \in Bucket /\ a.ledger = bucket.ledger /\ a.payloads = bucket.payloads
        /\ a.verified = bucket.verified /\ a.pointers = bucket.pointers
        /\ a.uploads = bucket.uploads /\ a.recorded = bucket.recorded
        /\ a.multipart[u] = "none"
        /\ \A v \in Upload \ {u} : a.multipart[v] = bucket.multipart[v]
    BY ZenonT(30), CleanupEffect
  <2> HIDE DEF a
  <2>2. /\ [a EXCEPT !.payloads = @ \cup {u}] \in Bucket
        /\ [a EXCEPT !.payloads = @ \cup {u}].payloads = a.payloads \cup {u}
        /\ [a EXCEPT !.payloads = @ \cup {u}].ledger = a.ledger
        /\ [a EXCEPT !.payloads = @ \cup {u}].verified = a.verified
        /\ [a EXCEPT !.payloads = @ \cup {u}].pointers = a.pointers
        /\ [a EXCEPT !.payloads = @ \cup {u}].uploads = a.uploads
        /\ [a EXCEPT !.payloads = @ \cup {u}].recorded = a.recorded
        /\ [a EXCEPT !.payloads = @ \cup {u}].multipart = a.multipart
    BY Zenon, <2>1 DEF Bucket
  <2> QED BY Zenon, <2>1, <2>2 DEF a
<1> HIDE DEF new
<1>4. ASSUME Call(u, new, Continue(u, "verify")) PROVE LfsInv'
  <2>1. /\ bucket' = new /\ UNCHANGED local
        /\ \/ Raise(u, "failed") /\ pc'[u] = "unlock" /\ then'[u] = "abort"
           \/ /\ pc' = [pc EXCEPT ![u] = "verify"] /\ pc'[u] = "verify"
              /\ then' = then /\ result' = result
    BY Zenon, <1>1, <1>2, <1>4, CallContinues DEF Undo, ErrorExit
  <2>2. /\ u \in bucket.uploads /\ request[u] \in Genuine /\ quota[u] = Count(bucket)
        /\ request[u] \in Object
    BY ZenonT(30), <1>1, <1>2 DEF TokenInv, ContentInv, QuotaInv
  <2>3. bucket'.payloads \cup bucket'.uploads = bucket.payloads \cup bucket.uploads
    BY ZenonT(30), <1>3, <2>1, <2>2
  <2>4. Count(bucket)' = Count(bucket)
    <3>1. /\ Charge(bucket.payloads \cup bucket.uploads)'
                 = Charge(bucket'.payloads \cup bucket'.uploads)
          /\ bucket'.uploads = bucket.uploads
      BY <1>3, <2>1 DEF Charge, Bytes, Size
    <3> QED BY Zenon, <2>3, <3>1 DEF Count, CountWith
  <2>5. Finite' /\ QuotaHolds'
    BY ZenonT(30), <1>3, <2>1, <2>3, ChargesShrink
  <2>6. RecordsHaveContent' /\ PointersHaveContent'
    BY ZenonT(30), <1>3, <2>1, RecordsKept
  <2>7. PartsReserved' /\ Careful(u)
    BY ZenonT(30), <1>3, <2>1 DEF LfsInv, PartsReserved, Careful
  <2>8. TokenInv(u)' /\ PartsInv(u)' /\ ContentInv(u)'
    BY ZenonT(30), <1>2, <1>3, <2>1, <2>2 DEF TokenInv, PartsInv, ContentInv, Bound, UploadSteps
  <2>9. QuotaInv(u)'
    BY ZenonT(30), <2>1, <2>2, <2>4 DEF QuotaInv, local
  <2>10. Own(u)'
    BY Zenon, <1>2, <2>1, <2>8, <2>9 DEF Own, UploadInv, DirtyInv
  <2>11. UNCHANGED <<quota, seen>> /\ work' = work
    BY Zenon, <2>1 DEF local
  <2> QED BY Zenon, <1>2, <1>3, <2>1, <2>4, <2>5, <2>6, <2>7, <2>10, <2>11, ArtifactStep
<1> QED BY Zenon, <1>1, <1>2, <1>4, RefusedKeeps

\* putVerifiedLFS: the first record of an object, or one that is there already.
LEMMA PutVerifiedKeeps ==
    ASSUME SetLaws, LfsInv, NEW u \in Upload, PutVerified(u), UNCHANGED <<expired, lock, request>>
    PROVE  LfsInv'
<1> DEFINE oid == request[u].oid
           new == [bucket EXCEPT !.verified[oid] = u]
           Success == Goto(u, "settle") /\ Report(u, "ok") /\ UNCHANGED then
<1>1. pc[u] = "verify"
  BY Zenon DEF PutVerified
<1>2. /\ u \in Actor /\ u \notin Task /\ pc[u] \in Guarded \ {"unlock"} /\ "settle" \in Guarded
      /\ TokenInv(u) /\ PartsInv(u) /\ QuotaInv(u) /\ ContentInv(u) /\ bucket \in Bucket
  BY Zenon, <1>1, LfsAssumption DEF LfsInv, TypeOK, Actor, Guarded
<1>3. /\ u \in bucket.payloads /\ bucket.multipart[u] = "none" /\ quota[u] = Count(bucket)
      /\ request[u] \in Genuine /\ request[u] \in Object /\ oid \in Oid
  BY ZenonT(30), <1>1, <1>2, LfsAssumption DEF TokenInv, PartsInv, QuotaInv, ContentInv, Oid
<1>4. Success => /\ pc' = [pc EXCEPT ![u] = "settle"] /\ pc'[u] = "settle" /\ then' = then
                 /\ result' = [result EXCEPT ![u] = "ok"]
  BY Zenon, <1>2 DEF Goto, Report, LfsInv, TypeOK
<1>5. \/ ~ Verified(oid) /\ Call(u, new, Success)
      \/ Success /\ UNCHANGED <<bucket, local>>
  BY Zenon, <1>3, OneObjectPerName DEF PutVerified
<1>6. /\ new \in Bucket /\ new.ledger = bucket.ledger /\ new.payloads = bucket.payloads
      /\ new.pointers = bucket.pointers /\ new.uploads = bucket.uploads
      /\ new.recorded = bucket.recorded /\ new.multipart = bucket.multipart
      /\ new.verified[oid] = u
      /\ \A other \in Oid \ {oid} : new.verified[other] = bucket.verified[other]
  BY Zenon, <1>2, <1>3 DEF Bucket
<1>7. /\ bucket'.payloads = bucket.payloads /\ bucket'.uploads = bucket.uploads
      /\ bucket'.recorded = bucket.recorded /\ bucket'.multipart = bucket.multipart
      /\ UNCHANGED local /\ pc'[u] = "settle"
  <2>1. CASE Success /\ UNCHANGED <<bucket, local>>
    BY Zenon, <1>4, <2>1
  <2>2. CASE bucket' = new /\ Success /\ UNCHANGED local
    BY Zenon, <1>4, <1>6, <2>2
  <2>3. CASE Lost(u, new)
    BY <1>1, <1>2, <1>6, <2>3, RaiseEffect DEF Lost, Undo
  <2> QED BY Zenon, <1>5, <2>1, <2>2, <2>3 DEF Call
<1>8. Own(u)' /\ Count(bucket)' = Count(bucket)
  <2>1. Count(bucket)' = Count(bucket)
    BY Zenon, <1>7 DEF Count, CountWith, Charge, Bytes, Size
  <2>2. TokenInv(u)' /\ PartsInv(u)' /\ ContentInv(u)'
    BY ZenonT(30), <1>3, <1>7 DEF TokenInv, PartsInv, ContentInv, Bound, UploadSteps
  <2>3. QuotaInv(u)'
    BY ZenonT(30), <1>3, <1>7, <2>1 DEF QuotaInv, local
  <2> QED BY Zenon, <1>2, <1>7, <2>1, <2>2, <2>3 DEF Own, UploadInv, DirtyInv
<1> HIDE DEF oid, new, Success
<1>9. CASE Success /\ UNCHANGED <<bucket, local>>
  BY Zenon, <1>2, <1>4, <1>8, <1>9, QuietStep DEF local
<1>10. ASSUME ~ Verified(oid), Call(u, new, Success) PROVE LfsInv'
  <2>1. /\ bucket' = new
        /\ \/ Raise(u, "failed")
           \/ /\ pc' = [pc EXCEPT ![u] = "settle"] /\ then' = then
              /\ result' = [result EXCEPT ![u] = "ok"]
    BY Zenon, <1>4, <1>10 DEF Call, Lost
  <2>2. RecordsHaveContent'
    <3>1. ASSUME NEW other \in Oid, Verified(other)'
          PROVE  /\ Backed(other)' /\ (request[bucket.verified[other]].oid = other)'
                 /\ (request[bucket.verified[other]] \in Genuine)'
      <4>1. CASE other = oid
        BY ZenonT(30), <1>3, <1>6, <2>1, <4>1 DEF Backed, oid
      <4>2. CASE other # oid
        BY ZenonT(30), <1>6, <2>1, <3>1, <4>2 DEF LfsInv, RecordsHaveContent, Verified, Backed
      <4> QED BY Zenon, <4>1, <4>2
    <3> QED BY Zenon, <3>1 DEF RecordsHaveContent
  <2>3. PointersHaveContent'
    <3>1. ASSUME NEW o \in bucket.pointers
          PROVE  bucket'.verified[o.oid] = bucket.verified[o.oid]
      <4>1. o \in Object /\ o.oid \in Oid
        BY ZenonT(30), <1>2 DEF Bucket, Oid
      <4>2. bucket.verified[o.oid] \in Upload
        BY ZenonT(30), <1>2 DEF LfsInv, PointersHaveContent, Backed, Bucket
      <4>3. bucket.verified[o.oid] # NoOp
        BY Zenon, <4>2, LfsAssumption DEF Actor
      <4> QED BY ZenonT(30), <1>6, <1>10, <2>1, <4>1, <4>3 DEF Verified
    <3> QED BY ZenonT(30), <1>6, <2>1, <3>1 DEF LfsInv, PointersHaveContent, Backed
  <2>4. PartsReserved' /\ Careful(u)
    BY ZenonT(30), <1>7 DEF LfsInv, PartsReserved, Careful
  <2>5. Finite' /\ QuotaHolds'
    BY Zenon, <1>7, ChargesShrink
  <2>6. UNCHANGED <<quota, seen>> /\ work' = work
    BY Zenon, <1>7 DEF local
  <2> QED BY ZenonT(30), <1>2, <1>6, <1>8, <2>1, <2>2, <2>3, <2>4, <2>5, <2>6, ArtifactStep
<1> QED BY Zenon, <1>5, <1>9, <1>10

\* The snapshot of a push is stored: its pointers were checked under this lock.
LEMMA RetainKeeps ==
    ASSUME SetLaws, LfsInv, NEW op \in Task, Retain(op), UNCHANGED <<expired, lock, request>>
    PROVE  LfsInv'
<1> DEFINE new == [bucket EXCEPT !.pointers = @ \cup work[op]]
<1>1. pc[op] = "retain" /\ Call(op, new, Return(op, "idle"))
  BY Zenon DEF Retain
<1>2. /\ op \in Actor /\ op \notin Upload /\ pc[op] \in Guarded \ {"unlock"}
      /\ "unlock" \in Guarded /\ TaskInv(op) /\ bucket \in Bucket
  BY Zenon, <1>1, LfsAssumption DEF LfsInv, TypeOK, Actor, Guarded
<1>3. /\ work[op] \subseteq Object
      /\ \A o \in work[op] :
             Backed(o.oid) /\ request[bucket.verified[o.oid]] = o /\ o \in Genuine
  BY Zenon, <1>1, <1>2 DEF TaskInv
<1>4. /\ new \in Bucket /\ new.ledger = bucket.ledger /\ new.payloads = bucket.payloads
      /\ new.verified = bucket.verified /\ new.pointers = bucket.pointers \cup work[op]
      /\ new.uploads = bucket.uploads /\ new.recorded = bucket.recorded
      /\ new.multipart = bucket.multipart
  BY Zenon, <1>2, <1>3 DEF Bucket
<1> HIDE DEF new
<1>5. /\ bucket' = new /\ UNCHANGED local /\ pc'[op] = "unlock" /\ then'[op] = "idle"
      /\ \/ Raise(op, "failed")
         \/ /\ pc' = [pc EXCEPT ![op] = "unlock"] /\ then' = [then EXCEPT ![op] = "idle"]
            /\ result' = result
  BY Zenon, <1>1, <1>2, CallReturns DEF Undo, ErrorExit, End
<1>6. PointersHaveContent'
  BY ZenonT(30), <1>3, <1>4, <1>5 DEF LfsInv, PointersHaveContent, Backed
<1>7. RecordsHaveContent'
  BY Zenon, <1>4, <1>5 DEF LfsInv, RecordsHaveContent, Verified, Backed
<1>8. PartsReserved' /\ Careful(op)
  BY ZenonT(30), <1>4, <1>5 DEF LfsInv, PartsReserved, Careful
<1>9. Finite' /\ QuotaHolds'
  BY Zenon, <1>4, <1>5, ChargesShrink
<1>10. Count(bucket)' = Count(bucket)
  BY ZenonT(30), <1>4, <1>5, CountersAround DEF Count
<1>11. Own(op)'
  BY ZenonT(30), <1>2, <1>5 DEF Own, DirtyInv, TaskInv, TaskSteps
<1>12. UNCHANGED <<quota, seen>> /\ work' = work
  BY Zenon, <1>5 DEF local
<1> QED BY ZenonT(30), <1>2, <1>4, <1>5, <1>6, <1>7, <1>8, <1>9, <1>10, <1>11, <1>12,
           ArtifactStep

\* What a collection may still remove from b.
Removable(b, w) ==
    /\ w \subseteq Removals
    /\ \A oid \in Oid : <<"verified", oid>> \in w => oid \notin {o.oid : o \in b.pointers}
    /\ \A u \in Upload, oid \in Oid :
           <<"objects", u>> \in w /\ b.verified[oid] = u => <<"verified", oid>> \in w
    /\ \A u \in Upload :
           <<"uploads", u>> \in w /\ u \in b.recorded
               => <<"abort", u>> \in w \/ b.multipart[u] = "none"

\* A removal that leaves what records, pointers and parts rely on.
Harmless(op, k) ==
    /\ bucket' \in Bucket /\ bucket'.ledger = bucket.ledger
    /\ bucket'.uploads \subseteq bucket.uploads /\ bucket'.payloads \subseteq bucket.payloads
    /\ Careful(op) /\ RecordsHaveContent' /\ PointersHaveContent' /\ PartsReserved'
    /\ Removable(bucket', work[op] \ {k})

\* One removal of a collection, in the order of lfsDeletionPriority.
LEMMA DeleteKeeps ==
    ASSUME SetLaws, LfsInv, NEW op \in Task, Delete(op), UNCHANGED <<expired, lock, request>>
    PROVE  LfsInv'

<1>AbortHarmless.
    ASSUME Removable(bucket, work[op]),
           NEW v \in Upload, bucket' = Aborted(v)
    PROVE  Harmless(op, <<"abort", v>>)
  <2> USE <1>AbortHarmless
  <2>1. /\ bucket' \in Bucket /\ bucket'.ledger = bucket.ledger
        /\ bucket'.payloads = bucket.payloads /\ bucket'.verified = bucket.verified
        /\ bucket'.pointers = bucket.pointers /\ bucket'.uploads = bucket.uploads
        /\ bucket'.recorded = bucket.recorded /\ bucket'.multipart[v] = "none"
        /\ \A x \in Upload \ {v} : bucket'.multipart[x] = bucket.multipart[x]
    BY ZenonT(30), CleanupEffect
  <2>2. RecordsHaveContent' /\ PointersHaveContent'
    BY ZenonT(30), <2>1, RecordsKept
  <2>3. PartsReserved' /\ Careful(op)
    BY ZenonT(30), <2>1 DEF LfsInv, PartsReserved, Careful
  <2>4. Removable(bucket', work[op] \ {<<"abort", v>>})
    BY ZenonT(30), <2>1 DEF Removable
  <2> QED BY ZenonT(30), <2>1, <2>2, <2>3, <2>4 DEF Harmless

\* A reservation is deleted once its transfer is aborted.
<1>DropHarmless.
    ASSUME Removable(bucket, work[op]),
           NEW v \in Upload, bucket' = Dropped(v),
           <<"uploads", v>> \in work[op], <<"abort", v>> \notin work[op]
    PROVE  Harmless(op, <<"uploads", v>>)
  <2> USE <1>DropHarmless
  <2>1. /\ bucket' \in Bucket /\ bucket'.ledger = bucket.ledger
        /\ bucket'.payloads = bucket.payloads /\ bucket'.verified = bucket.verified
        /\ bucket'.pointers = bucket.pointers /\ bucket'.uploads = bucket.uploads \ {v}
        /\ bucket'.recorded = bucket.recorded \ {v} /\ bucket'.multipart = bucket.multipart
    BY ZenonT(30), CleanupEffect
  <2>2. v \in bucket.recorded => bucket.multipart[v] = "none"
    BY Zenon DEF Removable
  <2>3. RecordsHaveContent' /\ PointersHaveContent'
    BY Zenon, <2>1, RecordsKept
  <2>4. PartsReserved' /\ Careful(op)
    BY ZenonT(30), <2>1, <2>2 DEF LfsInv, PartsReserved, Careful
  <2>5. Removable(bucket', work[op] \ {<<"uploads", v>>})
    BY Zenon, <2>1 DEF Removable
  <2> QED BY Zenon, <2>1, <2>3, <2>4, <2>5 DEF Harmless

\* A record that no snapshot points to.
<1>ForgetHarmless.
    ASSUME Removable(bucket, work[op]),
           NEW id \in Oid, bucket' = [bucket EXCEPT !.verified[id] = NoOp],
           <<"verified", id>> \in work[op]
    PROVE  Harmless(op, <<"verified", id>>)
  <2> USE <1>ForgetHarmless
  <2>1. bucket \in Bucket /\ NoOp \notin Upload
    BY Zenon, LfsAssumption DEF LfsInv, TypeOK, Actor
  <2>2. /\ bucket' \in Bucket /\ bucket'.ledger = bucket.ledger
        /\ bucket'.payloads = bucket.payloads /\ bucket'.verified[id] = NoOp
        /\ bucket'.pointers = bucket.pointers /\ bucket'.uploads = bucket.uploads
        /\ bucket'.recorded = bucket.recorded /\ bucket'.multipart = bucket.multipart
        /\ \A other \in Oid \ {id} : bucket'.verified[other] = bucket.verified[other]
    BY Zenon, <2>1 DEF Bucket
  <2>3. RecordsHaveContent'
    BY Zenon, <2>2 DEF LfsInv, RecordsHaveContent, Verified, Backed
  <2>4. PointersHaveContent'
    <3>1. \A o \in bucket.pointers : o.oid \in Oid /\ o.oid # id
      BY Zenon, <2>1 DEF Removable, Bucket, Oid
    <3> QED BY <2>2, <3>1 DEF LfsInv, PointersHaveContent, Backed
  <2>5. PartsReserved' /\ Careful(op)
    BY Zenon, <2>2 DEF LfsInv, PartsReserved, Careful
  <2>6. Removable(bucket', work[op] \ {<<"verified", id>>})
    BY Zenon, <2>1, <2>2 DEF Removable
  <2> QED BY Zenon, <2>2, <2>3, <2>4, <2>5, <2>6 DEF Harmless

\* A payload goes after the records that name it.
<1>RemoveHarmless.
    ASSUME Removable(bucket, work[op]),
           NEW v \in Upload, bucket' = [bucket EXCEPT !.payloads = @ \ {v}],
           <<"objects", v>> \in work[op], \A oid \in Oid : <<"verified", oid>> \notin work[op]
    PROVE  Harmless(op, <<"objects", v>>)
  <2> USE <1>RemoveHarmless
  <2>1. bucket \in Bucket
    BY Zenon DEF LfsInv, TypeOK
  <2>2. /\ bucket' \in Bucket /\ bucket'.ledger = bucket.ledger
        /\ bucket'.payloads = bucket.payloads \ {v} /\ bucket'.verified = bucket.verified
        /\ bucket'.pointers = bucket.pointers /\ bucket'.uploads = bucket.uploads
        /\ bucket'.recorded = bucket.recorded /\ bucket'.multipart = bucket.multipart
    BY Zenon, <2>1 DEF Bucket
  <2>3. \A oid \in Oid : bucket.verified[oid] # v
    BY ZenonT(30) DEF Removable
  <2>4. RecordsHaveContent'
    BY Zenon, <2>2, <2>3 DEF LfsInv, RecordsHaveContent, Verified, Backed
  <2>5. PointersHaveContent'
    <3>1. \A o \in bucket.pointers : o.oid \in Oid
      BY Zenon, <2>1 DEF Bucket, Oid
    <3> QED BY Zenon, <2>2, <2>3, <3>1 DEF LfsInv, PointersHaveContent, Backed
  <2>6. PartsReserved' /\ Careful(op)
    BY Zenon, <2>2 DEF LfsInv, PartsReserved, Careful
  <2>7. Removable(bucket', work[op] \ {<<"objects", v>>})
    BY Zenon, <2>2 DEF Removable
  <2> QED BY Zenon, <2>2, <2>4, <2>5, <2>6, <2>7 DEF Harmless
<1>1. pc[op] = "delete"
  BY Zenon DEF Delete
<1>2. /\ op \in Actor /\ op \notin Upload /\ pc[op] \in Guarded \ {"unlock"}
      /\ "delete" \in Guarded /\ TaskInv(op) /\ DirtyInv(op)
  BY Zenon, <1>1, LfsAssumption DEF LfsInv, Actor, Guarded
<1>3. Removable(bucket, work[op]) /\ Dirty
  BY Zenon, <1>1, <1>2 DEF TaskInv, DirtyInv, Removable, Pointed
<1>4. PICK k \in work[op] :
          /\ \A j \in work[op] : Priority[k[1]] <= Priority[j[1]]
          /\ \/ /\ bucket' = Without(k)
                /\ work' = [work EXCEPT ![op] = @ \ {k}]
                /\ UNCHANGED <<pc, then, result, quota, seen>>
             \/ Lost(op, Without(k))
  BY ZenonT(30) DEF Delete
<1>5. bucket' = Without(k) /\ k \in Removals
  BY ZenonT(30), <1>3, <1>4 DEF Lost, Removable
<1>6. Harmless(op, k)
  <2>1. CASE \E v \in Upload : k = <<"abort", v>>
    <3>1. PICK v \in Upload : k = <<"abort", v>>
      BY Zenon, <2>1
    <3>2. bucket' = Aborted(v)
      BY Zenon, <1>5, <3>1 DEF Without
    <3> QED BY Zenon, <1>3, <3>1, <3>2, <1>AbortHarmless
  <2>2. CASE \E v \in Upload : k = <<"uploads", v>>
    <3>1. PICK v \in Upload : k = <<"uploads", v>>
      BY Zenon, <2>2
    <3>2. bucket' = Dropped(v)
      BY Zenon, <1>5, <3>1 DEF Without
    <3>3. <<"abort", v>> \notin work[op]
      BY Zenon, <1>4, <3>1, RemovalOrder
    <3> QED BY Zenon, <1>3, <1>4, <3>1, <3>2, <3>3, <1>DropHarmless
  <2>3. CASE \E id \in Oid : k = <<"verified", id>>
    <3>1. PICK id \in Oid : k = <<"verified", id>>
      BY Zenon, <2>3
    <3>2. bucket' = [bucket EXCEPT !.verified[id] = NoOp]
      BY Zenon, <1>5, <3>1 DEF Without
    <3> QED BY Zenon, <1>3, <1>4, <3>1, <3>2, <1>ForgetHarmless
  <2>4. CASE \E v \in Upload : k = <<"objects", v>>
    <3>1. PICK v \in Upload : k = <<"objects", v>>
      BY Zenon, <2>4
    <3>2. bucket' = [bucket EXCEPT !.payloads = @ \ {v}]
      BY Zenon, <1>5, <3>1 DEF Without
    <3>3. \A oid \in Oid : <<"verified", oid>> \notin work[op]
      BY Zenon, <1>4, <3>1, RemovalOrder
    <3> QED BY ZenonT(30), <1>3, <1>4, <3>1, <3>2, <3>3, <1>RemoveHarmless
  <2>5. \/ \E v \in Upload : k = <<"abort", v>> \/ k = <<"uploads", v>> \/ k = <<"objects", v>>
        \/ \E id \in Oid : k = <<"verified", id>>
    BY Zenon, <1>5, RemovalKinds
  <2> QED BY ZenonT(30), <2>1, <2>2, <2>3, <2>4, <2>5
<1>7. /\ bucket' \in Bucket /\ bucket'.ledger = bucket.ledger
      /\ bucket'.uploads \subseteq bucket.uploads /\ bucket'.payloads \subseteq bucket.payloads
      /\ Careful(op) /\ RecordsHaveContent' /\ PointersHaveContent' /\ PartsReserved'
      /\ Removable(bucket', work[op] \ {k})
  BY ZenonT(30), <1>6 DEF Harmless
<1>8. Finite' /\ QuotaHolds'
  BY Zenon, <1>7, ChargesShrink
<1>9. CASE Lost(op, Without(k))
  <2>1. /\ Raise(op, "failed") /\ UNCHANGED <<quota, seen>> /\ work' = work
        /\ pc'[op] = "unlock" /\ then'[op] = "idle"
    BY Zenon, <1>1, <1>2, <1>9, RaiseEffect DEF Lost, local, Undo, ErrorExit, End
  <2>2. Own(op)'
    BY ZenonT(30), <1>2, <2>1 DEF Own, DirtyInv, TaskInv, TaskSteps
  <2> QED BY ZenonT(30), <1>2, <1>3, <1>7, <1>8, <2>1, <2>2, ArtifactStep
<1>10. CASE /\ work' = [work EXCEPT ![op] = @ \ {k}]
            /\ UNCHANGED <<pc, then, result, quota, seen>>
  <2>1. work'[op] = work[op] \ {k} /\ pc' = [pc EXCEPT ![op] = "delete"]
    BY Zenon, <1>1, <1>2, <1>10 DEF LfsInv, TypeOK
  <2>2. DirtyInv(op)'
    BY ZenonT(30), <1>3, <1>7 DEF DirtyInv, Dirty
  <2>3. TaskInv(op)'
    BY ZenonT(30), <1>1, <1>7, <1>10, <2>1 DEF TaskInv, TaskSteps, Removable, Pointed
  <2>4. Own(op)'
    BY Zenon, <1>2, <2>2, <2>3 DEF Own
  <2> QED BY ZenonT(30), <1>2, <1>3, <1>7, <1>8, <1>10, <2>1, <2>4, ArtifactStep
<1> QED BY Zenon, <1>4, <1>9, <1>10

-----------------------------------------------------------------------------
(* The invariant. *)

\* Every step of an operation keeps the invariant.
LEMMA StepHolds ==
    ASSUME SetLaws, LfsInv, NEW op \in Actor, Step(op)
    PROVE  LfsInv'
<1>1. CASE Lock(op) \/ LockFails(op) \/ Unlock(op)
  BY Zenon, <1>1, ControlSteps
<1>2. ASSUME op \in Upload, Reserve(op), UNCHANGED <<expired, lock, request>>
      PROVE  LfsInv'
  <2>1. AdmitLoad(op) \/ Admit(op) \/ ChargeReservation(op) \/ Cleanup(op) \/ CleanupSave(op)
            => LfsInv'
    BY Zenon, <1>2, LedgerSteps
  <2>2. CreateMultipart(op) \/ RecordUpload(op) \/ UndoAbort(op) \/ UndoDelete(op)
        \/ CleanupAbort(op) \/ CleanupDelete(op) => LfsInv'
    BY Zenon, <1>2, TransferSteps
  <2>3. Lookup(op) \/ Announce(op) => LfsInv'
    BY Zenon, <1>2, LookupKeeps, AnnounceKeeps
  <2> QED BY Zenon, <1>2, <2>1, <2>2, <2>3 DEF Reserve
<1>3. ASSUME op \in Upload, Finish(op), UNCHANGED <<expired, lock, request>>
      PROVE  LfsInv'
  <2>1. FinishLoad(op) \/ FinishFence(op) \/ Settle(op) \/ ReleaseLoad(op) \/ ReleaseFence(op)
        \/ ReleaseSave(op) => LfsInv'
    BY Zenon, <1>3, LedgerSteps
  <2>2. Stream(op) \/ VerifyBody(op) \/ Abort(op) => LfsInv'
    BY Zenon, <1>3, ControlSteps
  <2>3. ReleaseDelete(op) => LfsInv'
    BY Zenon, <1>3, TransferSteps
  <2>4. Head(op) \/ Complete(op) \/ PutVerified(op) \/ Recheck(op) => LfsInv'
    BY Zenon, <1>3, HeadKeeps, CompleteKeeps, PutVerifiedKeeps, RecheckKeeps
  <2> QED BY Zenon, <1>3, <2>1, <2>2, <2>3, <2>4 DEF Finish
<1>4. ASSUME op \in Task, Run(op), UNCHANGED <<expired, lock, request>>
      PROVE  LfsInv'
  BY ZenonT(30), <1>4, LedgerSteps, ValidateKeeps, RetainKeeps, MarkKeeps, DeleteKeeps,
     DeletedKeeps
     DEF Run
<1> QED BY Zenon, <1>1, <1>2, <1>3, <1>4 DEF Step

\* Every step of the system keeps the invariant.
LEMMA NextHolds ==
    ASSUME SetLaws, LfsInv, [Next]_vars
    PROVE  LfsInv'
<1>1. CASE UNCHANGED vars
  <2>1. UNCHANGED <<bucket, expired, lock, pc, then, request, quota, seen, work, result>>
    BY Zenon, <1>1 DEF vars, local
  <2>2. /\ CountWith(bucket.payloads, bucket.uploads)' = CountWith(bucket.payloads, bucket.uploads)
        /\ Count(bucket)' = Count(bucket)
    BY ZenonT(30), <2>1, CountersAround DEF Count
  <2>3. TypeOK' /\ LockExcludes' /\ PartsReserved' /\ NothingCorrupt' /\ LedgerExact'
    BY Zenon, <2>1, <2>2 DEF LfsInv, TypeOK, LockExcludes, PartsReserved, NothingCorrupt,
                             LedgerExact, Counters
  <2>4. RecordsHaveContent' /\ PointersHaveContent' /\ Finite' /\ QuotaHolds'
    BY Zenon, <2>1, RecordsKept, ChargesShrink
  <2>5. /\ \A op \in Actor : DirtyInv(op)'
        /\ \A op \in Task : TaskInv(op)'
    BY ZenonT(30), <2>1 DEF LfsInv, DirtyInv, Dirty, TaskInv, Backed, Pointed
  <2>6. ASSUME NEW u \in Upload
        PROVE  TokenInv(u)' /\ PartsInv(u)' /\ ContentInv(u)' /\ QuotaInv(u)'
    <3>1. TokenInv(u)' /\ PartsInv(u)' /\ ContentInv(u)'
      BY ZenonT(30), <2>1 DEF LfsInv, TokenInv, PartsInv, ContentInv, Fresh, Bound
    <3>2. /\ CountWith(bucket.payloads, bucket.uploads \ {u})'
                 = CountWith(bucket.payloads, bucket.uploads \ {u})
          /\ CountWith(bucket.payloads, bucket.uploads \cup {u})'
                 = CountWith(bucket.payloads, bucket.uploads \cup {u})
      BY ZenonT(30), <2>1 DEF CountWith, Charge, Bytes, Size
    <3>3. QuotaInv(u)'
      BY ZenonT(30), <2>1, <2>2, <3>2 DEF LfsInv, QuotaInv
    <3> QED BY Zenon, <3>1, <3>3
  <2> QED BY Zenon, <2>3, <2>4, <2>5, <2>6 DEF LfsInv
<1>2. CASE Start
  BY Zenon, <1>2, BeginKeeps, ControlSteps DEF Start
<1>3. ASSUME NEW op \in Actor, Step(op) \/ Fail(op) \/ Crash(op)
      PROVE  LfsInv'
  BY Zenon, <1>3, StepHolds, FailKeeps, ControlSteps
<1>4. CASE UnlockMaintenance \/ \E u \in Upload : Expire(u)
  BY Zenon, <1>4, ControlSteps
<1> QED BY Zenon, <1>1, <1>2, <1>3, <1>4 DEF Next

\* The record and the payload of content that a snapshot points to.
LEMMA PointedStep ==
    ASSUME SetLaws, LfsInv, [Next]_vars
    PROVE  \A oid \in Pointed :
               /\ bucket.verified'[oid] = bucket.verified[oid]
               /\ bucket.verified[oid] \in bucket.payloads'
<1>1. Pointed \subseteq Oid /\ \A oid \in Pointed : Verified(oid)
  <2>1. bucket \in Bucket /\ NoOp \notin Upload
    BY Zenon, LfsAssumption DEF LfsInv, TypeOK, Actor
  <2>2. \A o \in bucket.pointers : o \in Object /\ Backed(o.oid)
    BY Zenon, <2>1 DEF LfsInv, PointersHaveContent, Bucket
  <2>3. \A o \in bucket.pointers : o.oid \in Oid /\ Verified(o.oid)
    BY Zenon, <2>1, <2>2 DEF Backed, Verified, Bucket, Oid
  <2> QED BY Zenon, <2>3 DEF Pointed
<1>2. /\ \A oid \in Pointed : bucket'.verified[oid] = bucket.verified[oid]
      /\ bucket.pointers \subseteq bucket'.pointers
  <2>1. CASE \E u \in Upload : PutVerified(u) \/ Recheck(u)
    BY Zenon, <1>1, <2>1, AcknowledgeStep
  <2>2. CASE \E op \in Task : Delete(op)
    BY Zenon, <2>2, DeleteStep
  <2>3. CASE /\ \A u \in Upload : ~ (PutVerified(u) \/ Recheck(u))
             /\ \A op \in Task : ~ Delete(op)
    BY Zenon, <2>3, PlainSteps DEF Steady
  <2> QED BY Zenon, <2>1, <2>2, <2>3
<1>3. PointersHaveContent'
  BY Zenon, NextHolds DEF LfsInv
<1>4. \A o \in bucket.pointers : bucket'.verified[o.oid] \in bucket'.payloads
  BY Zenon, <1>2, <1>3 DEF PointersHaveContent, Backed
<1> QED BY Zenon, <1>2, <1>4 DEF Pointed

-----------------------------------------------------------------------------
(* Results. *)

INSTANCE FiniteSetTheorems

\* What is assumed of finite sets above holds.
LEMMA FiniteSetLaws == SetLaws
<1>1. /\ IsFiniteSet({}) /\ Cardinality({}) = 0
      /\ \A S : IsFiniteSet(S) => Cardinality(S) \in Nat
  BY Zenon, FS_EmptySet, FS_CardinalityType
<1>2. \A S : IsFiniteSet(S) =>
          \A T \in SUBSET S : IsFiniteSet(T) /\ Cardinality(T) <= Cardinality(S)
  BY Zenon, FS_Subset
<1>3. \A S, x : IsFiniteSet(S) =>
          /\ IsFiniteSet(S \cup {x})
          /\ Cardinality(S \cup {x}) = IF x \in S THEN Cardinality(S) ELSE Cardinality(S) + 1
  BY Zenon, FS_AddElement
<1>4. ASSUME NEW S, NEW T, IsFiniteSet(S), IsFiniteSet(T), S \cap T = {}
      PROVE  /\ IsFiniteSet(S \cup T)
             /\ Cardinality(S \cup T) = Cardinality(S) + Cardinality(T)
  <2>1. /\ IsFiniteSet(S \cup T)
        /\ Cardinality(S \cup T) = Cardinality(S) + Cardinality(T) - Cardinality(S \cap T)
    BY Zenon, <1>4, FS_Union
  <2>2. Cardinality(S \cap T) = 0 /\ Cardinality(S) \in Nat /\ Cardinality(T) \in Nat
    BY Zenon, <1>1, <1>4
  <2> QED BY <2>1, <2>2
<1>5. ASSUME NEW x, NEW n \in Nat
      PROVE  IsFiniteSet({x} \X (1..n)) /\ Cardinality({x} \X (1..n)) = n
  <2>1. IsFiniteSet({x}) /\ Cardinality({x}) = 1
    BY Zenon, FS_Singleton
  <2>2. IsFiniteSet(1..n) /\ Cardinality(1..n) = n
    BY FS_Interval
  <2>3. /\ IsFiniteSet({x} \X (1..n))
        /\ Cardinality({x} \X (1..n)) = Cardinality({x}) * Cardinality(1..n)
    BY Zenon, <2>1, <2>2, FS_Product
  <2> QED BY <2>1, <2>2, <2>3
<1> QED BY Zenon, <1>1, <1>2, <1>3, <1>4, <1>5 DEF SetLaws

\* LfsInv holds for every number of uploads, pushes and collections, every set
\* of objects and every limit, with crashes and lost responses.
THEOREM LfsInvariant == Spec => []LfsInv
<1>1. Init => LfsInv
  BY Zenon, InitHolds, FiniteSetLaws
<1>2. LfsInv /\ [Next]_vars => LfsInv'
  BY NextHolds, FiniteSetLaws
<1> QED BY <1>1, <1>2, PTL DEF Spec

\* Whatever fails, the repository and the operations stay within their types.
THEOREM TypeCorrect == Spec => []TypeOK
<1>1. LfsInv => TypeOK
  BY DEF LfsInv
<1> QED BY <1>1, LfsInvariant, PTL

\* Between lockRepository and its release an operation owns the lock.
THEOREM LockIsExclusive == Spec => []LockExcludes
<1>1. LfsInv => LockExcludes
  BY DEF LfsInv
<1> QED BY <1>1, LfsInvariant, PTL

\* Content that a retained snapshot points to is verified, of the right size and
\* stored (validateLFSPointers, GarbageCollect).
THEOREM PointersStayBacked == Spec => []PointersHaveContent
<1>1. LfsInv => PointersHaveContent
  BY DEF LfsInv
<1> QED BY <1>1, LfsInvariant, PTL

\* A verified record never names content that is missing or of another hash.
THEOREM RecordsStayBacked == Spec => []RecordsHaveContent
<1>1. LfsInv => RecordsHaveContent
  BY DEF LfsInv
<1> QED BY <1>1, LfsInvariant, PTL

\* Parts of an unfinished upload have a reservation that records their upload ID.
THEOREM PartsStayReserved == Spec => []PartsReserved
<1>1. LfsInv => PartsReserved
  BY DEF LfsInv
<1> QED BY <1>1, LfsInvariant, PTL

\* No operation meets a state that it reports as corrupt.
THEOREM NothingGetsCorrupt == Spec => []NothingCorrupt
<1>1. LfsInv => NothingCorrupt
  BY DEF LfsInv
<1> QED BY <1>1, LfsInvariant, PTL

\* A clean ledger counts exactly what is stored and reserved (loadLFSQuota).
THEOREM LedgerStaysExact == Spec => []LedgerExact
<1>1. LfsInv => LedgerExact
  BY DEF LfsInv
<1> QED BY <1>1, LfsInvariant, PTL

\* Payloads and reservations stay within the quota, whatever fails (lfsQuota.check).
THEOREM QuotaKept == Spec => []QuotaHolds
<1>1. LfsInv => QuotaHolds
  BY DEF LfsInv
<1> QED BY <1>1, LfsInvariant, PTL

\* An upload that is acknowledged is discoverable at that moment (finishLFS,
\* finishExistingLFS).
THEOREM AcknowledgedStays == Spec => AcknowledgedStored
<1> DEFINE Stored1 == \A u \in Upload : result'[u] = "ok" /\ result[u] # "ok" =>
                          bucket.verified'[request[u].oid] \in bucket.payloads'
<1>1. LfsInv /\ [Next]_vars => [Stored1]_vars
  BY StoredStep
<1> QED BY <1>1, LfsInvariant, PTL DEF Spec, AcknowledgedStored

\* The record and the payload of content that a snapshot points to never change
\* (LFSOpen reads them without the lock).
THEOREM PointedStays == Spec => PointedContentStable
<1> DEFINE Stable == \A oid \in Pointed :
                         /\ bucket.verified'[oid] = bucket.verified[oid]
                         /\ bucket.verified[oid] \in bucket.payloads'
<1>1. LfsInv /\ [Next]_vars => [Stable]_vars
  BY PointedStep, FiniteSetLaws
<1> QED BY <1>1, LfsInvariant, PTL DEF Spec, PointedContentStable

=============================================================================
