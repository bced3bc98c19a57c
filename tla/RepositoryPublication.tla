------------------------ MODULE RepositoryPublication ------------------------
(***************************************************************************)
(* One repository's Git objects in its shard's bucket, and the operations   *)
(* that read, publish, restore and collect them (internal/repository and    *)
(* internal/storage/repository.go).                                         *)
(*                                                                          *)
(* The bucket holds one mutable object that names the published generation  *)
(* (key "state"), one lock object (key "maintenance-lock"), and immutable   *)
(* artifacts: state, refs and manifest snapshots, packs and loose objects.  *)
(* An immutable key is the digest of its content, so the model identifies a *)
(* key with the content it names: two writers of the same content write the *)
(* same key.  The version of "state" is an S3 ETag, a digest of its content *)
(* too, so If-Match on a version is modelled as equality of the content.    *)
(*                                                                          *)
(* An operation runs once, in some server or maintenance process.  Each of  *)
(* its steps is one storage call, or several reads of immutable content.    *)
(* It may fail at every step, may crash, and a Put or Delete of the lock or *)
(* of "state" may take effect although its response is lost.                *)
(***************************************************************************)
EXTENDS Integers

CONSTANTS
    Object,         \* Git objects
    Commit,         \* the objects that are commits
    Links,          \* Links[o]: the objects that o names (gitLinks)
    RefName,        \* branch and tag names
    Branch,         \* the names under refs/heads/
    Directory,      \* pairs <<d, n>>: the name d is a directory of the name n
    NoObject,       \* an absent reference
    DefaultBranch,  \* the branch that a README commit is created on
    Readme,         \* that commit
    MaxGeneration,  \* ^uint64(0)
    Op,             \* operations; also the random tokens of their locks
    NoOp,           \* no lock object
    NoState,        \* nothing proposed yet
    Faults          \* may processes crash and responses be lost?

ASSUME GraphAssumption ==
    /\ Commit \subseteq Object
    /\ Links \in [Object -> SUBSET Object]
    /\ NoObject \notin Object

ASSUME RefAssumption ==
    /\ Branch \subseteq RefName
    /\ Directory \subseteq RefName \X RefName
    /\ \A n \in RefName : <<n, n>> \notin Directory
    /\ DefaultBranch \in Branch
    /\ Readme \in Commit

ASSUME OpAssumption ==
    /\ MaxGeneration \in Nat \ {0}
    /\ NoOp \notin Op
    /\ Faults \in BOOLEAN

-----------------------------------------------------------------------------
(* Content: the reference map, the object graph, and what a snapshot names. *)

Refs == [RefName -> Object \cup {NoObject}]

RefUpdate == [name : RefName, old : Object \cup {NoObject}, new : Object \cup {NoObject}]

\* The updates that applyRefUpdates accepts on one map and that yield another:
\* one per changed name, its Old the value in the first map.
UpdatesBetween(refs, new) ==
    {[name |-> n, old |-> refs[n], new |-> new[n]] : n \in {m \in RefName : refs[m] # new[m]}}

Targets(refs) == {refs[n] : n \in RefName} \ {NoObject}

Closed(S) == \A o \in S : Links[o] \subseteq S

\* walkObjects: what a walk from the roots along every link schedules.
Reachable(roots) ==
    {o \in Object : \A S \in SUBSET Object :
                        roots \subseteq S /\ Closed(S) => o \in S}

\* Where a manifest finds an object: alone under its id, or in a pack.
Location == ({"loose"} \X Object) \cup ({"pack"} \X SUBSET Object)

Manifest == [schema : {1, 2},
             objects : UNION {[S -> Location] : S \in SUBSET Object}]

State == [generation : 1..MaxGeneration, refs : Refs, manifest : Manifest]

ASSUME StateAssumption == NoState \notin State

Key == Location
         \cup ({"refs"} \X Refs)
         \cup ({"manifest"} \X Manifest)
         \cup ({"state"} \X State)

\* The keys that a state snapshot refers to, directly or through its manifest.
References(s) ==
    {<<"refs", s.refs>>, <<"manifest", s.manifest>>}
        \cup {s.manifest.objects[o] : o \in DOMAIN s.manifest.objects}

\* No reference may be a directory of another one.
NoDirectoryClash(refs) ==
    \A n, m \in RefName :
        <<n, m>> \in Directory => refs[n] = NoObject \/ refs[m] = NoObject

BranchesAreCommits(refs) ==
    \A n \in Branch : refs[n] # NoObject => refs[n] \in Commit

\* The checks of readMaintenanceSnapshot and verifyMaintenanceSnapshot that
\* depend on content only.
WellFormed(s) ==
    LET objects == s.manifest.objects
    IN  /\ Targets(s.refs) \subseteq DOMAIN objects
        /\ BranchesAreCommits(s.refs)
        /\ NoDirectoryClash(s.refs)
        /\ Closed(DOMAIN objects)
        /\ \A o \in DOMAIN objects :
               \/ objects[o] = <<"loose", o>>
               \/ /\ s.manifest.schema = 2
                  /\ \E ids \in SUBSET Object :
                         objects[o] = <<"pack", ids>> /\ o \in ids

-----------------------------------------------------------------------------
VARIABLES
    state,      \* the content of "state": the published generation
    store,      \* the keys of the immutable artifacts in the bucket
    lock,       \* the token in "maintenance-lock", or NoOp
    pc,         \* pc[op]: where the operation stands
    kind,       \* kind[op]: what the operation does
    base,       \* base[op]: the generation it has pinned, or NoState
    updates,    \* updates[op]: the reference updates its caller asks for
    next,       \* next[op]: the generation it proposes, or NoState
    work,       \* work[op]: what collection has listed, then what it deletes
    result,     \* result[op]: what it reports to its caller
    landed      \* history: the operations whose Put of "state" took effect

vars == <<state, store, lock, pc, kind, base, updates, next, work, result, landed>>

Kind == {"read", "push", "repack", "restore", "collect"}

\* The steps between a successful lockRepository and its deferred unlock.
Guarded == {"locked", "pack", "refs", "manifest", "validate", "snapshot",
            "publish", "mark", "delete", "release"}

Stopped == {"idle", "done", "crashed"}

\* The state snapshots among some keys (isStateArtifact).
StatesOf(keys) == {k[2] : k \in {x \in keys : x[1] = "state"}}

\* Every durable state snapshot: published generations and abandoned proposals.
Retained == StatesOf(store)

\* All that restore and collection verify of a snapshot.
Verifies(s) == WellFormed(s) /\ References(s) \subseteq store

InitialState(refs) ==
    [generation |-> 1,
     refs       |-> refs,
     manifest   |-> [schema  |-> 1,
                     objects |-> [o \in Reachable(Targets(refs)) |-> <<"loose", o>>]]]

\* What Create has stored: an empty repository, or one with a README commit.
Init ==
    /\ \E first \in {NoObject, Readme} :
           state = InitialState([n \in RefName |-> IF n = DefaultBranch THEN first
                                                   ELSE NoObject])
    /\ store = References(state) \cup {<<"state", state>>}
    /\ lock = NoOp
    /\ pc = [op \in Op |-> "idle"]
    /\ kind = [op \in Op |-> "read"]
    /\ base = [op \in Op |-> NoState]
    /\ updates = [op \in Op |-> {}]
    /\ next = [op \in Op |-> NoState]
    /\ work = [op \in Op |-> {}]
    /\ result = [op \in Op |-> "none"]
    /\ landed = {}

-----------------------------------------------------------------------------
(* How an operation moves on, ends, or unwinds through its deferred unlock. *)

Goto(op, from, to) == pc[op] = from /\ pc' = [pc EXCEPT ![op] = to]

Report(op, outcome) == result' = [result EXCEPT ![op] = outcome]

\* The operation returns: what it has pinned, planned and listed is gone.
Forget(op) ==
    /\ base' = [base EXCEPT ![op] = NoState]
    /\ updates' = [updates EXCEPT ![op] = {}]
    /\ next' = [next EXCEPT ![op] = NoState]
    /\ work' = [work EXCEPT ![op] = {}]

\* load and maintenanceBase: LoadState pins the generation of an operation.
Pin(op, k) ==
    /\ Goto(op, "idle", "pinned")
    /\ kind' = [kind EXCEPT ![op] = k]
    /\ base' = [base EXCEPT ![op] = state]
    /\ UNCHANGED <<state, store, lock, updates, next, work, result, landed>>

\* An early return before the lock: invalid input, a stale Old value, a limit,
\* a cancelled context or a storage error.
Reject(op) ==
    /\ pc[op] \in {"pinned", "loaded", "planned"}
    /\ pc' = [pc EXCEPT ![op] = "done"]
    /\ Report(op, "failed")
    /\ Forget(op)
    /\ UNCHANGED <<state, store, lock, kind, landed>>

\* What is read of a pinned generation: restore reads nothing of the current
\* one, collection its refs and manifest, the others its objects as well.
PinnedReads(op) ==
    CASE kind[op] = "restore" -> {}
      [] kind[op] = "collect" -> {<<"refs", base[op].refs>>,
                                  <<"manifest", base[op].manifest>>}
      [] OTHER -> References(base[op])

\* The reads of the pinned generation, however long after the pin.
Load(op) ==
    LET intact == PinnedReads(op) \subseteq store
        ends   == kind[op] = "read" \/ ~ intact
    IN  /\ pc[op] = "pinned"
        /\ Goto(op, "pinned", IF ends THEN "done" ELSE "loaded")
        /\ IF ends THEN Forget(op) /\ Report(op, IF intact THEN "ok" ELSE "corrupt")
                   ELSE UNCHANGED <<base, updates, next, work, result>>
        /\ UNCHANGED <<state, store, lock, kind, landed>>

-----------------------------------------------------------------------------
(* What an operation settles from its pinned generation, before the lock. *)

\* The reachable objects that a publication has to write to a pack: the ones
\* the pinned manifest lacks, or all of them when it repacks.
Unpacked(b, objects, repack) ==
    {o \in objects : repack \/ o \notin DOMAIN b.manifest.objects}

\* The generation that publishObjects proposes on top of b.
Proposal(b, refs, repack) ==
    LET objects == Reachable(Targets(refs))
        ids     == Unpacked(b, objects, repack)
    IN  [generation |-> b.generation + 1,
         refs       |-> refs,
         manifest   |->
             [schema  |-> 2,
              objects |-> [o \in objects |-> IF o \in ids THEN <<"pack", ids>>
                                             ELSE b.manifest.objects[o]]]]

Plan(op, asked, proposal) ==
    /\ Goto(op, "loaded", "planned")
    /\ updates' = [updates EXCEPT ![op] = asked]
    /\ next' = [next EXCEPT ![op] = proposal]
    /\ UNCHANGED <<state, store, lock, kind, base, work, result, landed>>

\* publishObjects for a push: the caller's updates turn the pinned references
\* into refs, and every object they reach is pinned or incoming.
PlanPush(op, refs, incoming) ==
    /\ pc[op] = "loaded" /\ kind[op] = "push"
    /\ refs # base[op].refs
    /\ base[op].generation # MaxGeneration
    /\ NoDirectoryClash(refs)
    /\ BranchesAreCommits(refs)
    /\ Reachable(Targets(refs)) \subseteq DOMAIN base[op].manifest.objects \cup incoming
    /\ Plan(op, UpdatesBetween(base[op].refs, refs), Proposal(base[op], refs, FALSE))

PlanRepack(op) ==
    /\ pc[op] = "loaded" /\ kind[op] = "repack"
    /\ base[op].generation # MaxGeneration
    /\ Plan(op, {}, Proposal(base[op], base[op].refs, TRUE))

\* The operator names a retained snapshot.
PlanRestore(op, source) ==
    /\ kind[op] = "restore"
    /\ Plan(op, {}, source)

PlanCollect(op) ==
    /\ kind[op] = "collect"
    /\ Plan(op, {}, NoState)

-----------------------------------------------------------------------------
(* lockRepository and its release. *)

\* Mutant: the lock is put without If-None-Match.
LockOverwrites(op) ==
    /\ Goto(op, "planned", "locked")
    /\ lock' = op
    /\ UNCHANGED <<state, store, kind, base, updates, next, work, result, landed>>

Lock(op) ==
    /\ Goto(op, "planned", "locked")
    /\ lock = NoOp
    /\ lock' = op
    /\ UNCHANGED <<state, store, kind, base, updates, next, work, result, landed>>

\* ErrMaintenanceBusy
LockBusy(op) ==
    /\ Goto(op, "planned", "done")
    /\ lock # NoOp
    /\ Report(op, "failed")
    /\ Forget(op)
    /\ UNCHANGED <<state, store, lock, kind, landed>>

\* The Put took effect but its caller saw an error, or the refusal of a retry.
LockResponseLost(op) ==
    /\ Faults
    /\ Goto(op, "planned", "done")
    /\ lock = NoOp
    /\ lock' = op
    /\ Report(op, "failed")
    /\ Forget(op)
    /\ UNCHANGED <<state, store, kind, landed>>

\* The deferred Delete, conditional on the version of the operation's own lock.
Release(op) ==
    /\ Goto(op, "release", "done")
    /\ IF lock = op THEN lock' = NoOp /\ UNCHANGED result
                    ELSE UNCHANGED lock /\ Report(op, "failed")
    /\ UNCHANGED <<state, store, kind, base, updates, next, work, landed>>

\* The Delete reports an error, having taken effect or not.
ReleaseFails(op) ==
    /\ Faults
    /\ Goto(op, "release", "done")
    /\ lock' \in {lock, IF lock = op THEN NoOp ELSE lock}
    /\ Report(op, "failed")
    /\ UNCHANGED <<state, store, kind, base, updates, next, work, landed>>

\* UnlockMaintenance: an operator removes the lock that a process left behind,
\* with every process of the repository stopped.
UnlockMaintenance ==
    /\ \A op \in Op : pc[op] \in Stopped
    /\ lock # NoOp
    /\ lock' = NoOp
    /\ UNCHANGED <<state, store, pc, kind, base, updates, next, work, result, landed>>

\* A guarded step returns an error, and unwinds to the release of the lock.
Unwind(op, outcome) ==
    /\ pc' = [pc EXCEPT ![op] = "release"]
    /\ Report(op, outcome)
    /\ Forget(op)
    /\ UNCHANGED <<state, store, lock, kind, landed>>

\* Mutant: an error return that misses the deferred unlock.
FailKeepsLock(op) ==
    /\ pc[op] \in Guarded \ {"release"}
    /\ pc' = [pc EXCEPT ![op] = "done"]
    /\ Report(op, "failed")
    /\ Forget(op)
    /\ UNCHANGED <<state, store, lock, kind, landed>>

\* A storage call fails, the context is cancelled, an LFS pointer is not
\* verified, or authorization is withdrawn before publication.
Fail(op) ==
    /\ pc[op] \in Guarded \ {"release"}
    /\ Unwind(op, "failed")

Crash(op) ==
    /\ Faults
    /\ pc[op] \notin Stopped
    /\ pc' = [pc EXCEPT ![op] = "crashed"]
    /\ Forget(op)
    /\ UNCHANGED <<state, store, lock, kind, result, landed>>

-----------------------------------------------------------------------------
(* publishObjects under the lock: every artifact before the state that names *)
(* it, and CompareAndSwapState last.                                          *)

Publishes(op) == kind[op] \in {"push", "repack"}

\* Mutant: the pinned version is not compared.
CheckBaseSkipped(op) ==
    /\ Publishes(op)
    /\ Goto(op, "locked", "pack")
    /\ UNCHANGED <<state, store, lock, kind, base, updates, next, work, result, landed>>

\* Mutant: the proposal is moved onto the current version as it is.
CheckBaseRebases(op) ==
    /\ Publishes(op)
    /\ Goto(op, "locked", "pack")
    /\ base' = [base EXCEPT ![op] = state]
    /\ next' = [next EXCEPT ![op].generation = state.generation + 1]
    /\ UNCHANGED <<state, store, lock, kind, updates, work, result, landed>>

\* The pinned version must still be the current one.
CheckBase(op) ==
    /\ Publishes(op)
    /\ pc[op] = "locked"
    /\ IF state = base[op]
       THEN /\ pc' = [pc EXCEPT ![op] = "pack"]
            /\ UNCHANGED <<state, store, lock, kind, base, updates, next, work, result, landed>>
       ELSE Unwind(op, "failed")

\* PutImmutable and snapshotKey: a key that exists has the wanted content.
PutKeys(op, keys) ==
    /\ store' = store \cup keys
    /\ UNCHANGED <<state, lock, kind, base, updates, next, work, result, landed>>

\* The pack of the objects that the proposal has to write, if there are any.
NewPack(op) ==
    LET ids == Unpacked(base[op], DOMAIN next[op].manifest.objects, kind[op] = "repack")
    IN  IF ids = {} THEN {} ELSE {<<"pack", ids>>}

StorePack(op) ==
    /\ Goto(op, "pack", "refs")
    /\ PutKeys(op, NewPack(op))

StoreRefs(op) ==
    /\ Goto(op, "refs", "manifest")
    /\ PutKeys(op, {<<"refs", next[op].refs>>})

StoreManifest(op) ==
    /\ Goto(op, "manifest", "validate")
    /\ PutKeys(op, {<<"manifest", next[op].manifest>>})

\* validateTransition and requireDurableReferences.
Validate(op) ==
    /\ pc[op] = "validate"
    /\ IF /\ state = base[op]
          /\ state.generation # MaxGeneration
          /\ next[op].generation = state.generation + 1
       THEN IF {<<"refs", next[op].refs>>, <<"manifest", next[op].manifest>>} \subseteq store
            THEN /\ pc' = [pc EXCEPT ![op] = "snapshot"]
                 /\ UNCHANGED <<state, store, lock, kind, base, updates, next, work, result, landed>>
            ELSE Unwind(op, "corrupt")
       ELSE Unwind(op, "failed")

StoreSnapshot(op) ==
    /\ Goto(op, "snapshot", "publish")
    /\ PutKeys(op, {<<"state", next[op]>>})

\* The conditional Put of "state" is the linearization point.
Swap(op) ==
    /\ Goto(op, "publish", "release")
    /\ state' = next[op]
    /\ landed' = landed \cup {op}
    /\ Forget(op)
    /\ UNCHANGED <<store, lock, kind>>

Publish(op) ==
    /\ pc[op] = "publish"
    /\ IF state = base[op] THEN Swap(op) /\ Report(op, "ok")
                           ELSE Unwind(op, "failed")

\* The Put took effect but its caller saw an error, or the refusal of a retry.
PublishResponseLost(op) ==
    /\ Faults
    /\ state = base[op]
    /\ Swap(op)
    /\ Report(op, "failed")

-----------------------------------------------------------------------------
(* RestoreGeneration under the lock. *)

\* Pin the current generation again, verify the target, and propose its refs
\* and manifest as the next generation.
ReadTarget(op) ==
    /\ kind[op] = "restore"
    /\ pc[op] = "locked"
    /\ IF <<"state", next[op]>> \in store /\ Verifies(next[op])
       THEN IF state.generation # MaxGeneration
            THEN /\ pc' = [pc EXCEPT ![op] = "validate"]
                 /\ base' = [base EXCEPT ![op] = state]
                 /\ next' = [next EXCEPT ![op].generation = state.generation + 1]
                 /\ UNCHANGED <<state, store, lock, kind, updates, work, result, landed>>
            ELSE Unwind(op, "failed")
       ELSE Unwind(op, "corrupt")

-----------------------------------------------------------------------------
(* GarbageCollect under the lock. *)

\* Load the current generation again and list every artifact.
List(op) ==
    /\ kind[op] = "collect"
    /\ pc[op] = "locked"
    /\ IF {<<"refs", state.refs>>, <<"manifest", state.manifest>>} \subseteq store
       THEN /\ pc' = [pc EXCEPT ![op] = "mark"]
            /\ base' = [base EXCEPT ![op] = state]
            /\ work' = [work EXCEPT ![op] = store]
            /\ UNCHANGED <<state, store, lock, kind, updates, next, result, landed>>
       ELSE Unwind(op, "corrupt")

\* Mutant: state snapshots are collected like the others.
CollectibleAny(k) == TRUE

Collectible(k) == k[1] # "state"

\* Mutant: only what the published generation refers to is marked.
MarkPublished(op) ==
    /\ pc[op] = "mark"
    /\ \E old \in SUBSET {k \in work[op] \ References(base[op]) : Collectible(k)} :
           work' = [work EXCEPT ![op] = old]
    /\ pc' = [pc EXCEPT ![op] = "delete"]
    /\ UNCHANGED <<state, store, lock, kind, base, updates, next, result, landed>>

\* Verify every listed state snapshot and mark what it refers to.  The old
\* artifacts among the unmarked ones are deleted: how old an artifact is, the
\* model leaves open.  A dry run deletes none.
Mark(op) ==
    LET snapshots == StatesOf(work[op])
        marked    == UNION {References(s) : s \in snapshots}
    IN  /\ pc[op] = "mark"
        /\ IF (\A s \in snapshots : Verifies(s)) /\ base[op] \in snapshots
           THEN /\ \E old \in SUBSET {k \in work[op] \ marked : Collectible(k)} :
                       work' = [work EXCEPT ![op] = old]
                /\ pc' = [pc EXCEPT ![op] = "delete"]
                /\ UNCHANGED <<state, store, lock, kind, base, updates, next, result, landed>>
           ELSE Unwind(op, "corrupt")

\* One conditional Delete.  An error at any of them ends the collection (Fail).
Delete(op) ==
    /\ pc[op] = "delete"
    /\ \E k \in work[op] :
           /\ store' = store \ {k}
           /\ work' = [work EXCEPT ![op] = @ \ {k}]
    /\ UNCHANGED <<state, lock, pc, kind, base, updates, next, result, landed>>

Collected(op) ==
    /\ work[op] = {}
    /\ Goto(op, "delete", "release")
    /\ Report(op, "ok")
    /\ Forget(op)
    /\ UNCHANGED <<state, store, lock, kind, landed>>

-----------------------------------------------------------------------------
Prepare(op) ==
    \/ \E k \in Kind : Pin(op, k)
    \/ Load(op) \/ PlanRepack(op) \/ PlanCollect(op)
    \/ \E refs \in Refs, incoming \in SUBSET Object : PlanPush(op, refs, incoming)
    \/ \E source \in Retained : PlanRestore(op, source)

\* The steps of an operation whose storage calls succeed.
Step(op) ==
    \/ Lock(op) \/ LockBusy(op) \/ Release(op)
    \/ CheckBase(op) \/ StorePack(op) \/ StoreRefs(op) \/ StoreManifest(op)
    \/ Validate(op) \/ StoreSnapshot(op) \/ Publish(op)
    \/ ReadTarget(op) \/ List(op) \/ Mark(op) \/ Delete(op) \/ Collected(op)

Mishap(op) ==
    \/ Reject(op) \/ Fail(op) \/ Crash(op)
    \/ LockResponseLost(op) \/ PublishResponseLost(op) \/ ReleaseFails(op)

Next ==
    \/ \E op \in Op : Prepare(op) \/ Step(op) \/ Mishap(op)
    \/ UnlockMaintenance

Spec == Init /\ [][Next]_vars

-----------------------------------------------------------------------------
TypeOK ==
    /\ state \in State
    /\ store \subseteq Key
    /\ lock \in Op \cup {NoOp}
    /\ pc \in [Op -> Stopped \cup Guarded \cup {"pinned", "loaded", "planned"}]
    /\ kind \in [Op -> Kind]
    /\ base \in [Op -> State \cup {NoState}]
    /\ updates \in [Op -> SUBSET RefUpdate]
    /\ next \in [Op -> State \cup {NoState}]
    /\ work \in [Op -> SUBSET Key]
    /\ result \in [Op -> {"none", "ok", "failed", "corrupt"}]
    /\ landed \subseteq Op

\* Every durable state snapshot, published or abandoned, keeps every artifact
\* it refers to and passes the verification of restore and collection, however
\* pushes, restores, collections and crashes interleave (GarbageCollect:
\* "retaining every durable state snapshot and everything referenced by those
\* snapshots").  One snapshot that does not would stop every later collection.
RetainedIntact == \A s \in Retained : Verifies(s)

\* The published generation is always also durable as an immutable snapshot:
\* ListGenerations, CheckIntegrity and GarbageCollect refuse to run otherwise.
CurrentRetained == state \in Retained

\* No reader, writer or maintenance operation ever misses an artifact of the
\* generation it works on, no matter how long ago it pinned that generation.
NothingMissing == \A op \in Op : result[op] # "corrupt"

\* Between lockRepository and its release an operation owns the lock, so that
\* no two operations are between them at the same time.
LockExcludes == \A op \in Op : pc[op] \in Guarded => lock = op

\* From its check of the pinned version to its own publication, nothing moves
\* the published generation under a writer: its compare-and-swap cannot lose.
BaseHeld ==
    \A op \in Op :
        pc[op] \in {"pack", "refs", "manifest", "validate", "snapshot", "publish"}
            => state = base[op]

\* An operation that reports success has taken effect; one that reports an
\* error (a conflict, a busy lock, a failed call) has not, unless a response
\* was lost.
ReportsTruth ==
    \A op \in Op :
        /\ result[op] = "ok" /\ kind[op] \in {"push", "repack", "restore"}
               => op \in landed
        /\ ~ Faults /\ result[op] = "failed" => op \notin landed

PublishesAtomically ==
    state' # state =>
        /\ state'.generation = state.generation + 1
        /\ \E op \in Op :
            /\ op \notin landed /\ landed' = landed \cup {op}
            /\ kind[op] # "restore" =>
                /\ updates[op] = UpdatesBetween(state.refs, state'.refs)
                /\ kind[op] = "repack" => updates[op] = {}

\* Publication is one atomic compare-and-swap of all references: a push finds
\* every reference it updates at the value its caller has seen, sets those and
\* leaves every other one at its current value; a repack changes none.  Each
\* is one generation, an operation publishes at most once, and nothing but a
\* publication moves "state".
PublicationIsAtomic == [][PublishesAtomically]_vars

DeletesOrphans ==
    /\ Retained \subseteq Retained'
    /\ \A k \in store \ store' : \A s \in Retained : k \notin References(s)

\* No step removes a state snapshot, and none removes an artifact that some
\* state snapshot refers to (GarbageCollect: "removes only orphan artifacts").
CollectsOrphansOnly == [][DeletesOrphans]_vars

-----------------------------------------------------------------------------
(* Why the safety properties hold: what an operation may rely on, step by   *)
(* step.  Together with them it is inductive (RepositoryPublicationProofs). *)

Writing == {"pack", "refs", "manifest"}

Proposing == {"validate", "snapshot", "publish"}

PublicKeys(s) == {<<"refs", s.refs>>, <<"manifest", s.manifest>>}

\* What is pinned is retained, so collection never takes it away.
PinRetained(op) ==
    pc[op] \in {"pinned", "loaded", "planned"} \cup (Guarded \ {"release"})
        => base[op] \in Retained

RightKind(op) ==
    /\ pc[op] \in Writing => Publishes(op)
    /\ pc[op] \in Proposing => kind[op] \in {"push", "repack", "restore"}
    /\ pc[op] \in {"mark", "delete"} => kind[op] = "collect"

\* A plan needs nothing but the pinned generation and what it will write.
PlanSound(op) ==
    Publishes(op) /\ pc[op] \in {"planned", "locked"} \cup Writing =>
        /\ next[op] \in State
        /\ WellFormed(next[op])
        /\ next[op].generation = base[op].generation + 1
        /\ References(next[op]) \subseteq
               References(base[op]) \cup NewPack(op) \cup PublicKeys(next[op])

SourceRetained(op) ==
    kind[op] = "restore" /\ pc[op] \in {"planned", "locked"} => next[op] \in Retained

\* Every artifact is durable before the snapshot that names it.
Staged(op) ==
    /\ pc[op] \in {"refs", "manifest"} => NewPack(op) \subseteq store
    /\ pc[op] = "manifest" => <<"refs", next[op].refs>> \in store
    /\ pc[op] \in Proposing =>
           /\ next[op] \in State
           /\ Verifies(next[op])
           /\ next[op].generation = base[op].generation + 1
    /\ pc[op] = "publish" => next[op] \in Retained

\* Collection sees the whole store, and then only deletes orphans.
Collecting(op) ==
    /\ pc[op] = "mark" => work[op] = store
    /\ pc[op] = "delete" =>
           \A k \in work[op] : Collectible(k) /\ \A s \in Retained : k \notin References(s)

BaseHeldBy(op) == pc[op] \in Writing \cup Proposing => state = base[op]

OpInv(op) ==
    /\ PinRetained(op)
    /\ RightKind(op)
    /\ PlanSound(op)
    /\ SourceRetained(op)
    /\ Staged(op)
    /\ Collecting(op)
    /\ BaseHeldBy(op)

\* The inductive invariant of publication, restore and collection: the safety
\* properties above, and at every step of every operation what it relies on.
PublicationInv ==
    /\ TypeOK
    /\ LockExcludes
    /\ CurrentRetained
    /\ RetainedIntact
    /\ NothingMissing
    /\ \A op \in Op : OpInv(op)

-----------------------------------------------------------------------------
(* Why reports and publications are what they say: what an operation asks of *)
(* the history (RepositoryPublicationProofs).                                *)

\* It publishes once, asks nothing before its plan and after its return, plans
\* from its pinned references, and reports success if and only if it landed.
Asking(op) ==
    /\ op \in landed => pc[op] \in {"release", "done", "crashed"}
    /\ pc[op] = "idle" => result[op] = "none"
    /\ pc[op] \notin {"planned"} \cup (Guarded \ {"release"}) => next[op] = NoState
    /\ Publishes(op) /\ pc[op] \in {"planned", "locked"} \cup Writing \cup Proposing =>
           /\ updates[op] = UpdatesBetween(base[op].refs, next[op].refs)
           /\ kind[op] = "repack" => updates[op] = {}
    /\ result[op] = "ok" /\ kind[op] \in {"push", "repack", "restore"} => op \in landed
    /\ ~ Faults /\ op \in landed => result[op] = "ok"

\* So it is of every operation, whatever the others do, which crash and which
\* responses are lost: with PublicationInv this is inductive.
AskingInv == \A op \in Op : Asking(op)

\* All of it: snapshots and the current state are complete, the lock excludes,
\* nothing that a reader may need is missing, and reports are true.
HistoryInv == PublicationInv /\ AskingInv /\ ReportsTruth

-----------------------------------------------------------------------------
(* The repository implements its history of atomic publications. *)

\* What an operation asks of the history, from its plan until it returns.
Asked(op) ==
    CASE next[op] = NoState -> NoState
      [] next[op] # NoState /\ kind[op] = "restore" -> [restore |-> next[op].refs]
      [] OTHER -> [updates |-> updates[op]]

History == INSTANCE RepositoryHistory WITH
    Value      <- Object \cup {NoObject},
    NoRequest  <- NoState,
    refs       <- state.refs,
    generation <- state.generation,
    request    <- [op \in Op |-> Asked(op)],
    applied    <- landed

\* Every behaviour of the repository, with its crashes, lost responses and
\* interleavings, is one of the atomic history: publishObjects and
\* RestoreGeneration are linearizable.
ImplementsHistory == History!Spec

-----------------------------------------------------------------------------
(* Progress.  An operation whose storage calls answer takes its next step:   *)
(* every call has a context that the server or its operator bounds.          *)

\* Whatever path a writer, a restore or a collection takes, error returns
\* included, it gives the lock back (lockRepository's deferred unlock).
LockReleased == lock # NoOp ~> lock = NoOp

\* An operation that took the lock comes to its end: no step under the lock
\* waits for another operation.
LockedOperationEnds == \A op \in Op : pc[op] = "locked" ~> pc[op] \in Stopped

\* Both: the lock is neither kept nor waited under (Store.lockRepository).
LockedWorkEnds == LockReleased /\ LockedOperationEnds

=============================================================================
