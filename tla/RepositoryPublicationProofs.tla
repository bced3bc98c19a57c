--------------------- MODULE RepositoryPublicationProofs ---------------------
(* Proofs, for every object graph, every set of references and any number of *)
(* operations: the inductive invariant of RepositoryPublication, that        *)
(* publication is atomic, that reports are true, that collection deletes     *)
(* orphans only, and that the repository implements its history.             *)
EXTENDS RepositoryPublication, TLAPS

-----------------------------------------------------------------------------
(* Content. *)

\* Whatever a walk reaches, it contains its roots and every link of it, and
\* it stays inside every closed set that contains the roots (walkObjects).
LEMMA ReachableClosed ==
    ASSUME NEW roots \in SUBSET Object
    PROVE  /\ Reachable(roots) \subseteq Object
           /\ roots \subseteq Reachable(roots)
           /\ Closed(Reachable(roots))
           /\ \A S \in SUBSET Object :
                  roots \subseteq S /\ Closed(S) => Reachable(roots) \subseteq S
<1>1. Reachable(roots) \subseteq Object
  BY DEF Reachable
<1>2. roots \subseteq Reachable(roots)
  BY DEF Reachable
<1>3. Closed(Reachable(roots))
  BY GraphAssumption DEF Reachable, Closed
<1>4. \A S \in SUBSET Object :
          roots \subseteq S /\ Closed(S) => Reachable(roots) \subseteq S
  BY DEF Reachable
<1> QED
  BY <1>1, <1>2, <1>3, <1>4

LEMMA TargetsAreObjects ==
    ASSUME NEW refs \in Refs
    PROVE  Targets(refs) \in SUBSET Object
BY DEF Refs, Targets

\* The state snapshots in the store are states.
LEMMA RetainedKeys ==
    ASSUME store \subseteq Key
    PROVE  /\ Retained \subseteq State
           /\ \A s : s \in Retained <=> <<"state", s>> \in store
<1>1. ASSUME NEW k \in store, k[1] = "state"
      PROVE  k[2] \in State /\ k = <<"state", k[2]>>
  BY <1>1 DEF Key, Location
<1>2. ASSUME NEW s, <<"state", s>> \in store
      PROVE  s \in Retained
  BY <1>2 DEF Retained, StatesOf
<1>3. ASSUME NEW s \in Retained
      PROVE  s \in State /\ <<"state", s>> \in store
  BY <1>1 DEF Retained, StatesOf
<1> QED
  BY Zenon, <1>2, <1>3

\* The generation that publishObjects proposes on top of a well-formed one is
\* well formed, and refers to nothing but what the pinned one refers to, the
\* new pack, and its own refs and manifest.
LEMMA ProposalSound ==
    ASSUME NEW b \in State, WellFormed(b), b.generation # MaxGeneration,
           NEW refs \in Refs, NoDirectoryClash(refs), BranchesAreCommits(refs),
           NEW repack \in BOOLEAN
    PROVE  LET p   == Proposal(b, refs, repack)
               ids == Unpacked(b, DOMAIN p.manifest.objects, repack)
           IN  /\ p \in State
               /\ WellFormed(p)
               /\ p.generation = b.generation + 1
               /\ p.refs = refs
               /\ References(p) \subseteq
                      References(b) \cup (IF ids = {} THEN {} ELSE {<<"pack", ids>>})
                                    \cup PublicKeys(p)
<1> DEFINE objects == Reachable(Targets(refs))
           ids == Unpacked(b, objects, repack)
           where == [o \in objects |-> IF o \in ids THEN <<"pack", ids>>
                                       ELSE b.manifest.objects[o]]
           p == Proposal(b, refs, repack)
<1>1. /\ objects \subseteq Object
      /\ Targets(refs) \subseteq objects
      /\ Closed(objects)
  BY ReachableClosed, TargetsAreObjects
<1>2. ids \in SUBSET objects /\ ids \in SUBSET Object
  BY <1>1 DEF Unpacked
<1>3. \A o \in objects \ ids :
          /\ o \in DOMAIN b.manifest.objects
          /\ b.manifest.objects[o] \in Location
  BY <1>1 DEF Unpacked, State, Manifest
<1>4. where \in [objects -> Location]
  BY <1>2, <1>3 DEF Location
<1>5. p = [generation |-> b.generation + 1, refs |-> refs,
           manifest |-> [schema |-> 2, objects |-> where]]
  BY DEF Proposal
<1>6. b.generation + 1 \in 1..MaxGeneration
  BY OpAssumption DEF State
<1>7. [schema |-> 2, objects |-> where] \in Manifest
  BY <1>1, <1>4 DEF Manifest
<1>8. p \in State
  BY <1>5, <1>6, <1>7 DEF State
<1>9. DOMAIN p.manifest.objects = objects
  BY <1>5
<1>10. \A o \in objects :
          \/ where[o] = <<"loose", o>>
          \/ \E i \in SUBSET Object : where[o] = <<"pack", i>> /\ o \in i
  <2>1. SUFFICES ASSUME NEW o \in objects \ ids
                 PROVE  \/ b.manifest.objects[o] = <<"loose", o>>
                        \/ \E i \in SUBSET Object :
                               b.manifest.objects[o] = <<"pack", i>> /\ o \in i
    BY <1>2
  <2> QED
    BY <1>3 DEF WellFormed
<1>11. WellFormed(p)
  <2>1. p.refs = refs /\ p.manifest.schema = 2 /\ p.manifest.objects = where
    BY <1>5
  <2>2. DOMAIN where = objects
    OBVIOUS
  <2> HIDE DEF p, where, objects
  <2> QED
    BY <1>1, <1>10, <2>1, <2>2 DEF WellFormed
<1>12. \A o \in objects :
           where[o] \in References(b) \cup (IF ids = {} THEN {} ELSE {<<"pack", ids>>})
  BY <1>3 DEF References
<1>13. References(p) \subseteq
          References(b) \cup (IF ids = {} THEN {} ELSE {<<"pack", ids>>}) \cup PublicKeys(p)
  <2> DEFINE new == IF ids = {} THEN {} ELSE {<<"pack", ids>>}
  <2>1. p.manifest.objects = where /\ DOMAIN where = objects
    BY <1>5
  <2>2. \A o \in objects : where[o] \in References(b) \cup new
    BY <1>12
  <2> HIDE DEF p, where, objects, ids, new
  <2>3. References(p) = PublicKeys(p) \cup {where[o] : o \in objects}
    BY <2>1 DEF References, PublicKeys
  <2> QED
    BY <2>2, <2>3 DEF new
<1> QED
  BY <1>5, <1>8, <1>9, <1>11, <1>13

-----------------------------------------------------------------------------
(* What every step has in common. *)

\* The operations other than op are not touched by a step of op.
Others(op) ==
    \A q \in Op \ {op} :
        /\ pc'[q] = pc[q] /\ kind'[q] = kind[q] /\ base'[q] = base[q]
        /\ next'[q] = next[q] /\ work'[q] = work[q] /\ result'[q] = result[q]

\* An operation that has returned, or is about to, relies on nothing.
LEMMA RestingKeeps ==
    ASSUME NEW op \in Op, pc'[op] \in Stopped \cup {"release"}
    PROVE  OpInv(op)'
BY DEF OpInv, PinRetained, RightKind, PlanSound, SourceRetained, Staged,
       Collecting, BaseHeldBy, Stopped, Guarded, Writing, Proposing

\* What an operation relies on survives the steps of the others: they leave
\* the store alone while it owns the lock, and never drop a state snapshot.
LEMMA OtherKeeps ==
    ASSUME NEW q \in Op, OpInv(q),
           pc'[q] = pc[q], kind'[q] = kind[q], base'[q] = base[q],
           next'[q] = next[q], work'[q] = work[q],
           Retained \subseteq Retained',
           pc[q] \in Guarded => store' = store /\ state' = state
    PROVE  OpInv(q)'
<1>1. PinRetained(q)'
  BY DEF OpInv, PinRetained
<1>2. RightKind(q)'
  BY DEF OpInv, RightKind, Publishes
<1>3. PlanSound(q)'
  BY DEF OpInv, PlanSound, Publishes, NewPack
<1>4. SourceRetained(q)'
  BY DEF OpInv, SourceRetained
<1>5. Staged(q)'
  <2>1. pc[q] \in {"refs", "manifest"} \cup Proposing => store' = store
    BY DEF Guarded, Proposing
  <2>2. NewPack(q)' = NewPack(q)
    BY DEF NewPack
  <2>3. pc[q] \in Proposing => (Verifies(next[q]) => Verifies(next[q])')
    BY <2>1 DEF Verifies
  <2>4. Staged(q)
    BY DEF OpInv
  <2>5. pc[q] \in {"refs", "manifest"} => NewPack(q)' \subseteq store'
    BY <2>1, <2>2, <2>4 DEF Staged
  <2>6. pc[q] = "manifest" => <<"refs", next'[q].refs>> \in store'
    BY <2>1, <2>4 DEF Staged
  <2>7. pc[q] = "publish" => next'[q] \in Retained'
    BY <2>4 DEF Staged
  <2>8. pc[q] \in Proposing => /\ next'[q] \in State
                              /\ Verifies(next[q])'
                              /\ next'[q].generation = base'[q].generation + 1
    BY <2>3, <2>4 DEF Staged
  <2> QED
    BY <2>5, <2>6, <2>7, <2>8 DEF Staged, Proposing
<1>6. Collecting(q)'
  <2>1. pc[q] \in {"mark", "delete"} => store' = store
    BY DEF Guarded
  <2> QED
    BY <2>1 DEF OpInv, Collecting, Retained
<1>7. BaseHeldBy(q)'
  BY DEF OpInv, BaseHeldBy, Guarded, Writing, Proposing
<1> QED
  BY <1>1, <1>2, <1>3, <1>4, <1>5, <1>6, <1>7 DEF OpInv

\* The frame of a step of op: it is enough to look at op itself, at the lock
\* and at the store.
LEMMA StepKeeps ==
    ASSUME PublicationInv, NEW op \in Op, Others(op), TypeOK',
           pc[op] \in Guarded \/ (store' = store /\ state' = state),
           pc'[op] \in Guarded => lock' = op,
           lock' = lock \/ lock \in {op, NoOp},
           Retained \subseteq Retained', CurrentRetained', RetainedIntact',
           result'[op] # "corrupt", OpInv(op)'
    PROVE  PublicationInv'
<1>1. ASSUME NEW q \in Op \ {op}
      PROVE  OpInv(q)'
  <2>1. pc[q] \in Guarded => store' = store /\ state' = state
    BY DEF PublicationInv, LockExcludes
  <2> QED
    BY <2>1, OtherKeeps DEF PublicationInv, Others
<1>2. LockExcludes'
  <2>1. ASSUME NEW q \in Op \ {op}, pc[q] \in Guarded
        PROVE  lock' = q
    BY <2>1, OpAssumption DEF PublicationInv, LockExcludes
  <2> QED
    BY <2>1 DEF LockExcludes, Others
<1>3. NothingMissing'
  BY DEF PublicationInv, NothingMissing, Others
<1> QED
  BY <1>1, <1>2, <1>3 DEF PublicationInv

\* A step of op that leaves the store alone and at which op returns, or starts
\* to unwind.
Ends(op, to, outcome) ==
    /\ to \in Stopped \cup {"release"}
    /\ outcome \in {"none", "ok", "failed"}
    /\ pc' = [pc EXCEPT ![op] = to]
    /\ result' = [result EXCEPT ![op] = outcome]
    /\ Forget(op) \/ UNCHANGED <<base, updates, next, work>>
    /\ UNCHANGED <<state, store, kind, landed>>
    /\ IF to = "release" THEN lock' = lock /\ lock = op
       ELSE lock' = lock \/ (lock \in {op, NoOp} /\ lock' \in {op, NoOp})

LEMMA EndKeeps ==
    ASSUME PublicationInv, NEW op \in Op, NEW to, NEW outcome, Ends(op, to, outcome)
    PROVE  PublicationInv'
<1>1. TypeOK'
  BY DEF PublicationInv, TypeOK, Ends, Forget, Stopped, Guarded
<1>2. Others(op)
  BY DEF PublicationInv, TypeOK, Ends, Others, Forget
<1>3. /\ pc'[op] = to /\ to \in Stopped \cup {"release"}
      /\ result'[op] = outcome /\ outcome # "corrupt"
  BY DEF PublicationInv, TypeOK, Ends
<1>4. OpInv(op)'
  BY <1>3, RestingKeeps
<1>5. /\ store' = store /\ state' = state
      /\ Retained' = Retained /\ CurrentRetained' /\ RetainedIntact'
  BY DEF PublicationInv, Ends, Retained, CurrentRetained, RetainedIntact, Verifies
<1>6. pc'[op] \in Guarded => lock' = op
  BY <1>3 DEF Ends, Stopped, Guarded
<1>7. lock' = lock \/ lock \in {op, NoOp}
  BY DEF Ends
<1> QED
  BY <1>1, <1>2, <1>3, <1>4, <1>5, <1>6, <1>7, StepKeeps

\* An error return under the lock.
LEMMA UnwindKeeps ==
    ASSUME PublicationInv, NEW op \in Op, pc[op] \in Guarded, Unwind(op, "failed")
    PROVE  PublicationInv'
<1>1. Ends(op, "release", "failed")
  BY DEF Ends, Unwind, Report, PublicationInv, LockExcludes
<1> QED
  BY <1>1, EndKeeps

\* The steps that only read, or only take or give back the lock.
LEMMA QuietKeeps ==
    ASSUME PublicationInv, NEW op \in Op,
           \/ Reject(op) \/ LockBusy(op) \/ LockResponseLost(op) \/ Fail(op)
           \/ Crash(op) \/ Release(op) \/ ReleaseFails(op) \/ Collected(op)
    PROVE  PublicationInv'
<1>0. /\ result[op] \in {"none", "ok", "failed"}
      /\ result = [result EXCEPT ![op] = result[op]]
      /\ pc[op] \in Guarded => lock = op
  BY DEF PublicationInv, TypeOK, NothingMissing, LockExcludes
<1>1. CASE Reject(op)
  <2>1. Ends(op, "done", "failed")
    BY <1>1 DEF Ends, Reject, Report, Stopped
  <2> QED
    BY <2>1, EndKeeps
<1>2. CASE LockBusy(op)
  <2>1. Ends(op, "done", "failed")
    BY <1>2 DEF Ends, LockBusy, Goto, Report, Stopped
  <2> QED
    BY <2>1, EndKeeps
<1>3. CASE LockResponseLost(op)
  <2>1. Ends(op, "done", "failed")
    BY <1>3 DEF Ends, LockResponseLost, Goto, Report, Stopped
  <2> QED
    BY <2>1, EndKeeps
<1>4. CASE Fail(op)
  BY <1>4, UnwindKeeps DEF Fail
<1>5. CASE Crash(op)
  <2>1. Ends(op, "crashed", result[op])
    BY <1>0, <1>5 DEF Ends, Crash, Stopped
  <2> QED
    BY <2>1, EndKeeps
<1>6. CASE Release(op)
  <2>1. Ends(op, "done", result[op])
    BY <1>0, <1>6 DEF Ends, Release, Goto, Guarded, Stopped
  <2> QED
    BY <2>1, EndKeeps
<1>7. CASE ReleaseFails(op)
  <2>1. Ends(op, "done", "failed")
    BY <1>0, <1>7 DEF Ends, ReleaseFails, Goto, Report, Stopped, Guarded
  <2> QED
    BY <2>1, EndKeeps
<1>8. CASE Collected(op)
  <2>1. Ends(op, "release", "ok")
    BY <1>0, <1>8 DEF Ends, Collected, Goto, Report, Guarded
  <2> QED
    BY <2>1, EndKeeps
<1> QED
  BY <1>1, <1>2, <1>3, <1>4, <1>5, <1>6, <1>7, <1>8

\* A step of op that leaves the store and the published generation alone.
LEMMA MoveKeeps ==
    ASSUME PublicationInv, NEW op \in Op, TypeOK', Others(op),
           store' = store, state' = state, result'[op] = result[op],
           pc'[op] \in Guarded => lock' = op,
           lock' = lock \/ lock \in {op, NoOp},
           OpInv(op)'
    PROVE  PublicationInv'
<1>1. /\ Retained' = Retained /\ CurrentRetained' /\ RetainedIntact'
  BY DEF PublicationInv, Retained, CurrentRetained, RetainedIntact, Verifies
<1>2. result'[op] # "corrupt"
  BY DEF PublicationInv, NothingMissing
<1> QED
  BY <1>1, <1>2, StepKeeps

-----------------------------------------------------------------------------
(* Before the lock. *)

LEMMA PinKeeps ==
    ASSUME PublicationInv, NEW op \in Op, NEW k \in Kind, Pin(op, k)
    PROVE  PublicationInv'
<1>1. TypeOK'
  BY DEF PublicationInv, TypeOK, Pin, Goto
<1>2. Others(op)
  BY DEF PublicationInv, TypeOK, Pin, Goto, Others
<1>3. pc'[op] = "pinned" /\ base'[op] = state /\ result'[op] = result[op]
  BY DEF PublicationInv, TypeOK, Pin, Goto
<1>4. store' = store /\ state' = state /\ lock' = lock
  BY DEF Pin
<1>5. OpInv(op)'
  BY <1>3, <1>4 DEF PublicationInv, CurrentRetained, Retained, OpInv, PinRetained,
     RightKind, PlanSound, SourceRetained, Staged, Collecting, BaseHeldBy, Writing, Proposing
<1> QED
  BY <1>1, <1>2, <1>3, <1>4, <1>5, MoveKeeps DEF Guarded

\* What an operation has pinned is a well-formed state that is all there.
LEMMA PinnedIntact ==
    ASSUME PublicationInv, NEW op \in Op,
           pc[op] \in {"pinned", "loaded", "planned"} \cup (Guarded \ {"release"})
    PROVE  /\ base[op] \in State
           /\ base[op] \in Retained
           /\ WellFormed(base[op])
           /\ References(base[op]) \subseteq store
BY RetainedKeys DEF PublicationInv, TypeOK, OpInv, PinRetained, RetainedIntact, Verifies

LEMMA LoadKeeps ==
    ASSUME PublicationInv, NEW op \in Op, Load(op)
    PROVE  PublicationInv'
<1>1. pc[op] = "pinned"
  BY DEF Load
<1>2. References(base[op]) \subseteq store
  BY <1>1, PinnedIntact
<1>3. PinnedReads(op) \subseteq store
  BY <1>2 DEF PinnedReads, References
<1>4. CASE kind[op] = "read"
  <2>1. Ends(op, "done", "ok")
    BY <1>3, <1>4 DEF Ends, Load, Goto, Report, Stopped
  <2> QED
    BY <2>1, EndKeeps
<1>5. CASE kind[op] # "read"
  <2>1. /\ pc' = [pc EXCEPT ![op] = "loaded"]
        /\ UNCHANGED <<state, store, lock, kind, base, updates, next, work, result, landed>>
    BY Zenon, <1>3, <1>5 DEF Load, Goto
  <2>2. TypeOK' /\ Others(op) /\ pc'[op] = "loaded"
    BY <2>1 DEF PublicationInv, TypeOK, Others
  <2>3. OpInv(op)'
    BY <1>1, <2>1, <2>2, PinnedIntact DEF Retained, OpInv, PinRetained, RightKind,
       PlanSound, SourceRetained, Staged, Collecting, BaseHeldBy, Writing, Proposing
  <2> QED
    BY <2>1, <2>2, <2>3, MoveKeeps DEF Guarded
<1> QED
  BY <1>4, <1>5

\* A plan is settled: for a publication it is sound, for a restore its source
\* is retained.
LEMMA PlanKeeps ==
    ASSUME PublicationInv, NEW op \in Op, NEW asked \in SUBSET RefUpdate,
           NEW proposal \in State \cup {NoState}, Plan(op, asked, proposal),
           PlanSound(op)', SourceRetained(op)'
    PROVE  PublicationInv'
<1>1. /\ pc[op] = "loaded" /\ pc'[op] = "planned"
      /\ UNCHANGED <<state, store, lock, kind, base, work, result, landed>>
  BY DEF PublicationInv, TypeOK, Plan, Goto
<1>2. TypeOK' /\ Others(op)
  BY DEF PublicationInv, TypeOK, Plan, Goto, Others
<1>3. OpInv(op)'
  BY <1>1, PinnedIntact DEF Retained, OpInv, PinRetained, RightKind, Staged,
     Collecting, BaseHeldBy, Writing, Proposing
<1> QED
  BY <1>1, <1>2, <1>3, MoveKeeps DEF Guarded

LEMMA PlanPublicationKeeps ==
    ASSUME PublicationInv, NEW op \in Op, NEW refs \in Refs,
           NEW asked \in SUBSET RefUpdate,
           pc[op] = "loaded", Publishes(op),
           base[op].generation # MaxGeneration,
           NoDirectoryClash(refs), BranchesAreCommits(refs),
           Plan(op, asked, Proposal(base[op], refs, kind[op] = "repack"))
    PROVE  PublicationInv'
<1> DEFINE p == Proposal(base[op], refs, kind[op] = "repack")
<1>1. base[op] \in State /\ WellFormed(base[op])
  BY PinnedIntact
<1>2. kind' = kind /\ base' = base /\ next'[op] = p
  BY DEF PublicationInv, TypeOK, Plan
<1>3. /\ p \in State
      /\ WellFormed(p)
      /\ p.generation = base[op].generation + 1
      /\ LET ids == Unpacked(base[op], DOMAIN p.manifest.objects, kind[op] = "repack")
         IN  References(p) \subseteq
                 References(base[op]) \cup (IF ids = {} THEN {} ELSE {<<"pack", ids>>})
                                      \cup PublicKeys(p)
  BY Zenon, <1>1, ProposalSound
<1> HIDE DEF p
<1>4. PlanSound(op)'
  BY Zenon, <1>2, <1>3 DEF PlanSound, NewPack
<1>5. SourceRetained(op)'
  BY <1>2 DEF SourceRetained, Publishes
<1> QED
  BY <1>3, <1>4, <1>5, PlanKeeps DEF p

LEMMA PlanningKeeps ==
    ASSUME PublicationInv, NEW op \in Op,
           \/ \E refs \in Refs, incoming \in SUBSET Object : PlanPush(op, refs, incoming)
           \/ PlanRepack(op) \/ PlanCollect(op)
           \/ \E source \in Retained : PlanRestore(op, source)
    PROVE  PublicationInv'
<1>1. ASSUME NEW refs \in Refs, NEW incoming \in SUBSET Object, PlanPush(op, refs, incoming)
      PROVE  PublicationInv'
  <2>1. base[op].refs \in Refs
    BY <1>1, PinnedIntact DEF PlanPush, State
  <2>2. UpdatesBetween(base[op].refs, refs) \in SUBSET RefUpdate
    BY SMTT(30), <2>1 DEF UpdatesBetween, RefUpdate, Refs
  <2>3. (kind[op] = "repack") = FALSE /\ Publishes(op)
    BY <1>1 DEF PlanPush, Publishes
  <2>4. Plan(op, UpdatesBetween(base[op].refs, refs), Proposal(base[op], refs, kind[op] = "repack"))
    BY ZenonT(30), <1>1, <2>3 DEF PlanPush
  <2> QED
    BY <1>1, <2>2, <2>3, <2>4, PlanPublicationKeeps DEF PlanPush
<1>2. CASE PlanRepack(op)
  <2>1. base[op].refs \in Refs /\ NoDirectoryClash(base[op].refs)
        /\ BranchesAreCommits(base[op].refs)
    BY <1>2, PinnedIntact DEF PlanRepack, State, WellFormed
  <2>2. (kind[op] = "repack") = TRUE /\ Publishes(op)
    BY <1>2 DEF PlanRepack, Publishes
  <2>3. Plan(op, {}, Proposal(base[op], base[op].refs, kind[op] = "repack")) /\ {} \in SUBSET RefUpdate
    BY Zenon, <1>2, <2>2 DEF PlanRepack
  <2> QED
    BY <1>2, <2>1, <2>2, <2>3, PlanPublicationKeeps DEF PlanRepack
<1>3. CASE PlanCollect(op)
  <2>1. PlanSound(op)' /\ SourceRetained(op)'
    BY <1>3 DEF PlanCollect, Plan, PlanSound, Publishes, SourceRetained
  <2>2. Plan(op, {}, NoState) /\ {} \in SUBSET RefUpdate
    BY <1>3 DEF PlanCollect
  <2> QED
    BY <2>1, <2>2, PlanKeeps
<1>4. ASSUME NEW source \in Retained, PlanRestore(op, source)
      PROVE  PublicationInv'
  <2>1. source \in State \cup {NoState}
    BY RetainedKeys DEF PublicationInv, TypeOK
  <2>2. PlanSound(op)'
    BY <1>4 DEF PlanRestore, Plan, PlanSound, Publishes
  <2>3. SourceRetained(op)'
    BY <1>4 DEF PlanRestore, Plan, SourceRetained, Retained, PublicationInv, TypeOK
  <2>4. Plan(op, {}, source) /\ {} \in SUBSET RefUpdate
    BY <1>4 DEF PlanRestore
  <2> QED
    BY <2>1, <2>2, <2>3, <2>4, PlanKeeps
<1> QED
  BY <1>1, <1>2, <1>3, <1>4

LEMMA LockKeeps ==
    ASSUME PublicationInv, NEW op \in Op, Lock(op)
    PROVE  PublicationInv'
<1>1. /\ pc[op] = "planned" /\ pc'[op] = "locked" /\ lock = NoOp /\ lock' = op
      /\ UNCHANGED <<state, store, kind, base, next, work, result, landed>>
  BY DEF PublicationInv, TypeOK, Lock, Goto
<1>2. TypeOK' /\ Others(op)
  BY DEF PublicationInv, TypeOK, Lock, Goto, Others, Guarded
<1>3. OpInv(op)'
  BY Zenon, <1>1 DEF PublicationInv, Retained, OpInv, PinRetained, RightKind, PlanSound,
     SourceRetained, Staged, Collecting, BaseHeldBy, Writing, Proposing, Publishes, NewPack
<1> QED
  BY <1>1, <1>2, <1>3, MoveKeeps

-----------------------------------------------------------------------------
(* Publication under the lock. *)

LEMMA CheckBaseKeeps ==
    ASSUME PublicationInv, NEW op \in Op, CheckBase(op)
    PROVE  PublicationInv'
<1>1. Publishes(op) /\ pc[op] = "locked" /\ lock = op
  BY DEF CheckBase, PublicationInv, LockExcludes, Guarded
<1>2. CASE state # base[op]
  BY <1>1, <1>2, UnwindKeeps DEF CheckBase, Guarded
<1>3. CASE state = base[op]
  <2>1. /\ pc' = [pc EXCEPT ![op] = "pack"]
        /\ UNCHANGED <<state, store, lock, kind, base, updates, next, work, result, landed>>
    BY <1>3 DEF CheckBase
  <2>2. TypeOK' /\ Others(op) /\ pc'[op] = "pack"
    BY <2>1 DEF PublicationInv, TypeOK, Others, Guarded
  <2>3. OpInv(op)'
    BY ZenonT(30), <1>1, <1>3, <2>1, <2>2 DEF PublicationInv, Retained, OpInv, PinRetained, Guarded,
       RightKind, PlanSound, SourceRetained, Staged, Collecting, BaseHeldBy, Writing,
       Proposing, Publishes, NewPack
  <2> QED
    BY <1>1, <2>1, <2>2, <2>3, MoveKeeps
<1> QED
  BY <1>2, <1>3

\* A step that adds artifacts, none of them a state snapshot.
LEMMA PutKeeps ==
    ASSUME PublicationInv, NEW op \in Op, NEW keys \in SUBSET Key,
           \A k \in keys : k[1] # "state",
           NEW to \in Guarded, pc[op] \in Guarded,
           pc' = [pc EXCEPT ![op] = to], PutKeys(op, keys), OpInv(op)'
    PROVE  PublicationInv'
<1>1. /\ store' = store \cup keys /\ pc'[op] = to
      /\ UNCHANGED <<state, lock, kind, base, updates, next, work, result, landed>>
  BY ZenonT(30) DEF PutKeys, PublicationInv, TypeOK
<1>2. TypeOK' /\ Others(op)
  BY Zenon, <1>1 DEF PublicationInv, TypeOK, Others
<1>3. Retained' = Retained
  BY <1>1 DEF Retained, StatesOf
<1>4. CurrentRetained' /\ RetainedIntact'
  BY <1>1, <1>3 DEF PublicationInv, CurrentRetained, RetainedIntact, Verifies
<1>5. lock = op /\ result'[op] # "corrupt"
  BY <1>1 DEF PublicationInv, LockExcludes, NothingMissing
<1> QED
  BY ZenonT(30), <1>1, <1>2, <1>3, <1>4, <1>5, StepKeeps

\* Where a publication stands after its plan.
LEMMA PlannedFacts ==
    ASSUME PublicationInv, NEW op \in Op, pc[op] \in Writing
    PROVE  /\ Publishes(op) /\ pc[op] \in Guarded
           /\ next[op] \in State
           /\ WellFormed(next[op])
           /\ next[op].generation = base[op].generation + 1
           /\ References(next[op]) \subseteq store \cup NewPack(op) \cup PublicKeys(next[op])
           /\ NewPack(op) \subseteq Location
           /\ \A k \in NewPack(op) : k[1] # "state"
           /\ PublicKeys(next[op]) \subseteq Key
<1>1. Publishes(op) /\ pc[op] \in Guarded /\ PlanSound(op)
  BY DEF PublicationInv, OpInv, RightKind, Writing, Guarded
<1>2. References(base[op]) \subseteq store
  BY <1>1, PinnedIntact DEF Writing, Guarded
<1>3. next[op] \in State
  BY <1>1 DEF PlanSound
<1>4. DOMAIN next[op].manifest.objects \subseteq Object
  BY <1>3 DEF State, Manifest
<1>5. NewPack(op) \subseteq Location /\ \A k \in NewPack(op) : k[1] # "state"
  BY SMTT(30), <1>4 DEF NewPack, Unpacked, Location
<1>6. PublicKeys(next[op]) \subseteq Key
  BY <1>3 DEF PublicKeys, Key, State
<1> QED
  BY <1>1, <1>2, <1>3, <1>5, <1>6 DEF PlanSound

LEMMA StorePackKeeps ==
    ASSUME PublicationInv, NEW op \in Op, StorePack(op)
    PROVE  PublicationInv'
<1>1. /\ pc[op] = "pack" /\ pc'[op] = "refs" /\ pc' = [pc EXCEPT ![op] = "refs"]
      /\ PutKeys(op, NewPack(op))
  BY DEF PublicationInv, TypeOK, StorePack, Goto
<1>2. /\ store' = store \cup NewPack(op)
      /\ UNCHANGED <<state, lock, kind, base, updates, next, work, result, landed>>
  BY <1>1 DEF PutKeys
<1>3. /\ NewPack(op) \in SUBSET Key
      /\ \A k \in NewPack(op) : k[1] # "state"
  BY <1>1, PlannedFacts DEF Writing, Key
<1>4. Retained' = Retained
  BY ZenonT(30), <1>2, <1>3 DEF Retained, StatesOf
<1>5. OpInv(op)'
  BY ZenonT(30), <1>1, <1>2, <1>4 DEF PublicationInv, OpInv, PinRetained, Guarded,
     RightKind, PlanSound, SourceRetained, Staged, Collecting, BaseHeldBy, Writing,
     Proposing, Publishes, NewPack
<1> QED
  BY Zenon, <1>1, <1>3, <1>5, PutKeeps DEF Guarded

LEMMA StoreRefsKeeps ==
    ASSUME PublicationInv, NEW op \in Op, StoreRefs(op)
    PROVE  PublicationInv'
<1> DEFINE keys == {<<"refs", next[op].refs>>}
<1>1. /\ pc[op] = "refs" /\ pc'[op] = "manifest" /\ pc' = [pc EXCEPT ![op] = "manifest"]
      /\ PutKeys(op, keys)
  BY DEF PublicationInv, TypeOK, StoreRefs, Goto
<1>2. /\ store' = store \cup keys
      /\ UNCHANGED <<state, lock, kind, base, updates, next, work, result, landed>>
  BY <1>1 DEF PutKeys
<1>3. keys \in SUBSET Key /\ \A k \in keys : k[1] # "state"
  <2>1. PublicKeys(next[op]) \subseteq Key
    BY ZenonT(30), <1>1, PlannedFacts DEF Writing
  <2> QED
    BY <2>1 DEF PublicKeys
<1>4. Retained' = Retained
  BY <1>2, <1>3 DEF Retained, StatesOf
<1>5. OpInv(op)'
  <2>1. OpInv(op) /\ NewPack(op)' = NewPack(op)
    BY ZenonT(30), <1>2 DEF PublicationInv, NewPack
  <2>2. Staged(op)'
    BY <1>1, <1>2, <2>1 DEF OpInv, Staged, Proposing
  <2>3. PlanSound(op)'
    BY ZenonT(30), <1>1, <1>2, <2>1 DEF OpInv, PlanSound, Publishes, Writing
  <2>4. PinRetained(op)' /\ RightKind(op)' /\ BaseHeldBy(op)'
    BY <1>1, <1>2, <1>4, <2>1 DEF OpInv, PinRetained, RightKind, BaseHeldBy, Guarded,
       Writing, Proposing, Publishes
  <2>5. SourceRetained(op)' /\ Collecting(op)'
    BY <1>1 DEF SourceRetained, Collecting
  <2> QED
    BY <2>2, <2>3, <2>4, <2>5 DEF OpInv
<1> QED
  BY Zenon, <1>1, <1>3, <1>5, PutKeeps DEF Guarded

LEMMA StoreManifestKeeps ==
    ASSUME PublicationInv, NEW op \in Op, StoreManifest(op)
    PROVE  PublicationInv'
<1> DEFINE keys == {<<"manifest", next[op].manifest>>}
<1>1. /\ pc[op] = "manifest" /\ pc'[op] = "validate" /\ pc' = [pc EXCEPT ![op] = "validate"]
      /\ PutKeys(op, keys)
  BY DEF PublicationInv, TypeOK, StoreManifest, Goto
<1>2. /\ store' = store \cup keys
      /\ UNCHANGED <<state, lock, kind, base, updates, next, work, result, landed>>
  BY <1>1 DEF PutKeys
<1>3. keys \in SUBSET Key /\ \A k \in keys : k[1] # "state"
  <2>1. PublicKeys(next[op]) \subseteq Key
    BY Zenon, <1>1, PlannedFacts DEF Writing
  <2> QED
    BY <2>1 DEF PublicKeys
<1>4. Retained' = Retained
  BY <1>2, <1>3 DEF Retained, StatesOf
<1>5. NewPack(op) \subseteq store /\ <<"refs", next[op].refs>> \in store
  BY ZenonT(30), <1>1 DEF PublicationInv, OpInv, Staged
<1>6. References(next[op]) \subseteq store'
  BY ZenonT(30), <1>1, <1>2, <1>5, PlannedFacts DEF Writing, PublicKeys
<1>7. Staged(op)'
  BY Zenon, <1>1, <1>2, <1>6, PlannedFacts DEF Staged, Verifies, Writing, Proposing
<1>8. OpInv(op)'
  BY ZenonT(30), <1>1, <1>2, <1>4, <1>7 DEF PublicationInv, OpInv, PinRetained, Guarded,
     RightKind, PlanSound, SourceRetained, Collecting, BaseHeldBy, Writing,
     Proposing, Publishes
<1> QED
  BY Zenon, <1>1, <1>3, <1>8, PutKeeps DEF Guarded

LEMMA ValidateKeeps ==
    ASSUME PublicationInv, NEW op \in Op, Validate(op)
    PROVE  PublicationInv'
<1>1. /\ pc[op] = "validate" /\ pc[op] \in Guarded /\ lock = op
      /\ Verifies(next[op])
  BY ZenonT(30) DEF Validate, PublicationInv, LockExcludes, OpInv, Staged, Proposing, Guarded
<1>2. {<<"refs", next[op].refs>>, <<"manifest", next[op].manifest>>} \subseteq store
  BY <1>1 DEF Verifies, References
<1>3. CASE Unwind(op, "failed")
  BY Zenon, <1>1, <1>3, UnwindKeeps
<1>4. CASE /\ pc' = [pc EXCEPT ![op] = "snapshot"]
           /\ UNCHANGED <<state, store, lock, kind, base, updates, next, work, result, landed>>
  <2>1. TypeOK' /\ Others(op) /\ pc'[op] = "snapshot"
    BY <1>4 DEF PublicationInv, TypeOK, Others, Guarded
  <2>2. OpInv(op)'
    BY ZenonT(30), <1>1, <1>4, <2>1 DEF PublicationInv, Retained, OpInv, PinRetained, Guarded,
       RightKind, PlanSound, SourceRetained, Staged, Collecting, BaseHeldBy, Writing,
       Proposing, Publishes, Verifies
  <2> QED
    BY <1>1, <1>4, <2>1, <2>2, MoveKeeps
<1> QED
  BY ZenonT(30), <1>2, <1>3, <1>4 DEF Validate

\* The one step that adds a state snapshot, and one that verifies.
LEMMA StoreSnapshotKeeps ==
    ASSUME PublicationInv, NEW op \in Op, StoreSnapshot(op)
    PROVE  PublicationInv'
<1>1. /\ pc[op] = "snapshot" /\ pc[op] \in Guarded /\ pc'[op] = "publish"
      /\ pc' = [pc EXCEPT ![op] = "publish"]
      /\ store' = store \cup {<<"state", next[op]>>}
      /\ UNCHANGED <<state, lock, kind, base, updates, next, work, result, landed>>
  BY DEF PublicationInv, TypeOK, StoreSnapshot, Goto, PutKeys, Guarded
<1>2. /\ next[op] \in State /\ Verifies(next[op])
      /\ next[op].generation = base[op].generation + 1
      /\ lock = op /\ result[op] # "corrupt"
  BY ZenonT(30), <1>1 DEF PublicationInv, OpInv, Staged, Proposing, LockExcludes, NothingMissing
<1>3. TypeOK' /\ Others(op)
  <2>1. <<"state", next[op]>> \in Key
    BY <1>2 DEF Key
  <2>2. TypeOK
    BY DEF PublicationInv
  <2>3. TypeOK'
    BY <1>1, <2>1, <2>2 DEF TypeOK, Guarded
  <2> QED
    BY <1>1, <2>2, <2>3 DEF TypeOK, Others
<1>4. Retained' = Retained \cup {next[op]}
  <2> DEFINE x == <<"state", next[op]>>
  <2>1. x[1] = "state" /\ x[2] = next[op] /\ store' = store \cup {x}
    BY <1>1
  <2> HIDE DEF x
  <2>2. {k \in store' : k[1] = "state"} = {k \in store : k[1] = "state"} \cup {x}
    BY <2>1
  <2> QED
    BY <2>1, <2>2 DEF Retained, StatesOf
<1>5. CurrentRetained' /\ RetainedIntact'
  BY <1>1, <1>2, <1>4 DEF PublicationInv, CurrentRetained, RetainedIntact, Verifies
<1>6. OpInv(op)'
  BY ZenonT(30), <1>1, <1>2, <1>4 DEF PublicationInv, OpInv, PinRetained, Guarded,
     RightKind, PlanSound, SourceRetained, Staged, Collecting, BaseHeldBy, Writing,
     Proposing, Publishes, Verifies
<1> QED
  BY Zenon, <1>1, <1>2, <1>3, <1>4, <1>5, <1>6, StepKeeps

\* The published generation moves to a state that is already retained.
LEMMA SwapKeeps ==
    ASSUME PublicationInv, NEW op \in Op, Swap(op),
           NEW outcome \in {"ok", "failed"}, Report(op, outcome)
    PROVE  PublicationInv'
<1>1. /\ pc[op] = "publish" /\ pc[op] \in Guarded /\ pc'[op] = "release"
      /\ state' = next[op] /\ store' = store /\ lock' = lock
      /\ result'[op] # "corrupt"
  BY DEF PublicationInv, TypeOK, Swap, Goto, Report, Guarded
<1>2. next[op] \in State /\ next[op] \in Retained /\ lock = op
  BY ZenonT(30), <1>1 DEF PublicationInv, OpInv, Staged, Proposing, LockExcludes
<1>3. TypeOK' /\ Others(op)
  BY <1>1, <1>2 DEF PublicationInv, TypeOK, Others, Swap, Goto, Report, Forget, Guarded
<1>4. Retained' = Retained /\ CurrentRetained' /\ RetainedIntact'
  BY ZenonT(30), <1>1, <1>2 DEF PublicationInv, Retained, CurrentRetained, RetainedIntact, Verifies
<1>5. OpInv(op)'
  BY Zenon, <1>1, RestingKeeps
<1> QED
  BY Zenon, <1>1, <1>2, <1>3, <1>4, <1>5, StepKeeps

LEMMA PublishKeeps ==
    ASSUME PublicationInv, NEW op \in Op, Publish(op) \/ PublishResponseLost(op)
    PROVE  PublicationInv'
<1>1. CASE Unwind(op, "failed") /\ pc[op] = "publish"
  BY <1>1, UnwindKeeps DEF Guarded
<1>2. CASE Swap(op) /\ Report(op, "ok")
  BY <1>2, SwapKeeps
<1>3. CASE Swap(op) /\ Report(op, "failed")
  BY <1>3, SwapKeeps
<1> QED
  BY <1>1, <1>2, <1>3 DEF Publish, PublishResponseLost

-----------------------------------------------------------------------------
(* Restore and collection under the lock. *)

LEMMA ReadTargetKeeps ==
    ASSUME PublicationInv, NEW op \in Op, ReadTarget(op)
    PROVE  PublicationInv'
<1>1. kind[op] = "restore" /\ pc[op] = "locked" /\ pc[op] \in Guarded /\ lock = op
  BY DEF ReadTarget, PublicationInv, LockExcludes, Guarded
<1>2. next[op] \in Retained /\ next[op] \in State /\ state \in Retained
  BY <1>1, RetainedKeys DEF PublicationInv, TypeOK, CurrentRetained, OpInv, SourceRetained
<1>3. <<"state", next[op]>> \in store /\ Verifies(next[op])
  BY <1>2, RetainedKeys DEF PublicationInv, TypeOK, RetainedIntact
<1>4. CASE state.generation = MaxGeneration
  BY <1>1, <1>3, <1>4, UnwindKeeps DEF ReadTarget
<1>5. CASE state.generation # MaxGeneration
  <2> DEFINE s == [next[op] EXCEPT !.generation = state.generation + 1]
  <2>1. /\ pc' = [pc EXCEPT ![op] = "validate"]
        /\ base' = [base EXCEPT ![op] = state]
        /\ next' = [next EXCEPT ![op] = s]
        /\ UNCHANGED <<state, store, lock, kind, updates, work, result, landed>>
    BY <1>1, <1>3, <1>5 DEF ReadTarget
  <2>2. state.generation + 1 \in 1..MaxGeneration
    BY <1>5, OpAssumption DEF PublicationInv, TypeOK, State
  <2>3. /\ s \in State /\ s.generation = state.generation + 1
        /\ s.refs = next[op].refs /\ s.manifest = next[op].manifest
    BY <1>2, <2>2 DEF State
  <2>4. Verifies(s)
    BY <1>3, <2>3 DEF Verifies, WellFormed, References
  <2> HIDE DEF s
  <2>5. /\ TypeOK' /\ Others(op)
        /\ pc'[op] = "validate" /\ base'[op] = state /\ next'[op] = s
    BY <2>1, <2>3 DEF PublicationInv, TypeOK, Others, Guarded
  <2>6. OpInv(op)'
    BY ZenonT(30), <1>1, <1>2, <2>1, <2>3, <2>4, <2>5 DEF Retained, OpInv, PinRetained, Guarded,
       RightKind, PlanSound, SourceRetained, Staged, Collecting, BaseHeldBy, Writing,
       Proposing, Publishes, Verifies
  <2> QED
    BY <1>1, <2>1, <2>5, <2>6, MoveKeeps
<1> QED
  BY <1>4, <1>5

LEMMA ListKeeps ==
    ASSUME PublicationInv, NEW op \in Op, List(op)
    PROVE  PublicationInv'
<1>1. kind[op] = "collect" /\ pc[op] = "locked" /\ lock = op
  BY Zenon DEF List, PublicationInv, LockExcludes, Guarded
<1>2. state \in Retained /\ Verifies(state)
  BY DEF PublicationInv, CurrentRetained, RetainedIntact
<1>3. /\ pc' = [pc EXCEPT ![op] = "mark"]
      /\ base' = [base EXCEPT ![op] = state]
      /\ work' = [work EXCEPT ![op] = store]
      /\ UNCHANGED <<state, store, lock, kind, updates, next, result, landed>>
  BY ZenonT(30), <1>2 DEF List, Verifies, References
<1>4. /\ TypeOK' /\ Others(op)
      /\ pc'[op] = "mark" /\ base'[op] = state /\ work'[op] = store
  BY <1>3 DEF PublicationInv, TypeOK, Others, Guarded
<1>5. OpInv(op)'
  BY ZenonT(30), <1>1, <1>2, <1>3, <1>4 DEF Retained, OpInv, PinRetained, Guarded,
     RightKind, PlanSound, SourceRetained, Staged, Collecting, BaseHeldBy, Writing,
     Proposing, Publishes
<1> QED
  BY ZenonT(30), <1>1, <1>3, <1>4, <1>5, MoveKeeps

LEMMA MarkKeeps ==
    ASSUME PublicationInv, NEW op \in Op, Mark(op)
    PROVE  PublicationInv'
<1>1. /\ pc[op] = "mark" /\ lock = op /\ kind[op] = "collect" /\ work[op] = store
      /\ base[op] \in Retained
  BY Zenon DEF Mark, PublicationInv, LockExcludes, Guarded, OpInv, RightKind, Collecting, PinRetained
<1>2. StatesOf(work[op]) = Retained
  BY <1>1 DEF Retained
<1>3. PICK old \in SUBSET {k \in store \ UNION {References(s) : s \in Retained} : Collectible(k)} :
         /\ work' = [work EXCEPT ![op] = old]
         /\ pc' = [pc EXCEPT ![op] = "delete"]
         /\ UNCHANGED <<state, store, lock, kind, base, updates, next, result, landed>>
  BY ZenonT(30), <1>1, <1>2 DEF Mark, PublicationInv, RetainedIntact
<1>4. TypeOK' /\ Others(op) /\ pc'[op] = "delete" /\ work'[op] = old
  BY <1>3 DEF PublicationInv, TypeOK, Others, Guarded
<1>5. Collecting(op)'
  BY <1>3, <1>4 DEF Collecting, Retained
<1>6. OpInv(op)'
  BY <1>1, <1>3, <1>4, <1>5 DEF Retained, OpInv, PinRetained, Guarded,
     RightKind, PlanSound, SourceRetained, Staged, BaseHeldBy, Writing, Proposing, Publishes
<1> QED
  BY <1>1, <1>3, <1>4, <1>6, MoveKeeps

\* What is deleted is no state snapshot, and no state snapshot refers to it.
LEMMA DeleteKeeps ==
    ASSUME PublicationInv, NEW op \in Op, Delete(op)
    PROVE  PublicationInv'
<1>1. /\ pc[op] = "delete" /\ pc[op] \in Guarded /\ lock = op /\ kind[op] = "collect"
      /\ \A k \in work[op] : Collectible(k) /\ \A s \in Retained : k \notin References(s)
      /\ base[op] \in Retained /\ result[op] # "corrupt"
  BY ZenonT(30) DEF Delete, PublicationInv, LockExcludes, Guarded, OpInv, RightKind, Collecting,
     PinRetained, NothingMissing
<1>2. PICK k \in work[op] :
         /\ store' = store \ {k}
         /\ work' = [work EXCEPT ![op] = work[op] \ {k}]
         /\ UNCHANGED <<state, lock, pc, kind, base, updates, next, result, landed>>
  BY ZenonT(30) DEF Delete
<1>3. TypeOK' /\ Others(op) /\ work'[op] = work[op] \ {k}
  BY <1>2 DEF PublicationInv, TypeOK, Others
<1>4. Retained' = Retained
  BY ZenonT(30), <1>1, <1>2 DEF Retained, StatesOf, Collectible
<1>5. CurrentRetained' /\ RetainedIntact'
  BY <1>1, <1>2, <1>4 DEF PublicationInv, CurrentRetained, RetainedIntact, Verifies
<1>6. OpInv(op)'
  BY Zenon, <1>1, <1>2, <1>3, <1>4 DEF OpInv, PinRetained, Guarded, RightKind, PlanSound,
     SourceRetained, Staged, Collecting, BaseHeldBy, Writing, Proposing, Publishes
<1> QED
  BY ZenonT(30), <1>1, <1>2, <1>3, <1>4, <1>5, <1>6, StepKeeps

-----------------------------------------------------------------------------
(* The theorems. *)

LEMMA InitInv == Init => PublicationInv
<1> SUFFICES ASSUME Init PROVE PublicationInv
  OBVIOUS
<1>1. PICK first \in {NoObject, Readme} :
         state = InitialState([n \in RefName |-> IF n = DefaultBranch THEN first ELSE NoObject])
  BY DEF Init
<1> DEFINE refs == [n \in RefName |-> IF n = DefaultBranch THEN first ELSE NoObject]
           objects == Reachable(Targets(refs))
           where == [o \in objects |-> <<"loose", o>>]
<1>2. refs \in Refs /\ BranchesAreCommits(refs) /\ NoDirectoryClash(refs)
  BY GraphAssumption, RefAssumption DEF Refs, BranchesAreCommits, NoDirectoryClash
<1>3. objects \subseteq Object /\ Targets(refs) \subseteq objects /\ Closed(objects)
  BY <1>2, TargetsAreObjects, ReachableClosed
<1>4. state = [generation |-> 1, refs |-> refs,
               manifest |-> [schema |-> 1, objects |-> where]]
  BY <1>1 DEF InitialState
<1>5. where \in [objects -> Location]
  BY <1>3 DEF Location
<1>6. state \in State
  <2> DEFINE manifest == [schema |-> 1, objects |-> where]
  <2>1. where \in UNION {[S -> Location] : S \in SUBSET Object}
    <3> HIDE DEF objects, where
    <3> QED
      BY <1>3, <1>5
  <2>2. manifest \in Manifest
    <3> HIDE DEF where
    <3> QED
      BY <2>1 DEF Manifest
  <2>3. 1 \in 1..MaxGeneration
    BY OpAssumption
  <2>4. state = [generation |-> 1, refs |-> refs, manifest |-> manifest]
    BY <1>4
  <2> HIDE DEF refs, objects, where, manifest
  <2> QED
    BY <1>2, <2>2, <2>3, <2>4 DEF State
<1>7. WellFormed(state)
  <2>1. state.refs = refs /\ state.manifest.objects = where /\ DOMAIN where = objects
        /\ \A o \in objects : where[o] = <<"loose", o>>
    BY <1>4
  <2> HIDE DEF refs, objects, where
  <2> QED
    BY <1>2, <1>3, <2>1 DEF WellFormed
<1>8. References(state) \subseteq Key /\ \A k \in References(state) : k[1] # "state"
  <2>1. state.refs \in Refs /\ state.manifest \in Manifest
    BY <1>6 DEF State
  <2>2. \A o \in DOMAIN state.manifest.objects : state.manifest.objects[o] \in Location
    BY <2>1 DEF Manifest
  <2> QED
    BY SMTT(30), <2>1, <2>2 DEF References, Key, Location
<1>9. store = References(state) \cup {<<"state", state>>}
  BY DEF Init
<1>10. TypeOK
  BY SMTT(30), <1>6, <1>8, <1>9 DEF Init, TypeOK, Key, Stopped, Kind
<1>11. Retained = {state}
  <2> DEFINE x == <<"state", state>>
  <2>1. x[1] = "state" /\ x[2] = state /\ store = References(state) \cup {x}
    BY <1>9
  <2> HIDE DEF x
  <2>2. {k \in store : k[1] = "state"} = {x}
    BY <1>8, <2>1
  <2> QED
    BY <2>1, <2>2 DEF Retained, StatesOf
<1>12. CurrentRetained /\ RetainedIntact
  BY <1>7, <1>9, <1>11 DEF CurrentRetained, RetainedIntact, Verifies
<1>13. LockExcludes /\ NothingMissing
  BY DEF Init, LockExcludes, NothingMissing, Guarded
<1>14. \A op \in Op : OpInv(op)
  BY DEF Init, OpInv, PinRetained, RightKind, PlanSound, SourceRetained, Staged,
     Collecting, BaseHeldBy, Guarded, Writing, Proposing
<1> QED
  BY <1>10, <1>12, <1>13, <1>14 DEF PublicationInv

LEMMA UnlockKeeps ==
    ASSUME PublicationInv, UnlockMaintenance
    PROVE  PublicationInv'
<1>1. UNCHANGED <<state, store, pc, kind, base, updates, next, work, result, landed>>
  BY DEF UnlockMaintenance
<1>2. \A op \in Op : pc'[op] \notin Guarded
  BY <1>1 DEF UnlockMaintenance, Stopped, Guarded
<1>3. TypeOK' /\ LockExcludes' /\ NothingMissing'
  BY <1>1, <1>2 DEF PublicationInv, TypeOK, LockExcludes, NothingMissing, UnlockMaintenance
<1>4. Retained' = Retained /\ CurrentRetained' /\ RetainedIntact'
  BY <1>1 DEF PublicationInv, Retained, CurrentRetained, RetainedIntact, Verifies
<1>5. ASSUME NEW op \in Op PROVE OpInv(op)'
  BY <1>1, <1>4, OtherKeeps DEF PublicationInv
<1> QED
  BY <1>3, <1>4, <1>5 DEF PublicationInv

LEMMA StutterKeeps ==
    ASSUME PublicationInv, UNCHANGED vars
    PROVE  PublicationInv'
<1>1. UNCHANGED <<state, store, lock, pc, kind, base, updates, next, work, result, landed>>
  BY DEF vars
<1>2. TypeOK' /\ LockExcludes' /\ NothingMissing'
  BY <1>1 DEF PublicationInv, TypeOK, LockExcludes, NothingMissing
<1>3. Retained' = Retained /\ CurrentRetained' /\ RetainedIntact'
  BY <1>1 DEF PublicationInv, Retained, CurrentRetained, RetainedIntact, Verifies
<1>4. ASSUME NEW op \in Op PROVE OpInv(op)'
  BY <1>1, <1>3, OtherKeeps DEF PublicationInv
<1> QED
  BY <1>2, <1>3, <1>4 DEF PublicationInv

LEMMA NextKeeps == PublicationInv /\ [Next]_vars => PublicationInv'
<1> SUFFICES ASSUME PublicationInv, [Next]_vars PROVE PublicationInv'
  OBVIOUS
<1>1. ASSUME NEW op \in Op, Prepare(op) PROVE PublicationInv'
  BY <1>1, PinKeeps, LoadKeeps, PlanningKeeps DEF Prepare
<1>2. ASSUME NEW op \in Op, Step(op) PROVE PublicationInv'
  BY <1>2, LockKeeps, QuietKeeps, CheckBaseKeeps, StorePackKeeps, StoreRefsKeeps,
     StoreManifestKeeps, ValidateKeeps, StoreSnapshotKeeps, PublishKeeps,
     ReadTargetKeeps, ListKeeps, MarkKeeps, DeleteKeeps DEF Step
<1>3. ASSUME NEW op \in Op, Mishap(op) PROVE PublicationInv'
  BY <1>3, QuietKeeps, PublishKeeps DEF Mishap
<1> QED
  BY <1>1, <1>2, <1>3, UnlockKeeps, StutterKeeps DEF Next

\* The inductive invariant holds of every reachable state, for every object
\* graph, every set of references and any number of concurrent operations.
THEOREM PublicationInvariant == Spec => []PublicationInv
<1>1. Init => PublicationInv
  BY InitInv
<1>2. PublicationInv /\ [Next]_vars => PublicationInv'
  BY NextKeeps
<1> QED
  BY <1>1, <1>2, PTL DEF Spec

\* Every variable of the publication protocol keeps its type.
THEOREM TypeCorrect == Spec => []TypeOK
<1>1. PublicationInv => TypeOK
  BY DEF PublicationInv
<1> QED
  BY <1>1, PublicationInvariant, PTL

\* No interleaving of pushes, repacks, restores, collections, crashes and lock
\* recoveries leaves a durable state snapshot with an artifact missing.
THEOREM SnapshotsStayIntact == Spec => []RetainedIntact
<1>1. PublicationInv => RetainedIntact
  BY DEF PublicationInv
<1> QED
  BY <1>1, PublicationInvariant, PTL

\* The published generation is always one of the durable state snapshots.
THEOREM CurrentStaysRetained == Spec => []CurrentRetained
<1>1. PublicationInv => CurrentRetained
  BY DEF PublicationInv
<1> QED
  BY <1>1, PublicationInvariant, PTL

\* No operation ever misses an artifact of the generation it works on.
THEOREM NothingGoesMissing == Spec => []NothingMissing
<1>1. PublicationInv => NothingMissing
  BY DEF PublicationInv
<1> QED
  BY <1>1, PublicationInvariant, PTL

\* At most one operation is between taking and releasing the durable lock.
THEOREM LockIsExclusive == Spec => []LockExcludes
<1>1. PublicationInv => LockExcludes
  BY DEF PublicationInv
<1> QED
  BY <1>1, PublicationInvariant, PTL

\* Once a writer has compared its pinned version under the lock, its
\* compare-and-swap of "state" cannot lose.
THEOREM BaseStaysHeld == Spec => []BaseHeld
<1>1. PublicationInv => BaseHeld
  BY DEF PublicationInv, OpInv, BaseHeldBy, BaseHeld, Writing, Proposing
<1> QED
  BY <1>1, PublicationInvariant, PTL

-----------------------------------------------------------------------------
(* What a step does to what the operations ask. *)

\* The step of an operation leaves the others alone.
Apart(op) ==
    \A q \in Op \ {op} :
        /\ pc'[q] = pc[q] /\ kind'[q] = kind[q] /\ base'[q] = base[q]
        /\ updates'[q] = updates[q] /\ next'[q] = next[q] /\ result'[q] = result[q]

Returned == {"release", "done", "crashed"}

\* What is to be shown of every step.
Faithful ==
    /\ AskingInv'
    /\ [History!Next]_(History!vars)
    /\ PublishesAtomically

\* Nothing of what an operation asks depends on the other variables.
LEMMA AskingFrame ==
    ASSUME NEW q \in Op, Asking(q),
           pc'[q] = pc[q], kind'[q] = kind[q], base'[q] = base[q],
           updates'[q] = updates[q], next'[q] = next[q], result'[q] = result[q],
           q \in landed' <=> q \in landed
    PROVE  Asking(q)' /\ Asked(q)' = Asked(q)
<1>1. Asking(q)'
  BY DEF Asking, Publishes
<1>2. Asked(q)' = Asked(q)
  BY DEF Asked
<1> QED
  BY <1>1, <1>2

\* The requests of the history are those of the repository.
LEMMA RequestForms ==
    /\ History!Update = RefUpdate
    /\ History!Request = [updates : SUBSET RefUpdate] \cup [restore : Refs]
<1>1. History!Update = RefUpdate
  BY DEF History!Update, RefUpdate
<1> QED
  BY <1>1 DEF History!Request, Refs

\* What is asked is asked of the history.
LEMMA AskedRequest ==
    ASSUME TypeOK, NEW op \in Op
    PROVE  /\ next[op] = NoState => Asked(op) = NoState
           /\ next[op] # NoState /\ kind[op] = "restore" =>
                  /\ Asked(op) = [restore |-> next[op].refs]
                  /\ Asked(op) \in [restore : Refs]
           /\ next[op] # NoState /\ kind[op] # "restore" =>
                  /\ Asked(op) = [updates |-> updates[op]]
                  /\ Asked(op) \in [updates : SUBSET RefUpdate]
<1>1. next[op] = NoState => Asked(op) = NoState
  BY DEF Asked
<1>2. ASSUME next[op] # NoState, kind[op] = "restore"
      PROVE  Asked(op) = [restore |-> next[op].refs] /\ next[op].refs \in Refs
  BY <1>2 DEF Asked, TypeOK, State
<1>3. ASSUME next[op] # NoState, kind[op] # "restore"
      PROVE  Asked(op) = [updates |-> updates[op]] /\ updates[op] \in SUBSET RefUpdate
  BY <1>3 DEF Asked, TypeOK
<1> QED
  BY <1>1, <1>2, <1>3

\* A step that publishes nothing: its operation asks the same as before, gives
\* up, or begins to ask.
LEMMA QuietFaithful ==
    ASSUME AskingInv, NEW op \in Op, Apart(op), state' = state, landed' = landed,
           Asking(op)',
           \/ Asked(op)' = Asked(op)
           \/ Asked(op)' = NoState
           \/ Asked(op) = NoState /\ op \notin landed /\ Asked(op)' \in History!Request
    PROVE  Faithful
<1> DEFINE asked == [q \in Op |-> Asked(q)]
<1>1. ASSUME NEW q \in Op \ {op}
      PROVE  Asking(q)' /\ Asked(q)' = Asked(q)
  BY AskingFrame DEF AskingInv, Apart
<1>2. AskingInv'
  BY <1>1 DEF AskingInv
<1>3. asked' = [asked EXCEPT ![op] = Asked(op)']
  BY Zenon, <1>1
<1>4. PublishesAtomically
  BY DEF PublishesAtomically
<1>5. CASE Asked(op)' = Asked(op)
  <2>1. asked' = asked
    BY <1>1, <1>5
  <2> QED
    BY <1>2, <1>4, <2>1 DEF Faithful, History!vars
<1>6. CASE Asked(op)' = NoState
  <2>1. History!GiveUp(op)
    BY <1>3, <1>6 DEF History!GiveUp
  <2> QED
    BY <1>2, <1>4, <2>1 DEF Faithful, History!Next
<1>7. CASE Asked(op) = NoState /\ op \notin landed /\ Asked(op)' \in History!Request
  <2>1. asked[op] = NoState /\ asked'[op] = Asked(op)'
    BY <1>7
  <2>2. History!Ask(op)
    BY <1>3, <1>7, <2>1 DEF History!Ask
  <2> QED
    BY <1>2, <1>4, <2>2 DEF Faithful, History!Next
<1> QED
  BY <1>5, <1>6, <1>7

-----------------------------------------------------------------------------
(* The steps, by what they do to their operation. *)

\* An operation that has not returned has not landed.
LEMMA NotYetLanded ==
    ASSUME AskingInv, NEW op \in Op, pc[op] \notin Returned
    PROVE  op \notin landed
BY DEF AskingInv, Asking, Returned

\* The operation returns, or starts to unwind, and forgets what it asked.
LEMMA EndFaithful ==
    ASSUME PublicationInv, AskingInv, NEW op \in Op, NEW to \in Returned, NEW outcome,
           pc' = [pc EXCEPT ![op] = to],
           result' = [result EXCEPT ![op] = outcome],
           Forget(op), UNCHANGED <<state, kind, landed>>,
           \/ outcome = result[op]
           \/ /\ op \notin landed
              /\ outcome = "ok" => kind[op] \notin {"push", "repack", "restore"}
    PROVE  Faithful
<1>1. TypeOK
  BY DEF PublicationInv
<1>2. /\ pc'[op] = to /\ result'[op] = outcome /\ next'[op] = NoState
      /\ kind'[op] = kind[op]
  BY <1>1 DEF TypeOK, Forget
<1>3. Apart(op)
  BY <1>1 DEF TypeOK, Forget, Apart
<1>4. Asking(op)'
  BY <1>2 DEF AskingInv, Asking, Returned, Guarded, Writing, Proposing
<1>5. Asked(op)' = NoState
  BY <1>2 DEF Asked
<1> QED
  BY <1>3, <1>4, <1>5, QuietFaithful

LEMMA UnwindFaithful ==
    ASSUME PublicationInv, AskingInv, NEW op \in Op, pc[op] \notin Returned,
           NEW outcome, outcome # "ok", Unwind(op, outcome)
    PROVE  Faithful
<1>1. op \notin landed
  BY NotYetLanded
<1>2. /\ pc' = [pc EXCEPT ![op] = "release"]
      /\ result' = [result EXCEPT ![op] = outcome]
      /\ Forget(op) /\ UNCHANGED <<state, kind, landed>>
  BY DEF Unwind, Report
<1> QED
  BY Zenon, <1>1, <1>2, EndFaithful DEF Returned

\* The steps that end an operation.
LEMMA EndingFaithful ==
    ASSUME PublicationInv, AskingInv, NEW op \in Op,
           \/ Reject(op) \/ LockBusy(op) \/ LockResponseLost(op) \/ Fail(op)
           \/ Crash(op) \/ Collected(op)
    PROVE  Faithful
<1>1. CASE Reject(op) \/ LockBusy(op) \/ LockResponseLost(op)
  <2>1. pc[op] \notin Returned
    BY <1>1 DEF Reject, LockBusy, LockResponseLost, Goto, Returned
  <2>2. /\ pc' = [pc EXCEPT ![op] = "done"]
        /\ result' = [result EXCEPT ![op] = "failed"]
        /\ Forget(op) /\ UNCHANGED <<state, kind, landed>>
    BY <1>1 DEF Reject, LockBusy, LockResponseLost, Goto, Report
  <2> QED
    BY Zenon, <2>1, <2>2, NotYetLanded, EndFaithful DEF Returned
<1>2. CASE Fail(op)
  <2>1. pc[op] \notin Returned /\ Unwind(op, "failed")
    BY <1>2 DEF Fail, Guarded, Returned
  <2> QED
    BY <2>1, UnwindFaithful
<1>3. CASE Crash(op)
  <2>1. result' = [result EXCEPT ![op] = result[op]]
    BY <1>3 DEF Crash, PublicationInv, TypeOK
  <2> QED
    BY Zenon, <1>3, <2>1, EndFaithful DEF Crash, Returned
<1>4. CASE Collected(op)
  <2>1. pc[op] = "delete" /\ pc[op] \notin Returned
    BY <1>4 DEF Collected, Goto, Returned
  <2>2. kind[op] = "collect"
    BY <2>1 DEF PublicationInv, OpInv, RightKind
  <2>3. /\ pc' = [pc EXCEPT ![op] = "release"]
        /\ result' = [result EXCEPT ![op] = "ok"]
        /\ Forget(op) /\ UNCHANGED <<state, kind, landed>>
    BY <1>4 DEF Collected, Goto, Report
  <2> QED
    BY Zenon, <2>1, <2>2, <2>3, NotYetLanded, EndFaithful DEF Returned
<1> QED
  BY <1>1, <1>2, <1>3, <1>4

\* The lock is given back: an operation that landed keeps its report, unless
\* the response of the Delete is lost.
LEMMA ReleaseFaithful ==
    ASSUME PublicationInv, AskingInv, NEW op \in Op, Release(op) \/ ReleaseFails(op)
    PROVE  Faithful
<1>1. TypeOK /\ pc[op] = "release" /\ lock = op
  BY DEF PublicationInv, LockExcludes, Guarded, Release, ReleaseFails, Goto
<1>2. /\ pc' = [pc EXCEPT ![op] = "done"]
      /\ UNCHANGED <<state, kind, base, updates, next, landed>>
      /\ \/ result' = result
         \/ Faults /\ result' = [result EXCEPT ![op] = "failed"]
  BY <1>1 DEF Release, ReleaseFails, Goto, Report
<1>3. Apart(op) /\ pc'[op] = "done" /\ next'[op] = NoState
  BY <1>1, <1>2 DEF TypeOK, Apart, AskingInv, Asking, Guarded
<1>4. result'[op] = result[op] \/ (Faults /\ result'[op] = "failed")
  BY <1>1, <1>2 DEF TypeOK
<1>5. Asking(op)'
  BY <1>2, <1>3, <1>4 DEF AskingInv, Asking, Guarded, Writing, Proposing
<1>6. Asked(op)' = NoState
  BY <1>3 DEF Asked
<1> QED
  BY <1>2, <1>3, <1>5, <1>6, QuietFaithful

\* A step under the lock that goes on with the same proposal.
LEMMA MoveFaithful ==
    ASSUME PublicationInv, AskingInv, NEW op \in Op, NEW to \in Guarded \ {"release"},
           pc[op] \in {"planned"} \cup (Guarded \ {"release"}),
           pc' = [pc EXCEPT ![op] = to],
           \/ base' = base
           \/ ~ Publishes(op) /\ base' = [base EXCEPT ![op] = state],
           UNCHANGED <<state, kind, updates, next, result, landed>>
    PROVE  Faithful
<1>1. TypeOK /\ (pc[op] \in {"mark", "delete"} => kind[op] = "collect")
  BY DEF PublicationInv, OpInv, RightKind
<1>2. Apart(op) /\ pc'[op] = to /\ (Publishes(op) => base'[op] = base[op])
  BY <1>1 DEF TypeOK, Apart
<1>3. Publishes(op) => pc[op] \in {"planned", "locked"} \cup Writing \cup Proposing
  BY <1>1 DEF Publishes, Guarded, Writing, Proposing
<1>4. op \notin landed
  BY NotYetLanded DEF Guarded, Returned
<1>5. Asking(op)'
  BY <1>2, <1>3, <1>4 DEF AskingInv, Asking, Publishes, Guarded
<1>6. Asked(op)' = Asked(op)
  BY DEF Asked
<1> QED
  BY <1>2, <1>5, <1>6, QuietFaithful

\* The steps under the lock, up to the publication.
LEMMA MovingFaithful ==
    ASSUME PublicationInv, AskingInv, NEW op \in Op,
           \/ Lock(op) \/ CheckBase(op) \/ StorePack(op) \/ StoreRefs(op)
           \/ StoreManifest(op) \/ Validate(op) \/ StoreSnapshot(op)
           \/ List(op) \/ Mark(op) \/ Delete(op)
    PROVE  Faithful
<1>1. CASE pc[op] \in Guarded \ {"release"} /\ (Unwind(op, "failed") \/ Unwind(op, "corrupt"))
  <2>1. pc[op] \notin Returned
    BY <1>1 DEF Guarded, Returned
  <2> QED
    BY <1>1, <2>1, UnwindFaithful
<1>2. CASE \/ Lock(op) \/ StorePack(op) \/ StoreRefs(op) \/ StoreManifest(op)
           \/ StoreSnapshot(op)
  <2>1. PICK to \in {"locked", "refs", "manifest", "validate", "publish"} :
            pc' = [pc EXCEPT ![op] = to]
    BY <1>2 DEF Lock, StorePack, StoreRefs, StoreManifest, StoreSnapshot, Goto
  <2>2. /\ pc[op] \in {"planned"} \cup (Guarded \ {"release"})
        /\ UNCHANGED <<state, kind, base, updates, next, result, landed>>
    BY <1>2 DEF Lock, StorePack, StoreRefs, StoreManifest, StoreSnapshot, Goto, PutKeys, Guarded
  <2> QED
    BY Zenon, <2>1, <2>2, MoveFaithful DEF Guarded
<1>3. CASE CheckBase(op)
  <2>1. CASE state = base[op]
    BY <1>3, <2>1, MoveFaithful DEF CheckBase, Guarded
  <2>2. CASE state # base[op]
    BY <1>1, <1>3, <2>2 DEF CheckBase, Guarded
  <2> QED
    BY <2>1, <2>2
<1>4. CASE Validate(op)
  <2>1. CASE pc' = [pc EXCEPT ![op] = "snapshot"]
             /\ UNCHANGED <<state, kind, base, updates, next, result, landed>>
    BY Zenon, <1>4, <2>1, MoveFaithful DEF Validate, Guarded
  <2>2. CASE Unwind(op, "failed") \/ Unwind(op, "corrupt")
    BY <1>1, <1>4, <2>2 DEF Validate, Guarded
  <2> QED
    BY <1>4, <2>1, <2>2 DEF Validate
<1>5. CASE List(op)
  <2>1. pc[op] = "locked" /\ ~ Publishes(op)
    BY <1>5 DEF List, Publishes
  <2>2. CASE Unwind(op, "corrupt")
    BY <1>1, <2>1, <2>2 DEF Guarded
  <2>3. CASE /\ pc' = [pc EXCEPT ![op] = "mark"]
             /\ base' = [base EXCEPT ![op] = state]
             /\ UNCHANGED <<state, kind, updates, next, result, landed>>
    BY Zenon, <2>1, <2>3, MoveFaithful DEF Guarded
  <2> QED
    BY <1>5, <2>2, <2>3 DEF List
<1>6. CASE Mark(op)
  <2>1. pc[op] = "mark"
    BY <1>6 DEF Mark
  <2>2. CASE Unwind(op, "corrupt")
    BY <1>1, <2>1, <2>2 DEF Guarded
  <2>3. CASE /\ pc' = [pc EXCEPT ![op] = "delete"]
             /\ UNCHANGED <<state, kind, base, updates, next, result, landed>>
    BY Zenon, <2>1, <2>3, MoveFaithful DEF Guarded
  <2> QED
    BY <1>6, <2>2, <2>3 DEF Mark
<1>7. CASE Delete(op)
  <2>1. /\ pc[op] = "delete" /\ pc' = [pc EXCEPT ![op] = "delete"]
        /\ UNCHANGED <<state, kind, base, updates, next, result, landed>>
    BY <1>7 DEF Delete, PublicationInv, TypeOK
  <2> QED
    BY Zenon, <2>1, MoveFaithful DEF Guarded
<1> QED
  BY <1>2, <1>3, <1>4, <1>5, <1>6, <1>7

\* A restore turns its source into its proposal, and still asks for its refs.
LEMMA ReadTargetFaithful ==
    ASSUME PublicationInv, AskingInv, NEW op \in Op, ReadTarget(op)
    PROVE  Faithful
<1>1. TypeOK /\ kind[op] = "restore" /\ pc[op] = "locked"
  BY DEF ReadTarget, PublicationInv
<1>2. CASE Unwind(op, "failed") \/ Unwind(op, "corrupt")
  BY <1>1, <1>2, UnwindFaithful DEF Returned
<1>3. CASE /\ pc' = [pc EXCEPT ![op] = "validate"]
           /\ base' = [base EXCEPT ![op] = state]
           /\ next' = [next EXCEPT ![op].generation = state.generation + 1]
           /\ UNCHANGED <<state, store, lock, kind, updates, work, result, landed>>
  <2>1. next[op] \in State /\ next[op] # NoState
    BY <1>1, RetainedKeys, StateAssumption DEF PublicationInv, TypeOK, OpInv, SourceRetained
  <2>2. TypeOK'
    BY ReadTargetKeeps DEF PublicationInv
  <2>3. next'[op] = [next[op] EXCEPT !.generation = state.generation + 1]
    BY <1>1, <1>3 DEF TypeOK
  <2>4. next'[op].refs = next[op].refs /\ next'[op].generation = state.generation + 1
    BY <2>1, <2>3 DEF State
  <2>5. next'[op] \in State /\ next'[op] # NoState
    <3>1. pc'[op] = "validate"
      BY <1>1, <1>3 DEF TypeOK
    <3>2. PublicationInv'
      BY ReadTargetKeeps
    <3> QED
      BY Zenon, <3>1, <3>2, StateAssumption DEF PublicationInv, OpInv, Staged, Proposing
  <2>6. Asked(op)' = Asked(op)
    BY <1>1, <1>3, <2>1, <2>4, <2>5 DEF Asked
  <2>7. Apart(op) /\ pc'[op] = "validate"
    BY <1>1, <1>3 DEF TypeOK, Apart
  <2>8. op \notin landed
    BY <1>1, NotYetLanded DEF Returned
  <2>9. Asking(op)'
    BY <1>1, <1>3, <2>7, <2>8 DEF AskingInv, Asking, Publishes, Guarded
  <2> QED
    BY <1>3, <2>6, <2>7, <2>9, QuietFaithful
<1> QED
  BY <1>1, <1>2, <1>3 DEF ReadTarget

\* An operation begins and reads what it has pinned: it asks nothing yet.
LEMMA BeginningFaithful ==
    ASSUME PublicationInv, AskingInv, NEW op \in Op,
           (\E k \in Kind : Pin(op, k)) \/ Load(op)
    PROVE  Faithful
<1>1. TypeOK
  BY DEF PublicationInv
<1>2. ASSUME NEW k \in Kind, Pin(op, k)
      PROVE  Faithful
  <2>1. /\ pc[op] = "idle" /\ pc'[op] = "pinned" /\ Apart(op)
        /\ UNCHANGED <<state, updates, next, result, landed>>
    BY <1>1, <1>2 DEF TypeOK, Pin, Goto, Apart
  <2>2. op \notin landed /\ result[op] = "none" /\ next[op] = NoState
    BY <2>1 DEF AskingInv, Asking, Guarded
  <2>3. Asking(op)' /\ Asked(op)' = NoState
    BY <2>1, <2>2 DEF Asking, Asked, Guarded, Writing, Proposing
  <2> QED
    BY <2>1, <2>3, QuietFaithful
<1>3. CASE Load(op)
  <2>1. pc[op] = "pinned" /\ op \notin landed
    BY <1>3, NotYetLanded DEF Load, Returned
  <2>2. PinnedReads(op) \subseteq store
    BY <2>1, PinnedIntact DEF PinnedReads, References
  <2>3. CASE kind[op] = "read"
    <3>1. /\ pc' = [pc EXCEPT ![op] = "done"]
          /\ result' = [result EXCEPT ![op] = "ok"]
          /\ Forget(op) /\ UNCHANGED <<state, kind, landed>>
      BY <1>3, <2>2, <2>3 DEF Load, Goto, Report
    <3> QED
      BY Zenon, <2>1, <2>3, <3>1, EndFaithful DEF Returned
  <2>4. CASE kind[op] # "read"
    <3>1. /\ pc' = [pc EXCEPT ![op] = "loaded"]
          /\ UNCHANGED <<state, kind, base, updates, next, result, landed>>
      BY Zenon, <1>3, <2>2, <2>4 DEF Load, Goto
    <3>2. Apart(op) /\ pc'[op] = "loaded"
      BY <1>1, <3>1 DEF TypeOK, Apart
    <3>3. next[op] = NoState
      BY <2>1 DEF AskingInv, Asking, Guarded
    <3>4. Asking(op)' /\ Asked(op)' = NoState
      BY <2>1, <3>1, <3>2, <3>3 DEF AskingInv, Asking, Asked, Guarded, Writing, Proposing
    <3> QED
      BY <3>1, <3>2, <3>4, QuietFaithful
  <2> QED
    BY <2>3, <2>4
<1> QED
  BY <1>2, <1>3

\* A plan is what the operation asks of the history.
LEMMA PlanFaithful ==
    ASSUME PublicationInv, AskingInv, PublicationInv', NEW op \in Op, NEW asked, NEW proposal,
           Plan(op, asked, proposal),
           Publishes(op) =>
               /\ asked = UpdatesBetween(base[op].refs, proposal.refs)
               /\ kind[op] = "repack" => asked = {}
    PROVE  Faithful
<1>1. TypeOK /\ TypeOK' /\ pc[op] = "loaded"
  BY DEF PublicationInv, Plan, Goto
<1>2. /\ pc'[op] = "planned" /\ updates'[op] = asked /\ next'[op] = proposal
      /\ UNCHANGED <<state, kind, base, result, landed>> /\ Apart(op)
  BY <1>1 DEF TypeOK, Plan, Goto, Apart
<1>3. next[op] = NoState /\ op \notin landed
  BY <1>1 DEF AskingInv, Asking, Guarded
<1>4. Asking(op)'
  BY <1>1, <1>2, <1>3 DEF AskingInv, Asking, Publishes
<1>5. Asked(op) = NoState
  BY <1>3 DEF Asked
<1>6. Asked(op)' = NoState \/ Asked(op)' \in History!Request
  <2>1. proposal \in State \cup {NoState} /\ asked \in SUBSET RefUpdate
    BY <1>1, <1>2 DEF TypeOK
  <2>2. CASE proposal = NoState
    BY <1>2, <2>2 DEF Asked
  <2>3. CASE proposal # NoState /\ kind[op] = "restore"
    <3>1. Asked(op)' = [restore |-> proposal.refs]
      BY <1>2, <2>3 DEF Asked
    <3>2. PICK r \in Refs : r = proposal.refs
      BY <2>1, <2>3 DEF State
    <3>3. [restore |-> r] \in [restore : Refs]
      OBVIOUS
    <3> QED
      BY Zenon, <3>1, <3>2, <3>3, RequestForms
  <2>4. CASE proposal # NoState /\ kind[op] # "restore"
    <3>1. Asked(op)' = [updates |-> asked]
      BY <1>2, <2>4 DEF Asked
    <3>2. [updates |-> asked] \in [updates : SUBSET RefUpdate]
      BY <2>1
    <3> QED
      BY Zenon, <3>1, <3>2, RequestForms
  <2> QED
    BY <2>2, <2>3, <2>4
<1> QED
  BY <1>2, <1>3, <1>4, <1>5, <1>6, QuietFaithful

LEMMA PlanningFaithful ==
    ASSUME PublicationInv, AskingInv, NEW op \in Op,
           \/ \E refs \in Refs, incoming \in SUBSET Object : PlanPush(op, refs, incoming)
           \/ PlanRepack(op) \/ PlanCollect(op)
           \/ \E source \in Retained : PlanRestore(op, source)
    PROVE  Faithful
<1>0. PublicationInv'
  BY PlanningKeeps
<1>1. ASSUME NEW refs \in Refs, NEW incoming \in SUBSET Object, PlanPush(op, refs, incoming)
      PROVE  Faithful
  <2>1. Proposal(base[op], refs, FALSE).refs = refs
    BY Zenon DEF Proposal
  <2>2. kind[op] = "push"
        /\ Plan(op, UpdatesBetween(base[op].refs, refs), Proposal(base[op], refs, FALSE))
    BY ZenonT(30), <1>1 DEF PlanPush
  <2> QED
    BY ZenonT(30), <1>0, <2>1, <2>2, PlanFaithful
<1>2. CASE PlanRepack(op)
  <2>1. Proposal(base[op], base[op].refs, TRUE).refs = base[op].refs
    BY DEF Proposal
  <2>2. UpdatesBetween(base[op].refs, base[op].refs) = {}
    BY DEF UpdatesBetween
  <2>3. Plan(op, {}, Proposal(base[op], base[op].refs, TRUE))
    BY Zenon, <1>2 DEF PlanRepack
  <2> QED
    BY ZenonT(30), <1>0, <2>1, <2>2, <2>3, PlanFaithful
<1>3. CASE PlanCollect(op)
  BY <1>0, <1>3, PlanFaithful DEF PlanCollect, Publishes
<1>4. ASSUME NEW source \in Retained, PlanRestore(op, source)
      PROVE  Faithful
  BY <1>0, <1>4, PlanFaithful DEF PlanRestore, Publishes
<1> QED
  BY <1>1, <1>2, <1>3, <1>4

\* The updates between two reference maps find the old values of the first,
\* and turn it into the second.
LEMMA UpdatesExact ==
    ASSUME NEW old \in Refs, NEW new \in Refs
    PROVE  /\ \A u \in UpdatesBetween(old, new) : old[u.name] = u.old /\ new[u.name] = u.new
           /\ \A n \in RefName \ {u.name : u \in UpdatesBetween(old, new)} : new[n] = old[n]
<1>1. \A u \in UpdatesBetween(old, new) : old[u.name] = u.old /\ new[u.name] = u.new
  BY DEF UpdatesBetween
<1>2. ASSUME NEW n \in RefName, new[n] # old[n]
      PROVE  n \in {u.name : u \in UpdatesBetween(old, new)}
  <2> DEFINE u == [name |-> n, old |-> old[n], new |-> new[n]]
  <2>1. u \in UpdatesBetween(old, new)
    BY <1>2 DEF UpdatesBetween
  <2>2. u.name = n
    OBVIOUS
  <2> QED
    BY <2>1, <2>2
<1> QED
  BY <1>1, <1>2

\* The compare-and-swap of "state" is the step of the history: it finds the
\* references as they were pinned.
LEMMA SwapFaithful ==
    ASSUME PublicationInv, AskingInv, NEW op \in Op, state = base[op], Swap(op),
           NEW outcome \in {"ok", "failed"}, outcome = "failed" => Faults, Report(op, outcome)
    PROVE  Faithful
<1> DEFINE asked == [q \in Op |-> Asked(q)]
<1>1. /\ TypeOK /\ pc[op] = "publish" /\ op \notin landed
      /\ kind[op] \in {"push", "repack", "restore"}
  BY NotYetLanded DEF PublicationInv, OpInv, RightKind, Proposing, Swap, Goto, Returned
<1>2. /\ next[op] \in State /\ next[op] # NoState
      /\ next[op].generation = state.generation + 1
  BY ZenonT(30), <1>1, StateAssumption DEF PublicationInv, OpInv, Staged, Proposing
<1>3. state.refs \in Refs /\ next[op].refs \in Refs
  BY <1>1, <1>2 DEF TypeOK, State
<1>4. /\ pc'[op] = "release" /\ result'[op] = outcome /\ next'[op] = NoState
      /\ state' = next[op] /\ landed' = landed \cup {op} /\ kind' = kind /\ Apart(op)
  BY <1>1 DEF TypeOK, Swap, Goto, Report, Forget, Apart
<1>5. kind[op] # "restore" =>
          /\ updates[op] = UpdatesBetween(state.refs, next[op].refs)
          /\ kind[op] = "repack" => updates[op] = {}
  BY Zenon, <1>1 DEF AskingInv, Asking, Publishes, Proposing
<1>6. Asking(op)'
  BY Zenon, <1>4 DEF Asking, Guarded, Writing, Proposing
<1>7. ASSUME NEW q \in Op \ {op}
      PROVE  Asking(q)' /\ Asked(q)' = Asked(q)
  BY <1>4, AskingFrame DEF AskingInv, Apart
<1>8. AskingInv'
  BY <1>6, <1>7 DEF AskingInv
<1>9. PublishesAtomically
  BY <1>1, <1>2, <1>4, <1>5 DEF PublishesAtomically
<1>10. asked' = [asked EXCEPT ![op] = NoState]
  <2>1. Asked(op)' = NoState
    BY <1>4 DEF Asked
  <2> QED
    BY ZenonT(30), <1>7, <2>1
<1>11. History!Take(op)
  BY <1>1, <1>2, <1>4, <1>10 DEF History!Take
<1>12. CASE kind[op] = "restore"
  <2>1. asked[op] = [restore |-> next[op].refs]
    BY <1>1, <1>2, <1>12, AskedRequest
  <2>2. /\ asked[op] \in [restore : [RefName -> Object \cup {NoObject}]]
        /\ state'.refs = asked[op].restore
    <3>1. PICK r \in Refs : r = next[op].refs
      BY <1>3
    <3>2. [restore |-> r] \in [restore : Refs] /\ [restore |-> r].restore = r
      OBVIOUS
    <3> QED
      BY Zenon, <1>4, <2>1, <3>1, <3>2 DEF Refs
  <2>3. History!Restore(op)
    BY <1>11, <2>2 DEF History!Restore
  <2> QED
    BY <1>8, <1>9, <2>3 DEF Faithful, History!Next
<1>13. CASE kind[op] # "restore"
  <2>1. asked[op] = [updates |-> updates[op]] /\ updates[op] \in SUBSET RefUpdate
    BY <1>1, <1>2, <1>13, AskedRequest DEF TypeOK
  <2>2. /\ asked[op] \in [updates : SUBSET History!Update]
        /\ asked[op].updates = updates[op]
    <3>1. PICK asks \in SUBSET RefUpdate : asks = updates[op]
      BY <2>1
    <3>2. [updates |-> asks] \in [updates : SUBSET RefUpdate] /\ [updates |-> asks].updates = asks
      OBVIOUS
    <3> QED
      BY Zenon, <2>1, <3>1, <3>2, RequestForms
  <2>3. /\ \A u \in updates[op] : state.refs[u.name] = u.old /\ state'.refs[u.name] = u.new
        /\ \A n \in RefName \ {u.name : u \in updates[op]} : state'.refs[n] = state.refs[n]
    <3>1. PICK old \in Refs, new \in Refs : old = state.refs /\ new = next[op].refs
      BY <1>3
    <3>2. updates[op] = UpdatesBetween(old, new) /\ state'.refs = new
      BY <1>4, <1>5, <1>13, <3>1
    <3>3. /\ \A u \in UpdatesBetween(old, new) : old[u.name] = u.old /\ new[u.name] = u.new
          /\ \A n \in RefName \ {u.name : u \in UpdatesBetween(old, new)} : new[n] = old[n]
      BY UpdatesExact
    <3> QED
      BY Zenon, <3>1, <3>2, <3>3
  <2>4. state'.refs \in [RefName -> Object \cup {NoObject}]
    BY ZenonT(30), <1>3, <1>4 DEF Refs
  <2> HIDE DEF asked
  <2>5. History!Swap(op)
    BY ZenonT(30), <1>11, <2>2, <2>3, <2>4 DEF History!Swap, asked
  <2> QED
    BY <1>8, <1>9, <2>5 DEF Faithful, History!Next
<1> QED
  BY <1>12, <1>13

LEMMA PublishFaithful ==
    ASSUME PublicationInv, AskingInv, NEW op \in Op, Publish(op) \/ PublishResponseLost(op)
    PROVE  Faithful
<1>1. CASE pc[op] = "publish" /\ Unwind(op, "failed")
  BY <1>1, UnwindFaithful DEF Returned
<1>2. CASE state = base[op] /\ Swap(op) /\ Report(op, "ok")
  BY <1>2, SwapFaithful
<1>3. CASE Faults /\ state = base[op] /\ Swap(op) /\ Report(op, "failed")
  BY <1>3, SwapFaithful
<1> QED
  BY <1>1, <1>2, <1>3 DEF Publish, PublishResponseLost

\* The operator's unlock and stuttering touch nothing that is asked.
LEMMA IdleFaithful ==
    ASSUME AskingInv, UnlockMaintenance \/ UNCHANGED vars
    PROVE  Faithful
<1>1. UNCHANGED <<state, pc, kind, base, updates, next, result, landed>>
  BY DEF UnlockMaintenance, vars
<1>2. ASSUME NEW q \in Op
      PROVE  Asking(q)' /\ Asked(q)' = Asked(q)
  BY <1>1, AskingFrame DEF AskingInv
<1>3. AskingInv' /\ PublishesAtomically
  BY <1>1, <1>2 DEF AskingInv, PublishesAtomically
<1>4. [q \in Op |-> Asked(q)]' = [q \in Op |-> Asked(q)]
  BY <1>2
<1> QED
  BY <1>1, <1>3, <1>4 DEF Faithful, History!vars

LEMMA NextFaithful == PublicationInv /\ AskingInv /\ [Next]_vars => Faithful
<1> SUFFICES ASSUME PublicationInv, AskingInv, [Next]_vars PROVE Faithful
  OBVIOUS
<1>1. ASSUME NEW op \in Op, Prepare(op) PROVE Faithful
  BY <1>1, BeginningFaithful, PlanningFaithful DEF Prepare
<1>2. ASSUME NEW op \in Op, Step(op) PROVE Faithful
  BY <1>2, MovingFaithful, EndingFaithful, ReleaseFaithful, PublishFaithful,
     ReadTargetFaithful DEF Step
<1>3. ASSUME NEW op \in Op, Mishap(op) PROVE Faithful
  BY <1>3, EndingFaithful, ReleaseFaithful, PublishFaithful DEF Mishap
<1> QED
  BY <1>1, <1>2, <1>3, IdleFaithful DEF Next

-----------------------------------------------------------------------------
(* Collection. *)

\* Only the deletions of a collection take anything out of the bucket.
LEMMA StoreGrows ==
    ASSUME PublicationInv, [Next]_vars, ~ \E op \in Op : Delete(op)
    PROVE  store \subseteq store'
<1>1. ASSUME NEW op \in Op, Prepare(op) PROVE store' = store
  BY ZenonT(30), <1>1 DEF Prepare, Pin, Load, Plan, PlanPush, PlanRepack, PlanRestore, PlanCollect
<1>2. ASSUME NEW op \in Op, Step(op) PROVE store \subseteq store'
  <2>1. CASE StorePack(op) \/ StoreRefs(op) \/ StoreManifest(op) \/ StoreSnapshot(op)
    BY <2>1 DEF StorePack, StoreRefs, StoreManifest, StoreSnapshot, PutKeys
  <2>2. CASE \/ Lock(op) \/ LockBusy(op) \/ Release(op) \/ CheckBase(op) \/ Validate(op)
             \/ Publish(op) \/ ReadTarget(op) \/ List(op) \/ Mark(op) \/ Collected(op)
    BY <2>2 DEF Lock, LockBusy, Release, CheckBase, Validate, Publish, Swap, Unwind,
       ReadTarget, List, Mark, Collected
  <2> QED
    BY <1>2, <2>1, <2>2 DEF Step
<1>3. ASSUME NEW op \in Op, Mishap(op) PROVE store' = store
  BY <1>3 DEF Mishap, Reject, Fail, Unwind, Crash, LockResponseLost, PublishResponseLost,
     Swap, ReleaseFails
<1> QED
  BY <1>1, <1>2, <1>3 DEF Next, UnlockMaintenance, vars

LEMMA NextDeletesOrphans == PublicationInv /\ [Next]_vars => DeletesOrphans
<1> SUFFICES ASSUME PublicationInv, [Next]_vars PROVE DeletesOrphans
  OBVIOUS
<1>1. ASSUME NEW op \in Op, Delete(op) PROVE DeletesOrphans
  <2>1. PICK k \in work[op] : store' = store \ {k}
    BY <1>1 DEF Delete
  <2>2. Collectible(k) /\ \A s \in Retained : k \notin References(s)
    BY Zenon, <1>1, <2>1 DEF Delete, PublicationInv, OpInv, Collecting
  <2>3. Retained \subseteq Retained'
    BY ZenonT(30), <2>1, <2>2 DEF Retained, StatesOf, Collectible
  <2> QED
    BY <2>1, <2>2, <2>3 DEF DeletesOrphans
<1>2. CASE ~ \E op \in Op : Delete(op)
  <2>1. store \subseteq store'
    BY <1>2, StoreGrows
  <2>2. Retained \subseteq Retained'
    BY <2>1 DEF Retained, StatesOf
  <2> QED
    BY <2>1, <2>2 DEF DeletesOrphans
<1> QED
  BY <1>1, <1>2

-----------------------------------------------------------------------------
(* The theorems. *)

\* Every operation asks for what it planned from its pinned references, and
\* lands at most once; with PublicationInv this is inductive.
THEOREM AskingInvariant == Spec => []AskingInv
<1>1. Init => AskingInv
  BY DEF Init, AskingInv, Asking, Publishes, Guarded, Writing, Proposing
<1>2. PublicationInv /\ AskingInv /\ [Next]_vars => AskingInv'
  BY NextFaithful DEF Faithful
<1> QED
  BY <1>1, <1>2, PublicationInvariant, PTL DEF Spec

\* publishObjects and RestoreGeneration move all references at once, from the
\* values their callers saw, and at most once per operation.
THEOREM PublicationsAtomic == Spec => PublicationIsAtomic
<1>1. PublicationInv /\ AskingInv /\ [Next]_vars => [PublishesAtomically]_vars
  BY NextFaithful DEF Faithful
<1> QED
  BY <1>1, PublicationInvariant, AskingInvariant, PTL DEF Spec, PublicationIsAtomic

\* An operation that reports success has landed, and without lost responses
\* one that reports an error has not.
THEOREM ReportsStayTrue == Spec => []ReportsTruth
<1>1. AskingInv => ReportsTruth
  BY DEF AskingInv, Asking, ReportsTruth
<1> QED
  BY <1>1, AskingInvariant, PTL

\* GarbageCollect removes only orphan artifacts, and no state snapshot.
THEOREM OrphansOnly == Spec => CollectsOrphansOnly
<1>1. PublicationInv /\ [Next]_vars => [DeletesOrphans]_vars
  BY NextDeletesOrphans
<1> QED
  BY <1>1, PublicationInvariant, PTL DEF Spec, CollectsOrphansOnly

\* The repository, with its lock, artifacts, crashes and lost responses,
\* implements the history of atomic publications: every step is a step of the
\* history or leaves it alone.
THEOREM HistoryImplemented == Spec => ImplementsHistory
<1>1. Init => History!Init
  <2> SUFFICES ASSUME Init PROVE History!Init
    OBVIOUS
  <2>1. PublicationInv
    BY InitInv
  <2>2. state.refs \in [RefName -> Object \cup {NoObject}]
    BY <2>1 DEF PublicationInv, TypeOK, State, Refs
  <2>3. state.generation = 1
    BY DEF Init, InitialState
  <2>4. [q \in Op |-> Asked(q)] = [q \in Op |-> NoState]
    BY DEF Init, Asked
  <2> QED
    BY <2>2, <2>3, <2>4 DEF Init, History!Init
<1>2. PublicationInv /\ AskingInv /\ [Next]_vars => [History!Next]_(History!vars)
  BY NextFaithful DEF Faithful
<1> QED
  BY <1>1, <1>2, PublicationInvariant, AskingInvariant, PTL
     DEF Spec, ImplementsHistory, History!Spec

\* What is durable is complete, and what operations report is true.
THEOREM HistoryInvariant == Spec => []HistoryInv
BY PublicationInvariant, AskingInvariant, ReportsStayTrue, PTL DEF HistoryInv

=============================================================================
