# A verification of GitOneS3

GitOneS3 is a Git server that keeps everything it must not lose in S3 buckets,
one per shard. It has no database and no consensus service: what several
processes may rely on, they build from conditional `Put` and `Delete`. These
modules model how it does that, check the models with TLC on small instances,
and prove the central results with TLAPS for every instance.

## The system

A *shard* owns the namespaces that a hash assigns to it, and one bucket. Every
instance accepts every request and forwards those of other shards to their
owner, at most once. The parts, and what each has to get right:

| Part | State | Operations | What must hold |
| --- | --- | --- | --- |
| Git publication (`repository/packed.go`, `git.go`, `transport.go`, `storage/repository.go`) | bucket: `state`, state/refs/manifest snapshots, packs, loose objects | read a pinned generation, push | a push is one atomic compare-and-swap of all references; a pinned generation stays readable |
| Repository lock (`repository/maintenance_lock.go`) | bucket: `maintenance-lock` | lock, release, operator unlock | no two writers or collectors at a time; every path releases it |
| Maintenance (`repository/maintenance.go`) | the same artifacts | repack, restore, integrity check, garbage collection | nothing that a retained snapshot refers to is deleted, wherever a collection stops |
| LFS content (`repository/lfs*.go`) | bucket: payloads, verified records, reservations, quota ledger; multipart uploads at the provider | upload, retry, download, release, reconcile, collect | published content is never lost; the quota holds; unfinished parts can be found |
| Repository creation and listing (`repository/repository.go`, `listing.go`) | bucket: name claims and metadata | create, list in pages | a name is claimed once and is complete when visible |
| Groups and spaces (`auth/namespace.go`, `groups.go`, `spaces.go`, `usernames.go`) | bucket: namespace records, space candidates, bound usernames | create, invite, accept, change role, leave; backfill | a group keeps an owner; every member finds the group; updates are not lost |
| Credentials (`auth/tokens.go`, `ssh_keys.go`, `lfs.go`, `lfs_authority.go`) | bucket: tokens, keyrings | create, verify, revoke | what is revoked stays revoked, also for what is under way |
| Login (`auth/service.go`, `oidc.go`, `store.go`) | bucket: login transactions; signed cookies | login, callback, session | a transaction is used once |
| Transport and admission (`gittransport/`, `lfs/`, `sshserver/`) | memory: active and queued transfers | fetch, push, LFS batch and transfer | bounds hold, slots come back |
| Cache (`cache/`, `repository/cache.go`, `graph_cache.go`) | memory and a private directory | load once, pin, evict, recover, close | one load per key, a pinned file stays, limits hold |
| Routing (`shard/`, `proxy/`, `sshserver/routing.go`) | none | resolve, forward | one hop, the owner serves |
| Server (`httpserver/`, `app/`) | memory: requests in progress | serve, drain, stop | shutdown ends, and waits for what was admitted |
| Compaction planner (`maintenance/compaction.go`) | none | plan | a pure function |
| Storage (`storage/`, `s3store/`) | the bucket | conditional calls, ranges, pages, multipart | errors are classified so that a lost race is never a success |
| Packs (`gitpack/`) | a private directory | stage, resolve deltas, check budgets | an accepted pack is what its deltas mean; nothing is left behind |
| Metrics, configuration, qualification, commands, pages | | | not modelled, see below |

The parts meet in the bucket. A push, an LFS upload's bookkeeping, a restore and
a collection all take the repository lock; readers and downloads take none.
A push asks for authorization again under the lock, before it publishes. The
cache holds immutable content only, under keys that are digests.

What makes this hard is not a single step but what can happen between two: a
process dies or is paused anywhere; a call takes effect and its response is
lost; a collection decides from a listing that is a moment old; a lock outlives
its owner and never expires. `PROJECT.json` lists these hazards line by line,
with the property that would catch each one.

## Modules

Each component is a module of its own, with the code's names; `map` in
`PROJECT.json` gives the lines of every definition.

| Module | What it is |
| --- | --- |
| `RepositoryHistory` | What a repository promises: a map of references that changes in atomic, numbered steps, each asked for by one operation. |
| `RepositoryPublication` | The real thing: artifacts, lock, pinned reads, push, repack, restore, collection, faults. Refines `RepositoryHistory`. |
| `LfsStorage` | LFS content of a repository: uploads, reservations, ledger, records, pushes of pointers, collection, faults. |
| `RepositoryLock` | The two side by side at the one lock of a repository. |
| `RepositoryCreation` | Creators that race for a name, and the paged catalogue. |
| `GroupRoster` | What groups promise: one change at a time, decided by who is an owner at that moment. |
| `GroupMembership` | Namespace records changed by compare-and-swap, space candidates, the readiness marker, its backfill, and listings. Refines `GroupRoster`. |
| `GroupUsernames` | The cached usernames of a group's members and the alias of an invitation. |
| `Credentials` | Keyring and tombstones, tokens, session cookies and LFS grants, and the operations that use them. |
| `Login` | Login transactions, callbacks, registration, sessions and logout. |
| `Routing` | Owners, the proxy with its marker, SSH delegation, checks of credentials by the user's shard, restarts with another shard count. |
| `Serving` | The gates of Git, LFS and browser work, SSH slots, the drain, and the order of shutdown. |
| `CacheDisk`, `CacheMemory` | The files of the cache with builds, pins, eviction, recovery and close; its values with nested loads. |
| `Negotiation` | A fetch over SSH or HTTP, the selection of its pack, and shared packs. |
| `PackDecode` | The resolution of a received pack in passes, within budgets. |
| `LfsBatch`, `LfsDownload` | The worker pool of a batch request; conditional and ranged downloads. |
| `*Proofs` | The inductive invariants and theorems of the module they are named after. |
| `MC*` | Constants, bounds and compositions for TLC. |

They fit together as the parts do. `RepositoryPublication` and `LfsStorage` share
a lock, and `RepositoryLock` composes them there. `Credentials` says that a write
asks for authorization again before it publishes, and `Routing` who is asked.
`Serving` bounds how many handlers run, and closes the cache of `CacheDisk` and
`CacheMemory` when they are gone. `GroupUsernames` uses the single steps of
`GroupRoster`, which `GroupMembership` implements. `Negotiation` serves the
references of one pinned generation, which stays readable while pushes go on, as
`RepositoryPublication` shows.

In all of them the version of a mutable object is its ETag, hence its content,
and time is a small counter where the code compares instants and a free choice
where it compares ages. A process is a program counter whose steps are the
calls that others can observe: storage calls, critical sections and channel
operations. `Faults` adds crashes and calls that take effect although their
caller sees an error.

### RepositoryPublication

An immutable key is the digest of its content, so a key *is* its content in the
model, and `store` is the set of keys that exist. `state` is the mutable object
that names the published generation; its version is an ETag, hence equality of
content. An operation (`op`) is one call of a reader, a push (`publishObjects`),
`Repack`, `RestoreGeneration` or `GarbageCollect`; `pc[op]` is its next storage
call, and `base`, `updates`, `next`, `work` are its local variables. Reads of
immutable content that follow each other are one step. The correspondence of
each action to its lines is in the `map` of `PROJECT.json`; in short:

- `Pin`, `Load`, `PlanPush`, `PlanRepack`, `PlanRestore`, `PlanCollect` happen
  before the lock, `Lock`/`LockBusy` is `lockRepository`;
- `CheckBase`, `StorePack`, `StoreRefs`, `StoreManifest`, `Validate`,
  `StoreSnapshot`, `Publish` are the rest of `publishObjects` and
  `CompareAndSwapState`, in their order;
- `ReadTarget` is what `RestoreGeneration` does first under the lock; `List`,
  `Mark`, `Delete`, `Collected` are `GarbageCollect`;
- `Fail` is any error return under the lock, `Release` the deferred unlock;
- `Crash`, `LockResponseLost`, `PublishResponseLost`, `ReleaseFails` are the
  faults, and `UnlockMaintenance` the operator, who must stop every process
  first.

Git objects are a constant graph (`Links`); which objects exist in a push is an
arbitrary set. How old an artifact is (the grace period of a collection) is left
open: any subset of the unmarked artifacts may be the old ones. The default
branch never changes and is not in the model. The LFS half of a push and of a
collection is in `LfsStorage`; here it can only fail.

### LfsStorage

`bucket` is the durable LFS state. The random token of an upload names its
reservation, its multipart upload and its payload; the model uses the upload as
the token. `quota[op]` is the ledger in an operation's memory, `seen[op]` the
version for its next conditional write. Pushes and collections are tasks that
run again and again, reduced to their LFS steps (`Validate`, `Retain`; `Mark`,
`Invalidate`, `Delete`, `RebuildAfter`). All of `reserveLFS`,
`cleanupLFSInitialization`, `finishLFS`, `finishExistingLFS`,
`releaseLFSReservation` and the deferred cleanup of `LFSUpload` are there, call
by call. `Undo` and `ErrorExit` say where an error return goes on. Bodies are
abstracted to whether the announced object is genuine; object sizes are numbers,
because the quota is about them. Expiry of a reservation is an action that may
happen any time.

### The other modules

- `GroupMembership`: `req[r]` is one request through `updateGroup` with its
  remaining attempts and the record it loaded; `candidate` and `ready` are the
  space index, `operator[o]` its backfill, `reader[u]` a listing page by page.
- `Credentials`: `ring`, `token` and `role` are what is durable; `op[o]` is a Git
  or LFS operation with the credential it came with, from admission through the
  final authorization to publication. What was published remembers whether its
  credential was stale.
- `Login`: `stored[l]` is a login transaction, `call[c]` a request that is being
  served, `sessions` every session that was ever made.
- `Routing`: `file[s]` is the shard count in the identity file of instance s and
  `count[s]` the one that its process runs with. `chain[c]` is the stack of
  handlers that one request has opened so far, in any instances; only the last
  one runs.
- `Serving`: `req[r].pc` is where a request is, `active`, `waiting` and `slots`
  are the channels, `drain`, `http`, `ssh`, `ctx` and `cache` the stages of `Run`.
- `CacheDisk`: a step is a critical section of the mutex or one effect on the
  directory; a crash leaves the directory to the next process.

## Runs

| Run | Shows | Bounds |
| --- | --- | --- |
| `publication_faults` | Pushes, repacks, restores, collections and readers, with faults and operator unlocks, never damage a retained generation, publish atomically and implement `RepositoryHistory`. | 2 commits, the default branch, 3 generations, 3 operations: one reader, repack and restore at most, and one crash |
| `lock_progress` | Git operations and an upload at one lock: they never meet under it, all who took it give it back, and every upload ends, although a collection may win the lock every time. | 2 commits, 2 branches of which one is a directory of the other, 2 operations and an upload, of which two begin; collections repeat without bound; no faults |
| `lfs_faults` | Uploads, pushes of pointers and collections with faults and expiry: content that a snapshot points to stays, records never dangle, parts stay findable, a clean ledger is exact, the quota holds, and nothing is acknowledged without content. | 2 uploads of one content, one announced with a wrong size, one crash, one expiry, 1 task, a quota of two bytes |
| `groups` | A group keeps an owner, the index and listings omit nobody, and every change is one step of `GroupRoster`. | 2 users; 2 requests at one group, or 1 request at two groups with the backfill and a listing in pages of 1 |
| `names` | Racing creators leave whole repositories and hear the truth, listings omit nothing that was there throughout; cached usernames are true and aliases stay. | 3 creators, 3 names whose keys sort otherwise, pages of 2; 2 users, 3 usernames, 2 processes, versions that are counted |
| `usernames_alias` | The one violation, see below. | the same users, versions that are ETags |
| `login_races` | One session at most from a login, for its browser, its time and the owner of the name. | 2 people, 2 browsers, 2 logins, 2 calls, 1 name |
| `credentials` | What is revoked stays revoked, and no write is published with a credential that was stale when its final authorization began. | 3 keys for a ring of 2, 2 requests; or 1 key, 1 token and 1 operation with a clock to 3 |
| `routing` | Each request is proxied once, only owners serve, agreeing instances have one authority for a name, and nobody waits for a slot that another waiter holds. | 3 shard numbers, 2 names, 1 slot; 2 requests; disagreement, or agreement with a restart |
| `serving` | Slots are neither lost nor given twice, shutdown happens in its order and ends, and no transfer queues for ever. | gates of 1 active and 1 queued; crowds of up to 3 requests, for one gate at a time |
| `caches` | No caller holds a bad file, counters are exact and within budgets, nobody who waits is forgotten. | 2 callers and 2 keys on disk, with and without failing removals; 3 callers and 4 nested values in memory |
| `transfers` | A pack has exactly what was asked for; a received pack is what its deltas mean, in whatever order; batches answer each object; ranges are exact. | 4 commits and 5 packets; packs of 3 entries; 3 objects, 1 or 2 workers; sizes up to 3 |

Why these are enough: three operations are a writer, a collector and a reader or
second writer; every further one meets the same lock. Three generations allow a
publication on top of a restored or repacked one and reach the limit of the
generation number. Two uploads of the same content are the case where records,
charges and collections of the two can be confused; different contents share
only the lock and the ledger, and the quota has no room for both when one
announces too much. Two requests are what a compare-and-swap loop can lose to;
one that loses twice runs out of its two attempts. Pages are smaller than what is
listed. Gates of one slot with three requests have one at work, one that waits and
one that is turned away. Where the bounds of a run leave out combinations, its MC
module names the bound; the theorems below have no bounds.

Fairness is assumed in two runs. In `lock_progress`, `WF` on the steps of each
operation once it has begun, and on nothing else: no operation has to begin, and
nothing is assumed about the order in which operations get the lock: repeated
collections may starve an upload, which then ends by its timeout. The code
justifies it with deadlines: a Git request has 90 seconds, an LFS request and
`lockLFS` have theirs, and the deferred release of the lock and the cleanups of
an upload run under 10 seconds of their own, so that every call returns, with an
error if need be. There are no faults: a crashed process keeps the lock until an
operator removes it, which is what the code intends. In `serving`, `WF` on the
steps of each handler, on its timers, and on each goroutine of the shutdown:
goroutines are scheduled, timers fire, and a deadline interrupts every handler.
No client has to send and no signal has to come, and a queued transfer may be
overtaken for ever, but for its timeout.

Deadlock is not checked where everything may be finished: publication, the lock,
a stopped process, a transfer that is over. It is checked in the other runs.

The violation: `groupView` prunes the cached names of users who are no longer in
the group. A comment in `usernames.go` says that its compare-and-swap cannot lose
an alias that was saved after a concurrent invitation. On S3 the version is an
ETag, so that a cache which was changed and changed back has the version the view
loaded, and `AliasKept` fails; with the counted versions of the store that the
tests use it holds (`names`). Only the name that is shown is affected.

## Proofs

Eight modules hold theorems about the specifications as they are, faults
included, for every value of the constants. The main ones are listed in
`PROJECT.json`; each follows from an inductive invariant whose preservation has
one lemma per action.

| Module | Proves | Inductive invariant |
| --- | --- | --- |
| `RepositoryPublicationProofs` | `HistoryInv`, `RetainedIntact`, `CollectsOrphansOnly`, `PublicationIsAtomic`, and that `RepositoryHistory` is implemented | `PublicationInv`, `AskingInv` |
| `LfsStorageProofs` | `LfsInv`, `QuotaHolds`, `AcknowledgedStored`, `PointedContentStable` | `LfsInv` |
| `GroupMembershipProofs` | `GroupSafe`, `ListingComplete`, and that `GroupRoster` is implemented | `GroupInv` |
| `RepositoryCreationProofs` | `CreationSafe`, `ListComplete` | `CreationInv` |
| `CredentialsProofs` | `CredentialsSafe`, `RevocationNoticed`, `TombstoneWins` | `CredentialsInv` |
| `LoginProofs` | `LoginSafe`, `SingleUse`, `NeverReassigned` | `LoginInv` |
| `RoutingProofs` | `RoutedOnce`, `OneAuthority`, four handlers at most for a request | `RoutingInv` |
| `ServingProofs` | `ServingSafe`, `NothingStartsLate` | `ServingSafe` |

The assumptions are those about the constants, named after their module
(`GraphAssumption`, `RefAssumption`, `OpAssumption`, `StateAssumption`,
`LfsAssumption`, `GroupAssumption` and so on); TLC evaluates them in the runs.
`HistoryInv`, `LfsInv`, `ServingSafe` and `RoutedOnce`, which contain the
inductive invariants of their modules, are invariants of runs too.

The arguments, where a property is not inductive as it stands:

- *Publication.* That a snapshot about to be stored verifies depends on its plan
  (`PlanSound`: it needs nothing but the pinned generation and what it will write
  itself), on the pinned generation still being complete (`PinRetained`: it is
  retained, and what is retained is never collected) and on what was written so
  far (`Staged`). That a deletion is harmless depends on the list it was taken
  from (`Collecting`), which needs the lock, because a snapshot stored in between
  would make the list stale. The refinement maps an operation to what it asks of
  the history (`Asking`): it asks once, and reports success if and only if it
  landed.
- *LFS.* A record leads to content because the upload that wrote it completed its
  payload under the same token (`TokenInv`, `ContentInv`) and a collection marks,
  under the lock, what pointers and records need before it deletes (`TaskInv`;
  the definitions `Removable` and `Harmless`). Parts are found because the ID of a
  multipart upload is recorded before the first part (`PartsInv`). The ledger is
  exact when clean because what is charged changes only while the ledger is dirty,
  by the operation that holds the lock, and the counters that this one has in
  memory differ from the bucket by its own charge at most (`DirtyInv`, `QuotaInv`).
  Quotas are sums over sets of uploads. Instead of a recursive sum the model counts
  bytes, so that what a sum does when an upload comes or goes is a lemma about
  cardinalities (`ChargeAdd`). The lemmas assume what they need of finite sets
  (`SetLaws`), which `FiniteSetLaws` then proves for the theorems. A lemma about a
  group of actions has a named step for each of them (`LedgerSteps`,
  `TransferSteps`, `ControlSteps`, `PlainSteps`).
- *Groups and creation.* A compare-and-swap succeeds only on the record that the
  request decided on, so that its decision is still right; a listing omits nobody
  because every name that is due is found already, on the page at hand or beyond
  its marker.
- *Credentials.* What the final authorization has established stays established
  until publication or is noticed; a write of the keyring keeps every tombstone,
  because it is conditional on the keyring that was read.
- *Login.* A callback that has spent its transaction is the only one that did, and
  no session of that login exists yet (`OnceOK`).
- *Routing.* Every handler has established that its instance answers for what it
  works on (`Established`), its caller sent it there (`Called`), and handlers get
  ever further from the client (`Follows`), which leaves room for four. Every step
  continues, opens, answers or breaks a chain; there is a lemma for each. When a
  connection breaks, the rest of a chain runs on by itself, and the slots it holds
  are the ones it held before.
- *Serving.* The counters of the gates are the requests that hold and await their
  slots. A step moves one request, and one lemma about cardinalities
  (`CountStep`, `MoveHolds`) says what this does to every count. `Stages` says
  what each stage of the shutdown can rely on.

Only model-checked:

- liveness (`LockedWorkEnds`, `UploadEnds`, `Stops`, `GitQueueEnds`) and
  `NobodyWaits`, which is about `ENABLED`: out of the prover's reach;
- `LockSound`: the composition of the two halves at the lock, of which each
  half's `LockExcludes` is proved;
- the cache (`FilesSound`, `ValuesSound`), the cached usernames (`CacheTrue`,
  `AliasKept`) and the transfers (`PackExact`, `TalkSound`, `FetchDelivers`,
  `PackSound`, `BatchSound`, `DownloadExact`): what a pack contains is a closure
  over a graph and what its deltas mean a recursion over its entries, which would
  need induction over data; for the others there are no proofs yet.

## Not modelled

- Bytes: pack headers, zlib streams and delta instructions, the pack writer, packet
  and report encoding, the parsing of push commands, LFS pointer files, routes and
  JSON bodies; byte ranges and response validation of the S3 adapter.
- Parts without shared state: metrics, parsing of the environment, commands, web
  pages, JSON views, the stub of the locking API, the decision table of `authz`,
  which the server does not call, and the compaction planner, which nothing calls.
- Cryptography and the shard hash, which are taken as given.
- The in-memory store of the tests, but for the way it counts versions, and the S3
  qualification tool, which tests a provider for what these modules assume of it:
  conditional calls are atomic, reads see the last write, listings are complete,
  and a call that reported an error has taken effect by then or never will. A
  request that the provider executes long after its connection broke, for example
  a delayed `Delete` of a collection that has given the lock back, is outside the
  model, and so is a lock that an operator removes while a process of the
  repository still runs.
- The removal by the provider of a multipart upload whose creation succeeded but
  whose response, and with it the upload ID, was lost. It is in the model, holds no
  parts, and stays.
