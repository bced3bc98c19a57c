------------------------------ MODULE Serving ------------------------------
(***************************************************************************)
(* One shard process while it serves and while it stops: the gates that    *)
(* bound Git, LFS and browser work (gittransport/admission.go,             *)
(* lfs/handler.go, auth/browser_admission.go), the slots of SSH            *)
(* connections (sshserver/server.go), the fence that drains HTTP handlers  *)
(* (httpserver/drain.go) and the order in which app.Run takes the process  *)
(* down.                                                                   *)
(*                                                                         *)
(* A gate is two buffered channels: tokens of active work and tokens of    *)
(* requests that wait.  A step is what happens between two points where    *)
(* other goroutines can be seen: a channel operation, a read of a context, *)
(* a critical section of the drain's mutex.  A waiting sender may be       *)
(* overtaken here, although Go's channels serve them in order.             *)
(***************************************************************************)
EXTENDS Integers, FiniteSets

CONSTANTS
    Request,            \* request handlers of this process
    Kind,               \* what each request asks for
    Active,             \* capacity of a gate's channel of active work
    Queued,             \* capacity of a gate's channel of waiting requests
    Slots               \* capacity of the channel of SSH connections

Kinds == {"git", "refs", "lfs", "control", "browser", "ssh"}

\* Git over HTTP and over SSH share a gate; a listing of references has its own.
Gates == {"git", "refs", "lfs", "control", "browser"}

\* admissionOptions: the references wait in a queue as long as that of transfers.
GitLimits ==
    /\ Active["git"] \in 1 .. 32 /\ Queued["git"] \in 0 .. 1024
    /\ Queued["refs"] = Queued["git"]

\* lfs.New.
LFSLimits == Active["lfs"] \in 1 .. 32 /\ Queued["lfs"] \in 0 .. 1024

ASSUME ServingAssumption ==
    /\ IsFiniteSet(Request)
    /\ Kind \in [Request -> Kinds]
    /\ Active \in [Gates -> Nat \ {0}]
    /\ Queued \in [Gates -> Nat]
    /\ Slots \in Nat \ {0}
    /\ GitLimits /\ LFSLimits

Gate(r) == IF Kind[r] = "ssh" THEN "git" ELSE Kind[r]

HTTP == {r \in Request : Kind[r] # "ssh"}

VARIABLES
    req,        \* where each handler is, and what happened to its contexts
    active,     \* tokens in the channel of active work of each gate
    waiting,    \* tokens in the channel of waiting requests of each gate
    slots,      \* tokens in the channel of SSH connections
    drain,      \* the requestDrain of the HTTP server; done counts its closes
    http,       \* where httpserver.serve is
    ssh,        \* where sshserver.Serve is
    ctx,        \* whether the context of app.Run is done
    abandoned,  \* whether HTTP handlers outlived the cleanup window
    cache       \* whether the repository cache is open

vars == <<req, active, waiting, slots, drain, http, ssh, ctx, abandoned, cache>>
servers == <<http, ssh, ctx, abandoned, cache>>

None == [pc |-> "none", cancelled |-> FALSE, expired |-> FALSE]

Init ==
    /\ req = [r \in Request |-> None]
    /\ active = [g \in Gates |-> 0]
    /\ waiting = [g \in Gates |-> 0]
    /\ slots = 0
    /\ drain = [stopping |-> FALSE, active |-> 0, done |-> 0]
    /\ http = "serving" /\ ssh = "serving"
    /\ ctx = "live" /\ abandoned = FALSE /\ cache = "open"

At(r, pc) == req[r].pc = pc

Goto(r, pc) == req' = [req EXCEPT ![r].pc = pc]

-----------------------------------------------------------------------------
\* Requests of the HTTP server.  The context of one that arrives is a child of
\* the base context, which serve cancels when the graceful period is over.

Arrive(r) ==
    /\ At(r, "none") /\ r \in HTTP /\ http \in {"serving", "shutdown"}
    /\ req' = [req EXCEPT ![r] = [None EXCEPT !.pc = "arrived"]]
    /\ UNCHANGED <<active, waiting, slots, drain, servers>>

\* The drain admits a request, or aborts it without a response.
Enter(r) ==
    /\ At(r, "arrived")
    /\ IF drain.stopping
       THEN req' = [req EXCEPT ![r] = None] /\ UNCHANGED drain
       ELSE Goto(r, "entered") /\ drain' = [drain EXCEPT !.active = @ + 1]
    /\ UNCHANGED <<active, waiting, slots, servers>>

\* The deferred finish: the last handler out reports that the drain is done.
Finish(r) ==
    /\ At(r, "leaving") /\ r \in HTTP
    /\ req' = [req EXCEPT ![r] = None]
    /\ drain' = [drain EXCEPT !.active = @ - 1,
                              !.done = IF drain.stopping /\ drain.active = 1 THEN @ + 1 ELSE @]
    /\ UNCHANGED <<active, waiting, slots, servers>>

-----------------------------------------------------------------------------
\* Connections of the SSH server.  A connection keeps its slot until it is
\* closed, and executes one command of one session channel.

Accept(r) ==
    /\ At(r, "none") /\ Kind[r] = "ssh" /\ ssh = "serving" /\ slots < Slots
    /\ slots' = slots + 1
    /\ req' = [req EXCEPT ![r] = [None EXCEPT !.pc = "connected", !.cancelled = ctx = "done"]]
    /\ UNCHANGED <<active, waiting, drain, servers>>

\* NewServerConn, the first channel of type session and its first exec request;
\* other channels and other requests are refused and change nothing.
Exec(r) ==
    /\ At(r, "connected")
    /\ Goto(r, "entered")
    /\ UNCHANGED <<active, waiting, slots, drain, servers>>

\* The connection ends: closed by its client, by its deadline or by its context.
Disconnect(r) ==
    /\ Kind[r] = "ssh" /\ req[r].pc \in {"connected", "leaving"}
    /\ req' = [req EXCEPT ![r] = None]
    /\ slots' = slots - 1
    /\ UNCHANGED <<active, waiting, drain, servers>>

-----------------------------------------------------------------------------
\* The gate.  acquire reads the context before and after it takes a token.

CheckContext(r) ==
    /\ At(r, "entered") /\ Kind[r] # "control"
    /\ Goto(r, IF req[r].cancelled THEN "leaving" ELSE "trying")
    /\ UNCHANGED <<active, waiting, slots, drain, servers>>

TakeFree(r) ==
    /\ At(r, "trying")
    /\ IF active[Gate(r)] < Active[Gate(r)]
       THEN Goto(r, "took") /\ active' = [active EXCEPT ![Gate(r)] = @ + 1]
       ELSE Goto(r, "full") /\ UNCHANGED active
    /\ UNCHANGED <<waiting, slots, drain, servers>>

CheckTaken(r) ==
    /\ At(r, "took")
    /\ IF req[r].cancelled
       THEN Goto(r, "leaving") /\ active' = [active EXCEPT ![Gate(r)] = @ - 1]
       ELSE Goto(r, "work") /\ UNCHANGED active
    /\ UNCHANGED <<waiting, slots, drain, servers>>

\* The wait has a deadline of its own.  Without room for it the service is busy.
Queue(r) ==
    /\ At(r, "full")
    /\ IF waiting[Gate(r)] < Queued[Gate(r)]
       THEN Goto(r, "queued") /\ waiting' = [waiting EXCEPT ![Gate(r)] = @ + 1]
       ELSE Goto(r, "leaving") /\ UNCHANGED waiting
    /\ UNCHANGED <<active, slots, drain, servers>>

TakeQueued(r) ==
    /\ At(r, "queued") /\ active[Gate(r)] < Active[Gate(r)]
    /\ Goto(r, "woken")
    /\ active' = [active EXCEPT ![Gate(r)] = @ + 1]
    /\ UNCHANGED <<waiting, slots, drain, servers>>

GaveUp(r) == req[r].cancelled \/ req[r].expired

\* Mutant: a request that gave up keeps the slot it was just given.
CheckWokenKeeps(r) ==
    /\ At(r, "woken")
    /\ waiting' = [waiting EXCEPT ![Gate(r)] = @ - 1]
    /\ Goto(r, IF GaveUp(r) THEN "leaving" ELSE "work") /\ UNCHANGED active
    /\ UNCHANGED <<slots, drain, servers>>

\* Mutant: the contexts are not read again.
CheckWokenNot(r) ==
    /\ At(r, "woken")
    /\ waiting' = [waiting EXCEPT ![Gate(r)] = @ - 1]
    /\ Goto(r, "work") /\ UNCHANGED active
    /\ UNCHANGED <<slots, drain, servers>>

CheckWoken(r) ==
    /\ At(r, "woken")
    /\ waiting' = [waiting EXCEPT ![Gate(r)] = @ - 1]
    /\ IF GaveUp(r)
       THEN Goto(r, "leaving") /\ active' = [active EXCEPT ![Gate(r)] = @ - 1]
       ELSE Goto(r, "work") /\ UNCHANGED active
    /\ UNCHANGED <<slots, drain, servers>>

\* Mutant: the queue's own deadline is not waited for.
QueueDoneCancelled(r) ==
    /\ At(r, "queued") /\ req[r].cancelled
    /\ Goto(r, "leaving")
    /\ waiting' = [waiting EXCEPT ![Gate(r)] = @ - 1]
    /\ UNCHANGED <<active, slots, drain, servers>>

QueueDone(r) ==
    /\ At(r, "queued") /\ GaveUp(r)
    /\ Goto(r, "leaving")
    /\ waiting' = [waiting EXCEPT ![Gate(r)] = @ - 1]
    /\ UNCHANGED <<active, slots, drain, servers>>

Gated(r) ==
    \/ CheckContext(r) \/ TakeFree(r) \/ CheckTaken(r)
    \/ Queue(r) \/ TakeQueued(r) \/ CheckWoken(r) \/ QueueDone(r)

\* ServeHTTP of Git: a listing of references goes through its own gate.
GitAcquire(r) == Kind[r] \in {"git", "refs"} /\ Gated(r)

\* ServeSSH shares the gate of transfers.
SSHAcquire(r) == Kind[r] = "ssh" /\ Gated(r)

LFSAcquire(r) == Kind[r] = "lfs" /\ Gated(r)

\* Reads of the browser do not wait: a full gate refuses them.
BrowserBusy(r) ==
    /\ At(r, "full") /\ Goto(r, "leaving")
    /\ UNCHANGED <<active, waiting, slots, drain, servers>>

BrowserAcquire(r) ==
    /\ Kind[r] = "browser"
    /\ CheckContext(r) \/ TakeFree(r) \/ CheckTaken(r) \/ BrowserBusy(r)

\* Batches and verifications of LFS: a non-blocking send, and no look at the context.
ControlAcquire(r) ==
    /\ At(r, "entered") /\ Kind[r] = "control"
    /\ IF active["control"] < Active["control"]
       THEN Goto(r, "work") /\ active' = [active EXCEPT !["control"] = @ + 1]
       ELSE Goto(r, "leaving") /\ UNCHANGED active
    /\ UNCHANGED <<waiting, slots, drain, servers>>

\* The work ends, with or without success, and the deferred release runs.
EndWork(r) ==
    /\ At(r, "work")
    /\ Goto(r, "leaving")
    /\ active' = [active EXCEPT ![Gate(r)] = @ - 1]
    /\ UNCHANGED <<waiting, slots, drain, servers>>

-----------------------------------------------------------------------------
\* What ends a context: its client goes away, its deadline passes.

Cancel(r) ==
    /\ ~ At(r, "none") /\ ~ req[r].cancelled
    /\ req' = [req EXCEPT ![r].cancelled = TRUE]
    /\ UNCHANGED <<active, waiting, slots, drain, servers>>

QueueTimeout(r) ==
    /\ req[r].pc \in {"queued", "woken"} /\ ~ req[r].expired
    /\ req' = [req EXCEPT ![r].expired = TRUE]
    /\ UNCHANGED <<active, waiting, slots, drain, servers>>

-----------------------------------------------------------------------------
\* The end of the process.

Cancelled(R) == [r \in Request |->
    IF r \in R /\ ~ At(r, "none") THEN [req[r] EXCEPT !.cancelled = TRUE] ELSE req[r]]

\* The context of app.Run ends by a signal; contexts of SSH sessions end with it.
Signal ==
    /\ ctx = "live"
    /\ ctx' = "done"
    /\ req' = Cancelled(Request \ HTTP)
    /\ UNCHANGED <<active, waiting, slots, drain, http, ssh, abandoned, cache>>

\* serve leaves its select, by the context or because the listener failed.
\* requestDrain.stop seals admission before anything is waited for.
Stop ==
    /\ http = "serving"
    /\ http' = "shutdown"
    /\ drain' = [drain EXCEPT !.stopping = TRUE, !.done = IF drain.active = 0 THEN @ + 1 ELSE @]
    /\ UNCHANGED <<req, active, waiting, slots, ssh, ctx, abandoned, cache>>

\* http.Server.Shutdown: until no connection is busy, or for 30 seconds.
Idle == \A r \in HTTP : At(r, "none")

\* Then serve cancels the requests and closes the connections.
Shutdown(late) ==
    /\ http = "shutdown"
    /\ Idle \/ late
    /\ http' = "cleanup"
    /\ req' = Cancelled(HTTP)
    /\ UNCHANGED <<active, waiting, slots, drain, ssh, ctx, abandoned, cache>>

\* requestDrain.wait: the drain is done, or 60 seconds have passed; a handler
\* that left at the last moment is looked at again under the mutex.
Joined ==
    /\ http = "cleanup" /\ drain.done > 0
    /\ http' = "joined"
    /\ UNCHANGED <<req, active, waiting, slots, drain, ssh, ctx, abandoned, cache>>

CleanupTimesOut ==
    /\ http = "cleanup"
    /\ http' = "joined"
    /\ abandoned' = (drain.active > 0)
    /\ UNCHANGED <<req, active, waiting, slots, drain, ssh, ctx, cache>>

\* Serve leaves its loop when Accept fails, which it does once the context is
\* done; its deferred cancel reaches the sessions.
SSHStop ==
    /\ ssh = "serving"
    /\ ssh' = "joining"
    /\ req' = Cancelled(Request \ HTTP)
    /\ UNCHANGED <<active, waiting, slots, drain, http, ctx, abandoned, cache>>

\* workers.Wait has no limit of its own.
SSHJoined ==
    /\ ssh = "joining" /\ \A r \in Request \ HTTP : At(r, "none")
    /\ ssh' = "joined"
    /\ UNCHANGED <<req, active, waiting, slots, drain, http, ctx, abandoned, cache>>

\* Mutant: a server that fails does not stop the other.
FirstResultIgnored == http = "joined" /\ ssh = "joined" /\ Signal

\* The first server to return cancels the context of the other.
FirstResult ==
    /\ http = "joined" \/ ssh = "joined"
    /\ Signal

\* App.Close, deferred by Run.
Close ==
    /\ http = "joined" /\ ssh = "joined" /\ ctx = "done" /\ cache = "open"
    /\ cache' = "closed"
    /\ UNCHANGED <<req, active, waiting, slots, drain, http, ssh, ctx, abandoned>>

-----------------------------------------------------------------------------
Acquire(r) == GitAcquire(r) \/ SSHAcquire(r) \/ LFSAcquire(r) \/ BrowserAcquire(r) \/ ControlAcquire(r)

Next ==
    \/ \E r \in Request :
        \/ Arrive(r) \/ Enter(r) \/ Finish(r) \/ Accept(r) \/ Exec(r) \/ Disconnect(r)
        \/ Acquire(r) \/ EndWork(r) \/ Cancel(r) \/ QueueTimeout(r)
    \/ Signal \/ Stop \/ \E late \in BOOLEAN : Shutdown(late)
    \/ Joined \/ CleanupTimesOut \/ SSHStop \/ SSHJoined \/ FirstResult \/ Close

Spec == Init /\ [][Next]_vars

\* Goroutines are scheduled, timers fire, and every handler has a deadline that
\* interrupts its work.  A listener ends when its context is done, and need not
\* end before; nothing obliges a client to send or a signal to come.
Fairness ==
    /\ \A r \in Request :
        /\ WF_vars(Enter(r) \/ Acquire(r) \/ EndWork(r) \/ Finish(r))
        /\ WF_vars(Disconnect(r)) /\ WF_vars(QueueTimeout(r))
    /\ WF_vars((ctx = "done" /\ Stop) \/ Shutdown(TRUE) \/ Joined \/ CleanupTimesOut)
    /\ WF_vars((ctx = "done" /\ SSHStop) \/ SSHJoined)
    /\ WF_vars(FirstResult \/ Close)

-----------------------------------------------------------------------------
Holds == {"took", "woken", "work"}

Waits == {"queued", "woken"}

Inside == {"entered", "trying", "took", "full", "queued", "woken", "work", "leaving"}

Holders(g) == {r \in Request : Gate(r) = g /\ req[r].pc \in Holds}

Waiters(g) == {r \in Request : Gate(r) = g /\ req[r].pc \in Waits}

Connections == {r \in Request \ HTTP : ~ At(r, "none")}

Handlers == {r \in HTTP : req[r].pc \in Inside}

\* Every variable stays within its type, and no channel holds more than its
\* capacity.
TypeOK ==
    /\ req \in [Request -> [pc : Inside \cup {"none", "arrived", "connected"},
                            cancelled : BOOLEAN, expired : BOOLEAN]]
    /\ active \in [Gates -> Nat] /\ waiting \in [Gates -> Nat]
    /\ \A g \in Gates : active[g] <= Active[g] /\ waiting[g] <= Queued[g]
    /\ slots \in 0 .. Slots
    /\ drain \in [stopping : BOOLEAN, active : 0 .. Cardinality(Request), done : Nat]
    /\ http \in {"serving", "shutdown", "cleanup", "joined"}
    /\ ssh \in {"serving", "joining", "joined"}
    /\ ctx \in {"live", "done"} /\ abandoned \in BOOLEAN /\ cache \in {"open", "closed"}

\* No token is lost or freed twice: the channels of a gate hold one token for
\* each request that works or waits, whichever of the slot, the queue's
\* timeout and the cancellation came first.  A lost token would refuse work
\* for ever; a token freed twice would block the one that frees it.
TokensExact ==
    /\ \A g \in Gates :
        /\ active[g] = Cardinality(Holders(g))
        /\ waiting[g] = Cardinality(Waiters(g))
    /\ slots = Cardinality(Connections)

\* The drain's channel is closed at most once (a second close is a panic), and
\* it is closed exactly when admission is sealed and the last handler is out,
\* whichever of stop and finish came last.
DoneOnce ==
    drain.done = IF drain.stopping /\ Handlers = {} THEN 1 ELSE 0

\* The cache is closed only when no handler is left that could use it: SSH
\* workers are always joined, HTTP handlers unless the cleanup window passed
\* and the process reports it.
CacheOutlivesWorkers ==
    cache = "closed" =>
        \A r \in Request : req[r].pc \in Inside => r \in HTTP /\ abandoned

\* What each stage of the shutdown has left behind it.
Stages ==
    /\ drain.active = Cardinality(Handlers)
    /\ http # "serving" <=> drain.stopping
    /\ http = "joined" /\ ~ abandoned => Handlers = {}
    /\ abandoned => http = "joined"
    /\ ssh = "joined" => Connections = {}
    /\ cache = "closed" => http = "joined" /\ ssh = "joined"
    /\ \A r \in Request :
        /\ At(r, "arrived") => r \in HTTP
        /\ At(r, "connected") => r \notin HTTP
        /\ r \in HTTP /\ http \in {"cleanup", "joined"} /\ ~ At(r, "none") => req[r].cancelled

\* Slots are neither lost nor given twice, the shutdown is announced once, and
\* the cache is closed last, as every stage of the shutdown can rely on the one
\* before it (admission.acquire, App.Run, Server.Run).
ServingSafe == TypeOK /\ TokensExact /\ DoneOnce /\ CacheOutlivesWorkers /\ Stages

\* After the graceful period no HTTP request that waited for a slot starts its
\* work, although the slots of those that are interrupted become free.
NothingStartsLate ==
    [][\A r \in HTTP : http \in {"cleanup", "joined"} /\ Kind[r] # "control"
                       /\ ~ At(r, "work") => req'[r].pc # "work"]_vars

\* Once a signal came, or either server failed, the whole process stops.
Stops == (ctx = "done" \/ http # "serving" \/ ssh # "serving") ~> cache = "closed"

\* Request r does not wait in a queue for ever, even if others are always faster.
QueueEnds(r) == At(r, "queued") ~> ~ At(r, "queued")

=============================================================================
