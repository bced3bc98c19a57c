------------------------------ MODULE Routing ------------------------------
(***************************************************************************)
(* How a request finds the shard that owns its namespace.  A client may    *)
(* connect to any instance.  Over HTTP the instance serves what it owns    *)
(* and proxies everything else, marked, to the owner; over SSH it opens a  *)
(* connection of its own to the owner.  The serving instance in turn asks  *)
(* the shard that owns the user whether the token or the key is good, once *)
(* on admission and once more before a write is published.                 *)
(*                                                                         *)
(* A chain is the stack of frames one request has opened so far, a frame   *)
(* being one handler running in one instance.  Only the top frame runs;    *)
(* the ones below wait for its answer.  When a connection breaks, the part *)
(* above it lives on as a chain of its own until it notices.               *)
(*                                                                         *)
(* Every instance computes owners from its own shard count.  The count in  *)
(* the environment must match the identity file that is mounted beside it; *)
(* the model lets an administrator change the file of one instance, so     *)
(* that instances may disagree.                                            *)
(*                                                                         *)
(* Abstracted: paths and hosts are the name or shard they select, a name   *)
(* is represented by its hash, whether a credential is good is free, and   *)
(* deadlines are failures that may come at any time.                       *)
(***************************************************************************)
EXTENDS Integers, Sequences, FiniteSets

CONSTANTS Chain,        \* identifiers of requests and of their orphaned parts
          Shard,        \* shard numbers, 0 .. n - 1
          Name,         \* canonical names of namespaces and users
          Hash,         \* the digest of each name
          Slots,        \* connections an SSH server holds
          MaxRestarts,  \* bound on starts after the first
          Files,        \* shard counts an administrator may mount
          Protocols     \* the protocols clients use

ASSUME RoutingAssumption ==
    /\ IsFiniteSet(Shard) /\ Shard = 0 .. Cardinality(Shard) - 1 /\ Shard # {}
    /\ IsFiniteSet(Chain)
    /\ Hash \in [Name -> Nat]
    /\ Slots \in Nat \ {0} /\ MaxRestarts \in Nat
    /\ Files \subseteq 1 .. Cardinality(Shard)
    /\ Protocols \subseteq {"http", "ssh"}

VARIABLES file,     \* the shard count in the identity file of an instance
          count,    \* the shard count it runs with, 0 while it is down
          starts,   \* restarts so far
          chain     \* the requests

vars == <<file, count, starts, chain>>

None == "none"   \* the user of a session

NoShard == -1    \* what a path that cannot be routed resolves to

NoRequest == [frames |-> <<>>, target |-> [kind |-> "bad"], user |-> None, write |-> FALSE]

Counts == 1 .. Cardinality(Shard)

Init ==
    /\ \E n \in Files : file = [s \in Shard |-> n]
    /\ count = [s \in Shard |-> 0]
    /\ starts = 0
    /\ chain = [c \in Chain |-> NoRequest]

-----------------------------------------------------------------------------
(* Owners. *)

\* The owner of a name, as instance s sees it.
Owner(s, n) == Hash[n] % count[s]

\* What a request asks for: a namespace, an explicit shard, whatever instance
\* it reached, the return of a login that carries its owner, or nothing sane.
Named(n) == [kind |-> "name", name |-> n]

Targets ==
    {Named(n) : n \in Name}
    \cup {[kind |-> "shard", shard |-> s] : s \in Shard}
    \cup {[kind |-> "local"], [kind |-> "bad"]}
    \cup {[kind |-> "state", name |-> n, owner |-> Owner(s, n)] :
              n \in Name, s \in {r \in Shard : count[r] # 0}}

\* The listing of a shard's spaces names an existing shard, and what has no
\* owner is served where it arrives.
ResolveAPI(s, t) ==
    IF t.kind = "local" THEN s
    ELSE IF t.shard < count[s] THEN t.shard ELSE NoShard

\* A login returns to the owner that it was started for.
Resolve(s, t) ==
    CASE t.kind \in {"shard", "local"} -> ResolveAPI(s, t)
      [] t.kind = "state" -> IF t.owner = Owner(s, t.name) THEN t.owner ELSE NoShard
      [] t.kind = "name"  -> Owner(s, t.name)
      [] t.kind = "bad"   -> NoShard

\* The instance behind a shard number.
Destination(k) == k

-----------------------------------------------------------------------------
(* Chains. *)

Frame(s, role, marked, step) ==
    [at |-> s, role |-> role, marked |-> marked, step |-> step, phase |-> 0]

Secure(f) == f.role \in {"user", "git", "key"}

\* Open SSH connections of an instance.
Held(s) == {h \in Chain \X (1 .. 4) :
               LET frames == chain[h[1]].frames
               IN  /\ h[2] <= Len(frames)
                   /\ frames[h[2]].at = s /\ Secure(frames[h[2]])}

Idle(c) == chain[c].frames = <<>>

Top(c) == chain[c].frames[Len(chain[c].frames)]

Running(c, role, step) == ~Idle(c) /\ Top(c).role = role /\ Top(c).step = step

Below(c) == SubSeq(chain[c].frames, 1, Len(chain[c].frames) - 1)

\* Replace the top frame.
Continue(c, f) ==
    /\ chain' = [chain EXCEPT ![c].frames = Append(Below(c), f)]
    /\ UNCHANGED <<file, count, starts>>

\* The frame after its credential was found good: a connection is open, a
\* request is served, a write is published.
Admitted(f) ==
    CASE f.phase = 0 -> [f EXCEPT !.step = "start", !.phase = 1]
      [] f.phase = 1 -> [f EXCEPT !.step = "serve"]
      [] f.phase = 2 -> [f EXCEPT !.step = "publish"]

\* What the frame below does with an answer: a proxy passes it on, and whoever
\* asked an authority goes on only if the credential is good.
Resumed(f, answer) ==
    CASE f.step = "wait"                      -> [f EXCEPT !.step = answer]
      [] f.step = "asked" /\ answer = "ok"    -> Admitted(f)
      [] f.step = "asked" /\ answer # "ok"    -> [f EXCEPT !.step = "refused"]

Answers == {"ok", "refused", "mismatch", "failed"}

\* The top frame answers, and its handler is over.
Answer(c, answer) ==
    /\ UNCHANGED <<file, count, starts>>
    /\ LET k == Len(chain[c].frames) - 1
       IN  IF k = 0
           THEN chain' = [chain EXCEPT ![c] = NoRequest]
           ELSE chain' = [chain EXCEPT
                    ![c].frames = Append(SubSeq(Below(c), 1, k - 1), Resumed(Below(c)[k], answer))]

\* Mutant: a server that is full lets its callers wait.
OpenWaits(c, f, next) ==
    IF count[next.at] = 0
    THEN Answer(c, "failed")
    ELSE /\ Secure(next) => Cardinality(Held(next.at)) < Slots
         /\ chain' = [chain EXCEPT ![c].frames = Append(Append(Below(c), f), next)]
         /\ UNCHANGED <<file, count, starts>>

\* The top frame opens a connection and waits as frame f; an instance that is
\* down does not answer, and an SSH server without a slot closes at once.
Open(c, f, next) ==
    IF count[next.at] = 0 \/ (Secure(next) /\ Cardinality(Held(next.at)) >= Slots)
    THEN Answer(c, "failed")
    ELSE /\ chain' = [chain EXCEPT ![c].frames = Append(Append(Below(c), f), next)]
         /\ UNCHANGED <<file, count, starts>>

-----------------------------------------------------------------------------
(* Clients. *)

\* A client sends an HTTP request to an instance.  A header that marks it as
\* forwarded already is taken at its word.
Request(c, s) ==
    /\ "http" \in Protocols
    /\ Idle(c) /\ count[s] # 0
    /\ \E t \in Targets, u \in Name \cup {None}, w \in BOOLEAN, marked \in BOOLEAN :
           /\ u # None => t.kind = "name"
           /\ w => t.kind = "name"
           /\ chain' = [chain EXCEPT ![c] =
                 [frames |-> <<Frame(s, "web", marked, "start")>>, target |-> t,
                  user |-> u, write |-> w]]
    /\ UNCHANGED <<file, count, starts>>

\* A client opens an SSH connection and offers the key of a user.
Connect(c, s) ==
    /\ "ssh" \in Protocols
    /\ Idle(c) /\ count[s] # 0 /\ Cardinality(Held(s)) < Slots
    /\ \E n, u \in Name, w \in BOOLEAN :
           chain' = [chain EXCEPT ![c] =
                 [frames |-> <<Frame(s, "user", FALSE, "check")>>, target |-> Named(n),
                  user |-> u, write |-> w]]
    /\ UNCHANGED <<file, count, starts>>

-----------------------------------------------------------------------------
(* HTTP. *)

\* The request goes on to its owner, marked, and its answer comes back.
Forward(c, f, owner) ==
    Open(c, [f EXCEPT !.step = "wait"], Frame(Destination(owner), f.role, TRUE, "start"))

\* Mutant: the marker is not looked at.
RouteAnyway(c, role, target, local) ==
    /\ Running(c, role, "start")
    /\ LET f == Top(c)
           owner == Resolve(f.at, target)
       IN  CASE owner = NoShard -> Answer(c, "refused")
             [] owner = f.at -> Continue(c, local)
             [] OTHER -> Forward(c, f, owner)

\* The proxy in front of every handler.
Route(c, role, target, local) ==
    /\ Running(c, role, "start")
    /\ LET f == Top(c)
           owner == Resolve(f.at, target)
       IN  CASE owner = NoShard           -> Answer(c, "refused")
             [] owner \notin {NoShard, f.at} /\ f.marked -> Answer(c, "mismatch")
             [] owner = f.at              -> Continue(c, local)
             [] OTHER -> Forward(c, f, owner)

\* The owner of a namespace checks a credential first; what else it serves
\* needs its own session cookie only.
RouteWeb(c) ==
    Route(c, "web", chain[c].target,
          [Top(c) EXCEPT !.phase = 1, !.step = "check"])

\* A request for a user's authority is routed as any other.
RouteCheck(c) ==
    Route(c, "check", Named(chain[c].user), [Top(c) EXCEPT !.step = "verify"])

\* The authority looks the token up in its own bucket, and asks nobody else.
VerifyHere(c) ==
    /\ Running(c, "check", "verify") \/ Running(c, "key", "verify")
    /\ \E answer \in {"ok", "refused"} : Answer(c, answer)

-----------------------------------------------------------------------------
(* Credentials. *)

\* The authority of a token is asked over HTTP, without the marker of a proxy.
AskHTTP(c, f, owner) ==
    /\ ~Secure(f)
    /\ Open(c, [f EXCEPT !.step = "asked"], Frame(Destination(owner), "check", FALSE, "start"))

\* The authority of a key is asked on a connection between the servers.
AskSSH(c, f, owner) ==
    /\ Secure(f)
    /\ Open(c, [f EXCEPT !.step = "asked"], Frame(Destination(owner), "key", FALSE, "start"))

\* A session is checked where it is used, a token or a key by the shard that
\* owns its user.
Check(c) ==
    /\ ~Idle(c) /\ Top(c).step = "check"
    /\ LET f == Top(c)
           u == chain[c].user
       IN  IF u = None \/ Owner(f.at, u) = f.at
           THEN Continue(c, Admitted(f)) \/ Answer(c, "refused")
           ELSE AskHTTP(c, f, Owner(f.at, u)) \/ AskSSH(c, f, Owner(f.at, u))

\* The work itself; a write asks for its credential again before it publishes.
Serve(c) ==
    /\ ~Idle(c) /\ Top(c).step = "serve"
    /\ IF chain[c].write
       THEN Continue(c, [Top(c) EXCEPT !.step = "check", !.phase = 2])
       ELSE Answer(c, "ok")

Publish(c) == ~Idle(c) /\ Top(c).step = "publish" /\ Answer(c, "ok")

\* An answer travels down the chain.
PassOn(c) == ~Idle(c) /\ Top(c).step \in Answers /\ Answer(c, Top(c).step)

-----------------------------------------------------------------------------
(* SSH. *)

\* The command of a client: served here, or forwarded to the owner.
ExecuteUser(c) ==
    /\ Running(c, "user", "start")
    /\ LET f == Top(c)
           owner == Owner(f.at, chain[c].target.name)
       IN  IF owner = f.at
           THEN Continue(c, [f EXCEPT !.step = "check"])
           ELSE Open(c, [f EXCEPT !.step = "wait"],
                     Frame(Destination(owner), "git", FALSE, "start"))

\* A delegated command ends here: it is served or it is refused.
ExecuteGit(c) ==
    /\ Running(c, "git", "start")
    /\ IF Owner(Top(c).at, chain[c].target.name) = Top(c).at
       THEN Continue(c, [Top(c) EXCEPT !.step = "check", !.phase = 1])
       ELSE Answer(c, "mismatch")

\* So does the check of a key.
ExecuteKey(c) ==
    /\ Running(c, "key", "start")
    /\ IF Owner(Top(c).at, chain[c].user) = Top(c).at
       THEN Continue(c, [Top(c) EXCEPT !.step = "verify"])
       ELSE Answer(c, "mismatch")

-----------------------------------------------------------------------------
(* Failures, and the life of an instance. *)

\* A deadline passes, storage fails, a gate refuses, a handler panics.
Fail(c) == ~Idle(c) /\ Top(c).step \notin Answers /\ Answer(c, "failed")

\* A connection breaks.  The caller takes it for a failure; the part above
\* goes on by itself until it tries to answer.
Break(c, d) ==
    /\ Idle(d)
    /\ \E i \in 1 .. Len(chain[c].frames) - 1 :
          chain' = [chain EXCEPT
             ![c].frames = Append(SubSeq(@, 1, i - 1), Resumed(@[i], "failed")),
             ![d] = [chain[c] EXCEPT !.frames = SubSeq(@, i + 1, Len(@))]]
    /\ UNCHANGED <<file, count, starts>>

\* Mutant: the identity file is not compared with the environment.
ValidTrusting(s, n) == s < n

\* A process starts only with the count of its identity file, and only if its
\* own shard exists.
Valid(s, n) == n = file[s] /\ s < n

Start(s) ==
    /\ count[s] = 0 /\ starts < MaxRestarts + Cardinality(Shard)
    /\ \E n \in Counts : Valid(s, n) /\ count' = [count EXCEPT ![s] = n]
    /\ starts' = starts + 1
    /\ UNCHANGED <<file, chain>>

\* A process ends when its handlers have; a crash breaks and fails them first.
Stop(s) ==
    /\ count[s] # 0 /\ starts < MaxRestarts + Cardinality(Shard)
    /\ \A c \in Chain : \A i \in 1 .. Len(chain[c].frames) : chain[c].frames[i].at # s
    /\ count' = [count EXCEPT ![s] = 0]
    /\ UNCHANGED <<file, starts, chain>>

\* An administrator mounts another identity file into a stopped instance.
Mount(s) ==
    /\ count[s] = 0
    /\ \E n \in Files : n # file[s] /\ file' = [file EXCEPT ![s] = n]
    /\ UNCHANGED <<count, starts, chain>>

-----------------------------------------------------------------------------
Step(c) ==
    \/ RouteWeb(c) \/ RouteCheck(c) \/ VerifyHere(c) \/ Check(c) \/ Serve(c)
    \/ Publish(c) \/ PassOn(c) \/ ExecuteUser(c) \/ ExecuteGit(c) \/ ExecuteKey(c)

Next ==
    \/ \E c \in Chain, s \in Shard : Request(c, s) \/ Connect(c, s)
    \/ \E c \in Chain : Step(c) \/ Fail(c)
    \/ \E c, d \in Chain : Break(c, d)
    \/ \E s \in Shard : Start(s) \/ Stop(s) \/ Mount(s)

Spec == Init /\ [][Next]_vars

-----------------------------------------------------------------------------
Frames ==
    [at : Shard, role : {"web", "check", "user", "git", "key"}, marked : BOOLEAN,
     step : {"start", "check", "asked", "serve", "publish", "wait", "verify"} \cup Answers,
     phase : 0 .. 2]

Requests ==
    [frames : Seq(Frames),
     target : [kind : {"name"}, name : Name] \cup [kind : {"shard"}, shard : Shard]
              \cup [kind : {"local", "bad"}]
              \cup [kind : {"state"}, name : Name, owner : Shard],
     user : Name \cup {None}, write : BOOLEAN]

TypeOK ==
    /\ file \in [Shard -> Files] /\ count \in [Shard -> Counts \cup {0}]
    /\ starts \in 0 .. MaxRestarts + Cardinality(Shard)
    /\ chain \in [Chain -> Requests]
    /\ \A s \in Shard : Cardinality(Held(s)) <= Slots

\* Instances run with the counts of their files, which include them.
Valids == \A s \in Shard : count[s] # 0 => count[s] = file[s] /\ s < count[s]

\* What the handler in frame f of request r has established: it belongs to an
\* instance that runs, works on what it owns and vouches for whom it owns.
Established(r, f) ==
    /\ count[f.at] # 0
    /\ Secure(f) => r.target.kind = "name"
    /\ f.role \in {"check", "key"} => r.user \in Name
    /\ f.step = "verify" => f.role \in {"check", "key"} /\ Owner(f.at, r.user) = f.at
    /\ f.step \in {"check", "asked", "serve", "publish"} =>
          /\ f.role \in {"web", "user", "git"}
          /\ f.phase = 0 => f.role = "user" /\ f.step \in {"check", "asked"}
          /\ f.phase # 0 /\ r.target.kind = "name" => Owner(f.at, r.target.name) = f.at

\* What a frame of request r is asked for.
Sought(r, f) == IF f.role \in {"check", "key"} THEN Named(r.user) ELSE r.target

\* A caller waits for the frame it opened, and sent it where it saw the owner.
Called(r, f, g) ==
    /\ f.step \in {"wait", "asked"}
    /\ g.step = "start" => Resolve(f.at, Sought(r, g)) = g.at

\* How far from the client a handler is.
Rank(f) == CASE f.role \in {"web", "user"}  -> 0
             [] f.role = "git"              -> 1
             [] f.role \in {"check", "key"} -> 2

\* A frame comes further from the client than the ones below it, or is what
\* one of them proxied.
Follows(f, g) ==
    /\ Secure(f) <=> Secure(g)
    /\ \/ Rank(f) < Rank(g)
       \/ f.role = g.role /\ f.role \in {"web", "check"} /\ f.step = "wait" /\ ~f.marked /\ g.marked

Orderly(r) ==
    /\ \A i \in 1 .. Len(r.frames) : Established(r, r.frames[i])
    /\ \A i \in 1 .. Len(r.frames) - 1 : Called(r, r.frames[i], r.frames[i + 1])
    /\ \A i, j \in 1 .. Len(r.frames) : i < j => Follows(r.frames[i], r.frames[j])

\* However instances disagree about owners, a request is proxied at most once
\* and so is the question it asks about its credential; a delegated command
\* and the check of a key are never delegated again.  ("never delegate a second
\* time")
ShortChains ==
    \A c \in Chain : \A i, j \in 1 .. Len(chain[c].frames) :
        LET f == chain[c].frames[i]
            g == chain[c].frames[j]
        IN  i < j /\ f.role = g.role =>
                /\ f.role \in {"web", "check"} /\ f.step = "wait"
                /\ ~f.marked /\ g.marked

\* The instance that works on a namespace, or that vouches for a user, holds
\* itself to be the owner.
ServedByOwner ==
    \A c \in Chain : \A i \in 1 .. Len(chain[c].frames) :
        LET f == chain[c].frames[i]
        IN  /\ f.step \in {"serve", "publish"} /\ chain[c].target.kind = "name"
                  => Owner(f.at, chain[c].target.name) = f.at
            /\ f.step = "verify" => Owner(f.at, chain[c].user) = f.at

\* A request reaches, over one hop, an instance that holds itself responsible.
RoutedOnce ==
    /\ TypeOK /\ Valids /\ ShortChains /\ ServedByOwner
    /\ \A c \in Chain : Orderly(chain[c])

Working(c, n, s) ==
    /\ ~Idle(c) /\ chain[c].target = Named(n)
    /\ Top(c).at = s /\ Top(c).step \in {"serve", "publish"}

\* No two instances work on one namespace.
OneOwner ==
    \A c, d \in Chain, n \in Name, r, s \in Shard :
        Working(c, n, r) /\ Working(d, n, s) => r = s

\* No instance is sent what is not its own: neither a forwarded request
\* nor the check of a credential.
NeverMisrouted ==
    \A c \in Chain : \A i \in 2 .. Len(chain[c].frames) :
        LET f == chain[c].frames[i]
        IN  f.step = "start" => Resolve(f.at, Sought(chain[c], f)) = f.at

\* Both: while all identity files agree, one instance answers for a namespace,
\* whatever counts the environments of restarted instances hold (Start, Route).
OneAuthority ==
    (\A r, s \in Shard : file[r] = file[s]) => OneOwner /\ NeverMisrouted

\* No request ever waits for another: its running handler can go on without the
\* help of a deadline, even when instances disagree and every SSH slot is taken
\* by connections that need a slot elsewhere.
NobodyWaits == \A c \in Chain : ~Idle(c) => ENABLED Step(c)
=============================================================================
