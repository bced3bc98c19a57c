--------------------------- MODULE GroupMembership ---------------------------
(***************************************************************************)
(* Groups of one shard and the index by which users find them               *)
(* (internal/auth/namespace.go, spaces.go, app/space_index.go).             *)
(*                                                                          *)
(* A namespace is one object, claimed once by a user or a group, and        *)
(* changed by compare-and-swap.  A space candidate is an object that hints  *)
(* that a user may find something in a group; candidates are only added.    *)
(* The readiness marker states that the hints are complete.                 *)
(*                                                                          *)
(* Names are numbers, in the order of their keys.  A version is an ETag,    *)
(* hence the content.  A Put may fail, conflict without a reason, and, with *)
(* Faults, take effect although it reports an error or, once the S3 client  *)
(* has sent it again, a conflict.                                           *)
(***************************************************************************)
EXTENDS Integers, FiniteSets

CONSTANTS
    User,           \* user IDs
    Name,           \* names whose owner is this shard
    Role,           \* the roles that requests name
    None,           \* no role
    NoRecord,       \* there is no namespace object
    UserRecord,     \* the object of a user namespace
    Legacy,         \* the namespaces that old binaries left, without candidates
    Request,        \* concurrent requests to create or update a group
    Operator,       \* processes that prepare the index: start-up or backfill
    Reader,         \* the users that list their spaces, page by page
    MaxEntries,     \* maxGroupEntries
    Attempts,       \* how often updateGroup tries (8)
    PageSize,       \* spacePageSize, and the limit of a listing
    Indexed,        \* is the discovery mode "indexed", or "scan"?
    Faults          \* may processes crash and responses be lost?

Roster == [members : [User -> Role \cup {None}], invitations : [User -> Role \cup {None}]]

Record == Roster \cup {NoRecord, UserRecord}

ASSUME GroupAssumption ==
    /\ Name \subseteq Nat \ {0} /\ IsFiniteSet(Name)
    /\ IsFiniteSet(User) /\ Reader \subseteq User
    /\ "owner" \in Role /\ None \notin Role
    /\ NoRecord \notin Roster /\ UserRecord \notin Roster /\ NoRecord # UserRecord
    /\ Legacy \in [Name -> Record]
    /\ \A n \in Name : Legacy[n] \in Roster => \E u \in User : Legacy[n].members[u] = "owner"
    /\ {MaxEntries, Attempts, PageSize} \subseteq Nat \ {0}
    /\ Indexed \in BOOLEAN /\ Faults \in BOOLEAN

VARIABLES
    namespace,  \* auth/users/<name>.json
    candidate,  \* auth/space-index/v1/users/<user>/<name>.json
    ready,      \* auth/space-index/v1/ready.json
    req,        \* req[r]: a request and what it has in memory
    operator,   \* operator[o]: a preparation of the index
    reader      \* reader[u]: the listing of a user

vars == <<namespace, candidate, ready, req, operator, reader>>

-----------------------------------------------------------------------------
(* Records *)

In(roles) == {u \in User : roles[u] # None}

Participants(g) == In(g.members) \cup In(g.invitations)

\* The users that a namespace admits or invites; none unless it is a group.
Named(record) == IF record \in Roster THEN Participants(record) ELSE {}

\* The loops that count owners.
HasOwner(g) == \E u \in User : g.members[u] = "owner"

\* validateNamespace, for a group.
Valid(g) ==
    /\ Cardinality(In(g.members)) \in 1 .. MaxEntries
    /\ Cardinality(In(g.invitations)) <= MaxEntries
    /\ HasOwner(g)
    /\ In(g.members) \cap In(g.invitations) = {}

NewGroup(creator) ==
    [members     |-> [u \in User |-> IF u = creator THEN "owner" ELSE None],
     invitations |-> [u \in User |-> None]]

\* The changes that updateGroup knows; c is the call of a request.
Action == {"accept", "invite", "cancel", "set-role", "remove"}

\* The conditions under which updateGroup changes a record.
May(c, g) ==
    IF c.action = "accept"
    THEN /\ g.invitations[c.caller] # None
         /\ Cardinality(In(g.members)) < MaxEntries
    ELSE /\ g.members[c.caller] = "owner"
         /\ CASE c.action = "invite" ->
                    /\ c.role \in Role
                    /\ g.members[c.target] = None
                    /\ \/ Cardinality(In(g.invitations)) < MaxEntries
                       \/ g.invitations[c.target] # None
              [] c.action = "cancel"   -> g.invitations[c.target] # None
              [] c.action = "set-role" -> c.role \in Role /\ g.members[c.target] # None
              [] c.action = "remove"   -> g.members[c.target] # None

Changed(c, g) ==
    CASE c.action = "accept"   -> [g EXCEPT !.members[c.caller] = g.invitations[c.caller],
                                            !.invitations[c.caller] = None]
      [] c.action = "invite"   -> [g EXCEPT !.invitations[c.target] = c.role]
      [] c.action = "cancel"   -> [g EXCEPT !.invitations[c.target] = None]
      [] c.action = "set-role" -> [g EXCEPT !.members[c.target] = c.role]
      [] c.action = "remove"   -> [g EXCEPT !.members[c.target] = None]

\* Whose candidate precedes the grant.
Granted(c) == IF c.action = "invite" THEN c.target ELSE c.caller

-----------------------------------------------------------------------------
(* Requests: createGroup and updateGroup *)

Call ==
    [action : Action \cup {"create"}, name : Name, caller : User, target : User,
     role : Role \cup {None}]

\* version is the record that was loaded, next the one to be written.
Idle == [pc |-> "idle", tries |-> 0]

Busy ==
    [pc : {"load", "candidate", "write"}, call : Call, version : Record, next : Record,
     tries : 0 .. Attempts - 1]

End(r) == req' = [req EXCEPT ![r] = Idle]

Begin(r) ==
    /\ req[r].pc = "idle"
    /\ \E c \in Call :
          req' = [req EXCEPT ![r] =
              [pc      |-> IF c.action = "create" THEN "candidate" ELSE "load",
               call    |-> c,
               version |-> NoRecord,
               next    |-> IF c.action = "create" THEN NewGroup(c.caller) ELSE NoRecord,
               tries   |-> 0]]
    /\ UNCHANGED <<namespace, candidate, ready, operator, reader>>

\* Any call fails, the client goes away, or the process dies.
FailRequest(r) ==
    /\ req[r].pc # "idle"
    /\ End(r)
    /\ UNCHANGED <<namespace, candidate, ready, operator, reader>>

\* Every attempt loads the record again, and decides again.
Load(r) ==
    LET c == req[r].call
        g == namespace[c.name]
    IN  /\ req[r].pc = "load"
        /\ IF g \in Roster /\ May(c, g) /\ HasOwner(Changed(c, g))
           THEN req' = [req EXCEPT ![r].version = g,
                                   ![r].next = Changed(c, g),
                                   ![r].pc = IF c.action \in {"invite", "accept"}
                                             THEN "candidate" ELSE "write"]
           ELSE End(r)
        /\ UNCHANGED <<namespace, candidate, ready, operator, reader>>

\* Mutant: the grant is published without waiting for its candidate.
GrantFirst(r) ==
    /\ req[r].pc = "candidate"
    /\ req' = [req EXCEPT ![r].pc = "write"]
    /\ UNCHANGED <<namespace, candidate, ready, operator, reader>>

\* ensureSpaceCandidate, with its own retries and its Head.
EnsureSpaceCandidate(r) ==
    /\ req[r].pc = "candidate"
    /\ candidate' = candidate \cup {<<Granted(req[r].call), req[r].call.name>>}
    /\ req' = [req EXCEPT ![r].pc = "write"]
    /\ UNCHANGED <<namespace, ready, operator, reader>>

\* A conflict ends a creation, and lets an update start again.
Conflict(r) ==
    IF req[r].call.action = "create" \/ req[r].tries + 1 = Attempts
    THEN End(r)
    ELSE req' = [req EXCEPT ![r].pc = "load", ![r].tries = @ + 1,
                            ![r].version = NoRecord, ![r].next = NoRecord]

\* Listings keep which namespaces named their user all along (history only).
Put(n, record) ==
    /\ namespace' = [namespace EXCEPT ![n] = record]
    /\ reader' = [u \in Reader |->
           [reader[u] EXCEPT !.kept = {m \in @ : u \in Named(namespace'[m])}]]

\* Mutant: the write does not name the version that was loaded.
WriteBlind(r) ==
    /\ req[r].pc = "write"
    /\ namespace[req[r].call.name] # UserRecord
    /\ Put(req[r].call.name, req[r].next)
    /\ End(r)
    /\ UNCHANGED <<candidate, ready, operator>>

\* writeNamespace: a Put under If-Match, or If-None-Match for a new group.  A
\* conflict may have no reason, or be the answer to a Put that was sent again.
WriteNamespace(r) ==
    LET c == req[r].call
    IN  /\ req[r].pc = "write"
        /\ \/ /\ Valid(req[r].next)
              /\ namespace[c.name] = req[r].version
              /\ Put(c.name, req[r].next)
              /\ End(r) \/ (Faults /\ Conflict(r))
           \/ Valid(req[r].next) /\ Conflict(r) /\ UNCHANGED <<namespace, reader>>
           \/ ~ Valid(req[r].next) /\ End(r) /\ UNCHANGED <<namespace, reader>>
        /\ UNCHANGED <<candidate, ready, operator>>

\* Someone registers the name as a username (writeNamespace in completeLogin).
RegisterUser(n) ==
    /\ namespace[n] = NoRecord
    /\ Put(n, UserRecord)
    /\ UNCHANGED <<candidate, ready, req, operator>>

-----------------------------------------------------------------------------
(* ListPage: the first keys after a cursor, and a cursor if there are more. *)

Page(keys, after) ==
    LET rest == {n \in keys : n > after}
    IN  {n \in rest : Cardinality({m \in rest : m < n}) < PageSize}

First(S) == CHOOSE n \in S : \A m \in S : n <= m

Last(S) == CHOOSE n \in S : \A m \in S : m <= n

NextAfter(keys, after) ==
    IF {n \in keys : n > after} \subseteq Page(keys, after) THEN 0
    ELSE Last(Page(keys, after))

Claimed == {n \in Name : namespace[n] # NoRecord}

-----------------------------------------------------------------------------
(* Operators: InitializeSpaceIndex and BackfillSpaceIndex *)

Resting == [pc |-> "idle", page |-> {}, more |-> 0, name |-> 0, todo |-> {}]

Move(o, pc) == operator' = [operator EXCEPT ![o].pc = pc]

StartOperator(o) ==
    /\ operator[o].pc = "idle"
    /\ Move(o, "check") \/ Move(o, "head")
    /\ UNCHANGED <<namespace, candidate, ready, req, reader>>

FailOperator(o) ==
    /\ operator[o].pc # "idle"
    /\ operator' = [operator EXCEPT ![o] = Resting]
    /\ UNCHANGED <<namespace, candidate, ready, req, reader>>

\* Only an empty shard is made ready without a backfill.
CheckReady(o) ==
    /\ operator[o].pc = "check"
    /\ Move(o, IF ready THEN "idle" ELSE "survey")
    /\ UNCHANGED <<namespace, candidate, ready, req, reader>>

Survey(o) ==
    /\ operator[o].pc = "survey"
    /\ Move(o, IF Claimed = {} THEN "publish" ELSE "idle")
    /\ UNCHANGED <<namespace, candidate, ready, req, reader>>

\* A rebuild that fails must not leave an older marker behind.
HeadReady(o) ==
    /\ operator[o].pc = "head"
    /\ Move(o, IF ready THEN "invalidate" ELSE "list")
    /\ UNCHANGED <<namespace, candidate, ready, req, reader>>

Invalidate(o) ==
    /\ operator[o].pc = "invalidate"
    /\ ready' = FALSE
    /\ Move(o, IF ready THEN "list" ELSE "idle")
    /\ UNCHANGED <<namespace, candidate, req, reader>>

ListNamespaces(o) ==
    /\ operator[o].pc = "list"
    /\ operator' = [operator EXCEPT ![o].pc = "load",
                                    ![o].page = Page(Claimed, operator[o].more),
                                    ![o].more = NextAfter(Claimed, operator[o].more)]
    /\ UNCHANGED <<namespace, candidate, ready, req, reader>>

LoadGroup(o) ==
    LET n == First(operator[o].page)
    IN  /\ operator[o].pc = "load"
        /\ operator[o].page # {}
        /\ operator' = [operator EXCEPT ![o].pc = "hint", ![o].name = n, ![o].page = @ \ {n},
                                        ![o].todo = Named(namespace[n])]
        /\ UNCHANGED <<namespace, candidate, ready, req, reader>>

\* Mutant: the first candidate of a group ends the loop.
HintOne(o) ==
    /\ operator[o].pc = "hint"
    /\ \E u \in operator[o].todo :
          /\ candidate' = candidate \cup {<<u, operator[o].name>>}
          /\ operator' = [operator EXCEPT ![o].todo = {}]
    /\ UNCHANGED <<namespace, ready, req, reader>>

Hint(o) ==
    /\ operator[o].pc = "hint"
    /\ \E u \in operator[o].todo :
          /\ candidate' = candidate \cup {<<u, operator[o].name>>}
          /\ operator' = [operator EXCEPT ![o].todo = @ \ {u}]
    /\ UNCHANGED <<namespace, ready, req, reader>>

Hinted(o) ==
    /\ operator[o].pc = "hint"
    /\ operator[o].todo = {}
    /\ Move(o, "load")
    /\ UNCHANGED <<namespace, candidate, ready, req, reader>>

PageDone(o) ==
    /\ operator[o].pc = "load"
    /\ operator[o].page = {}
    /\ Move(o, IF operator[o].more = 0 THEN "publish" ELSE "list")
    /\ UNCHANGED <<namespace, candidate, ready, req, reader>>

\* publishSpaceIndexReady; a marker that exists already is as good.
PublishReady(o) ==
    /\ operator[o].pc = "publish"
    /\ ready' = TRUE
    /\ operator' = [operator EXCEPT ![o] = Resting]
    /\ UNCHANGED <<namespace, candidate, req, reader>>

Prepare(o) ==
    \/ StartOperator(o) \/ FailOperator(o) \/ CheckReady(o) \/ Survey(o) \/ HeadReady(o)
    \/ Invalidate(o) \/ ListNamespaces(o) \/ LoadGroup(o) \/ Hint(o) \/ Hinted(o)
    \/ PageDone(o) \/ PublishReady(o)

-----------------------------------------------------------------------------
(* Readers: listSpaces, one call for each page *)

Away == [pc |-> "idle", page |-> {}, more |-> 0, listed |-> {}, kept |-> {}]

\* The keys under the prefix that a user lists.
Keys(u) ==
    IF Indexed THEN {n \in Name : <<u, n>> \in candidate} ELSE Claimed

StartListing(u) ==
    /\ reader[u].pc = "idle"
    /\ reader' = [reader EXCEPT ![u].pc = "ready",
                                ![u].kept = {n \in Name : u \in Named(namespace[n])}]
    /\ UNCHANGED <<namespace, candidate, ready, req, operator>>

StopListing(u) ==
    /\ reader[u].pc # "idle"
    /\ reader' = [reader EXCEPT ![u] = Away]
    /\ UNCHANGED <<namespace, candidate, ready, req, operator>>

\* Without the marker an indexed listing refuses, rather than omit groups.
ReadReady(u) ==
    /\ reader[u].pc = "ready"
    /\ reader' = [reader EXCEPT ![u] =
           IF Indexed /\ ~ ready THEN Away ELSE [@ EXCEPT !.pc = "list"]]
    /\ UNCHANGED <<namespace, candidate, ready, req, operator>>

ListKeys(u) ==
    /\ reader[u].pc = "list"
    /\ reader' = [reader EXCEPT ![u].pc = "load",
                                ![u].page = Page(Keys(u), reader[u].more),
                                ![u].more = NextAfter(Keys(u), reader[u].more)]
    /\ UNCHANGED <<namespace, candidate, ready, req, operator>>

\* The group itself says whether it names the user.
LoadSpace(u) ==
    LET n == First(reader[u].page)
    IN  /\ reader[u].pc = "load"
        /\ reader[u].page # {}
        /\ reader' = [reader EXCEPT ![u].page = @ \ {n},
               ![u].listed = IF u \in Named(namespace[n]) THEN @ \cup {n} ELSE @]
        /\ UNCHANGED <<namespace, candidate, ready, req, operator>>

\* The client asks for the next page with the cursor, if it got one.
Listed(u) ==
    /\ reader[u].pc = "load"
    /\ reader[u].page = {}
    /\ reader' = [reader EXCEPT ![u].pc = IF reader[u].more = 0 THEN "listed" ELSE "ready"]
    /\ UNCHANGED <<namespace, candidate, ready, req, operator>>

Read(u) ==
    \/ StartListing(u) \/ StopListing(u) \/ ReadReady(u) \/ ListKeys(u) \/ LoadSpace(u)
    \/ Listed(u)

-----------------------------------------------------------------------------

Init ==
    /\ namespace = Legacy
    /\ candidate = {}
    /\ ready = FALSE
    /\ req = [r \in Request |-> Idle]
    /\ operator = [o \in Operator |-> Resting]
    /\ reader = [u \in Reader |-> Away]

Serve(r) ==
    Load(r) \/ EnsureSpaceCandidate(r) \/ WriteNamespace(r)

Next ==
    \/ \E r \in Request : Begin(r) \/ Serve(r) \/ FailRequest(r)
    \/ \E n \in Name : RegisterUser(n)
    \/ \E o \in Operator : Prepare(o)
    \/ \E u \in Reader : Read(u)

Spec == Init /\ [][Next]_vars

-----------------------------------------------------------------------------
(* Properties *)

TypeOK ==
    /\ namespace \in [Name -> Record]
    /\ candidate \subseteq User \X Name
    /\ ready \in BOOLEAN
    /\ req \in [Request -> {Idle} \cup Busy]
    /\ operator \in [Operator ->
           [pc : {"idle", "check", "survey", "head", "invalidate", "list", "load", "hint",
                  "publish"},
            page : SUBSET Name, more : Name \cup {0}, name : Name \cup {0}, todo : SUBSET User]]
    /\ reader \in [Reader ->
           [pc : {"idle", "ready", "list", "load", "listed"}, page : SUBSET Name,
            more : Name \cup {0}, listed : SUBSET Name, kept : SUBSET Name]]

\* Every group has an owner, whoever demotes or removes whom at the same time
\* (the last check of updateGroup, and validateNamespace).
OwnerKept ==
    \A n \in Name : namespace[n] \in Roster => \E u \in User : namespace[n].members[u] = "owner"

\* While the marker is there, the index has a candidate for everyone whom a
\* group admits or invites, so that indexed listings omit nobody
\* (ensureSpaceCandidate before the grant, BackfillSpaceIndex before the marker).
IndexComplete ==
    ready => \A n \in Name : \A u \in Named(namespace[n]) : <<u, n>> \in candidate

\* A listing of all pages holds every group that named its user from its first
\* page to its last (listSpaces, and the cursor of ListPage).
ListingComplete ==
    \A u \in Reader : reader[u].pc = "listed" => reader[u].kept \subseteq reader[u].listed

\* Groups keep an owner and the index stays complete, in well-formed records
\* (updateGroup, ensureSpaceCandidate).
GroupSafe == TypeOK /\ OwnerKept /\ IndexComplete

Roster_ == INSTANCE GroupRoster

\* Requests, retries and lost responses amount to single changes of one user
\* each, made by someone who is an owner, or invited, at that moment: "A stale
\* owner cannot overwrite a concurrent revocation or lose another update".
ImplementsRoster == Roster_!Spec
=============================================================================
