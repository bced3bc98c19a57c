---------------------------- MODULE GroupUsernames ----------------------------
(***************************************************************************)
(* The names that a group shows for its participants                        *)
(* (internal/auth/usernames.go, and the handlers of groups.go and api.go    *)
(* that invite and show).  A group stores user IDs; usernames are resolved  *)
(* on the shards that own them and kept in a cache object beside the group, *)
(* which is written by compare-and-swap.                                    *)
(*                                                                          *)
(* Roster changes are the single steps of GroupRoster.  Usernames are       *)
(* numbers in lexical order; a claim of a username is never reassigned.     *)
(* On S3 the version of the cache is an ETag, hence its content; the        *)
(* in-memory store numbers its versions (Counted).                          *)
(***************************************************************************)
EXTENDS Integers, FiniteSets

CONSTANTS
    User,       \* user IDs
    Username,   \* usernames, as numbers
    Shard,      \* the shards, as numbers in the order in which they are asked
    ShardOf,    \* ShardOf[n]: the shard that owns a username
    Reachable,  \* the shards that this one has an address of, itself included
    SessionName,\* SessionName[u]: the username of u's session
    Founder,    \* the owner of the group
    NoUser,     \* nobody has claimed the username
    Process,    \* concurrent requests
    Attempts,   \* how often cacheVerifiedGroupUsername tries (8)
    Lifetime,   \* unresolvedUsernameLifetime
    MaxTime,    \* bound of the clock
    MaxWrites,  \* no request begins after so many versions
    Counted     \* are versions numbers, or ETags?

NoName == 0

UsernamesAssumption ==
    /\ Username \subseteq Nat \ {0} /\ Shard \subseteq Nat
    /\ ShardOf \in [Username -> Shard] /\ Reachable \subseteq Shard
    /\ SessionName \in [User -> Username] /\ Founder \in User
    /\ NoUser \notin User
    /\ {Attempts, Lifetime, MaxTime, MaxWrites} \subseteq Nat \ {0} /\ Counted \in BOOLEAN

VARIABLES
    bound,      \* bound[n]: the user that claimed the username n
    roster,     \* roster[u]: what the group says of u
    cache,      \* auth/group-usernames/v1/<name>.json
    stamp,      \* the number of the cache's version, if Counted
    now,        \* the clock
    proc,       \* proc[p]: a request and what it has in memory
    vouched     \* vouched[u]: the alias saved for u since u was invited (history)

vars == <<bound, roster, cache, stamp, now, proc, vouched>>

Standing == {"none", "invited", "member", "owner"}

Cache == [names : [User -> Username \cup {NoName}], unresolved : [User -> Nat]]

\* The empty cache is what a missing object reads as.
NoCache == [names |-> [u \in User |-> NoName], unresolved |-> [u \in User |-> 0]]

Version == <<cache, stamp>>

First(S) == CHOOSE n \in S : \A m \in S : n <= m

Members(r) == {u \in User : r[u] \in {"member", "owner"}}

Participants(r) == {u \in User : r[u] # "none"}

\* Only owners see the invitations.
Visible(r, viewer) == IF r[viewer] = "owner" THEN Participants(r) ELSE Members(r)

-----------------------------------------------------------------------------
(* Requests.  A call shows the group to viewer, after it invited target under *)
(* the alias if there is one.                                                 *)

Call ==
    [viewer : User, target : User, alias : Username]
        \cup [viewer : User, target : {NoUser}, alias : {NoName}]

Idle ==
    [pc      |-> "idle",
     call    |-> [viewer |-> Founder, target |-> NoUser, alias |-> NoName],
     tries   |-> 0,
     record  |-> [u \in User |-> "none"],   \* the roster that was loaded or written
     version |-> <<NoCache, 0>>,            \* the cache that was loaded
     updated |-> NoCache,                   \* the cache to be saved
     wanted  |-> {},                        \* users whose name is to be resolved
     asked   |-> {}]                        \* the shards that were asked

End(p) == proc' = [proc EXCEPT ![p] = Idle]

\* A session exists only once its username is bound to its user.
Begin(p) ==
    /\ proc[p].pc = "idle"
    /\ stamp < MaxWrites
    /\ \E c \in Call :
          /\ bound[SessionName[c.viewer]] = c.viewer
          /\ proc' = [proc EXCEPT ![p].pc = IF c.target = NoUser THEN "show" ELSE "prepare",
                                  ![p].call = c]
    /\ UNCHANGED <<bound, roster, cache, stamp, now, vouched>>

\* A call fails or the process dies; after a mutation the answer then omits names.
Fail(p) ==
    /\ proc[p].pc # "idle"
    /\ End(p)
    /\ UNCHANGED <<bound, roster, cache, stamp, now, vouched>>

MayInvite(c) == roster[c.viewer] = "owner" /\ c.target \notin Members(roster)

\* Mutant: whatever alias the owner entered is taken.
PrepareTrusting(p) ==
    /\ proc[p].pc = "prepare"
    /\ proc' = [proc EXCEPT ![p].pc = "invite"]
    /\ UNCHANGED <<bound, roster, cache, stamp, now, vouched>>

\* prepareGroupInvitation and verifyUsernameForID, on the shard of the alias.
Prepare(p) ==
    LET c == proc[p].call
    IN  /\ proc[p].pc = "prepare"
        /\ IF /\ MayInvite(c)
              /\ ShardOf[c.alias] \in Reachable
              /\ bound[c.alias] = c.target
           THEN proc' = [proc EXCEPT ![p].pc = "invite"]
           ELSE End(p)
        /\ UNCHANGED <<bound, roster, cache, stamp, now, vouched>>

\* updateGroup; the record that it returns is the one that is shown afterwards.
Invite(p) ==
    LET c == proc[p].call
    IN  /\ proc[p].pc = "invite"
        /\ IF MayInvite(c)
           THEN /\ roster' = [roster EXCEPT ![c.target] = "invited"]
                /\ proc' = [proc EXCEPT ![p].pc = "alias", ![p].record = roster']
           ELSE End(p) /\ UNCHANGED roster
        /\ UNCHANGED <<bound, cache, stamp, now, vouched>>

\* loadGroupUsernameCache refuses an object that names and does not name a user.
Loads(c) == \A u \in User : c.names[u] # NoName => c.unresolved[u] = 0

LoadForAlias(p) ==
    /\ proc[p].pc = "alias"
    /\ IF Loads(cache)
       THEN proc' = [proc EXCEPT ![p].pc = "saveAlias", ![p].version = Version]
       ELSE End(p)
    /\ UNCHANGED <<bound, roster, cache, stamp, now, vouched>>

Aliased(old, u, name) == [old EXCEPT !.names[u] = name, !.unresolved[u] = 0]

\* A Put under If-Match, or under If-None-Match while there is no object.
PutCache(new) ==
    /\ cache' = new
    /\ stamp' = IF Counted THEN stamp + 1 ELSE 1

Retry(p) ==
    IF proc[p].tries + 1 = Attempts THEN End(p)
    ELSE proc' = [proc EXCEPT ![p].pc = "alias", ![p].tries = @ + 1]

\* cacheVerifiedGroupUsername: an attempt at the compare-and-swap.
SaveAlias(p) ==
    LET c == proc[p].call
    IN  /\ proc[p].pc = "saveAlias"
        /\ IF Version = proc[p].version
           THEN /\ PutCache(Aliased(cache, c.target, c.alias))
                /\ vouched' = IF roster[c.target] = "none" THEN vouched
                              ELSE [vouched EXCEPT ![c.target] = c.alias]
                /\ proc' = [proc EXCEPT ![p].pc = "cache", ![p].tries = 0]
           ELSE Retry(p) /\ UNCHANGED <<cache, stamp, vouched>>
        /\ UNCHANGED <<bound, roster, now>>

-----------------------------------------------------------------------------
(* groupView *)

\* The handler loads the group; only members see it.
Show(p) ==
    /\ proc[p].pc = "show"
    /\ IF proc[p].call.viewer \in Members(roster)
       THEN proc' = [proc EXCEPT ![p].pc = "cache", ![p].record = roster]
       ELSE End(p)
    /\ UNCHANGED <<bound, roster, cache, stamp, now, vouched>>

\* What a view keeps of the cache: entries of participants that have not expired,
\* and the name of the viewer's own session.
Kept(old, record, viewer) ==
    LET own == viewer \in Members(record) /\ old.names[viewer] = NoName
    IN  [names |-> [u \in User |->
            IF u = viewer /\ own THEN SessionName[u]
            ELSE IF u \in Participants(record) THEN old.names[u] ELSE NoName],
         unresolved |-> [u \in User |->
            IF u \in Participants(record) /\ old.unresolved[u] > now /\ ~ (u = viewer /\ own)
            THEN old.unresolved[u] ELSE 0]]

LoadCache(p) ==
    LET viewer == proc[p].call.viewer
        kept   == Kept(cache, proc[p].record, viewer)
    IN  /\ proc[p].pc = "cache"
        /\ IF Loads(cache)
           THEN proc' = [proc EXCEPT
                    ![p].pc = "resolve", ![p].version = Version, ![p].updated = kept,
                    ![p].wanted = {u \in Visible(proc[p].record, viewer) :
                                      kept.names[u] = NoName /\ kept.unresolved[u] = 0}]
           ELSE End(p)
        /\ UNCHANGED <<bound, roster, cache, stamp, now, vouched>>

\* scanLocalUsernames, here or behind lookupShardUsernames: the first alias of
\* a user on a shard wins.
Aliases(u, s) == {n \in Username : ShardOf[n] = s /\ bound[n] = u}

Ask(p) ==
    LET s     == First(Shard \ proc[p].asked)
        found == {u \in proc[p].wanted : s \in Reachable /\ Aliases(u, s) # {}}
    IN  /\ proc[p].pc = "resolve"
        /\ proc[p].wanted # {}
        /\ proc[p].asked # Shard
        /\ proc' = [proc EXCEPT
               ![p].asked = @ \cup {s}, ![p].wanted = @ \ found,
               ![p].updated.names = [u \in User |-> IF u \in found THEN First(Aliases(u, s)) ELSE @[u]]]
        /\ UNCHANGED <<bound, roster, cache, stamp, now, vouched>>

\* Names that no shard knows are remembered as such, if every shard was asked.
\* Nothing is saved if nothing is new.
Resolved(p) ==
    LET unknown == IF proc[p].asked \subseteq Reachable THEN proc[p].wanted ELSE {}
        new     == [proc[p].updated EXCEPT !.unresolved =
                       [u \in User |-> IF u \in unknown THEN now + Lifetime ELSE @[u]]]
    IN  /\ proc[p].pc = "resolve"
        /\ proc[p].wanted = {} \/ proc[p].asked = Shard
        /\ IF new = proc[p].version[1] THEN End(p)
           ELSE proc' = [proc EXCEPT ![p].pc = "recheck", ![p].updated = new]
        /\ UNCHANGED <<bound, roster, cache, stamp, now, vouched>>

\* Mutant: the view saves what it made of the roster that it loaded.
RecheckSkipped(p) ==
    /\ proc[p].pc = "recheck"
    /\ proc' = [proc EXCEPT ![p].pc = "save"]
    /\ UNCHANGED <<bound, roster, cache, stamp, now, vouched>>

\* The roster must still be the one that the view has shown.
Recheck(p) ==
    /\ proc[p].pc = "recheck"
    /\ IF roster = proc[p].record THEN proc' = [proc EXCEPT ![p].pc = "save"] ELSE End(p)
    /\ UNCHANGED <<bound, roster, cache, stamp, now, vouched>>

\* saveGroupUsernameCache; the view does not care whether it succeeds.
Save(p) ==
    /\ proc[p].pc = "save"
    /\ IF Version = proc[p].version THEN PutCache(proc[p].updated)
       ELSE UNCHANGED <<cache, stamp>>
    /\ End(p)
    /\ UNCHANGED <<bound, roster, now, vouched>>

-----------------------------------------------------------------------------
(* The other requests that change the group, registrations, and time *)

Leave(u) ==
    /\ roster[u] \notin {"none", "owner"}
    /\ roster' = [roster EXCEPT ![u] = "none"]
    /\ vouched' = [vouched EXCEPT ![u] = NoName]
    /\ UNCHANGED <<bound, cache, stamp, now, proc>>

Accept(u) ==
    /\ roster[u] = "invited"
    /\ roster' = [roster EXCEPT ![u] = "member"]
    /\ UNCHANGED <<bound, cache, stamp, now, proc, vouched>>

\* An invitation by user ID alone.
InviteID(u) ==
    /\ roster[u] = "none"
    /\ roster' = [roster EXCEPT ![u] = "invited"]
    /\ UNCHANGED <<bound, cache, stamp, now, proc, vouched>>

Register(u, n) ==
    /\ bound[n] = NoUser
    /\ bound' = [bound EXCEPT ![n] = u]
    /\ UNCHANGED <<roster, cache, stamp, now, proc, vouched>>

Tick ==
    /\ now < MaxTime
    /\ now' = now + 1
    /\ UNCHANGED <<bound, roster, cache, stamp, proc, vouched>>

-----------------------------------------------------------------------------

Init ==
    /\ bound = [n \in Username |-> IF n = SessionName[Founder] THEN Founder ELSE NoUser]
    /\ roster = [u \in User |-> IF u = Founder THEN "owner" ELSE "none"]
    /\ cache = NoCache
    /\ stamp = 0
    /\ now = 0
    /\ proc = [p \in Process |-> Idle]
    /\ vouched = [u \in User |-> NoName]

Next ==
    \/ \E p \in Process :
          \/ Begin(p) \/ Fail(p) \/ Prepare(p) \/ Invite(p) \/ LoadForAlias(p) \/ SaveAlias(p)
          \/ Show(p) \/ LoadCache(p) \/ Ask(p) \/ Resolved(p) \/ Recheck(p) \/ Save(p)
    \/ \E u \in User :
          Leave(u) \/ Accept(u) \/ InviteID(u) \/ \E n \in Username : Register(u, n)
    \/ Tick

Spec == Init /\ [][Next]_vars

-----------------------------------------------------------------------------
(* Properties *)

TypeOK ==
    /\ bound \in [Username -> User \cup {NoUser}]
    /\ roster \in [User -> Standing]
    /\ cache \in Cache /\ \A u \in User : cache.unresolved[u] <= MaxTime + Lifetime
    /\ stamp \in Nat
    /\ now \in 0 .. MaxTime
    /\ \A p \in Process :
          /\ proc[p].call \in Call
          /\ proc[p].tries \in 0 .. Attempts - 1
          /\ proc[p].updated \in Cache
          /\ proc[p].wanted \subseteq Visible(proc[p].record, proc[p].call.viewer)
    /\ vouched \in [User -> Username \cup {NoName}]

\* A name that the cache gives for a user is a username that this user claimed:
\* "It contains only verified names" (usernames.go), whatever owners enter.
NamesTrue == \A u \in User : cache.names[u] # NoName => bound[cache.names[u]] = u

\* The stored cache can always be loaded again: no user is both named and
\* unresolved, else every later view of the group would fail.
CacheLoads == Loads(cache)

\* The cache is true, and can be loaded (loadGroupUsernameCache).
CacheTrue == TypeOK /\ NamesTrue /\ CacheLoads

\* The alias that was saved for an invited user stays as long as the user is
\* invited or a member: a view "must not prune an alias saved after a concurrent
\* invitation" (groupView).
AliasKept == \A u \in User : vouched[u] # NoName => cache.names[u] = vouched[u]

=============================================================================
