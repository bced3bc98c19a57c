----------------------------- MODULE Credentials -----------------------------
(***************************************************************************)
(* The credentials of one user, and the Git and LFS operations that use     *)
(* them: SSH keys in one keyring object, personal access tokens in an       *)
(* object each, session cookies, and the LFS grants that an SSH session     *)
(* issues (internal/auth tokens.go, ssh_keys.go, lfs.go, git.go;            *)
(* internal/sshserver).                                                     *)
(*                                                                          *)
(* The user's shard is the authority for keys and tokens; the shard of the  *)
(* repository asks it, and then reads the role of the user in its own       *)
(* namespace, in two calls with time between them.  Writes do both again    *)
(* just before they publish.  Keys, tokens and roles change meanwhile.      *)
(***************************************************************************)
EXTENDS Integers, FiniteSets

CONSTANTS
    Key,            \* SSH public keys
    Token,          \* IDs of personal access tokens
    Request,        \* concurrent API requests about credentials
    Operation,      \* concurrent Git and LFS operations
    NoCredential,   \* the credential of a session cookie has no record
    MaxKeys,        \* maxSSHKeyRecords
    Attempts,       \* how often a compare-and-swap is tried (8)
    TokenLifetime,
    SessionLifetime,
    GrantLifetime,  \* lfsGrantLifetime
    TransferTime,   \* the deadline of an admitted operation
    MaxTime,        \* bound on the clock
    Faults          \* may a write take effect and be answered with a conflict?

ASSUME CredentialsAssumption ==
    /\ IsFiniteSet(Key) /\ Key \cap Token = {}
    /\ {MaxKeys, Attempts, TokenLifetime, SessionLifetime, GrantLifetime, TransferTime, MaxTime} \subseteq Nat
    /\ Faults \in BOOLEAN

VARIABLES
    ring,       \* auth/ssh-keys/<username>.json: ring[k] is what it says of k
    token,      \* auth/tokens/<username>/<id>.json
    grants,     \* the LFS grants that were issued
    role,       \* the user's role in the namespace of the repository
    request,    \* request[r]: an API request and what it has in memory
    answered,   \* what requests were told: <<"create", k>> or <<"revoke", k>>
    op,         \* op[o]: an operation and what it has in memory
    published,  \* what is remembered of the writes that were published
    clock

vars == <<ring, token, grants, role, request, answered, op, published, clock>>

Standing == {"absent", "active", "revoked"}

Idle == [pc |-> "idle"]

-----------------------------------------------------------------------------
(* API requests: createSSHKey, revokeSSHKey, createToken, revokeToken *)

EndRequest(r) == request' = [request EXCEPT ![r] = Idle]

Answer(r) ==
    /\ answered' = answered \cup {<<request[r].kind, request[r].id>>}
    /\ EndRequest(r)

StartRequest(r, kind, id) ==
    /\ request[r].pc = "idle"
    /\ request' = [request EXCEPT ![r] = [pc |-> "load", kind |-> kind, id |-> id, left |-> Attempts]]
    /\ UNCHANGED <<ring, token, grants, role, answered, op, published, clock>>

FailRequest(r) ==
    /\ request[r].pc # "idle"
    /\ EndRequest(r)
    /\ UNCHANGED <<ring, token, grants, role, answered, op, published, clock>>

Registered(keys) == {k \in Key : keys[k] # "absent"}

HasRoom(keys) == Cardinality(Registered(keys)) < MaxKeys

\* A revoked key is registered again.
CreatesAgain(keys, k) ==
    IF keys[k] # "active" /\ HasRoom(keys) THEN [keys EXCEPT ![k] = "active"] ELSE keys

\* What createSSHKey makes of a keyring, or the keyring itself when it refuses:
\* a key that was ever registered is refused.
Creates(keys, k) ==
    IF keys[k] = "absent" /\ HasRoom(keys) THEN [keys EXCEPT ![k] = "active"] ELSE keys

Revokes(keys, k) == IF keys[k] = "active" THEN [keys EXCEPT ![k] = "revoked"] ELSE keys

Wanted(r) ==
    IF request[r].kind = "create" THEN Creates(ring, request[r].id) ELSE Revokes(ring, request[r].id)

\* A request that has nothing to write: a key that is revoked already is the
\* only such answer that is no error.
LoadKeyring(r) ==
    /\ request[r].pc = "load" /\ request[r].id \in Key
    /\ \/ /\ Wanted(r) = ring
          /\ IF request[r].kind = "revoke" /\ ring[request[r].id] = "revoked"
             THEN Answer(r)
             ELSE EndRequest(r) /\ UNCHANGED answered
       \/ /\ Wanted(r) # ring
          /\ request' = [request EXCEPT ![r] =
                 [pc |-> "write", kind |-> @.kind, id |-> @.id, left |-> @.left - 1,
                  seen |-> ring, next |-> Wanted(r)]]
          /\ UNCHANGED answered
    /\ UNCHANGED <<ring, token, grants, role, op, published, clock>>

Conflict(r) ==
    /\ request' = [request EXCEPT ![r] =
           IF @.left = 0 THEN Idle ELSE [pc |-> "load", kind |-> @.kind, id |-> @.id, left |-> @.left]]
    /\ UNCHANGED answered

\* A Put that replaces whatever is there.
WriteBlind(r) ==
    /\ request[r].pc = "write"
    /\ ring' = request[r].next
    /\ Answer(r)
    /\ UNCHANGED <<token, grants, role, op, published, clock>>

\* writeSSHKeyring: a Put on the condition of what was loaded.
WriteKeyring(r) ==
    /\ request[r].pc = "write"
    /\ \/ /\ ring = request[r].seen
          /\ ring' = request[r].next
          /\ Answer(r) \/ (Faults /\ Conflict(r))
       \/ /\ ring # request[r].seen
          /\ Conflict(r)
          /\ UNCHANGED ring
    /\ UNCHANGED <<token, grants, role, op, published, clock>>

NoToken == [standing |-> "absent", expires |-> 0, write |-> FALSE]

\* The ID is random: nobody else has it.
CreateToken(r, write) ==
    /\ request[r].pc = "load" /\ request[r].id \in Token /\ request[r].kind = "create"
    /\ token[request[r].id] = NoToken
    /\ token' = [token EXCEPT ![request[r].id] =
           [standing |-> "active", expires |-> clock + TokenLifetime, write |-> write]]
    /\ Answer(r)
    /\ UNCHANGED <<ring, grants, role, op, published, clock>>

\* A revocation is the only write to a token, so whoever loses the race for
\* it finds it revoked and is answered as well.  A write that took effect and was
\* answered with a conflict is tried again.
RevokeToken(r) ==
    /\ request[r].pc = "load" /\ request[r].id \in Token /\ request[r].kind = "revoke"
    /\ IF token[request[r].id] = NoToken
       THEN EndRequest(r) /\ UNCHANGED <<token, answered>>
       ELSE /\ token' = [token EXCEPT ![request[r].id].standing = "revoked"]
            /\ Answer(r) \/ (Faults /\ UNCHANGED <<request, answered>>)
    /\ UNCHANGED <<ring, grants, role, op, published, clock>>

-----------------------------------------------------------------------------
(* Operations *)

End(o) == op' = [op EXCEPT ![o] = Idle]

Goto(o, pc) == op' = [op EXCEPT ![o].pc = pc]

\* Every call of an operation has its deadline.
InTime(o) == clock <= op[o].deadline

FailOperation(o) ==
    /\ op[o].pc # "idle"
    /\ End(o)
    /\ UNCHANGED <<ring, token, grants, role, request, answered, published, clock>>

\* VerifySSHKey.
KeyUsable(k) == ring[k] = "active"

\* verifyLocalToken, and the permission that serveGit compares.
TokenUsable(t, write) ==
    /\ token[t].standing = "active" /\ token[t].expires > clock
    /\ write => token[t].write

\* The credential of an operation c; a session only expires.
Usable(c) ==
    CASE c.kind \in {"ssh", "authenticate", "grant"} -> KeyUsable(c.id)
      [] c.kind = "token" -> TokenUsable(c.id, c.write)
      [] OTHER -> c.expires > clock

\* canWriteRepositories.
Suffices(write) == IF write THEN role = "write" ELSE role # "none"

\* stale and held are history: was the credential unusable when this round of
\* authorization began, and has the role sufficed at some moment of it?
Begun(c) ==
    [pc |-> "verify", kind |-> c.kind, id |-> c.id, write |-> c.write, expires |-> c.expires,
     deadline |-> clock + TransferTime, stale |-> ~Usable(c), held |-> Suffices(c.write)]

Admit(o, c) ==
    /\ op[o].pc = "idle"
    /\ op' = [op EXCEPT ![o] = Begun(c)]
    /\ UNCHANGED <<ring, token, grants, role, request, answered, published, clock>>

\* serveConnection: the public key of the handshake is verified, but the
\* command authorizes itself once more.
Connect(o, k) ==
    /\ op[o].pc = "idle"
    /\ KeyUsable(k)
    /\ op' = [op EXCEPT ![o] = [pc |-> "connected", id |-> k]]
    /\ UNCHANGED <<ring, token, grants, role, request, answered, published, clock>>

Command(o, kind, write) ==
    /\ op[o].pc = "connected"
    /\ op' = [op EXCEPT ![o] =
           Begun([kind |-> kind, id |-> op[o].id, write |-> write, expires |-> 0])]
    /\ UNCHANGED <<ring, token, grants, role, request, answered, published, clock>>

StartHttp(o) ==
    \/ \E t \in Token, write \in BOOLEAN :
          Admit(o, [kind |-> "token", id |-> t, write |-> write, expires |-> 0])
    \/ \E g \in grants :
          /\ g.expires > clock
          /\ Admit(o, [kind |-> "grant", id |-> g.key, write |-> g.write, expires |-> g.expires])
    \/ \E expires \in clock .. clock + SessionLifetime, write \in BOOLEAN :
          Admit(o, [kind |-> "session", id |-> NoCredential, write |-> write, expires |-> expires])

\* The answer of the authority, as of one moment.
Verified(o) ==
    /\ op[o].pc \in {"verify", "reverify"} /\ InTime(o)
    /\ IF ~Usable(op[o])
       THEN End(o)
       ELSE Goto(o, IF op[o].pc = "verify" THEN "authorize" ELSE "reauthorize")
    /\ UNCHANGED <<ring, token, grants, role, request, answered, published, clock>>

\* The SSH server asks the shard of the user in a connection of its own.
VerifyKey(o) == Verified(o) /\ op[o].kind \in {"ssh", "authenticate"}

\* verifyToken, on this shard or by a request to the other.
VerifyToken(o) == Verified(o) /\ op[o].kind = "token"

\* Only the key of a grant is verified, with a check signed for the moment:
\* the expiry of the grant was compared at admission.
VerifyGrant(o) == Verified(o) /\ op[o].kind = "grant"

VerifySession(o) == Verified(o) /\ op[o].kind = "session"

\* repositoryRole on the shard of the repository.
Authorize(o) ==
    /\ op[o].pc \in {"authorize", "reauthorize"} /\ InTime(o)
    /\ IF ~Suffices(op[o].write)
       THEN End(o)
       ELSE Goto(o, CASE op[o].pc = "reauthorize" -> "publish"
                      [] op[o].pc = "authorize" /\ op[o].kind = "authenticate" -> "issue"
                      [] OTHER -> "transfer")
    /\ UNCHANGED <<ring, token, grants, role, request, answered, published, clock>>

\* IssueLFSCredentials, which reads the role for itself.
Issue(o) ==
    /\ op[o].pc = "issue" /\ InTime(o)
    /\ grants' = grants \cup
           (IF Suffices(op[o].write)
            THEN {[key |-> op[o].id, write |-> op[o].write, expires |-> clock + GrantLifetime]}
            ELSE {})
    /\ End(o)
    /\ UNCHANGED <<ring, token, role, request, answered, published, clock>>

\* The final authorization trusts the principal of the first.
ReauthorizeTrusting(o) ==
    op' = [op EXCEPT ![o].pc = "reauthorize", ![o].stale = ~Usable(op[o]), ![o].held = Suffices(op[o].write)]

\* The final authorization is the same as the first, credential included.
Reauthorize(o) ==
    op' = [op EXCEPT ![o].pc = "reverify", ![o].stale = ~Usable(op[o]), ![o].held = Suffices(op[o].write)]

\* A read ends with its transfer; a write has all its content now.
Transfer(o) ==
    /\ op[o].pc = "transfer" /\ InTime(o)
    /\ IF op[o].write THEN Reauthorize(o) ELSE End(o)
    /\ UNCHANGED <<ring, token, grants, role, request, answered, published, clock>>

Publish(o) ==
    /\ op[o].pc = "publish" /\ InTime(o)
    /\ published' = published \cup
           {[stale |-> op[o].stale, held |-> op[o].held,
             late |-> op[o].kind = "grant" /\ clock >= op[o].expires + TransferTime]}
    /\ End(o)
    /\ UNCHANGED <<ring, token, grants, role, request, answered, clock>>

\* The owners of the namespace change the role of the user.
SetRole(new) ==
    /\ role' = new
    /\ op' = [o \in Operation |->
           IF op[o].pc \in {"idle", "connected"} THEN op[o]
           ELSE [op[o] EXCEPT !.held = @ \/ (IF op[o].write THEN new = "write" ELSE new # "none")]]
    /\ UNCHANGED <<ring, token, grants, request, answered, published, clock>>

Tick ==
    /\ clock < MaxTime
    /\ clock' = clock + 1
    /\ grants' = {g \in grants : g.expires > clock'} \* the others are of no use
    /\ UNCHANGED <<ring, token, role, request, answered, op, published>>

Init ==
    /\ ring = [k \in Key |-> "absent"]
    /\ token = [t \in Token |-> NoToken]
    /\ grants = {} /\ answered = {} /\ published = {}
    /\ role = "write"
    /\ request = [r \in Request |-> Idle]
    /\ op = [o \in Operation |-> Idle]
    /\ clock = 0

Manage(r) ==
    \/ \E kind \in {"create", "revoke"}, id \in Key \cup Token : StartRequest(r, kind, id)
    \/ LoadKeyring(r) \/ WriteKeyring(r)
    \/ \E write \in BOOLEAN : CreateToken(r, write)
    \/ RevokeToken(r) \/ FailRequest(r)

Serve(o) ==
    \/ \E k \in Key : Connect(o, k)
    \/ \E kind \in {"ssh", "authenticate"}, write \in BOOLEAN : Command(o, kind, write)
    \/ StartHttp(o)
    \/ VerifyKey(o) \/ VerifyToken(o) \/ VerifyGrant(o) \/ VerifySession(o)
    \/ Authorize(o) \/ Issue(o) \/ Transfer(o) \/ Publish(o) \/ FailOperation(o)

Next ==
    \/ \E r \in Request : Manage(r)
    \/ \E o \in Operation : Serve(o)
    \/ \E new \in {"none", "read", "write"} : SetRole(new)
    \/ Tick

Spec == Init /\ [][Next]_vars

-----------------------------------------------------------------------------
(* Properties *)

\* Every variable holds what the code can put there, and a keyring never
\* holds more keys than one can be loaded with, revoked ones included.
TypeOK ==
    /\ ring \in [Key -> Standing]
    /\ Cardinality(Registered(ring)) <= MaxKeys
    /\ \A t \in Token : token[t].standing \in Standing
    /\ role \in {"none", "read", "write"}
    /\ clock \in 0 .. MaxTime

\* A revoked key or token never becomes usable again, whatever registrations
\* and revocations race for the keyring ("revoked keys cannot be reused").
TombstoneWins ==
    [][/\ \A k \in Key : ring[k] = "revoked" => ring'[k] = "revoked"
       /\ \A t \in Token : token[t].standing = "revoked" => token'[t].standing = "revoked"]_vars

\* What a request was told stays true: a registered key is in the keyring,
\* a revoked one is revoked.  A concurrent request never undoes either.
AnswersKept ==
    \A a \in answered :
        LET standing == IF a[2] \in Key THEN ring[a[2]] ELSE token[a[2]].standing
        IN standing # "absent" /\ (a[1] = "revoke" => standing = "revoked")

\* No write is published with a credential that was revoked or expired when
\* its final authorization began, nor by a user whose role did not suffice at
\* any moment since ("Reuse exactly the same credential and current ACL
\* checks before publishing a push").
RevocationNoticed == \A p \in published : ~p.stale /\ p.held

\* A grant admits operations until it expires; what it admitted publishes
\* within the deadline of a transfer.
GrantBounded == \A p \in published : ~p.late

\* Answers about keys and tokens stay true (writeSSHKeyring), and grants end.
CredentialsSafe == TypeOK /\ AnswersKept /\ GrantBounded
=============================================================================
