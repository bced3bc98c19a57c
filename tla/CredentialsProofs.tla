-------------------------- MODULE CredentialsProofs --------------------------
(* Proofs that revocations last, that answers stay true and that the final   *)
(* authorization of a write notices them, for any number of keys, tokens,    *)
(* requests and operations.                                                  *)
EXTENDS Credentials, FiniteSetTheorems, TLAPS

Keyring == [Key -> Standing]

TokenRecord == [standing : Standing, expires : Int, write : BOOLEAN]

Loading == [pc : {"load"}, kind : {"create", "revoke"}, id : Key \cup Token, left : Int]

Writing == [pc : {"write"}, kind : {"create", "revoke"}, id : Key, left : Int,
            seen : Keyring, next : Keyring]

\* What a request makes of a keyring.
Result(keys, kind, k) == IF kind = "create" THEN Creates(keys, k) ELSE Revokes(keys, k)

KeyKinds == {"ssh", "authenticate", "grant"}

Connected == [pc : {"connected"}, id : Key]

Authorizing == {"verify", "authorize", "issue", "transfer", "reverify", "reauthorize", "publish"}

Active == [pc : Authorizing, kind : KeyKinds \cup {"token", "session"},
           id : Key \cup Token \cup {NoCredential}, write : BOOLEAN, expires : Int,
           deadline : Int, stale : BOOLEAN, held : BOOLEAN]

Kinded(p) ==
    /\ p.kind \in KeyKinds => p.id \in Key
    /\ p.kind = "token" => p.id \in Token

\* The record of the credential exists, so it can only get worse.
Known(p) ==
    /\ p.kind \in KeyKinds => ring[p.id] # "absent"
    /\ p.kind = "token" => token[p.id].standing # "absent"

\* What an operation that authorizes itself has established.
Established(p) ==
    /\ Kinded(p)
    /\ Suffices(p.write) => p.held
    /\ p.pc # "verify" => Known(p)
    /\ p.pc = "issue" => p.kind = "authenticate"
    /\ p.pc = "reverify" /\ p.stale => ~Usable(p)
    /\ p.pc \in {"reauthorize", "publish"} => ~p.stale
    /\ p.pc = "publish" => p.held
    /\ p.kind = "grant" => p.deadline < p.expires + TransferTime

Types ==
    /\ ring \in Keyring
    /\ token \in [Token -> TokenRecord]
    /\ role \in {"none", "read", "write"}
    /\ clock \in 0 .. MaxTime
    /\ grants \subseteq [key : Key, write : BOOLEAN, expires : Int]
    /\ answered \subseteq {"create", "revoke"} \X (Key \cup Token)
    /\ request \in [Request -> {Idle} \cup Loading \cup Writing]
    /\ op \in [Operation -> {Idle} \cup Connected \cup Active]

RingInv ==
    /\ Cardinality(Registered(ring)) <= MaxKeys
    /\ \A r \in Request : request[r].pc = "write" =>
          /\ request[r].next = Result(request[r].seen, request[r].kind, request[r].id)
          /\ request[r].next # request[r].seen
    /\ AnswersKept

UseInv ==
    /\ \A o \in Operation : op[o].pc \in Authorizing => Established(op[o])
    /\ RevocationNoticed /\ GrantBounded

CredentialsInv == Types /\ RingInv /\ UseInv

LEMMA Numbers ==
    /\ MaxKeys \in Nat /\ Attempts \in Nat /\ TokenLifetime \in Nat
    /\ GrantLifetime \in Nat /\ TransferTime \in Nat /\ MaxTime \in Nat
BY CredentialsAssumption

LEMMA ClockIsTime == Types => clock \in Nat
BY DEF Types

\* An operation is idle, connected or active, and its pc tells which.
LEMMA Shape ==
    ASSUME NEW p \in {Idle} \cup Connected \cup Active
    PROVE  \/ p = Idle /\ p.pc = "idle"
           \/ p \in Connected /\ p.pc = "connected" /\ p.id \in Key
           \/ p \in Active /\ p.pc \in Authorizing
<1>1. CASE p = Idle
  BY <1>1 DEF Idle
<1>2. CASE p \in Connected
  BY <1>2 DEF Connected
<1>3. CASE p \in Active
  BY <1>3 DEF Active
<1> QED
  BY <1>1, <1>2, <1>3

\* An operation that authorizes itself is active.
LEMMA ActiveOperation ==
    ASSUME Types, UseInv, NEW o \in Operation, op[o].pc \in Authorizing
    PROVE  op[o] \in Active /\ Established(op[o])
<1>1. Established(op[o])
  BY DEF UseInv
<1>2. op[o] \in {Idle} \cup Connected \cup Active
  BY DEF Types
<1> QED
  BY <1>1, <1>2, Shape DEF Authorizing
-----------------------------------------------------------------------------
(* API requests. *)

\* How keys and tokens change: they appear, and they are revoked.
Ages ==
    /\ \A k \in Key : \/ ring'[k] = ring[k]
                      \/ ring[k] = "absent" /\ ring'[k] = "active"
                      \/ ring[k] = "active" /\ ring'[k] = "revoked"
    /\ \A t \in Token : \/ token'[t] = token[t]
                        \/ token[t].standing = "absent"
                        \/ /\ token'[t].standing = "revoked"
                           /\ token'[t].expires = token[t].expires
                           /\ token'[t].write = token[t].write

\* A request that is written takes a keyring with room to one that is not
\* overfull (createSSHKey, revokeSSHKey).
LEMMA ResultFits ==
    ASSUME NEW keys \in Keyring, NEW kind \in {"create", "revoke"}, NEW k \in Key,
           Cardinality(Registered(keys)) <= MaxKeys
    PROVE  LET next == Result(keys, kind, k)
           IN  /\ next \in Keyring
               /\ Cardinality(Registered(next)) <= MaxKeys
               /\ \A j \in Key : \/ next[j] = keys[j]
                                 \/ keys[j] = "absent" /\ next[j] = "active"
                                 \/ keys[j] = "active" /\ next[j] = "revoked"
               /\ next # keys => next[k] = IF kind = "create" THEN "active" ELSE "revoked"
<1> DEFINE next == Result(keys, kind, k)
<1>1. CASE next = keys
  BY <1>1
<1>2. CASE next # keys /\ kind = "create"
  <2>1. keys[k] = "absent" /\ HasRoom(keys) /\ next = [keys EXCEPT ![k] = "active"]
    BY <1>2 DEF Result, Creates
  <2>2. next \in Keyring /\ \A j \in Key : next[j] = IF j = k THEN "active" ELSE keys[j]
    BY <2>1 DEF Keyring, Standing
  <2> HIDE DEF next
  <2>3. Registered(next) = Registered(keys) \cup {k} /\ k \notin Registered(keys)
    BY <2>1, <2>2 DEF Registered
  <2>4. IsFiniteSet(Registered(keys)) /\ Cardinality(Registered(keys)) \in Nat
    BY CredentialsAssumption, FS_Subset, FS_CardinalityType DEF Registered
  <2>5. Cardinality(Registered(next)) = Cardinality(Registered(keys)) + 1
    BY Zenon, <2>3, <2>4, FS_AddElement
  <2>6. Cardinality(Registered(next)) <= MaxKeys
    BY <2>1, <2>4, <2>5, CredentialsAssumption DEF HasRoom
  <2> QED
    BY <1>2, <2>1, <2>2, <2>6 DEF next
<1>3. CASE next # keys /\ kind = "revoke"
  <2>1. keys[k] = "active" /\ next = [keys EXCEPT ![k] = "revoked"]
    BY <1>3 DEF Result, Revokes
  <2>2. next \in Keyring /\ \A j \in Key : next[j] = IF j = k THEN "revoked" ELSE keys[j]
    BY <2>1 DEF Keyring, Standing
  <2> HIDE DEF next
  <2>3. Registered(next) = Registered(keys)
    BY <2>1, <2>2 DEF Registered
  <2> QED
    BY <1>3, <2>1, <2>2, <2>3 DEF next
<1> QED
  BY <1>1, <1>2, <1>3

\* What was answered stays true while keys and tokens only age.
LEMMA AgingKeepsAnswers ==
    ASSUME Types, AnswersKept, Ages, UNCHANGED answered
    PROVE  AnswersKept'
<1> SUFFICES ASSUME NEW a \in answered
             PROVE  LET standing == IF a[2] \in Key THEN ring'[a[2]] ELSE token'[a[2]].standing
                    IN  standing # "absent" /\ (a[1] = "revoke" => standing = "revoked")
  BY DEF AnswersKept
<1>1. a[2] \in Key \cup Token
  BY DEF Types
<1>2. CASE a[2] \in Key
  <2>1. ring[a[2]] # "absent" /\ (a[1] = "revoke" => ring[a[2]] = "revoked")
    BY <1>2 DEF AnswersKept
  <2> QED
    BY <1>2, <2>1 DEF Ages
<1>3. CASE a[2] \notin Key
  <2>1. token[a[2]].standing # "absent" /\ (a[1] = "revoke" => token[a[2]].standing = "revoked")
    BY <1>3 DEF AnswersKept
  <2> QED
    BY <1>1, <1>3, <2>1 DEF Ages
<1> QED
  BY <1>2, <1>3

\* And so does one more answer that is true.
LEMMA AnswerKeeps ==
    ASSUME Types, AnswersKept, Ages, NEW r \in Request, request[r].pc # "idle", Answer(r),
           LET id == request[r].id
               standing == IF id \in Key THEN ring'[id] ELSE token'[id].standing
           IN  standing # "absent" /\ (request[r].kind = "revoke" => standing = "revoked")
    PROVE  AnswersKept' /\ answered' \subseteq {"create", "revoke"} \X (Key \cup Token)
<1>1. request[r].kind \in {"create", "revoke"} /\ request[r].id \in Key \cup Token
  BY DEF Types, Idle, Loading, Writing
<1>2. answered' = answered \cup {<<request[r].kind, request[r].id>>}
  BY DEF Answer
<1>3. \A a \in answered :
          LET standing == IF a[2] \in Key THEN ring'[a[2]] ELSE token'[a[2]].standing
          IN  standing # "absent" /\ (a[1] = "revoke" => standing = "revoked")
  <2> SUFFICES ASSUME NEW a \in answered
               PROVE  LET standing == IF a[2] \in Key THEN ring'[a[2]] ELSE token'[a[2]].standing
                      IN  standing # "absent" /\ (a[1] = "revoke" => standing = "revoked")
    OBVIOUS
  <2>1. a[2] \in Key \cup Token
    BY DEF Types
  <2>2. CASE a[2] \in Key
    BY <2>2 DEF AnswersKept, Ages
  <2>3. CASE a[2] \notin Key
    BY <2>1, <2>3 DEF AnswersKept, Ages
  <2> QED
    BY <2>2, <2>3
<1>4. AnswersKept'
  BY <1>2, <1>3 DEF AnswersKept
<1> QED
  BY <1>1, <1>2, <1>4 DEF Types

\* Every step of an API request keeps the keyring sound, and only ages keys
\* and tokens.
RequestOK ==
    /\ ring' \in Keyring /\ token' \in [Token -> TokenRecord]
    /\ request' \in [Request -> {Idle} \cup Loading \cup Writing]
    /\ answered' \subseteq {"create", "revoke"} \X (Key \cup Token)
    /\ RingInv' /\ Ages

LEMMA MoveRequest ==
    ASSUME Types, RingInv, NEW r \in Request, NEW q \in {Idle} \cup Loading \cup Writing,
           q.pc = "write" => q.next = Result(q.seen, q.kind, q.id) /\ q.next # q.seen,
           request' = [request EXCEPT ![r] = q]
    PROVE  /\ request' \in [Request -> {Idle} \cup Loading \cup Writing]
           /\ \A s \in Request : request'[s].pc = "write" =>
                 /\ request'[s].next = Result(request'[s].seen, request'[s].kind, request'[s].id)
                 /\ request'[s].next # request'[s].seen
<1>1. request' \in [Request -> {Idle} \cup Loading \cup Writing]
  BY DEF Types
<1>2. \A s \in Request : request'[s] = IF s = r THEN q ELSE request[s]
  BY DEF Types
<1> QED
  BY <1>1, <1>2 DEF RingInv

LEMMA IdleRequest == Idle \in {Idle} /\ Idle.pc = "idle"
BY DEF Idle

LEMMA LoadKeyringOK ==
    ASSUME Types, RingInv, NEW r \in Request, LoadKeyring(r)
    PROVE  RequestOK
<1>1. Ages /\ UNCHANGED <<ring, token>>
  BY DEF LoadKeyring, Ages
<1>2. /\ request[r] \in Loading /\ request[r].id \in Key
      /\ request[r].kind \in {"create", "revoke"} /\ request[r].left \in Int
  BY DEF LoadKeyring, Types, Loading, Writing, Idle
<1>3. Wanted(r) = Result(ring, request[r].kind, request[r].id)
  BY <1>2 DEF Wanted, Result
<1>4. CASE Wanted(r) = ring /\ request[r].kind = "revoke" /\ ring[request[r].id] = "revoked"
  <2>1. Answer(r)
    BY <1>4 DEF LoadKeyring
  <2>2. AnswersKept' /\ answered' \subseteq {"create", "revoke"} \X (Key \cup Token)
    BY <1>1, <1>2, <1>4, <2>1, AnswerKeeps DEF RingInv, LoadKeyring
  <2>3. request' = [request EXCEPT ![r] = Idle]
    BY <2>1 DEF Answer, EndRequest
  <2> QED
    BY <1>1, <2>2, <2>3, MoveRequest, IdleRequest DEF RequestOK, RingInv, Types
<1>5. CASE Wanted(r) = ring /\ ~(request[r].kind = "revoke" /\ ring[request[r].id] = "revoked")
  <2>1. request' = [request EXCEPT ![r] = Idle] /\ UNCHANGED answered
    BY <1>5 DEF LoadKeyring, EndRequest
  <2>2. AnswersKept'
    BY <1>1, <2>1, AgingKeepsAnswers DEF RingInv
  <2> QED
    BY <1>1, <2>1, <2>2, MoveRequest, IdleRequest DEF RequestOK, RingInv, Types
<1>6. CASE Wanted(r) # ring
  <2> DEFINE q == [pc |-> "write", kind |-> request[r].kind, id |-> request[r].id,
                   left |-> request[r].left - 1, seen |-> ring, next |-> Wanted(r)]
  <2>1. request' = [request EXCEPT ![r] = q] /\ UNCHANGED answered
    BY <1>6 DEF LoadKeyring
  <2>2. Wanted(r) \in Keyring
    BY <1>2, <1>3, ResultFits DEF Types, RingInv
  <2>3. q \in Writing /\ q.next = Result(q.seen, q.kind, q.id) /\ q.next # q.seen
    BY <1>2, <1>3, <1>6, <2>2 DEF Writing, Types
  <2>4. AnswersKept'
    BY <1>1, <2>1, AgingKeepsAnswers DEF RingInv
  <2> HIDE DEF q
  <2> QED
    BY <1>1, <2>1, <2>3, <2>4, MoveRequest DEF RequestOK, RingInv, Types
<1> QED
  BY <1>4, <1>5, <1>6

\* What a conflict leaves is a request again.
LEMMA ConflictMoves ==
    ASSUME Types, NEW r \in Request, request[r] \in Writing, Conflict(r)
    PROVE  \E q \in {Idle} \cup Loading :
              q.pc # "write" /\ request' = [request EXCEPT ![r] = q] /\ UNCHANGED answered
<1>1. CASE request[r].left = 0
  BY Zenon, <1>1, IdleRequest DEF Conflict, Types
<1>2. CASE request[r].left # 0
  <2> DEFINE q == [pc |-> "load", kind |-> request[r].kind, id |-> request[r].id,
                   left |-> request[r].left]
  <2>1. q \in Loading /\ q.pc # "write"
    BY DEF Loading, Writing
  <2>2. request' = [request EXCEPT ![r] = q] /\ UNCHANGED answered
    BY <1>2 DEF Conflict, Types
  <2> HIDE DEF q
  <2> QED
    BY Zenon, <2>1, <2>2
<1> QED
  BY <1>1, <1>2

LEMMA WriteKeyringOK ==
    ASSUME Types, RingInv, NEW r \in Request, WriteKeyring(r)
    PROVE  RequestOK
<1>1. /\ request[r] \in Writing /\ request[r].id \in Key
      /\ request[r].kind \in {"create", "revoke"}
      /\ request[r].next = Result(request[r].seen, request[r].kind, request[r].id)
      /\ request[r].next # request[r].seen
      /\ request[r].pc # "idle" /\ UNCHANGED token
  BY DEF WriteKeyring, Types, Loading, Writing, Idle, RingInv
<1>2. CASE ring = request[r].seen /\ ring' = request[r].next
  <2>1. /\ ring' \in Keyring /\ Cardinality(Registered(ring')) <= MaxKeys
        /\ \A j \in Key : \/ ring'[j] = ring[j]
                          \/ ring[j] = "absent" /\ ring'[j] = "active"
                          \/ ring[j] = "active" /\ ring'[j] = "revoked"
        /\ ring'[request[r].id] = IF request[r].kind = "create" THEN "active" ELSE "revoked"
    <3>1. /\ ring' = Result(ring, request[r].kind, request[r].id) /\ ring' # ring
          /\ ring \in Keyring /\ Cardinality(Registered(ring)) <= MaxKeys
      BY <1>1, <1>2 DEF Types, RingInv
    <3>2. PICK keys \in Keyring, kind \in {"create", "revoke"}, k \in Key :
              keys = ring /\ kind = request[r].kind /\ k = request[r].id
      BY <1>1, <3>1
    <3>3. Cardinality(Registered(keys)) <= MaxKeys /\ ring' = Result(keys, kind, k)
      BY <3>1, <3>2
    <3> QED
      BY <3>1, <3>2, <3>3, ResultFits
  <2>2. Ages
    BY <1>1, <2>1 DEF Ages
  <2>3. Registered(ring)' = Registered(ring')
    BY DEF Registered
  <2>4. CASE Answer(r)
    <3>1. AnswersKept' /\ answered' \subseteq {"create", "revoke"} \X (Key \cup Token)
      BY <1>1, <2>1, <2>2, <2>4, AnswerKeeps DEF RingInv
    <3>2. request' = [request EXCEPT ![r] = Idle]
      BY <2>4 DEF Answer, EndRequest
    <3> QED
      BY <1>1, <2>1, <2>2, <2>3, <3>1, <3>2, MoveRequest, IdleRequest DEF RequestOK, RingInv, Types
  <2>5. CASE Conflict(r)
    <3>1. PICK q \in {Idle} \cup Loading :
              q.pc # "write" /\ request' = [request EXCEPT ![r] = q] /\ UNCHANGED answered
      BY <1>1, <2>5, ConflictMoves
    <3>2. AnswersKept'
      BY <2>2, <3>1, AgingKeepsAnswers DEF RingInv
    <3> QED
      BY <1>1, <2>1, <2>2, <2>3, <3>1, <3>2, MoveRequest DEF RequestOK, RingInv, Types
  <2> QED
    BY <1>2, <2>4, <2>5 DEF WriteKeyring
<1>3. CASE UNCHANGED ring /\ Conflict(r)
  <2>1. Ages
    BY <1>1, <1>3 DEF Ages
  <2>2. PICK q \in {Idle} \cup Loading :
            q.pc # "write" /\ request' = [request EXCEPT ![r] = q] /\ UNCHANGED answered
    BY <1>1, <1>3, ConflictMoves
  <2>3. AnswersKept'
    BY <2>1, <2>2, AgingKeepsAnswers DEF RingInv
  <2> QED
    BY <1>1, <1>3, <2>1, <2>2, <2>3, MoveRequest DEF RequestOK, RingInv, Types
<1> QED
  BY <1>2, <1>3 DEF WriteKeyring

LEMMA TokensOK ==
    ASSUME Types, RingInv, NEW r \in Request,
           (\E write \in BOOLEAN : CreateToken(r, write)) \/ RevokeToken(r)
    PROVE  RequestOK
<1> DEFINE id == request[r].id
<1>1. /\ id \in Token /\ id \notin Key /\ request[r].pc # "idle" /\ UNCHANGED ring
      /\ token[id] \in TokenRecord
  BY Zenon, CredentialsAssumption DEF CreateToken, RevokeToken, Types
<1>2. CASE \E write \in BOOLEAN : CreateToken(r, write)
  <2>1. PICK write \in BOOLEAN : CreateToken(r, write)
    BY <1>2
  <2> DEFINE new == [standing |-> "active", expires |-> clock + TokenLifetime, write |-> write]
  <2>2. new \in TokenRecord /\ new.standing = "active"
    BY Numbers, ClockIsTime DEF TokenRecord, Standing
  <2>3. /\ token' = [token EXCEPT ![id] = new] /\ token[id].standing = "absent"
        /\ Answer(r) /\ request[r].kind = "create"
    BY <2>1 DEF CreateToken, NoToken
  <2> HIDE DEF new, id
  <2>4. /\ token' \in [Token -> TokenRecord]
        /\ \A t \in Token : token'[t] = IF t = id THEN new ELSE token[t]
    BY <1>1, <2>2, <2>3 DEF Types
  <2>5. Ages
    BY <1>1, <2>3, <2>4 DEF Ages
  <2>6. AnswersKept' /\ answered' \subseteq {"create", "revoke"} \X (Key \cup Token)
    BY <1>1, <2>2, <2>3, <2>4, <2>5, AnswerKeeps DEF RingInv, id
  <2>7. request' = [request EXCEPT ![r] = Idle]
    BY <2>3 DEF Answer, EndRequest
  <2> QED
    BY <1>1, <2>4, <2>5, <2>6, <2>7, MoveRequest, IdleRequest DEF RequestOK, RingInv, Types
<1>3. CASE RevokeToken(r) /\ token[id] = NoToken
  <2>1. UNCHANGED <<token, answered>> /\ request' = [request EXCEPT ![r] = Idle]
    BY <1>3 DEF RevokeToken, EndRequest
  <2>2. Ages
    BY <1>1, <2>1 DEF Ages
  <2>3. AnswersKept'
    BY <2>1, <2>2, AgingKeepsAnswers DEF RingInv
  <2> QED
    BY <1>1, <2>1, <2>2, <2>3, MoveRequest, IdleRequest DEF RequestOK, RingInv, Types
<1>4. CASE RevokeToken(r) /\ token[id] # NoToken
  <2> DEFINE new == [token[id] EXCEPT !.standing = "revoked"]
  <2>1. /\ new \in TokenRecord /\ new.standing = "revoked"
        /\ new.expires = token[id].expires /\ new.write = token[id].write
    BY <1>1 DEF TokenRecord, Standing
  <2>2. /\ token' = [token EXCEPT ![id] = new]
        /\ Answer(r) \/ UNCHANGED <<request, answered>>
    BY <1>1, <1>4 DEF RevokeToken, Types
  <2> HIDE DEF new, id
  <2>3. /\ token' \in [Token -> TokenRecord]
        /\ \A t \in Token : token'[t] = IF t = id THEN new ELSE token[t]
    BY <1>1, <2>1, <2>2 DEF Types
  <2>4. Ages
    BY <1>1, <2>1, <2>3 DEF Ages
  <2>5. CASE Answer(r)
    <3>1. AnswersKept' /\ answered' \subseteq {"create", "revoke"} \X (Key \cup Token)
      BY <1>1, <2>1, <2>3, <2>4, <2>5, AnswerKeeps DEF RingInv, id
    <3>2. request' = [request EXCEPT ![r] = Idle]
      BY <2>5 DEF Answer, EndRequest
    <3> QED
      BY <1>1, <2>3, <2>4, <3>1, <3>2, MoveRequest, IdleRequest DEF RequestOK, RingInv, Types
  <2>6. CASE UNCHANGED <<request, answered>>
    <3>1. AnswersKept'
      BY <2>4, <2>6, AgingKeepsAnswers DEF RingInv
    <3> QED
      BY <1>1, <2>3, <2>4, <2>6, <3>1 DEF RequestOK, RingInv, Types
  <2> QED
    BY <2>2, <2>5, <2>6
<1> QED
  BY <1>2, <1>3, <1>4

LEMMA ManageOK ==
    ASSUME Types, RingInv, NEW r \in Request, Manage(r)
    PROVE  RequestOK /\ UNCHANGED <<grants, role, op, published, clock>>
<1>1. ASSUME NEW kind \in {"create", "revoke"}, NEW id \in Key \cup Token,
             StartRequest(r, kind, id)
      PROVE  RequestOK
  <2> DEFINE q == [pc |-> "load", kind |-> kind, id |-> id, left |-> Attempts]
  <2>1. q \in Loading /\ q.pc # "write"
    BY Numbers DEF Loading
  <2>2. request' = [request EXCEPT ![r] = q] /\ UNCHANGED <<ring, token, answered>>
    BY <1>1 DEF StartRequest
  <2> HIDE DEF q
  <2>3. Ages
    BY <2>2 DEF Ages
  <2>4. AnswersKept'
    BY <2>2, <2>3, AgingKeepsAnswers DEF RingInv
  <2> QED
    BY <2>1, <2>2, <2>3, <2>4, MoveRequest DEF RequestOK, RingInv, Types
<1>2. CASE FailRequest(r)
  <2>1. request' = [request EXCEPT ![r] = Idle] /\ UNCHANGED <<ring, token, answered>>
    BY <1>2 DEF FailRequest, EndRequest
  <2>2. Ages
    BY <2>1 DEF Ages
  <2>3. AnswersKept'
    BY <2>1, <2>2, AgingKeepsAnswers DEF RingInv
  <2> QED
    BY <1>2, <2>1, <2>2, <2>3, MoveRequest, IdleRequest DEF RequestOK, RingInv, Types, FailRequest
<1>3. UNCHANGED <<grants, role, op, published, clock>>
  BY Zenon DEF Manage, StartRequest, LoadKeyring, WriteKeyring, CreateToken, RevokeToken, FailRequest
<1> QED
  BY <1>1, <1>2, <1>3, LoadKeyringOK, WriteKeyringOK, TokensOK DEF Manage, FailRequest

-----------------------------------------------------------------------------
(* Operations. *)

\* A credential that is known and cannot be used will not become usable, and
\* one that is known stays known.
LEMMA AgingKeepsEstablished ==
    ASSUME Types, Ages, NEW p \in Active, Established(p),
           clock' \in Int, clock <= clock', UNCHANGED role
    PROVE  Established(p)'
<1>1. Kinded(p)
  BY DEF Established
<1>2. Known(p) => Known(p)'
  BY <1>1 DEF Known, Kinded, Ages, Types, TokenRecord, Standing
<1>3. ASSUME Known(p), ~Usable(p) PROVE ~Usable(p)'
  <2>1. CASE p.kind \in KeyKinds
    <3>1. p.id \in Key /\ ring[p.id] # "active" /\ ring[p.id] # "absent"
      BY <1>1, <1>3, <2>1 DEF Kinded, Known, Usable, KeyUsable, KeyKinds
    <3>2. ring'[p.id] # "active"
      BY <3>1 DEF Ages
    <3> QED
      BY <2>1, <3>2 DEF Usable, KeyUsable, KeyKinds
  <2>2. CASE p.kind = "token"
    <3>1. p.id \in Token /\ token[p.id].standing # "absent" /\ ~TokenUsable(p.id, p.write)
      BY <1>1, <1>3, <2>2 DEF Kinded, Known, Usable, KeyKinds
    <3>2. /\ token'[p.id].expires = token[p.id].expires
          /\ token'[p.id].write = token[p.id].write
          /\ token'[p.id].standing \in {token[p.id].standing, "revoked"}
          /\ token[p.id].expires \in Int /\ clock \in Int
      BY <3>1 DEF Ages, Types, TokenRecord
    <3>3. ~TokenUsable(p.id, p.write)'
      BY <3>1, <3>2 DEF TokenUsable
    <3> QED
      BY <2>2, <3>3 DEF Usable
  <2>3. CASE p.kind = "session"
    <3>1. ~(p.expires > clock) /\ p.expires \in Int /\ clock \in Int
      BY <1>3, <2>3 DEF Usable, Active, Types
    <3> QED
      BY <2>3, <3>1 DEF Usable
  <2> QED
    BY <2>1, <2>2, <2>3 DEF Active
<1> QED
  BY <1>2, <1>3 DEF Established, Kinded, Suffices

\* What is left of an invariant when operations stand still.
LEMMA AgingKeepsUse ==
    ASSUME Types, UseInv, Ages, clock' \in Int, clock <= clock',
           UNCHANGED <<role, op, published>>
    PROVE  UseInv'
<1>1. ASSUME NEW o \in Operation, op[o].pc \in Authorizing PROVE Established(op[o])'
  <2>1. op[o] \in Active /\ Established(op[o])
    BY <1>1, ActiveOperation
  <2>2. PICK p \in Active : p = op[o]
    BY <2>1
  <2>3. Established(p)'
    BY <2>1, <2>2, AgingKeepsEstablished
  <2> QED
    BY <2>2, <2>3
<1> QED
  BY <1>1 DEF UseInv, RevocationNoticed, GrantBounded

\* An operation that moves to a state in which it has established enough.
LEMMA MoveOperation ==
    ASSUME Types, UseInv, NEW o \in Operation, NEW p \in {Idle} \cup Connected \cup Active,
           p.pc \in Authorizing => Established(p),
           op' = [op EXCEPT ![o] = p],
           UNCHANGED <<ring, token, role, clock>>
    PROVE  /\ op' \in [Operation -> {Idle} \cup Connected \cup Active]
           /\ \A q \in Operation : op'[q].pc \in Authorizing => Established(op[q])'
<1>1. op' \in [Operation -> {Idle} \cup Connected \cup Active]
  BY DEF Types
<1>2. \A q \in Operation : op'[q] = IF q = o THEN p ELSE op[q]
  BY DEF Types
<1>3. ASSUME NEW q \in Operation, op'[q].pc \in Authorizing PROVE Established(op[q])'
  <2>1. Established(op'[q])
    BY <1>2, <1>3 DEF UseInv
  <2> QED
    BY <2>1 DEF Established, Kinded, Known, Suffices, Usable, KeyUsable, TokenUsable
<1> QED
  BY <1>1, <1>3

LEMMA IdleOperation == Idle.pc \notin Authorizing /\ Idle.pc = "idle"
BY DEF Idle, Authorizing

\* What the steps of operations have in common: they leave credentials, roles
\* and the clock alone.
OperationOK ==
    /\ op' \in [Operation -> {Idle} \cup Connected \cup Active]
    /\ UseInv'
    /\ grants' \subseteq [key : Key, write : BOOLEAN, expires : Int]
    /\ UNCHANGED <<ring, token, role, request, answered, clock>>

LEMMA QuietStep ==
    ASSUME Types, UseInv, NEW o \in Operation, NEW p \in {Idle} \cup Connected \cup Active,
           p.pc \in Authorizing => Established(p),
           op' = [op EXCEPT ![o] = p],
           UNCHANGED <<ring, token, grants, role, request, answered, published, clock>>
    PROVE  OperationOK
BY Zenon, MoveOperation DEF OperationOK, UseInv, Types, RevocationNoticed, GrantBounded

LEMMA EndStep ==
    ASSUME Types, UseInv, NEW o \in Operation, End(o),
           UNCHANGED <<ring, token, grants, role, request, answered, published, clock>>
    PROVE  OperationOK
BY Zenon, QuietStep, IdleOperation DEF End

\* The first round of an authorization.
LEMMA BeginStep ==
    ASSUME Types, UseInv, NEW o \in Operation,
           NEW c \in [kind : KeyKinds \cup {"token", "session"},
                      id : Key \cup Token \cup {NoCredential}, write : BOOLEAN, expires : Int],
           Kinded(c), c.kind = "grant" => clock < c.expires,
           op' = [op EXCEPT ![o] = Begun(c)],
           UNCHANGED <<ring, token, grants, role, request, answered, published, clock>>
    PROVE  OperationOK
<1> DEFINE p == Begun(c)
<1>1. /\ p.pc = "verify" /\ p.kind = c.kind /\ p.id = c.id /\ p.write = c.write
      /\ p.expires = c.expires /\ p.deadline = clock + TransferTime
      /\ p.held = Suffices(c.write)
  BY DEF Begun
<1>2. p \in Active
  <2>1. clock + TransferTime \in Int
    BY Numbers, ClockIsTime
  <2>2. (~Usable(c)) \in BOOLEAN /\ Suffices(c.write) \in BOOLEAN
    BY Zenon DEF Suffices
  <2> QED
    BY <2>1, <2>2 DEF Begun, Active, Authorizing
<1>3. Established(p)
  <2> HIDE DEF p
  <2>1. Kinded(p) /\ (Suffices(p.write) => p.held)
    BY <1>1 DEF Kinded
  <2>2. p.kind = "grant" => p.deadline < p.expires + TransferTime
    BY <1>1, Numbers, ClockIsTime
  <2> QED
    BY <1>1, <2>1, <2>2 DEF Established
<1> HIDE DEF p
<1>4. op' = [op EXCEPT ![o] = p]
  BY DEF p
<1> QED
  BY Zenon, <1>2, <1>3, <1>4, QuietStep

LEMMA GotoStep ==
    ASSUME Types, UseInv, NEW o \in Operation, op[o].pc \in Authorizing,
           NEW pc \in Authorizing \ {"verify", "reverify"}, Goto(o, pc),
           Known(op[o]),
           pc \in {"reauthorize", "publish"} => ~op[o].stale,
           pc = "publish" => op[o].held,
           pc = "issue" => op[o].kind = "authenticate",
           UNCHANGED <<ring, token, grants, role, request, answered, published, clock>>
    PROVE  OperationOK
<1> DEFINE p == [op[o] EXCEPT !.pc = pc]
<1>1. op[o] \in Active /\ Established(op[o])
  BY ActiveOperation
<1>2. /\ p \in Active /\ p.pc = pc /\ p.kind = op[o].kind /\ p.id = op[o].id
      /\ p.write = op[o].write /\ p.expires = op[o].expires /\ p.deadline = op[o].deadline
      /\ p.stale = op[o].stale /\ p.held = op[o].held
  BY <1>1 DEF Active
<1>3. op' = [op EXCEPT ![o] = p]
  BY DEF Goto, Types
<1> HIDE DEF p
<1>4. Established(p)
  BY <1>1, <1>2 DEF Established, Kinded, Known
<1> QED
  BY Zenon, <1>2, <1>3, <1>4, QuietStep

LEMMA VerifiedStep ==
    ASSUME Types, UseInv, NEW o \in Operation, Verified(o)
    PROVE  OperationOK
<1>1. op[o] \in Active /\ Established(op[o]) /\ op[o].pc \in {"verify", "reverify"}
  BY ActiveOperation DEF Verified, Authorizing
<1>2. CASE ~Usable(op[o])
  BY <1>2, EndStep DEF Verified
<1>3. CASE Usable(op[o])
  <2>1. Known(op[o])
    BY <1>1, <1>3 DEF Known, Usable, KeyUsable, TokenUsable, KeyKinds, Active
  <2>2. op[o].pc = "reverify" => ~op[o].stale
    BY <1>1, <1>3 DEF Established
  <2>3. CASE op[o].pc = "verify"
    <3>1. Goto(o, "authorize")
      BY <1>3, <2>3 DEF Verified
    <3> QED
      BY <1>1, <2>1, <2>3, <3>1, GotoStep DEF Verified, Authorizing
  <2>4. CASE op[o].pc = "reverify"
    <3>1. Goto(o, "reauthorize")
      BY <1>3, <2>4 DEF Verified
    <3> QED
      BY <1>1, <2>1, <2>2, <2>4, <3>1, GotoStep DEF Verified, Authorizing
  <2> QED
    BY <1>1, <2>3, <2>4
<1> QED
  BY <1>2, <1>3

LEMMA AuthorizeStep ==
    ASSUME Types, UseInv, NEW o \in Operation, Authorize(o)
    PROVE  OperationOK
<1>1. /\ op[o] \in Active /\ Established(op[o]) /\ op[o].pc \in {"authorize", "reauthorize"}
      /\ UNCHANGED <<ring, token, grants, role, request, answered, published, clock>>
  BY ActiveOperation DEF Authorize, Authorizing
<1>2. Known(op[o]) /\ (op[o].pc = "reauthorize" => ~op[o].stale)
  BY <1>1 DEF Established
<1>3. CASE ~Suffices(op[o].write)
  BY <1>1, <1>3, EndStep DEF Authorize
<1>4. CASE Suffices(op[o].write) /\ op[o].pc = "reauthorize"
  <2>1. op[o].held /\ Goto(o, "publish")
    BY <1>1, <1>4 DEF Authorize, Established
  <2> QED
    BY <1>1, <1>2, <1>4, <2>1, GotoStep DEF Authorizing
<1>5. CASE Suffices(op[o].write) /\ op[o].pc = "authorize"
  <2>1. (op[o].kind = "authenticate" /\ Goto(o, "issue")) \/ Goto(o, "transfer")
    <3>1. CASE op[o].kind = "authenticate"
      BY <1>5, <3>1 DEF Authorize
    <3>2. CASE op[o].kind # "authenticate"
      BY <1>5, <3>2 DEF Authorize
    <3> QED
      BY <3>1, <3>2
  <2> QED
    BY <1>1, <1>2, <1>5, <2>1, GotoStep DEF Authorizing
<1> QED
  BY <1>1, <1>3, <1>4, <1>5

LEMMA TransferStep ==
    ASSUME Types, UseInv, NEW o \in Operation, Transfer(o)
    PROVE  OperationOK
<1>1. /\ op[o] \in Active /\ Established(op[o]) /\ op[o].pc = "transfer"
      /\ UNCHANGED <<ring, token, grants, role, request, answered, published, clock>>
  BY ActiveOperation DEF Transfer, Authorizing
<1>2. CASE ~op[o].write
  BY <1>1, <1>2, EndStep DEF Transfer
<1>3. CASE op[o].write
  <2> DEFINE p == [op[o] EXCEPT !.pc = "reverify", !.stale = ~Usable(op[o]),
                                !.held = Suffices(op[o].write)]
  <2>1. (~Usable(op[o])) \in BOOLEAN /\ Suffices(op[o].write) \in BOOLEAN
    BY Zenon DEF Suffices
  <2>2. /\ p \in Active /\ p.pc = "reverify" /\ p.kind = op[o].kind /\ p.id = op[o].id
        /\ p.write = op[o].write /\ p.expires = op[o].expires /\ p.deadline = op[o].deadline
        /\ p.stale = ~Usable(op[o]) /\ p.held = Suffices(op[o].write)
    BY Zenon, <1>1, <2>1 DEF Active, Authorizing
  <2>3. op' = [op EXCEPT ![o] = p]
    BY Zenon, <1>1, <1>3 DEF Transfer, Reauthorize, Types
  <2> HIDE DEF p
  <2>4. Usable(p) = Usable(op[o])
    BY <2>2 DEF Usable
  <2>5. Established(p)
    BY Zenon, <1>1, <2>2, <2>4 DEF Established, Kinded, Known
  <2> QED
    BY Zenon, <1>1, <2>2, <2>3, <2>5, QuietStep
<1> QED
  BY <1>2, <1>3

LEMMA IssueStep ==
    ASSUME Types, UseInv, NEW o \in Operation, Issue(o)
    PROVE  OperationOK
<1>1. op[o] \in Active /\ op[o].id \in Key /\ op[o].write \in BOOLEAN
  <2>1. op[o] \in Active /\ Established(op[o]) /\ op[o].pc = "issue"
    BY ActiveOperation DEF Issue, Authorizing
  <2> QED
    BY <2>1 DEF Active, Established, Kinded, KeyKinds
<1>2. grants' \subseteq [key : Key, write : BOOLEAN, expires : Int]
  <2>1. clock + GrantLifetime \in Int
    BY Numbers, ClockIsTime
  <2>2. [key |-> op[o].id, write |-> op[o].write, expires |-> clock + GrantLifetime]
            \in [key : Key, write : BOOLEAN, expires : Int]
    BY <1>1, <2>1
  <2> QED
    BY <2>2 DEF Issue, Types
<1>3. /\ op' = [op EXCEPT ![o] = Idle]
      /\ UNCHANGED <<ring, token, role, request, answered, published, clock>>
  BY DEF Issue, End
<1> QED
  BY Zenon, <1>2, <1>3, MoveOperation, IdleOperation
     DEF OperationOK, UseInv, RevocationNoticed, GrantBounded

\* A write that publishes has noticed everything.
LEMMA PublishStep ==
    ASSUME Types, UseInv, NEW o \in Operation, Publish(o)
    PROVE  OperationOK
<1>1. op[o] \in Active /\ Established(op[o]) /\ op[o].pc = "publish" /\ InTime(o)
  BY ActiveOperation DEF Publish, Authorizing
<1>2. ~op[o].stale /\ op[o].held
  BY <1>1 DEF Established
<1>3. ~(op[o].kind = "grant" /\ clock >= op[o].expires + TransferTime)
  <2>1. op[o].deadline \in Int /\ op[o].expires \in Int
    BY <1>1 DEF Active
  <2>2. op[o].kind = "grant" => op[o].deadline < op[o].expires + TransferTime
    BY <1>1 DEF Established
  <2>3. clock <= op[o].deadline
    BY <1>1 DEF InTime
  <2> QED
    BY <2>1, <2>2, <2>3, Numbers, ClockIsTime
<1> DEFINE w == [stale |-> op[o].stale, held |-> op[o].held,
                 late |-> op[o].kind = "grant" /\ clock >= op[o].expires + TransferTime]
<1>4. ~w.stale /\ w.held /\ ~w.late
  BY Zenon, <1>2, <1>3
<1>5. /\ op' = [op EXCEPT ![o] = Idle] /\ published' = published \cup {w}
      /\ UNCHANGED <<ring, token, role, request, answered, clock, grants>>
  BY DEF Publish, End
<1> HIDE DEF w
<1>6. RevocationNoticed' /\ GrantBounded'
  BY <1>4, <1>5 DEF UseInv, RevocationNoticed, GrantBounded
<1> QED
  BY Zenon, <1>5, <1>6, MoveOperation, IdleOperation DEF OperationOK, UseInv, Types

LEMMA HttpStep ==
    ASSUME Types, UseInv, NEW o \in Operation, StartHttp(o)
    PROVE  OperationOK
<1>1. ASSUME NEW t \in Token, NEW write \in BOOLEAN,
             Admit(o, [kind |-> "token", id |-> t, write |-> write, expires |-> 0])
      PROVE  OperationOK
  <2> DEFINE c == [kind |-> "token", id |-> t, write |-> write, expires |-> 0]
  <2>2. /\ c \in [kind : KeyKinds \cup {"token", "session"},
                  id : Key \cup Token \cup {NoCredential}, write : BOOLEAN, expires : Int]
        /\ Kinded(c) /\ c.kind # "grant"
    BY DEF Kinded, KeyKinds
  <2>3. /\ op' = [op EXCEPT ![o] = Begun(c)]
        /\ UNCHANGED <<ring, token, grants, role, request, answered, published, clock>>
    BY <1>1 DEF Admit
  <2> HIDE DEF c
  <2> QED
    BY Zenon, <2>2, <2>3, BeginStep
<1>2. ASSUME NEW g \in grants, g.expires > clock,
             Admit(o, [kind |-> "grant", id |-> g.key, write |-> g.write, expires |-> g.expires])
      PROVE  OperationOK
  <2> DEFINE c == [kind |-> "grant", id |-> g.key, write |-> g.write, expires |-> g.expires]
  <2>1. g.key \in Key /\ g.write \in BOOLEAN /\ g.expires \in Int /\ clock \in Int
    BY DEF Types
  <2>2. /\ c \in [kind : KeyKinds \cup {"token", "session"},
                  id : Key \cup Token \cup {NoCredential}, write : BOOLEAN, expires : Int]
        /\ Kinded(c) /\ clock < c.expires
    BY <1>2, <2>1 DEF Kinded, KeyKinds
  <2>3. /\ op' = [op EXCEPT ![o] = Begun(c)]
        /\ UNCHANGED <<ring, token, grants, role, request, answered, published, clock>>
    BY <1>2 DEF Admit
  <2> HIDE DEF c
  <2> QED
    BY Zenon, <2>2, <2>3, BeginStep
<1>3. ASSUME NEW expires \in clock .. clock + SessionLifetime, NEW write \in BOOLEAN,
             Admit(o, [kind |-> "session", id |-> NoCredential, write |-> write, expires |-> expires])
      PROVE  OperationOK
  <2> DEFINE c == [kind |-> "session", id |-> NoCredential, write |-> write, expires |-> expires]
  <2>1. expires \in Int
    OBVIOUS
  <2>2. /\ c \in [kind : KeyKinds \cup {"token", "session"},
                  id : Key \cup Token \cup {NoCredential}, write : BOOLEAN, expires : Int]
        /\ Kinded(c) /\ c.kind # "grant"
    BY <2>1 DEF Kinded, KeyKinds
  <2>3. /\ op' = [op EXCEPT ![o] = Begun(c)]
        /\ UNCHANGED <<ring, token, grants, role, request, answered, published, clock>>
    BY <1>3 DEF Admit
  <2> HIDE DEF c
  <2> QED
    BY Zenon, <2>2, <2>3, BeginStep
<1> QED
  BY Zenon, <1>1, <1>2, <1>3 DEF StartHttp

LEMMA SshStep ==
    ASSUME Types, UseInv, NEW o \in Operation,
           \/ \E k \in Key : Connect(o, k)
           \/ \E kind \in {"ssh", "authenticate"}, write \in BOOLEAN : Command(o, kind, write)
    PROVE  OperationOK
<1>1. ASSUME NEW k \in Key, Connect(o, k) PROVE OperationOK
  <2>1. [pc |-> "connected", id |-> k] \in Connected /\ "connected" \notin Authorizing
    BY DEF Connected, Authorizing
  <2> QED
    BY Zenon, <1>1, <2>1, QuietStep DEF Connect
<1>2. ASSUME NEW kind \in {"ssh", "authenticate"}, NEW write \in BOOLEAN, Command(o, kind, write)
      PROVE  OperationOK
  <2> DEFINE c == [kind |-> kind, id |-> op[o].id, write |-> write, expires |-> 0]
  <2>1. op[o].id \in Key
    <3>1. op[o] \in {Idle} \cup Connected \cup Active /\ op[o].pc = "connected"
      BY <1>2 DEF Command, Types
    <3> QED
      BY <3>1, Shape DEF Authorizing
  <2>2. /\ c \in [kind : KeyKinds \cup {"token", "session"},
                  id : Key \cup Token \cup {NoCredential}, write : BOOLEAN, expires : Int]
        /\ Kinded(c) /\ c.kind # "grant"
    BY <2>1 DEF Kinded, KeyKinds
  <2>3. /\ op' = [op EXCEPT ![o] = Begun(c)]
        /\ UNCHANGED <<ring, token, grants, role, request, answered, published, clock>>
    BY <1>2 DEF Command
  <2> HIDE DEF c
  <2> QED
    BY Zenon, <2>2, <2>3, BeginStep
<1> QED
  BY <1>1, <1>2

LEMMA ServeKeeps ==
    ASSUME Types, UseInv, NEW o \in Operation, Serve(o)
    PROVE  OperationOK
<1>1. CASE Verified(o)
  BY <1>1, VerifiedStep
<1>2. CASE FailOperation(o)
  BY <1>2, EndStep DEF FailOperation
<1> QED
  BY <1>1, <1>2, SshStep, HttpStep, AuthorizeStep, IssueStep, TransferStep, PublishStep
     DEF Serve, VerifyKey, VerifyToken, VerifyGrant, VerifySession

\* A role that changes is remembered by the operations under way.
LEMMA SetRoleKeeps ==
    ASSUME Types, UseInv, NEW new \in {"none", "read", "write"}, SetRole(new)
    PROVE  op' \in [Operation -> {Idle} \cup Connected \cup Active] /\ UseInv'
<1> DEFINE Enough(write) == IF write THEN new = "write" ELSE new # "none"
           After(o) == IF op[o].pc \in {"idle", "connected"} THEN op[o]
                       ELSE [op[o] EXCEPT !.held = @ \/ Enough(op[o].write)]
<1>1. op' = [o \in Operation |-> After(o)] /\ role' = new
      /\ UNCHANGED <<ring, token, published, clock>>
  BY DEF SetRole
<1>2. ASSUME NEW o \in Operation, op[o].pc \in {"idle", "connected"}
      PROVE  After(o) \in {Idle} \cup Connected /\ After(o).pc \notin Authorizing
  BY <1>2 DEF Types, Idle, Connected, Active, Authorizing
<1>3. ASSUME NEW o \in Operation, op[o].pc \notin {"idle", "connected"}
      PROVE  /\ op[o] \in Active /\ Established(op[o]) /\ After(o) \in Active
             /\ After(o).pc = op[o].pc /\ After(o).kind = op[o].kind /\ After(o).id = op[o].id
             /\ After(o).write = op[o].write /\ After(o).expires = op[o].expires
             /\ After(o).deadline = op[o].deadline /\ After(o).stale = op[o].stale
             /\ (op[o].held \/ Enough(op[o].write)) => After(o).held
  <2>1. op[o] \in Active /\ op[o].pc \in Authorizing
    <3>1. op[o] \in {Idle} \cup Connected \cup Active
      BY DEF Types
    <3> QED
      BY <1>3, <3>1, Shape
  <2>2. (op[o].held \/ Enough(op[o].write)) \in BOOLEAN
    OBVIOUS
  <2>3. After(o) = [op[o] EXCEPT !.held = op[o].held \/ Enough(op[o].write)]
    BY <1>3
  <2>4. After(o).held = (op[o].held \/ Enough(op[o].write))
    BY <2>1, <2>3 DEF Active
  <2> HIDE DEF Enough
  <2> QED
    BY ZenonT(30), <2>1, <2>2, <2>3, <2>4 DEF Active, UseInv
<1> HIDE DEF After
<1>4. op' \in [Operation -> {Idle} \cup Connected \cup Active]
  BY <1>1, <1>2, <1>3
<1>5. ASSUME NEW o \in Operation, op'[o].pc \in Authorizing PROVE Established(op[o])'
  <2>1. op'[o] = After(o)
    BY <1>1
  <2>2. op[o].pc \notin {"idle", "connected"}
    BY <1>2, <1>5, <2>1
  <2>3. PICK p : p = op'[o]
    OBVIOUS
  <2>4. /\ Established(op[o]) /\ p.pc = op[o].pc /\ p.kind = op[o].kind /\ p.id = op[o].id
        /\ p.write = op[o].write /\ p.expires = op[o].expires
        /\ p.deadline = op[o].deadline /\ p.stale = op[o].stale
        /\ (op[o].held \/ Enough(op[o].write)) => p.held
    BY <1>3, <2>1, <2>2, <2>3
  <2>5. Usable(p)' = Usable(op[o])
    BY <1>1, <2>4 DEF Usable, KeyUsable, TokenUsable
  <2>6. Suffices(p.write)' => p.held
    BY <1>1, <2>4 DEF Suffices
  <2>7. Known(op[o]) => Known(p)'
    BY <1>1, <2>4 DEF Known
  <2>8. Established(p)'
    BY Zenon, <2>4, <2>5, <2>6, <2>7 DEF Established, Kinded
  <2> QED
    BY <2>3, <2>8
<1> QED
  BY <1>1, <1>4, <1>5 DEF UseInv, RevocationNoticed, GrantBounded

-----------------------------------------------------------------------------
LEMMA InitInv == Init => CredentialsInv
<1> SUFFICES ASSUME Init PROVE CredentialsInv
  OBVIOUS
<1>1. Types
  BY Numbers DEF Init, Types, Keyring, Standing, TokenRecord, NoToken
<1>2. Cardinality(Registered(ring)) = 0
  <2>1. Registered(ring) = {}
    BY DEF Init, Registered
  <2> QED
    BY <2>1, FS_EmptySet
<1>3. RingInv
  BY <1>2, CredentialsAssumption DEF Init, RingInv, AnswersKept, Idle
<1>4. UseInv
  BY DEF Init, UseInv, RevocationNoticed, GrantBounded, Idle, Authorizing
<1> QED
  BY <1>1, <1>3, <1>4 DEF CredentialsInv

LEMMA NextKeeps ==
    ASSUME CredentialsInv, [Next]_vars
    PROVE  CredentialsInv' /\ Ages
<1>1. Types /\ RingInv /\ UseInv /\ clock \in Int
  BY DEF CredentialsInv, Types
<1>2. ASSUME UNCHANGED <<ring, token, request, answered>> PROVE RingInv' /\ Ages
  <2>1. Ages
    BY <1>2 DEF Ages
  <2> QED
    BY <1>1, <1>2, <2>1, AgingKeepsAnswers DEF RingInv, Registered
<1>3. ASSUME NEW r \in Request, Manage(r) PROVE CredentialsInv' /\ Ages
  <2>1. RequestOK /\ UNCHANGED <<grants, role, op, published, clock>>
    BY <1>1, <1>3, ManageOK
  <2>2. UseInv'
    BY <1>1, <2>1, AgingKeepsUse DEF RequestOK
  <2>3. Types'
    BY <1>1, <2>1 DEF Types, RequestOK
  <2> QED
    BY <2>1, <2>2, <2>3 DEF CredentialsInv, RequestOK
<1>4. ASSUME NEW o \in Operation, Serve(o) PROVE CredentialsInv' /\ Ages
  <2>1. OperationOK
    BY <1>1, <1>4, ServeKeeps
  <2>2. Types'
    BY <1>1, <2>1 DEF Types, OperationOK
  <2> QED
    BY <1>2, <2>1, <2>2 DEF CredentialsInv, OperationOK
<1>5. ASSUME NEW new \in {"none", "read", "write"}, SetRole(new) PROVE CredentialsInv' /\ Ages
  <2>1. op' \in [Operation -> {Idle} \cup Connected \cup Active] /\ UseInv'
    BY <1>1, <1>5, SetRoleKeeps
  <2>2. Types'
    BY <1>1, <1>5, <2>1 DEF Types, SetRole
  <2> QED
    BY <1>2, <1>5, <2>1, <2>2 DEF CredentialsInv, SetRole
<1>6. CASE Tick
  <2>1. clock' \in Int /\ clock <= clock' /\ clock' \in 0 .. MaxTime
    BY <1>1, <1>6, Numbers, ClockIsTime DEF Tick
  <2>2. RingInv' /\ Ages
    BY <1>2, <1>6 DEF Tick
  <2>3. UseInv'
    BY <1>1, <1>6, <2>1, <2>2, AgingKeepsUse DEF Tick
  <2>4. Types'
    BY <1>1, <1>6, <2>1 DEF Types, Tick
  <2> QED
    BY <2>2, <2>3, <2>4 DEF CredentialsInv
<1>7. CASE UNCHANGED vars
  <2>1. RingInv' /\ Ages
    BY <1>2, <1>7 DEF vars
  <2>2. UseInv'
    BY <1>1, <1>7, <2>1, AgingKeepsUse DEF vars
  <2>3. Types'
    BY <1>1, <1>7 DEF Types, vars
  <2> QED
    BY <2>1, <2>2, <2>3 DEF CredentialsInv
<1> QED
  BY <1>3, <1>4, <1>5, <1>6, <1>7 DEF Next

\* The inductive invariant of credentials and of what uses them.
THEOREM CredentialsInvariant == Spec => []CredentialsInv
<1>1. CredentialsInv /\ [Next]_vars => CredentialsInv'
  BY NextKeeps
<1> QED
  BY InitInv, <1>1, PTL DEF Spec

\* Types, and the limit of a keyring: createSSHKey counts revoked keys too.
THEOREM TypeCorrect == Spec => []TypeOK
<1>1. CredentialsInv => TypeOK
  BY DEF CredentialsInv, Types, RingInv, TypeOK, Keyring, TokenRecord
<1> QED
  BY CredentialsInvariant, <1>1, PTL

\* What createSSHKey, revokeSSHKey and the token handlers answered stays true,
\* whatever requests race for the keyring and however often they retry.
THEOREM AnswersStayTrue == Spec => []AnswersKept
<1>1. CredentialsInv => AnswersKept
  BY DEF CredentialsInv, RingInv
<1> QED
  BY CredentialsInvariant, <1>1, PTL

\* The final authorization of a write notices every revocation, expiry and
\* loss of a role that came before it.
THEOREM RevocationsNoticed == Spec => []RevocationNoticed
<1>1. CredentialsInv => RevocationNoticed
  BY DEF CredentialsInv, UseInv
<1> QED
  BY CredentialsInvariant, <1>1, PTL

\* Nothing is published with an LFS grant later than the deadline of a
\* transfer after its expiry.
THEOREM GrantsBounded == Spec => []GrantBounded
<1>1. CredentialsInv => GrantBounded
  BY DEF CredentialsInv, UseInv
<1> QED
  BY CredentialsInvariant, <1>1, PTL

\* A revoked key or token is revoked for ever.
THEOREM TombstonesWin == Spec => TombstoneWins
<1> DEFINE A == /\ \A k \in Key : ring[k] = "revoked" => ring'[k] = "revoked"
                /\ \A t \in Token : token[t].standing = "revoked" => token'[t].standing = "revoked"
<1>1. CredentialsInv /\ [Next]_vars => [A]_vars
  BY NextKeeps DEF Ages
<1> QED
  BY CredentialsInvariant, <1>1, PTL DEF Spec, TombstoneWins

\* What was answered about keys and tokens stays true, and grants end.
THEOREM CredentialsStaySafe == Spec => []CredentialsSafe
BY TypeCorrect, AnswersStayTrue, GrantsBounded, PTL DEF CredentialsSafe

=============================================================================
