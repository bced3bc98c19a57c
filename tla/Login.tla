-------------------------------- MODULE Login --------------------------------
(***************************************************************************)
(* Login through an OpenID Connect provider, as internal/auth/service.go    *)
(* serves it.  A login leaves a transaction in the bucket and a cookie in   *)
(* the browser; the provider sends the browser back with the signed state   *)
(* of the login and a code; the callback consumes the transaction,          *)
(* exchanges the code for an identity, claims or compares the username, and *)
(* answers with a session.  Sessions are signed cookies: no process         *)
(* remembers them, so sessions holds every one that was ever made.          *)
(*                                                                          *)
(* The provider is external: whoever sits at the browser may sign in as any *)
(* identity, or decline; it may also refuse a code.  Requests and callbacks *)
(* run concurrently, may arrive twice and from other browsers, and the      *)
(* bucket's lifecycle rule removes expired transactions.                    *)
(***************************************************************************)
EXTENDS Integers

CONSTANTS
    Username,         \* names whose owner is this shard
    Identity,         \* what the provider vouches for: issuer and subject
    Browser,
    LoginID,          \* random IDs of transactions; also their browser tokens
    Call,             \* concurrent HTTP requests
    NoRecord,         \* there is no namespace object
    GroupRecord,      \* the object of a group
    None,             \* no cookie, no identity
    Keep,             \* a response that does not set the cookie
    LoginLifetime,    \* loginLifetime
    SessionLifetime,  \* sessionLifetime
    CallTime,         \* the time limit of a callback
    MaxTime,          \* bound on the clock
    Faults            \* may a write take effect and be answered with an error?

Mode == {"login", "register", "first"}

ASSUME LoginAssumption ==
    /\ NoRecord \notin Identity /\ GroupRecord \notin Identity /\ NoRecord # GroupRecord
    /\ None \notin LoginID \cup Identity \cup Username /\ Keep \notin LoginID /\ Keep # None
    /\ {LoginLifetime, SessionLifetime, CallTime, MaxTime} \subseteq Nat
    /\ Faults \in BOOLEAN

VARIABLES
    namespace,  \* auth/users/<name>.json
    stored,     \* auth/transactions/<id>
    login,      \* login[l]: the signed state of a login and its browser
    cookie,     \* cookie[b]: the login cookie of a browser
    session,    \* session[b]: the session cookie of a browser
    sessions,   \* every session that was made
    call,       \* call[c]: a request and what it has in memory
    clock

vars == <<namespace, stored, login, cookie, session, sessions, call, clock>>

State == [user : Username, mode : Mode, browser : Browser, expires : Int]

NoLogin == [user |-> None]

Session == [login : LoginID, user : Username, identity : Identity, by : Call, issued : Int, expires : Int]

NoSession == [login |-> None]

Idle == [pc |-> "idle"]

-----------------------------------------------------------------------------
(* Requests and responses *)

End(c) == call' = [call EXCEPT ![c] = Idle]

Goto(c, pc) == call' = [call EXCEPT ![c].pc = pc]

\* The response reaches the browser later, if at all.
Respond(c, newCookie, newSession) ==
    call' = [call EXCEPT ![c] =
        [pc |-> "answer", browser |-> call[c].browser, cookie |-> newCookie, session |-> newSession]]

Deliver(c) ==
    /\ call[c].pc = "answer"
    /\ LET b == call[c].browser
           n == call[c].cookie
           s == call[c].session
       IN /\ cookie' = [cookie EXCEPT ![b] = IF n = Keep THEN @ ELSE n]
          /\ session' = [session EXCEPT ![b] = IF s = Keep THEN @ ELSE s]
    /\ End(c)
    /\ UNCHANGED <<namespace, stored, login, sessions, clock>>

\* A call to the bucket fails, the process dies, or the response is lost.
Fail(c) ==
    /\ call[c].pc # "idle"
    /\ End(c)
    /\ UNCHANGED <<namespace, stored, login, cookie, session, sessions, clock>>

InTime(c) == clock <= call[c].deadline

-----------------------------------------------------------------------------
(* login *)

StartLogin(c, b, n, m) ==
    /\ call[c].pc = "idle"
    /\ call' = [call EXCEPT ![c] = [pc |-> "load", browser |-> b, user |-> n, mode |-> m]]
    /\ UNCHANGED <<namespace, stored, login, cookie, session, sessions, clock>>

MayLogin(record, m) ==
    /\ record # GroupRecord
    /\ m = "register" => record = NoRecord
    /\ m = "login" => record # NoRecord

LoadName(c) ==
    /\ call[c].pc = "load"
    /\ LET n == call[c].user
           m == call[c].mode
       IN \/ /\ ~MayLogin(namespace[n], m)
             /\ End(c) /\ UNCHANGED login
          \/ /\ MayLogin(namespace[n], m)
             /\ \E l \in LoginID :
                   /\ login[l] = NoLogin
                   /\ login' = [login EXCEPT ![l] =
                          [user |-> n, mode |-> m, browser |-> call[c].browser,
                           expires |-> clock + LoginLifetime]]
                   /\ call' = [call EXCEPT ![c] =
                          [pc |-> "put", browser |-> call[c].browser, login |-> l]]
    /\ UNCHANGED <<namespace, stored, cookie, session, sessions, clock>>

PutTransaction(c) ==
    /\ call[c].pc = "put"
    /\ stored' = [stored EXCEPT ![call[c].login] = "open"]
    /\ Respond(c, call[c].login, Keep) \/ (Faults /\ End(c))
    /\ UNCHANGED <<namespace, login, cookie, session, sessions, clock>>

-----------------------------------------------------------------------------
(* callback *)

\* decodeState: a signed state is known once its login was answered.
Decodes(l) == login[l] # NoLogin /\ stored[l] # "new" /\ login[l].expires > clock

\* The provider's answer is an identity, or None when the user declined.
StartCallback(c, b, l, answer) ==
    /\ call[c].pc = "idle"
    /\ Decodes(l)
    /\ cookie[b] # None
    /\ call' = [call EXCEPT ![c] =
           [pc |-> "read", browser |-> b, login |-> l, token |-> cookie[b],
            identity |-> answer, deadline |-> clock + CallTime]]
    /\ UNCHANGED <<namespace, stored, login, cookie, session, sessions, clock>>

\* The browser hash of the transaction is not compared.
BelongsTrusting(c) == stored[call[c].login] = "open"

\* The transaction is there, unused, and made for this browser.
Belongs(c) == stored[call[c].login] = "open" /\ call[c].token = call[c].login

ReadTransaction(c) ==
    /\ call[c].pc = "read" /\ InTime(c)
    /\ IF Belongs(c) THEN Goto(c, "consume") ELSE End(c)
    /\ UNCHANGED <<namespace, stored, login, cookie, session, sessions, clock>>

\* The transaction is marked without a condition.
MarkUsedBlind(l) == stored' = [stored EXCEPT ![l] = "used"]

\* A Put that replaces exactly the transaction that was read.
MarkUsed(l) == stored[l] = "open" /\ stored' = [stored EXCEPT ![l] = "used"]

Consume(c) ==
    /\ call[c].pc = "consume" /\ InTime(c)
    /\ \/ /\ MarkUsed(call[c].login)
          /\ \/ call[c].identity = None /\ Respond(c, None, Keep)
             \/ call[c].identity # None /\ Goto(c, "exchange")
             \/ Faults /\ End(c)
       \/ /\ stored[call[c].login] # "open"
          /\ End(c)
          /\ UNCHANGED stored
    /\ UNCHANGED <<namespace, login, cookie, session, sessions, clock>>

Exchange(c) ==
    /\ call[c].pc = "exchange" /\ InTime(c)
    /\ Goto(c, "complete") \/ Respond(c, None, Keep)
    /\ UNCHANGED <<namespace, stored, login, cookie, session, sessions, clock>>

-----------------------------------------------------------------------------
(* completeLogin *)

User(c) == login[call[c].login].user

\* Both the session and the response that carries it.
Grant(c) ==
    LET s == [login |-> call[c].login, user |-> User(c), identity |-> call[c].identity,
              by |-> c, issued |-> clock, expires |-> clock + SessionLifetime]
    IN /\ sessions' = sessions \cup {s}
       /\ Respond(c, None, s)

Refuse(c) == Respond(c, None, Keep) /\ UNCHANGED sessions

\* The record is a user's, with the identity of the caller.
Owns(n, i) == namespace[n] = i

Compare(c) == IF Owns(User(c), call[c].identity) THEN Grant(c) ELSE Refuse(c)

\* Only the record of another user is in the way.
ClaimOverGroup(n, i) == namespace[n] \notin Identity /\ namespace' = [namespace EXCEPT ![n] = i]

\* writeNamespace with no version: only a free name can be claimed.
Claim(n, i) == namespace[n] = NoRecord /\ namespace' = [namespace EXCEPT ![n] = i]

\* The answer to a conflict: bindUser reloads, a registration is refused.
Taken(c) ==
    /\ IF login[call[c].login].mode = "first" THEN Goto(c, "reload") ELSE Respond(c, None, Keep)
    /\ UNCHANGED sessions

CompleteLogin(c) ==
    /\ call[c].pc = "complete" /\ InTime(c)
    /\ \/ /\ login[call[c].login].mode = "login"
          /\ Compare(c)
          /\ UNCHANGED namespace
       \/ /\ login[call[c].login].mode # "login"
          /\ \/ /\ Claim(User(c), call[c].identity)
                /\ Grant(c) \/ (Faults /\ Taken(c))
             \/ /\ namespace[User(c)] # NoRecord
                /\ Taken(c)
                /\ UNCHANGED namespace
    /\ UNCHANGED <<stored, login, cookie, session, clock>>

BindReload(c) ==
    /\ call[c].pc = "reload" /\ InTime(c)
    /\ Compare(c)
    /\ UNCHANGED <<namespace, stored, login, cookie, session, clock>>

-----------------------------------------------------------------------------
(* Requests with a session *)

ReadSession(b) == session[b] # NoSession /\ session[b].expires > clock

StartVisit(c, b, n) ==
    /\ call[c].pc = "idle"
    /\ ReadSession(b)
    /\ call' = [call EXCEPT ![c] = [pc |-> "visit", browser |-> b, user |-> n, session |-> session[b]]]
    /\ UNCHANGED <<namespace, stored, login, cookie, session, sessions, clock>>

\* A user's own space: the name of the session and its identity both match.
Visit(c) ==
    /\ call[c].pc = "visit"
    /\ LET s == call[c].session
           n == call[c].user
       IN IF s.user = n /\ Owns(n, s.identity) THEN Goto(c, "next") ELSE End(c)
    /\ UNCHANGED <<namespace, stored, login, cookie, session, sessions, clock>>

\* /<username>/auth/logout after its checks, and /api/v1/logout.
Logout(c) ==
    /\ call[c].pc = "next"
    /\ Respond(c, Keep, NoSession)
    /\ UNCHANGED <<namespace, stored, login, cookie, session, sessions, clock>>

-----------------------------------------------------------------------------
(* The rest of the system *)

CreateGroup(n) ==
    /\ namespace[n] = NoRecord
    /\ namespace' = [namespace EXCEPT ![n] = GroupRecord]
    /\ UNCHANGED <<stored, login, cookie, session, sessions, call, clock>>

\* The lifecycle rule of the bucket.
ExpireTransaction(l) ==
    /\ login[l] # NoLogin /\ stored[l] \in {"open", "used"} /\ login[l].expires < clock
    /\ stored' = [stored EXCEPT ![l] = "expired"]
    /\ UNCHANGED <<namespace, login, cookie, session, sessions, call, clock>>

Tick ==
    /\ clock < MaxTime
    /\ clock' = clock + 1
    /\ UNCHANGED <<namespace, stored, login, cookie, session, sessions, call>>

Init ==
    /\ namespace = [n \in Username |-> NoRecord]
    /\ stored = [l \in LoginID |-> "new"]
    /\ login = [l \in LoginID |-> NoLogin]
    /\ cookie = [b \in Browser |-> None]
    /\ session = [b \in Browser |-> NoSession]
    /\ sessions = {}
    /\ call = [c \in Call |-> Idle]
    /\ clock = 0

Serve(c) ==
    \/ \E b \in Browser, n \in Username, m \in Mode : StartLogin(c, b, n, m)
    \/ \E b \in Browser, l \in LoginID, answer \in Identity \cup {None} : StartCallback(c, b, l, answer)
    \/ \E b \in Browser, n \in Username : StartVisit(c, b, n)
    \/ LoadName(c) \/ PutTransaction(c)
    \/ ReadTransaction(c) \/ Consume(c) \/ Exchange(c) \/ CompleteLogin(c) \/ BindReload(c)
    \/ Visit(c) \/ Logout(c)
    \/ Deliver(c) \/ Fail(c)

Next ==
    \/ \E c \in Call : Serve(c)
    \/ \E n \in Username : CreateGroup(n)
    \/ \E l \in LoginID : ExpireTransaction(l)
    \/ Tick

Spec == Init /\ [][Next]_vars

-----------------------------------------------------------------------------
(* Properties *)

\* Every variable holds what the code can put there; an open or used
\* transaction has a login, and a response carries a session that was made.
TypeOK ==
    /\ namespace \in [Username -> Identity \cup {NoRecord, GroupRecord}]
    /\ stored \in [LoginID -> {"new", "open", "used", "expired"}]
    /\ login \in [LoginID -> State \cup {NoLogin}]
    /\ \A l \in LoginID : stored[l] # "new" => login[l] # NoLogin
    /\ cookie \in [Browser -> LoginID \cup {None}]
    /\ session \in [Browser -> sessions \cup {NoSession}]
    /\ sessions \subseteq Session
    /\ clock \in Nat

\* At most one session is made from one login, however often and from
\* wherever its callback arrives: callback consumes the transaction with a
\* conditional Put before it exchanges the code.
SingleUse == \A s, t \in sessions : s.login = t.login => s = t

\* Every session that was ever made, and every request that is let through
\* to a user's space, has the identity that owns the username: completeLogin
\* and bindUser compare identities after a lost race for the name.
SessionsBound ==
    /\ \A s \in sessions : namespace[s.user] = s.identity
    /\ \A c \in Call : call[c].pc = "next" => namespace[call[c].user] = call[c].session.identity

\* A browser gets only the sessions of logins that it started: callback
\* compares the login cookie with the browser hash of the transaction.
BrowserBound ==
    \A b \in Browser : session[b] # NoSession => login[session[b].login].browser = b

\* No session is made once the login that it comes from is over, but for the
\* time limit of the callback: decodeState refuses an expired state.
AnsweredInTime == \A s \in sessions : s.issued < login[s.login].expires + CallTime

\* Every session that a callback makes belongs to its name, its browser and the
\* lifetime of its login (Service.callback, decodeState).
LoginSafe == TypeOK /\ SessionsBound /\ BrowserBound /\ AnsweredInTime

\* A name is claimed once and never reassigned, by whatever requests race
\* for it (store.go: "It never reassigns ownership").
NeverReassigned ==
    [][\A n \in Username : namespace[n] # NoRecord => namespace'[n] = namespace[n]]_vars
=============================================================================
