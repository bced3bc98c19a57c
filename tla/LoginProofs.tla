----------------------------- MODULE LoginProofs -----------------------------
(* Proofs that a login makes at most one session, for the browser that began *)
(* it and for the identity that owns the name, for any number of names,      *)
(* identities, browsers, logins and concurrent requests.                     *)
EXTENDS Login, TLAPS

Callback == {"read", "consume", "exchange", "complete", "reload"}

\* The states of a callback that has consumed its transaction.
Spent == {"exchange", "complete", "reload"}

\* The states of a transaction that was consumed.
Over == {"used", "expired"}

CallRecord ==
    {Idle}
    \cup [pc : {"load"}, browser : Browser, user : Username, mode : Mode]
    \cup [pc : {"put"}, browser : Browser, login : LoginID]
    \cup [pc : Callback, browser : Browser, login : LoginID, token : LoginID,
          identity : Identity \cup {None}, deadline : Int]
    \cup [pc : {"visit", "next"}, browser : Browser, user : Username, session : Session]
    \cup [pc : {"answer"}, browser : Browser, cookie : LoginID \cup {None, Keep},
          session : Session \cup {NoSession, Keep}]

\* Login l was begun by browser b.
BegunBy(l, b) == login[l] # NoLogin /\ login[l].browser = b

\* What a request has established.
CallOK(q) ==
    /\ q.pc = "put" => BegunBy(q.login, q.browser)
    /\ q.pc \in Callback =>
          /\ login[q.login] # NoLogin /\ stored[q.login] # "new"
          /\ q.deadline < login[q.login].expires + CallTime
          /\ BegunBy(q.token, q.browser)
          /\ q.pc # "read" => q.token = q.login
    /\ q.pc \in Spent => q.identity \in Identity /\ stored[q.login] \in Over
    /\ q.pc = "answer" =>
          /\ q.cookie \in LoginID => BegunBy(q.cookie, q.browser)
          /\ \/ q.session \in {Keep, NoSession}
             \/ q.session \in sessions /\ BegunBy(q.session.login, q.browser)
    /\ q.pc \in {"visit", "next"} => q.session \in sessions
    /\ q.pc = "next" => namespace[q.user] = q.session.identity

\* What holds of a session from the moment it is made.
SessionOK(s) ==
    /\ login[s.login] # NoLogin /\ stored[s.login] \in Over
    /\ namespace[s.user] = s.identity
    /\ s.issued < login[s.login].expires + CallTime

Types ==
    /\ namespace \in [Username -> Identity \cup {NoRecord, GroupRecord}]
    /\ stored \in [LoginID -> {"new", "open", "used", "expired"}]
    /\ login \in [LoginID -> State \cup {NoLogin}]
    /\ cookie \in [Browser -> LoginID \cup {None}]
    /\ session \in [Browser -> Session \cup {NoSession}]
    /\ sessions \subseteq Session
    /\ call \in [Call -> CallRecord]
    /\ clock \in Nat

\* Cookies of a browser belong to logins that it began.
BrowsersOK ==
    \A b \in Browser :
        /\ cookie[b] \in LoginID => BegunBy(cookie[b], b)
        /\ session[b] # NoSession => session[b] \in sessions /\ BegunBy(session[b].login, b)

\* A transaction that is not stored yet has one request that will store it.
PutsOK ==
    /\ \A l \in LoginID : stored[l] # "new" => login[l] # NoLogin
    /\ \A c \in Call : call[c].pc = "put" =>
          /\ stored[call[c].login] = "new"
          /\ \A d \in Call : call[d].pc = "put" /\ call[d].login = call[c].login => d = c

\* One callback at most consumes a login, and one session at most comes of it.
OnceOK ==
    /\ SingleUse
    /\ \A c \in Call : call[c].pc \in Spent =>
          /\ \A d \in Call : call[d].pc \in Spent /\ call[d].login = call[c].login => d = c
          /\ \A s \in sessions : s.login # call[c].login

LoginInv ==
    /\ Types /\ BrowsersOK /\ PutsOK /\ OnceOK
    /\ \A c \in Call : CallOK(call[c])
    /\ \A s \in sessions : SessionOK(s)
-----------------------------------------------------------------------------
(* Records. *)

LEMMA Numbers ==
    LoginLifetime \in Nat /\ SessionLifetime \in Nat /\ CallTime \in Nat /\ MaxTime \in Nat
BY LoginAssumption

\* The pc of a request tells what else it holds.
LEMMA Shape ==
    ASSUME NEW q \in CallRecord
    PROVE  /\ q.pc \in {"idle", "load", "put", "visit", "next", "answer"} \cup Callback
           /\ q.pc = "load" => q.browser \in Browser /\ q.user \in Username /\ q.mode \in Mode
           /\ q.pc = "put" => q.browser \in Browser /\ q.login \in LoginID
           /\ q.pc \in Callback =>
                 /\ q \in [pc : Callback, browser : Browser, login : LoginID, token : LoginID,
                           identity : Identity \cup {None}, deadline : Int]
                 /\ q.browser \in Browser /\ q.login \in LoginID /\ q.token \in LoginID
                 /\ q.identity \in Identity \cup {None} /\ q.deadline \in Int
           /\ q.pc \in {"visit", "next"} =>
                 /\ q \in [pc : {"visit", "next"}, browser : Browser, user : Username,
                           session : Session]
                 /\ q.browser \in Browser /\ q.user \in Username /\ q.session \in Session
           /\ q.pc = "answer" =>
                 /\ q.browser \in Browser /\ q.cookie \in LoginID \cup {None, Keep}
                 /\ q.session \in Session \cup {NoSession, Keep}
<1>1. CASE q = Idle
  BY <1>1 DEF Idle, Callback
<1>2. CASE q \in [pc : {"load"}, browser : Browser, user : Username, mode : Mode]
  BY <1>2 DEF Callback
<1>3. CASE q \in [pc : {"put"}, browser : Browser, login : LoginID]
  BY <1>3 DEF Callback
<1>4. CASE q \in [pc : Callback, browser : Browser, login : LoginID, token : LoginID,
                  identity : Identity \cup {None}, deadline : Int]
  BY <1>4 DEF Callback
<1>5. CASE q \in [pc : {"visit", "next"}, browser : Browser, user : Username, session : Session]
  BY <1>5 DEF Callback
<1>6. CASE q \in [pc : {"answer"}, browser : Browser, cookie : LoginID \cup {None, Keep},
                  session : Session \cup {NoSession, Keep}]
  BY <1>6 DEF Callback
<1> QED
  BY <1>1, <1>2, <1>3, <1>4, <1>5, <1>6 DEF CallRecord

LEMMA IdleCall == Idle \in CallRecord /\ Idle.pc = "idle" /\ CallOK(Idle)
BY DEF Idle, CallRecord, CallOK, Callback, Spent

LEMMA LoginsDiffer == NoLogin \notin State /\ NoSession \notin Session
BY LoginAssumption DEF NoLogin, State, NoSession, Session

LEMMA ClockNat ==
    ASSUME LoginInv
    PROVE  clock \in Nat
BY DEF LoginInv, Types

LEMMA ClockInt ==
    ASSUME LoginInv
    PROVE  clock \in Int /\ clock + SessionLifetime \in Int
<1>1. clock \in Nat
  BY ClockNat
<1> QED
  BY <1>1, Numbers

LEMMA Earlier ==
    ASSUME NEW a \in Int, NEW b \in Int, NEW e \in Int, NEW k \in Int, a <= b, b < e + k
    PROVE  a < e + k
OBVIOUS

-----------------------------------------------------------------------------
(* What only grows. *)

\* Names are claimed once, logins begin once, transactions are consumed for
\* good, and sessions are never forgotten.
Grows ==
    /\ \A n \in Username : namespace[n] # NoRecord => namespace'[n] = namespace[n]
    /\ \A l \in LoginID : login[l] # NoLogin => login'[l] = login[l]
    /\ \A l \in LoginID : stored[l] # "new" => stored'[l] # "new"
    /\ \A l \in LoginID : stored[l] \in Over => stored'[l] \in Over
    /\ sessions \subseteq sessions'

LEMMA GrowsBegun ==
    ASSUME Grows, NEW l \in LoginID, NEW b, BegunBy(l, b)
    PROVE  BegunBy(l, b)'
BY DEF Grows, BegunBy

LEMMA GrowsSession ==
    ASSUME Grows, NEW s \in Session, SessionOK(s)
    PROVE  SessionOK(s)'
<1>1. s.login \in LoginID /\ s.user \in Username /\ s.identity \in Identity
  BY DEF Session
<1>2. namespace[s.user] # NoRecord
  BY <1>1, LoginAssumption DEF SessionOK
<1> QED
  BY <1>1, <1>2 DEF SessionOK, Grows

LEMMA GrowsCall ==
    ASSUME Grows, NEW q \in CallRecord, CallOK(q), \A s \in sessions : SessionOK(s)
    PROVE  CallOK(q)'
<1> USE Shape
<1>1. CASE q.pc \in {"idle", "load"}
  BY <1>1 DEF CallOK, Callback, Spent
<1>2. CASE q.pc = "put"
  BY <1>2, GrowsBegun DEF CallOK, Callback, Spent
<1>3. CASE q.pc \in Callback
  <2>1. /\ q.login \in LoginID /\ login[q.login] # NoLogin /\ stored[q.login] # "new"
        /\ q.deadline < login[q.login].expires + CallTime
        /\ q.token \in LoginID /\ BegunBy(q.token, q.browser)
        /\ q.pc # "read" => q.token = q.login
        /\ q.pc \in Spent => q.identity \in Identity /\ stored[q.login] \in Over
    BY <1>3 DEF CallOK
  <2>2. /\ login'[q.login] = login[q.login] /\ stored'[q.login] # "new"
        /\ q.pc \in Spent => stored'[q.login] \in Over
    BY <2>1 DEF Grows
  <2>3. BegunBy(q.token, q.browser)'
    BY <2>1, GrowsBegun
  <2> QED
    BY <1>3, <2>1, <2>2, <2>3 DEF CallOK, Callback
<1>4. CASE q.pc \in {"visit", "next"}
  <2>1. q.session \in sessions /\ q.session \in sessions'
    BY <1>4 DEF CallOK, Grows
  <2>2. q.pc = "next" => namespace[q.user] = q.session.identity
    BY <1>4 DEF CallOK
  <2>3. q.user \in Username /\ q.session.identity \in Identity
    BY <1>4 DEF Session
  <2>4. q.pc = "next" => namespace'[q.user] = q.session.identity
    BY <2>2, <2>3, LoginAssumption DEF Grows
  <2> QED
    BY <1>4, <2>1, <2>4 DEF CallOK, Callback, Spent
<1>5. CASE q.pc = "answer"
  <2>1. q.cookie \in LoginID => BegunBy(q.cookie, q.browser)'
    BY <1>5, GrowsBegun DEF CallOK
  <2>2. ASSUME q.session \notin {Keep, NoSession}
        PROVE  q.session \in sessions' /\ BegunBy(q.session.login, q.browser)'
    <3>1. q.session \in sessions /\ BegunBy(q.session.login, q.browser) /\ q.session \in Session
      BY <1>5, <2>2 DEF CallOK
    <3>2. q.session.login \in LoginID
      BY <3>1 DEF Session
    <3> QED
      BY <3>1, <3>2, GrowsBegun DEF Grows
  <2> QED
    BY <1>5, <2>1, <2>2 DEF CallOK, Callback, Spent
<1> QED
  BY <1>1, <1>2, <1>3, <1>4, <1>5

LEMMA GrowsBrowsers ==
    ASSUME Types, Grows, BrowsersOK, UNCHANGED <<cookie, session>>
    PROVE  BrowsersOK'
<1> SUFFICES ASSUME NEW b \in Browser
             PROVE  /\ cookie[b] \in LoginID => BegunBy(cookie[b], b)'
                    /\ session[b] # NoSession =>
                          session[b] \in sessions' /\ BegunBy(session[b].login, b)'
  BY DEF BrowsersOK, BegunBy
<1>1. cookie[b] \in LoginID => BegunBy(cookie[b], b)'
  BY GrowsBegun DEF BrowsersOK, BegunBy
<1>2. ASSUME session[b] # NoSession
      PROVE  session[b] \in sessions' /\ BegunBy(session[b].login, b)'
  <2>1. session[b] \in sessions /\ BegunBy(session[b].login, b)
    BY <1>2 DEF BrowsersOK
  <2>2. session[b].login \in LoginID
    BY <2>1 DEF Types, Session
  <2> QED
    BY <2>1, <2>2, GrowsBegun DEF Grows, BegunBy
<1> QED
  BY <1>1, <1>2

-----------------------------------------------------------------------------
(* Steps of a request. *)

\* The other requests do not notice a step of one.
LEMMA CallMoves ==
    ASSUME LoginInv, Grows, NEW c \in Call, NEW q \in CallRecord, CallOK(q)',
           call' = [call EXCEPT ![c] = q]
    PROVE  /\ call' \in [Call -> CallRecord]
           /\ \A d \in Call : call'[d] = IF d = c THEN q ELSE call[d]
           /\ \A d \in Call : CallOK(call[d])'
<1>1. /\ call' \in [Call -> CallRecord]
      /\ \A d \in Call : call'[d] = IF d = c THEN q ELSE call[d]
  BY DEF LoginInv, Types
<1>2. ASSUME NEW d \in Call PROVE CallOK(call[d])'
  <2>1. CASE d = c
    <3>1. call'[d] = q
      BY <1>1, <2>1
    <3> QED
      BY <3>1 DEF CallOK, BegunBy
  <2>2. CASE d # c
    <3>1. PICK p \in CallRecord : p = call[d] /\ p = call'[d]
      BY <1>1, <2>2 DEF LoginInv, Types
    <3>2. CallOK(p) /\ \A s \in sessions : SessionOK(s)
      BY Zenon, <3>1 DEF LoginInv
    <3>3. CallOK(p)'
      BY <3>2, GrowsCall
    <3> QED
      BY <3>1, <3>3 DEF CallOK, BegunBy
  <2> QED
    BY <2>1, <2>2
<1> QED
  BY <1>1, <1>2

\* A step after which the request waits to store no transaction and holds no
\* consumed login that it did not hold before.
Modest(c, q) ==
    /\ q.pc # "put"
    /\ q.pc \in Spent => call[c].pc \in Spent /\ q.login = call[c].login

LEMMA ModestPuts ==
    ASSUME LoginInv, NEW c \in Call, NEW q, q.pc # "put",
           \A d \in Call : call'[d] = IF d = c THEN q ELSE call[d],
           UNCHANGED <<stored, login>>
    PROVE  PutsOK'
BY DEF LoginInv, PutsOK

LEMMA ModestOnce ==
    ASSUME LoginInv, NEW c \in Call, NEW q, Modest(c, q),
           \A d \in Call : call'[d] = IF d = c THEN q ELSE call[d],
           UNCHANGED sessions
    PROVE  OnceOK'
<1>1. SingleUse'
  BY DEF LoginInv, OnceOK, SingleUse
<1>2. \A d \in Call : call'[d].pc \in Spent =>
          call[d].pc \in Spent /\ call'[d].login = call[d].login
  BY DEF Modest
<1> QED
  BY <1>1, <1>2 DEF LoginInv, OnceOK

\* Steps that change nothing but the request.
LEMMA QuietStep ==
    ASSUME LoginInv, NEW c \in Call, NEW q \in CallRecord, CallOK(q), Modest(c, q),
           call' = [call EXCEPT ![c] = q],
           UNCHANGED <<namespace, stored, login, cookie, session, sessions, clock>>
    PROVE  LoginInv' /\ Grows
<1>1. Grows
  BY DEF Grows
<1>2. CallOK(q)'
  BY DEF CallOK, BegunBy
<1>3. /\ call' \in [Call -> CallRecord]
      /\ \A d \in Call : call'[d] = IF d = c THEN q ELSE call[d]
      /\ \A d \in Call : CallOK(call[d])'
  BY Zenon, <1>1, <1>2, CallMoves
<1>4. PutsOK' /\ OnceOK'
  BY <1>3, ModestPuts, ModestOnce DEF Modest
<1>5. BrowsersOK'
  BY <1>1, GrowsBrowsers DEF LoginInv
<1>6. \A s \in sessions' : SessionOK(s)'
  BY DEF LoginInv, SessionOK
<1>7. Types'
  BY <1>3 DEF LoginInv, Types
<1> QED
  BY <1>1, <1>3, <1>4, <1>5, <1>6, <1>7 DEF LoginInv

LEMMA EndStep ==
    ASSUME LoginInv, NEW c \in Call, End(c),
           UNCHANGED <<namespace, stored, login, cookie, session, sessions, clock>>
    PROVE  LoginInv' /\ Grows
<1>1. Modest(c, Idle)
  BY IdleCall DEF Modest, Spent
<1> QED
  BY Zenon, <1>1, IdleCall, QuietStep DEF End

\* A response that clears the login cookie and carries no session is one that
\* any request may give.
LEMMA PlainAnswer ==
    ASSUME NEW c \in Call, NEW b \in Browser, NEW k \in {None, Keep}, NEW s \in {NoSession, Keep}
    PROVE  LET q == [pc |-> "answer", browser |-> b, cookie |-> k, session |-> s]
           IN  q \in CallRecord /\ CallOK(q) /\ CallOK(q)' /\ Modest(c, q)
<1> DEFINE q == [pc |-> "answer", browser |-> b, cookie |-> k, session |-> s]
<1>1. /\ q.pc = "answer" /\ q.cookie = k /\ q.session = s
      /\ q \in [pc : {"answer"}, browser : Browser, cookie : LoginID \cup {None, Keep},
                session : Session \cup {NoSession, Keep}]
  OBVIOUS
<1> HIDE DEF q
<1>2. k \notin LoginID
  BY LoginAssumption
<1>3. CallOK(q) /\ CallOK(q)'
  BY <1>1, <1>2 DEF CallOK, Callback, Spent
<1>4. Modest(c, q)
  BY <1>1 DEF Modest, Spent
<1>5. q \in CallRecord
  BY <1>1 DEF CallRecord
<1> QED
  BY <1>3, <1>4, <1>5 DEF q

\* Requests that begin or go on without touching anything else.
LEMMA StartLoginStep ==
    ASSUME LoginInv, NEW c \in Call, NEW b \in Browser, NEW n \in Username, NEW m \in Mode,
           StartLogin(c, b, n, m)
    PROVE  LoginInv' /\ Grows
<1> DEFINE q == [pc |-> "load", browser |-> b, user |-> n, mode |-> m]
<1>1. q \in CallRecord /\ q.pc = "load"
  BY DEF CallRecord
<1>2. call' = [call EXCEPT ![c] = q]
  BY DEF StartLogin
<1> HIDE DEF q
<1>3. CallOK(q) /\ Modest(c, q)
  BY <1>1 DEF CallOK, Modest, Callback, Spent
<1> QED
  BY Zenon, <1>1, <1>2, <1>3, QuietStep DEF StartLogin

LEMMA StartCallbackStep ==
    ASSUME LoginInv, NEW c \in Call, NEW b \in Browser, NEW l \in LoginID,
           NEW answer \in Identity \cup {None}, StartCallback(c, b, l, answer)
    PROVE  LoginInv' /\ Grows
<1> DEFINE q == [pc |-> "read", browser |-> b, login |-> l, token |-> cookie[b],
                 identity |-> answer, deadline |-> clock + CallTime]
<1>1. cookie[b] \in LoginID /\ BegunBy(cookie[b], b)
  BY DEF StartCallback, LoginInv, Types, BrowsersOK
<1>2. clock \in Nat /\ clock + CallTime \in Int
  BY Numbers, ClockNat
<1>3. /\ q.pc = "read" /\ q.browser = b /\ q.login = l /\ q.token = cookie[b]
      /\ q.deadline = clock + CallTime
      /\ q \in [pc : Callback, browser : Browser, login : LoginID, token : LoginID,
                identity : Identity \cup {None}, deadline : Int]
  BY <1>1, <1>2 DEF Callback
<1>4. call' = [call EXCEPT ![c] = q]
  BY DEF StartCallback
<1> HIDE DEF q
<1>5. login[l] # NoLogin /\ stored[l] # "new" /\ login[l].expires > clock
  BY DEF StartCallback, Decodes
<1>6. login[l].expires \in Int
  BY <1>5 DEF LoginInv, Types, State
<1>7. q.deadline < login[l].expires + CallTime
  BY <1>2, <1>3, <1>5, <1>6, Numbers
<1>8. CallOK(q) /\ Modest(c, q)
  BY <1>1, <1>3, <1>5, <1>7 DEF CallOK, Modest, Spent
<1>9. q \in CallRecord
  BY <1>3 DEF CallRecord
<1> QED
  BY Zenon, <1>4, <1>8, <1>9, QuietStep DEF StartCallback

LEMMA StartVisitStep ==
    ASSUME LoginInv, NEW c \in Call, NEW b \in Browser, NEW n \in Username, StartVisit(c, b, n)
    PROVE  LoginInv' /\ Grows
<1> DEFINE q == [pc |-> "visit", browser |-> b, user |-> n, session |-> session[b]]
<1>1. session[b] \in sessions /\ session[b] \in Session
  BY DEF StartVisit, ReadSession, LoginInv, BrowsersOK, Types
<1>2. /\ q.pc = "visit" /\ q.session = session[b]
      /\ q \in [pc : {"visit", "next"}, browser : Browser, user : Username, session : Session]
  BY <1>1
<1>3. call' = [call EXCEPT ![c] = q]
  BY DEF StartVisit
<1> HIDE DEF q
<1>4. CallOK(q) /\ Modest(c, q)
  BY <1>1, <1>2 DEF CallOK, Modest, Callback, Spent
<1>5. q \in CallRecord
  BY <1>2 DEF CallRecord
<1> QED
  BY Zenon, <1>3, <1>4, <1>5, QuietStep DEF StartVisit

\* A callback that goes on keeps what it holds.
LEMMA GotoCallback ==
    ASSUME LoginInv, NEW c \in Call, call[c].pc \in Callback, NEW pc \in Callback
    PROVE  LET q == [call[c] EXCEPT !.pc = pc]
           IN  /\ q \in CallRecord /\ q.pc = pc /\ q.browser = call[c].browser
               /\ q.login = call[c].login /\ q.token = call[c].token
               /\ q.identity = call[c].identity /\ q.deadline = call[c].deadline
               /\ Goto(c, pc) => call' = [call EXCEPT ![c] = q]
<1>1. call[c] \in [pc : Callback, browser : Browser, login : LoginID, token : LoginID,
                   identity : Identity \cup {None}, deadline : Int]
  <2>1. call[c] \in CallRecord
    BY DEF LoginInv, Types
  <2> QED
    BY <2>1, Shape
<1> DEFINE q == [call[c] EXCEPT !.pc = pc]
<1>2. /\ q \in [pc : Callback, browser : Browser, login : LoginID, token : LoginID,
                identity : Identity \cup {None}, deadline : Int]
      /\ q.pc = pc /\ q.browser = call[c].browser
      /\ q.login = call[c].login /\ q.token = call[c].token
      /\ q.identity = call[c].identity /\ q.deadline = call[c].deadline
  BY <1>1
<1>3. q \in CallRecord
  BY <1>2 DEF CallRecord
<1>4. Goto(c, pc) => call' = [call EXCEPT ![c] = q]
  BY DEF Goto, LoginInv, Types
<1> QED
  BY <1>2, <1>3, <1>4

LEMMA ReadTransactionStep ==
    ASSUME LoginInv, NEW c \in Call, ReadTransaction(c)
    PROVE  LoginInv' /\ Grows
<1>1. CASE Belongs(c)
  <2>1. PICK q : q = [call[c] EXCEPT !.pc = "consume"]
    BY Zenon
  <2>2. call[c].pc = "read" /\ Goto(c, "consume")
    BY <1>1 DEF ReadTransaction
  <2>3. /\ q \in CallRecord /\ q.pc = "consume" /\ q.browser = call[c].browser
        /\ q.login = call[c].login /\ q.token = call[c].token
        /\ q.deadline = call[c].deadline /\ call' = [call EXCEPT ![c] = q]
    BY Zenon, <2>1, <2>2, GotoCallback DEF Callback
  <2>4. CallOK(call[c]) /\ call[c].token = call[c].login
    BY <1>1 DEF LoginInv, Belongs
  <2>5. CallOK(q) /\ Modest(c, q)
    BY <2>2, <2>3, <2>4 DEF CallOK, Modest, Callback, Spent
  <2> QED
    BY Zenon, <2>3, <2>5, QuietStep DEF ReadTransaction
<1>2. CASE ~Belongs(c)
  BY <1>2, EndStep DEF ReadTransaction
<1> QED
  BY <1>1, <1>2

LEMMA ExchangeStep ==
    ASSUME LoginInv, NEW c \in Call, Exchange(c)
    PROVE  LoginInv' /\ Grows
<1>1. CASE Goto(c, "complete")
  <2>1. PICK q : q = [call[c] EXCEPT !.pc = "complete"]
    BY Zenon
  <2>2. call[c].pc = "exchange"
    BY DEF Exchange
  <2>3. /\ q \in CallRecord /\ q.pc = "complete" /\ q.browser = call[c].browser
        /\ q.login = call[c].login /\ q.token = call[c].token /\ q.identity = call[c].identity
        /\ q.deadline = call[c].deadline /\ call' = [call EXCEPT ![c] = q]
    BY Zenon, <1>1, <2>1, <2>2, GotoCallback DEF Callback
  <2>4. CallOK(call[c])
    BY DEF LoginInv
  <2>5. CallOK(q) /\ Modest(c, q)
    BY <2>2, <2>3, <2>4 DEF CallOK, Modest, Callback, Spent
  <2> QED
    BY Zenon, <2>3, <2>5, QuietStep DEF Exchange
<1>2. CASE Respond(c, None, Keep)
  <2>1. call[c].browser \in Browser
    BY Shape DEF Exchange, LoginInv, Types, Callback
  <2> QED
    BY Zenon, <1>2, <2>1, PlainAnswer, QuietStep DEF Exchange, Respond
<1> QED
  BY <1>1, <1>2 DEF Exchange

LEMMA VisitStep ==
    ASSUME LoginInv, NEW c \in Call, Visit(c)
    PROVE  LoginInv' /\ Grows
<1> DEFINE ok == call[c].session.user = call[c].user
                     /\ Owns(call[c].user, call[c].session.identity)
           q == [call[c] EXCEPT !.pc = "next"]
<1>1. CASE ~ok
  BY <1>1, EndStep DEF Visit
<1>2. CASE ok
  <2>1. /\ call[c].pc = "visit" /\ Goto(c, "next")
        /\ call[c] \in [pc : {"visit", "next"}, browser : Browser, user : Username,
                        session : Session]
    BY <1>2, Shape DEF Visit, LoginInv, Types
  <2>2. /\ q \in [pc : {"visit", "next"}, browser : Browser, user : Username,
                  session : Session]
        /\ q.pc = "next" /\ q.user = call[c].user /\ q.session = call[c].session
    BY <2>1
  <2>3. call' = [call EXCEPT ![c] = q]
    BY <2>1 DEF Goto, LoginInv, Types
  <2>4. namespace[call[c].user] = call[c].session.identity /\ call[c].session \in sessions
    BY <1>2, <2>1 DEF Owns, LoginInv, CallOK
  <2> HIDE DEF q
  <2>5. CallOK(q) /\ Modest(c, q)
    BY <2>2, <2>4 DEF CallOK, Modest, Callback, Spent
  <2>6. q \in CallRecord
    BY <2>2 DEF CallRecord
  <2> QED
    BY Zenon, <2>3, <2>5, <2>6, QuietStep DEF Visit
<1> QED
  BY <1>1, <1>2

LEMMA LogoutStep ==
    ASSUME LoginInv, NEW c \in Call, Logout(c)
    PROVE  LoginInv' /\ Grows
<1>1. call[c].browser \in Browser
  BY Shape DEF Logout, LoginInv, Types
<1> QED
  BY Zenon, <1>1, PlainAnswer, QuietStep DEF Logout, Respond

\* The response reaches the browser, which may have begun another login since.
LEMMA DeliverStep ==
    ASSUME LoginInv, NEW c \in Call, Deliver(c)
    PROVE  LoginInv' /\ Grows
<1>1. PICK b : b = call[c].browser
  OBVIOUS
<1>2. PICK n : n = call[c].cookie
  OBVIOUS
<1>3. PICK s : s = call[c].session
  OBVIOUS
<1>4. /\ b \in Browser /\ n \in LoginID \cup {None, Keep}
      /\ s \in Session \cup {NoSession, Keep}
      /\ n \in LoginID => BegunBy(n, b)
      /\ s \in {Keep, NoSession} \/ (s \in sessions /\ BegunBy(s.login, b))
  BY <1>1, <1>2, <1>3, Shape DEF Deliver, LoginInv, Types, CallOK
<1>5. /\ cookie' = [cookie EXCEPT ![b] = IF n = Keep THEN @ ELSE n]
      /\ session' = [session EXCEPT ![b] = IF s = Keep THEN @ ELSE s]
      /\ call' = [call EXCEPT ![c] = Idle]
      /\ UNCHANGED <<namespace, stored, login, sessions, clock>>
  BY <1>1, <1>2, <1>3 DEF Deliver, End
<1>6. Grows
  BY <1>5 DEF Grows
<1>7. CallOK(Idle)' /\ Modest(c, Idle)
  BY IdleCall DEF CallOK, Callback, Spent, Modest
<1>8. /\ call' \in [Call -> CallRecord]
      /\ \A d \in Call : call'[d] = IF d = c THEN Idle ELSE call[d]
      /\ \A d \in Call : CallOK(call[d])'
  BY Zenon, <1>5, <1>6, <1>7, IdleCall, CallMoves
<1>9. PutsOK' /\ OnceOK'
  BY <1>5, <1>7, <1>8, IdleCall, ModestPuts, ModestOnce
<1>10. cookie' \in [Browser -> LoginID \cup {None}]
  BY <1>4, <1>5 DEF LoginInv, Types
<1>11. session' \in [Browser -> Session \cup {NoSession}]
  BY <1>4, <1>5 DEF LoginInv, Types
<1>12. Types'
  BY <1>5, <1>8, <1>10, <1>11 DEF LoginInv, Types
<1>13. BrowsersOK'
  <2> SUFFICES ASSUME NEW d \in Browser
               PROVE  /\ cookie'[d] \in LoginID => BegunBy(cookie'[d], d)
                      /\ session'[d] # NoSession =>
                            session'[d] \in sessions /\ BegunBy(session'[d].login, d)
    BY <1>5 DEF BrowsersOK, BegunBy
  <2>1. cookie'[d] = IF d = b /\ n # Keep THEN n ELSE cookie[d]
    BY <1>4, <1>5 DEF LoginInv, Types
  <2>2. session'[d] = IF d = b /\ s # Keep THEN s ELSE session[d]
    BY <1>4, <1>5 DEF LoginInv, Types
  <2> QED
    BY <1>4, <2>1, <2>2 DEF LoginInv, BrowsersOK
<1>14. \A x \in sessions' : SessionOK(x)'
  BY <1>5 DEF LoginInv, SessionOK
<1> QED
  BY <1>6, <1>8, <1>9, <1>12, <1>13, <1>14 DEF LoginInv

\* A login begins.
LEMMA LoadNameStep ==
    ASSUME LoginInv, NEW c \in Call, LoadName(c)
    PROVE  LoginInv' /\ Grows
<1>1. CASE End(c) /\ UNCHANGED login
  BY <1>1, EndStep DEF LoadName
<1>2. ASSUME NEW l \in LoginID, login[l] = NoLogin,
             login' = [login EXCEPT ![l] =
                 [user |-> call[c].user, mode |-> call[c].mode, browser |-> call[c].browser,
                  expires |-> clock + LoginLifetime]],
             call' = [call EXCEPT ![c] =
                 [pc |-> "put", browser |-> call[c].browser, login |-> l]]
      PROVE  LoginInv' /\ Grows
  <2>1. PICK b, n, m : b = call[c].browser /\ n = call[c].user /\ m = call[c].mode
    OBVIOUS
  <2>2. b \in Browser /\ n \in Username /\ m \in Mode
    BY <2>1, Shape DEF LoadName, LoginInv, Types
  <2> DEFINE begun == [user |-> n, mode |-> m, browser |-> b, expires |-> clock + LoginLifetime]
             q == [pc |-> "put", browser |-> b, login |-> l]
  <2>3. begun \in State /\ begun.browser = b
    <3>1. clock + LoginLifetime \in Int
      BY Numbers, ClockNat
    <3> QED
      BY <2>2, <3>1 DEF State
  <2>4. q \in CallRecord /\ q.pc = "put" /\ q.browser = b /\ q.login = l
    BY <2>2 DEF CallRecord
  <2>5. login' = [login EXCEPT ![l] = begun] /\ call' = [call EXCEPT ![c] = q]
    BY <1>2, <2>1
  <2> HIDE DEF begun, q
  <2>6. UNCHANGED <<namespace, stored, cookie, session, sessions, clock>>
    BY DEF LoadName
  <2>7. /\ login' \in [LoginID -> State \cup {NoLogin}]
        /\ \A k \in LoginID : login'[k] = IF k = l THEN begun ELSE login[k]
    BY <2>3, <2>5 DEF LoginInv, Types
  <2>8. Grows
    BY <1>2, <2>6, <2>7 DEF Grows
  <2>9. BegunBy(l, b)'
    BY <2>3, <2>7, LoginsDiffer DEF BegunBy
  <2>10. CallOK(q)'
    BY <2>4, <2>9 DEF CallOK, Callback, Spent
  <2>11. /\ call' \in [Call -> CallRecord]
         /\ \A d \in Call : call'[d] = IF d = c THEN q ELSE call[d]
         /\ \A d \in Call : CallOK(call[d])'
    BY Zenon, <2>4, <2>5, <2>8, <2>10, CallMoves
  <2>12. stored[l] = "new" /\ \A d \in Call : call[d].pc = "put" => call[d].login # l
    BY <1>2, Shape DEF LoginInv, PutsOK, CallOK, BegunBy, Types
  <2>13. PutsOK'
    <3>1. \A k \in LoginID : stored'[k] # "new" => login'[k] # NoLogin
      BY <2>6, <2>8 DEF LoginInv, PutsOK, Grows
    <3>2. \A d \in Call : call'[d].pc = "put" =>
              /\ stored'[call'[d].login] = "new"
              /\ \A e \in Call : call'[e].pc = "put" /\ call'[e].login = call'[d].login => e = d
      <4>1. PutsOK
        BY DEF LoginInv
      <4>2. stored' = stored /\ q.login = l
        BY <2>4, <2>6
      <4> SUFFICES ASSUME NEW d \in Call, call'[d].pc = "put"
                   PROVE  /\ stored[call'[d].login] = "new"
                          /\ \A e \in Call : call'[e].pc = "put" /\ call'[e].login = call'[d].login
                                              => e = d
        BY <4>2
      <4>3. CASE d = c
        <5>1. call'[d].login = l
          BY <2>11, <4>2, <4>3
        <5>2. \A e \in Call : e # c => call'[e] = call[e]
          BY <2>11
        <5> QED
          BY <2>12, <4>3, <5>1, <5>2
      <4>4. CASE d # c
        <5>1. call'[d] = call[d] /\ call[d].login # l
          BY <2>11, <2>12, <4>4
        <5>2. \A e \in Call : call'[e] = call[e] \/ call'[e].login = l
          BY <2>11, <4>2
        <5> QED
          BY <4>1, <5>1, <5>2 DEF PutsOK
      <4> QED
        BY <4>3, <4>4
    <3> QED
      BY <3>1, <3>2 DEF PutsOK
  <2>14. OnceOK'
    <3>1. \A d \in Call : call'[d].pc \in Spent => d # c /\ call'[d] = call[d]
      BY <2>4, <2>11 DEF Spent
    <3> QED
      BY <2>6, <3>1 DEF LoginInv, OnceOK, SingleUse
  <2>15. BrowsersOK'
    BY <2>6, <2>8, GrowsBrowsers DEF LoginInv
  <2>16. \A s \in sessions' : SessionOK(s)'
    BY <2>6, <2>8, GrowsSession DEF LoginInv, Types
  <2>17. Types'
    BY <2>6, <2>7, <2>11 DEF LoginInv, Types
  <2> QED
    BY <2>8, <2>11, <2>13, <2>14, <2>15, <2>16, <2>17 DEF LoginInv
<1> QED
  BY <1>1, <1>2 DEF LoadName

\* A step of a request that writes the transaction of a login.
LEMMA StoreStep ==
    ASSUME LoginInv, NEW c \in Call, NEW l \in LoginID, login[l] # NoLogin,
           NEW v \in {"open", "used"}, v = "open" => stored[l] = "new",
           \A d \in Call : call[d].pc = "put" /\ call[d].login = l => d = c,
           stored' = [stored EXCEPT ![l] = v],
           NEW q \in CallRecord, q.pc # "put", CallOK(q)', call' = [call EXCEPT ![c] = q],
           q.pc \in Spent => q.login = l /\ stored[l] = "open",
           UNCHANGED <<namespace, login, cookie, session, sessions, clock>>
    PROVE  LoginInv' /\ Grows
<1>1. /\ stored' \in [LoginID -> {"new", "open", "used", "expired"}]
      /\ \A k \in LoginID : stored'[k] = IF k = l THEN v ELSE stored[k]
  BY DEF LoginInv, Types
<1>2. Grows
  BY <1>1 DEF Grows, Over
<1>3. /\ call' \in [Call -> CallRecord]
      /\ \A d \in Call : call'[d] = IF d = c THEN q ELSE call[d]
      /\ \A d \in Call : CallOK(call[d])'
  BY Zenon, <1>2, CallMoves
<1>4. PutsOK'
  <2>1. \A k \in LoginID : stored'[k] # "new" => login'[k] # NoLogin
    BY <1>1 DEF LoginInv, PutsOK
  <2>2. \A d \in Call : call'[d].pc = "put" => d # c /\ call'[d] = call[d] /\ call[d].login # l
    BY <1>3
  <2>3. \A d \in Call : call[d].pc = "put" => call[d].login \in LoginID
    BY Shape DEF LoginInv, Types
  <2>4. PutsOK /\ \A k \in LoginID : k # l => stored'[k] = stored[k]
    BY <1>1 DEF LoginInv
  <2>5. \A d \in Call : call'[d].pc = "put" =>
            call[d].pc = "put" /\ call'[d].login = call[d].login
            /\ stored'[call[d].login] = stored[call[d].login]
    BY <2>2, <2>3, <2>4
  <2>6. ASSUME NEW d \in Call, call'[d].pc = "put"
        PROVE  /\ stored'[call'[d].login] = "new"
               /\ \A e \in Call : call'[e].pc = "put" /\ call'[e].login = call'[d].login => e = d
    <3>1. call[d].pc = "put" /\ stored[call[d].login] = "new"
      BY <2>4, <2>5, <2>6 DEF PutsOK
    <3>2. \A e \in Call : call[e].pc = "put" /\ call[e].login = call[d].login => e = d
      BY <2>4, <3>1 DEF PutsOK
    <3> QED
      BY <2>5, <2>6, <3>1, <3>2
  <2> QED
    BY <2>1, <2>6 DEF PutsOK
<1>5. OnceOK'
  <2>1. CASE q.pc \in Spent
    <3>1. /\ \A s \in sessions : s.login # l
          /\ \A d \in Call : call[d].pc \in Spent => call[d].login # l
      BY <2>1 DEF LoginInv, SessionOK, CallOK, Over
    <3>2. OnceOK /\ SingleUse'
      BY Zenon DEF LoginInv, OnceOK, SingleUse
    <3>3. \A d \in Call : call'[d].pc \in Spent =>
              IF d = c THEN call'[d].login = l
              ELSE call[d].pc \in Spent /\ call'[d].login = call[d].login
      BY <1>3, <2>1
    <3> QED
      BY <3>1, <3>2, <3>3 DEF OnceOK
  <2>2. CASE q.pc \notin Spent
    BY <1>3, <2>2, ModestOnce DEF Modest
  <2> QED
    BY <2>1, <2>2
<1>6. BrowsersOK'
  BY <1>2, GrowsBrowsers DEF LoginInv
<1>7. \A s \in sessions' : SessionOK(s)'
  BY <1>2, GrowsSession DEF LoginInv, Types
<1>8. Types'
  BY <1>1, <1>3 DEF LoginInv, Types
<1> QED
  BY <1>2, <1>3, <1>4, <1>5, <1>6, <1>7, <1>8 DEF LoginInv

LEMMA PutTransactionStep ==
    ASSUME LoginInv, NEW c \in Call, PutTransaction(c)
    PROVE  LoginInv' /\ Grows
<1>1. PICK l, b : l = call[c].login /\ b = call[c].browser
  OBVIOUS
<1>2. /\ l \in LoginID /\ b \in Browser /\ BegunBy(l, b) /\ stored[l] = "new"
      /\ \A d \in Call : call[d].pc = "put" /\ call[d].login = l => d = c
  BY <1>1, Shape DEF PutTransaction, LoginInv, Types, CallOK, PutsOK
<1>3. /\ stored' = [stored EXCEPT ![l] = "open"]
      /\ UNCHANGED <<namespace, login, cookie, session, sessions, clock>>
  BY <1>1 DEF PutTransaction
<1>4. CASE End(c)
  <2>1. CallOK(Idle)' /\ Idle.pc \notin Spent /\ Idle.pc # "put"
    BY IdleCall DEF CallOK, Callback, Spent
  <2> QED
    BY Zenon, <1>2, <1>3, <1>4, <2>1, IdleCall, StoreStep DEF End, BegunBy
<1>5. CASE Respond(c, l, Keep)
  <2> DEFINE q == [pc |-> "answer", browser |-> b, cookie |-> l, session |-> Keep]
  <2>1. /\ q.pc = "answer" /\ q.browser = b /\ q.cookie = l /\ q.session = Keep
        /\ q \in [pc : {"answer"}, browser : Browser, cookie : LoginID \cup {None, Keep},
                  session : Session \cup {NoSession, Keep}]
    BY Zenon, <1>2
  <2>2. call' = [call EXCEPT ![c] = q]
    BY <1>1, <1>5 DEF Respond
  <2> HIDE DEF q
  <2>3. BegunBy(l, b)'
    BY <1>2, <1>3 DEF BegunBy
  <2>4. CallOK(q)' /\ q.pc \notin Spent /\ q.pc # "put"
    BY <2>1, <2>3 DEF CallOK, Callback, Spent
  <2>5. q \in CallRecord
    BY Zenon, <2>1 DEF CallRecord
  <2> QED
    BY Zenon, <1>2, <1>3, <2>2, <2>4, <2>5, StoreStep DEF BegunBy
<1> QED
  BY <1>1, <1>4, <1>5 DEF PutTransaction

LEMMA ConsumeStep ==
    ASSUME LoginInv, NEW c \in Call, Consume(c)
    PROVE  LoginInv' /\ Grows
<1>1. PICK l, b : l = call[c].login /\ b = call[c].browser
  OBVIOUS
<1>2. /\ l \in LoginID /\ b \in Browser /\ login[l] # NoLogin /\ call[c].pc = "consume"
      /\ UNCHANGED <<namespace, login, cookie, session, sessions, clock>>
  BY <1>1, Shape DEF Consume, LoginInv, Types, CallOK, Callback
<1>3. CASE stored[l] # "open"
  BY <1>1, <1>2, <1>3, EndStep DEF Consume, MarkUsed
<1>4. CASE stored[l] = "open"
  <2>1. stored' = [stored EXCEPT ![l] = "used"]
    BY <1>1, <1>4 DEF Consume, MarkUsed
  <2>2. \A d \in Call : call[d].pc = "put" /\ call[d].login = l => d = c
    BY <1>4 DEF LoginInv, PutsOK
  <2>3. CASE End(c)
    <3>1. CallOK(Idle)' /\ Idle.pc \notin Spent /\ Idle.pc # "put"
      BY IdleCall DEF CallOK, Callback, Spent
    <3> QED
      BY Zenon, <1>2, <1>4, <2>1, <2>2, <2>3, <3>1, IdleCall, StoreStep DEF End
  <2>4. CASE Respond(c, None, Keep)
    <3> DEFINE q == [pc |-> "answer", browser |-> b, cookie |-> None, session |-> Keep]
    <3>1. call' = [call EXCEPT ![c] = q] /\ q.pc = "answer"
      BY <1>1, <2>4 DEF Respond
    <3>2. q \in CallRecord /\ CallOK(q)'
      BY Zenon, <1>2, PlainAnswer
    <3> HIDE DEF q
    <3>3. q.pc \notin Spent /\ q.pc # "put"
      BY <3>1 DEF Spent
    <3> QED
      BY Zenon, <1>2, <1>4, <2>1, <2>2, <3>1, <3>2, <3>3, StoreStep
  <2>5. CASE Goto(c, "exchange") /\ call[c].identity # None
    <3>1. PICK q : q = [call[c] EXCEPT !.pc = "exchange"]
      BY Zenon
    <3>2. /\ q \in CallRecord /\ q.pc = "exchange" /\ q.browser = b
          /\ q.login = l /\ q.token = call[c].token /\ q.identity = call[c].identity
          /\ q.deadline = call[c].deadline /\ call' = [call EXCEPT ![c] = q]
      BY Zenon, <1>1, <1>2, <2>5, <3>1, GotoCallback DEF Callback
    <3>3. /\ call[c].identity \in Identity
          /\ call[c].deadline < login[l].expires + CallTime
          /\ BegunBy(call[c].token, b) /\ call[c].token = l
      BY <1>1, <1>2, <2>5, Shape DEF LoginInv, Types, CallOK, Callback
    <3>4. stored'[l] = "used" /\ login' = login
      BY <1>2, <2>1 DEF LoginInv, Types
    <3>5. CallOK(q)'
      BY <1>2, <3>2, <3>3, <3>4 DEF CallOK, BegunBy, Callback, Spent, Over
    <3> QED
      BY Zenon, <1>2, <1>4, <2>1, <2>2, <3>2, <3>5, StoreStep
  <2> QED
    BY <1>1, <1>4, <2>3, <2>4, <2>5 DEF Consume
<1> QED
  BY <1>3, <1>4

-----------------------------------------------------------------------------
(* completeLogin. *)

\* Names are kept or claimed.
NamesGrow ==
    /\ namespace' \in [Username -> Identity \cup {NoRecord, GroupRecord}]
    /\ \A n \in Username : namespace[n] # NoRecord => namespace'[n] = namespace[n]

\* A step of a request that may claim a name, and makes no session.
LEMMA NameStep ==
    ASSUME LoginInv, NamesGrow, NEW c \in Call, NEW q \in CallRecord, CallOK(q)', Modest(c, q),
           call' = [call EXCEPT ![c] = q],
           UNCHANGED <<stored, login, cookie, session, sessions, clock>>
    PROVE  LoginInv' /\ Grows
<1>1. Grows
  BY DEF Grows, NamesGrow
<1>2. /\ call' \in [Call -> CallRecord]
      /\ \A d \in Call : call'[d] = IF d = c THEN q ELSE call[d]
      /\ \A d \in Call : CallOK(call[d])'
  BY Zenon, <1>1, CallMoves
<1>3. PutsOK' /\ OnceOK'
  BY <1>2, ModestPuts, ModestOnce DEF Modest
<1>4. BrowsersOK'
  BY <1>1, GrowsBrowsers DEF LoginInv
<1>5. \A s \in sessions' : SessionOK(s)'
  BY <1>1, GrowsSession DEF LoginInv, Types
<1>6. Types'
  BY <1>2 DEF LoginInv, Types, NamesGrow
<1> QED
  BY <1>1, <1>2, <1>3, <1>4, <1>5, <1>6 DEF LoginInv

\* A step that makes a session for the owner of the name.
LEMMA GrantStep ==
    ASSUME LoginInv, NamesGrow, NEW c \in Call, call[c].pc \in {"complete", "reload"},
           InTime(c), Grant(c), namespace'[User(c)] = call[c].identity,
           UNCHANGED <<stored, login, cookie, session, clock>>
    PROVE  LoginInv' /\ Grows
<1>1. PICK l, b, i, n : l = call[c].login /\ b = call[c].browser
                        /\ i = call[c].identity /\ n = login[l].user
  OBVIOUS
<1>2. /\ l \in LoginID /\ b \in Browser /\ i \in Identity
      /\ login[l] # NoLogin /\ stored[l] \in Over /\ BegunBy(l, b)
      /\ call[c].deadline \in Int /\ call[c].deadline < login[l].expires + CallTime
  BY <1>1, Shape DEF LoginInv, Types, CallOK, Callback, Spent
<1>3. n \in Username /\ login[l].expires \in Int
  BY <1>1, <1>2 DEF LoginInv, Types, State
<1>s. PICK s : s = [login |-> l, user |-> n, identity |-> i, by |-> c, issued |-> clock,
                    expires |-> clock + SessionLifetime]
  BY Zenon
<1>q. PICK q : q = [pc |-> "answer", browser |-> b, cookie |-> None, session |-> s]
  BY Zenon
<1>4. /\ s \in Session /\ s.login = l /\ s.user = n /\ s.identity = i /\ s.issued = clock
  <2>1. clock \in Int /\ clock + SessionLifetime \in Int
    BY ClockInt
  <2> QED
    BY <1>2, <1>3, <1>s, <2>1 DEF Session
<1>5. sessions' = sessions \cup {s} /\ call' = [call EXCEPT ![c] = q]
  BY <1>1, <1>s, <1>q DEF Grant, Respond, User
<1>6. /\ q.pc = "answer" /\ q.browser = b /\ q.cookie = None /\ q.session = s
      /\ q \in [pc : {"answer"}, browser : Browser, cookie : LoginID \cup {None, Keep},
                session : Session \cup {NoSession, Keep}]
  BY ZenonT(30), <1>2, <1>4, <1>q
<1>7. Grows
  BY <1>5 DEF Grows, NamesGrow
<1>8. namespace'[n] = i
  BY <1>1 DEF User
<1>9. s.issued < login[l].expires + CallTime
  <2>1. clock <= call[c].deadline /\ clock \in Int
    BY ClockInt DEF InTime
  <2>2. CallTime \in Int
    BY Numbers
  <2>3. clock < login[l].expires + CallTime
    BY <1>2, <1>3, <2>1, <2>2, Earlier
  <2> QED
    BY <1>4, <2>3
<1>10. SessionOK(s)'
  BY <1>2, <1>4, <1>8, <1>9 DEF SessionOK
<1>11. CallOK(q)'
  <2>1. BegunBy(s.login, b)' /\ s \in sessions' /\ None \notin LoginID
    BY <1>2, <1>4, <1>5, LoginAssumption DEF BegunBy
  <2> QED
    BY <1>6, <2>1 DEF CallOK, Callback, Spent
<1>12. q \in CallRecord
  BY <1>6 DEF CallRecord
<1>13. /\ call' \in [Call -> CallRecord]
       /\ \A d \in Call : call'[d] = IF d = c THEN q ELSE call[d]
       /\ \A d \in Call : CallOK(call[d])'
  BY Zenon, <1>5, <1>7, <1>11, <1>12, CallMoves
<1>14. PutsOK'
  BY <1>6, <1>13, ModestPuts
<1>15. OnceOK'
  <2>1. call[c].pc \in Spent
    BY DEF Spent
  <2>2. \A x \in sessions : x.login # l
    BY <1>1, <2>1 DEF LoginInv, OnceOK
  <2>3. \A d \in Call : call[d].pc \in Spent /\ d # c => call[d].login # l
    BY <1>1, <2>1 DEF LoginInv, OnceOK
  <2>4. SingleUse'
    BY <1>4, <1>5, <2>2 DEF LoginInv, OnceOK, SingleUse
  <2>5. \A d \in Call : call'[d].pc \in Spent => d # c /\ call'[d] = call[d]
    BY <1>6, <1>13 DEF Spent
  <2>6. OnceOK /\ \A x \in sessions' : x \in sessions \/ x.login = l
    BY Zenon, <1>4, <1>5 DEF LoginInv
  <2> QED
    BY <2>3, <2>4, <2>5, <2>6 DEF OnceOK
<1>16. BrowsersOK'
  BY <1>7, GrowsBrowsers DEF LoginInv
<1>17. \A x \in sessions' : SessionOK(x)'
  BY <1>5, <1>7, <1>10, GrowsSession DEF LoginInv, Types
<1>18. Types'
  BY <1>4, <1>5, <1>13 DEF LoginInv, Types, NamesGrow
<1> QED
  BY <1>7, <1>13, <1>14, <1>15, <1>16, <1>17, <1>18 DEF LoginInv

\* An answer without a session, or the reload after a lost race.
LEMMA DenyStep ==
    ASSUME LoginInv, NamesGrow, NEW c \in Call, call[c].pc \in Spent,
           Respond(c, None, Keep) \/ Goto(c, "reload"),
           UNCHANGED <<stored, login, cookie, session, sessions, clock>>
    PROVE  LoginInv' /\ Grows
<1>1. call[c].pc \in Callback /\ call[c].browser \in Browser
  BY Shape DEF LoginInv, Types, Callback, Spent
<1>2. CASE Respond(c, None, Keep)
  <2> DEFINE q == [pc |-> "answer", browser |-> call[c].browser, cookie |-> None,
                   session |-> Keep]
  <2>1. q \in CallRecord /\ Modest(c, q)
    BY ZenonT(30), <1>1, PlainAnswer
  <2>2. PICK p \in CallRecord : p = q
    BY <2>1
  <2>3. CallOK(p)'
    BY <2>2, LoginAssumption DEF CallOK, Callback, Spent
  <2>4. call' = [call EXCEPT ![c] = p] /\ Modest(c, p)
    BY <1>2, <2>1, <2>2 DEF Respond
  <2> HIDE DEF q
  <2> QED
    BY Zenon, <2>3, <2>4, NameStep
<1>3. CASE Goto(c, "reload")
  <2>1. PICK q : q = [call[c] EXCEPT !.pc = "reload"]
    BY Zenon
  <2>2. /\ q \in CallRecord /\ q.pc = "reload" /\ q.browser = call[c].browser
        /\ q.login = call[c].login /\ q.token = call[c].token /\ q.identity = call[c].identity
        /\ q.deadline = call[c].deadline /\ call' = [call EXCEPT ![c] = q]
    BY ZenonT(30), <1>1, <1>3, <2>1, GotoCallback DEF Callback
  <2>3. CallOK(call[c])
    BY DEF LoginInv
  <2>4. CallOK(q)'
    BY Zenon, <1>1, <2>2, <2>3 DEF CallOK, BegunBy, Callback, Spent
  <2>5. Modest(c, q)
    BY <2>2 DEF Modest
  <2> QED
    BY Zenon, <2>2, <2>4, <2>5, NameStep
<1> QED
  BY <1>2, <1>3

LEMMA CompareStep ==
    ASSUME LoginInv, NEW c \in Call, call[c].pc \in {"complete", "reload"}, InTime(c), Compare(c),
           UNCHANGED <<namespace, stored, login, cookie, session, clock>>
    PROVE  LoginInv' /\ Grows
<1>1. NamesGrow /\ call[c].pc \in Spent
  BY DEF NamesGrow, LoginInv, Types, Spent
<1>2. CASE Owns(User(c), call[c].identity)
  <2>1. Grant(c) /\ namespace'[User(c)] = call[c].identity
    BY ZenonT(30), <1>2 DEF Compare, Owns
  <2> QED
    BY ZenonT(30), <1>1, <2>1, GrantStep
<1>3. CASE ~Owns(User(c), call[c].identity)
  <2>1. Respond(c, None, Keep) /\ UNCHANGED sessions
    BY <1>3 DEF Compare, Refuse
  <2> QED
    BY <1>1, <2>1, DenyStep
<1> QED
  BY <1>2, <1>3

LEMMA CompleteLoginStep ==
    ASSUME LoginInv, NEW c \in Call, CompleteLogin(c)
    PROVE  LoginInv' /\ Grows
<1>1. /\ call[c].pc = "complete" /\ InTime(c) /\ call[c].pc \in Spent
      /\ UNCHANGED <<stored, login, cookie, session, clock>>
  BY DEF CompleteLogin, Spent
<1>2. CASE Compare(c) /\ UNCHANGED namespace
  BY <1>1, <1>2, CompareStep
<1>3. ASSUME Taken(c), NamesGrow PROVE LoginInv' /\ Grows
  <2>1. UNCHANGED sessions /\ (Respond(c, None, Keep) \/ Goto(c, "reload"))
    BY <1>3 DEF Taken
  <2> QED
    BY <1>1, <1>3, <2>1, DenyStep
<1>4. CASE Claim(User(c), call[c].identity) /\ (Grant(c) \/ Taken(c))
  <2>1. PICK n, i : n = User(c) /\ i = call[c].identity
    OBVIOUS
  <2>2. call[c].login \in LoginID /\ i \in Identity /\ login[call[c].login] # NoLogin
    BY <1>1, <2>1, Shape DEF LoginInv, Types, CallOK, Callback, Spent
  <2>3. n \in Username
    BY <2>1, <2>2 DEF LoginInv, Types, State, User
  <2>4. namespace[n] = NoRecord /\ namespace' = [namespace EXCEPT ![n] = i]
    BY <1>4, <2>1 DEF Claim
  <2>5. NamesGrow /\ namespace'[n] = i
    BY <2>2, <2>3, <2>4 DEF NamesGrow, LoginInv, Types
  <2>6. namespace'[User(c)] = call[c].identity
    BY <2>1, <2>5
  <2> QED
    BY <1>1, <1>3, <1>4, <2>5, <2>6, GrantStep
<1>5. CASE Taken(c) /\ UNCHANGED namespace
  <2>1. NamesGrow
    BY <1>5 DEF NamesGrow, LoginInv, Types
  <2> QED
    BY <1>3, <1>5, <2>1
<1> QED
  BY ZenonT(30), <1>2, <1>4, <1>5 DEF CompleteLogin

LEMMA BindReloadStep ==
    ASSUME LoginInv, NEW c \in Call, BindReload(c)
    PROVE  LoginInv' /\ Grows
BY CompareStep DEF BindReload

-----------------------------------------------------------------------------
(* Steps outside requests. *)

LEMMA OutsideStep ==
    ASSUME LoginInv, Types', Grows, PutsOK', UNCHANGED <<login, cookie, session, sessions, call>>
    PROVE  LoginInv'
<1>1. ASSUME NEW c \in Call PROVE CallOK(call[c])'
  <2>1. PICK p \in CallRecord : p = call[c] /\ p = call'[c]
    BY DEF LoginInv, Types
  <2>2. CallOK(p) /\ \A s \in sessions : SessionOK(s)
    BY <2>1 DEF LoginInv
  <2>3. CallOK(p)'
    BY <2>2, GrowsCall
  <2> QED
    BY Zenon, <2>1, <2>3 DEF CallOK, BegunBy
<1>2. BrowsersOK'
  BY GrowsBrowsers DEF LoginInv
<1>3. \A s \in sessions' : SessionOK(s)'
  BY GrowsSession DEF LoginInv, Types
<1>4. OnceOK'
  BY DEF LoginInv, OnceOK, SingleUse
<1> QED
  BY <1>1, <1>2, <1>3, <1>4 DEF LoginInv

LEMMA CreateGroupStep ==
    ASSUME LoginInv, NEW n \in Username, CreateGroup(n)
    PROVE  LoginInv' /\ Grows
<1>1. Types' /\ Grows /\ PutsOK'
  BY DEF LoginInv, Types, Grows, PutsOK, CreateGroup
<1> QED
  BY <1>1, OutsideStep DEF CreateGroup

LEMMA ExpireTransactionStep ==
    ASSUME LoginInv, NEW l \in LoginID, ExpireTransaction(l)
    PROVE  LoginInv' /\ Grows
<1>1. /\ stored' \in [LoginID -> {"new", "open", "used", "expired"}]
      /\ \A k \in LoginID : stored'[k] = IF k = l THEN "expired" ELSE stored[k]
      /\ stored[l] # "new" /\ login[l] # NoLogin
  BY DEF LoginInv, Types, ExpireTransaction
<1>2. Types' /\ Grows
  BY <1>1 DEF LoginInv, Types, Grows, Over, ExpireTransaction
<1>3. \A c \in Call : call[c].pc = "put" => call[c].login \in LoginID
  BY Shape DEF LoginInv, Types
<1>4. PutsOK'
  <2>1. PutsOK /\ UNCHANGED <<login, call>>
    BY DEF LoginInv, ExpireTransaction
  <2>2. \A c \in Call : call[c].pc = "put" => call[c].login # l
    BY <1>1, <2>1 DEF PutsOK
  <2> QED
    BY <1>1, <1>3, <2>1, <2>2 DEF PutsOK
<1> QED
  BY <1>2, <1>4, OutsideStep DEF ExpireTransaction

LEMMA TickStep ==
    ASSUME LoginInv, Tick \/ UNCHANGED vars
    PROVE  LoginInv' /\ Grows
<1>1. UNCHANGED <<namespace, stored, login, cookie, session, sessions, call>> /\ clock' \in Nat
  BY ClockNat DEF Tick, vars
<1>2. Types' /\ Grows /\ PutsOK'
  BY <1>1 DEF LoginInv, Types, Grows, PutsOK
<1> QED
  BY <1>1, <1>2, OutsideStep

-----------------------------------------------------------------------------
(* The specification. *)

LEMMA InitInv == Init => LoginInv
<1> SUFFICES ASSUME Init PROVE LoginInv
  OBVIOUS
<1>1. \A c \in Call : call[c] = Idle
  BY DEF Init
<1>2. call \in [Call -> CallRecord]
  BY IdleCall DEF Init
<1>3. Types
  BY <1>2 DEF Init, Types
<1>4. BrowsersOK /\ PutsOK
  BY <1>1, IdleCall, LoginAssumption DEF Init, BrowsersOK, PutsOK
<1>5. OnceOK /\ \A c \in Call : CallOK(call[c])
  BY <1>1, IdleCall DEF Init, OnceOK, SingleUse, Spent
<1> QED
  BY <1>3, <1>4, <1>5 DEF LoginInv, Init

LEMMA ServeStep ==
    ASSUME LoginInv, NEW c \in Call, Serve(c)
    PROVE  LoginInv' /\ Grows
<1>1. CASE Fail(c)
  BY <1>1, EndStep DEF Fail
<1> QED
  BY <1>1, StartLoginStep, StartCallbackStep, StartVisitStep, LoadNameStep, PutTransactionStep,
     ReadTransactionStep, ConsumeStep, ExchangeStep, CompleteLoginStep, BindReloadStep,
     VisitStep, LogoutStep, DeliverStep DEF Serve

LEMMA NextKeeps ==
    ASSUME LoginInv, [Next]_vars
    PROVE  LoginInv' /\ Grows
BY ServeStep, CreateGroupStep, ExpireTransactionStep, TickStep DEF Next

\* The inductive invariant holds in every reachable state of service.go's logins.
THEOREM LoginInvariant == Spec => []LoginInv
<1>1. LoginInv /\ [Next]_vars => LoginInv'
  BY NextKeeps
<1> QED
  BY InitInv, <1>1, PTL DEF Spec

\* Namespaces, transactions, cookies and sessions keep their types.
THEOREM TypeCorrect == Spec => []TypeOK
<1>1. LoginInv => TypeOK
  <2> SUFFICES ASSUME LoginInv PROVE TypeOK
    OBVIOUS
  <2>1. session \in [Browser -> sessions \cup {NoSession}]
    BY DEF LoginInv, Types, BrowsersOK
  <2> QED
    BY <2>1 DEF LoginInv, Types, PutsOK, TypeOK
<1> QED
  BY <1>1, LoginInvariant, PTL

\* callback makes one session at most of a login, whatever callbacks race.
THEOREM LoginsUsedOnce == Spec => []SingleUse
<1>1. LoginInv => SingleUse
  BY DEF LoginInv, OnceOK
<1> QED
  BY <1>1, LoginInvariant, PTL

\* Sessions, and requests let into a user's space, have the owner's identity.
THEOREM IdentitiesOwnNames == Spec => []SessionsBound
<1>1. LoginInv => SessionsBound
  BY DEF LoginInv, SessionOK, CallOK, SessionsBound
<1> QED
  BY <1>1, LoginInvariant, PTL

\* A browser holds only sessions of logins that it began.
THEOREM SessionsStayInBrowser == Spec => []BrowserBound
<1>1. LoginInv => BrowserBound
  BY DEF LoginInv, BrowsersOK, BegunBy, BrowserBound
<1> QED
  BY <1>1, LoginInvariant, PTL

\* A session is made before its login expires, give or take one callback.
THEOREM LoginsExpire == Spec => []AnsweredInTime
<1>1. LoginInv => AnsweredInTime
  BY DEF LoginInv, SessionOK, AnsweredInTime
<1> QED
  BY <1>1, LoginInvariant, PTL

\* writeNamespace never gives a claimed name to another owner.
THEOREM NamesKeepOwners == Spec => NeverReassigned
<1>1. LoginInv /\ [Next]_vars =>
          [\A n \in Username : namespace[n] # NoRecord => namespace'[n] = namespace[n]]_vars
  BY NextKeeps DEF Grows
<1> QED
  BY <1>1, LoginInvariant, PTL DEF Spec, NeverReassigned

\* The callback makes sessions for the right name, in the right browser, in time.
THEOREM LoginsSafe == Spec => []LoginSafe
BY TypeCorrect, IdentitiesOwnNames, SessionsStayInBrowser, LoginsExpire, PTL DEF LoginSafe

=============================================================================
