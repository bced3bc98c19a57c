------------------------ MODULE GroupMembershipProofs ------------------------
(* Proofs that groups implement their roster, that a group always has an     *)
(* owner, and that the space index and the listings omit nobody, for any     *)
(* number of users, names, requests, operators and readers.                  *)
EXTENDS GroupMembership, FiniteSetTheorems, WellFoundedInduction, TLAPS

\* The index has a candidate for everyone whom the namespace names.
Complete(n) == \A u \in Named(namespace[n]) : <<u, n>> \in candidate

\* What a request has decided, and the candidate that it has stored.
RequestOK(q) ==
    /\ q.pc = "load" => q.call.action # "create"
    /\ q.pc \in {"candidate", "write"} =>
          IF q.call.action = "create"
          THEN q.version = NoRecord /\ q.next = NewGroup(q.call.caller)
          ELSE /\ q.version \in Roster /\ May(q.call, q.version)
               /\ q.next = Changed(q.call, q.version) /\ HasOwner(q.next)
    /\ q.pc = "write" /\ q.call.action \in {"create", "invite", "accept"} =>
          <<Granted(q.call), q.call.name>> \in candidate

OperatorRecord ==
    [pc : {"idle", "check", "survey", "head", "invalidate", "list", "load", "hint", "publish"},
     page : SUBSET Name, more : Name \cup {0}, name : Name \cup {0}, todo : SUBSET User]

\* What a preparation of the index has covered.
OperatorOK(q) ==
    /\ q.pc \in {"idle", "check", "survey", "head", "invalidate"} => q.page = {} /\ q.more = 0
    /\ q.pc = "list" => \A n \in Name : Complete(n) \/ n > q.more
    /\ q.pc \in {"load", "hint"} =>
          \A n \in Name : \/ Complete(n) \/ n \in q.page \/ (q.more # 0 /\ n > q.more)
                          \/ q.pc = "hint" /\ n = q.name
    /\ q.pc = "hint" =>
          q.name \in Name /\ \A u \in Named(namespace[q.name]) : <<u, q.name>> \in candidate \/ u \in q.todo
    /\ q.pc = "publish" => \A n \in Name : Complete(n)

ReaderRecord ==
    [pc : {"idle", "ready", "list", "load", "listed"}, page : SUBSET Name,
     more : Name \cup {0}, listed : SUBSET Name, kept : SUBSET Name]

\* What a listing has covered; q is the listing of user u.
ReaderOK(u, q) ==
    /\ \A n \in q.kept : u \in Named(namespace[n])
    /\ q.pc = "idle" => q = Away
    /\ q.pc \in {"ready", "list"} => \A n \in q.kept : n \in q.listed \/ n > q.more
    /\ q.pc = "list" /\ Indexed => \A n \in q.kept : <<u, n>> \in candidate
    /\ q.pc = "load" => \A n \in q.kept : n \in q.listed \/ n \in q.page \/ (q.more # 0 /\ n > q.more)
    /\ q.pc = "listed" => q.kept \subseteq q.listed

GroupInv ==
    /\ TypeOK /\ OwnerKept /\ IndexComplete
    /\ \A r \in Request : RequestOK(req[r])
    /\ \A o \in Operator : OperatorOK(operator[o])
    /\ \A u \in Reader : ReaderOK(u, reader[u])
-----------------------------------------------------------------------------
(* Keys and pages. *)

\* A set of numbers that is not empty has a least one.
LEMMA Least ==
    ASSUME NEW S \in SUBSET Nat, S # {}
    PROVE  \E x \in S : \A y \in S : x <= y
<1>1. PICK R : R = {p \in Nat \X Nat : p[1] < p[2]}
  BY Zenon
<1>2. IsWellFoundedOn(R, Nat)
  BY <1>1, NatLessThanWellFounded DEF OpToRel
<1>3. PICK x \in S : \A y \in S : ~(<<y, x>> \in R)
  BY Zenon, <1>2, WFMin
<1>4. ASSUME NEW y \in S PROVE x <= y
  <2>1. x \in Nat /\ y \in Nat
    OBVIOUS
  <2>2. ~(y < x)
    BY Zenon, <1>1, <1>3, <2>1
  <2> QED
    BY <2>1, <2>2
<1> QED
  BY <1>4

\* One that is bounded has a greatest one.
LEMMA Greatest ==
    ASSUME NEW S \in SUBSET Nat, S # {}, NEW b \in Nat, \A y \in S : y <= b
    PROVE  \E x \in S : \A y \in S : y <= x
<1> DEFINE B == {c \in Nat : \A y \in S : y <= c}
<1>1. PICK x \in B : \A c \in B : x <= c
  <2>1. B \in SUBSET Nat /\ B # {}
    OBVIOUS
  <2> HIDE DEF B
  <2> QED
    BY <2>1, Least
<1>2. x \in Nat /\ \A y \in S : y <= x
  BY <1>1
<1>3. x \in S
  <2> SUFFICES ASSUME x \notin S PROVE FALSE
    OBVIOUS
  <2>1. \A y \in S : y < x
    <3>1. \A y \in S : y \in Nat /\ y # x
      OBVIOUS
    <3> QED
      BY <1>2, <3>1
  <2>2. x - 1 \in Nat /\ \A y \in S : y <= x - 1
    <3>1. PICK z \in S : z \in Nat /\ z < x
      BY Zenon, <2>1
    <3>2. \A y \in S : y \in Nat /\ y < x
      BY <2>1
    <3> QED
      BY <1>2, <3>1, <3>2
  <2>3. x <= x - 1
    BY <1>1, <2>2
  <2> QED
    BY <1>2, <2>3
<1> QED
  BY <1>2, <1>3

LEMMA Names ==
    /\ \A n \in Name : n \in Nat /\ n > 0
    /\ PageSize \in Nat /\ PageSize > 0
BY GroupAssumption

LEMMA FirstIn ==
    ASSUME NEW S \in SUBSET Name, S # {}
    PROVE  First(S) \in S
<1>1. S \in SUBSET Nat
  BY Names
<1> QED
  BY Zenon, <1>1, Least DEF First

\* Whatever comes after a cursor is on the page or behind the next cursor.
LEMMA Pages ==
    ASSUME NEW keys \in SUBSET Name, NEW after \in Nat
    PROVE  /\ Page(keys, after) \subseteq keys
           /\ NextAfter(keys, after) \in Name \cup {0}
           /\ \A n \in keys : n > after =>
                 \/ n \in Page(keys, after)
                 \/ NextAfter(keys, after) # 0 /\ n > NextAfter(keys, after)
<1> DEFINE rest == {n \in keys : n > after}
           Below(n) == {m \in rest : m < n}
           P == Page(keys, after)
<1>1. P = {n \in rest : Cardinality(Below(n)) < PageSize}
  BY DEF Page
<1>2. rest \subseteq keys /\ IsFiniteSet(rest) /\ \A n \in rest : n \in Nat /\ n > 0
  BY Names, GroupAssumption, FS_Subset
<1>3. ASSUME NEW n \in rest, n \notin P, NEW p \in P
      PROVE  p < n
  <2> SUFFICES ASSUME n <= p PROVE FALSE
    BY <1>1, <1>2, <1>3
  <2>1. p \in rest /\ p \in Nat /\ n \in Nat
    BY <1>1, <1>2
  <2>2. Below(n) \subseteq Below(p)
    <3>1. \A m \in rest : m < n => m < p
      BY <1>2, <2>1
    <3> QED
      BY <3>1
  <2>3. IsFiniteSet(Below(p)) /\ IsFiniteSet(Below(n))
    <3>1. Below(p) \subseteq rest /\ Below(n) \subseteq rest
      OBVIOUS
    <3> HIDE DEF Below, rest
    <3> QED
      BY <1>2, <3>1, FS_Subset
  <2>4. /\ Cardinality(Below(n)) <= Cardinality(Below(p))
        /\ Cardinality(Below(n)) \in Nat /\ Cardinality(Below(p)) \in Nat
    <3> HIDE DEF Below
    <3> QED
      BY <2>2, <2>3, FS_Subset, FS_CardinalityType
  <2>5. Cardinality(Below(p)) < PageSize /\ ~(Cardinality(Below(n)) < PageSize)
    BY <1>1, <1>3
  <2> HIDE DEF Below
  <2> QED
    BY <2>4, <2>5, Names
<1>4. ASSUME rest # {} PROVE P # {}
  <2>1. PICK x \in rest : \A y \in rest : x <= y
    <3>1. rest \in SUBSET Nat
      BY <1>2
    <3> HIDE DEF rest
    <3> QED
      BY <1>4, <3>1, Least
  <2>2. Below(x) = {}
    BY <1>2, <2>1
  <2>3. Cardinality(Below(x)) < PageSize
    <3> HIDE DEF Below
    <3> QED
      BY <2>2, FS_EmptySet, Names
  <2> QED
    BY <1>1, <2>1, <2>3
<1>5. CASE rest \subseteq P
  BY <1>1, <1>5 DEF NextAfter
<1>6. CASE ~(rest \subseteq P)
  <2>1. PICK n \in rest : n \notin P
    BY <1>6
  <2>2. P \in SUBSET Nat /\ P # {} /\ n \in Nat /\ P \subseteq rest /\ \A p \in P : p <= n
    <3>1. P \subseteq rest
      BY <1>1
    <3>2. P # {}
      BY <1>4, <2>1
    <3> HIDE DEF P, rest
    <3>3. \A p \in P : p \in Nat /\ p < n
      BY <1>2, <1>3, <2>1, <3>1
    <3> QED
      BY <1>2, <2>1, <3>1, <3>2, <3>3
  <2>3. \E x \in P : \A y \in P : y <= x
    <3> HIDE DEF P
    <3> QED
      BY Zenon, <2>2, Greatest
  <2>4. NextAfter(keys, after) = Last(P)
    BY <1>6 DEF NextAfter
  <2>5. Last(P) \in P
    <3> HIDE DEF P
    <3> QED
      BY <2>3 DEF Last
  <2>6. \A m \in rest : m \in P \/ Last(P) < m
    BY <1>3, <2>5
  <2>7. PICK l : l = NextAfter(keys, after) /\ l \in P
    BY <2>4, <2>5
  <2>8. l \in Name /\ l \in Nat /\ l # 0 /\ P \subseteq keys
    <3> HIDE DEF P
    <3>1. l \in Name
      BY <1>2, <2>2, <2>7
    <3> QED
      BY <1>2, <2>2, <2>7, <3>1
  <2>9. \A m \in rest : m \in P \/ m > l
    <3> HIDE DEF P, rest
    <3> QED
      BY <1>2, <2>4, <2>6, <2>7, <2>8
  <2> QED
    BY <2>7, <2>8, <2>9
<1> QED
  BY <1>5, <1>6

-----------------------------------------------------------------------------
(* Rosters. *)

\* A grant names nobody new but the user whose candidate precedes it.
LEMMA ChangedRoster ==
    ASSUME NEW c \in Call, c.action # "create", NEW g \in Roster, May(c, g)
    PROVE  /\ Changed(c, g) \in Roster
           /\ \A u \in Named(Changed(c, g)) :
                 u \in Named(g) \/ (c.action \in {"invite", "accept"} /\ u = Granted(c))
<1>h. PICK h : h = Changed(c, g)
  OBVIOUS
<1> SUFFICES /\ h \in Roster
             /\ \A u \in Named(h) :
                   u \in Named(g) \/ (c.action \in {"invite", "accept"} /\ u = Granted(c))
  BY <1>h
<1>1. /\ c.action \in Action /\ c.caller \in User /\ c.target \in User
      /\ c.role \in Role \cup {None}
  BY DEF Call
<1>2. /\ g = [members |-> g.members, invitations |-> g.invitations]
      /\ g.members \in [User -> Role \cup {None}] /\ g.invitations \in [User -> Role \cup {None}]
  BY DEF Roster
<1>3. ASSUME NEW m \in [User -> Role \cup {None}], NEW i \in [User -> Role \cup {None}],
             h = [members |-> m, invitations |-> i],
             \A u \in User : m[u] # None =>
                 g.members[u] # None \/ (c.action = "accept" /\ u = c.caller),
             \A u \in User : i[u] # None =>
                 g.invitations[u] # None \/ (c.action = "invite" /\ u = c.target)
      PROVE  /\ h \in Roster
             /\ \A u \in Named(h) :
                   u \in Named(g) \/ (c.action \in {"invite", "accept"} /\ u = Granted(c))
  <2>1. h \in Roster /\ h.members = m /\ h.invitations = i
    BY <1>3 DEF Roster
  <2> QED
    BY <1>3, <2>1 DEF Named, Participants, In, Granted
<1>4. CASE c.action = "accept"
  <2> DEFINE m == [g.members EXCEPT ![c.caller] = g.invitations[c.caller]]
             i == [g.invitations EXCEPT ![c.caller] = None]
  <2>1. m \in [User -> Role \cup {None}] /\ i \in [User -> Role \cup {None}]
    BY <1>1, <1>2
  <2>2. h = [members |-> m, invitations |-> i]
    BY Zenon, <1>2, <1>4, <1>h DEF Changed
  <2>3. /\ \A u \in User : m[u] # None => g.members[u] # None \/ u = c.caller
        /\ \A u \in User : i[u] # None => g.invitations[u] # None
    BY <1>1, <1>2
  <2> HIDE DEF m, i
  <2> QED
    BY <1>3, <1>4, <2>1, <2>2, <2>3
<1>5. CASE c.action = "invite"
  <2> DEFINE i == [g.invitations EXCEPT ![c.target] = c.role]
  <2>1. i \in [User -> Role \cup {None}] /\ h = [members |-> g.members, invitations |-> i]
    BY <1>1, <1>2, <1>5, <1>h DEF Changed
  <2>2. \A u \in User : i[u] # None => g.invitations[u] # None \/ u = c.target
    BY <1>1, <1>2
  <2> HIDE DEF i
  <2> QED
    BY <1>2, <1>3, <1>5, <2>1, <2>2
<1>6. CASE c.action = "cancel"
  <2> DEFINE i == [g.invitations EXCEPT ![c.target] = None]
  <2>1. i \in [User -> Role \cup {None}] /\ h = [members |-> g.members, invitations |-> i]
    BY <1>1, <1>2, <1>6, <1>h DEF Changed
  <2>2. \A u \in User : i[u] # None => g.invitations[u] # None
    BY <1>1, <1>2
  <2> HIDE DEF i
  <2> QED
    BY <1>2, <1>3, <2>1, <2>2
<1>7. CASE c.action \in {"set-role", "remove"}
  <2>1. PICK v \in Role \cup {None} : h = [g EXCEPT !.members[c.target] = v]
    BY Zenon, <1>1, <1>7, <1>h DEF Changed
  <2>2. g.members[c.target] # None
    BY Zenon, <1>7 DEF May
  <2> DEFINE m == [g.members EXCEPT ![c.target] = v]
  <2>3. m \in [User -> Role \cup {None}] /\ h = [members |-> m, invitations |-> g.invitations]
    BY <1>1, <1>2, <2>1
  <2>4. \A u \in User : m[u] # None => g.members[u] # None
    BY <1>1, <1>2, <2>2
  <2> HIDE DEF m
  <2> QED
    BY <1>2, <1>3, <2>3, <2>4
<1> QED
  BY <1>1, <1>4, <1>5, <1>6, <1>7 DEF Action

LEMMA NewGroupRoster ==
    ASSUME NEW u \in User
    PROVE  /\ NewGroup(u) \in Roster /\ HasOwner(NewGroup(u))
           /\ \A v \in Named(NewGroup(u)) : v = u
<1> DEFINE m == [v \in User |-> IF v = u THEN "owner" ELSE None]
           i == [v \in User |-> None]
<1>1. m \in [User -> Role \cup {None}] /\ i \in [User -> Role \cup {None}] /\ m[u] = "owner"
  BY GroupAssumption
<1>2. NewGroup(u) = [members |-> m, invitations |-> i]
  BY DEF NewGroup
<1>3. \A v \in User : (m[v] # None => v = u) /\ i[v] = None
  OBVIOUS
<1> HIDE DEF m, i
<1>4. NewGroup(u) \in Roster /\ NewGroup(u).members = m /\ NewGroup(u).invitations = i
  BY <1>1, <1>2 DEF Roster
<1> QED
  BY <1>1, <1>3, <1>4 DEF HasOwner, Named, Participants, In

-----------------------------------------------------------------------------
(* The roster that requests implement. *)

LEMMA CreateIsClaim ==
    ASSUME NEW n \in Name, NEW u \in User, namespace[n] = NoRecord,
           namespace' = [namespace EXCEPT ![n] = NewGroup(u)]
    PROVE  Roster_!Next
BY Zenon DEF Roster_!Next, Roster_!Claim, NewGroup

LEMMA RegisterIsClaim ==
    ASSUME NEW n \in Name, namespace[n] = NoRecord,
           namespace' = [namespace EXCEPT ![n] = UserRecord]
    PROVE  Roster_!Next
BY Zenon DEF Roster_!Next, Roster_!Claim

LEMMA ChangeIsStep ==
    ASSUME NEW n \in Name, NEW c \in Call, c.action # "create", namespace \in [Name -> Record],
           NEW g \in Roster, namespace[n] = g, May(c, g), HasOwner(Changed(c, g)),
           namespace' = [namespace EXCEPT ![n] = Changed(c, g)]
    PROVE  Roster_!Next
<1>1. /\ c.action \in Action /\ c.caller \in User /\ c.target \in User
      /\ c.role \in Role \cup {None}
  BY DEF Call
<1>2. Roster_!Roster = Roster
  BY DEF Roster_!Roster, Roster
<1>3. CASE c.action = "accept"
  <2>1. namespace[n].invitations[c.caller] # None
    BY <1>3 DEF May
  <2>2. namespace' = [namespace EXCEPT
           ![n].members[c.caller] = namespace[n].invitations[c.caller],
           ![n].invitations[c.caller] = None]
    BY Zenon, <1>1, <1>3 DEF Changed, Roster
  <2>3. Roster_!Accept(n, c.caller)
    BY Zenon, <1>2, <2>1, <2>2 DEF Roster_!Accept
  <2> QED
    BY <1>1, <2>3 DEF Roster_!Next
<1>4. CASE c.action # "accept"
  <2>1. g.members[c.caller] = "owner"
    BY <1>4 DEF May
  <2>2. c.caller \in Roster_!Owners(namespace[n])
    BY <1>1, <2>1 DEF Roster_!Owners
  <2>3. namespace'[n] = Changed(c, g)
    OBVIOUS
  <2>4. Roster_!Owners(namespace'[n]) # {}
    BY <2>3 DEF Roster_!Owners, HasOwner
  <2>5. \E r \in Role \cup {None} :
            \/ namespace' = [namespace EXCEPT ![n].members[c.target] = r]
            \/ namespace' = [namespace EXCEPT ![n].invitations[c.target] = r]
    <3>1. CASE c.action \in {"invite", "cancel"}
      BY Zenon, <1>1, <3>1 DEF Changed
    <3>2. CASE c.action \in {"set-role", "remove"}
      BY Zenon, <1>1, <3>2 DEF Changed
    <3> QED
      BY Zenon, <1>1, <1>4, <3>1, <3>2 DEF Action
  <2>6. Roster_!Decide(n, c.caller, c.target)
    BY Zenon, <1>2, <2>2, <2>4, <2>5 DEF Roster_!Decide
  <2> QED
    BY <1>1, <2>6 DEF Roster_!Next
<1> QED
  BY <1>3, <1>4

-----------------------------------------------------------------------------
(* What only grows. *)

\* Candidates stay, and a namespace names nobody new without one.
Extends ==
    /\ candidate \subseteq candidate'
    /\ \A n \in Name : \A u \in Named(namespace'[n]) :
          u \in Named(namespace[n]) \/ <<u, n>> \in candidate'

LEMMA ExtendsComplete ==
    ASSUME Extends, NEW n \in Name, Complete(n)
    PROVE  Complete(n)'
BY DEF Extends, Complete

LEMMA ExtendsOperator ==
    ASSUME Extends, NEW q \in OperatorRecord, OperatorOK(q)
    PROVE  OperatorOK(q)'
<1>1. \A n \in Name : Complete(n) => Complete(n)'
  BY ExtendsComplete
<1>2. ASSUME q.pc = "hint"
      PROVE  \A u \in Named(namespace'[q.name]) : <<u, q.name>> \in candidate' \/ u \in q.todo
  <2>1. /\ q.name \in Name
        /\ \A u \in Named(namespace[q.name]) : <<u, q.name>> \in candidate \/ u \in q.todo
    BY <1>2 DEF OperatorOK
  <2> QED
    BY <2>1 DEF Extends
<1>3. q.pc \in {"idle", "check", "survey", "head", "invalidate"} => q.page = {} /\ q.more = 0
  BY DEF OperatorOK
<1>4. q.pc = "list" => \A n \in Name : Complete(n)' \/ n > q.more
  BY <1>1 DEF OperatorOK
<1>5. q.pc \in {"load", "hint"} =>
          \A n \in Name : \/ Complete(n)' \/ n \in q.page \/ (q.more # 0 /\ n > q.more)
                          \/ q.pc = "hint" /\ n = q.name
  BY <1>1 DEF OperatorOK
<1>6. q.pc = "publish" => \A n \in Name : Complete(n)'
  BY <1>1 DEF OperatorOK
<1>7. q.pc = "hint" => q.name \in Name
  BY DEF OperatorOK
<1> QED
  BY <1>2, <1>3, <1>4, <1>5, <1>6, <1>7 DEF OperatorOK

LEMMA ExtendsIndex ==
    ASSUME Extends, IndexComplete, ready' => ready
    PROVE  IndexComplete'
<1>1. ready' => \A n \in Name : Complete(n)
  BY Zenon DEF IndexComplete, Complete
<1>2. ready' => \A n \in Name : Complete(n)'
  BY <1>1, ExtendsComplete
<1> QED
  BY Zenon, <1>2 DEF IndexComplete, Complete

LEMMA ExtendsRequest ==
    ASSUME candidate \subseteq candidate', NEW q, RequestOK(q)
    PROVE  RequestOK(q)'
BY DEF RequestOK

LEMMA ExtendsReader ==
    ASSUME candidate \subseteq candidate', UNCHANGED namespace, NEW u, NEW q, ReaderOK(u, q)
    PROVE  ReaderOK(u, q)'
BY DEF ReaderOK

\* The requests, operators and readers that take no part in a step.
LEMMA OthersKeep ==
    ASSUME GroupInv, Extends
    PROVE  /\ \A r \in Request : req'[r] = req[r] => RequestOK(req[r])'
           /\ \A o \in Operator : operator'[o] = operator[o] => OperatorOK(operator[o])'
           /\ UNCHANGED namespace =>
                 \A u \in Reader : reader'[u] = reader[u] => ReaderOK(u, reader[u])'
<1>1. ASSUME NEW r \in Request, req'[r] = req[r] PROVE RequestOK(req[r])'
  <2>1. PICK q : q = req[r] /\ q = req'[r]
    BY <1>1
  <2>2. RequestOK(q)'
    BY Zenon, <2>1, ExtendsRequest DEF GroupInv, Extends
  <2> QED
    BY <2>1, <2>2 DEF RequestOK
<1>2. ASSUME NEW o \in Operator, operator'[o] = operator[o] PROVE OperatorOK(operator[o])'
  <2>1. PICK q \in OperatorRecord : q = operator[o] /\ q = operator'[o]
    BY <1>2 DEF GroupInv, TypeOK, OperatorRecord
  <2>2. OperatorOK(q)'
    BY Zenon, <2>1, ExtendsOperator DEF GroupInv
  <2> QED
    BY <2>1, <2>2 DEF OperatorOK, Complete
<1>3. ASSUME UNCHANGED namespace, NEW u \in Reader, reader'[u] = reader[u]
      PROVE  ReaderOK(u, reader[u])'
  <2>1. PICK q : q = reader[u] /\ q = reader'[u]
    BY <1>3
  <2>2. ReaderOK(u, q)'
    BY <1>3, <2>1, ExtendsReader DEF GroupInv, Extends
  <2> QED
    BY <2>1, <2>2 DEF ReaderOK
<1> QED
  BY <1>1, <1>2, <1>3

-----------------------------------------------------------------------------
(* Requests. *)

LEMMA Shape ==
    ASSUME NEW q \in {Idle} \cup Busy
    PROVE  /\ q.pc \in {"idle", "load", "candidate", "write"}
           /\ q.pc # "idle" =>
                 /\ q \in Busy
                 /\ q.call \in Call /\ q.version \in Record /\ q.next \in Record
                 /\ q.tries \in 0 .. Attempts - 1
<1>1. CASE q = Idle
  BY <1>1 DEF Idle
<1>2. CASE q \in Busy
  BY <1>2 DEF Busy
<1> QED
  BY <1>1, <1>2

LEMMA Calls ==
    ASSUME NEW c \in Call
    PROVE  /\ c.action \in Action \cup {"create"} /\ c.name \in Name /\ c.caller \in User
           /\ c.target \in User /\ c.role \in Role \cup {None} /\ Granted(c) \in User
BY DEF Call, Granted

LEMMA IdleOK == Idle \in {Idle} \cup Busy /\ Idle.pc = "idle" /\ RequestOK(Idle) /\ RequestOK(Idle)'
BY DEF Idle, RequestOK

\* A step of a request that leaves the namespaces alone.
LEMMA RequestStep ==
    ASSUME GroupInv, NEW r \in Request, NEW q \in {Idle} \cup Busy, RequestOK(q)',
           req' = [req EXCEPT ![r] = q], candidate \subseteq candidate',
           candidate' \subseteq User \X Name, UNCHANGED <<namespace, ready, operator, reader>>
    PROVE  GroupInv'
<1>1. Extends
  BY DEF Extends
<1>2. /\ req' \in [Request -> {Idle} \cup Busy]
      /\ \A p \in Request : req'[p] = IF p = r THEN q ELSE req[p]
  BY DEF GroupInv, TypeOK
<1>3. ASSUME NEW p \in Request PROVE RequestOK(req[p])'
  <2>1. CASE p = r
    <3>1. req'[p] = q
      BY <1>2, <2>1
    <3> QED
      BY <3>1 DEF RequestOK
  <2>2. CASE p # r
    BY <1>1, <1>2, <2>2, OthersKeep
  <2> QED
    BY <2>1, <2>2
<1>4. /\ \A o \in Operator : OperatorOK(operator[o])'
      /\ \A u \in Reader : ReaderOK(u, reader[u])'
  BY <1>1, OthersKeep
<1>5. TypeOK'
  BY <1>2 DEF GroupInv, TypeOK
<1>6. OwnerKept'
  BY DEF GroupInv, OwnerKept
<1>7. IndexComplete'
  BY <1>1, ExtendsIndex DEF GroupInv
<1> QED
  BY <1>3, <1>4, <1>5, <1>6, <1>7 DEF GroupInv

LEMMA EndStep ==
    ASSUME GroupInv, NEW r \in Request, End(r),
           UNCHANGED <<namespace, candidate, ready, operator, reader>>
    PROVE  GroupInv'
<1>1. candidate' \subseteq User \X Name
  BY DEF GroupInv, TypeOK
<1> QED
  BY Zenon, <1>1, IdleOK, RequestStep DEF End

LEMMA BeginStep ==
    ASSUME GroupInv, NEW r \in Request, Begin(r)
    PROVE  GroupInv'
<1>1. PICK c \in Call : req' = [req EXCEPT ![r] =
              [pc      |-> IF c.action = "create" THEN "candidate" ELSE "load",
               call    |-> c,
               version |-> NoRecord,
               next    |-> IF c.action = "create" THEN NewGroup(c.caller) ELSE NoRecord,
               tries   |-> 0]]
  BY Zenon DEF Begin
<1>2. PICK v : v = IF c.action = "create" THEN NewGroup(c.caller) ELSE NoRecord
  OBVIOUS
<1>3. PICK q : q = [pc |-> IF c.action = "create" THEN "candidate" ELSE "load", call |-> c,
                    version |-> NoRecord, next |-> v, tries |-> 0]
  BY Zenon
<1>4. v \in Record /\ NoRecord \in Record /\ 0 \in 0 .. Attempts - 1
  <2>1. Attempts \in Nat /\ Attempts # 0
    BY GroupAssumption
  <2> QED
    BY <1>2, <2>1, Calls, NewGroupRoster DEF Record
<1>5. q \in Busy
  BY <1>3, <1>4 DEF Busy
<1>6. RequestOK(q)'
  BY <1>2, <1>3 DEF RequestOK
<1>7. req' = [req EXCEPT ![r] = q] /\ candidate' \subseteq User \X Name
  BY Zenon, <1>1, <1>2, <1>3 DEF Begin, GroupInv, TypeOK
<1> QED
  BY Zenon, <1>5, <1>6, <1>7, RequestStep DEF Begin

LEMMA LoadStep ==
    ASSUME GroupInv, NEW r \in Request, Load(r)
    PROVE  GroupInv'
<1>1. PICK c, g : c = req[r].call /\ g = namespace[c.name]
  OBVIOUS
<1>2. req[r].pc = "load" /\ UNCHANGED <<namespace, candidate, ready, operator, reader>>
  BY DEF Load
<1>3. req[r] \in {Idle} \cup Busy
  BY DEF GroupInv, TypeOK
<1>4. req[r] \in Busy /\ c \in Call
  BY <1>1, <1>2, <1>3, Shape
<1>5. CASE g \in Roster /\ May(c, g) /\ HasOwner(Changed(c, g))
  <2>1. PICK k : k = IF c.action \in {"invite", "accept"} THEN "candidate" ELSE "write"
    OBVIOUS
  <2>2. PICK h : h = Changed(c, g)
    OBVIOUS
  <2>3. PICK q : q = [req[r] EXCEPT !.version = g, !.next = h, !.pc = k]
    OBVIOUS
  <2>4. req' = [req EXCEPT ![r] = q]
    BY ZenonT(30), <1>1, <1>5, <2>1, <2>2, <2>3 DEF Load, GroupInv, TypeOK
  <2>5. c.action # "create"
    BY Zenon, <1>1, <1>2 DEF GroupInv, RequestOK
  <2>6. g \in Record /\ h \in Record
    BY <1>4, <1>5, <2>2, <2>5, ChangedRoster DEF Record
  <2>7. /\ q \in Busy /\ q.pc = k /\ q.call = c /\ q.version = g /\ q.next = h
    BY ZenonT(30), <1>1, <1>4, <2>1, <2>3, <2>6 DEF Busy
  <2>8. k = "write" => c.action \notin {"create", "invite", "accept"}
    BY <2>1, <2>5
  <2>9. RequestOK(q)'
    BY <1>5, <2>2, <2>5, <2>7, <2>8 DEF RequestOK
  <2>10. candidate' \subseteq User \X Name
    BY <1>2 DEF GroupInv, TypeOK
  <2> QED
    BY Zenon, <1>2, <2>4, <2>7, <2>9, <2>10, RequestStep
<1>6. CASE ~(g \in Roster /\ May(c, g) /\ HasOwner(Changed(c, g)))
  <2>1. End(r)
    BY <1>1, <1>6 DEF Load
  <2> QED
    BY <1>2, <2>1, EndStep
<1> QED
  BY <1>5, <1>6

LEMMA EnsureSpaceCandidateStep ==
    ASSUME GroupInv, NEW r \in Request, EnsureSpaceCandidate(r)
    PROVE  GroupInv'
<1>1. PICK c : c = req[r].call
  OBVIOUS
<1>2. PICK q : q = [req[r] EXCEPT !.pc = "write"]
  BY Zenon
<1>3. req[r].pc = "candidate" /\ req[r] \in {Idle} \cup Busy /\ RequestOK(req[r])
  BY DEF EnsureSpaceCandidate, GroupInv, TypeOK
<1>4. req[r] \in Busy /\ c \in Call
  BY <1>1, <1>3, Shape
<1>5. /\ q \in Busy /\ q.pc = "write" /\ q.call = c /\ q.version = req[r].version
      /\ q.next = req[r].next
  BY <1>1, <1>2, <1>4 DEF Busy
<1>6. req' = [req EXCEPT ![r] = q]
  BY <1>2 DEF EnsureSpaceCandidate, GroupInv, TypeOK
<1>7. candidate' = candidate \cup {<<Granted(c), c.name>>}
  BY <1>1 DEF EnsureSpaceCandidate
<1>8. candidate' \subseteq User \X Name
  BY <1>4, <1>7, Calls DEF GroupInv, TypeOK
<1>9. RequestOK(q)'
  BY <1>1, <1>3, <1>5, <1>7 DEF RequestOK
<1> QED
  BY Zenon, <1>5, <1>6, <1>7, <1>8, <1>9, RequestStep DEF EnsureSpaceCandidate

-----------------------------------------------------------------------------
(* Writes of a namespace. *)

LEMMA PutStep ==
    ASSUME GroupInv, NEW n \in Name, NEW record \in Record, Put(n, record),
           record \in Roster => HasOwner(record),
           \A u \in Named(record) : u \in Named(namespace[n]) \/ <<u, n>> \in candidate,
           req' \in [Request -> {Idle} \cup Busy], \A r \in Request : RequestOK(req[r])',
           UNCHANGED <<candidate, ready, operator>>
    PROVE  GroupInv'
<1>1. /\ namespace' \in [Name -> Record]
      /\ \A m \in Name : namespace'[m] = IF m = n THEN record ELSE namespace[m]
  BY DEF Put, GroupInv, TypeOK
<1>2. Extends
  BY <1>1 DEF Extends
<1>3. OwnerKept'
  BY <1>1 DEF GroupInv, OwnerKept, HasOwner
<1>4. \A o \in Operator : OperatorOK(operator[o])'
  BY <1>2, OthersKeep
<1>5. ASSUME NEW u \in Reader
      PROVE  reader'[u] \in ReaderRecord /\ ReaderOK(u, reader[u])'
  <2>1. PICK p \in ReaderRecord : p = reader[u] /\ ReaderOK(u, p)
    BY DEF GroupInv, TypeOK, ReaderRecord
  <2>2. PICK k : k = {m \in p.kept : u \in Named(namespace'[m])}
    BY Zenon
  <2>3. PICK q : q = [p EXCEPT !.kept = k]
    BY Zenon
  <2>4. reader'[u] = q
    BY <2>1, <2>2, <2>3 DEF Put
  <2>5. k \subseteq p.kept /\ k \in SUBSET Name
    BY <2>1, <2>2 DEF ReaderRecord
  <2>6. /\ q \in ReaderRecord /\ q.pc = p.pc /\ q.page = p.page /\ q.more = p.more
        /\ q.listed = p.listed /\ q.kept = k
    BY <2>3, <2>5 DEF ReaderRecord
  <2>7. q.pc = "idle" => q = Away
    <3> SUFFICES ASSUME q.pc = "idle" PROVE q = Away
      OBVIOUS
    <3>1. p = Away
      BY <2>1, <2>6 DEF ReaderOK
    <3>2. p.kept = {}
      BY <3>1 DEF Away
    <3>3. q = p
      BY <2>3, <2>5, <3>2 DEF ReaderRecord
    <3> QED
      BY <3>1, <3>3
  <2>8. ReaderOK(u, q)'
    BY <2>1, <2>2, <2>5, <2>6, <2>7 DEF ReaderOK
  <2> QED
    BY <2>4, <2>6, <2>8 DEF ReaderOK
<1>6. reader' \in [Reader -> ReaderRecord]
  <2>1. reader' = [u \in Reader |-> reader'[u]]
    BY DEF Put
  <2> QED
    BY <1>5, <2>1
<1>7. TypeOK'
  BY <1>1, <1>6 DEF GroupInv, TypeOK, ReaderRecord
<1>8. IndexComplete'
  BY <1>2, ExtendsIndex DEF GroupInv
<1> QED
  BY <1>3, <1>4, <1>5, <1>7, <1>8 DEF GroupInv

LEMMA RegisterUserStep ==
    ASSUME GroupInv, NEW n \in Name, RegisterUser(n)
    PROVE  GroupInv' /\ Roster_!Next
<1>1. UserRecord \in Record /\ UserRecord \notin Roster /\ Named(UserRecord) = {}
  BY GroupAssumption DEF Record, Named
<1>2. Extends
  BY <1>1 DEF Extends, RegisterUser, Put, GroupInv, TypeOK
<1>3. \A r \in Request : RequestOK(req[r])'
  BY <1>2, OthersKeep DEF RegisterUser
<1>4. req' \in [Request -> {Idle} \cup Busy]
  BY DEF RegisterUser, GroupInv, TypeOK
<1>5. GroupInv'
  BY <1>1, <1>3, <1>4, PutStep DEF RegisterUser
<1> QED
  BY Zenon, <1>5, RegisterIsClaim DEF RegisterUser, Put

\* After a conflict the request is over or starts again.
LEMMA ConflictRequest ==
    ASSUME GroupInv, NEW r \in Request, req[r].pc # "idle", Conflict(r) \/ End(r)
    PROVE  \E q \in {Idle} \cup Busy :
              RequestOK(q) /\ RequestOK(q)' /\ req' = [req EXCEPT ![r] = q]
<1>1. CASE End(r)
  BY Zenon, <1>1, IdleOK DEF End
<1>2. CASE ~End(r) /\ Conflict(r)
  <2>1. /\ req[r].call.action # "create" /\ req[r].tries + 1 # Attempts
        /\ req' = [req EXCEPT ![r].pc = "load", ![r].tries = @ + 1,
                              ![r].version = NoRecord, ![r].next = NoRecord]
    BY <1>2 DEF Conflict
  <2>2. req[r] \in Busy /\ req[r].tries \in 0 .. Attempts - 1
    BY Shape DEF GroupInv, TypeOK
  <2>3. req[r].tries + 1 \in 0 .. Attempts - 1
    <3>1. Attempts \in Nat
      BY GroupAssumption
    <3> QED
      BY <2>1, <2>2, <3>1
  <2>4. PICK k : k = req[r].tries + 1
    OBVIOUS
  <2>5. PICK q : q = [req[r] EXCEPT !.pc = "load", !.tries = k, !.version = NoRecord,
                                    !.next = NoRecord]
    OBVIOUS
  <2>6. req' = [req EXCEPT ![r] = q]
    BY Zenon, <2>1, <2>4, <2>5 DEF GroupInv, TypeOK
  <2>7. q \in Busy /\ q.pc = "load" /\ q.call = req[r].call
    BY Zenon, <2>2, <2>3, <2>4, <2>5 DEF Busy, Record
  <2>8. RequestOK(q) /\ RequestOK(q)'
    BY <2>1, <2>7 DEF RequestOK
  <2> QED
    BY Zenon, <2>6, <2>7, <2>8
<1> QED
  BY <1>1, <1>2

LEMMA WriteNamespaceStep ==
    ASSUME GroupInv, NEW r \in Request, WriteNamespace(r)
    PROVE  GroupInv' /\ (Roster_!Next \/ UNCHANGED namespace)
<1>1. PICK c, g, h : c = req[r].call /\ g = req[r].version /\ h = req[r].next
  OBVIOUS
<1>2. req[r].pc = "write" /\ UNCHANGED <<candidate, ready, operator>> /\ RequestOK(req[r])
  BY DEF WriteNamespace, GroupInv
<1>3. c \in Call /\ h \in Record /\ c.name \in Name /\ c.caller \in User
  BY <1>1, <1>2, Shape, Calls DEF GroupInv, TypeOK
<1>4. Conflict(r) \/ End(r)
  BY DEF WriteNamespace
<1>5. PICK q \in {Idle} \cup Busy : RequestOK(q) /\ RequestOK(q)' /\ req' = [req EXCEPT ![r] = q]
  BY <1>2, <1>4, ConflictRequest
<1>6. CASE UNCHANGED <<namespace, reader>>
  <2>1. candidate' \subseteq User \X Name
    BY <1>2 DEF GroupInv, TypeOK
  <2> QED
    BY ZenonT(30), <1>2, <1>5, <1>6, <2>1, RequestStep
<1>7. CASE namespace[c.name] = g /\ Put(c.name, h)
  <2>1. namespace' = [namespace EXCEPT ![c.name] = h]
    BY <1>7 DEF Put
  <2>2. namespace \in [Name -> Record]
    BY DEF GroupInv, TypeOK
  <2>3. IF c.action = "create" THEN g = NoRecord /\ h = NewGroup(c.caller)
        ELSE g \in Roster /\ May(c, g) /\ h = Changed(c, g) /\ HasOwner(h)
    BY <1>1, <1>2 DEF RequestOK
  <2>4. c.action \in {"create", "invite", "accept"} => <<Granted(c), c.name>> \in candidate
    BY <1>1, <1>2 DEF RequestOK
  <2>5. /\ h \in Roster => HasOwner(h)
        /\ \A u \in Named(h) : u \in Named(g) \/ <<u, c.name>> \in candidate
        /\ Roster_!Next
    <3>1. CASE c.action = "create"
      <4>1. Granted(c) = c.caller
        BY <3>1 DEF Granted
      <4> QED
        BY Zenon, <1>3, <1>7, <2>1, <2>3, <2>4, <3>1, <4>1, NewGroupRoster, CreateIsClaim
    <3>2. CASE c.action # "create"
      <4>1. \A u \in Named(h) : u \in Named(g) \/ <<u, c.name>> \in candidate
        BY <1>3, <2>3, <2>4, <3>2, ChangedRoster
      <4>2. Roster_!Next
        BY ZenonT(30), <1>3, <1>7, <2>1, <2>2, <2>3, <3>2, ChangeIsStep
      <4> QED
        BY <2>3, <3>2, <4>1, <4>2
    <3> QED
      BY <3>1, <3>2
  <2>6. /\ req' \in [Request -> {Idle} \cup Busy]
        /\ \A p \in Request : req'[p] = IF p = r THEN q ELSE req[p]
    BY <1>5 DEF GroupInv, TypeOK
  <2>7. Extends
    BY <1>2, <1>3, <1>7, <2>1, <2>2, <2>5 DEF Extends
  <2>8. ASSUME NEW p \in Request PROVE RequestOK(req[p])'
    <3>1. CASE p = r
      <4>1. req'[p] = q
        BY <2>6, <3>1
      <4> QED
        BY <1>5, <4>1 DEF RequestOK
    <3>2. CASE p # r
      BY <2>6, <2>7, <3>2, OthersKeep
    <3> QED
      BY <3>1, <3>2
  <2>9. GroupInv'
    BY <1>2, <1>3, <1>7, <2>5, <2>6, <2>8, PutStep
  <2> QED
    BY <2>5, <2>9
<1> QED
  BY <1>1, <1>6, <1>7 DEF WriteNamespace

-----------------------------------------------------------------------------
(* Operators. *)

LEMMA OperatorStep ==
    ASSUME GroupInv, NEW o \in Operator, NEW q \in OperatorRecord, OperatorOK(q)',
           operator' = [operator EXCEPT ![o] = q], candidate \subseteq candidate',
           candidate' \subseteq User \X Name, ready' \in BOOLEAN,
           ready' => ready \/ \A n \in Name : Complete(n),
           UNCHANGED <<namespace, req, reader>>
    PROVE  GroupInv'
<1>1. Extends
  BY DEF Extends
<1>2. /\ operator' \in [Operator -> OperatorRecord]
      /\ \A p \in Operator : operator'[p] = IF p = o THEN q ELSE operator[p]
  BY DEF GroupInv, TypeOK, OperatorRecord
<1>3. ASSUME NEW p \in Operator PROVE OperatorOK(operator[p])'
  <2>1. CASE p = o
    <3>1. operator'[p] = q
      BY <1>2, <2>1
    <3> QED
      BY <3>1 DEF OperatorOK, Complete
  <2>2. CASE p # o
    BY <1>1, <1>2, <2>2, OthersKeep
  <2> QED
    BY <2>1, <2>2
<1>4. /\ \A r \in Request : RequestOK(req[r])'
      /\ \A u \in Reader : ReaderOK(u, reader[u])'
  BY <1>1, OthersKeep
<1>5. TypeOK'
  BY <1>2 DEF GroupInv, TypeOK, OperatorRecord
<1>6. OwnerKept'
  BY DEF GroupInv, OwnerKept
<1>7. IndexComplete'
  <2>1. ready' => \A n \in Name : Complete(n)
    BY Zenon DEF GroupInv, IndexComplete, Complete
  <2>2. ready' => \A n \in Name : Complete(n)'
    BY <1>1, <2>1, ExtendsComplete
  <2> QED
    BY Zenon, <2>2 DEF IndexComplete, Complete
<1> QED
  BY <1>3, <1>4, <1>5, <1>6, <1>7 DEF GroupInv

\* A step that stores nothing.
LEMMA OperatorMoves ==
    ASSUME GroupInv, NEW o \in Operator, NEW q \in OperatorRecord, OperatorOK(q),
           operator' = [operator EXCEPT ![o] = q],
           UNCHANGED <<namespace, candidate, ready, req, reader>>
    PROVE  GroupInv'
<1>1. OperatorOK(q)'
  BY DEF OperatorOK, Complete
<1>2. candidate' \subseteq User \X Name /\ ready' \in BOOLEAN
  BY DEF GroupInv, TypeOK
<1> QED
  BY Zenon, <1>1, <1>2, OperatorStep

LEMMA RestingOK == Resting \in OperatorRecord /\ OperatorOK(Resting) /\ OperatorOK(Resting)'
BY DEF Resting, OperatorRecord, OperatorOK

\* A namespace that is not there names nobody.
LEMMA UnclaimedComplete ==
    ASSUME NEW n \in Name, n \notin Claimed
    PROVE  Complete(n)
BY GroupAssumption DEF Claimed, Complete, Named

LEMMA MoveRecord ==
    ASSUME GroupInv, NEW o \in Operator, NEW pc, Move(o, pc),
           pc \in {"idle", "check", "survey", "head", "invalidate", "list", "load", "publish"}
    PROVE  \E q \in OperatorRecord :
              /\ operator' = [operator EXCEPT ![o] = q]
              /\ q.pc = pc /\ q.page = operator[o].page /\ q.more = operator[o].more
<1>1. PICK q : q = [operator[o] EXCEPT !.pc = pc]
  BY ZenonT(30)
<1>2. operator[o] \in OperatorRecord /\ operator' = [operator EXCEPT ![o] = q]
  BY <1>1 DEF GroupInv, TypeOK, OperatorRecord, Move
<1>3. q \in OperatorRecord /\ q.pc = pc /\ q.page = operator[o].page /\ q.more = operator[o].more
  BY <1>1, <1>2 DEF OperatorRecord
<1> QED
  BY Zenon, <1>2, <1>3

LEMMA StartingStep ==
    ASSUME GroupInv, NEW o \in Operator,
           StartOperator(o) \/ CheckReady(o) \/ Survey(o) \/ HeadReady(o)
    PROVE  GroupInv'
<1>1. /\ operator[o].pc \in {"idle", "check", "survey", "head"}
      /\ operator[o].page = {} /\ operator[o].more = 0
  BY DEF StartOperator, CheckReady, Survey, HeadReady, GroupInv, OperatorOK
<1>2. PICK pc : /\ Move(o, pc)
                /\ pc \in {"idle", "check", "survey", "head", "invalidate", "list", "publish"}
                /\ pc = "publish" => Claimed = {}
  BY DEF StartOperator, CheckReady, Survey, HeadReady
<1>3. PICK q \in OperatorRecord :
          /\ operator' = [operator EXCEPT ![o] = q]
          /\ q.pc = pc /\ q.page = {} /\ q.more = 0
  <2>0. pc \in {"idle", "check", "survey", "head", "invalidate", "list", "load", "publish"}
    BY <1>2
  <2>1. PICK q \in OperatorRecord :
            /\ operator' = [operator EXCEPT ![o] = q]
            /\ q.pc = pc /\ q.page = operator[o].page /\ q.more = operator[o].more
    BY ZenonT(30), <1>2, <2>0, MoveRecord
  <2>2. q.page = {} /\ q.more = 0
    BY <1>1, <2>1
  <2> QED
    BY Zenon, <2>1, <2>2
<1>4. q.pc = "publish" => \A n \in Name : Complete(n)
  BY <1>2, <1>3, UnclaimedComplete
<1>5. \A n \in Name : n > q.more
  BY <1>3, Names
<1>6. OperatorOK(q)
  BY <1>2, <1>3, <1>4, <1>5 DEF OperatorOK
<1> QED
  BY ZenonT(30), <1>3, <1>6, OperatorMoves DEF StartOperator, CheckReady, Survey, HeadReady

LEMMA InvalidateStep ==
    ASSUME GroupInv, NEW o \in Operator, Invalidate(o)
    PROVE  GroupInv'
<1>1. operator[o].page = {} /\ operator[o].more = 0
  BY DEF Invalidate, GroupInv, OperatorOK
<1>2. PICK pc : Move(o, pc) /\ pc \in {"idle", "list"}
  BY DEF Invalidate
<1>3. PICK q \in OperatorRecord :
          /\ operator' = [operator EXCEPT ![o] = q]
          /\ q.pc = pc /\ q.page = {} /\ q.more = 0
  <2>0. pc \in {"idle", "check", "survey", "head", "invalidate", "list", "load", "publish"}
    BY <1>2
  <2>1. PICK q \in OperatorRecord :
            /\ operator' = [operator EXCEPT ![o] = q]
            /\ q.pc = pc /\ q.page = operator[o].page /\ q.more = operator[o].more
    BY ZenonT(30), <1>2, <2>0, MoveRecord
  <2>2. q.page = {} /\ q.more = 0
    BY <1>1, <2>1
  <2> QED
    BY Zenon, <2>1, <2>2
<1>4. \A n \in Name : n > q.more
  BY <1>3, Names
<1>5. OperatorOK(q)'
  BY <1>2, <1>3, <1>4 DEF OperatorOK
<1>6. candidate' \subseteq User \X Name /\ candidate \subseteq candidate' /\ ready' = FALSE
  BY DEF Invalidate, GroupInv, TypeOK
<1> QED
  BY Zenon, <1>3, <1>5, <1>6, OperatorStep DEF Invalidate

LEMMA PublishReadyStep ==
    ASSUME GroupInv, NEW o \in Operator, PublishReady(o)
    PROVE  GroupInv'
<1>1. \A n \in Name : Complete(n)
  BY DEF PublishReady, GroupInv, OperatorOK
<1>2. candidate' \subseteq User \X Name /\ candidate \subseteq candidate' /\ ready' = TRUE
  BY DEF PublishReady, GroupInv, TypeOK
<1> QED
  BY Zenon, <1>1, <1>2, RestingOK, OperatorStep DEF PublishReady

LEMMA ListNamespacesStep ==
    ASSUME GroupInv, NEW o \in Operator, ListNamespaces(o)
    PROVE  GroupInv'
<1>1. PICK a, P, m : /\ a = operator[o].more /\ P = Page(Claimed, a) /\ m = NextAfter(Claimed, a)
  OBVIOUS
<1>2. PICK q : q = [operator[o] EXCEPT !.pc = "load", !.page = P, !.more = m]
  OBVIOUS
<1>3. operator[o] \in OperatorRecord /\ operator[o].pc = "list" /\ OperatorOK(operator[o])
  BY DEF ListNamespaces, GroupInv, TypeOK, OperatorRecord
<1>4. operator' = [operator EXCEPT ![o] = q]
  BY Zenon, <1>1, <1>2 DEF ListNamespaces, GroupInv, TypeOK
<1>5. Claimed \in SUBSET Name /\ a \in Nat
  <2>1. Claimed \in SUBSET Name
    BY DEF Claimed
  <2>2. a \in Name \cup {0}
    BY <1>1, <1>3 DEF OperatorRecord
  <2> QED
    BY <2>1, <2>2, Names
<1>6. /\ P \subseteq Claimed /\ m \in Name \cup {0}
      /\ \A n \in Claimed : n > a => n \in P \/ (m # 0 /\ n > m)
  BY <1>1, <1>5, Pages
<1>7. q \in OperatorRecord /\ q.pc = "load" /\ q.page = P /\ q.more = m
  BY ZenonT(30), <1>2, <1>3, <1>5, <1>6 DEF OperatorRecord
<1>8. \A n \in Name : Complete(n) \/ n > a
  BY <1>1, <1>3 DEF OperatorOK
<1>9. \A n \in Name : Complete(n) \/ n \in P \/ (m # 0 /\ n > m)
  BY <1>6, <1>8, UnclaimedComplete
<1>10. OperatorOK(q)
  BY <1>7, <1>9 DEF OperatorOK
<1> QED
  BY Zenon, <1>4, <1>7, <1>10, OperatorMoves DEF ListNamespaces

LEMMA LoadGroupStep ==
    ASSUME GroupInv, NEW o \in Operator, LoadGroup(o)
    PROVE  GroupInv'
<1>1. PICK P, n, T : /\ P = operator[o].page /\ n = First(P) /\ T = Named(namespace[n])
  OBVIOUS
<1>2. PICK q : q = [operator[o] EXCEPT !.pc = "hint", !.name = n, !.page = P \ {n}, !.todo = T]
  OBVIOUS
<1>3. /\ operator[o] \in OperatorRecord /\ operator[o].pc = "load" /\ P # {}
      /\ OperatorOK(operator[o])
  BY <1>1 DEF LoadGroup, GroupInv, TypeOK, OperatorRecord
<1>4. P \in SUBSET Name
  BY <1>1, <1>3 DEF OperatorRecord
<1>5. n \in P /\ n \in Name
  BY <1>1, <1>3, <1>4, FirstIn
<1>6. T \in SUBSET User
  BY <1>1 DEF Named, Participants, In
<1>7. operator' = [operator EXCEPT ![o] = q]
  BY Zenon, <1>1, <1>2 DEF LoadGroup, GroupInv, TypeOK
<1>8. /\ q \in OperatorRecord /\ q.pc = "hint" /\ q.page = P \ {n} /\ q.name = n /\ q.todo = T
      /\ q.more = operator[o].more
  BY ZenonT(30), <1>2, <1>3, <1>4, <1>5, <1>6 DEF OperatorRecord
<1>9. \A k \in Name : Complete(k) \/ k \in P \/ (q.more # 0 /\ k > q.more)
  BY <1>1, <1>3, <1>8 DEF OperatorOK
<1>10. OperatorOK(q)
  BY <1>1, <1>5, <1>8, <1>9 DEF OperatorOK
<1> QED
  BY ZenonT(30), <1>7, <1>8, <1>10, OperatorMoves DEF LoadGroup

LEMMA HintStep ==
    ASSUME GroupInv, NEW o \in Operator, Hint(o)
    PROVE  GroupInv'
<1>1. PICK u \in operator[o].todo :
          /\ candidate' = candidate \cup {<<u, operator[o].name>>}
          /\ operator' = [operator EXCEPT ![o].todo = @ \ {u}]
  BY Zenon DEF Hint
<1>2. PICK p \in OperatorRecord : p = operator[o] /\ OperatorOK(p) /\ p.pc = "hint"
  BY DEF Hint, GroupInv, TypeOK, OperatorRecord
<1>3. PICK q : q = [p EXCEPT !.todo = p.todo \ {u}]
  BY Zenon
<1>4. operator' = [operator EXCEPT ![o] = q]
  BY <1>1, <1>2, <1>3 DEF GroupInv, TypeOK
<1>5. u \in User /\ p.name \in Name
  BY <1>1, <1>2 DEF OperatorRecord, OperatorOK
<1>6. /\ q \in OperatorRecord /\ q.pc = "hint" /\ q.page = p.page /\ q.more = p.more
      /\ q.name = p.name /\ q.todo = p.todo \ {u}
  BY <1>2, <1>3 DEF OperatorRecord
<1>7. candidate \subseteq candidate' /\ candidate' \subseteq User \X Name
  BY <1>1, <1>2, <1>5 DEF GroupInv, TypeOK
<1>8. Extends
  BY <1>7 DEF Extends, Hint
<1>9. OperatorOK(p)'
  BY <1>2, <1>8, ExtendsOperator
<1>10. \A v \in Named(namespace'[q.name]) : <<v, q.name>> \in candidate' \/ v \in q.todo
  BY <1>1, <1>2, <1>6, <1>9 DEF OperatorOK
<1>11. OperatorOK(q)'
  BY <1>2, <1>6, <1>9, <1>10 DEF OperatorOK
<1>12. ready' \in BOOLEAN /\ (ready' => ready) /\ UNCHANGED <<namespace, req, reader>>
  BY DEF Hint, GroupInv, TypeOK
<1> QED
  BY Zenon, <1>4, <1>6, <1>7, <1>11, <1>12, OperatorStep

LEMMA PageStep ==
    ASSUME GroupInv, NEW o \in Operator, Hinted(o) \/ PageDone(o)
    PROVE  GroupInv'
<1>1. PICK p \in OperatorRecord : p = operator[o] /\ OperatorOK(p)
  BY DEF GroupInv, TypeOK, OperatorRecord
<1>2. CASE Hinted(o)
  <2>1. PICK q \in OperatorRecord : /\ operator' = [operator EXCEPT ![o] = q]
                                    /\ q.pc = "load" /\ q.page = p.page /\ q.more = p.more
    BY <1>1, <1>2, MoveRecord DEF Hinted
  <2>2. p.pc = "hint" /\ p.todo = {}
    BY <1>1, <1>2 DEF Hinted
  <2>3. Complete(p.name)
    BY <1>1, <2>2 DEF OperatorOK, Complete
  <2>4. \A n \in Name : Complete(n) \/ n \in q.page \/ (q.more # 0 /\ n > q.more)
    BY <1>1, <2>1, <2>2, <2>3 DEF OperatorOK
  <2>5. OperatorOK(q)
    BY <2>1, <2>4 DEF OperatorOK
  <2> QED
    BY Zenon, <1>2, <2>1, <2>5, OperatorMoves DEF Hinted
<1>3. CASE PageDone(o)
  <2>1. PICK pc : pc = (IF p.more = 0 THEN "publish" ELSE "list") /\ Move(o, pc)
    BY <1>1, <1>3 DEF PageDone
  <2>2. PICK q \in OperatorRecord : /\ operator' = [operator EXCEPT ![o] = q]
                                    /\ q.pc = pc /\ q.page = p.page /\ q.more = p.more
    BY <1>1, <2>1, MoveRecord
  <2>3. \A n \in Name : Complete(n) \/ (p.more # 0 /\ n > p.more)
    BY <1>1, <1>3 DEF PageDone, OperatorOK
  <2>4. OperatorOK(q)
    BY <2>1, <2>2, <2>3 DEF OperatorOK
  <2> QED
    BY Zenon, <1>3, <2>2, <2>4, OperatorMoves DEF PageDone
<1> QED
  BY <1>2, <1>3

LEMMA PrepareStep ==
    ASSUME GroupInv, NEW o \in Operator, Prepare(o)
    PROVE  GroupInv' /\ UNCHANGED namespace
<1>1. UNCHANGED namespace
  BY DEF Prepare, StartOperator, FailOperator, CheckReady, Survey, HeadReady, Invalidate,
         ListNamespaces, LoadGroup, Hint, Hinted, PageDone, PublishReady
<1>2. CASE FailOperator(o)
  BY ZenonT(30), <1>2, RestingOK, OperatorMoves DEF FailOperator
<1> QED
  BY <1>1, <1>2, StartingStep, InvalidateStep, PublishReadyStep, ListNamespacesStep,
     LoadGroupStep, HintStep, PageStep DEF Prepare

-----------------------------------------------------------------------------
(* Readers. *)

LEMMA ReaderStep ==
    ASSUME GroupInv, NEW u \in Reader, NEW q \in ReaderRecord, ReaderOK(u, q),
           reader' = [reader EXCEPT ![u] = q],
           UNCHANGED <<namespace, candidate, ready, req, operator>>
    PROVE  GroupInv'
<1>1. Extends
  BY DEF Extends
<1>2. /\ reader' \in [Reader -> ReaderRecord]
      /\ \A v \in Reader : reader'[v] = IF v = u THEN q ELSE reader[v]
  BY DEF GroupInv, TypeOK, ReaderRecord
<1>3. ASSUME NEW v \in Reader PROVE ReaderOK(v, reader[v])'
  <2>1. CASE v = u
    <3>1. reader'[v] = q
      BY <1>2, <2>1
    <3> QED
      BY Zenon, <2>1, <3>1 DEF ReaderOK
  <2>2. CASE v # u
    BY <1>1, <1>2, <2>2, OthersKeep
  <2> QED
    BY <2>1, <2>2
<1>4. /\ \A r \in Request : RequestOK(req[r])'
      /\ \A o \in Operator : OperatorOK(operator[o])'
  BY <1>1, OthersKeep
<1>5. TypeOK'
  BY <1>2 DEF GroupInv, TypeOK, ReaderRecord
<1>6. OwnerKept' /\ IndexComplete'
  BY ZenonT(30) DEF GroupInv, OwnerKept, IndexComplete
<1> QED
  BY <1>3, <1>4, <1>5, <1>6 DEF GroupInv

LEMMA AwayOK ==
    ASSUME NEW u
    PROVE  Away \in ReaderRecord /\ ReaderOK(u, Away)
BY DEF Away, ReaderRecord, ReaderOK

LEMMA StartListingStep ==
    ASSUME GroupInv, NEW u \in Reader, StartListing(u)
    PROVE  GroupInv'
<1>1. reader[u] = Away
  BY DEF StartListing, GroupInv, ReaderOK
<1>2. PICK k : k = {n \in Name : u \in Named(namespace[n])}
  BY Zenon
<1>3. PICK q : q = [Away EXCEPT !.pc = "ready", !.kept = k]
  OBVIOUS
<1>4. reader' = [reader EXCEPT ![u] = q]
  BY Zenon, <1>1, <1>2, <1>3 DEF StartListing, GroupInv, TypeOK
<1>5. /\ q \in ReaderRecord /\ q.pc = "ready" /\ q.more = 0 /\ q.kept = k
  BY Zenon, <1>2, <1>3 DEF Away, ReaderRecord
<1>6. \A n \in k : n > 0
  BY <1>2, Names
<1>7. ReaderOK(u, q)
  BY <1>2, <1>5, <1>6 DEF ReaderOK
<1> QED
  BY <1>4, <1>5, <1>7, ReaderStep DEF StartListing

LEMMA ReadReadyStep ==
    ASSUME GroupInv, NEW u \in Reader, ReadReady(u)
    PROVE  GroupInv'
<1>1. PICK p \in ReaderRecord : p = reader[u] /\ ReaderOK(u, p) /\ p.pc = "ready"
  BY DEF ReadReady, GroupInv, TypeOK, ReaderRecord
<1>2. CASE Indexed /\ ~ready
  <2>1. reader' = [reader EXCEPT ![u] = Away]
    BY <1>2 DEF ReadReady
  <2> QED
    BY Zenon, <2>1, AwayOK, ReaderStep DEF ReadReady
<1>3. CASE ~(Indexed /\ ~ready)
  <2>1. PICK q : q = [p EXCEPT !.pc = "list"]
    BY Zenon
  <2>2. reader' = [reader EXCEPT ![u] = q]
    BY Zenon, <1>1, <1>3, <2>1 DEF ReadReady
  <2>3. /\ q \in ReaderRecord /\ q.pc = "list" /\ q.page = p.page /\ q.more = p.more
        /\ q.listed = p.listed /\ q.kept = p.kept
    BY <1>1, <2>1 DEF ReaderRecord
  <2>4. Indexed => \A n \in q.kept : <<u, n>> \in candidate
    <3>1. \A n \in q.kept : n \in Name /\ u \in Named(namespace[n])
      BY <1>1, <2>3 DEF ReaderOK, ReaderRecord
    <3> QED
      BY <1>3, <3>1 DEF GroupInv, IndexComplete
  <2>5. ReaderOK(u, q)
    BY <1>1, <2>3, <2>4 DEF ReaderOK
  <2> QED
    BY Zenon, <2>2, <2>3, <2>5, ReaderStep DEF ReadReady
<1> QED
  BY <1>2, <1>3

LEMMA ListKeysStep ==
    ASSUME GroupInv, NEW u \in Reader, ListKeys(u)
    PROVE  GroupInv'
<1>1. PICK p \in ReaderRecord : p = reader[u] /\ ReaderOK(u, p) /\ p.pc = "list"
  BY DEF ListKeys, GroupInv, TypeOK, ReaderRecord
<1>2. PICK K, a, P, m : /\ K = Keys(u) /\ a = p.more /\ P = Page(K, a) /\ m = NextAfter(K, a)
  OBVIOUS
<1>3. PICK q : q = [p EXCEPT !.pc = "load", !.page = P, !.more = m]
  OBVIOUS
<1>4. reader' = [reader EXCEPT ![u] = q]
  BY Zenon, <1>1, <1>2, <1>3 DEF ListKeys, GroupInv, TypeOK
<1>5. K \in SUBSET Name /\ a \in Nat
  BY <1>2, Names DEF Keys, Claimed, ReaderRecord
<1>6. /\ P \subseteq K /\ m \in Name \cup {0}
      /\ \A n \in K : n > a => n \in P \/ (m # 0 /\ n > m)
  BY <1>2, <1>5, Pages
<1>7. /\ q \in ReaderRecord /\ q.pc = "load" /\ q.page = P /\ q.more = m
      /\ q.listed = p.listed /\ q.kept = p.kept
  BY ZenonT(30), <1>3, <1>5, <1>6 DEF ReaderRecord
<1>8. p.kept \subseteq K
  <2>1. \A n \in p.kept : n \in Name /\ u \in Named(namespace[n])
    BY <1>1 DEF ReaderOK, ReaderRecord
  <2>2. CASE Indexed
    BY <1>1, <1>2, <2>1, <2>2 DEF ReaderOK, Keys
  <2>3. CASE ~Indexed
    <3>1. \A n \in p.kept : n \in Claimed
      BY <2>1, GroupAssumption DEF Named, Claimed
    <3> QED
      BY <1>2, <2>3, <3>1 DEF Keys
  <2> QED
    BY <2>2, <2>3
<1>9. \A n \in p.kept : n \in p.listed \/ n > a
  BY <1>1, <1>2 DEF ReaderOK
<1>10. ReaderOK(u, q)
  <2>1. \A n \in p.kept : n \in p.listed \/ n \in P \/ (m # 0 /\ n > m)
    BY <1>6, <1>8, <1>9
  <2> QED
    BY <1>1, <1>7, <2>1 DEF ReaderOK
<1> QED
  BY Zenon, <1>4, <1>7, <1>10, ReaderStep DEF ListKeys

LEMMA LoadSpaceStep ==
    ASSUME GroupInv, NEW u \in Reader, LoadSpace(u)
    PROVE  GroupInv'
<1>1. PICK p \in ReaderRecord : p = reader[u] /\ ReaderOK(u, p) /\ p.pc = "load" /\ p.page # {}
  BY DEF LoadSpace, GroupInv, TypeOK, ReaderRecord
<1>2. PICK n, l : /\ n = First(p.page)
                  /\ l = IF u \in Named(namespace[n]) THEN p.listed \cup {n} ELSE p.listed
  BY Zenon
<1>3. PICK q : q = [p EXCEPT !.page = p.page \ {n}, !.listed = l]
  OBVIOUS
<1>4. reader' = [reader EXCEPT ![u] = q]
  BY Zenon, <1>1, <1>2, <1>3 DEF LoadSpace, GroupInv, TypeOK
<1>5. p.page \in SUBSET Name /\ n \in p.page
  BY <1>1, <1>2, FirstIn DEF ReaderRecord
<1>6. /\ q \in ReaderRecord /\ q.pc = "load" /\ q.page = p.page \ {n} /\ q.more = p.more
      /\ q.listed = l /\ q.kept = p.kept
  BY ZenonT(30), <1>1, <1>2, <1>3, <1>5 DEF ReaderRecord
<1>7. \A k \in p.kept : u \in Named(namespace[k])
  BY <1>1 DEF ReaderOK
<1>8. \A k \in p.kept : k \in l \/ k \in q.page \/ (q.more # 0 /\ k > q.more)
  <2>1. \A k \in p.kept : k \in p.listed \/ k \in p.page \/ (p.more # 0 /\ k > p.more)
    BY <1>1 DEF ReaderOK
  <2> QED
    BY <1>2, <1>6, <1>7, <2>1
<1>9. ReaderOK(u, q)
  BY <1>6, <1>7, <1>8 DEF ReaderOK
<1> QED
  BY Zenon, <1>4, <1>6, <1>9, ReaderStep DEF LoadSpace

LEMMA ListedStep ==
    ASSUME GroupInv, NEW u \in Reader, Listed(u)
    PROVE  GroupInv'
<1>1. PICK p \in ReaderRecord : p = reader[u] /\ ReaderOK(u, p) /\ p.pc = "load" /\ p.page = {}
  BY DEF Listed, GroupInv, TypeOK, ReaderRecord
<1>2. PICK k : k = IF p.more = 0 THEN "listed" ELSE "ready"
  OBVIOUS
<1>3. PICK q : q = [p EXCEPT !.pc = k]
  BY ZenonT(30)
<1>4. reader' = [reader EXCEPT ![u] = q]
  BY <1>1, <1>2, <1>3 DEF Listed, GroupInv, TypeOK
<1>5. /\ q \in ReaderRecord /\ q.pc = k /\ q.page = {} /\ q.more = p.more
      /\ q.listed = p.listed /\ q.kept = p.kept
  BY <1>1, <1>2, <1>3 DEF ReaderRecord
<1>6. \A n \in p.kept : n \in p.listed \/ (p.more # 0 /\ n > p.more)
  BY <1>1 DEF ReaderOK
<1>7. ReaderOK(u, q)
  BY <1>1, <1>2, <1>5, <1>6 DEF ReaderOK
<1> QED
  BY Zenon, <1>4, <1>5, <1>7, ReaderStep DEF Listed

LEMMA ReadStep ==
    ASSUME GroupInv, NEW u \in Reader, Read(u)
    PROVE  GroupInv' /\ UNCHANGED namespace
<1>1. UNCHANGED namespace
  BY DEF Read, StartListing, StopListing, ReadReady, ListKeys, LoadSpace, Listed
<1>2. CASE StopListing(u)
  BY Zenon, <1>2, AwayOK, ReaderStep DEF StopListing
<1> QED
  BY <1>1, <1>2, StartListingStep, ReadReadyStep, ListKeysStep, LoadSpaceStep, ListedStep DEF Read

-----------------------------------------------------------------------------
(* The specification. *)

LEMMA InitInv == Init => GroupInv
<1> SUFFICES ASSUME Init PROVE GroupInv
  OBVIOUS
<1>1. /\ req \in [Request -> {Idle} \cup Busy] /\ \A r \in Request : req[r] = Idle
      /\ operator \in [Operator -> OperatorRecord] /\ \A o \in Operator : operator[o] = Resting
      /\ reader \in [Reader -> ReaderRecord] /\ \A u \in Reader : reader[u] = Away
  BY RestingOK, AwayOK DEF Init
<1>2. TypeOK
  BY Zenon, <1>1, GroupAssumption DEF Init, TypeOK, OperatorRecord, ReaderRecord
<1>3. OwnerKept /\ IndexComplete
  BY ZenonT(30), GroupAssumption DEF Init, OwnerKept, IndexComplete
<1>4. /\ \A r \in Request : RequestOK(req[r])
      /\ \A o \in Operator : OperatorOK(operator[o])
      /\ \A u \in Reader : ReaderOK(u, reader[u])
  BY <1>1, IdleOK, RestingOK, AwayOK
<1> QED
  BY <1>2, <1>3, <1>4 DEF GroupInv

\* A step keeps the invariant, and is a step of the roster or leaves it alone.
LEMMA NextKeeps ==
    ASSUME GroupInv, [Next]_vars
    PROVE  GroupInv' /\ (Roster_!Next \/ UNCHANGED namespace)
<1>1. ASSUME NEW r \in Request, Begin(r) \/ Serve(r) \/ FailRequest(r)
      PROVE  GroupInv' /\ (Roster_!Next \/ UNCHANGED namespace)
  <2>1. CASE Begin(r)
    BY Zenon, <2>1, BeginStep DEF Begin
  <2>2. CASE Load(r)
    BY Zenon, <2>2, LoadStep DEF Load
  <2>3. CASE EnsureSpaceCandidate(r)
    BY Zenon, <2>3, EnsureSpaceCandidateStep DEF EnsureSpaceCandidate
  <2>4. CASE WriteNamespace(r)
    BY <2>4, WriteNamespaceStep
  <2>5. CASE FailRequest(r)
    BY <2>5, EndStep DEF FailRequest
  <2> QED
    BY <1>1, <2>1, <2>2, <2>3, <2>4, <2>5 DEF Serve
<1>2. CASE UNCHANGED vars
  <2>1. Extends
    BY <1>2 DEF Extends, vars
  <2>2. /\ \A r \in Request : RequestOK(req[r])'
        /\ \A o \in Operator : OperatorOK(operator[o])'
        /\ \A u \in Reader : ReaderOK(u, reader[u])'
    BY <1>2, <2>1, OthersKeep DEF vars
  <2>3. TypeOK'
    BY <1>2 DEF GroupInv, TypeOK, vars
  <2>4. OwnerKept' /\ IndexComplete'
    BY <1>2 DEF GroupInv, OwnerKept, IndexComplete, vars
  <2> QED
    BY <1>2, <2>2, <2>3, <2>4 DEF GroupInv, vars
<1> QED
  BY <1>1, <1>2, RegisterUserStep, PrepareStep, ReadStep DEF Next

\* The inductive invariant holds in every reachable state of namespace.go and spaces.go.
THEOREM GroupInvariant == Spec => []GroupInv
<1>1. GroupInv /\ [Next]_vars => GroupInv'
  BY NextKeeps
<1> QED
  BY InitInv, <1>1, PTL DEF Spec

\* Records, candidates, and the memory of requests, operators and readers keep their types.
THEOREM TypeCorrect == Spec => []TypeOK
<1>1. GroupInv => TypeOK
  BY DEF GroupInv
<1> QED
  BY <1>1, GroupInvariant, PTL

\* updateGroup never leaves a group without an owner, whoever demotes whom.
THEOREM OwnersStay == Spec => []OwnerKept
<1>1. GroupInv => OwnerKept
  BY DEF GroupInv
<1> QED
  BY <1>1, GroupInvariant, PTL

\* A ready space index has a candidate for everyone whom a group names.
THEOREM IndexStaysComplete == Spec => []IndexComplete
<1>1. GroupInv => IndexComplete
  BY DEF GroupInv
<1> QED
  BY <1>1, GroupInvariant, PTL

\* listSpaces, page by page, omits no group that named its user throughout.
THEOREM ListingsComplete == Spec => []ListingComplete
<1>1. GroupInv => ListingComplete
  BY DEF GroupInv, ReaderOK, ListingComplete
<1> QED
  BY <1>1, GroupInvariant, PTL

\* The compare-and-swap loops of createGroup and updateGroup implement the
\* roster, in which every change is one step of one entitled user.
THEOREM RosterImplemented == Spec => ImplementsRoster
<1>1. Init => Roster_!Init
  <2> SUFFICES ASSUME Init PROVE Roster_!Init
    OBVIOUS
  <2>1. Roster_!Roster = Roster
    BY DEF Roster_!Roster, Roster
  <2>2. \A n \in Name : Legacy[n] \in
            {g \in Roster : Roster_!Owners(g) # {}} \cup {NoRecord, UserRecord}
    BY GroupAssumption DEF Record, Roster_!Owners
  <2> QED
    BY <2>1, <2>2, GroupAssumption DEF Init, Roster_!Init
<1>2. GroupInv /\ [Next]_vars => [Roster_!Next]_namespace
  BY NextKeeps
<1> QED
  BY <1>1, <1>2, GroupInvariant, PTL DEF Spec, ImplementsRoster, Roster_!Spec

\* createGroup and updateGroup keep groups owned, indexed and well formed.
THEOREM GroupsSafe == Spec => []GroupSafe
BY TypeCorrect, OwnersStay, IndexStaysComplete, PTL DEF GroupSafe

=============================================================================
