----------------------------- MODULE GroupRoster -----------------------------
(***************************************************************************)
(* What groups promise to their members: a name is claimed once, by a user  *)
(* or by a group; afterwards the roster of a group changes one user at a    *)
(* time, by the decision of someone who is an owner at that moment, or      *)
(* because the user accepts an invitation that stands at that moment; and a *)
(* group always has an owner.                                               *)
(***************************************************************************)
EXTENDS Integers

CONSTANTS
    User,       \* user IDs
    Name,       \* names of namespaces
    Role,       \* what a member may be; "owner" is one of them
    None,       \* not a member, not invited
    NoRecord,   \* the name is free
    UserRecord  \* the name is a user's

VARIABLE namespace \* namespace[n]: the record under auth/users/

Roster == [members : [User -> Role \cup {None}], invitations : [User -> Role \cup {None}]]

Owners(g) == {u \in User : g.members[u] = "owner"}

Init == namespace \in [Name -> {g \in Roster : Owners(g) # {}} \cup {NoRecord, UserRecord}]

Claim(n) ==
    /\ namespace[n] = NoRecord
    /\ \/ namespace' = [namespace EXCEPT ![n] = UserRecord]
       \/ \E u \in User :
             namespace' = [namespace EXCEPT ![n] =
                 [members     |-> [v \in User |-> IF v = u THEN "owner" ELSE None],
                  invitations |-> [v \in User |-> None]]]

\* What u accepts is the invitation that stands.
Accept(n, u) ==
    /\ namespace[n] \in Roster
    /\ namespace[n].invitations[u] # None
    /\ namespace' = [namespace EXCEPT
           ![n].members[u] = namespace[n].invitations[u], ![n].invitations[u] = None]

\* An owner changes what one user is, or is invited to be.
Decide(n, owner, u) ==
    /\ namespace[n] \in Roster
    /\ owner \in Owners(namespace[n])
    /\ \E r \in Role \cup {None} :
          \/ namespace' = [namespace EXCEPT ![n].members[u] = r]
          \/ namespace' = [namespace EXCEPT ![n].invitations[u] = r]
    /\ Owners(namespace'[n]) # {}

Next ==
    \E n \in Name :
        \/ Claim(n)
        \/ \E u \in User : Accept(n, u)
        \/ \E owner, u \in User : Decide(n, owner, u)

Spec == Init /\ [][Next]_namespace
=============================================================================
