-------------------------- MODULE MCGroupMembership --------------------------
(* Two users.  Either they quarrel over one group, or one of them changes two   *)
(* groups while the index is prepared and the other lists their spaces.         *)
EXTENDS GroupMembership, TLC

CONSTANTS a, b, r1, r2, o1

VARIABLE setting

\* Both own the first group; old binaries left no candidates.
TwoOwners ==
    [n \in Name |->
        IF n = 1
        THEN [members |-> [u \in User |-> "owner"], invitations |-> [u \in User |-> None]]
        ELSE NoRecord]

\* Calls that differ only in what updateGroup does not read count once.
Distinct(c) ==
    /\ c.action \in {"create", "accept"} => c.target = c.caller
    /\ c.action \in {"invite", "set-role"} \/ c.role = None

Calls == {req[r].call : r \in {x \in Request : req[x].pc # "idle"}}

MCInit == setting \in {"quarrel", "index"} /\ Init

\* Two requests about the first group.
Quarrel ==
    /\ setting = "quarrel"
    /\ \E r \in Request : Begin(r) \/ Serve(r) \/ FailRequest(r)
    /\ \A c \in Calls' : c.name = 1 /\ Distinct(c)

\* Bound: one request at a time, of one caller, who tries once and grants one role.
Index ==
    /\ setting = "index"
    /\ \/ Begin(r1) \/ Serve(r1) \/ FailRequest(r1)
       \/ \E n \in Name : RegisterUser(n)
       \/ \E o \in Operator : Prepare(o)
       \/ \E u \in Reader : Read(u)
    /\ req'[r1].tries = 0
    /\ \A c \in Calls' : c.caller = a /\ Distinct(c) /\ c.role \in {"owner", None}

MCNext == (Quarrel \/ Index) /\ UNCHANGED setting

MCSpec == MCInit /\ [][MCNext]_<<vars, setting>>
=============================================================================
