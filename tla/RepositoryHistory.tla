-------------------------- MODULE RepositoryHistory --------------------------
(***************************************************************************)
(* What a repository promises to the callers of its operations: a map of    *)
(* references that moves from one generation to the next in single steps.   *)
(* A push is one compare-and-swap of all the references it names against    *)
(* their values at that moment; a repack swaps none; a restore replaces the *)
(* whole map by the one its operator asked for.  Every request takes effect *)
(* at most once, and may be given up at any time before it does.            *)
(***************************************************************************)
EXTENDS Integers

CONSTANTS
    Op,         \* the requests
    RefName,    \* names of references
    Value,      \* what a reference may point to, the absent target included
    NoRequest   \* no request is pending

VARIABLES
    refs,       \* the published references
    generation, \* the number of the published generation
    request,    \* request[op]: what op asks for, or NoRequest
    applied     \* the requests that took effect

vars == <<refs, generation, request, applied>>

Update == [name : RefName, old : Value, new : Value]

Request == [updates : SUBSET Update] \cup [restore : [RefName -> Value]]

Init ==
    /\ refs \in [RefName -> Value]
    /\ generation = 1
    /\ request = [op \in Op |-> NoRequest]
    /\ applied = {}

Ask(op) ==
    /\ op \notin applied
    /\ request[op] = NoRequest
    /\ request'[op] \in Request
    /\ request' = [request EXCEPT ![op] = request'[op]]
    /\ UNCHANGED <<refs, generation, applied>>

GiveUp(op) ==
    /\ request' = [request EXCEPT ![op] = NoRequest]
    /\ UNCHANGED <<refs, generation, applied>>

Take(op) ==
    /\ op \notin applied
    /\ generation' = generation + 1
    /\ request' = [request EXCEPT ![op] = NoRequest]
    /\ applied' = applied \cup {op}

\* Every update finds its old value; the references it does not name stay.
Swap(op) ==
    /\ request[op] \in [updates : SUBSET Update]
    /\ refs' \in [RefName -> Value]
    /\ \A u \in request[op].updates : refs[u.name] = u.old /\ refs'[u.name] = u.new
    /\ \A n \in RefName \ {u.name : u \in request[op].updates} : refs'[n] = refs[n]
    /\ Take(op)

Restore(op) ==
    /\ request[op] \in [restore : [RefName -> Value]]
    /\ refs' = request[op].restore
    /\ Take(op)

Next ==
    \E op \in Op : Ask(op) \/ GiveUp(op) \/ Swap(op) \/ Restore(op)

Spec == Init /\ [][Next]_vars
=============================================================================
