-------------------------- MODULE MCGroupUsernames --------------------------
(* A founder and one other user, who may claim two usernames on two shards. *)
EXTENDS GroupUsernames, TLC

CONSTANTS a, b, p1, p2

TwoShards == [n \in Username |-> n % 2]

Names == [u \in User |-> IF u = a THEN 1 ELSE 2]

Symmetric == Permutations(Process)
=============================================================================
