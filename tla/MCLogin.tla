------------------------------- MODULE MCLogin -------------------------------
(* Two people, two browsers, two logins. *)
EXTENDS Login, TLC

CONSTANTS alice, bob, b1, b2, l1, l2, c1, c2

PeopleSymmetry ==
    Permutations({alice, bob}) \cup Permutations({b1, b2}) \cup Permutations({l1, l2})
        \cup Permutations({c1, c2})
=============================================================================
