----------------------------- MODULE MCServing -----------------------------
(* Small crowds, each for one gate: Git over both protocols, LFS with a queue,  *)
(* the browser without one, and a request that never waits.                     *)
EXTENDS Serving, TLC

CONSTANTS git1, git2, ssh1, lfs1, browser1, browser2, control1

KindOf ==
    git1 :> "git" @@ git2 :> "git" @@ ssh1 :> "ssh" @@ lfs1 :> "lfs"
    @@ browser1 :> "browser" @@ browser2 :> "browser" @@ control1 :> "control"

One == [g \in Gates |-> 1]

Crowds == {{git1, git2, ssh1}, {lfs1}, {browser1, browser2}, {control1}}

\* Bound: the requests that are there at the same time are of one crowd.
OneCrowd == \E crowd \in Crowds : \A r \in Request : ~ At(r, "none") => r \in crowd

MCNext == Next /\ OneCrowd'

MCSpec == Init /\ [][MCNext]_vars /\ Fairness

\* A transfer that waits for a slot gets it or is told that the service is busy,
\* although transfers of either protocol overtake it (the wait of acquire).
GitQueueEnds == QueueEnds(git1)
=============================================================================
