----------------------------- MODULE MCRouting -----------------------------
(* Three shard numbers and two names.  With two shards the names belong to      *)
(* shards 0 and 1, with three shards to 2 and 0.  Either instances disagree and *)
(* clients use one protocol, or all agree, one restarts and clients use both.   *)
EXTENDS Routing, TLC

CONSTANTS c1, c2

VARIABLE setting

MCShard == 0 .. 2

MCHash == [n \in Name |-> IF n = "alice" THEN 2 ELSE 3]

MCInit ==
    /\ setting \in {"http", "ssh", "agreed"} /\ Init
    /\ setting = "agreed" => \A s \in Shard : file[s] = 2

\* An instance is down only if its identity file does not name it.
Complete == \A s \in Shard : count[s] # 0 \/ s >= file[s]

\* Bound: while instances disagree, one request over HTTP once all of them run,
\* with what Break leaves of it, or two over SSH; while they agree, one of each.
Arrive ==
    \/ \E s \in Shard : setting = "http" /\ Complete /\ Request(c1, s)
    \/ \E s \in Shard : setting = "agreed" /\ Request(c1, s)
    \/ \E s \in Shard : setting = "ssh" /\ Connect(c1, s)
    \/ \E s \in Shard : setting # "http" /\ Connect(c2, s)

\* Bound: instances that disagree do not restart, and over HTTP do not stop.
Operate ==
    \E s \in Shard :
        \/ Start(s)
        \/ setting # "agreed" /\ Mount(s)
        \/ setting = "agreed" /\ Stop(s)
        \/ setting = "ssh" /\ starts < Cardinality(Shard) /\ Stop(s)

MCNext ==
    /\ \/ Arrive \/ Operate
       \/ \E c \in Chain : Step(c) \/ Fail(c)
       \/ \E c, d \in Chain : Break(c, d)
    /\ setting # "agreed" => starts' <= Cardinality(Shard)
    /\ UNCHANGED setting

MCSpec == MCInit /\ [][MCNext]_<<vars, setting>>
=============================================================================
