---------------------------- MODULE MCCredentials ----------------------------
(* Either two requests compete for a keyring of two keys out of three, or one   *)
(* request creates and revokes a key and a token while an operation uses them.  *)
EXTENDS Credentials, TLC

CONSTANTS k1, k2, k3, t1, r1, r2, o1

VARIABLE setting

MCInit == setting \in {"ring", "use"} /\ Init

\* Bound: nobody uses a credential, and time stands still.
Ring ==
    /\ setting = "ring"
    /\ \E r \in Request : Manage(r)

\* Bound: one request at a time, about the first key or the token, with one attempt.
Use ==
    /\ setting = "use"
    /\ \/ Manage(r1)
       \/ \E o \in Operation : Serve(o)
       \/ \E new \in {"none", "read", "write"} : SetRole(new)
       \/ Tick
    /\ request'[r1].pc # "idle" => request'[r1].id \in {k1, t1}
    /\ request'[r1].pc = "load" => request'[r1].left = Attempts

MCNext == (Ring \/ Use) /\ UNCHANGED setting

MCSpec == MCInit /\ [][MCNext]_<<vars, setting>>
=============================================================================
