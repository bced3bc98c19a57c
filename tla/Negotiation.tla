----------------------------- MODULE Negotiation -----------------------------
(***************************************************************************)
(* A fetch: the negotiation of wants and haves over SSH (uploadSSH) and over *)
(* HTTP (parseUpload, prepareUpload), the selection of the pack's objects,    *)
(* and the packs that are shared by the cache, while pushes go on.            *)
(*                                                                          *)
(* The client is external.  It asks for what an advertisement named, offers   *)
(* what it has with complete history, counts the answers that a server of the *)
(* single-ACK protocol owes it, and takes what follows them for the pack.     *)
(***************************************************************************)
EXTENDS Integers, Sequences, FiniteSets

CONSTANTS
    Object,             \* Git objects
    Links,              \* Links[o]: the objects that o names
    Histories,          \* what pushes make of the references: sets of targets
    Clones,             \* the objects that a client may start with
    Transport,          \* a subset of {"ssh", "http"}
    MaxPackets,         \* maxNegotiationPackets
    Window              \* how many packets a client sends ahead

ASSUME NegotiationAssumption ==
    /\ Links \in [Object -> SUBSET Object]
    /\ Histories \subseteq SUBSET Object /\ Clones \subseteq SUBSET Object
    /\ Transport \subseteq {"ssh", "http"}
    /\ {MaxPackets, Window} \subseteq Nat \ {0}

Closure(roots) ==
    LET grown[n \in Nat] ==
            IF n = 0 THEN roots
            ELSE grown[n - 1] \cup UNION {Links[o] : o \in grown[n - 1]}
    IN  grown[Cardinality(Object)]

Closed(objects) == \A o \in objects : Links[o] \subseteq objects

Packet == [kind : {"want", "have"}, id : Object] \cup [kind : {"flush", "done", "end"}]

Answer == [kind : {"ACK"}, id : Object] \cup [kind : {"NAK"}]
            \cup [kind : {"pack"}, objects : SUBSET Object]

NAK == [kind |-> "NAK"]

-----------------------------------------------------------------------------
VARIABLES
    head,           \* the targets of the published references
    seen,           \* the client: the advertisement that it goes by
    local,          \* the client: the objects that it has
    client,         \* the client: its stage
    asked,          \* the client: what it wants
    offered,        \* the client: the haves of this connection
    expects,        \* the client: how many answers it still waits for
    acked,          \* the client: has it read an ACK?
    ready,          \* the client: did it just send a flush, or done?
    transport,      \* "ssh" or "http"
    in,             \* packets on their way to the server
    out,            \* answers on their way to the client
    phase,          \* the server: where its loops are
    snapshot,       \* the server: the targets of the pinned references
    n,              \* the server: uploadNegotiation
    prelude,        \* the server: the answers that HTTP holds back
    cache           \* shared packs: pairs of a key and the objects in the pack

clientVars == <<seen, local, client, asked, offered, expects, acked, ready>>

serverVars == <<phase, snapshot, n, prelude, cache>>

vars == <<head, clientVars, transport, in, out, serverVars>>

newUploadNegotiation == [wants |-> {}, haves |-> {}, packets |-> 0, acknowledged |-> FALSE]

Init ==
    /\ head \in Histories /\ seen = {} /\ local \in Clones
    /\ client = "idle" /\ asked = {} /\ offered = {} /\ expects = 0
    /\ acked = FALSE /\ ready = FALSE
    /\ transport \in Transport
    /\ in = <<>> /\ out = <<>>
    /\ phase = "closed" /\ snapshot = {} /\ n = newUploadNegotiation
    /\ prelude = <<>> /\ cache = {}

-----------------------------------------------------------------------------
(* The repository and the client. *)

\* A push replaces the published references.
Publish(refs) ==
    /\ head' = refs
    /\ UNCHANGED <<clientVars, transport, in, out, serverVars>>

\* info/refs over HTTP: a client learns the references, by a request of its own.
Advertise ==
    /\ client = "idle" /\ transport = "http"
    /\ seen' = head
    /\ UNCHANGED <<head, local, client, asked, offered, expects, acked, ready, transport, in, out,
                   serverVars>>

\* A connection: the references are pinned, and SSH advertises them.
Open ==
    /\ client = "idle"
    /\ client' = "wants"
    /\ IF transport = "ssh" THEN seen' = head ELSE seen # {} /\ UNCHANGED seen
    /\ phase' = "wants" /\ snapshot' = head
    /\ n' = newUploadNegotiation
    /\ UNCHANGED <<head, local, asked, offered, expects, acked, ready, transport, in, out, prelude,
                   cache>>

\* Another client, with a clone of its own, comes by either transport.
Another ==
    /\ client = "idle" /\ out = <<>>
    /\ local' \in Clones /\ transport' \in Transport
    /\ seen' = {}
    /\ UNCHANGED <<head, client, asked, offered, expects, acked, ready, in, out, serverVars>>

Send(p) == Len(in) < Window /\ in' = Append(in, p) /\ ready' = (p.kind \in {"flush", "done"})

Want(o) ==
    /\ client = "wants" /\ o \in seen
    /\ Send([kind |-> "want", id |-> o])
    /\ asked' = asked \cup {o}
    /\ UNCHANGED <<head, seen, local, client, offered, expects, acked, transport, out, serverVars>>

EndWants ==
    /\ client = "wants"
    /\ Send([kind |-> "flush"])
    /\ client' = IF transport = "ssh" /\ asked = {} THEN "reading" ELSE "haves"
    /\ UNCHANGED <<head, seen, local, asked, offered, expects, acked, transport, out, serverVars>>

Have(o) ==
    /\ client = "haves" /\ ~ acked /\ o \in local \ offered
    /\ Send([kind |-> "have", id |-> o])
    /\ offered' = offered \cup {o}
    /\ UNCHANGED <<head, seen, local, client, asked, expects, acked, transport, out, serverVars>>

Flush ==
    /\ client = "haves" /\ ~ acked /\ ~ ready
    /\ Send([kind |-> "flush"])
    /\ expects' = expects + 1
    /\ UNCHANGED <<head, seen, local, client, asked, offered, acked, transport, out, serverVars>>

Done ==
    /\ client = "haves"
    /\ Send([kind |-> "done"])
    /\ client' = IF transport = "ssh" THEN "reading" ELSE "done"
    /\ expects' = IF acked THEN 0 ELSE expects + 1
    /\ UNCHANGED <<head, seen, local, asked, offered, acked, transport, out, serverVars>>

\* The end of a body, after a flush or done; or the end of an SSH session that
\* wanted nothing.
End ==
    /\ \/ transport = "http" /\ client \in {"haves", "done"} /\ ready
       \/ transport = "ssh" /\ client = "wants" /\ asked = {}
    /\ Send([kind |-> "end"])
    /\ client' = "reading"
    /\ expects' = IF transport = "http" /\ client = "haves" /\ expects = 0 THEN 1 ELSE expects
    /\ UNCHANGED <<head, seen, local, asked, offered, acked, transport, out, serverVars>>

\* The client reads an answer, from SSH at once, from HTTP after its body.
Read ==
    /\ out # <<>> /\ expects > 0
    /\ transport = "http" => client = "reading"
    /\ \/ Head(out).kind = "NAK" /\ expects' = expects - 1 /\ UNCHANGED acked
       \/ Head(out).kind = "ACK" /\ expects' = 0 /\ acked' = TRUE
    /\ out' = Tail(out)
    /\ UNCHANGED <<head, seen, local, client, asked, offered, ready, transport, in, serverVars>>

\* A connection is over, for both sides.
Leave ==
    /\ client' = "idle" /\ asked' = {} /\ offered' = {} /\ expects' = 0
    /\ acked' = FALSE /\ ready' = FALSE
    /\ phase' = "closed" /\ snapshot' = {} /\ n' = newUploadNegotiation /\ prelude' = <<>>
    /\ in' = <<>> /\ out' = <<>>

\* The pack, or the end of a connection without one.
Receive ==
    /\ client = "reading" /\ expects = 0
    /\ \/ out # <<>> /\ Head(out).kind = "pack" /\ local' = local \cup Head(out).objects
       \/ out = <<>> /\ in = <<>> /\ phase = "closed" /\ UNCHANGED local
    /\ Leave
    /\ UNCHANGED <<head, seen, transport, cache>>

-----------------------------------------------------------------------------
(* The server. *)

\* An error return: HTTP answers with a status only, SSH ends the session.
Fails == Leave /\ UNCHANGED <<head, seen, local, transport, cache>>

\* The connection breaks, a deadline passes or an object cannot be read.
Break ==
    /\ client # "idle"
    /\ Fails

\* readPacket: every packet, a flush too, counts.
Packets == n.packets >= MaxPackets

readPacket(kind, phases) ==
    /\ in # <<>> /\ Head(in).kind = kind
    /\ phase \in phases
    /\ ~ Packets

\* A packet beyond the limit, or one that its phase does not allow.  Over HTTP the
\* end of the body is no packet.
Refuse ==
    /\ in # <<>> /\ phase # "closed"
    /\ \/ Packets /\ (transport = "ssh" \/ Head(in).kind # "end")
       \/ Head(in).kind = "want" /\ (phase # "wants" \/ Head(in).id \notin snapshot)
       \/ Head(in).kind \in {"have", "done"} /\ phase # "haves"
       \/ Head(in).kind = "flush" /\ phase = "done"
       \/ Head(in).kind = "end" /\ n.wants = {} /\ transport = "http"
       \/ Head(in).kind = "end" /\ n.wants # {} /\ transport = "ssh"
    /\ Fails

\* Answers go out at once over SSH, and with the response over HTTP.
Write(answers) ==
    IF transport = "ssh" THEN out' = out \o answers /\ UNCHANGED prelude
    ELSE prelude' = prelude \o answers /\ UNCHANGED out

Counted(next) == [next EXCEPT !.packets = n.packets + 1]

want ==
    /\ readPacket("want", {"wants"}) /\ Head(in).id \in snapshot
    /\ in' = Tail(in)
    /\ n' = Counted([n EXCEPT !.wants = @ \cup {Head(in).id}])
    /\ UNCHANGED <<head, clientVars, transport, out, phase, snapshot, prelude, cache>>

\* The flush after the wants; SSH ends when there are none.
wantsDone ==
    /\ readPacket("flush", {"wants"})
    /\ n' = Counted(n)
    /\ in' = Tail(in)
    /\ phase' = IF transport = "ssh" /\ n.wants = {} THEN "closed" ELSE "haves"
    /\ UNCHANGED <<head, clientVars, transport, out, snapshot, prelude, cache>>

\* A have: the first object in common is acknowledged.
have ==
    LET id == Head(in).id
        known == id \in Closure(snapshot)
    IN  /\ readPacket("have", {"haves"})
        /\ in' = Tail(in)
        /\ n' = Counted([n EXCEPT !.haves = IF known THEN @ \cup {id} ELSE @,
                                  !.acknowledged = @ \/ known])
        /\ Write(IF known /\ ~ n.acknowledged THEN <<[kind |-> "ACK", id |-> id]>> ELSE <<>>)
        /\ UNCHANGED <<head, clientVars, transport, phase, snapshot, cache>>

\* Mutant: a flush is not answered as long as nothing is in common.
unacknowledgedSilent == IF n.acknowledged \/ Head(in).kind = "flush" THEN <<>> ELSE <<NAK>>

unacknowledged == IF n.acknowledged THEN <<>> ELSE <<NAK>>

flush ==
    /\ readPacket("flush", {"haves"})
    /\ in' = Tail(in) /\ n' = Counted(n)
    /\ Write(unacknowledged)
    /\ UNCHANGED <<head, clientVars, transport, phase, snapshot, cache>>

\* Mutant: who has something in common is taken to have all but the wants.
packObjectsOnTop == IF n.haves = {} THEN Closure(n.wants) ELSE n.wants \ Closure(n.haves)

packObjects == Closure(n.wants) \ Closure(n.haves)

\* Mutant: clones of one generation share a pack.
CacheKeyOfGeneration(ids) == <<snapshot, {}>>

\* Of the references and the manifest that they belong to, and of the ids.
CacheKey(ids) == <<snapshot, ids>>

\* The pack: shared by the cache, if nothing is in common and the cache has room.
writePack(answers) ==
    LET ids == packObjects
        send(objects) == out' = out \o answers \o <<[kind |-> "pack", objects |-> objects]>>
        hits == {c \in cache : c[1] = CacheKey(ids)}
    IN  \/ /\ n.haves = {} /\ hits # {}
           /\ \E c \in hits : send(c[2])
           /\ UNCHANGED cache
        \/ /\ n.haves = {} /\ hits = {}
           /\ cache' = cache \cup {<<CacheKey(ids), ids>>}
           /\ send(ids)
        \/ send(ids) /\ UNCHANGED cache

\* done: over SSH the pack follows, over HTTP the end of the body has to.
done ==
    /\ readPacket("done", {"haves"})
    /\ in' = Tail(in) /\ n' = Counted(n)
    /\ IF transport = "ssh"
       THEN writePack(unacknowledged) /\ phase' = "closed" /\ UNCHANGED prelude
       ELSE /\ Write(unacknowledged) /\ phase' = "done"
            /\ UNCHANGED cache
    /\ UNCHANGED <<head, clientVars, transport, snapshot>>

\* The end of an HTTP body: the response, with the pack if done was read.
respond ==
    /\ transport = "http" /\ in # <<>> /\ Head(in).kind = "end"
    /\ phase # "closed" /\ n.wants # {}
    /\ in' = Tail(in)
    /\ IF phase = "done" THEN writePack(prelude)
       ELSE /\ out' = IF prelude = <<>> THEN <<NAK>> ELSE prelude
            /\ UNCHANGED cache
    /\ phase' = "closed" /\ prelude' = <<>>
    /\ UNCHANGED <<head, clientVars, transport, snapshot, n>>

\* ls-remote over SSH: the client closes after the advertisement.
lsRemote ==
    /\ transport = "ssh" /\ in # <<>> /\ Head(in).kind = "end"
    /\ phase = "wants" /\ n.wants = {}
    /\ in' = Tail(in) /\ phase' = "closed"
    /\ UNCHANGED <<head, clientVars, transport, out, snapshot, n, prelude, cache>>

-----------------------------------------------------------------------------
Client ==
    \/ \E o \in Object : Want(o) \/ Have(o)
    \/ EndWants \/ Flush \/ Done \/ End \/ Read \/ Receive

Server == want \/ wantsDone \/ have \/ flush \/ done \/ respond \/ lsRemote \/ Refuse

Next ==
    \/ \E refs \in Histories : Publish(refs)
    \/ Advertise \/ Open \/ Another \/ Break
    \/ Client \/ Server

Spec == Init /\ [][Next]_vars

-----------------------------------------------------------------------------
TypeOK ==
    /\ head \in Histories /\ seen \in Histories \cup {{}} /\ snapshot \in Histories \cup {{}}
    /\ {local, asked, offered} \subseteq SUBSET Object
    /\ client \in {"idle", "wants", "haves", "done", "reading"}
    /\ expects \in Nat /\ {acked, ready} \subseteq BOOLEAN
    /\ transport \in Transport
    /\ in \in Seq(Packet) /\ out \in Seq(Answer) /\ prelude \in Seq(Answer)
    /\ phase \in {"wants", "haves", "done", "closed"}
    /\ n \in [wants : SUBSET Object, haves : SUBSET Object, packets : 0..MaxPackets,
              acknowledged : BOOLEAN]

\* A pack carries exactly what the wants reach and the haves do not, and only
\* what references of the pinned generation reach, whoever filled the cache
\* (cachedPack: "different requested branches must never receive each other's
\* objects").
PackExact ==
    \A i \in DOMAIN out : out[i].kind = "pack" =>
        /\ n.wants \subseteq snapshot
        /\ out[i].objects = Closure(n.wants) \ Closure(n.haves)

\* A client that has received its pack has what it wanted with all its history,
\* whatever was pushed since its advertisement, or between its requests, and
\* also when the pack adds nothing to what it had.
FetchDelivers == [][Receive /\ out # <<>> => Closed(local') /\ asked \subseteq local']_vars

\* Client and server agree on the number of answers: what follows the last one
\* that the client waits for is the pack, or the end of a response, and the
\* server closes no connection on which it owes one (uploadNegotiation: "the
\* first common object is ACKed once, then flush/done are silent").
InStep ==
    client = "reading" =>
        /\ expects = 0 /\ out # <<>> => Head(out).kind = "pack"
        /\ expects > 0 /\ out = <<>> => phase # "closed"

\* Neither side waits for the other for ever: when nothing is under way in either
\* direction, the server has ended the connection of a client that reads to its
\* end, and owes no answer to one that waits after a flush before it goes on.
NoStandoff ==
    in = <<>> /\ out = <<>> =>
        /\ client = "reading" => phase = "closed"
        /\ client = "haves" /\ transport = "ssh" => expects = 0

\* The two sides agree about what was answered, and go on (uploadSSH, prepareUpload).
TalkSound == TypeOK /\ InStep /\ NoStandoff
=============================================================================
