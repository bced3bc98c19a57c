------------------------------ MODULE PackDecode ------------------------------
(***************************************************************************)
(* gitpack.Decode: an incoming pack is staged in a private directory, its   *)
(* deltas are resolved in passes over its entries, in whatever order they   *)
(* were sent, against each other and against objects of the repository, and *)
(* all of it stays within budgets of depth, of decoded bytes and of disk.   *)
(*                                                                          *)
(* An object stands for its type and content, and is its own id: the code   *)
(* compares SHA-1 and SHA-256.  A delta is the function it computes, from   *)
(* the bases whose size and ranges fit its instructions.                    *)
(***************************************************************************)
EXTENDS Integers, Sequences, FiniteSetsExt

CONSTANTS
    Object,             \* Git objects
    NoObject,           \* a delta that is not resolved
    Size,               \* Size[o]: the bytes of an object
    Delta,              \* delta instructions
    DeltaSize,          \* DeltaSize[d]: the bytes of its instructions
    Result,             \* Result[d][o]: what d makes of the base o
    MaxEntries,         \* the longest pack that is sent
    MaxObjects,         \* Limits
    MaxDeltaDepth,
    MaxObjectBytes,
    MaxDecodedBytes,
    MaxDiskBytes,
    Snapshots           \* the sets of objects that the repository may have

DecodeAssumption ==
    /\ NoObject \notin Object
    /\ Size \in [Object -> Nat] /\ DeltaSize \in [Delta -> Nat]
    /\ \A d \in Delta : Result[d] \in [DOMAIN Result[d] -> Object]
    /\ {MaxEntries, MaxObjects, MaxDeltaDepth, MaxObjectBytes, MaxDecodedBytes,
        MaxDiskBytes} \subseteq Nat \ {0}
    /\ Snapshots \subseteq SUBSET Object

\* A whole object, a delta against an earlier entry or against an id, or bytes
\* that are no entry.
Entry == [kind : {"whole"}, object : Object]
           \cup [kind : {"ofs"}, base : 1..MaxEntries, delta : Delta]
           \cup [kind : {"ref"}, base : Object, delta : Delta]
           \cup [kind : {"broken"}]

Staged == [object : Object \cup {NoObject}, size : Nat, depth : Nat]

File == ({"entry", "resolved"} \X (1..MaxEntries)) \cup ({"base"} \X Object)

-----------------------------------------------------------------------------
VARIABLES
    pack,           \* the entries that are sent, and whether the checksum is right
    snapshot,       \* what the resolver finds
    pc,             \* the stage of Decode
    at,             \* the entry that it looks at
    pass,           \* the pass of resolve
    pending,        \* has this pass met an unresolved entry?
    progress,       \* has it resolved one?
    entries,        \* w.entries: the staged entries
    objects,        \* w.objects: the entry of every identified id, or 0
    external,       \* the ids that were staged from the resolver
    missing,        \* the ids that the resolver does not have
    files,          \* the files of the directory, with their sizes
    diskBytes,
    decodedBytes,
    planned,        \* the ids given to PrepareBases
    asked,          \* history: how often the resolver was asked for an id
    result          \* what Decode returns

position == <<pass, pending, progress>>

bases == <<external, missing, asked>>

work == <<entries, objects, files, diskBytes, decodedBytes>>

vars == <<pack, snapshot, pc, at, position, bases, work, planned, result>>

Packs == [entries : UNION {[1..n -> Entry] : n \in 0..MaxEntries}, intact : BOOLEAN]

\* Decode is called for pack p.
Called(p, known) ==
    /\ pack = p /\ snapshot = known
    /\ pc = "start" /\ at = 1
    /\ pass = 0 /\ pending = FALSE /\ progress = FALSE
    /\ entries = <<>>
    /\ objects = [o \in Object |-> 0]
    /\ external = {} /\ missing = {}
    /\ files = {} /\ diskBytes = 0 /\ decodedBytes = 0
    /\ planned = {} /\ asked = [o \in Object |-> 0]
    /\ result = "none"

Init == \E p \in Packs, known \in Snapshots : Called(p, known)

-----------------------------------------------------------------------------
Bytes(fs) == MapThenSumSet(LAMBDA f : f[2], fs)

\* The budgets of stage and apply.
Fits(bytes) ==
    /\ bytes <= MaxObjectBytes
    /\ bytes <= MaxDecodedBytes - decodedBytes
    /\ bytes <= MaxDiskBytes - diskBytes

\* An error return: the deferred Close removes the directory.
Return(error) ==
    /\ pc' = "closed" /\ result' = error
    /\ files' = {}
    /\ UNCHANGED <<pack, snapshot, at, position, bases, entries, objects, diskBytes,
                   decodedBytes, planned>>

Stage(name, bytes) ==
    /\ files' = files \cup {<<name, bytes>>}
    /\ diskBytes' = diskBytes + bytes
    /\ decodedBytes' = decodedBytes + bytes

\* Cancellation, an error of the network, of the disk or of the resolver, or a
\* pack of more than MaxPackBytes encoded bytes.
Fail ==
    /\ pc \notin {"end", "closed"}
    /\ Return("error")

TooMany == Len(pack.entries) > MaxObjects

Start ==
    /\ pc = "start"
    /\ IF TooMany THEN Return("limit")
       ELSE /\ pc' = "read"
            /\ UNCHANGED <<pack, snapshot, at, position, bases, work, planned, result>>

\* The loop of Decode: one entry is read, staged, and identified if it is whole.
ReadEntry ==
    /\ pc = "read" /\ at <= Len(pack.entries)
    /\ LET e     == pack.entries[at]
           bytes == IF e.kind = "whole" THEN Size[e.object] ELSE DeltaSize[e.delta]
       IN  IF e.kind = "broken" THEN Return("invalid")
           ELSE IF bytes > MaxObjectBytes THEN Return("limit")
           ELSE IF e.kind = "ofs" /\ e.base >= at THEN Return("invalid")
           ELSE IF ~ Fits(bytes) THEN Return("limit")
           ELSE /\ Stage(<<"entry", at>>, bytes)
                /\ entries' = Append(entries,
                       [object |-> IF e.kind = "whole" THEN e.object ELSE NoObject,
                        size |-> bytes, depth |-> 0])
                /\ objects' = IF e.kind = "whole" THEN [objects EXCEPT ![e.object] = at]
                              ELSE objects
                /\ at' = at + 1
                /\ UNCHANGED <<pack, snapshot, pc, position, bases, planned, result>>

\* The checksum, and PrepareBases with the bases that are not identified yet.
Prepare ==
    /\ pc = "read" /\ at > Len(pack.entries)
    /\ IF ~ pack.intact THEN Return("invalid")
       ELSE /\ planned' = {o \in Object : /\ objects[o] = 0
                                          /\ \E i \in DOMAIN pack.entries :
                                                 /\ pack.entries[i].kind = "ref"
                                                 /\ pack.entries[i].base = o}
            /\ pc' = "resolve" /\ at' = 1
            /\ UNCHANGED <<pack, snapshot, position, bases, work, result>>

-----------------------------------------------------------------------------
(* resolve: one pass after the other over the entries. *)

\* The entry whose turn it is, a delta that is not resolved yet.
Turn ==
    /\ pc = "resolve" /\ at <= Len(entries)
    /\ entries[at].object = NoObject

\* The staged base of the delta at hand: an earlier entry, an identified
\* object of the pack, or one of the repository.
Base ==
    LET e == pack.entries[at]
        whole(o) == [object |-> o, size |-> Size[o], depth |-> 0]
        none == [object |-> NoObject, size |-> 0, depth |-> 0]
    IN  CASE e.kind = "ofs" -> entries[e.base]
          [] e.kind = "ref" /\ objects[e.base] # 0 -> entries[objects[e.base]]
          [] e.kind = "ref" /\ objects[e.base] = 0 /\ e.base \in external -> whole(e.base)
          [] OTHER -> none

\* The resolver is asked for the base of a thin delta, once.
Askable ==
    /\ pack.entries[at].kind = "ref" /\ Base.object = NoObject
    /\ pack.entries[at].base \notin missing

Skip ==
    /\ pc = "resolve" /\ at <= Len(entries)
    /\ entries[at].object # NoObject
    /\ at' = at + 1
    /\ UNCHANGED <<pack, snapshot, pc, position, bases, work, planned, result>>

\* No base yet: the entry stays for a later pass.
Wait ==
    /\ Turn /\ Base.object = NoObject
    /\ IF Askable
       THEN /\ pack.entries[at].base \notin snapshot
            /\ asked' = [asked EXCEPT ![pack.entries[at].base] = @ + 1]
            /\ missing' = missing \cup {pack.entries[at].base}
       ELSE UNCHANGED <<asked, missing>>
    /\ pending' = TRUE /\ at' = at + 1
    /\ UNCHANGED <<pack, snapshot, pc, pass, progress, external, work, planned, result>>

\* An object of the repository is staged as a base.
Fetch ==
    /\ Turn /\ Askable
    /\ pack.entries[at].base \in snapshot
    /\ LET o == pack.entries[at].base
       IN  IF ~ Fits(Size[o]) THEN Return("limit")
           ELSE /\ Stage(<<"base", o>>, Size[o])
                /\ external' = external \cup {o}
                /\ asked' = [asked EXCEPT ![o] = @ + 1]
                /\ UNCHANGED <<pack, snapshot, pc, at, position, missing, entries, objects,
                               planned, result>>

\* Mutant: a chain may be one longer than the limit.
TooDeepByOne(base) == base.depth > MaxDeltaDepth

TooDeep(base) == base.depth >= MaxDeltaDepth

\* The object has to fit beside the delta that it replaces.
FitsBeside(bytes, delta) == Fits(bytes)

\* apply, up to the complete file of the object, next to the delta.
Apply ==
    /\ Turn /\ Base.object # NoObject
    /\ LET d == pack.entries[at].delta
           base == Base
       IN  IF TooDeep(base) THEN Return("limit")
           ELSE IF base.object \notin DOMAIN Result[d] THEN Return("invalid")
           ELSE IF ~ FitsBeside(Size[Result[d][base.object]], entries[at].size) THEN Return("limit")
           ELSE /\ files' = files \cup {<<<<"resolved", at>>, Size[Result[d][base.object]]>>}
                /\ pc' = "replace"
                /\ UNCHANGED <<pack, snapshot, at, position, bases, entries, objects,
                               diskBytes, decodedBytes, planned, result>>

\* The rest of apply: the delta is removed and the object is identified.
Replace ==
    LET e == entries[at]
        base == Base
        o == Result[pack.entries[at].delta][base.object]
    IN  /\ pc = "replace"
        /\ files' = files \ {<<<<"entry", at>>, e.size>>}
        /\ diskBytes' = diskBytes + Size[o] - e.size
        /\ decodedBytes' = decodedBytes + Size[o]
        /\ entries' = [entries EXCEPT ![at] =
                          [object |-> o, size |-> Size[o], depth |-> base.depth + 1]]
        /\ objects' = [objects EXCEPT ![o] = at]
        /\ pending' = TRUE /\ progress' = TRUE
        /\ pc' = "resolve" /\ at' = at + 1
        /\ UNCHANGED <<pack, snapshot, pass, bases, planned, result>>

LastPass == pass >= MaxDeltaDepth

EndPass ==
    /\ pc = "resolve" /\ at > Len(entries)
    /\ IF ~ pending
       THEN /\ pc' = "end" /\ result' = "ok"
            /\ UNCHANGED <<pack, snapshot, at, position, bases, work, planned>>
       ELSE IF ~ progress THEN Return("invalid")
       ELSE IF LastPass THEN Return("limit")
       ELSE /\ pass' = pass + 1 /\ at' = 1 /\ pending' = FALSE /\ progress' = FALSE
            /\ UNCHANGED <<pack, snapshot, pc, bases, work, planned, result>>

\* The receiver closes the workspace that it was given, once the objects are published or refused.
Close ==
    /\ pc = "end"
    /\ pc' = "closed" /\ files' = {}
    /\ UNCHANGED <<pack, snapshot, at, position, bases, entries, objects, diskBytes,
                   decodedBytes, planned, result>>

Step ==
    \/ Start \/ ReadEntry \/ Prepare \/ Skip \/ Wait \/ Fetch \/ Apply \/ Replace
    \/ EndPass \/ Close

Next == Step \/ Fail

Spec == Init /\ [][Next]_vars

-----------------------------------------------------------------------------
TypeOK ==
    /\ pc \in {"start", "read", "resolve", "replace", "end", "closed"}
    /\ at \in 1..(MaxEntries + 1) /\ pass \in 0..MaxDeltaDepth
    /\ {pending, progress} \subseteq BOOLEAN
    /\ entries \in Seq(Staged) /\ Len(entries) <= MaxObjects
    /\ objects \in [Object -> 0..MaxEntries]
    /\ {external, missing, planned} \subseteq SUBSET Object
    /\ files \subseteq File \X Nat
    /\ asked \in [Object -> Nat]
    /\ result \in {"none", "ok", "limit", "invalid", "error"}

\* The files of the directory never exceed the disk budget, not even while an
\* object and the delta it is made from are both there, and the counter is what
\* the directory holds (Limits: "MaxDiskBytes bounds temporary file contents,
\* including external delta bases").
DiskBounded ==
    /\ Bytes(files) <= MaxDiskBytes
    /\ decodedBytes <= MaxDecodedBytes
    /\ pc \in {"read", "resolve"} => Bytes(files) = diskBytes

\* What an entry means, as far as n rounds of looking up bases tell: its object,
\* at the depths of the copies of its base.
Meaning[n \in Nat] ==
    [i \in DOMAIN pack.entries |->
        LET e == pack.entries[i]
            depths == (IF e.kind = "ref" /\ e.base \in snapshot THEN {0} ELSE {})
                        \cup {m[2] : m \in {x \in UNION {Meaning[n - 1][j] :
                                                         j \in DOMAIN pack.entries} :
                                            x[1] = e.base}}
        IN  CASE n = 0 \/ e.kind = "broken" -> {}
              [] n > 0 /\ e.kind = "whole" -> {<<e.object, 0>>}
              [] n > 0 /\ e.kind = "ofs" ->
                     {<<Result[e.delta][m[1]], m[2] + 1>> :
                          m \in {x \in IF e.base < i THEN Meaning[n - 1][e.base] ELSE {} :
                                 x[1] \in DOMAIN Result[e.delta]}}
              [] n > 0 /\ e.kind = "ref" ->
                     {<<Result[e.delta][e.base], k + 1>> :
                          k \in IF e.base \in DOMAIN Result[e.delta] THEN depths ELSE {}}]

Meant == Meaning[MaxDeltaDepth + 2]

\* A pack that a receiver has to accept, in whatever order its entries are: all
\* of its deltas have bases that fit, no chain is deeper than the limit.
Legal ==
    /\ pack.intact /\ Len(pack.entries) <= MaxObjects
    /\ \A i \in DOMAIN pack.entries :
           /\ Meant[i] # {}
           /\ \A m \in Meant[i] : m[2] <= MaxDeltaDepth
           /\ pack.entries[i].kind = "ofs" =>
                  \A m \in Meant[pack.entries[i].base] :
                      m[1] \in DOMAIN Result[pack.entries[i].delta]

\* Within ample byte budgets, a legal pack is never refused: the passes suffice
\* for every order of its entries, and no base that comes later counts as
\* missing (resolve).
LegalAccepted == result \in {"limit", "invalid"} => ~ Legal

\* A pack that is accepted is resolved completely, every entry is what its chain
\* of bases makes of it, and no chain is deeper than the limit.
AcceptedMeant ==
    result = "ok" =>
        /\ pack.intact /\ Len(entries) = Len(pack.entries)
        /\ \A i \in DOMAIN entries :
               /\ entries[i].depth <= MaxDeltaDepth
               /\ \E m \in Meaning[MaxEntries + 1][i] : m[1] = entries[i].object
        /\ \A o \in Object :
               objects[o] # 0 <=> \E i \in DOMAIN entries : entries[i].object = o

\* The repository is asked at most once for a base, and only for bases that
\* PrepareBases was told of (DecodeOptions).
AskedAsPlanned ==
    \A o \in Object : asked[o] <= 1 /\ (asked[o] = 1 => o \in planned)

\* The directory is gone in the end, whichever entry, base or budget decoding
\* failed at (the deferred Close).
DirectoryGone == pc = "closed" => Bytes(files) = 0
=============================================================================
