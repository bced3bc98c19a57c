------------------------------ MODULE LfsDownload ------------------------------
(***************************************************************************)
(* The download of an LFS object (lfs.Handler.download, parseRange, LFSStat   *)
(* and LFSOpen): conditional requests and byte ranges, while a collection may *)
(* remove the object and an upload may bring it back between the two reads of *)
(* its record, and while the transfer may break.                              *)
(*                                                                          *)
(* A body is the set of positions that it still delivers, in order.  Content  *)
(* that is stored again has a new key and version, never another size.        *)
(***************************************************************************)
EXTENDS Integers, FiniteSets

CONSTANTS
    MaxSize,        \* the largest object
    MaxInt,         \* the largest number that ParseInt accepts
    MaxVersions     \* how often the object is stored

DownloadAssumption ==
    /\ {MaxSize, MaxInt, MaxVersions} \subseteq Nat \ {0}
    /\ MaxSize <= MaxInt

Absent == -1

Junk == -2

\* A number in a Range header: absent, of other characters, a number, or a
\* number that does not fit.
Number == {Absent, Junk} \cup (0..MaxInt) \cup {MaxInt + 1}

NoRange == [form |-> "none"]

Ranges == {NoRange, [form |-> "other"]} \cup [form : {"bytes"}, start : Number, end : Number]

VARIABLES
    request,        \* the method and the headers of the request
    size,           \* the size of the object
    version,        \* the stored version of its payload, 0 when it is not stored
    versions,       \* how often it was stored
    pc,
    reply,          \* the status, the announced length, and the range
    opened,         \* the version of the record that LFSOpen has read
    body,           \* the positions that the opened body still delivers
    sent            \* the positions that the client has got

vars == <<request, size, version, versions, pc, reply, opened, body, sent>>

NoReply == [status |-> 0, offset |-> 0, length |-> 0]

Init ==
    /\ request \in [method : {"GET", "HEAD"}, match : BOOLEAN,
                    ifRange : {"", "same", "other"}, range : Ranges]
    /\ size \in 0..MaxSize
    /\ version \in {0, 1} /\ versions = 1
    /\ pc = "stat" /\ reply = NoReply
    /\ opened = 0 /\ body = {} /\ sent = {}

-----------------------------------------------------------------------------
\* A collection removes the object, or an upload stores it again.
Change ==
    /\ pc \notin {"done", "aborted"}
    /\ IF version # 0 THEN version' = 0 /\ UNCHANGED versions
       ELSE versions < MaxVersions /\ versions' = versions + 1 /\ version' = versions + 1
    /\ UNCHANGED <<request, size, pc, reply, opened, body, sent>>

Answer(status, length) ==
    /\ pc' = "done"
    /\ reply' = [status |-> status, offset |-> 0, length |-> length]
    /\ UNCHANGED <<request, size, version, versions, opened, body, sent>>

Lower(a, b) == IF a < b THEN a ELSE b

\* Mutant: the last position is left out.
lengthOfExclusive(first, last) == last - first

\* The length of a range that includes both of its ends.
lengthOf(first, last) == last - first + 1

\* The length of a suffix, cut to the object.
suffixOf(length) == Lower(length, size)

\* One inclusive, open-ended or suffix range.
parseRange(range) ==
    LET number(s) == s \in 0..MaxInt
        invalid == [ok |-> FALSE, offset |-> 0, length |-> 0]
        slice(first, last) == [ok |-> TRUE, offset |-> first, length |-> lengthOf(first, last)]
    IN  IF size <= 0 \/ range.form # "bytes" THEN invalid
        ELSE IF range.start = Absent
        THEN IF number(range.end) /\ range.end # 0
             THEN slice(size - suffixOf(range.end), size - 1) ELSE invalid
        ELSE IF ~ number(range.start) \/ range.start >= size THEN invalid
        ELSE IF range.end = Absent THEN slice(range.start, size - 1)
        ELSE IF ~ number(range.end) \/ range.end < range.start THEN invalid
        ELSE slice(range.start, Lower(range.end, size - 1))

\* Does the Range header count?
Ranged ==
    /\ request.range # NoRange /\ request.method = "GET"
    /\ request.ifRange \in {"", "same"}

\* LFSStat, the conditions and the range.
Stat ==
    /\ pc = "stat"
    /\ LET r == parseRange(request.range)
       IN  IF version = 0 THEN Answer(404, 0)
           ELSE IF request.match THEN Answer(304, 0)
           ELSE IF Ranged /\ ~ r.ok THEN Answer(416, 0)
           ELSE IF request.method = "HEAD" THEN Answer(200, size)
           ELSE /\ reply' = IF Ranged
                            THEN [status |-> 206, offset |-> r.offset, length |-> r.length]
                            ELSE [status |-> 200, offset |-> 0, length |-> size]
                /\ pc' = "open"
                /\ UNCHANGED <<request, size, version, versions, opened, body, sent>>

\* The bucket fails, at any read of a record or of the payload.
Fail ==
    /\ pc \in {"stat", "open", "get"}
    /\ Answer(503, 0)

\* LFSOpen: the record is read again, and the range is checked against it.
Open ==
    /\ pc = "open"
    /\ IF version = 0 THEN Answer(404, 0)
       ELSE IF reply.status = 206
               /\ (reply.length = 0 \/ reply.offset >= size \/ reply.length > size - reply.offset)
       THEN Answer(503, 0)
       ELSE /\ pc' = "get" /\ opened' = version
            /\ UNCHANGED <<request, size, version, versions, reply, body, sent>>

\* LFSOpen: the payload of that record.  It may be gone by now: its key is not
\* used again.  download's own comparison with what LFSStat has read finds no
\* difference: the id is the digest of the content, which has one size.
Get ==
    /\ pc = "get"
    /\ IF version # opened THEN Answer(404, 0)
       ELSE /\ pc' = "copy"
            /\ body' = IF reply.status = 206
                       THEN reply.offset..(reply.offset + reply.length - 1) ELSE 0..(size - 1)
            /\ UNCHANGED <<request, size, version, versions, reply, opened, sent>>

\* CopyN: another position is sent.
Copy ==
    /\ pc = "copy" /\ Cardinality(sent) < reply.length /\ body # {}
    /\ LET next == CHOOSE p \in body : \A q \in body : p <= q
       IN  sent' = sent \cup {next} /\ body' = body \ {next}
    /\ UNCHANGED <<request, size, version, versions, pc, reply, opened>>

\* The upstream read breaks off.
Truncate ==
    /\ pc = "copy" /\ body # {}
    /\ body' = {}
    /\ UNCHANGED <<request, size, version, versions, pc, reply, opened, sent>>

\* CopyN returns: a response that is too short is aborted.
Finish ==
    /\ pc = "copy" /\ (body = {} \/ Cardinality(sent) = reply.length)
    /\ pc' = IF Cardinality(sent) < reply.length THEN "aborted" ELSE "done"
    /\ UNCHANGED <<request, size, version, versions, reply, opened, body, sent>>

Step == Stat \/ Open \/ Get \/ Copy \/ Finish

Next == Step \/ Change \/ Fail \/ Truncate

Spec == Init /\ [][Next]_vars

-----------------------------------------------------------------------------
TypeOK ==
    /\ request.range \in Ranges /\ size \in 0..MaxSize
    /\ {version, opened} \subseteq 0..MaxVersions /\ versions \in 1..MaxVersions
    /\ pc \in {"stat", "open", "get", "copy", "done", "aborted"}
    /\ reply.status \in {0, 200, 206, 304, 404, 416, 503}
    /\ reply.offset \in 0..size /\ reply.length \in 0..size
    /\ body \cup sent \subseteq Int

\* What a Range header asks for: the positions from the first to the last that it
\* names, whatever numbers a program can hold; none if it makes no sense.
Named(range) ==
    LET suffix == range.start = Absent
        first == IF suffix THEN size - range.end ELSE range.start
        last == IF suffix \/ range.end = Absent THEN size - 1 ELSE range.end
    IN  {p \in 0..(size - 1) :
            /\ range.form = "bytes" /\ Junk \notin {range.start, range.end}
            /\ ~ (suffix /\ range.end = Absent)
            /\ first <= p /\ p <= last}

\* A complete response has delivered exactly the positions that the client asked
\* for, the whole object without a range; one that breaks off does not pass for
\* complete, and a range is refused only when it names nothing or has a number
\* beyond those of the program (download, parseRange).
DownloadExact ==
    /\ pc = "done" /\ reply.status = 206 => sent = Named(request.range) /\ sent # {}
    /\ pc = "done" /\ reply.status = 200 /\ request.method = "GET" => sent = 0..(size - 1)
    /\ pc = "done" /\ reply.status = 416 =>
           /\ Ranged
           /\ Named(request.range) # {} => MaxInt + 1 \in {request.range.start, request.range.end}
    /\ pc \in {"open", "get", "copy"} /\ Ranged => Named(request.range) # {}
=============================================================================
