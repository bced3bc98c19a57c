------------------------------- MODULE LfsBatch -------------------------------
(***************************************************************************)
(* The LFS batch request (lfs.Handler.batch) and its lookups by a pool of     *)
(* workers (LFSStatBatch), while uploads and collections change what is       *)
(* stored and the client may go away at any moment.                           *)
(*                                                                          *)
(* A lookup reads a verified record and its payload in one step.  The modules *)
(* Credentials and LfsStorage have the authorization of an upload and the     *)
(* storage behind a lookup.                                                   *)
(***************************************************************************)
EXTENDS Integers, SequencesExt

CONSTANTS
    Oid,                \* valid object ids
    BadOid,             \* what is no id
    Size,               \* Size[oid]: the size of the content with that digest
    Sizes,              \* the sizes that clients state, -1 for a negative one
    MaxRequest,         \* the longest list that a client sends
    MaxBatchObjects,    \* maxBatchObjects
    MaxBatchReads,      \* maxLFSBatchReads
    MaxObjectBytes      \* the limit of an upload

BatchAssumption ==
    /\ BadOid \notin Oid
    /\ Size \in [Oid -> Nat] /\ Sizes \subseteq Int
    /\ {MaxRequest, MaxBatchObjects, MaxBatchReads, MaxObjectBytes} \subseteq Nat \ {0}

LFSObject == [oid : Oid \cup {BadOid}, size : Sizes]

\* The outcome of a lookup; "zero" is the value of a result that nobody set.
Lookup == {"zero", "stored", "absent", "error"}

VARIABLES
    request,        \* the operation and the objects of the request
    stored,         \* the objects with a verified record
    witnessed,      \* history: what was true of every object during the call
    cancelled,      \* is the context done?
    pc,             \* the handler
    oids,           \* the ids that are looked up
    unique,         \* the same without duplicates
    lookups,        \* the results, by position in unique
    next,           \* the position that the producer offers
    workers,        \* what every worker does: its job, 0 while it waits, or -1
    reads,          \* history: the lookups of every id
    nextLookup,
    response        \* the entries of the response, or an error

pool == <<lookups, next, workers, reads>>

vars == <<request, stored, witnessed, cancelled, pc, oids, unique, pool, nextLookup, response>>

Truth(objects) == [oid \in Oid |-> IF oid \in objects THEN "stored" ELSE "absent"]

Requests ==
    [operation : {"upload", "download"},
     objects : UNION {[1..k -> LFSObject] : k \in 0..MaxRequest}]

\* The handler is called with request r.
Called(r, present) ==
    /\ request = r /\ stored = present
    /\ witnessed = [oid \in Oid |-> {Truth(stored)[oid]}]
    /\ cancelled = FALSE /\ pc = "validate"
    /\ oids = <<>> /\ unique = <<>> /\ lookups = <<>> /\ next = 1 /\ workers = <<>>
    /\ reads = [oid \in Oid |-> 0]
    /\ nextLookup = 1 /\ response = <<>>

Init == \E r \in Requests, present \in SUBSET Oid : Called(r, present)

-----------------------------------------------------------------------------
\* An upload completes, or a collection removes an object.
Change(oid) ==
    /\ pc # "end"
    /\ stored' = IF oid \in stored THEN stored \ {oid} ELSE stored \cup {oid}
    /\ witnessed' = [witnessed EXCEPT ![oid] = @ \cup {Truth(stored')[oid]}]
    /\ UNCHANGED <<request, cancelled, pc, oids, unique, pool, nextLookup, response>>

\* The client goes away, or the server stops.
Cancel ==
    /\ pc # "end" /\ ~ cancelled
    /\ cancelled' = TRUE
    /\ UNCHANGED <<request, stored, witnessed, pc, oids, unique, pool, nextLookup, response>>

Return(answer) ==
    /\ pc' = "end" /\ response' = answer
    /\ UNCHANGED <<request, stored, witnessed, cancelled, oids, unique, pool, nextLookup>>

Valid(object) == object.oid \in Oid /\ object.size >= 0

\* The objects that batch hands to LFSStatBatch.
Wanted(object) ==
    /\ Valid(object)
    /\ request.operation = "upload" => object.size <= MaxObjectBytes

\* The write authorization of an upload is missing or revoked.
Refuse ==
    /\ pc = "validate" /\ request.operation = "upload"
    /\ Return("error")

\* batch, up to the lookups, and the head of LFSStatBatch.
Validate ==
    /\ pc = "validate"
    /\ IF Len(request.objects) > MaxBatchObjects \/ cancelled THEN Return("error")
       ELSE LET wanted == SelectSeq(request.objects, Wanted)
            IN  /\ oids' = [i \in DOMAIN wanted |-> wanted[i].oid]
                /\ pc' = "deduplicate"
                /\ UNCHANGED <<request, stored, witnessed, cancelled, unique, pool, nextLookup,
                               response>>

\* Of the ids, each at its first position.
uniqueOf ==
    LET firsts == {i \in DOMAIN oids : \A j \in 1..(i - 1) : oids[j] # oids[i]}
    IN  [k \in 1..Cardinality(firsts) |->
            oids[CHOOSE i \in firsts : Cardinality({j \in firsts : j <= i}) = k]]

PoolSize == IF Len(unique') < MaxBatchReads THEN Len(unique') ELSE MaxBatchReads

\* The ids without duplicates, the repository's metadata, and the pool; an error
\* of the metadata is the result of every lookup.  Without ids there is none.
Start ==
    /\ pc = "deduplicate"
    /\ unique' = uniqueOf
    /\ \/ /\ unique' = <<>> /\ pc' = "assemble"
          /\ UNCHANGED <<lookups, workers>>
       \/ /\ unique' # <<>> /\ pc' = "queue"
          /\ lookups' = [i \in DOMAIN unique' |-> "zero"]
          /\ workers' = [w \in 1..PoolSize |-> 0]
       \/ /\ unique' # <<>> /\ pc' = "wait"
          /\ lookups' = [i \in DOMAIN unique' |-> "error"]
          /\ UNCHANGED workers
    /\ UNCHANGED <<request, stored, witnessed, cancelled, oids, next, reads, nextLookup, response>>

-----------------------------------------------------------------------------
(* The producer and the workers; the channel is not buffered. *)

\* The producer hands a position to a worker that waits for one.
Give(w) ==
    /\ pc = "queue" /\ next <= Len(unique)
    /\ workers[w] = 0
    /\ workers' = [workers EXCEPT ![w] = next]
    /\ next' = next + 1
    /\ UNCHANGED <<request, stored, witnessed, cancelled, pc, oids, unique, lookups, reads,
                   nextLookup, response>>

\* Mutant: the producer only waits for workers.
StopsNever == next > Len(unique)

Stops == next > Len(unique) \/ cancelled

\* The producer is through, or sees the cancellation, and closes the channel.
CloseJobs ==
    /\ pc = "queue" /\ Stops
    /\ pc' = "wait"
    /\ UNCHANGED <<request, stored, witnessed, cancelled, oids, unique, pool, nextLookup, response>>

\* A worker with a job looks it up, unless the context is done: then it returns.
\* A lookup that a cancellation or the bucket interrupts is an error.
Look(w) ==
    /\ workers[w] > 0
    /\ \/ /\ cancelled
          /\ workers' = [workers EXCEPT ![w] = -1]
          /\ UNCHANGED <<lookups, reads>>
       \/ /\ \E result \in {Truth(stored)[unique[workers[w]]], "error"} :
                 lookups' = [lookups EXCEPT ![workers[w]] = result]
          /\ reads' = [reads EXCEPT ![unique[workers[w]]] = @ + 1]
          /\ workers' = [workers EXCEPT ![w] = 0]
    /\ UNCHANGED <<request, stored, witnessed, cancelled, pc, oids, unique, next, nextLookup,
                   response>>

\* A worker finds the channel closed.
Leave(w) ==
    /\ pc # "queue" /\ workers[w] = 0
    /\ workers' = [workers EXCEPT ![w] = -1]
    /\ UNCHANGED <<request, stored, witnessed, cancelled, pc, oids, unique, lookups, next, reads,
                   nextLookup, response>>

Joined == \A w \in DOMAIN workers : workers[w] = -1

Wait ==
    /\ pc = "wait" /\ Joined
    /\ IF cancelled THEN Return("error")
       ELSE /\ pc' = "assemble"
            /\ UNCHANGED <<request, stored, witnessed, cancelled, oids, unique, pool, nextLookup,
                           response>>

-----------------------------------------------------------------------------
\* The size of a looked up object: that of a result that nobody set is zero.
ResultSize(i) == IF lookups[i] = "zero" THEN 0 ELSE Size[unique[i]]

\* The entry of a looked up object.
Verdict(object, i) ==
    CASE lookups[i] \in {"stored", "zero"} /\ ResultSize(i) # object.size -> "mismatch"
      [] lookups[i] \in {"stored", "zero"} /\ ResultSize(i) = object.size ->
             IF request.operation = "download" THEN "download" ELSE "present"
      [] lookups[i] = "absent" -> IF request.operation = "upload" THEN "upload" ELSE "missing"
      [] OTHER -> "error"

\* One round of the loop that assembles the response, in request order.
Assemble ==
    /\ pc = "assemble" /\ Len(response) < Len(request.objects)
    /\ IF cancelled THEN Return("error")
       ELSE LET object == request.objects[Len(response) + 1]
                at == CHOOSE i \in DOMAIN unique : unique[i] = oids[nextLookup]
            IN  /\ \/ /\ ~ Valid(object)
                      /\ response' = Append(response, "invalid")
                      /\ UNCHANGED nextLookup
                   \/ /\ Valid(object) /\ request.operation = "upload"
                      /\ object.size > MaxObjectBytes
                      /\ response' = Append(response, "too large")
                      /\ UNCHANGED nextLookup
                   \/ /\ Valid(object)
                      /\ request.operation = "upload" => object.size <= MaxObjectBytes
                      /\ response' = Append(response, Verdict(object, at))
                      /\ nextLookup' = nextLookup + 1
                /\ UNCHANGED <<request, stored, witnessed, cancelled, pc, oids, unique, pool>>

Respond ==
    /\ pc = "assemble" /\ Len(response) = Len(request.objects)
    /\ Return(response)

Handle == Validate \/ Refuse \/ Start \/ CloseJobs \/ Wait \/ Assemble \/ Respond

Worker(w) == Give(w) \/ Look(w) \/ Leave(w)

Next ==
    \/ \E oid \in Oid : Change(oid)
    \/ Cancel
    \/ Handle
    \/ \E w \in DOMAIN workers : Worker(w)

Spec == Init /\ [][Next]_vars

-----------------------------------------------------------------------------
TypeOK ==
    /\ stored \subseteq Oid /\ witnessed \in [Oid -> SUBSET Lookup] /\ cancelled \in BOOLEAN
    /\ pc \in {"validate", "deduplicate", "queue", "wait", "assemble", "end"}
    /\ oids \in Seq(Oid) /\ unique \in Seq(Oid)
    /\ lookups \in Seq(Lookup) /\ DOMAIN lookups = DOMAIN unique
    /\ DOMAIN workers \subseteq 1..MaxBatchReads
    /\ \A w \in DOMAIN workers : workers[w] \in (-1)..Len(unique)
    /\ next \in 1..(MaxRequest + 1) /\ nextLookup \in 1..(MaxRequest + 1)

\* Every entry of a response is about its own object and was true at some moment
\* of the call, whatever was uploaded or collected during it: a client is not
\* told to skip an upload, or to start a download, because of the result of
\* another object or of a lookup that never happened (batch).
AnswersOwn ==
    pc = "end" /\ response # "error" =>
        \A i \in DOMAIN response :
            LET object == request.objects[i]
                was(what) == what \in witnessed[object.oid]
            IN  CASE response[i] \in {"download", "present"} ->
                         was("stored") /\ object.size = Size[object.oid]
                  [] response[i] = "mismatch" -> was("stored") /\ object.size # Size[object.oid]
                  [] response[i] \in {"upload", "missing"} -> was("absent")
                  [] response[i] = "invalid" -> object.oid = BadOid \/ object.size < 0
                  [] response[i] = "too large" -> object.size > MaxObjectBytes
                  [] OTHER -> Valid(object)

\* No worker is left when LFSStatBatch returns ("cancellation stops all workers
\* before returning"): none writes a result that is already used.
WorkersJoined == pc \in {"assemble", "end"} => \A w \in DOMAIN workers : workers[w] = -1

\* Duplicate identifiers share one lookup, and a response without an error needs
\* the lookup of every id.
LookupsShared ==
    /\ \A oid \in Oid : reads[oid] <= 1
    /\ pc = "assemble" /\ workers # <<>> => \A i \in DOMAIN unique : reads[unique[i]] = 1

\* The producer never waits for workers that have all returned: if they have,
\* it is through, or sees what made them return.
ProducerLeaves == pc = "queue" /\ (\A w \in DOMAIN workers : workers[w] = -1) => Stops
=============================================================================
