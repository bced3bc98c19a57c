---------------------------- MODULE MCTransfers ----------------------------
(* The ways in which content travels, one at a time: a fetch, the decoding of a  *)
(* pushed pack, with ample and with tight byte budgets, a batch request of LFS,  *)
(* with one and with two workers, and an LFS download.                           *)
EXTENDS Negotiation, TLC

CONSTANTS
    root, main, top, private,                   \* commits
    a, b, c, forth, back, NoObject,             \* objects and deltas of a pack
    empty, byte, BadOid                         \* objects of LFS

VARIABLES
    pack, bases, decoding, at, pass, pending, progress, entries, objects, external,
    missing, files, diskBytes, decodedBytes, planned, queries, result,      \* PackDecode
    batch, stored, witnessed, cancelled, handler, oids, unique, lookups, next, workers,
    reads, nextLookup, response,                                            \* LfsBatch
    get, size, version, versions, download, reply, opened, body, sent,      \* LfsDownload
    side

packVars ==
    <<pack, bases, decoding, at, pass, pending, progress, entries, objects, external,
      missing, files, diskBytes, decodedBytes, planned, queries, result>>
batchVars ==
    <<batch, stored, witnessed, cancelled, handler, oids, unique, lookups, next, workers,
      reads, nextLookup, response>>
getVars == <<get, size, version, versions, download, reply, opened, body, sent>>

\* A line of three commits, and a commit that only a client has.
MCLinks == root :> {} @@ main :> {root} @@ top :> {main} @@ private :> {root}

\* A delta that leads from the first object to the second and from the second to
\* the third, and one that leads back.
PackSize == a :> 1 @@ b :> 1 @@ c :> 2
DeltaSizes == forth :> 1 @@ back :> 2
Results == forth :> (a :> b @@ b :> c) @@ back :> (c :> a)

Ample == INSTANCE PackDecode WITH
    Object <- {a, b, c}, Delta <- {forth, back}, Size <- PackSize, DeltaSize <- DeltaSizes,
    Result <- Results, MaxEntries <- 3, MaxObjects <- 3, MaxDeltaDepth <- 2,
    MaxObjectBytes <- 2, MaxDecodedBytes <- 20, MaxDiskBytes <- 20, Snapshots <- {{}, {a}, {b}},
    snapshot <- bases, pc <- decoding, asked <- queries

Tight == INSTANCE PackDecode WITH
    Object <- {a, b, c}, Delta <- {forth, back}, Size <- PackSize, DeltaSize <- DeltaSizes,
    Result <- Results, MaxEntries <- 3, MaxObjects <- 2, MaxDeltaDepth <- 2,
    MaxObjectBytes <- 2, MaxDecodedBytes <- 6, MaxDiskBytes <- 4, Snapshots <- {{}, {a}, {b}},
    snapshot <- bases, pc <- decoding, asked <- queries

Contents == (empty :> 0) @@ (byte :> 1)

Batch == INSTANCE LfsBatch WITH
    Oid <- {empty, byte}, Size <- Contents, Sizes <- {-1, 0, 1, 2}, MaxRequest <- 3,
    MaxBatchObjects <- 2, MaxBatchReads <- 2, MaxObjectBytes <- 1,
    request <- batch, pc <- handler

\* A pool of one worker.
Single == INSTANCE LfsBatch WITH
    Oid <- {empty, byte}, Size <- Contents, Sizes <- {-1, 0, 1, 2}, MaxRequest <- 3,
    MaxBatchObjects <- 2, MaxBatchReads <- 1, MaxObjectBytes <- 1,
    request <- batch, pc <- handler

Download == INSTANCE LfsDownload WITH
    MaxSize <- 3, MaxInt <- 4, MaxVersions <- 2, request <- get, pc <- download

ASSUME Instances ==
    /\ Ample!DecodeAssumption /\ Tight!DecodeAssumption
    /\ Batch!BatchAssumption /\ Single!BatchAssumption /\ Download!DownloadAssumption

\* The sides that are not looked at are in some initial state.
MCInit ==
    /\ side \in {"fetch", "ample", "tight", "batch", "single", "download"}
    /\ Init /\ (side # "fetch" => head = {main} /\ local = {} /\ transport = "ssh")
    /\ Download!Init
    /\ side # "download" =>
           /\ get = [method |-> "GET", match |-> FALSE, ifRange |-> "", range |-> Download!NoRange]
           /\ size = 0 /\ version = 0
    /\ IF side \in {"batch", "single"} THEN Batch!Init
       ELSE Batch!Called([operation |-> "upload", objects |-> <<>>], {})
    /\ IF side \in {"ample", "tight"} THEN Ample!Init
       ELSE Ample!Called([entries |-> <<>>, intact |-> TRUE], {})

MCNext ==
    /\ \/ side = "fetch" /\ Next /\ UNCHANGED <<packVars, batchVars, getVars>>
       \/ side = "ample" /\ Ample!Next /\ UNCHANGED <<vars, batchVars, getVars>>
       \/ side = "tight" /\ Tight!Next /\ UNCHANGED <<vars, batchVars, getVars>>
       \/ side = "batch" /\ Batch!Next /\ UNCHANGED <<vars, packVars, getVars>>
       \/ side = "single" /\ Single!Next /\ UNCHANGED <<vars, packVars, getVars>>
       \/ side = "download" /\ Download!Next /\ UNCHANGED <<vars, packVars, batchVars>>
    /\ UNCHANGED side

MCSpec == MCInit /\ [][MCNext]_<<vars, packVars, batchVars, getVars, side>>

-----------------------------------------------------------------------------
\* A pack: what is accepted is what its deltas make of their bases, a legal pack is
\* accepted with ample budgets, whatever its order, the repository is asked once
\* for a base, and the files are within the budget and gone in the end (PackDecode).
PackSound ==
    /\ IF side = "tight" THEN Tight!TypeOK /\ Tight!AcceptedMeant /\ Tight!DiskBounded
       ELSE Ample!TypeOK /\ Ample!AcceptedMeant /\ Ample!DiskBounded
    /\ side = "ample" => Ample!LegalAccepted
    /\ Ample!AskedAsPlanned /\ Ample!DirectoryGone

\* A batch: every entry of the response is about its own object, duplicates share
\* a lookup, and neither the producer nor a worker is left behind (LfsBatch).
BatchSound ==
    /\ Batch!TypeOK /\ Batch!AnswersOwn /\ Batch!LookupsShared
    /\ Batch!WorkersJoined /\ Batch!ProducerLeaves

\* A download delivers what its range asks for (LfsDownload).
DownloadExact == Download!TypeOK /\ Download!DownloadExact
=============================================================================
