------------------------- MODULE RepositoryCreation -------------------------
(***************************************************************************)
(* Creation of repositories and the paged catalogue of a namespace.  A     *)
(* creation stores everything a repository consists of under a fresh id,   *)
(* and only then claims the name with a conditional write of its metadata. *)
(* A listing walks the metadata keys page by page, reads the state and the *)
(* refs of every repository it meets, and sorts the result by name.        *)
(*                                                                         *)
(* Names are numbers in the order of names.  The order of their keys is    *)
(* another one: "a-b.json" comes before "a.json".                          *)
(*                                                                         *)
(* Abstracted: ids are the creators that draw them, artifacts are their    *)
(* kinds, and the eight readers of one page run in any order.              *)
(***************************************************************************)
EXTENDS Integers, FiniteSets

CONSTANTS Creator,    \* calls of Create, each with an id of its own
          Name,       \* names, by rank
          KeyRank,    \* the rank of a name's metadata key
          PageSize    \* repositories on a page

None == "none"   \* no id

ASSUME CreationAssumption ==
    /\ None \notin Creator
    /\ IsFiniteSet(Name) /\ Name = 1 .. Cardinality(Name)
    /\ KeyRank \in [Name -> Name]
    /\ \A m, n \in Name : KeyRank[m] = KeyRank[n] => m = n
    /\ PageSize \in Nat \ {0}

VARIABLES stored,   \* artifacts in the bucket, for each id
          claimed,  \* the id in the metadata of a name
          call,     \* the calls of Create
          list      \* a call of List

vars == <<stored, claimed, call, list>>

\* The order in which a creation stores the parts of a repository.
Place == [blob |-> 1, tree |-> 2, commit |-> 3, refs |-> 4, manifest |-> 5, state |-> 6]

\* The parts of a repository; without a README it has no objects.
Parts(readme) ==
    {"refs", "manifest", "state"} \cup (IF readme THEN {"blob", "tree", "commit"} ELSE {})

NoList == [pc |-> "idle", after |-> 0, page |-> {}, more |-> FALSE, found |-> {}, due |-> {}]

Init ==
    /\ stored = [c \in Creator |-> {}]
    /\ claimed = [n \in Name |-> None]
    /\ call \in [Creator -> [pc : {"head"}, name : Name, readme : BOOLEAN]]
    /\ list = NoList

At(c, pc) == call[c].pc = pc

Goto(c, pc) == call' = [call EXCEPT ![c].pc = pc]

-----------------------------------------------------------------------------
(* Create. *)

\* A name that is taken is refused before anything is stored.
HeadName(c) ==
    /\ At(c, "head")
    /\ Goto(c, IF claimed[call[c].name] # None THEN "exists" ELSE "put")
    /\ UNCHANGED <<stored, claimed, list>>

\* What is left to store.
Left(c) == Parts(call[c].readme) \ stored[c]

IsNext(c, part) == part \in Left(c) /\ \A other \in Left(c) : Place[part] <= Place[other]

Put(c) ==
    /\ At(c, "put")
    /\ \E part \in Left(c) :
          IsNext(c, part) /\ stored' = [stored EXCEPT ![c] = @ \cup {part}]
    /\ UNCHANGED <<claimed, call, list>>

\* A write fails, or takes effect and its response is lost: the retry of an
\* immutable write finds the key taken, which is an error.
Fail(c) ==
    /\ At(c, "head") \/ At(c, "put")
    /\ Goto(c, "failed")
    /\ \/ UNCHANGED stored
       \/ /\ At(c, "put")
          /\ \E part \in Left(c) :
                IsNext(c, part) /\ stored' = [stored EXCEPT ![c] = @ \cup {part}]
    /\ UNCHANGED <<claimed, list>>

\* The name is claimed if nobody has.
Claim(c) ==
    /\ At(c, "put") /\ Left(c) = {}
    /\ IF claimed[call[c].name] = None
       THEN claimed' = [claimed EXCEPT ![call[c].name] = c] /\ Goto(c, "ok")
       ELSE UNCHANGED claimed /\ Goto(c, "exists")
    /\ UNCHANGED <<stored, list>>

\* The claim takes effect and its response is lost; the retry finds the key,
\* unless the caller gives up first.
ClaimLost(c) ==
    /\ At(c, "put") /\ Left(c) = {} /\ claimed[call[c].name] = None
    /\ claimed' = [claimed EXCEPT ![call[c].name] = c]
    /\ Goto(c, "exists") \/ Goto(c, "failed")
    /\ UNCHANGED <<stored, list>>

\* The bucket reports a concurrent write: nothing was written.
ClaimConflicts(c) ==
    /\ At(c, "put") /\ Left(c) = {}
    /\ Goto(c, "conflict") \/ Goto(c, "failed")
    /\ UNCHANGED <<stored, claimed, list>>

\* Mutant: a conflict with a name that now exists counts as a success.
HeadConflictWins(c) ==
    /\ At(c, "conflict")
    /\ Goto(c, IF claimed[call[c].name] # None THEN "ok" ELSE "failed")
    /\ UNCHANGED <<stored, claimed, list>>

\* Only a name that is there now is reported as taken.
HeadConflict(c) ==
    /\ At(c, "conflict")
    /\ Goto(c, IF claimed[call[c].name] # None THEN "exists" ELSE "failed")
    /\ UNCHANGED <<stored, claimed, list>>

-----------------------------------------------------------------------------
(* List. *)

ListIs(pc) == list.pc = pc

StartList ==
    /\ ListIs("idle")
    /\ list' = [NoList EXCEPT !.pc = "page", !.due = {n \in Name : claimed[n] # None}]
    /\ UNCHANGED <<stored, claimed, call>>

\* Repositories whose keys follow the key of the cursor, 0 before the first.
Beyond(after) ==
    {n \in Name : claimed[n] # None /\ (after # 0 => KeyRank[n] > KeyRank[after])}

\* The first keys of a set of names.
FirstKeys(names) ==
    {n \in names : Cardinality({m \in names : KeyRank[m] <= KeyRank[n]}) <= PageSize}

Last(names) == CHOOSE n \in names : \A m \in names : KeyRank[m] <= KeyRank[n]

ListRepositoriesPage ==
    /\ ListIs("page")
    /\ LET page == FirstKeys(Beyond(list.after))
       IN  list' = [list EXCEPT !.pc = "read", !.page = page,
                                !.more = page # Beyond(list.after),
                                !.after = IF page = {} THEN @ ELSE Last(page)]
    /\ UNCHANGED <<stored, claimed, call>>

\* Mutant: a repository without a first commit is taken for a broken one.
ReadableStarted(n) == Parts(TRUE) \subseteq stored[claimed[n]]

\* Whether the metadata of a name leads to a state and its refs.
Readable(n) == {"state", "refs"} \subseteq stored[claimed[n]]

ReadMetadata ==
    /\ ListIs("read")
    /\ \E n \in list.page :
          list' = IF Readable(n)
                  THEN [list EXCEPT !.page = @ \ {n}, !.found = @ \cup {n}]
                  ELSE [list EXCEPT !.pc = "corrupt"]
    /\ UNCHANGED <<stored, claimed, call>>

NextPage ==
    /\ ListIs("read") /\ list.page = {}
    /\ list' = [list EXCEPT !.pc = IF list.more THEN "page" ELSE "done"]
    /\ UNCHANGED <<stored, claimed, call>>

\* The result is handed out, or the listing fails on the way.
EndList ==
    /\ list.pc \notin {"idle"}
    /\ list' = NoList
    /\ UNCHANGED <<stored, claimed, call>>

-----------------------------------------------------------------------------
Next ==
    \/ \E c \in Creator : \/ HeadName(c) \/ Put(c) \/ Fail(c) \/ Claim(c) \/ ClaimLost(c)
                          \/ ClaimConflicts(c) \/ HeadConflict(c)
    \/ StartList \/ ListRepositoriesPage \/ ReadMetadata \/ NextPage \/ EndList

Spec == Init /\ [][Next]_vars

-----------------------------------------------------------------------------
\* Artifacts appear in an order in which nothing refers to what is missing:
\* a state has its refs and its manifest.  (requireDurableReferences)
TypeOK ==
    /\ stored \in [Creator -> SUBSET Parts(TRUE)]
    /\ claimed \in [Name -> Creator \cup {None}]
    /\ \A c \in Creator :
          /\ call[c].pc \in {"head", "put", "conflict", "ok", "exists", "failed"}
          /\ "state" \in stored[c] => {"refs", "manifest"} \subseteq stored[c]
    /\ list.pc \in {"idle", "page", "read", "done", "corrupt"}
    /\ list.page \cup list.found \cup list.due \subseteq Name

\* A name leads to a whole repository, also while creations of the same name
\* race, fail or lose a response.  ("never publish a half-created ...
\* repository")
NamesComplete ==
    \A n \in Name : claimed[n] # None =>
        Parts(call[claimed[n]].readme) \subseteq stored[claimed[n]]

\* A creator that was told so owns the name.
Acknowledged == \A c \in Creator : At(c, "ok") => claimed[call[c].name] = c

\* A creator is told that a name exists only if it does.
HonestRefusal == \A c \in Creator : At(c, "exists") => claimed[call[c].name] # None

\* A name that is claimed has all its artifacts, and whoever raced for it was
\* told the truth (Store.Create).
CreationSafe == TypeOK /\ NamesComplete /\ Acknowledged /\ HonestRefusal

\* A listing that ends has every repository that existed when it began, and
\* only repositories; it never takes a creation under way for corruption.
ListComplete ==
    /\ ListIs("done") => /\ list.due \subseteq list.found
                         /\ \A n \in list.found : claimed[n] # None
    /\ ~ListIs("corrupt")

\* A page holds what no page before it held.
NoneListedTwice == [][list'.page \ list.page \subseteq Name \ list.found]_vars

\* A name never changes hands.  ("never ... overwritten repository")
NameStable == [][\A n \in Name : claimed[n] # None => claimed'[n] = claimed[n]]_vars
=============================================================================
