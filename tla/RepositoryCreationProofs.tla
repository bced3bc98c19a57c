---------------------- MODULE RepositoryCreationProofs ----------------------
(* Proofs that creation never leaves a half-created repository behind a name *)
(* and that listings are complete, for any number of creators, names and     *)
(* keys, and every size of a page.                                           *)
EXTENDS RepositoryCreation, FiniteSetTheorems, WellFoundedInduction, TLAPS

Call == [pc : {"head", "put", "conflict", "ok", "exists", "failed"},
         name : Name, readme : BOOLEAN]

\* A state has its refs and its manifest.
StatesBacked ==
    \A c \in Creator : "state" \in stored[c] => {"refs", "manifest"} \subseteq stored[c]

\* What creations have done: the strengthening of NamesComplete, Acknowledged
\* and HonestRefusal, which follow from one another only together.
CreateInv ==
    /\ stored \in [Creator -> SUBSET Parts(TRUE)]
    /\ claimed \in [Name -> Creator \cup {None}]
    /\ call \in [Creator -> Call]
    /\ StatesBacked /\ NamesComplete /\ Acknowledged /\ HonestRefusal

\* A name whose key a listing has not come to.
Ahead(l, n) == l.after # 0 => KeyRank[n] > KeyRank[l.after]

\* What a listing has done: everything due is found, on the page that is
\* being read, or ahead of the cursor; what was found is behind it.
ListInv(l) ==
    /\ l = [pc |-> l.pc, after |-> l.after, page |-> l.page,
            more |-> l.more, found |-> l.found, due |-> l.due]
    /\ l.pc \in {"idle", "page", "read", "done"}
    /\ l.after \in Name \cup {0}
    /\ l.page \cup l.found \cup l.due \subseteq {n \in Name : claimed[n] # None}
    /\ \A n \in l.page \cup l.found : ~Ahead(l, n)
    /\ l.pc = "page" => l.page = {} /\ \A n \in l.due : n \in l.found \/ Ahead(l, n)
    /\ l.pc = "read" => \A n \in l.due : n \in l.found \cup l.page \/ (l.more /\ Ahead(l, n))
    /\ l.pc = "done" => l.due \subseteq l.found

CreationInv == CreateInv /\ ListInv(list)
-----------------------------------------------------------------------------
(* Keys and pages. *)

\* A set of numbers that is not empty has a least one.
LEMMA Least ==
    ASSUME NEW S \in SUBSET Nat, S # {}
    PROVE  \E x \in S : \A y \in S : x <= y
<1>1. PICK R : R = {p \in Nat \X Nat : p[1] < p[2]}
  BY Zenon
<1>2. IsWellFoundedOn(R, Nat)
  BY <1>1, NatLessThanWellFounded DEF OpToRel
<1>3. PICK x \in S : \A y \in S : ~(<<y, x>> \in R)
  BY Zenon, <1>2, WFMin
<1>4. ASSUME NEW y \in S PROVE x <= y
  <2>1. x \in Nat /\ y \in Nat
    OBVIOUS
  <2>2. ~(y < x)
    BY Zenon, <1>1, <1>3, <2>1
  <2> QED
    BY <2>1, <2>2
<1> QED
  BY <1>4

LEMMA Ranks ==
    /\ Cardinality(Name) \in Nat
    /\ \A n \in Name : n \in Nat /\ n # 0 /\ n <= Cardinality(Name)
    /\ \A n \in Name : KeyRank[n] \in Name
<1>1. Cardinality(Name) \in Nat
  BY CreationAssumption, FS_CardinalityType
<1>2. \A n \in Name : n \in Nat /\ n # 0 /\ n <= Cardinality(Name)
  BY <1>1, CreationAssumption
<1> QED
  BY <1>1, <1>2, CreationAssumption

\* The cursor of a page is its last key.
LEMMA LastIsLast ==
    ASSUME NEW names \in SUBSET Name, names # {}
    PROVE  Last(names) \in names /\ \A m \in names : KeyRank[m] <= KeyRank[Last(names)]
<1> DEFINE N == Cardinality(Name)
           S == {N - KeyRank[n] : n \in names}
<1>1. \A n \in names : N - KeyRank[n] \in Nat
  BY Ranks
<1>2. S \in SUBSET Nat /\ S # {}
  BY <1>1
<1>3. PICK x \in S : \A y \in S : x <= y
  <2> HIDE DEF S
  <2> QED BY <1>2, Least
<1>4. PICK n \in names : x = N - KeyRank[n]
  OBVIOUS
<1>5. \A m \in names : KeyRank[m] <= KeyRank[n]
  <2> TAKE m \in names
  <2>1. N - KeyRank[n] <= N - KeyRank[m]
    BY <1>3, <1>4
  <2>2. N \in Nat /\ KeyRank[n] \in Nat /\ KeyRank[m] \in Nat
    BY Ranks
  <2> HIDE DEF N
  <2> QED BY <2>1, <2>2
<1> QED
  BY <1>5 DEF Last

\* The keys of a page come before those that are left for the next one, and
\* a page is empty only if there are none (ListPage).
LEMMA PageIsFirst ==
    ASSUME NEW names \in SUBSET Name
    PROVE  /\ FirstKeys(names) \subseteq names
           /\ \A n \in FirstKeys(names), m \in names :
                  KeyRank[m] <= KeyRank[n] => m \in FirstKeys(names)
           /\ names # {} => FirstKeys(names) # {}
<1> DEFINE Up(n) == {m \in names : KeyRank[m] <= KeyRank[n]}
<1>1. \A n \in names : IsFiniteSet(Up(n)) /\ Cardinality(Up(n)) \in Nat
  <2> TAKE n \in names
  <2>1. Up(n) \subseteq Name
    OBVIOUS
  <2> HIDE DEF Up
  <2> QED BY <2>1, CreationAssumption, FS_Subset, FS_CardinalityType
<1>2. ASSUME NEW n \in FirstKeys(names), NEW m \in names, KeyRank[m] <= KeyRank[n]
      PROVE  m \in FirstKeys(names)
  <2>1. n \in names /\ Cardinality(Up(n)) <= PageSize
    BY DEF FirstKeys
  <2>2. Up(m) \subseteq Up(n)
    BY <1>2, <2>1, Ranks
  <2>3. Cardinality(Up(m)) <= Cardinality(Up(n))
    <3> HIDE DEF Up
    <3> QED BY <1>1, <2>1, <2>2, FS_Subset
  <2>4. Cardinality(Up(m)) <= PageSize
    <3> HIDE DEF Up
    <3> QED BY <1>1, <2>1, <2>3, CreationAssumption
  <2> QED
    BY <2>4 DEF FirstKeys
<1>3. ASSUME names # {} PROVE FirstKeys(names) # {}
  <2> DEFINE S == {KeyRank[n] : n \in names}
  <2>1. S \in SUBSET Nat /\ S # {}
    BY <1>3, Ranks
  <2>2. PICK x \in S : \A y \in S : x <= y
    <3> HIDE DEF S
    <3> QED BY <2>1, Least
  <2>3. PICK n \in names : x = KeyRank[n]
    OBVIOUS
  <2>4. Up(n) = {n}
    <3>1. \A m \in names : KeyRank[n] <= KeyRank[m] /\ KeyRank[m] \in Nat
      BY <2>2, <2>3, Ranks
    <3>2. \A m \in names : KeyRank[m] <= KeyRank[n] => KeyRank[m] = KeyRank[n]
      BY <3>1
    <3>3. \A m \in names : KeyRank[m] <= KeyRank[n] => m = n
      BY <3>2, CreationAssumption
    <3> QED
      BY <3>1, <3>3
  <2>5. Cardinality({n}) = 1
    BY FS_Singleton
  <2>6. Cardinality(Up(n)) <= PageSize
    <3> HIDE DEF Up
    <3> QED BY <2>4, <2>5, CreationAssumption
  <2>7. n \in FirstKeys(names)
    BY <2>6 DEF FirstKeys
  <2> QED
    BY <2>7
<1> QED
  BY <1>2, <1>3 DEF FirstKeys

-----------------------------------------------------------------------------
(* Creations. *)

\* Every part that a repository may have has a place, and the state the last.
LEMMA NextPart ==
    ASSUME CreateInv, NEW c \in Creator, NEW part \in Left(c), IsNext(c, part)
    PROVE  /\ part \in Parts(TRUE)
           /\ part = "state" => {"refs", "manifest"} \subseteq stored[c]
<1>1. part \in Parts(TRUE)
  BY DEF Left, Parts
<1>2. ASSUME part = "state", NEW other \in {"refs", "manifest"}, other \notin stored[c]
      PROVE  FALSE
  <2>1. other \in Left(c)
    BY <1>2 DEF Left, Parts
  <2>2. Place["state"] <= Place[other]
    BY <1>2, <2>1 DEF IsNext
  <2>3. Place["state"] = 6 /\ Place["refs"] = 4 /\ Place["manifest"] = 5
    BY DEF Place
  <2> QED
    BY <1>2, <2>2, <2>3
<1> QED
  BY Zenon, <1>1, <1>2

\* Storing the next part disturbs nothing (putSnapshot, PutImmutable).
LEMMA StoreKeeps ==
    ASSUME CreateInv, NEW c \in Creator, NEW part \in Left(c), IsNext(c, part),
           stored' = [stored EXCEPT ![c] = @ \cup {part}],
           UNCHANGED claimed,
           call' = call \/ Goto(c, "failed")
    PROVE  CreateInv'
<1>1. part \in Parts(TRUE) /\ (part = "state" => {"refs", "manifest"} \subseteq stored[c])
  BY Zenon, NextPart
<1>2. stored' \in [Creator -> SUBSET Parts(TRUE)]
  BY Zenon, <1>1 DEF CreateInv
<1>3. \A d \in Creator : stored[d] \subseteq stored'[d]
  BY DEF CreateInv
<1>4. /\ call' \in [Creator -> Call]
      /\ \A d \in Creator : /\ call'[d].name = call[d].name
                            /\ call'[d].readme = call[d].readme
                            /\ call'[d].pc \in {call[d].pc, "failed"}
  <2>1. CASE call' = call
    BY <2>1 DEF CreateInv
  <2>2. CASE Goto(c, "failed")
    BY <2>2 DEF CreateInv, Call, Goto
  <2> QED
    BY <2>1, <2>2
<1>5. StatesBacked'
  BY <1>1 DEF StatesBacked, CreateInv
<1>6. NamesComplete'
  BY <1>3, <1>4 DEF NamesComplete, CreateInv
<1>7. Acknowledged' /\ HonestRefusal'
  BY <1>4 DEF Acknowledged, HonestRefusal, At, CreateInv
<1> QED
  BY Zenon, <1>2, <1>4, <1>5, <1>6, <1>7 DEF CreateInv

\* A creator that only moves disturbs nothing, unless it claims a success or
\* a refusal that is not true.
LEMMA MoveKeeps ==
    ASSUME CreateInv, NEW c \in Creator,
           NEW pc \in {"head", "put", "conflict", "exists", "failed"}, Goto(c, pc),
           pc = "exists" => claimed[call[c].name] # None,
           UNCHANGED <<stored, claimed>>
    PROVE  CreateInv'
<1>1. /\ call' \in [Creator -> Call]
      /\ \A d \in Creator : /\ call'[d].name = call[d].name
                            /\ call'[d].readme = call[d].readme
                            /\ call'[d].pc = IF d = c THEN pc ELSE call[d].pc
  BY DEF CreateInv, Call, Goto
<1>2. StatesBacked'
  BY DEF StatesBacked, CreateInv
<1>3. NamesComplete'
  BY <1>1 DEF NamesComplete, CreateInv
<1>4. Acknowledged' /\ HonestRefusal'
  BY <1>1 DEF Acknowledged, HonestRefusal, At, CreateInv
<1> QED
  BY Zenon, <1>1, <1>2, <1>3, <1>4 DEF CreateInv

\* Claiming a free name for a repository that is whole disturbs nothing.
LEMMA TakeKeeps ==
    ASSUME CreateInv, NEW c \in Creator, Left(c) = {},
           claimed[call[c].name] = None,
           claimed' = [claimed EXCEPT ![call[c].name] = c],
           NEW pc \in {"ok", "exists", "failed"}, Goto(c, pc),
           UNCHANGED stored
    PROVE  CreateInv'
<1>1. /\ call' \in [Creator -> Call]
      /\ \A d \in Creator : /\ call'[d].name = call[d].name /\ call[d].name \in Name
                            /\ call'[d].readme = call[d].readme
                            /\ call'[d].pc = IF d = c THEN pc ELSE call[d].pc
  BY DEF CreateInv, Call, Goto
<1>2. /\ claimed' \in [Name -> Creator \cup {None}]
      /\ \A n \in Name : claimed'[n] = IF n = call[c].name THEN c ELSE claimed[n]
  BY <1>1 DEF CreateInv
<1>3. StatesBacked'
  BY DEF StatesBacked, CreateInv
<1>4. NamesComplete'
  BY <1>1, <1>2 DEF NamesComplete, CreateInv, Left
<1>5. Acknowledged'
  BY <1>1, <1>2, CreationAssumption DEF Acknowledged, At, CreateInv
<1>6. HonestRefusal'
  BY <1>1, <1>2, CreationAssumption DEF HonestRefusal, At, CreateInv
<1> QED
  BY Zenon, <1>1, <1>2, <1>3, <1>4, <1>5, <1>6 DEF CreateInv

Create(c) ==
    \/ HeadName(c) \/ Put(c) \/ Fail(c) \/ Claim(c) \/ ClaimLost(c)
    \/ ClaimConflicts(c) \/ HeadConflict(c)

LEMMA CreateKeeps ==
    ASSUME CreateInv, NEW c \in Creator, Create(c)
    PROVE  CreateInv'
<1>1. CASE HeadName(c)
  BY <1>1, MoveKeeps DEF HeadName
<1>2. CASE Put(c)
  BY Zenon, <1>2, StoreKeeps DEF Put
<1>3. CASE Fail(c)
  <2>1. CASE UNCHANGED stored
    BY <1>3, <2>1, MoveKeeps DEF Fail
  <2>2. CASE ~UNCHANGED stored
    BY <1>3, <2>2, StoreKeeps DEF Fail
  <2> QED
    BY <2>1, <2>2
<1>4. CASE Claim(c)
  <2>1. CASE claimed[call[c].name] = None
    BY <1>4, <2>1, TakeKeeps DEF Claim
  <2>2. CASE claimed[call[c].name] # None
    BY <1>4, <2>2, MoveKeeps DEF Claim
  <2> QED
    BY <2>1, <2>2
<1>5. CASE ClaimLost(c)
  BY Zenon, <1>5, TakeKeeps DEF ClaimLost
<1>6. CASE ClaimConflicts(c)
  BY <1>6, MoveKeeps DEF ClaimConflicts
<1>7. CASE HeadConflict(c)
  BY <1>7, MoveKeeps DEF HeadConflict
<1> QED
  BY <1>1, <1>2, <1>3, <1>4, <1>5, <1>6, <1>7 DEF Create

-----------------------------------------------------------------------------
(* Listings. *)

\* A name keeps the id it has (Put with IfNoneMatch).
LEMMA NamesKept ==
    ASSUME CreateInv, [Next]_vars
    PROVE  \A n \in Name : claimed[n] # None => claimed'[n] = claimed[n]
<1>1. \A c \in Creator : call[c].name \in Name
  BY DEF CreateInv, Call
<1>2. ASSUME NEW c \in Creator, Claim(c) \/ ClaimLost(c)
      PROVE  \A n \in Name : claimed[n] # None => claimed'[n] = claimed[n]
  BY <1>1, <1>2 DEF CreateInv, Claim, ClaimLost
<1>3. CASE UNCHANGED claimed
  BY <1>3
<1> QED
  BY Zenon, <1>2, <1>3 DEF Next, vars, HeadName, Put, Fail, ClaimConflicts, HeadConflict,
        StartList, ListRepositoriesPage, ReadMetadata, NextPage, EndList

\* A listing does not notice a creation.
LEMMA CreationUnseen ==
    ASSUME ListInv(list), UNCHANGED list,
           \A n \in Name : claimed[n] # None => claimed'[n] = claimed[n]
    PROVE  ListInv(list)'
BY DEF ListInv, Ahead

\* One page (ListRepositoriesPage).
LEMMA PageKeeps ==
    ASSUME ListInv(list), ListRepositoriesPage
    PROVE  ListInv(list)' /\ list'.page \subseteq Name \ list.found
<1> DEFINE rest == Beyond(list.after)
           page == FirstKeys(rest)
<1>1. /\ rest \in SUBSET {n \in Name : claimed[n] # None}
      /\ \A n \in Name : n \in rest <=> claimed[n] # None /\ Ahead(list, n)
  BY DEF Beyond, Ahead
<1>2. /\ page \subseteq rest
      /\ \A n \in page, m \in rest : KeyRank[m] <= KeyRank[n] => m \in page
      /\ rest # {} => page # {}
  <2> HIDE DEF rest
  <2> QED BY <1>1, PageIsFirst
<1>3. /\ list'.pc = "read" /\ list'.page = page /\ list'.more = (page # rest)
      /\ list'.after = IF page = {} THEN list.after ELSE Last(page)
      /\ list'.found = list.found /\ list'.due = list.due
      /\ list' = [pc |-> list'.pc, after |-> list'.after, page |-> list'.page,
                  more |-> list'.more, found |-> list'.found, due |-> list'.due]
  BY Zenon DEF ListRepositoriesPage, ListInv
<1>4. page # {} => Last(page) \in page /\ \A m \in page : KeyRank[m] <= KeyRank[Last(page)]
  <2>1. page \in SUBSET Name
    BY <1>1, <1>2
  <2> HIDE DEF page
  <2> QED BY <2>1, LastIsLast
<1>5. list.pc = "page" /\ UNCHANGED claimed
  BY DEF ListRepositoriesPage, ListIs
<1> HIDE DEF rest, page
<1>6. list'.after \in Name \cup {0}
  BY <1>1, <1>2, <1>3, <1>4 DEF ListInv
<1>7. \A n \in list'.found : ~Ahead(list', n)
  <2> SUFFICES ASSUME NEW n \in list.found PROVE ~Ahead(list', n)
    BY <1>3
  <2>1. n \in Name /\ list.after \in Name /\ list.after # 0 /\ KeyRank[n] <= KeyRank[list.after]
    BY Ranks DEF ListInv, Ahead
  <2>2. CASE page = {}
    BY <1>3, <2>1, <2>2, Ranks DEF Ahead
  <2>3. CASE page # {}
    <3>1. Last(page) \in Name /\ KeyRank[Last(page)] > KeyRank[list.after]
      BY <1>1, <1>2, <1>4, <2>1, <2>3 DEF Ahead
    <3> QED
      BY <1>3, <2>1, <2>3, <3>1, Ranks DEF Ahead
  <2> QED
    BY <2>2, <2>3
<1>8. \A n \in list'.page : ~Ahead(list', n)
  <2> SUFFICES ASSUME NEW n \in page PROVE ~Ahead(list', n)
    BY <1>3
  <2>1. n \in Name /\ Last(page) \in Name /\ KeyRank[n] <= KeyRank[Last(page)]
    BY <1>1, <1>2, <1>4
  <2>2. list'.after = Last(page)
    BY <1>3
  <2> QED
    BY <2>1, <2>2, Ranks DEF Ahead
<1>9. ASSUME NEW n \in list'.due, n \notin list'.found \cup list'.page
      PROVE  list'.more /\ Ahead(list', n)
  <2>1. n \in rest /\ n \notin page
    BY <1>1, <1>3, <1>5, <1>9 DEF ListInv
  <2>2. page # {} /\ Last(page) \in page
    BY <1>2, <1>4, <2>1
  <2>3. ~(KeyRank[n] <= KeyRank[Last(page)])
    BY <1>2, <2>1, <2>2
  <2>4. n \in Name /\ Last(page) \in Name
    BY <1>1, <1>2, <2>1, <2>2
  <2>5. page # rest
    BY <2>1
  <2>6. list'.more
    BY Zenon, <1>3, <2>5
  <2>7. list'.after = Last(page)
    BY <1>3, <2>2
  <2>8. Ahead(list', n)
    BY <2>3, <2>4, <2>7, Ranks DEF Ahead
  <2> QED
    BY <2>6, <2>8
<1>10. list'.page \cup list'.found \cup list'.due \subseteq {n \in Name : claimed'[n] # None}
  BY <1>1, <1>2, <1>3, <1>5 DEF ListInv
<1>11. ListInv(list)'
  BY <1>3, <1>6, <1>7, <1>8, <1>9, <1>10 DEF ListInv, Ahead
<1>12. list'.page \subseteq Name \ list.found
  BY <1>1, <1>2, <1>3 DEF ListInv
<1> QED
  BY <1>11, <1>12

\* Reading a repository of the page (listMetadata).
LEMMA ReadKeeps ==
    ASSUME CreateInv, ListInv(list), ReadMetadata
    PROVE  ListInv(list)' /\ list'.page \subseteq list.page
<1>1. PICK n \in list.page :
          list' = IF Readable(n)
                  THEN [list EXCEPT !.page = @ \ {n}, !.found = @ \cup {n}]
                  ELSE [list EXCEPT !.pc = "corrupt"]
  BY Zenon DEF ReadMetadata
<1>2. n \in Name /\ claimed[n] # None
  BY DEF ListInv
<1>3. Parts(call[claimed[n]].readme) \subseteq stored[claimed[n]]
  BY <1>2 DEF CreateInv, NamesComplete
<1>4. Readable(n)
  BY <1>3 DEF Readable, Parts
<1>5. /\ list'.pc = list.pc /\ list'.after = list.after /\ list'.more = list.more
      /\ list'.page = list.page \ {n} /\ list'.found = list.found \cup {n}
      /\ list'.due = list.due
      /\ list' = [pc |-> list'.pc, after |-> list'.after, page |-> list'.page,
                  more |-> list'.more, found |-> list'.found, due |-> list'.due]
  BY Zenon, <1>1, <1>4 DEF ListInv
<1>6. list.pc = "read" /\ UNCHANGED claimed
  BY DEF ReadMetadata, ListIs
<1> QED
  BY <1>5, <1>6 DEF ListInv, Ahead

\* The steps between pages, and the start and the end of a listing.
LEMMA TurnKeeps ==
    ASSUME ListInv(list), StartList \/ NextPage \/ EndList
    PROVE  ListInv(list)' /\ list'.page \subseteq list.page
<1>1. CASE StartList
  <2>1. list' = [pc |-> "page", after |-> 0, page |-> {}, more |-> FALSE, found |-> {},
                 due |-> {n \in Name : claimed[n] # None}]
    BY Zenon, <1>1 DEF StartList, NoList
  <2>2. /\ list'.pc = "page" /\ list'.after = 0 /\ list'.page = {} /\ list'.found = {}
        /\ list'.due = {n \in Name : claimed[n] # None}
        /\ list' = [pc |-> list'.pc, after |-> list'.after, page |-> list'.page,
                    more |-> list'.more, found |-> list'.found, due |-> list'.due]
    BY <2>1
  <2>3. UNCHANGED claimed
    BY <1>1 DEF StartList
  <2> QED
    BY <2>2, <2>3 DEF ListInv, Ahead
<1>2. CASE NextPage
  <2>1. /\ list.pc = "read" /\ list.page = {} /\ UNCHANGED claimed
        /\ list'.pc = IF list.more THEN "page" ELSE "done"
        /\ list'.after = list.after /\ list'.more = list.more
        /\ list'.page = list.page /\ list'.found = list.found /\ list'.due = list.due
        /\ list' = [pc |-> list'.pc, after |-> list'.after, page |-> list'.page,
                    more |-> list'.more, found |-> list'.found, due |-> list'.due]
    BY <1>2 DEF NextPage, ListIs, ListInv
  <2> QED
    BY <2>1 DEF ListInv, Ahead
<1>3. CASE EndList
  <2>1. list' = NoList /\ UNCHANGED claimed
    BY <1>3 DEF EndList
  <2> QED
    BY <2>1 DEF NoList, ListInv, Ahead
<1> QED
  BY <1>1, <1>2, <1>3

-----------------------------------------------------------------------------
LEMMA InitInv == Init => CreationInv
<1> SUFFICES ASSUME Init PROVE CreationInv
  OBVIOUS
<1>1. CreateInv
  BY DEF Init, CreateInv, Call, StatesBacked, NamesComplete, Acknowledged, HonestRefusal, At
<1>2. ListInv(list)
  BY DEF Init, NoList, ListInv, Ahead
<1> QED
  BY <1>1, <1>2 DEF CreationInv

LEMMA NextKeeps ==
    ASSUME CreationInv, [Next]_vars
    PROVE  CreationInv' /\ list'.page \ list.page \subseteq Name \ list.found
<1> USE DEF CreationInv
<1>1. ASSUME NEW c \in Creator, Create(c)
      PROVE  CreationInv' /\ list' = list
  <2>1. CreateInv'
    BY <1>1, CreateKeeps
  <2>2. UNCHANGED list
    BY <1>1 DEF Create, HeadName, Put, Fail, Claim, ClaimLost, ClaimConflicts, HeadConflict
  <2> QED
    BY <2>1, <2>2, NamesKept, CreationUnseen
<1>2. ASSUME UNCHANGED <<stored, claimed, call>> PROVE CreateInv'
  BY Zenon, <1>2 DEF CreateInv, StatesBacked, NamesComplete, Acknowledged, HonestRefusal, At
<1>3. CASE ListRepositoriesPage
  BY <1>2, <1>3, PageKeeps DEF ListRepositoriesPage
<1>4. CASE ReadMetadata
  BY Zenon, <1>2, <1>4, ReadKeeps DEF ReadMetadata
<1>5. CASE StartList \/ NextPage \/ EndList
  BY <1>2, <1>5, TurnKeeps DEF StartList, NextPage, EndList
<1>6. CASE UNCHANGED vars
  BY <1>2, <1>6, CreationUnseen DEF vars
<1> QED
  BY <1>1, <1>3, <1>4, <1>5, <1>6 DEF Next, Create

\* The inductive invariant of creations and listings.
THEOREM CreationInvariant == Spec => []CreationInv
<1>1. CreationInv /\ [Next]_vars => CreationInv'
  BY NextKeeps
<1> QED
  BY InitInv, <1>1, PTL DEF Spec

\* Every write that Create makes, in its order, leaves the bucket well typed,
\* and a state has its refs and its manifest.
THEOREM TypeCorrect == Spec => []TypeOK
<1>1. CreationInv => TypeOK
  BY Zenon DEF CreationInv, CreateInv, ListInv, StatesBacked, TypeOK, Call
<1> QED
  BY CreationInvariant, <1>1, PTL

\* A name leads to a whole repository, for any number of racing creators.
THEOREM NamesStayComplete == Spec => []NamesComplete
<1>1. CreationInv => NamesComplete
  BY DEF CreationInv, CreateInv
<1> QED
  BY CreationInvariant, <1>1, PTL

\* A creator whose call succeeded owns the name, and one that was refused was
\* refused a name that exists.
THEOREM AnswersTrue == Spec => [](Acknowledged /\ HonestRefusal)
<1>1. CreationInv => Acknowledged /\ HonestRefusal
  BY DEF CreationInv, CreateInv
<1> QED
  BY CreationInvariant, <1>1, PTL

\* A listing misses no repository that existed when it began, whatever the
\* size of its pages and the order of the keys.
THEOREM ListingsComplete == Spec => []ListComplete
<1>1. CreationInv => ListComplete
  BY DEF CreationInv, ListInv, ListComplete, ListIs
<1> QED
  BY CreationInvariant, <1>1, PTL

\* No page repeats what a page before it held.
THEOREM PagesDisjoint == Spec => NoneListedTwice
<1>1. CreationInv /\ [Next]_vars => [list'.page \ list.page \subseteq Name \ list.found]_vars
  BY NextKeeps
<1> QED
  BY CreationInvariant, <1>1, PTL DEF Spec, NoneListedTwice

\* A name never changes hands (the claim is conditional on its absence).
THEOREM NamesStayPut == Spec => NameStable
<1>1. CreationInv /\ [Next]_vars =>
          [\A n \in Name : claimed[n] # None => claimed'[n] = claimed[n]]_vars
  BY NamesKept DEF CreationInv
<1> QED
  BY CreationInvariant, <1>1, PTL DEF Spec, NameStable

\* Create leaves whole repositories behind and tells every creator the truth.
THEOREM CreationsSafe == Spec => []CreationSafe
BY TypeCorrect, NamesStayComplete, AnswersTrue, PTL DEF CreationSafe

=============================================================================
