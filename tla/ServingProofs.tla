--------------------------- MODULE ServingProofs ---------------------------
(***************************************************************************)
(* ServingSafe is an invariant of Serving, for every set of requests and   *)
(* every capacity of the gates, and no request starts its work after the   *)
(* graceful period.                                                        *)
(*                                                                         *)
(* Most steps move one request from one place to another.  Where the       *)
(* places of all others stay, a count changes by whether the request was   *)
(* in the counted set and whether it is now (CountStep); MoveHolds says    *)
(* this once for all counts, and each action is one use of it.             *)
(***************************************************************************)
EXTENDS Serving, FiniteSetTheorems, TLAPS

Places == Inside \cup {"none", "arrived", "connected"}

Flags == [pc : Places, cancelled : BOOLEAN, expired : BOOLEAN]

Unit(b) == IF b THEN 1 ELSE 0

-----------------------------------------------------------------------------
(* Counting. *)

\* A set that changes by one element at most.
LEMMA CountStep ==
    ASSUME NEW S, NEW T, NEW r, IsFiniteSet(S), S \ {r} = T \ {r}
    PROVE  Cardinality(T) = Cardinality(S) - Unit(r \in S) + Unit(r \in T)
<1> DEFINE R == S \ {r}
<1>1. IsFiniteSet(R) /\ Cardinality(R) \in Nat /\ r \notin R /\ Cardinality(S) \in Nat
  BY FS_Subset, FS_CardinalityType
<1>2. Cardinality(S) = Cardinality(R) + Unit(r \in S)
  <2>1. CASE r \in S
    <3>1. S = R \cup {r}
      BY <2>1
    <3> QED BY <1>1, <2>1, <3>1, FS_AddElement DEF Unit
  <2>2. CASE r \notin S
    <3>1. S = R
      BY <2>2
    <3> QED BY <1>1, <2>2, <3>1 DEF Unit
  <2> QED BY <2>1, <2>2
<1>3. Cardinality(T) = Cardinality(R) + Unit(r \in T)
  <2>1. CASE r \in T
    <3>1. T = R \cup {r}
      BY <2>1
    <3> QED BY <1>1, <2>1, <3>1, FS_AddElement DEF Unit
  <2>2. CASE r \notin T
    <3>1. T = R
      BY <2>2
    <3> QED BY <1>1, <2>2, <3>1 DEF Unit
  <2> QED BY <2>1, <2>2
<1>4. Unit(r \in S) \in {0, 1} /\ Unit(r \in T) \in {0, 1}
  BY DEF Unit
<1> QED BY <1>1, <1>2, <1>3, <1>4

\* The counted sets are finite.
LEMMA CountsFinite ==
    /\ \A g \in Gates : IsFiniteSet(Holders(g)) /\ IsFiniteSet(Waiters(g))
    /\ IsFiniteSet(Connections) /\ IsFiniteSet(Handlers)
    /\ Cardinality(Request) \in Nat
<1>1. IsFiniteSet(Request)
  BY ServingAssumption
<1>2. /\ \A g \in Gates : Holders(g) \subseteq Request /\ Waiters(g) \subseteq Request
      /\ Connections \subseteq Request /\ Handlers \subseteq Request
  BY DEF Holders, Waiters, Connections, Handlers, HTTP
<1> QED BY <1>1, <1>2, FS_Subset, FS_CardinalityType

LEMMA GateType ==
    ASSUME NEW r \in Request
    PROVE  Gate(r) \in Gates
BY ServingAssumption DEF Gate, Gates, Kinds

-----------------------------------------------------------------------------
(* One request moves. *)

\* Only request r is somewhere else now, or has other flags.
Moves(r) ==
    /\ req' \in [Request -> Flags]
    /\ \A q \in Request \ {r} : req'[q] = req[q]

\* By how much a count changes when r moves between places inside and outside P.
Change(r, P) == Unit(req'[r].pc \in P) - Unit(req[r].pc \in P)

\* The tokens of request r follow its place.
MovesTokens(r) ==
    /\ active' = [active EXCEPT ![Gate(r)] = @ + Change(r, Holds)]
    /\ waiting' = [waiting EXCEPT ![Gate(r)] = @ + Change(r, Waits)]
    /\ slots' = IF r \in HTTP THEN slots ELSE slots + Change(r, Places \ {"none"})

LEMMA MoveTokens ==
    ASSUME ServingSafe, NEW r \in Request, Moves(r), MovesTokens(r)
    PROVE  /\ TokensExact'
           /\ active' \in [Gates -> Nat] /\ waiting' \in [Gates -> Nat] /\ slots' \in Nat
<1>1. /\ active \in [Gates -> Nat] /\ waiting \in [Gates -> Nat] /\ slots \in Nat
      /\ req \in [Request -> Flags] /\ Gate(r) \in Gates
  BY GateType DEF ServingSafe, TypeOK, Flags, Places
<1>2. ASSUME NEW g \in Gates PROVE active'[g] = Cardinality(Holders(g)')
  <2>1. Holders(g) \ {r} = Holders(g)' \ {r}
    BY <1>1 DEF Moves, Holders, Gate
  <2>2. Cardinality(Holders(g)')
            = Cardinality(Holders(g)) - Unit(r \in Holders(g)) + Unit(r \in Holders(g)')
    BY <2>1, CountStep, CountsFinite
  <2>3. active[g] = Cardinality(Holders(g)) /\ active[g] \in Nat
    BY <1>1 DEF ServingSafe, TokensExact
  <2>4. CASE g = Gate(r)
    <3>1. active'[g] = active[g] + Change(r, Holds)
      BY <1>1, <2>4 DEF MovesTokens
    <3>2. /\ (r \in Holders(g)) = (req[r].pc \in Holds)
          /\ (r \in Holders(g)') = (req'[r].pc \in Holds)
      BY <2>4 DEF Holders, Gate
    <3> QED BY <2>2, <2>3, <3>1, <3>2 DEF Change, Unit
  <2>5. CASE g # Gate(r)
    <3>1. active'[g] = active[g]
      BY <1>1, <2>5 DEF MovesTokens
    <3>2. r \notin Holders(g) /\ r \notin Holders(g)'
      BY <2>5 DEF Holders, Gate
    <3> QED BY <2>2, <2>3, <3>1, <3>2 DEF Unit
  <2> QED BY <2>4, <2>5
<1>3. ASSUME NEW g \in Gates PROVE waiting'[g] = Cardinality(Waiters(g)')
  <2>1. Waiters(g) \ {r} = Waiters(g)' \ {r}
    BY <1>1 DEF Moves, Waiters, Gate
  <2>2. Cardinality(Waiters(g)')
            = Cardinality(Waiters(g)) - Unit(r \in Waiters(g)) + Unit(r \in Waiters(g)')
    BY <2>1, CountStep, CountsFinite
  <2>3. waiting[g] = Cardinality(Waiters(g)) /\ waiting[g] \in Nat
    BY <1>1 DEF ServingSafe, TokensExact
  <2>4. CASE g = Gate(r)
    <3>1. waiting'[g] = waiting[g] + Change(r, Waits)
      BY <1>1, <2>4 DEF MovesTokens
    <3>2. /\ (r \in Waiters(g)) = (req[r].pc \in Waits)
          /\ (r \in Waiters(g)') = (req'[r].pc \in Waits)
      BY <2>4 DEF Waiters, Gate
    <3> QED BY <2>2, <2>3, <3>1, <3>2 DEF Change, Unit
  <2>5. CASE g # Gate(r)
    <3>1. waiting'[g] = waiting[g]
      BY <1>1, <2>5 DEF MovesTokens
    <3>2. r \notin Waiters(g) /\ r \notin Waiters(g)'
      BY <2>5 DEF Waiters, Gate
    <3> QED BY <2>2, <2>3, <3>1, <3>2 DEF Unit
  <2> QED BY <2>4, <2>5
<1>4. slots' = Cardinality(Connections')
  <2>1. Connections \ {r} = Connections' \ {r}
    BY <1>1 DEF Moves, Connections, HTTP, At
  <2>2. Cardinality(Connections')
            = Cardinality(Connections) - Unit(r \in Connections) + Unit(r \in Connections')
    BY <2>1, CountStep, CountsFinite
  <2>3. slots = Cardinality(Connections) /\ slots \in Nat
    BY <1>1 DEF ServingSafe, TokensExact
  <2>4. CASE r \in HTTP
    <3>1. r \notin Connections /\ r \notin Connections'
      BY <2>4 DEF Connections, HTTP
    <3> QED BY <2>2, <2>3, <2>4, <3>1 DEF MovesTokens, Unit
  <2>5. CASE r \notin HTTP
    <3>1. req[r].pc \in Places /\ req'[r].pc \in Places
      BY <1>1 DEF Moves, Flags
    <3>2. /\ (r \in Connections) = (req[r].pc \in Places \ {"none"})
          /\ (r \in Connections') = (req'[r].pc \in Places \ {"none"})
      BY <2>5, <3>1 DEF Connections, HTTP, At
    <3> QED BY <2>2, <2>3, <2>5, <3>2 DEF MovesTokens, Change, Unit
  <2> QED BY <2>4, <2>5
<1>5. /\ \A g \in Gates : Cardinality(Holders(g)') \in Nat /\ Cardinality(Waiters(g)') \in Nat
      /\ Cardinality(Connections') \in Nat
  <2>1. IsFiniteSet(Request)
    BY ServingAssumption
  <2>2. /\ \A g \in Gates : Holders(g)' \subseteq Request /\ Waiters(g)' \subseteq Request
        /\ Connections' \subseteq Request
    BY DEF Holders, Waiters, Connections, HTTP
  <2> QED BY <2>1, <2>2, FS_Subset, FS_CardinalityType
<1>6. active' \in [Gates -> Int] /\ waiting' \in [Gates -> Int]
  BY <1>1 DEF MovesTokens, Change, Unit
<1>7. active' \in [Gates -> Nat] /\ waiting' \in [Gates -> Nat]
  BY <1>2, <1>3, <1>5, <1>6
<1> QED BY <1>2, <1>3, <1>4, <1>5, <1>7 DEF TokensExact

\* What the drain knows after a move.
DrainFollows ==
    /\ drain' \in [stopping : BOOLEAN, active : Nat, done : Nat]
    /\ drain'.stopping = drain.stopping /\ drain'.active = Cardinality(Handlers')
    /\ DoneOnce'
    /\ Handlers' \subseteq Handlers \/ ~ drain.stopping

\* What a stage of the shutdown allows request r to do.
Allowed(r) ==
    /\ req'[r].pc = "arrived" => r \in HTTP
    /\ req'[r].pc = "connected" => r \notin HTTP
    /\ r \in HTTP /\ http \in {"cleanup", "joined"} /\ req'[r].pc # "none" => req'[r].cancelled
    /\ r \notin HTTP /\ ssh = "joined" => req'[r].pc = "none"

\* The channels have room for the tokens of request r.
Fits(r) ==
    /\ active'[Gate(r)] <= Active[Gate(r)] /\ waiting'[Gate(r)] <= Queued[Gate(r)]
    /\ slots' <= Slots

LEMMA ClosedLast ==
    ASSUME TypeOK, Stages
    PROVE  CacheOutlivesWorkers
<1> SUFFICES ASSUME cache = "closed", NEW r \in Request, req[r].pc \in Inside
             PROVE  r \in HTTP /\ abandoned
  BY DEF CacheOutlivesWorkers
<1>1. http = "joined" /\ Connections = {}
  BY DEF Stages
<1>2. r \in HTTP
  BY <1>1 DEF Connections, At, Inside
<1>3. r \in Handlers
  BY <1>2 DEF Handlers
<1> QED BY <1>1, <1>2, <1>3 DEF Stages, TypeOK

LEMMA MoveHolds ==
    ASSUME ServingSafe, NEW r \in Request, Moves(r), MovesTokens(r), Fits(r), DrainFollows,
           Allowed(r), UNCHANGED servers
    PROVE  ServingSafe'
<1>1. /\ TokensExact'
      /\ active' \in [Gates -> Nat] /\ waiting' \in [Gates -> Nat] /\ slots' \in Nat
  BY MoveTokens
<1>2. TypeOK'
  <2>1. \A g \in Gates : active'[g] <= Active[g] /\ waiting'[g] <= Queued[g]
    BY GateType DEF ServingSafe, TypeOK, MovesTokens, Fits
  <2>2. drain'.active \in 0 .. Cardinality(Request)
    <3>1. Handlers' \subseteq Request /\ IsFiniteSet(Request)
      BY ServingAssumption DEF Handlers, HTTP
    <3>2. Cardinality(Handlers') <= Cardinality(Request) /\ Cardinality(Handlers') \in Nat
      BY <3>1, FS_Subset, FS_CardinalityType
    <3> QED BY <3>2, CountsFinite DEF DrainFollows
  <2>3. drain' \in [stopping : BOOLEAN, active : 0 .. Cardinality(Request), done : Nat]
    BY <2>2 DEF DrainFollows
  <2>4. slots' \in 0 .. Slots
    BY <1>1, ServingAssumption DEF Fits
  <2> QED BY <1>1, <2>1, <2>3, <2>4 DEF ServingSafe, TypeOK, Moves, Flags, Places, servers
<1>3. Stages'
  <2>1. drain'.active = Cardinality(Handlers')
    BY DEF DrainFollows
  <2>2. http' # "serving" <=> drain'.stopping
    BY DEF ServingSafe, Stages, DrainFollows, servers
  <2>3. http' = "joined" /\ ~ abandoned' => Handlers' = {}
    BY DEF ServingSafe, Stages, DrainFollows, servers
  <2>4. ssh' = "joined" => Connections' = {}
    <3>1. ssh = "joined" => Connections' \subseteq Connections
      BY DEF Connections, Moves, Allowed, At, HTTP
    <3> QED BY <3>1 DEF ServingSafe, Stages, servers
  <2>5. (abandoned' => http' = "joined") /\ (cache' = "closed" => http' = "joined" /\ ssh' = "joined")
    BY DEF ServingSafe, Stages, servers
  <2>6. ASSUME NEW q \in Request
        PROVE  /\ req'[q].pc = "arrived" => q \in HTTP
               /\ req'[q].pc = "connected" => q \notin HTTP
               /\ q \in HTTP /\ http' \in {"cleanup", "joined"} /\ req'[q].pc # "none"
                      => req'[q].cancelled
    <3>1. CASE q = r
      BY <3>1 DEF Allowed, servers
    <3>2. CASE q # r
      BY <3>2 DEF ServingSafe, Stages, Moves, At, servers
    <3> QED BY <3>1, <3>2
  <2> QED BY <2>1, <2>2, <2>3, <2>4, <2>5, <2>6 DEF Stages, At, HTTP
<1>4. CacheOutlivesWorkers'
  BY <1>2, <1>3, ClosedLast, PTL
<1> QED BY <1>1, <1>2, <1>3, <1>4 DEF ServingSafe, DrainFollows

-----------------------------------------------------------------------------
(* The drain. *)

LEMMA SameHandlers ==
    ASSUME ServingSafe, NEW r \in Request, Moves(r), UNCHANGED drain,
           r \in HTTP => (req[r].pc \in Inside <=> req'[r].pc \in Inside)
    PROVE  DrainFollows
<1>1. Handlers' = Handlers
  BY DEF Moves, Handlers, HTTP
<1> QED BY <1>1, CountsFinite DEF ServingSafe, TypeOK, Stages, DoneOnce, DrainFollows

LEMMA GotoMoves ==
    ASSUME ServingSafe, NEW r \in Request, NEW pc \in Places, Goto(r, pc)
    PROVE  /\ Moves(r) /\ req'[r].pc = pc
           /\ req'[r].cancelled = req[r].cancelled /\ req'[r].expired = req[r].expired
BY DEF ServingSafe, TypeOK, Goto, Moves, Flags, Places

\* A handler moves on: its server, its drain and its slot stay.
LEMMA StaysInside ==
    ASSUME ServingSafe, NEW r \in Request, NEW pc \in Inside, req[r].pc \in Inside, Goto(r, pc),
           active' = [active EXCEPT ![Gate(r)] = @ + Change(r, Holds)],
           waiting' = [waiting EXCEPT ![Gate(r)] = @ + Change(r, Waits)],
           active'[Gate(r)] <= Active[Gate(r)], waiting'[Gate(r)] <= Queued[Gate(r)],
           UNCHANGED <<slots, drain, servers>>
    PROVE  ServingSafe'
<1>1. /\ Moves(r) /\ req'[r].pc = pc /\ req'[r].cancelled = req[r].cancelled
      /\ pc \in Places \ {"none", "arrived", "connected"}
      /\ req[r].pc \in Places \ {"none", "arrived", "connected"}
  BY GotoMoves DEF Places, Inside
<1>2. MovesTokens(r)
  <2>1. Change(r, Places \ {"none"}) = 0 /\ slots \in Nat
    BY <1>1 DEF Change, Unit, ServingSafe, TypeOK
  <2> QED BY <2>1 DEF MovesTokens
<1>3. DrainFollows
  BY <1>1, SameHandlers
<1>4. Allowed(r)
  <2>1. r \notin HTTP => ssh # "joined"
    BY <1>1 DEF ServingSafe, Stages, Connections, At
  <2>2. r \in HTTP /\ http \in {"cleanup", "joined"} => req[r].cancelled
    BY <1>1 DEF ServingSafe, Stages, At
  <2> QED BY <1>1, <2>1, <2>2 DEF Allowed, Inside
<1>5. Fits(r)
  BY DEF Fits, ServingSafe, TypeOK
<1> QED BY <1>1, <1>2, <1>3, <1>4, <1>5, MoveHolds

LEMMA CountersTyped ==
    ASSUME ServingSafe, NEW r \in Request
    PROVE  /\ active \in [Gates -> Nat] /\ waiting \in [Gates -> Nat] /\ Gate(r) \in Gates
           /\ active[Gate(r)] \in Nat /\ active[Gate(r)] <= Active[Gate(r)]
           /\ waiting[Gate(r)] \in Nat /\ waiting[Gate(r)] <= Queued[Gate(r)]
           /\ Active[Gate(r)] \in Nat /\ Queued[Gate(r)] \in Nat
BY GateType, ServingAssumption DEF ServingSafe, TypeOK

\* The three things a step does to a channel: nothing, a send, a receive.
Tokens(f, new, g, d, limit) ==
    \/ d = 0 /\ new = f
    \/ d = 1 /\ new = [f EXCEPT ![g] = @ + 1] /\ f[g] < limit
    \/ d = -1 /\ new = [f EXCEPT ![g] = @ - 1]

LEMMA TokensAre ==
    ASSUME NEW f \in [Gates -> Nat], NEW new, NEW g \in Gates, NEW d, NEW limit \in Nat,
           f[g] <= limit, Tokens(f, new, g, d, limit)
    PROVE  new = [f EXCEPT ![g] = @ + d] /\ new[g] <= limit
<1>1. CASE d = 0 /\ new = f
  BY <1>1
<1>2. CASE d = 1 /\ new = [f EXCEPT ![g] = @ + 1] /\ f[g] < limit
  BY <1>2
<1>3. CASE d = -1 /\ new = [f EXCEPT ![g] = @ - 1]
  <2>1. f[g] - 1 = f[g] + d /\ new[g] = f[g] - 1
    BY <1>3
  <2>2. new = [f EXCEPT ![g] = @ + d]
    BY Zenon, <1>3, <2>1
  <2> QED BY <2>1, <2>2
<1> QED BY <1>1, <1>2, <1>3 DEF Tokens

\* A handler moves on from one place to another, and its tokens with it.
LEMMA GateStep ==
    ASSUME ServingSafe, NEW r \in Request, NEW pc \in Inside, req[r].pc \in Inside, Goto(r, pc),
           Tokens(active, active', Gate(r), Unit(pc \in Holds) - Unit(req[r].pc \in Holds),
                  Active[Gate(r)]),
           Tokens(waiting, waiting', Gate(r), Unit(pc \in Waits) - Unit(req[r].pc \in Waits),
                  Queued[Gate(r)]),
           UNCHANGED <<slots, drain, servers>>
    PROVE  ServingSafe'
<1>1. /\ Change(r, Holds) = Unit(pc \in Holds) - Unit(req[r].pc \in Holds)
      /\ Change(r, Waits) = Unit(pc \in Waits) - Unit(req[r].pc \in Waits)
  BY GotoMoves DEF Change, Places
<1>2. active' = [active EXCEPT ![Gate(r)] = @ + Change(r, Holds)]
      /\ active'[Gate(r)] <= Active[Gate(r)]
  <2>1. Tokens(active, active', Gate(r), Change(r, Holds), Active[Gate(r)])
    BY Zenon, <1>1
  <2> QED BY Zenon, <2>1, CountersTyped, TokensAre
<1>3. waiting' = [waiting EXCEPT ![Gate(r)] = @ + Change(r, Waits)]
      /\ waiting'[Gate(r)] <= Queued[Gate(r)]
  <2>1. Tokens(waiting, waiting', Gate(r), Change(r, Waits), Queued[Gate(r)])
    BY Zenon, <1>1
  <2> QED BY Zenon, <2>1, CountersTyped, TokensAre
<1> QED BY Zenon, <1>2, <1>3, StaysInside

-----------------------------------------------------------------------------
(* The gate. *)

LEMMA CheckContextHolds ==
    ASSUME ServingSafe, NEW r \in Request, CheckContext(r) PROVE ServingSafe'
<1>1. req[r].pc = "entered"
  BY DEF CheckContext, At
<1>2. CASE req[r].cancelled
  <2>1. Goto(r, "leaving") /\ UNCHANGED <<slots, drain, servers>>
    BY <1>2 DEF CheckContext
  <2>2. Tokens(active, active', Gate(r), Unit("leaving" \in Holds) - Unit("entered" \in Holds),
               Active[Gate(r)])
    BY <1>2 DEF CheckContext, Tokens, Unit, Holds
  <2>3. Tokens(waiting, waiting', Gate(r), Unit("leaving" \in Waits) - Unit("entered" \in Waits),
               Queued[Gate(r)])
    BY <1>2 DEF CheckContext, Tokens, Unit, Waits
  <2> QED BY <1>1, <2>1, <2>2, <2>3, GateStep DEF Inside
<1>3. CASE ~ req[r].cancelled
  <2>1. Goto(r, "trying") /\ UNCHANGED <<slots, drain, servers>>
    BY <1>3 DEF CheckContext
  <2>2. Tokens(active, active', Gate(r), Unit("trying" \in Holds) - Unit("entered" \in Holds),
               Active[Gate(r)])
    BY <1>3 DEF CheckContext, Tokens, Unit, Holds
  <2>3. Tokens(waiting, waiting', Gate(r), Unit("trying" \in Waits) - Unit("entered" \in Waits),
               Queued[Gate(r)])
    BY <1>3 DEF CheckContext, Tokens, Unit, Waits
  <2> QED BY <1>1, <2>1, <2>2, <2>3, GateStep DEF Inside
<1> QED BY <1>2, <1>3

LEMMA TakeFreeHolds ==
    ASSUME ServingSafe, NEW r \in Request, TakeFree(r) PROVE ServingSafe'
<1>1. req[r].pc = "trying"
  BY DEF TakeFree, At
<1>2. CASE active[Gate(r)] < Active[Gate(r)]
  <2>1. Goto(r, "took") /\ UNCHANGED <<slots, drain, servers>>
    BY <1>2 DEF TakeFree
  <2>2. Tokens(active, active', Gate(r), Unit("took" \in Holds) - Unit("trying" \in Holds),
               Active[Gate(r)])
    BY <1>2 DEF TakeFree, Tokens, Unit, Holds
  <2>3. Tokens(waiting, waiting', Gate(r), Unit("took" \in Waits) - Unit("trying" \in Waits),
               Queued[Gate(r)])
    BY <1>2 DEF TakeFree, Tokens, Unit, Waits
  <2> QED BY <1>1, <2>1, <2>2, <2>3, GateStep DEF Inside
<1>3. CASE ~ (active[Gate(r)] < Active[Gate(r)])
  <2>1. Goto(r, "full") /\ UNCHANGED <<slots, drain, servers>>
    BY <1>3 DEF TakeFree
  <2>2. Tokens(active, active', Gate(r), Unit("full" \in Holds) - Unit("trying" \in Holds),
               Active[Gate(r)])
    BY <1>3 DEF TakeFree, Tokens, Unit, Holds
  <2>3. Tokens(waiting, waiting', Gate(r), Unit("full" \in Waits) - Unit("trying" \in Waits),
               Queued[Gate(r)])
    BY <1>3 DEF TakeFree, Tokens, Unit, Waits
  <2> QED BY <1>1, <2>1, <2>2, <2>3, GateStep DEF Inside
<1> QED BY <1>2, <1>3

LEMMA CheckTakenHolds ==
    ASSUME ServingSafe, NEW r \in Request, CheckTaken(r) PROVE ServingSafe'
<1>1. req[r].pc = "took"
  BY DEF CheckTaken, At
<1>2. CASE req[r].cancelled
  <2>1. Goto(r, "leaving") /\ UNCHANGED <<slots, drain, servers>>
    BY <1>2 DEF CheckTaken
  <2>2. Tokens(active, active', Gate(r), Unit("leaving" \in Holds) - Unit("took" \in Holds),
               Active[Gate(r)])
    BY <1>2 DEF CheckTaken, Tokens, Unit, Holds
  <2>3. Tokens(waiting, waiting', Gate(r), Unit("leaving" \in Waits) - Unit("took" \in Waits),
               Queued[Gate(r)])
    BY <1>2 DEF CheckTaken, Tokens, Unit, Waits
  <2> QED BY <1>1, <2>1, <2>2, <2>3, GateStep DEF Inside
<1>3. CASE ~ req[r].cancelled
  <2>1. Goto(r, "work") /\ UNCHANGED <<slots, drain, servers>>
    BY <1>3 DEF CheckTaken
  <2>2. Tokens(active, active', Gate(r), Unit("work" \in Holds) - Unit("took" \in Holds),
               Active[Gate(r)])
    BY <1>3 DEF CheckTaken, Tokens, Unit, Holds
  <2>3. Tokens(waiting, waiting', Gate(r), Unit("work" \in Waits) - Unit("took" \in Waits),
               Queued[Gate(r)])
    BY <1>3 DEF CheckTaken, Tokens, Unit, Waits
  <2> QED BY <1>1, <2>1, <2>2, <2>3, GateStep DEF Inside
<1> QED BY <1>2, <1>3

LEMMA QueueHolds ==
    ASSUME ServingSafe, NEW r \in Request, Queue(r) PROVE ServingSafe'
<1>1. req[r].pc = "full"
  BY DEF Queue, At
<1>2. CASE waiting[Gate(r)] < Queued[Gate(r)]
  <2>1. Goto(r, "queued") /\ UNCHANGED <<slots, drain, servers>>
    BY <1>2 DEF Queue
  <2>2. Tokens(active, active', Gate(r), Unit("queued" \in Holds) - Unit("full" \in Holds),
               Active[Gate(r)])
    BY <1>2 DEF Queue, Tokens, Unit, Holds
  <2>3. Tokens(waiting, waiting', Gate(r), Unit("queued" \in Waits) - Unit("full" \in Waits),
               Queued[Gate(r)])
    BY <1>2 DEF Queue, Tokens, Unit, Waits
  <2> QED BY <1>1, <2>1, <2>2, <2>3, GateStep DEF Inside
<1>3. CASE ~ (waiting[Gate(r)] < Queued[Gate(r)])
  <2>1. Goto(r, "leaving") /\ UNCHANGED <<slots, drain, servers>>
    BY <1>3 DEF Queue
  <2>2. Tokens(active, active', Gate(r), Unit("leaving" \in Holds) - Unit("full" \in Holds),
               Active[Gate(r)])
    BY <1>3 DEF Queue, Tokens, Unit, Holds
  <2>3. Tokens(waiting, waiting', Gate(r), Unit("leaving" \in Waits) - Unit("full" \in Waits),
               Queued[Gate(r)])
    BY <1>3 DEF Queue, Tokens, Unit, Waits
  <2> QED BY <1>1, <2>1, <2>2, <2>3, GateStep DEF Inside
<1> QED BY <1>2, <1>3

LEMMA TakeQueuedHolds ==
    ASSUME ServingSafe, NEW r \in Request, TakeQueued(r) PROVE ServingSafe'
<1>1. req[r].pc = "queued" /\ Goto(r, "woken") /\ UNCHANGED <<slots, drain, servers>>
  BY DEF TakeQueued, At
<1>2. Tokens(active, active', Gate(r), Unit("woken" \in Holds) - Unit("queued" \in Holds),
             Active[Gate(r)])
  BY DEF TakeQueued, Tokens, Unit, Holds
<1>3. Tokens(waiting, waiting', Gate(r), Unit("woken" \in Waits) - Unit("queued" \in Waits),
             Queued[Gate(r)])
  BY DEF TakeQueued, Tokens, Unit, Waits
<1> QED BY <1>1, <1>2, <1>3, GateStep DEF Inside

LEMMA CheckWokenHolds ==
    ASSUME ServingSafe, NEW r \in Request, CheckWoken(r) PROVE ServingSafe'
<1>1. req[r].pc = "woken"
  BY DEF CheckWoken, At
<1>2. CASE req[r].cancelled \/ req[r].expired
  <2>1. Goto(r, "leaving") /\ UNCHANGED <<slots, drain, servers>>
    BY <1>2 DEF CheckWoken, GaveUp
  <2>2. Tokens(active, active', Gate(r), Unit("leaving" \in Holds) - Unit("woken" \in Holds),
               Active[Gate(r)])
    BY <1>2 DEF CheckWoken, GaveUp, Tokens, Unit, Holds
  <2>3. Tokens(waiting, waiting', Gate(r), Unit("leaving" \in Waits) - Unit("woken" \in Waits),
               Queued[Gate(r)])
    BY <1>2 DEF CheckWoken, GaveUp, Tokens, Unit, Waits
  <2> QED BY <1>1, <2>1, <2>2, <2>3, GateStep DEF Inside
<1>3. CASE ~ (req[r].cancelled \/ req[r].expired)
  <2>1. Goto(r, "work") /\ UNCHANGED <<slots, drain, servers>>
    BY <1>3 DEF CheckWoken, GaveUp
  <2>2. Tokens(active, active', Gate(r), Unit("work" \in Holds) - Unit("woken" \in Holds),
               Active[Gate(r)])
    BY <1>3 DEF CheckWoken, GaveUp, Tokens, Unit, Holds
  <2>3. Tokens(waiting, waiting', Gate(r), Unit("work" \in Waits) - Unit("woken" \in Waits),
               Queued[Gate(r)])
    BY <1>3 DEF CheckWoken, GaveUp, Tokens, Unit, Waits
  <2> QED BY <1>1, <2>1, <2>2, <2>3, GateStep DEF Inside
<1> QED BY <1>2, <1>3

LEMMA QueueDoneHolds ==
    ASSUME ServingSafe, NEW r \in Request, QueueDone(r) PROVE ServingSafe'
<1>1. req[r].pc = "queued" /\ Goto(r, "leaving") /\ UNCHANGED <<slots, drain, servers>>
  BY DEF QueueDone, At
<1>2. Tokens(active, active', Gate(r), Unit("leaving" \in Holds) - Unit("queued" \in Holds),
             Active[Gate(r)])
  BY DEF QueueDone, Tokens, Unit, Holds
<1>3. Tokens(waiting, waiting', Gate(r), Unit("leaving" \in Waits) - Unit("queued" \in Waits),
             Queued[Gate(r)])
  BY DEF QueueDone, Tokens, Unit, Waits
<1> QED BY <1>1, <1>2, <1>3, GateStep DEF Inside

LEMMA BrowserBusyHolds ==
    ASSUME ServingSafe, NEW r \in Request, BrowserBusy(r) PROVE ServingSafe'
<1>1. req[r].pc = "full" /\ Goto(r, "leaving") /\ UNCHANGED <<slots, drain, servers>>
  BY DEF BrowserBusy, At
<1>2. Tokens(active, active', Gate(r), Unit("leaving" \in Holds) - Unit("full" \in Holds),
             Active[Gate(r)])
  BY DEF BrowserBusy, Tokens, Unit, Holds
<1>3. Tokens(waiting, waiting', Gate(r), Unit("leaving" \in Waits) - Unit("full" \in Waits),
             Queued[Gate(r)])
  BY DEF BrowserBusy, Tokens, Unit, Waits
<1> QED BY <1>1, <1>2, <1>3, GateStep DEF Inside

LEMMA ControlAcquireHolds ==
    ASSUME ServingSafe, NEW r \in Request, ControlAcquire(r) PROVE ServingSafe'
<1>1. req[r].pc = "entered"
  BY DEF ControlAcquire, At
<1>2. CASE active["control"] < Active["control"]
  <2>1. Goto(r, "work") /\ UNCHANGED <<slots, drain, servers>>
    BY <1>2 DEF ControlAcquire, Gate
  <2>2. Tokens(active, active', Gate(r), Unit("work" \in Holds) - Unit("entered" \in Holds),
               Active[Gate(r)])
    BY <1>2 DEF ControlAcquire, Gate, Tokens, Unit, Holds
  <2>3. Tokens(waiting, waiting', Gate(r), Unit("work" \in Waits) - Unit("entered" \in Waits),
               Queued[Gate(r)])
    BY <1>2 DEF ControlAcquire, Gate, Tokens, Unit, Waits
  <2> QED BY <1>1, <2>1, <2>2, <2>3, GateStep DEF Inside
<1>3. CASE ~ (active["control"] < Active["control"])
  <2>1. Goto(r, "leaving") /\ UNCHANGED <<slots, drain, servers>>
    BY <1>3 DEF ControlAcquire, Gate
  <2>2. Tokens(active, active', Gate(r), Unit("leaving" \in Holds) - Unit("entered" \in Holds),
               Active[Gate(r)])
    BY <1>3 DEF ControlAcquire, Gate, Tokens, Unit, Holds
  <2>3. Tokens(waiting, waiting', Gate(r), Unit("leaving" \in Waits) - Unit("entered" \in Waits),
               Queued[Gate(r)])
    BY <1>3 DEF ControlAcquire, Gate, Tokens, Unit, Waits
  <2> QED BY <1>1, <2>1, <2>2, <2>3, GateStep DEF Inside
<1> QED BY <1>2, <1>3

LEMMA EndWorkHolds ==
    ASSUME ServingSafe, NEW r \in Request, EndWork(r) PROVE ServingSafe'
<1>1. req[r].pc = "work" /\ Goto(r, "leaving") /\ UNCHANGED <<slots, drain, servers>>
  BY DEF EndWork, At
<1>2. Tokens(active, active', Gate(r), Unit("leaving" \in Holds) - Unit("work" \in Holds),
             Active[Gate(r)])
  BY DEF EndWork, Tokens, Unit, Holds
<1>3. Tokens(waiting, waiting', Gate(r), Unit("leaving" \in Waits) - Unit("work" \in Waits),
             Queued[Gate(r)])
  BY DEF EndWork, Tokens, Unit, Waits
<1> QED BY <1>1, <1>2, <1>3, GateStep DEF Inside

-----------------------------------------------------------------------------
(* Requests come and go. *)

\* A move that leaves the gate alone.
LEMMA OutsideGate ==
    ASSUME ServingSafe, NEW r \in Request, Moves(r), UNCHANGED <<active, waiting>>,
           req[r].pc \notin Holds \cup Waits, req'[r].pc \notin Holds \cup Waits,
           slots' = IF r \in HTTP THEN slots ELSE slots + Change(r, Places \ {"none"}),
           slots' <= Slots
    PROVE  MovesTokens(r) /\ Fits(r)
<1>1. Change(r, Holds) = 0 /\ Change(r, Waits) = 0
  BY DEF Change, Unit
<1>2. /\ active' = [active EXCEPT ![Gate(r)] = @ + Change(r, Holds)]
      /\ waiting' = [waiting EXCEPT ![Gate(r)] = @ + Change(r, Waits)]
  BY <1>1, CountersTyped
<1> QED BY Zenon, <1>2, CountersTyped DEF MovesTokens, Fits

LEMMA ArriveHolds ==
    ASSUME ServingSafe, NEW r \in Request, Arrive(r) PROVE ServingSafe'
<1>1. /\ Moves(r) /\ req[r].pc = "none" /\ req'[r].pc = "arrived" /\ r \in HTTP
      /\ http \in {"serving", "shutdown"} /\ UNCHANGED <<active, waiting, slots, drain, servers>>
  BY Zenon DEF Arrive, At, None, Moves, ServingSafe, TypeOK, Flags, Places
<1>2. MovesTokens(r) /\ Fits(r)
  BY <1>1, OutsideGate DEF Holds, Waits, ServingSafe, TypeOK
<1>3. DrainFollows
  BY <1>1, SameHandlers DEF Inside
<1>4. Allowed(r)
  BY <1>1 DEF Allowed
<1> QED BY <1>1, <1>2, <1>3, <1>4, MoveHolds

LEMMA HandlersCount ==
    ASSUME NEW r \in HTTP, Moves(r)
    PROVE  /\ Cardinality(Handlers') = Cardinality(Handlers) - Unit(r \in Handlers)
                                                             + Unit(r \in Handlers')
           /\ Cardinality(Handlers) \in Nat /\ Cardinality(Handlers') \in Nat
           /\ Handlers = {} <=> Cardinality(Handlers) = 0
           /\ Handlers' = {} <=> Cardinality(Handlers') = 0
<1>1. Handlers \ {r} = Handlers' \ {r}
  BY DEF Handlers, Moves, HTTP
<1>2. IsFiniteSet(Handlers) /\ IsFiniteSet(Handlers')
  <2>1. Handlers \subseteq Request /\ Handlers' \subseteq Request /\ IsFiniteSet(Request)
    BY ServingAssumption DEF Handlers, HTTP
  <2> QED BY <2>1, FS_Subset
<1>3. Cardinality(Handlers') = Cardinality(Handlers) - Unit(r \in Handlers) + Unit(r \in Handlers')
  BY <1>1, <1>2, CountStep
<1> QED BY <1>2, <1>3, FS_EmptySet, FS_CardinalityType

LEMMA EnterHolds ==
    ASSUME ServingSafe, NEW r \in Request, Enter(r) PROVE ServingSafe'
<1>1. req[r].pc = "arrived" /\ r \in HTTP /\ UNCHANGED <<active, waiting, slots, servers>>
  BY DEF Enter, At, ServingSafe, Stages
<1>2. CASE drain.stopping
  <2>1. Moves(r) /\ req'[r].pc = "none" /\ UNCHANGED drain
    <3>1. req' = [req EXCEPT ![r] = None] /\ UNCHANGED drain
      BY <1>2 DEF Enter
    <3> QED BY <3>1 DEF None, Moves, ServingSafe, TypeOK, Flags, Places
  <2>2. MovesTokens(r) /\ Fits(r)
    BY <1>1, <2>1, OutsideGate DEF Holds, Waits, ServingSafe, TypeOK
  <2>3. DrainFollows
    BY <1>1, <2>1, SameHandlers DEF Inside
  <2>4. Allowed(r)
    BY <1>1, <2>1 DEF Allowed
  <2> QED BY <1>1, <2>1, <2>2, <2>3, <2>4, MoveHolds
<1>3. CASE ~ drain.stopping
  <2>1. /\ Goto(r, "entered") /\ drain' = [drain EXCEPT !.active = @ + 1]
        /\ Moves(r) /\ req'[r].pc = "entered"
    BY <1>3, GotoMoves DEF Enter, Places, Inside
  <2>2. MovesTokens(r) /\ Fits(r)
    BY <1>1, <2>1, OutsideGate DEF Holds, Waits, ServingSafe, TypeOK
  <2>3. DrainFollows
    <3>1. r \notin Handlers /\ r \in Handlers'
      BY <1>1, <2>1 DEF Handlers, Inside, HTTP
    <3>2. Cardinality(Handlers') = Cardinality(Handlers) + 1 /\ Cardinality(Handlers) \in Nat
      BY <1>1, <2>1, <3>1, HandlersCount DEF Unit
    <3>3. /\ drain \in [stopping : BOOLEAN, active : 0 .. Cardinality(Request), done : Nat]
          /\ drain.active = Cardinality(Handlers) /\ drain.done = 0
      BY <1>3 DEF ServingSafe, TypeOK, Stages, DoneOnce
    <3>4. /\ drain'.stopping = drain.stopping /\ drain'.done = 0
          /\ drain'.active = Cardinality(Handlers')
          /\ drain' \in [stopping : BOOLEAN, active : Nat, done : Nat]
      BY <2>1, <3>2, <3>3, CountsFinite
    <3> QED BY <1>3, <3>4 DEF DrainFollows, DoneOnce
  <2>4. Allowed(r)
    BY <1>1, <1>3, <2>1 DEF Allowed, ServingSafe, Stages
  <2> QED BY <1>1, <2>1, <2>2, <2>3, <2>4, MoveHolds
<1> QED BY <1>2, <1>3

LEMMA FinishHolds ==
    ASSUME ServingSafe, NEW r \in Request, Finish(r) PROVE ServingSafe'
<1>1. /\ Moves(r) /\ req[r].pc = "leaving" /\ req'[r].pc = "none" /\ r \in HTTP
      /\ UNCHANGED <<active, waiting, slots, servers>>
  BY DEF Finish, At, None, Moves, ServingSafe, TypeOK, Flags, Places
<1>2. MovesTokens(r) /\ Fits(r)
  BY <1>1, OutsideGate DEF Holds, Waits, ServingSafe, TypeOK
<1>3. DrainFollows
  <2>1. r \in Handlers /\ r \notin Handlers' /\ Handlers' \subseteq Handlers
    BY <1>1 DEF Handlers, Inside, HTTP, Moves
  <2>2. /\ Cardinality(Handlers') = Cardinality(Handlers) - 1 /\ Cardinality(Handlers) \in Nat
        /\ Cardinality(Handlers') \in Nat /\ (Handlers' = {} <=> Cardinality(Handlers') = 0)
    BY <1>1, <2>1, HandlersCount DEF Unit
  <2>3. /\ drain \in [stopping : BOOLEAN, active : 0 .. Cardinality(Request), done : Nat]
        /\ drain.active = Cardinality(Handlers) /\ drain.done = 0
    BY <2>1 DEF ServingSafe, TypeOK, Stages, DoneOnce
  <2>4. /\ drain'.stopping = drain.stopping
        /\ drain'.done = IF drain.stopping /\ drain.active = 1 THEN 1 ELSE 0
        /\ drain'.active = Cardinality(Handlers')
        /\ drain' \in [stopping : BOOLEAN, active : Nat, done : Nat]
    <3> DEFINE done == IF drain.stopping /\ drain.active = 1 THEN drain.done + 1 ELSE drain.done
    <3> DEFINE left == drain.active - 1
    <3>1. drain' = [drain EXCEPT !.active = left, !.done = done]
      BY DEF Finish
    <3>2. done = IF drain.stopping /\ drain.active = 1 THEN 1 ELSE 0
      BY <2>3
    <3>3. done \in Nat /\ left \in Nat /\ left = Cardinality(Handlers')
      <4>1. done \in Nat
        BY <3>2
      <4>2. left = Cardinality(Handlers')
        BY <2>2, <2>3
      <4> HIDE DEF done, left
      <4> QED BY <2>2, <4>1, <4>2
    <3> HIDE DEF done, left
    <3>4. /\ drain'.stopping = drain.stopping /\ drain'.done = done /\ drain'.active = left
          /\ drain' \in [stopping : BOOLEAN, active : Nat, done : Nat]
      BY Zenon, <2>3, <3>1, <3>3
    <3> QED BY Zenon, <3>2, <3>3, <3>4
  <2> QED BY <2>1, <2>2, <2>3, <2>4 DEF DrainFollows, DoneOnce
<1>4. Allowed(r)
  BY <1>1 DEF Allowed
<1> QED BY <1>1, <1>2, <1>3, <1>4, MoveHolds

LEMMA AcceptHolds ==
    ASSUME ServingSafe, NEW r \in Request, Accept(r) PROVE ServingSafe'
<1>1. /\ Moves(r) /\ req[r].pc = "none" /\ req'[r].pc = "connected" /\ r \notin HTTP
      /\ ssh = "serving" /\ slots < Slots /\ slots' = slots + 1
      /\ UNCHANGED <<active, waiting, drain, servers>>
  BY ZenonT(30) DEF Accept, At, None, HTTP, Moves, ServingSafe, TypeOK, Flags, Places
<1>2. MovesTokens(r) /\ Fits(r)
  <2>1. Change(r, Places \ {"none"}) = 1 /\ slots' <= Slots
    BY <1>1, ServingAssumption DEF Change, Unit, Places, ServingSafe, TypeOK
  <2> QED BY <1>1, <2>1, OutsideGate DEF Holds, Waits
<1>3. DrainFollows
  BY <1>1, SameHandlers
<1>4. Allowed(r)
  BY <1>1 DEF Allowed
<1> QED BY <1>1, <1>2, <1>3, <1>4, MoveHolds

LEMMA ExecHolds ==
    ASSUME ServingSafe, NEW r \in Request, Exec(r) PROVE ServingSafe'
<1>1. /\ Moves(r) /\ req[r].pc = "connected" /\ req'[r].pc = "entered" /\ r \notin HTTP
      /\ UNCHANGED <<active, waiting, slots, drain, servers>>
  BY GotoMoves DEF Exec, At, Places, Inside, ServingSafe, Stages
<1>2. MovesTokens(r) /\ Fits(r)
  <2>1. Change(r, Places \ {"none"}) = 0 /\ slots \in 0 .. Slots
    BY <1>1 DEF Change, Unit, Places, Inside, ServingSafe, TypeOK
  <2>2. slots' = slots + Change(r, Places \ {"none"}) /\ slots' <= Slots
    BY <1>1, <2>1, ServingAssumption
  <2> QED BY <1>1, <2>2, OutsideGate DEF Holds, Waits
<1>3. DrainFollows
  BY <1>1, SameHandlers
<1>4. Allowed(r)
  BY <1>1 DEF Allowed, ServingSafe, Stages, Connections, At
<1> QED BY <1>1, <1>2, <1>3, <1>4, MoveHolds

LEMMA DisconnectHolds ==
    ASSUME ServingSafe, NEW r \in Request, Disconnect(r) PROVE ServingSafe'
<1>1. /\ Moves(r) /\ req[r].pc \in {"connected", "leaving"} /\ req'[r].pc = "none" /\ r \notin HTTP
      /\ slots' = slots - 1 /\ UNCHANGED <<active, waiting, drain, servers>>
  BY DEF Disconnect, None, HTTP, Moves, ServingSafe, TypeOK, Flags, Places
<1>2. MovesTokens(r) /\ Fits(r)
  <2>1. Change(r, Places \ {"none"}) = -1 /\ slots' <= Slots /\ slots \in Nat
    BY <1>1, ServingAssumption DEF Change, Unit, Places, Inside, ServingSafe, TypeOK
  <2>2. slots' = slots + Change(r, Places \ {"none"})
    BY <1>1, <2>1
  <2> QED BY Zenon, <1>1, <2>1, <2>2, OutsideGate DEF Holds, Waits
<1>3. DrainFollows
  BY <1>1, SameHandlers
<1>4. Allowed(r)
  BY <1>1 DEF Allowed
<1> QED BY <1>1, <1>2, <1>3, <1>4, MoveHolds

-----------------------------------------------------------------------------
(* Contexts end. *)

\* Flags change, and no request moves.
LEMMA SamePlaces ==
    ASSUME ServingSafe, req' \in [Request -> Flags],
           \A q \in Request : req'[q].pc = req[q].pc /\ (req[q].cancelled => req'[q].cancelled),
           UNCHANGED <<active, waiting, slots, drain>>
    PROVE  /\ TokensExact' /\ DoneOnce' /\ Handlers' = Handlers /\ Connections' = Connections
           /\ drain'.active = Cardinality(Handlers')
           /\ \A r \in Request : /\ At(r, "arrived")' => r \in HTTP
                                 /\ At(r, "connected")' => r \notin HTTP
<1>1. /\ \A g \in Gates : Holders(g)' = Holders(g) /\ Waiters(g)' = Waiters(g)
      /\ Handlers' = Handlers /\ Connections' = Connections
  BY DEF Holders, Waiters, Handlers, Connections, HTTP, At, Gate
<1>2. TokensExact' /\ DoneOnce' /\ drain'.active = Cardinality(Handlers')
  BY <1>1 DEF ServingSafe, TokensExact, DoneOnce, Stages
<1> QED BY <1>1, <1>2 DEF ServingSafe, Stages, At, HTTP

\* The contexts of a set of requests end.
LEMMA CancelledTyped ==
    ASSUME ServingSafe, NEW R, req' = Cancelled(R)
    PROVE  /\ req' \in [Request -> Flags]
           /\ \A q \in Request : /\ req'[q].pc = req[q].pc
                                 /\ req[q].cancelled => req'[q].cancelled
                                 /\ q \in R /\ ~ At(q, "none") => req'[q].cancelled
<1>1. ASSUME NEW q \in Request
      PROVE  /\ req'[q] \in Flags /\ req'[q].pc = req[q].pc
             /\ req[q].cancelled => req'[q].cancelled
             /\ q \in R /\ ~ At(q, "none") => req'[q].cancelled
  <2>1. req[q] \in Flags
    BY DEF ServingSafe, TypeOK, Flags, Places
  <2>2. req'[q] = IF q \in R /\ ~ At(q, "none") THEN [req[q] EXCEPT !.cancelled = TRUE] ELSE req[q]
    BY DEF Cancelled
  <2> QED BY ZenonT(30), <2>1, <2>2 DEF Flags
<1>2. req' = [q \in Request |-> req'[q]]
  BY DEF Cancelled
<1> QED BY <1>1, <1>2

\* A stage of the shutdown that moves no request.
LEMMA StageHolds ==
    ASSUME ServingSafe, req' \in [Request -> Flags],
           \A q \in Request : req'[q].pc = req[q].pc /\ (req[q].cancelled => req'[q].cancelled),
           UNCHANGED <<active, waiting, slots, drain>>,
           http' \in {"serving", "shutdown", "cleanup", "joined"},
           ssh' \in {"serving", "joining", "joined"}, ctx' \in {"live", "done"},
           abandoned' \in BOOLEAN, cache' \in {"open", "closed"},
           http' # "serving" <=> http # "serving",
           http' = "joined" /\ ~ abandoned' => Handlers = {},
           abandoned' => http' = "joined",
           ssh' = "joined" => Connections = {},
           cache' = "closed" => http' = "joined" /\ ssh' = "joined",
           http' \in {"cleanup", "joined"} =>
               \A q \in HTTP : req[q].pc # "none" => req'[q].cancelled
    PROVE  ServingSafe'
<1>1. TypeOK'
  BY DEF ServingSafe, TypeOK, Flags, Places
<1>2. /\ TokensExact' /\ DoneOnce' /\ Handlers' = Handlers /\ Connections' = Connections
      /\ drain'.active = Cardinality(Handlers')
      /\ \A r \in Request : /\ At(r, "arrived")' => r \in HTTP
                            /\ At(r, "connected")' => r \notin HTTP
  BY SamePlaces
<1>3. Stages'
  <2>1. http' # "serving" <=> drain'.stopping
    BY DEF ServingSafe, Stages
  <2>2. \A r \in Request : r \in HTTP /\ http' \in {"cleanup", "joined"} /\ req'[r].pc # "none"
            => req'[r].cancelled
    OBVIOUS
  <2> QED BY <1>2, <2>1, <2>2 DEF Stages, At, HTTP
<1>4. CacheOutlivesWorkers'
  BY <1>1, <1>3, ClosedLast, PTL
<1> QED BY <1>1, <1>2, <1>3, <1>4 DEF ServingSafe

\* What StageHolds asks of the stages that stay as they are.
LEMMA StagesAre ==
    ASSUME ServingSafe
    PROVE  /\ http \in {"serving", "shutdown", "cleanup", "joined"}
           /\ ssh \in {"serving", "joining", "joined"} /\ ctx \in {"live", "done"}
           /\ abandoned \in BOOLEAN /\ cache \in {"open", "closed"}
           /\ http = "joined" /\ ~ abandoned => Handlers = {}
           /\ abandoned => http = "joined"
           /\ ssh = "joined" => Connections = {}
           /\ cache = "closed" => http = "joined" /\ ssh = "joined"
           /\ req \in [Request -> Flags]
           /\ http \in {"cleanup", "joined"} =>
                  \A q \in HTTP : req[q].pc # "none" => req[q].cancelled
BY DEF ServingSafe, TypeOK, Stages, Flags, Places, HTTP, At

LEMMA FlagHolds ==
    ASSUME ServingSafe, NEW r \in Request, Cancel(r) \/ QueueTimeout(r) PROVE ServingSafe'
<1>1. UNCHANGED <<active, waiting, slots, drain>> /\ UNCHANGED servers
  BY DEF Cancel, QueueTimeout
<1>2. \/ req' = [req EXCEPT ![r].cancelled = TRUE]
      \/ req' = [req EXCEPT ![r].expired = TRUE]
  BY DEF Cancel, QueueTimeout
<1>3. /\ req' \in [Request -> Flags]
      /\ \A q \in Request : req'[q].pc = req[q].pc /\ (req[q].cancelled => req'[q].cancelled)
  <2>1. req \in [Request -> Flags]
    BY StagesAre
  <2>2. CASE req' = [req EXCEPT ![r].cancelled = TRUE]
    BY Zenon, <2>1, <2>2 DEF Flags
  <2>3. CASE req' = [req EXCEPT ![r].expired = TRUE]
    BY Zenon, <2>1, <2>3 DEF Flags
  <2> QED BY <1>2, <2>2, <2>3
<1>4. http \in {"cleanup", "joined"} => \A q \in HTTP : req[q].pc # "none" => req'[q].cancelled
  BY <1>3, StagesAre DEF HTTP
<1> QED BY <1>1, <1>3, <1>4, StagesAre, StageHolds DEF servers

LEMMA SignalHolds ==
    ASSUME ServingSafe, Signal PROVE ServingSafe'
<1>1. /\ UNCHANGED <<active, waiting, slots, drain, http, ssh, abandoned, cache>>
      /\ ctx' = "done" /\ req' = Cancelled(Request \ HTTP)
  BY DEF Signal
<1>2. /\ req' \in [Request -> Flags]
      /\ \A q \in Request : req'[q].pc = req[q].pc /\ (req[q].cancelled => req'[q].cancelled)
  BY Zenon, <1>1, CancelledTyped
<1>3. http \in {"cleanup", "joined"} => \A q \in HTTP : req[q].pc # "none" => req'[q].cancelled
  BY <1>2, StagesAre DEF HTTP
<1> QED BY Zenon, <1>1, <1>2, <1>3, StagesAre, StageHolds

LEMMA SSHStopHolds ==
    ASSUME ServingSafe, SSHStop PROVE ServingSafe'
<1>1. /\ UNCHANGED <<active, waiting, slots, drain, http, ctx, abandoned, cache>>
      /\ ssh = "serving" /\ ssh' = "joining" /\ req' = Cancelled(Request \ HTTP)
  BY DEF SSHStop
<1>2. /\ req' \in [Request -> Flags]
      /\ \A q \in Request : req'[q].pc = req[q].pc /\ (req[q].cancelled => req'[q].cancelled)
  BY Zenon, <1>1, CancelledTyped
<1>3. http \in {"cleanup", "joined"} => \A q \in HTTP : req[q].pc # "none" => req'[q].cancelled
  BY <1>2, StagesAre DEF HTTP
<1> QED BY Zenon, <1>1, <1>2, <1>3, StagesAre, StageHolds

LEMMA ShutdownHolds ==
    ASSUME ServingSafe, NEW late \in BOOLEAN, Shutdown(late) PROVE ServingSafe'
<1>1. /\ UNCHANGED <<active, waiting, slots, drain, ssh, ctx, abandoned, cache>>
      /\ http = "shutdown" /\ http' = "cleanup" /\ req' = Cancelled(HTTP)
  BY DEF Shutdown
<1>2. /\ req' \in [Request -> Flags]
      /\ \A q \in Request : req'[q].pc = req[q].pc /\ (req[q].cancelled => req'[q].cancelled)
      /\ \A q \in HTTP : req[q].pc # "none" => req'[q].cancelled
  BY <1>1, CancelledTyped DEF HTTP, At
<1> QED BY <1>1, <1>2, StagesAre, StageHolds

LEMMA JoinedHolds ==
    ASSUME ServingSafe, Joined PROVE ServingSafe'
<1>1. /\ UNCHANGED <<req, active, waiting, slots, drain, ssh, ctx, abandoned, cache>>
      /\ http = "cleanup" /\ http' = "joined" /\ drain.done > 0
  BY DEF Joined
<1>2. Handlers = {}
  BY <1>1 DEF ServingSafe, DoneOnce
<1> QED BY <1>1, <1>2, StagesAre, StageHolds

LEMMA CleanupTimesOutHolds ==
    ASSUME ServingSafe, CleanupTimesOut PROVE ServingSafe'
<1>1. /\ UNCHANGED <<req, active, waiting, slots, drain, ssh, ctx, cache>>
      /\ http = "cleanup" /\ http' = "joined" /\ abandoned' = (drain.active > 0)
  BY DEF CleanupTimesOut
<1>2. ~ abandoned' => Handlers = {}
  <2>1. drain.active = Cardinality(Handlers) /\ drain.active \in Nat
    BY CountsFinite, FS_CardinalityType DEF ServingSafe, Stages
  <2>2. Handlers = {} <=> Cardinality(Handlers) = 0
    BY CountsFinite, FS_EmptySet
  <2>3. ~ (drain.active > 0) => drain.active = 0
    BY <2>1
  <2> QED BY Zenon, <1>1, <2>1, <2>2, <2>3
<1>3. abandoned' \in BOOLEAN
  BY <1>1
<1> QED BY <1>1, <1>2, <1>3, StagesAre, StageHolds

LEMMA SSHJoinedHolds ==
    ASSUME ServingSafe, SSHJoined PROVE ServingSafe'
<1>1. /\ UNCHANGED <<req, active, waiting, slots, drain, http, ctx, abandoned, cache>>
      /\ ssh = "joining" /\ ssh' = "joined" /\ Connections = {}
  BY DEF SSHJoined, Connections
<1> QED BY <1>1, StagesAre, StageHolds

LEMMA CloseHolds ==
    ASSUME ServingSafe, Close PROVE ServingSafe'
<1>1. /\ UNCHANGED <<req, active, waiting, slots, drain, http, ssh, ctx, abandoned>>
      /\ http = "joined" /\ ssh = "joined" /\ cache' = "closed"
  BY DEF Close
<1> QED BY <1>1, StagesAre, StageHolds

\* serve seals the drain, which may be empty already.
LEMMA StopHolds ==
    ASSUME ServingSafe, Stop PROVE ServingSafe'
<1>1. /\ http = "serving" /\ http' = "shutdown"
      /\ UNCHANGED <<req, active, waiting, slots, ssh, ctx, abandoned, cache>>
  BY DEF Stop
<1>2. /\ drain \in [stopping : BOOLEAN, active : 0 .. Cardinality(Request), done : Nat]
      /\ drain.active = Cardinality(Handlers) /\ drain.done = 0 /\ ~ drain.stopping
  BY <1>1 DEF ServingSafe, TypeOK, Stages, DoneOnce
<1>3. Handlers = {} <=> drain.active = 0
  BY <1>2, CountsFinite, FS_EmptySet
<1>4. /\ drain'.stopping /\ drain'.active = drain.active
      /\ drain'.done = IF drain.active = 0 THEN 1 ELSE 0
      /\ drain' \in [stopping : BOOLEAN, active : 0 .. Cardinality(Request), done : Nat]
  <2> DEFINE done == IF drain.active = 0 THEN drain.done + 1 ELSE drain.done
  <2>1. drain' = [drain EXCEPT !.stopping = TRUE, !.done = done]
    BY DEF Stop
  <2>2. done = IF drain.active = 0 THEN 1 ELSE 0
    BY <1>2
  <2>3. done \in Nat
    BY <2>2
  <2> HIDE DEF done
  <2>4. /\ drain'.stopping /\ drain'.active = drain.active /\ drain'.done = done
        /\ drain' \in [stopping : BOOLEAN, active : 0 .. Cardinality(Request), done : Nat]
    BY ZenonT(30), <1>2, <2>1, <2>3
  <2> QED BY Zenon, <2>2, <2>4
<1>5. /\ \A g \in Gates : Holders(g)' = Holders(g) /\ Waiters(g)' = Waiters(g)
      /\ Handlers' = Handlers /\ Connections' = Connections
  BY <1>1 DEF Holders, Waiters, Handlers, Connections, At
<1>6. TypeOK'
  BY <1>1, <1>4 DEF ServingSafe, TypeOK
<1>7. TokensExact'
  BY <1>1, <1>5 DEF ServingSafe, TokensExact
<1>8. DoneOnce'
  BY <1>3, <1>4, <1>5 DEF DoneOnce
<1>9. Stages'
  BY <1>1, <1>2, <1>4, <1>5 DEF ServingSafe, Stages, At
<1>10. CacheOutlivesWorkers'
  BY <1>6, <1>9, ClosedLast, PTL
<1> QED BY <1>6, <1>7, <1>8, <1>9, <1>10 DEF ServingSafe

-----------------------------------------------------------------------------
(* The invariant. *)

LEMMA InitHolds == Init => ServingSafe
<1> SUFFICES ASSUME Init PROVE ServingSafe
  OBVIOUS
<1>1. \A r \in Request : req[r] = None /\ req[r].pc = "none"
  BY DEF Init, None
<1>2. /\ \A g \in Gates : Holders(g) = {} /\ Waiters(g) = {}
      /\ Handlers = {} /\ Connections = {}
  BY <1>1 DEF Holders, Waiters, Handlers, Connections, At, HTTP, Holds, Waits, Inside
<1>3. TokensExact
  BY <1>2, FS_EmptySet DEF Init, TokensExact
<1>4. DoneOnce
  BY DEF Init, DoneOnce
<1>5. Stages
  BY <1>1, <1>2, FS_EmptySet DEF Init, Stages, At
<1>6. TypeOK
  <2>1. req \in [Request -> Flags]
    BY DEF Init, None, Flags, Places
  <2>2. /\ active \in [Gates -> Nat] /\ waiting \in [Gates -> Nat]
        /\ \A g \in Gates : active[g] <= Active[g] /\ waiting[g] <= Queued[g]
    BY ServingAssumption DEF Init
  <2>3. drain \in [stopping : BOOLEAN, active : 0 .. Cardinality(Request), done : Nat]
    BY CountsFinite DEF Init
  <2>4. slots \in 0 .. Slots
    BY ServingAssumption DEF Init
  <2>5. /\ http \in {"serving", "shutdown", "cleanup", "joined"}
        /\ ssh \in {"serving", "joining", "joined"}
        /\ ctx \in {"live", "done"} /\ abandoned \in BOOLEAN /\ cache \in {"open", "closed"}
    BY ZenonT(30) DEF Init
  <2> QED BY <2>1, <2>2, <2>3, <2>4, <2>5 DEF TypeOK, Flags, Places
<1>7. CacheOutlivesWorkers
  BY <1>5, <1>6, ClosedLast
<1> QED BY <1>3, <1>4, <1>5, <1>6, <1>7 DEF ServingSafe

LEMMA AcquireHolds ==
    ASSUME ServingSafe, NEW r \in Request, Acquire(r) PROVE ServingSafe'
BY CheckContextHolds, TakeFreeHolds, CheckTakenHolds, QueueHolds, TakeQueuedHolds,
   CheckWokenHolds, QueueDoneHolds, BrowserBusyHolds, ControlAcquireHolds
   DEF Acquire, GitAcquire, SSHAcquire, LFSAcquire, BrowserAcquire, Gated

LEMMA NextHolds ==
    ASSUME ServingSafe, [Next]_vars PROVE ServingSafe'
<1>1. CASE \E r \in Request : \/ Arrive(r) \/ Enter(r) \/ Finish(r) \/ Accept(r) \/ Exec(r)
                              \/ Disconnect(r) \/ EndWork(r)
  BY <1>1, ArriveHolds, EnterHolds, FinishHolds, AcceptHolds, ExecHolds, DisconnectHolds,
     EndWorkHolds
<1>2. CASE \E r \in Request : Acquire(r) \/ Cancel(r) \/ QueueTimeout(r)
  BY <1>2, AcquireHolds, FlagHolds
<1>3. CASE Signal \/ FirstResult \/ Stop \/ \E late \in BOOLEAN : Shutdown(late)
  BY <1>3, SignalHolds, StopHolds, ShutdownHolds DEF FirstResult
<1>4. CASE Joined \/ CleanupTimesOut \/ SSHStop \/ SSHJoined \/ Close
  BY <1>4, JoinedHolds, CleanupTimesOutHolds, SSHStopHolds, SSHJoinedHolds, CloseHolds
<1>5. CASE UNCHANGED vars
  <2>1. TypeOK'
    BY <1>5 DEF vars, ServingSafe, TypeOK
  <2>2. /\ \A g \in Gates : Holders(g)' = Holders(g) /\ Waiters(g)' = Waiters(g)
        /\ Handlers' = Handlers /\ Connections' = Connections
    BY <1>5 DEF vars, Holders, Waiters, Handlers, Connections, At
  <2>3. TokensExact' /\ DoneOnce'
    BY <1>5, <2>2 DEF vars, ServingSafe, TokensExact, DoneOnce
  <2>4. Stages' /\ CacheOutlivesWorkers'
    BY <1>5, <2>2 DEF vars, ServingSafe, Stages, CacheOutlivesWorkers, At
  <2> QED BY <2>1, <2>3, <2>4 DEF ServingSafe
<1> QED BY <1>1, <1>2, <1>3, <1>4, <1>5 DEF Next

\* Slots are neither lost nor given twice, the shutdown is announced once and the
\* cache is closed last, for every crowd of requests and every capacity
\* (admission.acquire, requestDrain, app.Run).
THEOREM ServingStaysSafe == Spec => []ServingSafe
BY InitHolds, NextHolds, PTL DEF Spec

\* No channel ever holds more tokens than its capacity (TypeOK).
THEOREM TypeCorrect == Spec => []TypeOK
<1>1. ServingSafe => TypeOK
  BY DEF ServingSafe
<1> QED BY <1>1, ServingStaysSafe, PTL

\* The channels of every gate hold one token for each request that works or
\* waits, and no other (admission.acquire and its release).
THEOREM TokensStayExact == Spec => []TokensExact
<1>1. ServingSafe => TokensExact
  BY DEF ServingSafe
<1> QED BY <1>1, ServingStaysSafe, PTL

\* The channel of the drain is closed exactly once, when the last handler is out
\* (requestDrain.stop and the deferred finish).
THEOREM DrainClosedOnce == Spec => []DoneOnce
<1>1. ServingSafe => DoneOnce
  BY DEF ServingSafe
<1> QED BY <1>1, ServingStaysSafe, PTL

\* The cache is closed when no handler is left, unless the process gave up on
\* those of HTTP and says so (app.Run, App.Close).
THEOREM CacheClosedLast == Spec => []CacheOutlivesWorkers
<1>1. ServingSafe => CacheOutlivesWorkers
  BY DEF ServingSafe
<1> QED BY <1>1, ServingStaysSafe, PTL

-----------------------------------------------------------------------------
(* After the graceful period. *)

\* Who reaches the work of a gate that is waited for was not cancelled.
LEMMA StartsUncancelled ==
    ASSUME ServingSafe, NEW r \in Request, Kind[r] # "control", [Next]_vars,
           req[r].pc # "work", req'[r].pc = "work"
    PROVE  ~ req[r].cancelled /\ req[r].pc # "none"
<1>1. req \in [Request -> Flags]
  BY StagesAre
<1>2. ASSUME NEW q \in Request, NEW pc \in Places, Goto(q, pc), pc # "work" \/ q # r
      PROVE  FALSE
  BY <1>1, <1>2 DEF Goto, Flags
<1>3. ASSUME NEW q \in Request, req' = [req EXCEPT ![q] = None]
      PROVE  FALSE
  BY <1>1, <1>3 DEF None
<1>4. ASSUME \A q \in Request : req'[q].pc = req[q].pc
      PROVE  FALSE
  BY <1>4
<1>5. CASE \E q \in Request : Arrive(q) \/ Enter(q) \/ Finish(q) \/ Accept(q) \/ Exec(q) \/ Disconnect(q)
  <2>1. PICK q \in Request : Arrive(q) \/ Enter(q) \/ Finish(q) \/ Accept(q) \/ Exec(q) \/ Disconnect(q)
    BY <1>5
  <2>2. CASE Arrive(q) \/ Accept(q)
    BY ZenonT(30), <1>1, <2>2 DEF Arrive, Accept, None, Flags
  <2>3. CASE Enter(q) \/ Exec(q)
    BY <1>2, <1>3, <2>3 DEF Enter, Exec, Places, Inside
  <2>4. CASE Finish(q) \/ Disconnect(q)
    BY <1>3, <2>4 DEF Finish, Disconnect
  <2> QED BY <2>1, <2>2, <2>3, <2>4
<1>6. CASE \E q \in Request : Acquire(q) \/ EndWork(q)
  <2>1. PICK q \in Request : Acquire(q) \/ EndWork(q)
    BY <1>6
  <2>2. CASE CheckContext(q) \/ TakeFree(q) \/ Queue(q) \/ TakeQueued(q) \/ QueueDone(q)
             \/ BrowserBusy(q) \/ EndWork(q)
    BY <1>2, <2>2 DEF CheckContext, TakeFree, Queue, TakeQueued, QueueDone, BrowserBusy,
                      EndWork, Places, Inside
  <2>3. CASE CheckTaken(q) \/ CheckWoken(q)
    BY <1>2, <2>3 DEF CheckTaken, CheckWoken, GaveUp, At, Places, Inside
  <2>4. CASE ControlAcquire(q)
    BY <1>2, <2>4 DEF ControlAcquire, Places, Inside
  <2> QED BY <2>1, <2>2, <2>3, <2>4 DEF Acquire, GitAcquire, SSHAcquire, LFSAcquire,
                                        BrowserAcquire, Gated
<1>7. CASE \E q \in Request : Cancel(q) \/ QueueTimeout(q)
  BY <1>1, <1>4, <1>7 DEF Cancel, QueueTimeout, Flags
<1>8. CASE Signal \/ FirstResult \/ SSHStop \/ \E late \in BOOLEAN : Shutdown(late)
  BY <1>4, <1>8, CancelledTyped DEF Signal, FirstResult, SSHStop, Shutdown
<1>9. CASE Stop \/ Joined \/ CleanupTimesOut \/ SSHJoined \/ Close \/ UNCHANGED vars
  BY <1>4, <1>9 DEF Stop, Joined, CleanupTimesOut, SSHJoined, Close, vars
<1> QED BY Zenon, <1>5, <1>6, <1>7, <1>8, <1>9 DEF Next

\* Once serve has cancelled the requests, none that waited for a slot starts its
\* work, however slots become free (serve, admission.acquire).
THEOREM NoneStartsLate == Spec => NothingStartsLate
<1> DEFINE Late == \A r \in HTTP : http \in {"cleanup", "joined"} /\ Kind[r] # "control"
                                   /\ ~ At(r, "work") => req'[r].pc # "work"
<1>1. ASSUME ServingSafe, [Next]_vars PROVE Late
  <2> SUFFICES ASSUME NEW r \in HTTP, http \in {"cleanup", "joined"}, Kind[r] # "control",
                      ~ At(r, "work"), req'[r].pc = "work"
               PROVE  FALSE
    OBVIOUS
  <2>1. r \in Request /\ req[r].pc # "work"
    BY DEF HTTP, At
  <2>2. ~ req[r].cancelled /\ req[r].pc # "none"
    BY <1>1, <2>1, StartsUncancelled
  <2> QED BY <1>1, <2>2, StagesAre
<1>2. ServingSafe /\ [Next]_vars => [Late]_vars
  BY <1>1
<1> QED BY <1>2, ServingStaysSafe, PTL DEF Spec, NothingStartsLate

=============================================================================
