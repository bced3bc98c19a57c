--------------------------- MODULE RoutingProofs ---------------------------
(***************************************************************************)
(* RoutedOnce and OneAuthority are invariants of Routing, for any number   *)
(* of shards, names and requests, however often instances restart and      *)
(* whatever identity files they are given.                                 *)
(*                                                                         *)
(* The inductive invariant is RoutingInv: what the handler of every frame  *)
(* has established (Established), what its caller knew when it opened the  *)
(* frame (Called), and that frames get ever further from the client        *)
(* (Follows).  Every step replaces the top frame of a chain, opens a frame *)
(* above it, closes it, or breaks a chain in two; there is a lemma for     *)
(* each of these, and every action is one use of them.                     *)
(***************************************************************************)
EXTENDS Routing, SequenceTheorems, FiniteSetTheorems, TLAPS

RoutingInv == TypeOK /\ Valids /\ \A c \in Chain : Orderly(chain[c])

\* Frame g is frame f, further on.
Same(f, g) == g.at = f.at /\ g.role = f.role /\ g.marked = f.marked

-----------------------------------------------------------------------------
(* Owners. *)

LEMMA Numbers ==
    /\ Cardinality(Shard) \in Nat \ {0} /\ Counts \subseteq Nat \ {0}
    /\ \A n \in Counts : 0 .. n - 1 \subseteq Shard
<1>1. Cardinality(Shard) \in Nat
  BY FS_CardinalityType, RoutingAssumption
<1>2. Shard = 0 .. Cardinality(Shard) - 1 /\ Shard # {}
  BY RoutingAssumption
<1> QED BY <1>1, <1>2 DEF Counts

LEMMA OwnerIsShard ==
    ASSUME TypeOK, NEW s \in Shard, count[s] # 0, NEW n \in Name
    PROVE  Owner(s, n) \in Shard
<1>1. count[s] \in Counts /\ count[s] \in Nat \ {0} /\ 0 .. count[s] - 1 \subseteq Shard
  BY Zenon, Numbers DEF TypeOK
<1>2. Hash[n] \in Nat
  BY RoutingAssumption
<1>3. Hash[n] % count[s] \in 0 .. count[s] - 1
  BY <1>1, <1>2
<1> QED BY <1>1, <1>3 DEF Owner

LEMMA ResolvesToShard ==
    ASSUME TypeOK, NEW s \in Shard, count[s] # 0, NEW r \in Requests,
           Resolve(s, r.target) # NoShard
    PROVE  Resolve(s, r.target) \in Shard
<1> DEFINE t == r.target
<1>1. CASE t \in [kind : {"name"}, name : Name]
  <2>1. t.kind = "name" /\ t.name \in Name
    BY <1>1
  <2>2. Resolve(s, t) = Owner(s, t.name)
    BY <2>1 DEF Resolve
  <2> QED BY <2>1, <2>2, OwnerIsShard
<1>2. CASE t \in [kind : {"shard"}, shard : Shard]
  <2>1. t.kind = "shard" /\ t.shard \in Shard
    BY <1>2
  <2>2. Resolve(s, t) = ResolveAPI(s, t)
    BY <2>1 DEF Resolve
  <2> QED BY <2>1, <2>2 DEF ResolveAPI
<1>3. CASE t \in [kind : {"local", "bad"}]
  BY <1>3 DEF Resolve, ResolveAPI
<1>4. CASE t \in [kind : {"state"}, name : Name, owner : Shard]
  <2>1. t.kind = "state" /\ t.owner \in Shard
    BY <1>4
  <2>2. Resolve(s, t) = t.owner \/ Resolve(s, t) = NoShard
    BY <2>1 DEF Resolve
  <2> QED BY <2>1, <2>2
<1> QED BY <1>1, <1>2, <1>3, <1>4 DEF Requests

\* A name resolves to its owner.
LEMMA ResolveName ==
    ASSUME NEW s, NEW t, t.kind = "name"
    PROVE  Resolve(s, t) = Owner(s, t.name)
BY DEF Resolve

\* Instances with one count agree on everything but where they are.
LEMMA SameCount ==
    ASSUME NEW r, NEW s, NEW t, count[r] = count[s], Resolve(r, t) = s
    PROVE  Resolve(s, t) = s
<1>1. CASE t.kind = "local"
  BY <1>1 DEF Resolve, ResolveAPI
<1>2. CASE t.kind # "local"
  BY Zenon, <1>2 DEF Resolve, ResolveAPI, Owner
<1> QED BY <1>1, <1>2

-----------------------------------------------------------------------------
(* Sequences of frames. *)

\* A part of the chain with one frame on top.
LEMMA Topped ==
    ASSUME NEW s \in Seq(Frames), NEW m \in 0 .. Len(s), NEW f \in Frames
    PROVE  LET t == Append(SubSeq(s, 1, m), f)
           IN  /\ t \in Seq(Frames) /\ Len(t) = m + 1 /\ t[m + 1] = f
               /\ \A i \in 1 .. m : t[i] = s[i]
<1> DEFINE p == SubSeq(s, 1, m)
<1>1. Len(s) \in Nat /\ \A i \in 1 .. Len(s) : s[i] \in Frames
  OBVIOUS
<1>2. m \in Int /\ \A i \in 1 .. m : s[i] \in Frames
  BY <1>1
<1>3. p \in Seq(Frames) /\ Len(p) = m /\ \A i \in 1 .. m : p[i] = s[i]
  <2>1. /\ p \in Seq(Frames) /\ Len(p) = IF 1 <= m THEN m - 1 + 1 ELSE 0
        /\ \A i \in 1 .. m - 1 + 1 : p[i] = s[1 + i - 1]
    BY <1>2, SubSeqProperties
  <2> QED BY <2>1
<1> HIDE DEF p
<1>4. /\ Append(p, f) \in Seq(Frames) /\ Len(Append(p, f)) = m + 1
      /\ Append(p, f)[m + 1] = f /\ \A i \in 1 .. m : Append(p, f)[i] = s[i]
  BY <1>3, AppendProperties
<1> QED BY <1>4 DEF p

\* What is left of the chain above frame i.
LEMMA Rest ==
    ASSUME NEW s \in Seq(Frames), NEW i \in 1 .. Len(s) - 1
    PROVE  LET t == SubSeq(s, i + 1, Len(s))
           IN  /\ t \in Seq(Frames) /\ Len(t) = Len(s) - i
               /\ \A j \in 1 .. Len(s) - i : t[j] = s[i + j]
<1> DEFINE t == SubSeq(s, i + 1, Len(s))
<1>1. Len(s) \in Nat /\ \A j \in 1 .. Len(s) : s[j] \in Frames
  OBVIOUS
<1>2. /\ i + 1 \in Int /\ Len(s) \in Int /\ i + 1 <= Len(s)
      /\ \A j \in i + 1 .. Len(s) : s[j] \in Frames
  BY <1>1
<1>3. /\ t \in Seq(Frames) /\ Len(t) = IF i + 1 <= Len(s) THEN Len(s) - (i + 1) + 1 ELSE 0
      /\ \A j \in 1 .. Len(s) - (i + 1) + 1 : t[j] = s[i + 1 + j - 1]
  BY <1>2, SubSeqProperties
<1> QED BY <1>1, <1>2, <1>3

-----------------------------------------------------------------------------
(* Frames that go on. *)

LEMMA AdmittedHolds ==
    ASSUME NEW r, NEW f \in Frames, Established(r, f), f.step \in {"check", "asked"}
    PROVE  /\ Admitted(f) \in Frames /\ Same(f, Admitted(f)) /\ Established(r, Admitted(f))
           /\ Admitted(f).step = "start" => f.role = "user"
<1>1. f.phase \in {0, 1, 2}
  BY DEF Frames
<1>2. CASE f.phase = 0
  <2>1. Admitted(f) = [f EXCEPT !.step = "start", !.phase = 1] /\ f.role = "user"
    BY <1>2 DEF Admitted, Established
  <2> DEFINE g == Admitted(f)
  <2>2. g \in Frames /\ Same(f, g) /\ g.step = "start" /\ g.role = "user"
    <3> DEFINE h == [f EXCEPT !.step = "start"]
    <3>1. h \in Frames /\ Same(f, h) /\ h.step = "start"
      BY DEF Frames, Same
    <3>2. g = [h EXCEPT !.phase = 1]
      BY <2>1 DEF Frames
    <3> HIDE DEF g, h
    <3> QED BY <2>1, <3>1, <3>2 DEF Frames, Same
  <2> HIDE DEF g
  <2>3. Established(r, g)
    BY <2>2 DEF Same, Established, Secure
  <2> QED BY <2>1, <2>2, <2>3 DEF g
<1>3. CASE f.phase = 1
  <2>1. Admitted(f) = [f EXCEPT !.step = "serve"]
    BY <1>3 DEF Admitted
  <2> QED BY <1>3, <2>1 DEF Frames, Same, Established, Secure
<1>4. CASE f.phase = 2
  <2>1. Admitted(f) = [f EXCEPT !.step = "publish"]
    BY <1>4 DEF Admitted
  <2> QED BY <1>4, <2>1 DEF Frames, Same, Established, Secure
<1> QED BY <1>1, <1>2, <1>3, <1>4

\* A frame that ends with an answer promises nothing.
LEMMA EndedHolds ==
    ASSUME NEW r, NEW f \in Frames, Established(r, f), NEW answer \in Answers
    PROVE  LET g == [f EXCEPT !.step = answer]
           IN  g \in Frames /\ Same(f, g) /\ Established(r, g) /\ g.step # "start"
<1>1. answer \notin {"start", "check", "asked", "serve", "publish", "wait", "verify"}
  BY DEF Answers
<1> QED BY <1>1 DEF Frames, Same, Established, Secure

LEMMA ResumedHolds ==
    ASSUME NEW r, NEW f \in Frames, Established(r, f), f.step \in {"wait", "asked"},
           NEW answer \in Answers
    PROVE  LET g == Resumed(f, answer)
           IN  /\ g \in Frames /\ Same(f, g) /\ Established(r, g)
               /\ g.step = "start" => f.role = "user"
<1>1. CASE f.step = "wait"
  <2>1. Resumed(f, answer) = [f EXCEPT !.step = answer]
    BY <1>1 DEF Resumed
  <2> QED BY <2>1, EndedHolds
<1>2. CASE f.step = "asked" /\ answer = "ok"
  <2>1. Resumed(f, answer) = Admitted(f)
    BY <1>2 DEF Resumed
  <2> QED BY <1>2, <2>1, AdmittedHolds
<1>3. CASE f.step = "asked" /\ answer # "ok"
  <2>1. Resumed(f, answer) = [f EXCEPT !.step = "refused"] /\ "refused" \in Answers
    BY <1>3 DEF Resumed, Answers
  <2> QED BY <2>1, EndedHolds
<1> QED BY <1>1, <1>2, <1>3

-----------------------------------------------------------------------------
(* Requests that stay orderly. *)

\* Requests q and r are the same but for their frames.
Alike(q, r) == q.target = r.target /\ q.user = r.user

LEMMA AlikeHolds ==
    ASSUME NEW q, NEW r, Alike(q, r), NEW f, NEW g
    PROVE  /\ Established(q, f) <=> Established(r, f)
           /\ Called(q, f, g) <=> Called(r, f, g)
BY Zenon DEF Alike, Established, Called, Sought

\* Only a client opens a connection for its own user.
LEMMA UserFirst ==
    ASSUME NEW f \in Frames, NEW g \in Frames, Follows(f, g)
    PROVE  g.role # "user"
BY DEF Follows, Rank, Frames

\* The order of frames depends on what goes on in the lower one only.
LEMMA FollowsSame ==
    ASSUME NEW f \in Frames, NEW g \in Frames, NEW h \in Frames, Same(g, h), Follows(f, g)
    PROVE  Follows(f, h)
BY Zenon DEF Follows, Rank, Same, Secure

LEMMA FollowsTransitive ==
    ASSUME NEW f \in Frames, NEW g \in Frames, NEW h \in Frames, Follows(f, g), Follows(g, h)
    PROVE  Follows(f, h)
<1>1. Rank(f) \in 0 .. 2 /\ Rank(g) \in 0 .. 2 /\ Rank(h) \in 0 .. 2
  BY DEF Rank, Frames
<1>2. f.role = g.role => Rank(f) = Rank(g)
  BY DEF Rank
<1>3. g.role = h.role => Rank(g) = Rank(h)
  BY DEF Rank
<1> QED BY <1>1, <1>2, <1>3 DEF Follows

\* The frames above position m are replaced by frame f, which goes on from the
\* one that was there.
LEMMA OrderlyTop ==
    ASSUME NEW r \in Requests, Orderly(r), NEW m \in 0 .. Len(r.frames) - 1,
           NEW f \in Frames, Same(r.frames[m + 1], f), Established(r, f),
           f.step = "start" => f.role = "user",
           NEW q, Alike(q, r), q.frames = Append(SubSeq(r.frames, 1, m), f)
    PROVE  Orderly(q) /\ q.frames \in Seq(Frames) /\ Len(q.frames) = m + 1
<1> DEFINE s == r.frames
           t == q.frames
<1>1. s \in Seq(Frames) /\ Len(s) \in Nat /\ m \in Nat /\ m < Len(s)
      /\ \A i \in 1 .. Len(s) : s[i] \in Frames
  BY DEF Requests
<1>2. /\ t \in Seq(Frames) /\ Len(t) = m + 1 /\ t[m + 1] = f
      /\ \A i \in 1 .. m : t[i] = s[i]
  BY <1>1, Topped
<1>3. /\ \A i \in 1 .. Len(s) : Established(r, s[i])
      /\ \A i \in 1 .. Len(s) - 1 : Called(r, s[i], s[i + 1])
      /\ \A i, j \in 1 .. Len(s) : i < j => Follows(s[i], s[j])
  BY DEF Orderly
<1>4. Same(s[m + 1], f) /\ m + 1 \in 1 .. Len(s) /\ s[m + 1] \in Frames
  BY <1>1
<1> HIDE DEF s, t
<1>5. ASSUME NEW i \in 1 .. Len(t)
      PROVE  Established(q, t[i])
  <2>1. CASE i = m + 1
    BY Zenon, <1>2, <2>1, AlikeHolds
  <2>2. CASE i # m + 1
    <3>1. t[i] = s[i] /\ i \in 1 .. Len(s)
      BY <1>1, <1>2, <1>5, <2>2
    <3> QED BY Zenon, <1>3, <3>1, AlikeHolds
  <2> QED BY <2>1, <2>2
<1>6. ASSUME NEW i \in 1 .. Len(t), NEW j \in 1 .. Len(t), i < j
      PROVE  Follows(t[i], t[j])
  <2>1. i \in 1 .. m /\ i \in 1 .. Len(s) /\ j \in 1 .. Len(s) /\ t[i] = s[i]
    BY <1>1, <1>2, <1>6
  <2>2. Follows(s[i], s[j])
    BY <1>3, <1>6, <2>1
  <2>3. CASE j = m + 1
    BY <1>1, <1>2, <1>4, <2>1, <2>2, <2>3, FollowsSame
  <2>4. CASE j # m + 1
    <3>1. t[j] = s[j]
      BY <1>1, <1>2, <1>6, <2>4
    <3> QED BY <2>1, <2>2, <3>1
  <2> QED BY <2>3, <2>4
<1>7. ASSUME NEW i \in 1 .. Len(t) - 1
      PROVE  Called(q, t[i], t[i + 1])
  <2>1. i \in 1 .. m /\ i \in 1 .. Len(s) - 1 /\ t[i] = s[i]
    BY <1>1, <1>2, <1>7
  <2>2. Called(r, s[i], s[i + 1])
    BY <1>3, <2>1
  <2>3. CASE i = m
    <3>1. Follows(s[i], s[m + 1])
      <4>1. i \in 1 .. Len(s) /\ m + 1 \in 1 .. Len(s) /\ i < m + 1
        BY <1>1, <1>4, <2>1
      <4> QED BY <1>3, <4>1
    <3>2. f.step # "start"
      <4>1. s[i] \in Frames /\ s[m + 1] \in Frames /\ s[m + 1].role = f.role
        BY <1>1, <1>4, <2>1 DEF Same
      <4> QED BY <3>1, <4>1, UserFirst
    <3>3. Called(r, s[i], f)
      BY <2>2, <3>2 DEF Called
    <3> QED BY <1>2, <2>1, <2>3, <3>3, AlikeHolds
  <2>4. CASE i # m
    <3>1. t[i + 1] = s[i + 1]
      BY <1>1, <1>2, <2>1, <2>4
    <3> QED BY <2>1, <2>2, <3>1, AlikeHolds
  <2> QED BY <2>3, <2>4
<1> QED BY <1>2, <1>5, <1>6, <1>7 DEF Orderly, t

\* A frame is opened above the top one, which waits for it.
LEMMA OrderlyPush ==
    ASSUME NEW r \in Requests, Orderly(r), r.frames # <<>>, NEW g \in Frames,
           Established(r, g), Called(r, r.frames[Len(r.frames)], g),
           Follows(r.frames[Len(r.frames)], g),
           NEW q, Alike(q, r), q.frames = Append(r.frames, g)
    PROVE  Orderly(q) /\ q.frames \in Seq(Frames) /\ Len(q.frames) = Len(r.frames) + 1
<1> DEFINE s == r.frames
           t == q.frames
           k == Len(r.frames)
<1>1. s \in Seq(Frames) /\ k \in Nat /\ k # 0 /\ k = Len(s) /\ \A i \in 1 .. k : s[i] \in Frames
  BY DEF Requests
<1>2. t \in Seq(Frames) /\ Len(t) = k + 1 /\ t[k + 1] = g /\ \A i \in 1 .. k : t[i] = s[i]
  BY <1>1, AppendProperties
<1>3. /\ \A i \in 1 .. k : Established(r, s[i])
      /\ \A i \in 1 .. k - 1 : Called(r, s[i], s[i + 1])
      /\ \A i, j \in 1 .. k : i < j => Follows(s[i], s[j])
  BY DEF Orderly
<1>4. Called(r, s[k], g) /\ Follows(s[k], g)
  OBVIOUS
<1> HIDE DEF s, t, k
<1>5. ASSUME NEW i \in 1 .. Len(t)
      PROVE  Established(q, t[i])
  <2>1. CASE i = k + 1
    BY <1>2, <2>1, AlikeHolds
  <2>2. CASE i # k + 1
    <3>1. t[i] = s[i] /\ i \in 1 .. k
      BY <1>1, <1>2, <1>5, <2>2
    <3> QED BY <1>3, <3>1, AlikeHolds
  <2> QED BY <2>1, <2>2
<1>6. ASSUME NEW i \in 1 .. Len(t), NEW j \in 1 .. Len(t), i < j
      PROVE  Follows(t[i], t[j])
  <2>1. i \in 1 .. k /\ t[i] = s[i] /\ s[i] \in Frames
    BY <1>1, <1>2, <1>6
  <2>2. CASE j = k + 1
    <3>1. CASE i = k
      BY <1>2, <1>4, <2>1, <2>2, <3>1
    <3>2. CASE i # k
      <4>1. k \in 1 .. k /\ i < k /\ s[k] \in Frames
        BY <1>1, <2>1, <3>2
      <4>2. Follows(s[i], s[k])
        BY <1>3, <2>1, <4>1
      <4> QED BY <1>2, <1>4, <2>1, <2>2, <4>1, <4>2, FollowsTransitive
    <3> QED BY <3>1, <3>2
  <2>3. CASE j # k + 1
    <3>1. j \in 1 .. k /\ t[j] = s[j]
      BY <1>1, <1>2, <1>6, <2>3
    <3> QED BY <1>3, <1>6, <2>1, <3>1
  <2> QED BY <2>2, <2>3
<1>7. ASSUME NEW i \in 1 .. Len(t) - 1
      PROVE  Called(q, t[i], t[i + 1])
  <2>1. i \in 1 .. k /\ t[i] = s[i]
    BY <1>1, <1>2, <1>7
  <2>2. CASE i = k
    BY <1>2, <1>4, <2>1, <2>2, AlikeHolds
  <2>3. CASE i # k
    <3>1. i \in 1 .. k - 1 /\ t[i + 1] = s[i + 1]
      BY <1>1, <1>2, <2>1, <2>3
    <3> QED BY <1>3, <2>1, <3>1, AlikeHolds
  <2> QED BY <2>2, <2>3
<1> QED BY <1>2, <1>5, <1>6, <1>7 DEF Orderly, t, k

\* The frames above a broken connection.
LEMMA OrderlyRest ==
    ASSUME NEW r \in Requests, Orderly(r), NEW i \in 1 .. Len(r.frames) - 1,
           NEW q, Alike(q, r), q.frames = SubSeq(r.frames, i + 1, Len(r.frames))
    PROVE  /\ Orderly(q) /\ q.frames \in Seq(Frames) /\ Len(q.frames) = Len(r.frames) - i
           /\ \A j \in 1 .. Len(q.frames) : q.frames[j] = r.frames[i + j]
<1> DEFINE s == r.frames
           t == q.frames
<1>1. s \in Seq(Frames) /\ Len(s) \in Nat /\ i \in Nat /\ i < Len(s)
  BY DEF Requests
<1>2. t \in Seq(Frames) /\ Len(t) = Len(s) - i /\ \A j \in 1 .. Len(s) - i : t[j] = s[i + j]
  BY <1>1, Rest
<1>3. /\ \A j \in 1 .. Len(s) : Established(r, s[j])
      /\ \A j \in 1 .. Len(s) - 1 : Called(r, s[j], s[j + 1])
      /\ \A j, k \in 1 .. Len(s) : j < k => Follows(s[j], s[k])
  BY DEF Orderly
<1> HIDE DEF s, t
<1>4. ASSUME NEW j \in 1 .. Len(t)
      PROVE  i + j \in 1 .. Len(s) /\ t[j] = s[i + j] /\ i + j \in Int
  BY <1>1, <1>2, <1>4
<1>5. ASSUME NEW j \in 1 .. Len(t)
      PROVE  Established(q, t[j])
  BY Zenon, <1>3, <1>4, AlikeHolds
<1>6. ASSUME NEW j \in 1 .. Len(t), NEW k \in 1 .. Len(t), j < k
      PROVE  Follows(t[j], t[k])
  <2>1. i + j < i + k
    BY <1>1, <1>6
  <2> QED BY <1>3, <1>4, <2>1
<1>7. ASSUME NEW j \in 1 .. Len(t) - 1
      PROVE  Called(q, t[j], t[j + 1])
  <2>1. j \in 1 .. Len(t) /\ j + 1 \in 1 .. Len(t) /\ i + j \in 1 .. Len(s) - 1
        /\ i + (j + 1) = (i + j) + 1
    BY <1>1, <1>2, <1>7
  <2>2. t[j] = s[i + j] /\ t[j + 1] = s[(i + j) + 1]
    BY <1>4, <2>1
  <2> QED BY <1>3, <2>1, <2>2, AlikeHolds
<1> QED BY Zenon, <1>2, <1>5, <1>6, <1>7 DEF Orderly, s, t

\* The places of handlers in a chain.
Place(f) ==
    CASE f.role = "web"   -> IF f.marked THEN 1 ELSE 0
      [] f.role = "check" -> IF f.marked THEN 3 ELSE 2
      [] f.role = "user"  -> 0
      [] f.role = "git"   -> 1
      [] f.role = "key"   -> 2

\* A request visits four instances at most: it is proxied and served, and so
\* is its question.
LEMMA FourFrames ==
    ASSUME NEW r \in Requests, Orderly(r)
    PROVE  Len(r.frames) <= 4
<1> DEFINE s == r.frames
<1>1. s \in Seq(Frames) /\ Len(s) \in Nat
  BY DEF Requests
<1>2. SUFFICES ASSUME Len(s) >= 5 PROVE FALSE
  BY <1>1
<1>3. \A i \in 1 .. 5 : i \in 1 .. Len(s) /\ s[i] \in Frames
  BY <1>1, <1>2
<1>4. \A f \in Frames : Place(f) \in 0 .. 3
  BY DEF Frames, Place
<1>5. ASSUME NEW f \in Frames, NEW g \in Frames, Follows(f, g)
      PROVE  Place(f) < Place(g)
  <2>1. f.role \in {"web", "check", "user", "git", "key"} /\ f.marked \in BOOLEAN
        /\ g.role \in {"web", "check", "user", "git", "key"} /\ g.marked \in BOOLEAN
    BY DEF Frames
  <2>2. CASE Rank(f) < Rank(g)
    <3>1. Secure(f) <=> Secure(g)
      BY <1>5 DEF Follows
    <3> QED BY <2>1, <2>2, <3>1 DEF Secure, Rank, Place
  <2>3. CASE ~(Rank(f) < Rank(g))
    <3>1. f.role = g.role /\ f.role \in {"web", "check"} /\ ~f.marked /\ g.marked
      BY <1>5, <2>3 DEF Follows
    <3> QED BY <2>1, <3>1 DEF Place
  <2> QED BY <2>2, <2>3
<1>6. \A i, j \in 1 .. Len(s) : i < j => Follows(s[i], s[j])
  BY DEF Orderly
<1> HIDE DEF s
<1>7. ASSUME NEW i \in 1 .. 4
      PROVE  Place(s[i]) < Place(s[i + 1])
  <2>1. i \in 1 .. 5 /\ i + 1 \in 1 .. 5 /\ i < i + 1
    OBVIOUS
  <2>2. Follows(s[i], s[i + 1]) /\ s[i] \in Frames /\ s[i + 1] \in Frames
    BY <1>3, <1>6, <2>1
  <2> QED BY <1>5, <2>2
<1>8. \A i \in 1 .. 5 : Place(s[i]) \in 0 .. 3
  BY <1>3, <1>4
<1> QED BY <1>7, <1>8

-----------------------------------------------------------------------------
(* Connections. *)

LEMMA HeldFinite ==
    ASSUME NEW s
    PROVE  /\ IsFiniteSet(Held(s)) /\ Cardinality(Held(s)) \in Nat
           /\ IsFiniteSet(Held(s)') /\ Cardinality(Held(s)') \in Nat
<1>1. IsFiniteSet(Chain \X (1 .. 4))
  <2>1. \A a, b \in Int : IsFiniteSet(a .. b)
    BY FS_Interval
  <2>2. IsFiniteSet(Chain)
    BY RoutingAssumption
  <2>3. IsFiniteSet(1 .. 4)
    <3>1. 1 \in Int /\ 4 \in Int
      OBVIOUS
    <3> QED BY Zenon, <2>1, <3>1
  <2> QED BY <2>2, <2>3, FS_Product
<1>2. Held(s) \subseteq Chain \X (1 .. 4) /\ Held(s)' \subseteq Chain \X (1 .. 4)
  BY DEF Held
<1> QED BY <1>1, <1>2, FS_Subset, FS_CardinalityType

\* The frames of chain c are, as far as they go, where they were.
Shadows(c, m) ==
    \A i \in 1 .. m :
        /\ i <= Len(chain[c].frames)
        /\ chain'[c].frames[i].at = chain[c].frames[i].at
        /\ chain'[c].frames[i].role = chain[c].frames[i].role

\* A step that opens no connection keeps the slots.
LEMMA SlotsKept ==
    ASSUME TypeOK, NEW c \in Chain, chain' \in [Chain -> Requests],
           \A d \in Chain \ {c} : chain'[d] = chain[d],
           Shadows(c, Len(chain'[c].frames))
    PROVE  \A s \in Shard : Cardinality(Held(s))' <= Slots
<1> SUFFICES ASSUME NEW s \in Shard
             PROVE  Cardinality(Held(s)') <= Slots
  OBVIOUS
<1>1. Held(s)' \subseteq Held(s)
  <2> SUFFICES ASSUME NEW h \in Held(s)' PROVE h \in Held(s)
    OBVIOUS
  <2>1. /\ h \in Chain \X (1 .. 4) /\ h[2] <= Len(chain'[h[1]].frames)
        /\ chain'[h[1]].frames[h[2]].at = s /\ Secure(chain'[h[1]].frames[h[2]])
    BY DEF Held
  <2>2. h[1] \in Chain /\ h[2] \in 1 .. 4
    BY <2>1
  <2>3. CASE h[1] # c
    BY <2>1, <2>2, <2>3 DEF Held
  <2>4. CASE h[1] = c
    <3>1. Len(chain'[c].frames) \in Nat
      BY DEF Requests
    <3>2. h[2] \in 1 .. Len(chain'[c].frames)
      BY <2>1, <2>2, <2>4, <3>1
    <3> QED BY <2>1, <2>2, <2>4, <3>2 DEF Held, Shadows, Secure
  <2> QED BY <2>3, <2>4
<1>2. Cardinality(Held(s)') <= Cardinality(Held(s)) /\ Cardinality(Held(s)) <= Slots
  BY <1>1, HeldFinite, FS_Subset DEF TypeOK
<1> QED BY <1>2, HeldFinite, RoutingAssumption

\* One that opens a connection takes a slot that was free.
LEMMA SlotTaken ==
    ASSUME TypeOK, NEW c \in Chain, chain' \in [Chain -> Requests],
           \A d \in Chain \ {c} : chain'[d] = chain[d],
           NEW m \in Nat, Len(chain'[c].frames) = m + 1, Shadows(c, m),
           NEW g, g = chain'[c].frames[m + 1],
           Secure(g) => Cardinality(Held(g.at)) < Slots
    PROVE  \A s \in Shard : Cardinality(Held(s))' <= Slots
<1> SUFFICES ASSUME NEW s \in Shard
             PROVE  Cardinality(Held(s)') <= Slots
  OBVIOUS
<1>1. ASSUME NEW h \in Held(s)'
      PROVE  h \in Held(s) \/ (h = <<c, m + 1>> /\ Secure(g) /\ g.at = s)
  <2>1. /\ h \in Chain \X (1 .. 4) /\ h[2] <= Len(chain'[h[1]].frames)
        /\ chain'[h[1]].frames[h[2]].at = s /\ Secure(chain'[h[1]].frames[h[2]])
    BY <1>1 DEF Held
  <2>2. h[1] \in Chain /\ h[2] \in 1 .. 4 /\ h = <<h[1], h[2]>>
    BY <2>1
  <2>3. CASE h[1] # c
    BY <2>1, <2>2, <2>3 DEF Held
  <2>4. CASE h[1] = c /\ h[2] = m + 1
    BY <2>1, <2>2, <2>4
  <2>5. CASE h[1] = c /\ h[2] # m + 1
    <3>1. h[2] \in 1 .. m
      BY <2>1, <2>2, <2>5
    <3> QED BY <2>1, <2>2, <2>5, <3>1 DEF Held, Shadows, Secure
  <2> QED BY <2>3, <2>4, <2>5
<1>2. Cardinality(Held(s)) <= Slots /\ Slots \in Nat
  BY RoutingAssumption DEF TypeOK
<1>3. CASE Secure(g) /\ g.at = s
  <2>1. Held(s)' \subseteq Held(s) \cup {<<c, m + 1>>}
    BY <1>1
  <2>2. /\ IsFiniteSet(Held(s) \cup {<<c, m + 1>>})
        /\ Cardinality(Held(s) \cup {<<c, m + 1>>}) <= Cardinality(Held(s)) + 1
    <3> DEFINE H == Held(s)
               x == <<c, m + 1>>
    <3>1. IsFiniteSet(H) /\ Cardinality(H) \in Nat
      BY HeldFinite
    <3> HIDE DEF H, x
    <3>2. /\ IsFiniteSet(H \cup {x})
          /\ Cardinality(H \cup {x}) = IF x \in H THEN Cardinality(H) ELSE Cardinality(H) + 1
      BY <3>1, FS_AddElement, Zenon
    <3>3. Cardinality(H \cup {x}) <= Cardinality(H) + 1
      BY <3>1, <3>2
    <3> QED BY <3>2, <3>3 DEF H, x
  <2>3. Cardinality(Held(s)') <= Cardinality(Held(s) \cup {<<c, m + 1>>})
    BY <2>1, <2>2, FS_Subset
  <2>4. Cardinality(Held(s) \cup {<<c, m + 1>>}) \in Nat
    BY <2>2, FS_CardinalityType
  <2>5. Cardinality(Held(s)) < Slots
    BY <1>3
  <2> QED BY <1>2, <2>2, <2>3, <2>4, <2>5, HeldFinite
<1>4. CASE ~(Secure(g) /\ g.at = s)
  <2>1. Held(s)' \subseteq Held(s)
    BY <1>1, <1>4
  <2>2. Cardinality(Held(s)') <= Cardinality(Held(s))
    BY <2>1, HeldFinite, FS_Subset
  <2> QED BY <1>2, <2>2, HeldFinite
<1> QED BY <1>3, <1>4

-----------------------------------------------------------------------------
(* Steps of one chain. *)

\* What makes a request orderly depends on the counts only.
LEMMA OrderlyStays ==
    ASSUME count' = count, NEW d, NEW w, chain'[d] = w, Orderly(w)
    PROVE  Orderly(chain[d])'
<1>1. \A f : Established(w, f)' <=> Established(w, f)
  BY DEF Established, Owner
<1>2. \A f, g : Called(w, f, g)' <=> Called(w, f, g)
  BY DEF Called, Resolve, ResolveAPI, Owner
<1>3. Orderly(w)'
  BY Zenon, <1>1, <1>2 DEF Orderly
<1> QED BY Zenon, <1>3 DEF Orderly

LEMMA ChainStep ==
    ASSUME RoutingInv, UNCHANGED <<file, count, starts>>, NEW c \in Chain,
           NEW q \in Requests, Orderly(q), chain' = [chain EXCEPT ![c] = q],
           \A s \in Shard : Cardinality(Held(s))' <= Slots
    PROVE  RoutingInv'
<1>1. chain' \in [Chain -> Requests]
  BY DEF RoutingInv, TypeOK
<1>2. TypeOK'
  BY <1>1 DEF RoutingInv, TypeOK
<1>3. Valids'
  BY DEF RoutingInv, Valids
<1>4. ASSUME NEW d \in Chain
      PROVE  Orderly(chain[d])'
  <2>1. CASE d = c
    <3>1. chain'[d] = q
      BY <2>1 DEF RoutingInv, TypeOK
    <3> QED BY <3>1, OrderlyStays
  <2>2. CASE d # c
    <3>1. chain'[d] = chain[d] /\ Orderly(chain[d])
      BY <2>2 DEF RoutingInv, TypeOK
    <3> QED BY <3>1, OrderlyStays
  <2> QED BY <2>1, <2>2
<1> QED BY <1>2, <1>3, <1>4 DEF RoutingInv

\* The request of chain c with other frames.
With(c, t) == [chain[c] EXCEPT !.frames = t]

LEMMA WithHolds ==
    ASSUME RoutingInv, NEW c \in Chain, NEW t \in Seq(Frames)
    PROVE  /\ With(c, t) \in Requests /\ With(c, t).frames = t /\ Alike(With(c, t), chain[c])
           /\ [chain EXCEPT ![c].frames = t] = [chain EXCEPT ![c] = With(c, t)]
<1>1. chain[c] \in Requests
  BY DEF RoutingInv, TypeOK
<1> QED BY <1>1 DEF With, Requests, Alike

\* What the top frame of a busy chain is.
LEMMA TopHolds ==
    ASSUME RoutingInv, NEW c \in Chain, ~Idle(c)
    PROVE  /\ chain[c] \in Requests /\ Orderly(chain[c])
           /\ chain[c].frames \in Seq(Frames) /\ Len(chain[c].frames) \in Nat \ {0}
           /\ Top(c) \in Frames /\ Established(chain[c], Top(c))
           /\ Top(c).at \in Shard /\ count[Top(c).at] # 0
<1>1. chain[c] \in Requests /\ Orderly(chain[c])
  BY DEF RoutingInv, TypeOK
<1>2. chain[c].frames \in Seq(Frames) /\ Len(chain[c].frames) \in Nat \ {0}
  BY <1>1 DEF Requests, Idle
<1>3. Top(c) \in Frames /\ Established(chain[c], Top(c))
  BY <1>1, <1>2 DEF Top, Orderly
<1>4. Top(c).at \in Shard /\ count[Top(c).at] # 0
  BY <1>3 DEF Frames, Established
<1> QED BY <1>1, <1>2, <1>3, <1>4

\* Frames of chain c up to position m, with a frame on top that goes on from
\* the one that was there.
LEMMA CutHolds ==
    ASSUME RoutingInv, NEW c \in Chain, ~Idle(c), UNCHANGED <<file, count, starts>>,
           NEW m \in 0 .. Len(chain[c].frames) - 1,
           NEW f \in Frames, Same(chain[c].frames[m + 1], f), Established(chain[c], f),
           f.step = "start" => f.role = "user",
           chain' = [chain EXCEPT ![c].frames = Append(SubSeq(chain[c].frames, 1, m), f)]
    PROVE  RoutingInv'
<1> DEFINE s == chain[c].frames
           t == Append(SubSeq(s, 1, m), f)
           q == With(c, t)
<1>1. chain[c] \in Requests /\ Orderly(chain[c]) /\ s \in Seq(Frames) /\ Len(s) \in Nat \ {0}
  BY TopHolds
<1>2. t \in Seq(Frames) /\ Len(t) = m + 1 /\ t[m + 1] = f /\ \A i \in 1 .. m : t[i] = s[i]
  <2>1. m \in 0 .. Len(s)
    BY <1>1
  <2> QED BY <1>1, <2>1, Topped
<1>3. chain' = [chain EXCEPT ![c].frames = t] /\ Same(s[m + 1], f) /\ m \in Nat /\ m < Len(s)
  BY <1>1
<1>4. q \in Requests /\ q.frames = t /\ Alike(q, chain[c]) /\ chain' = [chain EXCEPT ![c] = q]
  BY Zenon, <1>2, <1>3, WithHolds
<1>5. Orderly(q)
  BY Zenon, <1>1, <1>4, OrderlyTop
<1> HIDE DEF s, t, q
<1>6. /\ chain' \in [Chain -> Requests] /\ \A d \in Chain \ {c} : chain'[d] = chain[d]
      /\ chain'[c] = q
  BY Zenon, <1>4 DEF RoutingInv, TypeOK
<1>7. Shadows(c, Len(chain'[c].frames))
  <2> SUFFICES ASSUME NEW i \in 1 .. m + 1
               PROVE  i <= Len(s) /\ t[i].at = s[i].at /\ t[i].role = s[i].role
    BY Zenon, <1>2, <1>4, <1>6 DEF Shadows, s
  <2>1. CASE i = m + 1
    BY <1>1, <1>2, <1>3, <2>1 DEF Same
  <2>2. CASE i # m + 1
    <3>1. i \in 1 .. m
      BY <1>3, <2>2
    <3> QED BY <1>1, <1>2, <1>3, <3>1
  <2> QED BY <2>1, <2>2
<1>8. \A d \in Shard : Cardinality(Held(d))' <= Slots
  BY <1>6, <1>7, SlotsKept DEF RoutingInv
<1> QED BY Zenon, <1>4, <1>5, <1>8, ChainStep

LEMMA ContinueHolds ==
    ASSUME RoutingInv, NEW c \in Chain, ~Idle(c), NEW f, Continue(c, f),
           f \in Frames, Same(Top(c), f), Established(chain[c], f),
           f.step = "start" => f.role = "user"
    PROVE  RoutingInv'
<1> DEFINE m == Len(chain[c].frames) - 1
<1>1. Len(chain[c].frames) \in Nat \ {0}
  BY TopHolds
<1>2. m \in 0 .. Len(chain[c].frames) - 1 /\ m + 1 = Len(chain[c].frames)
  BY <1>1
<1>3. /\ chain' = [chain EXCEPT ![c].frames = Append(SubSeq(chain[c].frames, 1, m), f)]
      /\ UNCHANGED <<file, count, starts>>
  BY DEF Continue, Below
<1>4. Same(chain[c].frames[m + 1], f)
  BY <1>2 DEF Top
<1> QED BY Zenon, <1>2, <1>3, <1>4, CutHolds

LEMMA AnswerHolds ==
    ASSUME RoutingInv, NEW c \in Chain, ~Idle(c), NEW answer \in Answers, Answer(c, answer)
    PROVE  RoutingInv'
<1> DEFINE s == chain[c].frames
           k == Len(s) - 1
<1>1. chain[c] \in Requests /\ Orderly(chain[c]) /\ s \in Seq(Frames) /\ Len(s) \in Nat \ {0}
  BY TopHolds
<1>2. UNCHANGED <<file, count, starts>>
  BY DEF Answer
<1>3. CASE k = 0
  <2>1. chain' = [chain EXCEPT ![c] = NoRequest]
    BY <1>3 DEF Answer
  <2>2. NoRequest \in Requests /\ Orderly(NoRequest) /\ Len(NoRequest.frames) = 0
    BY DEF NoRequest, Requests, Orderly
  <2>3. /\ chain' \in [Chain -> Requests] /\ \A d \in Chain \ {c} : chain'[d] = chain[d]
        /\ chain'[c] = NoRequest
    BY <2>1, <2>2 DEF RoutingInv, TypeOK
  <2>4. Shadows(c, Len(chain'[c].frames))
    BY <2>2, <2>3 DEF Shadows
  <2>5. \A d \in Shard : Cardinality(Held(d))' <= Slots
    BY <2>3, <2>4, SlotsKept DEF RoutingInv
  <2> QED BY Zenon, <1>2, <2>1, <2>2, <2>5, ChainStep
<1>4. CASE k # 0
  <2> DEFINE f == Resumed(s[k], answer)
  <2>1. k \in Nat \ {0} /\ k \in 1 .. Len(s) - 1 /\ k \in 1 .. Len(s)
    <3>1. \A n \in Nat \ {0} : n - 1 # 0 =>
              n - 1 \in Nat \ {0} /\ n - 1 \in 1 .. n - 1 /\ n - 1 \in 1 .. n
      OBVIOUS
    <3> QED BY Zenon, <1>1, <1>4, <3>1
  <2>2. s[k] \in Frames /\ Established(chain[c], s[k]) /\ s[k].step \in {"wait", "asked"}
    <3>1. /\ \A i \in 1 .. Len(s) : s[i] \in Frames /\ Established(chain[c], s[i])
          /\ \A i \in 1 .. Len(s) - 1 : Called(chain[c], s[i], s[i + 1])
      BY <1>1 DEF Orderly
    <3> HIDE DEF s, k
    <3> QED BY <2>1, <3>1 DEF Called
  <2>3. Below(c)[k] = s[k] /\ SubSeq(Below(c), 1, k - 1) = SubSeq(s, 1, k - 1)
    <3>1. Below(c) = SubSeq(s, 1, k) /\ \A i \in 1 .. k : s[i] \in Frames
      BY <1>1, <2>1 DEF Below
    <3>2. \A i \in 1 .. k - 1 + 1 : SubSeq(s, 1, k)[i] = s[1 + i - 1]
      <4>1. 1 \in Int /\ k \in Int
        BY <2>1
      <4> QED BY <3>1, <4>1, SubSeqProperties
    <3>3. \A i \in 1 .. k : Below(c)[i] = s[i]
      BY <2>1, <3>1, <3>2
    <3>4. SubSeq(Below(c), 1, k - 1) = [i \in 1 .. k - 1 |-> Below(c)[i]]
      BY <2>1
    <3>5. SubSeq(s, 1, k - 1) = [i \in 1 .. k - 1 |-> s[i]]
      BY <2>1
    <3>6. \A i \in 1 .. k - 1 : Below(c)[i] = s[i]
      BY <2>1, <3>3
    <3> QED BY <2>1, <3>3, <3>4, <3>5, <3>6
  <2>4. chain' = [chain EXCEPT ![c].frames = Append(SubSeq(s, 1, k - 1), f)]
    BY Zenon, <1>4, <2>3 DEF Answer
  <2>5. /\ f \in Frames /\ Same(s[k], f) /\ Established(chain[c], f)
        /\ f.step = "start" => f.role = "user"
    BY <2>2, ResumedHolds DEF Same
  <2>6. k - 1 \in 0 .. Len(s) - 1 /\ k - 1 + 1 = k
    BY <1>1, <2>1
  <2> HIDE DEF f, k
  <2> QED BY Zenon, <1>2, <2>4, <2>5, <2>6, CutHolds
<1> QED BY <1>3, <1>4

LEMMA OpenHolds ==
    ASSUME RoutingInv, NEW c \in Chain, ~Idle(c), NEW f, NEW g, Open(c, f, g),
           f \in Frames, Same(Top(c), f), Established(chain[c], f),
           f.step \in {"wait", "asked"},
           g \in Frames, count[g.at] # 0 => Established(chain[c], g),
           Called(chain[c], f, g), Follows(f, g)
    PROVE  RoutingInv'
<1> DEFINE s == chain[c].frames
           k == Len(s)
           t == Append(Below(c), f)
           p == With(c, t)
           q == With(c, Append(t, g))
<1>1. CASE count[g.at] = 0 \/ (Secure(g) /\ Cardinality(Held(g.at)) >= Slots)
  <2>1. Answer(c, "failed") /\ "failed" \in Answers
    BY <1>1 DEF Open, Answers
  <2> QED BY <2>1, AnswerHolds
<1>2. CASE ~(count[g.at] = 0 \/ (Secure(g) /\ Cardinality(Held(g.at)) >= Slots))
  <2>1. chain' = [chain EXCEPT ![c].frames = Append(t, g)] /\ UNCHANGED <<file, count, starts>>
    BY <1>2 DEF Open
  <2>2. chain[c] \in Requests /\ Orderly(chain[c]) /\ s \in Seq(Frames) /\ k \in Nat \ {0}
    BY TopHolds
  <2>3. t = Append(SubSeq(s, 1, k - 1), f) /\ k - 1 \in 0 .. k - 1 /\ k - 1 + 1 = k
        /\ k - 1 \in 0 .. k
    BY <2>2 DEF Below
  <2>4. t \in Seq(Frames) /\ Len(t) = k /\ t[k] = f /\ \A i \in 1 .. k - 1 : t[i] = s[i]
    BY <2>2, <2>3, Topped
  <2>5. p \in Requests /\ p.frames = t /\ Alike(p, chain[c])
    BY Zenon, <2>4, WithHolds
  <2>6. Same(s[k - 1 + 1], f) /\ f.step # "start"
    BY <2>3 DEF Top
  <2>7. Orderly(p)
    <3>1. k - 1 \in 0 .. Len(s) - 1
      BY <2>3
    <3>2. p.frames = Append(SubSeq(s, 1, k - 1), f)
      BY Zenon, <2>3, <2>5
    <3> HIDE DEF t, p, k
    <3> QED BY Zenon, <2>2, <2>5, <2>6, <3>1, <3>2, OrderlyTop
  <2>8. Append(t, g) \in Seq(Frames) /\ Len(Append(t, g)) = k + 1 /\ Append(t, g)[k + 1] = g
        /\ \A i \in 1 .. k : Append(t, g)[i] = t[i]
    BY <2>4, AppendProperties
  <2>9. /\ q \in Requests /\ q.frames = Append(t, g) /\ Alike(q, chain[c])
        /\ chain' = [chain EXCEPT ![c] = q]
    BY Zenon, <2>1, <2>8, WithHolds
  <2>10. Orderly(q)
    <3>1. Established(p, g) /\ Called(p, p.frames[Len(p.frames)], g)
          /\ Follows(p.frames[Len(p.frames)], g) /\ p.frames # <<>>
      BY <1>2, <2>2, <2>4, <2>5, AlikeHolds
    <3>2. Alike(q, p) /\ q.frames = Append(p.frames, g)
      BY <2>5, <2>9 DEF Alike
    <3> HIDE DEF p, q
    <3> QED BY <2>5, <2>7, <3>1, <3>2, OrderlyPush
  <2> HIDE DEF s, k, t, p, q
  <2>11. /\ chain' \in [Chain -> Requests] /\ \A d \in Chain \ {c} : chain'[d] = chain[d]
         /\ chain'[c] = q
    BY <2>9 DEF RoutingInv, TypeOK
  <2>12. Shadows(c, k)
    <3> SUFFICES ASSUME NEW i \in 1 .. k
                 PROVE  /\ i <= Len(s) /\ Append(t, g)[i].at = s[i].at
                        /\ Append(t, g)[i].role = s[i].role
      BY ZenonT(30), <2>9, <2>11 DEF Shadows, s
    <3>1. CASE i = k
      <4>1. k <= Len(s)
        BY <2>2 DEF k
      <4>2. Append(t, g)[k] = f
        BY <2>2, <2>4, <2>8
      <4>3. Same(s[k], f)
        BY Zenon, <2>3, <2>6
      <4> QED BY <3>1, <4>1, <4>2, <4>3 DEF Same
    <3>2. CASE i # k
      <4>1. i \in 1 .. k - 1 /\ i <= Len(s)
        BY <2>2, <3>2 DEF k
      <4> QED BY <2>4, <2>8, <4>1
    <3> QED BY Zenon, <3>1, <3>2
  <2>13. k \in Nat /\ Len(chain'[c].frames) = k + 1 /\ g = chain'[c].frames[k + 1] /\ TypeOK
    BY <2>2, <2>8, <2>9, <2>11 DEF RoutingInv
  <2>14. Secure(g) => Cardinality(Held(g.at)) < Slots
    BY <1>2, HeldFinite, RoutingAssumption
  <2>15. \A d \in Shard : Cardinality(Held(d))' <= Slots
    BY <2>11, <2>12, <2>13, <2>14, SlotTaken
  <2> QED BY Zenon, <2>1, <2>9, <2>10, <2>15, ChainStep
<1> QED BY <1>1, <1>2

\* A connection breaks: one chain becomes two, and no connection is new.
LEMMA BreakHolds ==
    ASSUME RoutingInv, NEW c \in Chain, NEW d \in Chain, Break(c, d)
    PROVE  RoutingInv'
<1> DEFINE s == chain[c].frames
<1>1. /\ chain[c] \in Requests /\ Orderly(chain[c]) /\ s \in Seq(Frames) /\ Len(s) \in Nat
      /\ Len(s) <= 4 /\ UNCHANGED <<file, count, starts>> /\ Idle(d)
  BY FourFrames DEF RoutingInv, TypeOK, Requests, Break
<1>2. PICK i \in 1 .. Len(s) - 1 :
          chain' = [chain EXCEPT
             ![c].frames = Append(SubSeq(@, 1, i - 1), Resumed(@[i], "failed")),
             ![d] = [chain[c] EXCEPT !.frames = SubSeq(@, i + 1, Len(@))]]
  BY Zenon DEF Break
<1> DEFINE f == Resumed(s[i], "failed")
           t == Append(SubSeq(s, 1, i - 1), f)
           u == SubSeq(s, i + 1, Len(s))
           p == With(c, t)
           q == With(c, u)
<1>3. i \in Nat \ {0} /\ i < Len(s) /\ i \in 1 .. Len(s) /\ i - 1 \in 0 .. Len(s) - 1
      /\ i - 1 + 1 = i /\ i - 1 \in 0 .. Len(s)
  BY <1>1
<1>4. c # d
  BY <1>1, <1>3 DEF Idle
<1>5. s[i] \in Frames /\ Established(chain[c], s[i]) /\ s[i].step \in {"wait", "asked"}
  <2>1. /\ \A j \in 1 .. Len(s) : Established(chain[c], s[j])
        /\ \A j \in 1 .. Len(s) - 1 : Called(chain[c], s[j], s[j + 1])
    BY Zenon, <1>1 DEF Orderly
  <2> HIDE DEF s
  <2>2. \A j \in 1 .. Len(s) : s[j] \in Frames
    BY <1>1
  <2> QED BY <1>2, <1>3, <2>1, <2>2 DEF Called
<1>6. f \in Frames /\ Same(s[i], f) /\ Established(chain[c], f) /\ (f.step = "start" => f.role = "user")
  BY <1>5, ResumedHolds DEF Same, Answers
<1> HIDE DEF f
<1>7. t \in Seq(Frames) /\ Len(t) = i /\ t[i] = f /\ \A j \in 1 .. i - 1 : t[j] = s[j]
  BY <1>1, <1>3, <1>6, Topped
<1>8. u \in Seq(Frames)
  BY <1>1, <1>2, Rest
<1>9. /\ p \in Requests /\ p.frames = t /\ Alike(p, chain[c])
      /\ q \in Requests /\ q.frames = u /\ Alike(q, chain[c])
  BY Zenon, <1>7, <1>8, WithHolds
<1>10. Orderly(p)
  <2>1. Same(s[i - 1 + 1], f) /\ p.frames = Append(SubSeq(s, 1, i - 1), f)
    BY Zenon, <1>3, <1>6, <1>9
  <2> HIDE DEF t, p
  <2> QED BY ZenonT(30), <1>1, <1>3, <1>6, <1>9, <2>1, OrderlyTop
<1>11. Orderly(q) /\ Len(u) = Len(s) - i /\ \A j \in 1 .. Len(u) : u[j] = s[i + j]
  <2>1. q.frames = SubSeq(s, i + 1, Len(s))
    BY <1>9
  <2>2. chain[c] \in Requests /\ Orderly(chain[c]) /\ Alike(q, chain[c]) /\ q.frames = u
    BY <1>1, <1>9
  <2> HIDE DEF q
  <2>3. /\ Orderly(q) /\ Len(q.frames) = Len(chain[c].frames) - i
        /\ \A j \in 1 .. Len(q.frames) : q.frames[j] = chain[c].frames[i + j]
    BY ZenonT(30), <2>1, <2>2, OrderlyRest
  <2> QED BY Zenon, <2>2, <2>3
<1>12. chain' = [chain EXCEPT ![c] = p, ![d] = q]
  BY <1>2, <1>4 DEF With, f, RoutingInv, TypeOK, Requests
<1> HIDE DEF s, t, u, p, q
<1>13. /\ chain' \in [Chain -> Requests] /\ chain'[c] = p /\ chain'[d] = q
       /\ \A e \in Chain \ {c, d} : chain'[e] = chain[e]
  BY <1>4, <1>9, <1>12 DEF RoutingInv, TypeOK
<1>14. ASSUME NEW e \in Chain
       PROVE  Orderly(chain[e])'
  <2>1. Orderly(chain'[e])
    BY <1>10, <1>11, <1>13 DEF RoutingInv
  <2> QED BY <1>1, <2>1, OrderlyStays
<1>15. ASSUME NEW b \in Shard
       PROVE  Cardinality(Held(b)') <= Slots
  <2> DEFINE F == [h \in Held(b)' |-> IF h[1] = d THEN <<c, i + h[2]>> ELSE h]
  <2>1. ASSUME NEW h \in Held(b)'
        PROVE  /\ h \in Chain \X (1 .. 4) /\ h = <<h[1], h[2]>> /\ h[1] \in Chain /\ h[2] \in 1 .. 4
               /\ h[2] <= Len(chain'[h[1]].frames)
               /\ chain'[h[1]].frames[h[2]].at = b /\ Secure(chain'[h[1]].frames[h[2]])
    BY <2>1 DEF Held
  <2>2. ASSUME NEW h \in Held(b)', h[1] = d
        PROVE  <<c, i + h[2]>> \in Held(b)
    <3>1. h[2] \in 1 .. 4 /\ h[2] <= Len(u) /\ u[h[2]].at = b /\ Secure(u[h[2]])
      BY <1>9, <1>13, <2>1, <2>2
    <3>2. i + h[2] \in 1 .. 4 /\ i + h[2] <= Len(s) /\ u[h[2]] = s[i + h[2]]
      BY <1>1, <1>3, <1>11, <3>1
    <3> QED BY <3>1, <3>2 DEF Held, s
  <2>3. ASSUME NEW h \in Held(b)', h[1] # d
        PROVE  h \in Held(b) /\ (h[1] = c => h[2] <= i)
    <3>1. CASE h[1] = c
      <4>1. h[2] \in 1 .. 4 /\ h[2] <= i /\ t[h[2]].at = b /\ Secure(t[h[2]])
        BY <1>7, <1>9, <1>13, <2>1, <3>1
      <4>2. h[2] <= Len(s) /\ s[h[2]].at = b /\ Secure(s[h[2]])
        <5>1. CASE h[2] = i
          BY <1>3, <1>6, <1>7, <4>1, <5>1 DEF Same, Secure
        <5>2. CASE h[2] # i
          <6>1. h[2] \in 1 .. i - 1 /\ h[2] <= Len(s)
            BY <1>1, <1>3, <4>1, <5>2
          <6> QED BY <1>7, <4>1, <6>1
        <5> QED BY <5>1, <5>2
      <4> QED BY <2>1, <3>1, <4>1, <4>2 DEF Held, s
    <3>2. CASE h[1] # c
      <4>1. chain'[h[1]] = chain[h[1]]
        BY <1>13, <2>1, <2>3, <3>2
      <4> QED BY <2>1, <3>2, <4>1 DEF Held
    <3> QED BY <3>1, <3>2
  <2>4. F \in [Held(b)' -> Held(b)]
    BY <2>2, <2>3
  <2>5. ASSUME NEW g \in Held(b)', NEW h \in Held(b)', F[g] = F[h]
        PROVE  g = h
    <3>1. CASE g[1] = d /\ h[1] = d
      <4>1. i + g[2] = i + h[2]
        BY <2>5, <3>1
      <4>2. g[2] = h[2]
        BY <1>3, <2>1, <4>1
      <4> QED BY <2>1, <3>1, <4>2
    <3>2. CASE g[1] # d /\ h[1] # d
      BY <2>5, <3>2
    <3>3. CASE g[1] = d /\ h[1] # d
      <4>1. h = <<c, i + g[2]>>
        BY <2>5, <3>3
      <4>2. h[1] = c /\ h[2] = i + g[2] /\ g[2] \in 1 .. 4
        BY <2>1, <4>1
      <4> QED BY <1>3, <2>3, <3>3, <4>2
    <3>4. CASE g[1] # d /\ h[1] = d
      <4>1. g = <<c, i + h[2]>>
        BY <2>5, <3>4
      <4>2. g[1] = c /\ g[2] = i + h[2] /\ h[2] \in 1 .. 4
        BY <2>1, <4>1
      <4> QED BY <1>3, <2>3, <3>4, <4>2
    <3> QED BY <3>1, <3>2, <3>3, <3>4
  <2>6. F \in Injection(Held(b)', Held(b))
    BY Zenon, <2>4, <2>5 DEF Injection, IsInjective
  <2>7. Cardinality(Held(b)') <= Cardinality(Held(b)) /\ Cardinality(Held(b)) <= Slots
    BY <2>6, HeldFinite, FS_Injection DEF RoutingInv, TypeOK
  <2> QED BY <2>7, HeldFinite, RoutingAssumption
<1>16. TypeOK'
  BY <1>1, <1>13, <1>15 DEF RoutingInv, TypeOK
<1>17. Valids'
  BY <1>1 DEF RoutingInv, Valids
<1> QED BY <1>14, <1>16, <1>17 DEF RoutingInv

\* A client opens a chain.
LEMMA BeginHolds ==
    ASSUME RoutingInv, UNCHANGED <<file, count, starts>>, NEW c \in Chain, NEW q \in Requests,
           NEW g \in Frames, q.frames = <<g>>, Established(q, g),
           Secure(g) => Cardinality(Held(g.at)) < Slots,
           chain' = [chain EXCEPT ![c] = q]
    PROVE  RoutingInv'
<1>1. Len(q.frames) = 1 /\ q.frames[1] = g
  OBVIOUS
<1>2. Orderly(q)
  BY <1>1 DEF Orderly
<1>3. /\ chain' \in [Chain -> Requests] /\ \A d \in Chain \ {c} : chain'[d] = chain[d]
      /\ chain'[c] = q /\ TypeOK
  BY DEF RoutingInv, TypeOK
<1>4. Len(chain'[c].frames) = 0 + 1 /\ g = chain'[c].frames[0 + 1] /\ Shadows(c, 0)
  BY <1>1, <1>3 DEF Shadows
<1>5. \A d \in Shard : Cardinality(Held(d))' <= Slots
  <2>1. 0 \in Nat
    OBVIOUS
  <2> QED BY <1>3, <1>4, <2>1, SlotTaken
<1> QED BY ZenonT(30), <1>2, <1>5, ChainStep

LEMMA RequestHolds ==
    ASSUME RoutingInv, NEW c \in Chain, NEW s \in Shard, Request(c, s)
    PROVE  RoutingInv'
<1>1. PICK t \in Targets, u \in Name \cup {None}, w \in BOOLEAN, marked \in BOOLEAN :
          chain' = [chain EXCEPT ![c] =
                 [frames |-> <<Frame(s, "web", marked, "start")>>, target |-> t,
                  user |-> u, write |-> w]]
  BY ZenonT(30) DEF Request
<1>2. count[s] # 0 /\ UNCHANGED <<file, count, starts>>
  BY DEF Request
<1> DEFINE g == Frame(s, "web", marked, "start")
           q == [frames |-> <<g>>, target |-> t, user |-> u, write |-> w]
<1>3. g \in Frames /\ g.at = s /\ g.role = "web" /\ g.step = "start"
  BY DEF Frame, Frames
<1>4. t \in [kind : {"name"}, name : Name] \cup [kind : {"shard"}, shard : Shard]
              \cup [kind : {"local", "bad"}]
              \cup [kind : {"state"}, name : Name, owner : Shard]
  <2>1. \A r \in {x \in Shard : count[x] # 0}, n \in Name : Owner(r, n) \in Shard
    BY OwnerIsShard DEF RoutingInv
  <2> QED BY <2>1 DEF Targets, Named
<1> HIDE DEF g
<1>5. q \in Requests /\ q.frames = <<g>>
  BY <1>3, <1>4 DEF Requests
<1>6. Established(q, g) /\ ~Secure(g)
  BY <1>2, <1>3 DEF Established, Secure
<1>7. chain' = [chain EXCEPT ![c] = q]
  BY <1>1 DEF g
<1> HIDE DEF q
<1> QED BY Zenon, <1>2, <1>3, <1>5, <1>6, <1>7, BeginHolds

LEMMA ConnectHolds ==
    ASSUME RoutingInv, NEW c \in Chain, NEW s \in Shard, Connect(c, s)
    PROVE  RoutingInv'
<1>1. PICK n \in Name, u \in Name, w \in BOOLEAN :
          chain' = [chain EXCEPT ![c] =
                 [frames |-> <<Frame(s, "user", FALSE, "check")>>, target |-> Named(n),
                  user |-> u, write |-> w]]
  BY Zenon DEF Connect
<1>2. count[s] # 0 /\ Cardinality(Held(s)) < Slots /\ UNCHANGED <<file, count, starts>>
  BY DEF Connect
<1> DEFINE g == Frame(s, "user", FALSE, "check")
           q == [frames |-> <<g>>, target |-> Named(n), user |-> u, write |-> w]
<1>3. g \in Frames /\ g.at = s /\ g.role = "user" /\ g.step = "check" /\ g.phase = 0
  BY DEF Frame, Frames
<1> HIDE DEF g
<1>4. q \in Requests /\ q.frames = <<g>> /\ q.target.kind = "name"
  BY <1>3 DEF Requests, Named
<1>5. chain' = [chain EXCEPT ![c] = q]
  BY <1>1 DEF g
<1> HIDE DEF q
<1>6. Established(q, g)
  BY <1>2, <1>3, <1>4 DEF Established, Secure
<1>7. Secure(g) => Cardinality(Held(g.at)) < Slots
  BY <1>2, <1>3
<1> QED BY Zenon, <1>2, <1>3, <1>4, <1>5, <1>6, <1>7, BeginHolds

\* A frame that waits for another.
LEMMA WaitsHolds ==
    ASSUME NEW r, NEW f \in Frames, Established(r, f)
    PROVE  LET g == [f EXCEPT !.step = "wait"]
           IN  g \in Frames /\ Same(f, g) /\ Established(r, g) /\ g.step = "wait"
BY DEF Frames, Same, Established, Secure

LEMMA AsksHolds ==
    ASSUME NEW r, NEW f \in Frames, Established(r, f), f.step = "check"
    PROVE  LET g == [f EXCEPT !.step = "asked"]
           IN  g \in Frames /\ Same(f, g) /\ Established(r, g) /\ g.step = "asked"
BY DEF Frames, Same, Established, Secure

\* The proxy serves only what resolves to its own instance, and forwards only
\* what was not forwarded yet.
LEMMA RouteHolds ==
    ASSUME RoutingInv, NEW c \in Chain, NEW role \in {"web", "check"}, NEW target, NEW next,
           Route(c, role, target, next), target = Sought(chain[c], Top(c)),
           Resolve(Top(c).at, target) # NoShard => Resolve(Top(c).at, target) \in Shard,
           Resolve(Top(c).at, target) = Top(c).at =>
               /\ next \in Frames /\ Same(Top(c), next) /\ Established(chain[c], next)
               /\ next.step # "start"
    PROVE  RoutingInv'
<1> DEFINE f == Top(c)
           owner == Resolve(f.at, target)
           h == [f EXCEPT !.step = "wait"]
           g == Frame(owner, f.role, TRUE, "start")
<1>1. ~Idle(c) /\ f.role = role /\ f.step = "start"
  BY DEF Route, Running
<1>2. f \in Frames /\ Established(chain[c], f) /\ f.at \in Shard
  BY <1>1, TopHolds
<1>3. \/ Answer(c, "refused") \/ Answer(c, "mismatch")
      \/ owner = f.at /\ Continue(c, next)
      \/ owner # NoShard /\ owner # f.at /\ ~f.marked /\ Forward(c, f, owner)
  BY DEF Route
<1>4. CASE Answer(c, "refused") \/ Answer(c, "mismatch")
  BY <1>1, <1>4, AnswerHolds DEF Answers
<1>5. CASE owner = f.at /\ Continue(c, next)
  BY <1>1, <1>5, ContinueHolds
<1>6. CASE owner # NoShard /\ owner # f.at /\ ~f.marked /\ Forward(c, f, owner)
  <2>1. Open(c, h, g) /\ owner \in Shard /\ ~f.marked
    BY ZenonT(30), <1>6 DEF Forward, Destination
  <2>2. h \in Frames /\ Same(f, h) /\ Established(chain[c], h) /\ h.step = "wait"
    BY <1>2, WaitsHolds
  <2>3. g \in Frames /\ g.at = owner /\ g.role = role /\ g.marked /\ g.step = "start"
    BY <1>1, <2>1 DEF Frame, Frames
  <2> HIDE DEF h, g
  <2>4. h.at = f.at /\ h.role = role /\ ~h.marked
    BY <1>1, <2>1, <2>2 DEF Same
  <2>5. Established(chain[c], g) \/ count[g.at] = 0
    BY ZenonT(30), <1>1, <1>2, <2>3 DEF Established, Secure
  <2>6. Follows(h, g)
    BY ZenonT(30), <2>2, <2>3, <2>4 DEF Follows, Secure
  <2>7. Called(chain[c], h, g)
    <3>1. Sought(chain[c], g) = target
      BY <1>1, <2>3 DEF Sought
    <3> QED BY <2>2, <2>3, <2>4, <3>1 DEF Called
  <2> QED BY ZenonT(30), <1>1, <2>1, <2>2, <2>3, <2>5, <2>6, <2>7, OpenHolds
<1> QED BY <1>3, <1>4, <1>5, <1>6

LEMMA RouteWebHolds ==
    ASSUME RoutingInv, NEW c \in Chain, RouteWeb(c)
    PROVE  RoutingInv'
<1> DEFINE f == Top(c)
           r == chain[c]
           next == [f EXCEPT !.phase = 1, !.step = "check"]
<1>1. ~Idle(c) /\ f.role = "web" /\ f.step = "start" /\ Route(c, "web", r.target, next)
  BY DEF RouteWeb, Route, Running
<1>2. f \in Frames /\ Established(r, f) /\ r \in Requests /\ f.at \in Shard /\ count[f.at] # 0
  BY <1>1, TopHolds
<1>3. r.target = Sought(r, f)
  BY <1>1 DEF Sought
<1>4. Resolve(f.at, r.target) # NoShard => Resolve(f.at, r.target) \in Shard
  BY <1>2, ResolvesToShard DEF RoutingInv
<1>5. ASSUME Resolve(f.at, r.target) = f.at
      PROVE  next \in Frames /\ Same(f, next) /\ Established(r, next) /\ next.step # "start"
  <2>1. next \in Frames /\ Same(f, next) /\ next.step = "check" /\ next.phase = 1
    <3> DEFINE h == [f EXCEPT !.phase = 1]
    <3>1. h \in Frames /\ Same(f, h) /\ h.phase = 1
      BY <1>2 DEF Frames, Same
    <3>2. next = [h EXCEPT !.step = "check"]
      BY <1>2 DEF Frames
    <3> HIDE DEF h, next
    <3> QED BY <3>1, <3>2 DEF Frames, Same
  <2> HIDE DEF next
  <2>2. r.target.kind = "name" => Owner(f.at, r.target.name) = f.at
    BY <1>5, ResolveName
  <2>3. next.at = f.at /\ next.role = "web" /\ count[f.at] # 0
    BY <1>1, <1>2, <2>1 DEF Same
  <2>4. Established(r, next)
    BY <2>1, <2>2, <2>3 DEF Established, Secure
  <2> QED BY <2>1, <2>4
<1> HIDE DEF next
<1> QED BY ZenonT(30), <1>1, <1>3, <1>4, <1>5, RouteHolds

LEMMA RouteCheckHolds ==
    ASSUME RoutingInv, NEW c \in Chain, RouteCheck(c)
    PROVE  RoutingInv'
<1> DEFINE f == Top(c)
           r == chain[c]
           next == [f EXCEPT !.step = "verify"]
<1>1. ~Idle(c) /\ f.role = "check" /\ f.step = "start" /\ Route(c, "check", Named(r.user), next)
  BY DEF RouteCheck, Route, Running
<1>2. f \in Frames /\ Established(r, f) /\ f.at \in Shard /\ count[f.at] # 0
  BY <1>1, TopHolds
<1>3. Named(r.user) = Sought(r, f)
  BY <1>1 DEF Sought
<1>4. Resolve(f.at, Named(r.user)) = Owner(f.at, r.user) /\ r.user \in Name
  BY <1>1, <1>2, ResolveName DEF Named, Established
<1>5. Resolve(f.at, Named(r.user)) \in Shard
  BY <1>2, <1>4, OwnerIsShard DEF RoutingInv
<1>6. ASSUME Resolve(f.at, Named(r.user)) = f.at
      PROVE  next \in Frames /\ Same(f, next) /\ Established(r, next) /\ next.step # "start"
  <2>1. next \in Frames /\ Same(f, next) /\ next.step = "verify"
    BY <1>2 DEF Frames, Same
  <2> HIDE DEF next
  <2> QED BY Zenon, <1>1, <1>2, <1>4, <1>6, <2>1 DEF Established, Same, Secure
<1> HIDE DEF next
<1> QED BY <1>1, <1>3, <1>5, <1>6, RouteHolds

\* The authority of a user is asked by who serves the user.
LEMMA AskHolds ==
    ASSUME RoutingInv, NEW c \in Chain, ~Idle(c), Top(c).step = "check",
           chain[c].user \in Name, NEW role \in {"check", "key"},
           Secure(Top(c)) <=> role = "key",
           Open(c, [Top(c) EXCEPT !.step = "asked"],
                Frame(Owner(Top(c).at, chain[c].user), role, FALSE, "start"))
    PROVE  RoutingInv'
<1> DEFINE f == Top(c)
           r == chain[c]
           h == [f EXCEPT !.step = "asked"]
           g == Frame(Owner(f.at, r.user), role, FALSE, "start")
<1>1. f \in Frames /\ Established(r, f) /\ f.at \in Shard /\ count[f.at] # 0
  BY TopHolds
<1>2. h \in Frames /\ Same(f, h) /\ Established(r, h) /\ h.step = "asked"
  BY <1>1, AsksHolds
<1>3. Owner(f.at, r.user) \in Shard
  BY <1>1, OwnerIsShard DEF RoutingInv
<1>4. g \in Frames /\ g.at = Owner(f.at, r.user) /\ g.role = role /\ g.step = "start"
  BY <1>3 DEF Frame, Frames
<1>5. Open(c, h, g) /\ f.role \in {"web", "user", "git"}
  BY Zenon, <1>1 DEF Established
<1> HIDE DEF h, g
<1>6. Established(r, g) \/ count[g.at] = 0
  BY <1>1, <1>4 DEF Established, Secure
<1>7. Follows(h, g)
  <2>1. h.role = f.role /\ (Secure(h) <=> Secure(g))
    BY <1>2, <1>4 DEF Same, Secure
  <2> QED BY <1>4, <1>5, <2>1 DEF Follows, Rank
<1>8. Called(r, h, g)
  <2>1. Sought(r, g) = Named(r.user) /\ h.at = f.at
    BY <1>2, <1>4 DEF Sought, Same
  <2>2. Resolve(f.at, Named(r.user)) = Owner(f.at, r.user)
    BY ResolveName DEF Named
  <2> QED BY <1>2, <1>4, <2>1, <2>2 DEF Called
<1> QED BY <1>2, <1>4, <1>5, <1>6, <1>7, <1>8, OpenHolds

LEMMA CheckHolds ==
    ASSUME RoutingInv, NEW c \in Chain, Check(c)
    PROVE  RoutingInv'
<1> DEFINE f == Top(c)
           u == chain[c].user
<1>1. ~Idle(c) /\ f.step = "check"
  BY DEF Check
<1>2. f \in Frames /\ Established(chain[c], f) /\ chain[c] \in Requests
  BY <1>1, TopHolds
<1>3. CASE u = None \/ Owner(f.at, u) = f.at
  <2>1. Continue(c, Admitted(f)) \/ Answer(c, "refused")
    BY <1>3 DEF Check
  <2>2. /\ Admitted(f) \in Frames /\ Same(f, Admitted(f)) /\ Established(chain[c], Admitted(f))
        /\ Admitted(f).step = "start" => Admitted(f).role = "user"
    BY <1>1, <1>2, AdmittedHolds DEF Same
  <2>3. CASE Continue(c, Admitted(f))
    BY <1>1, <2>2, <2>3, ContinueHolds
  <2>4. CASE Answer(c, "refused")
    BY <1>1, <2>4, AnswerHolds DEF Answers
  <2> QED BY <2>1, <2>3, <2>4
<1>4. CASE ~(u = None \/ Owner(f.at, u) = f.at)
  <2>1. u \in Name
    BY <1>2, <1>4 DEF Requests
  <2>2. AskHTTP(c, f, Owner(f.at, u)) \/ AskSSH(c, f, Owner(f.at, u))
    BY <1>4 DEF Check
  <2>3. CASE AskHTTP(c, f, Owner(f.at, u))
    BY Zenon, <1>1, <2>1, <2>3, AskHolds DEF AskHTTP, Destination
  <2>4. CASE AskSSH(c, f, Owner(f.at, u))
    BY Zenon, <1>1, <2>1, <2>4, AskHolds DEF AskSSH, Destination
  <2> QED BY <2>2, <2>3, <2>4
<1> QED BY <1>3, <1>4

LEMMA ServeHolds ==
    ASSUME RoutingInv, NEW c \in Chain, Serve(c)
    PROVE  RoutingInv'
<1> DEFINE f == Top(c)
           r == chain[c]
           next == [f EXCEPT !.step = "check", !.phase = 2]
<1>1. ~Idle(c) /\ f.step = "serve" /\ (Continue(c, next) \/ Answer(c, "ok"))
  BY DEF Serve
<1>2. f \in Frames /\ Established(r, f)
  BY <1>1, TopHolds
<1>3. CASE Answer(c, "ok")
  BY <1>1, <1>3, AnswerHolds DEF Answers
<1>4. CASE Continue(c, next)
  <2>1. next \in Frames /\ Same(f, next) /\ next.step = "check" /\ next.phase = 2
    <3> DEFINE h == [f EXCEPT !.step = "check"]
    <3>1. h \in Frames /\ Same(f, h) /\ h.step = "check"
      BY <1>2 DEF Frames, Same
    <3>2. next = [h EXCEPT !.phase = 2]
      BY <1>2 DEF Frames
    <3> HIDE DEF h, next
    <3> QED BY <3>1, <3>2 DEF Frames, Same
  <2> HIDE DEF next
  <2>2. /\ f.phase # 0 /\ f.role \in {"web", "user", "git"}
        /\ r.target.kind = "name" => Owner(f.at, r.target.name) = f.at
    BY <1>1, <1>2 DEF Established
  <2>3. Established(r, next)
    BY <1>2, <2>1, <2>2 DEF Established, Same, Secure
  <2> QED BY <1>1, <1>4, <2>1, <2>3, ContinueHolds
<1> QED BY <1>1, <1>3, <1>4

\* Steps that only answer.
LEMMA EndHolds ==
    ASSUME RoutingInv, NEW c \in Chain,
           VerifyHere(c) \/ Publish(c) \/ PassOn(c) \/ Fail(c)
    PROVE  RoutingInv'
<1>1. ~Idle(c) /\ \E answer \in Answers : Answer(c, answer)
  <2>1. CASE VerifyHere(c)
    BY <2>1 DEF VerifyHere, Running, Answers
  <2>2. CASE Publish(c)
    BY <2>2 DEF Publish, Answers
  <2>3. CASE PassOn(c)
    BY <2>3 DEF PassOn
  <2>4. CASE Fail(c)
    BY <2>4 DEF Fail, Answers
  <2> QED BY <2>1, <2>2, <2>3, <2>4
<1> QED BY <1>1, AnswerHolds

LEMMA ExecuteUserHolds ==
    ASSUME RoutingInv, NEW c \in Chain, ExecuteUser(c)
    PROVE  RoutingInv'
<1> DEFINE f == Top(c)
           r == chain[c]
           owner == Owner(f.at, r.target.name)
           next == [f EXCEPT !.step = "check"]
           h == [f EXCEPT !.step = "wait"]
           g == Frame(owner, "git", FALSE, "start")
<1>1. ~Idle(c) /\ f.role = "user" /\ f.step = "start"
  BY DEF ExecuteUser, Running
<1>2. /\ f \in Frames /\ Established(r, f) /\ r \in Requests
      /\ f.at \in Shard /\ count[f.at] # 0
  BY <1>1, TopHolds
<1>3. r.target.kind = "name" /\ r.target.name \in Name
  <2>1. r.target.kind = "name"
    BY <1>1, <1>2 DEF Established, Secure
  <2> QED BY <1>2, <2>1 DEF Requests
<1>4. CASE owner = f.at
  <2>1. Continue(c, next)
    BY <1>4 DEF ExecuteUser
  <2>2. next \in Frames /\ Same(f, next) /\ next.step = "check"
    BY <1>2 DEF Frames, Same
  <2> HIDE DEF next
  <2>3. Established(r, next)
    BY <1>1, <1>2, <1>3, <1>4, <2>2 DEF Established, Same, Secure
  <2> QED BY <1>1, <2>1, <2>2, <2>3, ContinueHolds
<1>5. CASE owner # f.at
  <2>1. Open(c, h, g)
    BY Zenon, <1>5 DEF ExecuteUser, Destination
  <2>2. h \in Frames /\ Same(f, h) /\ Established(r, h) /\ h.step = "wait"
    BY <1>2, WaitsHolds
  <2>3. g \in Frames /\ g.at = owner /\ g.role = "git" /\ g.step = "start"
    BY <1>2, <1>3, OwnerIsShard DEF Frame, Frames, RoutingInv
  <2> HIDE DEF h, g
  <2>4. h.role = "user" /\ h.at = f.at
    BY <1>1, <2>2 DEF Same
  <2>5. Established(r, g) \/ count[g.at] = 0
    BY <1>3, <2>3 DEF Established, Secure
  <2>6. Follows(h, g)
    BY <2>3, <2>4 DEF Follows, Secure, Rank
  <2>7. Called(r, h, g)
    <3>1. Sought(r, g) = r.target /\ Resolve(f.at, r.target) = owner
      BY <1>3, <2>3, ResolveName DEF Sought
    <3> QED BY <2>2, <2>3, <2>4, <3>1 DEF Called
  <2> QED BY <1>1, <2>1, <2>2, <2>3, <2>5, <2>6, <2>7, OpenHolds
<1> QED BY <1>4, <1>5

LEMMA ExecuteGitHolds ==
    ASSUME RoutingInv, NEW c \in Chain, ExecuteGit(c)
    PROVE  RoutingInv'
<1> DEFINE f == Top(c)
           r == chain[c]
           next == [f EXCEPT !.step = "check", !.phase = 1]
<1>1. ~Idle(c) /\ f.role = "git" /\ f.step = "start"
  BY DEF ExecuteGit, Running
<1>2. f \in Frames /\ Established(r, f)
  BY <1>1, TopHolds
<1>3. CASE Owner(f.at, r.target.name) = f.at
  <2>1. Continue(c, next)
    BY <1>3 DEF ExecuteGit
  <2>2. next \in Frames /\ Same(f, next) /\ next.step = "check" /\ next.phase = 1
    <3> DEFINE h == [f EXCEPT !.step = "check"]
    <3>1. h \in Frames /\ Same(f, h) /\ h.step = "check"
      BY <1>2 DEF Frames, Same
    <3>2. next = [h EXCEPT !.phase = 1]
      BY <1>2 DEF Frames
    <3> HIDE DEF h, next
    <3> QED BY <3>1, <3>2 DEF Frames, Same
  <2> HIDE DEF next
  <2>3. Established(r, next)
    BY <1>1, <1>2, <1>3, <2>2 DEF Established, Same, Secure
  <2> QED BY <1>1, <2>1, <2>2, <2>3, ContinueHolds
<1>4. CASE Owner(f.at, r.target.name) # f.at
  <2>1. Answer(c, "mismatch")
    BY <1>4 DEF ExecuteGit
  <2> QED BY <1>1, <2>1, AnswerHolds DEF Answers
<1> QED BY <1>3, <1>4

LEMMA ExecuteKeyHolds ==
    ASSUME RoutingInv, NEW c \in Chain, ExecuteKey(c)
    PROVE  RoutingInv'
<1> DEFINE f == Top(c)
           r == chain[c]
           next == [f EXCEPT !.step = "verify"]
<1>1. ~Idle(c) /\ f.role = "key" /\ f.step = "start"
  BY DEF ExecuteKey, Running
<1>2. f \in Frames /\ Established(r, f)
  BY <1>1, TopHolds
<1>3. CASE Owner(f.at, r.user) = f.at
  <2>1. Continue(c, next)
    BY <1>3 DEF ExecuteKey
  <2>2. next \in Frames /\ Same(f, next) /\ next.step = "verify"
    BY <1>2 DEF Frames, Same
  <2> HIDE DEF next
  <2>3. Established(r, next)
    BY <1>1, <1>2, <1>3, <2>2 DEF Established, Same, Secure
  <2> QED BY <1>1, <2>1, <2>2, <2>3, ContinueHolds
<1>4. CASE Owner(f.at, r.user) # f.at
  <2>1. Answer(c, "mismatch")
    BY <1>4 DEF ExecuteKey
  <2> QED BY <1>1, <2>1, AnswerHolds DEF Answers
<1> QED BY <1>3, <1>4

-----------------------------------------------------------------------------
(* The life of an instance. *)

\* An instance without frames may start and stop unnoticed.
LEMMA LifeHolds ==
    ASSUME RoutingInv, chain' = chain, NEW s,
           \A r \in Shard \ {s} : count'[r] = count[r],
           \A c \in Chain : \A i \in 1 .. Len(chain[c].frames) : chain[c].frames[i].at # s
    PROVE  \A c \in Chain : Orderly(chain[c])'
<1> SUFFICES ASSUME NEW c \in Chain PROVE Orderly(chain[c])'
  OBVIOUS
<1> DEFINE r == chain[c]
           t == r.frames
<1>1. r \in Requests /\ Orderly(r) /\ t \in Seq(Frames) /\ Len(t) \in Nat
  BY DEF RoutingInv, TypeOK, Requests
<1>2. \A i \in 1 .. Len(t) : t[i] \in Frames /\ t[i].at \in Shard \ {s}
  <2>1. \A i \in 1 .. Len(t) : t[i] \in Frames
    BY <1>1
  <2>2. \A f \in Frames : f.at \in Shard
    BY DEF Frames
  <2> QED BY Zenon, <2>1, <2>2
<1>3. /\ \A i \in 1 .. Len(t) : Established(r, t[i])
      /\ \A i \in 1 .. Len(t) - 1 : Called(r, t[i], t[i + 1])
      /\ \A i, j \in 1 .. Len(t) : i < j => Follows(t[i], t[j])
  BY <1>1 DEF Orderly
<1>4. chain'[c].frames = t /\ chain'[c] = r
  OBVIOUS
<1>5. ASSUME NEW i \in 1 .. Len(t)
      PROVE  Established(chain[c], chain[c].frames[i])'
  <2>1. count'[t[i].at] = count[t[i].at] /\ Established(r, t[i])
    BY <1>2, <1>3
  <2> QED BY ZenonT(30), <2>1, <1>4 DEF Established, Owner
<1>6. ASSUME NEW i \in 1 .. Len(t) - 1
      PROVE  Called(chain[c], chain[c].frames[i], chain[c].frames[i + 1])'
  <2>1. i \in 1 .. Len(t)
    BY <1>1
  <2>2. count'[t[i].at] = count[t[i].at] /\ Called(r, t[i], t[i + 1])
    BY <1>2, <1>3, <2>1
  <2> QED BY Zenon, <2>2, <1>4 DEF Called, Resolve, ResolveAPI, Owner
<1> QED BY <1>3, <1>4, <1>5, <1>6 DEF Orderly

LEMMA StartHolds ==
    ASSUME RoutingInv, NEW s \in Shard, Start(s)
    PROVE  RoutingInv'
<1>1. PICK n \in Counts : Valid(s, n) /\ count' = [count EXCEPT ![s] = n]
  BY Zenon DEF Start
<1>2. /\ UNCHANGED <<file, chain>> /\ starts' = starts + 1 /\ count[s] = 0
      /\ starts < MaxRestarts + Cardinality(Shard)
  BY DEF Start
<1>3. TypeOK'
  <2>1. \A r \in Shard : Held(r)' = Held(r)
    BY <1>2 DEF Held
  <2>2. starts' \in 0 .. MaxRestarts + Cardinality(Shard)
    BY <1>2, Numbers, RoutingAssumption DEF RoutingInv, TypeOK
  <2> QED BY <1>1, <1>2, <2>1, <2>2 DEF RoutingInv, TypeOK
<1>4. Valids'
  BY <1>1, <1>2 DEF RoutingInv, TypeOK, Valids, Valid
<1>5. \A c \in Chain : \A i \in 1 .. Len(chain[c].frames) : chain[c].frames[i].at # s
  BY <1>2 DEF RoutingInv, Orderly, Established
<1>6. \A r \in Shard \ {s} : count'[r] = count[r]
  BY <1>1 DEF RoutingInv, TypeOK
<1>7. \A c \in Chain : Orderly(chain[c])'
  BY Zenon, <1>2, <1>5, <1>6, LifeHolds
<1> QED BY <1>3, <1>4, <1>7 DEF RoutingInv

LEMMA StopHolds ==
    ASSUME RoutingInv, NEW s \in Shard, Stop(s)
    PROVE  RoutingInv'
<1>1. UNCHANGED <<file, starts, chain>> /\ count' = [count EXCEPT ![s] = 0]
  BY DEF Stop
<1>2. \A c \in Chain : \A i \in 1 .. Len(chain[c].frames) : chain[c].frames[i].at # s
  BY DEF Stop
<1>3. TypeOK'
  <2>1. \A r \in Shard : Held(r)' = Held(r)
    BY <1>1 DEF Held
  <2> QED BY <1>1, <2>1 DEF RoutingInv, TypeOK
<1>4. Valids'
  BY <1>1 DEF RoutingInv, TypeOK, Valids
<1>5. \A r \in Shard \ {s} : count'[r] = count[r]
  BY <1>1 DEF RoutingInv, TypeOK
<1>6. \A c \in Chain : Orderly(chain[c])'
  BY Zenon, <1>1, <1>2, <1>5, LifeHolds
<1> QED BY <1>3, <1>4, <1>6 DEF RoutingInv

LEMMA MountHolds ==
    ASSUME RoutingInv, NEW s \in Shard, Mount(s)
    PROVE  RoutingInv'
<1>1. UNCHANGED <<count, starts, chain>> /\ count[s] = 0
  BY DEF Mount
<1>2. PICK n \in Files : file' = [file EXCEPT ![s] = n]
  BY Zenon DEF Mount
<1>3. TypeOK'
  <2>1. \A r \in Shard : Held(r)' = Held(r)
    BY <1>1 DEF Held
  <2> QED BY <1>1, <1>2, <2>1 DEF RoutingInv, TypeOK
<1>4. Valids'
  BY <1>1, <1>2 DEF RoutingInv, TypeOK, Valids
<1>5. ASSUME NEW c \in Chain
      PROVE  Orderly(chain[c])'
  BY <1>1, OrderlyStays DEF RoutingInv
<1> QED BY <1>3, <1>4, <1>5 DEF RoutingInv

-----------------------------------------------------------------------------
(* The invariant. *)

LEMMA InitHolds ==
    ASSUME Init
    PROVE  RoutingInv
<1>1. NoRequest \in Requests /\ Orderly(NoRequest) /\ Len(NoRequest.frames) = 0
  BY DEF NoRequest, Requests, Orderly
<1>2. chain \in [Chain -> Requests] /\ \A c \in Chain : chain[c] = NoRequest
  BY <1>1 DEF Init
<1>3. ASSUME NEW s \in Shard
      PROVE  Cardinality(Held(s)) <= Slots
  <2>1. ASSUME NEW h \in Held(s) PROVE FALSE
    BY <1>1, <1>2, <2>1 DEF Held
  <2>2. Held(s) = {}
    BY <2>1
  <2> QED BY <2>2, FS_EmptySet, RoutingAssumption
<1>4. TypeOK
  <2>1. 0 \in 0 .. MaxRestarts + Cardinality(Shard)
    BY Numbers, RoutingAssumption
  <2> QED BY <1>2, <1>3, <2>1 DEF Init, TypeOK
<1>5. Valids
  BY DEF Init, Valids
<1> QED BY <1>1, <1>2, <1>4, <1>5 DEF RoutingInv

LEMMA NextHolds ==
    ASSUME RoutingInv, [Next]_vars
    PROVE  RoutingInv'
<1>1. CASE \E c \in Chain, s \in Shard : Request(c, s) \/ Connect(c, s)
  BY <1>1, RequestHolds, ConnectHolds
<1>2. CASE \E c \in Chain : Step(c) \/ Fail(c)
  BY <1>2, RouteWebHolds, RouteCheckHolds, EndHolds, CheckHolds, ServeHolds,
     ExecuteUserHolds, ExecuteGitHolds, ExecuteKeyHolds DEF Step
<1>3. CASE \E c, d \in Chain : Break(c, d)
  BY <1>3, BreakHolds
<1>4. CASE \E s \in Shard : Start(s) \/ Stop(s) \/ Mount(s)
  BY <1>4, StartHolds, StopHolds, MountHolds
<1>5. CASE UNCHANGED vars
  <2>1. UNCHANGED <<file, count, starts, chain>>
    BY <1>5 DEF vars
  <2>2. TypeOK'
    <3>1. \A r \in Shard : Held(r)' = Held(r)
      BY <2>1 DEF Held
    <3> QED BY <2>1, <3>1 DEF RoutingInv, TypeOK
  <2>3. Valids'
    BY <2>1 DEF RoutingInv, Valids
  <2>4. ASSUME NEW c \in Chain
        PROVE  Orderly(chain[c])'
    BY <2>1, OrderlyStays DEF RoutingInv
  <2> QED BY <2>2, <2>3, <2>4 DEF RoutingInv
<1> QED BY <1>1, <1>2, <1>3, <1>4, <1>5 DEF Next

\* At every moment the frames of every request are orderly, whatever breaks,
\* restarts and disagrees: the inductive invariant (Route, Open, Break, Start).
THEOREM RoutingInvariant == Spec => []RoutingInv
<1>1. Init => RoutingInv
  BY InitHolds
<1>2. RoutingInv /\ [Next]_vars => RoutingInv'
  BY NextHolds
<1> QED BY <1>1, <1>2, PTL DEF Spec

LEMMA OnceFollows ==
    ASSUME RoutingInv
    PROVE  RoutedOnce
<1>1. ShortChains
  <2> SUFFICES ASSUME NEW c \in Chain, NEW i \in 1 .. Len(chain[c].frames),
                      NEW j \in 1 .. Len(chain[c].frames), i < j,
                      chain[c].frames[i].role = chain[c].frames[j].role
               PROVE  /\ chain[c].frames[i].role \in {"web", "check"}
                      /\ chain[c].frames[i].step = "wait"
                      /\ ~chain[c].frames[i].marked /\ chain[c].frames[j].marked
    BY DEF ShortChains
  <2> DEFINE f == chain[c].frames[i]
             g == chain[c].frames[j]
  <2>1. f \in Frames /\ f.role = g.role
    BY DEF RoutingInv, TypeOK, Requests
  <2>2. Follows(f, g)
    BY DEF RoutingInv, Orderly
  <2> HIDE DEF f, g
  <2>3. Rank(f) = Rank(g) /\ Rank(f) \in 0 .. 2
    BY <2>1 DEF Rank, Frames
  <2>4. f.role \in {"web", "check"} /\ f.step = "wait" /\ ~f.marked /\ g.marked
    BY <2>2, <2>3 DEF Follows
  <2> QED BY <2>4 DEF f, g
<1>2. ServedByOwner
  BY Zenon DEF RoutingInv, Orderly, Established, ServedByOwner
<1> QED BY <1>1, <1>2 DEF RoutingInv, RoutedOnce

\* A request is proxied at most once, and so is the question it asks; whoever
\* serves or vouches holds itself to be the owner; an SSH server never holds
\* more connections than it has slots.
THEOREM RoutesOnce == Spec => []RoutedOnce
<1>1. RoutingInv => RoutedOnce
  BY OnceFollows
<1> QED BY <1>1, RoutingInvariant, PTL

\* No request, and no part that a broken connection left of it, ever holds
\* more than four handlers: a proxy and the owner of the namespace, a proxy and
\* the owner of the user (Route, AskHTTP).
THEOREM FourHandlers == Spec => [](\A c \in Chain : Len(chain[c].frames) <= 4)
<1>1. RoutingInv => \A c \in Chain : Len(chain[c].frames) <= 4
  BY FourFrames DEF RoutingInv, TypeOK
<1> QED BY <1>1, RoutingInvariant, PTL

LEMMA AuthorityFollows ==
    ASSUME RoutingInv
    PROVE  OneAuthority
<1> SUFFICES ASSUME \A r, s \in Shard : file[r] = file[s]
             PROVE  OneOwner /\ NeverMisrouted
  BY DEF OneAuthority
<1>1. ASSUME NEW r \in Shard, NEW s \in Shard, count[r] # 0, count[s] # 0
      PROVE  count[r] = count[s]
  BY <1>1 DEF RoutingInv, Valids
<1>2. ASSUME NEW c \in Chain, NEW n \in Name, NEW r \in Shard, Working(c, n, r)
      PROVE  count[r] # 0 /\ Owner(r, n) = r
  <2>1. /\ ~Idle(c) /\ chain[c].target = Named(n) /\ Top(c).at = r
        /\ Top(c).step \in {"serve", "publish"}
    BY <1>2 DEF Working
  <2>2. Established(chain[c], Top(c)) /\ count[Top(c).at] # 0
    BY <2>1, TopHolds
  <2>3. chain[c].target.kind = "name" /\ chain[c].target.name = n
    BY <2>1 DEF Named
  <2> QED BY <2>1, <2>2, <2>3 DEF Established
<1>3. OneOwner
  <2> SUFFICES ASSUME NEW c \in Chain, NEW d \in Chain, NEW n \in Name,
                      NEW r \in Shard, NEW s \in Shard, Working(c, n, r), Working(d, n, s)
               PROVE  r = s
    BY DEF OneOwner
  <2>1. count[r] # 0 /\ Owner(r, n) = r /\ count[s] # 0 /\ Owner(s, n) = s
    BY <1>2
  <2> QED BY <1>1, <2>1 DEF Owner
<1>4. NeverMisrouted
  <2> SUFFICES ASSUME NEW c \in Chain, NEW i \in 2 .. Len(chain[c].frames),
                      chain[c].frames[i].step = "start"
               PROVE  Resolve(chain[c].frames[i].at, Sought(chain[c], chain[c].frames[i]))
                          = chain[c].frames[i].at
    BY DEF NeverMisrouted
  <2> DEFINE t == chain[c].frames
  <2>1. t \in Seq(Frames) /\ Len(t) \in Nat /\ Orderly(chain[c])
    BY DEF RoutingInv, TypeOK, Requests
  <2>2. /\ i - 1 \in 1 .. Len(t) - 1 /\ i - 1 \in 1 .. Len(t) /\ i \in 1 .. Len(t)
        /\ i - 1 + 1 = i
    BY <2>1
  <2>3. /\ \A j \in 1 .. Len(t) : t[j].at \in Shard /\ count[t[j].at] # 0
        /\ \A j \in 1 .. Len(t) - 1 : Called(chain[c], t[j], t[j + 1])
    <3>1. /\ \A j \in 1 .. Len(t) : Established(chain[c], t[j])
          /\ \A j \in 1 .. Len(t) - 1 : Called(chain[c], t[j], t[j + 1])
      BY <2>1 DEF Orderly
    <3>2. \A j \in 1 .. Len(t) : t[j] \in Frames
      BY <2>1
    <3>3. \A f \in Frames : f.at \in Shard
      BY DEF Frames
    <3> HIDE DEF t
    <3> QED BY <3>1, <3>2, <3>3 DEF Established
  <2>4. count[t[i - 1].at] = count[t[i].at]
    BY <1>1, <2>2, <2>3
  <2>5. Called(chain[c], t[i - 1], t[i])
    BY <2>2, <2>3
  <2>6. Resolve(t[i - 1].at, Sought(chain[c], t[i])) = t[i].at
    BY <2>5 DEF Called
  <2> QED BY <2>4, <2>6, SameCount
<1> QED BY <1>3, <1>4

\* While all identity files agree, one instance works on a namespace and
\* nothing is sent to an instance that does not own it, restarts included.
THEOREM OneAuthorityKept == Spec => []OneAuthority
<1>1. RoutingInv => OneAuthority
  BY AuthorityFollows
<1> QED BY <1>1, RoutingInvariant, PTL

=============================================================================
