---------------------------- MODULE NetworkProofs ----------------------------
(***************************************************************************)
(* Theorems about Network, for every finite set of nodes, every topology,  *)
(* every choice of roles and switches and every bound: its types, that no  *)
(* route repeats a node, where routes start and end, that they use links   *)
(* that have been up and no selfish relay, and what route errors do.       *)
(*                                                                         *)
(* One inductive invariant carries them all.  It says of every message and *)
(* packet what its type promises of its route and of what it carries.      *)
(***************************************************************************)
EXTENDS Network, FiniteSetTheorems, SequenceTheorems, WellFoundedInduction, TLAPS

-----------------------------------------------------------------------------
(* The inductive invariant *)

Msg == [type : {"request", "reply", "error", "data"}, src : Node, dest : Node,
        seq : 0 .. MaxSeq, reply : Seq(Node), errors : Seq(LinkDown)]

Pkt == [msg : Msg, route : Seq(Node), cur : Nat, to : Node]

\* A route over links of L whose relays are not selfish by ro.
Good(r, L, ro) ==
  /\ r \in Seq(Node) /\ Len(r) <= MaxLen
  /\ \A i, j \in 1 .. Len(r) : i # j => r[i] # r[j]
  /\ \A i \in 1 .. Len(r) - 1 : {r[i], r[i + 1]} \in L
  /\ \A i \in 2 .. Len(r) - 1 : ro[r[i]] # "selfish"

\* A route of two nodes or more.
GoodPath(r, L, ro) == Good(r, L, ro) /\ Len(r) >= 2

\* The errors of an error packet, each for the source of the one before it,
\* the last for the packet's destination d.
Nested(e, d) ==
  /\ Len(e) >= 1
  /\ e[Len(e)].tell = d
  /\ \A i \in 1 .. Len(e) : e[i].tell \in Node
  /\ \A i \in 1 .. Len(e) - 1 : e[i].tell # e[i + 1].tell

\* A message that is no request.
GoodMsg(m, L, ro) ==
  /\ m \in Msg /\ Len(m.errors) <= MaxErrors
  /\ m.type # "request" /\ m.src # m.dest
  /\ IF m.type = "reply" THEN GoodPath(m.reply, L, ro) /\ m.reply[1] = m.dest
     ELSE m.reply = <<>>
  /\ IF m.type = "error" THEN Nested(m.errors, m.dest) ELSE m.errors = <<>>

\* A request on its way: its route so far does not have its target, and it
\* carries no more than the one error that its source held.
GoodRequest(p, L, ro) ==
  /\ p \in Pkt /\ p.msg.type = "request"
  /\ Len(p.msg.errors) <= 1 /\ Len(p.msg.errors) <= MaxErrors
  /\ p.msg.reply = <<>>
  /\ Good(p.route, L, ro) /\ Len(p.route) >= 1
  /\ p.cur = Len(p.route)
  /\ \A i \in 2 .. Len(p.route) : ro[p.route[i]] # "selfish"
  /\ {p.route[Len(p.route)], p.to} \in L
  /\ p.route[1] = p.msg.src
  /\ \A i \in 1 .. Len(p.route) : p.route[i] # p.msg.dest

\* A packet on its source route; only a node's own reply is still at its front.
GoodUnicast(p, L, ro) ==
  /\ p \in Pkt /\ GoodMsg(p.msg, L, ro)
  /\ GoodPath(p.route, L, ro)
  /\ p.cur \in 1 .. Len(p.route) /\ p.route[p.cur] = p.to
  /\ p.cur = 1 => p.msg.type = "reply"
  /\ p.route[1] = p.msg.src /\ p.route[Len(p.route)] = p.msg.dest

GoodPacket(p, L, ro) == GoodRequest(p, L, ro) \/ GoodUnicast(p, L, ro)

\* A message that node n has to send, and a path in its cache.
Own(m, n, L, ro) == GoodMsg(m, L, ro) /\ m.src = n

OwnPath(r, n, L, ro) == GoodPath(r, L, ro) /\ r[1] = n

Setup ==
  /\ setup \in Setups
  /\ links \subseteq seen /\ seen \subseteq Links
  /\ table \in [Node -> [Node -> 0 .. MaxSeq]]
  /\ reqNum \in [Node -> 1 .. MaxSeq + 1]
  /\ held \in [Node -> (Node \X Node) \cup {NoError}]
  /\ listed \in [Node -> SUBSET Node]
  /\ faulty \subseteq Node
  /\ moves \in 0 .. MaxMoves[switches]
  /\ left \in {"null", "freed"}

Air == IsFiniteSet(air) /\ \A p \in air : GoodPacket(p, seen, role)

Cache ==
  /\ routes = [n \in Node |-> routes[n]]
  /\ \A n \in Node : \A r \in routes[n] : OwnPath(r, n, seen, role)

Waiting ==
  /\ waiting = [n \in Node |-> waiting[n]]
  /\ \A n \in Node :
       IsFiniteSet(waiting[n]) /\ \A m \in waiting[n] : Own(m, n, seen, role)

Todo ==
  /\ todo \in Seq([at : Node, msg : Msg])
  /\ \A i \in 1 .. Len(todo) : Own(todo[i].msg, todo[i].at, seen, role)

IInv == Setup /\ Air /\ Cache /\ Waiting /\ Todo

-----------------------------------------------------------------------------
(* Routes *)

\* The assumptions about the constants, in the form the provers need them.
LEMMA NetworkConstants ==
  /\ IsFiniteSet(Node)
  /\ \A l \in Links : \E a, b \in Node : a # b /\ l = {a, b}
  /\ Start \subseteq Links
  /\ \A f \in Flow : f[1] # f[2] /\ f[1] \in Node /\ f[2] \in Node
  /\ \A s \in Setups : s[2] \in SUBSET {"cache", "gratuitous"}
  /\ CanList \subseteq Node \X Node
  /\ MaxLen \in Nat /\ MaxLen >= 2
  /\ MaxErrors \in Nat /\ MaxErrors >= 1
  /\ MaxSeq \in Nat
  /\ MaxMoves \in [SUBSET {"cache", "gratuitous"} -> Nat]
BY NetworkAssumption

\* What the provers need to know of a route.
LEMMA GoodFacts ==
  ASSUME NEW L, NEW ro, NEW r, Good(r, L, ro)
  PROVE  /\ Len(r) \in Nat /\ Len(r) <= MaxLen
         /\ r \in [1 .. Len(r) -> Node]
         /\ DOMAIN r = 1 .. Len(r)
         /\ Simple(r)
         /\ IsPath(r)
BY LenProperties DEF Good, Simple, IsPath

\* Links that have been up have been up later too.
LEMMA GoodLater ==
  ASSUME NEW L, NEW M, L \subseteq M, NEW ro, NEW r, Good(r, L, ro)
  PROVE  Good(r, M, ro)
BY DEF Good

\* A part of a route.
LEMMA PartOf ==
  ASSUME NEW r \in Seq(Node), NEW i \in 1 .. Len(r), NEW j \in i .. Len(r)
  PROVE  /\ SubSeq(r, i, j) \in Seq(Node)
         /\ Len(SubSeq(r, i, j)) = j - i + 1
         /\ \A k \in 1 .. j - i + 1 : SubSeq(r, i, j)[k] = r[i + k - 1]
<1>1. Len(r) \in Nat /\ r \in [1 .. Len(r) -> Node]
  BY LenProperties
<1>2. \A k \in i .. j : r[k] \in Node
  BY <1>1
<1>3. QED
  BY <1>1, <1>2, SubSeqProperties

\* A part of a route is a route.
LEMMA GoodPart ==
  ASSUME NEW L, NEW ro, NEW r, Good(r, L, ro), NEW i \in 1 .. Len(r), NEW j \in i .. Len(r)
  PROVE  Good(SubSeq(r, i, j), L, ro)
<1> DEFINE q == SubSeq(r, i, j)
<1>1. r \in Seq(Node) /\ Len(r) \in Nat /\ Len(r) <= MaxLen
  BY GoodFacts DEF Good
<1>2. q \in Seq(Node) /\ Len(q) = j - i + 1 /\ \A k \in 1 .. j - i + 1 : q[k] = r[i + k - 1]
  BY <1>1, PartOf
<1> HIDE DEF q
<1>3. Len(q) <= MaxLen
  BY <1>1, <1>2, NetworkConstants
<1>4. \A k, l \in 1 .. Len(q) : k # l => q[k] # q[l]
  <2> SUFFICES ASSUME NEW k \in 1 .. Len(q), NEW l \in 1 .. Len(q), k # l
               PROVE  q[k] # q[l]
    OBVIOUS
  <2>1. /\ i + k - 1 \in 1 .. Len(r) /\ i + l - 1 \in 1 .. Len(r)
        /\ i + k - 1 # i + l - 1
    BY <1>1, <1>2
  <2>2. q[k] = r[i + k - 1] /\ q[l] = r[i + l - 1]
    BY <1>2
  <2>3. r[i + k - 1] # r[i + l - 1]
    BY <2>1 DEF Good
  <2>4. QED
    BY <2>2, <2>3
<1>5. \A k \in 1 .. Len(q) - 1 : {q[k], q[k + 1]} \in L
  <2> SUFFICES ASSUME NEW k \in 1 .. Len(q) - 1
               PROVE  {q[k], q[k + 1]} \in L
    OBVIOUS
  <2>1. /\ i + k - 1 \in 1 .. Len(r) - 1 /\ (i + k - 1) + 1 = i + (k + 1) - 1
        /\ k \in 1 .. j - i + 1 /\ k + 1 \in 1 .. j - i + 1
    BY <1>1, <1>2
  <2>2. q[k] = r[i + k - 1] /\ q[k + 1] = r[(i + k - 1) + 1]
    BY <1>2, <2>1
  <2>3. {r[i + k - 1], r[(i + k - 1) + 1]} \in L
    BY <2>1 DEF Good
  <2>4. QED
    BY <2>2, <2>3
<1>6. \A k \in 2 .. Len(q) - 1 : ro[q[k]] # "selfish"
  <2> SUFFICES ASSUME NEW k \in 2 .. Len(q) - 1
               PROVE  ro[q[k]] # "selfish"
    OBVIOUS
  <2>1. i + k - 1 \in 2 .. Len(r) - 1 /\ q[k] = r[i + k - 1]
    BY <1>1, <1>2
  <2>2. QED
    BY <2>1 DEF Good
<1>7. QED
  BY <1>2, <1>3, <1>4, <1>5, <1>6 DEF Good, q

\* A route backwards.
LEMMA BackOf ==
  ASSUME NEW r \in Seq(Node)
  PROVE  /\ Reverse(r) \in Seq(Node)
         /\ Len(Reverse(r)) = Len(r)
         /\ \A k \in 1 .. Len(r) : Reverse(r)[k] = r[Len(r) - k + 1]
<1>1. Len(r) \in Nat /\ r \in [1 .. Len(r) -> Node]
  BY LenProperties
<1>2. Reverse(r) = [k \in 1 .. Len(r) |-> r[(Len(r) - k) + 1]]
  BY DEF Reverse
<1>3. \A k \in 1 .. Len(r) : (Len(r) - k) + 1 \in 1 .. Len(r)
  BY <1>1
<1>4. Reverse(r) \in [1 .. Len(r) -> Node]
  BY <1>1, <1>2, <1>3
<1>5. Reverse(r) \in Seq(Node) /\ Len(Reverse(r)) = Len(r)
  BY <1>1, <1>4
<1>6. QED
  BY <1>2, <1>5

\* A route backwards is a route, 802.11 links being as good in both directions.
LEMMA GoodBack ==
  ASSUME NEW L, NEW ro, NEW r, Good(r, L, ro)
  PROVE  Good(Reverse(r), L, ro)
<1> DEFINE q == Reverse(r)
<1>1. r \in Seq(Node) /\ Len(r) \in Nat /\ Len(r) <= MaxLen
  BY GoodFacts DEF Good
<1>2. q \in Seq(Node) /\ Len(q) = Len(r) /\ \A k \in 1 .. Len(r) : q[k] = r[Len(r) - k + 1]
  BY <1>1, BackOf
<1> HIDE DEF q
<1>3. \A k, l \in 1 .. Len(q) : k # l => q[k] # q[l]
  <2> SUFFICES ASSUME NEW k \in 1 .. Len(q), NEW l \in 1 .. Len(q), k # l
               PROVE  q[k] # q[l]
    OBVIOUS
  <2>1. /\ Len(r) - k + 1 \in 1 .. Len(r) /\ Len(r) - l + 1 \in 1 .. Len(r)
        /\ Len(r) - k + 1 # Len(r) - l + 1
        /\ q[k] = r[Len(r) - k + 1] /\ q[l] = r[Len(r) - l + 1]
    BY <1>1, <1>2
  <2>2. QED
    BY <2>1 DEF Good
<1>4. \A k \in 1 .. Len(q) - 1 : {q[k], q[k + 1]} \in L
  <2> SUFFICES ASSUME NEW k \in 1 .. Len(q) - 1
               PROVE  {q[k], q[k + 1]} \in L
    OBVIOUS
  <2>1. /\ Len(r) - k \in 1 .. Len(r) - 1
        /\ q[k] = r[(Len(r) - k) + 1] /\ q[k + 1] = r[Len(r) - k]
    BY <1>1, <1>2
  <2>2. {r[Len(r) - k], r[(Len(r) - k) + 1]} \in L
    BY <2>1 DEF Good
  <2>3. QED
    BY <2>1, <2>2
<1>5. \A k \in 2 .. Len(q) - 1 : ro[q[k]] # "selfish"
  <2> SUFFICES ASSUME NEW k \in 2 .. Len(q) - 1
               PROVE  ro[q[k]] # "selfish"
    OBVIOUS
  <2>1. Len(r) - k + 1 \in 2 .. Len(r) - 1 /\ q[k] = r[Len(r) - k + 1]
    BY <1>1, <1>2
  <2>2. QED
    BY <2>1 DEF Good
<1>6. QED
  BY <1>1, <1>2, <1>3, <1>4, <1>5 DEF Good, q

\* A route with one more node.
LEMMA MoreOf ==
  ASSUME NEW r \in Seq(Node), NEW n \in Node
  PROVE  /\ Append(r, n) \in Seq(Node)
         /\ Len(Append(r, n)) = Len(r) + 1
         /\ \A k \in 1 .. Len(r) : Append(r, n)[k] = r[k]
         /\ Append(r, n)[Len(r) + 1] = n
BY AppendProperties, LenProperties

\* A route so far, none of whose nodes behind the first is selfish, goes on to a
\* node that is not on it.
LEMMA GoodMore ==
  ASSUME NEW L, NEW ro, NEW r, Good(r, L, ro), Len(r) >= 1, Len(r) < MaxLen,
         \A i \in 2 .. Len(r) : ro[r[i]] # "selfish",
         NEW n \in Node, \A i \in 1 .. Len(r) : r[i] # n, {r[Len(r)], n} \in L
  PROVE  Good(Append(r, n), L, ro)
<1> DEFINE q == Append(r, n)
<1>1. r \in Seq(Node) /\ Len(r) \in Nat
  BY GoodFacts DEF Good
<1>2. /\ q \in Seq(Node) /\ Len(q) = Len(r) + 1
      /\ \A k \in 1 .. Len(r) : q[k] = r[k]
      /\ q[Len(r) + 1] = n
  BY <1>1, MoreOf
<1> HIDE DEF q
<1>3. Len(q) <= MaxLen
  BY <1>1, <1>2, NetworkConstants
<1>4. \A k, l \in 1 .. Len(q) : k # l => q[k] # q[l]
  <2> SUFFICES ASSUME NEW k \in 1 .. Len(q), NEW l \in 1 .. Len(q), k # l
               PROVE  q[k] # q[l]
    OBVIOUS
  <2>1. CASE k \in 1 .. Len(r) /\ l \in 1 .. Len(r)
    BY <1>2, <2>1 DEF Good
  <2>2. CASE k = Len(r) + 1 /\ l \in 1 .. Len(r)
    BY <1>2, <2>2
  <2>3. CASE l = Len(r) + 1 /\ k \in 1 .. Len(r)
    BY <1>2, <2>3
  <2>4. QED
    BY <1>1, <1>2, <2>1, <2>2, <2>3
<1>5. \A k \in 1 .. Len(q) - 1 : {q[k], q[k + 1]} \in L
  <2> SUFFICES ASSUME NEW k \in 1 .. Len(q) - 1
               PROVE  {q[k], q[k + 1]} \in L
    OBVIOUS
  <2>1. CASE k \in 1 .. Len(r) - 1
    <3>1. q[k] = r[k] /\ q[k + 1] = r[k + 1]
      BY <1>1, <1>2, <2>1
    <3>2. QED
      BY <2>1, <3>1 DEF Good
  <2>2. CASE k = Len(r)
    <3>1. Len(r) \in 1 .. Len(r)
      BY <1>1
    <3>2. q[Len(r)] = r[Len(r)]
      BY <1>2, <3>1
    <3>3. {q[Len(r)], q[Len(r) + 1]} \in L
      BY <1>2, <3>2
    <3>4. QED
      BY <2>2, <3>3
  <2>3. QED
    BY <1>1, <1>2, <2>1, <2>2
<1>6. \A k \in 2 .. Len(q) - 1 : ro[q[k]] # "selfish"
  BY <1>1, <1>2
<1>7. QED
  BY <1>2, <1>3, <1>4, <1>5, <1>6 DEF Good, q

\* A set of numbers has a least one.
LEMMA LeastNumber ==
  ASSUME NEW S, S \subseteq Nat, S # {}
  PROVE  \E x \in S : \A y \in S : x <= y
<1>1. IsWellFoundedOn(OpToRel(<, Nat), Nat)
  BY NatLessThanWellFounded
<1>2. PICK x \in S : \A y \in S : ~ (<<y, x>> \in OpToRel(<, Nat))
  BY <1>1, WFMin
<1>3. \A y \in S : ~(y < x)
  BY <1>2 DEF OpToRel
<1>4. QED
  BY <1>3

\* A path up to its first dead link is its front, and has no dead link.
LEMMA UptoFront ==
  ASSUME NEW r \in Seq(Node), Len(r) >= 1, NEW D
  PROVE  /\ \E k \in 1 .. Len(r) : Upto(r, D) = SubSeq(r, 1, k)
         /\ \A i \in 1 .. Len(Upto(r, D)) - 1 :
              <<Upto(r, D)[i], Upto(r, D)[i + 1]>> \notin D
<1> DEFINE I == {i \in 1 .. Len(r) - 1 : <<r[i], r[i + 1]>> \in D}
           k == CHOOSE i \in I : \A j \in I : i <= j
<1>1. Len(r) \in Nat
  BY LenProperties
<1>2. Upto(r, D) = IF I = {} THEN r ELSE SubSeq(r, 1, k)
  BY DEF Upto
<1>3. CASE I = {}
  <2>1. Upto(r, D) = r /\ r = SubSeq(r, 1, Len(r)) /\ Len(r) \in 1 .. Len(r)
    BY <1>1, <1>2, <1>3, SubSeqFull
  <2>2. \A i \in 1 .. Len(r) - 1 : i \notin I
    BY <1>3
  <2>3. \A i \in 1 .. Len(r) - 1 : <<r[i], r[i + 1]>> \notin D
    BY <2>2
  <2> HIDE DEF I
  <2>4. QED
    BY <2>1, <2>3
<1>4. CASE I # {}
  <2>1. k \in I /\ \A j \in I : k <= j
    <3>1. \E i \in I : \A j \in I : i <= j
      <4>1. I \subseteq Nat
        BY <1>1
      <4> HIDE DEF I
      <4>2. QED
        BY <1>4, <4>1, LeastNumber
    <3> HIDE DEF I
    <3>2. QED
      BY <3>1
  <2> HIDE DEF k
  <2>2. k \in 1 .. Len(r) /\ 1 \in 1 .. Len(r) /\ k \in Nat
    BY <1>1, <2>1
  <2>3. Upto(r, D) = SubSeq(r, 1, k)
    BY <1>2, <1>4
  <2>4. Len(Upto(r, D)) = k /\ \A i \in 1 .. k : Upto(r, D)[i] = r[i]
    <3>1. /\ Len(SubSeq(r, 1, k)) = k - 1 + 1
          /\ \A i \in 1 .. k - 1 + 1 : SubSeq(r, 1, k)[i] = r[1 + i - 1]
      BY <2>2, PartOf
    <3>2. k - 1 + 1 = k /\ \A i \in 1 .. k : 1 + i - 1 = i
      BY <2>2
    <3>3. QED
      BY <2>3, <3>1, <3>2
  <2>5. ASSUME NEW i \in 1 .. k - 1
        PROVE  <<Upto(r, D)[i], Upto(r, D)[i + 1]>> \notin D
    <3>1. i \in 1 .. Len(r) - 1 /\ i < k /\ i \in 1 .. k /\ i + 1 \in 1 .. k
      BY <1>1, <2>2
    <3>2. i \notin I
      BY <2>1, <3>1
    <3>3. QED
      BY <2>4, <3>1, <3>2
  <2>6. QED
    BY <2>2, <2>3, <2>4, <2>5
<1>5. QED
  BY <1>3, <1>4

\* Paths without dead links are paths from the same node.
LEMMA WithoutPaths ==
  ASSUME NEW L, NEW ro, NEW n, NEW P, \A r \in P : OwnPath(r, n, L, ro), NEW D,
         NEW q \in Without(P, D)
  PROVE  OwnPath(q, n, L, ro)
<1>1. PICK r \in P : q = Upto(r, D)
  BY DEF Without
<1>2. Good(r, L, ro) /\ Len(r) >= 2 /\ r[1] = n /\ r \in Seq(Node) /\ Len(r) \in Nat
  BY GoodFacts DEF OwnPath, GoodPath, Good
<1>3. PICK k \in 1 .. Len(r) : q = SubSeq(r, 1, k)
  BY <1>1, <1>2, UptoFront
<1>4. 1 \in 1 .. Len(r) /\ k \in 1 .. Len(r) /\ 1 \in 1 .. k - 1 + 1 /\ 1 + 1 - 1 = 1
  BY <1>2
<1>5. Good(q, L, ro)
  BY <1>2, <1>3, <1>4, GoodPart
<1>6. q[1] = r[1]
  BY <1>2, <1>3, <1>4, PartOf
<1>7. Len(q) > 1 /\ Len(q) \in Nat
  BY <1>5, GoodFacts DEF Without
<1>8. QED
  BY <1>2, <1>5, <1>6, <1>7 DEF OwnPath, GoodPath

-----------------------------------------------------------------------------
(* Routes without double backs *)

\* Where path p is last at its i-th node, and what compressPath makes of the
\* rest of p from each place on.
LastPlace(p, i) ==
  CHOOSE j \in i .. Len(p) : p[j] = p[i] /\ \A k \in j + 1 .. Len(p) : p[k] # p[i]

Rest(p) ==
  CHOOSE f : f = [i \in 1 .. Len(p) + 1 |->
                    IF i > Len(p) THEN <<>> ELSE <<p[i]>> \o f[LastPlace(p, i) + 1]]

\* Route q is a rest of path p from its i-th node on: it starts and ends where
\* the rest does, repeats no node and uses no link that is not in it.
Shortens(q, p, i) ==
  /\ q \in Seq(Node) /\ Len(q) \in 1 .. Len(p) - i + 1
  /\ q[1] = p[i] /\ q[Len(q)] = p[Len(p)]
  /\ \A k, l \in 1 .. Len(q) : k # l => q[k] # q[l]
  /\ \A k \in 1 .. Len(q) : \E j \in i .. Len(p) : q[k] = p[j]
  /\ \A k \in 1 .. Len(q) - 1 :
       \E j \in i .. Len(p) - 1 : q[k] = p[j] /\ q[k + 1] = p[j + 1]

\* compressPath takes the rest from the first node on.
LEMMA CompressedRest ==
  ASSUME NEW p
  PROVE  compressPath(p) = Rest(p)[1]
BY DEF compressPath, Rest, LastPlace

\* A path has a last place where it is at a node.
LEMMA LastPlaceFound ==
  ASSUME NEW p \in Seq(Node), NEW i \in 1 .. Len(p)
  PROVE  /\ LastPlace(p, i) \in i .. Len(p)
         /\ p[LastPlace(p, i)] = p[i]
         /\ \A k \in LastPlace(p, i) + 1 .. Len(p) : p[k] # p[i]
<1> DEFINE S == {m \in Nat : m <= Len(p) - i /\ p[Len(p) - m] = p[i]}
<1>1. Len(p) \in Nat
  BY LenProperties
<1>2. S \subseteq Nat /\ S # {}
  <2>1. Len(p) - i \in Nat /\ Len(p) - (Len(p) - i) = i
    BY <1>1
  <2>2. Len(p) - i \in S
    BY <2>1
  <2>3. QED
    BY <2>2
<1>3. PICK m \in S : \A l \in S : m <= l
  <2> HIDE DEF S
  <2>1. QED
    BY <1>2, LeastNumber
<1>4. Len(p) - m \in i .. Len(p) /\ p[Len(p) - m] = p[i]
  BY <1>1, <1>3
<1>5. ASSUME NEW k \in (Len(p) - m) + 1 .. Len(p), p[k] = p[i]
      PROVE  FALSE
  <2>1. Len(p) - k \in Nat /\ Len(p) - k < m /\ Len(p) - k <= Len(p) - i
        /\ Len(p) - (Len(p) - k) = k
    BY <1>1, <1>3
  <2>2. Len(p) - k \in S
    BY <1>5, <2>1
  <2>3. m <= Len(p) - k
    BY <1>3, <2>2
  <2>4. QED
    BY <1>1, <1>3, <2>1, <2>3
<1>6. \E j \in i .. Len(p) : p[j] = p[i] /\ \A k \in j + 1 .. Len(p) : p[k] # p[i]
  BY <1>4, <1>5
<1>7. QED
  BY <1>6 DEF LastPlace

\* A rest from behind the last place of the i-th node, put after that node, is a
\* rest from there on.
LEMMA ShortensMore ==
  ASSUME NEW p \in Seq(Node), NEW i \in 1 .. Len(p), NEW j \in i .. Len(p), p[j] = p[i],
         \A k \in j + 1 .. Len(p) : p[k] # p[i],
         NEW q, IF j = Len(p) THEN q = <<>> ELSE Shortens(q, p, j + 1)
  PROVE  Shortens(<<p[i]>> \o q, p, i)
<1> DEFINE r == <<p[i]>> \o q
<1>1. Len(p) \in Nat /\ p \in [1 .. Len(p) -> Node] /\ p[i] \in Node
  BY LenProperties
<1>2. q \in Seq(Node) /\ Len(q) \in Nat /\ Len(q) <= Len(p) - j
  <2>1. CASE j = Len(p)
    BY <1>1, <2>1
  <2>2. CASE j # Len(p)
    <3>1. q \in Seq(Node) /\ Len(q) \in 1 .. Len(p) - (j + 1) + 1
      BY <2>2 DEF Shortens
    <3>2. QED
      BY <1>1, <3>1
  <2>3. QED
    BY <2>1, <2>2
<1>3. /\ r \in Seq(Node) /\ Len(r) = Len(q) + 1
      /\ r[1] = p[i]
      /\ \A k \in 1 .. Len(q) : r[k + 1] = q[k]
  <2>1. <<p[i]>> \in Seq(Node) /\ Len(<<p[i]>>) = 1 /\ <<p[i]>>[1] = p[i]
    BY <1>1
  <2>2. /\ r \in Seq(Node) /\ Len(r) = 1 + Len(q)
        /\ \A k \in 1 .. 1 + Len(q) :
             r[k] = IF k <= 1 THEN <<p[i]>>[k] ELSE q[k - 1]
    BY <1>2, <2>1, ConcatProperties
  <2>3. r[1] = p[i]
    BY <1>2, <2>1, <2>2
  <2>4. ASSUME NEW k \in 1 .. Len(q)
        PROVE  r[k + 1] = q[k]
    <3>1. k + 1 \in 1 .. 1 + Len(q) /\ ~(k + 1 <= 1) /\ k + 1 - 1 = k
      BY <1>2
    <3>2. QED
      BY <2>2, <3>1
  <2>5. QED
    BY <1>2, <2>2, <2>3, <2>4
<1>4. CASE j = Len(p)
  <2>1. Len(q) = 0 /\ Len(r) = 1 /\ i <= Len(p)
    BY <1>3, <1>4
  <2> HIDE DEF r
  <2>2. QED
    BY <1>1, <1>3, <1>4, <2>1 DEF Shortens, r
<1>5. CASE j # Len(p)
  <2> HIDE DEF r
  <2>1. /\ Len(q) \in 1 .. Len(p) - (j + 1) + 1
        /\ q[1] = p[j + 1] /\ q[Len(q)] = p[Len(p)]
        /\ \A k, l \in 1 .. Len(q) : k # l => q[k] # q[l]
        /\ \A k \in 1 .. Len(q) : \E g \in j + 1 .. Len(p) : q[k] = p[g]
        /\ \A k \in 1 .. Len(q) - 1 :
             \E g \in j + 1 .. Len(p) - 1 : q[k] = p[g] /\ q[k + 1] = p[g + 1]
    BY <1>5 DEF Shortens
  <2>2. Len(r) \in 1 .. Len(p) - i + 1 /\ r[Len(r)] = p[Len(p)]
    <3>1. Len(r) \in 1 .. Len(p) - i + 1
      BY <1>1, <1>2, <1>3
    <3>2. Len(q) \in 1 .. Len(q) /\ r[Len(q) + 1] = q[Len(q)]
      BY <1>2, <1>3, <2>1
    <3>3. QED
      BY <1>3, <2>1, <3>1, <3>2
  <2>3. ASSUME NEW k \in 1 .. Len(q)
        PROVE  q[k] # p[i] /\ \E g \in i .. Len(p) : q[k] = p[g]
    <3>1. PICK g \in j + 1 .. Len(p) : q[k] = p[g]
      BY <2>1
    <3>2. g \in i .. Len(p)
      BY <1>1
    <3>3. QED
      BY <3>1, <3>2
  <2>4. ASSUME NEW k \in 1 .. Len(r)
        PROVE  k = 1 \/ (k - 1 \in 1 .. Len(q) /\ r[k] = q[k - 1])
    <3>1. CASE k # 1
      <4>1. k - 1 \in 1 .. Len(q) /\ (k - 1) + 1 = k
        BY <1>2, <1>3, <3>1
      <4>2. QED
        BY <1>3, <4>1
    <3>2. QED
      BY <3>1
  <2>5. ASSUME NEW k \in 1 .. Len(r), NEW l \in 1 .. Len(r), k # l
        PROVE  r[k] # r[l]
    <3>1. CASE k = 1
      <4>1. l - 1 \in 1 .. Len(q) /\ r[l] = q[l - 1] /\ r[k] = p[i]
        BY <1>3, <2>4, <2>5, <3>1
      <4>2. q[l - 1] # p[i]
        BY <2>3, <4>1
      <4>3. QED
        BY <4>1, <4>2
    <3>2. CASE l = 1
      <4>1. k - 1 \in 1 .. Len(q) /\ r[k] = q[k - 1] /\ r[l] = p[i]
        BY <1>3, <2>4, <2>5, <3>2
      <4>2. q[k - 1] # p[i]
        BY <2>3, <4>1
      <4>3. QED
        BY <4>1, <4>2
    <3>3. CASE k # 1 /\ l # 1
      <4>1. k - 1 # l - 1
        BY <2>5
      <4>2. k - 1 \in 1 .. Len(q) /\ r[k] = q[k - 1]
        BY <2>4, <3>3
      <4>3. l - 1 \in 1 .. Len(q) /\ r[l] = q[l - 1]
        BY <2>4, <3>3
      <4>4. q[k - 1] # q[l - 1]
        BY <2>1, <4>1, <4>2, <4>3
      <4>5. QED
        BY <4>2, <4>3, <4>4
    <3>4. QED
      BY <3>1, <3>2, <3>3
  <2>6. ASSUME NEW k \in 1 .. Len(r)
        PROVE  \E g \in i .. Len(p) : r[k] = p[g]
    <3>1. i \in i .. Len(p)
      BY <1>1
    <3>2. CASE k = 1
      BY <1>3, <3>1, <3>2
    <3>3. CASE k - 1 \in 1 .. Len(q) /\ r[k] = q[k - 1]
      <4>1. PICK g \in i .. Len(p) : q[k - 1] = p[g]
        BY <2>3, <3>3
      <4>2. QED
        BY <3>3, <4>1
    <3>4. QED
      BY <2>4, <3>2, <3>3
  <2>7. ASSUME NEW k \in 1 .. Len(r) - 1
        PROVE  \E g \in i .. Len(p) - 1 : r[k] = p[g] /\ r[k + 1] = p[g + 1]
    <3>1. CASE k = 1
      <4>1. j \in i .. Len(p) - 1 /\ 1 \in 1 .. Len(q) /\ k + 1 = 1 + 1
        BY <1>1, <1>5, <2>1, <3>1
      <4>2. r[1] = p[i] /\ r[1 + 1] = q[1] /\ q[1] = p[j + 1]
        BY <1>3, <2>1, <4>1
      <4>3. r[k] = p[j] /\ r[k + 1] = p[j + 1]
        BY <3>1, <4>1, <4>2
      <4>4. QED
        BY <4>1, <4>3
    <3>2. CASE k # 1
      <4>1. k - 1 \in 1 .. Len(q) - 1 /\ k \in 1 .. Len(q) /\ (k - 1) + 1 = k
            /\ k - 1 \in 1 .. Len(q)
        BY <1>2, <1>3, <3>2
      <4>2. \A l \in 1 .. Len(q) - 1 :
              \E g \in j + 1 .. Len(p) - 1 : q[l] = p[g] /\ q[l + 1] = p[g + 1]
        BY <2>1
      <4>3. PICK g \in j + 1 .. Len(p) - 1 :
              q[k - 1] = p[g] /\ q[(k - 1) + 1] = p[g + 1]
        BY <4>1, <4>2
      <4>4. r[k] = q[k - 1] /\ r[k + 1] = q[k]
        BY <1>3, <4>1
      <4>5. g \in i .. Len(p) - 1
        BY <1>1
      <4>6. QED
        BY <4>1, <4>3, <4>4, <4>5
    <3>3. QED
      BY <3>1, <3>2
  <2>8. QED
    BY <1>3, <2>2, <2>5, <2>6, <2>7 DEF Shortens, r
<1>6. QED
  BY <1>4, <1>5

\* The rests of a path from the i-th place on, in one function; there is one,
\* for the recursion only goes on.
Rests(f, p, i) ==
  /\ f = [k \in i .. Len(p) + 1 |->
            IF k > Len(p) THEN <<>> ELSE <<p[k]>> \o f[LastPlace(p, k) + 1]]
  /\ \A k \in i .. Len(p) : Shortens(f[k], p, k)

\* From the rests from one place on, those from the place before.
LEMMA RestsMore ==
  ASSUME NEW p \in Seq(Node), NEW i \in 1 .. Len(p), NEW f, Rests(f, p, i + 1)
  PROVE  \E g : Rests(g, p, i)
<1> DEFINE L == Len(p)
           v == <<p[i]>> \o f[LastPlace(p, i) + 1]
           g == [k \in i .. L + 1 |-> IF k = i THEN v ELSE f[k]]
<1>1. L \in Nat
  BY LenProperties
<1>2. LastPlace(p, i) \in i .. L /\ p[LastPlace(p, i)] = p[i]
      /\ \A k \in LastPlace(p, i) + 1 .. L : p[k] # p[i]
  BY LastPlaceFound
<1>3. f[L + 1] = <<>>
  <2>1. L + 1 \in i + 1 .. L + 1 /\ L + 1 > L
    BY <1>1
  <2>2. QED
    BY <2>1 DEF Rests
<1>4. Shortens(v, p, i)
  <2>1. IF LastPlace(p, i) = L THEN f[LastPlace(p, i) + 1] = <<>>
        ELSE Shortens(f[LastPlace(p, i) + 1], p, LastPlace(p, i) + 1)
    <3>1. CASE LastPlace(p, i) # L
      <4>1. LastPlace(p, i) + 1 \in i + 1 .. L
        BY <1>1, <1>2, <3>1
      <4>2. QED
        BY <3>1, <4>1 DEF Rests
    <3>2. QED
      BY <1>3, <3>1
  <2>2. QED
    BY <1>2, <2>1, ShortensMore
<1>5. \A k \in i .. L : Shortens(g[k], p, k)
  <2> SUFFICES ASSUME NEW k \in i .. L
               PROVE  Shortens(g[k], p, k)
    OBVIOUS
  <2>1. CASE k = i
    <3>1. g[k] = v
      BY <1>1, <2>1
    <3>2. QED
      BY <1>4, <2>1, <3>1
  <2>2. CASE k # i
    <3>1. k \in i + 1 .. L /\ k \in i .. L + 1
      BY <1>1, <2>2
    <3>2. g[k] = f[k]
      BY <2>2, <3>1
    <3>3. QED
      BY <3>1, <3>2 DEF Rests
  <2>3. QED
    BY <2>1, <2>2
<1>6. ASSUME NEW k \in i .. L + 1
      PROVE  g[k] = IF k > L THEN <<>> ELSE <<p[k]>> \o g[LastPlace(p, k) + 1]
  <2>1. CASE k > L
    <3>1. k = L + 1 /\ k # i
      BY <1>1, <2>1
    <3>2. QED
      BY <1>3, <2>1, <3>1
  <2>2. CASE k <= L
    <3>1. k \in 1 .. L /\ ~(k > L)
      BY <1>1, <2>2
    <3>2. LastPlace(p, k) \in k .. L
      BY <3>1, LastPlaceFound
    <3>3. LastPlace(p, k) + 1 \in i .. L + 1 /\ LastPlace(p, k) + 1 # i
      BY <1>1, <3>1, <3>2
    <3>4. g[LastPlace(p, k) + 1] = f[LastPlace(p, k) + 1]
      BY <3>3
    <3>5. g[k] = <<p[k]>> \o f[LastPlace(p, k) + 1]
      <4>1. CASE k = i
        BY <4>1
      <4>2. CASE k # i
        <5>1. k \in i + 1 .. L + 1
          BY <1>1, <4>2
        <5>2. f[k] = <<p[k]>> \o f[LastPlace(p, k) + 1]
          BY <3>1, <5>1 DEF Rests
        <5>3. QED
          BY <4>2, <5>2
      <4>3. QED
        BY <4>1, <4>2
    <3>6. QED
      BY <3>1, <3>4, <3>5
  <2>3. QED
    BY <1>1, <2>1, <2>2
<1>7. g = [k \in i .. L + 1 |->
             IF k > L THEN <<>> ELSE <<p[k]>> \o g[LastPlace(p, k) + 1]]
  BY <1>6
<1> HIDE DEF g
<1>8. QED
  BY <1>5, <1>7 DEF Rests

\* compressPath leaves a route from the first node of a path to its last, over
\* links of the path, that repeats no node.
LEMMA Compressed ==
  ASSUME NEW p \in Seq(Node), Len(p) >= 1
  PROVE  Shortens(compressPath(p), p, 1)
<1> DEFINE S == {i \in Nat : i \in 1 .. Len(p) + 1 /\ \E f : Rests(f, p, i)}
<1>1. Len(p) \in Nat
  BY LenProperties
<1>2. Len(p) + 1 \in S
  <2> DEFINE f == [k \in Len(p) + 1 .. Len(p) + 1 |-> <<>>]
  <2>1. f = [k \in Len(p) + 1 .. Len(p) + 1 |->
              IF k > Len(p) THEN <<>> ELSE <<p[k]>> \o f[LastPlace(p, k) + 1]]
    BY <1>1
  <2>2. \A k \in Len(p) + 1 .. Len(p) : Shortens(f[k], p, k)
    BY <1>1
  <2> HIDE DEF f
  <2>3. Rests(f, p, Len(p) + 1)
    BY <2>1, <2>2 DEF Rests
  <2>4. QED
    BY <1>1, <2>3
<1>3. PICK i \in S : \A j \in S : i <= j
  <2>1. S \subseteq Nat /\ S # {}
    BY <1>2
  <2> HIDE DEF S
  <2>2. QED
    BY <2>1, LeastNumber
<1>4. i = 1
  <2> SUFFICES ASSUME i # 1
               PROVE  FALSE
    OBVIOUS
  <2>1. i - 1 \in 1 .. Len(p) /\ (i - 1) + 1 = i /\ i - 1 \in Nat /\ ~(i <= i - 1)
        /\ i - 1 \in 1 .. Len(p) + 1
    BY <1>1, <1>3
  <2>2. PICK f : Rests(f, p, i)
    BY <1>3
  <2>3. \E g : Rests(g, p, i - 1)
    BY <2>1, <2>2, RestsMore
  <2>4. i - 1 \in S
    BY <2>1, <2>3
  <2>5. QED
    BY <1>3, <2>1, <2>4
<1>5. PICK f : Rests(f, p, 1)
  BY <1>3, <1>4
<1>6. Rest(p) = [i_1 \in 1 .. Len(p) + 1 |->
        IF i_1 > Len(p) THEN <<>> ELSE <<p[i_1]>> \o Rest(p)[LastPlace(p, i_1) + 1]]
  BY <1>5 DEF Rest, Rests
<1>7. ASSUME NEW m \in Nat, m <= Len(p), Rest(p)[Len(p) + 1 - m] # f[Len(p) + 1 - m]
      PROVE  \E l \in Nat : l < m /\ Rest(p)[Len(p) + 1 - l] # f[Len(p) + 1 - l]
  <2> DEFINE k == Len(p) + 1 - m
  <2>1. k \in 1 .. Len(p) + 1
    BY <1>1, <1>7
  <2>2. /\ Rest(p)[k] = IF k > Len(p) THEN <<>> ELSE <<p[k]>> \o Rest(p)[LastPlace(p, k) + 1]
        /\ f[k] = IF k > Len(p) THEN <<>> ELSE <<p[k]>> \o f[LastPlace(p, k) + 1]
    <3> HIDE DEF k
    <3>1. Rest(p)[k] = IF k > Len(p) THEN <<>> ELSE <<p[k]>> \o Rest(p)[LastPlace(p, k) + 1]
      BY <1>6, <2>1
    <3>2. f[k] = IF k > Len(p) THEN <<>> ELSE <<p[k]>> \o f[LastPlace(p, k) + 1]
      BY <1>5, <2>1 DEF Rests
    <3>3. QED
      BY <3>1, <3>2
  <2>3. ~(k > Len(p)) /\ Rest(p)[LastPlace(p, k) + 1] # f[LastPlace(p, k) + 1]
    <3>1. Rest(p)[k] # f[k]
      BY <1>7
    <3> HIDE DEF k
    <3>2. QED
      BY <2>2, <3>1
  <2>4. LastPlace(p, k) \in k .. Len(p)
    <3>1. k \in 1 .. Len(p)
      BY <1>1, <2>1, <2>3
    <3> HIDE DEF k
    <3>2. QED
      BY <3>1, LastPlaceFound
  <2> DEFINE l == Len(p) - LastPlace(p, k)
  <2>5. l \in Nat /\ l < m /\ Len(p) + 1 - l = LastPlace(p, k) + 1
    BY <1>1, <2>1, <2>4
  <2>6. QED
    BY <2>3, <2>5
<1>8. Rest(p)[1] = f[1]
  <2> DEFINE T == {m \in Nat : m <= Len(p) /\ Rest(p)[Len(p) + 1 - m] # f[Len(p) + 1 - m]}
  <2> SUFFICES ASSUME Rest(p)[1] # f[1]
               PROVE  FALSE
    OBVIOUS
  <2>1. T # {}
    <3>1. Len(p) + 1 - Len(p) = 1 /\ Len(p) <= Len(p)
      BY <1>1
    <3>2. Len(p) \in T
      BY <1>1, <3>1
    <3>3. QED
      BY <3>2
  <2>2. PICK m \in T : \A l \in T : m <= l
    <3>1. T \subseteq Nat
      OBVIOUS
    <3> HIDE DEF T
    <3>2. QED
      BY <2>1, <3>1, LeastNumber
  <2>3. PICK l \in Nat : l < m /\ Rest(p)[Len(p) + 1 - l] # f[Len(p) + 1 - l]
    BY <1>7, <2>2
  <2>4. l \in T /\ ~(m <= l)
    BY <1>1, <2>2, <2>3
  <2>5. QED
    BY <2>2, <2>4
<1>9. 1 \in 1 .. Len(p)
  BY <1>1
<1>10. QED
  BY <1>5, <1>8, <1>9, CompressedRest DEF Rests

-----------------------------------------------------------------------------
(* Routes from two parts *)

\* A path put behind another.
LEMMA JoinOf ==
  ASSUME NEW a \in Seq(Node), NEW b \in Seq(Node)
  PROVE  /\ a \o b \in Seq(Node)
         /\ Len(a) \in Nat /\ Len(b) \in Nat
         /\ Len(a \o b) = Len(a) + Len(b)
         /\ \A k \in 1 .. Len(a) : (a \o b)[k] = a[k]
         /\ \A k \in 1 .. Len(b) : (a \o b)[Len(a) + k] = b[k]
<1>1. Len(a) \in Nat /\ Len(b) \in Nat
  BY LenProperties
<1>2. /\ a \o b \in Seq(Node) /\ Len(a \o b) = Len(a) + Len(b)
      /\ \A k \in 1 .. Len(a) + Len(b) :
           (a \o b)[k] = IF k <= Len(a) THEN a[k] ELSE b[k - Len(a)]
  BY ConcatProperties
<1>3. ASSUME NEW k \in 1 .. Len(a)
      PROVE  (a \o b)[k] = a[k]
  BY <1>1, <1>2
<1>4. ASSUME NEW k \in 1 .. Len(b)
      PROVE  (a \o b)[Len(a) + k] = b[k]
  <2>1. Len(a) + k \in 1 .. Len(a) + Len(b) /\ ~(Len(a) + k <= Len(a))
        /\ Len(a) + k - Len(a) = k
    BY <1>1
  <2>2. QED
    BY <1>2, <2>1
<1>5. QED
  BY <1>1, <1>2, <1>3, <1>4

\* A path over links of L whose relays are not selfish by ro, that may repeat
\* nodes.
Along(p, L, ro) ==
  /\ p \in Seq(Node)
  /\ \A k \in 1 .. Len(p) - 1 : {p[k], p[k + 1]} \in L
  /\ \A k \in 2 .. Len(p) - 1 : ro[p[k]] # "selfish"

\* Two parts that a link joins, over relays that are not selfish: the first up
\* to its last node, the second up to its last but one.
LEMMA JoinedPath ==
  ASSUME NEW L, NEW ro, NEW a, Good(a, L, ro), Len(a) >= 1,
         \A i \in 2 .. Len(a) : ro[a[i]] # "selfish",
         NEW b, Good(b, L, ro), Len(b) >= 1, Len(b) > 1 => ro[b[1]] # "selfish",
         {a[Len(a)], b[1]} \in L
  PROVE  /\ Along(a \o b, L, ro)
         /\ Len(a \o b) = Len(a) + Len(b)
         /\ (a \o b)[1] = a[1] /\ (a \o b)[Len(a) + Len(b)] = b[Len(b)]
<1> DEFINE q == a \o b
<1>1. /\ q \in Seq(Node) /\ Len(a) \in Nat /\ Len(b) \in Nat
      /\ Len(q) = Len(a) + Len(b)
      /\ \A k \in 1 .. Len(a) : q[k] = a[k]
      /\ \A k \in 1 .. Len(b) : q[Len(a) + k] = b[k]
  BY JoinOf DEF Good
<1> HIDE DEF q
<1>2. q[1] = a[1] /\ q[Len(a) + Len(b)] = b[Len(b)]
  <2>1. 1 \in 1 .. Len(a) /\ Len(b) \in 1 .. Len(b)
    BY <1>1
  <2>2. QED
    BY <1>1, <2>1
<1>3. ASSUME NEW k \in 1 .. Len(a) + Len(b)
      PROVE  \/ k \in 1 .. Len(a)
             \/ k - Len(a) \in 1 .. Len(b) /\ q[k] = b[k - Len(a)]
  <2>1. CASE k > Len(a)
    <3>1. k - Len(a) \in 1 .. Len(b) /\ Len(a) + (k - Len(a)) = k
      BY <1>1, <2>1
    <3>2. QED
      BY <1>1, <3>1
  <2>2. QED
    BY <1>1, <2>1
<1>4. ASSUME NEW k \in 1 .. Len(a) + Len(b) - 1
      PROVE  {q[k], q[k + 1]} \in L
  <2>1. CASE k \in 1 .. Len(a) - 1
    <3>1. k \in 1 .. Len(a) /\ k + 1 \in 1 .. Len(a)
      BY <1>1, <2>1
    <3>2. q[k] = a[k] /\ q[k + 1] = a[k + 1]
      BY <1>1, <3>1
    <3>3. QED
      BY <2>1, <3>2 DEF Good
  <2>2. CASE k = Len(a)
    <3>1. Len(a) \in 1 .. Len(a) /\ 1 \in 1 .. Len(b)
      BY <1>1
    <3>2. q[Len(a)] = a[Len(a)] /\ q[Len(a) + 1] = b[1]
      BY <1>1, <3>1
    <3>3. QED
      BY <2>2, <3>2
  <2>3. CASE k > Len(a)
    <3>1. /\ k - Len(a) \in 1 .. Len(b) - 1
          /\ k - Len(a) \in 1 .. Len(b) /\ (k - Len(a)) + 1 \in 1 .. Len(b)
          /\ Len(a) + (k - Len(a)) = k /\ Len(a) + ((k - Len(a)) + 1) = k + 1
      <4>1. Len(a) \in Nat /\ Len(b) \in Nat
        BY <1>1
      <4>2. QED
        BY <2>3, <4>1
    <3>2. q[k] = b[k - Len(a)] /\ q[k + 1] = b[(k - Len(a)) + 1]
      BY <1>1, <3>1
    <3>3. {b[k - Len(a)], b[(k - Len(a)) + 1]} \in L
      BY <3>1 DEF Good
    <3>4. QED
      BY <3>2, <3>3
  <2>4. QED
    BY <1>1, <2>1, <2>2, <2>3
<1>5. ASSUME NEW k \in 2 .. Len(a) + Len(b) - 1
      PROVE  ro[q[k]] # "selfish"
  <2>1. CASE k \in 1 .. Len(a)
    <3>1. k \in 2 .. Len(a) /\ q[k] = a[k]
      BY <1>1, <2>1
    <3>2. QED
      BY <3>1
  <2>2. CASE k - Len(a) \in 1 .. Len(b) /\ q[k] = b[k - Len(a)]
    <3>1. CASE k - Len(a) = 1
      BY <1>1, <2>2, <3>1
    <3>2. CASE k - Len(a) # 1
      <4>1. k - Len(a) \in 2 .. Len(b) - 1
        BY <1>1, <2>2, <3>2
      <4>2. QED
        BY <2>2, <4>1 DEF Good
    <3>3. QED
      BY <3>1, <3>2
  <2>3. k \in 1 .. Len(a) + Len(b)
    BY <1>1
  <2>4. QED
    BY <1>3, <2>1, <2>2, <2>3
<1>6. Along(q, L, ro)
  <2>1. q \in Seq(Node) /\ Len(q) = Len(a) + Len(b)
    BY <1>1
  <2>2. \A k \in 1 .. Len(q) - 1 : {q[k], q[k + 1]} \in L
    BY <1>4, <2>1
  <2>3. \A k \in 2 .. Len(q) - 1 : ro[q[k]] # "selfish"
    BY <1>5, <2>1
  <2>4. QED
    BY <2>1, <2>2, <2>3 DEF Along
<1>7. QED
  BY <1>1, <1>2, <1>6 DEF q

\* What compressPath makes of two parts that a link joins is a route, if it
\* still has a node that is not its first.
LEMMA CompressedPath ==
  ASSUME NEW L, NEW ro, NEW p, Along(p, L, ro), Len(p) >= 1, Len(p) <= MaxLen,
         NEW n, n # p[1], On(n, compressPath(p))
  PROVE  GoodPath(compressPath(p), L, ro) /\ compressPath(p)[1] = p[1]
<1> DEFINE q == compressPath(p)
<1> /\ p \in Seq(Node)
    /\ \A k \in 1 .. Len(p) - 1 : {p[k], p[k + 1]} \in L
    /\ \A k \in 2 .. Len(p) - 1 : ro[p[k]] # "selfish"
  BY DEF Along
<1>1. Shortens(q, p, 1)
  BY Compressed
<1> HIDE DEF q
<1>2. Len(p) \in Nat
  BY LenProperties
<1>3. /\ q \in Seq(Node) /\ Len(q) \in 1 .. Len(p)
      /\ q[1] = p[1] /\ q[Len(q)] = p[Len(p)]
      /\ \A k, l \in 1 .. Len(q) : k # l => q[k] # q[l]
      /\ \A k \in 1 .. Len(q) : \E j \in 1 .. Len(p) : q[k] = p[j]
      /\ \A k \in 1 .. Len(q) - 1 :
           \E j \in 1 .. Len(p) - 1 : q[k] = p[j] /\ q[k + 1] = p[j + 1]
  <2>1. Len(p) - 1 + 1 = Len(p)
    BY <1>2
  <2>2. QED
    BY <1>1, <2>1 DEF Shortens
<1>4. Len(q) <= MaxLen /\ Len(q) >= 1
  BY <1>2, <1>3, NetworkConstants
<1>5. Len(q) # 1
  <2>1. PICK k \in 1 .. Len(q) : q[k] = n
    <3>1. On(n, q)
      BY DEF q
    <3>2. DOMAIN q = 1 .. Len(q)
      BY <1>3, LenProperties
    <3>3. QED
      BY <3>1, <3>2 DEF On
  <2>2. k # 1
    BY <1>3, <2>1
  <2>3. QED
    BY <1>3, <2>1, <2>2
<1>6. \A k \in 1 .. Len(q) - 1 : {q[k], q[k + 1]} \in L
  <2> SUFFICES ASSUME NEW k \in 1 .. Len(q) - 1
               PROVE  {q[k], q[k + 1]} \in L
    OBVIOUS
  <2>1. PICK j \in 1 .. Len(p) - 1 : q[k] = p[j] /\ q[k + 1] = p[j + 1]
    BY <1>3
  <2>2. QED
    BY <2>1
<1>7. \A k \in 2 .. Len(q) - 1 : ro[q[k]] # "selfish"
  <2> SUFFICES ASSUME NEW k \in 2 .. Len(q) - 1
               PROVE  ro[q[k]] # "selfish"
    OBVIOUS
  <2>1. k \in 1 .. Len(q) /\ 1 \in 1 .. Len(q) /\ Len(q) \in 1 .. Len(q)
        /\ k # 1 /\ k # Len(q)
    BY <1>3
  <2>2. q[k] # p[1] /\ q[k] # p[Len(p)]
    BY <1>3, <2>1
  <2>3. PICK j \in 1 .. Len(p) : q[k] = p[j]
    BY <1>3, <2>1
  <2>4. j \in 2 .. Len(p) - 1
    BY <1>2, <2>2, <2>3
  <2>5. QED
    BY <2>3, <2>4
<1>8. Good(q, L, ro)
  BY <1>3, <1>4, <1>6, <1>7 DEF Good
<1>9. Len(q) >= 2
  <2>1. Len(q) \in 1 .. Len(p) /\ Len(q) \in Nat
    BY <1>2, <1>3
  <2>2. Len(q) >= 1 /\ Len(q) # 1
    BY <1>4, <1>5
  <2>3. \A x \in Nat : x >= 1 /\ x # 1 => x >= 2
    OBVIOUS
  <2>4. QED
    BY <2>1, <2>2, <2>3
<1>10. QED
  BY <1>3, <1>8, <1>9 DEF GoodPath, q

\* A route that leaves out what is between two of its nodes, when a link joins
\* them: the rest that sendRouteShortening offers.
LEMMA CutOut ==
  ASSUME NEW L, NEW ro, NEW r, GoodPath(r, L, ro), NEW c \in 2 .. Len(r),
         NEW i \in c + 1 .. Len(r), {r[c - 1], r[i]} \in L
  PROVE  /\ GoodPath(SubSeq(r, 1, c - 1) \o SubSeq(r, i, Len(r)), L, ro)
         /\ (SubSeq(r, 1, c - 1) \o SubSeq(r, i, Len(r)))[1] = r[1]
         /\ GoodPath(Append(SubSeq(r, 1, c - 1), r[i]), L, ro)
         /\ Append(SubSeq(r, 1, c - 1), r[i])[1] = r[1]
<1> DEFINE a == SubSeq(r, 1, c - 1)
           b == SubSeq(r, i, Len(r))
<1>1. /\ Good(r, L, ro) /\ r \in Seq(Node) /\ Len(r) \in Nat /\ Len(r) <= MaxLen
      /\ r \in [1 .. Len(r) -> Node]
  BY GoodFacts DEF GoodPath, Good
<1>2. 1 \in 1 .. Len(r) /\ c - 1 \in 1 .. Len(r) /\ i \in 1 .. Len(r)
      /\ Len(r) \in i .. Len(r) /\ c - 1 - 1 + 1 = c - 1 /\ c - 1 \in Nat
  BY <1>1
<1>3. Good(a, L, ro) /\ Good(b, L, ro)
  BY <1>1, <1>2, GoodPart
<1>4. a \in Seq(Node) /\ Len(a) = c - 1 /\ \A k \in 1 .. c - 1 : a[k] = r[k]
  <2>1. \A k \in 1 .. c - 1 : 1 + k - 1 = k
    BY <1>2
  <2>2. QED
    BY <1>1, <1>2, <2>1, PartOf
<1>5. /\ b \in Seq(Node) /\ Len(b) = Len(r) - i + 1
      /\ \A k \in 1 .. Len(r) - i + 1 : b[k] = r[i + k - 1]
  BY <1>1, <1>2, PartOf
<1> HIDE DEF a, b
<1>6. a[1] = r[1] /\ a[Len(a)] = r[c - 1] /\ b[1] = r[i] /\ Len(a) >= 1 /\ Len(b) >= 1
  <2>1. 1 \in 1 .. c - 1 /\ c - 1 \in 1 .. c - 1 /\ 1 \in 1 .. Len(r) - i + 1 /\ i + 1 - 1 = i
    BY <1>1, <1>2
  <2>2. a[1] = r[1] /\ a[c - 1] = r[c - 1]
    BY <1>4, <2>1
  <2>3. b[1] = r[i]
    BY <1>5, <2>1
  <2>4. Len(a) >= 1 /\ Len(b) >= 1
    BY <1>1, <1>4, <1>5
  <2>5. QED
    BY <1>4, <2>2, <2>3, <2>4
<1>7. \A k \in 2 .. Len(a) : ro[a[k]] # "selfish"
  <2> SUFFICES ASSUME NEW k \in 2 .. Len(a)
               PROVE  ro[a[k]] # "selfish"
    OBVIOUS
  <2>1. k \in 1 .. c - 1 /\ k \in 2 .. Len(r) - 1
    BY <1>1, <1>4
  <2>2. QED
    BY <1>1, <1>4, <2>1 DEF Good
<1>8. Len(b) > 1 => ro[b[1]] # "selfish"
  <2> SUFFICES ASSUME Len(b) > 1
               PROVE  ro[b[1]] # "selfish"
    OBVIOUS
  <2>1. i \in 2 .. Len(r) - 1
    BY <1>1, <1>5
  <2>2. QED
    BY <1>1, <1>6, <2>1 DEF Good
<1> DEFINE q == a \o b
<1>9. /\ Along(q, L, ro) /\ q \in Seq(Node)
      /\ Len(q) = Len(a) + Len(b) /\ q[1] = a[1]
  <2>1. {a[Len(a)], b[1]} \in L
    BY <1>6
  <2>2. Len(a) >= 1 /\ Len(b) >= 1
    BY <1>6
  <2>3. Along(q, L, ro) /\ Len(q) = Len(a) + Len(b) /\ q[1] = a[1]
    BY <1>3, <1>7, <1>8, <2>1, <2>2, JoinedPath
  <2>4. QED
    BY <2>3 DEF Along
<1>10. /\ \A k \in 1 .. Len(a) : q[k] = a[k]
       /\ \A k \in 1 .. Len(b) : q[Len(a) + k] = b[k]
  BY <1>4, <1>5, JoinOf
<1> HIDE DEF q
<1> DEFINE at(k) == IF k < c THEN k ELSE k + (i - c)
<1>11. ASSUME NEW k \in 1 .. Len(q)
       PROVE  at(k) \in 1 .. Len(r) /\ q[k] = r[at(k)]
  <2>1. Len(q) = (c - 1) + (Len(r) - i + 1) /\ k \in Nat
    BY <1>1, <1>4, <1>5, <1>9
  <2>2. CASE k < c
    <3>1. k \in 1 .. Len(a) /\ k \in 1 .. c - 1 /\ k \in 1 .. Len(r)
      BY <1>1, <1>4, <2>1, <2>2
    <3>2. q[k] = r[k]
      BY <1>4, <1>10, <3>1
    <3>3. QED
      BY <2>2, <3>1, <3>2
  <2>3. CASE k >= c
    <3>1. /\ k - Len(a) \in 1 .. Len(b) /\ k - Len(a) \in 1 .. Len(r) - i + 1
          /\ Len(a) + (k - Len(a)) = k /\ i + (k - Len(a)) - 1 = k + (i - c)
          /\ k + (i - c) \in 1 .. Len(r)
      BY <1>1, <1>4, <1>5, <2>1, <2>3
    <3>2. q[k] = b[k - Len(a)]
      BY <1>10, <3>1
    <3>3. b[k - Len(a)] = r[i + (k - Len(a)) - 1]
      BY <1>5, <3>1
    <3>4. q[k] = r[k + (i - c)]
      BY <3>1, <3>2, <3>3
    <3>5. ~(k < c)
      BY <2>1, <2>3
    <3>6. QED
      BY <3>1, <3>4, <3>5
  <2>4. QED
    BY <2>1, <2>2, <2>3
<1>12. ASSUME NEW k \in 1 .. Len(q), NEW l \in 1 .. Len(q), k # l
       PROVE  q[k] # q[l]
  <2>1. Len(q) \in Nat /\ k \in Nat /\ l \in Nat
    BY <1>1, <1>4, <1>5, <1>9
  <2>2. at(k) # at(l)
    BY <1>1, <1>12, <2>1
  <2>3. /\ at(k) \in 1 .. Len(r) /\ q[k] = r[at(k)]
        /\ at(l) \in 1 .. Len(r) /\ q[l] = r[at(l)]
    BY <1>11
  <2> HIDE DEF at
  <2>4. r[at(k)] # r[at(l)]
    BY <1>1, <2>2, <2>3 DEF Good
  <2>5. QED
    BY <2>3, <2>4
<1>13. GoodPath(q, L, ro)
  <2>1. Len(q) <= MaxLen /\ Len(q) >= 2
    <3>1. Len(q) = (c - 1) + (Len(r) - i + 1)
      BY <1>4, <1>5, <1>9
    <3>2. /\ Len(r) \in Nat /\ c \in Nat /\ i \in Nat
          /\ 2 <= c /\ c + 1 <= i /\ i <= Len(r)
      BY <1>1
    <3>3. Len(q) <= Len(r) /\ Len(q) >= 2
      BY <3>1, <3>2
    <3>4. QED
      BY <1>1, <3>2, <3>3, NetworkConstants
  <2>2. /\ \A k \in 1 .. Len(q) - 1 : {q[k], q[k + 1]} \in L
        /\ \A k \in 2 .. Len(q) - 1 : ro[q[k]] # "selfish"
    BY <1>9 DEF Along
  <2>3. Good(q, L, ro)
    BY <1>9, <1>12, <2>1, <2>2 DEF Good
  <2>4. QED
    BY <2>1, <2>3 DEF GoodPath
<1>14. GoodPath(Append(a, r[i]), L, ro) /\ Append(a, r[i])[1] = r[1]
  <2>1. r[i] \in Node /\ Len(a) < MaxLen
    BY <1>1, <1>2, <1>4, NetworkConstants
  <2>2. \A k \in 1 .. Len(a) : a[k] # r[i]
    <3> SUFFICES ASSUME NEW k \in 1 .. Len(a)
                 PROVE  a[k] # r[i]
      OBVIOUS
    <3>1. k \in 1 .. c - 1 /\ k \in 1 .. Len(r) /\ k # i
      BY <1>1, <1>4
    <3>2. QED
      BY <1>1, <1>2, <1>4, <3>1 DEF Good
  <2>3. {a[Len(a)], r[i]} \in L
    BY <1>6
  <2>4. Good(Append(a, r[i]), L, ro)
    BY <1>3, <1>6, <1>7, <2>1, <2>2, <2>3, GoodMore
  <2>5. Len(Append(a, r[i])) = Len(a) + 1 /\ Append(a, r[i])[1] = a[1]
    <3>1. 1 \in 1 .. Len(a)
      BY <1>4, <1>6
    <3>2. QED
      BY <1>4, <2>1, <3>1, MoreOf
  <2>6. QED
    BY <1>4, <1>6, <2>4, <2>5 DEF GoodPath
<1>15. QED
  BY <1>6, <1>9, <1>13, <1>14 DEF a, b, q

\* A route that a lookup finds starts at the owner of the paths and ends at the
\* node that was looked for.
LEMMA FoundPath ==
  ASSUME NEW L, NEW ro, NEW n, NEW P, \A r \in P : OwnPath(r, n, L, ro), NEW d,
         NEW q \in Shortest(P, d)
  PROVE  OwnPath(q, n, L, ro) /\ q[Len(q)] = d
<1>1. PICK r \in P : \E i \in 2 .. Len(r) : r[i] = d /\ q = SubSeq(r, 1, i)
  BY DEF Shortest, ToDest
<1>2. PICK i \in 2 .. Len(r) : r[i] = d /\ q = SubSeq(r, 1, i)
  BY <1>1
<1>3. Good(r, L, ro) /\ Len(r) >= 2 /\ r[1] = n /\ r \in Seq(Node) /\ Len(r) \in Nat
  BY GoodFacts DEF OwnPath, GoodPath, Good
<1>4. 1 \in 1 .. Len(r) /\ i \in 1 .. Len(r) /\ 1 \in 1 .. i /\ 1 + 1 - 1 = 1
      /\ i \in 1 .. i /\ 1 + i - 1 = i /\ i - 1 + 1 = i /\ i \in Nat
  BY <1>3
<1>5. Good(q, L, ro)
  BY <1>2, <1>3, <1>4, GoodPart
<1>6. Len(q) = i /\ q[1] = r[1] /\ q[i] = r[i]
  BY <1>2, <1>3, <1>4, PartOf
<1>7. QED
  BY <1>2, <1>3, <1>5, <1>6 DEF OwnPath, GoodPath

-----------------------------------------------------------------------------
(* Finite sets *)

\* The sequences of a finite set's elements.
LEMMA ToSeqs ==
  ASSUME NEW S, IsFiniteSet(S), NEW s \in SetToSeqs(S)
  PROVE  s \in Seq(S) /\ DOMAIN s = 1 .. Len(s) /\ \A i \in 1 .. Len(s) : s[i] \in S
<1>1. Cardinality(S) \in Nat
  BY FS_CardinalityType
<1>2. s \in [1 .. Cardinality(S) -> S]
  BY DEF SetToSeqs
<1>3. s \in Seq(S)
  BY <1>1, <1>2
<1>4. QED
  BY <1>3, LenProperties

\* What is left of a finite set when something is taken out and put in.
LEMMA FiniteChange ==
  ASSUME NEW A, IsFiniteSet(A), NEW X, NEW Y, IsFiniteSet(Y)
  PROVE  IsFiniteSet((A \ X) \cup Y)
<1>1. A \ X \in SUBSET A
  OBVIOUS
<1>2. IsFiniteSet(A \ X)
  BY <1>1, FS_Subset
<1>3. QED
  BY <1>2, FS_Union

\* The messages of a finite set of packets.
LEMMA FiniteMessages ==
  ASSUME NEW A, IsFiniteSet(A)
  PROVE  IsFiniteSet({q.msg : q \in A})
<1> DEFINE T == {q.msg : q \in A}
           f == [q \in A |-> q.msg]
<1>1. f \in Surjection(A, T)
  BY DEF Surjection
<1>2. QED
  BY <1>1, FS_Surjection

\* A broadcast reaches a finite set of neighbours.
LEMMA FiniteBroadcast ==
  ASSUME NEW m, NEW r, NEW n
  PROVE  IsFiniteSet(Broadcast(m, r, n))
<1> DEFINE f == [k \in Neighbour(n) |-> Packet(m, r, Len(r), k)]
<1>1. IsFiniteSet(Neighbour(n))
  <2>1. Neighbour(n) \in SUBSET Node
    BY DEF Neighbour
  <2>2. QED
    BY <2>1, NetworkConstants, FS_Subset
<1>2. f \in Surjection(Neighbour(n), Broadcast(m, r, n))
  BY DEF Surjection, Broadcast
<1>3. QED
  BY <1>1, <1>2, FS_Surjection

-----------------------------------------------------------------------------
(* Packets *)

\* A route backwards leads from its end to its start.
LEMMA BackPath ==
  ASSUME NEW L, NEW ro, NEW r, GoodPath(r, L, ro)
  PROVE  /\ GoodPath(Reverse(r), L, ro)
         /\ Reverse(r)[1] = r[Len(r)] /\ Len(Reverse(r)) = Len(r)
         /\ Reverse(r)[Len(r)] = r[1]
<1>1. Good(r, L, ro) /\ r \in Seq(Node) /\ Len(r) \in Nat /\ Len(r) >= 2
  BY GoodFacts DEF GoodPath, Good
<1>2. /\ Len(Reverse(r)) = Len(r)
      /\ \A k \in 1 .. Len(r) : Reverse(r)[k] = r[Len(r) - k + 1]
  BY <1>1, BackOf
<1>3. /\ 1 \in 1 .. Len(r) /\ Len(r) \in 1 .. Len(r)
      /\ Len(r) - 1 + 1 = Len(r) /\ Len(r) - Len(r) + 1 = 1
  BY <1>1
<1>4. Good(Reverse(r), L, ro)
  BY <1>1, GoodBack
<1>5. Reverse(r)[1] = r[Len(r)] /\ Reverse(r)[Len(r)] = r[1]
  BY <1>2, <1>3
<1>6. QED
  BY <1>1, <1>2, <1>4, <1>5 DEF GoodPath

\* A packet that starts out on a route of its own.
LEMMA StartsOut ==
  ASSUME NEW L, NEW ro, NEW m, GoodMsg(m, L, ro), NEW r, GoodPath(r, L, ro),
         r[1] = m.src, r[Len(r)] = m.dest
  PROVE  GoodPacket(Unicast(m, r, 1), L, ro)
<1> DEFINE p == Unicast(m, r, 1)
<1>1. Good(r, L, ro) /\ r \in Seq(Node) /\ Len(r) \in Nat /\ Len(r) >= 2
  BY GoodFacts DEF GoodPath, Good
<1>2. 2 \in 1 .. Len(r) /\ r[2] \in Node
  BY <1>1, LenProperties
<1>3. p = [msg |-> m, route |-> r, cur |-> 2, to |-> r[2]]
  BY DEF Unicast, Packet
<1>4. m \in Msg
  BY DEF GoodMsg
<1>5. p \in Pkt /\ p.msg = m /\ p.route = r /\ p.cur = 2 /\ p.to = r[2]
  BY <1>1, <1>2, <1>3, <1>4 DEF Pkt
<1> HIDE DEF p
<1>6. GoodUnicast(p, L, ro)
  BY <1>2, <1>5 DEF GoodUnicast
<1>7. QED
  BY <1>6 DEF GoodPacket, p

\* A packet that is not yet where it should go has a next node on its route.
LEMMA GoesOn ==
  ASSUME NEW L, NEW ro, NEW p, GoodUnicast(p, L, ro), p.to # p.msg.dest
  PROVE  /\ p.cur \in 1 .. Len(p.route) - 1
         /\ GoodPacket(Unicast(p.msg, p.route, p.cur), L, ro)
<1> DEFINE q == Unicast(p.msg, p.route, p.cur)
           r == p.route
           c == p.cur + 1
<1>1. /\ p \in Pkt /\ GoodMsg(p.msg, L, ro) /\ GoodPath(r, L, ro)
      /\ p.cur \in 1 .. Len(r) /\ r[p.cur] = p.to
      /\ r[1] = p.msg.src /\ r[Len(r)] = p.msg.dest
  BY DEF GoodUnicast
<1>2. r \in Seq(Node) /\ Len(r) \in Nat /\ r \in [1 .. Len(r) -> Node]
  BY <1>1, GoodFacts DEF GoodPath, Good
<1>3. p.cur \in 1 .. Len(r) - 1
  <2>1. p.cur # Len(r)
    BY <1>1
  <2>2. QED
    BY <1>1, <1>2, <2>1
<1>4. c \in 1 .. Len(r) /\ c # 1 /\ c \in Nat /\ r[c] \in Node
  BY <1>2, <1>3
<1>5. q = [msg |-> p.msg, route |-> r, cur |-> c, to |-> r[c]]
  BY DEF Unicast, Packet
<1>6. q \in Pkt /\ q.msg = p.msg /\ q.route = r /\ q.cur = c /\ q.to = r[c]
  BY <1>1, <1>2, <1>4, <1>5 DEF Pkt
<1> HIDE DEF q, c
<1>7. GoodUnicast(q, L, ro)
  BY <1>1, <1>4, <1>6 DEF GoodUnicast
<1>8. QED
  BY <1>3, <1>7 DEF GoodPacket, q

\* A reply from n to s that offers s a route.
Offer(n, s, q) == [Message("reply", n, s) EXCEPT !.reply = q]

\* Such a reply is what a reply has to be.
LEMMA ReplyIsGood ==
  ASSUME NEW L, NEW ro, NEW n \in Node, NEW s \in Node, n # s,
         NEW q, GoodPath(q, L, ro), q[1] = s
  PROVE  /\ GoodMsg(Offer(n, s, q), L, ro)
         /\ Offer(n, s, q).src = n /\ Offer(n, s, q).dest = s
         /\ Offer(n, s, q).type = "reply"
<1> DEFINE m == Offer(n, s, q)
<1>1. q \in Seq(Node)
  BY DEF GoodPath, Good
<1>2. m = [type |-> "reply", src |-> n, dest |-> s, seq |-> 0, reply |-> q, errors |-> <<>>]
  BY DEF Message, Offer
<1>3. /\ m.type = "reply" /\ m.src = n /\ m.dest = s /\ m.reply = q /\ m.errors = <<>>
      /\ m \in Msg /\ Len(m.errors) <= MaxErrors
  <2>1. 0 \in 0 .. MaxSeq /\ <<>> \in Seq(LinkDown) /\ Len(<<>>) <= MaxErrors
    BY NetworkConstants, EmptySeq
  <2>2. QED
    BY <1>1, <1>2, <2>1 DEF Msg
<1> HIDE DEF m
<1>4. GoodMsg(m, L, ro) /\ m.src = n /\ m.dest = s /\ m.type = "reply"
  BY <1>3 DEF GoodMsg
<1>5. QED
  BY <1>4 DEF m

\* A request's route so far and the node it arrives at.
LEMMA RequestSoFar ==
  ASSUME NEW L, NEW ro, NEW p, GoodRequest(p, L, ro), Len(p.route) < MaxLen,
         ~On(p.to, p.route)
  PROVE  /\ GoodPath(Append(p.route, p.to), L, ro)
         /\ Append(p.route, p.to)[1] = p.msg.src
         /\ Append(p.route, p.to)[Len(p.route) + 1] = p.to
         /\ Len(Append(p.route, p.to)) = Len(p.route) + 1
         /\ p.to # p.msg.src
<1>1. /\ Good(p.route, L, ro) /\ p.route \in Seq(Node) /\ Len(p.route) >= 1
      /\ \A i \in 2 .. Len(p.route) : ro[p.route[i]] # "selfish"
      /\ {p.route[Len(p.route)], p.to} \in L
      /\ p.route[1] = p.msg.src
  BY DEF GoodRequest, Good
<1>2. p.to \in Node
  BY DEF GoodRequest, Pkt
<1>3. Len(p.route) \in Nat /\ DOMAIN p.route = 1 .. Len(p.route)
  BY <1>1, LenProperties
<1>4. \A i \in 1 .. Len(p.route) : p.route[i] # p.to
  BY <1>3 DEF On
<1>5. Good(Append(p.route, p.to), L, ro)
  BY <1>1, <1>2, <1>4, GoodMore
<1>6. /\ Len(Append(p.route, p.to)) = Len(p.route) + 1
      /\ \A k \in 1 .. Len(p.route) : Append(p.route, p.to)[k] = p.route[k]
      /\ Append(p.route, p.to)[Len(p.route) + 1] = p.to
  BY <1>1, <1>2, MoreOf
<1>7. 1 \in 1 .. Len(p.route)
  BY <1>1, <1>3
<1>8. QED
  BY <1>1, <1>3, <1>4, <1>5, <1>6, <1>7 DEF GoodPath

\* The target's answer, at the front of its route back.
LEMMA AnswerIsGood ==
  ASSUME NEW L, NEW ro, NEW p, GoodRequest(p, L, ro), Len(p.route) < MaxLen,
         p.to = p.msg.dest
  PROVE  /\ GoodPacket(Answer(p.to, p), L, ro)
         /\ OwnPath(Answer(p.to, p).route, p.to, L, ro)
<1> DEFINE n == p.to
           r == Append(p.route, n)
           m == Offer(n, p.msg.src, r)
           q == Answer(n, p)
<1>1. p \in Pkt /\ n \in Node /\ p.msg \in Msg /\ p.msg.src \in Node /\ p.route \in Seq(Node)
  BY DEF GoodRequest, Pkt, Msg
<1>2. ~On(n, p.route)
  <2>1. \A i \in 1 .. Len(p.route) : p.route[i] # n
    BY DEF GoodRequest
  <2>2. DOMAIN p.route = 1 .. Len(p.route)
    BY <1>1, LenProperties
  <2>3. QED
    BY <2>1, <2>2 DEF On
<1>3. /\ GoodPath(r, L, ro) /\ r[1] = p.msg.src /\ r[Len(p.route) + 1] = n
      /\ Len(r) = Len(p.route) + 1 /\ n # p.msg.src
  BY <1>2, RequestSoFar
<1> HIDE DEF r
<1>4. GoodMsg(m, L, ro) /\ m.src = n /\ m.dest = p.msg.src /\ m.type = "reply"
  <2> DEFINE s == p.msg.src
  <2>1. n \in Node /\ s \in Node /\ n # s /\ GoodPath(r, L, ro) /\ r[1] = s
    BY <1>1, <1>3
  <2> HIDE DEF n, s
  <2>2. /\ GoodMsg(Offer(n, s, r), L, ro)
        /\ Offer(n, s, r).src = n /\ Offer(n, s, r).dest = s
        /\ Offer(n, s, r).type = "reply"
    BY <2>1, ReplyIsGood, SMTT(30)
  <2>3. QED
    BY <2>2 DEF s
<1> HIDE DEF m
<1>5. /\ GoodPath(Reverse(r), L, ro) /\ Reverse(r)[1] = n
      /\ Reverse(r)[Len(Reverse(r))] = p.msg.src
  BY <1>3, BackPath
<1>6. q = [msg |-> m, route |-> Reverse(r), cur |-> 1, to |-> n]
  BY DEF Answer, Packet, Offer, m, r
<1>7. /\ q \in Pkt /\ q.msg = m /\ q.route = Reverse(r) /\ q.cur = 1 /\ q.to = n
  <2>1. Reverse(r) \in Seq(Node) /\ m \in Msg
    BY <1>4, <1>5 DEF GoodPath, Good, GoodMsg
  <2>2. QED
    BY <1>1, <1>6, <2>1 DEF Pkt
<1> HIDE DEF q
<1>8. 1 \in 1 .. Len(Reverse(r))
  <2>1. Len(Reverse(r)) \in Nat /\ Len(Reverse(r)) >= 2
    BY <1>5, GoodFacts DEF GoodPath
  <2>2. QED
    BY <2>1
<1>9. GoodUnicast(q, L, ro)
  BY <1>4, <1>5, <1>7, <1>8 DEF GoodUnicast
<1>10. OwnPath(q.route, n, L, ro)
  BY <1>5, <1>7 DEF OwnPath
<1>11. QED
  BY <1>9, <1>10 DEF GoodPacket, q

\* A forwarded request.
LEMMA ForwardedRequest ==
  ASSUME NEW L, NEW ro, NEW p, GoodRequest(p, L, ro), Len(p.route) < MaxLen,
         ~On(p.to, p.route), p.to # p.msg.dest, ro[p.to] # "selfish",
         links \subseteq L, NEW q \in Broadcast(p.msg, Append(p.route, p.to), p.to)
  PROVE  GoodPacket(q, L, ro)
<1> DEFINE n == p.to
           r == Append(p.route, n)
<1>1. PICK k \in Node : {n, k} \in links /\ q = [msg |-> p.msg, route |-> r,
                                                cur |-> Len(r), to |-> k]
  BY DEF Broadcast, Neighbour, Packet
<1>2. /\ p \in Pkt /\ n \in Node /\ p.route \in Seq(Node) /\ p.msg \in Msg
      /\ p.msg.type = "request" /\ Len(p.msg.errors) <= MaxErrors /\ p.msg.reply = <<>>
      /\ Len(p.route) >= 1
      /\ \A i \in 2 .. Len(p.route) : ro[p.route[i]] # "selfish"
      /\ \A i \in 1 .. Len(p.route) : p.route[i] # p.msg.dest
  BY DEF GoodRequest, Pkt
<1>3. /\ GoodPath(r, L, ro) /\ r[1] = p.msg.src /\ r[Len(p.route) + 1] = n
      /\ Len(r) = Len(p.route) + 1
  BY RequestSoFar
<1>4. Len(p.route) \in Nat /\ \A i \in 1 .. Len(p.route) : r[i] = p.route[i]
  BY <1>2, MoreOf, LenProperties
<1> HIDE DEF r
<1>5. Good(r, L, ro) /\ r \in Seq(Node) /\ Len(r) \in Nat /\ Len(r) >= 1
  BY <1>3, <1>4 DEF GoodPath, Good
<1>6. q \in Pkt /\ q.msg = p.msg /\ q.route = r /\ q.cur = Len(r) /\ q.to = k
  BY <1>1, <1>2, <1>5 DEF Pkt
<1>7. ASSUME NEW i \in 1 .. Len(r)
      PROVE  r[i] # p.msg.dest /\ (i # 1 => ro[r[i]] # "selfish")
  <2>1. CASE i = Len(r)
    BY <1>3, <2>1
  <2>2. CASE i # Len(r)
    <3>1. i \in 1 .. Len(p.route) /\ (i # 1 => i \in 2 .. Len(p.route))
      BY <1>3, <1>4, <2>2
    <3>2. QED
      BY <1>2, <1>4, <3>1
  <2>3. QED
    BY <2>1, <2>2
<1>8. \A i \in 2 .. Len(r) : ro[r[i]] # "selfish"
  <2> SUFFICES ASSUME NEW i \in 2 .. Len(r)
               PROVE  ro[r[i]] # "selfish"
    OBVIOUS
  <2>1. i \in 1 .. Len(r) /\ i # 1
    BY <1>5
  <2>2. QED
    BY <1>7, <2>1
<1>9. r[Len(r)] = n /\ {n, k} \in L
  BY <1>1, <1>3
<1>10. GoodRequest(q, L, ro)
  <2>1. {q.route[Len(q.route)], q.to} \in L
    BY <1>6, <1>9
  <2>2. QED
    BY <1>2, <1>3, <1>5, <1>6, <1>7, <1>8, <2>1 DEF GoodRequest
<1>11. QED
  BY <1>10 DEF GoodPacket

-----------------------------------------------------------------------------
(* Route errors *)

\* The errors that a packet carries, and one more for its source.
LEMMA NestMore ==
  ASSUME NEW m, m \in Msg, m.src # m.dest,
         IF m.type = "error" THEN Nested(m.errors, m.dest) ELSE m.errors = <<>>,
         NEW x \in Node, NEW y \in Node
  PROVE  LET e == Append(m.errors, [tell |-> m.src, from |-> x, to |-> y])
         IN  e \in Seq(LinkDown) /\ Len(e) = Len(m.errors) + 1 /\ Nested(e, m.src)
<1> DEFINE d == [tell |-> m.src, from |-> x, to |-> y]
           e == Append(m.errors, d)
<1>1. m.errors \in Seq(LinkDown) /\ m.src \in Node /\ m.dest \in Node
  BY DEF Msg
<1>2. d \in LinkDown /\ d.tell = m.src
  BY <1>1 DEF LinkDown
<1> HIDE DEF d
<1>3. /\ e \in Seq(LinkDown) /\ Len(e) = Len(m.errors) + 1 /\ Len(m.errors) \in Nat
      /\ \A i \in 1 .. Len(m.errors) : e[i] = m.errors[i]
      /\ e[Len(m.errors) + 1] = d
  BY <1>1, <1>2, AppendProperties, LenProperties
<1> HIDE DEF e
<1>4. /\ \A i \in 1 .. Len(m.errors) : m.errors[i].tell \in Node
      /\ \A i \in 1 .. Len(m.errors) - 1 : m.errors[i].tell # m.errors[i + 1].tell
      /\ Len(m.errors) >= 1 => m.errors[Len(m.errors)].tell = m.dest
  <2>1. CASE m.type = "error"
    BY <2>1 DEF Nested
  <2>2. CASE m.type # "error"
    <3>1. m.errors = <<>> /\ Len(m.errors) = 0
      BY <2>2
    <3>2. QED
      BY <3>1
  <2>3. QED
    BY <2>1, <2>2
<1>5. ASSUME NEW i \in 1 .. Len(e)
      PROVE  e[i].tell \in Node
  <2>1. CASE i = Len(e)
    BY <1>1, <1>2, <1>3, <2>1
  <2>2. CASE i # Len(e)
    <3>1. i \in 1 .. Len(m.errors)
      BY <1>3, <2>2
    <3>2. QED
      BY <1>3, <1>4, <3>1
  <2>3. QED
    BY <2>1, <2>2
<1>6. ASSUME NEW i \in 1 .. Len(e) - 1
      PROVE  e[i].tell # e[i + 1].tell
  <2>1. i \in 1 .. Len(m.errors) /\ e[i] = m.errors[i]
    BY <1>3
  <2>2. CASE i = Len(m.errors)
    <3>1. e[i].tell = m.dest /\ e[i + 1].tell = m.src
      BY <1>2, <1>3, <1>4, <2>1, <2>2
    <3>2. QED
      BY <3>1
  <2>3. CASE i # Len(m.errors)
    <3>1. i \in 1 .. Len(m.errors) - 1 /\ i + 1 \in 1 .. Len(m.errors)
      BY <1>3, <2>1, <2>3
    <3>2. QED
      BY <1>3, <1>4, <2>1, <3>1
  <2>4. QED
    BY <2>2, <2>3
<1>7. Nested(e, m.src)
  BY <1>2, <1>3, <1>5, <1>6 DEF Nested
<1>8. QED
  BY <1>3, <1>7 DEF e, d

\* The error that a packet is turned into, on the way back to the packet's source.
LEMMA ErrorIsGood ==
  ASSUME NEW L, NEW ro, NEW p, GoodUnicast(p, L, ro), p.cur > 1, NEW q \in ErrorFor(p)
  PROVE  GoodPacket(q, L, ro)
<1> DEFINE x == Sender(p)
           r == Reverse(SubSeq(p.route, 1, p.cur - 1))
           e == Append(p.msg.errors, [tell |-> p.route[1], from |-> x, to |-> p.to])
           m == [Message("error", x, p.route[1]) EXCEPT !.errors = e]
<1>1. /\ p \in Pkt /\ GoodMsg(p.msg, L, ro)
      /\ GoodPath(p.route, L, ro) /\ Good(p.route, L, ro) /\ p.route \in Seq(Node)
      /\ p.cur \in 1 .. Len(p.route)
      /\ p.route[1] = p.msg.src
  BY DEF GoodUnicast, GoodPath, Good
<1>2. Len(p.route) \in Nat /\ p.route \in [1 .. Len(p.route) -> Node]
  BY <1>1, LenProperties
<1>3. /\ p.route[1] # x /\ Len(p.msg.errors) < MaxErrors /\ q = Unicast(m, r, 1)
  <2>1. p.route[1] # x /\ ~(Len(p.msg.errors) >= MaxErrors) /\ q = Unicast(m, r, 1)
    BY DEF ErrorFor
  <2>2. Len(p.msg.errors) \in Nat
    BY <1>1, LenProperties DEF GoodMsg, Msg
  <2>3. QED
    BY <2>1, <2>2, NetworkConstants
<1>4. p.cur - 1 \in 2 .. Len(p.route) /\ p.cur - 1 \in 1 .. Len(p.route)
  <2>1. x = p.route[p.cur - 1]
    BY DEF Sender
  <2>2. p.cur - 1 # 1
    BY <1>3, <2>1
  <2>3. QED
    BY <1>1, <1>2, <2>2
<1>5. x \in Node /\ p.route[1] \in Node /\ p.to \in Node
  BY <1>1, <1>2, <1>4 DEF Sender, Pkt
<1>6. e \in Seq(LinkDown) /\ Len(e) = Len(p.msg.errors) + 1 /\ Nested(e, p.msg.src)
  BY <1>1, <1>5, NestMore DEF GoodMsg
<1> HIDE DEF e
<1>7. /\ GoodMsg(m, L, ro) /\ m.src = x /\ m.dest = p.route[1]
  <2>1. m = [type |-> "error", src |-> x, dest |-> p.route[1], seq |-> 0,
             reply |-> <<>>, errors |-> e]
    BY DEF Message
  <2>2. 0 \in 0 .. MaxSeq /\ <<>> \in Seq(Node) /\ Len(e) <= MaxErrors
    <3>1. Len(p.msg.errors) \in Nat
      BY <1>1, LenProperties DEF GoodMsg, Msg
    <3>2. QED
      BY <1>3, <1>6, <3>1, NetworkConstants, EmptySeq
  <2>3. /\ m \in Msg /\ m.type = "error" /\ m.src = x /\ m.dest = p.route[1]
        /\ m.reply = <<>> /\ m.errors = e
    BY <1>5, <1>6, <2>1, <2>2 DEF Msg
  <2> HIDE DEF m, x
  <2>4. QED
    BY <1>1, <1>3, <1>6, <2>2, <2>3 DEF GoodMsg
<1> HIDE DEF m
<1>8. GoodPath(r, L, ro) /\ r[1] = x /\ r[Len(r)] = p.route[1]
  <2> DEFINE a == SubSeq(p.route, 1, p.cur - 1)
  <2>1. 1 \in 1 .. Len(p.route) /\ p.cur - 1 \in 1 .. Len(p.route)
        /\ p.cur - 1 - 1 + 1 = p.cur - 1 /\ 1 \in 1 .. p.cur - 1 /\ p.cur - 1 \in 1 .. p.cur - 1
        /\ 1 + 1 - 1 = 1 /\ 1 + (p.cur - 1) - 1 = p.cur - 1
    BY <1>2, <1>4
  <2>2. Good(a, L, ro)
    BY <1>1, <2>1, GoodPart
  <2>3. Len(a) = p.cur - 1 /\ a[1] = p.route[1] /\ a[p.cur - 1] = p.route[p.cur - 1]
    BY <1>1, <2>1, PartOf
  <2>4. Len(a) >= 2
    BY <1>2, <1>4, <2>3
  <2>5. GoodPath(a, L, ro)
    BY <2>2, <2>4 DEF GoodPath
  <2> HIDE DEF a
  <2>6. GoodPath(Reverse(a), L, ro) /\ Reverse(a)[1] = a[Len(a)]
        /\ Len(Reverse(a)) = Len(a) /\ Reverse(a)[Len(a)] = a[1]
    BY <2>5, BackPath
  <2>7. QED
    BY <2>3, <2>6 DEF a, Sender
<1>9. QED
  BY <1>3, <1>7, <1>8, StartsOut

\* What is left of an error when the one it was addressed to takes it.
LEMMA UnwrappedIsGood ==
  ASSUME NEW L, NEW ro, NEW m, GoodMsg(m, L, ro), m.type = "error",
         NEW n \in Node, Last(m.errors).tell = n, Len(m.errors) # 1
  PROVE  Own(NextError(n, m), n, L, ro)
<1> DEFINE e == Front(m.errors)
           k == Len(m.errors)
           d == m.errors[k - 1].tell
           z == NextError(n, m)
<1>1. /\ m \in Msg /\ k <= MaxErrors /\ m.reply = <<>>
      /\ Nested(m.errors, m.dest) /\ m.errors \in Seq(LinkDown)
  BY DEF GoodMsg, Msg
<1>2. k \in Nat /\ k - 1 \in 1 .. k - 1 /\ k - 1 \in Nat /\ (k - 1) + 1 = k
  <2>1. k \in Nat /\ k >= 1 /\ k # 1
    BY <1>1, LenProperties DEF Nested
  <2>2. \A i \in Nat : i >= 1 /\ i # 1 => i - 1 \in 1 .. i - 1 /\ i - 1 \in Nat /\ (i - 1) + 1 = i
    OBVIOUS
  <2>3. QED
    BY <2>1, <2>2
<1>3. /\ e \in Seq(LinkDown) /\ Len(e) = k - 1
      /\ \A i \in 1 .. k - 1 : e[i] = m.errors[i]
  <2>1. /\ \A i \in 1 .. k - 1 : m.errors[i] \in LinkDown
        /\ 1 \in Int /\ k - 1 \in Int /\ k - 1 - 1 + 1 = k - 1 /\ 1 <= k - 1
        /\ \A i \in 1 .. k - 1 : 1 + i - 1 = i
    BY <1>1, <1>2, LenProperties
  <2>2. e = SubSeq(m.errors, 1, k - 1)
    BY DEF Front
  <2>3. /\ e \in Seq(LinkDown) /\ Len(e) = k - 1 - 1 + 1
        /\ \A i \in 1 .. k - 1 - 1 + 1 : e[i] = m.errors[1 + i - 1]
    <3> HIDE DEF e, k
    <3>1. QED
      BY <2>1, <2>2, SubSeqProperties
  <2>4. QED
    BY <2>1, <2>3
<1> HIDE DEF e
<1>4. /\ \A i \in 1 .. k : m.errors[i].tell \in Node
      /\ \A i \in 1 .. k - 1 : m.errors[i].tell # m.errors[i + 1].tell
  BY <1>1 DEF Nested
<1>5. d \in Node /\ d # n
  <2>1. k - 1 \in 1 .. k /\ m.errors[k].tell = n
    BY <1>2 DEF Last
  <2>2. QED
    BY <1>2, <1>4, <2>1
<1>6. Nested(e, d)
  <2>1. \A i \in 1 .. Len(e) : e[i].tell \in Node
    BY <1>2, <1>3, <1>4
  <2>2. ASSUME NEW i \in 1 .. Len(e) - 1
        PROVE  e[i].tell # e[i + 1].tell
    <3>1. i \in 1 .. k - 1 /\ i + 1 \in 1 .. k - 1
      BY <1>2, <1>3
    <3>2. QED
      BY <1>3, <1>4, <3>1
  <2>3. e[Len(e)].tell = d /\ Len(e) >= 1
    BY <1>2, <1>3
  <2>4. QED
    BY <2>1, <2>2, <2>3 DEF Nested
<1>7. /\ z \in Msg /\ z.type = "error" /\ z.src = n /\ z.dest = d /\ z.errors = e
      /\ z.reply = <<>>
  <2>1. z = [m EXCEPT !.src = n, !.errors = e, !.dest = d]
    BY DEF NextError, e
  <2> HIDE DEF z, d
  <2>2. QED
    BY <1>1, <1>3, <1>5, <2>1 DEF Msg
<1> HIDE DEF z, d
<1>8. Len(z.errors) <= MaxErrors
  BY <1>1, <1>2, <1>3, <1>7, NetworkConstants
<1>9. GoodMsg(z, L, ro)
  BY <1>5, <1>6, <1>7, <1>8 DEF GoodMsg
<1>10. QED
  BY <1>7, <1>9 DEF Own, z

-----------------------------------------------------------------------------
(* What a step does to each part of the invariant *)

\* A packet on the air is a request so far or a packet on its source route.
LEMMA KindOf ==
  ASSUME Air, NEW p \in air
  PROVE  /\ p \in Pkt /\ p.to \in Node /\ p.msg \in Msg
         /\ p.msg.type = "request" => GoodRequest(p, seen, role)
         /\ p.msg.type # "request" => GoodUnicast(p, seen, role)
<1>1. GoodRequest(p, seen, role) \/ GoodUnicast(p, seen, role)
  BY DEF Air, GoodPacket
<1>2. CASE GoodRequest(p, seen, role)
  BY <1>2 DEF GoodRequest, Pkt
<1>3. CASE GoodUnicast(p, seen, role)
  BY <1>3 DEF GoodUnicast, GoodMsg, Pkt
<1>4. QED
  BY <1>1, <1>2, <1>3

\* A step that leaves the tables and lists alone.
LEMMA SetupStep ==
  ASSUME Setup, left' \in {"null", "freed"},
         UNCHANGED <<setup, links, table, reqNum, held, listed, faulty, seen, moves>>
  PROVE  Setup'
BY DEF Setup, setup

\* A step that takes packets from the air and puts good ones there.
LEMMA AirStep ==
  ASSUME Air, UNCHANGED <<setup, seen>>, NEW X, NEW Y, IsFiniteSet(Y),
         \A q \in Y : GoodPacket(q, seen, role), air' = (air \ X) \cup Y
  PROVE  Air'
<1>1. IsFiniteSet(air')
  BY FiniteChange DEF Air
<1>2. \A q \in air' : GoodPacket(q, seen, role)
  BY DEF Air
<1>3. QED
  BY <1>1, <1>2 DEF Air, setup

\* A step that only takes packets from the air.
LEMMA AirLess ==
  ASSUME Air, UNCHANGED <<setup, seen>>, NEW X, air' = air \ X
  PROVE  Air'
<1>1. air' \in SUBSET air
  OBVIOUS
<1>2. IsFiniteSet(air')
  BY <1>1, FS_Subset DEF Air
<1>3. QED
  BY <1>2 DEF Air, setup

\* A step that takes packets from the air and puts a good one there.
LEMMA AirSwap ==
  ASSUME Air, UNCHANGED <<setup, seen>>, NEW X, NEW q, GoodPacket(q, seen, role),
         air' = (air \ X) \cup {q}
  PROVE  Air'
<1>1. IsFiniteSet({q})
  BY FS_Singleton
<1>2. QED
  BY <1>1, AirStep

\* A step that gives node n other paths of its own.
LEMMA CacheStep ==
  ASSUME Cache, UNCHANGED <<setup, seen>>, NEW n \in Node, NEW P,
         \A r \in P : OwnPath(r, n, seen, role), routes' = [routes EXCEPT ![n] = P]
  PROVE  Cache'
<1>1. routes' = [k \in Node |-> IF k = n THEN P ELSE routes[k]]
  BY DEF Cache
<1>2. \A k \in Node : \A r \in routes'[k] : OwnPath(r, k, seen, role)
  BY <1>1 DEF Cache
<1>3. routes' = [k \in Node |-> routes'[k]]
  BY <1>1
<1>4. QED
  BY <1>2, <1>3 DEF Cache, setup

\* A step that purges the links of errors from node n's paths.
LEMMA PurgeStep ==
  ASSUME Cache, UNCHANGED <<setup, seen>>, NEW n \in Node, NEW e, routes' = Purge(n, e)
  PROVE  Cache'
<1>1. routes' = [routes EXCEPT ![n] = Without(routes[n], Dead(e))]
  BY DEF Purge
<1>2. \A r \in Without(routes[n], Dead(e)) : OwnPath(r, n, seen, role)
  BY WithoutPaths DEF Cache
<1>3. QED
  BY <1>1, <1>2, CacheStep

\* A step that gives node n other messages of its own to wait.
LEMMA WaitingStep ==
  ASSUME Waiting, UNCHANGED <<setup, seen>>, NEW n \in Node, NEW S, IsFiniteSet(S),
         \A m \in S : Own(m, n, seen, role), waiting' = [waiting EXCEPT ![n] = S]
  PROVE  Waiting'
<1>1. waiting' = [k \in Node |-> IF k = n THEN S ELSE waiting[k]]
  BY DEF Waiting
<1>2. \A k \in Node :
        IsFiniteSet(waiting'[k]) /\ \A m \in waiting'[k] : Own(m, k, seen, role)
  BY <1>1 DEF Waiting
<1>3. waiting' = [k \in Node |-> waiting'[k]]
  BY <1>1
<1>4. QED
  BY <1>2, <1>3 DEF Waiting, setup

\* A step that takes messages out of node n's buffer.
LEMMA WaitingLess ==
  ASSUME Waiting, UNCHANGED <<setup, seen>>, NEW n \in Node, NEW X,
         waiting' = [waiting EXCEPT ![n] = waiting[n] \ X]
  PROVE  Waiting'
<1>1. waiting[n] \ X \in SUBSET waiting[n] /\ IsFiniteSet(waiting[n])
  BY DEF Waiting
<1>2. IsFiniteSet(waiting[n] \ X)
  BY <1>1, FS_Subset
<1>3. \A m \in waiting[n] \ X : Own(m, n, seen, role)
  BY DEF Waiting
<1>4. QED
  BY <1>2, <1>3, WaitingStep

\* A step that leaves node n a finite set of its own messages to route.
LEMMA TodoStep ==
  ASSUME UNCHANGED <<setup, seen>>, NEW n \in Node, NEW S, IsFiniteSet(S),
         \A m \in S : Own(m, n, seen, role), NEW s \in SetToSeqs(S),
         todo' = [i \in DOMAIN s |-> [at |-> n, msg |-> s[i]]]
  PROVE  Todo'
<1>1. s \in Seq(S) /\ DOMAIN s = 1 .. Len(s) /\ \A i \in 1 .. Len(s) : s[i] \in S
  BY ToSeqs
<1>2. Len(s) \in Nat
  BY <1>1, LenProperties
<1>3. todo' = [i \in 1 .. Len(s) |-> [at |-> n, msg |-> s[i]]]
  BY <1>1
<1>4. \A i \in 1 .. Len(s) : s[i] \in Msg
  BY <1>1 DEF Own, GoodMsg
<1>5. todo' \in [1 .. Len(s) -> [at : Node, msg : Msg]]
  BY <1>3, <1>4
<1>6. todo' \in Seq([at : Node, msg : Msg]) /\ Len(todo') = Len(s)
  BY <1>2, <1>5
<1>7. \A i \in 1 .. Len(s) : Own(todo'[i].msg, todo'[i].at, seen, role)
  BY <1>1, <1>3
<1>8. QED
  BY <1>6, <1>7 DEF Todo, setup

\* A step that leaves node n one message of its own to route.
LEMMA TodoOne ==
  ASSUME UNCHANGED <<setup, seen>>, NEW n \in Node, NEW m, Own(m, n, seen, role),
         todo' = <<[at |-> n, msg |-> m]>>
  PROVE  Todo'
<1>1. [at |-> n, msg |-> m] \in [at : Node, msg : Msg]
  BY DEF Own, GoodMsg
<1>2. /\ todo' \in Seq([at : Node, msg : Msg]) /\ Len(todo') = 1
      /\ todo'[1].msg = m /\ todo'[1].at = n
  BY <1>1
<1>3. \A i \in 1 .. Len(todo') : i = 1
  BY <1>2
<1>4. \A i \in 1 .. Len(todo') : Own(todo'[i].msg, todo'[i].at, seen, role)
  BY <1>2, <1>3
<1>5. QED
  BY <1>2, <1>4 DEF Todo, setup

\* The message that is to be routed next is its node's own, and so are the rest.
LEMMA NextOwn ==
  ASSUME Todo, ~Idle
  PROVE  /\ n0 \in Node /\ Own(m0, n0, seen, role)
         /\ UNCHANGED <<setup, seen>> /\ todo' = Tail(todo) => Todo'
<1>1. /\ todo \in Seq([at : Node, msg : Msg]) /\ todo # <<>> /\ Len(todo) \in Nat
      /\ Len(todo) >= 1
      /\ \A i \in 1 .. Len(todo) : Own(todo[i].msg, todo[i].at, seen, role)
  <2>1. todo \in Seq([at : Node, msg : Msg]) /\ todo # <<>>
    BY DEF Todo, Idle
  <2>2. Len(todo) \in Nat \ {0}
    BY <2>1, EmptySeq
  <2>3. QED
    BY <2>1, <2>2 DEF Todo
<1>2. 1 \in 1 .. Len(todo)
  BY <1>1
<1>3. todo[1] \in [at : Node, msg : Msg]
  BY <1>1, <1>2, ElementOfSeq
<1>4. n0 \in Node /\ Own(m0, n0, seen, role)
  BY <1>1, <1>2, <1>3 DEF n0, m0
<1>5. ASSUME UNCHANGED <<setup, seen>>, todo' = Tail(todo)
      PROVE  Todo'
  <2>1. /\ todo' \in Seq([at : Node, msg : Msg]) /\ Len(todo') = Len(todo) - 1
        /\ \A i \in 1 .. Len(todo') : todo'[i] = todo[i + 1]
    BY <1>1, <1>5, HeadTailProperties
  <2>2. \A i \in 1 .. Len(todo') : Own(todo'[i].msg, todo'[i].at, seen, role)
    <3> SUFFICES ASSUME NEW i \in 1 .. Len(todo')
                 PROVE  Own(todo'[i].msg, todo'[i].at, seen, role)
      OBVIOUS
    <3>1. i + 1 \in 1 .. Len(todo) /\ todo'[i] = todo[i + 1]
      BY <1>1, <2>1
    <3>2. QED
      BY <1>1, <3>1
  <2>3. QED
    BY <1>5, <2>1, <2>2 DEF Todo, setup
<1>6. QED
  BY <1>4, <1>5

\* What processBrokenRouteError does.
LEMMA BrokenStep ==
  ASSUME Setup, Cache, Todo, UNCHANGED <<setup, seen>>, NEW n \in Node,
         NEW m, GoodMsg(m, seen, role), m.type = "error",
         processBrokenRouteError(n, m)
  PROVE  /\ Cache' /\ Todo'
         /\ held' \in [Node -> (Node \X Node) \cup {NoError}]
<1>1. Cache'
  BY PurgeStep DEF processBrokenRouteError
<1>2. held \in [Node -> (Node \X Node) \cup {NoError}]
  BY DEF Setup
<1>3. CASE Last(m.errors).tell = n
  <2>1. /\ held' = [held EXCEPT ![n] = <<Last(m.errors).from, Last(m.errors).to>>]
        /\ todo' = IF Len(m.errors) = 1 THEN <<>> ELSE <<[at |-> n, msg |-> NextError(n, m)]>>
    <3>1. m.errors # <<>>
      BY EmptySeq DEF GoodMsg, Nested
    <3>2. QED
      BY <1>3, <3>1 DEF processBrokenRouteError, TakeError
  <2>2. Last(m.errors) \in LinkDown
    <3>1. m.errors \in Seq(LinkDown) /\ Len(m.errors) >= 1
      BY DEF GoodMsg, Msg, Nested
    <3>2. Len(m.errors) \in 1 .. Len(m.errors)
      BY <3>1, LenProperties
    <3>3. QED
      BY <3>1, <3>2, ElementOfSeq DEF Last
  <2>3. <<Last(m.errors).from, Last(m.errors).to>> \in Node \X Node
    BY <2>2 DEF LinkDown
  <2>4. held' \in [Node -> (Node \X Node) \cup {NoError}]
    BY <1>2, <2>1, <2>3
  <2>5. Todo'
    <3>1. CASE Len(m.errors) = 1
      <4>1. todo' = <<>> /\ todo' \in Seq([at : Node, msg : Msg]) /\ Len(todo') = 0
        BY <2>1, <3>1
      <4>2. QED
        BY <4>1 DEF Todo
    <3>2. CASE Len(m.errors) # 1
      <4>1. Own(NextError(n, m), n, seen, role)
        BY <1>3, <3>2, UnwrappedIsGood
      <4>2. todo' = <<[at |-> n, msg |-> NextError(n, m)]>>
        BY <2>1, <3>2
      <4>3. QED
        BY <4>1, <4>2, TodoOne
    <3>3. QED
      BY <3>1, <3>2
  <2>6. QED
    BY <1>1, <2>4, <2>5
<1>4. CASE Last(m.errors).tell # n
  <2>1. UNCHANGED <<held, todo>>
    BY <1>4 DEF processBrokenRouteError, TakeError
  <2>2. QED
    BY <1>1, <1>2, <2>1 DEF Todo, setup
<1>5. QED
  BY <1>3, <1>4

-----------------------------------------------------------------------------
(* The steps of a packet's source *)

\* A new packet is its source's own, and for another node.
LEMMA OriginateStep ==
  ASSUME IInv, NEW s \in Node, NEW d \in Node, Originate(s, d)
  PROVE  IInv'
<1> USE DEF IInv
<1> DEFINE m == Message("data", s, d)
<1>1. Own(m, s, seen, role)
  <2>1. s # d
    <3>1. <<s, d>> \in Flow
      BY DEF Originate
    <3>2. \A f \in Flow : f[1] # f[2]
      BY NetworkConstants
    <3>3. <<s, d>>[1] # <<s, d>>[2]
      BY <3>1, <3>2
    <3>4. QED
      BY <3>3
  <2>2. m = [type |-> "data", src |-> s, dest |-> d, seq |-> 0, reply |-> <<>>, errors |-> <<>>]
    BY DEF Message
  <2>3. 0 \in 0 .. MaxSeq /\ <<>> \in Seq(Node) /\ <<>> \in Seq(LinkDown) /\ Len(<<>>) <= MaxErrors
    BY NetworkConstants, EmptySeq
  <2>4. /\ m \in Msg /\ m.type = "data" /\ m.src = s /\ m.dest = d
        /\ m.reply = <<>> /\ m.errors = <<>>
    <3> HIDE DEF m
    <3>1. QED
      BY <2>2, <2>3 DEF Msg
  <2> HIDE DEF m
  <2>5. QED
    BY <2>1, <2>3, <2>4 DEF Own, GoodMsg
<1>2. /\ todo' = <<[at |-> s, msg |-> m]>> /\ left' = "null"
      /\ UNCHANGED <<setup, links, air, routes, table, reqNum, waiting, held, listed,
                     faulty, seen, moves>>
  BY DEF Originate
<1> HIDE DEF m
<1>3. Todo'
  BY <1>1, <1>2, TodoOne
<1>4. Setup' /\ Air' /\ Cache' /\ Waiting'
  BY <1>2, SetupStep DEF Air, Cache, Waiting, setup
<1>5. QED
  BY <1>3, <1>4

\* A packet from the send buffer is the node's own.
LEMMA RetryStep ==
  ASSUME IInv, NEW n \in Node, NEW m \in waiting[n], Retry(n, m)
  PROVE  IInv'
<1> USE DEF IInv
<1>1. /\ todo' = <<[at |-> n, msg |-> m]>> /\ left' = "null"
      /\ waiting' = [waiting EXCEPT ![n] = waiting[n] \ {m}]
      /\ UNCHANGED <<setup, links, air, routes, table, reqNum, held, listed, faulty,
                     seen, moves>>
  BY DEF Retry
<1>2. Own(m, n, seen, role)
  BY DEF Waiting
<1>3. Todo'
  BY <1>1, <1>2, TodoOne
<1>4. Waiting'
  BY <1>1, WaitingLess
<1>5. Setup' /\ Air' /\ Cache'
  BY <1>1, SetupStep DEF Air, Cache, setup
<1>6. QED
  BY <1>3, <1>4, <1>5

\* A packet that has waited too long leaves the send buffer.
LEMMA SendTimeoutStep ==
  ASSUME IInv, NEW n \in Node, NEW m \in waiting[n], SendTimeout(n, m)
  PROVE  IInv'
<1> USE DEF IInv
<1>1. /\ left' = "null"
      /\ waiting' = [waiting EXCEPT ![n] = waiting[n] \ {m}]
      /\ UNCHANGED <<setup, links, air, routes, table, reqNum, held, listed, faulty, todo,
                     seen, moves>>
  BY DEF SendTimeout
<1>2. Waiting'
  BY <1>1, WaitingLess
<1>3. Setup' /\ Air' /\ Cache' /\ Todo'
  BY <1>1, SetupStep DEF Air, Cache, Todo, setup
<1>4. QED
  BY <1>2, <1>3

\* A packet with a route starts out on it.
LEMMA SendOutStep ==
  ASSUME IInv, SendOut
  PROVE  IInv'
<1> USE DEF IInv
<1>1. PICK r \in Shortest(routes[n0], m0.dest) : air' = air \cup {Unicast(m0, r, 1)}
  BY DEF SendOut
<1>2. /\ ~Idle /\ todo' = Tail(todo) /\ left' = "null"
      /\ UNCHANGED <<setup, links, routes, table, reqNum, waiting, held, listed, faulty,
                     seen, moves>>
  BY DEF SendOut
<1>3. n0 \in Node /\ Own(m0, n0, seen, role) /\ Todo'
  BY <1>2, NextOwn
<1>4. OwnPath(r, n0, seen, role) /\ r[Len(r)] = m0.dest
  BY <1>3, FoundPath DEF Cache
<1>5. GoodPacket(Unicast(m0, r, 1), seen, role)
  BY <1>3, <1>4, StartsOut DEF Own, OwnPath
<1>6. Air'
  <2>1. air' = (air \ {}) \cup {Unicast(m0, r, 1)}
    BY <1>1
  <2>2. QED
    BY <1>2, <1>5, <2>1, AirSwap
<1>7. Setup' /\ Cache' /\ Waiting'
  BY <1>2, SetupStep DEF Cache, Waiting, setup
<1>8. QED
  BY <1>3, <1>6, <1>7

\* The packet that starts to wait joins those of its node.
LEMMA OneMoreWaits ==
  ASSUME Waiting, Todo, ~Idle, UNCHANGED <<setup, seen>>,
         waiting' = [waiting EXCEPT ![n0] = waiting[n0] \cup {m0}]
  PROVE  Waiting'
<1>1. n0 \in Node /\ Own(m0, n0, seen, role)
  BY NextOwn
<1>2. IsFiniteSet(waiting[n0] \cup {m0})
  BY <1>1, FS_AddElement DEF Waiting
<1>3. \A m \in waiting[n0] \cup {m0} : Own(m, n0, seen, role)
  BY <1>1 DEF Waiting
<1>4. QED
  BY <1>1, <1>2, <1>3, WaitingStep

\* A packet without a route waits.
LEMMA WaitStep ==
  ASSUME IInv, Wait
  PROVE  IInv'
<1> USE DEF IInv
<1>1. /\ ~Idle /\ todo' = Tail(todo) /\ left' = "null"
      /\ waiting' = [waiting EXCEPT ![n0] = waiting[n0] \cup {m0}]
      /\ UNCHANGED <<setup, links, air, routes, table, reqNum, held, listed, faulty,
                     seen, moves>>
  BY DEF Wait
<1>2. Todo' /\ Waiting'
  BY <1>1, NextOwn, OneMoreWaits
<1>3. Setup' /\ Air' /\ Cache'
  BY <1>1, SetupStep DEF Air, Cache, setup
<1>4. QED
  BY <1>2, <1>3

\* The request that node n sends for message m.
NewRequest(n, m) ==
  [Message("request", n, m.dest) EXCEPT !.seq = reqNum[n], !.errors = HeldErrors(n)]

\* It starts out as a request should.
LEMMA RequestIsGood ==
  ASSUME Setup, NEW n \in Node, NEW m, Own(m, n, seen, role), reqNum[n] <= MaxSeq,
         NEW q \in Broadcast(NewRequest(n, m), <<n>>, n)
  PROVE  GoodPacket(q, seen, role)
<1> DEFINE z == NewRequest(n, m)
           r == <<n>>
<1>1. PICK k \in Node : /\ {n, k} \in links
                        /\ q = [msg |-> z, route |-> r, cur |-> Len(r), to |-> k]
  BY DEF Broadcast, Neighbour, Packet
<1>2. m.src = n /\ m.dest \in Node /\ m.dest # n
  BY DEF Own, GoodMsg, Msg
<1>3. reqNum[n] \in 0 .. MaxSeq
  <2>1. reqNum[n] \in 1 .. MaxSeq + 1
    BY DEF Setup
  <2>2. QED
    BY <2>1, NetworkConstants
<1>4. HeldErrors(n) \in Seq(LinkDown) /\ Len(HeldErrors(n)) <= MaxErrors /\ Len(HeldErrors(n)) <= 1
  <2>1. CASE held[n] = NoError
    <3>1. HeldErrors(n) = <<>> /\ Len(<<>>) = 0 /\ <<>> \in Seq(LinkDown)
      BY <2>1, EmptySeq DEF HeldErrors
    <3>2. QED
      BY <3>1, NetworkConstants
  <2>2. CASE held[n] # NoError
    <3> DEFINE d == [tell |-> Gratuitous, from |-> held[n][1], to |-> held[n][2]]
    <3>1. held[n] \in Node \X Node
      BY <2>2 DEF Setup
    <3>2. d \in LinkDown
      BY <3>1 DEF LinkDown
    <3>3. HeldErrors(n) = <<d>>
      BY <2>2 DEF HeldErrors
    <3> HIDE DEF d
    <3>4. <<d>> \in Seq(LinkDown) /\ Len(<<d>>) = 1
      BY <3>2
    <3>5. QED
      BY <3>3, <3>4, NetworkConstants
  <2>3. QED
    BY <2>1, <2>2
<1>5. /\ z \in Msg /\ z.type = "request" /\ z.src = n /\ z.dest = m.dest
      /\ z.reply = <<>> /\ z.errors = HeldErrors(n)
  <2>1. z = [type |-> "request", src |-> n, dest |-> m.dest, seq |-> reqNum[n],
             reply |-> <<>>, errors |-> HeldErrors(n)]
    <3> DEFINE x == Message("request", n, m.dest)
               y == [x EXCEPT !.seq = reqNum[n]]
    <3>1. x = [type |-> "request", src |-> n, dest |-> m.dest, seq |-> 0,
               reply |-> <<>>, errors |-> <<>>]
      BY DEF Message
    <3>2. z = [x EXCEPT !.seq = reqNum[n], !.errors = HeldErrors(n)]
      BY DEF NewRequest
    <3> HIDE DEF x, z
    <3>3. y = [type |-> "request", src |-> n, dest |-> m.dest, seq |-> reqNum[n],
               reply |-> <<>>, errors |-> <<>>]
      BY <3>1
    <3>4. z = [y EXCEPT !.errors = HeldErrors(n)]
      BY <3>2
    <3> HIDE DEF y
    <3>5. QED
      BY <3>3, <3>4
  <2>2. <<>> \in Seq(Node)
    BY EmptySeq
  <2> HIDE DEF z
  <2>3. QED
    BY <1>2, <1>3, <1>4, <2>1, <2>2 DEF Msg
<1> HIDE DEF z
<1>6. r \in Seq(Node) /\ Len(r) = 1 /\ r[1] = n
  OBVIOUS
<1> HIDE DEF r
<1>7. /\ \A i \in 1 .. Len(r) : i = 1
      /\ \A i \in 1 .. Len(r) - 1 : FALSE
      /\ \A i \in 2 .. Len(r) : FALSE
      /\ \A i \in 2 .. Len(r) - 1 : FALSE
  BY <1>6
<1>8. Good(r, seen, role)
  BY <1>6, <1>7, NetworkConstants DEF Good
<1>9. q \in Pkt /\ q.msg = z /\ q.route = r /\ q.cur = 1 /\ q.to = k
  BY <1>1, <1>5, <1>6 DEF Pkt
<1>10. {r[Len(r)], k} \in seen
  <2>1. links \subseteq seen
    BY DEF Setup
  <2>2. QED
    BY <1>1, <1>6, <2>1
<1>11. GoodRequest(q, seen, role)
  <2>1. /\ q.msg.type = "request" /\ Len(q.msg.errors) <= 1 /\ Len(q.msg.errors) <= MaxErrors
        /\ q.msg.reply = <<>> /\ Good(q.route, seen, role) /\ Len(q.route) >= 1 /\ q.cur = Len(q.route)
        /\ q.route[1] = q.msg.src /\ q.msg.dest # n
    <3>1. /\ q.msg.type = "request" /\ q.msg.reply = <<>>
          /\ Len(q.msg.errors) <= 1 /\ Len(q.msg.errors) <= MaxErrors
      BY <1>4, <1>5, <1>9
    <3>2. Good(q.route, seen, role) /\ Len(q.route) >= 1 /\ q.cur = Len(q.route)
      <4>1. q.route = r /\ q.cur = 1
        BY <1>9
      <4>2. Good(r, seen, role) /\ Len(r) = 1
        BY <1>6, <1>8
      <4>3. \A x : x = 1 => x >= 1
        OBVIOUS
      <4>4. QED
        BY <4>1, <4>2, <4>3
    <3>3. q.route[1] = q.msg.src /\ q.msg.dest # n
      BY <1>2, <1>5, <1>6, <1>9
    <3>4. QED
      BY <3>1, <3>2, <3>3
  <2>2. \A i \in 2 .. Len(q.route) : role[q.route[i]] # "selfish"
    BY <1>7, <1>9
  <2>3. {q.route[Len(q.route)], q.to} \in seen
    BY <1>9, <1>10
  <2>4. \A i \in 1 .. Len(q.route) : q.route[i] # q.msg.dest
    BY <1>6, <1>7, <1>9, <2>1
  <2>5. QED
    BY <1>9, <2>1, <2>2, <2>3, <2>4 DEF GoodRequest
<1>12. QED
  BY <1>11 DEF GoodPacket

\* A packet without a route waits, and its node asks for one.
LEMMA RequestStep ==
  ASSUME IInv, Request
  PROVE  IInv'
<1> USE DEF IInv
<1>1. /\ ~Idle /\ todo' = Tail(todo) /\ left' = "null"
      /\ reqNum[n0] <= MaxSeq
      /\ waiting' = [waiting EXCEPT ![n0] = waiting[n0] \cup {m0}]
      /\ air' = air \cup Broadcast(NewRequest(n0, m0), <<n0>>, n0)
      /\ reqNum' = [reqNum EXCEPT ![n0] = reqNum[n0] + 1]
      /\ held' = [held EXCEPT ![n0] = NoError]
      /\ UNCHANGED <<setup, links, routes, table, listed, faulty, seen, moves>>
  BY DEF Request, NewRequest
<1>2. n0 \in Node /\ Own(m0, n0, seen, role) /\ Todo' /\ Waiting'
  BY <1>1, NextOwn, OneMoreWaits
<1>3. Air'
  <2> DEFINE Y == Broadcast(NewRequest(n0, m0), <<n0>>, n0)
  <2>1. IsFiniteSet(Y)
    BY FiniteBroadcast
  <2>2. \A q \in Y : GoodPacket(q, seen, role)
    BY <1>1, <1>2, RequestIsGood
  <2>3. air' = (air \ {}) \cup Y
    BY <1>1
  <2> HIDE DEF Y
  <2>4. QED
    BY <1>1, <2>1, <2>2, <2>3, AirStep
<1>4. Setup'
  <2>1. reqNum \in [Node -> 1 .. MaxSeq + 1] /\ reqNum[n0] \in 1 .. MaxSeq + 1
    BY <1>2 DEF Setup
  <2>2. reqNum[n0] + 1 \in 1 .. MaxSeq + 1
    BY <1>1, <2>1, NetworkConstants
  <2>3. reqNum' \in [Node -> 1 .. MaxSeq + 1]
    BY <1>1, <2>1, <2>2
  <2>4. held' \in [Node -> (Node \X Node) \cup {NoError}]
    BY <1>1, <1>2 DEF Setup
  <2>5. QED
    BY <1>1, <2>3, <2>4 DEF Setup, setup
<1>5. Cache'
  BY <1>1 DEF Cache, setup
<1>6. QED
  BY <1>2, <1>3, <1>4, <1>5

\* A held error expires.
LEMMA HoldExpiresStep ==
  ASSUME IInv, NEW n \in Node, HoldExpires(n)
  PROVE  IInv'
<1> USE DEF IInv
<1>1. /\ left' = "null" /\ held' = [held EXCEPT ![n] = NoError]
      /\ UNCHANGED <<setup, links, air, routes, table, reqNum, waiting, listed, faulty,
                     todo, seen, moves>>
  BY DEF HoldExpires
<1>2. held' \in [Node -> (Node \X Node) \cup {NoError}]
  BY <1>1 DEF Setup
<1>3. Setup'
  BY <1>1, <1>2 DEF Setup, setup
<1>4. Air' /\ Cache' /\ Waiting' /\ Todo'
  BY <1>1 DEF Air, Cache, Waiting, Todo, setup
<1>5. QED
  BY <1>3, <1>4

-----------------------------------------------------------------------------
(* The steps of requests *)

\* A step that changes the held errors and no other table or list.
LEMMA HeldStep ==
  ASSUME Setup, held' \in [Node -> (Node \X Node) \cup {NoError}],
         left' \in {"null", "freed"},
         UNCHANGED <<setup, links, table, reqNum, listed, faulty, seen, moves>>
  PROVE  Setup'
BY DEF Setup, setup

\* The one error of a request may be for the node that has the request: it is
\* held, and no other is left to be sent on.
LEMMA RequestErrorStep ==
  ASSUME Setup, Todo, Idle, UNCHANGED <<setup, seen>>, NEW p,
         GoodRequest(p, seen, role), TakeError(p.to, p.msg)
  PROVE  /\ Todo'
         /\ held' \in [Node -> (Node \X Node) \cup {NoError}]
<1> DEFINE e == p.msg.errors
           n == p.to
<1>1. n \in Node /\ e \in Seq(LinkDown) /\ Len(e) <= 1
  BY DEF GoodRequest, Pkt, Msg
<1>2. held \in [Node -> (Node \X Node) \cup {NoError}]
  BY DEF Setup
<1>3. CASE e # <<>> /\ Last(e).tell = n
  <2>1. Len(e) = 1
    <3>1. Len(e) \in Nat \ {0}
      BY <1>1, <1>3, EmptySeq
    <3>2. \A k \in Nat \ {0} : k <= 1 => k = 1
      OBVIOUS
    <3>3. QED
      BY <1>1, <3>1, <3>2, Zenon
  <2>2. Last(e) \in LinkDown
    <3>1. Len(e) \in 1 .. Len(e)
      BY <2>1
    <3>2. QED
      BY <1>1, <3>1, ElementOfSeq DEF Last
  <2>3. <<Last(e).from, Last(e).to>> \in Node \X Node
    BY <2>2 DEF LinkDown
  <2>4. /\ held' = [held EXCEPT ![n] = <<Last(e).from, Last(e).to>>]
        /\ todo' = IF Len(e) = 1 THEN <<>> ELSE <<[at |-> n, msg |-> NextError(n, p.msg)]>>
    BY <1>3 DEF TakeError
  <2>5. held' \in [Node -> (Node \X Node) \cup {NoError}]
    BY <1>2, <2>3, <2>4
  <2>6. todo' = todo
    BY <2>1, <2>4 DEF Idle
  <2>7. QED
    BY <2>5, <2>6 DEF Todo, setup
<1>4. CASE ~(e # <<>> /\ Last(e).tell = n)
  <2>1. UNCHANGED <<held, todo>>
    BY <1>4 DEF TakeError
  <2>2. QED
    BY <1>2, <2>1 DEF Todo, setup
<1>5. QED
  BY <1>3, <1>4

\* A request that is ignored purges the links of the error that it carries.
LEMMA IgnoreRequestStep ==
  ASSUME IInv, NEW p \in air, IgnoreRequest(p.to, p)
  PROVE  IInv'
<1> USE DEF IInv
<1>1. /\ air' = air \ {p} /\ left' = "null" /\ routes' = Purge(p.to, p.msg.errors)
      /\ UNCHANGED <<setup, links, table, reqNum, waiting, listed, faulty, seen, moves>>
      /\ Idle /\ TakeError(p.to, p.msg) /\ p.msg.type = "request"
  BY DEF IgnoreRequest, RequestArrives, processBrokenRouteError
<1>2. p.to \in Node /\ GoodRequest(p, seen, role)
  BY <1>1, KindOf
<1>3. Air' /\ Cache'
  BY <1>1, <1>2, AirLess, PurgeStep
<1>4. Todo' /\ held' \in [Node -> (Node \X Node) \cup {NoError}]
  BY <1>1, <1>2, RequestErrorStep
<1>5. Setup' /\ Waiting'
  BY <1>1, <1>4, HeldStep DEF Waiting, setup
<1>6. QED
  BY <1>3, <1>4, <1>5

\* So does one that is dropped.
LEMMA DropRequestStep ==
  ASSUME IInv, NEW p \in air, DropRequest(p.to, p)
  PROVE  IInv'
<1> USE DEF IInv
<1>1. /\ air' = air \ {p} /\ left' = "freed" /\ routes' = Purge(p.to, p.msg.errors)
      /\ UNCHANGED <<setup, links, table, reqNum, waiting, listed, faulty, seen, moves>>
      /\ Idle /\ TakeError(p.to, p.msg) /\ p.msg.type = "request"
  BY DEF DropRequest, RequestArrives, processBrokenRouteError
<1>2. p.to \in Node /\ GoodRequest(p, seen, role)
  BY <1>1, KindOf
<1>3. Air' /\ Cache'
  BY <1>1, <1>2, AirLess, PurgeStep
<1>4. Todo' /\ held' \in [Node -> (Node \X Node) \cup {NoError}]
  BY <1>1, <1>2, RequestErrorStep
<1>5. Setup' /\ Waiting'
  BY <1>1, <1>4, HeldStep DEF Waiting, setup
<1>6. QED
  BY <1>3, <1>4, <1>5

\* What a request that is not ignored is like.
LEMMA NotIgnored ==
  ASSUME Air, NEW p \in air, p.msg.type = "request", ~Ignored(p.to, p)
  PROVE  GoodRequest(p, seen, role) /\ Len(p.route) < MaxLen /\ ~On(p.to, p.route)
<1>1. GoodRequest(p, seen, role)
  BY KindOf
<1>2. Good(p.route, seen, role)
  BY <1>1 DEF GoodRequest
<1>3. Len(p.route) \in Nat /\ Len(p.route) <= MaxLen
  BY <1>2, GoodFacts
<1>4. Len(p.route) # MaxLen /\ ~On(p.to, p.route)
  BY DEF Ignored
<1>5. QED
  BY <1>1, <1>3, <1>4, NetworkConstants

\* The request table takes a request's number.
LEMMA TableStep ==
  ASSUME Setup, NEW n \in Node, NEW m, m \in Msg, left' \in {"null", "freed"},
         table' = [table EXCEPT ![n][m.src] = m.seq],
         held' \in [Node -> (Node \X Node) \cup {NoError}],
         UNCHANGED <<setup, links, reqNum, listed, faulty, seen, moves>>
  PROVE  Setup'
<1>1. table \in [Node -> [Node -> 0 .. MaxSeq]]
  BY DEF Setup
<1>2. m.src \in Node /\ m.seq \in 0 .. MaxSeq
  BY DEF Msg
<1>3. table' \in [Node -> [Node -> 0 .. MaxSeq]]
  BY <1>1, <1>2
<1>4. QED
  BY <1>3 DEF Setup, setup

\* A forwarded request goes to the neighbours with one more node on its route.
LEMMA ForwardRequestStep ==
  ASSUME IInv, NEW p \in air, ForwardRequest(p.to, p)
  PROVE  IInv'
<1> USE DEF IInv
<1> DEFINE Y == Broadcast(p.msg, Append(p.route, p.to), p.to)
<1>1. /\ air' = (air \ {p}) \cup Y /\ left' = "null"
      /\ routes' = Purge(p.to, p.msg.errors)
      /\ table' = [table EXCEPT ![p.to][p.msg.src] = p.msg.seq]
      /\ UNCHANGED <<setup, links, reqNum, waiting, listed, faulty, seen, moves>>
      /\ Idle /\ p.msg.type = "request" /\ p.msg.dest # p.to
      /\ ~Ignored(p.to, p) /\ ~Shunned(p.to, p)
      /\ TakeError(p.to, p.msg)
  BY DEF ForwardRequest, RequestArrives, processBrokenRouteError
<1>2. p.to \in Node /\ p.msg \in Msg
  BY KindOf
<1>3. GoodRequest(p, seen, role) /\ Len(p.route) < MaxLen /\ ~On(p.to, p.route)
  BY <1>1, NotIgnored
<1>4. role[p.to] # "selfish" /\ links \subseteq seen
  BY <1>1 DEF Shunned, Setup
<1>5. \A q \in Y : GoodPacket(q, seen, role)
  BY <1>1, <1>3, <1>4, ForwardedRequest
<1>6. IsFiniteSet(Y)
  BY FiniteBroadcast
<1> HIDE DEF Y
<1>7. Air'
  BY <1>1, <1>5, <1>6, AirStep
<1>8. Todo' /\ held' \in [Node -> (Node \X Node) \cup {NoError}]
  BY <1>1, <1>3, RequestErrorStep
<1>9. Cache' /\ Setup'
  BY <1>1, <1>2, <1>8, PurgeStep, TableStep
<1>10. Waiting'
  BY <1>1 DEF Waiting, setup
<1>11. QED
  BY <1>7, <1>8, <1>9, <1>10

\* The answer that is put together from the route so far and a route in the cache
\* is a route to the target, and goes back over the route so far.
LEMMA CacheAnswer ==
  ASSUME NEW L, NEW ro, NEW p, GoodRequest(p, L, ro), Len(p.route) < MaxLen,
         ~On(p.to, p.route), ro[p.to] # "selfish",
         NEW r, OwnPath(r, p.to, L, ro), Suits(p.to, p, r)
  PROVE  GoodPath(Completed(p, r), L, ro) /\ Completed(p, r)[1] = p.msg.src
<1> DEFINE a == p.route
           q == a \o r
<1>1. /\ Good(a, L, ro) /\ Len(a) >= 1 /\ a \in Seq(Node)
      /\ \A i \in 2 .. Len(a) : ro[a[i]] # "selfish"
      /\ {a[Len(a)], p.to} \in L
      /\ a[1] = p.msg.src
  BY DEF GoodRequest, Good
<1>2. Good(r, L, ro) /\ Len(r) >= 2 /\ r[1] = p.to /\ r \in Seq(Node) /\ Len(r) \in Nat
  BY GoodFacts DEF OwnPath, GoodPath, Good
<1>3. Len(a) + Len(r) <= MaxLen /\ On(p.to, compressPath(q))
  BY DEF Suits, Completed
<1>4. /\ Along(q, L, ro) /\ Len(q) = Len(a) + Len(r) /\ q[1] = a[1]
  <2>1. {a[Len(a)], r[1]} \in L /\ ro[r[1]] # "selfish" /\ Len(r) >= 1
    BY <1>1, <1>2
  <2> HIDE DEF a
  <2>2. QED
    BY <1>1, <1>2, <2>1, JoinedPath
<1>5. Len(q) >= 1 /\ Len(q) <= MaxLen
  <2>1. Len(a) \in Nat
    BY <1>1, LenProperties
  <2>2. QED
    BY <1>1, <1>2, <1>3, <1>4, <2>1
<1>6. p.to # q[1]
  <2>1. p.to # p.msg.src
    BY RequestSoFar
  <2>2. QED
    BY <1>1, <1>4, <2>1
<1> HIDE DEF q
<1>7. GoodPath(compressPath(q), L, ro) /\ compressPath(q)[1] = q[1]
  BY <1>3, <1>4, <1>5, <1>6, CompressedPath
<1>8. QED
  BY <1>1, <1>4, <1>7 DEF Completed, q

\* A node that answers from its cache sends a good reply back and takes the way
\* back into its cache.
LEMMA AnswerFromCacheStep ==
  ASSUME IInv, NEW p \in air, AnswerFromCache(p.to, p)
  PROVE  IInv'
<1> USE DEF IInv
<1> DEFINE n == p.to
           f == Append(p.route, n)
           back == Reverse(f)
           P == Without(routes[n], Dead(p.msg.errors))
<1>1. /\ left' = "null"
      /\ routes' = [routes EXCEPT ![n] = P \cup {back}]
      /\ table' = [table EXCEPT ![n][p.msg.src] = p.msg.seq]
      /\ UNCHANGED <<setup, links, reqNum, waiting, listed, faulty, seen, moves>>
      /\ Idle /\ p.msg.type = "request" /\ p.msg.dest # n
      /\ ~Ignored(n, p) /\ ~Shunned(n, p)
      /\ TakeError(p.to, p.msg)
  BY DEF AnswerFromCache
<1>2. PICK r \in CacheRoutes(n, p) :
        /\ Suits(n, p, r)
        /\ air' = (air \ {p}) \cup {Unicast(Offer(n, p.msg.src, Completed(p, r)), back, 1)}
  BY DEF AnswerFromCache, Offer
<1>3. n \in Node /\ p.msg \in Msg /\ p.msg.src \in Node
  BY KindOf DEF Msg
<1>4. GoodRequest(p, seen, role) /\ Len(p.route) < MaxLen /\ ~On(n, p.route)
  BY <1>1, NotIgnored
<1>5. role[n] # "selfish"
  BY <1>1 DEF Shunned
<1>6. \A q \in P : OwnPath(q, n, seen, role)
  BY <1>3, WithoutPaths DEF Cache
<1>7. OwnPath(r, n, seen, role)
  <2>1. r \in Shortest(P, p.msg.dest)
    BY <1>2 DEF CacheRoutes
  <2> HIDE DEF P
  <2>2. QED
    BY <1>6, <2>1, FoundPath
<1>8. GoodPath(Completed(p, r), seen, role) /\ Completed(p, r)[1] = p.msg.src
  BY <1>2, <1>4, <1>5, <1>7, CacheAnswer
<1>9. /\ GoodPath(f, seen, role) /\ f[1] = p.msg.src /\ f[Len(f)] = n
      /\ n # p.msg.src
  BY <1>4, RequestSoFar
<1> HIDE DEF f, P
<1>10. /\ GoodPath(back, seen, role) /\ back[1] = n
       /\ back[Len(back)] = p.msg.src
  BY <1>9, BackPath
<1> HIDE DEF back
<1> DEFINE s == p.msg.src
           c == Completed(p, r)
           m == Offer(n, s, c)
<1>11. GoodMsg(m, seen, role) /\ m.src = n /\ m.dest = s
  <2>1. n \in Node /\ s \in Node /\ n # s /\ GoodPath(c, seen, role) /\ c[1] = s
    BY <1>3, <1>8, <1>9
  <2> HIDE DEF n, s, c
  <2>2. GoodMsg(Offer(n, s, c), seen, role)
    BY <2>1, ReplyIsGood
  <2>3. Offer(n, s, c).src = n /\ Offer(n, s, c).dest = s
    BY <2>1, ReplyIsGood
  <2>4. QED
    BY <2>2, <2>3
<1>12. air' = (air \ {p}) \cup {Unicast(m, back, 1)}
  BY <1>2
<1> HIDE DEF m
<1>13. GoodPacket(Unicast(m, back, 1), seen, role)
  BY <1>10, <1>11, StartsOut
<1>14. Air'
  BY <1>1, <1>12, <1>13, AirSwap
<1>15. Cache'
  <2>1. \A q \in P \cup {back} : OwnPath(q, n, seen, role)
    BY <1>6, <1>10 DEF OwnPath
  <2>2. QED
    BY <1>1, <1>3, <2>1, CacheStep
<1>16. Todo' /\ held' \in [Node -> (Node \X Node) \cup {NoError}]
  BY <1>1, <1>4, RequestErrorStep
<1>17. Setup'
  BY <1>1, <1>3, <1>16, TableStep
<1>18. Waiting'
  BY <1>1 DEF Waiting, setup
<1>19. QED
  BY <1>14, <1>15, <1>16, <1>17, <1>18

\* The target takes the way back into its cache and has a reply for it.
LEMMA AnswerRequestStep ==
  ASSUME IInv, NEW p \in air, AnswerRequest(p.to, p)
  PROVE  IInv'
<1> USE DEF IInv
<1> DEFINE n == p.to
           D == Dead(p.msg.errors)
           a == Answer(n, p)
<1>1. /\ left' = "null"
      /\ table' = [table EXCEPT ![n][p.msg.src] = p.msg.seq]
      /\ UNCHANGED <<setup, links, reqNum, waiting, listed, faulty, seen, moves>>
      /\ Idle /\ p.msg.type = "request" /\ p.msg.dest = n
      /\ TakeError(p.to, p.msg)
  BY DEF AnswerRequest
<1>2. /\ Len(p.route) < MaxLen =>
           /\ air' = (air \ {p}) \cup {a}
           /\ routes' = [routes EXCEPT ![n] = Without(routes[n] \cup {a.route}, D)]
      /\ ~(Len(p.route) < MaxLen) =>
           air' = air \ {p} /\ routes' = Purge(n, p.msg.errors)
  BY DEF AnswerRequest
<1>3. n \in Node /\ p.msg \in Msg /\ GoodRequest(p, seen, role)
  BY <1>1, KindOf
<1>4. Air' /\ Cache'
  <2>1. CASE Len(p.route) < MaxLen
    <3>1. GoodPacket(a, seen, role) /\ OwnPath(a.route, n, seen, role)
      BY <1>1, <1>3, <2>1, AnswerIsGood
    <3> HIDE DEF a
    <3>2. \A q \in routes[n] \cup {a.route} : OwnPath(q, n, seen, role)
      BY <1>3, <3>1 DEF Cache
    <3> DEFINE P == routes[n] \cup {a.route}
    <3>3. \A q \in Without(P, D) : OwnPath(q, n, seen, role)
      <4> HIDE DEF D
      <4>1. \A q \in P : OwnPath(q, n, seen, role)
        BY <3>2
      <4> HIDE DEF P
      <4>2. QED
        BY <4>1, WithoutPaths
    <3>4. routes' = [routes EXCEPT ![n] = Without(P, D)]
      BY <1>2, <2>1
    <3> HIDE DEF P, D
    <3>5. Cache'
      BY <1>1, <1>3, <3>3, <3>4, CacheStep
    <3>6. Air'
      BY <1>1, <1>2, <2>1, <3>1, AirSwap
    <3>7. QED
      BY <3>5, <3>6
  <2>2. CASE ~(Len(p.route) < MaxLen)
    BY <1>1, <1>2, <1>3, <2>2, AirLess, PurgeStep
  <2>3. QED
    BY <2>1, <2>2
<1>5. Todo' /\ held' \in [Node -> (Node \X Node) \cup {NoError}]
  BY <1>1, <1>3, RequestErrorStep
<1>6. Setup'
  BY <1>1, <1>3, <1>5, TableStep
<1>7. Waiting'
  BY <1>1 DEF Waiting, setup
<1>8. QED
  BY <1>4, <1>5, <1>6, <1>7

-----------------------------------------------------------------------------
(* The steps of packets on a source route *)

\* The outermost error of a packet is for its destination, and leaves the nodes
\* before it as they are.
LEMMA NotTold ==
  ASSUME NEW p, NEW L, NEW ro, GoodUnicast(p, L, ro), p.msg.dest # p.to,
         TakeError(p.to, p.msg)
  PROVE  UNCHANGED <<held, todo>>
<1> DEFINE m == p.msg
<1>1. GoodMsg(m, L, ro)
  BY DEF GoodUnicast
<1>2. m.errors # <<>> => Last(m.errors).tell = m.dest
  BY <1>1 DEF GoodMsg, Nested, Last
<1>3. QED
  BY <1>2 DEF TakeError

\* A forwarded packet goes on to the next node of its route.
LEMMA ForwardStep ==
  ASSUME IInv, NEW p \in air, NEW prev, Forward(p.to, p, prev)
  PROVE  IInv'
<1> USE DEF IInv
<1>1. /\ left' = "null" /\ routes' = Purge(p.to, p.msg.errors)
      /\ air' = (air \ {p}) \cup {Unicast(p.msg, p.route, p.cur)}
      /\ UNCHANGED <<setup, links, table, reqNum, waiting, listed, faulty, seen, moves>>
      /\ p.msg.type # "request" /\ p.msg.dest # p.to
      /\ TakeError(p.to, p.msg)
  BY DEF Forward, ForwardArrives, processBrokenRouteError
<1>2. /\ p.to \in Node /\ GoodUnicast(p, seen, role)
      /\ UNCHANGED <<held, todo>>
  BY <1>1, KindOf, NotTold
<1>3. GoodPacket(Unicast(p.msg, p.route, p.cur), seen, role)
  BY <1>1, <1>2, GoesOn
<1>4. Air' /\ Cache'
  BY <1>1, <1>2, <1>3, AirSwap, PurgeStep
<1>5. Setup' /\ Waiting' /\ Todo'
  BY <1>1, <1>2, SetupStep DEF Waiting, Todo, setup
<1>6. QED
  BY <1>4, <1>5

\* A relay of a route is not selfish, so that it does something with a packet
\* that it drops.
LEMMA DropStep ==
  ASSUME IInv, NEW p \in air, NEW prev, Drop(p.to, p, prev)
  PROVE  IInv'
<1> USE DEF IInv
<1>1. /\ left' = IF role[p.to] = "selfish" /\ p.msg.type # "reply" THEN "held" ELSE "freed"
      /\ air' = air \ {p} /\ routes' = Purge(p.to, p.msg.errors)
      /\ UNCHANGED <<setup, links, table, reqNum, waiting, listed, faulty, seen, moves>>
      /\ p.msg.type # "request" /\ p.msg.dest # p.to
      /\ TakeError(p.to, p.msg)
  BY DEF Drop, ForwardArrives, processBrokenRouteError
<1>2. /\ p.to \in Node /\ GoodUnicast(p, seen, role)
      /\ UNCHANGED <<held, todo>>
  BY <1>1, KindOf, NotTold
<1>3. left' = "freed"
  <2>1. ASSUME p.msg.type # "reply"
        PROVE  role[p.to] # "selfish"
    <3>1. /\ p.cur \in 1 .. Len(p.route) - 1
          /\ Good(p.route, seen, role) /\ p.cur # 1 /\ p.route[p.cur] = p.to
      BY <1>1, <1>2, <2>1, GoesOn DEF GoodUnicast, GoodPath
    <3>2. p.cur \in 2 .. Len(p.route) - 1
      <4>1. Len(p.route) \in Nat
        BY <3>1, GoodFacts
      <4>2. QED
        BY <3>1, <4>1
    <3>3. QED
      BY <3>1, <3>2 DEF Good
  <2>2. QED
    BY <1>1, <2>1
<1>4. Air' /\ Cache'
  BY <1>1, <1>2, AirLess, PurgeStep
<1>5. Setup' /\ Waiting' /\ Todo'
  BY <1>1, <1>2, <1>3, SetupStep DEF Waiting, Todo, setup
<1>6. QED
  BY <1>4, <1>5

-----------------------------------------------------------------------------
(* The steps of packets at their destination *)

\* A data packet is taken.
LEMMA ReceiveDataStep ==
  ASSUME IInv, NEW p \in air, ReceiveData(p.to, p)
  PROVE  IInv'
<1> USE DEF IInv
<1>1. /\ left' = "null" /\ air' = air \ {p}
      /\ UNCHANGED <<setup, links, routes, table, reqNum, waiting, held, listed, faulty,
                     todo, seen, moves>>
  BY DEF ReceiveData
<1>2. Air'
  BY <1>1, AirLess
<1>3. Setup' /\ Cache' /\ Waiting' /\ Todo'
  BY <1>1, SetupStep DEF Cache, Waiting, Todo, setup
<1>4. QED
  BY <1>2, <1>3

\* A reply is refused.
LEMMA RefuseReplyStep ==
  ASSUME IInv, NEW p \in air, RefuseReply(p.to, p)
  PROVE  IInv'
<1> USE DEF IInv
<1>1. /\ left' = "null" /\ air' = air \ {p}
      /\ UNCHANGED <<setup, links, routes, table, reqNum, waiting, held, listed, faulty,
                     todo, seen, moves>>
  BY DEF RefuseReply
<1>2. Air'
  BY <1>1, AirLess
<1>3. Setup' /\ Cache' /\ Waiting' /\ Todo'
  BY <1>1, SetupStep DEF Cache, Waiting, Todo, setup
<1>4. QED
  BY <1>2, <1>3

\* A reply's route is taken, and what waited for it is taken out of the buffer.
LEMMA AcceptReplyStep ==
  ASSUME IInv, NEW p \in air, AcceptReply(p.to, p)
  PROVE  IInv'
<1> USE DEF IInv
<1> DEFINE n == p.to
           S == Routed(n, routes'[n])
<1>1. /\ left' = "null" /\ air' = air \ {p}
      /\ routes' = [routes EXCEPT ![n] = routes[n] \cup {p.msg.reply}]
      /\ waiting' = [waiting EXCEPT ![n] = waiting[n] \ S]
      /\ UNCHANGED <<setup, links, table, reqNum, held, listed, faulty, seen, moves>>
      /\ p.msg.type = "reply" /\ p.msg.dest = n
  BY DEF AcceptReply, Arrives
<1>2. PICK s \in SetToSeqs(S) : todo' = [i \in DOMAIN s |-> [at |-> n, msg |-> s[i]]]
  BY DEF AcceptReply
<1>3. n \in Node /\ OwnPath(p.msg.reply, n, seen, role)
  <2>1. n \in Node /\ GoodUnicast(p, seen, role)
    BY <1>1, KindOf
  <2>2. GoodMsg(p.msg, seen, role)
    BY <2>1 DEF GoodUnicast
  <2>3. QED
    BY <1>1, <2>1, <2>2 DEF GoodMsg, OwnPath
<1>4. S \in SUBSET waiting[n] /\ IsFiniteSet(waiting[n])
      /\ \A m \in waiting[n] : Own(m, n, seen, role)
  BY <1>3 DEF Routed, Waiting
<1> HIDE DEF S
<1>5. IsFiniteSet(S) /\ \A m \in S : Own(m, n, seen, role)
  BY <1>4, FS_Subset
<1>6. Todo'
  BY <1>1, <1>2, <1>3, <1>5, TodoStep
<1>7. Waiting'
  BY <1>1, <1>3, WaitingLess
<1>8. Cache'
  <2>1. \A q \in routes[n] \cup {p.msg.reply} : OwnPath(q, n, seen, role)
    BY <1>3 DEF Cache
  <2>2. QED
    BY <1>1, <1>3, <2>1, CacheStep
<1>9. Setup' /\ Air'
  BY <1>1, SetupStep, AirLess
<1>10. QED
  BY <1>6, <1>7, <1>8, <1>9

\* An error is taken, and what was nested in it is sent on.
LEMMA ReceiveErrorStep ==
  ASSUME IInv, NEW p \in air, ReceiveError(p.to, p)
  PROVE  IInv'
<1> USE DEF IInv
<1>1. /\ left' = "null" /\ air' = air \ {p}
      /\ processBrokenRouteError(p.to, p.msg)
      /\ UNCHANGED <<setup, links, table, reqNum, waiting, listed, faulty, seen, moves>>
      /\ p.msg.type = "error"
  BY DEF ReceiveError, Arrives
<1>2. p.to \in Node /\ GoodMsg(p.msg, seen, role)
  BY <1>1, KindOf DEF GoodUnicast
<1>3. Cache' /\ Todo' /\ held' \in [Node -> (Node \X Node) \cup {NoError}]
  BY <1>1, <1>2, BrokenStep
<1>4. Setup' /\ Air'
  BY <1>1, <1>3, HeldStep, AirLess
<1>5. Waiting'
  BY <1>1 DEF Waiting, setup
<1>6. QED
  BY <1>3, <1>4, <1>5

-----------------------------------------------------------------------------
(* The steps of transmissions that fail and of the tap *)

\* A failed transmission is told to the packet's source, and the sender's own
\* packets look for another route.
LEMMA xmitFailedStep ==
  ASSUME IInv, NEW p \in air, xmitFailed(p)
  PROVE  IInv'
<1> USE DEF IInv
<1> DEFINE x == Sender(p)
<1>1. /\ left' = "null" /\ OnTheWay(p)
      /\ routes' = [routes EXCEPT ![x] = Without(routes[x], {<<x, p.to>>})]
      /\ UNCHANGED <<setup, links, table, reqNum, waiting, held, listed, faulty,
                     seen, moves>>
  BY DEF xmitFailed
<1>2. PICK Q \in SUBSET Queued(p) :
        /\ air' = (air \ ({p} \cup Q)) \cup ErrorFor(p)
        /\ \E s \in SetToSeqs({q.msg : q \in {k \in {p} \cup Q : k.msg.src = x}}) :
             todo' = [i \in DOMAIN s |-> [at |-> x, msg |-> s[i]]]
  BY DEF xmitFailed
<1>3. ASSUME NEW q \in {p} \cup Q
      PROVE  q \in air /\ q.msg.type # "request" /\ q.cur > 1 /\ GoodUnicast(q, seen, role)
  <2>1. q \in air /\ q.msg.type # "request" /\ q.cur > 1
    BY <1>1 DEF Queued, OnTheWay
  <2>2. QED
    BY <2>1, KindOf
<1>4. x \in Node
  <2>1. p.cur \in 1 .. Len(p.route) /\ p.route \in Seq(Node) /\ p.cur > 1
    BY <1>3 DEF GoodUnicast, GoodPath, Good
  <2>2. p.cur - 1 \in 1 .. Len(p.route)
    BY <2>1, LenProperties
  <2>3. QED
    BY <2>1, <2>2, ElementOfSeq DEF Sender
<1> DEFINE K == {k \in {p} \cup Q : k.msg.src = x}
           S == {q.msg : q \in K}
<1>5. IsFiniteSet(S)
  <2>1. K \in SUBSET air
    BY <1>3
  <2> HIDE DEF K
  <2>2. IsFiniteSet(K)
    BY <2>1, FS_Subset DEF Air
  <2>3. QED
    BY <2>2, FiniteMessages
<1>6. \A m \in S : Own(m, x, seen, role)
  BY <1>3 DEF GoodUnicast, Own
<1>7. PICK s \in SetToSeqs(S) : todo' = [i \in DOMAIN s |-> [at |-> x, msg |-> s[i]]]
  BY <1>2
<1> HIDE DEF S, x
<1>8. Todo'
  BY <1>1, <1>4, <1>5, <1>6, <1>7, TodoStep
<1>9. Air'
  <2>1. \A q \in ErrorFor(p) : GoodPacket(q, seen, role)
    BY <1>3, ErrorIsGood
  <2>2. IsFiniteSet(ErrorFor(p))
    BY FS_EmptySet, FS_Singleton DEF ErrorFor
  <2>3. QED
    BY <1>1, <1>2, <2>1, <2>2, AirStep
<1>10. Cache'
  <2> DEFINE D == {<<x, p.to>>}
  <2>1. \A q \in routes[x] : OwnPath(q, x, seen, role)
    BY <1>4 DEF Cache
  <2>2. routes' = [routes EXCEPT ![x] = Without(routes[x], D)]
    BY <1>1
  <2> HIDE DEF D
  <2>3. \A q \in Without(routes[x], D) : OwnPath(q, x, seen, role)
    BY <2>1, WithoutPaths
  <2>4. QED
    BY <1>1, <1>4, <2>2, <2>3, CacheStep
<1>11. Setup' /\ Waiting'
  BY <1>1, SetupStep DEF Waiting, setup
<1>12. QED
  BY <1>8, <1>9, <1>10, <1>11

\* What is overheard is on its way over a good route.
LEMMA Overheard ==
  ASSUME Air, NEW n \in Node, NEW p \in air, Overhears(n, p)
  PROVE  /\ GoodUnicast(p, seen, role) /\ GoodMsg(p.msg, seen, role)
         /\ p.cur \in 2 .. Len(p.route)
         /\ {p.route[p.cur - 1], n} \in links
<1>1. p.msg.type # "request" /\ p.cur > 1 /\ {Sender(p), n} \in links
  BY DEF Overhears, OnTheWay, Neighbour
<1>2. GoodUnicast(p, seen, role)
  BY <1>1, KindOf
<1>3. p.cur \in 1 .. Len(p.route) /\ p.route \in Seq(Node) /\ GoodMsg(p.msg, seen, role)
  BY <1>2 DEF GoodUnicast, GoodPath, Good
<1>4. p.cur \in 2 .. Len(p.route)
  BY <1>1, <1>3, LenProperties
<1>5. QED
  BY <1>1, <1>2, <1>3, <1>4 DEF Sender

\* An overheard error is as good as one that is received.
LEMMA TapErrorStep ==
  ASSUME IInv, NEW n \in Node, NEW p \in air, TapError(n, p)
  PROVE  IInv'
<1> USE DEF IInv
<1>1. /\ left' = "null" /\ processBrokenRouteError(n, p.msg)
      /\ UNCHANGED <<setup, links, air, table, reqNum, waiting, listed, faulty, seen, moves>>
      /\ p.msg.type = "error" /\ Overhears(n, p)
  BY DEF TapError
<1>2. GoodMsg(p.msg, seen, role)
  BY <1>1, Overheard
<1>3. Cache' /\ Todo' /\ held' \in [Node -> (Node \X Node) \cup {NoError}]
  BY <1>1, <1>2, BrokenStep
<1>4. Setup'
  BY <1>1, <1>3, HeldStep
<1>5. Air' /\ Waiting'
  BY <1>1 DEF Air, Waiting, setup
<1>6. QED
  BY <1>3, <1>4, <1>5

\* The rest of an overheard reply's route is a route from the node that overhears.
LEMMA TapReplyStep ==
  ASSUME IInv, NEW n \in Node, NEW p \in air, TapReply(n, p)
  PROVE  IInv'
<1> USE DEF IInv
<1> DEFINE r == p.msg.reply
<1>1. PICK i \in 1 .. Len(r) - 1 :
        r[i] = n /\ routes' = [routes EXCEPT ![n] = routes[n] \cup {SubSeq(r, i, Len(r))}]
  BY DEF TapReply
<1>2. /\ left' = "null"
      /\ UNCHANGED <<setup, links, air, table, reqNum, waiting, held, listed, faulty, todo,
                     seen, moves>>
      /\ p.msg.type = "reply" /\ Overhears(n, p)
  BY DEF TapReply
<1>3. Good(r, seen, role) /\ r \in Seq(Node) /\ Len(r) \in Nat
  BY <1>2, Overheard, GoodFacts DEF GoodMsg, GoodPath, Good
<1> HIDE DEF r
<1>4. i \in 1 .. Len(r) /\ Len(r) \in i .. Len(r) /\ i \in Nat
      /\ 1 \in 1 .. Len(r) - i + 1 /\ i + 1 - 1 = i /\ Len(r) - i + 1 >= 2
  BY <1>1, <1>3
<1> DEFINE q == SubSeq(r, i, Len(r))
<1>5. Good(q, seen, role) /\ Len(q) = Len(r) - i + 1 /\ q[1] = n
  <2>1. Good(q, seen, role)
    BY <1>3, <1>4, GoodPart
  <2>2. Len(q) = Len(r) - i + 1 /\ q[1] = r[i]
    BY <1>3, <1>4, PartOf
  <2>3. QED
    BY <1>1, <2>1, <2>2
<1> HIDE DEF q
<1>6. OwnPath(q, n, seen, role)
  BY <1>4, <1>5 DEF OwnPath, GoodPath
<1>7. Cache'
  <2>1. routes' = [routes EXCEPT ![n] = routes[n] \cup {q}]
    BY <1>1 DEF q
  <2>2. \A z \in routes[n] \cup {q} : OwnPath(z, n, seen, role)
    BY <1>6 DEF Cache
  <2>3. QED
    BY <1>2, <2>1, <2>2, CacheStep
<1>8. Setup' /\ Air' /\ Waiting' /\ Todo'
  BY <1>2, SetupStep DEF Air, Waiting, Todo, setup
<1>9. QED
  BY <1>7, <1>8

\* A node that overhears a data packet before its turn offers the packet's source
\* the shorter route.
LEMMA TapDataStep ==
  ASSUME IInv, NEW n \in Node, NEW p \in air, TapData(n, p)
  PROVE  IInv'
<1> USE DEF IInv
<1> DEFINE r == p.route
           heard == SubSeq(r, 1, p.cur - 1)
           f == Append(heard, n)
           back == Reverse(f)
           s == r[1]
<1>1. PICK i \in p.cur + 1 .. Len(r) :
        /\ r[i] = n
        /\ air' = air \cup {Unicast(Offer(n, s, heard \o SubSeq(r, i, Len(r))), back, 1)}
        /\ routes' = [routes EXCEPT ![n] = routes[n] \cup {back}]
  BY DEF TapData, Offer
<1>2. /\ left' = "null"
      /\ UNCHANGED <<setup, links, table, reqNum, waiting, held, listed, faulty, todo,
                     seen, moves>>
      /\ Overhears(n, p)
  BY DEF TapData
<1>3. /\ GoodPath(r, seen, role) /\ r \in Seq(Node) /\ Len(r) \in Nat
      /\ p.cur \in 2 .. Len(r) /\ {r[p.cur - 1], n} \in seen
      /\ Good(r, seen, role)
  <2>1. GoodUnicast(p, seen, role) /\ p.cur \in 2 .. Len(r) /\ {r[p.cur - 1], n} \in links
    BY <1>2, Overheard
  <2>2. links \subseteq seen
    BY DEF Setup
  <2>3. GoodPath(r, seen, role) /\ Good(r, seen, role)
    BY <2>1 DEF GoodUnicast, GoodPath
  <2>4. QED
    BY <2>1, <2>2, <2>3, GoodFacts DEF Good
<1>4. s \in Node /\ n # s
  <2>1. 1 \in 1 .. Len(r) /\ i \in 1 .. Len(r) /\ i # 1
    BY <1>1, <1>3
  <2>2. QED
    BY <1>1, <1>3, <2>1, ElementOfSeq DEF Good
<1> HIDE DEF r
<1> DEFINE c == heard \o SubSeq(r, i, Len(r))
<1>5. GoodPath(c, seen, role) /\ c[1] = s /\ GoodPath(f, seen, role) /\ f[1] = s
  <2> DEFINE k == p.cur
  <2>1. k \in 2 .. Len(r) /\ i \in k + 1 .. Len(r) /\ r[i] = n /\ {r[k - 1], r[i]} \in seen
        /\ GoodPath(r, seen, role)
    BY <1>1, <1>3
  <2> HIDE DEF k
  <2>2. /\ GoodPath(SubSeq(r, 1, k - 1) \o SubSeq(r, i, Len(r)), seen, role)
        /\ (SubSeq(r, 1, k - 1) \o SubSeq(r, i, Len(r)))[1] = r[1]
        /\ GoodPath(Append(SubSeq(r, 1, k - 1), r[i]), seen, role)
        /\ Append(SubSeq(r, 1, k - 1), r[i])[1] = r[1]
    BY <2>1, CutOut
  <2>3. QED
    BY <2>1, <2>2 DEF k
<1>6. f[Len(f)] = n
  <2>1. heard \in Seq(Node)
    <3>1. 1 \in 1 .. Len(r) /\ p.cur - 1 \in 1 .. Len(r)
      BY <1>3
    <3>2. QED
      BY <1>3, <3>1, PartOf
  <2> HIDE DEF heard
  <2>2. Len(f) = Len(heard) + 1 /\ f[Len(heard) + 1] = n
    BY <2>1, MoreOf
  <2>3. QED
    BY <2>2
<1> HIDE DEF f
<1>7. GoodPath(back, seen, role) /\ back[1] = n /\ back[Len(back)] = s
  BY <1>5, <1>6, BackPath
<1> HIDE DEF back, s, c
<1>8. GoodMsg(Offer(n, s, c), seen, role)
  BY <1>4, <1>5, ReplyIsGood
<1>9. Offer(n, s, c).src = n /\ Offer(n, s, c).dest = s
  BY DEF Offer, Message
<1>10. GoodPacket(Unicast(Offer(n, s, c), back, 1), seen, role)
  BY <1>7, <1>8, <1>9, StartsOut
<1>11. Air'
  <2>1. air' = (air \ {}) \cup {Unicast(Offer(n, s, c), back, 1)}
    BY <1>1 DEF c
  <2>2. QED
    BY <1>2, <1>10, <2>1, AirSwap
<1>12. Cache'
  <2>1. \A q \in routes[n] \cup {back} : OwnPath(q, n, seen, role)
    BY <1>7 DEF Cache, OwnPath
  <2>2. QED
    BY <1>1, <1>2, <2>1, CacheStep
<1>13. Setup' /\ Waiting' /\ Todo'
  BY <1>2, SetupStep DEF Waiting, Todo, setup
<1>14. QED
  BY <1>11, <1>12, <1>13

-----------------------------------------------------------------------------
(* The steps of lists, periods and links *)

\* A listed node's routes leave the cache.
LEMMA AddNodeStep ==
  ASSUME IInv, NEW n \in Node, NEW m \in Node, addNodeToFaultyList(n, m)
  PROVE  IInv'
<1> USE DEF IInv
<1>1. /\ left' = "null" /\ listed' = [listed EXCEPT ![n] = listed[n] \cup {m}]
      /\ routes' = [routes EXCEPT ![n] = WithoutNode(routes[n], m)]
      /\ UNCHANGED <<setup, links, air, table, reqNum, waiting, held, faulty, todo,
                     seen, moves>>
  BY DEF addNodeToFaultyList
<1>2. \A q \in WithoutNode(routes[n], m) : OwnPath(q, n, seen, role)
  BY DEF WithoutNode, Cache
<1>3. Cache'
  BY <1>1, <1>2, CacheStep
<1>4. listed' \in [Node -> SUBSET Node]
  BY <1>1 DEF Setup
<1>5. Setup'
  BY <1>1, <1>4 DEF Setup, setup
<1>6. Air' /\ Waiting' /\ Todo'
  BY <1>1 DEF Air, Waiting, Todo, setup
<1>7. QED
  BY <1>3, <1>5, <1>6

\* A node gets off a list.
LEMMA RemoveNodeStep ==
  ASSUME IInv, NEW n \in Node, NEW m \in Node, removeNodeFromFaultyList(n, m)
  PROVE  IInv'
<1> USE DEF IInv
<1>1. /\ left' = "null" /\ listed' = [listed EXCEPT ![n] = listed[n] \ {m}]
      /\ UNCHANGED <<setup, links, air, routes, table, reqNum, waiting, held, faulty, todo,
                     seen, moves>>
  BY DEF removeNodeFromFaultyList
<1>2. listed' \in [Node -> SUBSET Node]
  BY <1>1 DEF Setup
<1>3. Setup'
  BY <1>1, <1>2 DEF Setup, setup
<1>4. Air' /\ Cache' /\ Waiting' /\ Todo'
  BY <1>1 DEF Air, Cache, Waiting, Todo, setup
<1>5. QED
  BY <1>3, <1>4

\* A faulty period starts or ends.
LEMMA FaultyStep ==
  ASSUME IInv, NEW n \in Node, setFaultyStatus(n)
  PROVE  IInv'
<1> USE DEF IInv
<1>1. /\ left' = "null" /\ faulty' \subseteq faulty \cup {n}
      /\ UNCHANGED <<setup, links, air, routes, table, reqNum, waiting, held, listed, todo,
                     seen, moves>>
  BY DEF setFaultyStatus
<1>2. Setup'
  BY <1>1 DEF Setup, setup
<1>3. Air' /\ Cache' /\ Waiting' /\ Todo'
  BY <1>1 DEF Air, Cache, Waiting, Todo, setup
<1>4. QED
  BY <1>2, <1>3

\* What was good stays good when more links have been up.
LEMMA AllLater ==
  ASSUME NEW L, NEW M, L \subseteq M, NEW ro
  PROVE  /\ \A r : GoodPath(r, L, ro) => GoodPath(r, M, ro)
         /\ \A m : GoodMsg(m, L, ro) => GoodMsg(m, M, ro)
         /\ \A p : GoodPacket(p, L, ro) => GoodPacket(p, M, ro)
<1>1. \A r : Good(r, L, ro) => Good(r, M, ro)
  BY GoodLater
<1>2. \A r : GoodPath(r, L, ro) => GoodPath(r, M, ro)
  BY <1>1 DEF GoodPath
<1>3. \A m : GoodMsg(m, L, ro) => GoodMsg(m, M, ro)
  BY <1>2 DEF GoodMsg
<1>4. \A p : GoodUnicast(p, L, ro) => GoodUnicast(p, M, ro)
  BY <1>2, <1>3 DEF GoodUnicast
<1>5. \A p : GoodRequest(p, L, ro) => GoodRequest(p, M, ro)
  BY <1>1 DEF GoodRequest
<1>6. QED
  BY <1>2, <1>3, <1>4, <1>5 DEF GoodPacket

\* Links that come add to those that have been up.
LEMMA MoveStep ==
  ASSUME IInv, NEW l \in Links, Move(l)
  PROVE  IInv'
<1> USE DEF IInv
<1>1. /\ left' = "null" /\ moves < MaxMoves[switches] /\ moves' = moves + 1
      /\ links' \subseteq links \cup {l} /\ seen' = seen \cup links'
      /\ UNCHANGED <<setup, air, routes, table, reqNum, waiting, held, listed, faulty, todo>>
  BY DEF Move
<1>2. seen \subseteq seen' /\ UNCHANGED role
  BY <1>1 DEF setup
<1>3. /\ \A r : GoodPath(r, seen, role) => GoodPath(r, seen', role)
      /\ \A m : GoodMsg(m, seen, role) => GoodMsg(m, seen', role)
      /\ \A p : GoodPacket(p, seen, role) => GoodPacket(p, seen', role)
  BY <1>2, AllLater
<1>4. Air'
  BY <1>1, <1>2, <1>3 DEF Air
<1>5. Cache'
  BY <1>1, <1>2, <1>3 DEF Cache, OwnPath
<1>6. Waiting'
  BY <1>1, <1>2, <1>3 DEF Waiting, Own
<1>7. Todo'
  BY <1>1, <1>2, <1>3 DEF Todo, Own
<1>8. Setup'
  <2>1. links' \subseteq seen' /\ seen' \subseteq Links
    BY <1>1 DEF Setup
  <2>2. moves' \in 0 .. MaxMoves[switches]
    <3>1. setup \in Setups /\ moves \in 0 .. MaxMoves[switches]
      BY DEF Setup
    <3>2. switches \in SUBSET {"cache", "gratuitous"}
      <4>1. setup[2] \in SUBSET {"cache", "gratuitous"}
        BY <3>1, NetworkConstants
      <4>2. QED
        BY <4>1 DEF setup
    <3>3. MaxMoves[switches] \in Nat
      BY <3>2, NetworkConstants
    <3>4. QED
      BY <1>1, <3>1, <3>3
  <2>3. QED
    BY <1>1, <2>1, <2>2 DEF Setup, setup
<1>9. QED
  BY <1>4, <1>5, <1>6, <1>7, <1>8

-----------------------------------------------------------------------------
(* The invariant holds *)

\* The initial states satisfy the invariant, whatever the setup.
LEMMA InitInv ==
  ASSUME Init
  PROVE  IInv
<1>1. PICK s \in Setups : role = s[1] /\ switches = s[2]
  BY DEF Init
<1>2. /\ links = Start /\ air = {} /\ routes = [n \in Node |-> {}]
      /\ table = [n \in Node |-> [m \in Node |-> 0]] /\ reqNum = [n \in Node |-> 1]
      /\ waiting = [n \in Node |-> {}] /\ held = [n \in Node |-> NoError]
      /\ listed = [n \in Node |-> {}] /\ faulty = {} /\ todo = <<>> /\ left = "null"
      /\ seen = Start /\ moves = 0
  BY DEF Init
<1>3. Setup
  <2>1. setup \in Setups
    BY <1>1, NetworkAssumption DEF setup
  <2>2. switches \in SUBSET {"cache", "gratuitous"}
    BY <1>1, NetworkConstants
  <2>3. 0 \in 0 .. MaxMoves[switches] /\ 0 \in 0 .. MaxSeq /\ 1 \in 1 .. MaxSeq + 1
    BY <2>2, NetworkConstants
  <2>4. table \in [Node -> [Node -> 0 .. MaxSeq]] /\ reqNum \in [Node -> 1 .. MaxSeq + 1]
    BY <1>2, <2>3
  <2>5. QED
    BY <1>2, <2>1, <2>3, <2>4, NetworkConstants DEF Setup
<1>4. Air /\ Cache /\ Waiting
  BY <1>2, FS_EmptySet DEF Air, Cache, Waiting
<1>5. Todo
  <2>1. todo \in Seq([at : Node, msg : Msg]) /\ Len(todo) = 0
    BY <1>2, EmptySeq
  <2>2. QED
    BY <2>1 DEF Todo
<1>6. QED
  BY <1>3, <1>4, <1>5 DEF IInv

\* Every step of every node keeps the invariant.
LEMMA NextInv ==
  ASSUME IInv, [Next]_vars
  PROVE  IInv'
<1>1. ASSUME Receiving
      PROVE  IInv'
  <2>1. PICK p \in air :
          \/ IgnoreRequest(p.to, p) \/ DropRequest(p.to, p)
          \/ ForwardRequest(p.to, p) \/ AnswerFromCache(p.to, p) \/ AnswerRequest(p.to, p)
          \/ \E prev \in Node : Forward(p.to, p, prev) \/ Drop(p.to, p, prev)
          \/ ReceiveData(p.to, p) \/ RefuseReply(p.to, p) \/ AcceptReply(p.to, p)
          \/ ReceiveError(p.to, p)
    BY <1>1 DEF Receiving
  <2>2. QED
    BY <2>1, IgnoreRequestStep, DropRequestStep, ForwardRequestStep, AnswerFromCacheStep,
       AnswerRequestStep, ForwardStep, DropStep, ReceiveDataStep, RefuseReplyStep,
       AcceptReplyStep, ReceiveErrorStep
<1>2. ASSUME OnTheLink
      PROVE  IInv'
  BY <1>2, xmitFailedStep, TapErrorStep, TapReplyStep, TapDataStep DEF OnTheLink
<1>3. ASSUME SendOut \/ Wait \/ Request
      PROVE  IInv'
  BY <1>3, SendOutStep, WaitStep, RequestStep
<1>4. ASSUME NEW s \in Node, NEW d \in Node, Originate(s, d)
      PROVE  IInv'
  BY <1>4, OriginateStep
<1>5. ASSUME NEW n \in Node, NEW m \in waiting[n], Retry(n, m) \/ SendTimeout(n, m)
      PROVE  IInv'
  BY <1>5, RetryStep, SendTimeoutStep
<1>6. ASSUME NEW n \in Node, HoldExpires(n) \/ setFaultyStatus(n)
      PROVE  IInv'
  BY <1>6, HoldExpiresStep, FaultyStep
<1>7. ASSUME NEW n \in Node, NEW m \in Node,
             addNodeToFaultyList(n, m) \/ removeNodeFromFaultyList(n, m)
      PROVE  IInv'
  BY <1>7, AddNodeStep, RemoveNodeStep
<1>8. ASSUME NEW l \in Links, Move(l)
      PROVE  IInv'
  BY <1>8, MoveStep
<1>9. ASSUME UNCHANGED vars
      PROVE  IInv'
  BY <1>9 DEF vars, setup, IInv, Setup, Air, Cache, Waiting, Todo
<1>10. QED
  BY <1>1, <1>2, <1>3, <1>4, <1>5, <1>6, <1>7, <1>8, <1>9 DEF Next

\* What the types promise of messages, packets, caches and tables holds in every
\* state.
THEOREM Invariant == Spec => []IInv
BY InitInv, NextInv, PTL DEF Spec

-----------------------------------------------------------------------------
(* What follows from it *)

\* A good message is a message, and its reply is a path.
LEMMA MessageTypes ==
  ASSUME NEW m, m \in Msg, Len(m.errors) <= MaxErrors, IsPath(m.reply)
  PROVE  IsMessage(m)
BY DEF Msg, IsMessage

\* A good message of some node is a message as TypeOK has it.
LEMMA OwnTypes ==
  ASSUME NEW L, NEW ro, NEW m, GoodMsg(m, L, ro)
  PROVE  IsMessage(m)
<1>1. m \in Msg /\ Len(m.errors) <= MaxErrors
  BY DEF GoodMsg
<1>2. IsPath(m.reply)
  <2>1. CASE m.type = "reply"
    BY <2>1, GoodFacts DEF GoodMsg, GoodPath
  <2>2. CASE m.type # "reply"
    <3>1. m.reply = <<>> /\ <<>> \in Seq(Node) /\ Len(<<>>) = 0
      BY <2>2, EmptySeq DEF GoodMsg
    <3>2. QED
      BY <3>1, NetworkConstants DEF IsPath
  <2>3. QED
    BY <2>1, <2>2
<1>3. QED
  BY <1>1, <1>2, MessageTypes

\* A good packet is a packet as TypeOK has it.
LEMMA PacketTypes ==
  ASSUME NEW L, NEW ro, NEW p, GoodPacket(p, L, ro)
  PROVE  IsPacket(p)
<1>1. CASE GoodRequest(p, L, ro)
  <2>1. /\ p \in Pkt /\ p.msg \in Msg /\ Len(p.msg.errors) <= MaxErrors
        /\ p.msg.reply = <<>> /\ Good(p.route, L, ro) /\ Len(p.route) >= 1
        /\ p.cur = Len(p.route) /\ p.to \in Node
    BY <1>1 DEF GoodRequest, Pkt
  <2>2. IsPath(p.msg.reply)
    <3>1. <<>> \in Seq(Node) /\ Len(<<>>) = 0
      BY EmptySeq
    <3>2. QED
      BY <2>1, <3>1, NetworkConstants DEF IsPath
  <2>3. IsPath(p.route) /\ p.cur \in 1 .. MaxLen
    BY <2>1, GoodFacts, NetworkConstants
  <2>4. QED
    BY <2>1, <2>2, <2>3, MessageTypes DEF IsPacket
<1>2. CASE GoodUnicast(p, L, ro)
  <2>1. /\ p \in Pkt /\ GoodMsg(p.msg, L, ro) /\ Good(p.route, L, ro)
        /\ p.cur \in 1 .. Len(p.route) /\ p.to \in Node
    BY <1>2 DEF GoodUnicast, GoodPath, Pkt
  <2>2. IsPath(p.route) /\ p.cur \in 1 .. MaxLen
    BY <2>1, GoodFacts, NetworkConstants
  <2>3. QED
    BY <2>1, <2>2, OwnTypes DEF IsPacket
<1>3. QED
  BY <1>1, <1>2 DEF GoodPacket

\* The types are right in every state: no source route, reply or cached path is
\* longer than MAX_SR_LEN, and no packet carries more than MAX_ROUTE_ERRORS errors.
THEOREM TypeCorrect == Spec => []TypeOK
<1>1. IInv => TypeOK
  <2> SUFFICES ASSUME IInv
               PROVE  TypeOK
    OBVIOUS
  <2>1. \A p \in air : IsPacket(p)
    BY PacketTypes DEF IInv, Air
  <2>2. \A n \in Node : \A r \in routes[n] : IsPath(r) /\ Len(r) > 1
    <3> SUFFICES ASSUME NEW n \in Node, NEW r \in routes[n]
                 PROVE  IsPath(r) /\ Len(r) > 1
      OBVIOUS
    <3>1. Good(r, seen, role) /\ Len(r) >= 2
      BY DEF IInv, Cache, OwnPath, GoodPath
    <3>2. QED
      BY <3>1, GoodFacts
  <2>3. \A n \in Node : \A m \in waiting[n] : IsMessage(m)
    BY OwnTypes DEF IInv, Waiting, Own
  <2>4. \A i \in DOMAIN todo : todo[i].at \in Node /\ IsMessage(todo[i].msg)
    <3>1. /\ todo \in Seq([at : Node, msg : Msg])
          /\ \A i \in 1 .. Len(todo) : GoodMsg(todo[i].msg, seen, role)
      BY DEF IInv, Todo, Own
    <3>2. DOMAIN todo = 1 .. Len(todo)
      BY <3>1, LenProperties
    <3> SUFFICES ASSUME NEW i \in 1 .. Len(todo)
                 PROVE  todo[i].at \in Node /\ IsMessage(todo[i].msg)
      BY <3>2
    <3>3. todo[i] \in [at : Node, msg : Msg]
      BY <3>1, ElementOfSeq
    <3>4. QED
      BY <3>1, <3>3, OwnTypes
  <2>5. /\ setup \in Setups /\ links \subseteq Links
        /\ table \in [Node -> [Node -> 0 .. MaxSeq]]
        /\ reqNum \in [Node -> 1 .. MaxSeq + 1]
        /\ held \in [Node -> (Node \X Node) \cup {NoError}]
        /\ listed \in [Node -> SUBSET Node]
        /\ faulty \subseteq Node
        /\ left \in {"null", "freed", "held"}
        /\ seen \subseteq Links
        /\ moves \in 0 .. MaxMoves[switches]
    BY DEF IInv, Setup
  <2>6. QED
    BY <2>1, <2>2, <2>3, <2>4, <2>5 DEF TypeOK
<1>2. QED
  BY <1>1, Invariant, PTL

\* What a packet on the air has for a route, a reply and errors, whatever it is.
LEMMA PacketFacts ==
  ASSUME NEW L, NEW ro, NEW p, GoodPacket(p, L, ro)
  PROVE  /\ Good(p.route, L, ro) /\ p.route[1] = p.msg.src
         /\ Good(p.msg.reply, L, ro)
         /\ p.msg.type # "request" => p.route[Len(p.route)] = p.msg.dest
         /\ p.msg.type = "error" => Nested(p.msg.errors, p.msg.dest)
<1>1. Good(<<>>, L, ro)
  <2>1. /\ <<>> \in Seq(Node) /\ Len(<<>>) = 0 /\ Len(<<>>) <= MaxLen
        /\ \A i \in 1 .. Len(<<>>) : FALSE
        /\ \A i \in 1 .. Len(<<>>) - 1 : FALSE
        /\ \A i \in 2 .. Len(<<>>) - 1 : FALSE
    BY EmptySeq, NetworkConstants
  <2>2. QED
    BY <2>1 DEF Good
<1>2. CASE GoodRequest(p, L, ro)
  BY <1>1, <1>2 DEF GoodRequest
<1>3. CASE GoodUnicast(p, L, ro)
  BY <1>1, <1>3 DEF GoodUnicast, GoodPath, GoodMsg
<1>4. QED
  BY <1>2, <1>3 DEF GoodPacket

\* No source route, offered route or cached path visits a node twice, whatever
\* copies of a request meet and however routes are joined, cut and reversed.
THEOREM NoRouteRepeats == Spec => []RoutesSimple
<1>1. IInv => RoutesSimple
  <2> SUFFICES ASSUME IInv
               PROVE  RoutesSimple
    OBVIOUS
  <2>1. \A p \in air : Simple(p.route) /\ Simple(p.msg.reply)
    BY PacketFacts, GoodFacts DEF IInv, Air
  <2>2. \A n \in Node : \A r \in routes[n] : Simple(r)
    BY GoodFacts DEF IInv, Cache, OwnPath, GoodPath
  <2>3. QED
    BY <2>1, <2>2 DEF RoutesSimple
<1>2. QED
  BY <1>1, Invariant, PTL

\* The IP source of a packet heads its source route, and the destination ends it.
THEOREM SourceHeads == Spec => []SourceHeadsRoute
<1>1. IInv => SourceHeadsRoute
  BY PacketFacts DEF IInv, Air, SourceHeadsRoute, Last
<1>2. QED
  BY <1>1, Invariant, PTL

\* Cached paths start at their owners, and every link of a path, a source route or
\* an offered route has been up.
THEOREM OnlyLinksUsed == Spec => []RoutesWereLinks
<1>1. IInv => RoutesWereLinks
  <2> SUFFICES ASSUME IInv
               PROVE  RoutesWereLinks
    OBVIOUS
  <2>1. \A r : Good(r, seen, role) => WereLinks(r)
    BY DEF Good, WereLinks
  <2>2. \A n \in Node : \A r \in routes[n] : r[1] = n /\ WereLinks(r)
    BY <2>1 DEF IInv, Cache, OwnPath, GoodPath
  <2>3. \A p \in air : WereLinks(p.route) /\ WereLinks(p.msg.reply)
    BY <2>1, PacketFacts DEF IInv, Air
  <2>4. QED
    BY <2>2, <2>3 DEF RoutesWereLinks
<1>2. QED
  BY <1>1, Invariant, PTL

\* No packet is sent over a selfish node, and a selfish node never leaves a packet
\* it was asked to forward unattended.
THEOREM SelfishAvoided == Spec => []SelfishOffRoutes
<1>1. IInv => SelfishOffRoutes
  <2> SUFFICES ASSUME IInv
               PROVE  SelfishOffRoutes
    OBVIOUS
  <2>1. \A p \in air : Good(p.route, seen, role)
    BY PacketFacts DEF IInv, Air
  <2>2. \A p \in air : \A i \in 2 .. Len(p.route) - 1 : role[p.route[i]] # "selfish"
    BY <2>1 DEF Good
  <2>3. left # "held"
    BY DEF IInv, Setup
  <2>4. QED
    BY <2>2, <2>3 DEF SelfishOffRoutes
<1>2. QED
  BY <1>1, Invariant, PTL

\* A route error is addressed to the one it tells, and no agent has a packet for
\* itself to send.
THEOREM ErrorsFindAddressee == Spec => []ErrorsAddressed
<1>1. IInv => ErrorsAddressed
  <2> SUFFICES ASSUME IInv
               PROVE  ErrorsAddressed
    OBVIOUS
  <2>1. \A p \in air : p.msg.type = "error" => Last(p.msg.errors).tell = p.msg.dest
    BY PacketFacts DEF IInv, Air, Nested, Last
  <2>2. \A i \in DOMAIN todo : todo[i].msg.dest # todo[i].at
    <3>1. DOMAIN todo = 1 .. Len(todo)
      BY LenProperties DEF IInv, Todo
    <3>2. QED
      BY <3>1 DEF IInv, Todo, Own, GoodMsg
  <2>3. QED
    BY <2>1, <2>2 DEF ErrorsAddressed
<1>2. QED
  BY <1>1, Invariant, PTL

-----------------------------------------------------------------------------
(* Route errors reach the cache *)

\* Paths that errors have been purged from use none of the errors' links.
LEMMA PurgedPaths ==
  ASSUME NEW P, \A r \in P : r \in Seq(Node) /\ Len(r) >= 1, NEW e,
         NEW q \in Without(P, Dead(e)), NEW i \in DOMAIN e
  PROVE  ~HasLink(q, e[i].from, e[i].to)
<1>1. PICK r \in P : q = Upto(r, Dead(e))
  BY DEF Without
<1>2. \A k \in 1 .. Len(q) - 1 : <<q[k], q[k + 1]>> \notin Dead(e)
  BY <1>1, UptoFront
<1>3. <<e[i].from, e[i].to>> \in Dead(e)
  BY DEF Dead
<1>4. QED
  BY <1>2, <1>3 DEF HasLink

\* An error packet at its destination only leaves the air when it is received
\* there, or when its link is down.
LEMMA ErrorLeavesAir ==
  ASSUME IInv, [Next]_vars, NEW p \in air, p.msg.type = "error", p.to = p.msg.dest,
         p \notin air', {Sender(p), p.to} \in links
  PROVE  ReceiveError(p.to, p)
<1>1. CASE Receiving
  <2>1. PICK q \in air :
          \/ IgnoreRequest(q.to, q) \/ DropRequest(q.to, q)
          \/ ForwardRequest(q.to, q) \/ AnswerFromCache(q.to, q) \/ AnswerRequest(q.to, q)
          \/ \E prev \in Node : Forward(q.to, q, prev) \/ Drop(q.to, q, prev)
          \/ ReceiveData(q.to, q) \/ RefuseReply(q.to, q) \/ AcceptReply(q.to, q)
          \/ ReceiveError(q.to, q)
    BY <1>1 DEF Receiving
  <2>2. p = q
    <3>1. \E Y : air' = (air \ {q}) \cup Y
      <4>1. CASE \/ IgnoreRequest(q.to, q) \/ DropRequest(q.to, q)
                 \/ \E prev \in Node : Drop(q.to, q, prev)
                 \/ ReceiveData(q.to, q) \/ RefuseReply(q.to, q) \/ AcceptReply(q.to, q)
                 \/ ReceiveError(q.to, q)
        <5>1. air' = (air \ {q}) \cup {}
          BY <4>1 DEF IgnoreRequest, DropRequest, Drop, ReceiveData, RefuseReply,
             AcceptReply, ReceiveError
        <5>2. QED
          BY <5>1
      <4>2. CASE ForwardRequest(q.to, q)
        BY <4>2 DEF ForwardRequest
      <4>3. CASE AnswerFromCache(q.to, q)
        BY <4>3 DEF AnswerFromCache
      <4>4. CASE AnswerRequest(q.to, q)
        <5>1. \/ air' = (air \ {q}) \cup {Answer(q.to, q)}
              \/ air' = (air \ {q}) \cup {}
          BY <4>4 DEF AnswerRequest
        <5>2. QED
          BY <5>1
      <4>5. CASE \E prev \in Node : Forward(q.to, q, prev)
        BY <4>5 DEF Forward
      <4>6. QED
        BY <2>1, <4>1, <4>2, <4>3, <4>4, <4>5
    <3>2. QED
      BY <3>1
  <2>3. ~ \/ IgnoreRequest(p.to, p) \/ DropRequest(p.to, p)
          \/ ForwardRequest(p.to, p) \/ AnswerFromCache(p.to, p) \/ AnswerRequest(p.to, p)
    BY DEF IgnoreRequest, DropRequest, ForwardRequest, AnswerFromCache, AnswerRequest,
       RequestArrives
  <2>4. ~ \E prev \in Node : Forward(p.to, p, prev) \/ Drop(p.to, p, prev)
    BY DEF Forward, Drop, ForwardArrives
  <2>5. ~ (ReceiveData(p.to, p) \/ RefuseReply(p.to, p) \/ AcceptReply(p.to, p))
    BY DEF ReceiveData, RefuseReply, AcceptReply, Arrives
  <2>6. QED
    BY <2>1, <2>2, <2>3, <2>4, <2>5
<1>2. CASE \E q \in air : xmitFailed(q)
  <2>1. PICK q \in air : xmitFailed(q)
    BY <1>2
  <2>2. PICK Q \in SUBSET Queued(q) : air' = (air \ ({q} \cup Q)) \cup ErrorFor(q)
    BY <2>1 DEF xmitFailed
  <2>3. Sender(p) = Sender(q) /\ p.to = q.to
    BY <2>2 DEF Queued
  <2>4. {Sender(q), q.to} \notin links
    BY <2>1 DEF xmitFailed
  <2>5. QED
    BY <2>3, <2>4
<1>3. CASE air \subseteq air'
  BY <1>3
<1>4. QED
  <2>1. CASE OnTheLink
    <3>1. ASSUME NEW q \in air, NEW n \in Node,
                 TapError(n, q) \/ TapReply(n, q) \/ TapData(n, q)
          PROVE  air \subseteq air'
      BY <3>1 DEF TapError, TapReply, TapData
    <3>2. QED
      BY <1>2, <1>3, <2>1, <3>1 DEF OnTheLink
  <2>2. CASE SendOut \/ Wait \/ Request
    <3>1. air \subseteq air'
      BY <2>2 DEF SendOut, Wait, Request
    <3>2. QED
      BY <1>3, <3>1
  <2>3. CASE \/ \E s, d \in Node : Originate(s, d)
             \/ \E n \in Node : \E m \in waiting[n] : Retry(n, m) \/ SendTimeout(n, m)
             \/ \E n \in Node : HoldExpires(n) \/ setFaultyStatus(n)
             \/ \E n, m \in Node : addNodeToFaultyList(n, m) \/ removeNodeFromFaultyList(n, m)
             \/ \E l \in Links : Move(l)
    <3>1. air' = air
      BY <2>3 DEF Originate, Retry, SendTimeout, HoldExpires, setFaultyStatus,
         addNodeToFaultyList, removeNodeFromFaultyList, Move
    <3>2. QED
      BY <1>3, <3>1
  <2>4. CASE UNCHANGED vars
    BY <1>3, <2>4 DEF vars
  <2>5. QED
    BY <1>1, <2>1, <2>2, <2>3, <2>4 DEF Next

\* A route error that its addressee takes leaves that node no path with any of the
\* errors' links, the nested errors' included.
THEOREM ErrorsPurge == Spec => ErrorPurges
<1>1. IInv /\ [Next]_vars =>
        [\A p \in air :
           (/\ p.msg.type = "error" /\ p.to = p.msg.dest /\ p \notin air'
            /\ {Sender(p), p.to} \in links)
           => \A r \in routes'[p.to] : \A i \in DOMAIN p.msg.errors :
                ~HasLink(r, p.msg.errors[i].from, p.msg.errors[i].to)]_vars
  <2> SUFFICES ASSUME IInv, [Next]_vars, NEW p \in air, p.msg.type = "error",
                      p.to = p.msg.dest, p \notin air', {Sender(p), p.to} \in links,
                      NEW r \in routes'[p.to], NEW i \in DOMAIN p.msg.errors
               PROVE  ~HasLink(r, p.msg.errors[i].from, p.msg.errors[i].to)
    OBVIOUS
  <2>1. ReceiveError(p.to, p)
    BY ErrorLeavesAir
  <2>2. p.to \in Node /\ Cache
    BY KindOf DEF IInv
  <2>3. routes' = [routes EXCEPT ![p.to] = Without(routes[p.to], Dead(p.msg.errors))]
    BY <2>1 DEF ReceiveError, processBrokenRouteError, Purge
  <2>4. r \in Without(routes[p.to], Dead(p.msg.errors))
    <3>1. p.to \in DOMAIN routes
      BY <2>2 DEF Cache
    <3>2. QED
      BY <2>3, <3>1
  <2>5. \A q \in routes[p.to] : q \in Seq(Node) /\ Len(q) >= 1
    <3> SUFFICES ASSUME NEW q \in routes[p.to]
                 PROVE  q \in Seq(Node) /\ Len(q) >= 1
      OBVIOUS
    <3>1. q \in Seq(Node) /\ Len(q) >= 2
      BY <2>2 DEF Cache, OwnPath, GoodPath, Good
    <3>2. QED
      BY <3>1, LenProperties
  <2>6. QED
    BY <2>4, <2>5, PurgedPaths
<1>2. QED
  BY <1>1, Invariant, PTL DEF Spec, ErrorPurges

=============================================================================
