--------------------------- MODULE MobiCacheProofs ---------------------------
(***************************************************************************)
(* Theorems about MobiCache, for every set of routes and every size of the *)
(* two arrays: its types, that its paths are well formed and their links   *)
(* known, that a lookup returns a shortest route, that an added route is   *)
(* found, what a promotion may lose, and that the arrays implement a route *)
(* store.                                                                  *)
(***************************************************************************)
EXTENDS MobiCache, SequenceTheorems, WellFoundedInduction, TLAPS

Address == Node \cup {Me}

\* A path of the cache: simple, of two nodes or more, from this agent.
IsPath(p) ==
  /\ p \in Seq(Address)
  /\ Len(p) >= 2
  /\ p[1] = Me
  /\ \A i, j \in 1 .. Len(p) : p[i] = p[j] => i = j

\* What a slot of the cache may hold.
Path == {p \in Seq(Address) : IsPath(p)}

Content == Path \cup {<<>>}

\* The assumptions about the constants, in the form the provers need them.
LEMMA CacheConstants ==
  /\ Route \subseteq Path
  /\ Me \notin Node
  /\ PSize \in Nat /\ PSize > 0
  /\ SSize \in Nat /\ SSize > 0
BY CacheAssumption DEF Path, IsPath, Address

\* The inductive invariant: every slot is empty or holds a path, whose links are
\* known.
IInv ==
  /\ primary \in [1 .. PSize -> Content]
  /\ secondary \in [1 .. SSize -> Content]
  /\ pvictim \in 1 .. PSize
  /\ svictim \in 1 .. SSize
  /\ known \subseteq Address \X Node
  /\ \A i \in 1 .. PSize : Links(primary[i]) \subseteq known
  /\ \A i \in 1 .. SSize : Links(secondary[i]) \subseteq known

-----------------------------------------------------------------------------
(* Paths *)

\* What the provers need to know of a path.
LEMMA PathFacts ==
  ASSUME NEW p \in Path
  PROVE  /\ p \in Seq(Address)
         /\ Len(p) \in Nat /\ Len(p) >= 2
         /\ p \in [1 .. Len(p) -> Address]
         /\ p[1] = Me
         /\ p # <<>>
         /\ \A i, j \in 1 .. Len(p) : p[i] = p[j] => i = j
<1>1. p \in Seq(Address) /\ IsPath(p)
  BY DEF Path
<1>2. Len(<<>>) = 0
  OBVIOUS
<1>3. QED
  BY <1>1, <1>2, LenProperties DEF IsPath

\* An empty slot is no path and has no link.
LEMMA EmptyFacts == Len(<<>>) = 0 /\ <<>> \notin Path /\ Links(<<>>) = {}
<1>1. Len(<<>>) = 0
  OBVIOUS
<1>2. <<>> \notin Path
  BY <1>1 DEF Path, IsPath
<1>3. Links(<<>>) = {}
  BY <1>1 DEF Links
<1>4. QED
  BY <1>1, <1>2, <1>3

\* A path leads to other nodes only.
LEMMA LinksType ==
  ASSUME NEW p \in Path
  PROVE  Links(p) \subseteq Address \X Node
<1> SUFFICES ASSUME NEW i \in 1 .. Len(p) - 1
             PROVE  p[i] \in Address /\ p[i + 1] \in Node
  BY DEF Links
<1>1. i \in 1 .. Len(p) /\ i + 1 \in 1 .. Len(p) /\ 1 \in 1 .. Len(p) /\ i + 1 # 1
  BY PathFacts
<1>2. p[i] \in Address /\ p[i + 1] \in Address /\ p[i + 1] # Me
  BY <1>1, PathFacts
<1>3. QED
  BY <1>2 DEF Address

\* A path extends itself.
LEMMA ExtendsSelf ==
  ASSUME NEW p \in Path
  PROVE  Extends(p, p)
BY PathFacts, SubSeqFull DEF Extends

\* A path that extends another leads where that one does.
LEMMA ExtendsAt ==
  ASSUME NEW q \in Content, NEW p \in Path, Extends(q, p), NEW i \in 1 .. Len(p)
  PROVE  q \in Path /\ i \in 1 .. Len(q) /\ q[i] = p[i]
<1>1. Len(p) <= Len(q) /\ SubSeq(q, 1, Len(p)) = p
  BY DEF Extends
<1>2. q \in Path
  BY <1>1, EmptyFacts, PathFacts DEF Content
<1>3. i \in 1 .. Len(q)
  BY <1>1, <1>2, PathFacts
<1>4. \A k \in 1 .. Len(p) : q[k] \in Address
  BY <1>1, <1>2, PathFacts
<1>5. SubSeq(q, 1, Len(p))[i] = q[1 + i - 1]
  BY <1>4, PathFacts, SubSeqProperties
<1>6. 1 + i - 1 = i
  BY PathFacts
<1>7. QED
  BY <1>1, <1>2, <1>3, <1>5, <1>6

\* A path without what comes after a link, if anything is left of it, is a path
\* that uses the other links only.
LEMMA CutPath ==
  ASSUME NEW p \in Path, NEW a, NEW b, Len(Cut(p, a, b)) > 1
  PROVE  Cut(p, a, b) \in Path /\ Links(Cut(p, a, b)) \subseteq Links(p) \ {<<a, b>>}
<1>1. CASE ~HasLink(p, a, b)
  BY <1>1, PathFacts DEF Cut, HasLink, Links
<1>2. CASE HasLink(p, a, b)
  <2> DEFINE k == CHOOSE i \in 1 .. Len(p) - 1 : p[i] = a /\ p[i + 1] = b
             q == SubSeq(p, 1, k)
  <2>1. k \in 1 .. Len(p) - 1 /\ p[k] = a /\ p[k + 1] = b
    BY <1>2 DEF HasLink
  <2>2. Cut(p, a, b) = q
    BY <1>2 DEF Cut
  <2> HIDE DEF k
  <2>3. k \in Nat /\ k >= 1 /\ k <= Len(p) - 1 /\ Len(p) \in Nat
    BY <2>1, PathFacts
  <2>4. \A i \in 1 .. k : p[i] \in Address
    BY <2>3, PathFacts
  <2>5. q \in Seq(Address) /\ Len(q) = k /\ \A i \in 1 .. k : q[i] = p[i]
    <3>1. /\ q \in Seq(Address)
          /\ Len(q) = IF 1 <= k THEN k - 1 + 1 ELSE 0
          /\ \A i \in 1 .. k - 1 + 1 : q[i] = p[1 + i - 1]
      BY <2>3, <2>4, SubSeqProperties
    <3>2. k - 1 + 1 = k /\ \A i \in 1 .. k : 1 + i - 1 = i
      BY <2>3
    <3>3. QED
      BY <2>3, <3>1, <3>2
  <2> HIDE DEF q
  <2>6. IsPath(q)
    <3>1. Len(q) >= 2 /\ 1 \in 1 .. k
      BY <2>2, <2>3, <2>5
    <3>2. q[1] = Me
      BY <2>5, <3>1, PathFacts
    <3>3. \A i, j \in 1 .. Len(q) : q[i] = q[j] => i = j
      BY <2>3, <2>5, PathFacts
    <3>4. QED
      BY <2>5, <3>1, <3>2, <3>3 DEF IsPath
  <2>7. ASSUME NEW i \in 1 .. Len(q) - 1
        PROVE  <<q[i], q[i + 1]>> \in Links(p) \ {<<a, b>>}
    <3>1. /\ i \in 1 .. k /\ i + 1 \in 1 .. k /\ i \in 1 .. Len(p) - 1
          /\ i \in 1 .. Len(p) /\ k \in 1 .. Len(p) /\ i # k
      BY <2>3, <2>5, <2>7
    <3>2. q[i] = p[i] /\ q[i + 1] = p[i + 1] /\ p[i] # a
      BY <2>1, <2>5, <3>1, PathFacts
    <3>3. QED
      BY <3>1, <3>2 DEF Links
  <2>8. Links(q) \subseteq Links(p) \ {<<a, b>>}
    BY <2>7 DEF Links
  <2>9. QED
    BY <2>2, <2>5, <2>6, <2>8 DEF Path
<1>3. QED
  BY <1>1, <1>2

-----------------------------------------------------------------------------
(* One array of slots *)

\* A set of numbers has a least one.
LEMMA LeastNumber ==
  ASSUME NEW S, S \subseteq Nat, S # {}
  PROVE  \E x \in S : \A y \in S : x <= y
<1>1. IsWellFoundedOn(OpToRel(<, Nat), Nat)
  BY NatLessThanWellFounded
<1>2. PICK x \in S : \A y \in S : ~ (<<y, x>> \in OpToRel(<, Nat))
  BY <1>1, WFMin
<1>3. \A y \in S : ~(y < x)
  BY <1>2 DEF OpToRel
<1>4. QED
  BY <1>3

\* The first of some slots is one of them.
LEMMA FirstOf ==
  ASSUME NEW S, S \subseteq Nat, S # {}
  PROVE  First(S) \in S
<1>1. \E i \in S : \A j \in S : i <= j
  BY LeastNumber
<1>2. QED
  BY <1>1 DEF First

\* Adding a path changes one slot, which then holds a path that extends it; the
\* slot kept the path it had only if that one extends the path added.
LEMMA AddedSlots ==
  ASSUME NEW N \in Nat, N > 0, NEW c \in [1 .. N -> Content], NEW v \in 1 .. N,
         NEW p \in Path
  PROVE  /\ Slot(c, v, p) \in 1 .. N
         /\ NextVictim(c, v, p) \in 1 .. N
         /\ Added(c, v, p) \in [1 .. N -> Content]
         /\ \A i \in 1 .. N : i # Slot(c, v, p) => Added(c, v, p)[i] = c[i]
         /\ \/ /\ Extends(c[Slot(c, v, p)], p)
               /\ Added(c, v, p) = c
            \/ Added(c, v, p)[Slot(c, v, p)] = p
         /\ Extends(Added(c, v, p)[Slot(c, v, p)], p)
<1>1. Fitting(c, p) \subseteq 1 .. N /\ 1 .. N \subseteq Nat
  BY DEF Fitting
<1>2. Slot(c, v, p) \in 1 .. N
  BY <1>1, FirstOf DEF Slot
<1>3. NextVictim(c, v, p) \in 1 .. N
  <2>1. Len(c) = N
    OBVIOUS
  <2>2. (v % N) + 1 \in 1 .. N
    OBVIOUS
  <2>3. QED
    BY <2>1, <2>2 DEF NextVictim
<1> DEFINE s == Slot(c, v, p)
<1>4. Added(c, v, p) = [c EXCEPT ![s] = IF Extends(c[s], p) THEN c[s] ELSE p]
  BY DEF Added
<1> HIDE DEF s
<1>5. CASE Extends(c[s], p)
  BY <1>2, <1>3, <1>4, <1>5 DEF s
<1>6. CASE ~Extends(c[s], p)
  <2>1. Added(c, v, p) = [c EXCEPT ![s] = p]
    BY <1>4, <1>6
  <2>2. p \in Content
    BY DEF Content
  <2>3. s \in 1 .. N
    BY <1>2 DEF s
  <2>4. Added(c, v, p)[s] = p
    BY <2>1, <2>3
  <2>5. QED
    BY <1>2, <1>3, <2>1, <2>2, <2>3, <2>4, ExtendsSelf DEF s
<1>7. QED
  BY <1>5, <1>6

\* Adding a path keeps the links of a cache known.
LEMMA AddedLinks ==
  ASSUME NEW N \in Nat, N > 0, NEW c \in [1 .. N -> Content], NEW v \in 1 .. N,
         NEW p \in Path, NEW K, \A i \in 1 .. N : Links(c[i]) \subseteq K
  PROVE  \A i \in 1 .. N : Links(Added(c, v, p)[i]) \subseteq K \cup Links(p)
<1> SUFFICES ASSUME NEW i \in 1 .. N
             PROVE  Links(Added(c, v, p)[i]) \subseteq K \cup Links(p)
  OBVIOUS
<1>1. Added(c, v, p)[i] = c[i] \/ Added(c, v, p)[i] = p
  <2> DEFINE s == Slot(c, v, p)
             A == Added(c, v, p)
  <2>1. /\ \A k \in 1 .. N : k # s => A[k] = c[k]
        /\ A = c \/ A[s] = p
    BY AddedSlots, ZenonT(40)
  <2> HIDE DEF s, A
  <2>2. A[i] = c[i] \/ A[i] = p
    BY <2>1
  <2>3. QED
    BY <2>2 DEF A
<1>2. QED
  BY <1>1

\* Deleting a node empties the slots whose paths forward through it.
LEMMA DeletedSlots ==
  ASSUME NEW N \in Nat, NEW c \in [1 .. N -> Content], NEW n, NEW K,
         \A i \in 1 .. N : Links(c[i]) \subseteq K
  PROVE  /\ Deleted(c, n) \in [1 .. N -> Content]
         /\ \A i \in 1 .. N : Links(Deleted(c, n)[i]) \subseteq {l \in K : l[1] # n}
<1>1. ASSUME NEW i \in 1 .. N
      PROVE  /\ Deleted(c, n)[i] \in Content
             /\ Links(Deleted(c, n)[i]) \subseteq {l \in K : l[1] # n}
  <2>1. CASE n \in Forwarders(c[i])
    <3>1. Deleted(c, n)[i] = <<>>
      BY <2>1 DEF Deleted
    <3>2. QED
      BY <3>1, EmptyFacts DEF Content
  <2>2. CASE n \notin Forwarders(c[i])
    <3>1. Deleted(c, n)[i] = c[i]
      BY <2>2 DEF Deleted
    <3>2. \A l \in Links(c[i]) : l[1] # n
      BY <2>2 DEF Links, Forwarders
    <3>3. QED
      BY <3>1, <3>2
  <2>3. QED
    BY <2>1, <2>2
<1>2. DOMAIN Deleted(c, n) = 1 .. N
  BY DEF Deleted
<1>3. QED
  BY <1>1, <1>2 DEF Deleted

\* A dead link leaves paths without it.
LEMMA TruncatedSlots ==
  ASSUME NEW N \in Nat, NEW c \in [1 .. N -> Content], NEW a, NEW b, NEW K,
         \A i \in 1 .. N : Links(c[i]) \subseteq K
  PROVE  /\ Truncated(c, a, b) \in [1 .. N -> Content]
         /\ \A i \in 1 .. N : Links(Truncated(c, a, b)[i]) \subseteq K \ {<<a, b>>}
<1>1. ASSUME NEW i \in 1 .. N
      PROVE  /\ Truncated(c, a, b)[i] \in Content
             /\ Links(Truncated(c, a, b)[i]) \subseteq K \ {<<a, b>>}
  <2>1. CASE Len(Cut(c[i], a, b)) > 1
    <3>1. Truncated(c, a, b)[i] = Cut(c[i], a, b)
      BY <2>1 DEF Truncated
    <3>2. c[i] # <<>>
      <4>1. Cut(<<>>, a, b) = <<>>
        BY EmptyFacts DEF Cut, HasLink
      <4>2. QED
        BY <2>1, <4>1, EmptyFacts
    <3>3. c[i] \in Path
      BY <3>2 DEF Content
    <3>4. QED
      BY <2>1, <3>1, <3>3, CutPath DEF Content
  <2>2. CASE ~(Len(Cut(c[i], a, b)) > 1)
    <3>1. Truncated(c, a, b)[i] = <<>>
      BY <2>2 DEF Truncated
    <3>2. QED
      BY <3>1, EmptyFacts DEF Content
  <2>3. QED
    BY <2>1, <2>2
<1>2. QED
  BY <1>1 DEF Truncated

\* A slot that a lookup ends at holds the node looked for, no slot of the array
\* nearer.
LEMMA NearestSlot ==
  ASSUME NEW N \in Nat, NEW c \in [1 .. N -> Content], NEW d, Holding(c, d) # {}
  PROVE  /\ Nearest(c, d) \in Holding(c, d)
         /\ \A j \in Holding(c, d) :
              Position(c[Nearest(c, d)], d) <= Position(c[j], d)
<1> DEFINE pos(i) == Position(c[i], d)
           Best == {i \in Holding(c, d) : \A j \in Holding(c, d) : pos(i) <= pos(j)}
<1>1. Holding(c, d) \subseteq 1 .. N
  BY DEF Holding
<1>2. ASSUME NEW i \in Holding(c, d)
      PROVE  pos(i) \in Nat
  <2>1. \E n \in 1 .. Len(c[i]) : c[i][n] = d
    BY DEF Holding
  <2>2. pos(i) \in 1 .. Len(c[i])
    BY <2>1 DEF Position
  <2>3. c[i] \in Path \/ Len(c[i]) = 0
    BY <1>1, EmptyFacts DEF Content
  <2>4. QED
    BY <2>2, <2>3, PathFacts
<1>3. PICK x \in {pos(i) : i \in Holding(c, d)} : \A y \in {pos(i) : i \in Holding(c, d)} : x <= y
  <2>1. {pos(i) : i \in Holding(c, d)} \subseteq Nat /\ {pos(i) : i \in Holding(c, d)} # {}
    BY <1>2
  <2> HIDE DEF pos
  <2>2. QED
    BY <2>1, LeastNumber
<1>4. Best # {} /\ Best \subseteq Nat
  BY <1>1, <1>3
<1>5. Nearest(c, d) = First(Best)
  BY DEF Nearest
<1> HIDE DEF Best
<1>6. First(Best) \in Best
  BY <1>4, FirstOf
<1>7. QED
  BY <1>5, <1>6 DEF Best

-----------------------------------------------------------------------------
(* The invariant *)

\* What is overheard of the routes from here on is a path.
LEMMA StubPath ==
  ASSUME NEW h \in Heard, NEW p \in Stubs(h)
  PROVE  p \in Route /\ p \in Path
BY HeardAssumption, CacheConstants

\* The path that a lookup for this agent promotes is one of the secondary cache.
LEMMA Promoted ==
  ASSUME IInv, NEW d, InSecondary(d)
  PROVE  /\ Nearest(secondary, d) \in 1 .. SSize
         /\ secondary[Nearest(secondary, d)] \in Path
<1> DEFINE i == Nearest(secondary, d)
<1>1. i \in Holding(secondary, d)
  BY CacheConstants, NearestSlot DEF IInv, InSecondary
<1> HIDE DEF i
<1>2. i \in 1 .. SSize /\ Len(secondary[i]) # 0
  <2>1. i \in 1 .. SSize /\ \E n \in 1 .. Len(secondary[i]) : secondary[i][n] = d
    BY <1>1 DEF IInv, Holding
  <2>2. QED
    BY <2>1
<1>3. secondary[i] \in Path
  BY <1>2, EmptyFacts DEF IInv, Content
<1>4. QED
  BY <1>2, <1>3 DEF i

\* Every step keeps the invariant.
LEMMA InvNext == IInv /\ [Next]_vars => IInv'
<1> SUFFICES ASSUME IInv, [Next]_vars
             PROVE  IInv'
  OBVIOUS
<1>1. /\ primary \in [1 .. PSize -> Content] /\ secondary \in [1 .. SSize -> Content]
      /\ pvictim \in 1 .. PSize /\ svictim \in 1 .. SSize
      /\ known \subseteq Address \X Node
      /\ \A i \in 1 .. PSize : Links(primary[i]) \subseteq known
      /\ \A i \in 1 .. SSize : Links(secondary[i]) \subseteq known
  BY DEF IInv
<1>2. ASSUME NEW p \in Path
      PROVE  /\ Added(primary, pvictim, p) \in [1 .. PSize -> Content]
             /\ NextVictim(primary, pvictim, p) \in 1 .. PSize
             /\ \A i \in 1 .. PSize :
                  Links(Added(primary, pvictim, p)[i]) \subseteq known \cup Links(p)
             /\ known \cup Links(p) \subseteq Address \X Node
  BY <1>1, AddedSlots, AddedLinks, LinksType, CacheConstants
<1>3. ASSUME NEW p \in Route, addRoute(p)
      PROVE  IInv'
  <2>1. p \in Path
    BY CacheConstants
  <2>2. QED
    BY <1>1, <1>2, <1>3, <2>1 DEF addRoute, IInv
<1>4. ASSUME NEW h \in Heard, noticeRouteUsed(h)
      PROVE  IInv'
  <2>1. PICK p \in Stubs(h) :
          /\ secondary' = Added(secondary, svictim, p)
          /\ svictim' = NextVictim(secondary, svictim, p)
          /\ known' = known \cup Links(p)
          /\ UNCHANGED <<primary, pvictim>>
    BY <1>4 DEF noticeRouteUsed
  <2>2. p \in Path
    BY StubPath
  <2>3. /\ Added(secondary, svictim, p) \in [1 .. SSize -> Content]
        /\ NextVictim(secondary, svictim, p) \in 1 .. SSize
        /\ \A i \in 1 .. SSize :
             Links(Added(secondary, svictim, p)[i]) \subseteq known \cup Links(p)
        /\ known \cup Links(p) \subseteq Address \X Node
    BY <1>1, <2>2, AddedSlots, AddedLinks, LinksType, CacheConstants
  <2>4. QED
    BY <1>1, <2>1, <2>3 DEF IInv
<1>5. ASSUME NEW d \in Node, findRoute(d)
      PROVE  IInv'
  <2> DEFINE i == Nearest(secondary, d)
             p == secondary[i]
  <2>1. i \in 1 .. SSize /\ p \in Path
    BY <1>5, Promoted DEF findRoute
  <2>2. /\ primary' = Added(primary, pvictim, p)
        /\ pvictim' = NextVictim(primary, pvictim, p)
        /\ secondary' = [secondary EXCEPT ![i] = <<>>]
        /\ svictim' = svictim /\ known' = known
    BY <1>5 DEF findRoute
  <2> HIDE DEF i
  <2>3. Links(p) \subseteq known
    BY <1>1, <2>1
  <2>4. /\ secondary' \in [1 .. SSize -> Content]
        /\ \A j \in 1 .. SSize : Links(secondary'[j]) \subseteq known
    <3>1. <<>> \in Content /\ Links(<<>>) \subseteq known
      BY EmptyFacts DEF Content
    <3>2. QED
      BY <1>1, <2>1, <2>2, <3>1
  <2>5. known \cup Links(p) = known
    BY <2>3
  <2> HIDE DEF p
  <2>6. /\ primary' \in [1 .. PSize -> Content]
        /\ pvictim' \in 1 .. PSize
        /\ \A j \in 1 .. PSize : Links(primary'[j]) \subseteq known
    BY <1>2, <2>1, <2>2, <2>5
  <2>7. QED
    BY <1>1, <2>2, <2>4, <2>6 DEF IInv
<1>6. ASSUME NEW n \in Node, deleteRoute(n)
      PROVE  IInv'
  BY <1>1, <1>6, DeletedSlots, CacheConstants DEF deleteRoute, IInv
<1>7. ASSUME NEW a \in Node \cup {Me}, NEW b \in Node, noticeDeadLink(a, b)
      PROVE  IInv'
  BY <1>1, <1>7, TruncatedSlots, CacheConstants, ZenonT(40) DEF noticeDeadLink, IInv
<1>8. CASE UNCHANGED vars
  BY <1>1, <1>8 DEF vars, IInv
<1>9. QED
  BY <1>3, <1>4, <1>5, <1>6, <1>7, <1>8 DEF Next

\* The initial state has the invariant.
LEMMA InvInit == Init => IInv
<1> SUFFICES ASSUME Init
             PROVE  IInv
  OBVIOUS
<1>1. <<>> \in Content
  BY DEF Content
<1>2. ASSUME NEW i
      PROVE  /\ i \in 1 .. PSize => primary[i] = <<>>
             /\ i \in 1 .. SSize => secondary[i] = <<>>
  BY DEF Init
<1>3. QED
  BY <1>1, <1>2, EmptyFacts, CacheConstants DEF Init, IInv

\* Every slot is empty or holds a path, whose links are known.
THEOREM Inv == Spec => []IInv
BY InvInit, InvNext, PTL DEF Spec

\* The state keeps its types.
THEOREM TypeCorrect == Spec => []TypeOK
<1>1. IInv => TypeOK
  <2> SUFFICES ASSUME IInv
               PROVE  TypeOK
    OBVIOUS
  <2>1. Content \subseteq Seq(Address)
    BY PathFacts, EmptySeq DEF Content
  <2>2. QED
    BY <2>1 DEF IInv, TypeOK, Address
<1>2. QED
  BY <1>1, Inv, PTL

\* Every cached path is in a slot.
LEMMA CachedSlot ==
  ASSUME IInv, NEW p \in Cached
  PROVE  /\ p \in Path
         /\ Links(p) \subseteq known
         /\ \/ \E i \in 1 .. PSize : p = primary[i]
            \/ \E i \in 1 .. SSize : p = secondary[i]
BY DEF Cached, IInv, Content

\* No path has an id more than once, and all start with the id of the agent.
THEOREM WellFormed == Spec => []PathsWellFormed
<1>1. IInv => PathsWellFormed
  BY CachedSlot, PathFacts DEF PathsWellFormed
<1>2. QED
  BY <1>1, Inv, PTL

\* No cached path uses a link that was reported dead, or that leaves a node whose
\* routes were deleted, unless the link was learned again since.
THEOREM LinksKnown == Spec => []CachedLinksKnown
<1>1. IInv => CachedLinksKnown
  BY CachedSlot DEF CachedLinksKnown
<1>2. QED
  BY <1>1, Inv, PTL

-----------------------------------------------------------------------------
(* Lookups *)

\* The nearest slot of an array that reaches d is no farther from d than any
\* place where the array has d.
LEMMA NearestPosition ==
  ASSUME NEW N \in Nat, NEW c \in [1 .. N -> Content], NEW d,
         NEW j \in 1 .. N, NEW n \in 1 .. Len(c[j]), c[j][n] = d
  PROVE  /\ j \in Holding(c, d)
         /\ Position(c[Nearest(c, d)], d) \in Nat
         /\ n \in Nat
         /\ Position(c[Nearest(c, d)], d) <= n
<1>1. j \in Holding(c, d) /\ Holding(c, d) \subseteq 1 .. N
  BY DEF Holding
<1>2. ASSUME NEW i \in Holding(c, d)
      PROVE  c[i] \in Path /\ Position(c[i], d) \in 1 .. Len(c[i]) /\ c[i][Position(c[i], d)] = d
  <2>1. \E m \in 1 .. Len(c[i]) : c[i][m] = d
    BY DEF Holding
  <2>2. c[i] \in Path
    BY <1>1, <2>1, EmptyFacts DEF Content
  <2>3. QED
    BY <2>1, <2>2 DEF Position
<1>3. Position(c[j], d) = n
  BY <1>1, <1>2, PathFacts
<1>4. Nearest(c, d) \in Holding(c, d) /\ Position(c[Nearest(c, d)], d) <= Position(c[j], d)
  BY <1>1, NearestSlot
<1>5. Position(c[Nearest(c, d)], d) \in Nat /\ n \in Nat
  BY <1>1, <1>2, <1>4, PathFacts
<1>6. QED
  BY <1>1, <1>3, <1>4, <1>5

\* In every state with the invariant a lookup returns a shortest route.
LEMMA FoundShortest == IInv => FoundIsShortest
<1> SUFFICES ASSUME IInv, NEW d \in Node, Reached(d), NEW p \in Cached,
                    NEW n \in 1 .. Len(p), p[n] = d
             PROVE  Hops(d) <= n - 1
  BY DEF FoundIsShortest
<1> DEFINE P == Position(primary[Nearest(primary, d)], d)
           S == Position(secondary[Nearest(secondary, d)], d)
<1>1. /\ primary \in [1 .. PSize -> Content] /\ secondary \in [1 .. SSize -> Content]
      /\ PSize \in Nat /\ SSize \in Nat
  BY CacheConstants DEF IInv
<1>2. ASSUME NEW N \in Nat, NEW c \in [1 .. N -> Content], Holding(c, d) # {}
      PROVE  Position(c[Nearest(c, d)], d) \in Nat
  <2>1. PICK j \in 1 .. N : \E m \in 1 .. Len(c[j]) : c[j][m] = d
    BY <1>2 DEF Holding
  <2>2. QED
    BY <2>1, NearestPosition
<1>3. /\ Holding(primary, d) # {} => P \in Nat
      /\ Holding(secondary, d) # {} => S \in Nat
  BY <1>1, <1>2
<1>4. \/ Holding(primary, d) # {} /\ P <= n /\ n \in Nat
      \/ Holding(secondary, d) # {} /\ S <= n /\ n \in Nat
  <2>1. CASE \E i \in 1 .. PSize : p = primary[i]
    BY <1>1, <2>1, NearestPosition
  <2>2. CASE \E i \in 1 .. SSize : p = secondary[i]
    BY <1>1, <2>2, NearestPosition
  <2>3. QED
    BY <2>1, <2>2, CachedSlot
<1>5. Hops(d) = IF InSecondary(d) THEN S - 1 ELSE P - 1
  BY DEF Hops, FoundIn
<1>6. InSecondary(d) <=> Holding(secondary, d) # {} /\ (Holding(primary, d) # {} => S < P)
  BY DEF InSecondary
<1> HIDE DEF P, S
<1>7. QED
  BY <1>3, <1>4, <1>5, <1>6

\* findRoute returns a shortest of the cached routes.
THEOREM ShortestFound == Spec => []FoundIsShortest
BY FoundShortest, Inv, PTL

\* A route that was just added leads to each of its nodes in no more hops than it
\* has.
THEOREM AddedFound == Spec => AddedRouteFound
<1>1. IInv /\ IInv' /\ FoundIsShortest' =>
        [\A p \in Route : addRoute(p) =>
           \A i \in 2 .. Len(p) : Reached(p[i])' /\ Hops(p[i])' <= i - 1]_vars
  <2> SUFFICES ASSUME IInv, IInv', FoundIsShortest', NEW p \in Route, addRoute(p),
                      NEW i \in 2 .. Len(p)
               PROVE  Reached(p[i])' /\ Hops(p[i])' <= i - 1
    OBVIOUS
  <2> DEFINE s == Slot(primary, pvictim, p)
  <2>1. p \in Path
    BY CacheConstants
  <2>2. s \in 1 .. PSize /\ Extends(primary'[s], p)
    BY <2>1, AddedSlots, CacheConstants DEF addRoute, IInv
  <2> HIDE DEF s
  <2>3. i \in 1 .. Len(p) /\ i # 1
    BY <2>1, PathFacts
  <2>4. primary'[s] \in Content
    BY <2>2 DEF IInv
  <2>5. /\ primary'[s] \in Path
        /\ i \in 1 .. Len(primary'[s])
        /\ primary'[s][i] = p[i]
    BY <2>1, <2>2, <2>3, <2>4, ExtendsAt
  <2>6. primary'[s] \in Cached'
    BY <2>2, <2>5, PathFacts DEF Cached
  <2>7. p[i] \in Node
    <3>1. 1 \in 1 .. Len(p)
      BY <2>1, PathFacts
    <3>2. p[i] \in Address /\ p[i] # Me
      BY <2>1, <2>3, <3>1, PathFacts
    <3>3. QED
      BY <3>2 DEF Address
  <2>8. s \in Holding(primary, p[i])'
    BY <2>2, <2>5 DEF Holding, IInv
  <2>9. Reached(p[i])'
    BY <2>8 DEF Reached
  <2>10. Hops(p[i])' <= i - 1
    BY <2>5, <2>6, <2>7, <2>9 DEF FoundIsShortest
  <2>11. QED
    BY <2>9, <2>10
<1>2. QED
  BY <1>1, Inv, ShortestFound, PTL DEF AddedRouteFound

\* Where the route that a lookup returns is.
LEMMA FoundPlace ==
  ASSUME IInv, NEW d, Reached(d)
  PROVE  \E k \in Nat :
           /\ Hops(d) = k - 1
           /\ \/ \E j \in 1 .. PSize : k \in 1 .. Len(primary[j]) /\ primary[j][k] = d
              \/ \E j \in 1 .. SSize : k \in 1 .. Len(secondary[j]) /\ secondary[j][k] = d
<1>1. /\ primary \in [1 .. PSize -> Content] /\ secondary \in [1 .. SSize -> Content]
      /\ PSize \in Nat /\ SSize \in Nat
  BY CacheConstants DEF IInv
<1>2. ASSUME NEW N \in Nat, NEW c \in [1 .. N -> Content], Holding(c, d) # {}
      PROVE  /\ Nearest(c, d) \in 1 .. N
             /\ Position(c[Nearest(c, d)], d) \in Nat
             /\ Position(c[Nearest(c, d)], d) \in 1 .. Len(c[Nearest(c, d)])
             /\ c[Nearest(c, d)][Position(c[Nearest(c, d)], d)] = d
  <2> DEFINE i == Nearest(c, d)
             k == Position(c[i], d)
  <2>1. i \in Holding(c, d)
    BY <1>2, NearestSlot
  <2> HIDE DEF i
  <2>2. i \in 1 .. N /\ \E m \in 1 .. Len(c[i]) : c[i][m] = d
    BY <2>1 DEF Holding
  <2>3. k \in 1 .. Len(c[i]) /\ c[i][k] = d
    BY <2>2 DEF Position
  <2> HIDE DEF k
  <2>4. k \in Nat
    BY <2>3
  <2>5. QED
    BY <2>2, <2>3, <2>4 DEF i, k
<1>3. CASE InSecondary(d)
  <2>1. Holding(secondary, d) # {}
    BY <1>3 DEF InSecondary
  <2>2. Hops(d) = Position(secondary[Nearest(secondary, d)], d) - 1
    BY <1>3 DEF Hops, FoundIn
  <2>3. QED
    BY <1>1, <1>2, <2>1, <2>2
<1>4. CASE ~InSecondary(d)
  <2>1. Holding(primary, d) # {}
    BY <1>4 DEF InSecondary, Reached
  <2>2. Hops(d) = Position(primary[Nearest(primary, d)], d) - 1
    BY <1>4 DEF Hops, FoundIn
  <2>3. QED
    BY <1>1, <1>2, <2>1, <2>2
<1>5. QED
  BY <1>3, <1>4

\* Slot j of array c, of N slots, leads where it did at place k after path p is
\* added, or has been the victim in a full array.
KeptAt(N, c, v, p, j, k) ==
  \/ k \in 1 .. Len(Added(c, v, p)[j]) /\ Added(c, v, p)[j][k] = c[j][k]
  \/ j = v /\ \A i \in 1 .. N : c[i] # <<>>

\* A path that is added to an array takes nothing away but the victim's path, and
\* that only if every slot is taken.
LEMMA AddedKeeps ==
  ASSUME NEW N \in Nat, N > 0, NEW c \in [1 .. N -> Content], NEW v \in 1 .. N,
         NEW p \in Path, NEW j \in 1 .. N, NEW k \in 1 .. Len(c[j])
  PROVE  KeptAt(N, c, v, p, j, k)
<1> USE DEF KeptAt
<1> DEFINE s == Slot(c, v, p)
           A == Added(c, v, p)
<1>1. CASE j # s
  <2>1. \A i \in 1 .. N : i # s => A[i] = c[i]
    BY AddedSlots
  <2> HIDE DEF A, s
  <2>2. A[j] = c[j]
    BY <1>1, <2>1
  <2>3. QED
    BY <2>2 DEF A
<1>2. CASE j = s /\ Fitting(c, p) = {}
  <2>1. j = v
    BY <1>2 DEF Slot
  <2>2. \A i \in 1 .. N : ~Extends(p, c[i])
    BY <1>2 DEF Fitting
  <2>3. Extends(p, <<>>)
    BY PathFacts DEF Extends
  <2>4. QED
    BY <2>1, <2>2, <2>3
<1>3. CASE j = s /\ Fitting(c, p) # {}
  <2>1. s \in Fitting(c, p)
    <3>1. Fitting(c, p) \subseteq Nat
      BY DEF Fitting
    <3>2. QED
      BY <1>3, <3>1, FirstOf DEF Slot
  <2>2. Extends(p, c[s]) \/ Extends(c[s], p)
    BY <2>1 DEF Fitting
  <2>3. /\ \/ Extends(c[s], p) /\ A = c
           \/ A[s] = p
        /\ Extends(A[s], p)
    BY AddedSlots
  <2>4. CASE A = c
    BY <1>3, <2>4
  <2>5. CASE A[s] = p
    <3>1. c[j] \in Path
      BY EmptyFacts DEF Content
    <3>2. CASE Extends(p, c[s])
      <4>1. p \in Content
        BY DEF Content
      <4> HIDE DEF A, s
      <4>2. k \in 1 .. Len(p) /\ p[k] = c[j][k]
        BY <1>3, <3>1, <3>2, <4>1, ExtendsAt
      <4>3. QED
        BY <1>3, <2>5, <4>2 DEF A
    <3>3. CASE Extends(c[s], p)
      <4>1. A = c
        BY <3>3 DEF Added
      <4>2. QED
        BY <1>3, <4>1
    <3>4. QED
      BY <2>2, <3>2, <3>3
  <2>6. QED
    BY <2>3, <2>4, <2>5
<1>4. QED
  BY <1>1, <1>2, <1>3

\* A search that promotes a path makes no node unreachable, or farther away, but
\* those that the primary cache's victim led to, and that only when it is full.
THEOREM OnlyVictimLost == Spec => SearchLosesVictim
<1>1. ASSUME IInv, IInv', FoundIsShortest', NEW d \in Node, findRoute(d),
             NEW n \in Node, Reached(n)
      PROVE  \/ Reached(n)' /\ Hops(n)' <= Hops(n)
             \/ /\ \A i \in 1 .. PSize : primary[i] # <<>>
                /\ \E k \in 1 .. Len(primary[pvictim]) : primary[pvictim][k] = n
  <2> DEFINE i == Nearest(secondary, d)
             p == secondary[i]
  <2>1. /\ primary \in [1 .. PSize -> Content] /\ secondary \in [1 .. SSize -> Content]
        /\ pvictim \in 1 .. PSize
        /\ PSize \in Nat /\ PSize > 0 /\ SSize \in Nat
        /\ primary' \in [1 .. PSize -> Content] /\ secondary' \in [1 .. SSize -> Content]
    BY <1>1, CacheConstants DEF IInv
  <2>2. /\ i \in 1 .. SSize /\ p \in Path
        /\ primary' = Added(primary, pvictim, p)
        /\ secondary' = [secondary EXCEPT ![i] = <<>>]
    BY <1>1, Promoted DEF findRoute
  <2> HIDE DEF i
  <2>3. PICK k \in Nat :
          /\ Hops(n) = k - 1
          /\ \/ \E j \in 1 .. PSize : k \in 1 .. Len(primary[j]) /\ primary[j][k] = n
             \/ \E j \in 1 .. SSize : k \in 1 .. Len(secondary[j]) /\ secondary[j][k] = n
    BY <1>1, FoundPlace
  <2>4. ASSUME NEW j \in 1 .. PSize, k \in 1 .. Len(primary'[j]), primary'[j][k] = n
        PROVE  Reached(n)' /\ Hops(n)' <= k - 1
    <3>1. primary'[j] \in Path
      BY <2>1, <2>4, EmptyFacts DEF Content
    <3>2. primary'[j] \in Cached'
      BY <3>1, PathFacts DEF Cached
    <3>3. j \in Holding(primary, n)'
      BY <2>1, <2>4 DEF Holding
    <3>4. Reached(n)'
      BY <3>3 DEF Reached
    <3>5. QED
      BY <1>1, <2>4, <3>2, <3>4 DEF FoundIsShortest
  <2>5. ASSUME NEW j \in 1 .. SSize, k \in 1 .. Len(secondary'[j]), secondary'[j][k] = n
        PROVE  Reached(n)' /\ Hops(n)' <= k - 1
    <3>1. secondary'[j] \in Path
      BY <2>1, <2>5, EmptyFacts DEF Content
    <3>2. secondary'[j] \in Cached'
      BY <3>1, PathFacts DEF Cached
    <3>3. j \in Holding(secondary, n)'
      BY <2>1, <2>5 DEF Holding
    <3>4. Reached(n)'
      BY <3>3 DEF Reached
    <3>5. QED
      BY <1>1, <2>5, <3>2, <3>4 DEF FoundIsShortest
  <2>6. CASE \E j \in 1 .. PSize : k \in 1 .. Len(primary[j]) /\ primary[j][k] = n
    <3>1. PICK j \in 1 .. PSize : k \in 1 .. Len(primary[j]) /\ primary[j][k] = n
      BY <2>6
    <3>2. \/ k \in 1 .. Len(primary'[j]) /\ primary'[j][k] = primary[j][k]
          \/ j = pvictim /\ \A q \in 1 .. PSize : primary[q] # <<>>
      <4> DEFINE A == Added(primary, pvictim, p)
      <4> HIDE DEF p
      <4>1. \/ k \in 1 .. Len(A[j]) /\ A[j][k] = primary[j][k]
            \/ j = pvictim /\ \A q \in 1 .. PSize : primary[q] # <<>>
        <5>1. /\ PSize \in Nat /\ PSize > 0 /\ primary \in [1 .. PSize -> Content]
              /\ pvictim \in 1 .. PSize /\ p \in Path /\ k \in 1 .. Len(primary[j])
          BY <2>1, <2>2, <3>1
        <5> HIDE DEF A
        <5>2. KeptAt(PSize, primary, pvictim, p, j, k)
          BY <5>1, AddedKeeps
        <5>3. QED
          BY <5>2 DEF KeptAt, A
      <4>2. primary' = A
        BY <2>2
      <4> HIDE DEF A
      <4>3. QED
        BY <4>1, <4>2
    <3>3. QED
      BY <2>3, <2>4, <3>1, <3>2
  <2>7. CASE \E j \in 1 .. SSize : k \in 1 .. Len(secondary[j]) /\ secondary[j][k] = n
    <3>1. PICK j \in 1 .. SSize : k \in 1 .. Len(secondary[j]) /\ secondary[j][k] = n
      BY <2>7
    <3>2. CASE j # i
      <4>1. secondary'[j] = secondary[j]
        BY <2>1, <2>2, <3>2
      <4>2. QED
        BY <2>3, <2>5, <3>1, <4>1
    <3>3. CASE j = i
      <4> DEFINE s == Slot(primary, pvictim, p)
      <4>1. s \in 1 .. PSize /\ Extends(primary'[s], p)
        BY <2>1, <2>2, AddedSlots
      <4> HIDE DEF s
      <4>2. k \in 1 .. Len(p) /\ p[k] = n
        BY <3>1, <3>3
      <4>3. primary'[s] \in Content
        BY <2>1, <4>1
      <4>4. k \in 1 .. Len(primary'[s]) /\ primary'[s][k] = n
        BY <2>2, <4>1, <4>2, <4>3, ExtendsAt
      <4>5. QED
        BY <2>3, <2>4, <4>1, <4>4
    <3>4. QED
      BY <3>2, <3>3
  <2>8. QED
    BY <2>3, <2>6, <2>7
<1>2. IInv /\ IInv' /\ FoundIsShortest' =>
        [\A d \in Node : findRoute(d) =>
           \A n \in Node : Reached(n) =>
             \/ Reached(n)' /\ Hops(n)' <= Hops(n)
             \/ /\ \A i \in 1 .. PSize : primary[i] # <<>>
                /\ \E k \in 1 .. Len(primary[pvictim]) : primary[pvictim][k] = n]_vars
  BY <1>1
<1>3. QED
  BY <1>2, Inv, ShortestFound, PTL DEF SearchLosesVictim

-----------------------------------------------------------------------------
(* The route store *)

\* The paths of an array of N slots, and R, those of the other.
Stored(c, N, R) == ({c[i] : i \in 1 .. N} \cup R) \ {<<>>}

\* Adding a path to an array next to which the other one holds the paths R.
LEMMA AddedStored ==
  ASSUME NEW N \in Nat, N > 0, NEW c \in [1 .. N -> Content], NEW v \in 1 .. N,
         NEW p \in Path, NEW R
  PROVE  Stored(Added(c, v, p), N, R) \in Insertions(Stored(c, N, R), p)
<1> DEFINE A == Added(c, v, p)
           s == Slot(c, v, p)
           P == ({c[i] : i \in 1 .. N} \cup R) \ {<<>>}
           Q == ({A[i] : i \in 1 .. N} \cup R) \ {<<>>}
<1>1. /\ s \in 1 .. N
      /\ \A i \in 1 .. N : i # s => A[i] = c[i]
      /\ (Extends(c[s], p) /\ A = c) \/ A[s] = p
  BY AddedSlots, ZenonT(40)
<1>2. p # <<>> /\ 1 \in 1 .. Len(p)
  BY PathFacts
<1>3. Extends(c[s], p) => c[s] # <<>>
  BY <1>1, <1>2, ExtendsAt, EmptyFacts
<1> HIDE DEF A, s
<1>4. ASSUME Extends(c[s], p), A = c
      PROVE  Q = P /\ \E q \in P : Extends(q, p)
  <2>1. Q = P
    BY <1>4
  <2>2. c[s] \in P
    BY <1>1, <1>3, <1>4
  <2>3. QED
    BY <1>4, <2>1, <2>2
<1>5. ASSUME A[s] = p
      PROVE  Q = P \cup {p} \/ \E q \in P : Q = (P \ {q}) \cup {p}
  <2>1. CASE c[s] = <<>> \/ c[s] \in R \/ \E i \in 1 .. N : i # s /\ c[i] = c[s]
    <3>1. ASSUME NEW x \in Q
          PROVE  x \in P \cup {p}
      BY <1>1, <1>5
    <3>2. ASSUME NEW x \in P \cup {p}
          PROVE  x \in Q
      <4>1. CASE x = p
        BY <1>1, <1>2, <1>5, <4>1
      <4>2. CASE x # p /\ x \in P
        BY <1>1, <1>5, <2>1, <4>2
      <4>3. QED
        BY <4>1, <4>2
    <3>3. Q = P \cup {p}
      BY <3>1, <3>2
    <3>4. QED
      BY <3>3
  <2>2. CASE ~(c[s] = <<>> \/ c[s] \in R \/ \E i \in 1 .. N : i # s /\ c[i] = c[s])
    <3>1. c[s] \in P
      BY <1>1, <2>2
    <3>2. ASSUME NEW x \in Q
          PROVE  x \in (P \ {c[s]}) \cup {p}
      BY <1>1, <1>5, <2>2
    <3>3. ASSUME NEW x \in (P \ {c[s]}) \cup {p}
          PROVE  x \in Q
      <4>1. CASE x = p
        BY <1>1, <1>2, <1>5, <4>1
      <4>2. CASE x \in P \ {c[s]}
        BY <1>1, <4>2
      <4>3. QED
        BY <3>3, <4>1, <4>2
    <3>4. Q = (P \ {c[s]}) \cup {p}
      BY <3>2, <3>3
    <3>5. QED
      BY <3>1, <3>4
  <2>3. QED
    BY <2>1, <2>2
<1>6. Q = P \cup {p} \/ (\E q \in P : Q = (P \ {q}) \cup {p}) \/ (Q = P /\ \E q \in P : Extends(q, p))
  BY <1>1, <1>4, <1>5
<1>7. Q \in Insertions(P, p)
  BY <1>6 DEF Insertions
<1>8. QED
  BY <1>7 DEF A, Stored

\* A path that is learned goes into the store as the store may take it.
LEMMA LearnRefined ==
  ASSUME IInv, NEW p \in Path,
         \/ primary' = Added(primary, pvictim, p) /\ secondary' = secondary
         \/ secondary' = Added(secondary, svictim, p) /\ primary' = primary
  PROVE  Cached' \in Insertions(Cached, p)
<1>1. /\ primary \in [1 .. PSize -> Content] /\ secondary \in [1 .. SSize -> Content]
      /\ pvictim \in 1 .. PSize /\ svictim \in 1 .. SSize
      /\ PSize \in Nat /\ PSize > 0 /\ SSize \in Nat /\ SSize > 0
  BY CacheConstants DEF IInv
<1>2. CASE primary' = Added(primary, pvictim, p) /\ secondary' = secondary
  <2> DEFINE R == {secondary[i] : i \in 1 .. SSize}
  <2>1. Cached = Stored(primary, PSize, R)
    BY DEF Cached, Stored
  <2>2. Cached' = Stored(Added(primary, pvictim, p), PSize, R)
    BY <1>2 DEF Cached, Stored
  <2> HIDE DEF R
  <2>3. QED
    BY <1>1, <2>1, <2>2, AddedStored
<1>3. CASE secondary' = Added(secondary, svictim, p) /\ primary' = primary
  <2> DEFINE R == {primary[i] : i \in 1 .. PSize}
  <2>1. Cached = Stored(secondary, SSize, R)
    BY DEF Cached, Stored
  <2>2. Cached' = Stored(Added(secondary, svictim, p), SSize, R)
    BY <1>3 DEF Cached, Stored
  <2> HIDE DEF R
  <2>3. QED
    BY <1>1, <2>1, <2>2, AddedStored
<1>4. QED
  BY <1>2, <1>3

\* A path that a lookup promotes moves within the store as the store may move it.
LEMMA UseRefined ==
  ASSUME IInv, NEW d \in Node, findRoute(d)
  PROVE  \E p \in Cached : Cached' \in Lookups(Cached, p)
<1> DEFINE i == Nearest(secondary, d)
           p == secondary[i]
           A == Added(primary, pvictim, p)
           s == Slot(primary, pvictim, p)
           B == [secondary EXCEPT ![i] = <<>>]
<1>1. /\ primary \in [1 .. PSize -> Content] /\ secondary \in [1 .. SSize -> Content]
      /\ pvictim \in 1 .. PSize
      /\ PSize \in Nat /\ PSize > 0 /\ SSize \in Nat /\ SSize > 0
  BY CacheConstants DEF IInv
<1>2. i \in 1 .. SSize /\ p \in Path
  BY Promoted DEF findRoute
<1>3. p # <<>>
  BY <1>2, PathFacts
<1>4. /\ s \in 1 .. PSize
      /\ \A k \in 1 .. PSize : k # s => A[k] = primary[k]
      /\ (Extends(primary[s], p) /\ A = primary) \/ A[s] = p
  BY <1>1, <1>2, AddedSlots, ZenonT(40)
<1>5. primary' = A /\ secondary' = B
  BY DEF findRoute
<1> HIDE DEF A, s, i
<1>6. \A k \in 1 .. SSize : B[k] = IF k = i THEN <<>> ELSE secondary[k]
  BY <1>1, <1>2
<1> HIDE DEF B, p
<1>7. p = secondary[i]
  BY DEF p
<1>8. p \in Cached
  BY <1>2, <1>3, <1>7 DEF Cached
<1> DEFINE R == {secondary[k] : k \in 1 .. SSize}
<1>9. Cached' = ({A[k] : k \in 1 .. PSize} \cup {B[k] : k \in 1 .. SSize}) \ {<<>>}
  BY <1>5 DEF Cached
<1>10. CASE A[s] = p
  <2>1. Cached' = ({A[k] : k \in 1 .. PSize} \cup R) \ {<<>>}
    <3>1. ASSUME NEW x \in Cached'
          PROVE  x \in ({A[k] : k \in 1 .. PSize} \cup R) \ {<<>>}
      BY <1>6, <1>9
    <3>2. ASSUME NEW x \in ({A[k] : k \in 1 .. PSize} \cup R) \ {<<>>}
          PROVE  x \in Cached'
      <4>1. CASE x = p
        BY <1>3, <1>4, <1>9, <1>10, <4>1
      <4>2. CASE x # p
        BY <1>6, <1>7, <1>9, <4>2
      <4>3. QED
        BY <4>1, <4>2
    <3>3. QED
      BY <3>1, <3>2
  <2>2. Cached = Stored(primary, PSize, R) /\ Cached' = Stored(A, PSize, R)
    BY <2>1 DEF Cached, Stored
  <2> HIDE DEF R
  <2>3. Cached' \in Insertions(Cached, p)
    BY <1>1, <1>2, <1>7, <2>2, AddedStored DEF A
  <2>4. QED
    BY <1>8, <2>3 DEF Lookups, Promotions
<1>11. CASE Extends(primary[s], p) /\ A = primary
  <2>1. primary[s] # <<>> /\ primary[s] \in Cached
    <3>1. 1 \in 1 .. Len(p)
      BY <1>2, PathFacts
    <3>2. primary[s] \in Path
      BY <1>1, <1>2, <1>4, <1>11, <3>1, ExtendsAt
    <3>3. QED
      BY <1>4, <3>2, EmptyFacts DEF Cached
  <2>2. \A x : x \in Cached' <=>
               /\ x # <<>>
               /\ \/ \E k \in 1 .. PSize : x = primary[k]
                  \/ \E k \in 1 .. SSize : k # i /\ x = secondary[k]
    BY <1>6, <1>9, <1>11
  <2>3. CASE p \in Cached'
    <3>1. Cached' = Cached
      <4>1. ASSUME NEW x \in Cached
            PROVE  x \in Cached'
        BY <1>7, <2>2, <2>3 DEF Cached
      <4>2. ASSUME NEW x \in Cached'
            PROVE  x \in Cached
        BY <2>2 DEF Cached
      <4>3. QED
        BY <4>1, <4>2
    <3>2. QED
      BY <1>8, <3>1 DEF Lookups
  <2>4. CASE p \notin Cached'
    <3>1. Cached' = Cached \ {p}
      <4>1. ASSUME NEW x \in Cached \ {p}
            PROVE  x \in Cached'
        BY <1>7, <2>2 DEF Cached
      <4>2. ASSUME NEW x \in Cached'
            PROVE  x \in Cached \ {p}
        BY <2>2, <2>4 DEF Cached
      <4>3. QED
        BY <4>1, <4>2
    <3>2. primary[s] \in Cached \ {p}
      BY <1>4, <2>1, <2>2, <2>4, <3>1
    <3>3. QED
      BY <1>8, <1>11, <3>1, <3>2 DEF Lookups, Promotions
  <2>5. QED
    BY <2>3, <2>4
<1>12. QED
  BY <1>4, <1>10, <1>11

\* What is deleted from the arrays is deleted from the store.
LEMMA LossRefined ==
  ASSUME IInv
  PROVE  /\ \A n \in Node : deleteRoute(n) => Cached' = WithoutNode(Cached, n)
         /\ \A a \in Node \cup {Me}, b \in Node :
              noticeDeadLink(a, b) => Cached' = WithoutLink(Cached, a, b)
<1>1. /\ primary \in [1 .. PSize -> Content] /\ secondary \in [1 .. SSize -> Content]
  BY DEF IInv
<1>2. ASSUME NEW n \in Node, deleteRoute(n)
      PROVE  Cached' = WithoutNode(Cached, n)
  <2>1. /\ \A i \in 1 .. PSize :
             primary'[i] = IF n \in Forwarders(primary[i]) THEN <<>> ELSE primary[i]
        /\ \A i \in 1 .. SSize :
             secondary'[i] = IF n \in Forwarders(secondary[i]) THEN <<>> ELSE secondary[i]
    BY <1>1, <1>2 DEF deleteRoute, Deleted
  <2>2. ASSUME NEW x \in Cached'
        PROVE  x \in WithoutNode(Cached, n)
    BY <2>1 DEF Cached, WithoutNode
  <2>3. ASSUME NEW x \in WithoutNode(Cached, n)
        PROVE  x \in Cached'
    BY <2>1 DEF Cached, WithoutNode
  <2>4. QED
    BY <2>2, <2>3
<1>3. ASSUME NEW a \in Node \cup {Me}, NEW b \in Node, noticeDeadLink(a, b)
      PROVE  Cached' = WithoutLink(Cached, a, b)
  <2> DEFINE cut(x) == IF Len(Cut(x, a, b)) > 1 THEN Cut(x, a, b) ELSE <<>>
  <2>1. /\ \A i \in 1 .. PSize : primary'[i] = cut(primary[i])
        /\ \A i \in 1 .. SSize : secondary'[i] = cut(secondary[i])
    BY <1>1, <1>3 DEF noticeDeadLink, Truncated
  <2>2. cut(<<>>) = <<>>
    <3>1. Cut(<<>>, a, b) = <<>>
      BY EmptyFacts DEF Cut, HasLink
    <3>2. QED
      BY <3>1, EmptyFacts
  <2>3. ASSUME NEW x
        PROVE  cut(x) # <<>> => Len(Cut(x, a, b)) > 1 /\ cut(x) = Cut(x, a, b)
    OBVIOUS
  <2>4. ASSUME NEW x, Len(Cut(x, a, b)) > 1
        PROVE  cut(x) = Cut(x, a, b) /\ cut(x) # <<>>
    BY <2>4, EmptyFacts
  <2> HIDE DEF cut
  <2>5. ASSUME NEW x \in Cached'
        PROVE  x \in WithoutLink(Cached, a, b)
    <3>1. PICK y : /\ x = cut(y)
                   /\ \/ \E i \in 1 .. PSize : y = primary[i]
                      \/ \E i \in 1 .. SSize : y = secondary[i]
      BY <2>1 DEF Cached
    <3>2. x # <<>>
      BY DEF Cached
    <3>3. y # <<>>
      BY <2>2, <3>1, <3>2
    <3>4. y \in Cached
      BY <3>1, <3>3 DEF Cached
    <3>5. QED
      BY <2>3, <3>1, <3>2, <3>4 DEF WithoutLink
  <2>6. ASSUME NEW x \in WithoutLink(Cached, a, b)
        PROVE  x \in Cached'
    <3>1. PICK y \in Cached : x = Cut(y, a, b) /\ Len(Cut(y, a, b)) > 1
      BY DEF WithoutLink
    <3>2. x = cut(y) /\ x # <<>>
      BY <2>4, <3>1
    <3>3. QED
      BY <2>1, <3>1, <3>2 DEF Cached
  <2>7. QED
    BY <2>5, <2>6
<1>4. QED
  BY <1>2, <1>3

\* The operators of the store are those of the caches.
LEMMA StoreOperators ==
  ASSUME NEW P, NEW p
  PROVE  /\ Store!Insertions(P, p) = Insertions(P, p)
         /\ Store!Lookups(P, p) = Lookups(P, p)
         /\ \A n : Store!WithoutNode(P, n) = WithoutNode(P, n)
         /\ \A a, b : Store!WithoutLink(P, a, b) = WithoutLink(P, a, b)
<1>1. \A q, r : Store!Extends(q, r) = Extends(q, r)
  BY DEF Store!Extends, Extends
<1>2. Store!Insertions(P, p) = Insertions(P, p)
  BY <1>1 DEF Store!Insertions, Insertions
<1>3. Store!Lookups(P, p) = Lookups(P, p)
  BY <1>1, <1>2 DEF Store!Lookups, Lookups, Store!Promotions, Promotions
<1>4. \A n : Store!WithoutNode(P, n) = WithoutNode(P, n)
  BY DEF Store!WithoutNode, WithoutNode, Store!Forwarders, Forwarders
<1>5. \A q, a, b : Store!Cut(q, a, b) = Cut(q, a, b)
  BY DEF Store!Cut, Cut, Store!HasLink, HasLink
<1>6. \A a, b : Store!WithoutLink(P, a, b) = WithoutLink(P, a, b)
  BY <1>5 DEF Store!WithoutLink, WithoutLink
<1>7. QED
  BY <1>2, <1>3, <1>4, <1>6

\* The two caches are a route store: they start empty, and every step is one of
\* the store's or leaves its paths as they are.
THEOREM StoreRefined == Spec => IsRouteStore
<1>1. Init => Store!Init
  <2> SUFFICES ASSUME Init
               PROVE  Cached = {}
    BY DEF Store!Init
  <2>1. QED
    BY DEF Init, Cached
<1>2. IInv /\ [Next]_vars => [Store!Next]_Cached
  <2> SUFFICES ASSUME IInv, [Next]_vars
               PROVE  Store!Next \/ Cached' = Cached
    OBVIOUS
  <2>1. ASSUME NEW p \in Route, addRoute(p)
        PROVE  Store!Next
    <3>1. Cached' \in Insertions(Cached, p)
      BY <2>1, CacheConstants, LearnRefined DEF addRoute
    <3>2. QED
      BY <3>1, StoreOperators DEF Store!Next, Store!Learn
  <2>2. ASSUME NEW h \in Heard, noticeRouteUsed(h)
        PROVE  Store!Next
    <3>1. PICK p \in Stubs(h) : secondary' = Added(secondary, svictim, p) /\ primary' = primary
      BY <2>2 DEF noticeRouteUsed
    <3>2. p \in Route /\ p \in Path
      BY StubPath
    <3>3. Cached' \in Insertions(Cached, p)
      BY <3>1, <3>2, LearnRefined
    <3>4. QED
      BY <3>2, <3>3, StoreOperators DEF Store!Next, Store!Learn
  <2>3. ASSUME NEW d \in Node, findRoute(d)
        PROVE  Store!Next
    BY <2>3, UseRefined, StoreOperators DEF Store!Next, Store!Use
  <2>4. ASSUME NEW n \in Node, deleteRoute(n)
        PROVE  Store!Next
    BY <2>4, LossRefined, StoreOperators DEF Store!Next, Store!LoseNode
  <2>5. ASSUME NEW a \in Node \cup {Me}, NEW b \in Node, noticeDeadLink(a, b)
        PROVE  Store!Next
    BY <2>5, LossRefined, StoreOperators DEF Store!Next, Store!LoseLink
  <2>6. CASE UNCHANGED vars
    BY <2>6 DEF vars, Cached
  <2>7. QED
    BY <2>1, <2>2, <2>3, <2>4, <2>5, <2>6 DEF Next
<1>3. QED
  BY <1>1, <1>2, Inv, PTL DEF Spec, IsRouteStore, Store!Spec

=============================================================================
