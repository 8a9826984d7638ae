-------------------------- MODULE FlowStateProofs ---------------------------
(***************************************************************************)
(* Theorems about FlowState, for every topology, every traffic and every   *)
(* size of the tables: its types, that a flow id means one route, that the *)
(* default flow is the newest, that a flow given up is not taken up again, *)
(* and whom a failed transmission blames.                                  *)
(*                                                                         *)
(* The inductive invariant says of every entry that its source has an      *)
(* entry of the same flow and route, and of every packet without a route   *)
(* that it is on a link of one.  No entry is ever removed, so an entry or  *)
(* a packet that was right once stays so.                                  *)
(***************************************************************************)
EXTENDS FlowState, FiniteSetTheorems, SequenceTheorems, TLAPS

-----------------------------------------------------------------------------
(* The inductive invariant *)

Msg == [src : Node, dest : Node, errs : Seq(FlowError), derrs : Seq(FlowError),
        ttl : Nat, salvaged : 0 .. MaxSalvage]

Pkt == [msg : Msg, route : Seq(Node), hop : Nat, fid : Id \cup {NoFlow},
        from : Node, to : Node]

\* A route from a to b.
Good(r, a, b) ==
  /\ r \in Seq(Node) /\ Len(r) >= 2
  /\ \A i, j \in 1 .. Len(r) : i # j => r[i] # r[j]
  /\ r[1] = a /\ r[Len(r)] = b

\* An entry of node n, whose place on the route is ahead of the last.
GoodEntry(e, n) ==
  /\ e \in Entry
  /\ e.id % 2 = 1
  /\ Good(e.route, e.src, e.dst)
  /\ e.hop + 2 <= Len(e.route)
  /\ e.route[e.hop + 1] = n

\* The source s has an entry of the flow f to d, with route r.
Knows(T, s, d, f, r) ==
  \E j \in 1 .. Len(T[s]) :
    T[s][j].src = s /\ T[s][j].dst = d /\ T[s][j].id = f /\ T[s][j].route = r

\* The source of an entry's flow has an entry of it.
Rooted(T, e) == Knows(T, e.src, e.dst, e.id, e.route)

Tables(T) ==
  /\ T \in [Node -> Seq(Entry)]
  /\ \A n \in Node : Len(T[n]) <= TableSize
  /\ \A n \in Node : \A i \in 1 .. Len(T[n]) :
       GoodEntry(T[n][i], n) /\ Rooted(T, T[n][i])

Unique(T) ==
  \A n \in Node : \A i, j \in 1 .. Len(T[n]) :
    /\ T[n][i].src = T[n][j].src /\ T[n][i].dst = T[n][j].dst
    /\ T[n][i].id = T[n][j].id
    => i = j

\* No id is used that its source has not given out.  Every id that is given out
\* leaves an entry and takes the next odd number, so they never wrap.
Counters(T, C) ==
  /\ C \in [Node -> Nat]
  /\ \A n \in Node : C[n] <= 2 * Len(T[n]) /\ C[n] % 2 = 0
  /\ \A n \in Node : \A i \in 1 .. Len(T[n]) : T[n][i].id < C[T[n][i].src]

\* The default flow is the one with the largest id.
Defaults(T, D) ==
  /\ D \in [Node -> [Node \X Node -> Id \cup {NoFlow}]]
  /\ \A n \in Node, s \in Node, d \in Node :
       /\ D[n][<<s, d>>] # NoFlow =>
            \E i \in 1 .. Len(T[n]) :
              T[n][i].src = s /\ T[n][i].dst = d /\ T[n][i].id = D[n][<<s, d>>]
       /\ \A i \in 1 .. Len(T[n]) :
            T[n][i].src = s /\ T[n][i].dst = d =>
              D[n][<<s, d>>] # NoFlow /\ T[n][i].id <= D[n][<<s, d>>]

\* A packet with a route is at its place on it, and the source knows the flow
\* if it has one.
Routed(T, p) ==
  /\ \A i, j \in 1 .. Len(p.route) : i # j => p.route[i] # p.route[j]
  /\ p.hop \in 1 .. Len(p.route) - 1
  /\ p.route[p.hop] = p.from /\ p.route[p.hop + 1] = p.to
  /\ p.route[Len(p.route)] = p.msg.dest
  /\ p.fid # NoFlow => Knows(T, p.msg.src, p.msg.dest, p.fid, p.route)

\* Node n has a flow from s to d.
HasOne(T, n, s, d) == \E i \in 1 .. Len(T[n]) : T[n][i].src = s /\ T[n][i].dst = d

\* A packet without one is on a link of a flow of its source and destination,
\* and its sender has a flow of theirs.
Unrouted(T, p) ==
  /\ \E j \in 1 .. Len(T[p.msg.src]) :
       LET e == T[p.msg.src][j]
       IN /\ e.src = p.msg.src /\ e.dst = p.msg.dest
          /\ HasLink(e.route, p.from, p.to)
          /\ p.fid \in {e.id, NoFlow}
  /\ HasOne(T, p.from, p.msg.src, p.msg.dest)

GoodPacket(T, p) ==
  /\ p \in Pkt
  /\ p.msg.src # p.msg.dest
  /\ IF p.route = <<>> THEN Unrouted(T, p) ELSE Routed(T, p)

Air(T, A) == IsFiniteSet(A) /\ \A p \in A : GoodPacket(T, p)

Cache(R) ==
  /\ R \in [Node -> SUBSET Seq(Node)]
  /\ \A n \in Node : \A r \in R[n] : Good(r, n, r[Len(r)])

Todo(t) ==
  /\ t \in Seq([at : Node, msg : Msg])
  /\ \A i \in 1 .. Len(t) : t[i].msg.src = t[i].at

Rest(t, l, d, m) ==
  /\ t \subseteq [to : Node, a : Node, b : Node]
  /\ l \subseteq Start \cup Mobile
  /\ d \in Seq(Node \X Node \X Nat)
  /\ \A i \in 1 .. Len(d) : d[i][1] # d[i][2]
  /\ m \in 0 .. MaxMoves

Flows == Tables(table) /\ Unique(table) /\ Counters(table, counter) /\ Defaults(table, dflt)

IInv ==
  /\ Flows /\ Air(table, air) /\ Cache(routes) /\ Todo(todo)
  /\ Rest(told, links, due, moves)

-----------------------------------------------------------------------------
(* The constants, and entries that stay *)

\* The assumptions about the constants, in the form the provers need them.
LEMMA FlowConstants ==
  /\ TableSize \in Nat \ {0} /\ EndToEnd \in Nat /\ ErrorTTL \in Nat
  /\ MaxErrors \in Nat \ {0} /\ MaxSalvage \in Nat /\ MaxMoves \in Nat
  /\ FlowIds \in Nat /\ FlowIds >= 4 * TableSize
  /\ NoFlow \notin Nat
  /\ Id \subseteq Nat /\ NoFlow \notin Id
BY FlowAssumption DEF FlowAssumption, Id

\* The ids that a source can give out are less than half of all ids.
LEMMA SmallIds ==
  \A c \in 0 .. 2 * TableSize :
    /\ c \in Id /\ c % FlowIds = c
    /\ c < 2 * TableSize => \A g \in 0 .. c : c > g <=> Newer(c, g)
    /\ \A g \in 0 .. 2 * TableSize - 1 : c < g => ~Newer(c, g)
<1>1. /\ FlowIds \in Nat \ {0} /\ TableSize \in Nat \ {0}
      /\ FlowIds >= 4 * TableSize
  BY FlowConstants
<1>2. \A F \in Nat \ {0}, x \in Int : 0 <= x /\ x < F => x % F = x
  OBVIOUS
<1>3. \A F \in Nat \ {0}, x \in Int : -F < x /\ x < 0 => x % F = x + F
  OBVIOUS
<1>4. SUFFICES ASSUME NEW c \in 0 .. 2 * TableSize
               PROVE  /\ c \in Id /\ c % FlowIds = c
                      /\ c < 2 * TableSize => \A g \in 0 .. c : c > g <=> Newer(c, g)
                      /\ \A g \in 0 .. 2 * TableSize - 1 : c < g => ~Newer(c, g)
  OBVIOUS
<1>5. c \in Id /\ c % FlowIds = c
  BY <1>1, <1>2 DEF Id
<1>6. /\ FlowIds \div 2 \in Nat /\ FlowIds \div 2 >= 2 * TableSize
      /\ FlowIds >= 2 * (FlowIds \div 2)
  <2>1. \A F \in Nat, T \in Nat \ {0} :
          F >= 4 * T => F \div 2 \in Nat /\ F \div 2 >= 2 * T /\ F >= 2 * (F \div 2)
    OBVIOUS
  <2>2. QED
    BY <1>1, <2>1
<1>7. ASSUME c < 2 * TableSize, NEW g \in 0 .. c
      PROVE  c > g <=> Newer(c, g)
  <2>1. (c - g) % FlowIds = c - g
    BY <1>1, <1>2, <1>7
  <2>2. c - g \in 0 .. (FlowIds \div 2) - 1
    BY <1>1, <1>6, <1>7
  <2>3. QED
    BY <2>1, <2>2 DEF Newer
<1>8. ASSUME NEW g \in 0 .. 2 * TableSize - 1, c < g
      PROVE  ~Newer(c, g)
  <2>1. (c - g) % FlowIds = c - g + FlowIds
    BY <1>1, <1>3, <1>8
  <2>2. c - g + FlowIds > (FlowIds \div 2) - 1
    BY <1>1, <1>6, <1>8
  <2>3. QED
    BY <1>1, <1>6, <2>1, <2>2 DEF Newer
<1>9. QED
  BY <1>5, <1>7, <1>8

\* Two entries that differ in what is counted and timed only.
Alike(e, g) ==
  g.src = e.src /\ g.dst = e.dst /\ g.id = e.id /\ g.route = e.route /\ g.hop = e.hop

\* The entries of T are in U.
Kept(T, U) ==
  \A n \in Node : Len(T[n]) <= Len(U[n]) /\ \A i \in 1 .. Len(T[n]) : Alike(T[n][i], U[n][i])

\* U has the entries of T and no others.
Touched(T, U) ==
  /\ U \in [Node -> Seq(Entry)]
  /\ \A n \in Node : Len(T[n]) = Len(U[n]) /\ \A i \in 1 .. Len(T[n]) : Alike(T[n][i], U[n][i])

\* A packet stays right.
LEMMA PacketStays ==
  ASSUME NEW T, NEW U, T \in [Node -> Seq(Entry)], U \in [Node -> Seq(Entry)], Kept(T, U),
         NEW p, GoodPacket(T, p)
  PROVE  GoodPacket(U, p)
<1>1. p.msg.src \in Node /\ p.from \in Node
  BY DEF GoodPacket, Pkt, Msg
<1>2. ASSUME NEW j \in 1 .. Len(T[p.msg.src])
      PROVE  j \in 1 .. Len(U[p.msg.src]) /\ Alike(T[p.msg.src][j], U[p.msg.src][j])
  BY <1>1 DEF Kept
<1>3. Unrouted(T, p) => Unrouted(U, p)
  <2>1. ASSUME NEW j \in 1 .. Len(T[p.from])
        PROVE  j \in 1 .. Len(U[p.from]) /\ Alike(T[p.from][j], U[p.from][j])
    BY <1>1 DEF Kept
  <2>2. HasOne(T, p.from, p.msg.src, p.msg.dest) => HasOne(U, p.from, p.msg.src, p.msg.dest)
    BY <2>1 DEF HasOne, Alike
  <2>3. QED
    BY <1>2, <2>2 DEF Unrouted, Alike
<1>4. Routed(T, p) => Routed(U, p)
  BY <1>2 DEF Routed, Knows, Alike
<1>5. QED
  BY <1>3, <1>4 DEF GoodPacket

\* So does the air.
LEMMA AirStays ==
  ASSUME NEW T, NEW U, T \in [Node -> Seq(Entry)], U \in [Node -> Seq(Entry)], Kept(T, U),
         NEW A, Air(T, A)
  PROVE  Air(U, A)
BY PacketStays DEF Air

\* The flows stay right when their entries do.
LEMMA FlowsStay ==
  ASSUME NEW T, NEW U, NEW C, NEW D, Touched(T, U),
         Tables(T), Unique(T), Counters(T, C), Defaults(T, D)
  PROVE  Tables(U) /\ Unique(U) /\ Counters(U, C) /\ Defaults(U, D) /\ Kept(T, U)
<1>1. \A n \in Node : \A i \in 1 .. Len(U[n]) :
        T[n][i] \in Entry /\ U[n][i] \in Entry /\ T[n][i].src \in Node
  <2> SUFFICES ASSUME NEW n \in Node, NEW i \in 1 .. Len(U[n])
               PROVE  T[n][i] \in Entry /\ U[n][i] \in Entry /\ T[n][i].src \in Node
    OBVIOUS
  <2>1. T[n] \in Seq(Entry) /\ U[n] \in Seq(Entry) /\ Len(T[n]) = Len(U[n])
    BY DEF Touched, Tables
  <2>2. T[n][i] \in Entry /\ U[n][i] \in Entry
    BY <2>1, ElementOfSeq
  <2>3. QED
    BY <2>2 DEF Entry
<1>2. ASSUME NEW n \in Node, NEW i \in 1 .. Len(U[n])
      PROVE  GoodEntry(U[n][i], n) /\ Rooted(U, U[n][i])
  <2>1. Alike(T[n][i], U[n][i]) /\ i \in 1 .. Len(T[n])
    BY DEF Touched
  <2>2. GoodEntry(T[n][i], n) /\ Rooted(T, T[n][i])
    BY <2>1 DEF Tables
  <2>3. GoodEntry(U[n][i], n)
    BY <1>1, <2>1, <2>2 DEF GoodEntry, Alike
  <2>4. Rooted(U, U[n][i])
    <3>1. PICK j \in 1 .. Len(T[T[n][i].src]) :
            LET g == T[T[n][i].src][j]
            IN /\ g.src = T[n][i].src /\ g.dst = T[n][i].dst
               /\ g.id = T[n][i].id /\ g.route = T[n][i].route
      BY <2>2 DEF Rooted, Knows
    <3>2. /\ j \in 1 .. Len(U[T[n][i].src])
          /\ Alike(T[T[n][i].src][j], U[T[n][i].src][j])
      BY <1>1 DEF Touched
    <3>3. QED
      BY <2>1, <3>1, <3>2 DEF Rooted, Knows, Alike
  <2>5. QED
    BY <2>3, <2>4
<1>3. Tables(U)
  BY <1>2 DEF Tables, Touched
<1>4. Unique(U)
  BY DEF Unique, Touched, Alike
<1>5. Counters(U, C)
  <2>1. ASSUME NEW n \in Node
        PROVE  Len(U[n]) = Len(T[n])
    BY DEF Touched
  <2>2. ASSUME NEW n \in Node, NEW i \in 1 .. Len(U[n])
        PROVE  U[n][i].id < C[U[n][i].src]
    <3>1. i \in 1 .. Len(T[n]) /\ U[n][i].id = T[n][i].id /\ U[n][i].src = T[n][i].src
      BY DEF Touched, Alike
    <3>2. T[n][i].id < C[T[n][i].src]
      BY <3>1 DEF Counters
    <3>3. QED
      BY <3>1, <3>2
  <2>3. QED
    BY <2>1, <2>2 DEF Counters
<1>6. Defaults(U, D)
  <2> SUFFICES ASSUME NEW n \in Node, NEW s \in Node, NEW d \in Node
               PROVE  /\ D[n][<<s, d>>] # NoFlow =>
                           \E i \in 1 .. Len(U[n]) :
                             /\ U[n][i].src = s /\ U[n][i].dst = d
                             /\ U[n][i].id = D[n][<<s, d>>]
                      /\ \A i \in 1 .. Len(U[n]) :
                           U[n][i].src = s /\ U[n][i].dst = d =>
                             D[n][<<s, d>>] # NoFlow /\ U[n][i].id <= D[n][<<s, d>>]
    BY DEF Defaults
  <2>1. Len(T[n]) = Len(U[n]) /\ \A i \in 1 .. Len(T[n]) : Alike(T[n][i], U[n][i])
    BY DEF Touched
  <2> DEFINE x == D[n][<<s, d>>]
  <2>2. /\ x # NoFlow =>
             \E i \in 1 .. Len(T[n]) : T[n][i].src = s /\ T[n][i].dst = d /\ T[n][i].id = x
        /\ \A i \in 1 .. Len(T[n]) :
             T[n][i].src = s /\ T[n][i].dst = d => x # NoFlow /\ T[n][i].id <= x
    BY DEF Defaults
  <2> HIDE DEF x
  <2>3. /\ x # NoFlow =>
             \E i \in 1 .. Len(U[n]) : U[n][i].src = s /\ U[n][i].dst = d /\ U[n][i].id = x
        /\ \A i \in 1 .. Len(U[n]) :
             U[n][i].src = s /\ U[n][i].dst = d => x # NoFlow /\ U[n][i].id <= x
    BY <2>1, <2>2 DEF Alike
  <2>4. QED
    BY <2>3 DEF x
<1>7. Kept(T, U)
  <2>1. \A n \in Node : Len(T[n]) \in Nat
    BY DEF Tables
  <2>2. QED
    BY <2>1 DEF Kept, Touched
<1>8. QED
  BY <1>3, <1>4, <1>5, <1>6, <1>7

-----------------------------------------------------------------------------
(* A new entry *)

\* Table t has an entry of the flow x from s to d.
HasFlow(t, s, d, x) == \E i \in 1 .. Len(t) : t[i].src = s /\ t[i].dst = d /\ t[i].id = x

\* The default flow of two nodes has an entry, and no entry has a larger id.
LEMMA DefaultFlow ==
  ASSUME NEW T, NEW D, Defaults(T, D), NEW n \in Node, NEW s \in Node, NEW d \in Node
  PROVE  /\ D[n][<<s, d>>] # NoFlow => HasFlow(T[n], s, d, D[n][<<s, d>>])
         /\ \A i \in 1 .. Len(T[n]) :
              T[n][i].src = s /\ T[n][i].dst = d =>
                D[n][<<s, d>>] # NoFlow /\ T[n][i].id <= D[n][<<s, d>>]
BY Zenon DEF Defaults, HasFlow

\* The flows stay right when node n makes an entry of a flow that it does not know:
\* a new flow of its own, or one whose source has an entry of it.
LEMMA FlowCreated ==
  ASSUME Flows, NEW n \in Node, NEW e, createEntry(n, e), GoodEntry(e, n),
         find(n, e.src, e.dst, e.id) = {},
         e.src = n \/ Rooted(table, e),
         counter' \in [Node -> Nat],
         \A m \in Node : counter[m] <= counter'[m] /\ counter'[m] % 2 = 0,
         \A m \in Node : counter'[m] <= counter[m] + (IF m = n THEN 2 ELSE 0),
         e.id < counter'[e.src]
  PROVE  Flows' /\ Kept(table, table')
<1>1. /\ table \in [Node -> Seq(Entry)]
      /\ \A m \in Node : \A i \in 1 .. Len(table[m]) :
           GoodEntry(table[m][i], m) /\ Rooted(table, table[m][i])
  BY DEF Flows, Tables
<1>2. e \in Entry /\ e.src \in Node /\ e.dst \in Node /\ e.id \in Id
  BY DEF GoodEntry, Entry
<1>3. /\ table' = [table EXCEPT ![n] = Append(table[n], e)]
      /\ Len(table[n]) < TableSize
  BY DEF createEntry
<1>4. /\ table' \in [Node -> Seq(Entry)]
      /\ Len(table'[n]) = Len(table[n]) + 1 /\ table'[n][Len(table[n]) + 1] = e
      /\ \A i \in 1 .. Len(table[n]) : table'[n][i] = table[n][i]
      /\ \A m \in Node : m # n => table'[m] = table[m]
  BY <1>1, <1>2, <1>3
<1>5. \A m \in Node : Len(table[m]) \in Nat
  BY <1>1
<1>6. \A m \in Node : \A i \in 1 .. Len(table'[m]) :
        \/ i \in 1 .. Len(table[m]) /\ table'[m][i] = table[m][i]
        \/ m = n /\ i = Len(table[n]) + 1 /\ table'[m][i] = e
  <2> SUFFICES ASSUME NEW m \in Node, NEW i \in 1 .. Len(table'[m])
               PROVE  \/ i \in 1 .. Len(table[m]) /\ table'[m][i] = table[m][i]
                      \/ m = n /\ i = Len(table[n]) + 1 /\ table'[m][i] = e
    OBVIOUS
  <2>1. CASE m = n
    <3>1. i \in 1 .. Len(table[n]) \/ i = Len(table[n]) + 1
      BY <1>4, <1>5, <2>1
    <3>2. QED
      BY <1>4, <2>1, <3>1
  <2>2. CASE m # n
    BY <1>4, <2>2
  <2>3. QED
    BY <2>1, <2>2
<1>7. \A m \in Node : \A i \in 1 .. Len(table[m]) :
        i \in 1 .. Len(table'[m]) /\ table'[m][i] = table[m][i]
  <2> SUFFICES ASSUME NEW m \in Node, NEW i \in 1 .. Len(table[m])
               PROVE  i \in 1 .. Len(table'[m]) /\ table'[m][i] = table[m][i]
    OBVIOUS
  <2>1. CASE m = n
    <3>1. i \in 1 .. Len(table'[n])
      BY <1>4, <1>5, <2>1
    <3>2. QED
      BY <1>4, <2>1, <3>1
  <2>2. CASE m # n
    BY <1>4, <2>2
  <2>3. QED
    BY <2>1, <2>2
<1>8. Kept(table, table')
  BY <1>4, <1>5, <1>7 DEF Kept, Alike
<1>9. ASSUME NEW g, g.src \in Node, Rooted(table, g)
      PROVE  Rooted(table', g)
  BY <1>7, <1>9 DEF Rooted, Knows
<1>10. Rooted(table', e)
  <2>1. CASE e.src = n
    <3>1. Len(table[n]) + 1 \in 1 .. Len(table'[n])
      BY <1>4, <1>5
    <3>2. QED
      BY <1>4, <2>1, <3>1 DEF Rooted, Knows
  <2>2. QED
    BY <1>2, <1>9, <2>1
<1>11. Tables(table')
  <2>1. ASSUME NEW m \in Node, NEW i \in 1 .. Len(table'[m])
        PROVE  GoodEntry(table'[m][i], m) /\ Rooted(table', table'[m][i])
    <3>1. CASE i \in 1 .. Len(table[m]) /\ table'[m][i] = table[m][i]
      <4>1. GoodEntry(table[m][i], m) /\ Rooted(table, table[m][i])
        BY <1>1, <3>1
      <4>2. table[m][i].src \in Node
        BY <4>1 DEF GoodEntry, Entry
      <4>3. QED
        BY <1>9, <3>1, <4>1, <4>2
    <3>2. CASE m = n /\ table'[m][i] = e
      BY <1>10, <3>2
    <3>3. QED
      BY <1>6, <3>1, <3>2
  <2>2. \A m \in Node : Len(table'[m]) <= TableSize
    <3>1. \A m \in Node : Len(table[m]) <= TableSize
      BY DEF Flows, Tables
    <3>2. QED
      BY <1>3, <1>4, <1>5, <3>1, FlowConstants
  <2>3. QED
    BY <1>4, <2>1, <2>2 DEF Tables
<1>12. Unique(table')
  <2>1. \A m \in Node : \A i, j \in 1 .. Len(table[m]) :
          /\ table[m][i].src = table[m][j].src /\ table[m][i].dst = table[m][j].dst
          /\ table[m][i].id = table[m][j].id
          => i = j
    BY DEF Flows, Unique
  <2>2. \A i \in 1 .. Len(table[n]) :
          ~(table[n][i].src = e.src /\ table[n][i].dst = e.dst /\ table[n][i].id = e.id)
    BY <1>1 DEF find
  <2>3. ASSUME NEW m \in Node, NEW i \in 1 .. Len(table'[m]), NEW j \in 1 .. Len(table'[m]),
               table'[m][i].src = table'[m][j].src, table'[m][i].dst = table'[m][j].dst,
               table'[m][i].id = table'[m][j].id
        PROVE  i = j
    <3>1. /\ \/ i \in 1 .. Len(table[m]) /\ table'[m][i] = table[m][i]
             \/ m = n /\ i = Len(table[n]) + 1 /\ table'[m][i] = e
          /\ \/ j \in 1 .. Len(table[m]) /\ table'[m][j] = table[m][j]
             \/ m = n /\ j = Len(table[n]) + 1 /\ table'[m][j] = e
      BY <1>6
    <3>2. QED
      BY <2>1, <2>2, <2>3, <3>1
  <2>4. QED
    BY <2>3 DEF Unique
<1>13. Counters(table', counter')
  <2>1. /\ counter \in [Node -> Nat]
        /\ \A m \in Node : counter[m] <= 2 * Len(table[m])
        /\ \A m \in Node : \A i \in 1 .. Len(table[m]) :
             table[m][i].id < counter[table[m][i].src]
    BY DEF Flows, Counters
  <2>2. ASSUME NEW m \in Node
        PROVE  counter'[m] <= 2 * Len(table'[m])
    <3>1. /\ counter[m] \in Nat /\ counter'[m] \in Nat /\ Len(table[m]) \in Nat
          /\ counter[m] <= 2 * Len(table[m])
      BY <1>5, <2>1
    <3>2. CASE m = n
      <4>1. counter'[m] <= counter[m] + 2 /\ Len(table'[m]) = Len(table[m]) + 1
        BY <1>4, <3>2
      <4>2. QED
        BY <3>1, <4>1
    <3>3. CASE m # n
      <4>1. counter'[m] <= counter[m] + 0 /\ Len(table'[m]) = Len(table[m])
        BY <1>4, <3>3
      <4>2. QED
        BY <3>1, <4>1
    <3>4. QED
      BY <3>2, <3>3
  <2>3. ASSUME NEW m \in Node, NEW i \in 1 .. Len(table'[m])
        PROVE  table'[m][i].id < counter'[table'[m][i].src]
    <3>1. CASE i \in 1 .. Len(table[m]) /\ table'[m][i] = table[m][i]
      <4>1. table[m][i].src \in Node /\ table[m][i].id \in Nat
        BY <1>1, <3>1, FlowConstants DEF GoodEntry, Entry
      <4>2. table[m][i].id < counter[table[m][i].src]
        BY <2>1, <3>1
      <4>3. counter[table[m][i].src] <= counter'[table[m][i].src]
        BY <2>1, <4>1
      <4>4. counter[table[m][i].src] \in Nat /\ counter'[table[m][i].src] \in Nat
        BY <1>5, <2>1, <4>1
      <4>5. table[m][i].id < counter'[table[m][i].src]
        BY <4>1, <4>2, <4>3, <4>4
      <4>6. QED
        BY <3>1, <4>5
    <3>2. CASE table'[m][i] = e
      BY <3>2
    <3>3. QED
      BY <1>6, <3>1, <3>2
  <2>4. QED
    BY <2>2, <2>3 DEF Counters
<1>14. Defaults(table', dflt')
  <2> DEFINE x == dflt[n][<<e.src, e.dst>>]
  <2>1. /\ dflt \in [Node -> [Node \X Node -> Id \cup {NoFlow}]]
        /\ Defaults(table, dflt)
    BY DEF Flows, Defaults
  <2>2. e.id % 2 = 1
    BY DEF GoodEntry
  <2>3. dflt' = IF x = NoFlow \/ Newer(e.id, x)
                THEN [dflt EXCEPT ![n][<<e.src, e.dst>>] = e.id] ELSE dflt
    BY <2>2 DEF createEntry, Insert
  <2>4. x # NoFlow =>
          \E i \in 1 .. Len(table[n]) :
            table[n][i].src = e.src /\ table[n][i].dst = e.dst /\ table[n][i].id = x
    <3>1. x # NoFlow => HasFlow(table[n], e.src, e.dst, x)
      BY <1>2, <2>1, DefaultFlow
    <3>2. QED
      BY <3>1 DEF HasFlow
  <2>5. ASSUME NEW i \in 1 .. Len(table[n]),
               table[n][i].src = e.src, table[n][i].dst = e.dst
        PROVE  x # NoFlow /\ table[n][i].id <= x
    BY <1>2, <2>1, <2>5, DefaultFlow
  <2>6. x \in Id \cup {NoFlow}
    BY <1>2, <2>1
  <2>7. e.id \in Nat /\ (x # NoFlow => x \in Nat)
    BY <1>2, <2>6, FlowConstants
  <2>8. x # NoFlow =>
          /\ x \in 0 .. 2 * TableSize - 1 /\ e.id \in 0 .. 2 * TableSize - 1
          /\ x # e.id
    <3> SUFFICES ASSUME x # NoFlow
                 PROVE  /\ x \in 0 .. 2 * TableSize - 1 /\ e.id \in 0 .. 2 * TableSize - 1
                        /\ x # e.id
      OBVIOUS
    <3>1. PICK i \in 1 .. Len(table[n]) :
            table[n][i].src = e.src /\ table[n][i].dst = e.dst /\ table[n][i].id = x
      BY <2>4
    <3>2. x # e.id
      BY <1>1, <3>1 DEF find
    <3>3. counter' \in [Node -> Nat] /\ \A m \in Node : counter'[m] <= 2 * Len(table'[m])
      BY <1>13 DEF Counters
    <3>4. counter'[e.src] \in Nat /\ counter'[e.src] <= 2 * TableSize
      <4>1. Len(table'[e.src]) <= TableSize /\ Len(table'[e.src]) \in Nat
        BY <1>2, <1>4, <1>11 DEF Tables
      <4>2. QED
        BY <1>2, <3>3, <4>1, FlowConstants
    <3>5. x < counter'[e.src]
      <4>1. x < counter[e.src]
        BY <3>1 DEF Flows, Counters
      <4>2. counter[e.src] \in Nat
        BY <1>2 DEF Flows, Counters
      <4>3. counter[e.src] <= counter'[e.src]
        BY <1>2
      <4>4. QED
        BY <2>7, <3>4, <4>1, <4>2, <4>3
    <3>6. e.id < counter'[e.src]
      OBVIOUS
    <3> HIDE DEF x
    <3>7. QED
      BY <2>7, <3>2, <3>4, <3>5, <3>6, FlowConstants
  <2> HIDE DEF x
  <2>9. x # NoFlow => (Newer(e.id, x) <=> e.id > x)
    <3> SUFFICES ASSUME x # NoFlow PROVE Newer(e.id, x) <=> e.id > x
      OBVIOUS
    <3>1. /\ x \in 0 .. 2 * TableSize - 1 /\ e.id \in 0 .. 2 * TableSize - 1
          /\ x # e.id /\ TableSize \in Nat
      BY <2>8, FlowConstants
    <3>2. CASE e.id > x
      BY <3>1, <3>2, SmallIds
    <3>3. CASE e.id < x
      BY <3>1, <3>3, SmallIds
    <3>4. QED
      BY <3>1, <3>2, <3>3
  <2> DEFINE y == IF x = NoFlow \/ e.id > x THEN e.id ELSE x
  <2>10. /\ dflt' \in [Node -> [Node \X Node -> Id \cup {NoFlow}]]
        /\ dflt'[n][<<e.src, e.dst>>] = y
        /\ \A m \in Node, s \in Node, d \in Node :
             m # n \/ s # e.src \/ d # e.dst => dflt'[m][<<s, d>>] = dflt[m][<<s, d>>]
    <3>1. CASE x = NoFlow \/ e.id > x
      <4>1. dflt' = [dflt EXCEPT ![n][<<e.src, e.dst>>] = e.id]
        BY <2>3, <2>9, <3>1
      <4>2. QED
        BY <1>2, <2>1, <3>1, <4>1
    <3>2. CASE ~(x = NoFlow \/ e.id > x)
      <4>1. dflt' = dflt
        BY <2>3, <2>9, <3>2
      <4>2. QED
        BY <2>1, <3>2, <4>1 DEF x
    <3>3. QED
      BY <3>1, <3>2
  <2>11. y \in Nat /\ y # NoFlow /\ e.id <= y
    BY <1>2, <2>6, FlowConstants
  <2>12. ASSUME NEW m \in Node, NEW s \in Node, NEW d \in Node
         PROVE  /\ dflt'[m][<<s, d>>] # NoFlow =>
                     \E i \in 1 .. Len(table'[m]) :
                       /\ table'[m][i].src = s /\ table'[m][i].dst = d
                       /\ table'[m][i].id = dflt'[m][<<s, d>>]
                /\ \A i \in 1 .. Len(table'[m]) :
                     table'[m][i].src = s /\ table'[m][i].dst = d =>
                       /\ dflt'[m][<<s, d>>] # NoFlow
                       /\ table'[m][i].id <= dflt'[m][<<s, d>>]
    <3>1. CASE m = n /\ s = e.src /\ d = e.dst
      <4>1. \E i \in 1 .. Len(table'[n]) :
              table'[n][i].src = e.src /\ table'[n][i].dst = e.dst /\ table'[n][i].id = y
        <5>1. CASE y = e.id
          <6>1. Len(table[n]) + 1 \in 1 .. Len(table'[n])
            BY <1>4, <1>5
          <6>2. QED
            BY <1>4, <5>1, <6>1
        <5>2. CASE y = x /\ x # NoFlow
          BY <1>7, <2>4, <5>2
        <5>3. QED
          BY <5>1, <5>2
      <4>2. ASSUME NEW i \in 1 .. Len(table'[n]),
                   table'[n][i].src = e.src, table'[n][i].dst = e.dst
            PROVE  table'[n][i].id <= y
        <5>1. CASE i \in 1 .. Len(table[n]) /\ table'[n][i] = table[n][i]
          <6>1. table[n][i].id \in Nat
            BY <1>1, <5>1, FlowConstants DEF GoodEntry, Entry
          <6>2. x # NoFlow /\ table[n][i].id <= x /\ x \in Nat
            BY <2>5, <2>6, <4>2, <5>1, FlowConstants
          <6>3. x <= y
            BY <2>7, <6>2
          <6>4. QED
            BY <2>11, <5>1, <6>1, <6>2, <6>3
        <5>2. CASE table'[n][i] = e
          BY <2>11, <5>2
        <5>3. QED
          BY <1>6, <5>1, <5>2
      <4> HIDE DEF y
      <4>3. QED
        BY <2>10, <2>11, <3>1, <4>1, <4>2
    <3>2. CASE ~(m = n /\ s = e.src /\ d = e.dst)
      <4> DEFINE z == dflt[m][<<s, d>>]
      <4>1. dflt'[m][<<s, d>>] = z
        BY <2>10, <3>2
      <4>2. /\ z # NoFlow =>
                 \E i \in 1 .. Len(table[m]) :
                   table[m][i].src = s /\ table[m][i].dst = d /\ table[m][i].id = z
            /\ \A i \in 1 .. Len(table[m]) :
                 table[m][i].src = s /\ table[m][i].dst = d =>
                   z # NoFlow /\ table[m][i].id <= z
        BY <2>1 DEF Defaults
      <4> HIDE DEF z
      <4>3. /\ z # NoFlow =>
                 \E i \in 1 .. Len(table'[m]) :
                   table'[m][i].src = s /\ table'[m][i].dst = d /\ table'[m][i].id = z
            /\ \A i \in 1 .. Len(table'[m]) :
                 table'[m][i].src = s /\ table'[m][i].dst = d =>
                   z # NoFlow /\ table'[m][i].id <= z
        BY <1>6, <1>7, <3>2, <4>2
      <4>4. QED
        BY <4>1, <4>3
    <3>3. QED
      BY <3>1, <3>2
  <2>13. QED
    BY <2>10, <2>12 DEF Defaults
<1>15. QED
  BY <1>8, <1>11, <1>12, <1>13, <1>14 DEF Flows

-----------------------------------------------------------------------------
(* Routes *)

\* What comes before the i-th place of a route, and the place itself, is a route.
LEMMA Prefix ==
  ASSUME NEW p, NEW a, NEW b, Good(p, a, b), NEW i \in 2 .. Len(p)
  PROVE  Good(SubSeq(p, 1, i), a, p[i]) /\ Len(SubSeq(p, 1, i)) = i
<1> DEFINE q == SubSeq(p, 1, i)
<1>1. p \in Seq(Node) /\ Len(p) \in Nat /\ Len(p) >= 2
  BY DEF Good
<1>2. q \in Seq(Node) /\ Len(q) = i /\ \A j \in 1 .. i : q[j] = p[j]
  BY <1>1
<1>3. \A j, k \in 1 .. Len(p) : j # k => p[j] # p[k]
  BY DEF Good
<1>4. p[1] = a
  BY DEF Good
<1> HIDE DEF q
<1>5. Good(q, a, p[i])
  BY <1>1, <1>2, <1>3, <1>4 DEF Good
<1>6. QED
  BY <1>2, <1>5 DEF q

\* A lookup returns a route from the cache's owner to the destination.
LEMMA ShortestGood ==
  ASSUME NEW P, NEW n, \A r \in P : Good(r, n, r[Len(r)]), NEW d, NEW q \in Shortest(P, d)
  PROVE  Good(q, n, d)
<1>1. q \in ToDest(P, d)
  BY DEF Shortest
<1>2. PICK r \in P : q \in {SubSeq(r, 1, i) : i \in {j \in 2 .. Len(r) : r[j] = d}}
  BY <1>1 DEF ToDest
<1>3. PICK i \in 2 .. Len(r) : r[i] = d /\ q = SubSeq(r, 1, i)
  BY <1>2
<1>4. QED
  BY <1>2, <1>3, Prefix

\* A path without its tail behind a link is a route again, if it is a path.
LEMMA CutGood ==
  ASSUME NEW p, NEW n, Good(p, n, p[Len(p)]), NEW a, NEW b, Len(Cut(p, a, b)) > 1
  PROVE  Good(Cut(p, a, b), n, Cut(p, a, b)[Len(Cut(p, a, b))])
<1>1. CASE ~HasLink(p, a, b)
  BY <1>1 DEF Cut
<1>2. CASE HasLink(p, a, b)
  <2> DEFINE i == CHOOSE i \in 1 .. Len(p) - 1 : p[i] = a /\ p[i + 1] = b
  <2>1. i \in 1 .. Len(p) - 1
    BY <1>2 DEF HasLink
  <2>2. Cut(p, a, b) = SubSeq(p, 1, i)
    BY <1>2 DEF Cut
  <2> HIDE DEF i
  <2>3. p \in Seq(Node) /\ Len(p) \in Nat
    BY DEF Good
  <2>4. Len(SubSeq(p, 1, i)) = i /\ SubSeq(p, 1, i)[i] = p[i]
    BY <2>1, <2>3
  <2>5. i \in 2 .. Len(p)
    BY <2>1, <2>2, <2>3, <2>4
  <2>6. Good(SubSeq(p, 1, i), n, p[i])
    BY <2>5, Prefix
  <2>7. QED
    BY <2>2, <2>4, <2>6
<1>3. QED
  BY <1>1, <1>2

\* What is left of a cache are routes.
LEMMA CacheCut ==
  ASSUME Cache(routes), NEW n \in Node, NEW a, NEW b,
         routes' = [routes EXCEPT ![n] = WithoutLink(@, a, b)]
  PROVE  Cache(routes')
<1>1. /\ routes \in [Node -> SUBSET Seq(Node)]
      /\ \A k \in Node : \A r \in routes[k] : Good(r, k, r[Len(r)])
  BY DEF Cache
<1>2. ASSUME NEW q \in WithoutLink(routes[n], a, b)
      PROVE  q \in Seq(Node) /\ Good(q, n, q[Len(q)])
  <2>1. PICK p \in routes[n] : q = Cut(p, a, b) /\ Len(q) > 1
    BY DEF WithoutLink
  <2>2. Good(q, n, q[Len(q)])
    BY <1>1, <2>1, CutGood
  <2>3. QED
    BY <2>2 DEF Good
<1>3. routes'[n] = WithoutLink(routes[n], a, b) /\ \A k \in Node : k # n => routes'[k] = routes[k]
  BY <1>1
<1>4. routes' \in [Node -> SUBSET Seq(Node)]
  <2>1. WithoutLink(routes[n], a, b) \in SUBSET Seq(Node)
    BY <1>2
  <2>2. QED
    BY <1>1, <2>1
<1>5. QED
  BY <1>1, <1>2, <1>3, <1>4 DEF Cache

-----------------------------------------------------------------------------
(* The tables, read *)

\* What find returns.
LEMMA Found ==
  ASSUME Flows, NEW n \in Node, NEW s, NEW d, NEW f, NEW i \in find(n, s, d, f)
  PROVE  /\ i \in 1 .. Len(table[n])
         /\ table[n][i].src = s /\ table[n][i].dst = d /\ table[n][i].id = f
         /\ GoodEntry(table[n][i], n) /\ Rooted(table, table[n][i])
<1>1. table[n] \in Seq(Entry)
  BY DEF Flows, Tables
<1>2. i \in 1 .. Len(table[n])
  BY <1>1 DEF find
<1>3. QED
  BY <1>1, <1>2 DEF find, Flows, Tables

\* What defaultFlow returns.
LEMMA FoundDefault ==
  ASSUME Flows, NEW n \in Node, NEW s, NEW d, NEW i \in defaultFlow(n, s, d)
  PROVE  /\ i \in 1 .. Len(table[n])
         /\ table[n][i].src = s /\ table[n][i].dst = d
         /\ GoodEntry(table[n][i], n) /\ Rooted(table, table[n][i])
<1>1. i \in find(n, s, d, dflt[n][<<s, d>>])
  BY DEF defaultFlow
<1>2. QED
  BY <1>1, Found

\* The route that is preferred is one from n to d.
LEMMA PreferredGood ==
  ASSUME Flows, NEW n \in Node, NEW d, NEW r, Good(r, n, d)
  PROVE  Good(Preferred(n, d, r), n, d)
<1> DEFINE I == {i \in defaultFlow(n, n, d) :
                   table[n][i].alive /\ Len(table[n][i].route) <= Len(r)}
<1>1. CASE I = {}
  BY <1>1 DEF Preferred
<1>2. CASE I # {}
  <2>1. PICK i \in I : Preferred(n, d, r) = table[n][i].route
    BY <1>2 DEF Preferred
  <2>2. GoodEntry(table[n][i], n) /\ table[n][i].src = n /\ table[n][i].dst = d
    BY <2>1, FoundDefault
  <2>3. QED
    BY <2>1, <2>2 DEF GoodEntry
<1>3. QED
  BY <1>1, <1>2

\* What Usable returns: flows of n's own, with a route to d.
LEMMA UsableGood ==
  ASSUME Flows, NEW n \in Node, NEW d, NEW r, NEW i \in Usable(n, d, r)
  PROVE  /\ i \in 1 .. Len(table[n]) /\ GoodEntry(table[n][i], n)
         /\ table[n][i].src = n /\ table[n][i].dst = d /\ table[n][i].alive
         /\ table[n][i].hop = 0
<1>1. table[n] \in Seq(Entry)
  BY DEF Flows, Tables
<1>2. /\ i \in 1 .. Len(table[n])
      /\ table[n][i].src = n /\ table[n][i].dst = d /\ table[n][i].alive
  BY <1>1 DEF Usable, findRoute
<1>3. GoodEntry(table[n][i], n)
  BY <1>2 DEF Flows, Tables
<1>4. table[n][i].hop = 0
  <2> DEFINE e == table[n][i]
  <2>0. GoodEntry(e, n) /\ e.src = n
    BY <1>2, <1>3
  <2> HIDE DEF e
  <2>1. /\ e.hop \in Nat /\ e.hop + 2 <= Len(e.route) /\ Len(e.route) \in Nat
        /\ e.route[e.hop + 1] = n /\ e.route[1] = n
        /\ \A j, k \in 1 .. Len(e.route) : j # k => e.route[j] # e.route[k]
    BY <2>0 DEF GoodEntry, Good, Entry
  <2>2. e.hop + 1 \in 1 .. Len(e.route) /\ 1 \in 1 .. Len(e.route)
    BY <2>1
  <2>3. e.hop + 1 = 1
    BY <2>1, <2>2
  <2>4. QED
    BY <2>1, <2>3 DEF e
<1>5. QED
  BY <1>2, <1>3, <1>4

\* Two nodes in a row on a route are a link of it, and a node is on a route once.
LEMMA NextLink ==
  ASSUME NEW e, NEW n \in Node, GoodEntry(e, n)
  PROVE  /\ NextHop(e) \in Node /\ HasLink(e.route, n, NextHop(e))
         /\ \A b : HasLink(e.route, n, b) => b = NextHop(e)
         /\ \A a, b : HasLink(e.route, a, b) => a \in Node /\ b \in Node /\ b # e.src
<1> DEFINE r == e.route
           h == e.hop
<1>1. /\ r \in Seq(Node) /\ h \in Nat /\ Len(r) \in Nat /\ h + 2 <= Len(r)
      /\ r[h + 1] = n /\ r[1] = e.src
      /\ \A i, j \in 1 .. Len(r) : i # j => r[i] # r[j]
  BY DEF GoodEntry, Good, Entry
<1>2. NextHop(e) = r[h + 2]
  BY DEF NextHop
<1>3. h + 1 \in 1 .. Len(r) - 1 /\ h + 2 \in 1 .. Len(r) /\ (h + 1) + 1 = h + 2
  BY <1>1
<1> HIDE DEF r, h
<1>4. r[h + 2] \in Node
  BY <1>1, <1>3
<1>5. HasLink(r, n, r[h + 2])
  BY <1>1, <1>3 DEF HasLink
<1>6. ASSUME NEW b, HasLink(r, n, b)
      PROVE  b = r[h + 2]
  <2>1. PICK i \in 1 .. Len(r) - 1 : r[i] = n /\ r[i + 1] = b
    BY <1>6 DEF HasLink
  <2>2. i = h + 1
    BY <1>1, <1>3, <2>1
  <2>3. QED
    BY <1>3, <2>1, <2>2
<1>7. ASSUME NEW a, NEW b, HasLink(r, a, b)
      PROVE  a \in Node /\ b \in Node /\ b # e.src
  <2>1. PICK i \in 1 .. Len(r) - 1 : r[i] = a /\ r[i + 1] = b
    BY <1>7 DEF HasLink
  <2>2. i \in 1 .. Len(r) /\ i + 1 \in 1 .. Len(r) /\ 1 \in 1 .. Len(r) /\ i + 1 # 1
    BY <1>1, <2>1
  <2>3. QED
    BY <1>1, <2>1, <2>2
<1>8. QED
  BY <1>2, <1>4, <1>5, <1>6, <1>7 DEF r

-----------------------------------------------------------------------------
(* Steps in general *)

\* What entries with the same flow and route leave right.
LEMMA TouchStep ==
  ASSUME Flows, Touched(table, table'), UNCHANGED <<dflt, counter>>
  PROVE  Flows' /\ Kept(table, table')
BY FlowsStay DEF Flows

\* A step that leaves the tables alone.
LEMMA SameFlows ==
  ASSUME Flows, UNCHANGED flows
  PROVE  Flows' /\ Kept(table, table')
<1>1. \A n \in Node : Len(table[n]) \in Nat
  BY DEF Flows, Tables
<1>2. Kept(table, table')
  BY <1>1 DEF Kept, Alike, flows
<1>3. QED
  BY <1>2 DEF Flows, flows

\* Packets that were on the air, and right ones.
LEMMA AirNext ==
  ASSUME Flows, Flows', Kept(table, table'), Air(table, air),
         NEW B, IsFiniteSet(B), \A p \in B : GoodPacket(table', p),
         air' \subseteq air \cup B
  PROVE  Air(table', air')
<1>1. table \in [Node -> Seq(Entry)] /\ table' \in [Node -> Seq(Entry)]
  BY DEF Flows, Tables
<1>2. Air(table', air)
  BY <1>1, AirStays
<1>3. IsFiniteSet(air \cup B)
  BY FS_Union DEF Air
<1>4. IsFiniteSet(air')
  BY <1>3, FS_Subset
<1>5. QED
  BY <1>2, <1>4 DEF Air

\* One packet is sent.
LEMMA AirSent ==
  ASSUME Flows, Flows', Kept(table, table'), Air(table, air),
         NEW p, GoodPacket(table', p), air' = air \cup {p}
  PROVE  Air(table', air')
<1>1. IsFiniteSet({p})
  BY FS_Singleton
<1>2. QED
  BY <1>1, AirNext

\* None is.
LEMMA AirLess ==
  ASSUME Flows, Flows', Kept(table, table'), Air(table, air), air' \subseteq air
  PROVE  Air(table', air')
<1>1. IsFiniteSet({})
  BY FS_EmptySet
<1>2. QED
  BY <1>1, AirNext

\* A message that is sent along a route from node n to its destination.
LEMMA SentAlong ==
  ASSUME NEW T, NEW m \in Msg, m.src # m.dest, NEW n \in Node, NEW q, Good(q, n, m.dest),
         NEW f \in Id \cup {NoFlow}, f # NoFlow => Knows(T, m.src, m.dest, f, q)
  PROVE  GoodPacket(T, Packet(m, q, 1, f, n, q[2]))
<1> DEFINE p == Packet(m, q, 1, f, n, q[2])
<1>1. /\ q \in Seq(Node) /\ Len(q) \in Nat /\ Len(q) >= 2 /\ q[1] = n /\ q[Len(q)] = m.dest
      /\ \A i, j \in 1 .. Len(q) : i # j => q[i] # q[j]
  BY DEF Good
<1>2. /\ p.msg = m /\ p.route = q /\ p.hop = 1 /\ p.fid = f /\ p.from = n /\ p.to = q[2]
      /\ p \in Pkt
  BY <1>1 DEF Packet, Pkt
<1> HIDE DEF p
<1>3. Routed(T, p)
  BY <1>1, <1>2 DEF Routed
<1>4. q # <<>>
  BY <1>1
<1>5. QED
  BY <1>2, <1>3, <1>4 DEF GoodPacket, p

\* A message that is sent from its source over a flow, without the route.
LEMMA SentOver ==
  ASSUME NEW T, NEW m \in Msg, m.src # m.dest, NEW a \in Node, a = m.src, NEW b \in Node,
         NEW f \in Id \cup {NoFlow}, NEW g \in Id, NEW r, Knows(T, m.src, m.dest, g, r),
         HasLink(r, a, b), f \in {g, NoFlow}
  PROVE  GoodPacket(T, Packet(m, <<>>, 0, f, a, b))
<1> DEFINE p == Packet(m, <<>>, 0, f, a, b)
<1>1. /\ p.msg = m /\ p.route = <<>> /\ p.fid = f /\ p.from = a /\ p.to = b
      /\ p \in Pkt
  BY DEF Packet, Pkt
<1> HIDE DEF p
<1>2. Unrouted(T, p)
  BY <1>1 DEF Unrouted, Knows, HasOne
<1>3. QED
  BY <1>1, <1>2 DEF GoodPacket, p

\* The first message to be sent is the node's own.
LEMMA HeadTodo ==
  ASSUME Todo(todo), ~Idle
  PROVE  n0 \in Node /\ m0 \in Msg /\ m0.src = n0 /\ Todo(Tail(todo))
<1>1. todo \in Seq([at : Node, msg : Msg]) /\ todo # <<>>
  BY DEF Todo, Idle
<1>2. todo[1] \in [at : Node, msg : Msg] /\ 1 \in 1 .. Len(todo)
  <2>1. Len(todo) \in Nat /\ Len(todo) # 0
    BY <1>1, EmptySeq
  <2>2. 1 \in 1 .. Len(todo)
    BY <2>1
  <2>3. QED
    BY <1>1, <2>2, ElementOfSeq
<1>3. todo[1].msg.src = todo[1].at
  BY <1>2 DEF Todo
<1>4. /\ Tail(todo) \in Seq([at : Node, msg : Msg])
      /\ \A i \in 1 .. Len(Tail(todo)) : i + 1 \in 1 .. Len(todo) /\ Tail(todo)[i] = todo[i + 1]
  <2>1. /\ Tail(todo) \in Seq([at : Node, msg : Msg]) /\ Len(Tail(todo)) = Len(todo) - 1
        /\ \A i \in 1 .. Len(Tail(todo)) : Tail(todo)[i] = todo[i + 1]
    BY <1>1, HeadTailProperties
  <2>2. Len(todo) \in Nat
    BY <1>1
  <2>3. QED
    BY <2>1, <2>2
<1>5. Todo(Tail(todo))
  BY <1>4 DEF Todo
<1>6. QED
  BY <1>2, <1>3, <1>5 DEF n0, m0

\* A destination that can be routed to is another node.
LEMMA GoodEnds ==
  ASSUME NEW q, NEW a, NEW b, Good(q, a, b)
  PROVE  a # b
<1>1. 1 \in 1 .. Len(q) /\ Len(q) \in 1 .. Len(q) /\ 1 # Len(q)
  BY DEF Good
<1>2. QED
  BY <1>1 DEF Good

-----------------------------------------------------------------------------
(* Sending *)

\* A packet is handed over by an application.
LEMMA OriginateInv ==
  ASSUME IInv, Originate
  PROVE  IInv'
<1>1. /\ due # <<>> /\ due \in Seq(Node \X Node \X Nat)
      /\ \A i \in 1 .. Len(due) : due[i][1] # due[i][2]
  BY DEF IInv, Rest, Originate
<1>2. /\ Head(due) \in Node \X Node \X Nat /\ Tail(due) \in Seq(Node \X Node \X Nat)
      /\ \A i \in 1 .. Len(Tail(due)) : i + 1 \in 1 .. Len(due) /\ Tail(due)[i] = due[i + 1]
  <2>1. /\ Tail(due) \in Seq(Node \X Node \X Nat) /\ Len(Tail(due)) = Len(due) - 1
        /\ Head(due) \in Node \X Node \X Nat
        /\ \A i \in 1 .. Len(Tail(due)) : Tail(due)[i] = due[i + 1]
    BY <1>1, HeadTailProperties
  <2>2. Len(due) \in Nat
    BY <1>1
  <2>3. QED
    BY <2>1, <2>2
<1> DEFINE a == Head(due)
<1>3. Data(a[1], a[2], a[3]) \in Msg /\ Data(a[1], a[2], a[3]).src = a[1] /\ a[1] \in Node
  <2>1. <<>> \in Seq(FlowError) /\ 0 \in 0 .. MaxSalvage
    BY FlowConstants
  <2>2. a[1] \in Node /\ a[2] \in Node /\ a[3] \in Nat
    BY <1>2
  <2> HIDE DEF a
  <2>3. QED
    BY <2>1, <2>2 DEF Data, Msg
<1>4. todo' = <<[at |-> a[1], msg |-> Data(a[1], a[2], a[3])]>>
  BY DEF Originate
<1> HIDE DEF a
<1>5. Todo(todo')
  BY <1>3, <1>4 DEF Todo
<1>6. due' = Tail(due) /\ UNCHANGED <<table, dflt, counter, routes, air, told, links, moves>>
  BY DEF Originate, flows
<1>7. Rest(told', links', due', moves')
  BY <1>1, <1>2, <1>6 DEF IInv, Rest
<1>8. Flows' /\ Air(table', air') /\ Cache(routes')
  BY <1>6, SameFlows DEF IInv, flows
<1>9. QED
  BY <1>5, <1>7, <1>8 DEF IInv

\* The ids of a source in use, and its next one.
LEMMA NextId ==
  ASSUME Flows, NEW n \in Node, Len(table[n]) < TableSize
  PROVE  /\ Odd(counter[n]) = counter[n] + 1 /\ Odd(counter[n]) \in Id
         /\ Odd(counter[n]) % 2 = 1
         /\ (Odd(counter[n]) + 1) % FlowIds = counter[n] + 2
         /\ counter[n] \in Nat /\ (counter[n] + 2) % 2 = 0
         /\ \A s, d : s = n => find(n, s, d, Odd(counter[n])) = {}
<1> DEFINE c == counter[n]
<1>1. c \in Nat /\ c <= 2 * Len(table[n]) /\ c % 2 = 0 /\ Len(table[n]) \in Nat
  BY DEF Flows, Counters, Tables
<1>2. TableSize \in Nat \ {0}
  BY FlowConstants
<1>3. \A i \in 1 .. Len(table[n]) : table[n][i].src = n => table[n][i].id < c
  BY DEF Flows, Counters
<1>4. \A i \in 1 .. Len(table[n]) : table[n][i].id \in Nat
  BY FlowConstants DEF Flows, Tables, GoodEntry, Entry
<1>5. table[n] \in Seq(Entry)
  BY DEF Flows, Tables
<1> HIDE DEF c
<1>6. c + 2 \in 0 .. 2 * TableSize /\ c + 1 \in 0 .. 2 * TableSize
  BY <1>1, <1>2
<1>7. (c + 1) % FlowIds = c + 1 /\ (c + 2) % FlowIds = c + 2 /\ c + 1 \in Id
  BY <1>6, SmallIds
<1>8. Odd(c) = c + 1
  BY <1>1, <1>7 DEF Odd
<1>9. (c + 1) % 2 = 1 /\ (c + 2) % 2 = 0 /\ (c + 1) + 1 = c + 2
  BY <1>1
<1>10. ASSUME NEW d
       PROVE  find(n, n, d, c + 1) = {}
  <2>1. \A i \in 1 .. Len(table[n]) : table[n][i].src = n => table[n][i].id # c + 1
    BY <1>1, <1>3, <1>4
  <2>2. QED
    BY <1>5, <2>1 DEF find
<1>11. QED
  BY <1>1, <1>7, <1>8, <1>9, <1>10 DEF c

\* A new flow is established.
LEMMA NewFlowInv ==
  ASSUME IInv, NewFlow
  PROVE  IInv'
<1>1. /\ n0 \in Node /\ m0 \in Msg /\ m0.src = n0 /\ Todo(Tail(todo))
      /\ Flows /\ Air(table, air) /\ Cache(routes) /\ Rest(told, links, due, moves)
  BY HeadTodo DEF IInv, NewFlow
<1>2. PICK r \in Shortest(routes[n0], m0.dest) :
        LET q == Preferred(n0, m0.dest, r)
            f == Odd(counter[n0])
        IN /\ Usable(n0, m0.dest, r) = {}
           /\ createEntry(n0, NewEntry(n0, m0.dest, f, q, 0, m0.ttl, TRUE))
           /\ counter' = [counter EXCEPT ![n0] = (f + 1) % FlowIds]
           /\ air' = air \cup {Packet(m0, q, 1, f, n0, q[2])}
  BY DEF NewFlow
<1> DEFINE q == Preferred(n0, m0.dest, r)
           f == Odd(counter[n0])
           e == NewEntry(n0, m0.dest, f, q, 0, m0.ttl, TRUE)
<1>3. createEntry(n0, e) /\ counter' = [counter EXCEPT ![n0] = (f + 1) % FlowIds]
      /\ air' = air \cup {Packet(m0, q, 1, f, n0, q[2])}
  BY <1>2
<1>4. Good(q, n0, m0.dest)
  <2>1. Good(r, n0, m0.dest)
    BY <1>1, ShortestGood DEF Cache
  <2>2. QED
    BY <1>1, <2>1, PreferredGood
<1>5. /\ f = counter[n0] + 1 /\ f \in Id /\ f % 2 = 1
      /\ (f + 1) % FlowIds = counter[n0] + 2 /\ counter[n0] \in Nat
      /\ (counter[n0] + 2) % 2 = 0
      /\ find(n0, n0, m0.dest, f) = {}
  BY <1>1, <1>3, NextId DEF createEntry
<1> HIDE DEF q, f
<1>6. /\ e.src = n0 /\ e.dst = m0.dest /\ e.id = f /\ e.route = q /\ e.hop = 0
  BY DEF NewEntry
<1>7. e \in Entry
  <2>1. m0.dest \in Node /\ m0.ttl \in Nat /\ q \in Seq(Node) /\ 1 \in 0 .. EndToEnd + 1
    BY <1>1, <1>4, FlowConstants DEF Msg, Good
  <2>2. QED
    BY <1>1, <1>5, <2>1 DEF NewEntry, Entry
<1> HIDE DEF e
<1>8. GoodEntry(e, n0)
  <2>1. 0 + 2 <= Len(q) /\ q[0 + 1] = n0
    BY <1>4 DEF Good
  <2>2. QED
    BY <1>4, <1>5, <1>6, <1>7, <2>1 DEF GoodEntry
<1>9. /\ counter \in [Node -> Nat] /\ \A m \in Node : counter[m] % 2 = 0
  BY <1>1 DEF Flows, Counters
<1>10. /\ counter' \in [Node -> Nat]
       /\ counter'[n0] = counter[n0] + 2
       /\ \A m \in Node : m # n0 => counter'[m] = counter[m]
  BY <1>1, <1>3, <1>5, <1>9
<1>11. \A m \in Node : counter[m] <= counter'[m] /\ counter'[m] % 2 = 0
  <2> SUFFICES ASSUME NEW m \in Node
               PROVE  counter[m] <= counter'[m] /\ counter'[m] % 2 = 0
    OBVIOUS
  <2>1. CASE m = n0
    BY <1>5, <1>10, <2>1
  <2>2. CASE m # n0
    <3>1. counter'[m] = counter[m] /\ counter[m] \in Nat
      BY <1>9, <1>10, <2>2
    <3>2. QED
      BY <1>9, <3>1
  <2>3. QED
    BY <2>1, <2>2
<1>12. \A m \in Node : counter'[m] <= counter[m] + (IF m = n0 THEN 2 ELSE 0)
  <2> SUFFICES ASSUME NEW m \in Node
               PROVE  counter'[m] <= counter[m] + (IF m = n0 THEN 2 ELSE 0)
    OBVIOUS
  <2>1. CASE m = n0
    BY <1>5, <1>10, <2>1
  <2>2. CASE m # n0
    <3>1. counter'[m] = counter[m] /\ counter[m] \in Nat
      BY <1>9, <1>10, <2>2
    <3>2. QED
      BY <2>2, <3>1
  <2>3. QED
    BY <2>1, <2>2
<1>13. Flows' /\ Kept(table, table')
  <2>1. find(n0, e.src, e.dst, e.id) = {}
    BY <1>5, <1>6
  <2>2. e.id < counter'[e.src]
    BY <1>5, <1>6, <1>10
  <2>3. QED
    BY <1>1, <1>3, <1>6, <1>8, <1>10, <1>11, <1>12, <2>1, <2>2, FlowCreated
<1>14. Air(table', air')
  <2>1. Knows(table', m0.src, m0.dest, f, q)
    <3>1. /\ Len(table[n0]) + 1 \in 1 .. Len(table'[n0])
          /\ table'[n0][Len(table[n0]) + 1] = e
      <4>1. table \in [Node -> Seq(Entry)]
        BY <1>1 DEF Flows, Tables
      <4>2. table' = [table EXCEPT ![n0] = Append(table[n0], e)]
        BY <1>3 DEF createEntry
      <4>3. table'[n0] = Append(table[n0], e) /\ table[n0] \in Seq(Entry)
        BY <1>1, <4>1, <4>2
      <4>4. QED
        BY <1>7, <4>3
    <3>2. QED
      BY <1>1, <1>6, <3>1 DEF Knows
  <2>2. m0.src # m0.dest
    BY <1>1, <1>4, GoodEnds
  <2>3. f \in Id \cup {NoFlow}
    BY <1>5
  <2>4. GoodPacket(table', Packet(m0, q, 1, f, n0, q[2]))
    BY <1>1, <1>4, <2>1, <2>2, <2>3, SentAlong
  <2>5. QED
    BY <1>1, <1>3, <1>13, <2>4, AirSent
<1>15. todo' = Tail(todo) /\ UNCHANGED <<routes, told, links, due, moves>>
  BY DEF NewFlow, world
<1>16. QED
  BY <1>1, <1>13, <1>14, <1>15 DEF IInv

\* Only what is counted or timed of one entry changes.
LEMMA TouchOne ==
  ASSUME Flows, NEW n \in Node, NEW i \in 1 .. Len(table[n]), NEW e \in Entry,
         Alike(table[n][i], e), table' = [table EXCEPT ![n][i] = e]
  PROVE  Touched(table, table')
<1>1. table \in [Node -> Seq(Entry)]
  BY DEF Flows, Tables
<1>2. table[n] \in Seq(Entry)
  BY <1>1
<1>3. [table[n] EXCEPT ![i] = e] \in Seq(Entry) /\ Len([table[n] EXCEPT ![i] = e]) = Len(table[n])
  BY <1>2, ExceptSeq
<1>4. table' = [table EXCEPT ![n] = [table[n] EXCEPT ![i] = e]]
  OBVIOUS
<1>5. /\ table' \in [Node -> Seq(Entry)] /\ table'[n] = [table[n] EXCEPT ![i] = e]
      /\ \A k \in Node : k # n => table'[k] = table[k]
  BY <1>1, <1>3, <1>4
<1>6. \A j \in 1 .. Len(table[n]) : table'[n][j] = IF j = i THEN e ELSE table[n][j]
  <2>1. DOMAIN table[n] = 1 .. Len(table[n])
    BY <1>2, LenProperties
  <2>2. QED
    BY <1>5, <2>1
<1>7. QED
  BY <1>3, <1>5, <1>6 DEF Touched, Alike

\* The route of a flow is sent again.
LEMMA AdvertiseInv ==
  ASSUME IInv, Advertise
  PROVE  IInv'
<1>1. /\ n0 \in Node /\ m0 \in Msg /\ m0.src = n0 /\ Todo(Tail(todo))
      /\ Flows /\ Air(table, air) /\ Cache(routes) /\ Rest(told, links, due, moves)
  BY HeadTodo DEF IInv, Advertise
<1>2. PICK r \in Shortest(routes[n0], m0.dest) :
        \E i \in Usable(n0, m0.dest, r) :
          LET e == table[n0][i]
          IN /\ table' = [table EXCEPT ![n0][i] =
                 [e EXCEPT !.allow = @ /\ e.ttl = m0.ttl,
                           !.count = IF @ <= EndToEnd THEN @ + 1 ELSE @,
                           !.adv = TRUE, !.alive = TRUE]]
             /\ air' = air \cup {Packet(m0, e.route, 1, e.id, n0, NextHop(e))}
  BY DEF Advertise
<1>3. PICK i \in Usable(n0, m0.dest, r) :
        LET e == table[n0][i]
        IN /\ table' = [table EXCEPT ![n0][i] =
               [e EXCEPT !.allow = @ /\ e.ttl = m0.ttl,
                         !.count = IF @ <= EndToEnd THEN @ + 1 ELSE @,
                         !.adv = TRUE, !.alive = TRUE]]
           /\ air' = air \cup {Packet(m0, e.route, 1, e.id, n0, NextHop(e))}
  BY <1>2
<1> DEFINE e == table[n0][i]
           g == [e EXCEPT !.allow = @ /\ e.ttl = m0.ttl,
                          !.count = IF @ <= EndToEnd THEN @ + 1 ELSE @,
                          !.adv = TRUE, !.alive = TRUE]
<1>4. /\ i \in 1 .. Len(table[n0]) /\ GoodEntry(e, n0)
      /\ e.src = n0 /\ e.dst = m0.dest /\ e.hop = 0
  BY <1>1, UsableGood
<1>5. table' = [table EXCEPT ![n0][i] = g]
  BY <1>3, Zenon
<1>6. air' = air \cup {Packet(m0, e.route, 1, e.id, n0, NextHop(e))}
  BY <1>3
<1>7. e \in Entry
  BY <1>4 DEF GoodEntry
<1> HIDE DEF e
<1>8. g \in Entry /\ Alike(e, g)
  <2> DEFINE allow == e.allow /\ e.ttl = m0.ttl
             count == IF e.count <= EndToEnd THEN e.count + 1 ELSE e.count
  <2>1. e.count \in 0 .. EndToEnd + 1
    BY <1>7 DEF Entry
  <2>2. count \in 0 .. EndToEnd + 1
    BY <2>1, FlowConstants
  <2>3. allow \in BOOLEAN
    OBVIOUS
  <2>4. g = [e EXCEPT !.allow = allow, !.count = count, !.adv = TRUE, !.alive = TRUE]
    BY Zenon
  <2> HIDE DEF allow, count
  <2>5. QED
    BY <1>7, <2>2, <2>3, <2>4 DEF Entry, Alike
<1> HIDE DEF g
<1>9. Touched(table, table')
  BY <1>1, <1>4, <1>5, <1>8, TouchOne DEF e
<1>10. Flows' /\ Kept(table, table')
  <2>1. UNCHANGED <<dflt, counter>>
    BY DEF Advertise
  <2>2. QED
    BY <1>1, <1>9, <2>1, TouchStep
<1>11. Air(table', air')
  <2>1. Knows(table', m0.src, m0.dest, e.id, e.route)
    <3>1. i \in 1 .. Len(table'[n0]) /\ Alike(e, table'[n0][i])
      BY <1>1, <1>4, <1>9 DEF Touched, e
    <3>2. QED
      BY <1>1, <1>4, <3>1 DEF Knows, Alike
  <2>2. Good(e.route, n0, m0.dest)
    BY <1>4 DEF GoodEntry
  <2>3. NextHop(e) = e.route[2] /\ e.id \in Id
    BY <1>4, <1>7 DEF NextHop, Entry
  <2>4. m0.src # m0.dest
    BY <1>1, <2>2, GoodEnds
  <2>5. GoodPacket(table', Packet(m0, e.route, 1, e.id, n0, e.route[2]))
    BY <1>1, <2>1, <2>2, <2>3, <2>4, SentAlong
  <2>6. QED
    BY <1>1, <1>6, <1>10, <2>3, <2>5, AirSent
<1>12. todo' = Tail(todo) /\ UNCHANGED <<routes, told, links, due, moves>>
  BY DEF Advertise, world
<1>13. QED
  BY <1>1, <1>10, <1>11, <1>12 DEF IInv

\* A packet is sent over an established flow.
LEMMA UseFlowInv ==
  ASSUME IInv, UseFlow
  PROVE  IInv'
<1>1. /\ n0 \in Node /\ m0 \in Msg /\ m0.src = n0 /\ Todo(Tail(todo))
      /\ Flows /\ Air(table, air) /\ Cache(routes) /\ Rest(told, links, due, moves)
  BY HeadTodo DEF IInv, UseFlow
<1>2. PICK r \in Shortest(routes[n0], m0.dest) :
        \E i \in Usable(n0, m0.dest, r) :
          LET e == table[n0][i]
              bare == i \in defaultFlow(n0, n0, m0.dest) /\ m0.ttl = e.ttl /\ e.allow
          IN /\ air' = air \cup
                 {Packet(m0, <<>>, 0, IF bare THEN NoFlow ELSE e.id, n0, NextHop(e))}
             /\ table' = [table EXCEPT ![n0][i].alive = TRUE]
  BY DEF UseFlow
<1>3. PICK i \in Usable(n0, m0.dest, r) :
        LET e == table[n0][i]
            bare == i \in defaultFlow(n0, n0, m0.dest) /\ m0.ttl = e.ttl /\ e.allow
        IN /\ air' = air \cup
               {Packet(m0, <<>>, 0, IF bare THEN NoFlow ELSE e.id, n0, NextHop(e))}
           /\ table' = [table EXCEPT ![n0][i].alive = TRUE]
  BY <1>2
<1> DEFINE e == table[n0][i]
           g == [e EXCEPT !.alive = TRUE]
           f == IF i \in defaultFlow(n0, n0, m0.dest) /\ m0.ttl = e.ttl /\ e.allow
                THEN NoFlow ELSE e.id
<1>4. /\ i \in 1 .. Len(table[n0]) /\ GoodEntry(e, n0)
      /\ e.src = n0 /\ e.dst = m0.dest
  BY <1>1, UsableGood
<1>5. table' = [table EXCEPT ![n0][i] = g]
  BY <1>3
<1>6. air' = air \cup {Packet(m0, <<>>, 0, f, n0, NextHop(e))}
  BY <1>3
<1>7. e \in Entry
  BY <1>4 DEF GoodEntry
<1>8. f \in {e.id, NoFlow}
  OBVIOUS
<1> HIDE DEF e, f
<1>9. g \in Entry /\ Alike(e, g)
  BY <1>7 DEF Entry, Alike
<1> HIDE DEF g
<1>10. Touched(table, table')
  BY <1>1, <1>4, <1>5, <1>9, TouchOne DEF e
<1>11. Flows' /\ Kept(table, table')
  <2>1. UNCHANGED <<dflt, counter>>
    BY DEF UseFlow
  <2>2. QED
    BY <1>1, <1>10, <2>1, TouchStep
<1>12. Air(table', air')
  <2>1. Knows(table', m0.src, m0.dest, e.id, e.route)
    <3>1. i \in 1 .. Len(table'[n0]) /\ Alike(e, table'[n0][i])
      BY <1>1, <1>4, <1>10 DEF Touched, e
    <3>2. QED
      BY <1>1, <1>4, <3>1 DEF Knows, Alike
  <2>2. m0.src # m0.dest
    <3>1. Good(e.route, n0, m0.dest)
      BY <1>4 DEF GoodEntry
    <3>2. QED
      BY <1>1, <3>1, GoodEnds
  <2>3. e.id \in Id /\ f \in Id \cup {NoFlow}
    BY <1>7, <1>8 DEF Entry
  <2>4. NextHop(e) \in Node /\ HasLink(e.route, n0, NextHop(e))
    BY <1>1, <1>4, NextLink
  <2>5. GoodPacket(table', Packet(m0, <<>>, 0, f, n0, NextHop(e)))
    BY <1>1, <1>8, <2>1, <2>2, <2>3, <2>4, SentOver
  <2>6. QED
    BY <1>1, <1>6, <1>11, <2>5, AirSent
<1>13. todo' = Tail(todo) /\ UNCHANGED <<routes, told, links, due, moves>>
  BY DEF UseFlow, world
<1>14. QED
  BY <1>1, <1>11, <1>12, <1>13 DEF IInv

\* A packet goes to the send buffer.
LEMMA NoRouteInv ==
  ASSUME IInv, NoRoute
  PROVE  IInv'
<1>1. /\ Todo(Tail(todo)) /\ todo' = Tail(todo)
      /\ UNCHANGED <<table, dflt, counter, routes, air, told, links, due, moves>>
  BY HeadTodo DEF IInv, NoRoute, flows, world
<1>2. Flows'
  BY <1>1, SameFlows DEF IInv, flows
<1>3. QED
  BY <1>1, <1>2 DEF IInv

-----------------------------------------------------------------------------
(* Forwarding *)

\* What is known of a packet on the air.
LEMMA OnAir ==
  ASSUME IInv, NEW p \in air
  PROVE  /\ GoodPacket(table, p) /\ p \in Pkt
         /\ p.msg \in Msg /\ p.from \in Node /\ p.to \in Node
         /\ p.msg.src \in Node /\ p.msg.dest \in Node /\ p.msg.src # p.msg.dest
         /\ Flows /\ Air(table, air) /\ Cache(routes) /\ Todo(todo)
         /\ Rest(told, links, due, moves)
BY DEF IInv, Air, GoodPacket, Pkt, Msg

\* What a relay changes of a packet.
LEMMA PassedFields ==
  ASSUME NEW p \in Pkt, NEW k \in Node
  PROVE  /\ IsFiniteSet(PassedOn(p, k))
         /\ \A q \in PassedOn(p, k) :
              /\ q \in Pkt /\ q.msg.src = p.msg.src /\ q.msg.dest = p.msg.dest
              /\ q.route = p.route /\ q.fid = p.fid /\ q.from = p.to /\ q.to = k
              /\ q.hop = IF p.route = <<>> THEN 0 ELSE p.hop + 1
<1>1. /\ p.msg \in Msg /\ p.hop \in Nat /\ p.msg.ttl \in Nat
      /\ p.to \in Node
  BY DEF Pkt, Msg
<1>2. CASE p.msg.ttl = 0
  <2>1. PassedOn(p, k) = {}
    BY <1>2 DEF PassedOn
  <2>2. QED
    BY <2>1, FS_EmptySet
<1>3. CASE p.msg.ttl # 0
  <2> DEFINE h == IF p.route = <<>> THEN 0 ELSE p.hop + 1
             m == [p.msg EXCEPT !.ttl = @ - 1]
             q == [p EXCEPT !.from = p.to, !.to = k, !.msg = m, !.hop = h]
  <2>1. PassedOn(p, k) = {q}
    BY <1>3 DEF PassedOn
  <2>2. h \in Nat
    BY <1>1
  <2>3. m \in Msg /\ m.src = p.msg.src /\ m.dest = p.msg.dest
    BY <1>1, <1>3 DEF Msg
  <2> HIDE DEF m, h
  <2>4. /\ q \in Pkt /\ q.msg = m /\ q.route = p.route /\ q.fid = p.fid /\ q.from = p.to
        /\ q.to = k /\ q.hop = h
    BY <1>1, <2>2, <2>3 DEF Pkt
  <2> HIDE DEF q
  <2>5. IsFiniteSet({q})
    BY FS_Singleton
  <2>6. QED
    BY <2>1, <2>3, <2>4, <2>5 DEF h
<1>4. QED
  BY <1>2, <1>3

\* A packet with a route stays at its place on it.
LEMMA PassedRouted ==
  ASSUME NEW T, NEW p, GoodPacket(T, p), p.route # <<>>, p.to # p.msg.dest
  PROVE  /\ p.hop + 2 <= Len(p.route) /\ p.route[p.hop + 2] \in Node
         /\ p.route[p.hop + 1] = p.to /\ p.route \in Seq(Node) /\ p.hop \in Nat
         /\ \A q \in PassedOn(p, p.route[p.hop + 2]) : GoodPacket(T, q)
<1>1. /\ p.route \in Seq(Node) /\ p.hop \in Nat /\ p \in Pkt /\ p.msg.src # p.msg.dest
      /\ Routed(T, p)
  BY DEF GoodPacket, Pkt
<1> DEFINE r == p.route
           h == p.hop
<1>2. /\ h \in 1 .. Len(r) - 1 /\ r[h] = p.from /\ r[h + 1] = p.to /\ r[Len(r)] = p.msg.dest
      /\ \A i, j \in 1 .. Len(r) : i # j => r[i] # r[j]
      /\ p.fid # NoFlow => Knows(T, p.msg.src, p.msg.dest, p.fid, r)
  BY <1>1 DEF Routed
<1>3. h + 2 <= Len(r) /\ r[h + 2] \in Node
  <2>1. Len(r) \in Nat /\ r \in Seq(Node) /\ h \in Nat
    BY <1>1
  <2> HIDE DEF r, h
  <2>2. h + 1 # Len(r)
    BY <1>2
  <2>3. h + 2 \in 1 .. Len(r)
    BY <1>2, <2>1, <2>2
  <2>4. QED
    BY <2>1, <2>3
<1>4. ASSUME NEW q \in PassedOn(p, r[h + 2])
      PROVE  GoodPacket(T, q)
  <2>1. /\ q \in Pkt /\ q.msg.src = p.msg.src /\ q.msg.dest = p.msg.dest
        /\ q.route = r /\ q.fid = p.fid /\ q.from = p.to /\ q.to = r[h + 2]
        /\ q.hop = h + 1 /\ r # <<>>
    BY <1>1, <1>3, PassedFields
  <2>2. h + 1 \in 1 .. Len(r) - 1 /\ (h + 1) + 1 = h + 2 /\ Len(r) \in Nat
    BY <1>1, <1>2, <1>3
  <2> HIDE DEF r, h
  <2>3. Routed(T, q)
    BY <1>2, <2>1, <2>2 DEF Routed
  <2>4. QED
    BY <1>1, <2>1, <2>3 DEF GoodPacket
<1>5. QED
  BY <1>1, <1>2, <1>3, <1>4

\* A packet without one stays on a link of its flow.
LEMMA PassedUnrouted ==
  ASSUME NEW T, NEW p, GoodPacket(T, p), p.route = <<>>, NEW k \in Node, NEW f, NEW r,
         Knows(T, p.msg.src, p.msg.dest, f, r), HasLink(r, p.to, k), p.fid \in {f, NoFlow},
         HasOne(T, p.to, p.msg.src, p.msg.dest)
  PROVE  \A q \in PassedOn(p, k) : GoodPacket(T, q)
<1>1. p \in Pkt /\ p.msg.src # p.msg.dest
  BY DEF GoodPacket
<1>2. ASSUME NEW q \in PassedOn(p, k)
      PROVE  GoodPacket(T, q)
  <2>1. /\ q \in Pkt /\ q.msg.src = p.msg.src /\ q.msg.dest = p.msg.dest
        /\ q.route = p.route /\ q.fid = p.fid /\ q.from = p.to /\ q.to = k
    BY <1>1, PassedFields
  <2>2. Unrouted(T, q)
    BY <2>1 DEF Unrouted, Knows
  <2>3. QED
    BY <1>1, <2>1, <2>2 DEF GoodPacket
<1>3. QED
  BY <1>2

\* A relay takes a packet with a route.
LEMMA ForwardByRouteInv ==
  ASSUME IInv, NEW p \in air, ForwardByRoute(p)
  PROVE  IInv'
<1>1. /\ GoodPacket(table, p) /\ p \in Pkt
      /\ p.msg \in Msg /\ p.from \in Node /\ p.to \in Node
      /\ p.msg.src \in Node /\ p.msg.dest \in Node
      /\ Flows /\ Air(table, air) /\ Cache(routes) /\ Todo(todo)
      /\ Rest(told, links, due, moves)
  BY OnAir
<1> DEFINE k == p.route[p.hop + 2]
           e == NewEntry(p.msg.src, p.msg.dest, p.fid, p.route, p.hop, p.msg.ttl, FALSE)
<1>2. /\ p.to # p.msg.dest /\ p.route # <<>>
      /\ IF p.fid # NoFlow /\ find(p.to, p.msg.src, p.msg.dest, p.fid) = {}
         THEN createEntry(p.to, e) ELSE UNCHANGED <<table, dflt>>
      /\ air' = (air \ {p}) \cup PassedOn(p, k)
      /\ UNCHANGED <<counter, routes, told, todo, links, due, moves>>
  BY DEF ForwardByRoute, AtRelay, world
<1>3. /\ p.hop + 2 <= Len(p.route) /\ k \in Node
      /\ p.route[p.hop + 1] = p.to /\ p.route \in Seq(Node) /\ p.hop \in Nat
  BY <1>1, <1>2, PassedRouted
<1>4. Flows' /\ Kept(table, table')
  <2>1. CASE p.fid # NoFlow /\ find(p.to, p.msg.src, p.msg.dest, p.fid) = {}
    <3>1. Knows(table, p.msg.src, p.msg.dest, p.fid, p.route) /\ p.fid \in Id
      BY <1>1, <1>2, <2>1 DEF GoodPacket, Routed, Pkt
    <3>2. PICK j \in 1 .. Len(table[p.msg.src]) :
            LET g == table[p.msg.src][j]
            IN /\ g.src = p.msg.src /\ g.dst = p.msg.dest /\ g.id = p.fid
               /\ g.route = p.route
      BY <3>1 DEF Knows
    <3>3. GoodEntry(table[p.msg.src][j], p.msg.src)
      BY <1>1 DEF Flows, Tables
    <3>4. Good(p.route, p.msg.src, p.msg.dest) /\ p.fid % 2 = 1
      BY <3>2, <3>3 DEF GoodEntry
    <3>5. p.fid < counter[p.msg.src]
      BY <1>1, <3>2 DEF Flows, Counters
    <3>6. /\ e.src = p.msg.src /\ e.dst = p.msg.dest /\ e.id = p.fid
          /\ e.route = p.route /\ e.hop = p.hop
      BY DEF NewEntry
    <3>7. e \in Entry
      <4>1. p.msg.ttl \in Nat /\ 0 \in 0 .. EndToEnd + 1
        BY <1>1, FlowConstants DEF Msg
      <4>2. QED
        BY <1>1, <1>3, <3>1, <4>1 DEF NewEntry, Entry
    <3>8. createEntry(p.to, e)
      BY <1>2, <2>1
    <3> HIDE DEF e
    <3>9. GoodEntry(e, p.to)
      BY <1>3, <3>4, <3>6, <3>7 DEF GoodEntry
    <3>10. Rooted(table, e)
      BY <3>1, <3>6 DEF Rooted
    <3>11. /\ counter' \in [Node -> Nat]
           /\ \A m \in Node : counter[m] <= counter'[m] /\ counter'[m] % 2 = 0
           /\ \A m \in Node : counter'[m] <= counter[m] + (IF m = p.to THEN 2 ELSE 0)
      <4>1. /\ counter \in [Node -> Nat] /\ \A m \in Node : counter[m] % 2 = 0
            /\ counter' = counter
        BY <1>1, <1>2 DEF Flows, Counters
      <4>2. \A m \in Node : counter[m] \in Nat
        BY <4>1
      <4>3. QED
        BY <4>1, <4>2
    <3>12. find(p.to, e.src, e.dst, e.id) = {} /\ e.id < counter'[e.src]
      BY <1>2, <2>1, <3>5, <3>6
    <3>13. QED
      BY <1>1, <3>8, <3>9, <3>10, <3>11, <3>12, FlowCreated
  <2>2. CASE ~(p.fid # NoFlow /\ find(p.to, p.msg.src, p.msg.dest, p.fid) = {})
    <3>1. UNCHANGED flows
      BY <1>2, <2>2 DEF flows
    <3>2. QED
      BY <1>1, <3>1, SameFlows
  <2>3. QED
    BY <2>1, <2>2
<1> HIDE DEF k, e
<1>5. Air(table', air')
  <2>1. GoodPacket(table', p)
    BY <1>1, <1>4, PacketStays DEF Flows, Tables
  <2>2. \A q \in PassedOn(p, k) : GoodPacket(table', q)
    BY <1>2, <2>1, PassedRouted DEF k
  <2>3. IsFiniteSet(PassedOn(p, k))
    BY <1>1, <1>3, PassedFields
  <2>4. air' \subseteq air \cup PassedOn(p, k)
    BY <1>2
  <2>5. QED
    BY <1>1, <1>4, <2>2, <2>3, <2>4, AirNext
<1>6. QED
  BY <1>1, <1>2, <1>4, <1>5 DEF IInv

\* The flow that a relay finds for a packet without a route goes on from the relay.
LEMMA FlowGoesOn ==
  ASSUME Flows, NEW p \in Pkt, p.route = <<>>, NEW i \in FlowOf(p)
  PROVE  /\ i \in 1 .. Len(table[p.to])
         /\ table[p.to][i].src = p.msg.src /\ table[p.to][i].dst = p.msg.dest
         /\ GoodEntry(table[p.to][i], p.to)
         /\ p.fid \in {table[p.to][i].id, NoFlow}
         /\ NextHop(table[p.to][i]) \in Node
         /\ HasLink(table[p.to][i].route, p.to, NextHop(table[p.to][i]))
         /\ Knows(table, p.msg.src, p.msg.dest, table[p.to][i].id, table[p.to][i].route)
<1>1. p.to \in Node
  BY DEF Pkt
<1>2. /\ i \in 1 .. Len(table[p.to])
      /\ table[p.to][i].src = p.msg.src /\ table[p.to][i].dst = p.msg.dest
      /\ GoodEntry(table[p.to][i], p.to) /\ Rooted(table, table[p.to][i])
      /\ p.fid \in {table[p.to][i].id, NoFlow}
  <2>1. CASE p.fid # NoFlow
    <3>1. i \in find(p.to, p.msg.src, p.msg.dest, p.fid)
      BY <2>1 DEF FlowOf
    <3>2. QED
      BY <1>1, <3>1, Found
  <2>2. CASE p.fid = NoFlow
    <3>1. i \in defaultFlow(p.to, p.msg.src, p.msg.dest)
      BY <2>2 DEF FlowOf
    <3>2. QED
      BY <1>1, <2>2, <3>1, FoundDefault
  <2>3. QED
    BY <2>1, <2>2
<1>3. /\ NextHop(table[p.to][i]) \in Node
      /\ HasLink(table[p.to][i].route, p.to, NextHop(table[p.to][i]))
  BY <1>1, <1>2, NextLink
<1>4. Knows(table, p.msg.src, p.msg.dest, table[p.to][i].id, table[p.to][i].route)
  BY <1>2 DEF Rooted
<1>5. QED
  BY <1>2, <1>3, <1>4

\* A relay takes a packet of a flow that it knows.
LEMMA ForwardByFlowInv ==
  ASSUME IInv, NEW p \in air, ForwardByFlow(p)
  PROVE  IInv'
<1>1. /\ GoodPacket(table, p) /\ p \in Pkt
      /\ p.msg \in Msg /\ p.from \in Node /\ p.to \in Node
      /\ p.msg.src \in Node /\ p.msg.dest \in Node
      /\ Flows /\ Air(table, air) /\ Cache(routes) /\ Todo(todo)
      /\ Rest(told, links, due, moves)
  BY OnAir
<1>2. PICK i \in FlowOf(p) :
        /\ air' = (air \ {p}) \cup PassedOn(p, NextHop(table[p.to][i]))
        /\ table' = IF p.msg.ttl = 0 THEN table
                    ELSE [table EXCEPT ![p.to][i].alive = TRUE]
  BY DEF ForwardByFlow
<1>3. p.route = <<>> /\ UNCHANGED <<dflt, counter, routes, told, todo, links, due, moves>>
  BY DEF ForwardByFlow, world
<1> DEFINE e == table[p.to][i]
           g == [e EXCEPT !.alive = TRUE]
           k == NextHop(e)
<1>4. /\ i \in 1 .. Len(table[p.to]) /\ GoodEntry(e, p.to)
      /\ p.fid \in {e.id, NoFlow} /\ k \in Node /\ HasLink(e.route, p.to, k)
      /\ Knows(table, p.msg.src, p.msg.dest, e.id, e.route)
      /\ e.src = p.msg.src /\ e.dst = p.msg.dest
  BY <1>1, <1>3, FlowGoesOn
<1>5. table' = IF p.msg.ttl = 0 THEN table ELSE [table EXCEPT ![p.to][i] = g]
  BY <1>2
<1>6. air' = (air \ {p}) \cup PassedOn(p, k)
  BY <1>2
<1>7. e \in Entry
  BY <1>4 DEF GoodEntry
<1> HIDE DEF e, k
<1>8. g \in Entry /\ Alike(e, g)
  BY <1>7 DEF Entry, Alike
<1> HIDE DEF g
<1>9. Flows' /\ Kept(table, table')
  <2>1. CASE p.msg.ttl = 0
    <3>1. UNCHANGED flows
      BY <1>3, <1>5, <2>1 DEF flows
    <3>2. QED
      BY <1>1, <3>1, SameFlows
  <2>2. CASE p.msg.ttl # 0
    <3>1. table' = [table EXCEPT ![p.to][i] = g]
      BY <1>5, <2>2
    <3>2. Touched(table, table')
      BY <1>1, <1>4, <1>8, <3>1, TouchOne DEF e
    <3>3. QED
      BY <1>1, <1>3, <3>2, TouchStep
  <2>3. QED
    BY <2>1, <2>2
<1>10. Air(table', air')
  <2>1. GoodPacket(table, p) /\ \A q \in PassedOn(p, k) : GoodPacket(table, q)
    <3>1. HasOne(table, p.to, p.msg.src, p.msg.dest)
      BY <1>4 DEF HasOne, e
    <3>2. QED
      BY <1>1, <1>3, <1>4, <3>1, PassedUnrouted
  <2>2. \A q \in PassedOn(p, k) : GoodPacket(table', q)
    BY <1>1, <1>9, <2>1, PacketStays DEF Flows, Tables
  <2>3. IsFiniteSet(PassedOn(p, k))
    BY <1>1, <1>4, PassedFields
  <2>4. air' \subseteq air \cup PassedOn(p, k)
    BY <1>6
  <2>5. QED
    BY <1>1, <1>9, <2>2, <2>3, <2>4, AirNext
<1>11. QED
  BY <1>1, <1>3, <1>9, <1>10 DEF IInv

-----------------------------------------------------------------------------
(* Unknown flows *)

\* Packets that are salvaged are right: they have a route and no flow.
LEMMA SalvagedGood ==
  ASSUME NEW T, NEW x \in Node, NEW P, \A r \in P : Good(r, x, r[Len(r)]),
         NEW f \in Routings(P), NEW M, IsFiniteSet(M),
         \A m \in M : m \in Msg /\ m.src # m.dest
  PROVE  /\ IsFiniteSet(Salvaged(x, f, M))
         /\ \A q \in Salvaged(x, f, M) : GoodPacket(T, q) /\ q.route # <<>>
<1> DEFINE K == {k \in M : k.salvaged < MaxSalvage /\ k.dest \in DOMAIN f}
           again(m) == [m EXCEPT !.salvaged = @ + 1]
           g == [m \in K |-> Packet(again(m), f[m.dest], 1, NoFlow, x, f[m.dest][2])]
<1>1. IsFiniteSet(K)
  BY FS_Subset
<1>2. g \in Surjection(K, Salvaged(x, f, M))
  BY DEF Surjection, Salvaged
<1>3. IsFiniteSet(Salvaged(x, f, M))
  BY <1>1, <1>2, FS_Surjection
<1>4. ASSUME NEW q \in Salvaged(x, f, M)
      PROVE  GoodPacket(T, q) /\ q.route # <<>>
  <2>1. PICK m \in K : q = Packet(again(m), f[m.dest], 1, NoFlow, x, f[m.dest][2])
    BY DEF Salvaged
  <2>2. m \in Msg /\ m.src # m.dest /\ m.salvaged < MaxSalvage /\ m.dest \in DOMAIN f
    OBVIOUS
  <2>3. f[m.dest] \in Shortest(P, m.dest)
    BY <2>2 DEF Routings
  <2>4. Good(f[m.dest], x, m.dest)
    BY <2>3, ShortestGood
  <2>5. again(m) \in Msg /\ again(m).src = m.src /\ again(m).dest = m.dest
    <3>1. m.salvaged \in 0 .. MaxSalvage
      BY <2>2 DEF Msg
    <3>2. m.salvaged + 1 \in 0 .. MaxSalvage
      BY <2>2, <3>1, FlowConstants
    <3>3. QED
      BY <2>2, <3>2 DEF Msg
  <2> HIDE DEF again
  <2>6. GoodPacket(T, Packet(again(m), f[m.dest], 1, NoFlow, x, f[m.dest][2]))
    BY <2>2, <2>4, <2>5, SentAlong
  <2>7. f[m.dest] # <<>> /\ q.route = f[m.dest]
    BY <2>1, <2>4 DEF Good, Packet
  <2>8. QED
    BY <2>1, <2>6, <2>7
<1>5. QED
  BY <1>3, <1>4

\* The error about a packet is a message of the node that does not know its flow.
LEMMA NestedGood ==
  ASSUME NEW p \in Pkt
  PROVE  Nested(p) \in Msg /\ Nested(p).src = p.to
<1> DEFINE m == p.msg
           i == IF p.fid = NoFlow THEN 0 ELSE p.fid
           e == [src |-> m.src, dst |-> m.dest, id |-> i]
           E == IF p.fid = NoFlow THEN m.errs ELSE Append(m.errs, e)
           D == IF p.fid = NoFlow THEN Append(m.derrs, e) ELSE m.derrs
<1>1. /\ m \in Msg /\ m.errs \in Seq(FlowError) /\ m.derrs \in Seq(FlowError)
      /\ p.to \in Node /\ m.src \in Node /\ m.dest \in Node
  BY DEF Pkt, Msg
<1>2. i \in Id
  <2>1. 0 \in Id /\ p.fid \in Id \cup {NoFlow}
    BY FlowConstants DEF Id, Pkt
  <2>2. QED
    BY <2>1
<1> HIDE DEF i
<1>3. e \in FlowError
  BY <1>1, <1>2 DEF FlowError
<1> HIDE DEF e
<1>4. E \in Seq(FlowError) /\ D \in Seq(FlowError)
  BY <1>1, <1>3
<1>5. Nested(p) = [m EXCEPT !.src = p.to, !.dest = m.src, !.ttl = ErrorTTL,
                            !.errs = E, !.derrs = D]
  BY DEF Nested, e, i
<1> HIDE DEF E, D, m
<1>6. QED
  BY <1>1, <1>4, <1>5, FlowConstants DEF Msg

\* A relay does not know the flow of a packet.
LEMMA UnknownFlowInv ==
  ASSUME IInv, NEW p \in air, sendUnknownFlow(p)
  PROVE  IInv'
<1>1. /\ GoodPacket(table, p) /\ p \in Pkt
      /\ p.msg \in Msg /\ p.to \in Node /\ p.msg.src # p.msg.dest
      /\ Flows /\ Air(table, air) /\ Cache(routes) /\ Rest(told, links, due, moves)
  BY OnAir
<1>2. UNCHANGED <<table, dflt, counter, routes, told, links, due, moves>>
  BY DEF sendUnknownFlow, flows, world
<1>3. Flows' /\ Kept(table, table')
  BY <1>1, <1>2, SameFlows DEF flows
<1>4. Air(table', air')
  <2>1. CASE air' = air \ {p}
    BY <1>1, <1>3, <2>1, AirLess
  <2>2. CASE \E r \in Routings(routes[p.to]) :
               air' = (air \ {p}) \cup Salvaged(p.to, r, {p.msg})
    <3>1. PICK r \in Routings(routes[p.to]) :
            air' = (air \ {p}) \cup Salvaged(p.to, r, {p.msg})
      BY <2>2
    <3>2. \A q \in routes[p.to] : Good(q, p.to, q[Len(q)])
      BY <1>1 DEF Cache
    <3>3. IsFiniteSet({p.msg}) /\ \A m \in {p.msg} : m \in Msg /\ m.src # m.dest
      BY <1>1, FS_Singleton
    <3>4. /\ IsFiniteSet(Salvaged(p.to, r, {p.msg}))
          /\ \A q \in Salvaged(p.to, r, {p.msg}) : GoodPacket(table', q)
      BY <1>1, <3>2, <3>3, SalvagedGood
    <3>5. air' \subseteq air \cup Salvaged(p.to, r, {p.msg})
      BY <3>1
    <3>6. QED
      BY <1>1, <1>3, <3>4, <3>5, AirNext
  <2>3. QED
    BY <2>1, <2>2 DEF sendUnknownFlow
<1>5. Todo(todo')
  <2>1. todo' = <<>> \/ todo' = <<[at |-> p.to, msg |-> Nested(p)]>>
    BY DEF sendUnknownFlow
  <2>2. Nested(p) \in Msg /\ Nested(p).src = p.to
    BY <1>1, NestedGood
  <2>3. CASE todo' = <<>>
    BY <2>3 DEF Todo
  <2>4. CASE todo' = <<[at |-> p.to, msg |-> Nested(p)]>>
    <3> DEFINE w == [at |-> p.to, msg |-> Nested(p)]
    <3>1. w \in [at : Node, msg : Msg] /\ w.msg.src = w.at
      BY <1>1, <2>2
    <3> HIDE DEF w
    <3>2. todo' = <<w>>
      BY <2>4 DEF w
    <3>3. QED
      BY <3>1, <3>2 DEF Todo
  <2>5. QED
    BY <2>1, <2>3, <2>4
<1>6. QED
  BY <1>1, <1>2, <1>3, <1>4, <1>5 DEF IInv

\* An error reaches the source of a flow, whose entries it only counts anew.
LEMMA ReceiptInv ==
  ASSUME Flows, NEW n \in Node, NEW m, handlePacketReceipt(n, m), UNCHANGED <<dflt, counter>>
  PROVE  Flows' /\ Kept(table, table')
<1>1. PICK d : table' = Doubted(n, ToldUnknown(n, m.errs) \cup d)
  BY DEF handlePacketReceipt
<1> DEFINE I == ToldUnknown(n, m.errs) \cup d
           t == [i \in DOMAIN table[n] |->
                   IF i \in I THEN [table[n][i] EXCEPT !.count = 0] ELSE table[n][i]]
<1>2. table' = [table EXCEPT ![n] = t]
  BY <1>1 DEF Doubted
<1> HIDE DEF I
<1>3. table \in [Node -> Seq(Entry)] /\ table[n] \in Seq(Entry) /\ Len(table[n]) \in Nat
  BY DEF Flows, Tables
<1>4. ASSUME NEW i \in 1 .. Len(table[n])
      PROVE  t[i] \in Entry /\ Alike(table[n][i], t[i])
  <2>1. i \in DOMAIN table[n] /\ table[n][i] \in Entry
    BY <1>3, ElementOfSeq
  <2>2. t[i] = IF i \in I THEN [table[n][i] EXCEPT !.count = 0] ELSE table[n][i]
    BY <2>1
  <2> HIDE DEF t
  <2> DEFINE e == table[n][i]
  <2>3. e \in Entry /\ t[i] = IF i \in I THEN [e EXCEPT !.count = 0] ELSE e
    BY <2>1, <2>2
  <2> HIDE DEF e
  <2>4. 0 \in 0 .. EndToEnd + 1
    BY FlowConstants
  <2>5. t[i] \in Entry /\ Alike(e, t[i])
    BY <2>3, <2>4 DEF Entry, Alike
  <2>6. QED
    BY <2>5 DEF e
<1>5. t \in Seq(Entry) /\ Len(t) = Len(table[n])
  <2>1. DOMAIN t = 1 .. Len(table[n])
    BY <1>3
  <2>2. t \in [1 .. Len(table[n]) -> Entry]
    BY <1>4, <2>1
  <2>3. QED
    BY <1>3, <2>2
<1> HIDE DEF t
<1>6. Touched(table, table')
  <2>1. \A i \in 1 .. Len(table[n]) : Alike(table[n][i], t[i])
    BY <1>4
  <2>2. table' \in [Node -> Seq(Entry)] /\ table'[n] = t /\ \A k \in Node : k # n => table'[k] = table[k]
    BY <1>2, <1>3, <1>5
  <2>3. ASSUME NEW k \in Node
        PROVE  /\ Len(table[k]) = Len(table'[k])
               /\ \A i \in 1 .. Len(table[k]) : Alike(table[k][i], table'[k][i])
    <3>1. CASE k = n
      BY <1>5, <2>1, <2>2, <3>1
    <3>2. CASE k # n
      BY <2>2, <3>2 DEF Alike
    <3>3. QED
      BY <3>1, <3>2
  <2>4. QED
    BY <2>2, <2>3 DEF Touched
<1>7. QED
  BY <1>6, TouchStep

\* One message to be sent, and none.
LEMMA TodoOne ==
  ASSUME NEW n \in Node, NEW m \in Msg, m.src = n
  PROVE  Todo(<<[at |-> n, msg |-> m]>>) /\ Todo(<<>>)
<1> DEFINE w == [at |-> n, msg |-> m]
<1>1. w \in [at : Node, msg : Msg] /\ w.msg.src = w.at
  OBVIOUS
<1> HIDE DEF w
<1>2. Todo(<<w>>)
  BY <1>1 DEF Todo
<1>3. Todo(<<>>)
  BY DEF Todo
<1>4. QED
  BY <1>2, <1>3 DEF w

\* Messages and then others.
LEMMA TodoMore ==
  ASSUME NEW s, NEW t, Todo(s), Todo(t)
  PROVE  Todo(s \o t)
<1>1. s \in Seq([at : Node, msg : Msg]) /\ t \in Seq([at : Node, msg : Msg])
  BY DEF Todo
<1>2. /\ s \o t \in Seq([at : Node, msg : Msg]) /\ Len(s \o t) = Len(s) + Len(t)
      /\ \A i \in 1 .. Len(s) + Len(t) :
           (s \o t)[i] = IF i <= Len(s) THEN s[i] ELSE t[i - Len(s)]
  BY <1>1, ConcatProperties
<1>3. ASSUME NEW i \in 1 .. Len(s \o t)
      PROVE  (s \o t)[i].msg.src = (s \o t)[i].at
  <2>1. Len(s) \in Nat /\ Len(t) \in Nat /\ i \in 1 .. Len(s) + Len(t)
    BY <1>1, <1>2
  <2>2. CASE i <= Len(s)
    BY <1>2, <2>1, <2>2 DEF Todo
  <2>3. CASE ~(i <= Len(s))
    <3>1. i - Len(s) \in 1 .. Len(t)
      BY <2>1, <2>3
    <3>2. QED
      BY <1>2, <2>1, <2>3, <3>1 DEF Todo
  <2>4. QED
    BY <2>2, <2>3
<1>4. QED
  BY <1>2, <1>3 DEF Todo

\* The errors under an error are messages of the node that is told.
LEMMA UnwrappedTodo ==
  ASSUME NEW n \in Node, NEW m \in Msg
  PROVE  Todo(Unwrapped(n, m))
<1>1. m.errs \in Seq(FlowError) /\ m.derrs \in Seq(FlowError)
  BY DEF Msg
<1>2. ASSUME NEW E \in Seq(FlowError), Len(E) > 1
      PROVE  /\ Inner(n, m, E) \in Msg /\ Inner(n, m, E).src = n
             /\ Inner(n, m, E).errs = m.errs /\ Inner(n, m, E).derrs = m.derrs
             /\ Front(E) \in Seq(FlowError)
  <2>1. E[Len(E) - 1] \in FlowError
    BY <1>2, ElementOfSeq
  <2>2. E[Len(E) - 1].src \in Node
    BY <2>1 DEF FlowError
  <2>3. Front(E) \in Seq(FlowError)
    BY <1>2 DEF Front
  <2>4. QED
    BY <2>2, <2>3, FlowConstants DEF Inner, Msg
<1> DEFINE e == [Inner(n, m, m.errs) EXCEPT !.errs = Front(@)]
           d == [Inner(n, m, m.derrs) EXCEPT !.derrs = Front(@)]
           C == Last(m.errs).src = n \/ dflt[n][<<Last(m.errs).src, Last(m.errs).dst>>] = NoFlow
           s == IF Len(m.errs) > 1 /\ C THEN <<[at |-> n, msg |-> e]>> ELSE <<>>
           t == IF Len(m.derrs) > 1 /\ Last(m.derrs).src = n
                THEN <<[at |-> n, msg |-> d]>> ELSE <<>>
<1>3. Unwrapped(n, m) = s \o t
  BY DEF Unwrapped
<1>4. ASSUME Len(m.errs) > 1
      PROVE  Todo(<<[at |-> n, msg |-> e]>>)
  <2> DEFINE k == Inner(n, m, m.errs)
  <2>1. /\ k \in Msg /\ k.src = n /\ k.errs = m.errs
        /\ Front(m.errs) \in Seq(FlowError)
    BY <1>1, <1>2, <1>4
  <2> HIDE DEF k
  <2>2. [k EXCEPT !.errs = Front(@)] \in Msg /\ [k EXCEPT !.errs = Front(@)].src = n
    BY <2>1 DEF Msg
  <2>3. e \in Msg /\ e.src = n
    BY <2>2 DEF k
  <2> HIDE DEF e
  <2>4. QED
    BY <2>3, TodoOne
<1>5. ASSUME Len(m.derrs) > 1
      PROVE  Todo(<<[at |-> n, msg |-> d]>>)
  <2> DEFINE k == Inner(n, m, m.derrs)
  <2>1. /\ k \in Msg /\ k.src = n /\ k.derrs = m.derrs
        /\ Front(m.derrs) \in Seq(FlowError)
    BY <1>1, <1>2, <1>5
  <2> HIDE DEF k
  <2>2. [k EXCEPT !.derrs = Front(@)] \in Msg /\ [k EXCEPT !.derrs = Front(@)].src = n
    BY <2>1 DEF Msg
  <2>3. d \in Msg /\ d.src = n
    BY <2>2 DEF k
  <2> HIDE DEF d
  <2>4. QED
    BY <2>3, TodoOne
<1> HIDE DEF e, d, C
<1>6. Todo(<<>>)
  BY DEF Todo
<1>7. Todo(s) /\ Todo(t)
  BY <1>4, <1>5, <1>6
<1> HIDE DEF s, t
<1>8. QED
  BY <1>3, <1>7, TodoMore

\* A packet reaches its destination.
LEMMA ReceiveInv ==
  ASSUME IInv, NEW p \in air, Receive(p)
  PROVE  IInv'
<1>1. /\ p.msg \in Msg /\ p.to \in Node
      /\ Flows /\ Air(table, air) /\ Cache(routes) /\ Rest(told, links, due, moves)
  BY OnAir
<1>2. /\ handlePacketReceipt(p.to, p.msg) /\ air' \subseteq air
      /\ todo' = Unwrapped(p.to, p.msg)
      /\ UNCHANGED <<dflt, counter, routes, told, links, due, moves>>
  BY DEF Receive, world
<1>3. Flows' /\ Kept(table, table')
  BY <1>1, <1>2, ReceiptInv
<1>4. Air(table', air')
  BY <1>1, <1>2, <1>3, AirLess
<1>5. Todo(todo')
  BY <1>1, <1>2, UnwrappedTodo
<1>6. QED
  BY <1>1, <1>2, <1>3, <1>4, <1>5 DEF IInv

\* A node tells itself.
LEMMA ReceiveOwnInv ==
  ASSUME IInv, ReceiveOwn
  PROVE  IInv'
<1>1. /\ n0 \in Node /\ m0 \in Msg /\ Todo(Tail(todo))
      /\ Flows /\ Air(table, air) /\ Cache(routes) /\ Rest(told, links, due, moves)
  BY HeadTodo DEF IInv, ReceiveOwn
<1>2. /\ handlePacketReceipt(n0, m0)
      /\ todo' = Unwrapped(n0, m0) \o Tail(todo)
      /\ UNCHANGED <<dflt, counter, routes, air, told, links, due, moves>>
  BY DEF ReceiveOwn, world
<1>3. Flows' /\ Kept(table, table')
  BY <1>1, <1>2, ReceiptInv
<1>4. Air(table', air')
  BY <1>1, <1>2, <1>3, AirLess
<1>5. Todo(todo')
  BY <1>1, <1>2, UnwrappedTodo, TodoMore
<1>6. QED
  BY <1>1, <1>2, <1>3, <1>4, <1>5 DEF IInv

-----------------------------------------------------------------------------
(* Failed transmissions *)

\* Where a packet was going, as its sender believes: somewhere, and for a packet
\* with a route or a flow id where it really was.
LEMMA BelievedGood ==
  ASSUME Flows, NEW p, GoodPacket(table, p), NEW b \in Believed(p)
  PROVE  /\ b.route[1] \in Node /\ NextHop(b) \in Node
         /\ p.route # <<>> \/ p.fid # NoFlow => NextHop(b) = p.to
<1>1. p \in Pkt /\ p.from \in Node /\ p.to \in Node /\ p.route \in Seq(Node)
      /\ p.msg.src \in Node
  BY DEF GoodPacket, Pkt, Msg
<1>2. CASE p.route # <<>>
  <2>1. Routed(table, p)
    BY <1>2 DEF GoodPacket
  <2>2. /\ p.hop \in 1 .. Len(p.route) - 1 /\ p.route[p.hop + 1] = p.to
    BY <2>1 DEF Routed
  <2>3. b.route = p.route /\ b.hop = p.hop - 1
    BY <1>2 DEF Believed
  <2>4. b.hop + 2 = p.hop + 1 /\ 1 \in 1 .. Len(p.route)
    BY <1>1, <2>2, <2>3
  <2>5. p.route[1] \in Node
    BY <1>1, <2>4, ElementOfSeq
  <2>6. QED
    BY <1>1, <2>2, <2>3, <2>4, <2>5 DEF NextHop
<1>3. CASE p.route = <<>>
  <2> DEFINE I == IF p.fid # NoFlow THEN find(p.from, p.msg.src, p.msg.dest, p.fid)
                  ELSE defaultFlow(p.from, p.msg.src, p.msg.dest)
  <2>1. PICK i \in I : b = [route |-> table[p.from][i].route, hop |-> table[p.from][i].hop]
    BY <1>3 DEF Believed
  <2> DEFINE e == table[p.from][i]
  <2>2. /\ GoodEntry(e, p.from) /\ Rooted(table, e)
        /\ e.src = p.msg.src /\ e.dst = p.msg.dest
        /\ p.fid # NoFlow => e.id = p.fid
    <3>1. CASE p.fid # NoFlow
      <4>1. i \in find(p.from, p.msg.src, p.msg.dest, p.fid)
        BY <3>1
      <4>2. QED
        BY <1>1, <4>1, Found
    <3>2. CASE p.fid = NoFlow
      <4>1. i \in defaultFlow(p.from, p.msg.src, p.msg.dest)
        BY <3>2
      <4>2. QED
        BY <1>1, <3>2, <4>1, FoundDefault
    <3>3. QED
      BY <3>1, <3>2
  <2>3. b.route = e.route /\ b.hop = e.hop
    BY <2>1
  <2> HIDE DEF e
  <2>4. NextHop(b) = NextHop(e)
    BY <2>3 DEF NextHop
  <2>5. /\ NextHop(e) \in Node
        /\ \A k : HasLink(e.route, p.from, k) => k = NextHop(e)
    BY <1>1, <2>2, NextLink
  <2>6. b.route[1] \in Node
    BY <1>1, <2>2, <2>3 DEF GoodEntry, Good
  <2>7. ASSUME p.fid # NoFlow
        PROVE  HasLink(e.route, p.from, p.to)
    <3>1. Unrouted(table, p)
      BY <1>3 DEF GoodPacket
    <3>2. PICK j \in 1 .. Len(table[p.msg.src]) :
            LET g == table[p.msg.src][j]
            IN /\ g.src = p.msg.src /\ g.dst = p.msg.dest
               /\ HasLink(g.route, p.from, p.to) /\ p.fid \in {g.id, NoFlow}
      BY <3>1 DEF Unrouted
    <3>3. Knows(table, p.msg.src, p.msg.dest, p.fid, e.route)
      BY <2>2, <2>7 DEF Rooted
    <3>4. PICK k \in 1 .. Len(table[p.msg.src]) :
            LET g == table[p.msg.src][k]
            IN /\ g.src = p.msg.src /\ g.dst = p.msg.dest /\ g.id = p.fid
               /\ g.route = e.route
      BY <3>3 DEF Knows
    <3>5. j = k
      BY <1>1, <2>7, <3>2, <3>4 DEF Flows, Unique
    <3>6. QED
      BY <3>2, <3>4, <3>5
  <2>8. QED
    BY <1>3, <2>4, <2>5, <2>6, <2>7
<1>4. QED
  BY <1>2, <1>3

\* A node notices a dead link: its flows over it time out.
LEMMA DeadLinkInv ==
  ASSUME Flows, Cache(routes), NEW n \in Node, NEW a, NEW b, noticeDeadLink(n, a, b)
  PROVE  Flows' /\ Kept(table, table') /\ Cache(routes')
<1> DEFINE t == Expired(n, a, b)
<1>1. /\ table' = [table EXCEPT ![n] = t]
      /\ routes' = [routes EXCEPT ![n] = WithoutLink(@, a, b)]
      /\ UNCHANGED <<dflt, counter>>
  BY DEF noticeDeadLink
<1>2. table \in [Node -> Seq(Entry)] /\ table[n] \in Seq(Entry) /\ Len(table[n]) \in Nat
  BY DEF Flows, Tables
<1>3. DOMAIN t = 1 .. Len(table[n])
  BY <1>2 DEF Expired
<1>4. ASSUME NEW i \in 1 .. Len(table[n])
      PROVE  t[i] \in Entry /\ Alike(table[n][i], t[i])
  <2> DEFINE e == table[n][i]
  <2>1. e \in Entry
    BY <1>2, ElementOfSeq
  <2>2. t[i] = e \/ t[i] = [e EXCEPT !.alive = FALSE]
    <3>1. i \in DOMAIN table[n]
      BY <1>2
    <3>2. t[i] = IF table[n][i].src = n /\ HasLink(table[n][i].route, a, b)
                 THEN [table[n][i] EXCEPT !.alive = FALSE] ELSE table[n][i]
      BY <3>1, Zenon DEF Expired
    <3> HIDE DEF t
    <3>3. QED
      BY <3>2, Zenon
  <2> HIDE DEF e, t
  <2>3. [e EXCEPT !.alive = FALSE] \in Entry /\ Alike(e, [e EXCEPT !.alive = FALSE])
    BY <2>1 DEF Entry, Alike
  <2>4. Alike(e, e)
    BY DEF Alike
  <2>5. t[i] \in Entry /\ Alike(e, t[i])
    BY <2>1, <2>2, <2>3, <2>4
  <2>6. QED
    BY <2>5 DEF e
<1>5. t \in Seq(Entry) /\ Len(t) = Len(table[n])
  <2> DEFINE u == [i \in 1 .. Len(table[n]) |->
                     IF table[n][i].src = n /\ HasLink(table[n][i].route, a, b)
                     THEN [table[n][i] EXCEPT !.alive = FALSE] ELSE table[n][i]]
  <2>1. t = u
    <3>1. DOMAIN table[n] = 1 .. Len(table[n])
      BY <1>2
    <3>2. QED
      BY <3>1, Zenon DEF Expired
  <2>2. \A i \in 1 .. Len(table[n]) : u[i] \in Entry
    BY <1>4, <2>1
  <2>3. u \in [1 .. Len(table[n]) -> Entry]
    BY <2>2
  <2> HIDE DEF t, u
  <2>4. QED
    BY <1>2, <2>1, <2>3
<1> HIDE DEF t
<1>6. Touched(table, table')
  <2>1. table' \in [Node -> Seq(Entry)] /\ table'[n] = t /\ \A k \in Node : k # n => table'[k] = table[k]
    BY <1>1, <1>2, <1>5
  <2>2. ASSUME NEW k \in Node
        PROVE  /\ Len(table[k]) = Len(table'[k])
               /\ \A i \in 1 .. Len(table[k]) : Alike(table[k][i], table'[k][i])
    <3>1. CASE k = n
      BY <1>4, <1>5, <2>1, <3>1
    <3>2. CASE k # n
      BY <2>1, <3>2 DEF Alike
    <3>3. QED
      BY <3>1, <3>2
  <2>3. QED
    BY <2>1, <2>2 DEF Touched
<1>7. Flows' /\ Kept(table, table')
  BY <1>1, <1>6, TouchStep
<1>8. Cache(routes')
  BY <1>1, CacheCut
<1>9. QED
  BY <1>7, <1>8

\* A packet is left to itself.
LEMMA FailExpiredInv ==
  ASSUME IInv, NEW p \in air, FailExpired(p) \/ Lose(p)
  PROVE  IInv'
<1>1. /\ Flows /\ Air(table, air) /\ Cache(routes) /\ Todo(todo)
      /\ Rest(told, links, due, moves)
  BY DEF IInv
<1>2. /\ air' \subseteq air
      /\ UNCHANGED <<table, dflt, counter, routes, told, todo, links, due, moves>>
  BY DEF FailExpired, Lose, flows, world
<1>3. Flows' /\ Kept(table, table')
  BY <1>1, <1>2, SameFlows DEF flows
<1>4. Air(table', air')
  BY <1>1, <1>2, <1>3, AirLess
<1>5. QED
  BY <1>1, <1>2, <1>3, <1>4 DEF IInv

\* The node's own messages are sent again, in some order.
LEMMA SentAgain ==
  ASSUME NEW x \in Node, NEW M, IsFiniteSet(M), \A m \in M : m \in Msg /\ m.src = x,
         NEW s \in SetToSeqs(M)
  PROVE  Todo([i \in DOMAIN s |-> [at |-> x, msg |-> s[i]]])
<1> DEFINE k == Cardinality(M)
           t == [i \in DOMAIN s |-> [at |-> x, msg |-> s[i]]]
<1>1. k \in Nat
  BY FS_CardinalityType
<1>2. s \in [1 .. k -> M]
  BY DEF SetToSeqs
<1> HIDE DEF k
<1>3. DOMAIN s = 1 .. k /\ \A i \in 1 .. k : s[i] \in Msg /\ s[i].src = x
  BY <1>2
<1>4. /\ DOMAIN t = 1 .. k
      /\ \A i \in 1 .. k : t[i] \in [at : Node, msg : Msg] /\ t[i].msg.src = t[i].at
  BY <1>3
<1>5. t = [i \in 1 .. k |-> t[i]]
  BY <1>4
<1> HIDE DEF t
<1>6. t \in [1 .. k -> [at : Node, msg : Msg]]
  BY <1>4, <1>5
<1>7. t \in Seq([at : Node, msg : Msg]) /\ Len(t) = k
  <2>1. \A S : \A j \in Nat : \A f \in [1 .. j -> S] : f \in Seq(S) /\ Len(f) = j
    OBVIOUS
  <2>2. QED
    BY <1>1, <1>6, <2>1
<1>8. QED
  BY <1>4, <1>7 DEF Todo, t

\* The messages of some packets.
LEMMA MessagesGood ==
  ASSUME IInv, NEW A, A \subseteq air
  PROVE  /\ IsFiniteSet({q.msg : q \in A})
         /\ \A m \in {q.msg : q \in A} : m \in Msg /\ m.src # m.dest
<1> DEFINE g == [q \in A |-> q.msg]
<1>1. IsFiniteSet(A)
  BY FS_Subset DEF IInv, Air
<1>2. g \in Surjection(A, {q.msg : q \in A})
  BY DEF Surjection
<1>3. \A q \in air : q.msg \in Msg /\ q.msg.src # q.msg.dest
  BY OnAir
<1>4. QED
  BY <1>1, <1>2, <1>3, FS_Surjection

\* The channel gives up a packet, and the queue the ones for the same next hop.
LEMMA XmitFailedInv ==
  ASSUME IInv, NEW p \in air, xmitFailed(p)
  PROVE  IInv'
<1>1. /\ GoodPacket(table, p) /\ p.from \in Node
      /\ Flows /\ Air(table, air) /\ Cache(routes) /\ Rest(told, links, due, moves)
  BY OnAir
<1> DEFINE x == p.from
           F(Q) == {q.msg : q \in {p} \cup Q}
           O(Q) == {m \in F(Q) : m.src = x}
<1>2. PICK b \in Believed(p) :
        /\ noticeDeadLink(x, x, NextHop(b))
        /\ told' = IF b.route[1] = x THEN told
                   ELSE told \cup {[to |-> b.route[1], a |-> x, b |-> NextHop(b)]}
        /\ \E Q \in SUBSET {q \in air : q.from = x /\ q.to = NextHop(b) /\ q # p} :
             /\ \E r \in Routings(routes'[x]) :
                  air' = (air \ ({p} \cup Q)) \cup Salvaged(x, r, F(Q) \ O(Q))
             /\ \E s \in SetToSeqs(O(Q)) :
                  todo' = [i \in DOMAIN s |-> [at |-> x, msg |-> s[i]]]
  BY DEF xmitFailed
<1>3. PICK Q \in SUBSET {q \in air : q.from = x /\ q.to = NextHop(b) /\ q # p} :
        /\ \E r \in Routings(routes'[x]) :
             air' = (air \ ({p} \cup Q)) \cup Salvaged(x, r, F(Q) \ O(Q))
        /\ \E s \in SetToSeqs(O(Q)) :
             todo' = [i \in DOMAIN s |-> [at |-> x, msg |-> s[i]]]
  BY <1>2
<1>4. PICK r \in Routings(routes'[x]) :
        air' = (air \ ({p} \cup Q)) \cup Salvaged(x, r, F(Q) \ O(Q))
  BY <1>3
<1>5. PICK s \in SetToSeqs(O(Q)) :
        todo' = [i \in DOMAIN s |-> [at |-> x, msg |-> s[i]]]
  BY <1>3
<1>6. UNCHANGED <<links, due, moves>>
  BY DEF xmitFailed, world
<1>7. Flows' /\ Kept(table, table') /\ Cache(routes')
  BY <1>1, <1>2, DeadLinkInv
<1>8. IsFiniteSet(F(Q)) /\ \A m \in F(Q) : m \in Msg /\ m.src # m.dest
  <2>1. {p} \cup Q \subseteq air
    OBVIOUS
  <2>2. QED
    BY <2>1, MessagesGood
<1> HIDE DEF F
<1>9. /\ IsFiniteSet(O(Q)) /\ IsFiniteSet(F(Q) \ O(Q))
      /\ \A m \in O(Q) : m \in Msg /\ m.src = x
      /\ \A m \in F(Q) \ O(Q) : m \in Msg /\ m.src # m.dest
  <2>1. O(Q) \subseteq F(Q) /\ F(Q) \ O(Q) \subseteq F(Q)
    OBVIOUS
  <2>2. IsFiniteSet(O(Q)) /\ IsFiniteSet(F(Q) \ O(Q))
    BY <1>8, <2>1, FS_Subset
  <2>3. QED
    BY <1>8, <2>2
<1> HIDE DEF O
<1>10. Air(table', air')
  <2> DEFINE S == Salvaged(x, r, F(Q) \ O(Q))
  <2>1. \A q \in routes'[x] : Good(q, x, q[Len(q)])
    BY <1>1, <1>7 DEF Cache
  <2>2. IsFiniteSet(S) /\ \A q \in S : GoodPacket(table', q)
    BY <1>1, <1>9, <2>1, SalvagedGood
  <2>3. air' \subseteq air \cup S
    BY <1>4
  <2> HIDE DEF S
  <2>4. QED
    BY <1>1, <1>7, <2>2, <2>3, AirNext
<1>11. Todo(todo')
  BY <1>1, <1>5, <1>9, SentAgain
<1>12. Rest(told', links', due', moves')
  <2>1. b.route[1] \in Node /\ NextHop(b) \in Node
    BY <1>1, BelievedGood
  <2>2. told' \subseteq [to : Node, a : Node, b : Node]
    BY <1>1, <1>2, <2>1 DEF Rest
  <2>3. QED
    BY <1>1, <1>6, <2>2 DEF Rest
<1>13. QED
  BY <1>7, <1>10, <1>11, <1>12 DEF IInv

\* A route error is heard.
LEMMA HearRouteErrorInv ==
  ASSUME IInv, NEW n \in Node, NEW e \in told, HearRouteError(n, e)
  PROVE  IInv'
<1>1. /\ Flows /\ Air(table, air) /\ Cache(routes) /\ Todo(todo)
      /\ Rest(told, links, due, moves)
  BY DEF IInv
<1>2. /\ noticeDeadLink(n, e.a, e.b) /\ told' \subseteq told
      /\ UNCHANGED <<air, todo, links, due, moves>>
  BY DEF HearRouteError, world
<1>3. Flows' /\ Kept(table, table') /\ Cache(routes')
  BY <1>1, <1>2, DeadLinkInv
<1>4. Air(table', air')
  BY <1>1, <1>2, <1>3, AirLess
<1>5. Rest(told', links', due', moves')
  BY <1>1, <1>2 DEF Rest
<1>6. QED
  BY <1>1, <1>2, <1>3, <1>4, <1>5 DEF IInv

-----------------------------------------------------------------------------
(* The clock, the channel and route discovery *)

\* An advertisement grows old, or a flow times out.
LEMMA ClockInv ==
  ASSUME IInv, NEW n \in Node, NEW i \in DOMAIN table[n], Age(n, i) \/ Expire(n, i)
  PROVE  IInv'
<1> DEFINE e == table[n][i]
<1>1. /\ Flows /\ Air(table, air) /\ Cache(routes) /\ Todo(todo)
      /\ Rest(told, links, due, moves)
  BY DEF IInv
<1>2. table[n] \in Seq(Entry)
  BY <1>1 DEF Flows, Tables
<1>3. i \in 1 .. Len(table[n]) /\ e \in Entry
  BY <1>2, ElementOfSeq
<1>4. /\ \/ table' = [table EXCEPT ![n][i] = [e EXCEPT !.adv = FALSE]]
         \/ table' = [table EXCEPT ![n][i] = [e EXCEPT !.alive = FALSE]]
      /\ UNCHANGED <<dflt, counter, routes, air, told, todo, links, due, moves>>
  BY DEF Age, Expire, world
<1>5. Touched(table, table')
  <2>1. ASSUME NEW g \in Entry, Alike(e, g), table' = [table EXCEPT ![n][i] = g]
        PROVE  Touched(table, table')
    BY <1>1, <1>3, <2>1, TouchOne
  <2> HIDE DEF e
  <2>2. /\ [e EXCEPT !.adv = FALSE] \in Entry /\ Alike(e, [e EXCEPT !.adv = FALSE])
        /\ [e EXCEPT !.alive = FALSE] \in Entry /\ Alike(e, [e EXCEPT !.alive = FALSE])
    BY <1>3 DEF Entry, Alike
  <2>3. CASE table' = [table EXCEPT ![n][i] = [e EXCEPT !.adv = FALSE]]
    BY <2>1, <2>2, <2>3
  <2>4. CASE table' = [table EXCEPT ![n][i] = [e EXCEPT !.alive = FALSE]]
    BY <2>1, <2>2, <2>4
  <2>5. QED
    BY <1>4, <2>3, <2>4
<1>6. Flows' /\ Kept(table, table')
  BY <1>1, <1>4, <1>5, TouchStep
<1>7. Air(table', air')
  BY <1>1, <1>4, <1>6, AirLess
<1>8. QED
  BY <1>1, <1>4, <1>6, <1>7 DEF IInv

\* A path that route discovery may find is a route.
LEMMA DiscoveredGood ==
  ASSUME NEW r \in Discovered
  PROVE  r[1] \in Node /\ r \in Seq(Node) /\ Good(r, r[1], r[Len(r)])
<1>1. /\ r \in Seq(Node) /\ Len(r) > 1 /\ \A i, j \in DOMAIN r : i # j => r[i] # r[j]
  BY FlowAssumption DEF FlowAssumption
<1>2. DOMAIN r = 1 .. Len(r) /\ Len(r) \in Nat /\ 1 \in 1 .. Len(r)
  BY <1>1
<1>3. QED
  BY <1>1, <1>2 DEF Good

\* A path is put into a cache.
LEMMA DiscoverInv ==
  ASSUME IInv, NEW r \in Discovered, Discover(r)
  PROVE  IInv'
<1>1. /\ Flows /\ Air(table, air) /\ Cache(routes) /\ Todo(todo)
      /\ Rest(told, links, due, moves)
  BY DEF IInv
<1>2. /\ routes' = [routes EXCEPT ![r[1]] = @ \cup {r}]
      /\ UNCHANGED <<table, dflt, counter, air, told, todo, links, due, moves>>
  BY DEF Discover, flows, world
<1>3. Flows' /\ Kept(table, table')
  BY <1>1, <1>2, SameFlows DEF flows
<1>4. Air(table', air')
  BY <1>1, <1>2, <1>3, AirLess
<1>5. Cache(routes')
  <2>1. r[1] \in Node /\ r \in Seq(Node) /\ Good(r, r[1], r[Len(r)])
    BY DiscoveredGood
  <2>2. /\ routes \in [Node -> SUBSET Seq(Node)]
        /\ \A n \in Node : \A q \in routes[n] : Good(q, n, q[Len(q)])
    BY <1>1 DEF Cache
  <2> HIDE DEF Good
  <2>3. routes' \in [Node -> SUBSET Seq(Node)]
    BY <1>2, <2>1, <2>2
  <2>4. \A n \in Node : \A q \in routes'[n] : q \in routes[n] \/ (n = r[1] /\ q = r)
    BY <1>2, <2>1, <2>2
  <2>5. QED
    BY <2>1, <2>2, <2>3, <2>4 DEF Cache
<1>6. QED
  BY <1>1, <1>2, <1>3, <1>4, <1>5 DEF IInv

\* A link comes or goes.
LEMMA MoveInv ==
  ASSUME IInv, NEW l \in Mobile, Move(l)
  PROVE  IInv'
<1>1. /\ Flows /\ Air(table, air) /\ Cache(routes) /\ Todo(todo)
      /\ Rest(told, links, due, moves)
  BY DEF IInv
<1>2. /\ moves < MaxMoves /\ moves' = moves + 1 /\ links' \subseteq links \cup {l}
      /\ UNCHANGED <<table, dflt, counter, routes, air, told, todo, due>>
  BY DEF Move, flows
<1>3. Flows' /\ Kept(table, table')
  BY <1>1, <1>2, SameFlows DEF flows
<1>4. Air(table', air')
  BY <1>1, <1>2, <1>3, AirLess
<1>5. Rest(told', links', due', moves')
  BY <1>1, <1>2, FlowConstants DEF Rest
<1>6. QED
  BY <1>1, <1>2, <1>3, <1>4, <1>5 DEF IInv

-----------------------------------------------------------------------------
(* The invariant *)

\* It holds at first.
LEMMA InitInv ==
  ASSUME Init
  PROVE  IInv
<1>1. Flows
  <2>1. \A n \in Node : table[n] = <<>> /\ Len(table[n]) = 0
    BY DEF Init
  <2>2. Tables(table) /\ Unique(table)
    <3>1. table \in [Node -> Seq(Entry)]
      BY DEF Init
    <3>2. QED
      BY <2>1, <3>1, FlowConstants DEF Tables, Unique
  <2>3. Counters(table, counter)
    <3>1. counter \in [Node -> Nat] /\ \A n \in Node : counter[n] = 0
      BY DEF Init
    <3>2. QED
      BY <2>1, <3>1 DEF Counters
  <2>4. Defaults(table, dflt)
    <3>1. /\ dflt \in [Node -> [Node \X Node -> Id \cup {NoFlow}]]
          /\ \A n \in Node, s \in Node, d \in Node : dflt[n][<<s, d>>] = NoFlow
      BY DEF Init
    <3>2. \A n \in Node : 1 .. Len(table[n]) = {}
      BY <2>1
    <3>3. QED
      BY <3>1, <3>2, Zenon DEF Defaults
  <2>5. QED
    BY <2>2, <2>3, <2>4 DEF Flows
<1>2. Air(table, air)
  BY FS_EmptySet DEF Init, Air
<1>3. Cache(routes)
  <2>1. \A r \in Discovered : r \in Seq(Node) /\ Good(r, r[1], r[Len(r)])
    BY DiscoveredGood
  <2>2. routes = [n \in Node |-> {r \in Discovered : r[1] = n}]
    BY DEF Init
  <2> HIDE DEF Good
  <2>3. QED
    BY <2>1, <2>2 DEF Cache
<1>4. Todo(todo)
  BY DEF Init, Todo
<1>5. Rest(told, links, due, moves)
  <2>1. /\ due \in Seq(Node \X Node \X Nat) /\ \A i \in DOMAIN due : due[i][1] # due[i][2]
    BY FlowAssumption DEF Init, FlowAssumption
  <2>2. \A i \in 1 .. Len(due) : due[i][1] # due[i][2]
    BY <2>1
  <2>3. told = {} /\ links = Start /\ moves = 0
    BY DEF Init
  <2>4. QED
    BY <2>1, <2>2, <2>3, FlowConstants DEF Rest
<1>6. QED
  BY <1>1, <1>2, <1>3, <1>4, <1>5 DEF IInv

\* Nothing changes.
LEMMA StutterInv ==
  ASSUME IInv, UNCHANGED vars
  PROVE  IInv'
BY DEF IInv, Flows, vars

\* Every step preserves it.
LEMMA NextInv ==
  ASSUME IInv, [Next]_vars
  PROVE  IInv'
<1>1. ASSUME Originate
      PROVE  IInv'
  BY <1>1, OriginateInv
<1>2. ASSUME Sending
      PROVE  IInv'
  BY <1>2, NewFlowInv, AdvertiseInv, UseFlowInv, NoRouteInv, ReceiveOwnInv DEF Sending
<1>3. ASSUME NEW p \in air, OnTheAir(p)
      PROVE  IInv'
  BY <1>3, ForwardByRouteInv, ForwardByFlowInv, UnknownFlowInv, ReceiveInv, FailExpiredInv,
     XmitFailedInv DEF OnTheAir
<1>4. ASSUME NEW n \in Node, NEW e \in told, HearRouteError(n, e)
      PROVE  IInv'
  BY <1>4, HearRouteErrorInv
<1>5. ASSUME NEW n \in Node, NEW i \in DOMAIN table[n], Age(n, i) \/ Expire(n, i)
      PROVE  IInv'
  BY <1>5, ClockInv
<1>6. ASSUME NEW r \in Discovered, Discover(r)
      PROVE  IInv'
  BY <1>6, DiscoverInv
<1>7. ASSUME NEW l \in Mobile, Move(l)
      PROVE  IInv'
  BY <1>7, MoveInv
<1>8. ASSUME UNCHANGED vars
      PROVE  IInv'
  BY <1>8, StutterInv
<1>9. QED
  BY <1>1, <1>2, <1>3, <1>4, <1>5, <1>6, <1>7, <1>8, Zenon DEF Next

\* The tables, the air, the caches, and the messages to be sent are right: every
\* entry has the route of its source's entry of the flow, ids grow and are never
\* used twice, and every packet is where a route or a flow of its source takes it.
THEOREM Invariant == Spec => []IInv
BY InitInv, NextInv, PTL DEF Spec

-----------------------------------------------------------------------------
(* What follows from it *)

\* Types, from the invariant.
LEMMA Types ==
  ASSUME IInv
  PROVE  TypeOK
<1>1. /\ Tables(table) /\ Counters(table, counter) /\ Defaults(table, dflt)
      /\ Air(table, air) /\ Cache(routes) /\ Todo(todo) /\ Rest(told, links, due, moves)
  BY DEF IInv, Flows
<1>2. \A m \in Msg : IsMessage(m)
  BY DEF Msg, IsMessage
<1>3. \A n \in Node : table[n] \in Seq(Entry) /\ Len(table[n]) <= TableSize
  BY <1>1 DEF Tables
<1>4. counter \in [Node -> Id]
  <2>1. counter \in [Node -> Nat]
    BY <1>1 DEF Counters
  <2>2. ASSUME NEW n \in Node
        PROVE  counter[n] \in Id
    <3>1. counter[n] \in Nat /\ counter[n] <= 2 * Len(table[n])
      BY <1>1, <2>1 DEF Counters
    <3>2. Len(table[n]) \in Nat /\ Len(table[n]) <= TableSize /\ TableSize \in Nat
      BY <1>3, FlowConstants
    <3>3. counter[n] \in 0 .. 2 * TableSize
      BY <3>1, <3>2
    <3>4. QED
      BY <3>3, SmallIds
  <2>3. QED
    BY <2>1, <2>2
<1>5. ASSUME NEW p \in air
      PROVE  /\ IsMessage(p.msg) /\ p.route \in Seq(Node) /\ p.hop \in Nat
             /\ p.fid \in Id \cup {NoFlow} /\ p.from \in Node /\ p.to \in Node
  <2>1. p \in Pkt
    BY <1>1 DEF Air, GoodPacket
  <2>2. QED
    BY <1>2, <2>1 DEF Pkt
<1>6. \A i \in DOMAIN todo : todo[i].at \in Node /\ IsMessage(todo[i].msg)
  <2>1. todo \in Seq([at : Node, msg : Msg])
    BY <1>1 DEF Todo
  <2>2. \A i \in DOMAIN todo : todo[i] \in [at : Node, msg : Msg]
    BY <2>1, LenProperties, ElementOfSeq
  <2>3. QED
    BY <1>2, <2>2
<1>7. /\ dflt \in [Node -> [Node \X Node -> Id \cup {NoFlow}]]
      /\ routes \in [Node -> SUBSET Seq(Node)]
      /\ links \subseteq Start \cup Mobile /\ told \subseteq [to : Node, a : Node, b : Node]
      /\ due \in Seq(Node \X Node \X Nat) /\ moves \in 0 .. MaxMoves
  BY <1>1 DEF Defaults, Cache, Rest
<1>8. QED
  BY <1>3, <1>4, <1>5, <1>6, <1>7 DEF TypeOK

\* Every variable keeps its type; no flow table outgrows its size, and no flow id
\* its field.
THEOREM TypeCorrect == Spec => []TypeOK
BY Invariant, Types, PTL

\* Flows and routes, from the invariant.
LEMMA Follows ==
  ASSUME IInv
  PROVE  FlowFollowsRoute
<1>1. Flows /\ Tables(table) /\ Unique(table) /\ Air(table, air)
  BY DEF IInv, Flows
<1>2. ASSUME NEW n \in Node, NEW i \in DOMAIN table[n]
      PROVE  LET e == table[n][i]
                 I == find(e.src, e.src, e.dst, e.id)
             IN /\ e.route[e.hop + 1] = n
                /\ Cardinality(find(n, e.src, e.dst, e.id)) = 1
                /\ \E j \in I : table[e.src][j].route = e.route
  <2> DEFINE e == table[n][i]
  <2>1. table[n] \in Seq(Entry) /\ DOMAIN table[n] = 1 .. Len(table[n])
    BY <1>1 DEF Tables
  <2>2. GoodEntry(e, n) /\ Rooted(table, e)
    BY <1>1, <2>1 DEF Tables
  <2>3. e.route[e.hop + 1] = n /\ e.src \in Node
    BY <2>2 DEF GoodEntry, Entry
  <2>4. find(n, e.src, e.dst, e.id) = {i}
    <3>1. \A j \in 1 .. Len(table[n]) :
            table[n][j].src = e.src /\ table[n][j].dst = e.dst /\ table[n][j].id = e.id
            => j = i
      BY <1>1, <2>1 DEF Unique
    <3>2. QED
      BY <2>1, <3>1 DEF find
  <2>5. PICK j \in 1 .. Len(table[e.src]) :
          LET g == table[e.src][j]
          IN g.src = e.src /\ g.dst = e.dst /\ g.id = e.id /\ g.route = e.route
    BY <2>2 DEF Rooted, Knows
  <2>6. j \in find(e.src, e.src, e.dst, e.id)
    <3>1. DOMAIN table[e.src] = 1 .. Len(table[e.src])
      BY <1>1, <2>3 DEF Tables
    <3>2. QED
      BY <2>5, <3>1 DEF find
  <2>7. Cardinality({i}) = 1
    BY FS_Singleton
  <2>8. QED
    BY <2>3, <2>4, <2>5, <2>6, <2>7
<1>3. ASSUME NEW p \in air, p.fid # NoFlow \/ p.route = <<>>
      PROVE  \E j \in DOMAIN table[p.msg.src] :
               LET e == table[p.msg.src][j]
               IN /\ e.dst = p.msg.dest /\ HasLink(e.route, p.from, p.to)
                  /\ p.fid \in {e.id, NoFlow}
  <2>1. GoodPacket(table, p) /\ p.msg.src \in Node
    BY <1>1 DEF Air, GoodPacket, Pkt, Msg
  <2>2. DOMAIN table[p.msg.src] = 1 .. Len(table[p.msg.src])
    BY <1>1, <2>1 DEF Tables
  <2>3. CASE p.route = <<>>
    BY <2>1, <2>2, <2>3 DEF GoodPacket, Unrouted
  <2>4. CASE p.route # <<>>
    <3>1. Routed(table, p)
      BY <2>1, <2>4 DEF GoodPacket
    <3>2. HasLink(p.route, p.from, p.to)
      BY <3>1 DEF Routed, HasLink
    <3>3. Knows(table, p.msg.src, p.msg.dest, p.fid, p.route)
      BY <1>3, <2>4, <3>1 DEF Routed
    <3>4. QED
      BY <2>2, <3>2, <3>3 DEF Knows
  <2>5. QED
    BY <2>3, <2>4
<1>4. ASSUME NEW p \in air, p.fid = NoFlow, p.route = <<>>
      PROVE  defaultFlow(p.from, p.msg.src, p.msg.dest) # {}
  <2> DEFINE n == p.from
             s == p.msg.src
             d == p.msg.dest
             t == table[n]
             x == dflt[n][<<s, d>>]
  <2>1. n \in Node /\ s \in Node /\ d \in Node /\ GoodPacket(table, p)
    BY <1>1 DEF Air, GoodPacket, Pkt, Msg
  <2>2. DOMAIN t = 1 .. Len(t)
    BY <1>1, <2>1 DEF Tables
  <2>3. \E i \in 1 .. Len(t) : t[i].src = s /\ t[i].dst = d
    BY <1>4, <2>1 DEF GoodPacket, Unrouted, HasOne
  <2>4. Defaults(table, dflt)
    BY <1>1 DEF Flows
  <2>5. x # NoFlow /\ HasFlow(t, s, d, x)
    BY <2>1, <2>3, <2>4, DefaultFlow
  <2>6. PICK i \in 1 .. Len(t) : t[i].src = s /\ t[i].dst = d /\ t[i].id = x
    BY <2>5 DEF HasFlow
  <2>7. i \in find(n, s, d, x)
    BY <2>2, <2>6 DEF find
  <2>8. QED
    BY <2>5, <2>7 DEF defaultFlow
<1>5. QED
  BY <1>2, <1>3, <1>4 DEF FlowFollowsRoute

\* A flow id means one route wherever it has an entry, and every packet with the id
\* is on a link of that route.
THEOREM IdMeansRoute == Spec => []FlowFollowsRoute
BY Invariant, Follows, PTL

\* The default flow, from the invariant.
LEMMA Newest ==
  ASSUME IInv
  PROVE  DefaultIsNewest
<1>1. Tables(table) /\ Counters(table, counter) /\ Defaults(table, dflt)
  BY DEF IInv, Flows
<1>2. SUFFICES ASSUME NEW n \in Node, NEW s \in Node, NEW d \in Node
               PROVE  LET F == {table[n][i].id : i \in {j \in DOMAIN table[n] :
                                  table[n][j].src = s /\ table[n][j].dst = d}}
                      IN IF F = {} THEN dflt[n][<<s, d>>] = NoFlow
                         ELSE /\ dflt[n][<<s, d>>] \in F
                              /\ \A f \in F :
                                   f = dflt[n][<<s, d>>] \/ Newer(dflt[n][<<s, d>>], f)
  BY Zenon DEF DefaultIsNewest
<1> DEFINE F == {table[n][i].id : i \in {j \in DOMAIN table[n] :
                   table[n][j].src = s /\ table[n][j].dst = d}}
           x == dflt[n][<<s, d>>]
<1>3. DOMAIN table[n] = 1 .. Len(table[n])
  BY <1>1 DEF Tables
<1>4. x # NoFlow => HasFlow(table[n], s, d, x)
  BY <1>1, DefaultFlow
<1>5. \A i \in 1 .. Len(table[n]) :
        table[n][i].src = s /\ table[n][i].dst = d => x # NoFlow /\ table[n][i].id <= x
  BY <1>1, DefaultFlow
<1>6. ASSUME NEW i \in 1 .. Len(table[n])
      PROVE  table[n][i].id \in 0 .. 2 * TableSize - 1
  <2>1. GoodEntry(table[n][i], n)
    BY <1>1 DEF Tables
  <2>2. table[n][i].id \in Nat /\ table[n][i].src \in Node
    BY <2>1, FlowConstants DEF GoodEntry, Entry
  <2> DEFINE k == table[n][i].id
             a == table[n][i].src
  <2>3. k < counter[a] /\ counter[a] \in Nat /\ counter[a] <= 2 * Len(table[a])
    BY <1>1, <2>2 DEF Counters
  <2>4. Len(table[a]) \in Nat /\ Len(table[a]) <= TableSize /\ TableSize \in Nat
    BY <1>1, <2>2, FlowConstants DEF Tables
  <2>5. k \in Nat
    BY <2>2
  <2> HIDE DEF k, a
  <2>6. k \in 0 .. 2 * TableSize - 1
    BY <2>3, <2>4, <2>5
  <2>7. QED
    BY <2>6 DEF k
<1> HIDE DEF x
<1>7. x # NoFlow => x \in F /\ x \in 0 .. 2 * TableSize - 1
  <2>1. SUFFICES ASSUME x # NoFlow
                 PROVE  x \in F /\ x \in 0 .. 2 * TableSize - 1
    OBVIOUS
  <2>2. PICK i \in 1 .. Len(table[n]) :
          table[n][i].src = s /\ table[n][i].dst = d /\ table[n][i].id = x
    BY <1>4, <2>1 DEF HasFlow
  <2>3. QED
    BY <1>3, <1>6, <2>2
<1>8. ASSUME NEW f \in F
      PROVE  x # NoFlow /\ (f = x \/ Newer(x, f))
  <2>1. PICK i \in 1 .. Len(table[n]) :
          table[n][i].src = s /\ table[n][i].dst = d /\ f = table[n][i].id
    BY <1>3
  <2>2. x # NoFlow /\ f <= x
    BY <1>5, <2>1
  <2>3. f \in 0 .. 2 * TableSize - 1
    BY <1>6, <2>1
  <2>4. x \in 0 .. 2 * TableSize - 1
    BY <1>7, <2>2
  <2> HIDE DEF F
  <2>5. /\ x \in 0 .. 2 * TableSize /\ x < 2 * TableSize
        /\ f \in 0 .. x /\ (f = x \/ x > f)
    BY <2>2, <2>3, <2>4, FlowConstants
  <2>6. x > f <=> Newer(x, f)
    BY <2>5, SmallIds
  <2>7. QED
    BY <2>2, <2>5, <2>6
<1> HIDE DEF F
<1>9. IF F = {} THEN x = NoFlow ELSE x \in F /\ \A f \in F : f = x \/ Newer(x, f)
  BY <1>7, <1>8
<1>10. QED
  BY <1>9 DEF F, x

\* The default flow of two nodes is the newest that a node knows, in whatever order
\* it came to know them.
THEOREM NewestIsDefault == Spec => []DefaultIsNewest
BY Invariant, Newest, PTL

\* The flows of its own that a node has given up stay so.
Buried(T, U) ==
  \A n \in Node : \A i \in 1 .. Len(T[n]) : T[n][i].src = n /\ ~T[n][i].alive => ~U[n][i].alive

\* One entry changes, which is another node's flow, or is not taken up.
LEMMA OneStaysBuried ==
  ASSUME Flows, NEW n \in Node, NEW i \in 1 .. Len(table[n]), NEW e,
         table' = [table EXCEPT ![n][i] = e],
         table[n][i].src # n \/ table[n][i].alive \/ ~e.alive
  PROVE  Buried(table, table')
<1>1. table \in [Node -> Seq(Entry)] /\ table[n] \in Seq(Entry)
  BY DEF Flows, Tables
<1>2. DOMAIN table[n] = 1 .. Len(table[n])
  BY <1>1, LenProperties
<1>3. table' = [table EXCEPT ![n] = [table[n] EXCEPT ![i] = e]]
  OBVIOUS
<1>4. \A k \in Node : table'[k] = IF k = n THEN [table[n] EXCEPT ![i] = e] ELSE table[k]
  BY <1>1, <1>3
<1>5. \A j \in 1 .. Len(table[n]) : table'[n][j] = IF j = i THEN e ELSE table[n][j]
  BY <1>2, <1>4
<1>6. ASSUME NEW k \in Node, NEW j \in 1 .. Len(table[k]), table[k][j].src = k,
             ~table[k][j].alive
      PROVE  ~table'[k][j].alive
  <2>1. CASE k = n
    BY <1>5, <1>6, <2>1
  <2>2. CASE k # n
    BY <1>4, <1>6, <2>2
  <2>3. QED
    BY <2>1, <2>2
<1>7. QED
  BY <1>6 DEF Buried

\* A table changes, of which no entry is taken up.
LEMMA AllStayBuried ==
  ASSUME Flows, NEW n \in Node, NEW t, table' = [table EXCEPT ![n] = t],
         \A i \in 1 .. Len(table[n]) : ~table[n][i].alive => ~t[i].alive
  PROVE  Buried(table, table')
<1>1. table \in [Node -> Seq(Entry)]
  BY DEF Flows, Tables
<1>2. \A k \in Node : table'[k] = IF k = n THEN t ELSE table[k]
  BY <1>1
<1>3. QED
  BY <1>2 DEF Buried

\* Making an entry leaves the others alone.
LEMMA CreatedBuried ==
  ASSUME Flows, NEW n \in Node, NEW e, createEntry(n, e)
  PROVE  Buried(table, table')
<1>1. table[n] \in Seq(Entry) /\ Len(table[n]) \in Nat
  BY DEF Flows, Tables
<1>2. table' = [table EXCEPT ![n] = Append(table[n], e)]
  BY DEF createEntry
<1>3. \A i \in 1 .. Len(table[n]) : Append(table[n], e)[i] = table[n][i]
  BY <1>1
<1>4. QED
  BY <1>2, <1>3, AllStayBuried

\* Neither counting a flow anew nor noticing a dead link takes one up.
LEMMA DoubtedBuried ==
  ASSUME Flows, NEW n \in Node, NEW m, handlePacketReceipt(n, m)
  PROVE  Buried(table, table')
<1>1. PICK d : table' = Doubted(n, ToldUnknown(n, m.errs) \cup d)
  BY DEF handlePacketReceipt
<1> DEFINE I == ToldUnknown(n, m.errs) \cup d
           t == [i \in DOMAIN table[n] |->
                   IF i \in I THEN [table[n][i] EXCEPT !.count = 0] ELSE table[n][i]]
<1>2. table' = [table EXCEPT ![n] = t]
  BY <1>1 DEF Doubted
<1> HIDE DEF I
<1>3. table[n] \in Seq(Entry) /\ DOMAIN table[n] = 1 .. Len(table[n])
  BY DEF Flows, Tables
<1>4. ASSUME NEW i \in 1 .. Len(table[n]), ~table[n][i].alive
      PROVE  ~t[i].alive
  <2> DEFINE e == table[n][i]
  <2>1. e \in Entry
    BY <1>3, ElementOfSeq
  <2>2. t[i] = IF i \in I THEN [e EXCEPT !.count = 0] ELSE e
    BY <1>3
  <2>3. ~e.alive
    BY <1>4
  <2> HIDE DEF e, t
  <2>4. [e EXCEPT !.count = 0].alive = e.alive
    BY <2>1 DEF Entry
  <2>5. QED
    BY <2>2, <2>3, <2>4
<1> HIDE DEF t
<1>5. QED
  BY <1>2, <1>4, AllStayBuried

\* So with a dead link.
LEMMA DeadLinkBuried ==
  ASSUME Flows, NEW n \in Node, NEW a, NEW b, noticeDeadLink(n, a, b)
  PROVE  Buried(table, table')
<1> DEFINE t == Expired(n, a, b)
<1>1. table' = [table EXCEPT ![n] = t]
  BY DEF noticeDeadLink
<1>2. table[n] \in Seq(Entry) /\ DOMAIN table[n] = 1 .. Len(table[n])
  BY DEF Flows, Tables
<1>3. ASSUME NEW i \in 1 .. Len(table[n]), ~table[n][i].alive
      PROVE  ~t[i].alive
  <2> DEFINE e == table[n][i]
  <2>1. e \in Entry /\ ~e.alive
    BY <1>2, <1>3, ElementOfSeq
  <2>2. t[i] = IF e.src = n /\ HasLink(e.route, a, b)
               THEN [e EXCEPT !.alive = FALSE] ELSE e
    BY <1>2, Zenon DEF Expired
  <2> HIDE DEF e, t
  <2>3. [e EXCEPT !.alive = FALSE].alive = FALSE
    BY <2>1 DEF Entry
  <2>4. QED
    BY <2>1, <2>2, <2>3
<1> HIDE DEF t
<1>4. QED
  BY <1>1, <1>3, AllStayBuried

\* A packet without a route never comes back to its source, so no flow that a relay
\* finds for it is the relay's own.
LEMMA NotOwnFlow ==
  ASSUME Flows, NEW p, GoodPacket(table, p), p.route = <<>>, NEW i \in FlowOf(p)
  PROVE  table[p.to][i].src # p.to
<1>1. p \in Pkt /\ p.to \in Node /\ p.msg.src \in Node
  BY DEF GoodPacket, Pkt, Msg
<1>2. Unrouted(table, p)
  BY DEF GoodPacket
<1>3. PICK j \in 1 .. Len(table[p.msg.src]) :
        LET e == table[p.msg.src][j]
        IN e.src = p.msg.src /\ HasLink(e.route, p.from, p.to)
  BY <1>2 DEF Unrouted
<1>4. GoodEntry(table[p.msg.src][j], p.msg.src)
  BY <1>1 DEF Flows, Tables
<1>5. p.to # p.msg.src
  <2> DEFINE e == table[p.msg.src][j]
  <2>1. GoodEntry(e, p.msg.src) /\ e.src = p.msg.src /\ HasLink(e.route, p.from, p.to)
    BY <1>3, <1>4
  <2> HIDE DEF e
  <2>2. \A a, b : HasLink(e.route, a, b) => b # e.src
    BY <1>1, <2>1, NextLink
  <2>3. QED
    BY <2>1, <2>2
<1>6. table[p.to][i].src = p.msg.src
  BY <1>1, FlowGoesOn
<1>7. QED
  BY <1>5, <1>6

\* No step takes up a flow that its source has given up.
LEMMA StayBuried ==
  ASSUME IInv, [Next]_vars
  PROVE  Buried(table, table')
<1>1. Flows
  BY DEF IInv
<1>2. ASSUME table' = table
      PROVE  Buried(table, table')
  BY <1>2 DEF Buried
<1>3. ASSUME NEW n \in Node, NEW i, table[n][i].src # n \/ table[n][i].alive,
             i \in 1 .. Len(table[n]),
             NEW e, table' = [table EXCEPT ![n][i] = e]
      PROVE  Buried(table, table')
  BY <1>1, <1>3, OneStaysBuried
<1>4. CASE NewFlow
  <2>1. n0 \in Node
    BY <1>4, HeadTodo DEF IInv, NewFlow
  <2>2. \E e : createEntry(n0, e)
    BY <1>4, Zenon DEF NewFlow
  <2>3. QED
    BY <1>1, <2>1, <2>2, CreatedBuried
<1>5. CASE Advertise
  <2>1. n0 \in Node
    BY <1>5, HeadTodo DEF IInv, Advertise
  <2>2. PICK r \in Shortest(routes[n0], m0.dest) :
          \E i \in Usable(n0, m0.dest, r) : \E e : table' = [table EXCEPT ![n0][i] = e]
    BY <1>5, Zenon DEF Advertise
  <2>3. PICK i \in Usable(n0, m0.dest, r) : \E e : table' = [table EXCEPT ![n0][i] = e]
    BY <2>2
  <2>4. i \in 1 .. Len(table[n0]) /\ table[n0][i].alive
    BY <1>1, <2>1, UsableGood
  <2>5. QED
    BY <1>3, <2>1, <2>3, <2>4
<1>6. CASE UseFlow
  <2>1. n0 \in Node
    BY <1>6, HeadTodo DEF IInv, UseFlow
  <2>2. PICK r \in Shortest(routes[n0], m0.dest) :
          \E i \in Usable(n0, m0.dest, r) : table' = [table EXCEPT ![n0][i].alive = TRUE]
    BY <1>6, Zenon DEF UseFlow
  <2>3. PICK i \in Usable(n0, m0.dest, r) : table' = [table EXCEPT ![n0][i].alive = TRUE]
    BY <2>2
  <2>4. i \in 1 .. Len(table[n0]) /\ table[n0][i].alive
    BY <1>1, <2>1, UsableGood
  <2>5. table' = [table EXCEPT ![n0][i] = [table[n0][i] EXCEPT !.alive = TRUE]]
    BY <2>3
  <2>6. QED
    BY <1>3, <2>1, <2>4, <2>5
<1>7. CASE ReceiveOwn
  <2>1. n0 \in Node /\ handlePacketReceipt(n0, m0)
    BY <1>7, HeadTodo DEF IInv, ReceiveOwn
  <2>2. QED
    BY <1>1, <2>1, DoubtedBuried
<1>8. ASSUME NEW p \in air, ForwardByRoute(p)
      PROVE  Buried(table, table')
  <2>1. p.to \in Node
    BY OnAir
  <2>2. (\E e : createEntry(p.to, e)) \/ table' = table
    BY <1>8, Zenon DEF ForwardByRoute
  <2>3. QED
    BY <1>1, <1>2, <2>1, <2>2, CreatedBuried
<1>9. ASSUME NEW p \in air, ForwardByFlow(p)
      PROVE  Buried(table, table')
  <2>1. p.to \in Node /\ GoodPacket(table, p) /\ p \in Pkt
    BY OnAir
  <2>2. PICK i \in FlowOf(p) :
          table' = IF p.msg.ttl = 0 THEN table ELSE [table EXCEPT ![p.to][i].alive = TRUE]
    BY <1>9 DEF ForwardByFlow
  <2>3. p.route = <<>>
    BY <1>9 DEF ForwardByFlow
  <2>4. table[p.to][i].src # p.to /\ i \in 1 .. Len(table[p.to])
    BY <1>1, <2>1, <2>3, NotOwnFlow, FlowGoesOn
  <2>5. CASE p.msg.ttl = 0
    BY <1>2, <2>2, <2>5
  <2>6. CASE p.msg.ttl # 0
    <3>1. table' = [table EXCEPT ![p.to][i] = [table[p.to][i] EXCEPT !.alive = TRUE]]
      BY <2>2, <2>6
    <3>2. QED
      BY <1>3, <2>1, <2>4, <3>1
  <2>7. QED
    BY <2>5, <2>6
<1>10. ASSUME NEW p \in air, Receive(p)
       PROVE  Buried(table, table')
  BY <1>1, <1>10, OnAir, DoubtedBuried DEF Receive
<1>11. ASSUME NEW p \in air, xmitFailed(p)
       PROVE  Buried(table, table')
  <2>1. p.from \in Node
    BY OnAir
  <2>2. \E b : noticeDeadLink(p.from, p.from, b)
    BY <1>11, Zenon DEF xmitFailed
  <2>3. QED
    BY <1>1, <2>1, <2>2, DeadLinkBuried
<1>12. ASSUME NEW n \in Node, NEW e \in told, HearRouteError(n, e)
       PROVE  Buried(table, table')
  BY <1>1, <1>12, DeadLinkBuried DEF HearRouteError
<1>13. ASSUME NEW n \in Node, NEW i \in DOMAIN table[n], Age(n, i) \/ Expire(n, i)
       PROVE  Buried(table, table')
  <2>1. table[n] \in Seq(Entry)
    BY <1>1 DEF Flows, Tables
  <2> DEFINE e == table[n][i]
  <2>2. i \in 1 .. Len(table[n]) /\ e \in Entry
    BY <2>1, ElementOfSeq
  <2>3. CASE Age(n, i)
    <3>1. table' = [table EXCEPT ![n][i] = [e EXCEPT !.adv = FALSE]]
      BY <2>3 DEF Age
    <3>2. [e EXCEPT !.adv = FALSE].alive = e.alive
      BY <2>2 DEF Entry
    <3>3. table[n][i].alive \/ ~[e EXCEPT !.adv = FALSE].alive
      BY <3>2
    <3>4. QED
      BY <1>1, <2>2, <3>1, <3>3, OneStaysBuried
  <2>4. CASE Expire(n, i)
    <3>1. table[n][i].alive
      BY <2>4 DEF Expire
    <3>2. table' = [table EXCEPT ![n][i] = [e EXCEPT !.alive = FALSE]]
      BY <2>4 DEF Expire
    <3>3. QED
      BY <1>3, <2>2, <3>1, <3>2
  <2>5. QED
    BY <1>13, <2>3, <2>4
<1>14. CASE Originate \/ NoRoute \/ (\E r \in Discovered : Discover(r))
            \/ (\E l \in Mobile : Move(l)) \/ UNCHANGED vars
  BY <1>2, <1>14 DEF Originate, NoRoute, Discover, Move, flows, vars
<1>15. ASSUME NEW p \in air, sendUnknownFlow(p) \/ FailExpired(p) \/ Lose(p)
       PROVE  Buried(table, table')
  BY <1>2, <1>15 DEF sendUnknownFlow, FailExpired, Lose, flows
<1>16. ASSUME NEW p \in air, OnTheAir(p)
       PROVE  Buried(table, table')
  BY <1>8, <1>9, <1>10, <1>11, <1>15, <1>16 DEF OnTheAir
<1>17. CASE Sending
  BY <1>4, <1>5, <1>6, <1>7, <1>14, <1>17 DEF Sending
<1>18. QED
  BY <1>12, <1>13, <1>14, <1>16, <1>17, Zenon DEF Next

\* A flow of its own that a node has given up, because it timed out or lost a link,
\* is not taken up again.
THEOREM GivenUpForGood == Spec => NotRevived
<1>1. ASSUME IInv, [Next]_vars
      PROVE  \A n \in Node : \A i \in DOMAIN table[n] :
               table[n][i].src = n /\ ~table[n][i].alive => ~table'[n][i].alive
  <2>1. Buried(table, table')
    BY <1>1, StayBuried
  <2>2. \A n \in Node : DOMAIN table[n] = 1 .. Len(table[n])
    BY <1>1 DEF IInv, Flows, Tables
  <2>3. QED
    BY <2>1, <2>2 DEF Buried
<1>2. QED
  BY <1>1, Invariant, PTL DEF Spec, NotRevived

\* A step that blames a link was taken over it, or over a packet without a header.
LEMMA Blamed ==
  ASSUME IInv, [Next]_vars, NEW e \in told' \ told
  PROVE  \/ {e.a, e.b} \notin links
         \/ \E p \in air \ air' : p.from = e.a /\ p.route = <<>> /\ p.fid = NoFlow
<1>1. \E p \in air : xmitFailed(p)
  <2>1. CASE told' \subseteq told
    BY <2>1
  <2>2. CASE Originate \/ Sending \/ (\E r \in Discovered : Discover(r))
             \/ (\E l \in Mobile : Move(l)) \/ UNCHANGED vars
    <3>1. Originate => told' = told
      BY DEF Originate
    <3>2. NewFlow \/ Advertise \/ UseFlow => told' = told
      BY DEF NewFlow, Advertise, UseFlow
    <3>3. NoRoute \/ ReceiveOwn => told' = told
      BY DEF NoRoute, ReceiveOwn
    <3>4. (\E r \in Discovered : Discover(r)) => told' = told
      BY DEF Discover
    <3>5. (\E l \in Mobile : Move(l)) => told' = told
      BY DEF Move
    <3>6. UNCHANGED vars => told' = told
      BY DEF vars
    <3>7. told' = told
      BY <2>2, <3>1, <3>2, <3>3, <3>4, <3>5, <3>6, Zenon DEF Sending
    <3>8. QED
      BY <3>7
  <2>3. ASSUME NEW n \in Node, NEW i \in DOMAIN table[n], Age(n, i) \/ Expire(n, i)
        PROVE  told' \subseteq told
    BY <2>3 DEF Age, Expire
  <2>4. ASSUME NEW n \in Node, NEW d \in told, HearRouteError(n, d)
        PROVE  told' \subseteq told
    BY <2>4 DEF HearRouteError
  <2>5. ASSUME NEW p \in air, OnTheAir(p), ~xmitFailed(p)
        PROVE  told' \subseteq told
    BY <2>5 DEF OnTheAir, ForwardByRoute, ForwardByFlow, sendUnknownFlow, Receive, FailExpired,
       Lose
  <2>6. QED
    BY <2>1, <2>2, <2>3, <2>4, <2>5, Zenon DEF Next
<1>2. PICK p \in air : xmitFailed(p)
  BY <1>1
<1>3. GoodPacket(table, p) /\ Flows /\ p.from \in Node
  BY OnAir
<1> DEFINE x == p.from
           F(Q) == {q.msg : q \in {p} \cup Q}
           O(Q) == {m \in F(Q) : m.src = x}
<1>4. PICK b \in Believed(p) :
        /\ noticeDeadLink(x, x, NextHop(b))
        /\ told' = IF b.route[1] = x THEN told
                   ELSE told \cup {[to |-> b.route[1], a |-> x, b |-> NextHop(b)]}
        /\ \E Q \in SUBSET {q \in air : q.from = x /\ q.to = NextHop(b) /\ q # p} :
             \E r \in Routings(routes'[x]) :
               air' = (air \ ({p} \cup Q)) \cup Salvaged(x, r, F(Q) \ O(Q))
  BY <1>2 DEF xmitFailed
<1>5. e = [to |-> b.route[1], a |-> p.from, b |-> NextHop(b)]
  BY <1>4
<1>6. e.a = p.from /\ e.b = NextHop(b)
  BY <1>5
<1>7. CASE p.route # <<>> \/ p.fid # NoFlow
  <2>1. NextHop(b) = p.to
    BY <1>3, <1>7, BelievedGood
  <2>2. {p.from, p.to} \notin links
    BY <1>2 DEF xmitFailed, Fails
  <2>3. QED
    BY <1>6, <2>1, <2>2
<1>8. CASE p.route = <<>> /\ p.fid = NoFlow
  <2>1. PICK Q \in SUBSET {q \in air : q.from = x /\ q.to = NextHop(b) /\ q # p} :
          \E r \in Routings(routes'[x]) :
            air' = (air \ ({p} \cup Q)) \cup Salvaged(x, r, F(Q) \ O(Q))
    BY <1>4
  <2>2. PICK r \in Routings(routes'[x]) :
          air' = (air \ ({p} \cup Q)) \cup Salvaged(x, r, F(Q) \ O(Q))
    BY <2>1
  <2>3. /\ IsFiniteSet(F(Q) \ O(Q))
        /\ \A m \in F(Q) \ O(Q) : m \in Msg /\ m.src # m.dest
    <3>1. {p} \cup Q \subseteq air
      OBVIOUS
    <3>2. IsFiniteSet(F(Q)) /\ \A m \in F(Q) : m \in Msg /\ m.src # m.dest
      BY <3>1, MessagesGood
    <3> HIDE DEF F
    <3>3. F(Q) \ O(Q) \subseteq F(Q)
      OBVIOUS
    <3>4. QED
      BY <3>2, <3>3, FS_Subset
  <2> DEFINE M == F(Q) \ O(Q)
  <2> HIDE DEF M
  <2>4. \A q \in routes'[x] : Good(q, x, q[Len(q)])
    BY <1>3, <1>4, DeadLinkInv DEF IInv, Cache
  <2>5. \A q \in Salvaged(x, r, M) : q.route # <<>>
    BY <1>3, <2>3, <2>4, SalvagedGood DEF M
  <2>6. p \notin Salvaged(x, r, M)
    BY <1>8, <2>5
  <2>7. p \in air \ air'
    BY <2>2, <2>6 DEF M
  <2>8. QED
    BY <1>6, <1>8, <2>7
<1>9. QED
  BY <1>7, <1>8

\* A route error names a link that was down, but for a packet without a header,
\* which is put down to the default flow of then.
THEOREM ErrorsAreJust == Spec => BlameJust
<1>1. ASSUME IInv, [Next]_vars
      PROVE  \A e \in told' \ told :
               \/ {e.a, e.b} \notin links
               \/ \E p \in air \ air' : p.from = e.a /\ p.route = <<>> /\ p.fid = NoFlow
  BY <1>1, Blamed
<1>2. QED
  BY <1>1, Invariant, PTL DEF Spec, BlameJust

=============================================================================
