----------------------------- MODULE FlowState ------------------------------
(***************************************************************************)
(* Flow state: flowstruct.cc and the parts of dsragent.cc that              *)
(* dsragent_enable_flowstate switches on (it is off in the build, and this  *)
(* module is what turning it on would run).  A source gives a route a flow  *)
(* id and sends its first packets along the route with the id, so that each *)
(* relay makes an entry of it; later packets carry the id alone, or nothing *)
(* when the flow is the newest of its source and destination (the default). *)
(* A relay that does not know the flow tells the source.                    *)
(*                                                                         *)
(* Time shows in two facts about an entry: whether it was advertised in the *)
(* last min_adv_interval, and whether its timeout lies ahead.  Left out:    *)
(* the ARS table, whose hits are never used (p.route.index() is 0 in a      *)
(* packet without a route, line 1001); what becomes of packets that find no *)
(* route and wait in the send buffer (module SendBuffer).  A relay salvages *)
(* what it cannot send on: flow state aborts with                           *)
(* dsragent_salvage_with_cache off, at the assert of undeliverablePkt.      *)
(***************************************************************************)
EXTENDS Paths, Integers, FiniteSets, SequencesExt

CONSTANTS
  Node,
  Start,      \* the links that are up at first, sets of two nodes
  Mobile,     \* the links that come and go
  Discovered, \* the paths that route discovery may put into caches
  Traffic,    \* what applications may send: source, destination, ttl of each packet
  ErrorTTL,   \* the ttl of an error (255)
  FlowIds,    \* flow ids are numbers modulo this (2^16)
  TableSize,  \* FLOW_TABLE_SIZE (3000)
  EndToEnd,   \* END_TO_END_COUNT (2)
  MaxErrors,  \* MAX_ROUTE_ERRORS (3)
  MaxSalvage, \* dsr_salvage_max_attempts (15)
  MaxMoves,   \* bound: changes of links
  NoFlow      \* no flow header

ASSUME FlowAssumption ==
  /\ \A l \in Start \cup Mobile : \E a, b \in Node : a # b /\ l = {a, b}
  /\ \A r \in Discovered :
       /\ r \in Seq(Node) /\ Len(r) > 1
       /\ \A i, j \in DOMAIN r : i # j => r[i] # r[j]
  /\ \A q \in Traffic :
       q \in Seq(Node \X Node \X Nat) /\ \A i \in DOMAIN q : q[i][1] # q[i][2]
  /\ ErrorTTL \in Nat
  /\ TableSize \in Nat \ {0}
  /\ FlowIds \in Nat /\ FlowIds % 2 = 0 /\ FlowIds >= 4 * TableSize
  /\ EndToEnd \in Nat /\ MaxErrors \in Nat \ {0}
  /\ MaxSalvage \in Nat /\ MaxMoves \in Nat
  /\ NoFlow \notin Nat

VARIABLES
  table,    \* per node: its FlowTable, in the order of creation
  dflt,     \* per node: its DRTab, the default flow of a source and destination
  counter,  \* per node: the next flow id to give out
  routes,   \* per node: the paths in its route cache
  links,    \* the links that are up
  air,      \* packets between two nodes
  told,     \* route errors on their way to the node they tell
  todo,     \* packets that the running handler has yet to send
  due,      \* what applications have yet to send
  moves     \* changes of links so far

vars == <<table, dflt, counter, routes, links, air, told, todo, due, moves>>
flows == <<table, dflt, counter>>
world == <<links, due, moves>>

-----------------------------------------------------------------------------
(* Packets and entries *)

Id == 0 .. FlowIds - 1

\* An unknown-flow error.
FlowError == [src : Node, dst : Node, id : Id]

\* A packet apart from its flow state: data, or a packet that collects errors
\* about unknown flows (errs) and unknown default flows (derrs).
IsMessage(m) ==
  /\ DOMAIN m = {"src", "dest", "errs", "derrs", "ttl", "salvaged"}
  /\ m.salvaged \in 0 .. MaxSalvage
  /\ m.src \in Node /\ m.dest \in Node
  /\ m.errs \in Seq(FlowError) /\ m.derrs \in Seq(FlowError)
  /\ m.ttl \in Nat

Data(s, d, t) ==
  [src |-> s, dest |-> d, errs |-> <<>>, derrs |-> <<>>, ttl |-> t, salvaged |-> 0]

\* Message m between two nodes: with the source route and the place of the
\* receiver on it, or with no route and hop 0; with flow id f, or NoFlow.
Packet(m, r, h, f, a, b) ==
  [msg |-> m, route |-> r, hop |-> h, fid |-> f, from |-> a, to |-> b]

\* TableEntry.  What is left of count: how far it is below EndToEnd.
NewEntry(s, d, f, r, h, t, own) ==
  [src |-> s, dst |-> d, id |-> f, route |-> r, hop |-> h, ttl |-> t,
   count |-> IF own THEN 1 ELSE 0, adv |-> own, allow |-> own, alive |-> TRUE]

Entry ==
  [src : Node, dst : Node, id : Id, route : Seq(Node), hop : Nat, ttl : Nat,
   count : 0 .. EndToEnd + 1, adv : BOOLEAN, allow : BOOLEAN, alive : BOOLEAN]

TypeOK ==
  /\ \A n \in Node : table[n] \in Seq(Entry) /\ Len(table[n]) <= TableSize
  /\ dflt \in [Node -> [Node \X Node -> Id \cup {NoFlow}]]
  /\ counter \in [Node -> Id]
  /\ routes \in [Node -> SUBSET Seq(Node)]
  /\ links \subseteq Start \cup Mobile
  /\ \A p \in air :
       /\ IsMessage(p.msg) /\ p.route \in Seq(Node) /\ p.hop \in Nat
       /\ p.fid \in Id \cup {NoFlow} /\ p.from \in Node /\ p.to \in Node
  /\ told \subseteq [to : Node, a : Node, b : Node]
  /\ \A i \in DOMAIN todo : todo[i].at \in Node /\ IsMessage(todo[i].msg)
  /\ due \in Seq(Node \X Node \X Nat)
  /\ moves \in 0 .. MaxMoves

Init ==
  /\ table = [n \in Node |-> <<>>]
  /\ dflt = [n \in Node |-> [f \in Node \X Node |-> NoFlow]]
  /\ counter = [n \in Node |-> 0]
  /\ routes = [n \in Node |-> {r \in Discovered : r[1] = n}]
  /\ links = Start
  /\ air = {}
  /\ told = {}
  /\ todo = <<>>
  /\ due \in Traffic
  /\ moves = 0

-----------------------------------------------------------------------------
(* The tables *)

\* FlowTable::find, by flow id and by route: the entry made last.
find(n, s, d, f) ==
  {i \in DOMAIN table[n] :
     table[n][i].src = s /\ table[n][i].dst = d /\ table[n][i].id = f}

findRoute(n, s, d, r) ==
  LET I == {i \in DOMAIN table[n] :
              table[n][i].src = s /\ table[n][i].dst = d /\ table[n][i].route = r}
  IN {i \in I : \A j \in I : j <= i}

defaultFlow(n, s, d) ==
  IF dflt[n][<<s, d>>] = NoFlow THEN {} ELSE find(n, s, d, dflt[n][<<s, d>>])

\* Mutant: the parity is corrected downwards.
OddBelow(c) == IF c % 2 = 1 THEN c ELSE (c - 1) % FlowIds

\* generateNextFlowId: default flows have odd ids.
Odd(c) == IF c % 2 = 1 THEN c ELSE (c + 1) % FlowIds

\* (short)(f - g) > 0
Newer(f, g) == (f - g) % FlowIds \in 1 .. (FlowIds \div 2) - 1

\* Mutant: the entry that came last is the default.
InsertLatest(n, e) == [dflt EXCEPT ![n][<<e.src, e.dst>>] = e.id]

\* DRTable::insert
Insert(n, e) ==
  IF dflt[n][<<e.src, e.dst>>] = NoFlow \/ Newer(e.id, dflt[n][<<e.src, e.dst>>])
  THEN [dflt EXCEPT ![n][<<e.src, e.dst>>] = e.id] ELSE dflt

\* Mutant: a full table takes one more.
CreateInFullTable(n, e) ==
  /\ Len(table[n]) <= TableSize
  /\ table' = [table EXCEPT ![n] = Append(@, e)]
  /\ dflt' = IF e.id % 2 = 1 THEN Insert(n, e) ELSE dflt

\* A full table asserts in grow() and ends the simulation.
createEntry(n, e) ==
  /\ Len(table[n]) < TableSize
  /\ table' = [table EXCEPT ![n] = Append(@, e)]
  /\ dflt' = IF e.id % 2 = 1 THEN Insert(n, e) ELSE dflt

\* Node n's own flows over the link from a to b time out at once.
Expired(n, a, b) ==
  [i \in DOMAIN table[n] |->
     IF table[n][i].src = n /\ HasLink(table[n][i].route, a, b)
     THEN [table[n][i] EXCEPT !.alive = FALSE] ELSE table[n][i]]

\* route_cache and flow_table notice a dead link.
noticeDeadLink(n, a, b) ==
  /\ table' = [table EXCEPT ![n] = Expired(n, a, b)]
  /\ routes' = [routes EXCEPT ![n] = WithoutLink(@, a, b)]
  /\ UNCHANGED <<dflt, counter>>

Idle == todo = <<>>

NextHop(e) == e.route[e.hop + 2]

-----------------------------------------------------------------------------
(* Sending: sendOutPacketWithRoute at the source of a packet *)

\* A packet of an application, whose source has a route for it.
Originate ==
  /\ Idle
  /\ due # <<>>
  /\ LET next == Head(due)
     IN /\ Shortest(routes[next[1]], next[2]) # {}
        /\ todo' = <<[at |-> next[1], msg |-> Data(next[1], next[2], next[3])]>>
  /\ due' = Tail(due)
  /\ UNCHANGED <<flows, routes, air, told, links, moves>>

n0 == todo[1].at
m0 == todo[1].msg

\* The cache offers route r; the default flow's is taken if it is alive and no
\* longer.
Preferred(n, d, r) ==
  LET I == {i \in defaultFlow(n, n, d) :
              table[n][i].alive /\ Len(table[n][i].route) <= Len(r)}
  IN IF I = {} THEN r ELSE table[n][CHOOSE i \in I : TRUE].route

\* Mutant: the timeout is not looked at.
UsableTimedOut(n, d, r) == findRoute(n, n, d, Preferred(n, d, r))

\* The flow of node n with that route, unless it has timed out.
Usable(n, d, r) ==
  {i \in findRoute(n, n, d, Preferred(n, d, r)) : table[n][i].alive}

\* A new flow, whose first packet establishes it.
NewFlow ==
  /\ ~Idle
  /\ \E r \in Shortest(routes[n0], m0.dest) :
       LET q == Preferred(n0, m0.dest, r)
           f == Odd(counter[n0])
       IN /\ Usable(n0, m0.dest, r) = {}
          /\ createEntry(n0, NewEntry(n0, m0.dest, f, q, 0, m0.ttl, TRUE))
          /\ counter' = [counter EXCEPT ![n0] = (f + 1) % FlowIds]
          /\ air' = air \cup {Packet(m0, q, 1, f, n0, q[2])}
  /\ todo' = Tail(todo)
  /\ UNCHANGED <<routes, told, world>>

\* Someone on the route may not have the flow yet: another packet with the
\* route.  Using a flow puts its timeout off.
Unsure(e) == e.count <= EndToEnd \/ ~e.adv

Advertise ==
  /\ ~Idle
  /\ \E r \in Shortest(routes[n0], m0.dest) :
       \E i \in Usable(n0, m0.dest, r) :
         LET e == table[n0][i]
         IN /\ Unsure(e)
            /\ table' = [table EXCEPT ![n0][i] =
                 [e EXCEPT !.allow = @ /\ e.ttl = m0.ttl,
                           !.count = IF @ <= EndToEnd THEN @ + 1 ELSE @,
                           !.adv = TRUE, !.alive = TRUE]]
            /\ air' = air \cup {Packet(m0, e.route, 1, e.id, n0, NextHop(e))}
  /\ todo' = Tail(todo)
  /\ UNCHANGED <<dflt, counter, routes, told, world>>

\* The flow is established end to end: no route, and no header either when it
\* is the default one.
UseFlow ==
  /\ ~Idle
  /\ \E r \in Shortest(routes[n0], m0.dest) :
       \E i \in Usable(n0, m0.dest, r) :
         LET e == table[n0][i]
             bare == i \in defaultFlow(n0, n0, m0.dest) /\ m0.ttl = e.ttl /\ e.allow
         IN /\ ~Unsure(e)
            /\ air' = air \cup
                 {Packet(m0, <<>>, 0, IF bare THEN NoFlow ELSE e.id, n0, NextHop(e))}
            /\ table' = [table EXCEPT ![n0][i].alive = TRUE]
  /\ todo' = Tail(todo)
  /\ UNCHANGED <<dflt, counter, routes, told, world>>

\* Without a route the packet waits, and times out, in the send buffer.
NoRoute ==
  /\ ~Idle
  /\ m0.dest # n0
  /\ Shortest(routes[n0], m0.dest) = {}
  /\ todo' = Tail(todo)
  /\ UNCHANGED <<flows, routes, air, told, world>>

-----------------------------------------------------------------------------
(* Forwarding: handleForwarding *)

\* Packet p reaches a relay, or its destination.
Comes(p) == Idle /\ p \in air /\ {p.from, p.to} \in links

AtRelay(p) == Comes(p) /\ p.to # p.msg.dest

\* What relay n passes on to node k, unless the ttl has run out.
PassedOn(p, k) ==
  IF p.msg.ttl = 0 THEN {}
  ELSE {[p EXCEPT !.from = p.to, !.to = k, !.msg.ttl = @ - 1,
                  !.hop = IF p.route = <<>> THEN 0 ELSE @ + 1]}

\* A packet with a route: the relay makes an entry of its flow, if the packet has
\* one that the relay does not know.  What OCEAN drops after that (module Ocean)
\* is lost later.
ForwardByRoute(p) ==
  /\ AtRelay(p)
  /\ p.route # <<>>
  /\ IF p.fid # NoFlow /\ find(p.to, p.msg.src, p.msg.dest, p.fid) = {}
     THEN createEntry(p.to, NewEntry(p.msg.src, p.msg.dest, p.fid, p.route, p.hop,
                                     p.msg.ttl, FALSE))
     ELSE UNCHANGED <<table, dflt>>
  /\ air' = (air \ {p}) \cup PassedOn(p, p.route[p.hop + 2])
  /\ UNCHANGED <<counter, routes, told, todo, world>>

\* The entry that says where a packet without a route goes: its flow's, or the
\* default flow's if the ttl is what that flow's first packet had.
FlowOf(p) ==
  IF p.fid # NoFlow THEN find(p.to, p.msg.src, p.msg.dest, p.fid)
  ELSE {i \in defaultFlow(p.to, p.msg.src, p.msg.dest) : table[p.to][i].ttl = p.msg.ttl}

\* handleFlowForwarding puts the flow's timeout off.
ForwardByFlow(p) ==
  /\ AtRelay(p)
  /\ p.route = <<>>
  /\ \E i \in FlowOf(p) :
       /\ air' = (air \ {p}) \cup PassedOn(p, NextHop(table[p.to][i]))
       /\ table' = IF p.msg.ttl = 0 THEN table
                   ELSE [table EXCEPT ![p.to][i].alive = TRUE]
  /\ UNCHANGED <<dflt, counter, routes, told, todo, world>>

\* What findRoute may return for each node that the paths P reach.
Routings(P) ==
  LET reached == {d \in Node : ToDest(P, d) # {}}
  IN {f \in [reached -> UNION {Shortest(P, d) : d \in reached}] :
        \A d \in reached : f[d] \in Shortest(P, d)}

\* undeliverablePkt: what relay x, with these routes, sends on of the messages M,
\* along a route of its own and with no flow.
Salvaged(x, route, M) ==
  {Packet([m EXCEPT !.salvaged = @ + 1], route[m.dest], 1, NoFlow, x, route[m.dest][2]) :
     m \in {k \in M : k.salvaged < MaxSalvage /\ k.dest \in DOMAIN route}}

\* sendUnknownFlow: a copy of the packet is salvaged, and the packet itself is
\* turned into an error to its source, over the errors that it has already.
\* The limit on unknown flows looks at the number of unknown defaults.
Full(p) ==
  /\ Len(p.msg.derrs) >= MaxErrors
  /\ p.fid = NoFlow \/ p.msg.errs # <<>>

Nested(p) ==
  LET asDefault == p.fid = NoFlow
      m == p.msg
      e == [src |-> m.src, dst |-> m.dest, id |-> IF asDefault THEN 0 ELSE p.fid]
  IN [m EXCEPT !.src = p.to, !.dest = m.src, !.ttl = ErrorTTL,
               !.errs = IF asDefault THEN @ ELSE Append(@, e),
               !.derrs = IF asDefault THEN Append(@, e) ELSE @]

sendUnknownFlow(p) ==
  /\ AtRelay(p)
  /\ p.route = <<>>
  /\ FlowOf(p) = {}
  /\ IF p.msg.src = p.to THEN air' = air \ {p}
     ELSE \E r \in Routings(routes[p.to]) :
            air' = (air \ {p}) \cup Salvaged(p.to, r, {p.msg})
  /\ todo' = IF p.msg.src = p.to \/ Full(p) THEN <<>>
             ELSE <<[at |-> p.to, msg |-> Nested(p)]>>
  /\ UNCHANGED <<flows, routes, told, world>>

-----------------------------------------------------------------------------
(* At the destination: handlePacketReceipt, processUnknownFlowError *)

\* The flow that an unknown-flow error is about.
ToldUnknown(n, E) ==
  IF E = <<>> \/ Last(E).src # n \/ dflt[n][<<n, Last(E).dst>>] = NoFlow THEN {}
  ELSE find(n, n, Last(E).dst, Last(E).id)

\* For an unknown default the id is read before it is set: any flow of the two
\* nodes may be taken, or none.
ToldDefault(n, E) ==
  IF E = <<>> \/ Last(E).src # n THEN {}
  ELSE {i \in DOMAIN table[n] : table[n][i].src = n /\ table[n][i].dst = Last(E).dst}

\* The errors under error m go to the node that the next one of them tells.  An
\* unknown flow whose destination has no default flow here is not looked at.
Inner(n, m, E) ==
  [m EXCEPT !.src = n, !.dest = E[Len(E) - 1].src, !.ttl = ErrorTTL]

Unwrapped(n, m) ==
  (IF Len(m.errs) > 1
      /\ (Last(m.errs).src = n \/ dflt[n][<<Last(m.errs).src, Last(m.errs).dst>>] = NoFlow)
   THEN <<[at |-> n, msg |-> [Inner(n, m, m.errs) EXCEPT !.errs = Front(@)]]>> ELSE <<>>)
  \o (IF Len(m.derrs) > 1 /\ Last(m.derrs).src = n
      THEN <<[at |-> n, msg |-> [Inner(n, m, m.derrs) EXCEPT !.derrs = Front(@)]]>>
      ELSE <<>>)

\* The flow is sent with its route again.
Doubted(n, I) ==
  [table EXCEPT ![n] =
     [i \in DOMAIN @ |-> IF i \in I THEN [@[i] EXCEPT !.count = 0] ELSE @[i]]]

handlePacketReceipt(n, m) ==
  \E d \in {{}} \cup {{i} : i \in ToldDefault(n, m.derrs)} :
    table' = Doubted(n, ToldUnknown(n, m.errs) \cup d)

Receive(p) ==
  /\ Comes(p)
  /\ p.to = p.msg.dest
  /\ handlePacketReceipt(p.to, p.msg)
  /\ air' = air \ {p}
  /\ todo' = Unwrapped(p.to, p.msg)
  /\ UNCHANGED <<dflt, counter, routes, told, world>>

\* The next error tells the node itself, which relayed one of the messages
\* between.
ReceiveOwn ==
  /\ ~Idle
  /\ m0.dest = n0
  /\ handlePacketReceipt(n0, m0)
  /\ todo' = Unwrapped(n0, m0) \o Tail(todo)
  /\ UNCHANGED <<dflt, counter, routes, air, told, world>>

-----------------------------------------------------------------------------
(* A transmission that fails: xmitFlowFailed and xmitFailed *)

\* Mutant: a packet with a flow id is put down to the default flow too.
BelievedDefault(p) ==
  IF p.route # <<>> THEN {[route |-> p.route, hop |-> p.hop - 1]}
  ELSE {[route |-> e.route, hop |-> e.hop] :
          e \in {table[p.from][i] : i \in defaultFlow(p.from, p.msg.src, p.msg.dest)}}

\* Where the sender thinks packet p was going: by its route, or by its flow's,
\* which for a packet without a header is the default flow of now.
Believed(p) ==
  LET x == p.from
      I == IF p.fid # NoFlow THEN find(x, p.msg.src, p.msg.dest, p.fid)
           ELSE defaultFlow(x, p.msg.src, p.msg.dest)
  IN IF p.route # <<>> THEN {[route |-> p.route, hop |-> p.hop - 1]}
     ELSE {[route |-> table[x][i].route, hop |-> table[x][i].hop] :
             i \in {j \in I : table[x][j].alive}}

Fails(p) == Idle /\ p \in air /\ {p.from, p.to} \notin links

\* The flow has timed out: the packet is left to itself.  (FlowFollowsRoute says
\* why the unknown-flow error for want of a default flow is never sent here.)
FailExpired(p) ==
  /\ Fails(p)
  /\ Believed(p) = {}
  /\ air' = air \ {p}
  /\ UNCHANGED <<flows, routes, told, todo, world>>

\* The queue's packets for the same next hop go with p: the node's own ones are
\* sent again, the others are salvaged.
xmitFailed(p) ==
  /\ Fails(p)
  /\ \E b \in Believed(p) :
       LET x == p.from
           y == NextHop(b)
       IN /\ noticeDeadLink(x, x, y)
          /\ told' = IF b.route[1] = x THEN told
                     ELSE told \cup {[to |-> b.route[1], a |-> x, b |-> y]}
          /\ \E Q \in SUBSET {q \in air : q.from = x /\ q.to = y /\ q # p} :
               LET failed == {q.msg : q \in {p} \cup Q}
                   own == {m \in failed : m.src = x}
               IN /\ \E r \in Routings(routes'[x]) :
                       air' = (air \ ({p} \cup Q)) \cup Salvaged(x, r, failed \ own)
                  /\ \E s \in SetToSeqs(own) :
                       todo' = [i \in DOMAIN s |-> [at |-> x, msg |-> s[i]]]
  /\ UNCHANGED world

\* A route error reaches the node it tells, or is noticed by another on the way.
HearRouteError(n, e) ==
  /\ Idle
  /\ e \in told
  /\ noticeDeadLink(n, e.a, e.b)
  /\ told' = IF n = e.to THEN told \ {e} ELSE told
  /\ UNCHANGED <<air, todo, world>>

-----------------------------------------------------------------------------
(* The channel, the clock and route discovery *)

Lose(p) ==
  /\ Idle
  /\ p \in air
  /\ air' = air \ {p}
  /\ UNCHANGED <<flows, routes, told, todo, world>>

\* min_adv_interval passes without an advertisement ...
Age(n, i) ==
  /\ Idle
  /\ table[n][i].adv
  /\ table' = [table EXCEPT ![n][i].adv = FALSE]
  /\ UNCHANGED <<dflt, counter, routes, air, told, todo, world>>

\* ... or the flow's timeout does.
Expire(n, i) ==
  /\ Idle
  /\ table[n][i].alive
  /\ table' = [table EXCEPT ![n][i].alive = FALSE]
  /\ UNCHANGED <<dflt, counter, routes, air, told, todo, world>>

Discover(r) ==
  /\ Idle
  /\ r \notin routes[r[1]]
  /\ \A i \in 1 .. Len(r) - 1 : {r[i], r[i + 1]} \in links
  /\ routes' = [routes EXCEPT ![r[1]] = @ \cup {r}]
  /\ UNCHANGED <<flows, air, told, todo, world>>

Move(l) ==
  /\ Idle
  /\ moves < MaxMoves
  /\ links' = IF l \in links THEN links \ {l} ELSE links \cup {l}
  /\ moves' = moves + 1
  /\ UNCHANGED <<flows, routes, air, told, todo, due>>

Sending == NewFlow \/ Advertise \/ UseFlow \/ NoRoute \/ ReceiveOwn

OnTheAir(p) ==
  \/ ForwardByRoute(p) \/ ForwardByFlow(p) \/ sendUnknownFlow(p)
  \/ Receive(p) \/ FailExpired(p) \/ xmitFailed(p) \/ Lose(p)

Next ==
  \/ Originate
  \/ Sending
  \/ \E p \in air : OnTheAir(p)
  \/ \E n \in Node, e \in told : HearRouteError(n, e)
  \/ \E n \in Node : \E i \in DOMAIN table[n] : Age(n, i) \/ Expire(n, i)
  \/ \E r \in Discovered : Discover(r)
  \/ \E l \in Mobile : Move(l)

Spec == Init /\ [][Next]_vars

-----------------------------------------------------------------------------
(* Properties *)

\* A flow id means one route: wherever a flow has entries they have the same
\* route, each at the place of its node on it, and a packet with the id is on a
\* link of that route.  A packet without a header is on a link of one of the
\* flows of its source and destination, and its sender has a default flow for
\* them, so that xmitFlowFailed never has to send an unknown-flow error.
FlowFollowsRoute ==
  /\ \A n \in Node : \A i \in DOMAIN table[n] :
       LET e == table[n][i]
           I == find(e.src, e.src, e.dst, e.id)
       IN /\ e.route[e.hop + 1] = n
          /\ Cardinality(find(n, e.src, e.dst, e.id)) = 1
          /\ \E j \in I : table[e.src][j].route = e.route
  /\ \A p \in air : p.fid # NoFlow \/ p.route = <<>> =>
       \E j \in DOMAIN table[p.msg.src] :
         LET e == table[p.msg.src][j]
         IN /\ e.dst = p.msg.dest /\ HasLink(e.route, p.from, p.to)
            /\ p.fid \in {e.id, NoFlow}
  /\ \A p \in air : p.fid = NoFlow /\ p.route = <<>> =>
       defaultFlow(p.from, p.msg.src, p.msg.dest) # {}

\* The default flow of two nodes is the newest that a node knows, and it knows
\* it, in whatever order the establishing packets came.
DefaultIsNewest ==
  \A n \in Node, s \in Node, d \in Node :
    LET F == {table[n][i].id : i \in {j \in DOMAIN table[n] :
                table[n][j].src = s /\ table[n][j].dst = d}}
    IN IF F = {} THEN dflt[n][<<s, d>>] = NoFlow
       ELSE /\ dflt[n][<<s, d>>] \in F
            /\ \A f \in F : f = dflt[n][<<s, d>>] \/ Newer(dflt[n][<<s, d>>], f)

\* A flow of its own that a node has once given up is not taken up again.
NotRevived ==
  [][\A n \in Node : \A i \in DOMAIN table[n] :
       table[n][i].src = n /\ ~table[n][i].alive => ~table'[n][i].alive]_vars

\* A link that a route error names was down when the packet failed, but for a
\* packet without a header, which is put down to the default flow of then.
BlameJust ==
  [][\A e \in told' \ told :
       \/ {e.a, e.b} \notin links
       \/ \E p \in air \ air' : p.from = e.a /\ p.route = <<>> /\ p.fid = NoFlow]_vars

=============================================================================
